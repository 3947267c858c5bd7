------------------------------- MODULE MCWal -------------------------------
(* Wal on a small instance, and its refinement of AuditLog.                *)
EXTENDS Wal, FiniteSets

(* What a replay of the file returns to a reader.                          *)
Visible ==
    LET n == CHOOSE k \in 0 .. Len(file) : Replays(file, k)
    IN  [i \in 1 .. n |-> file[i].rec]

(* Sequence numbers start at 0, so the highest acknowledged one counts the *)
(* records below it.                                                       *)
AckedLen ==
    IF acked = {} THEN 0
    ELSE 1 + (CHOOSE m \in {r.seq : r \in acked} :
                 \A r \in acked : r.seq <= m)

SmallRecords ==
    [seq : 0 .. MaxRecords, prev : 0 .. MaxRecords, uid : 1 .. MaxRecords,
     kind : {"own", "foreign"}]

ChainsOn(log, r) ==
    /\ r.seq = Len(log)
    /\ r.prev = IF log = << >> THEN GENESIS ELSE log[Len(log)].uid

AL == INSTANCE AuditLog WITH
          Records <- SmallRecords, Follows <- ChainsOn,
          log <- Visible, acked <- AckedLen

(* The log on disk implements the abstract audit log: records appear at    *)
(* the end, an acknowledged prefix is never altered, and a crash only      *)
(* loses what was not acknowledged (Wal::append, replay and the trim).     *)
ImplementsAuditLog == AL!Spec
=============================================================================
