------------------------------ MODULE AuditLog ------------------------------
(***************************************************************************)
(* What the write-ahead log promises to the gateway and to the ledger,     *)
(* with no file, no page cache and no torn line in it: a hash-chained      *)
(* sequence of records whose acknowledged prefix never changes.            *)
(*                                                                         *)
(* A record may appear before it is acknowledged (the process died after   *)
(* writing it), and an unacknowledged suffix may vanish in a crash.        *)
(***************************************************************************)
EXTENDS Naturals, Sequences

CONSTANTS
    Records,        \* the records a log can hold
    Follows(_, _)   \* Follows(log, r): r is chained on the head of log

VARIABLES
    log,     \* the records a replay of the log returns
    acked    \* how many of them were acknowledged to a writer

Init ==
    /\ log = << >>
    /\ acked = 0

(* A record becomes visible at the end of the log.                         *)
Grow ==
    /\ \E r \in Records : Follows(log, r) /\ log' = Append(log, r)
    /\ UNCHANGED acked

(* Everything visible is made durable and acknowledged.                    *)
Acknowledge ==
    /\ acked' = Len(log)
    /\ UNCHANGED log

(* A crash loses a suffix, never an acknowledged record.                   *)
Lose ==
    /\ \E k \in acked .. Len(log) : log' = SubSeq(log, 1, k)
    /\ UNCHANGED acked

Next == Grow \/ Acknowledge \/ Lose

Spec == Init /\ [][Next]_<<log, acked>>
=============================================================================
