-------------------------------- MODULE Wal --------------------------------
(***************************************************************************)
(* The gateway's write-ahead log (crates/obsign-wal) together with the     *)
(* hash chain positioned on it (ChainWriter of obsign-audit-core) and the  *)
(* one path that feeds it (Session::write of obsign-proxy).                *)
(*                                                                         *)
(* A file is a sequence of lines.  A line holds one record's JSON, or text *)
(* that does not parse, or bytes that are not UTF-8; only the last line    *)
(* may lack its newline.  `file' is what every process reads (the page     *)
(* cache), `disk' is what the last fsync made durable.  A hash is the      *)
(* number of the write that produced the record: no two writes collide.    *)
(***************************************************************************)
EXTENDS Integers, Sequences

CONSTANTS
    MaxRecords,     \* bound: records ever put in the log, by anyone
    MaxCrashes,     \* bound: crashes, power losses and I/O errors
    MaxOther,       \* bound: records put in the log by somebody else
    Authenticated,  \* TRUE: open_authenticated, FALSE: open
    Faults          \* which faults the environment can inject

(* power      the machine loses power: what was not fsync'd may be lost    *)
(* torn       the process dies inside write_all(line)                      *)
(* gap        the process dies between the line and its newline            *)
(* utf8       a torn line may end inside a multi-byte character            *)
(* create     the process dies between creating the file and sync_dir      *)
(* io         a write or an fsync of the log returns an error              *)
(* sign       the origin signer returns an error                           *)
(* carry_on   after an error the process keeps serving (HTTP transport,    *)
(*            ignored effect writes) instead of exiting (stdio transport)  *)
AllFaults ==
    {"power", "torn", "gap", "utf8", "create", "io", "sign", "carry_on"}

ASSUME BoundsAssumption ==
    /\ MaxRecords \in Nat
    /\ MaxCrashes \in Nat
    /\ MaxOther \in Nat

ASSUME ModeAssumption ==
    /\ Authenticated \in BOOLEAN
    /\ Faults \subseteq AllFaults

VARIABLES
    file,     \* the lines of <chain>.jsonl as any process reads them
    disk,     \* the lines the last fsync (or the last power loss) left
    dirent,   \* the directory entry: "absent", "volatile" or "durable"
    pc,       \* where the gateway process is (see PCs)
    chain,    \* ChainWriter: next_seq and head
    cur,      \* the record Session::write is writing
    acked,    \* history: the records whose write returned Ok
    issued,   \* history: how many records were ever made
    other,    \* history: how many of them somebody else made
    crashes,  \* history: how many faults happened
    result    \* outcome of the last open

vars == <<file, disk, dirent, pc, chain, cur, acked, issued, other, crashes,
          result>>

-----------------------------------------------------------------------------
(***************************************************************************)
(* Records, lines and files.                                               *)
(***************************************************************************)

(* own      signed by a trusted origin key, payload known to this build    *)
(* foreign  not signed by any trusted origin key                           *)
(* newer    signed by a trusted key, payload type unknown to this build    *)
Kinds == {"own", "foreign", "newer"}

Record == [seq : Nat, prev : Int, uid : Nat, kind : Kinds]

GENESIS == 0

NoRecord == [seq |-> 0, prev |-> GENESIS, uid |-> 0, kind |-> "own"]

(* The hash this build computes.  For a payload it has no schema for, that *)
(* is its own opinion of an opaque blob, never the producer's hash.        *)
Hash(r) == IF r.kind = "newer" THEN -r.uid ELSE r.uid

Texts == {"record", "garbled", "not_utf8"}

Line == [text : Texts, rec : Record, nl : BOOLEAN]

Whole(r, nl) == [text |-> "record", rec |-> r, nl |-> nl]

Broken(text, nl) == [text |-> text, rec |-> NoRecord, nl |-> nl]

(* The file does not end in a newline: the next byte joins the last line.  *)
OpenTail(f) == f # << >> /\ ~f[Len(f)].nl

(* Bytes appended to the file, with no newline among them.  Joined to an   *)
(* unfinished line they give text that is no record.                       *)
Put(f, line) ==
    IF OpenTail(f)
    THEN [f EXCEPT ![Len(f)] =
             Broken(IF "not_utf8" \in {f[Len(f)].text, line.text}
                    THEN "not_utf8" ELSE "garbled", FALSE)]
    ELSE Append(f, line)

PutNewline(f) == [f EXCEPT ![Len(f)].nl = TRUE]

-----------------------------------------------------------------------------
(***************************************************************************)
(* replay: parse every line, check seq and prev_hash, tolerate an          *)
(* unparsable last line.                                                   *)
(***************************************************************************)

(* Line i parses and chains on line i - 1.  The first record's seq is not  *)
(* checked (expected_seq starts at None), its prev_hash is.                *)
GoodLine(f, i) ==
    /\ f[i].text = "record"
    /\ IF i = 1
       THEN f[i].rec.prev = GENESIS
       ELSE /\ f[i].rec.seq = f[i - 1].rec.seq + 1
            /\ f[i].rec.prev = Hash(f[i - 1].rec)

GoodPrefix(f, n) == \A i \in 1 .. n : GoodLine(f, i)

(* Mutant of Replays: an unparsable last line is refused like any other.   *)
ReplaysNoTail(f, n) == GoodPrefix(f, n) /\ n = Len(f)

(* replay returns Ok with the first n lines.                               *)
Replays(f, n) ==
    /\ GoodPrefix(f, n)
    /\ \/ n = Len(f)
       \/ n = Len(f) - 1 /\ f[Len(f)].text = "garbled"

ReplayOk(f) == \E n \in 0 .. Len(f) : Replays(f, n)

(* The error of a replay, by the line it stops at.                         *)
ErrorOf(line) ==
    CASE line.text = "not_utf8" -> "Io"
      [] line.text = "garbled"  -> "Corrupt"
      [] line.text = "record"   -> "BrokenChain"

(* Mutant of Trim: the torn tail is left in place.                         *)
TrimNothing(f, n) == f

(* Mutant of Trim: good_len forgets the newline of the last line.          *)
TrimShort(f, n) == SubSeq(f, 1, IF n = 0 THEN 0 ELSE n - 1)

(* set_len(good_len): good_len counts a newline for every good line, so a  *)
(* last record without its newline is not left alone, the file is extended *)
(* by one zero byte and the line no longer parses.                         *)
Trim(f, n) ==
    IF n = Len(f) /\ OpenTail(f)
    THEN [f EXCEPT ![n] = Broken("garbled", FALSE)]
    ELSE SubSeq(f, 1, n)

-----------------------------------------------------------------------------

PCs == {"down",      \* no process
        "created",   \* open: the file was just created
        "idle",      \* the session is open, no write in progress
        "line",      \* write: chained and signed, nothing written yet
        "newline",   \* write: the line is in the file
        "sync"}      \* write: the newline is in the file

Results == {"none", "ok", "Io", "Corrupt", "BrokenChain", "ForeignRecord",
            "UnreadablePayload"}

NewChain == [next_seq |-> 0, head |-> GENESIS]

(* Mutant of ResumeAt: resume at last.seq instead of last.seq + 1.         *)
ResumeAtLastSeq(f, n) ==
    IF n = 0 THEN NewChain
    ELSE [next_seq |-> f[n].rec.seq, head |-> Hash(f[n].rec)]

(* ChainWriter::resume(last.seq + 1, last.hash()), or ChainWriter::new.    *)
ResumeAt(f, n) ==
    IF n = 0 THEN NewChain
    ELSE [next_seq |-> f[n].rec.seq + 1, head |-> Hash(f[n].rec)]

Init ==
    /\ file = << >>
    /\ disk = << >>
    /\ dirent = "absent"
    /\ pc = "down"
    /\ chain = NewChain
    /\ cur = NoRecord
    /\ acked = {}
    /\ issued = 0
    /\ other = 0
    /\ crashes = 0
    /\ result = "none"

-----------------------------------------------------------------------------
(***************************************************************************)
(* Wal::open_impl.                                                         *)
(***************************************************************************)

(* No such file: it is created empty, its directory entry not yet durable. *)
OpenNew ==
    /\ pc = "down"
    /\ dirent = "absent"
    /\ file' = << >>
    /\ disk' = << >>
    /\ dirent' = "volatile"
    /\ pc' = "created"
    /\ UNCHANGED <<chain, cur, acked, issued, other, crashes, result>>

(* Mutant of Trusted: the key the record names is not looked up.           *)
TrustedAnyone(r) == r.kind \in Kinds

(* Mutant of Trusted: a signature is found good without its bytes.         *)
TrustedSigned(r) == r.kind # "foreign"

(* sync_dir, then ChainWriter::new.                                        *)
SyncDir ==
    /\ pc = "created"
    /\ dirent' = "durable"
    /\ chain' = NewChain
    /\ pc' = "idle"
    /\ result' = "ok"
    /\ UNCHANGED <<file, disk, cur, acked, issued, other, crashes>>

(* The key is in the trusted set and its signature over the hash this      *)
(* build computes verifies.  A newer build signed another hash.            *)
Trusted(r) == r.kind = "own"

(* Mutant of Understood: every payload is taken for one of this build's.   *)
UnderstoodAny(r) == r.kind \in Kinds

Understood(r) == r.kind # "newer"

(* The file exists and replays: authenticate every record before touching  *)
(* anything, trim, and only then refuse payloads this build cannot hash.   *)
OpenExisting ==
    /\ pc = "down"
    /\ dirent # "absent"
    /\ \E n \in 0 .. Len(file) :
        /\ Replays(file, n)
        /\ \/ /\ Authenticated
              /\ \E i \in 1 .. n : ~Trusted(file[i].rec)
              /\ result' = "ForeignRecord"
              /\ UNCHANGED <<file, pc, chain>>
           \/ /\ Authenticated => \A i \in 1 .. n : Trusted(file[i].rec)
              /\ file' = Trim(file, n)
              /\ \/ /\ \E i \in 1 .. n : ~Understood(file[i].rec)
                    /\ result' = "UnreadablePayload"
                    /\ UNCHANGED <<pc, chain>>
                 \/ /\ \A i \in 1 .. n : Understood(file[i].rec)
                    /\ chain' = ResumeAt(file, n)
                    /\ pc' = "idle"
                    /\ result' = "ok"
    /\ UNCHANGED <<disk, dirent, cur, acked, issued, other, crashes>>

(* replay fails: open returns its error and nothing is trimmed or adopted. *)
OpenUnreadable ==
    /\ pc = "down"
    /\ dirent # "absent"
    /\ ~ReplayOk(file)
    /\ \E i \in 1 .. Len(file) :
        /\ GoodPrefix(file, i - 1)
        /\ ~GoodLine(file, i)
        /\ result' = ErrorOf(file[i])
    /\ UNCHANGED <<file, disk, dirent, pc, chain, cur, acked, issued, other,
                   crashes>>

-----------------------------------------------------------------------------
(***************************************************************************)
(* Session::write: ChainWriter::append, the origin signature, then         *)
(* Wal::append (line, newline, sync_data).                                 *)
(***************************************************************************)

(* Mutant of BeginWrite: seq is the previous record's.                     *)
BeginWriteBehind ==
    /\ pc = "idle"
    /\ issued < MaxRecords
    /\ issued' = issued + 1
    /\ cur' = [seq |-> chain.next_seq - 1, prev |-> chain.head,
               uid |-> issued + 1, kind |-> "own"]
    /\ chain' = [next_seq |-> chain.next_seq + 1, head |-> Hash(cur')]
    /\ pc' = "line"
    /\ UNCHANGED <<file, disk, dirent, acked, other, crashes, result>>

(* Chain the record and sign it.  The chain has moved on from here, whether*)
(* or not the record reaches the file.                                     *)
BeginWrite ==
    /\ pc = "idle"
    /\ issued < MaxRecords
    /\ issued' = issued + 1
    /\ cur' = [seq |-> chain.next_seq, prev |-> chain.head,
               uid |-> issued + 1, kind |-> "own"]
    /\ chain' = [next_seq |-> chain.next_seq + 1, head |-> Hash(cur')]
    /\ pc' = "line"
    /\ UNCHANGED <<file, disk, dirent, acked, other, crashes, result>>

WriteLine ==
    /\ pc = "line"
    /\ file' = Put(file, Whole(cur, FALSE))
    /\ pc' = "newline"
    /\ UNCHANGED <<disk, dirent, chain, cur, acked, issued, other, crashes,
                   result>>

WriteNewline ==
    /\ pc = "newline"
    /\ file' = PutNewline(file)
    /\ pc' = "sync"
    /\ UNCHANGED <<disk, dirent, chain, cur, acked, issued, other, crashes,
                   result>>

(* Mutant of SyncData: write returns Ok without the fsync.                 *)
SyncDataNoFsync ==
    /\ pc = "sync"
    /\ acked' = acked \cup {cur}
    /\ pc' = "idle"
    /\ UNCHANGED <<file, disk, dirent, chain, cur, issued, other, crashes,
                   result>>

(* sync_data returns: the record is durable, write returns Ok, and the act *)
(* it describes may be forwarded.                                          *)
SyncData ==
    /\ pc = "sync"
    /\ disk' = file
    /\ acked' = acked \cup {cur}
    /\ pc' = "idle"
    /\ UNCHANGED <<file, dirent, chain, cur, issued, other, crashes, result>>

-----------------------------------------------------------------------------
(***************************************************************************)
(* Faults.                                                                 *)
(***************************************************************************)

Strike(f) ==
    /\ f \in Faults
    /\ crashes < MaxCrashes
    /\ crashes' = crashes + 1

(* What part of a line can be left in the file by a write cut short.       *)
Fragments ==
    {Broken("garbled", FALSE)} \cup
    (IF "utf8" \in Faults THEN {Broken("not_utf8", FALSE)} ELSE {})

(* write returned an error with `?': the process exits, or, under          *)
(* "carry_on", answers the caller with an error and keeps the session.     *)
AfterError == pc' \in {"down"} \cup
                      (IF "carry_on" \in Faults THEN {"idle"} ELSE {})

SignFails ==
    /\ Strike("sign")
    /\ pc = "line"
    /\ AfterError
    /\ UNCHANGED <<file, disk, dirent, chain, cur, acked, issued, other,
                   result>>

(* write_all(line) fails (disk full): nothing or part of it was written.   *)
WriteLineFails ==
    /\ Strike("io")
    /\ pc = "line"
    /\ file' \in {file} \cup {Put(file, b) : b \in Fragments}
    /\ AfterError
    /\ UNCHANGED <<disk, dirent, chain, cur, acked, issued, other, result>>

WriteNewlineFails ==
    /\ Strike("io")
    /\ "gap" \in Faults
    /\ pc = "newline"
    /\ AfterError
    /\ UNCHANGED <<file, disk, dirent, chain, cur, acked, issued, other,
                   result>>

SyncDataFails ==
    /\ Strike("io")
    /\ pc = "sync"
    /\ AfterError
    /\ UNCHANGED <<file, disk, dirent, chain, cur, acked, issued, other,
                   result>>

(* A clean exit, or a kill between two writes.  Never between the line and *)
(* its newline, nor between the creation and sync_dir: these are faults.   *)
Stop ==
    /\ pc \in {"idle", "line", "sync"}
    /\ crashes < MaxCrashes
    /\ crashes' = crashes + 1
    /\ pc' = "down"
    /\ UNCHANGED <<file, disk, dirent, chain, cur, acked, issued, other,
                   result>>

(* The process is killed inside write_all(line).                           *)
KillTorn ==
    /\ Strike("torn")
    /\ pc = "line"
    /\ \E b \in Fragments : file' = Put(file, b)
    /\ pc' = "down"
    /\ UNCHANGED <<disk, dirent, chain, cur, acked, issued, other, result>>

KillGap ==
    /\ Strike("gap")
    /\ pc = "newline"
    /\ pc' = "down"
    /\ UNCHANGED <<file, disk, dirent, chain, cur, acked, issued, other,
                   result>>

KillCreated ==
    /\ Strike("create")
    /\ pc = "created"
    /\ pc' = "down"
    /\ UNCHANGED <<file, disk, dirent, chain, cur, acked, issued, other,
                   result>>

(* Line i is in the file as the last fsync left it: it cannot be lost.     *)
Settled(i) == i <= Len(file) /\ \A j \in 1 .. i : file[j] = disk[j]

(* What a power loss can leave of the next line: nothing, a fragment, or,  *)
(* under "gap", the whole record without its newline.                      *)
Remnants(k) ==
    IF k = Len(file) THEN {<< >>}
    ELSE {<< >>} \cup {<<b>> : b \in Fragments} \cup
         (IF "gap" \in Faults /\ file[k + 1].text = "record"
          THEN {<<Whole(file[k + 1].rec, FALSE)>>} ELSE {})

(* Power is lost.  A file whose directory entry was never synced may be    *)
(* gone.  Otherwise the machine comes back with the disk as last synced,   *)
(* or with more of what the page cache held, cut anywhere after what the   *)
(* two have in common.                                                     *)
PowerLoss ==
    /\ Strike("power")
    /\ dirent # "absent"
    /\ \/ /\ dirent = "volatile"
          /\ file' = << >>
          /\ dirent' = "absent"
       \/ /\ file' = disk
          /\ dirent' = "durable"
       \/ /\ \E k \in 0 .. Len(file) :
               /\ \A i \in 1 .. Len(disk) : Settled(i) => i <= k
               /\ k > 0 /\ "gap" \notin Faults =>
                      file[k].nl \/ file[k].text # "record"
               /\ \E rest \in Remnants(k) :
                    file' = SubSeq(file, 1, k) \o rest
          /\ dirent' = "durable"
    /\ disk' = file'
    /\ pc' = "down"
    /\ UNCHANGED <<chain, cur, acked, issued, other, result>>

(* While no gateway runs, somebody else appends a well-chained record: a   *)
(* writer without a trusted key, or a newer build of the gateway.          *)
OtherRecord(kind) ==
    LET n == Len(file)
    IN  [seq  |-> IF n = 0 THEN 0 ELSE file[n].rec.seq + 1,
         prev |-> IF n = 0 THEN GENESIS ELSE file[n].rec.uid,
         uid  |-> issued + 1,
         kind |-> kind]

OtherAppends ==
    /\ pc = "down"
    /\ other < MaxOther
    /\ issued < MaxRecords
    /\ dirent = "durable"
    /\ file # << >> => file[Len(file)].nl /\ file[Len(file)].text = "record"
    /\ issued' = issued + 1
    /\ other' = other + 1
    /\ UNCHANGED <<dirent, pc, chain, cur, acked, crashes, result>>

OtherWriter ==
    /\ OtherAppends
    /\ \E kind \in {"foreign", "newer"} :
          file' = Append(file, Whole(OtherRecord(kind), TRUE))
    /\ disk' = file'

(* It is killed on the way: before the fsync, or, like the gateway,        *)
(* between the line and its newline or inside the line.                    *)
OtherKilled ==
    /\ OtherAppends
    /\ \E kind \in {"foreign", "newer"} :
          LET r == OtherRecord(kind)
          IN  \E line \in {Whole(r, TRUE)}
                    \cup (IF "gap" \in Faults THEN {Whole(r, FALSE)} ELSE {})
                    \cup (IF "torn" \in Faults THEN Fragments ELSE {}) :
                  file' = Append(file, line)
    /\ UNCHANGED disk

-----------------------------------------------------------------------------

Open == OpenNew \/ SyncDir \/ OpenExisting \/ OpenUnreadable

Write == BeginWrite \/ WriteLine \/ WriteNewline \/ SyncData

Fault ==
    \/ SignFails \/ WriteLineFails \/ WriteNewlineFails \/ SyncDataFails
    \/ Stop \/ KillTorn \/ KillGap \/ KillCreated \/ PowerLoss

Next == Open \/ Write \/ Fault \/ OtherWriter \/ OtherKilled

(* A stopped gateway is started again (a supervisor restarts it, a client  *)
(* spawns it), and an open in progress goes on.                            *)
Fairness == WF_vars(OpenNew \/ OpenExisting) /\ WF_vars(SyncDir)

Spec == Init /\ [][Next]_vars

FairSpec == Spec /\ Fairness

-----------------------------------------------------------------------------
(***************************************************************************)
(* Properties.                                                             *)
(***************************************************************************)

(* The state of the file, of the chain and of the process keep their types *)
(* (Wal, ChainWriter): sequence numbers never go below zero.               *)
TypeOK ==
    /\ file \in Seq(Line)
    /\ pc \in {"newline", "sync"} => file # << >>
    /\ disk \in Seq(Line)
    /\ dirent \in {"absent", "volatile", "durable"}
    /\ pc \in PCs
    /\ chain \in [next_seq : Nat, head : Int]
    /\ cur \in Record
    /\ acked \subseteq Record
    /\ issued \in Nat
    /\ other \in Nat
    /\ crashes \in Nat
    /\ result \in Results

(* Every record whose write returned Ok (so its act may have been          *)
(* forwarded) is returned by any replay of the file, now and after any     *)
(* crash, power loss, restart or trim.                                     *)
AckedReplay ==
    \A r \in acked :
        \E i \in 1 .. Len(file) : file[i].rec = r /\ GoodPrefix(file, i)

(* A log nobody tampered with is never reported as damaged: a replay, by   *)
(* the gateway or by a reader in the middle of an append, succeeds.        *)
HonestLogReplays ==
    (\A i \in 1 .. Len(file) : Understood(file[i].rec)) => ReplayOk(file)

(* Between two writes the chain in memory is the one that reopening the    *)
(* file would rebuild: it is never ahead of the log nor behind it.         *)
WriterAtTail ==
    pc = "idle" =>
        /\ Replays(file, Len(file))
        /\ ~OpenTail(file)
        /\ chain = ResumeAt(file, Len(file))

(* The gateway never chains a record of its own on one that it cannot      *)
(* hash, be it by the hash its producer gave it or by the one this build   *)
(* computes, nor, when it authenticates, on one no trusted key signed      *)
(* (Wal::open_impl).                                                       *)
NoLaundering ==
    \A i, j \in 1 .. Len(file) :
        /\ file[i].text = "record" /\ file[i].rec.kind = "own"
        /\ file[j].text = "record"
        /\ file[i].rec.prev \in {file[j].rec.uid, Hash(file[j].rec)}
        => /\ file[j].rec.kind # "newer"
           /\ Authenticated => file[j].rec.kind # "foreign"

(* An open that is refused loses no record, whatever the reason of the     *)
(* refusal: the evidence stays as found (Wal::open_impl).  So it is when   *)
(* records are authenticated, which comes before the trim; a payload this  *)
(* build does not understand is found only after it.                       *)
RefusalKeepsEvidence ==
    [][pc = "down" /\ pc' = "down" /\ crashes' = crashes =>
           \A i \in 1 .. Len(file) :
               file[i].text = "record" =>
                   i <= Len(file') /\ file'[i] = file[i]]_vars

(* A gateway that went down on its own log always opens it again.          *)
Recovers == pc = "down" ~> (pc = "idle" \/ other > 0)
=============================================================================
