------------------------------- MODULE Ledger -------------------------------
(***************************************************************************)
(* The ledger: sealing passes over the gateway's log (obsign-ledger/src/   *)
(* pass.rs, main.rs) into a store of chained checkpoints (store.rs).       *)
(*                                                                         *)
(* The log is the abstract one of AuditLog, which Wal implements: what     *)
(* obsign_wal::read returns.  The hash of a record or of a checkpoint is   *)
(* the number under which it was made.                                     *)
(***************************************************************************)
EXTENDS Naturals, Sequences, FiniteSets

CONSTANTS
    Ledgers,      \* processes that run passes on this chain and this store
    SealKeys,     \* sealing keys: [id, pub]
    Origins,      \* how a record can be signed (see AllOrigins)
    Require,      \* OriginPolicy.require
    MinNew,       \* --min-new, at least 1 (min_new.max(1))
    Faults,       \* what can go wrong around the store (see AllFaults)
    MaxRecords,   \* bound: records ever written
    MaxSeals,     \* bound: checkpoints ever made
    MaxExports,   \* bound: exports made
    MaxCrashes,   \* bound: crashes of a ledger or of its machine
    MaxLosses,    \* bound: times the log loses an unacknowledged suffix
    MaxRewrites   \* bound: times somebody rewrites the log

(* torn    the process dies inside write_all(line)                         *)
(* gap     the process dies between the line and its newline               *)
(* power   the machine loses power: a line not yet synced may be lost      *)
(* peek    a reader of the store sees a line that is half written          *)
(* early   a checkpoint is anchored before its fsync returned              *)
(* create  a power loss takes a file whose creation only its own fsync     *)
(*         followed, whole: the directory is never synced                  *)
(* rename  a power loss undoes the replacement of keys.json: same reason   *)
AllFaults == {"torn", "gap", "power", "peek", "early", "create", "rename"}

(* trusted   signed by a trusted origin key or a session key it certifies  *)
(* unknown   signed by a key this ledger does not trust                    *)
(* unsigned  no signature                                                  *)
(* invalid   a signature that does not verify                              *)
(* half      a signature without a key id, or the reverse                  *)
(* newer     trusted, but of a payload type this build has no schema for   *)
AllOrigins == {"trusted", "unknown", "unsigned", "invalid", "half", "newer"}

ASSUME LedgerAssumption ==
    /\ Origins \subseteq AllOrigins
    /\ Require \in BOOLEAN
    /\ MinNew \in Nat \ {0}
    /\ Faults \subseteq AllFaults
    /\ MaxRecords \in Nat
    /\ MaxSeals \in Nat
    /\ MaxExports \in Nat

VARIABLES
    log,       \* the records obsign_wal::read returns
    acked,     \* how many of them the gateway acknowledged
    issued,    \* history: records, checkpoints and exports made so far
    items,     \* <chain>.checkpoints.jsonl: the lines that parse
    tail,      \* how the file ends (see Tails)
    keys,      \* keys.json
    anchors,   \* <chain>.anchors.jsonl: hashes of anchored checkpoints
    dir,       \* the store's directory on disk (see Entries)
    proc,      \* the passes in progress
    result,    \* the outcome of each ledger's last pass
    export,    \* an `export' in progress, or the last one's verdict
    sealed,    \* history: checkpoints whose pass was acknowledged
    faults     \* history: [crashes, losses, rewrites]

vars == <<log, acked, issued, items, tail, keys, anchors, dir, proc, result,
          export, sealed, faults>>

logVars == <<log, acked>>
storeVars == <<items, tail, keys, anchors, dir>>

Record == [uid : 1 .. MaxRecords, prev : 0 .. MaxRecords, origin : Origins]

(* obsign_wal::read has checked seq and prev_hash before a pass sees them: *)
(* a record's seq is its position, counted from 0.                         *)
Chained(l, r) == r.prev = IF l = << >> THEN 0 ELSE l[Len(l)].uid

AL == INSTANCE AuditLog WITH Records <- Record, Follows <- Chained

(* clean    the file ends in a newline, or is empty                        *)
(* open     the last checkpoint lacks its newline                          *)
(* torn     an unterminated fragment follows the last checkpoint           *)
(* bad      an unparsable line, newline included, follows it               *)
(* corrupt  an unparsable line is followed by more lines                   *)
Tails == {"clean", "open", "torn", "bad", "corrupt"}

(* The files lines are appended to, each not there yet, created since the  *)
(* directory last reached the disk, or there for good; and what keys.json  *)
(* held at the renames since then.                                         *)
Files == {"checkpoints", "anchors"}

Entries ==
    [files : [Files -> {"absent", "new", "kept"}], keys : SUBSET SUBSET SealKeys]

Fatal == {"DivergedLog", "TruncatedLog", "StoreBroken", "KeyConflict",
          "UnauthenticatedRecord"}

NoPass == [pc |-> "idle"]

NoExport == [pc |-> "idle", verdict |-> "none"]

Init ==
    /\ AL!Init
    /\ issued = [records |-> 0, seals |-> 0, exports |-> 0]
    /\ items = << >>
    /\ tail = "clean"
    /\ keys = {}
    /\ anchors = {}
    /\ dir = [files |-> [f \in Files |-> "absent"], keys |-> {}]
    /\ proc = [p \in Ledgers |-> NoPass]
    /\ result = [p \in Ledgers |-> "none"]
    /\ export = NoExport
    /\ sealed = {}
    /\ faults = [crashes |-> 0, losses |-> 0, rewrites |-> 0]

-----------------------------------------------------------------------------
(***************************************************************************)
(* The log, as the gateway and its host make it.                           *)
(***************************************************************************)

LogGrows ==
    /\ issued.records < MaxRecords
    /\ AL!Grow
    /\ log'[Len(log')].uid = issued.records + 1
    /\ issued' = [issued EXCEPT !.records = @ + 1]
    /\ UNCHANGED <<storeVars, proc, result, export, sealed, faults>>

LogAcknowledged ==
    /\ AL!Acknowledge
    /\ UNCHANGED <<issued, storeVars, proc, result, export, sealed, faults>>

LogLoses ==
    /\ faults.losses < MaxLosses
    /\ AL!Lose
    /\ faults' = [faults EXCEPT !.losses = @ + 1]
    /\ UNCHANGED <<issued, storeVars, proc, result, export, sealed>>

(* Somebody rewrites the log from record i on, chaining it properly.       *)
LogRewritten(i, origin) ==
    /\ faults.rewrites < MaxRewrites
    /\ issued.records < MaxRecords
    /\ log' = Append(SubSeq(log, 1, i - 1),
                     [uid    |-> issued.records + 1,
                      prev   |-> IF i = 1 THEN 0 ELSE log[i - 1].uid,
                      origin |-> origin])
    /\ acked' = IF acked >= i THEN i - 1 ELSE acked
    /\ issued' = [issued EXCEPT !.records = @ + 1]
    /\ faults' = [faults EXCEPT !.rewrites = @ + 1]
    /\ UNCHANGED <<storeVars, proc, result, export, sealed>>

-----------------------------------------------------------------------------
(***************************************************************************)
(* Store::open: nothing loaded is believed until it re-proves itself.      *)
(***************************************************************************)

(* Each checkpoint chains from the previous one, coverage is gapless, and  *)
(* the recorded key verifies the signature; each anchor is over one of     *)
(* them.                                                                   *)
StoreValid ==
    /\ \A i \in 1 .. Len(items) :
        /\ items[i].prev = IF i = 1 THEN 0 ELSE items[i - 1].uid
        /\ items[i].from = IF i = 1 THEN 0 ELSE items[i - 1].to + 1
        /\ items[i].key \in keys
    /\ anchors \subseteq {items[i].uid : i \in 1 .. Len(items)}

(* read_jsonl: an unparsable last line is trimmed, and the trim synced; a  *)
(* last line that parses is taken as it is, newline or not.                *)
StoreOpens == tail # "corrupt" /\ StoreValid

TrimmedTail == IF tail \in {"torn", "bad"} THEN "clean" ELSE tail

-----------------------------------------------------------------------------
(***************************************************************************)
(* one_pass and seal_pass.                                                 *)
(***************************************************************************)

(* OriginPolicy::refusal: an invalid signature or half of one always       *)
(* refuses, an absent or unresolvable one under `require' only.            *)
Refused(r) ==
    \/ r.origin \in {"invalid", "half"}
    \/ Require /\ r.origin \in {"unsigned", "unknown"}

SealedTo(cps) == IF cps = << >> THEN 0 ELSE cps[Len(cps)].to + 1

(* Mutant of Authentic: the refused record is sealed with its prefix.      *)
AuthenticPlusOne(recs, from) ==
    LET bad == {i \in from + 1 .. Len(recs) : Refused(recs[i])}
    IN  IF bad = {} THEN Len(recs)
        ELSE CHOOSE i \in bad : \A j \in bad : i <= j

(* Mutant of Authentic: the newest record always waits for the next one.   *)
AuthenticButLast(recs, from) == Len(recs) - 1

(* The last record of the authentic prefix beyond what is sealed.          *)
Authentic(recs, from) ==
    LET bad == {i \in from + 1 .. Len(recs) : Refused(recs[i])}
    IN  IF bad = {} THEN Len(recs)
        ELSE (CHOOSE i \in bad : \A j \in bad : i <= j) - 1

(* Mutant of Incident: the boundary record's hash is not compared.         *)
IncidentNoHash(recs, cps) ==
    IF cps # << >> /\ Len(recs) < SealedTo(cps) THEN "TruncatedLog"
    ELSE "none"

(* Mutant of Incident: a log that ends exactly at the sealed head is taken *)
(* for a truncated one.                                                    *)
IncidentOffByOne(recs, cps) ==
    IF cps # << >> /\ Len(recs) <= SealedTo(cps) THEN "TruncatedLog"
    ELSE "none"

(* What stops a pass before anything is signed: a record this build cannot *)
(* hash, then a log that contradicts sealed history.                       *)
Incident(recs, cps) ==
    IF \E i \in 1 .. Len(recs) : recs[i].origin = "newer"
    THEN "UnreadablePayload"
    ELSE IF cps = << >> THEN "none"
    ELSE IF Len(recs) < SealedTo(cps) THEN "TruncatedLog"
    ELSE IF recs[SealedTo(cps)].uid # cps[Len(cps)].head THEN "DivergedLog"
    ELSE "none"

(* seal_interval over records from + 1 .. upto, signed.  The Merkle root   *)
(* is the hashes under it.  `base' and `origins' are history: what the     *)
(* first record chains on and how the records were signed; the root pins   *)
(* both.                                                                   *)
SealInterval(recs, from, upto, cps, key) ==
    [uid     |-> issued.seals + 1,
     from    |-> from,
     to      |-> upto - 1,
     head    |-> recs[upto].uid,
     prev    |-> IF cps = << >> THEN 0 ELSE cps[Len(cps)].uid,
     key     |-> key,
     root    |-> [i \in 1 .. upto - from |-> recs[from + i].uid],
     base    |-> recs[from + 1].prev,
     origins |-> {recs[i].origin : i \in from + 1 .. upto}]

(* obsign_wal::read.  The sealing key is the one configured for this pass. *)
ReadLog(p) ==
    /\ proc[p].pc = "idle"
    /\ \E key \in SealKeys :
        proc' = [proc EXCEPT ![p] = [pc |-> "open", recs |-> log, key |-> key]]
    /\ UNCHANGED <<logVars, issued, storeVars, result, export, sealed, faults>>

Finish(p, outcome) ==
    /\ proc' = [proc EXCEPT ![p] =
                   [pc |-> IF outcome \in Fatal THEN "halted" ELSE "idle"]]
    /\ result' = [result EXCEPT ![p] = outcome]

OpenBroken(p) ==
    /\ proc[p].pc = "open"
    /\ ~StoreOpens
    /\ Finish(p, "StoreBroken")
    /\ tail' = TrimmedTail
    /\ UNCHANGED <<logVars, issued, items, keys, anchors, dir, export, sealed,
                   faults>>

(* The store opens: compare with sealed history, cut at the first refused  *)
(* record, and seal the authentic prefix if there is enough of it, or if   *)
(* it was cut short.                                                       *)
OpenAndDecide(p) ==
    /\ proc[p].pc = "open"
    /\ StoreOpens
    /\ tail' = TrimmedTail
    /\ LET recs     == proc[p].recs
           from     == SealedTo(items)
           incident == Incident(recs, items)
           upto     == Authentic(recs, from)
           cut      == upto < Len(recs)
           enough   == upto > from /\ (cut \/ upto - from >= MinNew)
       IN  \/ /\ incident # "none"
              /\ Finish(p, incident)
              /\ UNCHANGED issued
           \/ /\ incident = "none"
              /\ ~enough
              /\ Finish(p, IF cut THEN "UnauthenticatedRecord" ELSE "nothing")
              /\ UNCHANGED issued
           \/ /\ incident = "none"
              /\ enough
              /\ issued.seals < MaxSeals
              /\ issued' = [issued EXCEPT !.seals = @ + 1]
              /\ proc' = [proc EXCEPT ![p] =
                   [pc |-> "key", cut |-> cut, keys |-> keys,
                    cp |-> SealInterval(recs, from, upto, items,
                                        proc[p].key)]]
              /\ UNCHANGED result
    /\ UNCHANGED <<logVars, items, keys, anchors, dir, export, sealed, faults>>

(* Mutant of RecordKey: the key is recorded in memory only.                *)
RecordKeyForgets(p) ==
    /\ proc[p].pc = "key"
    /\ proc' = [proc EXCEPT ![p].pc = "line"]
    /\ UNCHANGED <<logVars, issued, storeVars, result, export, sealed, faults>>

(* record_key: an id names one key forever.  A key not in the keys.json    *)
(* this pass loaded is added and the file replaced by rename; nothing syncs *)
(* the directory the new name is in.                                       *)
RecordKey(p) ==
    /\ proc[p].pc = "key"
    /\ LET key   == proc[p].cp.key
           known == proc[p].keys
       IN  \/ /\ \E k \in known : k.id = key.id /\ k # key
              /\ Finish(p, "KeyConflict")
              /\ UNCHANGED <<keys, dir>>
           \/ /\ \A k \in known : k.id = key.id => k = key
              /\ IF key \in known
                 THEN UNCHANGED <<keys, dir>>
                 ELSE /\ keys' = known \cup {key}
                      /\ dir' = [dir EXCEPT !.keys = @ \cup {keys}]
              /\ proc' = [proc EXCEPT ![p].pc = "line"]
              /\ UNCHANGED result
    /\ UNCHANGED <<logVars, issued, items, tail, anchors, export, sealed, faults>>

(* OpenOptions::create: the file is there once something is written to it. *)
Create(f) == [dir EXCEPT !.files[f] = IF @ = "absent" THEN "new" ELSE @]

(* Mutant of AppendLine: the file is opened for writing, not for appending.*)
AppendLineTruncates(p) ==
    /\ proc[p].pc = "line"
    /\ items' = <<proc[p].cp>> /\ tail' = "open"
    /\ dir' = Create("checkpoints")
    /\ proc' = [proc EXCEPT ![p].pc = "newline"]
    /\ UNCHANGED <<logVars, issued, keys, anchors, result, export, sealed,
                   faults>>

(* append_line creates the file if there is none; first write.  On a last  *)
(* line without its newline, two checkpoints share a line that parses as   *)
(* neither.                                                                *)
AppendLine(p) ==
    /\ proc[p].pc = "line"
    /\ CASE tail = "clean" ->
              items' = Append(items, proc[p].cp) /\ tail' = "open"
         [] tail = "open" ->
              items' = SubSeq(items, 1, Len(items) - 1) /\ tail' = "torn"
         [] tail = "torn" -> UNCHANGED <<items, tail>>
         [] tail \in {"bad", "corrupt"} ->
              tail' = "corrupt" /\ UNCHANGED items
    /\ dir' = Create("checkpoints")
    /\ proc' = [proc EXCEPT ![p].pc = "newline"]
    /\ UNCHANGED <<logVars, issued, keys, anchors, result, export, sealed, faults>>

AppendNewline(p) ==
    /\ proc[p].pc = "newline"
    /\ tail' = CASE tail = "open" -> "clean"
                 [] tail = "torn" -> "bad"
                 [] OTHER -> tail
    /\ proc' = [proc EXCEPT ![p].pc = "sync"]
    /\ UNCHANGED <<logVars, issued, items, keys, anchors, dir, result, export,
                   sealed, faults>>

(* sync_data returns: the checkpoint is acknowledged; a record that was    *)
(* refused is reported only now.                                           *)
Acknowledge(p) ==
    /\ proc[p].pc = "sync"
    /\ sealed' = sealed \cup {proc[p].cp}
    /\ Finish(p, IF proc[p].cut THEN "UnauthenticatedRecord" ELSE "sealed")
    /\ UNCHANGED <<logVars, issued, storeVars, export, faults>>

(* A ledger that stopped on an incident is started again.                  *)
Relaunch(p) ==
    /\ proc[p].pc = "halted"
    /\ proc' = [proc EXCEPT ![p] = NoPass]
    /\ UNCHANGED <<logVars, issued, storeVars, result, export, sealed, faults>>

(* anchor attach: the store must open and hold the checkpoint.  The time   *)
(* authority's answer lies between: without "early" the checkpoint was     *)
(* acknowledged by then.                                                   *)
AttachAnchor(h) ==
    /\ StoreOpens
    /\ "early" \in Faults \/ h \in {c.uid : c \in sealed}
    /\ h \in {items[i].uid : i \in 1 .. Len(items)} \ anchors
    /\ anchors' = anchors \cup {h}
    /\ dir' = Create("anchors")
    /\ tail' = TrimmedTail
    /\ UNCHANGED <<logVars, issued, items, keys, proc, result, export, sealed, faults>>

-----------------------------------------------------------------------------
(***************************************************************************)
(* do_export: read the log, open the store, assemble the pack, verify it.  *)
(***************************************************************************)

(* Mutant of PackValid: roots and heads are not recomputed.                *)
PackValidNoRoot(recs, cps) ==
    \A i \in 1 .. Len(cps) : cps[i].to < Len(recs)

(* evidence::verify on the pack: no error finding.  The store and the log  *)
(* checked their own links when they were read; what is left is the origin *)
(* signatures and each checkpoint's root and head against the records.     *)
PackValid(recs, cps) ==
    /\ \A i \in 1 .. Len(recs) :
        recs[i].origin \notin {"invalid", "half", "newer"}
    /\ \A i \in 1 .. Len(cps) :
        /\ cps[i].to < Len(recs)
        /\ \A k \in 1 .. Len(cps[i].root) :
            cps[i].root[k] = recs[cps[i].from + k].uid
        /\ cps[i].head = recs[cps[i].to + 1].uid

ExportReadLog ==
    /\ export.pc = "idle"
    /\ issued.exports < MaxExports
    /\ issued' = [issued EXCEPT !.exports = @ + 1]
    /\ export' = [pc |-> "store", recs |-> log, verdict |-> "none"]
    /\ UNCHANGED <<logVars, storeVars, proc, result, sealed, faults>>

(* `held' is history: the checkpoints acknowledged when the store was read.*)
ExportVerdict ==
    IF ~StoreOpens THEN "StoreBroken"
    ELSE IF PackValid(export.recs, items) THEN "valid" ELSE "invalid"

ExportOpenStore ==
    /\ export.pc = "store"
    /\ export' = [pc |-> "idle", recs |-> export.recs, held |-> sealed,
                  verdict |-> ExportVerdict]
    /\ tail' = TrimmedTail
    /\ UNCHANGED <<logVars, issued, items, keys, anchors, dir, proc, result,
                   sealed, faults>>

(* The export reads the store while a pass is writing its line: the half   *)
(* it sees does not parse, and the export is about to cut it off.          *)
ExportPeeks(p) ==
    /\ "peek" \in Faults
    /\ export.pc = "store"
    /\ StoreOpens /\ tail = "clean"
    /\ proc[p].pc = "line"
    /\ export' = [pc |-> "trim", recs |-> export.recs, held |-> sealed,
                  verdict |-> ExportVerdict, at |-> Len(items)]
    /\ UNCHANGED <<logVars, issued, storeVars, proc, result, sealed, faults>>

(* read_jsonl: set_len to where the unparsable line began when it was read.*)
ExportTrims ==
    /\ export.pc = "trim"
    /\ IF Len(items) > export.at
       THEN items' = SubSeq(items, 1, export.at) /\ tail' = "clean"
       ELSE tail' = TrimmedTail /\ UNCHANGED items
    /\ export' = [pc |-> "idle", recs |-> export.recs, held |-> export.held,
                  verdict |-> export.verdict]
    /\ UNCHANGED <<logVars, issued, keys, anchors, dir, proc, result, sealed,
                   faults>>

Export ==
    \/ ExportReadLog \/ ExportOpenStore \/ ExportTrims
    \/ \E p \in Ledgers : ExportPeeks(p)

-----------------------------------------------------------------------------

(* What a crash of p can leave of the line it was writing: items, tail.    *)
Remains(p) ==
    LET whole  == <<items, tail>>
        before == <<SubSeq(items, 1, Len(items) - 1), "clean">>
        torn   == <<SubSeq(items, 1, Len(items) - 1), "torn">>
        mine   == items # << >> /\ items[Len(items)] = proc[p].cp
    IN  CASE proc[p].pc = "line" ->
               {whole} \cup (IF "torn" \in Faults /\ tail = "clean"
                             THEN {<<items, "torn">>} ELSE {})
          [] proc[p].pc = "newline" /\ mine ->
               (IF "gap" \in Faults THEN {whole} ELSE {}) \cup
               (IF "power" \in Faults THEN {before, torn} ELSE {})
          [] proc[p].pc = "sync" /\ mine ->
               {whole} \cup
               (IF "power" \in Faults THEN {before, torn} ELSE {})
          [] OTHER -> {whole}

Crash(p) ==
    /\ faults.crashes < MaxCrashes
    /\ proc[p].pc \in {"key", "line", "newline", "sync"}
    /\ \E left \in Remains(p) : items' = left[1] /\ tail' = left[2]
    /\ dir' = IF tail' = "clean" THEN dir
              ELSE Create("checkpoints")
    /\ proc' = [proc EXCEPT ![p] = NoPass]
    /\ result' = [result EXCEPT ![p] = "crashed"]
    /\ faults' = [faults EXCEPT !.crashes = @ + 1]
    /\ UNCHANGED <<logVars, issued, keys, anchors, export, sealed>>

-----------------------------------------------------------------------------
(***************************************************************************)
(* The directory.  append_line and record_key sync the file they wrote,    *)
(* never the directory that holds its name.                                *)
(***************************************************************************)

Settled(entry) == IF entry = "absent" THEN "absent" ELSE "kept"

(* The system writes the directory back, in its own time.                  *)
DirectorySettles ==
    /\ dir' = [files |-> [f \in Files |-> Settled(dir.files[f])], keys |-> {}]
    /\ dir' # dir
    /\ UNCHANGED <<logVars, issued, items, tail, keys, anchors, proc, result,
                   export, sealed, faults>>

(* What a power loss can take whole: only their own fsync followed their   *)
(* creation.                                                               *)
Losable ==
    {f \in Files : "create" \in Faults /\ dir.files[f] = "new"}

(* The machine loses power.  What that does to a line being written is     *)
(* Crash's, before this one.                                               *)
PowerLost ==
    /\ Faults \cap {"create", "rename"} # {}
    /\ faults.crashes < MaxCrashes
    /\ \A p \in Ledgers : proc[p].pc \notin {"newline", "sync"}
    /\ \E lost \in SUBSET Losable :
        /\ dir' = [files |-> [f \in Files |-> IF f \in lost THEN "absent"
                                              ELSE Settled(dir.files[f])],
                   keys  |-> {}]
        /\ items' = IF "checkpoints" \in lost THEN << >> ELSE items
        /\ tail' = IF "checkpoints" \in lost THEN "clean" ELSE tail
        /\ anchors' = IF "anchors" \in lost THEN {} ELSE anchors
    /\ keys' \in {keys} \cup (IF "rename" \in Faults THEN dir.keys ELSE {})
    /\ proc' = [p \in Ledgers |-> NoPass]
    /\ result' = [p \in Ledgers |-> "crashed"]
    /\ export' = IF export.pc = "idle" THEN export ELSE NoExport
    /\ faults' = [faults EXCEPT !.crashes = @ + 1]
    /\ UNCHANGED <<logVars, issued, sealed>>

Pass(p) ==
    \/ ReadLog(p) \/ OpenBroken(p) \/ OpenAndDecide(p) \/ RecordKey(p)
    \/ AppendLine(p) \/ AppendNewline(p) \/ Acknowledge(p) \/ Relaunch(p)

LogStep ==
    \/ LogGrows
    \/ LogAcknowledged
    \/ LogLoses
    \/ \E i \in 1 .. Len(log), o \in Origins : LogRewritten(i, o)

Next ==
    \/ LogStep
    \/ \E p \in Ledgers : Pass(p) \/ Crash(p)
    \/ \E h \in 1 .. MaxSeals : AttachAnchor(h)
    \/ Export
    \/ DirectorySettles
    \/ PowerLost

Spec == Init /\ [][Next]_vars

(* `run' makes passes forever, cron starts them: a pass goes on.           *)
FairSpec == Spec /\ \A p \in Ledgers : WF_vars(Pass(p))

-----------------------------------------------------------------------------
(***************************************************************************)
(* Properties.                                                             *)
(***************************************************************************)

Checkpoint ==
    [uid : 1 .. MaxSeals, from : Nat, to : Nat, head : 1 .. MaxRecords,
     prev : 0 .. MaxSeals, key : SealKeys,
     root : Seq(1 .. MaxRecords), base : 0 .. MaxRecords,
     origins : SUBSET Origins]

Writing == {"key", "line", "newline", "sync"}

PassState ==
    [pc : {"idle", "halted"}]
    \cup [pc : {"open"}, recs : Seq(Record), key : SealKeys]
    \cup [pc : Writing, cut : BOOLEAN, keys : SUBSET SealKeys, cp : Checkpoint]

Outcomes == {"none", "nothing", "sealed", "crashed", "UnreadablePayload"} \cup Fatal

(* The log, the store's files and the passes in progress hold what the     *)
(* code declares (store.rs, pass.rs).                                      *)
TypeOK ==
    /\ log \in Seq(Record)
    /\ acked \in 0 .. Len(log)
    /\ issued \in [records : 0 .. MaxRecords, seals : 0 .. MaxSeals,
                   exports : 0 .. MaxExports]
    /\ items \in Seq(Checkpoint)
    /\ tail \in Tails
    /\ keys \subseteq SealKeys
    /\ anchors \subseteq 1 .. MaxSeals
    /\ dir \in Entries
    /\ proc \in [Ledgers -> PassState]
    /\ result \in [Ledgers -> Outcomes]
    /\ sealed \subseteq Checkpoint
    /\ export.pc = "trim" => export.at \in Nat
    /\ faults \in [crashes : Nat, losses : Nat, rewrites : Nat]

(* A checkpoint a pass acknowledged stays in the store, through crashes,   *)
(* trims and later passes.  It fails under "create" (store.rs:269-276).    *)
AckedSealsKept == \A c \in sealed : \E i \in 1 .. Len(items) : items[i] = c

(* A store only ledgers wrote to opens again: it never poisons itself.  It *)
(* fails under "rename" (store.rs:219).                                    *)
StoreNeverBroken == StoreOpens

(* The checkpoints of a store that opens certify one history: each starts  *)
(* on the very record the previous one ends with, even when the log was    *)
(* rewritten or lost its tail in between (seal_pass, Store::open).         *)
SealsFormOneHistory ==
    StoreOpens => \A i \in 1 .. Len(items) :
        /\ items[i].base = IF i = 1 THEN 0 ELSE items[i - 1].head
        /\ items[i].from <= items[i].to

(* No seal covers a record the origin policy refuses.                      *)
OnlyAuthenticSealed ==
    \A i \in 1 .. Len(items) :
        items[i].origins \cap
            ({"invalid", "half"} \cup
             (IF Require THEN {"unsigned", "unknown"} ELSE {})) = {}

(* A log nobody rewrote is never reported as truncated or rewritten.       *)
NoFalseIncident ==
    faults.rewrites = 0 =>
        \A p \in Ledgers : result[p] \notin {"TruncatedLog", "DivergedLog"}

(* An evidence pack that verified holds, unaltered, every record a         *)
(* checkpoint acknowledged before the export covers (do_export).           *)
ValidPackHoldsSealed ==
    export.verdict = "valid" =>
        \A c \in export.held :
            /\ c.to < Len(export.recs)
            /\ \A k \in 1 .. Len(c.root) :
                c.root[k] = export.recs[c.from + k].uid

(* Every acknowledged record ends up under a seal, but for a last batch    *)
(* smaller than --min-new (run_loop, seal_pass).                           *)
AckedGetsSealed ==
    \A n \in 1 .. MaxRecords :
        (acked >= n) ~> (SealedTo(items) + (MinNew - 1) >= n)
=============================================================================
