---------------------------- MODULE LedgerProofs ----------------------------
(***************************************************************************)
(* Proofs about Ledger, for every bound and every set of keys and origins. *)
(* What holds however the log is rewritten, whatever fails and however     *)
(* many ledgers share the store comes first; what needs one ledger and     *)
(* writes that are not cut between line and newline follows.               *)
(***************************************************************************)
EXTENDS Ledger, SequenceTheorems, WellFoundedInduction, TLAPS

-----------------------------------------------------------------------------
(***************************************************************************)
(* Sequences: what cutting and appending leave alone.                      *)
(***************************************************************************)

LEMMA Cut ==
    ASSUME NEW S, NEW f \in Seq(S), NEW n \in 0 .. Len(f)
    PROVE  /\ SubSeq(f, 1, n) \in Seq(S)
           /\ Len(SubSeq(f, 1, n)) = n
           /\ \A i \in 1 .. n : SubSeq(f, 1, n)[i] = f[i]
<1>1. Len(f) \in Nat
  BY LenProperties
<1>2. \A i \in 1 .. n : f[i] \in S
  BY <1>1, ElementOfSeq
<1> QED
  BY <1>1, <1>2, SubSeqProperties

LEMMA Grown ==
    ASSUME NEW S, NEW f \in Seq(S), NEW e \in S
    PROVE  /\ Append(f, e) \in Seq(S)
           /\ Len(Append(f, e)) = Len(f) + 1
           /\ \A i \in 1 .. Len(f) : Append(f, e)[i] = f[i]
           /\ Append(f, e)[Len(f) + 1] = e
BY AppendProperties

(* A nonempty sequence has a last element.                                 *)
LEMMA LastOf ==
    ASSUME NEW S, NEW f \in Seq(S), f # << >>
    PROVE  /\ Len(f) \in 1 .. Len(f)
           /\ Len(f) - 1 \in 0 .. Len(f)
           /\ f[Len(f)] \in S
<1>1. Len(f) \in Nat /\ Len(f) # 0
  BY EmptySeq, LenProperties
<1>2. Len(f) \in 1 .. Len(f)
  BY <1>1
<1> QED
  BY <1>1, <1>2, ElementOfSeq

-----------------------------------------------------------------------------
(***************************************************************************)
(* Records, checkpoints and passes.                                        *)
(***************************************************************************)

LEMMA RecordParts ==
    ASSUME NEW l \in Seq(Record), NEW i \in 1 .. Len(l)
    PROVE  /\ l[i] \in Record
           /\ l[i].uid \in 1 .. MaxRecords
           /\ l[i].prev \in 0 .. MaxRecords
           /\ l[i].origin \in Origins
<1>1. l[i] \in Record
  BY ElementOfSeq
<1> QED
  BY <1>1 DEF Record

LEMMA ItemParts ==
    ASSUME NEW f \in Seq(Checkpoint), NEW i \in 1 .. Len(f)
    PROVE  /\ f[i] \in Checkpoint
           /\ f[i].uid \in 1 .. MaxSeals
           /\ f[i].from \in Nat /\ f[i].to \in Nat
           /\ f[i].head \in 1 .. MaxRecords
<1>1. f[i] \in Checkpoint
  BY ElementOfSeq
<1> QED
  BY <1>1 DEF Checkpoint

LEMMA PassParts ==
    ASSUME NEW s \in PassState
    PROVE  /\ s.pc \in {"idle", "halted", "open"} \cup Writing
           /\ s.pc = "open" => s.recs \in Seq(Record) /\ s.key \in SealKeys
           /\ s.pc \in Writing =>
                 /\ s.cut \in BOOLEAN
                 /\ s.keys \in SUBSET SealKeys
                 /\ s.cp \in Checkpoint
BY DEF PassState, Writing

(* A pass that goes on to its next write changes nothing but where it is.  *)
LEMMA MovesOn ==
    ASSUME NEW f \in [Ledgers -> PassState], NEW p \in Ledgers,
           f[p].pc \in Writing, NEW x \in Writing,
           NEW g, g = [f EXCEPT ![p].pc = x]
    PROVE  /\ g \in [Ledgers -> PassState]
           /\ \A q \in Ledgers : q # p => g[q] = f[q]
           /\ g[p].pc = x
           /\ g[p].cut = f[p].cut
           /\ g[p].keys = f[p].keys
           /\ g[p].cp = f[p].cp
<1> DEFINE e == [f[p] EXCEPT !.pc = x]
<1>1. f[p] \in PassState
  OBVIOUS
<1>2. f[p] \in [pc : Writing, cut : BOOLEAN, keys : SUBSET SealKeys, cp : Checkpoint]
  BY <1>1 DEF PassState, Writing
<1>3. e \in [pc : Writing, cut : BOOLEAN, keys : SUBSET SealKeys, cp : Checkpoint]
      /\ e.pc = x /\ e.cut = f[p].cut /\ e.keys = f[p].keys /\ e.cp = f[p].cp
  BY <1>2
<1>4. e \in PassState
  BY <1>3 DEF PassState
<1>5. g = [f EXCEPT ![p] = e]
  OBVIOUS
<1> HIDE DEF e
<1> QED
  BY <1>3, <1>4, <1>5

(* A pass that is replaced leaves the others alone.                        *)
LEMMA Replaces ==
    ASSUME NEW S, NEW f \in [Ledgers -> S], NEW p \in Ledgers, NEW e \in S,
           NEW g, g = [f EXCEPT ![p] = e]
    PROVE  /\ g \in [Ledgers -> S]
           /\ \A q \in Ledgers : q # p => g[q] = f[q]
           /\ g[p] = e
OBVIOUS

LEMMA FinishFacts ==
    ASSUME TypeOK, NEW p \in Ledgers, NEW o \in Outcomes, Finish(p, o)
    PROVE  /\ proc' \in [Ledgers -> PassState]
           /\ result' \in [Ledgers -> Outcomes]
           /\ \A q \in Ledgers : q # p => proc'[q] = proc[q] /\ result'[q] = result[q]
           /\ proc'[p].pc \in {"idle", "halted"}
           /\ result'[p] = o
<1> DEFINE e == [pc |-> IF o \in Fatal THEN "halted" ELSE "idle"]
<1>1. proc' = [proc EXCEPT ![p] = e]
  BY DEF Finish
<1>2. e \in PassState /\ e.pc \in {"idle", "halted"}
  BY DEF PassState
<1> HIDE DEF e
<1>3. proc \in [Ledgers -> PassState] /\ result \in [Ledgers -> Outcomes]
  BY DEF TypeOK
<1>4. proc' \in [Ledgers -> PassState]
      /\ (\A q \in Ledgers : q # p => proc'[q] = proc[q]) /\ proc'[p] = e
  BY <1>1, <1>2, <1>3, Replaces
<1>5. result' \in [Ledgers -> Outcomes]
      /\ (\A q \in Ledgers : q # p => result'[q] = result[q]) /\ result'[p] = o
  BY <1>3, Replaces DEF Finish
<1> QED
  BY <1>2, <1>4, <1>5

(* The authentic prefix ends within the records read, and no record it     *)
(* adds to what is sealed is refused.                                      *)
LEMMA AuthenticFacts ==
    ASSUME NEW recs \in Seq(Record), NEW from \in Nat
    PROVE  /\ Authentic(recs, from) \in Nat
           /\ Authentic(recs, from) <= Len(recs)
           /\ \A i \in from + 1 .. Authentic(recs, from) : ~Refused(recs[i])
<1> DEFINE bad == {i \in from + 1 .. Len(recs) : Refused(recs[i])}
<1>1. Len(recs) \in Nat
  BY LenProperties
<1>2. CASE bad = {}
  <2>1. Authentic(recs, from) = Len(recs)
    BY <1>2 DEF Authentic
  <2> QED
    BY <1>1, <1>2, <2>1
<1>3. CASE bad # {}
  <2>1. bad \subseteq Nat
    BY <1>1
  <2>2. IsWellFoundedOn(OpToRel(<, Nat), Nat)
    BY NatLessThanWellFounded
  <2> HIDE DEF bad
  <2>3. PICK m \in bad : \A y \in bad : ~(<<y, m>> \in OpToRel(<, Nat))
    BY <1>3, <2>1, <2>2, WFMin
  <2>4. ASSUME NEW y \in bad PROVE m <= y
    <3>1. y \in Nat /\ m \in Nat
      BY <2>1
    <3>2. y < m => <<y, m>> \in OpToRel(<, Nat)
      BY <3>1, Zenon DEF OpToRel
    <3>3. ~(y < m)
      BY <2>3, <3>2, Zenon
    <3> QED
      BY <3>1, <3>3
  <2> DEFINE first == CHOOSE i \in bad : \A j \in bad : i <= j
  <2>5. first \in bad /\ \A j \in bad : first <= j
    BY <2>4
  <2>6. Authentic(recs, from) = first - 1
    BY <1>3 DEF Authentic, bad
  <2> HIDE DEF first
  <2>7. first \in from + 1 .. Len(recs)
    BY <2>5 DEF bad
  <2>8. \A i \in from + 1 .. first - 1 : i \notin bad
    BY <1>1, <2>1, <2>5, <2>7
  <2>9. \A i \in from + 1 .. first - 1 : i \in from + 1 .. Len(recs)
    BY <1>1, <2>7
  <2> QED
    BY <1>1, <2>6, <2>7, <2>8, <2>9 DEF bad
<1> QED
  BY <1>2, <1>3

LEMMA SealedToType ==
    ASSUME NEW cps \in Seq(Checkpoint)
    PROVE  /\ SealedTo(cps) \in Nat
           /\ cps # << >> => SealedTo(cps) = cps[Len(cps)].to + 1
           /\ cps = << >> => SealedTo(cps) = 0
<1>1. cps # << >> => cps[Len(cps)].to \in Nat
  BY LastOf, ItemParts
<1> QED
  BY <1>1 DEF SealedTo

(***************************************************************************)
(* What a pass decides.                                                    *)
(***************************************************************************)

Upto(p) == Authentic(proc[p].recs, SealedTo(items))

(* The checkpoint a pass makes of what it read, and when it makes one.     *)
Interval(p) ==
    SealInterval(proc[p].recs, SealedTo(items), Upto(p), items, proc[p].key)

Seals(p) ==
    /\ proc[p].pc = "open"
    /\ StoreOpens
    /\ Incident(proc[p].recs, items) = "none"
    /\ SealedTo(items) < Upto(p)
    /\ issued.seals < MaxSeals

LEMMA IncidentType ==
    ASSUME NEW recs, NEW cps
    PROVE  /\ Incident(recs, cps) \in Outcomes
           /\ Incident(recs, cps) \in
                 {"none", "UnreadablePayload", "TruncatedLog", "DivergedLog"}
BY DEF Incident, Outcomes, Fatal

LEMMA DecideFacts ==
    ASSUME TypeOK, NEW p \in Ledgers, OpenAndDecide(p)
    PROVE  \/ /\ \E o \in Outcomes :
                    /\ Finish(p, o)
                    /\ o \in {"UnauthenticatedRecord", "nothing",
                              Incident(proc[p].recs, items)}
              /\ issued' = issued
           \/ /\ Seals(p)
              /\ issued' = [issued EXCEPT !.seals = @ + 1]
              /\ result' = result
              /\ \E cut \in BOOLEAN :
                    proc' = [proc EXCEPT ![p] =
                                [pc |-> "key", cut |-> cut, keys |-> keys,
                                 cp |-> Interval(p)]]
<1> DEFINE recs     == proc[p].recs
           from     == SealedTo(items)
           incident == Incident(recs, items)
           upto     == Authentic(recs, from)
           cut      == upto < Len(recs)
           enough   == upto > from /\ (cut \/ upto - from >= MinNew)
<1>1. CASE incident # "none" /\ Finish(p, incident) /\ UNCHANGED issued
  BY <1>1, IncidentType
<1>2. CASE Finish(p, IF cut THEN "UnauthenticatedRecord" ELSE "nothing")
           /\ UNCHANGED issued
  <2>1. CASE cut
    BY <1>2, <2>1 DEF Outcomes, Fatal
  <2>2. CASE ~cut
    BY <1>2, <2>2 DEF Outcomes, Fatal
  <2> QED
    BY <2>1, <2>2
<1>3. CASE /\ incident = "none" /\ enough /\ issued.seals < MaxSeals
           /\ issued' = [issued EXCEPT !.seals = @ + 1]
           /\ proc' = [proc EXCEPT ![p] =
                [pc |-> "key", cut |-> cut, keys |-> keys,
                 cp |-> SealInterval(recs, from, upto, items, proc[p].key)]]
           /\ UNCHANGED result
  <2>1. proc[p].pc = "open" /\ StoreOpens
    BY DEF OpenAndDecide
  <2>2. from \in Nat /\ recs \in Seq(Record)
    BY <2>1, SealedToType, PassParts DEF TypeOK
  <2>3. upto \in Nat
    BY <2>2, AuthenticFacts
  <2>4. Seals(p)
    BY <1>3, <2>1, <2>2, <2>3 DEF Seals, Upto
  <2>5. cut \in BOOLEAN
    OBVIOUS
  <2>6. SealInterval(recs, from, upto, items, proc[p].key) = Interval(p)
    BY DEF Interval, Upto
  <2> HIDE DEF cut
  <2> QED
    BY <1>3, <2>4, <2>5, <2>6
<1> QED
  BY <1>1, <1>2, <1>3 DEF OpenAndDecide

LEMMA IntervalFacts ==
    ASSUME TypeOK, NEW p \in Ledgers, Seals(p)
    PROVE  /\ proc[p].recs \in Seq(Record)
           /\ SealedTo(items) \in Nat /\ Upto(p) \in Nat
           /\ SealedTo(items) < Upto(p) /\ Upto(p) <= Len(proc[p].recs)
           /\ Interval(p) \in Checkpoint
           /\ Interval(p).uid = issued.seals + 1
           /\ Interval(p).from = SealedTo(items)
           /\ Interval(p).to = Upto(p) - 1
           /\ Interval(p).head = proc[p].recs[Upto(p)].uid
           /\ Interval(p).prev = IF items = << >> THEN 0 ELSE items[Len(items)].uid
           /\ Interval(p).key = proc[p].key
           /\ Interval(p).base = proc[p].recs[SealedTo(items) + 1].prev
           /\ Interval(p).origins =
                 {proc[p].recs[i].origin : i \in SealedTo(items) + 1 .. Upto(p)}
<1> DEFINE recs == proc[p].recs
           from == SealedTo(items)
           upto == Upto(p)
<1>1. proc[p] \in PassState /\ items \in Seq(Checkpoint)
  BY DEF TypeOK
<1>2. recs \in Seq(Record) /\ proc[p].key \in SealKeys
  BY <1>1, PassParts DEF Seals
<1>3. from \in Nat
  BY <1>1, SealedToType
<1>4. upto \in Nat /\ upto <= Len(recs) /\ from < upto
  BY <1>2, <1>3, AuthenticFacts DEF Upto, Seals
<1>5. Len(recs) \in Nat
  BY <1>2, LenProperties
<1>6. \A i \in from + 1 .. upto : i \in 1 .. Len(recs)
  BY <1>3, <1>4, <1>5
<1>7. upto \in 1 .. Len(recs) /\ from + 1 \in 1 .. Len(recs)
  BY <1>3, <1>4, <1>5
<1>8. issued.seals + 1 \in 1 .. MaxSeals
  BY LedgerAssumption DEF TypeOK, Seals
<1>9. recs[upto].uid \in 1 .. MaxRecords /\ recs[from + 1].prev \in 0 .. MaxRecords
  BY <1>2, <1>7, RecordParts
<1>10. {recs[i].origin : i \in from + 1 .. upto} \in SUBSET Origins
  BY <1>2, <1>6, RecordParts
<1>11. (IF items = << >> THEN 0 ELSE items[Len(items)].uid) \in 0 .. MaxSeals
  <2>1. items # << >> => items[Len(items)].uid \in 1 .. MaxSeals
    BY <1>1, LastOf, ItemParts
  <2> QED
    BY <2>1, LedgerAssumption
<1>12. [i \in 1 .. upto - from |-> recs[from + i].uid] \in Seq(1 .. MaxRecords)
  <2>1. upto - from \in Nat
    BY <1>3, <1>4
  <2>2. \A i \in 1 .. upto - from : from + i \in 1 .. Len(recs)
    BY <1>3, <1>4, <1>5
  <2>3. \A i \in 1 .. upto - from : recs[from + i].uid \in 1 .. MaxRecords
    BY <1>2, <2>2, RecordParts
  <2> HIDE DEF recs, from, upto
  <2> DEFINE n == upto - from
             f == [i \in 1 .. n |-> recs[from + i].uid]
  <2>4. f \in [1 .. n -> 1 .. MaxRecords]
    BY <2>3
  <2> HIDE DEF n, f
  <2>5. f \in Seq(1 .. MaxRecords)
    BY <2>1, <2>4, SeqDef DEF n
  <2> QED
    BY <2>5 DEF n, f
<1>13. upto - 1 \in Nat
  BY <1>3, <1>4
<1>14. Interval(p) =
        [uid     |-> issued.seals + 1,
         from    |-> from,
         to      |-> upto - 1,
         head    |-> recs[upto].uid,
         prev    |-> IF items = << >> THEN 0 ELSE items[Len(items)].uid,
         key     |-> proc[p].key,
         root    |-> [i \in 1 .. upto - from |-> recs[from + i].uid],
         base    |-> recs[from + 1].prev,
         origins |-> {recs[i].origin : i \in from + 1 .. upto}]
  BY DEF Interval, SealInterval
<1> HIDE DEF recs, from, upto
<1>15. Interval(p) \in Checkpoint
  BY <1>2, <1>3, <1>8, <1>9, <1>10, <1>11, <1>12, <1>13, <1>14 DEF Checkpoint
<1> QED
  BY <1>2, <1>3, <1>4, <1>14, <1>15 DEF recs, from, upto

-----------------------------------------------------------------------------
(***************************************************************************)
(* Type correctness, and what a step can do to the log, to the store and   *)
(* to a pass.                                                              *)
(***************************************************************************)

LEMMA InitType == Init => TypeOK
<1> SUFFICES ASSUME Init PROVE TypeOK
  OBVIOUS
<1>1. log = << >> /\ acked = 0
  BY DEF Init, AL!Init
<1>2. log \in Seq(Record) /\ acked \in 0 .. Len(log)
  BY <1>1, EmptySeq
<1>3. items \in Seq(Checkpoint)
  BY EmptySeq DEF Init
<1>4. proc \in [Ledgers -> PassState] /\ result \in [Ledgers -> Outcomes]
  BY DEF Init, NoPass, PassState, Outcomes
<1>5. dir \in Entries
  BY DEF Init, Entries
<1> QED
  BY <1>2, <1>3, <1>4, <1>5, LedgerAssumption DEF Init, TypeOK, Tails, NoExport

(* A record made in this step has the next number, whoever wrote it.       *)
LogTo(l) ==
    \/ l = log
    \/ \E k \in 0 .. Len(log) : l = SubSeq(log, 1, k) /\ faults'.losses = faults.losses + 1
    \/ \E r \in Record : Chained(log, r) /\ l = Append(log, r)
    \/ \E i \in 1 .. Len(log), r \in Record :
          /\ r.prev = (IF i = 1 THEN 0 ELSE log[i - 1].uid)
          /\ l = Append(SubSeq(log, 1, i - 1), r)
          /\ faults'.rewrites = faults.rewrites + 1

LEMMA LogStepType ==
    ASSUME TypeOK, LogStep
    PROVE  /\ TypeOK'
           /\ LogTo(log')
           /\ faults'.rewrites >= faults.rewrites
<1>1. /\ log \in Seq(Record) /\ acked \in 0 .. Len(log) /\ Len(log) \in Nat
      /\ issued.records \in 0 .. MaxRecords
      /\ faults.losses \in Nat /\ faults.rewrites \in Nat
  BY LenProperties DEF TypeOK
<1> DEFINE Issued == [records : 0 .. MaxRecords, seals : 0 .. MaxSeals,
                      exports : 0 .. MaxExports]
<1>0. issued \in Issued /\ faults \in [crashes : Nat, losses : Nat, rewrites : Nat]
  BY DEF TypeOK
<1>2. ASSUME LogGrows PROVE /\ TypeOK' /\ faults' = faults
                            /\ \E r \in Record : Chained(log, r) /\ log' = Append(log, r)
  <2>1. PICK r \in Record : Chained(log, r) /\ log' = Append(log, r)
    BY <1>2 DEF LogGrows, AL!Grow
  <2>2. log' \in Seq(Record) /\ Len(log') = Len(log) + 1
    BY <1>1, <2>1, Grown
  <2>3. acked' \in 0 .. Len(log')
    BY <1>1, <1>2, <2>2 DEF LogGrows, AL!Grow
  <2>4. issued' \in Issued
    <3>1. issued.records < MaxRecords /\ issued' = [issued EXCEPT !.records = @ + 1]
      BY <1>2 DEF LogGrows
    <3> QED
      BY <1>0, <3>1, LedgerAssumption
  <2> QED
    BY <1>1, <1>2, <2>1, <2>2, <2>3, <2>4 DEF LogGrows, TypeOK, storeVars
<1>3. ASSUME LogAcknowledged PROVE TypeOK' /\ log' = log /\ faults' = faults
  BY <1>1, <1>3 DEF LogAcknowledged, AL!Acknowledge, TypeOK, storeVars
<1>4. ASSUME LogLoses
      PROVE  /\ TypeOK' /\ faults'.losses = faults.losses + 1
             /\ faults'.rewrites = faults.rewrites
             /\ \E k \in 0 .. Len(log) : log' = SubSeq(log, 1, k)
  <2>1. PICK k \in acked .. Len(log) : log' = SubSeq(log, 1, k)
    BY <1>4 DEF LogLoses, AL!Lose
  <2>2. k \in 0 .. Len(log)
    BY <1>1
  <2>3. log' \in Seq(Record) /\ Len(log') = k
    BY <1>1, <2>1, <2>2, Cut
  <2>4. acked' \in 0 .. Len(log')
    BY <1>1, <1>4, <2>3 DEF LogLoses, AL!Lose
  <2>5. /\ faults' \in [crashes : Nat, losses : Nat, rewrites : Nat]
        /\ faults'.losses = faults.losses + 1 /\ faults'.rewrites = faults.rewrites
    BY <1>0, <1>4 DEF LogLoses
  <2> QED
    BY <1>4, <2>1, <2>2, <2>3, <2>4, <2>5 DEF LogLoses, TypeOK, storeVars
<1>5. ASSUME NEW i \in 1 .. Len(log), NEW o \in Origins, LogRewritten(i, o)
      PROVE  /\ TypeOK' /\ faults'.rewrites = faults.rewrites + 1
             /\ \E r \in Record : /\ r.prev = (IF i = 1 THEN 0 ELSE log[i - 1].uid)
                                  /\ log' = Append(SubSeq(log, 1, i - 1), r)
  <2> DEFINE prev == IF i = 1 THEN 0 ELSE log[i - 1].uid
             r == [uid |-> issued.records + 1, prev |-> prev, origin |-> o]
  <2>1. i - 1 \in 0 .. Len(log) /\ (i # 1 => i - 1 \in 1 .. Len(log))
    BY <1>1
  <2>2. prev \in 0 .. MaxRecords
    <3>1. i # 1 => log[i - 1].uid \in 1 .. MaxRecords
      BY <1>1, <2>1, RecordParts
    <3> QED
      BY <3>1, LedgerAssumption
  <2>0. /\ issued.records < MaxRecords
        /\ issued' = [issued EXCEPT !.records = @ + 1]
        /\ faults' = [faults EXCEPT !.rewrites = @ + 1]
    BY <1>5 DEF LogRewritten
  <2>3. issued.records + 1 \in 1 .. MaxRecords
    BY <1>1, <2>0, LedgerAssumption
  <2> HIDE DEF prev
  <2>4. r \in Record /\ r.prev = prev
    BY <2>2, <2>3 DEF Record
  <2>5. log' = Append(SubSeq(log, 1, i - 1), r)
    BY <1>5 DEF LogRewritten, prev
  <2> HIDE DEF r
  <2>6. SubSeq(log, 1, i - 1) \in Seq(Record) /\ Len(SubSeq(log, 1, i - 1)) = i - 1
    BY <1>1, <2>1, Cut
  <2>7. log' \in Seq(Record) /\ Len(log') = i
    BY <2>1, <2>4, <2>5, <2>6, Grown
  <2>8. acked' \in 0 .. Len(log')
    BY <1>1, <1>5, <2>7 DEF LogRewritten
  <2>9. /\ faults' \in [crashes : Nat, losses : Nat, rewrites : Nat]
        /\ faults'.rewrites = faults.rewrites + 1
    BY <1>0, <2>0
  <2>10. issued' \in Issued
    <3>1. issued.records + 1 \in 0 .. MaxRecords
      BY <2>3
    <3> QED
      BY <1>0, <2>0, <3>1
  <2>11. TypeOK'
    BY <1>5, <2>7, <2>8, <2>9, <2>10 DEF LogRewritten, TypeOK, storeVars
  <2> QED
    BY <2>4, <2>5, <2>9, <2>11 DEF prev
<1>6. CASE LogGrows
  BY <1>1, <1>2, <1>6 DEF LogTo
<1>7. CASE LogAcknowledged
  BY <1>1, <1>3, <1>7 DEF LogTo
<1>8. CASE LogLoses
  BY <1>1, <1>4, <1>8 DEF LogTo
<1>9. ASSUME NEW i \in 1 .. Len(log), NEW o \in Origins, LogRewritten(i, o)
      PROVE  TypeOK' /\ LogTo(log') /\ faults'.rewrites >= faults.rewrites
  BY <1>1, <1>5, <1>9 DEF LogTo
<1> QED
  BY <1>6, <1>7, <1>8, <1>9 DEF LogStep

(* What a step leaves in the checkpoints file.                             *)
ItemsTo(f) ==
    \/ f = items
    \/ \E n \in 0 .. Len(items) : f = SubSeq(items, 1, n)
    \/ \E p \in Ledgers : proc[p].pc = "line" /\ f = Append(items, proc[p].cp)

(* Where a step takes a pass.                                              *)
PassTo(p, s) ==
    \/ s = proc[p]
    \/ s.pc \in {"idle", "halted"}
    \/ proc[p].pc = "idle" /\ s.pc = "open" /\ s.recs = log
    \/ proc[p].pc \in Writing /\ s.pc \in Writing /\ s.cp = proc[p].cp
    \/ /\ Seals(p) /\ s.pc = "key" /\ s.cp = Interval(p)
       /\ issued'.seals = issued.seals + 1
       /\ items' = items
       /\ \A q \in Ledgers : q # p => proc'[q] = proc[q]

(* A pass that goes on to its next write leaves every pass where it may be. *)
LEMMA MovesOnPass ==
    ASSUME proc \in [Ledgers -> PassState], NEW p \in Ledgers,
           proc[p].pc \in Writing, NEW x \in Writing,
           proc' = [proc EXCEPT ![p].pc = x]
    PROVE  /\ proc' \in [Ledgers -> PassState]
           /\ \A q \in Ledgers : PassTo(q, proc'[q])
<1>1. PICK g : g = proc'
  OBVIOUS
<1>2. /\ g \in [Ledgers -> PassState]
      /\ \A q \in Ledgers : q # p => g[q] = proc[q]
      /\ g[p].pc = x /\ g[p].cp = proc[p].cp
  BY <1>1, MovesOn
<1>3. PassTo(p, g[p])
  BY <1>2 DEF PassTo
<1>4. \A q \in Ledgers : q # p => PassTo(q, g[q])
  BY <1>2 DEF PassTo
<1> QED
  BY <1>1, <1>2, <1>3, <1>4

(* What every step but those of the log leaves behind.                     *)
StoreStep ==
    /\ TypeOK'
    /\ log' = log /\ faults'.rewrites = faults.rewrites
    /\ issued.seals <= issued'.seals
    /\ ItemsTo(items')
    /\ \A p \in Ledgers : PassTo(p, proc'[p])

LEMMA RemainsFacts ==
    ASSUME TypeOK, NEW p \in Ledgers, NEW left \in Remains(p)
    PROVE  /\ left[2] \in Tails
           /\ left[1] = items \/ \E n \in 0 .. Len(items) : left[1] = SubSeq(items, 1, n)
<1> DEFINE mine == items # << >> /\ items[Len(items)] = proc[p].cp
           whole == <<items, tail>>
           shorter == SubSeq(items, 1, Len(items) - 1)
<1>1. mine => Len(items) - 1 \in 0 .. Len(items)
  BY LastOf DEF TypeOK
<1>2. tail \in Tails
  BY DEF TypeOK
<1>3. CASE proc[p].pc = "line"
  <2>1. left \in {whole, <<items, "torn">>}
    BY <1>3 DEF Remains
  <2> QED
    BY <1>2, <2>1 DEF Tails
<1>4. CASE proc[p].pc \in {"newline", "sync"} /\ mine
  <2>1. left \in {whole, <<shorter, "clean">>, <<shorter, "torn">>}
    BY <1>4 DEF Remains
  <2> QED
    BY <1>1, <1>2, <1>4, <2>1 DEF Tails
<1>5. CASE proc[p].pc # "line" /\ ~(proc[p].pc \in {"newline", "sync"} /\ mine)
  <2>1. left = whole
    BY <1>5 DEF Remains
  <2> QED
    BY <1>2, <2>1
<1> QED
  BY <1>3, <1>4, <1>5

(* The directory's entries, whatever a pass does to them.                  *)
LEMMA CreateType ==
    ASSUME dir \in Entries, NEW f \in Files PROVE Create(f) \in Entries
<1>1. dir.files \in [Files -> {"absent", "new", "kept"}]
      /\ dir.keys \in SUBSET SUBSET SealKeys
      /\ dir = [files |-> dir.files, keys |-> dir.keys]
  BY DEF Entries
<1>2. [dir.files EXCEPT ![f] = IF @ = "absent" THEN "new" ELSE @]
      \in [Files -> {"absent", "new", "kept"}]
  BY <1>1
<1>3. Create(f) = [files |-> [dir.files EXCEPT ![f] = IF @ = "absent" THEN "new" ELSE @],
                   keys  |-> dir.keys]
  BY <1>1 DEF Create
<1> QED
  BY <1>1, <1>2, <1>3 DEF Entries

LEMMA DirPass ==
    ASSUME TypeOK, NEW p \in Ledgers, Pass(p) \/ Crash(p) PROVE dir' \in Entries
<1>1. dir \in Entries /\ "checkpoints" \in Files
  BY DEF TypeOK, Files
<1>2. CASE AppendLine(p) \/ Crash(p)
  BY <1>1, <1>2, CreateType DEF AppendLine, Crash
<1>3. CASE RecordKey(p)
  <2>1. CASE dir' = [dir EXCEPT !.keys = @ \cup {keys}]
    BY <1>1, <2>1 DEF Entries, TypeOK
  <2> QED
    BY <1>1, <1>3, <2>1 DEF RecordKey
<1>4. CASE \/ ReadLog(p) \/ OpenBroken(p) \/ OpenAndDecide(p)
           \/ AppendNewline(p) \/ Acknowledge(p) \/ Relaunch(p)
  BY <1>1, <1>4 DEF ReadLog, OpenBroken, OpenAndDecide, AppendNewline, Acknowledge,
                    Relaunch, storeVars
<1> QED
  BY <1>2, <1>3, <1>4 DEF Pass

(* Steps that leave the passes or the store alone are steps of the store.  *)
LEMMA QuietStep ==
    ASSUME TypeOK', log' = log, faults'.rewrites = faults.rewrites,
           issued.seals <= issued'.seals,
           ItemsTo(items'), proc' = proc
    PROVE  StoreStep
BY DEF StoreStep, PassTo

LEMMA PassStep ==
    ASSUME TypeOK, NEW p \in Ledgers, Pass(p)
    PROVE  StoreStep
<1>1. /\ proc \in [Ledgers -> PassState] /\ result \in [Ledgers -> Outcomes]
      /\ proc[p] \in PassState /\ items \in Seq(Checkpoint) /\ log \in Seq(Record)
      /\ issued.seals \in Nat
  BY DEF TypeOK
<1>2. TrimmedTail \in Tails
  BY DEF TypeOK, TrimmedTail, Tails
<1>11. dir' \in Entries
  BY DirPass
<1>3. CASE ReadLog(p)
  <2>1. PICK key \in SealKeys :
          proc' = [proc EXCEPT ![p] = [pc |-> "open", recs |-> log, key |-> key]]
    BY <1>3 DEF ReadLog
  <2> DEFINE e == [pc |-> "open", recs |-> log, key |-> key]
  <2>2. e \in PassState /\ e.pc = "open" /\ e.recs = log
    BY <1>1 DEF PassState
  <2>3. proc' = [proc EXCEPT ![p] = e]
    BY <2>1
  <2> HIDE DEF e
  <2>4. proc' \in [Ledgers -> PassState]
        /\ (\A q \in Ledgers : q # p => proc'[q] = proc[q]) /\ proc'[p] = e
    BY <1>1, <2>2, <2>3, Replaces
  <2>5. TypeOK'
    BY <1>3, <2>4 DEF ReadLog, TypeOK, logVars, storeVars
  <2>6. \A q \in Ledgers : PassTo(q, proc'[q])
    BY <1>3, <2>2, <2>4 DEF PassTo, ReadLog
  <2> QED
    BY <1>1, <1>3, <2>5, <2>6 DEF ReadLog, StoreStep, ItemsTo, logVars, storeVars
<1>4. CASE OpenBroken(p)
  <2>1. "StoreBroken" \in Outcomes
    BY DEF Outcomes, Fatal
  <2>2. /\ proc' \in [Ledgers -> PassState] /\ result' \in [Ledgers -> Outcomes]
        /\ \A q \in Ledgers : PassTo(q, proc'[q])
    BY <1>4, <2>1, FinishFacts DEF OpenBroken, PassTo
  <2>3. TypeOK'
    BY <1>2, <1>4, <2>2 DEF OpenBroken, TypeOK, logVars
  <2> QED
    BY <1>1, <1>4, <2>2, <2>3 DEF OpenBroken, StoreStep, ItemsTo, logVars
<1>5. CASE OpenAndDecide(p)
  <2>0. /\ tail' = TrimmedTail /\ items' = items
        /\ UNCHANGED <<logVars, items, keys, anchors, export, sealed, faults>>
    BY <1>5 DEF OpenAndDecide
  <2>1. CASE /\ \E o \in Outcomes : Finish(p, o)
             /\ issued' = issued
    <3>1. /\ proc' \in [Ledgers -> PassState] /\ result' \in [Ledgers -> Outcomes]
          /\ \A q \in Ledgers : PassTo(q, proc'[q])
      BY <2>1, FinishFacts DEF PassTo
    <3>2. TypeOK'
      BY <1>2, <1>11, <2>0, <2>1, <3>1 DEF TypeOK, logVars
    <3> QED
      BY <1>1, <2>0, <2>1, <3>1, <3>2 DEF StoreStep, ItemsTo, logVars
  <2>2. CASE /\ Seals(p)
             /\ issued' = [issued EXCEPT !.seals = @ + 1]
             /\ result' = result
             /\ \E cut \in BOOLEAN :
                   proc' = [proc EXCEPT ![p] =
                                [pc |-> "key", cut |-> cut, keys |-> keys,
                                 cp |-> Interval(p)]]
    <3>1. PICK cut \in BOOLEAN :
                   proc' = [proc EXCEPT ![p] =
                                [pc |-> "key", cut |-> cut, keys |-> keys,
                                 cp |-> Interval(p)]]
      BY <2>2
    <3> DEFINE e == [pc |-> "key", cut |-> cut, keys |-> keys, cp |-> Interval(p)]
    <3>2. Interval(p) \in Checkpoint /\ keys \in SUBSET SealKeys
      BY <2>2, IntervalFacts DEF TypeOK
    <3>3. e \in PassState /\ e.pc = "key" /\ e.cp = Interval(p)
      BY <3>2 DEF PassState, Writing
    <3>4. proc' = [proc EXCEPT ![p] = e]
      BY <3>1
    <3> HIDE DEF e
    <3>5. proc' \in [Ledgers -> PassState]
          /\ (\A q \in Ledgers : q # p => proc'[q] = proc[q]) /\ proc'[p] = e
      BY <1>1, <3>3, <3>4, Replaces
    <3>6. /\ issued' \in [records : 0 .. MaxRecords, seals : 0 .. MaxSeals,
                          exports : 0 .. MaxExports]
          /\ issued'.seals = issued.seals + 1
      <4>1. issued \in [records : 0 .. MaxRecords, seals : 0 .. MaxSeals,
                        exports : 0 .. MaxExports]
        BY DEF TypeOK
      <4>2. issued.seals + 1 \in 0 .. MaxSeals
        BY <4>1, <2>2, LedgerAssumption DEF Seals
      <4> QED
        BY <2>2, <4>1, <4>2
    <3>7. TypeOK'
      BY <1>2, <1>11, <2>0, <2>2, <3>5, <3>6 DEF TypeOK, logVars
    <3>8. \A q \in Ledgers : PassTo(q, proc'[q])
      BY <2>0, <2>2, <3>3, <3>5, <3>6 DEF PassTo
    <3> QED
      BY <1>1, <2>0, <3>6, <3>7, <3>8 DEF StoreStep, ItemsTo, logVars
  <2> QED
    BY <1>5, <2>1, <2>2, DecideFacts
<1>6. CASE RecordKey(p)
  <2>1. proc[p].cp.key \in SealKeys /\ proc[p].keys \in SUBSET SealKeys
        /\ proc[p].pc \in Writing /\ "line" \in Writing
    BY <1>1, <1>6, PassParts DEF RecordKey, Writing, Checkpoint
  <2>2. keys' \subseteq SealKeys
    BY <1>6, <2>1 DEF RecordKey, TypeOK
  <2>3. CASE Finish(p, "KeyConflict")
    <3>1. "KeyConflict" \in Outcomes
      BY DEF Outcomes, Fatal
    <3>2. /\ proc' \in [Ledgers -> PassState] /\ result' \in [Ledgers -> Outcomes]
          /\ \A q \in Ledgers : PassTo(q, proc'[q])
      BY <2>3, <3>1, FinishFacts DEF PassTo
    <3>3. TypeOK'
      BY <1>11, <1>6, <2>2, <3>2 DEF RecordKey, TypeOK, logVars
    <3> QED
      BY <1>1, <1>6, <3>2, <3>3 DEF RecordKey, StoreStep, ItemsTo, logVars
  <2>4. CASE proc' = [proc EXCEPT ![p].pc = "line"] /\ result' = result
    <3>1. /\ proc' \in [Ledgers -> PassState]
          /\ \A q \in Ledgers : PassTo(q, proc'[q])
      BY <1>1, <2>1, <2>4, MovesOnPass
    <3>2. TypeOK'
      BY <1>11, <1>6, <2>2, <2>4, <3>1 DEF RecordKey, TypeOK, logVars
    <3> QED
      BY <1>1, <1>6, <3>1, <3>2 DEF RecordKey, StoreStep, ItemsTo, logVars
  <2> QED
    BY <1>6, <2>3, <2>4 DEF RecordKey
<1>7. CASE AppendLine(p)
  <2>1. proc[p].pc \in Writing /\ "newline" \in Writing /\ proc[p].cp \in Checkpoint
    BY <1>1, <1>7, PassParts DEF AppendLine, Writing
  <2>2. /\ proc' \in [Ledgers -> PassState]
        /\ \A q \in Ledgers : PassTo(q, proc'[q])
    <3>1. proc' = [proc EXCEPT ![p].pc = "newline"]
      BY <1>7 DEF AppendLine
    <3> QED
      BY <1>1, <2>1, <3>1, MovesOnPass
  <2>3. ItemsTo(items') /\ items' \in Seq(Checkpoint) /\ tail' \in Tails
    <3>0. tail \in Tails
      BY DEF TypeOK
    <3>1. CASE tail = "clean"
      <4>1. items' = Append(items, proc[p].cp) /\ tail' = "open"
        BY <1>7, <3>1 DEF AppendLine
      <4> QED
        BY <1>1, <1>7, <2>1, <4>1, Grown DEF ItemsTo, AppendLine, Tails
    <3>2. CASE tail = "open"
      <4>1. items' = SubSeq(items, 1, Len(items) - 1) /\ tail' = "torn"
        BY <1>7, <3>2 DEF AppendLine
      <4>2. CASE items # << >>
        <5>1. Len(items) - 1 \in 0 .. Len(items)
          BY <1>1, <4>2, LastOf
        <5> QED
          BY <1>1, <4>1, <5>1, Cut DEF ItemsTo, Tails
      <4>3. CASE items = << >>
        <5>1. SubSeq(items, 1, Len(items) - 1) = << >>
          BY <4>3, EmptySeq, SubSeqProperties
        <5> QED
          BY <1>1, <4>1, <4>3, <5>1 DEF ItemsTo, Tails
      <4> QED
        BY <4>2, <4>3
    <3>3. CASE tail = "torn"
      <4>1. items' = items /\ tail' = tail
        BY <1>7, <3>3 DEF AppendLine
      <4> QED
        BY <1>1, <3>0, <4>1 DEF ItemsTo
    <3>4. CASE tail \in {"bad", "corrupt"}
      <4>1. items' = items /\ tail' = "corrupt"
        BY <1>7, <3>4 DEF AppendLine
      <4> QED
        BY <1>1, <4>1 DEF ItemsTo, Tails
    <3> QED
      BY <3>0, <3>1, <3>2, <3>3, <3>4 DEF Tails
  <2>4. TypeOK'
    BY <1>11, <1>7, <2>2, <2>3 DEF AppendLine, TypeOK, logVars
  <2>5. log' = log /\ faults' = faults /\ issued' = issued
    BY <1>7 DEF AppendLine, logVars
  <2> QED
    BY <1>1, <2>2, <2>3, <2>4, <2>5 DEF StoreStep
<1>8. CASE AppendNewline(p)
  <2>1. proc[p].pc \in Writing /\ "sync" \in Writing
    BY <1>8 DEF AppendNewline, Writing
  <2>0. proc' = [proc EXCEPT ![p].pc = "sync"]
    BY <1>8 DEF AppendNewline
  <2>2. /\ proc' \in [Ledgers -> PassState]
        /\ \A q \in Ledgers : PassTo(q, proc'[q])
    BY <1>1, <2>0, <2>1, MovesOnPass
  <2>3. tail' \in Tails
    BY <1>8 DEF AppendNewline, TypeOK, Tails
  <2>4. TypeOK'
    BY <1>8, <2>2, <2>3 DEF AppendNewline, TypeOK, logVars
  <2> QED
    BY <1>1, <1>8, <2>2, <2>4 DEF AppendNewline, StoreStep, ItemsTo, logVars
<1>9. CASE Acknowledge(p)
  <2>1. proc[p].cp \in Checkpoint
    BY <1>1, <1>9, PassParts DEF Acknowledge, Writing
  <2>2. PICK o \in Outcomes : Finish(p, o)
    <3>1. "UnauthenticatedRecord" \in Outcomes /\ "sealed" \in Outcomes
      BY DEF Outcomes, Fatal
    <3> QED
      BY <1>9, <3>1 DEF Acknowledge
  <2>3. /\ proc' \in [Ledgers -> PassState] /\ result' \in [Ledgers -> Outcomes]
        /\ \A q \in Ledgers : PassTo(q, proc'[q])
    BY <2>2, FinishFacts DEF PassTo
  <2>4. TypeOK'
    BY <1>9, <2>1, <2>3 DEF Acknowledge, TypeOK, logVars, storeVars
  <2> QED
    BY <1>1, <1>9, <2>3, <2>4 DEF Acknowledge, StoreStep, ItemsTo, logVars, storeVars
<1>10. CASE Relaunch(p)
  <2>1. NoPass \in PassState /\ NoPass.pc = "idle"
    BY DEF NoPass, PassState
  <2>2. /\ proc' \in [Ledgers -> PassState]
        /\ \A q \in Ledgers : PassTo(q, proc'[q])
    BY <1>1, <1>10, <2>1, Replaces DEF Relaunch, PassTo
  <2>3. TypeOK'
    BY <1>10, <2>2 DEF Relaunch, TypeOK, logVars, storeVars
  <2> QED
    BY <1>1, <1>10, <2>2, <2>3 DEF Relaunch, StoreStep, ItemsTo, logVars, storeVars
<1> QED
  BY <1>3, <1>4, <1>5, <1>6, <1>7, <1>8, <1>9, <1>10 DEF Pass

LEMMA CrashStep ==
    ASSUME TypeOK, NEW p \in Ledgers, Crash(p)
    PROVE  StoreStep
<1>1. /\ proc \in [Ledgers -> PassState] /\ result \in [Ledgers -> Outcomes]
      /\ items \in Seq(Checkpoint) /\ issued.seals \in Nat
      /\ faults \in [crashes : Nat, losses : Nat, rewrites : Nat]
  BY DEF TypeOK
<1>2. PICK left \in Remains(p) : items' = left[1] /\ tail' = left[2]
  BY DEF Crash
<1>3. ItemsTo(items') /\ items' \in Seq(Checkpoint) /\ tail' \in Tails
  BY <1>1, <1>2, RemainsFacts, Cut DEF ItemsTo
<1>4. NoPass \in PassState /\ NoPass.pc = "idle" /\ "crashed" \in Outcomes
  BY DEF NoPass, PassState, Outcomes
<1>5. /\ proc' \in [Ledgers -> PassState]
      /\ \A q \in Ledgers : PassTo(q, proc'[q])
  BY <1>1, <1>4, Replaces DEF Crash, PassTo
<1>6. result' \in [Ledgers -> Outcomes]
  BY <1>1, <1>4 DEF Crash
<1>7. /\ faults' \in [crashes : Nat, losses : Nat, rewrites : Nat]
      /\ faults'.rewrites = faults.rewrites
  <2>1. faults' = [faults EXCEPT !.crashes = @ + 1]
    BY DEF Crash
  <2> QED
    BY <1>1, <2>1
<1>8. UNCHANGED <<log, acked, issued, keys, anchors, export, sealed>>
  BY DEF Crash, logVars
<1>9. TypeOK'
  BY <1>3, <1>5, <1>6, <1>7, <1>8, DirPass DEF TypeOK
<1> QED
  BY <1>1, <1>3, <1>5, <1>7, <1>8, <1>9 DEF StoreStep

LEMMA AnchorStep ==
    ASSUME TypeOK, NEW h \in 1 .. MaxSeals, AttachAnchor(h)
    PROVE  StoreStep
<1>1. TrimmedTail \in Tails
  BY DEF TypeOK, TrimmedTail, Tails
<1>2. /\ tail' = TrimmedTail /\ anchors' = anchors \cup {h} /\ ItemsTo(items')
      /\ UNCHANGED <<log, acked, issued, items, keys, proc, result, export, sealed, faults>>
      /\ dir' = Create("anchors")
  BY DEF AttachAnchor, ItemsTo, logVars
<1>5. dir' \in Entries
  BY <1>2, CreateType DEF TypeOK, Files
<1>3. TypeOK'
  BY <1>1, <1>2, <1>5 DEF TypeOK
<1>4. issued.seals <= issued'.seals
  BY <1>2 DEF TypeOK
<1> QED
  BY <1>2, <1>3, <1>4, QuietStep

LEMMA ExportStep ==
    ASSUME TypeOK, Export
    PROVE  StoreStep
<1>1. TrimmedTail \in Tails
  BY DEF TypeOK, TrimmedTail, Tails
<1>2. items \in Seq(Checkpoint) /\ Len(items) \in Nat
  BY LenProperties DEF TypeOK
<1>3. CASE ExportReadLog
  <2>1. /\ issued' \in [records : 0 .. MaxRecords, seals : 0 .. MaxSeals,
                        exports : 0 .. MaxExports]
        /\ issued'.seals = issued.seals /\ issued.seals \in Nat
    <3>1. issued \in [records : 0 .. MaxRecords, seals : 0 .. MaxSeals,
                      exports : 0 .. MaxExports]
      BY DEF TypeOK
    <3>2. issued.exports < MaxExports /\ issued' = [issued EXCEPT !.exports = @ + 1]
      BY <1>3 DEF ExportReadLog
    <3>3. issued.exports + 1 \in 0 .. MaxExports
      BY <3>1, <3>2, LedgerAssumption
    <3> QED
      BY <3>1, <3>2, <3>3
  <2>2. /\ UNCHANGED <<log, acked, items, tail, keys, anchors, dir, proc, result, sealed, faults>>
        /\ export'.pc = "store" /\ ItemsTo(items')
    BY <1>3 DEF ExportReadLog, logVars, storeVars, ItemsTo
  <2>3. TypeOK'
    BY <2>1, <2>2 DEF TypeOK
  <2> QED
    BY <2>1, <2>2, <2>3, QuietStep
<1>4. CASE ExportOpenStore
  <2>1. /\ UNCHANGED <<log, acked, issued, items, keys, anchors, dir, proc, result, sealed, faults>>
        /\ tail' = TrimmedTail /\ export'.pc = "idle" /\ ItemsTo(items')
    BY <1>4 DEF ExportOpenStore, logVars, ItemsTo
  <2>2. TypeOK'
    BY <1>1, <2>1 DEF TypeOK
  <2> QED
    BY <2>1, <2>2, QuietStep DEF TypeOK
<1>5. ASSUME NEW p \in Ledgers, ExportPeeks(p) PROVE StoreStep
  <2>1. /\ UNCHANGED <<log, acked, issued, items, tail, keys, anchors, dir, proc, result, sealed,
                       faults>>
        /\ export'.at \in Nat /\ ItemsTo(items')
    BY <1>2, <1>5 DEF ExportPeeks, logVars, storeVars, ItemsTo
  <2>2. TypeOK'
    BY <2>1 DEF TypeOK
  <2> QED
    BY <2>1, <2>2, QuietStep DEF TypeOK
<1>6. CASE ExportTrims
  <2>1. /\ UNCHANGED <<log, acked, issued, keys, anchors, dir, proc, result, sealed, faults>>
        /\ export'.pc = "idle" /\ export.at \in Nat
    BY <1>6 DEF ExportTrims, logVars, TypeOK
  <2>2. items' \in Seq(Checkpoint) /\ tail' \in Tails /\ ItemsTo(items')
    <3>1. CASE Len(items) > export.at
      <4>1. items' = SubSeq(items, 1, export.at) /\ tail' = "clean"
        BY <1>6, <3>1 DEF ExportTrims
      <4>2. export.at \in 0 .. Len(items)
        BY <1>2, <2>1, <3>1
      <4> QED
        BY <1>2, <4>1, <4>2, Cut DEF ItemsTo, Tails
    <3>2. CASE ~(Len(items) > export.at)
      BY <1>1, <1>2, <1>6, <3>2 DEF ExportTrims, ItemsTo
    <3> QED
      BY <3>1, <3>2
  <2>3. TypeOK'
    BY <2>1, <2>2 DEF TypeOK
  <2> QED
    BY <2>1, <2>2, <2>3, QuietStep DEF TypeOK
<1> QED
  BY <1>3, <1>4, <1>5, <1>6 DEF Export

(* The directory reaches the disk, or loses what never did.                *)
LEMMA DirectoryStep ==
    ASSUME TypeOK, DirectorySettles \/ PowerLost
    PROVE  StoreStep
<1>1. dir \in Entries /\ items \in Seq(Checkpoint) /\ tail \in Tails
  BY DEF TypeOK
<1>2. \A x : Settled(x) \in {"absent", "new", "kept"}
  BY DEF Settled
<1>3. CASE DirectorySettles
  <2>1. [f \in Files |-> Settled(dir.files[f])] \in [Files -> {"absent", "new", "kept"}]
    BY <1>2
  <2>2. dir' \in Entries
    BY <1>3, <2>1 DEF DirectorySettles, Entries
  <2>3. UNCHANGED <<log, acked, issued, items, tail, keys, anchors, proc, result,
                    export, sealed, faults>>
    BY <1>3 DEF DirectorySettles, logVars
  <2>4. TypeOK'
    BY <2>2, <2>3 DEF TypeOK
  <2> QED
    BY <2>3, <2>4, QuietStep DEF TypeOK, ItemsTo
<1>4. CASE PowerLost
  <2>1. PICK lost \in SUBSET Losable :
          /\ dir' = [files |-> [f \in Files |-> IF f \in lost THEN "absent"
                                                ELSE Settled(dir.files[f])],
                     keys  |-> {}]
          /\ items' = IF "checkpoints" \in lost THEN << >> ELSE items
          /\ tail' = IF "checkpoints" \in lost THEN "clean" ELSE tail
          /\ anchors' = IF "anchors" \in lost THEN {} ELSE anchors
    BY <1>4 DEF PowerLost
  <2>2. dir' \in Entries
    <3>1. [f \in Files |-> IF f \in lost THEN "absent" ELSE Settled(dir.files[f])]
          \in [Files -> {"absent", "new", "kept"}]
      BY <1>2
    <3> QED
      BY <2>1, <3>1 DEF Entries
  <2>3. items' \in Seq(Checkpoint) /\ tail' \in Tails /\ ItemsTo(items')
    <3>1. << >> = SubSeq(items, 1, 0) /\ 0 \in 0 .. Len(items)
      BY <1>1, Cut, EmptySeq, LenProperties
    <3> QED
      BY <1>1, <2>1, <3>1, EmptySeq DEF ItemsTo, Tails
  <2>4. anchors' \subseteq 1 .. MaxSeals /\ keys' \subseteq SealKeys
    <3>1. dir.keys \subseteq SUBSET SealKeys
      BY <1>1 DEF Entries
    <3> QED
      BY <1>4, <2>1, <3>1 DEF PowerLost, TypeOK
  <2>5. /\ proc' \in [Ledgers -> PassState] /\ result' \in [Ledgers -> Outcomes]
        /\ \A q \in Ledgers : PassTo(q, proc'[q])
    BY <1>4 DEF PowerLost, NoPass, PassState, Outcomes, PassTo
  <2>6. /\ faults' \in [crashes : Nat, losses : Nat, rewrites : Nat]
        /\ faults'.rewrites = faults.rewrites
    <3>1. faults' = [faults EXCEPT !.crashes = @ + 1]
          /\ faults \in [crashes : Nat, losses : Nat, rewrites : Nat]
      BY <1>4 DEF PowerLost, TypeOK
    <3> QED
      BY <3>1
  <2>7. UNCHANGED <<log, acked, issued, sealed>>
        /\ (export'.pc = "trim" => export'.at \in Nat)
    BY <1>4 DEF PowerLost, logVars, NoExport, TypeOK
  <2>8. TypeOK'
    BY <2>2, <2>3, <2>4, <2>5, <2>6, <2>7 DEF TypeOK
  <2> QED
    BY <2>3, <2>5, <2>6, <2>7, <2>8 DEF StoreStep, TypeOK
<1> QED
  BY <1>3, <1>4

LEMMA Steps ==
    ASSUME TypeOK, [Next]_vars
    PROVE  LogStep \/ StoreStep
<1>1. CASE UNCHANGED vars
  <2>1. TypeOK'
    BY <1>1 DEF vars, TypeOK
  <2> QED
    BY <1>1, <2>1, QuietStep DEF vars, TypeOK, ItemsTo
<1>2. CASE Next
  BY <1>2, PassStep, CrashStep, AnchorStep, ExportStep, DirectoryStep DEF Next
<1> QED
  BY <1>1, <1>2

LEMMA TypeStep == TypeOK /\ [Next]_vars => TypeOK'
BY Steps, LogStepType DEF StoreStep

(* The log, the store's files and the passes keep their types, however     *)
(* many ledgers share the store and whatever fails.                        *)
THEOREM TypeCorrect == Spec => []TypeOK
BY InitType, TypeStep, PTL DEF Spec

-----------------------------------------------------------------------------
(***************************************************************************)
(* One history.  Any number of ledgers, any faults, a log that is          *)
(* rewritten or loses its tail at any time.                                *)
(*                                                                         *)
(* SealsFormOneHistory looks at neighbours in the file; a checkpoint in    *)
(* the making may end up behind another one than it was made for, or that  *)
(* one may vanish.  The invariant therefore speaks of all checkpoints      *)
(* known, in the file or in the making: a number names one of them, and a  *)
(* checkpoint that names another as its predecessor continues its records. *)
(***************************************************************************)

Linked(l) ==
    \A i \in 1 .. Len(l) : l[i].prev = IF i = 1 THEN 0 ELSE l[i - 1].uid

Made == {proc[p].cp : p \in {q \in Ledgers : proc[q].pc \in Writing}}

Known == {items[i] : i \in 1 .. Len(items)} \cup Made

Unwanted == {"invalid", "half"} \cup (IF Require THEN {"unsigned", "unknown"} ELSE {})

WellMade(c) ==
    /\ c.prev < c.uid
    /\ c.uid <= issued.seals
    /\ c.from <= c.to
    /\ c.prev = 0 => c.base = 0
    /\ c.origins \cap Unwanted = {}

Continues(c, d) ==
    /\ c.uid = d.uid => c = d
    /\ c.prev = d.uid => c.base = d.head

HistoryInv ==
    /\ Linked(log)
    /\ \A p \in Ledgers : proc[p].pc = "open" => Linked(proc[p].recs)
    /\ \A c \in Known : WellMade(c)
    /\ \A c, d \in Known : Continues(c, d)

LEMMA LinkedCut ==
    ASSUME NEW l \in Seq(Record), Linked(l), NEW n \in 0 .. Len(l)
    PROVE  Linked(SubSeq(l, 1, n))
<1> DEFINE m == SubSeq(l, 1, n)
<1>1. Len(m) = n /\ (\A i \in 1 .. n : m[i] = l[i]) /\ Len(l) \in Nat
  BY Cut, LenProperties
<1> HIDE DEF m
<1>2. ASSUME NEW i \in 1 .. n PROVE m[i].prev = IF i = 1 THEN 0 ELSE m[i - 1].uid
  <2>1. i \in 1 .. Len(l) /\ (i # 1 => i - 1 \in 1 .. n)
    BY <1>1
  <2>2. m[i] = l[i] /\ (i # 1 => m[i - 1] = l[i - 1])
    BY <1>1, <2>1
  <2> QED
    BY <2>1, <2>2 DEF Linked
<1> QED
  BY <1>1, <1>2 DEF Linked, m

LEMMA LinkedGrown ==
    ASSUME NEW l \in Seq(Record), Linked(l), NEW r \in Record,
           r.prev = IF l = << >> THEN 0 ELSE l[Len(l)].uid
    PROVE  Linked(Append(l, r))
<1> DEFINE m == Append(l, r)
<1>1. /\ Len(m) = Len(l) + 1 /\ (\A i \in 1 .. Len(l) : m[i] = l[i])
      /\ m[Len(l) + 1] = r /\ Len(l) \in Nat
  BY Grown, LenProperties
<1>0. l = << >> <=> Len(l) = 0
  BY EmptySeq
<1> HIDE DEF m
<1>2. ASSUME NEW i \in 1 .. Len(l) + 1
      PROVE  m[i].prev = IF i = 1 THEN 0 ELSE m[i - 1].uid
  <2>1. CASE i \in 1 .. Len(l)
    <3>1. i # 1 => i - 1 \in 1 .. Len(l)
      BY <1>1, <2>1
    <3>2. m[i] = l[i] /\ (i # 1 => m[i - 1] = l[i - 1])
      BY <1>1, <2>1, <3>1
    <3> QED
      BY <2>1, <3>2 DEF Linked
  <2>2. CASE i = Len(l) + 1
    <3>1. i # 1 => Len(l) \in 1 .. Len(l) /\ i - 1 = Len(l)
      BY <1>1, <2>2
    <3>2. m[i] = r /\ (i # 1 => m[i - 1] = l[Len(l)])
      BY <1>1, <2>2, <3>1
    <3> QED
      BY <1>0, <1>1, <2>2, <3>2
  <2> QED
    BY <1>1, <2>1, <2>2
<1> QED
  BY <1>1, <1>2 DEF Linked, m

LEMMA LinkedLog ==
    ASSUME TypeOK, Linked(log), LogTo(log')
    PROVE  Linked(log')
<1>1. log \in Seq(Record) /\ Len(log) \in Nat
  BY LenProperties DEF TypeOK
<1>2. ASSUME NEW k \in 0 .. Len(log), log' = SubSeq(log, 1, k) PROVE Linked(log')
  BY <1>1, <1>2, LinkedCut
<1>3. ASSUME NEW r \in Record, Chained(log, r), log' = Append(log, r) PROVE Linked(log')
  BY <1>1, <1>3, LinkedGrown DEF Chained
<1>4. ASSUME NEW i \in 1 .. Len(log), NEW r \in Record,
             r.prev = IF i = 1 THEN 0 ELSE log[i - 1].uid,
             log' = Append(SubSeq(log, 1, i - 1), r)
      PROVE  Linked(log')
  <2>1. i - 1 \in 0 .. Len(log)
    BY <1>1
  <2>2. PICK m : m = SubSeq(log, 1, i - 1)
    OBVIOUS
  <2>3. /\ m \in Seq(Record) /\ Linked(m) /\ Len(m) = i - 1
        /\ \A j \in 1 .. i - 1 : m[j] = log[j]
    BY <1>1, <2>1, <2>2, LinkedCut, Cut
  <2>4. m = << >> <=> i = 1
    BY <2>1, <2>3, EmptySeq
  <2>5. i # 1 => i - 1 \in 1 .. i - 1
    BY <1>1
  <2>6. r.prev = IF m = << >> THEN 0 ELSE m[Len(m)].uid
    BY <1>4, <2>3, <2>4, <2>5
  <2> QED
    BY <1>4, <2>2, <2>3, <2>6, LinkedGrown
<1> QED
  BY <1>2, <1>3, <1>4 DEF LogTo

LEMMA KnownType ==
    ASSUME TypeOK PROVE Known \subseteq Checkpoint
<1>1. \A p \in Ledgers : proc[p].pc \in Writing => proc[p].cp \in Checkpoint
  BY PassParts DEF TypeOK
<1>2. \A i \in 1 .. Len(items) : items[i] \in Checkpoint
  BY ItemParts DEF TypeOK
<1> QED
  BY <1>1, <1>2 DEF Known, Made

(* The record a new checkpoint starts on chains on the one the store's     *)
(* last checkpoint ends with: that is the boundary check of seal_pass.     *)
LEMMA IntervalContinues ==
    ASSUME TypeOK, HistoryInv, NEW p \in Ledgers, Seals(p)
    PROVE  /\ Interval(p).prev < Interval(p).uid
           /\ Interval(p).from <= Interval(p).to
           /\ Interval(p).prev = 0 => Interval(p).base = 0
           /\ Interval(p).origins \cap Unwanted = {}
           /\ \A d \in Known : Interval(p).prev = d.uid => Interval(p).base = d.head
<1>1. PICK c, recs, from, upto :
        c = Interval(p) /\ recs = proc[p].recs /\ from = SealedTo(items) /\ upto = Upto(p)
  OBVIOUS
<1>2. /\ recs \in Seq(Record) /\ from \in Nat /\ upto \in Nat
      /\ from < upto /\ upto <= Len(recs) /\ Len(recs) \in Nat
      /\ c.uid = issued.seals + 1 /\ c.from = from /\ c.to = upto - 1
      /\ c.prev = (IF items = << >> THEN 0 ELSE items[Len(items)].uid)
      /\ c.base = recs[from + 1].prev
      /\ c.origins = {recs[i].origin : i \in from + 1 .. upto}
  BY <1>1, IntervalFacts, LenProperties
<1>3. Linked(recs)
  BY <1>1 DEF HistoryInv, Seals
<1>4. from + 1 \in 1 .. Len(recs)
  BY <1>2
<1>5. c.from <= c.to
  BY <1>2
<1>6. c.origins \cap Unwanted = {}
  <2>1. \A i \in from + 1 .. upto : ~Refused(recs[i])
    BY <1>1, <1>2, AuthenticFacts DEF Upto
  <2> QED
    BY <1>2, <2>1 DEF Refused, Unwanted
<1>7. issued.seals \in Nat
  BY DEF TypeOK
<1>8. CASE items = << >>
  <2>1. from = 0 /\ c.prev = 0
    BY <1>1, <1>2, <1>8, SealedToType DEF TypeOK
  <2>2. c.base = 0
    BY <1>2, <1>3, <1>4, <2>1 DEF Linked
  <2>3. \A d \in Known : d.uid # 0
    BY KnownType DEF Checkpoint
  <2> QED
    BY <1>1, <1>2, <1>5, <1>6, <1>7, <2>1, <2>2, <2>3
<1>9. CASE items # << >>
  <2>1. PICK last : last = items[Len(items)]
    OBVIOUS
  <2>2. last \in Known /\ last \in Checkpoint
    BY <1>9, <2>1, LastOf DEF Known, TypeOK
  <2>3. from = last.to + 1 /\ last.to \in Nat /\ c.prev = last.uid /\ last.uid \in 1 .. MaxSeals
    BY <1>1, <1>2, <1>9, <2>1, <2>2, SealedToType DEF TypeOK, Checkpoint
  <2>4. last.uid <= issued.seals
    BY <2>2 DEF HistoryInv, WellMade
  <2>5. recs[from].uid = last.head
    BY <1>1, <1>9, <2>1 DEF Seals, Incident
  <2>6. c.base = recs[from].uid
    <3>1. from + 1 # 1 /\ (from + 1) - 1 = from
      BY <1>2, <2>3
    <3> QED
      BY <1>2, <1>3, <1>4, <3>1 DEF Linked
  <2>7. \A d \in Known : last.uid = d.uid => last = d
    BY <2>2 DEF HistoryInv, Continues
  <2> QED
    <3>1. c.prev < c.uid /\ c.prev # 0
      BY <1>2, <1>7, <2>3, <2>4
    <3>2. \A d \in Known : c.prev = d.uid => c.base = d.head
      BY <2>3, <2>5, <2>6, <2>7
    <3> QED
      BY <1>1, <1>5, <1>6, <3>1, <3>2
<1> QED
  BY <1>8, <1>9

(* A step forgets checkpoints, or one ledger makes one.                    *)
LEMMA KnownStep ==
    ASSUME TypeOK, StoreStep
    PROVE  \/ Known' \subseteq Known
           \/ \E p \in Ledgers :
                 /\ Seals(p)
                 /\ issued'.seals = issued.seals + 1
                 /\ Known' \subseteq Known \cup {Interval(p)}
<1>1. items \in Seq(Checkpoint) /\ Len(items) \in Nat /\ ItemsTo(items')
  BY LenProperties DEF TypeOK, StoreStep
<1>2. ASSUME NEW j \in 1 .. Len(items') PROVE items'[j] \in Known
  <2>1. CASE items' = items
    BY <1>2, <2>1 DEF Known
  <2>2. ASSUME NEW n \in 0 .. Len(items), items' = SubSeq(items, 1, n)
        PROVE  items'[j] \in Known
    <3>1. j \in 1 .. n /\ items'[j] = items[j]
      BY <1>1, <1>2, <2>2, Cut
    <3>2. j \in 1 .. Len(items)
      BY <1>1, <3>1
    <3> QED
      BY <3>1, <3>2 DEF Known
  <2>3. ASSUME NEW p \in Ledgers, proc[p].pc = "line", items' = Append(items, proc[p].cp)
        PROVE  items'[j] \in Known
    <3>1. proc[p].cp \in Checkpoint /\ proc[p].cp \in Known
      BY <2>3, PassParts DEF TypeOK, Writing, Known, Made
    <3>2. /\ Len(items') = Len(items) + 1
          /\ \A i \in 1 .. Len(items) : items'[i] = items[i]
          /\ items'[Len(items) + 1] = proc[p].cp
      BY <1>1, <2>3, <3>1, Grown
    <3>3. j \in 1 .. Len(items) \/ j = Len(items) + 1
      BY <1>1, <1>2, <3>2
    <3> QED
      BY <3>1, <3>2, <3>3 DEF Known
  <2> QED
    BY <1>1, <2>1, <2>2, <2>3 DEF ItemsTo
<1>3. ASSUME NEW q \in Ledgers, proc'[q].pc \in Writing,
             ~(Seals(q) /\ proc'[q].cp = Interval(q))
      PROVE  proc'[q].cp \in Known
  <2>1. PassTo(q, proc'[q])
    BY DEF StoreStep
  <2>2. proc[q].pc \in Writing /\ proc'[q].cp = proc[q].cp
    BY <1>3, <2>1 DEF PassTo, Writing
  <2> QED
    BY <2>2 DEF Known, Made
<1>4. CASE \A q \in Ledgers : proc'[q].pc \in Writing => proc'[q].cp \in Known
  BY <1>2, <1>4 DEF Known, Made
<1>5. ASSUME NEW p \in Ledgers, proc'[p].pc \in Writing, proc'[p].cp \notin Known
      PROVE  /\ Seals(p) /\ issued'.seals = issued.seals + 1
             /\ Known' \subseteq Known \cup {Interval(p)}
  <2>1. Seals(p) /\ proc'[p].cp = Interval(p)
    BY <1>3, <1>5
  <2>2. PassTo(p, proc'[p])
    BY DEF StoreStep
  <2>3. ~(proc'[p].pc \in {"idle", "halted", "open"})
    BY <1>5 DEF Writing
  <2>4. ~(proc[p].pc \in Writing)
    BY <2>1 DEF Seals, Writing
  <2>5. /\ issued'.seals = issued.seals + 1
        /\ \A q \in Ledgers : q # p => proc'[q] = proc[q]
    BY <1>5, <2>1, <2>2, <2>3, <2>4 DEF PassTo
  <2>6. \A q \in Ledgers : proc'[q].pc \in Writing =>
            proc'[q].cp \in Known \cup {Interval(p)}
    BY <2>1, <2>5 DEF Known, Made
  <2> QED
    BY <1>2, <2>1, <2>5, <2>6 DEF Known, Made
<1> QED
  BY <1>4, <1>5

LEMMA HistoryStep == TypeOK /\ HistoryInv /\ [Next]_vars => HistoryInv'
<1> SUFFICES ASSUME TypeOK, HistoryInv, [Next]_vars PROVE HistoryInv'
  OBVIOUS
<1>1. CASE LogStep
  <2>1. Linked(log')
    BY <1>1, LogStepType, LinkedLog DEF HistoryInv
  <2>2. UNCHANGED <<items, proc>> /\ issued'.seals = issued.seals
    BY <1>1 DEF LogStep, LogGrows, LogAcknowledged, LogLoses, LogRewritten, storeVars, TypeOK
  <2> QED
    BY <2>1, <2>2 DEF HistoryInv, Known, Made, WellMade, Continues
<1>2. CASE StoreStep
  <2>1. Linked(log')
    BY <1>2 DEF StoreStep, HistoryInv
  <2>2. ASSUME NEW p \in Ledgers, proc'[p].pc = "open" PROVE Linked(proc'[p].recs)
    <3>1. PassTo(p, proc'[p])
      BY <1>2 DEF StoreStep
    <3> QED
      BY <2>2, <3>1 DEF PassTo, HistoryInv, Writing
  <2>3. issued.seals \in Nat /\ issued'.seals \in Nat /\ issued.seals <= issued'.seals
    BY <1>2 DEF StoreStep, TypeOK
  <2>4. Known \subseteq Checkpoint
    BY KnownType
  <2>5. \A c \in Known : WellMade(c)'
    BY <2>3, <2>4 DEF HistoryInv, WellMade, Checkpoint
  <2>6. \A c, d \in Known : Continues(c, d)
    BY DEF HistoryInv
  <2>7. CASE Known' \subseteq Known
    BY <2>1, <2>2, <2>5, <2>6, <2>7 DEF HistoryInv
  <2>8. ASSUME NEW p \in Ledgers, Seals(p), issued'.seals = issued.seals + 1,
               Known' \subseteq Known \cup {Interval(p)}
        PROVE  HistoryInv'
    <3>1. PICK c : c = Interval(p)
      OBVIOUS
    <3>2. /\ c \in Checkpoint /\ c.uid = issued.seals + 1
          /\ c.prev < c.uid /\ c.from <= c.to /\ (c.prev = 0 => c.base = 0)
          /\ c.origins \cap Unwanted = {}
          /\ \A d \in Known : c.prev = d.uid => c.base = d.head
      BY <2>8, <3>1, IntervalFacts, IntervalContinues
    <3>3. WellMade(c)'
      BY <2>3, <2>8, <3>2 DEF WellMade
    <3>4. \A d \in Known : d.uid # c.uid /\ d.prev # c.uid
      <4>1. ASSUME NEW d \in Known
            PROVE  d.uid # c.uid /\ d.prev # c.uid
        <5>1. d.uid \in Nat /\ d.prev \in Nat
          BY <2>4 DEF Checkpoint
        <5>2. d.uid <= issued.seals /\ d.prev < d.uid
          BY DEF HistoryInv, WellMade
        <5> QED
          BY <2>3, <3>2, <5>1, <5>2
      <4> QED
        BY <4>1
    <3>5. \A d \in Known : Continues(c, d) /\ Continues(d, c)
      BY <3>2, <3>4 DEF Continues
    <3>6. Continues(c, c)
      BY <2>3, <3>2, SMTT(30) DEF Continues, Checkpoint
    <3> QED
      BY <2>1, <2>2, <2>5, <2>6, <2>8, <3>1, <3>3, <3>5, <3>6 DEF HistoryInv
  <2> QED
    BY <1>2, <2>7, <2>8, KnownStep
<1> QED
  BY <1>1, <1>2, Steps

LEMMA InitHistory == Init => HistoryInv
<1> SUFFICES ASSUME Init PROVE HistoryInv
  OBVIOUS
<1>1. log = << >> /\ items = << >> /\ \A p \in Ledgers : proc[p].pc = "idle"
  BY DEF Init, AL!Init, NoPass
<1>2. Known = {}
  BY <1>1, EmptySeq DEF Known, Made, Writing
<1> QED
  BY <1>1, <1>2, EmptySeq DEF HistoryInv, Linked

LEMMA HistoryAlways == Spec => [](TypeOK /\ HistoryInv)
BY InitType, InitHistory, TypeStep, HistoryStep, PTL DEF Spec

(* The checkpoints of a store that opens certify one history, whatever     *)
(* happened to the log and to the store and however many ledgers wrote.    *)
THEOREM OneHistory == Spec => []SealsFormOneHistory
<1>1. TypeOK /\ HistoryInv => SealsFormOneHistory
  <2> SUFFICES ASSUME TypeOK, HistoryInv, StoreOpens, NEW i \in 1 .. Len(items)
               PROVE  /\ items[i].base = IF i = 1 THEN 0 ELSE items[i - 1].head
                      /\ items[i].from <= items[i].to
    BY DEF SealsFormOneHistory
  <2>1. items[i].prev = IF i = 1 THEN 0 ELSE items[i - 1].uid
    BY DEF StoreOpens, StoreValid
  <2>2. items[i] \in Known /\ WellMade(items[i])
    BY DEF Known, HistoryInv
  <2>3. CASE i = 1
    BY <2>1, <2>2, <2>3 DEF WellMade
  <2>4. CASE i # 1
    <3>1. i - 1 \in 1 .. Len(items)
      BY <2>4, LenProperties DEF TypeOK
    <3>2. Continues(items[i], items[i - 1])
      BY <2>2, <3>1 DEF Known, HistoryInv
    <3> QED
      BY <2>1, <2>2, <2>4, <3>2 DEF Continues, WellMade
  <2> QED
    BY <2>3, <2>4
<1> QED
  BY <1>1, HistoryAlways, PTL

(* No seal covers a record the origin policy refuses, whatever the log     *)
(* held when a pass read it.                                               *)
THEOREM AuthenticOnly == Spec => []OnlyAuthenticSealed
<1>1. HistoryInv => OnlyAuthenticSealed
  BY DEF HistoryInv, Known, WellMade, Unwanted, OnlyAuthenticSealed
<1> QED
  BY <1>1, HistoryAlways, PTL

-----------------------------------------------------------------------------
(***************************************************************************)
(* The store under one ledger.  Nothing locks it, so that there is one is  *)
(* an assumption; "gap", "peek" and "create" lose checkpoints (Ledger,     *)
(* AllFaults).                                                             *)
(*                                                                         *)
(* AckedSealsKept is not inductive: a crash takes the last line of the     *)
(* file away, which must not be one that was acknowledged, and a line      *)
(* appended to a file that does not end in a newline spoils the one before *)
(* it.  How the file ends depends on where the pass is.                    *)
(***************************************************************************)

OneLedger == \A p, q \in Ledgers : p = q

Alone ==
    OneLedger /\ "gap" \notin Faults /\ "peek" \notin Faults /\ "create" \notin Faults

PassFits(s) ==
    /\ s.pc \in {"key", "line", "sync"} => tail = "clean"
    /\ s.pc = "newline" => tail = "open"
    /\ s.pc \in {"newline", "sync"} =>
          /\ items # << >> /\ items[Len(items)] = s.cp
          /\ \A c \in sealed : \E i \in 1 .. Len(items) - 1 : items[i] = c

KeptInv ==
    /\ AckedSealsKept
    /\ tail \in {"clean", "open", "torn"}
    /\ tail = "open" => \E p \in Ledgers : proc[p].pc = "newline"
    /\ \A p \in Ledgers : PassFits(proc[p])
    /\ export.pc # "trim"

(* The end of the file after an opener trimmed it.                         *)
LEMMA TrimmedFacts ==
    ASSUME KeptInv
    PROVE  /\ TrimmedTail \in {"clean", "open"}
           /\ tail = "open" <=> TrimmedTail = "open"
           /\ tail = "clean" => TrimmedTail = "clean"
BY DEF KeptInv, TrimmedTail

LEMMA KeptPass ==
    ASSUME Alone, TypeOK, KeptInv, NEW p \in Ledgers, Pass(p)
    PROVE  KeptInv'
<1>1. /\ \A q \in Ledgers : q = p
      /\ PassFits(proc[p]) /\ AckedSealsKept /\ tail \in {"clean", "open", "torn"}
      /\ tail = "open" => proc[p].pc = "newline"
      /\ items \in Seq(Checkpoint) /\ Len(items) \in Nat
      /\ proc \in [Ledgers -> PassState] /\ proc[p] \in PassState
  BY LenProperties DEF Alone, OneLedger, KeptInv, TypeOK
<1>2. SUFFICES /\ AckedSealsKept'
               /\ tail' \in {"clean", "open", "torn"}
               /\ tail' = "open" => proc'[p].pc = "newline"
               /\ PassFits(proc[p])'
               /\ export' = export
  BY <1>1 DEF KeptInv
<1>3. CASE ReadLog(p)
  <2>1. proc'[p].pc = "open" /\ proc[p].pc = "idle"
    BY <1>1, <1>3 DEF ReadLog
  <2>2. UNCHANGED <<items, tail, sealed, export>>
    BY <1>3 DEF ReadLog, storeVars
  <2> QED
    BY <1>1, <2>1, <2>2 DEF PassFits, AckedSealsKept
<1>4. CASE OpenBroken(p)
  <2>1. "StoreBroken" \in Outcomes
    BY DEF Outcomes, Fatal
  <2>2. proc'[p].pc \in {"idle", "halted"} /\ proc[p].pc = "open" /\ tail' = TrimmedTail
    BY <1>4, <2>1, FinishFacts DEF OpenBroken
  <2>3. UNCHANGED <<items, sealed, export>>
    BY <1>4 DEF OpenBroken
  <2> QED
    BY <1>1, <2>2, <2>3, TrimmedFacts DEF PassFits, AckedSealsKept
<1>5. CASE OpenAndDecide(p)
  <2>1. proc[p].pc = "open" /\ tail' = TrimmedTail /\ UNCHANGED <<items, sealed, export>>
    BY <1>5 DEF OpenAndDecide
  <2>2. tail' = "clean"
    BY <1>1, <2>1, TrimmedFacts
  <2>3. proc'[p].pc \in {"idle", "halted", "key"}
    <3>1. CASE \E o \in Outcomes : Finish(p, o)
      BY <3>1, FinishFacts
    <3>2. CASE \E cut \in BOOLEAN :
                proc' = [proc EXCEPT ![p] =
                            [pc |-> "key", cut |-> cut, keys |-> keys, cp |-> Interval(p)]]
      BY <1>1, <3>2
    <3> QED
      BY <1>5, <3>1, <3>2, DecideFacts
  <2> QED
    BY <1>1, <2>1, <2>2, <2>3 DEF PassFits, AckedSealsKept
<1>6. CASE RecordKey(p)
  <2>1. proc[p].pc = "key" /\ UNCHANGED <<items, tail, sealed, export>>
    BY <1>6 DEF RecordKey
  <2>2. proc'[p].pc \in {"idle", "halted", "line"}
    <3>1. CASE Finish(p, "KeyConflict")
      <4>1. "KeyConflict" \in Outcomes
        BY DEF Outcomes, Fatal
      <4> QED
        BY <3>1, <4>1, FinishFacts
    <3>2. CASE proc' = [proc EXCEPT ![p].pc = "line"]
      <4>1. proc[p].pc \in Writing /\ "line" \in Writing
        BY <2>1 DEF Writing
      <4> QED
        BY <1>1, <3>2, <4>1, MovesOn
    <3> QED
      BY <1>6, <3>1, <3>2 DEF RecordKey
  <2> QED
    BY <1>1, <2>1, <2>2 DEF PassFits, AckedSealsKept
<1>7. CASE AppendLine(p)
  <2>1. proc[p].pc = "line" /\ UNCHANGED <<sealed, export>>
        /\ proc' = [proc EXCEPT ![p].pc = "newline"]
    BY <1>7 DEF AppendLine
  <2>2. tail = "clean"
    BY <1>1, <2>1 DEF PassFits
  <2>3. items' = Append(items, proc[p].cp) /\ tail' = "open"
    BY <1>7, <2>2 DEF AppendLine
  <2>4. proc[p].pc \in Writing /\ "newline" \in Writing /\ proc[p].cp \in Checkpoint
    BY <1>1, <2>1, PassParts DEF Writing
  <2>5. proc'[p].pc = "newline" /\ proc'[p].cp = proc[p].cp
    BY <1>1, <2>1, <2>4, MovesOn
  <2>6. /\ Len(items') = Len(items) + 1 /\ items' # << >>
        /\ \A i \in 1 .. Len(items) : items'[i] = items[i]
        /\ items'[Len(items')] = proc[p].cp
    BY <1>1, <2>3, <2>4, Grown, AppendProperties
  <2>7. \A c \in sealed' : \E i \in 1 .. Len(items') - 1 : items'[i] = c
    <3>1. Len(items') - 1 = Len(items)
      BY <1>1, <2>6
    <3> QED
      BY <1>1, <2>1, <2>6, <3>1 DEF AckedSealsKept
  <2>8. AckedSealsKept'
    BY <1>1, <2>6, <2>7 DEF AckedSealsKept
  <2> QED
    BY <1>1, <2>1, <2>3, <2>5, <2>6, <2>7, <2>8 DEF PassFits
<1>8. CASE AppendNewline(p)
  <2>1. proc[p].pc = "newline" /\ UNCHANGED <<items, sealed, export>>
        /\ proc' = [proc EXCEPT ![p].pc = "sync"]
    BY <1>8 DEF AppendNewline
  <2>2. tail = "open"
    BY <1>1, <2>1 DEF PassFits
  <2>3. tail' = "clean"
    BY <1>8, <2>2 DEF AppendNewline
  <2>4. proc[p].pc \in Writing /\ "sync" \in Writing
    BY <2>1 DEF Writing
  <2>5. proc'[p].pc = "sync" /\ proc'[p].cp = proc[p].cp
    BY <1>1, <2>1, <2>4, MovesOn
  <2> QED
    BY <1>1, <2>1, <2>3, <2>5 DEF PassFits, AckedSealsKept
<1>9. CASE Acknowledge(p)
  <2>1. /\ proc[p].pc = "sync" /\ sealed' = sealed \cup {proc[p].cp}
        /\ UNCHANGED <<items, tail, export>>
    BY <1>9 DEF Acknowledge, storeVars
  <2>2. proc'[p].pc \in {"idle", "halted"}
    <3>1. "UnauthenticatedRecord" \in Outcomes /\ "sealed" \in Outcomes
      BY DEF Outcomes, Fatal
    <3>2. PICK o \in Outcomes : Finish(p, o)
      BY <1>9, <3>1 DEF Acknowledge
    <3> QED
      BY <3>2, FinishFacts
  <2>3. items # << >> /\ items[Len(items)] = proc[p].cp /\ tail = "clean"
    BY <1>1, <2>1 DEF PassFits
  <2>4. Len(items) \in 1 .. Len(items)
    BY <1>1, <2>3, LastOf
  <2>5. AckedSealsKept'
    BY <1>1, <2>1, <2>3, <2>4 DEF AckedSealsKept
  <2> QED
    BY <1>1, <2>1, <2>2, <2>3, <2>5 DEF PassFits
<1>10. CASE Relaunch(p)
  <2>1. proc'[p].pc = "idle" /\ proc[p].pc = "halted"
    BY <1>1, <1>10 DEF Relaunch, NoPass
  <2>2. UNCHANGED <<items, tail, sealed, export>>
    BY <1>10 DEF Relaunch, storeVars
  <2> QED
    BY <1>1, <2>1, <2>2 DEF PassFits, AckedSealsKept
<1> QED
  BY <1>3, <1>4, <1>5, <1>6, <1>7, <1>8, <1>9, <1>10 DEF Pass

(* A crash takes away at most the line that is being written.              *)
LEMMA CrashFacts ==
    ASSUME Alone, TypeOK, KeptInv, NEW p \in Ledgers, Crash(p)
    PROVE  /\ tail' \in {"clean", "torn"}
           /\ proc'[p].pc = "idle"
           /\ UNCHANGED <<keys, anchors, sealed, export>>
           /\ \/ items' = items
              \/ /\ items # << >>
                 /\ items' = SubSeq(items, 1, Len(items) - 1)
                 /\ \A c \in sealed : \E i \in 1 .. Len(items) - 1 : items[i] = c
<1>1. /\ PassFits(proc[p]) /\ proc[p].pc \in {"key", "line", "newline", "sync"}
      /\ "gap" \notin Faults
  BY DEF Alone, KeptInv, Crash
<1>2. PICK left \in Remains(p) : items' = left[1] /\ tail' = left[2]
  BY DEF Crash
<1>3. proc'[p].pc = "idle" /\ UNCHANGED <<keys, anchors, sealed, export>>
  BY DEF Crash, NoPass, TypeOK
<1> DEFINE shorter == SubSeq(items, 1, Len(items) - 1)
<1>4. CASE proc[p].pc = "key"
  <2>1. left = <<items, tail>>
    BY <1>4 DEF Remains
  <2> QED
    BY <1>1, <1>2, <1>3, <1>4, <2>1 DEF PassFits
<1>5. CASE proc[p].pc = "line"
  <2>1. left \in {<<items, tail>>, <<items, "torn">>}
    BY <1>5 DEF Remains
  <2> QED
    BY <1>1, <1>2, <1>3, <1>5, <2>1 DEF PassFits
<1>6. CASE proc[p].pc = "newline"
  <2>1. left \in {<<shorter, "clean">>, <<shorter, "torn">>}
    BY <1>1, <1>6 DEF Remains, PassFits
  <2> QED
    BY <1>1, <1>2, <1>3, <1>6, <2>1 DEF PassFits
<1>7. CASE proc[p].pc = "sync"
  <2>1. left \in {<<items, tail>>, <<shorter, "clean">>, <<shorter, "torn">>}
    BY <1>1, <1>7 DEF Remains, PassFits
  <2> QED
    BY <1>1, <1>2, <1>3, <1>7, <2>1 DEF PassFits
<1> QED
  BY <1>1, <1>4, <1>5, <1>6, <1>7

LEMMA KeptCrash ==
    ASSUME Alone, TypeOK, KeptInv, NEW p \in Ledgers, Crash(p)
    PROVE  KeptInv'
<1>1. items \in Seq(Checkpoint) /\ Len(items) \in Nat /\ \A q \in Ledgers : q = p
  BY LenProperties DEF TypeOK, Alone, OneLedger
<1>2. AckedSealsKept'
  <2>1. CASE items' = items
    BY <2>1, CrashFacts DEF KeptInv, AckedSealsKept
  <2>2. CASE /\ items # << >>
             /\ items' = SubSeq(items, 1, Len(items) - 1)
             /\ \A c \in sealed : \E i \in 1 .. Len(items) - 1 : items[i] = c
    <3>1. Len(items) - 1 \in 0 .. Len(items)
      BY <1>1, <2>2, LastOf
    <3>2. /\ Len(items') = Len(items) - 1
          /\ \A i \in 1 .. Len(items) - 1 : items'[i] = items[i]
      BY <1>1, <2>2, <3>1, Cut
    <3>3. sealed' = sealed
      BY CrashFacts
    <3> QED
      BY <2>2, <3>2, <3>3 DEF AckedSealsKept
  <2> QED
    BY <2>1, <2>2, CrashFacts
<1>3. proc'[p].pc = "idle" /\ tail' \in {"clean", "torn"} /\ export' = export
  BY CrashFacts
<1> QED
  BY <1>1, <1>2, <1>3 DEF KeptInv, PassFits

(* What a step outside the passes does to the store.                       *)
LEMMA OutsideFacts ==
    ASSUME Alone, TypeOK, KeptInv,
           \/ LogStep
           \/ \E h \in 1 .. MaxSeals : AttachAnchor(h)
           \/ Export
           \/ DirectorySettles
           \/ UNCHANGED vars
    PROVE  /\ UNCHANGED <<items, keys, proc, result, sealed>>
           /\ tail' \in {tail, TrimmedTail}
           /\ export' = export \/ export'.pc \in {"store", "idle"}
<1>1. CASE LogStep
  BY <1>1 DEF LogStep, LogGrows, LogAcknowledged, LogLoses, LogRewritten, storeVars
<1>2. CASE \E h \in 1 .. MaxSeals : AttachAnchor(h)
  BY <1>2 DEF AttachAnchor
<1>3. CASE ExportReadLog
  BY <1>3 DEF ExportReadLog, storeVars
<1>4. CASE ExportOpenStore
  BY <1>4 DEF ExportOpenStore
<1>5. CASE UNCHANGED vars
  BY <1>5 DEF vars
<1>7. CASE DirectorySettles
  BY <1>7 DEF DirectorySettles
<1>6. ~ExportTrims /\ \A p \in Ledgers : ~ExportPeeks(p)
  BY DEF Alone, KeptInv, ExportTrims, ExportPeeks
<1> QED
  BY <1>1, <1>2, <1>3, <1>4, <1>5, <1>6, <1>7 DEF Export

(* A power loss that takes no file whole leaves the lines as they are.     *)
LEMMA PowerFacts ==
    ASSUME Alone, TypeOK, PowerLost
    PROVE  /\ UNCHANGED <<items, tail, anchors, sealed>>
           /\ "rename" \notin Faults => keys' = keys
           /\ \A p \in Ledgers : proc'[p].pc = "idle" /\ proc[p].pc # "newline"
           /\ export' = export \/ export' = NoExport
<1>1. Losable = {}
  BY DEF Losable, Alone
<1> QED
  BY <1>1 DEF PowerLost, NoPass

LEMMA KeptStep == Alone /\ TypeOK /\ KeptInv /\ [Next]_vars => KeptInv'
<1> SUFFICES ASSUME Alone, TypeOK, KeptInv, [Next]_vars PROVE KeptInv'
  OBVIOUS
<1>1. CASE \/ LogStep
           \/ \E h \in 1 .. MaxSeals : AttachAnchor(h)
           \/ Export
           \/ DirectorySettles
           \/ UNCHANGED vars
  <2>1. /\ UNCHANGED <<items, proc, sealed>> /\ tail' \in {tail, TrimmedTail}
        /\ export'.pc # "trim"
    BY <1>1, OutsideFacts DEF KeptInv
  <2>2. /\ tail' \in {"clean", "open", "torn"}
        /\ tail' = "open" <=> tail = "open"
        /\ tail = "clean" => tail' = "clean"
    BY <2>1, TrimmedFacts DEF KeptInv
  <2> QED
    BY <2>1, <2>2 DEF KeptInv, PassFits, AckedSealsKept
<1>2. CASE PowerLost
  <2>1. export'.pc # "trim"
    BY <1>2, PowerFacts DEF KeptInv, NoExport
  <2> QED
    BY <1>2, <2>1, PowerFacts DEF KeptInv, PassFits, AckedSealsKept
<1> QED
  BY <1>1, <1>2, KeptPass, KeptCrash DEF Next

LEMMA InitKept == Init => KeptInv
<1> SUFFICES ASSUME Init PROVE KeptInv
  OBVIOUS
<1>1. \A p \in Ledgers : proc[p].pc = "idle"
  BY DEF Init, NoPass
<1> QED
  BY <1>1 DEF Init, KeptInv, PassFits, AckedSealsKept, NoExport

(* A checkpoint whose pass was acknowledged stays in the store, through    *)
(* crashes, trims and later passes of its one ledger, and through power    *)
(* losses that do not take the file with its entry in the directory.       *)
THEOREM SealsKept == ASSUME Alone PROVE Spec => []AckedSealsKept
<1>1. TypeOK /\ KeptInv /\ [Next]_vars => (TypeOK /\ KeptInv)'
  BY TypeStep, KeptStep
<1>2. KeptInv => AckedSealsKept
  BY DEF KeptInv
<1> QED
  BY <1>1, <1>2, InitType, InitKept, PTL DEF Spec

LEMMA PackStep ==
    ASSUME Alone, TypeOK, KeptInv, ValidPackHoldsSealed, [Next]_vars
    PROVE  ValidPackHoldsSealed'
<1>1. CASE export' = export
  BY <1>1 DEF ValidPackHoldsSealed
<1>2. CASE ExportReadLog
  BY <1>2 DEF ExportReadLog, ValidPackHoldsSealed
<1>3. CASE ExportOpenStore
  <2> SUFFICES ASSUME export'.verdict = "valid", NEW c \in sealed
               PROVE  /\ c.to < Len(export.recs)
                      /\ \A k \in 1 .. Len(c.root) :
                            c.root[k] = export.recs[c.from + k].uid
    BY <1>3 DEF ExportOpenStore, ValidPackHoldsSealed
  <2>1. PackValid(export.recs, items)
    BY <1>3 DEF ExportOpenStore, ExportVerdict
  <2>2. PICK i \in 1 .. Len(items) : items[i] = c
    BY DEF KeptInv, AckedSealsKept
  <2> QED
    BY <2>1, <2>2 DEF PackValid
<1>4. ~ExportTrims /\ \A p \in Ledgers : ~ExportPeeks(p)
  BY DEF Alone, KeptInv, ExportTrims, ExportPeeks
<1>5. CASE Export
  BY <1>2, <1>3, <1>4, <1>5 DEF Export
<1>6. CASE LogStep
  BY <1>1, <1>6 DEF LogStep, LogGrows, LogAcknowledged, LogLoses, LogRewritten
<1>7. ASSUME NEW p \in Ledgers, Pass(p) PROVE export' = export
  BY <1>7 DEF Pass, ReadLog, OpenBroken, OpenAndDecide, RecordKey, AppendLine,
              AppendNewline, Acknowledge, Relaunch
<1>8. ASSUME NEW p \in Ledgers, Crash(p) PROVE export' = export
  BY <1>8 DEF Crash
<1>9. ASSUME NEW h \in 1 .. MaxSeals, AttachAnchor(h) PROVE export' = export
  BY <1>9 DEF AttachAnchor
<1>10. CASE UNCHANGED vars
  BY <1>1, <1>10 DEF vars
<1>11. CASE PowerLost \/ DirectorySettles
  <2>1. export' = export \/ export' = NoExport
    BY <1>11, PowerFacts DEF DirectorySettles
  <2> QED
    BY <2>1 DEF NoExport, ValidPackHoldsSealed
<1> QED
  BY <1>1, <1>5, <1>6, <1>7, <1>8, <1>9, <1>10, <1>11 DEF Next

(* A pack that verified holds, unaltered, every record under a checkpoint  *)
(* acknowledged before its export, whatever happened to the log.           *)
THEOREM PacksHoldSealed == ASSUME Alone PROVE Spec => []ValidPackHoldsSealed
<1>1. Init => TypeOK /\ KeptInv /\ ValidPackHoldsSealed
  BY InitType, InitKept DEF Init, NoExport, ValidPackHoldsSealed
<1>2. TypeOK /\ KeptInv /\ ValidPackHoldsSealed /\ [Next]_vars
        => (TypeOK /\ KeptInv /\ ValidPackHoldsSealed)'
  BY TypeStep, KeptStep, PackStep
<1> QED
  BY <1>1, <1>2, PTL DEF Spec

-----------------------------------------------------------------------------
(***************************************************************************)
(* A store only its ledger wrote to opens.  Beyond the above, what a pass  *)
(* decided on must still be true when it writes: the checkpoint it made    *)
(* continues the file, and its key was recorded before it.                 *)
(***************************************************************************)

Undisturbed == Alone /\ "early" \notin Faults /\ "rename" \notin Faults

HeadOf(cps) == IF cps = << >> THEN 0 ELSE cps[Len(cps)].uid

ItemsValid(cps, known) ==
    \A i \in 1 .. Len(cps) :
        /\ cps[i].prev = IF i = 1 THEN 0 ELSE cps[i - 1].uid
        /\ cps[i].from = IF i = 1 THEN 0 ELSE cps[i - 1].to + 1
        /\ cps[i].key \in known

Prepared(s) ==
    /\ s.pc \in {"key", "line"} =>
          s.cp.prev = HeadOf(items) /\ s.cp.from = SealedTo(items)
    /\ s.pc = "key" => s.keys = keys
    /\ s.pc = "line" => s.cp.key \in keys

StoreInv ==
    /\ ItemsValid(items, keys)
    /\ anchors \subseteq {c.uid : c \in sealed}
    /\ \A p \in Ledgers : Prepared(proc[p])

LEMMA StoreInvOpens ==
    ASSUME TypeOK, KeptInv, StoreInv PROVE StoreOpens
<1>1. {c.uid : c \in sealed} \subseteq {items[i].uid : i \in 1 .. Len(items)}
  BY DEF KeptInv, AckedSealsKept
<1> QED
  BY <1>1 DEF KeptInv, StoreInv, StoreOpens, StoreValid, ItemsValid

LEMMA ItemsValidCut ==
    ASSUME NEW f \in Seq(Checkpoint), NEW known, ItemsValid(f, known), NEW n \in 0 .. Len(f)
    PROVE  ItemsValid(SubSeq(f, 1, n), known)
<1> DEFINE m == SubSeq(f, 1, n)
<1>1. Len(m) = n /\ (\A i \in 1 .. n : m[i] = f[i]) /\ Len(f) \in Nat
  BY Cut, LenProperties
<1> HIDE DEF m
<1>2. ASSUME NEW i \in 1 .. n
      PROVE  /\ m[i].prev = IF i = 1 THEN 0 ELSE m[i - 1].uid
             /\ m[i].from = IF i = 1 THEN 0 ELSE m[i - 1].to + 1
             /\ m[i].key \in known
  <2>1. i \in 1 .. Len(f) /\ (i # 1 => i - 1 \in 1 .. n)
    BY <1>1
  <2>2. m[i] = f[i] /\ (i # 1 => m[i - 1] = f[i - 1])
    BY <1>1, <2>1
  <2> QED
    BY <2>1, <2>2 DEF ItemsValid
<1> QED
  BY <1>1, <1>2 DEF ItemsValid, m

LEMMA ItemsValidGrown ==
    ASSUME NEW f \in Seq(Checkpoint), NEW known, ItemsValid(f, known), NEW c \in Checkpoint,
           c.prev = HeadOf(f), c.from = SealedTo(f), c.key \in known
    PROVE  ItemsValid(Append(f, c), known)
<1> DEFINE m == Append(f, c)
<1>1. /\ Len(m) = Len(f) + 1 /\ (\A i \in 1 .. Len(f) : m[i] = f[i])
      /\ m[Len(f) + 1] = c /\ Len(f) \in Nat
  BY Grown, LenProperties
<1>0. f = << >> <=> Len(f) = 0
  BY EmptySeq
<1> HIDE DEF m
<1>2. ASSUME NEW i \in 1 .. Len(f) + 1
      PROVE  /\ m[i].prev = IF i = 1 THEN 0 ELSE m[i - 1].uid
             /\ m[i].from = IF i = 1 THEN 0 ELSE m[i - 1].to + 1
             /\ m[i].key \in known
  <2>1. CASE i \in 1 .. Len(f)
    <3>1. i # 1 => i - 1 \in 1 .. Len(f)
      BY <1>1, <2>1
    <3>2. m[i] = f[i] /\ (i # 1 => m[i - 1] = f[i - 1])
      BY <1>1, <2>1, <3>1
    <3> QED
      BY <2>1, <3>2 DEF ItemsValid
  <2>2. CASE i = Len(f) + 1
    <3>1. i # 1 => Len(f) \in 1 .. Len(f) /\ i - 1 = Len(f)
      BY <1>1, <2>2
    <3>2. m[i] = c /\ (i # 1 => m[i - 1] = f[Len(f)])
      BY <1>1, <2>2, <3>1
    <3> QED
      BY <1>0, <1>1, <2>2, <3>2 DEF HeadOf, SealedTo
  <2> QED
    BY <1>1, <2>1, <2>2
<1> QED
  BY <1>1, <1>2 DEF ItemsValid, m

LEMMA StorePass ==
    ASSUME Undisturbed, TypeOK, KeptInv, StoreInv, NEW p \in Ledgers, Pass(p)
    PROVE  StoreInv'
<1>1. /\ \A q \in Ledgers : q = p
      /\ PassFits(proc[p]) /\ Prepared(proc[p])
      /\ ItemsValid(items, keys) /\ anchors \subseteq {c.uid : c \in sealed}
      /\ items \in Seq(Checkpoint)
      /\ proc \in [Ledgers -> PassState] /\ proc[p] \in PassState
  BY DEF Undisturbed, Alone, OneLedger, KeptInv, StoreInv, TypeOK
<1>2. SUFFICES /\ ItemsValid(items, keys)'
               /\ anchors' \subseteq {c.uid : c \in sealed'}
               /\ Prepared(proc[p])'
  BY <1>1 DEF StoreInv
<1>3. CASE ReadLog(p)
  <2>1. proc'[p].pc = "open" /\ UNCHANGED <<items, keys, anchors, sealed>>
    BY <1>1, <1>3 DEF ReadLog, storeVars
  <2> QED
    BY <1>1, <2>1 DEF Prepared, ItemsValid
<1>4. CASE OpenBroken(p)
  BY <1>4, StoreInvOpens DEF OpenBroken
<1>5. CASE OpenAndDecide(p)
  <2>1. UNCHANGED <<items, keys, anchors, sealed>>
    BY <1>5 DEF OpenAndDecide
  <2>2. Prepared(proc[p])'
    <3>1. CASE \E o \in Outcomes : Finish(p, o)
      BY <3>1, FinishFacts DEF Prepared
    <3>2. ASSUME Seals(p), NEW cut \in BOOLEAN,
                 proc' = [proc EXCEPT ![p] =
                            [pc |-> "key", cut |-> cut, keys |-> keys, cp |-> Interval(p)]]
          PROVE  Prepared(proc[p])'
      <4>1. proc'[p].pc = "key" /\ proc'[p].keys = keys /\ proc'[p].cp = Interval(p)
        BY <1>1, <3>2
      <4>2. Interval(p).prev = HeadOf(items) /\ Interval(p).from = SealedTo(items)
        BY <3>2, IntervalFacts DEF HeadOf
      <4> QED
        BY <2>1, <4>1, <4>2 DEF Prepared, HeadOf, SealedTo
    <3> QED
      BY <1>5, <3>1, <3>2, DecideFacts
  <2> QED
    BY <1>1, <2>1, <2>2 DEF ItemsValid
<1>6. CASE RecordKey(p)
  <2>1. proc[p].pc = "key" /\ UNCHANGED <<items, anchors, sealed>>
    BY <1>6 DEF RecordKey
  <2>2. proc[p].keys = keys
    BY <1>1, <2>1 DEF Prepared
  <2>3. keys \subseteq keys'
    BY <1>6, <2>2 DEF RecordKey
  <2>4. Prepared(proc[p])'
    <3>1. CASE Finish(p, "KeyConflict")
      <4>1. "KeyConflict" \in Outcomes
        BY DEF Outcomes, Fatal
      <4> QED
        BY <3>1, <4>1, FinishFacts DEF Prepared
    <3>2. CASE /\ proc' = [proc EXCEPT ![p].pc = "line"]
               /\ keys' = IF proc[p].cp.key \in proc[p].keys THEN keys
                          ELSE proc[p].keys \cup {proc[p].cp.key}
      <4>1. proc[p].pc \in Writing /\ "line" \in Writing
        BY <2>1 DEF Writing
      <4>2. proc'[p].pc = "line" /\ proc'[p].cp = proc[p].cp
        BY <1>1, <3>2, <4>1, MovesOn
      <4>3. proc[p].cp.key \in keys'
        BY <2>2, <3>2
      <4> QED
        BY <1>1, <2>1, <4>2, <4>3 DEF Prepared, HeadOf, SealedTo
    <3> QED
      BY <1>6, <3>1, <3>2 DEF RecordKey
  <2> QED
    BY <1>1, <2>1, <2>3, <2>4 DEF ItemsValid
<1>7. CASE AppendLine(p)
  <2>1. proc[p].pc = "line" /\ UNCHANGED <<keys, anchors, sealed>>
        /\ proc' = [proc EXCEPT ![p].pc = "newline"]
    BY <1>7 DEF AppendLine
  <2>2. tail = "clean"
    BY <1>1, <2>1 DEF PassFits
  <2>3. items' = Append(items, proc[p].cp)
    BY <1>7, <2>2 DEF AppendLine
  <2>4. proc[p].pc \in Writing /\ "newline" \in Writing /\ proc[p].cp \in Checkpoint
    BY <1>1, <2>1, PassParts DEF Writing
  <2>5. proc'[p].pc = "newline"
    BY <1>1, <2>1, <2>4, MovesOn
  <2>6. ItemsValid(items', keys)
    BY <1>1, <2>1, <2>3, <2>4, ItemsValidGrown DEF Prepared
  <2> QED
    BY <1>1, <2>1, <2>5, <2>6 DEF Prepared
<1>8. CASE AppendNewline(p)
  <2>1. proc[p].pc = "newline" /\ UNCHANGED <<items, keys, anchors, sealed>>
        /\ proc' = [proc EXCEPT ![p].pc = "sync"]
    BY <1>8 DEF AppendNewline
  <2>2. proc[p].pc \in Writing /\ "sync" \in Writing
    BY <2>1 DEF Writing
  <2>3. proc'[p].pc = "sync"
    BY <1>1, <2>1, <2>2, MovesOn
  <2> QED
    BY <1>1, <2>1, <2>3 DEF Prepared, ItemsValid
<1>9. CASE Acknowledge(p)
  <2>1. sealed \subseteq sealed' /\ UNCHANGED <<items, keys, anchors>>
    BY <1>9 DEF Acknowledge, storeVars
  <2>2. proc'[p].pc \in {"idle", "halted"}
    <3>1. "UnauthenticatedRecord" \in Outcomes /\ "sealed" \in Outcomes
      BY DEF Outcomes, Fatal
    <3>2. PICK o \in Outcomes : Finish(p, o)
      BY <1>9, <3>1 DEF Acknowledge
    <3> QED
      BY <3>2, FinishFacts
  <2> QED
    BY <1>1, <2>1, <2>2 DEF Prepared, ItemsValid
<1>10. CASE Relaunch(p)
  <2>1. proc'[p].pc = "idle" /\ UNCHANGED <<items, keys, anchors, sealed>>
    BY <1>1, <1>10 DEF Relaunch, NoPass, storeVars
  <2> QED
    BY <1>1, <2>1 DEF Prepared, ItemsValid
<1> QED
  BY <1>3, <1>4, <1>5, <1>6, <1>7, <1>8, <1>9, <1>10 DEF Pass

LEMMA StoreInvStep ==
    Undisturbed /\ TypeOK /\ KeptInv /\ StoreInv /\ [Next]_vars => StoreInv'
<1> SUFFICES ASSUME Undisturbed, TypeOK, KeptInv, StoreInv, [Next]_vars PROVE StoreInv'
  OBVIOUS
<1>0. Alone /\ items \in Seq(Checkpoint)
  BY DEF Undisturbed, TypeOK
<1>1. CASE \/ LogStep
           \/ \E h \in 1 .. MaxSeals : AttachAnchor(h)
           \/ Export
           \/ DirectorySettles
           \/ UNCHANGED vars
  <2>1. UNCHANGED <<items, keys, proc, sealed>>
    BY <1>0, <1>1, OutsideFacts
  <2>2. anchors' \subseteq anchors \cup {c.uid : c \in sealed}
    <3>1. CASE \E h \in 1 .. MaxSeals : AttachAnchor(h)
      BY <3>1 DEF AttachAnchor, Undisturbed
    <3>2. CASE LogStep
      BY <3>2 DEF LogStep, LogGrows, LogAcknowledged, LogLoses, LogRewritten, storeVars
    <3>3. CASE Export
      BY <3>3 DEF Export, ExportReadLog, ExportOpenStore, ExportTrims, ExportPeeks, storeVars
    <3>4. CASE UNCHANGED vars \/ DirectorySettles
      BY <3>4 DEF vars, DirectorySettles
    <3> QED
      BY <1>1, <3>1, <3>2, <3>3, <3>4
  <2> QED
    BY <2>1, <2>2 DEF StoreInv, ItemsValid, Prepared, HeadOf, SealedTo
<1>2. ASSUME NEW p \in Ledgers, Crash(p) PROVE StoreInv'
  <2>1. /\ proc'[p].pc = "idle" /\ UNCHANGED <<keys, anchors, sealed>>
        /\ \A q \in Ledgers : q = p
    BY <1>0, <1>2, CrashFacts DEF Alone, OneLedger
  <2>2. ItemsValid(items', keys)
    <3>1. CASE items' = items
      BY <3>1 DEF StoreInv
    <3>2. CASE items # << >> /\ items' = SubSeq(items, 1, Len(items) - 1)
      <4>1. Len(items) - 1 \in 0 .. Len(items)
        BY <1>0, <3>2, LastOf
      <4> QED
        BY <1>0, <3>2, <4>1, ItemsValidCut DEF StoreInv
    <3> QED
      BY <1>0, <1>2, <3>1, <3>2, CrashFacts
  <2> QED
    BY <2>1, <2>2 DEF StoreInv, Prepared
<1>3. CASE PowerLost
  <2>1. /\ UNCHANGED <<items, keys, anchors, sealed>>
        /\ \A p \in Ledgers : proc'[p].pc = "idle"
    BY <1>0, <1>3, PowerFacts DEF Undisturbed
  <2> QED
    BY <2>1 DEF StoreInv, Prepared
<1> QED
  BY <1>1, <1>2, <1>3, StorePass DEF Next

(* A store that one ledger wrote to, and nobody else, always opens again,  *)
(* as long as no power loss undoes the replacement of its keys.            *)
THEOREM StoreAlwaysOpens == ASSUME Undisturbed PROVE Spec => []StoreNeverBroken
<1>1. Init => TypeOK /\ KeptInv /\ StoreInv
  <2> SUFFICES ASSUME Init PROVE StoreInv
    BY InitType, InitKept
  <2>1. \A p \in Ledgers : proc[p].pc = "idle"
    BY DEF Init, NoPass
  <2> QED
    BY <2>1, EmptySeq DEF Init, StoreInv, ItemsValid, Prepared
<1>2. TypeOK /\ KeptInv /\ StoreInv /\ [Next]_vars => (TypeOK /\ KeptInv /\ StoreInv)'
  BY TypeStep, KeptStep, StoreInvStep DEF Undisturbed
<1>3. TypeOK /\ KeptInv /\ StoreInv => StoreNeverBroken
  BY StoreInvOpens DEF StoreNeverBroken
<1> QED
  BY <1>1, <1>2, <1>3, PTL DEF Spec

-----------------------------------------------------------------------------
(***************************************************************************)
(* No false incident: an honest log that only grows never contradicts what *)
(* its one ledger sealed, whatever happens to the store.  The invariant    *)
(* compares every checkpoint, in the file or in the making, with the log   *)
(* of now, and what a pass has read with the store it is about to open.    *)
(***************************************************************************)

Covers(recs, c) == c.to < Len(recs) /\ recs[c.to + 1].uid = c.head

Begins(recs, l) == Len(recs) <= Len(l) /\ \A i \in 1 .. Len(recs) : recs[i] = l[i]

HonestLog ==
    /\ \A c \in Known : Covers(log, c)
    /\ \A p \in Ledgers : proc[p].pc = "open" =>
          /\ Begins(proc[p].recs, log)
          /\ \A i \in 1 .. Len(items) : Covers(proc[p].recs, items[i])

HonestInv == faults.rewrites = 0 => HonestLog /\ NoFalseIncident

LEMMA CoversLonger ==
    ASSUME NEW recs \in Seq(Record), NEW l \in Seq(Record), Begins(recs, l),
           NEW c \in Checkpoint, Covers(recs, c)
    PROVE  Covers(l, c)
<1>1. Len(recs) \in Nat /\ Len(l) \in Nat /\ c.to \in Nat
  BY LenProperties DEF Checkpoint
<1>2. c.to + 1 \in 1 .. Len(recs) /\ c.to < Len(l)
  BY <1>1 DEF Covers, Begins
<1> QED
  BY <1>2 DEF Covers, Begins

LEMMA BeginsLonger ==
    ASSUME NEW a \in Seq(Record), NEW b \in Seq(Record), NEW c \in Seq(Record),
           Begins(a, b), Begins(b, c)
    PROVE  Begins(a, c)
<1>1. Len(a) \in Nat /\ Len(b) \in Nat /\ Len(c) \in Nat
  BY LenProperties
<1>2. \A i \in 1 .. Len(a) : i \in 1 .. Len(b)
  BY <1>1 DEF Begins
<1> QED
  BY <1>1, <1>2 DEF Begins

(* A log that nobody rewrites and that loses nothing only grows.           *)
LEMMA LogOnlyGrows ==
    ASSUME MaxLosses = 0, TypeOK, LogStep, faults'.rewrites = 0
    PROVE  /\ Begins(log, log') /\ faults.rewrites = 0
           /\ UNCHANGED <<items, proc, result>>
<1>1. /\ log \in Seq(Record) /\ Len(log) \in Nat
      /\ faults.losses \in Nat /\ faults.rewrites \in Nat
      /\ faults \in [crashes : Nat, losses : Nat, rewrites : Nat]
  BY LenProperties DEF TypeOK
<1>2. CASE LogGrows
  <2>1. PICK r \in Record : log' = Append(log, r)
    BY <1>2 DEF LogGrows, AL!Grow
  <2>2. Len(log') = Len(log) + 1 /\ \A i \in 1 .. Len(log) : log'[i] = log[i]
    BY <1>1, <2>1, Grown
  <2>3. Begins(log, log')
    BY <1>1, <2>2 DEF Begins
  <2> QED
    BY <1>2, <2>3 DEF LogGrows, storeVars
<1>3. CASE LogAcknowledged
  BY <1>1, <1>3 DEF LogAcknowledged, AL!Acknowledge, Begins, storeVars
<1>4. CASE LogLoses
  BY <1>1, <1>4 DEF LogLoses
<1>5. ASSUME NEW i \in 1 .. Len(log), NEW o \in Origins, LogRewritten(i, o)
      PROVE  FALSE
  <2>1. faults' = [faults EXCEPT !.rewrites = @ + 1]
    BY <1>5 DEF LogRewritten
  <2>2. faults'.rewrites = faults.rewrites + 1
    BY <1>1, <2>1
  <2> QED
    BY <1>1, <2>2
<1> QED
  BY <1>2, <1>3, <1>4, <1>5 DEF LogStep

(* A pass that finds every checkpoint covered sees no incident, other than *)
(* a record it cannot read.                                                *)
LEMMA NoIncident ==
    ASSUME TypeOK, NEW recs \in Seq(Record),
           \A i \in 1 .. Len(items) : Covers(recs, items[i])
    PROVE  Incident(recs, items) \in {"none", "UnreadablePayload"}
<1>1. CASE items = << >>
  BY <1>1 DEF Incident
<1>2. CASE items # << >>
  <2>1. PICK last : last = items[Len(items)]
    OBVIOUS
  <2>2. last.to \in Nat /\ SealedTo(items) = last.to + 1 /\ Covers(recs, last)
    BY <1>2, <2>1, LastOf, SealedToType, ItemParts DEF TypeOK
  <2>3. Len(recs) \in Nat
    BY LenProperties
  <2>4. ~(Len(recs) < SealedTo(items)) /\ recs[SealedTo(items)].uid = last.head
    BY <2>2, <2>3 DEF Covers
  <2> QED
    BY <1>2, <2>1, <2>4 DEF Incident
<1> QED
  BY <1>1, <1>2

(* Where a result can come from.                                           *)
LEMMA ResultStep ==
    ASSUME TypeOK, StoreStep, [Next]_vars, ~LogStep, NEW q \in Ledgers
    PROVE  \/ result'[q] = result[q]
           \/ result'[q] \notin {"TruncatedLog", "DivergedLog"}
           \/ proc[q].pc = "open" /\ result'[q] = Incident(proc[q].recs, items)
<1>1. result \in [Ledgers -> Outcomes] /\ proc \in [Ledgers -> PassState]
  BY DEF TypeOK
<1>2. CASE UNCHANGED vars
  BY <1>2 DEF vars
<1>3. CASE Export \/ \E h \in 1 .. MaxSeals : AttachAnchor(h)
  BY <1>3 DEF AttachAnchor, Export, ExportReadLog, ExportOpenStore, ExportTrims, ExportPeeks
<1>4. ASSUME NEW p \in Ledgers, Crash(p)
      PROVE  result'[q] = result[q] \/ result'[q] = "crashed"
  BY <1>1, <1>4 DEF Crash
<1>6. CASE DirectorySettles \/ PowerLost
  BY <1>6 DEF DirectorySettles, PowerLost
<1>5. ASSUME NEW p \in Ledgers, Pass(p)
      PROVE  \/ result'[q] = result[q]
             \/ result'[q] \notin {"TruncatedLog", "DivergedLog"}
             \/ proc[q].pc = "open" /\ result'[q] = Incident(proc[q].recs, items)
  <2>1. CASE ReadLog(p) \/ AppendLine(p) \/ AppendNewline(p) \/ Relaunch(p)
    BY <2>1 DEF ReadLog, AppendLine, AppendNewline, Relaunch
  <2>2. CASE OpenBroken(p) \/ RecordKey(p) \/ Acknowledge(p)
    <3>1. /\ {"StoreBroken", "KeyConflict", "UnauthenticatedRecord", "sealed"} \subseteq Outcomes
          /\ {"StoreBroken", "KeyConflict", "UnauthenticatedRecord", "sealed"}
                \cap {"TruncatedLog", "DivergedLog"} = {}
      BY DEF Outcomes, Fatal
    <3>2. \/ result' = result
          \/ \E o \in {"StoreBroken", "KeyConflict", "UnauthenticatedRecord", "sealed"} :
                Finish(p, o)
      BY <2>2 DEF OpenBroken, RecordKey, Acknowledge
    <3> QED
      BY <3>1, <3>2, FinishFacts
  <2>3. CASE OpenAndDecide(p)
    <3>1. proc[p].pc = "open"
      BY <2>3 DEF OpenAndDecide
    <3>2. CASE result' = result
      BY <3>2
    <3>3. ASSUME NEW o \in Outcomes, Finish(p, o),
                 o \in {"UnauthenticatedRecord", "nothing", Incident(proc[p].recs, items)}
          PROVE  \/ result'[q] = result[q]
                 \/ result'[q] \notin {"TruncatedLog", "DivergedLog"}
                 \/ proc[q].pc = "open" /\ result'[q] = Incident(proc[q].recs, items)
      <4>1. (q # p => result'[q] = result[q]) /\ result'[p] = o
        BY <3>3, FinishFacts
      <4> QED
        BY <3>1, <3>3, <4>1
    <3> QED
      BY <2>3, <3>2, <3>3, DecideFacts
  <2> QED
    BY <1>5, <2>1, <2>2, <2>3 DEF Pass
<1> QED
  BY <1>2, <1>3, <1>4, <1>5, <1>6 DEF Next

LEMMA HonestStep ==
    OneLedger /\ MaxLosses = 0 /\ TypeOK /\ HonestInv /\ [Next]_vars => HonestInv'
<1> SUFFICES ASSUME OneLedger, MaxLosses = 0, TypeOK, HonestInv, [Next]_vars,
                    faults'.rewrites = 0
             PROVE  HonestLog' /\ NoFalseIncident'
  BY DEF HonestInv
<1>1. log \in Seq(Record) /\ log' \in Seq(Record) /\ Known \subseteq Checkpoint
      /\ items \in Seq(Checkpoint) /\ items' \in Seq(Checkpoint)
  BY TypeStep, KnownType DEF TypeOK
<1>2. CASE LogStep
  <2>1. Begins(log, log') /\ faults.rewrites = 0 /\ UNCHANGED <<items, proc, result>>
    BY <1>2, LogOnlyGrows
  <2>2. HonestLog /\ NoFalseIncident
    BY <2>1 DEF HonestInv
  <2>3. Known' = Known
    BY <2>1 DEF Known, Made
  <2>4. \A c \in Known' : Covers(log', c)
    BY <1>1, <2>1, <2>2, <2>3, CoversLonger DEF HonestLog
  <2>5. ASSUME NEW p \in Ledgers, proc'[p].pc = "open" PROVE Begins(proc'[p].recs, log')
    <3>1. proc[p].recs \in Seq(Record) /\ Begins(proc[p].recs, log)
      BY <2>1, <2>2, <2>5, PassParts DEF TypeOK, HonestLog
    <3> QED
      BY <1>1, <2>1, <3>1, BeginsLonger
  <2>6. HonestLog'
    BY <2>1, <2>2, <2>4, <2>5 DEF HonestLog
  <2> QED
    BY <1>2, <2>1, <2>2, <2>6 DEF NoFalseIncident
<1>3. CASE StoreStep /\ ~LogStep
  <2>1. log' = log /\ faults.rewrites = 0
    BY <1>3 DEF StoreStep
  <2>2. HonestLog /\ NoFalseIncident
    BY <2>1 DEF HonestInv
  <2>3. \A c \in Known' : Covers(log', c)
    <3>1. CASE Known' \subseteq Known
      BY <2>1, <2>2, <3>1 DEF HonestLog
    <3>2. ASSUME NEW p \in Ledgers, Seals(p), Known' \subseteq Known \cup {Interval(p)}
          PROVE  \A c \in Known' : Covers(log', c)
      <4>1. PICK c, recs, upto : c = Interval(p) /\ recs = proc[p].recs /\ upto = Upto(p)
        OBVIOUS
      <4>2. /\ recs \in Seq(Record) /\ upto \in Nat /\ 0 < upto /\ upto <= Len(recs)
            /\ c \in Checkpoint /\ c.to = upto - 1 /\ c.head = recs[upto].uid
        BY <3>2, <4>1, IntervalFacts
      <4>3. Covers(recs, c)
        BY <4>2, LenProperties DEF Covers
      <4>4. Begins(recs, log)
        BY <2>2, <3>2, <4>1 DEF HonestLog, Seals
      <4>5. Covers(log, c)
        BY <1>1, <4>2, <4>3, <4>4, CoversLonger
      <4> QED
        BY <2>1, <2>2, <3>2, <4>1, <4>5 DEF HonestLog
    <3> QED
      BY <1>3, <3>1, <3>2, KnownStep
  <2>4. ASSUME NEW p \in Ledgers, proc'[p].pc = "open"
        PROVE  /\ Begins(proc'[p].recs, log')
               /\ \A i \in 1 .. Len(items') : Covers(proc'[p].recs, items'[i])
    <3>1. PassTo(p, proc'[p])
      BY <1>3 DEF StoreStep
    <3>2. CASE proc[p].pc = "idle" /\ proc'[p].recs = log
      <4>1. Begins(log, log)
        BY <1>1, LenProperties DEF Begins
      <4>2. \A i \in 1 .. Len(items') : items'[i] \in Known'
        BY DEF Known
      <4> QED
        BY <2>1, <2>3, <3>2, <4>1, <4>2
    <3>3. CASE proc'[p] = proc[p]
      <4>1. /\ Begins(proc[p].recs, log)
            /\ \A i \in 1 .. Len(items) : Covers(proc[p].recs, items[i])
        BY <2>2, <2>4, <3>3 DEF HonestLog
      <4>2. \A q \in Ledgers : proc[q].pc # "line"
        BY <2>4, <3>3 DEF OneLedger
      <4>3. ItemsTo(items') /\ Len(items) \in Nat
        BY <1>1, <1>3, LenProperties DEF StoreStep
      <4>4. CASE items' = items
        BY <2>1, <3>3, <4>1, <4>4
      <4>5. ASSUME NEW n \in 0 .. Len(items), items' = SubSeq(items, 1, n)
            PROVE  \A i \in 1 .. Len(items') : Covers(proc[p].recs, items'[i])
        <5>1. Len(items') = n /\ \A i \in 1 .. n : items'[i] = items[i]
          BY <1>1, <4>5, Cut
        <5>2. \A i \in 1 .. n : i \in 1 .. Len(items)
          BY <4>3
        <5> QED
          BY <4>1, <5>1, <5>2
      <4> QED
        BY <2>1, <3>3, <4>1, <4>2, <4>3, <4>4, <4>5 DEF ItemsTo
    <3> QED
      BY <2>4, <3>1, <3>2, <3>3 DEF PassTo, Writing
  <2>5. HonestLog'
    BY <2>3, <2>4 DEF HonestLog
  <2>6. ASSUME NEW q \in Ledgers PROVE result'[q] \notin {"TruncatedLog", "DivergedLog"}
    <3>1. CASE proc[q].pc = "open" /\ result'[q] = Incident(proc[q].recs, items)
      <4>1. /\ proc[q].recs \in Seq(Record)
            /\ \A i \in 1 .. Len(items) : Covers(proc[q].recs, items[i])
        BY <2>2, <3>1, PassParts DEF TypeOK, HonestLog
      <4> QED
        BY <3>1, <4>1, NoIncident
    <3>2. result[q] \notin {"TruncatedLog", "DivergedLog"}
      BY <2>1, <2>2 DEF NoFalseIncident
    <3> QED
      BY <1>3, <3>1, <3>2, ResultStep
  <2> QED
    BY <2>5, <2>6 DEF NoFalseIncident
<1> QED
  BY <1>2, <1>3, Steps

(* A log that nobody rewrote and that lost nothing is never reported as    *)
(* truncated or rewritten, whatever happens to the store of its ledger.    *)
THEOREM NoFalseAlarm ==
    ASSUME OneLedger, MaxLosses = 0 PROVE Spec => []NoFalseIncident
<1>1. Init => TypeOK /\ HonestInv
  <2> SUFFICES ASSUME Init PROVE HonestInv
    BY InitType
  <2>1. \A p \in Ledgers : proc[p].pc = "idle" /\ result[p] = "none"
    BY DEF Init, NoPass
  <2>2. Known = {}
    BY <2>1, EmptySeq DEF Init, Known, Made, Writing
  <2> QED
    BY <2>1, <2>2 DEF HonestInv, HonestLog, NoFalseIncident
<1>2. TypeOK /\ HonestInv /\ [Next]_vars => (TypeOK /\ HonestInv)'
  BY TypeStep, HonestStep
<1>3. HonestInv => NoFalseIncident
  BY DEF HonestInv, NoFalseIncident
<1> QED
  BY <1>1, <1>2, <1>3, PTL DEF Spec
=============================================================================
