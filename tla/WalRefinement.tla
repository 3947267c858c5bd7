--------------------------- MODULE WalRefinement ---------------------------
(***************************************************************************)
(* The write-ahead log implements the abstract audit log, for every bound: *)
(* under the mapping of MCWal, each step of Wal is a step of AuditLog or   *)
(* changes neither what a replay returns nor what was acknowledged.        *)
(***************************************************************************)
EXTENDS MCWal, WalProofs

(* A log of the gateway alone, with faults that Durability and             *)
(* HonestReplay allow: a log that does not replay returns nothing to map.  *)
Plain == Contained /\ "utf8" \notin Faults /\ MaxOther = 0

-----------------------------------------------------------------------------
(***************************************************************************)
(* The invariant.                                                          *)
(***************************************************************************)

(* The record of line i has the sequence number i - 1.                     *)
Numbered(f) == \A i \in 1 .. Len(f) : f[i].text = "record" => f[i].rec.seq = i - 1

(* Numbers, links and kinds stay within what SmallRecords holds.           *)
Small(r) ==
    /\ r.uid \in 1 .. issued
    /\ r.seq < r.uid
    /\ r.prev \in 0 .. issued
    /\ r.kind = "own"

Counted ==
    /\ \A r \in Known : Small(r)
    /\ issued <= MaxRecords
    /\ chain.next_seq <= issued
    /\ chain.head \in 0 .. issued

(* What a replay of the disk would return is a prefix of what a replay of  *)
(* the file returns: a power loss takes lines away and brings none back.   *)
DiskPrefix ==
    \E m \in 0 .. Len(disk) :
        /\ Replays(disk, m)
        /\ m <= Len(file)
        /\ \A i \in 1 .. m : disk[i] = file[i]

AckedMax ==
    acked # {} => \E r \in acked : \A q \in acked : q.seq <= r.seq

(* A record of a newer build.                                              *)
HoldsNewer(f) == \E j \in 1 .. Len(f) : ~Understood(f[j].rec)

RefInv ==
    /\ HonestInv
    /\ cur.kind = "own" /\ ~HoldsNewer(file) /\ ~HoldsNewer(disk)
    /\ Numbered(file) /\ Numbered(disk)
    /\ Counted
    /\ DiskPrefix
    /\ AckedMax

LEMMA RefParts ==
    ASSUME RefInv
    PROVE  /\ TypeOK /\ DurableInv /\ WriterState /\ AckedDurable /\ NoDangling(disk)
           /\ file \in Seq(Line) /\ disk \in Seq(Line) /\ cur \in Record
           /\ Len(file) \in Nat /\ Len(disk) \in Nat
           /\ ReplayOk(file) /\ ReplayOk(disk)
<1>1. TypeOK /\ DurableInv /\ WriterState /\ AckedDurable /\ NoDangling(disk)
      /\ Honest(file) /\ Honest(disk)
  BY DEF RefInv, HonestInv, DurableInv
<1>2. ~HoldsNewer(file) /\ ~HoldsNewer(disk)
  BY DEF RefInv
<1>3. file \in Seq(Line) /\ disk \in Seq(Line) /\ cur \in Record
  BY <1>1 DEF TypeOK
<1>4. ReplayOk(file) /\ ReplayOk(disk)
  BY <1>1, <1>2, <1>3, HonestReplays DEF HoldsNewer
<1> QED
  BY <1>1, <1>3, <1>4, LenProperties

LEMMA RefReplays == RefInv => ReplayOk(file)
BY RefParts

LEMMA RefReplaysNext == ASSUME RefInv' PROVE ReplayOk(file')
<1>1. (RefInv => ReplayOk(file))'
  BY RefReplays, PTL
<1> QED
  BY <1>1 DEF ReplayOk

(* Nobody else writes.                                                     *)
LEMMA Alone == ASSUME Plain, TypeOK PROVE ~OtherWriter /\ ~OtherKilled
<1>1. MaxOther = 0 /\ other \in Nat
  BY DEF Plain, TypeOK
<1>2. OtherWriter \/ OtherKilled => other < MaxOther
  BY DEF OtherWriter, OtherKilled, OtherAppends
<1> QED
  BY <1>1, <1>2

(* The bytes a gateway adds to the log are never those of a newer build.   *)
LEMMA PutNewer ==
    ASSUME NEW f \in Seq(Line), NEW line \in Line, ~HoldsNewer(f), Understood(line.rec)
    PROVE  ~HoldsNewer(Put(f, line))
<1>1. Len(f) \in Nat
  BY LenProperties
<1>2. CASE OpenTail(f)
  <2>1. PICK t : Put(f, line) = [f EXCEPT ![Len(f)] = Broken(t, FALSE)]
    BY <1>2 DEF Put
  <2>2. PICK b : b = Broken(t, FALSE)
    OBVIOUS
  <2>3. Understood(b.rec)
    BY <2>2 DEF Broken, NoRecord, Understood
  <2>4. PICK g : g = [f EXCEPT ![Len(f)] = b]
    OBVIOUS
  <2>5. Len(g) = Len(f) /\ \A j \in 1 .. Len(f) : g[j] = IF j = Len(f) THEN b ELSE f[j]
    BY <1>1, <2>4
  <2> QED
    BY <2>1, <2>2, <2>3, <2>4, <2>5 DEF HoldsNewer
<1>3. CASE ~OpenTail(f)
  <2>1. PICK g : g = Put(f, line)
    OBVIOUS
  <2>2. /\ Len(g) = Len(f) + 1
        /\ \A i \in 1 .. Len(f) : g[i] = f[i]
        /\ g[Len(f) + 1] = line
    BY <1>3, <2>1, PutFresh
  <2>3. \A i \in 1 .. Len(f) + 1 : i \in 1 .. Len(f) \/ i = Len(f) + 1
    BY <1>1
  <2> QED
    BY <2>1, <2>2, <2>3 DEF HoldsNewer
<1> QED
  BY <1>2, <1>3

LEMMA PutNewlineNewer ==
    ASSUME NEW f \in Seq(Line), f # << >>, ~HoldsNewer(f)
    PROVE  ~HoldsNewer(PutNewline(f))
<1>1. PICK g : g = PutNewline(f)
  OBVIOUS
<1>2. /\ Len(g) = Len(f)
      /\ \A i \in 1 .. Len(f) : i # Len(f) => g[i] = f[i]
      /\ g[Len(f)].rec = f[Len(f)].rec
  BY <1>1, PutNewlineFacts
<1> QED
  BY <1>1, <1>2 DEF HoldsNewer

LEMMA TrimNewer ==
    ASSUME NEW f \in Seq(Line), NEW n \in 0 .. Len(f), ~HoldsNewer(f)
    PROVE  ~HoldsNewer(Trim(f, n))
<1>1. Len(f) \in Nat
  BY LenProperties
<1>2. CASE n = Len(f) /\ OpenTail(f)
  <2>1. PICK b : b = Broken("garbled", FALSE)
    OBVIOUS
  <2>2. Understood(b.rec)
    BY <2>1 DEF Broken, NoRecord, Understood
  <2>3. PICK g : g = [f EXCEPT ![n] = b]
    OBVIOUS
  <2>4. Len(g) = Len(f) /\ \A j \in 1 .. Len(f) : g[j] = IF j = n THEN b ELSE f[j]
    BY <1>1, <2>3
  <2> QED
    BY <1>2, <2>1, <2>2, <2>3, <2>4 DEF HoldsNewer, Trim
<1>3. CASE ~(n = Len(f) /\ OpenTail(f))
  <2>1. PICK g : g = SubSeq(f, 1, n)
    OBVIOUS
  <2>2. Len(g) = n /\ \A i \in 1 .. n : g[i] = f[i]
    BY <2>1, CutFacts
  <2>3. Trim(f, n) = g
    BY <1>3, <2>1 DEF Trim
  <2>4. \A i \in 1 .. n : i \in 1 .. Len(f)
    BY <1>1
  <2> QED
    BY <2>2, <2>3, <2>4 DEF HoldsNewer
<1> QED
  BY <1>2, <1>3

(* Only another writer brings a record of a newer build into the log.      *)
LEMMA NewerFromOthers ==
    ASSUME TypeOK, cur.kind = "own", [Next]_vars, ~OtherWriter, ~OtherKilled,
           ~HoldsNewer(file), ~HoldsNewer(disk)
    PROVE  ~HoldsNewer(file') /\ ~HoldsNewer(disk')
<1>a. TypeOK /\ cur.kind = "own"
  OBVIOUS
<1>b. file \in Seq(Line) /\ disk \in Seq(Line) /\ cur \in Record
  BY <1>a DEF TypeOK
<1>0. ~HoldsNewer(disk)
  OBVIOUS
<1>e. ~HoldsNewer(<< >>)
  BY EmptySeq DEF HoldsNewer
<1>f. \A b \in Fragments : b \in Line /\ Understood(b.rec)
  <2>1. \A b \in Fragments : b.rec = NoRecord
    BY DEF Fragments, Broken
  <2>2. Understood(NoRecord)
    BY DEF NoRecord, Understood
  <2> QED
    BY <2>1, <2>2, FragmentFacts
<1>1. CASE OpenNew
  BY <1>1, <1>e DEF OpenNew
<1>2. CASE OpenExisting
  <2>1. \E n \in 0 .. Len(file) : file' = file \/ file' = Trim(file, n)
    BY <1>2 DEF OpenExisting
  <2>2. ~HoldsNewer(file')
    BY <1>b, <2>1, TrimNewer
  <2>3. disk' = disk
    BY <1>2 DEF OpenExisting
  <2> QED
    BY <1>0, <2>2, <2>3
<1>3. CASE WriteLine
  <2>1. PICK w : w = Whole(cur, FALSE)
    OBVIOUS
  <2>2. w \in Line /\ w.rec = cur
    BY <1>b, <2>1, WholeFacts
  <2>3. Understood(w.rec)
    BY <1>a, <2>2 DEF Understood
  <2>4. ~HoldsNewer(Put(file, w))
    BY <1>b, <2>2, <2>3, PutNewer
  <2> QED
    BY <1>0, <1>3, <2>1, <2>4 DEF WriteLine
<1>4. CASE WriteNewline
  <2>1. file # << >>
    BY <1>a, <1>4 DEF WriteNewline, TypeOK
  <2>2. ~HoldsNewer(PutNewline(file))
    BY <1>b, <2>1, PutNewlineNewer
  <2> QED
    BY <1>0, <1>4, <2>2 DEF WriteNewline
<1>5. CASE KillTorn \/ WriteLineFails
  <2>1. disk' = disk /\ (file' = file \/ \E b \in Fragments : file' = Put(file, b))
    BY <1>5 DEF KillTorn, WriteLineFails
  <2>2. ~HoldsNewer(file')
    BY <1>b, <1>f, <2>1, PutNewer
  <2> QED
    BY <1>0, <2>1, <2>2
<1>6. CASE PowerLoss
  <2>1. CASE file' = << >> \/ file' = disk
    BY <1>0, <1>6, <1>e, <2>1 DEF PowerLoss
  <2>2. CASE Within(file', file)
    <3>1. Understood(NoRecord)
      BY DEF Understood, NoRecord
    <3>2. ~HoldsNewer(file')
      BY <2>2, <3>1 DEF HoldsNewer, Within
    <3>3. disk' = file'
      BY <1>6 DEF PowerLoss
    <3> QED
      BY <3>2, <3>3
  <2> QED
    BY <1>a, <1>6, <2>1, <2>2, PowerLossLines
<1>7. CASE SyncData
  BY <1>0, <1>7 DEF SyncData
<1>8. CASE UNCHANGED <<file, disk>>
  BY <1>0, <1>8 DEF HoldsNewer
<1> QED
  BY <1>1, <1>2, <1>3, <1>4, <1>5, <1>6, <1>7, <1>8
     DEF Next, Open, Write, Fault, SyncDir, OpenUnreadable, BeginWrite, SignFails,
         WriteNewlineFails, SyncDataFails, Stop, KillGap, KillCreated, vars

LEMMA WithinNumbered ==
    ASSUME NEW f, NEW g, Numbered(f), Within(g, f)
    PROVE  Numbered(g)
BY DEF Numbered, Within

(* A line that is put down at its place.                                   *)
LEMMA AppendNumbered ==
    ASSUME NEW f \in Seq(Line), NEW g \in Seq(Line), Numbered(f),
           Len(g) = Len(f) + 1, \A i \in 1 .. Len(f) : g[i] = f[i],
           g[Len(f) + 1].text = "record" => g[Len(f) + 1].rec.seq = Len(f)
    PROVE  Numbered(g)
<1>1. Len(f) \in Nat
  BY LenProperties
<1>2. \A i \in 1 .. Len(f) + 1 : i \in 1 .. Len(f) \/ i = Len(f) + 1
  BY <1>1
<1>3. (Len(f) + 1) - 1 = Len(f)
  BY <1>1
<1> QED
  BY <1>2, <1>3 DEF Numbered

LEMMA CutNumbered ==
    ASSUME NEW f \in Seq(Line), NEW g \in Seq(Line), Numbered(f),
           Len(g) <= Len(f), \A i \in 1 .. Len(g) : g[i] = f[i]
    PROVE  Numbered(g)
<1>1. Len(f) \in Nat /\ Len(g) \in Nat
  BY LenProperties
<1>2. \A i \in 1 .. Len(g) : i \in 1 .. Len(f)
  BY <1>1
<1> QED
  BY <1>2 DEF Numbered

(* The record about to be written is numbered by the lines before it.      *)
LEMMA CurPlace == ASSUME RefInv, pc = "line" PROVE cur.seq = Len(file)
<1>1. cur.seq = ResumeAt(file, Len(file)).next_seq /\ GoodPrefix(file, Len(file))
  BY RefParts DEF WriterState
<1>2. Len(file) \in Nat
  BY RefParts
<1>3. CASE Len(file) = 0
  BY <1>1, <1>3 DEF ResumeAt, NewChain
<1>4. CASE Len(file) # 0
  <2>1. Len(file) \in 1 .. Len(file)
    BY <1>2, <1>4
  <2>2. file[Len(file)].text = "record"
    BY <1>1, <2>1 DEF GoodPrefix, GoodLine
  <2>3. file[Len(file)].rec.seq = Len(file) - 1
    BY <2>1, <2>2 DEF RefInv, Numbered
  <2>4. cur.seq = file[Len(file)].rec.seq + 1
    BY <1>1, <1>4 DEF ResumeAt
  <2> QED
    BY <1>2, <2>3, <2>4
<1> QED
  BY <1>3, <1>4

LEMMA NumberedStep ==
    ASSUME Plain, RefInv, [Next]_vars, DurableInv'
    PROVE  Numbered(file') /\ Numbered(disk')
<1>1. /\ TypeOK /\ DurableInv /\ WriterState /\ file \in Seq(Line) /\ disk \in Seq(Line)
      /\ cur \in Record /\ Len(file) \in Nat
  BY RefParts
<1>2. file' \in Seq(Line) /\ Numbered(file) /\ Numbered(disk)
  BY DEF RefInv, DurableInv, TypeOK
<1>3. ~OtherWriter /\ ~OtherKilled
  BY <1>1, Alone
<1>4. Numbered(<< >>)
  BY EmptySeq DEF Numbered
<1>5. CASE OpenNew
  BY <1>4, <1>5 DEF OpenNew
<1>6. CASE OpenExisting
  <2>1. PICK n \in 0 .. Len(file) : Replays(file, n) /\ (file' = file \/ file' = Trim(file, n))
    BY <1>6 DEF OpenExisting
  <2>2. NoDangling(file)
    BY <1>1, <1>6 DEF OpenExisting, WriterState
  <2>3. file' = Trim(file, n) => Len(file') = n /\ \A i \in 1 .. n : file'[i] = file[i]
    BY <1>1, <2>1, <2>2, TrimFacts
  <2>4. n <= Len(file)
    BY <1>1
  <2>5. Numbered(file')
    BY <1>1, <1>2, <2>1, <2>3, <2>4, CutNumbered
  <2> QED
    BY <1>2, <1>6, <2>5 DEF OpenExisting
<1>7. CASE WriteLine
  <2>1. PICK w : w = Whole(cur, FALSE)
    OBVIOUS
  <2>2. w \in Line /\ w.rec = cur
    BY <1>1, <2>1, WholeFacts
  <2>3. ~OpenTail(file) /\ file' = Put(file, w) /\ disk' = disk
    BY <1>1, <1>7, <2>1 DEF WriteLine, WriterState
  <2>4. /\ Len(file') = Len(file) + 1
        /\ \A i \in 1 .. Len(file) : file'[i] = file[i]
        /\ file'[Len(file) + 1] = w
    BY <1>1, <2>2, <2>3, PutFresh
  <2>5. cur.seq = Len(file)
    BY <1>7, CurPlace DEF WriteLine
  <2>6. Numbered(file')
    BY <1>1, <1>2, <2>2, <2>4, <2>5, AppendNumbered
  <2> QED
    BY <1>2, <2>3, <2>6
<1>8. CASE WriteNewline
  <2>1. file # << >> /\ file' = PutNewline(file) /\ disk' = disk
    BY <1>1, <1>8 DEF WriteNewline, WriterState
  <2>2. /\ Len(file') = Len(file)
        /\ \A i \in 1 .. Len(file) : i # Len(file) => file'[i] = file[i]
        /\ file'[Len(file)].rec = file[Len(file)].rec
        /\ file'[Len(file)].text = file[Len(file)].text
    BY <1>1, <2>1, PutNewlineFacts
  <2>3. Within(file', file)
    BY <2>2 DEF Within
  <2> QED
    BY <1>2, <2>1, <2>3, WithinNumbered
<1>9. CASE KillTorn \/ WriteLineFails
  <2>1. disk' = disk /\ pc = "line" /\ (file' = file \/ \E b \in Fragments : file' = Put(file, b))
    BY <1>9 DEF KillTorn, WriteLineFails
  <2>2. CASE file' = file
    BY <1>2, <2>1, <2>2
  <2>3. ASSUME NEW b \in Fragments, file' = Put(file, b) PROVE Numbered(file')
    <3>1. b \in Line /\ b.text # "record"
      BY FragmentFacts
    <3>2. ~OpenTail(file)
      BY <1>1, <2>1 DEF WriterState
    <3>3. /\ Len(file') = Len(file) + 1
          /\ \A i \in 1 .. Len(file) : file'[i] = file[i]
          /\ file'[Len(file) + 1] = b
      BY <1>1, <2>3, <3>1, <3>2, PutFresh
    <3> QED
      BY <1>1, <1>2, <3>1, <3>3, AppendNumbered
  <2> QED
    BY <1>2, <2>1, <2>2, <2>3
<1>10. CASE PowerLoss
  <2>1. disk' = file'
    BY <1>10 DEF PowerLoss
  <2> QED
    BY <1>1, <1>2, <1>4, <1>10, <2>1, PowerLossLines, WithinNumbered
<1>11. CASE SyncData
  BY <1>2, <1>11 DEF SyncData
<1>12. CASE UNCHANGED <<file, disk>>
  BY <1>2, <1>12
<1> QED
  BY <1>3, <1>5, <1>6, <1>7, <1>8, <1>9, <1>10, <1>11, <1>12
     DEF Next, Open, Write, Fault, SyncDir, OpenUnreadable, BeginWrite, SignFails,
         WriteNewlineFails, SyncDataFails, Stop, KillGap, KillCreated, vars

LEMMA CountedShrinks ==
    ASSUME Counted, Known' \subseteq Known, issued' = issued, chain' = chain
    PROVE  Counted'
BY DEF Counted, Small

LEMMA KnownRecords == ASSUME TypeOK PROVE Known \subseteq Record
<1>1. file \in Seq(Line) /\ disk \in Seq(Line) /\ cur \in Record
  BY DEF TypeOK
<1>2. RecordsOf(file) \subseteq Record /\ RecordsOf(disk) \subseteq Record
  BY <1>1, LineParts DEF RecordsOf
<1> QED
  BY <1>1, <1>2 DEF Known

LEMMA BeginWriteCounted ==
    ASSUME TypeOK, Counted, BeginWrite PROVE Counted'
<1>1. PICK r : r = [seq |-> chain.next_seq, prev |-> chain.head, uid |-> issued + 1,
                    kind |-> "own"]
  OBVIOUS
<1>2. /\ r.seq = chain.next_seq /\ r.prev = chain.head /\ r.uid = issued + 1
      /\ r.kind = "own" /\ Hash(r) = issued + 1
  BY <1>1 DEF Hash
<1>3. /\ cur' = r /\ issued' = issued + 1 /\ file' = file /\ disk' = disk
      /\ chain' = [next_seq |-> chain.next_seq + 1, head |-> Hash(cur')]
      /\ issued < MaxRecords
  BY <1>1 DEF BeginWrite
<1>4. chain'.head = issued + 1 /\ chain'.next_seq = chain.next_seq + 1
  BY <1>2, <1>3
<1>5. issued \in Nat /\ MaxRecords \in Nat /\ chain.next_seq \in Nat
  BY BoundsAssumption DEF TypeOK
<1>6. chain.next_seq <= issued /\ chain.head \in 0 .. issued
  BY DEF Counted
<1>7. Known' \subseteq Known \cup {r}
  BY <1>3 DEF Known
<1>8. ASSUME NEW s \in Known' PROVE Small(s)'
  <2>1. CASE s = r
    <3>1. s.uid \in 1 .. issued + 1 /\ s.seq < s.uid
      BY <1>2, <1>5, <1>6, <2>1
    <3>2. s.prev \in 0 .. issued + 1
      BY <1>2, <1>5, <1>6, <2>1
    <3> QED
      BY <1>2, <1>3, <2>1, <3>1, <3>2 DEF Small
  <2>2. CASE s \in Known
    <3>1. s.uid \in 1 .. issued /\ s.seq < s.uid /\ s.prev \in 0 .. issued /\ s.kind = "own"
      BY <2>2 DEF Counted, Small
    <3>2. s.uid \in 1 .. issued + 1 /\ s.prev \in 0 .. issued + 1
      BY <1>5, <3>1
    <3> QED
      BY <1>3, <3>1, <3>2 DEF Small
  <2> QED
    BY <1>7, <2>1, <2>2
<1>9. issued' <= MaxRecords /\ chain'.next_seq <= issued' /\ chain'.head \in 0 .. issued'
  BY <1>3, <1>4, <1>5, <1>6
<1> QED
  BY <1>8, <1>9 DEF Counted

LEMMA OpenExistingCounted ==
    ASSUME TypeOK, Counted, OpenExisting PROVE Counted'
<1>1. /\ file \in Seq(Line) /\ Len(file) \in Nat /\ issued \in Nat
      /\ issued' = issued /\ disk' = disk /\ pc = "down" /\ pc' \in {"down", "idle"}
  BY LenProperties DEF TypeOK, OpenExisting
<1>2. PICK n \in 0 .. Len(file) :
        /\ Replays(file, n)
        /\ file' = file \/ file' = Trim(file, n)
        /\ chain' = chain \/ chain' = ResumeAt(file, n)
  BY DEF OpenExisting
<1>3. Known' \subseteq Known
  <2>1. RecordsOf(Trim(file, n)) \subseteq RecordsOf(file)
    BY <1>1, TrimRecords
  <2>2. RecordsOf(file') \subseteq RecordsOf(file)
    BY <1>2, <2>1
  <2> QED
    BY <1>1, <2>2 DEF Known
<1>4. CASE chain' = chain
  BY <1>1, <1>3, <1>4, CountedShrinks
<1>5. CASE n = 0 /\ chain' = ResumeAt(file, n)
  <2>1. chain'.head = 0 /\ chain'.next_seq = 0
    BY <1>5 DEF ResumeAt, NewChain, GENESIS
  <2>2. chain'.next_seq <= issued /\ chain'.head \in 0 .. issued
    BY <1>1, <2>1
  <2> QED
    BY <1>1, <1>3, <2>2 DEF Counted, Small
<1>6. CASE n # 0 /\ chain' = ResumeAt(file, n)
  <2>1. n \in 1 .. n /\ n \in 1 .. Len(file)
    BY <1>1, <1>6
  <2>2. PICK r : r = file[n].rec
    OBVIOUS
  <2>3. file[n].text = "record"
    BY <1>2, <2>1 DEF Replays, GoodPrefix, GoodLine
  <2>4. r \in Known /\ r \in Record
    BY <2>1, <2>2, <2>3, KnownRecords DEF Known, RecordsOf
  <2>5. r.uid \in 1 .. issued /\ r.seq < r.uid /\ r.kind = "own"
    BY <2>4 DEF Counted, Small
  <2>6. chain'.head = r.uid /\ chain'.next_seq = r.seq + 1
    BY <1>6, <2>2, <2>5 DEF ResumeAt, Hash
  <2>7. r.seq \in Nat
    BY <2>4 DEF Record
  <2>8. chain'.next_seq <= issued /\ chain'.head \in 0 .. issued
    BY <1>1, <2>5, <2>6, <2>7
  <2> QED
    BY <1>1, <1>3, <2>8 DEF Counted, Small
<1> QED
  BY <1>2, <1>4, <1>5, <1>6

LEMMA CountedStep ==
    ASSUME Plain, TypeOK, Counted, [Next]_vars PROVE Counted'
<1>1. CASE BeginWrite
  BY <1>1, BeginWriteCounted
<1>2. CASE OpenExisting
  BY <1>2, OpenExistingCounted
<1>3. CASE SyncDir
  <2>1. NewChain.head = 0 /\ NewChain.next_seq = 0
    BY DEF NewChain, GENESIS
  <2>2. Known' \subseteq Known /\ issued' = issued
    BY <1>3 DEF SyncDir, Known
  <2>3. chain'.next_seq <= issued /\ chain'.head \in 0 .. issued
    BY <1>3, <2>1 DEF SyncDir, TypeOK
  <2> QED
    BY <2>2, <2>3 DEF Counted, Small
<1>4. CASE ~BeginWrite /\ ~OpenExisting /\ ~SyncDir
  BY <1>4, Alone, KnownStep, CountedShrinks
<1> QED
  BY <1>1, <1>2, <1>3, <1>4

(* The lines the file and the disk agree on stay when the file is written  *)
(* to, for they are whole and the open line of an append is not among them.*)
LEMMA DiskPrefixKept ==
    ASSUME DiskPrefix, disk' = disk,
           \A m \in 0 .. Len(disk) :
              /\ Replays(disk, m) /\ m <= Len(file)
              /\ \A i \in 1 .. m : disk[i] = file[i]
              => m <= Len(file') /\ \A i \in 1 .. m : disk[i] = file'[i]
    PROVE  DiskPrefix'
BY DEF DiskPrefix

LEMMA DiskIsFile ==
    ASSUME ReplayOk(file'), disk' = file', file' \in Seq(Line)
    PROVE  DiskPrefix'
<1>1. PICK m \in 0 .. Len(file') : Replays(file', m)
  BY DEF ReplayOk
<1>2. Len(file') \in Nat
  BY LenProperties
<1> QED
  BY <1>1, <1>2 DEF DiskPrefix

LEMMA DiskPrefixStep ==
    ASSUME Plain, RefInv, [Next]_vars, TypeOK', ReplayOk(file')
    PROVE  DiskPrefix'
<1>1. /\ TypeOK /\ DurableInv /\ WriterState /\ file \in Seq(Line) /\ disk \in Seq(Line)
      /\ cur \in Record /\ Len(file) \in Nat /\ Len(disk) \in Nat /\ NoDangling(disk)
  BY RefParts
<1>2. file' \in Seq(Line) /\ DiskPrefix /\ ~OtherWriter /\ ~OtherKilled
  BY <1>1, Alone DEF RefInv, TypeOK
<1>3. CASE OpenNew \/ SyncData \/ PowerLoss
  <2>1. disk' = file'
    BY <1>3 DEF OpenNew, SyncData, PowerLoss
  <2> QED
    BY <1>2, <2>1, DiskIsFile
<1>4. CASE OpenExisting
  <2>1. PICK n \in 0 .. Len(file) : Replays(file, n) /\ (file' = file \/ file' = Trim(file, n))
    BY <1>4 DEF OpenExisting
  <2>2. NoDangling(file) /\ disk' = disk
    BY <1>1, <1>4 DEF OpenExisting, WriterState
  <2>3. file' = Trim(file, n) =>
          /\ Len(file') = n /\ \A i \in 1 .. n : file'[i] = file[i]
          /\ \A i \in 1 .. Len(file) : file[i].text = "record" => i <= n
    BY <1>1, <2>1, <2>2, TrimFacts
  <2>4. ASSUME NEW m \in 0 .. Len(disk), Replays(disk, m), m <= Len(file),
               \A i \in 1 .. m : disk[i] = file[i]
        PROVE  m <= Len(file') /\ \A i \in 1 .. m : disk[i] = file'[i]
    <3>1. CASE file' = file
      BY <2>4, <3>1
    <3>2. CASE file' = Trim(file, n)
      <4>1. m <= n
        <5>1. CASE m = 0
          BY <1>1, <5>1
        <5>2. CASE m # 0
          <6>1. m \in 1 .. m /\ m \in 1 .. Len(file)
            BY <1>1, <2>4, <5>2
          <6>2. disk[m].text = "record"
            BY <2>4, <6>1 DEF Replays, GoodPrefix, GoodLine
          <6> QED
            BY <2>3, <2>4, <3>2, <6>1, <6>2
        <5> QED
          BY <5>1, <5>2
      <4>2. \A i \in 1 .. m : i \in 1 .. n
        BY <1>1, <4>1
      <4> QED
        BY <2>3, <2>4, <3>2, <4>1, <4>2
    <3> QED
      BY <2>1, <3>1, <3>2
  <2> QED
    BY <1>2, <2>2, <2>4, DiskPrefixKept
<1>5. CASE WriteLine \/ KillTorn \/ WriteLineFails
  <2>1. /\ disk' = disk /\ pc = "line"
        /\ file' = file \/ \E w \in Line : file' = Put(file, w)
    <3>1. Whole(cur, FALSE) \in Line
      BY <1>1, WholeFacts
    <3>2. \A b \in Fragments : b \in Line
      BY FragmentFacts
    <3> QED
      BY <1>5, <3>1, <3>2 DEF WriteLine, KillTorn, WriteLineFails
  <2>2. ~OpenTail(file)
    BY <1>1, <2>1 DEF WriterState
  <2>3. Len(file) <= Len(file') /\ \A i \in 1 .. Len(file) : file'[i] = file[i]
    <3>1. CASE file' = file
      BY <1>1, <3>1
    <3>2. ASSUME NEW w \in Line, file' = Put(file, w)
          PROVE  Len(file) <= Len(file') /\ \A i \in 1 .. Len(file) : file'[i] = file[i]
      BY <1>1, <2>2, <3>2, PutFresh
    <3> QED
      BY <2>1, <3>1, <3>2
  <2>4. Len(file') \in Nat
    BY <1>2, LenProperties
  <2> QED
    BY <1>1, <1>2, <2>1, <2>3, <2>4, DiskPrefixKept
<1>6. CASE WriteNewline
  <2>1. /\ file # << >> /\ file' = PutNewline(file) /\ disk' = disk
        /\ ~file[Len(file)].nl
    BY <1>1, <1>6 DEF WriteNewline, WriterState
  <2>2. /\ Len(file') = Len(file)
        /\ \A i \in 1 .. Len(file) : i # Len(file) => file'[i] = file[i]
    BY <1>1, <2>1, PutNewlineFacts
  <2>3. ASSUME NEW m \in 0 .. Len(disk), Replays(disk, m), m <= Len(file),
               \A i \in 1 .. m : disk[i] = file[i]
        PROVE  m <= Len(file') /\ \A i \in 1 .. m : disk[i] = file'[i]
    <3>1. ASSUME NEW i \in 1 .. m PROVE i # Len(file) /\ i \in 1 .. Len(file)
      <4>1. disk[i].text = "record" /\ i \in 1 .. Len(disk)
        BY <1>1, <2>3 DEF Replays, GoodPrefix, GoodLine
      <4>2. disk[i].nl
        <5>1. CASE i < Len(disk)
          BY <1>1, <4>1, <5>1 DEF NoDangling
        <5>2. CASE i = Len(disk)
          BY <1>1, <4>1, <5>2, EmptySeq DEF NoDangling, OpenTail
        <5> QED
          BY <1>1, <4>1, <5>1, <5>2
      <4> QED
        BY <1>1, <2>1, <2>3, <4>2
    <3> QED
      BY <2>2, <2>3, <3>1
  <2> QED
    BY <1>2, <2>1, <2>3, DiskPrefixKept
<1>7. CASE UNCHANGED <<file, disk>>
  BY <1>2, <1>7 DEF DiskPrefix
<1> QED
  BY <1>2, <1>3, <1>4, <1>5, <1>6, <1>7
     DEF Next, Open, Write, Fault, SyncDir, OpenUnreadable, BeginWrite, SignFails,
         WriteNewlineFails, SyncDataFails, Stop, KillGap, KillCreated, vars

(* Every acknowledged record lies at the place its number says, within     *)
(* what a replay returns.                                                  *)
LEMMA AckedPlace ==
    ASSUME RefInv, NEW n \in 0 .. Len(file), Replays(file, n), NEW r \in acked
    PROVE  r.seq \in Nat /\ r.seq + 1 <= n
<1>1. PICK i \in 1 .. Len(file) : file[i].text = "record" /\ file[i].rec = r
  BY RefParts DEF AckedDurable
<1>2. Len(file) \in Nat
  BY RefParts
<1>3. i <= n
  BY <1>1, <1>2 DEF Replays
<1>4. r.seq = i - 1
  BY <1>1 DEF RefInv, Numbered
<1> QED
  BY <1>2, <1>3, <1>4

LEMMA AckedMaxStep ==
    ASSUME Plain, RefInv, [Next]_vars PROVE AckedMax'
<1>1. AckedMax /\ Len(file) \in Nat /\ file \in Seq(Line) /\ WriterState
  BY RefParts DEF RefInv
<1>2. CASE SyncData
  <2>1. /\ acked' = acked \cup {cur} /\ file # << >> /\ file[Len(file)].text = "record"
        /\ file[Len(file)].rec = cur /\ GoodPrefix(file, Len(file))
    BY <1>1, <1>2 DEF SyncData, WriterState
  <2>2. Len(file) \in 1 .. Len(file) /\ Len(file) \in 0 .. Len(file) /\ Replays(file, Len(file))
    BY <1>1, <2>1, EmptySeq DEF Replays
  <2>3. cur.seq = Len(file) - 1
    BY <2>1, <2>2 DEF RefInv, Numbered
  <2>4. \A q \in acked : q.seq \in Nat /\ q.seq + 1 <= Len(file)
    BY <2>2, AckedPlace
  <2>5. \A q \in acked : q.seq <= cur.seq
    BY <1>1, <2>3, <2>4
  <2>6. cur.seq <= cur.seq
    BY <1>1, <2>3
  <2> QED
    BY <2>1, <2>5, <2>6 DEF AckedMax
<1>3. CASE ~SyncData
  <2>1. acked' = acked
    BY <1>3
       DEF Next, Open, Write, Fault, OpenNew, OpenExisting, OpenUnreadable, SyncDir, BeginWrite,
           WriteLine, WriteNewline, SignFails, WriteLineFails, WriteNewlineFails,
           SyncDataFails, Stop, KillTorn, KillGap, KillCreated, PowerLoss,
           OtherWriter, OtherKilled, OtherAppends, vars
  <2> QED
    BY <1>1, <2>1 DEF AckedMax
<1> QED
  BY <1>2, <1>3

LEMMA RefStep == ASSUME Plain PROVE RefInv /\ [Next]_vars => RefInv'
<1> SUFFICES ASSUME RefInv, [Next]_vars PROVE RefInv'
  OBVIOUS
<1>1. /\ TypeOK /\ HonestInv /\ cur.kind = "own" /\ Counted
      /\ ~HoldsNewer(file) /\ ~HoldsNewer(disk)
  BY RefParts DEF RefInv
<1>2. ~OtherWriter /\ ~OtherKilled
  BY <1>1, Alone
<1>3. HonestInv'
  BY <1>1, HonestStep DEF Plain
<1>4. ~HoldsNewer(file') /\ ~HoldsNewer(disk') /\ cur'.kind = "own"
  BY <1>1, <1>2, NewerFromOthers, OwnStep
<1>5. TypeOK' /\ DurableInv'
  BY <1>3 DEF HonestInv, DurableInv
<1>6. ReplayOk(file')
  BY <1>3, <1>4, <1>5, HonestReplays DEF HonestInv, Honest, HoldsNewer, TypeOK
<1>7. Numbered(file') /\ Numbered(disk')
  BY <1>5, NumberedStep
<1>8. Counted'
  BY <1>1, CountedStep
<1>9. DiskPrefix' /\ AckedMax'
  BY <1>5, <1>6, DiskPrefixStep, AckedMaxStep
<1> QED
  BY <1>3, <1>4, <1>7, <1>8, <1>9 DEF RefInv, HoldsNewer, Numbered

LEMMA InitRef == Init => RefInv
<1> SUFFICES ASSUME Init PROVE RefInv
  OBVIOUS
<1>1. /\ file = << >> /\ disk = << >> /\ acked = {} /\ issued = 0 /\ pc = "down"
      /\ chain.head = 0 /\ chain.next_seq = 0 /\ Len(<< >>) = 0
  BY EmptySeq DEF Init, NewChain, GENESIS
<1>2. ~HoldsNewer(<< >>) /\ Numbered(<< >>)
  BY EmptySeq DEF HoldsNewer, Numbered
<1>3. cur.kind = "own"
  BY DEF Init, NoRecord
<1>4. HonestInv
  BY <1>1, EmptyHonest, InitDurable DEF HonestInv
<1>5. Counted
  <2>1. Known = {}
    BY <1>1, EmptyRecords DEF Known
  <2> QED
    BY <1>1, <2>1, BoundsAssumption DEF Counted
<1>6. DiskPrefix
  <2>1. Replays(<< >>, 0)
    BY EmptySeq DEF Replays, GoodPrefix
  <2> QED
    BY <1>1, <2>1 DEF DiskPrefix
<1> QED
  BY <1>1, <1>2, <1>3, <1>4, <1>5, <1>6 DEF RefInv, AckedMax

-----------------------------------------------------------------------------
(***************************************************************************)
(* The mapping.                                                            *)
(***************************************************************************)

(* A replay returns one thing.                                             *)
LEMMA OneReplay ==
    ASSUME NEW f \in Seq(Line), NEW n \in 0 .. Len(f), Replays(f, n),
           NEW m \in 0 .. Len(f), Replays(f, m)
    PROVE  n = m
<1>1. Len(f) \in Nat
  BY LenProperties
<1>2. ASSUME NEW k \in 0 .. Len(f), GoodPrefix(f, k), k = Len(f), f[Len(f)].text = "garbled",
             k # 0
      PROVE  FALSE
  <2>1. k \in 1 .. k
    BY <1>1, <1>2
  <2> QED
    BY <1>2, <2>1 DEF GoodPrefix, GoodLine
<1> QED
  BY <1>1, <1>2 DEF Replays

RecordsTo(f, n) == [i \in 1 .. n |-> f[i].rec]

VisibleFact ==
    \A n \in 0 .. Len(file) :
        file \in Seq(Line) /\ Replays(file, n) => Visible = RecordsTo(file, n)

LEMMA VisibleIs == VisibleFact
<1> SUFFICES ASSUME NEW n \in 0 .. Len(file), file \in Seq(Line), Replays(file, n)
             PROVE  Visible = RecordsTo(file, n)
  BY DEF VisibleFact
<1>1. PICK m : m = CHOOSE k \in 0 .. Len(file) : Replays(file, k)
  OBVIOUS
<1>2. m \in 0 .. Len(file) /\ Replays(file, m)
  BY <1>1
<1>3. m = n
  BY <1>2, OneReplay
<1> QED
  BY <1>1, <1>3 DEF Visible, RecordsTo

LEMMA VisibleNext ==
    ASSUME NEW n \in 0 .. Len(file'), file' \in Seq(Line), Replays(file', n)
    PROVE  Visible' = RecordsTo(file', n)
<1>1. VisibleFact'
  BY VisibleIs, PTL
<1> QED
  BY <1>1 DEF VisibleFact

LEMMA RecordsToFacts ==
    ASSUME NEW f \in Seq(Line), NEW n \in 0 .. Len(f)
    PROVE  /\ RecordsTo(f, n) \in Seq(Record)
           /\ Len(RecordsTo(f, n)) = n
           /\ \A i \in 1 .. n : RecordsTo(f, n)[i] = f[i].rec
<1>1. Len(f) \in Nat
  BY LenProperties
<1>2. \A i \in 1 .. n : i \in 1 .. Len(f) /\ f[i].rec \in Record
  BY <1>1, LineParts
<1> QED
  BY <1>1, <1>2 DEF RecordsTo

(* The number of acknowledged records, by their highest number.            *)
LenOf(A) ==
    IF A = {} THEN 0
    ELSE 1 + (CHOOSE m \in {r.seq : r \in A} : \A r \in A : r.seq <= m)

LEMMA LenOfIs ==
    ASSUME NEW A, NEW r \in A, \A q \in A : q.seq \in Nat, \A q \in A : q.seq <= r.seq
    PROVE  LenOf(A) = 1 + r.seq
<1>1. PICK m : m = CHOOSE k \in {s.seq : s \in A} : \A s \in A : s.seq <= k
  OBVIOUS
<1>2. r.seq \in {s.seq : s \in A} /\ \A s \in A : s.seq <= r.seq
  OBVIOUS
<1>3. m \in {s.seq : s \in A} /\ \A s \in A : s.seq <= m
  BY <1>1, <1>2
<1>4. m = r.seq
  BY <1>2, <1>3
<1> QED
  BY <1>1, <1>4 DEF LenOf

AckedLenFact ==
    \A n \in 0 .. Len(file) : RefInv /\ Replays(file, n) => AckedLen \in 0 .. n

LEMMA AckedLenBound == AckedLenFact
<1> SUFFICES ASSUME NEW n \in 0 .. Len(file), RefInv, Replays(file, n)
             PROVE  AckedLen \in 0 .. n
  BY DEF AckedLenFact
<1>0. Len(file) \in Nat
  BY RefParts
<1>1. CASE acked = {}
  BY <1>0, <1>1 DEF AckedLen
<1>2. CASE acked # {}
  <2>1. PICK r \in acked : \A q \in acked : q.seq <= r.seq
    BY <1>2 DEF RefInv, AckedMax
  <2>2. \A q \in acked : q.seq \in Nat /\ q.seq + 1 <= n
    BY AckedPlace
  <2>3. AckedLen = 1 + r.seq
    BY <2>1, <2>2, LenOfIs DEF AckedLen, LenOf
  <2> QED
    BY <1>0, <2>2, <2>3
<1> QED
  BY <1>1, <1>2

LEMMA AckedLenBoundNext ==
    ASSUME RefInv', NEW n \in 0 .. Len(file'), Replays(file', n)
    PROVE  AckedLen' \in 0 .. n
<1>1. AckedLenFact'
  BY AckedLenBound, PTL
<1> QED
  BY <1>1 DEF AckedLenFact

-----------------------------------------------------------------------------
(***************************************************************************)
(* The steps.                                                              *)
(***************************************************************************)

(* A step that acknowledges nothing and leaves a prefix of what a replay   *)
(* returned, all of it included, is a loss of the abstract log.            *)
LEMMA LoseStep ==
    ASSUME RefInv, RefInv', acked' = acked,
           NEW n \in 0 .. Len(file), Replays(file, n),
           NEW k \in 0 .. Len(file'), Replays(file', k), k <= n,
           \A i \in 1 .. k : file'[i].rec = file[i].rec
    PROVE  AL!Lose
<1>1. file \in Seq(Line) /\ Len(file) \in Nat
  BY RefParts
<1>2. file' \in Seq(Line)
  BY DEF RefInv, HonestInv, DurableInv, TypeOK
<1>3. Visible = RecordsTo(file, n) /\ Visible' = RecordsTo(file', k)
  BY <1>1, <1>2, VisibleIs, VisibleNext DEF VisibleFact
<1>4. PICK v, u : v = RecordsTo(file, n) /\ u = RecordsTo(file', k)
  OBVIOUS
<1>5. /\ v \in Seq(Record) /\ Len(v) = n /\ \A i \in 1 .. n : v[i] = file[i].rec
      /\ u \in Seq(Record) /\ Len(u) = k /\ \A i \in 1 .. k : u[i] = file'[i].rec
  BY <1>1, <1>2, <1>4, RecordsToFacts
<1>6. n \in Nat /\ k \in Nat /\ k <= n
  BY <1>1, <1>2, LenProperties
<1>7. u = SubSeq(v, 1, k)
  <2>1. \A i \in 1 .. k : i \in 1 .. n /\ u[i] = v[i]
    BY <1>5, <1>6
  <2> QED
    BY <1>5, <1>6, <2>1
<1>8. AckedLen' = AckedLen
  BY DEF AckedLen
<1>9. AckedLen' \in 0 .. k
  BY AckedLenBoundNext
<1>10. k \in AckedLen .. Len(Visible)
  BY <1>3, <1>4, <1>5, <1>6, <1>8, <1>9
<1> QED
  BY <1>3, <1>4, <1>7, <1>8, <1>10 DEF AL!Lose

(* A line that is whole in the file is visible to readers.                 *)
LEMMA GrowStep ==
    ASSUME RefInv, RefInv', WriteLine PROVE AL!Grow
<1> DEFINE n == Len(file)
<1>1. /\ TypeOK /\ WriterState /\ file \in Seq(Line) /\ n \in Nat /\ cur \in Record
      /\ pc = "line" /\ pc' = "newline" /\ acked' = acked /\ cur' = cur
  BY RefParts DEF WriteLine
<1>2. file' \in Seq(Line) /\ WriterState'
  BY DEF RefInv, HonestInv, DurableInv, TypeOK
<1>3. ~OpenTail(file) /\ GoodPrefix(file, n) /\ cur.prev = ResumeAt(file, n).head
  BY <1>1 DEF WriterState
<1>4. PICK w : w = Whole(cur, FALSE)
  OBVIOUS
<1>5. w \in Line /\ w.rec = cur
  BY <1>1, <1>4, WholeFacts
<1>6. /\ Len(file') = n + 1
      /\ \A i \in 1 .. n : file'[i] = file[i]
      /\ file'[n + 1] = w
  BY <1>1, <1>3, <1>4, <1>5, PutFresh DEF WriteLine
<1>7. Replays(file, n) /\ n \in 0 .. Len(file)
  BY <1>1, <1>3 DEF Replays
<1>8. Replays(file', n + 1) /\ n + 1 \in 0 .. Len(file')
  BY <1>1, <1>2, <1>6 DEF Replays, WriterState
<1> HIDE DEF n
<1>9. Visible = RecordsTo(file, n) /\ Visible' = RecordsTo(file', n + 1)
  BY <1>1, <1>2, <1>7, <1>8, VisibleIs, VisibleNext DEF VisibleFact
<1>10. PICK v, u : v = RecordsTo(file, n) /\ u = RecordsTo(file', n + 1)
  OBVIOUS
<1>11. /\ v \in Seq(Record) /\ Len(v) = n /\ \A i \in 1 .. n : v[i] = file[i].rec
  BY <1>1, <1>7, <1>10, RecordsToFacts
<1>12. /\ u \in Seq(Record) /\ Len(u) = n + 1 /\ \A i \in 1 .. n + 1 : u[i] = file'[i].rec
  BY <1>2, <1>8, <1>10, RecordsToFacts
<1>13. u = Append(v, cur)
  <2>1. \A i \in 1 .. n : i \in 1 .. n + 1 /\ u[i] = v[i]
    BY <1>1, <1>6, <1>11, <1>12
  <2>2. n + 1 \in 1 .. n + 1
    BY <1>1
  <2>3. u[n + 1] = cur
    BY <1>5, <1>6, <1>12, <2>2
  <2> QED
    BY <1>1, <1>11, <1>12, <2>1, <2>3
<1>14. cur \in Known /\ Counted
  BY <1>1 DEF Known, RefInv
<1>15. cur \in SmallRecords
  <2>1. /\ cur.uid \in 1 .. issued /\ cur.seq < cur.uid /\ cur.prev \in 0 .. issued
        /\ cur.kind = "own" /\ issued <= MaxRecords
    BY <1>14 DEF Counted, Small
  <2>2. issued \in Nat /\ MaxRecords \in Nat /\ cur.seq \in Nat
    BY <1>1, BoundsAssumption DEF TypeOK, Record
  <2>3. cur.uid \in 1 .. MaxRecords /\ cur.seq \in 0 .. MaxRecords /\ cur.prev \in 0 .. MaxRecords
    BY <2>1, <2>2
  <2>4. cur = [seq |-> cur.seq, prev |-> cur.prev, uid |-> cur.uid, kind |-> cur.kind]
    BY <1>1 DEF Record
  <2> QED
    BY <2>1, <2>3, <2>4 DEF SmallRecords
<1>16. ChainsOn(v, cur)
  <2>1. cur.seq = Len(v)
    BY <1>1, <1>11, CurPlace DEF n
  <2>2. CASE n = 0
    <3>1. v = << >>
      BY <1>11, <2>2, EmptySeq
    <3>2. cur.prev = GENESIS
      BY <1>3, <2>2 DEF ResumeAt, NewChain
    <3> QED
      BY <2>1, <3>1, <3>2 DEF ChainsOn
  <2>3. CASE n # 0
    <3>1. n \in 1 .. n /\ v # << >>
      BY <1>1, <1>11, <2>3, EmptySeq
    <3>2. PICK r : r = file[n].rec
      OBVIOUS
    <3>3. file[n].text = "record"
      BY <1>3, <3>1 DEF GoodPrefix, GoodLine
    <3>4. r \in Known
      BY <3>1, <3>2, <3>3 DEF Known, RecordsOf, n
    <3>5. r.kind = "own"
      BY <1>14, <3>4 DEF Counted, Small
    <3>6. cur.prev = r.uid
      BY <1>3, <2>3, <3>2, <3>5 DEF ResumeAt, Hash
    <3>7. v[Len(v)] = r
      BY <1>11, <3>1, <3>2
    <3> QED
      BY <2>1, <3>1, <3>6, <3>7 DEF ChainsOn
  <2> QED
    BY <2>2, <2>3
<1>17. AckedLen' = AckedLen
  BY <1>1 DEF AckedLen
<1> QED
  BY <1>9, <1>10, <1>13, <1>15, <1>16, <1>17 DEF AL!Grow

(* The fsync acknowledges everything a reader sees.                        *)
LEMMA AcknowledgeStep ==
    ASSUME RefInv, RefInv', SyncData PROVE AL!Acknowledge
<1> DEFINE n == Len(file)
<1>1. /\ WriterState /\ file \in Seq(Line) /\ n \in Nat
      /\ file' = file /\ acked' = acked \cup {cur}
  BY RefParts DEF SyncData
<1>2. /\ GoodPrefix(file, n) /\ file # << >> /\ file[n].text = "record" /\ file[n].rec = cur
  BY <1>1 DEF WriterState, SyncData
<1>3. n \in 1 .. n /\ n \in 0 .. Len(file) /\ Replays(file, n)
  BY <1>1, <1>2, EmptySeq DEF Replays
<1>4. Visible = RecordsTo(file, n) /\ Visible' = Visible
  BY <1>1, <1>3, VisibleIs DEF VisibleFact, Visible, Replays, GoodPrefix, GoodLine
<1>5. Len(Visible) = n
  BY <1>1, <1>3, <1>4, RecordsToFacts
<1>6. cur.seq = n - 1
  BY <1>2, <1>3 DEF RefInv, Numbered
<1>7. \A q \in acked : q.seq \in Nat /\ q.seq + 1 <= n
  BY <1>3, AckedPlace
<1>8. \A q \in acked' : q.seq \in Nat /\ q.seq <= cur.seq
  BY <1>1, <1>3, <1>6, <1>7
<1>9. LenOf(acked') = 1 + cur.seq
  BY <1>1, <1>8, LenOfIs
<1>10. AckedLen' = n
  BY <1>1, <1>6, <1>9 DEF AckedLen, LenOf
<1> QED
  BY <1>4, <1>5, <1>10 DEF AL!Acknowledge

LEMMA WithinStep ==
    ASSUME RefInv, RefInv', acked' = acked, Within(file', file)
    PROVE  AL!Lose
<1>1. file \in Seq(Line) /\ Len(file) \in Nat
  BY RefParts
<1>2. PICK n \in 0 .. Len(file) : Replays(file, n)
  BY RefParts DEF ReplayOk
<1>3. file' \in Seq(Line) /\ ReplayOk(file')
  BY RefReplaysNext DEF RefInv, HonestInv, DurableInv, TypeOK
<1>4. PICK k \in 0 .. Len(file') : Replays(file', k)
  BY <1>3 DEF ReplayOk
<1>5. Len(file') \in Nat
  BY <1>3, LenProperties
<1>6. ASSUME NEW i \in 1 .. k
      PROVE  i <= n /\ file'[i].rec = file[i].rec
  <2>1. i \in 1 .. Len(file') /\ file'[i].text = "record"
    BY <1>4, <1>5 DEF Replays, GoodPrefix, GoodLine
  <2>2. i \in 1 .. Len(file) /\ file'[i].rec = file[i].rec /\ file[i].text = "record"
    BY <2>1 DEF Within
  <2> QED
    BY <1>1, <1>2, <2>2 DEF Replays
<1>7. k <= n
  <2>1. CASE k = 0
    BY <1>1, <2>1
  <2>2. CASE k # 0
    BY <1>5, <1>6, <2>2
  <2> QED
    BY <2>1, <2>2
<1> QED
  BY <1>2, <1>4, <1>6, <1>7, LoseStep

(* A power loss that leaves what was synced.                               *)
LEMMA DiskStep ==
    ASSUME RefInv, RefInv', acked' = acked, file' = disk
    PROVE  AL!Lose
<1>1. file \in Seq(Line) /\ Len(file) \in Nat /\ Len(disk) \in Nat
  BY RefParts
<1>2. PICK n \in 0 .. Len(file) : Replays(file, n)
  BY RefParts DEF ReplayOk
<1>3. PICK m \in 0 .. Len(disk) :
        Replays(disk, m) /\ m <= Len(file) /\ \A i \in 1 .. m : disk[i] = file[i]
  BY DEF RefInv, DiskPrefix
<1>4. m <= n
  <2>1. CASE m = 0
    BY <1>1, <2>1
  <2>2. CASE m # 0
    <3>1. m \in 1 .. m /\ m \in 1 .. Len(file)
      BY <1>1, <1>3, <2>2
    <3>2. file[m].text = "record"
      BY <1>3, <3>1 DEF Replays, GoodPrefix, GoodLine
    <3> QED
      BY <1>1, <1>2, <3>1, <3>2 DEF Replays
  <2> QED
    BY <2>1, <2>2
<1>5. m \in 0 .. Len(file') /\ Replays(file', m) /\ \A i \in 1 .. m : file'[i].rec = file[i].rec
  BY <1>3
<1> QED
  BY <1>2, <1>4, <1>5, LoseStep

LEMMA RefinementStep ==
    ASSUME Plain, RefInv, RefInv', [Next]_vars
    PROVE  [AL!Next]_<<Visible, AckedLen>>
<1>1. /\ TypeOK /\ WriterState /\ file \in Seq(Line) /\ Len(file) \in Nat
  BY RefParts
<1>2. ~OtherWriter /\ ~OtherKilled
  BY <1>1, Alone
<1>3. CASE WriteLine
  BY <1>3, GrowStep DEF AL!Next
<1>4. CASE SyncData
  BY <1>4, AcknowledgeStep DEF AL!Next
<1>5. CASE ~WriteLine /\ ~SyncData
  <2>1. acked' = acked
    BY <1>2, <1>5
       DEF Next, Open, Write, Fault, OpenNew, OpenExisting, OpenUnreadable, SyncDir, BeginWrite,
           WriteNewline, SignFails, WriteLineFails, WriteNewlineFails,
           SyncDataFails, Stop, KillTorn, KillGap, KillCreated, PowerLoss, vars
  <2>2. CASE file' = disk
    BY <2>1, <2>2, DiskStep DEF AL!Next
  <2>3. CASE Within(file', file)
    BY <2>1, <2>3, WithinStep DEF AL!Next
  <2>4. Within(<< >>, file) /\ Within(file, file)
    BY EmptySeq DEF Within
  <2>5. CASE OpenNew
    BY <2>3, <2>4, <2>5 DEF OpenNew
  <2>6. CASE OpenExisting
    <3>1. PICK n \in 0 .. Len(file) : Replays(file, n) /\ (file' = file \/ file' = Trim(file, n))
      BY <2>6 DEF OpenExisting
    <3>2. NoDangling(file)
      BY <1>1, <2>6 DEF OpenExisting, WriterState
    <3>3. PICK g : g = Trim(file, n)
      OBVIOUS
    <3>4. Len(g) = n /\ \A i \in 1 .. n : g[i] = file[i]
      BY <1>1, <3>1, <3>2, <3>3, TrimFacts
    <3>5. \A i \in 1 .. n : i \in 1 .. Len(file)
      BY <1>1
    <3>6. Within(g, file)
      BY <3>4, <3>5 DEF Within
    <3> QED
      BY <2>3, <2>4, <3>1, <3>3, <3>6
  <2>7. CASE WriteNewline
    <3>1. file # << >> /\ file' = PutNewline(file)
      BY <1>1, <2>7 DEF WriteNewline, WriterState
    <3>2. /\ Len(file') = Len(file)
          /\ \A i \in 1 .. Len(file) : i # Len(file) => file'[i] = file[i]
          /\ file'[Len(file)].rec = file[Len(file)].rec
          /\ file'[Len(file)].text = file[Len(file)].text
      BY <1>1, <3>1, PutNewlineFacts
    <3>3. Within(file', file)
      BY <3>2 DEF Within
    <3> QED
      BY <2>3, <3>3
  <2>8. CASE KillTorn \/ WriteLineFails
    <3>1. pc = "line" /\ (file' = file \/ \E b \in Fragments : file' = Put(file, b))
      BY <2>8 DEF KillTorn, WriteLineFails
    <3>2. ~OpenTail(file)
      BY <1>1, <3>1 DEF WriterState
    <3>3. ASSUME NEW b \in Fragments, file' = Put(file, b) PROVE Within(file', file)
      <4>1. b \in Line /\ b.text # "record"
        BY FragmentFacts
      <4>2. b.rec = NoRecord
        BY DEF Fragments, Broken
      <4>3. /\ Len(file') = Len(file) + 1
            /\ \A i \in 1 .. Len(file) : file'[i] = file[i]
            /\ file'[Len(file) + 1] = b
        BY <1>1, <3>2, <3>3, <4>1, PutFresh
      <4>4. \A i \in 1 .. Len(file) + 1 : i \in 1 .. Len(file) \/ i = Len(file) + 1
        BY <1>1
      <4> QED
        BY <4>1, <4>2, <4>3, <4>4 DEF Within
    <3> QED
      BY <2>3, <2>4, <3>1, <3>3
  <2>9. CASE PowerLoss
    BY <1>1, <2>2, <2>3, <2>4, <2>9, PowerLossLines
  <2>10. CASE file' = file
    BY <2>3, <2>4, <2>10
  <2> QED
    BY <1>2, <1>5, <2>5, <2>6, <2>7, <2>8, <2>9, <2>10
       DEF Next, Open, Write, Fault, SyncDir, OpenUnreadable, BeginWrite, SignFails,
           WriteNewlineFails, SyncDataFails, Stop, KillGap, KillCreated, vars
<1> QED
  BY <1>3, <1>4, <1>5

(* What the gateway and the ledger rely on: with crashes, torn lines, I/O  *)
(* and signing errors and power losses in any order, the file is a log     *)
(* that grows by one well-chained record at a time, whose acknowledged     *)
(* part is never altered and of which a crash loses unacknowledged records *)
(* only (Wal::append, replay and the trim of Wal::open).                   *)
THEOREM Implements == ASSUME Plain PROVE Spec => ImplementsAuditLog
<1>1. Init => AL!Init
  <2> SUFFICES ASSUME Init PROVE AL!Init
    OBVIOUS
  <2>1. file = << >> /\ acked = {}
    BY DEF Init
  <2>2. Replays(file, 0) /\ 0 \in 0 .. Len(file) /\ file \in Seq(Line)
    BY <2>1, EmptySeq DEF Replays, GoodPrefix
  <2>3. Visible = RecordsTo(file, 0)
    BY <2>2, VisibleIs DEF VisibleFact
  <2>4. RecordsTo(file, 0) = << >>
    BY <2>2, RecordsToFacts, EmptySeq
  <2>5. AckedLen = 0
    BY <2>1 DEF AckedLen
  <2> QED
    BY <2>3, <2>4, <2>5 DEF AL!Init
<1>2. RefInv /\ [Next]_vars => RefInv'
  BY RefStep
<1>3. RefInv /\ RefInv' /\ [Next]_vars => [AL!Next]_<<Visible, AckedLen>>
  BY RefinementStep
<1> QED
  BY <1>1, <1>2, <1>3, InitRef, PTL DEF Spec, ImplementsAuditLog, AL!Spec
=============================================================================
