----------------------------- MODULE WalProofs -----------------------------
(***************************************************************************)
(* Proofs about Wal, for every bound, every choice of faults and whoever   *)
(* else writes to the log.                                                 *)
(***************************************************************************)
EXTENDS Wal, SequenceTheorems, TLAPS

-----------------------------------------------------------------------------
(***************************************************************************)
(* Lines and files: what the operators Wal is built from return.           *)
(***************************************************************************)

(* A record written as a line is a line that holds that record.            *)
LEMMA WholeFacts ==
    ASSUME NEW r \in Record, NEW nl \in BOOLEAN
    PROVE  /\ Whole(r, nl) \in Line
           /\ Whole(r, nl).text = "record"
           /\ Whole(r, nl).rec = r
           /\ Whole(r, nl).nl = nl
BY DEF Whole, Line, Texts

LEMMA NoRecordType == NoRecord \in Record
BY DEF NoRecord, Record, GENESIS, Kinds

(* A torn line is a line that holds no record.                             *)
LEMMA BrokenFacts ==
    ASSUME NEW text \in Texts, NEW nl \in BOOLEAN
    PROVE  /\ Broken(text, nl) \in Line
           /\ Broken(text, nl).text = text
           /\ Broken(text, nl).nl = nl
BY NoRecordType DEF Broken, Line

LEMMA FragmentFacts ==
    ASSUME NEW b \in Fragments
    PROVE  b \in Line /\ b.text # "record" /\ b.nl = FALSE
BY BrokenFacts DEF Fragments, Texts

LEMMA HashType == ASSUME NEW r \in Record PROVE Hash(r) \in Int
BY DEF Hash, Record

LEMMA LineParts ==
    ASSUME NEW f \in Seq(Line), NEW i \in 1 .. Len(f)
    PROVE  /\ f[i] \in Line
           /\ f[i].text \in Texts
           /\ f[i].rec \in Record
           /\ f[i].nl \in BOOLEAN
<1>1. f[i] \in Line
  BY ElementOfSeq
<1> QED
  BY <1>1 DEF Line

(* Bytes written after a complete line start a line of their own.          *)
LEMMA PutFresh ==
    ASSUME NEW f \in Seq(Line), NEW line \in Line, ~OpenTail(f)
    PROVE  /\ Put(f, line) \in Seq(Line)
           /\ Len(Put(f, line)) = Len(f) + 1
           /\ \A i \in 1 .. Len(f) : Put(f, line)[i] = f[i]
           /\ Put(f, line)[Len(f) + 1] = line
BY AppendProperties DEF Put

(* Bytes written after an incomplete line leave a file of lines.           *)
LEMMA PutType ==
    ASSUME NEW f \in Seq(Line), NEW line \in Line
    PROVE  Put(f, line) \in Seq(Line) /\ Put(f, line) # << >>
<1>1. CASE ~OpenTail(f)
  BY <1>1, AppendProperties DEF Put
<1>2. CASE OpenTail(f)
  <2> DEFINE text == IF "not_utf8" \in {f[Len(f)].text, line.text}
                     THEN "not_utf8" ELSE "garbled"
             e == Broken(text, FALSE)
             g == [f EXCEPT ![Len(f)] = e]
  <2>1. Len(f) \in 1 .. Len(f)
    BY <1>2, EmptySeq, LenProperties DEF OpenTail
  <2>2. e \in Line
    BY BrokenFacts DEF Texts
  <2>3. Put(f, line) = g
    BY <1>2 DEF Put
  <2> HIDE DEF e
  <2>4. g \in Seq(Line) /\ Len(g) = Len(f)
    BY <2>1, <2>2, ExceptSeq
  <2> HIDE DEF g
  <2>5. g # << >>
    BY <2>1, <2>4, EmptySeq
  <2> QED
    BY <2>3, <2>4, <2>5
<1> QED
  BY <1>1, <1>2

(* The newline completes the last line and changes nothing else.           *)
LEMMA PutNewlineFacts ==
    ASSUME NEW f \in Seq(Line), f # << >>
    PROVE  /\ PutNewline(f) \in Seq(Line)
           /\ Len(PutNewline(f)) = Len(f)
           /\ \A i \in 1 .. Len(f) : i # Len(f) => PutNewline(f)[i] = f[i]
           /\ PutNewline(f)[Len(f)].text = f[Len(f)].text
           /\ PutNewline(f)[Len(f)].rec = f[Len(f)].rec
           /\ PutNewline(f)[Len(f)].nl
<1>1. Len(f) \in 1 .. Len(f)
  BY EmptySeq, LenProperties
<1> DEFINE e == [f[Len(f)] EXCEPT !.nl = TRUE]
<1>2. e \in Line /\ e.text = f[Len(f)].text /\ e.rec = f[Len(f)].rec /\ e.nl
  BY <1>1, LineParts DEF Line
<1> DEFINE g == [f EXCEPT ![Len(f)] = e]
<1>3. PutNewline(f) = g
  BY DEF PutNewline
<1>4. /\ g \in Seq(Line)
      /\ Len(g) = Len(f)
      /\ \A j \in 1 .. Len(f) : g[j] = IF j = Len(f) THEN e ELSE f[j]
  <2> HIDE DEF e
  <2> QED
    BY <1>1, <1>2, ExceptSeq DEF e
<1> HIDE DEF g, e
<1>5. g[Len(f)] = e
  BY <1>1, <1>4
<1> QED
  BY <1>2, <1>3, <1>4, <1>5

(* set_len at a line boundary keeps the lines before it.                   *)
LEMMA CutFacts ==
    ASSUME NEW f \in Seq(Line), NEW n \in 0 .. Len(f)
    PROVE  /\ SubSeq(f, 1, n) \in Seq(Line)
           /\ Len(SubSeq(f, 1, n)) = n
           /\ \A i \in 1 .. n : SubSeq(f, 1, n)[i] = f[i]
<1>1. Len(f) \in Nat
  BY LenProperties
<1>2. \A i \in 1 .. n : f[i] \in Line
  BY <1>1, LineParts
<1> QED
  BY <1>1, <1>2, SubSeqProperties

LEMMA TrimType ==
    ASSUME NEW f \in Seq(Line), NEW n \in 0 .. Len(f)
    PROVE  Trim(f, n) \in Seq(Line)
<1>1. CASE n = Len(f) /\ OpenTail(f)
  <2>1. n \in 1 .. Len(f)
    BY <1>1, EmptySeq, LenProperties DEF OpenTail
  <2> QED
    BY <1>1, <2>1, BrokenFacts, ExceptSeq DEF Trim, Texts
<1>2. CASE ~(n = Len(f) /\ OpenTail(f))
  BY <1>2, CutFacts DEF Trim
<1> QED
  BY <1>1, <1>2

LEMMA ResumeAtType ==
    ASSUME NEW f \in Seq(Line), NEW n \in 0 .. Len(f)
    PROVE  ResumeAt(f, n) \in [next_seq : Nat, head : Int]
<1>1. CASE n = 0
  BY <1>1 DEF ResumeAt, NewChain, GENESIS
<1>2. CASE n # 0
  <2>1. n \in 1 .. Len(f)
    BY <1>2, LenProperties
  <2>2. f[n].rec \in Record
    BY <2>1, LineParts
  <2> QED
    BY <1>2, <2>2, HashType DEF ResumeAt, Record
<1> QED
  BY <1>1, <1>2

(* What a power loss leaves of the next line is at most one line.          *)
LEMMA RemnantFacts ==
    ASSUME NEW f \in Seq(Line), file = f, NEW k \in 0 .. Len(f),
           NEW rest \in Remnants(k)
    PROVE  /\ rest \in Seq(Line)
           /\ Len(rest) \in {0, 1}
           /\ k = Len(f) => rest = << >>
           /\ Len(rest) = 1 /\ "gap" \notin Faults =>
                 rest[1].text # "record" /\ rest[1].nl = FALSE
<1>1. Len(f) \in Nat
  BY LenProperties
<1>2. CASE rest = << >>
  BY <1>2, EmptySeq
<1>3. ASSUME NEW b \in Fragments, rest = <<b>>, k # Len(f)
      PROVE  /\ rest \in Seq(Line) /\ Len(rest) = 1
             /\ rest[1].text # "record" /\ rest[1].nl = FALSE
  <2>1. b \in Line /\ b.text # "record" /\ b.nl = FALSE
    BY FragmentFacts
  <2>2. rest \in Seq(Line) /\ Len(rest) = 1 /\ rest[1] = b
    BY <1>3, <2>1
  <2> QED
    BY <2>1, <2>2
<1>4. CASE /\ "gap" \in Faults /\ k # Len(f)
           /\ rest = <<Whole(f[k + 1].rec, FALSE)>>
  <2>1. k + 1 \in 1 .. Len(f)
    BY <1>1, <1>4
  <2> DEFINE w == Whole(f[k + 1].rec, FALSE)
  <2>2. w \in Line
    BY <2>1, LineParts, WholeFacts
  <2>3. rest = <<w>>
    BY <1>4
  <2> HIDE DEF w
  <2>4. rest \in Seq(Line) /\ Len(rest) = 1
    BY <2>2, <2>3
  <2> QED
    BY <1>4, <2>4
<1> QED
  BY <1>1, <1>2, <1>3, <1>4 DEF Remnants

-----------------------------------------------------------------------------
(***************************************************************************)
(* Type correctness.                                                       *)
(***************************************************************************)

LEMMA InitType == Init => TypeOK
BY EmptySeq, NoRecordType
   DEF Init, TypeOK, PCs, Results, NewChain, GENESIS

(* Faults that only move the program counter and count themselves.         *)
LEMMA StopType ==
    ASSUME TypeOK, SignFails \/ WriteNewlineFails \/ SyncDataFails \/ Stop
                   \/ KillGap \/ KillCreated
    PROVE  TypeOK'
BY BoundsAssumption
   DEF TypeOK, SignFails, WriteNewlineFails, SyncDataFails, Stop, KillGap,
       KillCreated, Strike, AfterError, PCs

LEMMA PowerLossType == ASSUME TypeOK, PowerLoss PROVE TypeOK'
<1>1. file' \in Seq(Line)
  <2>1. CASE file' = << >>
    BY <2>1, EmptySeq
  <2>2. CASE file' = disk
    BY <2>2 DEF TypeOK
  <2>3. ASSUME NEW k \in 0 .. Len(file), NEW rest \in Remnants(k),
               file' = SubSeq(file, 1, k) \o rest
        PROVE  file' \in Seq(Line)
    <3>1. SubSeq(file, 1, k) \in Seq(Line)
      BY CutFacts DEF TypeOK
    <3>2. rest \in Seq(Line)
      BY RemnantFacts DEF TypeOK
    <3> QED
      BY <2>3, <3>1, <3>2, ConcatProperties
  <2> QED
    BY <2>1, <2>2, <2>3 DEF PowerLoss
<1> QED
  BY <1>1 DEF PowerLoss, Strike, TypeOK, PCs

(* What somebody else leaves in the log: its record whole, or, killed, the *)
(* record without its newline or a fragment of it.                         *)
OtherLeaves(kind, line) ==
    \/ line = Whole(OtherRecord(kind), TRUE)
    \/ OtherKilled /\ "gap" \in Faults /\ line = Whole(OtherRecord(kind), FALSE)
    \/ OtherKilled /\ line \in Fragments

LEMMA OtherRecordType ==
    ASSUME TypeOK, NEW kind \in Kinds
    PROVE  OtherRecord(kind) \in Record
<1> DEFINE n == Len(file)
<1>1. n \in Nat
  BY LenProperties DEF TypeOK
<1>2. n # 0 => file[n].rec \in Record
  BY <1>1, LineParts DEF TypeOK
<1>3. n # 0 => file[n].rec.seq \in Nat /\ file[n].rec.uid \in Nat
  BY <1>2 DEF Record
<1>4. issued + 1 \in Nat
  BY DEF TypeOK
<1> DEFINE q == IF n = 0 THEN 0 ELSE file[n].rec.seq + 1
           p == IF n = 0 THEN GENESIS ELSE file[n].rec.uid
<1>5. q \in Nat /\ p \in Int
  BY <1>3 DEF GENESIS
<1>6. OtherRecord(kind) = [seq |-> q, prev |-> p, uid |-> issued + 1,
                           kind |-> kind]
  BY DEF OtherRecord
<1> HIDE DEF q, p
<1> QED
  BY <1>4, <1>5, <1>6 DEF Record

LEMMA OtherAppendsLine ==
    ASSUME TypeOK, OtherWriter \/ OtherKilled
    PROVE  /\ OtherAppends
           /\ \E kind \in {"foreign", "newer"} : \E line \in Line :
                 OtherLeaves(kind, line) /\ file' = Append(file, line)
           /\ \/ disk' = file' /\ OtherWriter
              \/ disk' = disk /\ OtherKilled
<1>1. OtherAppends /\ (disk' = file' \/ disk' = disk)
  BY DEF OtherWriter, OtherKilled
<1>2. \E kind \in {"foreign", "newer"} : \E line :
         /\ file' = Append(file, line)
         /\ \/ line = Whole(OtherRecord(kind), TRUE)
            \/ /\ OtherKilled
               /\ \/ "gap" \in Faults /\ line = Whole(OtherRecord(kind), FALSE)
                  \/ line \in Fragments
  <2>1. CASE OtherWriter
    BY <2>1 DEF OtherWriter
  <2>2. CASE OtherKilled
    BY <2>2 DEF OtherKilled
  <2> QED
    BY <2>1, <2>2
<1>3. PICK kind \in {"foreign", "newer"} : \E line :
        file' = Append(file, line) /\ OtherLeaves(kind, line)
  BY <1>2 DEF OtherLeaves
<1>3a. PICK line : file' = Append(file, line) /\ OtherLeaves(kind, line)
  BY <1>3
<1>4. OtherRecord(kind) \in Record
  BY OtherRecordType DEF Kinds
<1>5. line \in Line
  BY <1>3a, <1>4, WholeFacts, FragmentFacts DEF OtherLeaves
<1> QED
  BY <1>1, <1>3a, <1>5 DEF OtherWriter, OtherKilled

LEMMA OtherType == ASSUME TypeOK, OtherWriter \/ OtherKilled PROVE TypeOK'
<1>0. PICK line \in Line : file' = Append(file, line)
  BY OtherAppendsLine
<1>1. file' \in Seq(Line)
  BY <1>0, AppendProperties DEF TypeOK
<1>2. disk' \in Seq(Line)
  BY <1>1, OtherAppendsLine DEF TypeOK
<1>3. /\ pc = "down" /\ pc' = pc
      /\ issued' = issued + 1 /\ other' = other + 1
      /\ UNCHANGED <<dirent, chain, cur, acked, crashes, result>>
  BY OtherAppendsLine DEF OtherAppends
<1> QED
  BY <1>1, <1>2, <1>3 DEF TypeOK

(* Every step of the log keeps the types.                                  *)
LEMMA TypeStep == TypeOK /\ [Next]_vars => TypeOK'
<1> SUFFICES ASSUME TypeOK, [Next]_vars PROVE TypeOK'
  OBVIOUS
<1>1. CASE OpenNew
  BY <1>1, EmptySeq DEF TypeOK, OpenNew, PCs
<1>2. CASE SyncDir
  BY <1>2 DEF TypeOK, SyncDir, PCs, Results, NewChain, GENESIS
<1>3. CASE OpenExisting
  <2>1. PICK n \in 0 .. Len(file) :
          /\ \/ UNCHANGED file
             \/ file' = Trim(file, n)
          /\ \/ UNCHANGED <<pc, chain>>
             \/ pc' = "idle" /\ chain' = ResumeAt(file, n)
          /\ result' \in {"ok", "ForeignRecord", "UnreadablePayload"}
    BY <1>3 DEF OpenExisting
  <2>2. file' \in Seq(Line)
    BY <2>1, TrimType DEF TypeOK
  <2>3. chain' \in [next_seq : Nat, head : Int] /\ pc' \in PCs
    BY <2>1, ResumeAtType DEF TypeOK, PCs
  <2> QED
    BY <1>3, <2>1, <2>2, <2>3 DEF OpenExisting, TypeOK, Results
<1>4. CASE OpenUnreadable
  <2>1. PICK i \in 1 .. Len(file) : result' = ErrorOf(file[i])
    BY <1>4 DEF OpenUnreadable
  <2>2. file[i].text \in Texts
    BY LineParts DEF TypeOK
  <2>3. result' \in Results
    BY <2>1, <2>2 DEF ErrorOf, Texts, Results
  <2> QED
    BY <1>4, <2>3 DEF OpenUnreadable, TypeOK
<1>5. CASE BeginWrite
  <2>1. cur' \in Record
    BY <1>5 DEF BeginWrite, TypeOK, Record, Kinds
  <2> QED
    BY <1>5, <2>1, HashType DEF BeginWrite, TypeOK, PCs
<1>6. CASE WriteLine
  <2>1. file' \in Seq(Line) /\ file' # << >>
    BY <1>6, WholeFacts, PutType DEF WriteLine, TypeOK
  <2> QED
    BY <1>6, <2>1 DEF WriteLine, TypeOK, PCs
<1>7. CASE WriteNewline
  <2>1. file # << >>
    BY <1>7 DEF WriteNewline, TypeOK
  <2>2. file' \in Seq(Line) /\ Len(file') = Len(file)
    BY <1>7, <2>1, PutNewlineFacts DEF WriteNewline, TypeOK
  <2>3. file' # << >>
    BY <2>1, <2>2, EmptySeq DEF TypeOK
  <2> QED
    BY <1>7, <2>2, <2>3 DEF WriteNewline, TypeOK, PCs
<1>8. CASE SyncData
  BY <1>8 DEF SyncData, TypeOK, PCs
<1>9. CASE WriteLineFails
  <2>1. file' \in Seq(Line)
    BY <1>9, FragmentFacts, PutType DEF WriteLineFails, TypeOK
  <2> QED
    BY <1>9, <2>1 DEF WriteLineFails, Strike, AfterError, TypeOK, PCs
<1>10. CASE KillTorn
  <2>1. file' \in Seq(Line)
    BY <1>10, FragmentFacts, PutType DEF KillTorn, TypeOK
  <2> QED
    BY <1>10, <2>1 DEF KillTorn, Strike, TypeOK, PCs
<1>11. CASE \/ SignFails \/ WriteNewlineFails \/ SyncDataFails \/ Stop
            \/ KillGap \/ KillCreated
  BY <1>11, StopType
<1>12. CASE PowerLoss
  BY <1>12, PowerLossType
<1>13. CASE OtherWriter \/ OtherKilled
  BY <1>13, OtherType
<1>14. CASE UNCHANGED vars
  BY <1>14 DEF vars, TypeOK
<1> QED
  BY <1>1, <1>2, <1>3, <1>4, <1>5, <1>6, <1>7, <1>8, <1>9, <1>10, <1>11,
     <1>12, <1>13, <1>14 DEF Next, Open, Write, Fault

(* Whatever faults strike and whoever else writes to the log, the file     *)
(* stays a sequence of lines and the chain a sequence number and a hash    *)
(* (Wal, ChainWriter).                                                     *)
THEOREM TypeCorrect == Spec => []TypeOK
<1> QED
  BY InitType, TypeStep, PTL DEF Spec

-----------------------------------------------------------------------------
(***************************************************************************)
(* Durability.                                                             *)
(***************************************************************************)

(* The file never ends in a whole record without its newline.  A crash     *)
(* between the two writes of Wal::append is what would leave one.          *)
NoDangling(f) ==
    /\ \A i \in 1 .. Len(f) : i < Len(f) => f[i].nl
    /\ OpenTail(f) => f[Len(f)].text # "record"

(* Every acknowledged record is a whole line, chained from the genesis on, *)
(* that the last fsync covers.                                             *)
AckedDurable ==
    \A r \in acked :
        \E i \in 1 .. Len(file) :
            /\ i <= Len(disk)
            /\ file[i].text = "record" /\ file[i].rec = r /\ file[i].nl
            /\ GoodPrefix(file, i)
            /\ \A j \in 1 .. i : file[j] = disk[j]

(* Where the process is against what the file holds.                       *)
WriterState ==
    /\ pc \in {"down", "idle", "line"} => NoDangling(file)
    /\ pc \in {"newline", "sync"} =>
        \A i \in 1 .. Len(file) : i < Len(file) => file[i].nl
    /\ pc = "created" => file = << >>
    /\ pc \in {"idle", "line"} => ~OpenTail(file)
    /\ pc \in {"idle", "line", "newline", "sync"} =>
        GoodPrefix(file, Len(file))
    /\ pc = "idle" => chain = ResumeAt(file, Len(file))
    /\ pc = "line" =>
        /\ cur.seq = ResumeAt(file, Len(file)).next_seq
        /\ cur.prev = ResumeAt(file, Len(file)).head
        /\ chain = [next_seq |-> cur.seq + 1, head |-> Hash(cur)]
    /\ pc \in {"newline", "sync"} =>
        /\ file # << >>
        /\ file[Len(file)].text = "record" /\ file[Len(file)].rec = cur
        /\ pc = "newline" => ~file[Len(file)].nl
        /\ pc = "sync" => file[Len(file)].nl
        /\ chain = ResumeAt(file, Len(file))

(* The directory entry is durable before anything is acknowledged.         *)
EntryState ==
    /\ dirent # "durable" => acked = {}
    /\ pc \in {"idle", "line", "newline", "sync"} => dirent = "durable"
    /\ pc = "down" => dirent # "volatile"

(* The inductive invariant behind AckedReplay and WriterAtTail.            *)
DurableInv ==
    TypeOK /\ AckedDurable /\ WriterState /\ NoDangling(disk) /\ EntryState

(* A crash never falls between the line and its newline or between the     *)
(* creation and sync_dir, and a process whose log failed does not go on.   *)
Contained == Faults \cap {"gap", "create", "carry_on"} = {}

(* The replay of a prefix depends on the text and records of its lines.    *)
LEMMA GoodPrefixSame ==
    ASSUME NEW f \in Seq(Line), NEW g \in Seq(Line), NEW n \in Nat,
           n <= Len(f), n <= Len(g),
           \A i \in 1 .. n : g[i].text = f[i].text /\ g[i].rec = f[i].rec,
           GoodPrefix(f, n)
    PROVE  GoodPrefix(g, n)
<1> SUFFICES ASSUME NEW i \in 1 .. n PROVE GoodLine(g, i)
  BY DEF GoodPrefix
<1>1. GoodLine(f, i)
  BY DEF GoodPrefix
<1>2. i # 1 => i - 1 \in 1 .. n
  OBVIOUS
<1> QED
  BY <1>1, <1>2 DEF GoodLine

LEMMA ResumeAtSame ==
    ASSUME NEW f, NEW g, NEW n \in Nat, n # 0 => g[n].rec = f[n].rec
    PROVE  ResumeAt(g, n) = ResumeAt(f, n)
BY DEF ResumeAt

(* A record made by the ChainWriter positioned on a good file extends it.  *)
LEMMA GoodExtend ==
    ASSUME NEW f \in Seq(Line), NEW n \in Nat, n + 1 <= Len(f),
           GoodPrefix(f, n),
           f[n + 1].text = "record",
           f[n + 1].rec.seq = ResumeAt(f, n).next_seq,
           f[n + 1].rec.prev = ResumeAt(f, n).head
    PROVE  GoodPrefix(f, n + 1)
<1>1. GoodLine(f, n + 1)
  BY DEF GoodLine, ResumeAt, NewChain, GENESIS
<1>2. \A i \in 1 .. n + 1 : i \in 1 .. n \/ i = n + 1
  OBVIOUS
<1> QED
  BY <1>1, <1>2 DEF GoodPrefix

(* Line i is whole and as the last fsync left it.                          *)
Solid(i) ==
    /\ i <= Len(disk)
    /\ file[i].text = "record"
    /\ file[i].nl
    /\ \A j \in 1 .. i : file[j] = disk[j]

(* A step that leaves every solid line in place in the file and on disk    *)
(* loses no acknowledged record.                                           *)
LEMMA AckedKept ==
    ASSUME TypeOK, TypeOK', AckedDurable, acked' = acked,
           \A i \in 1 .. Len(file) : Solid(i) =>
               /\ i <= Len(file')
               /\ i <= Len(disk')
               /\ \A j \in 1 .. i : file'[j] = file[j] /\ disk'[j] = file[j]
    PROVE  AckedDurable'
<1> SUFFICES ASSUME NEW r \in acked
             PROVE  \E i \in 1 .. Len(file') :
                        /\ i <= Len(disk')
                        /\ file'[i].text = "record"
                        /\ file'[i].rec = r /\ file'[i].nl
                        /\ GoodPrefix(file', i)
                        /\ \A j \in 1 .. i : file'[j] = disk'[j]
  BY SMTT(30) DEF AckedDurable
<1>1. PICK i \in 1 .. Len(file) :
        /\ i <= Len(disk)
        /\ file[i].text = "record" /\ file[i].rec = r /\ file[i].nl
        /\ GoodPrefix(file, i)
        /\ \A j \in 1 .. i : file[j] = disk[j]
  BY DEF AckedDurable
<1>3. Solid(i)
  BY <1>1 DEF Solid
<1>4. /\ i <= Len(file') /\ i <= Len(disk')
      /\ \A j \in 1 .. i : file'[j] = file[j] /\ disk'[j] = file[j]
  BY <1>3
<1>5. /\ Len(file) \in Nat /\ Len(file') \in Nat /\ i \in Nat
      /\ i \in 1 .. i /\ i \in 1 .. Len(file')
  BY <1>4, LenProperties DEF TypeOK
<1>6. GoodPrefix(file', i)
  <2>1. file \in Seq(Line) /\ file' \in Seq(Line)
    BY DEF TypeOK
  <2>2. \A j \in 1 .. i : /\ file'[j].text = file[j].text
                         /\ file'[j].rec = file[j].rec
    BY <1>4
  <2>3. i <= Len(file)
    BY <1>5
  <2> QED
    BY <1>1, <1>4, <1>5, <2>1, <2>2, <2>3, GoodPrefixSame
<1> QED
  BY <1>1, <1>4, <1>5, <1>6

LEMMA EmptyNoDangling == NoDangling(<< >>)
BY EmptySeq DEF NoDangling, OpenTail

(* The lines of a file that is not dangling and does not end in an open    *)
(* line all have their newline.                                            *)
LEMMA AllComplete ==
    ASSUME NEW f \in Seq(Line), NoDangling(f), ~OpenTail(f)
    PROVE  \A i \in 1 .. Len(f) : f[i].nl
<1>1. Len(f) \in Nat /\ (f = << >> => Len(f) = 0)
  BY LenProperties, EmptySeq
<1> QED
  BY <1>1 DEF NoDangling, OpenTail

(* A file whose lines all have their newline is neither.                   *)
LEMMA CompleteNoDangling ==
    ASSUME NEW f \in Seq(Line), \A i \in 1 .. Len(f) : f[i].nl
    PROVE  NoDangling(f) /\ ~OpenTail(f)
<1>1. f # << >> => Len(f) \in 1 .. Len(f)
  BY LenProperties, EmptySeq
<1> QED
  BY <1>1 DEF NoDangling, OpenTail

(* A fragment after complete lines dangles no record.                      *)
LEMMA FragmentNoDangling ==
    ASSUME NEW f \in Seq(Line), NEW g \in Seq(Line),
           \A i \in 1 .. Len(f) : f[i].nl,
           Len(g) = Len(f) + 1, \A i \in 1 .. Len(f) : g[i] = f[i],
           g[Len(f) + 1].text # "record"
    PROVE  NoDangling(g)
<1>1. Len(f) \in Nat
  BY LenProperties
<1> QED
  BY <1>1 DEF NoDangling, OpenTail

(* On a file that dangles no record the trim cuts the torn tail, and only  *)
(* that.                                                                   *)
LEMMA TrimFacts ==
    ASSUME NEW f \in Seq(Line), NEW n \in 0 .. Len(f), Replays(f, n),
           NoDangling(f)
    PROVE  /\ Len(Trim(f, n)) = n
           /\ \A i \in 1 .. n : Trim(f, n)[i] = f[i]
           /\ NoDangling(Trim(f, n))
           /\ ~OpenTail(Trim(f, n))
           /\ GoodPrefix(Trim(f, n), n)
           /\ \A i \in 1 .. Len(f) : f[i].text = "record" => i <= n
<1>1. Len(f) \in Nat
  BY LenProperties
<1>2. ~(n = Len(f) /\ OpenTail(f))
  <2> SUFFICES ASSUME n = Len(f), OpenTail(f) PROVE FALSE
    OBVIOUS
  <2>1. n \in 1 .. n
    BY <1>1, EmptySeq DEF OpenTail
  <2>2. f[n].text = "record"
    BY <2>1 DEF Replays, GoodPrefix, GoodLine
  <2> QED
    BY <2>2 DEF NoDangling
<1> DEFINE g == SubSeq(f, 1, n)
<1>3. Trim(f, n) = g
  BY <1>2 DEF Trim
<1>4. g \in Seq(Line) /\ Len(g) = n /\ \A i \in 1 .. n : g[i] = f[i]
  BY CutFacts
<1> HIDE DEF g
<1>5. \A i \in 1 .. n : f[i].nl
  <2>1. CASE n = Len(f)
    BY <1>2, <2>1, AllComplete
  <2>2. CASE n < Len(f)
    BY <1>1, <2>2 DEF NoDangling
  <2> QED
    BY <1>1, <2>1, <2>2
<1>6. NoDangling(g) /\ ~OpenTail(g)
  BY <1>4, <1>5, CompleteNoDangling
<1>7. GoodPrefix(g, n)
  BY <1>1, <1>4, GoodPrefixSame DEF Replays
<1>8. \A i \in 1 .. Len(f) : f[i].text = "record" => i <= n
  BY <1>1 DEF Replays
<1> QED
  BY <1>3, <1>4, <1>6, <1>7, <1>8

LEMMA OpenNewDurable ==
    ASSUME DurableInv, OpenNew, TypeOK' PROVE DurableInv'
<1>1. acked = {}
  BY DEF DurableInv, EntryState, OpenNew
<1>2. NoDangling(disk')
  BY EmptyNoDangling DEF OpenNew
<1> QED
  BY <1>1, <1>2
     DEF DurableInv, AckedDurable, WriterState, EntryState, OpenNew

LEMMA SyncDirDurable ==
    ASSUME DurableInv, SyncDir, TypeOK' PROVE DurableInv'
<1>1. file' = << >> /\ Len(<< >>) = 0
  BY EmptySeq DEF DurableInv, WriterState, SyncDir
<1>2. AckedDurable'
  BY DEF DurableInv, AckedDurable, SyncDir
<1>3. WriterState'
  BY <1>1, EmptyNoDangling
     DEF WriterState, SyncDir, OpenTail, GoodPrefix, ResumeAt
<1> QED
  BY <1>2, <1>3 DEF DurableInv, EntryState, SyncDir

LEMMA OpenExistingDurable ==
    ASSUME DurableInv, OpenExisting, TypeOK' PROVE DurableInv'
<1>1. CASE UNCHANGED <<file, pc, chain>>
  BY <1>1
     DEF DurableInv, AckedDurable, WriterState, EntryState, OpenExisting
<1>2. CASE ~UNCHANGED <<file, pc, chain>>
  <2>1. PICK n \in 0 .. Len(file) :
          /\ Replays(file, n)
          /\ file' = Trim(file, n)
          /\ \/ UNCHANGED pc
             \/ pc' = "idle" /\ chain' = ResumeAt(file, n)
    BY <1>2 DEF OpenExisting
  <2>2. /\ file \in Seq(Line) /\ NoDangling(file) /\ pc = "down"
        /\ disk' = disk /\ acked' = acked
        /\ dirent' = dirent /\ dirent # "absent"
    BY DEF DurableInv, TypeOK, WriterState, OpenExisting
  <2>3. /\ Len(file') = n
        /\ \A i \in 1 .. n : file'[i] = file[i]
        /\ NoDangling(file') /\ ~OpenTail(file') /\ GoodPrefix(file', n)
        /\ \A i \in 1 .. Len(file) : file[i].text = "record" => i <= n
    BY <2>1, <2>2, TrimFacts
  <2>4. n \in Nat
    BY <2>2, LenProperties
  <2>5. AckedDurable'
    BY <2>2, <2>3, <2>4, AckedKept DEF DurableInv, Solid
  <2>6. ResumeAt(file', n) = ResumeAt(file, n)
    BY <2>3, <2>4, ResumeAtSame
  <2>7. WriterState'
    BY <2>1, <2>2, <2>3, <2>6 DEF WriterState
  <2>8. EntryState'
    BY <2>2 DEF DurableInv, TypeOK, EntryState
  <2> QED
    BY <2>2, <2>5, <2>7, <2>8 DEF DurableInv
<1> QED
  BY <1>1, <1>2

LEMMA BeginWriteDurable ==
    ASSUME DurableInv, BeginWrite, TypeOK' PROVE DurableInv'
<1>1. /\ pc = "idle" /\ pc' = "line"
      /\ file' = file /\ disk' = disk /\ acked' = acked /\ dirent' = dirent
      /\ cur'.seq = chain.next_seq /\ cur'.prev = chain.head
      /\ chain' = [next_seq |-> chain.next_seq + 1, head |-> Hash(cur')]
  BY DEF BeginWrite
<1>2. AckedDurable'
  BY <1>1 DEF DurableInv, AckedDurable
<1>3. WriterState'
  BY <1>1 DEF DurableInv, WriterState
<1> QED
  BY <1>1, <1>2, <1>3 DEF DurableInv, EntryState

LEMMA WriteLineDurable ==
    ASSUME DurableInv, WriteLine, TypeOK' PROVE DurableInv'
<1> DEFINE n == Len(file)
           w == Whole(cur, FALSE)
<1>1. /\ pc = "line" /\ pc' = "newline" /\ file' = Put(file, w)
      /\ disk' = disk /\ acked' = acked /\ dirent' = dirent
      /\ cur' = cur /\ chain' = chain
  BY DEF WriteLine
<1>2. /\ file \in Seq(Line) /\ n \in Nat /\ cur \in Record
      /\ ~OpenTail(file) /\ NoDangling(file) /\ GoodPrefix(file, n)
      /\ cur.seq = ResumeAt(file, n).next_seq
      /\ cur.prev = ResumeAt(file, n).head
      /\ chain = [next_seq |-> cur.seq + 1, head |-> Hash(cur)]
  BY <1>1, LenProperties DEF DurableInv, TypeOK, WriterState
<1>3. w \in Line /\ w.text = "record" /\ w.rec = cur /\ ~w.nl
  BY <1>2, WholeFacts
<1> HIDE DEF w
<1>4. /\ file' \in Seq(Line)
      /\ Len(file') = n + 1
      /\ \A i \in 1 .. n : file'[i] = file[i]
      /\ file'[n + 1] = w
  BY <1>1, <1>2, <1>3, PutFresh
<1> HIDE DEF n
<1>5. AckedDurable'
  <2>1. \A i \in 1 .. Len(file) : Solid(i) =>
            /\ i <= Len(file')
            /\ i <= Len(disk')
            /\ \A j \in 1 .. i : file'[j] = file[j] /\ disk'[j] = file[j]
    BY <1>1, <1>2, <1>4 DEF Solid, n
  <2> QED
    BY <1>1, <2>1, AckedKept DEF DurableInv
<1>6. GoodPrefix(file', n)
  BY <1>2, <1>4, GoodPrefixSame DEF n
<1>7. ResumeAt(file', n) = ResumeAt(file, n)
  BY <1>2, <1>4, ResumeAtSame
<1>8. GoodPrefix(file', n + 1)
  BY <1>2, <1>3, <1>4, <1>6, <1>7, GoodExtend, SMTT(30)
<1>9. chain' = ResumeAt(file', n + 1)
  BY <1>1, <1>2, <1>3, <1>4 DEF ResumeAt
<1>10. \A i \in 1 .. n + 1 : i < n + 1 => file'[i].nl
  <2>1. \A i \in 1 .. n : file[i].nl
    BY <1>2, AllComplete DEF n
  <2> QED
    BY <1>2, <1>4, <2>1
<1>11. WriterState'
  <2>1. file' # << >>
    BY <1>2, <1>4, EmptySeq
  <2>2. /\ file'[Len(file')].text = "record" /\ file'[Len(file')].rec = cur'
        /\ ~file'[Len(file')].nl
    BY <1>1, <1>3, <1>4
  <2> QED
    BY <1>1, <1>4, <1>8, <1>9, <1>10, <2>1, <2>2 DEF WriterState
<1> QED
  BY <1>1, <1>5, <1>11 DEF DurableInv, EntryState

LEMMA WriteNewlineDurable ==
    ASSUME DurableInv, WriteNewline, TypeOK' PROVE DurableInv'
<1> DEFINE n == Len(file)
<1>1. /\ pc = "newline" /\ pc' = "sync" /\ file' = PutNewline(file)
      /\ disk' = disk /\ acked' = acked /\ dirent' = dirent
      /\ cur' = cur /\ chain' = chain
  BY DEF WriteNewline
<1>2. /\ file \in Seq(Line) /\ file # << >> /\ n \in Nat /\ n \in 1 .. n
      /\ file[n].text = "record" /\ file[n].rec = cur /\ ~file[n].nl
      /\ GoodPrefix(file, n)
      /\ chain = ResumeAt(file, n) /\ cur \in Record
      /\ \A i \in 1 .. n : i < n => file[i].nl
  <2>1. file \in Seq(Line) /\ cur \in Record
    BY DEF DurableInv, TypeOK
  <2>2. /\ file # << >> /\ file[n].text = "record" /\ file[n].rec = cur
        /\ ~file[n].nl
        /\ GoodPrefix(file, n) /\ chain = ResumeAt(file, n)
        /\ \A i \in 1 .. n : i < n => file[i].nl
    BY <1>1 DEF DurableInv, WriterState
  <2>3. n \in Nat /\ n \in 1 .. n
    BY <2>1, <2>2, LenProperties, EmptySeq
  <2> QED
    BY <2>1, <2>2, <2>3
<1>3. /\ file' \in Seq(Line)
      /\ Len(file') = n
      /\ \A i \in 1 .. n : i # n => file'[i] = file[i]
      /\ file'[n].text = file[n].text /\ file'[n].rec = file[n].rec
      /\ file'[n].nl
  BY <1>1, <1>2, PutNewlineFacts
<1> HIDE DEF n
<1>5. \A i \in 1 .. n : /\ file'[i].text = file[i].text
                       /\ file'[i].rec = file[i].rec
  BY <1>3
<1>6. AckedDurable'
  <2>2. \A i \in 1 .. Len(file) : Solid(i) =>
            /\ i <= Len(file')
            /\ i <= Len(disk')
            /\ \A j \in 1 .. i : file'[j] = file[j] /\ disk'[j] = file[j]
    <3> SUFFICES ASSUME NEW i \in 1 .. n, Solid(i)
                 PROVE  /\ i <= Len(file')
                        /\ i <= Len(disk')
                        /\ \A j \in 1 .. i : /\ file'[j] = file[j]
                                             /\ disk'[j] = file[j]
      BY DEF n
    <3>1. i # n
      BY <1>2 DEF Solid
    <3>2. \A j \in 1 .. i : j \in 1 .. n /\ j # n
      BY <1>2, <3>1
    <3> QED
      BY <1>1, <1>2, <1>3, <3>2 DEF Solid
  <2> QED
    BY <1>1, <2>2, AckedKept DEF DurableInv
<1>7. GoodPrefix(file', n)
  BY <1>2, <1>3, <1>5, GoodPrefixSame DEF n
<1>8. ResumeAt(file', n) = ResumeAt(file, n)
  BY <1>2, <1>5, ResumeAtSame
<1>9. WriterState'
  <2>1. file' # << >>
    BY <1>2, <1>3, EmptySeq
  <2>2. \A i \in 1 .. n : i < n => file'[i].nl
    BY <1>2, <1>3
  <2> QED
    BY <1>1, <1>2, <1>3, <1>7, <1>8, <2>1, <2>2 DEF WriterState
<1> QED
  BY <1>1, <1>6, <1>9 DEF DurableInv, EntryState

LEMMA SyncDataDurable ==
    ASSUME DurableInv, SyncData, TypeOK' PROVE DurableInv'
<1> DEFINE n == Len(file)
<1>1. /\ pc = "sync" /\ pc' = "idle" /\ file' = file /\ disk' = file
      /\ acked' = acked \cup {cur} /\ dirent' = dirent /\ chain' = chain
  BY DEF SyncData
<1>2. file \in Seq(Line)
  BY DEF DurableInv, TypeOK
<1>3. /\ file # << >> /\ file[n].text = "record" /\ file[n].rec = cur
      /\ file[n].nl /\ GoodPrefix(file, n) /\ chain = ResumeAt(file, n)
      /\ \A i \in 1 .. n : i < n => file[i].nl
  BY <1>1 DEF DurableInv, WriterState
<1>4. n \in Nat /\ n \in 1 .. n
  BY <1>2, <1>3, LenProperties, EmptySeq
<1> HIDE DEF n
<1>5. AckedDurable'
  <2> SUFFICES ASSUME NEW r \in acked'
               PROVE  \E i \in 1 .. n :
                          /\ file[i].text = "record" /\ file[i].rec = r
                          /\ file[i].nl /\ GoodPrefix(file, i)
    BY <1>1, <1>4 DEF AckedDurable, n
  <2>1. CASE r = cur
    BY <1>3, <1>4, <2>1
  <2>2. CASE r \in acked
    BY <2>2 DEF DurableInv, AckedDurable, n
  <2> QED
    BY <1>1, <2>1, <2>2
<1>6. \A i \in 1 .. Len(file) : file[i].nl
  BY <1>3, <1>4 DEF n
<1>7. NoDangling(file) /\ ~OpenTail(file)
  BY <1>2, <1>6, CompleteNoDangling
<1>8. WriterState'
  BY <1>1, <1>3, <1>7 DEF WriterState, n
<1> QED
  BY <1>1, <1>5, <1>7, <1>8 DEF DurableInv, EntryState

(* A process that goes down with its file as it is, outside the two writes *)
(* of an append.                                                           *)
LEMMA GoesDownDurable ==
    ASSUME DurableInv, TypeOK', pc \in {"idle", "line", "sync"},
           pc' = "down",
           UNCHANGED <<file, disk, dirent, acked>>
    PROVE  DurableInv'
<1>1. NoDangling(file)
  <2>1. CASE pc \in {"idle", "line"}
    BY <2>1 DEF DurableInv, WriterState
  <2>2. CASE pc = "sync"
    <3>1. file \in Seq(Line)
      BY DEF DurableInv, TypeOK
    <3>2. Len(file) \in Nat
      BY <3>1, LenProperties
    <3>3. /\ file[Len(file)].nl
          /\ \A i \in 1 .. Len(file) : i < Len(file) => file[i].nl
      BY <2>2 DEF DurableInv, WriterState
    <3>4. \A i \in 1 .. Len(file) : file[i].nl
      BY <3>2, <3>3
    <3> QED
      BY <3>1, <3>4, CompleteNoDangling
  <2> QED
    BY <2>1, <2>2
<1>2. AckedDurable'
  BY DEF DurableInv, AckedDurable
<1>3. WriterState'
  BY <1>1 DEF WriterState
<1>4. EntryState'
  BY DEF DurableInv, EntryState
<1> QED
  BY <1>2, <1>3, <1>4 DEF DurableInv

(* A process that goes down in the middle of write_all(line).              *)
LEMMA TornDurable ==
    ASSUME DurableInv, TypeOK', pc = "line", pc' = "down",
           NEW b \in Fragments, file' = Put(file, b),
           UNCHANGED <<disk, dirent, acked>>
    PROVE  DurableInv'
<1> DEFINE n == Len(file)
<1>1. b \in Line /\ b.text # "record"
  BY FragmentFacts
<1>2. /\ file \in Seq(Line) /\ n \in Nat
      /\ NoDangling(file) /\ ~OpenTail(file)
  BY LenProperties DEF DurableInv, TypeOK, WriterState
<1>3. /\ file' \in Seq(Line)
      /\ Len(file') = n + 1
      /\ \A i \in 1 .. n : file'[i] = file[i]
      /\ file'[n + 1] = b
  BY <1>1, <1>2, PutFresh
<1>4. \A i \in 1 .. n : file[i].nl
  BY <1>2, AllComplete
<1>5. NoDangling(file')
  BY <1>1, <1>2, <1>3, <1>4, FragmentNoDangling
<1>6. AckedDurable'
  <2>1. \A i \in 1 .. Len(file) : Solid(i) =>
            /\ i <= Len(file')
            /\ i <= Len(disk')
            /\ \A j \in 1 .. i : file'[j] = file[j] /\ disk'[j] = file[j]
    BY <1>2, <1>3 DEF Solid
  <2> QED
    BY <2>1, AckedKept DEF DurableInv
<1>7. WriterState'
  BY <1>5 DEF WriterState
<1>8. EntryState'
  BY DEF DurableInv, EntryState
<1> QED
  BY <1>6, <1>7, <1>8 DEF DurableInv

(* A power loss that no gap precedes leaves no record without its newline. *)
LEMMA PowerLossClosed ==
    ASSUME "gap" \notin Faults, TypeOK, TypeOK', PowerLoss, NoDangling(disk),
           \A i \in 1 .. Len(file) : i < Len(file) => file[i].nl
    PROVE  NoDangling(file')
<1>2. /\ file \in Seq(Line) /\ file' \in Seq(Line) /\ Len(file) \in Nat
  BY LenProperties DEF TypeOK
<1>4. CASE file' = << >>
  BY <1>4, EmptyNoDangling
<1>5. CASE file' = disk
  BY <1>5
<1>6. ASSUME NEW k \in 0 .. Len(file),
             k > 0 => file[k].nl \/ file[k].text # "record",
             NEW rest \in Remnants(k),
             file' = SubSeq(file, 1, k) \o rest
      PROVE  NoDangling(file')
  <2> DEFINE g == SubSeq(file, 1, k)
  <2>2. g \in Seq(Line) /\ Len(g) = k /\ \A i \in 1 .. k : g[i] = file[i]
    BY <1>2, CutFacts
  <2>3. /\ rest \in Seq(Line) /\ Len(rest) \in {0, 1}
        /\ k = Len(file) => rest = << >>
        /\ Len(rest) = 1 => rest[1].text # "record" /\ rest[1].nl = FALSE
    BY <1>2, RemnantFacts
  <2>4. file' = g \o rest
    BY <1>6
  <2> HIDE DEF g
  <2>5. /\ Len(file') = k + Len(rest)
        /\ \A i \in 1 .. k + Len(rest) :
              file'[i] = IF i <= k THEN g[i] ELSE rest[i - k]
    <3>1. Len(g \o rest) = Len(g) + Len(rest)
      BY <2>2, <2>3, ConcatProperties
    <3>2. \A i \in 1 .. Len(g) + Len(rest) :
              (g \o rest)[i] = IF i <= Len(g) THEN g[i] ELSE rest[i - Len(g)]
      BY <2>2, <2>3, ConcatProperties
    <3> QED
      BY <2>2, <2>4, <3>1, <3>2
  <2>6. \A i \in 1 .. k : file'[i] = file[i]
    BY <1>2, <2>2, <2>3, <2>5
  <2>8. NoDangling(file')
    <3>2. CASE Len(rest) = 0
      <4>1. Len(file') = k
        BY <1>2, <2>5, <3>2
      <4>2. \A i \in 1 .. k : i < k => file'[i].nl
        BY <1>2, <2>6, SMTT(30)
      <4>3. OpenTail(file') => file'[k].text # "record"
        <5>1. CASE k = 0
          BY <1>2, <4>1, <5>1, EmptySeq DEF OpenTail
        <5>2. CASE k # 0
          <6>1. k \in 1 .. k /\ k > 0
            BY <1>2, <5>2
          <6> QED
            BY <1>6, <2>6, <4>1, <6>1 DEF OpenTail
        <5> QED
          BY <5>1, <5>2
      <4> QED
        BY <4>1, <4>2, <4>3 DEF NoDangling
    <3>3. CASE Len(rest) = 1
      <4>1. k # Len(file)
        <5>1. rest # << >>
          BY <3>3
        <5> QED
          BY <2>3, <5>1
      <4>2. \A i \in 1 .. k : g[i].nl
        BY <1>2, <2>2, <4>1
      <4>3. /\ Len(file') = Len(g) + 1
            /\ \A i \in 1 .. Len(g) : file'[i] = g[i]
        BY <1>2, <2>2, <2>5, <3>3
      <4>4. file'[Len(g) + 1].text # "record"
        BY <1>2, <2>2, <2>3, <2>5, <3>3
      <4> QED
        BY <1>2, <2>2, <4>2, <4>3, <4>4, FragmentNoDangling
    <3> QED
      BY <2>3, <3>2, <3>3
  <2> QED
    BY <2>8
<1> QED
  BY <1>4, <1>5, <1>6 DEF PowerLoss

LEMMA PowerLossDurable ==
    ASSUME Contained, DurableInv, PowerLoss, TypeOK' PROVE DurableInv'
<1>1. /\ dirent # "absent" /\ pc' = "down" /\ disk' = file'
      /\ acked' = acked
  BY DEF PowerLoss
<1>2. /\ file \in Seq(Line) /\ disk \in Seq(Line)
      /\ file' \in Seq(Line) /\ disk' \in Seq(Line)
      /\ Len(file) \in Nat /\ Len(disk) \in Nat
  BY LenProperties DEF DurableInv, TypeOK
<1>3. SUFFICES AckedDurable' /\ NoDangling(file')
  <2>1. WriterState'
    BY <1>1, <1>3 DEF WriterState
  <2>2. EntryState'
    BY <1>1 DEF DurableInv, EntryState, PowerLoss
  <2> QED
    BY <1>1, <1>3, <2>1, <2>2 DEF DurableInv
<1>4. CASE dirent = "volatile" /\ file' = << >>
  <2>1. acked = {}
    BY <1>4 DEF DurableInv, EntryState
  <2> QED
    BY <1>1, <1>4, <2>1, EmptyNoDangling DEF AckedDurable
<1>5. CASE file' = disk
  <2>1. \A i \in 1 .. Len(file) : Solid(i) =>
            /\ i <= Len(file')
            /\ i <= Len(disk')
            /\ \A j \in 1 .. i : file'[j] = file[j] /\ disk'[j] = file[j]
    BY <1>1, <1>5 DEF Solid
  <2>2. AckedDurable'
    BY <1>1, <2>1, AckedKept DEF DurableInv
  <2> QED
    BY <1>5, <2>2 DEF DurableInv
<1>6. ASSUME NEW k \in 0 .. Len(file),
             \A i \in 1 .. Len(disk) : Settled(i) => i <= k,
             k > 0 /\ "gap" \notin Faults =>
                 file[k].nl \/ file[k].text # "record",
             NEW rest \in Remnants(k),
             file' = SubSeq(file, 1, k) \o rest
      PROVE  AckedDurable' /\ NoDangling(file')
  <2> DEFINE g == SubSeq(file, 1, k)
  <2>1. "gap" \notin Faults
    BY DEF Contained
  <2>2. g \in Seq(Line) /\ Len(g) = k /\ \A i \in 1 .. k : g[i] = file[i]
    BY <1>2, CutFacts
  <2>3. /\ rest \in Seq(Line) /\ Len(rest) \in {0, 1}
        /\ k = Len(file) => rest = << >>
        /\ Len(rest) = 1 => rest[1].text # "record" /\ rest[1].nl = FALSE
    BY <1>2, <2>1, RemnantFacts
  <2>4. file' = g \o rest
    BY <1>6
  <2> HIDE DEF g
  <2>5. /\ Len(file') = k + Len(rest)
        /\ \A i \in 1 .. k + Len(rest) :
              file'[i] = IF i <= k THEN g[i] ELSE rest[i - k]
    <3>1. Len(g \o rest) = Len(g) + Len(rest)
      BY <2>2, <2>3, ConcatProperties
    <3>2. \A i \in 1 .. Len(g) + Len(rest) :
              (g \o rest)[i] = IF i <= Len(g) THEN g[i] ELSE rest[i - Len(g)]
      BY <2>2, <2>3, ConcatProperties
    <3> QED
      BY <2>2, <2>4, <3>1, <3>2
  <2>6. \A i \in 1 .. k : file'[i] = file[i]
    BY <1>2, <2>2, <2>3, <2>5
  <2>7. AckedDurable'
    <3>1. ASSUME NEW i \in 1 .. Len(file), Solid(i)
          PROVE  /\ i <= Len(file')
                 /\ i <= Len(disk')
                 /\ \A j \in 1 .. i : /\ file'[j] = file[j]
                                      /\ disk'[j] = file[j]
      <4>1. i \in 1 .. Len(disk) /\ Settled(i)
        BY <1>2, <3>1 DEF Solid, Settled
      <4>2. i <= k
        BY <1>6, <4>1
      <4> QED
        BY <1>1, <1>2, <2>3, <2>5, <2>6, <4>2
    <3> QED
      BY <1>1, <3>1, AckedKept DEF DurableInv
  <2>8. NoDangling(file')
    <3>1. \A i \in 1 .. Len(file) : i < Len(file) => file[i].nl
      <4>1. CASE pc = "created"
        BY <4>1, EmptySeq DEF DurableInv, WriterState
      <4>2. CASE pc # "created"
        BY <4>2 DEF DurableInv, WriterState, NoDangling, TypeOK, PCs
      <4> QED
        BY <4>1, <4>2
    <3> QED
      BY <1>2, <2>1, <3>1, PowerLossClosed DEF DurableInv
  <2> QED
    BY <2>7, <2>8
<1> QED
  BY <1>4, <1>5, <1>6 DEF PowerLoss

LEMMA OtherDurable ==
    ASSUME DurableInv, OtherWriter \/ OtherKilled, "gap" \notin Faults, TypeOK'
    PROVE  DurableInv'
<1> DEFINE n == Len(file)
<1>1. /\ pc = "down" /\ pc' = "down" /\ acked' = acked
      /\ dirent' = dirent
      /\ file # << >> => file[n].nl
      /\ disk' = file' \/ disk' = disk
  BY OtherAppendsLine DEF OtherAppends, DurableInv
<1>2. PICK w \in Line : /\ file' = Append(file, w)
                        /\ w.nl \/ w.text # "record"
  <2>1. PICK kind \in {"foreign", "newer"}, w \in Line :
          OtherLeaves(kind, w) /\ file' = Append(file, w)
    BY OtherAppendsLine DEF DurableInv
  <2>2. OtherRecord(kind) \in Record
    BY OtherRecordType DEF Kinds, DurableInv
  <2>3. w.nl \/ w.text # "record"
    BY <2>1, <2>2, WholeFacts, FragmentFacts DEF OtherLeaves
  <2> QED
    BY <2>1, <2>3
<1>3. /\ file \in Seq(Line) /\ n \in Nat /\ NoDangling(file)
      /\ file' \in Seq(Line) /\ NoDangling(disk)
  BY <1>1, LenProperties DEF DurableInv, TypeOK, WriterState
<1>5. /\ Len(file') = n + 1
      /\ \A i \in 1 .. n : file'[i] = file[i]
      /\ file'[n + 1] = w
  BY <1>2, <1>3
<1>6. \A i \in 1 .. n : file[i].nl
  BY <1>1, <1>3, AllComplete DEF OpenTail
<1>8. NoDangling(file')
  BY <1>2, <1>3, <1>5, <1>6 DEF NoDangling, OpenTail
<1>9. AckedDurable'
  <2>1. \A i \in 1 .. Len(file) : Solid(i) =>
            /\ i <= Len(file')
            /\ i <= Len(disk')
            /\ \A j \in 1 .. i : file'[j] = file[j] /\ disk'[j] = file[j]
    BY <1>1, <1>3, <1>5 DEF Solid
  <2> QED
    BY <1>1, <2>1, AckedKept DEF DurableInv
<1>10. WriterState' /\ EntryState'
  BY <1>1, <1>8 DEF DurableInv, WriterState, EntryState
<1>11. NoDangling(disk')
  BY <1>1, <1>3, <1>8
<1> QED
  BY <1>9, <1>10, <1>11 DEF DurableInv

LEMMA InitDurable == Init => DurableInv
<1> SUFFICES ASSUME Init PROVE DurableInv
  OBVIOUS
<1>1. TypeOK
  BY InitType
<1>2. file = << >> /\ disk = << >> /\ acked = {} /\ pc = "down"
      /\ dirent = "absent"
  BY DEF Init
<1>3. NoDangling(file) /\ NoDangling(disk)
  BY <1>2, EmptyNoDangling
<1>4. AckedDurable /\ EntryState
  BY <1>2 DEF AckedDurable, EntryState
<1>5. WriterState
  BY <1>2, <1>3 DEF WriterState
<1> QED
  BY <1>1, <1>3, <1>4, <1>5 DEF DurableInv

(* Every step of the log preserves the invariant, one case per action.     *)
LEMMA DurableStep ==
    ASSUME Contained PROVE DurableInv /\ [Next]_vars => DurableInv'
<1> SUFFICES ASSUME DurableInv, [Next]_vars PROVE DurableInv'
  OBVIOUS
<1> USE Contained
<1>0. TypeOK'
  BY TypeStep DEF DurableInv
<1>1. "gap" \notin Faults /\ "create" \notin Faults /\ "carry_on" \notin Faults
  BY DEF Contained
<1>2. CASE OpenNew
  BY <1>0, <1>2, OpenNewDurable
<1>3. CASE SyncDir
  BY <1>0, <1>3, SyncDirDurable
<1>4. CASE OpenExisting
  BY <1>0, <1>4, OpenExistingDurable
<1>5. CASE OpenUnreadable
  BY <1>0, <1>5
     DEF OpenUnreadable, DurableInv, AckedDurable, WriterState, EntryState
<1>6. CASE BeginWrite
  BY <1>0, <1>6, BeginWriteDurable
<1>7. CASE WriteLine
  BY <1>0, <1>7, WriteLineDurable
<1>8. CASE WriteNewline
  BY <1>0, <1>8, WriteNewlineDurable
<1>9. CASE SyncData
  BY <1>0, <1>9, SyncDataDurable
<1>10. CASE SignFails \/ SyncDataFails \/ Stop
  <2>1. /\ pc \in {"idle", "line", "sync"} /\ pc' = "down"
        /\ UNCHANGED <<file, disk, dirent, acked>>
    BY <1>1, <1>10 DEF SignFails, SyncDataFails, Stop, AfterError
  <2> QED
    BY <1>0, <2>1, GoesDownDurable
<1>11. CASE WriteLineFails
  <2>1. /\ pc = "line" /\ pc' = "down" /\ UNCHANGED <<disk, dirent, acked>>
        /\ file' = file \/ \E b \in Fragments : file' = Put(file, b)
    BY <1>1, <1>11 DEF WriteLineFails, AfterError
  <2>2. CASE file' = file
    BY <1>0, <2>1, <2>2, GoesDownDurable
  <2>3. CASE \E b \in Fragments : file' = Put(file, b)
    BY <1>0, <2>1, <2>3, TornDurable
  <2> QED
    BY <2>1, <2>2, <2>3
<1>12. CASE KillTorn
  <2>1. /\ pc = "line" /\ pc' = "down" /\ UNCHANGED <<disk, dirent, acked>>
        /\ \E b \in Fragments : file' = Put(file, b)
    BY <1>12 DEF KillTorn
  <2> QED
    BY <1>0, <2>1, TornDurable
<1>13. CASE WriteNewlineFails \/ KillGap \/ KillCreated
  BY <1>1, <1>13 DEF WriteNewlineFails, KillGap, KillCreated, Strike
<1>14. CASE PowerLoss
  BY <1>0, <1>14, PowerLossDurable
<1>15. CASE OtherWriter \/ OtherKilled
  BY <1>0, <1>1, <1>15, OtherDurable
<1>16. CASE UNCHANGED vars
  BY <1>0, <1>16
     DEF vars, DurableInv, AckedDurable, WriterState, EntryState
<1> QED
  BY <1>2, <1>3, <1>4, <1>5, <1>6, <1>7, <1>8, <1>9, <1>10, <1>11, <1>12,
     <1>13, <1>14, <1>15, <1>16 DEF Next, Open, Write, Fault

(* What Session::write acknowledged stays in the log and replays, through  *)
(* torn lines, I/O errors, failed signatures, power losses, restarts and   *)
(* writers that are not the gateway, as long as no crash falls in one of   *)
(* the two windows Contained names and a failed write ends the process.    *)
THEOREM Durability == ASSUME Contained PROVE Spec => []AckedReplay
<1>1. DurableInv => AckedReplay
  BY DEF DurableInv, AckedDurable, AckedReplay
<1>2. DurableInv /\ [Next]_vars => DurableInv'
  BY DurableStep
<1> QED
  BY <1>1, <1>2, InitDurable, PTL DEF Spec

(* Under the same conditions the ChainWriter in memory is, whenever no     *)
(* write is in progress, exactly the one Wal::open would rebuild from the  *)
(* file.                                                                   *)
THEOREM WriterInStep == ASSUME Contained PROVE Spec => []WriterAtTail
<1>1. DurableInv => WriterAtTail
  BY DEF DurableInv, WriterState, WriterAtTail, Replays
<1>2. DurableInv /\ [Next]_vars => DurableInv'
  BY DurableStep
<1> QED
  BY <1>1, <1>2, InitDurable, PTL DEF Spec

-----------------------------------------------------------------------------
(***************************************************************************)
(* Refusals.  Authenticated, under any faults; else, when no process dies  *)
(* between a line and its newline.                                         *)
(***************************************************************************)

(* An authenticated open is refused before it touches the file: what it    *)
(* trusts was signed over the hash this build computes, so this build      *)
(* understands it.                                                         *)
LEMMA AuthenticatedRefusal ==
    ASSUME Authenticated, OpenExisting, pc' = "down"
    PROVE  file' = file
<1> SUFFICES ASSUME NEW n \in 0 .. Len(file),
                    \A i \in 1 .. n : Trusted(file[i].rec),
                    \E i \in 1 .. n : ~Understood(file[i].rec)
             PROVE  FALSE
  BY DEF OpenExisting
<1> QED
  BY DEF Trusted, Understood

(* Every line but the last has its newline, always; and so has a last line *)
(* that holds a record, unless a write is about to give it one.            *)
ClosedInv ==
    /\ TypeOK
    /\ \A i \in 1 .. Len(file) : i < Len(file) => file[i].nl
    /\ pc # "newline" => NoDangling(file)
    /\ NoDangling(disk)

(* Bytes without a newline never leave a record dangling.                  *)
LEMMA PutNoDangling ==
    ASSUME NEW f \in Seq(Line), NEW line \in Line, NoDangling(f)
    PROVE  /\ \A i \in 1 .. Len(Put(f, line)) : i < Len(Put(f, line)) => Put(f, line)[i].nl
           /\ line.text # "record" => NoDangling(Put(f, line))
<1>1. Len(f) \in Nat
  BY LenProperties
<1>2. CASE OpenTail(f)
  <2>1. PICK t \in {"not_utf8", "garbled"} :
          Put(f, line) = [f EXCEPT ![Len(f)] = Broken(t, FALSE)]
    BY <1>2 DEF Put
  <2>2. PICK b : b = Broken(t, FALSE)
    OBVIOUS
  <2>3. b.text # "record"
    BY <2>2 DEF Broken
  <2>4. PICK g : g = [f EXCEPT ![Len(f)] = b]
    OBVIOUS
  <2>5. Len(g) = Len(f) /\ \A j \in 1 .. Len(f) : g[j] = IF j = Len(f) THEN b ELSE f[j]
    BY <1>1, <2>4
  <2>6. \A i \in 1 .. Len(g) : i < Len(g) => g[i].nl
    BY <1>1, <2>5 DEF NoDangling
  <2>7. f # << >>
    BY <1>2 DEF OpenTail
  <2>8. Len(f) \in 1 .. Len(f)
    BY <2>7, EmptySeq, LenProperties
  <2>9. g[Len(g)].text # "record"
    BY <2>3, <2>5, <2>8
  <2> QED
    BY <2>1, <2>2, <2>4, <2>6, <2>9 DEF NoDangling
<1>3. CASE ~OpenTail(f)
  <2>1. PICK g : g = Put(f, line)
    OBVIOUS
  <2>2. /\ g \in Seq(Line)
        /\ Len(g) = Len(f) + 1
        /\ \A i \in 1 .. Len(f) : g[i] = f[i]
        /\ g[Len(f) + 1] = line
    BY <1>3, <2>1, PutFresh
  <2>3. \A i \in 1 .. Len(f) : f[i].nl
    BY <1>3, AllComplete
  <2>4. \A i \in 1 .. Len(g) : i < Len(g) => g[i].nl
    BY <1>1, <2>2, <2>3
  <2>5. line.text # "record" => NoDangling(g)
    BY <2>2, <2>3, FragmentNoDangling
  <2> QED
    BY <2>1, <2>4, <2>5
<1> QED
  BY <1>2, <1>3

LEMMA ClosedStep ==
    ASSUME "gap" \notin Faults PROVE ClosedInv /\ [Next]_vars => ClosedInv'
<1> SUFFICES ASSUME ClosedInv, [Next]_vars PROVE ClosedInv'
  OBVIOUS
<1>1. /\ TypeOK /\ TypeOK' /\ file \in Seq(Line) /\ disk \in Seq(Line)
      /\ cur \in Record /\ Len(file) \in Nat /\ NoDangling(disk)
      /\ \A i \in 1 .. Len(file) : i < Len(file) => file[i].nl
      /\ pc # "newline" => NoDangling(file)
  <2>1. TypeOK /\ TypeOK'
    BY TypeStep DEF ClosedInv
  <2> QED
    BY <2>1, LenProperties DEF TypeOK, ClosedInv
<1>2. CASE OpenNew
  BY <1>1, <1>2, EmptyNoDangling, EmptySeq DEF OpenNew, ClosedInv
<1>3. CASE OpenExisting
  <2>1. PICK n \in 0 .. Len(file) :
          Replays(file, n) /\ (file' = file \/ file' = Trim(file, n))
    BY <1>3 DEF OpenExisting
  <2>2. pc = "down" /\ pc' # "newline" /\ disk' = disk
    BY <1>3 DEF OpenExisting
  <2>3. NoDangling(file')
    BY <1>1, <2>1, <2>2, TrimFacts
  <2> QED
    BY <1>1, <2>2, <2>3 DEF ClosedInv, NoDangling
<1>4. CASE WriteLine
  <2>1. Whole(cur, FALSE) \in Line
    BY <1>1, WholeFacts
  <2>2. pc # "newline" /\ pc' = "newline" /\ disk' = disk
        /\ file' = Put(file, Whole(cur, FALSE))
    BY <1>4 DEF WriteLine
  <2> QED
    BY <1>1, <2>1, <2>2, PutNoDangling DEF ClosedInv
<1>5. CASE WriteNewline
  <2>1. file # << >> /\ file' = PutNewline(file) /\ disk' = disk
    BY <1>1, <1>5 DEF WriteNewline, TypeOK
  <2>2. /\ Len(file') = Len(file)
        /\ \A i \in 1 .. Len(file) : i # Len(file) => file'[i] = file[i]
        /\ file'[Len(file)].nl /\ file' \in Seq(Line)
    BY <1>1, <2>1, PutNewlineFacts
  <2>3. \A i \in 1 .. Len(file') : file'[i].nl
    BY <1>1, <2>2
  <2>4. NoDangling(file')
    BY <2>2, <2>3, CompleteNoDangling
  <2> QED
    BY <1>1, <2>1, <2>3, <2>4 DEF ClosedInv
<1>6. CASE SyncData
  BY <1>1, <1>6 DEF SyncData, ClosedInv
<1>7. CASE WriteLineFails \/ KillTorn
  <2>1. /\ disk' = disk /\ pc = "line" /\ pc' # "newline"
        /\ file' = file \/ \E b \in Fragments : file' = Put(file, b)
    BY <1>7 DEF WriteLineFails, KillTorn, AfterError
  <2>2. NoDangling(file')
    BY <1>1, <2>1, FragmentFacts, PutNoDangling
  <2> QED
    BY <1>1, <2>1, <2>2 DEF ClosedInv, NoDangling
<1>8. CASE PowerLoss
  <2>1. NoDangling(file') /\ disk' = file' /\ pc' = "down"
    BY <1>1, <1>8, PowerLossClosed DEF PowerLoss
  <2> QED
    BY <1>1, <2>1 DEF ClosedInv, NoDangling
<1>9. CASE OtherWriter \/ OtherKilled
  <2>1. PICK kind \in {"foreign", "newer"}, w \in Line :
          OtherLeaves(kind, w) /\ file' = Append(file, w)
    BY <1>1, <1>9, OtherAppendsLine
  <2>2. OtherRecord(kind) \in Record
    BY <1>1, OtherRecordType DEF Kinds
  <2>3. w.nl \/ w.text # "record"
    BY <2>1, <2>2, WholeFacts, FragmentFacts DEF OtherLeaves
  <2>4. /\ Len(file') = Len(file) + 1
        /\ \A i \in 1 .. Len(file) : file'[i] = file[i]
        /\ file'[Len(file) + 1] = w
    BY <1>1, <2>1
  <2>5. /\ pc = "down" /\ pc' = pc /\ (disk' = file' \/ disk' = disk)
        /\ file # << >> => file[Len(file)].nl
    BY <1>1, <1>9, OtherAppendsLine DEF OtherAppends
  <2>6. \A i \in 1 .. Len(file) : file[i].nl
    BY <1>1, <2>5, AllComplete DEF OpenTail
  <2>7. NoDangling(file')
    BY <1>1, <2>3, <2>4, <2>6 DEF NoDangling, OpenTail
  <2>8. NoDangling(disk')
    BY <1>1, <2>5, <2>7
  <2> QED
    BY <1>1, <2>5, <2>7, <2>8 DEF ClosedInv, NoDangling
<1>10. CASE \/ SyncDir \/ OpenUnreadable \/ BeginWrite \/ SignFails \/ SyncDataFails
            \/ Stop \/ KillCreated \/ UNCHANGED vars
  <2>1. /\ file' = file /\ disk' = disk
        /\ \/ pc' = pc
           \/ pc # "newline" /\ pc' # "newline"
    BY <1>10 DEF SyncDir, OpenUnreadable, BeginWrite, SignFails, SyncDataFails, Stop,
                 KillCreated, AfterError, vars
  <2> QED
    BY <1>1, <2>1 DEF ClosedInv, NoDangling
<1>11. CASE WriteNewlineFails \/ KillGap
  BY <1>11 DEF WriteNewlineFails, KillGap, Strike
<1> QED
  BY <1>2, <1>3, <1>4, <1>5, <1>6, <1>7, <1>8, <1>9, <1>10, <1>11
     DEF Next, Open, Write, Fault

LEMMA RefusalStep ==
    ASSUME ClosedInv \/ (TypeOK /\ Authenticated), [Next]_vars,
           pc = "down", pc' = "down", crashes' = crashes
    PROVE  \A i \in 1 .. Len(file) :
              file[i].text = "record" => i <= Len(file') /\ file'[i] = file[i]
<1>1. TypeOK /\ file \in Seq(Line) /\ Len(file) \in Nat
  BY LenProperties DEF ClosedInv, TypeOK
<1>2. CASE UNCHANGED file
  BY <1>1, <1>2
<1>3. CASE OtherWriter \/ OtherKilled
  <2>1. PICK w \in Line : file' = Append(file, w)
    BY <1>1, <1>3, OtherAppendsLine
  <2>2. Len(file') = Len(file) + 1 /\ \A i \in 1 .. Len(file) : file'[i] = file[i]
    BY <1>1, <2>1
  <2> QED
    BY <1>1, <2>2
<1>4. CASE OpenExisting /\ ~UNCHANGED file
  <2>1. ClosedInv
    BY <1>1, <1>4, AuthenticatedRefusal
  <2>2. NoDangling(file)
    BY <2>1 DEF ClosedInv
  <2>3. PICK n \in 0 .. Len(file) : Replays(file, n) /\ file' = Trim(file, n)
    BY <1>4 DEF OpenExisting
  <2>4. /\ Len(file') = n
        /\ \A i \in 1 .. n : file'[i] = file[i]
        /\ \A i \in 1 .. Len(file) : file[i].text = "record" => i <= n
    BY <1>1, <2>2, <2>3, TrimFacts
  <2> QED
    BY <1>1, <2>4
<1>5. CASE OpenNew \/ SyncDir \/ Write
  BY <1>5 DEF OpenNew, SyncDir, Write, BeginWrite, WriteLine, WriteNewline, SyncData
<1>6. CASE Fault
  <2>1. crashes' = crashes + 1 /\ crashes \in Nat
    BY <1>1, <1>6
       DEF Fault, SignFails, WriteLineFails, WriteNewlineFails, SyncDataFails, Stop,
           KillTorn, KillGap, KillCreated, PowerLoss, Strike, TypeOK
  <2> QED
    BY <2>1
<1> QED
  BY <1>2, <1>3, <1>4, <1>5, <1>6 DEF Next, Open, OpenUnreadable, vars

(* An open that is refused leaves every record of the log where it was,    *)
(* whatever crashed before and whoever wrote to it: when it authenticates  *)
(* the log, under every fault; when it does not, as long as nobody dies    *)
(* between a line and its newline, for then it trims before it refuses.    *)
THEOREM RefusalIsHarmless ==
    ASSUME Authenticated \/ "gap" \notin Faults
    PROVE  Spec => RefusalKeepsEvidence
<1> DEFINE Inv == TypeOK /\ (Authenticated \/ ClosedInv)
<1>1. Init => Inv
  <2> SUFFICES ASSUME Init PROVE Inv
    OBVIOUS
  <2>1. TypeOK /\ file = << >> /\ disk = << >>
    BY InitType DEF Init
  <2>2. ClosedInv
    BY <2>1, EmptyNoDangling, EmptySeq DEF ClosedInv
  <2> QED
    BY <2>1, <2>2
<1>2. Inv /\ [Next]_vars =>
        [pc = "down" /\ pc' = "down" /\ crashes' = crashes =>
           \A i \in 1 .. Len(file) :
               file[i].text = "record" =>
                   i <= Len(file') /\ file'[i] = file[i]]_vars
  BY RefusalStep
<1>3. Inv /\ [Next]_vars => Inv'
  BY TypeStep, ClosedStep, ModeAssumption
<1> QED
  BY <1>1, <1>2, <1>3, PTL DEF Spec, RefusalKeepsEvidence

(* What a power loss can leave of a line is of the record of that line.    *)
LEMMA RemnantRecords ==
    ASSUME TypeOK, NEW k \in 0 .. Len(file), NEW rest \in Remnants(k)
    PROVE  /\ rest \in Seq(Line) /\ Len(rest) \in {0, 1}
           /\ Len(rest) = 1 =>
                \/ rest[1].text # "record" /\ rest[1].rec = NoRecord
                \/ /\ k + 1 \in 1 .. Len(file)
                   /\ file[k + 1].text = "record" /\ rest[1].text = "record"
                   /\ rest[1].rec = file[k + 1].rec
<1>1. file \in Seq(Line) /\ Len(file) \in Nat
  BY LenProperties DEF TypeOK
<1>2. CASE rest = << >>
  BY <1>2, EmptySeq
<1>3. CASE \E b \in Fragments : rest = <<b>>
  <2>1. PICK b \in Fragments : rest = <<b>>
    BY <1>3
  <2>2. b \in Line /\ b.text # "record"
    BY FragmentFacts
  <2>3. b.rec = NoRecord
    BY DEF Fragments, Broken
  <2>4. rest \in Seq(Line) /\ Len(rest) = 1 /\ rest[1] = b
    BY <2>1, <2>2
  <2> QED
    BY <2>2, <2>3, <2>4
<1>4. CASE /\ k # Len(file) /\ file[k + 1].text = "record"
           /\ rest = <<Whole(file[k + 1].rec, FALSE)>>
  <2>1. k + 1 \in 1 .. Len(file)
    BY <1>1, <1>4
  <2>2. PICK r : r = file[k + 1].rec
    OBVIOUS
  <2>3. r \in Record
    BY <1>1, <2>1, <2>2, LineParts
  <2>4. PICK w : w = Whole(r, FALSE)
    OBVIOUS
  <2>5. w \in Line /\ w.text = "record" /\ w.rec = r
    BY <2>3, <2>4, WholeFacts
  <2>6. rest = <<w>>
    BY <1>4, <2>2, <2>4
  <2>7. rest \in Seq(Line) /\ Len(rest) = 1 /\ rest[1] = w
    BY <2>5, <2>6
  <2> QED
    BY <1>4, <2>1, <2>2, <2>5, <2>7
<1> QED
  BY <1>2, <1>3, <1>4 DEF Remnants

(* The lines of g are lines of f, each in its place, or torn ones.         *)
Within(g, f) ==
    \A j \in 1 .. Len(g) :
        \/ j \in 1 .. Len(f) /\ g[j].rec = f[j].rec /\ g[j].text = f[j].text
        \/ g[j].rec = NoRecord /\ g[j].text # "record"

(* What a power loss leaves of the file: nothing, what was synced, or a    *)
(* prefix of what was read with at most one remnant after it.              *)
LEMMA PowerLossLines ==
    ASSUME TypeOK, PowerLoss
    PROVE  \/ file' = << >>
           \/ file' = disk
           \/ Within(file', file)
<1> SUFFICES ASSUME NEW k \in 0 .. Len(file), NEW rest \in Remnants(k),
                    file' = SubSeq(file, 1, k) \o rest
             PROVE  \A j \in 1 .. Len(file') :
                       \/ /\ j \in 1 .. Len(file)
                          /\ file'[j].rec = file[j].rec
                          /\ file'[j].text = file[j].text
                       \/ file'[j].rec = NoRecord /\ file'[j].text # "record"
  BY DEF PowerLoss, Within
<1>1. file \in Seq(Line) /\ Len(file) \in Nat
  BY LenProperties DEF TypeOK
<1>2. PICK g : g = SubSeq(file, 1, k)
  OBVIOUS
<1>3. g \in Seq(Line) /\ Len(g) = k /\ \A i \in 1 .. k : g[i] = file[i]
  BY <1>1, <1>2, CutFacts
<1>4. /\ rest \in Seq(Line) /\ Len(rest) \in {0, 1}
      /\ Len(rest) = 1 =>
           \/ rest[1].text # "record" /\ rest[1].rec = NoRecord
           \/ /\ k + 1 \in 1 .. Len(file)
              /\ file[k + 1].text = "record" /\ rest[1].text = "record"
              /\ rest[1].rec = file[k + 1].rec
  BY RemnantRecords
<1>5. /\ Len(file') = k + Len(rest)
      /\ \A i \in 1 .. k + Len(rest) :
            file'[i] = IF i <= k THEN g[i] ELSE rest[i - k]
  <2>1. Len(g \o rest) = Len(g) + Len(rest)
    BY <1>3, <1>4, ConcatProperties
  <2>2. \A i \in 1 .. Len(g) + Len(rest) :
            (g \o rest)[i] = IF i <= Len(g) THEN g[i] ELSE rest[i - Len(g)]
    BY <1>3, <1>4, ConcatProperties
  <2> QED
    BY <1>2, <1>3, <2>1, <2>2
<1> TAKE j \in 1 .. Len(file')
<1>6. CASE j <= k
  <2>1. j \in 1 .. k /\ j \in 1 .. Len(file) /\ file'[j] = file[j]
    BY <1>1, <1>3, <1>4, <1>5, <1>6
  <2> QED
    BY <2>1
<1>7. CASE ~(j <= k)
  <2>0. j \in 1 .. k + Len(rest) /\ k \in Nat
    BY <1>1, <1>5
  <2>1. Len(rest) = 1 /\ j = k + 1
    <3>1. CASE Len(rest) = 0
      BY <1>7, <2>0, <3>1
    <3>2. CASE Len(rest) = 1
      BY <1>7, <2>0, <3>2
    <3> QED
      BY <1>4, <3>1, <3>2
  <2>2. file'[j] = rest[1]
    BY <1>1, <1>5, <1>7, <2>1
  <2> QED
    BY <1>4, <2>1, <2>2
<1> QED
  BY <1>6, <1>7

LEMMA OwnStep == cur.kind = "own" /\ [Next]_vars => cur'.kind = "own"
<1> SUFFICES ASSUME cur.kind = "own", [Next]_vars PROVE cur'.kind = "own"
  OBVIOUS
<1>1. CASE BeginWrite
  <2>1. cur' = [seq |-> chain.next_seq, prev |-> chain.head, uid |-> issued + 1, kind |-> "own"]
    BY <1>1 DEF BeginWrite
  <2> QED
    BY <2>1
<1>2. CASE cur' = cur
  BY <1>2
<1>3. BeginWrite \/ cur' = cur
  BY DEF Next, Open, Write, Fault, OpenNew, SyncDir, OpenExisting, OpenUnreadable,
         WriteLine, WriteNewline, SyncData, SignFails, WriteLineFails, WriteNewlineFails,
         SyncDataFails, Stop, KillTorn, KillGap, KillCreated, PowerLoss,
         OtherWriter, OtherKilled, OtherAppends, vars
<1> QED
  BY <1>1, <1>2, <1>3

-----------------------------------------------------------------------------
(***************************************************************************)
(* Laundering.  Under any faults.                                          *)
(***************************************************************************)
RecordsOf(f) == {f[i].rec : i \in {j \in 1 .. Len(f) : f[j].text = "record"}}

(* Every record that can still be read, come back, or be written.          *)
Known == RecordsOf(file) \cup RecordsOf(disk) \cup (IF pc = "line" THEN {cur} ELSE {})

(* A record that the gateway may chain on.                                 *)
Sound(s) == s.kind # "newer" /\ (Authenticated => s.kind # "foreign")

(* A uid names one record, also among those a crash took out of the file   *)
(* and another may bring back, and neither a record of the gateway nor its *)
(* chain in memory points at one it may not chain on.                      *)
LaunderInv ==
    /\ \A r \in Known : r.uid \in 1 .. issued /\ (r.kind = "own" => r.prev \in 0 .. issued)
    /\ \A r \in Known : \A s \in Known : r.uid = s.uid => r = s
    /\ \A r \in Known : \A s \in Known : r.kind = "own" /\ r.prev = s.uid => Sound(s)
    /\ chain.head \in 0 .. issued
    /\ \A s \in Known : s.uid = chain.head => Sound(s)

LEMMA KnownShrinks ==
    ASSUME LaunderInv, Known' \subseteq Known, issued' = issued, chain' = chain
    PROVE  LaunderInv'
BY DEF LaunderInv, Sound

LEMMA EmptyRecords == RecordsOf(<< >>) = {}
BY EmptySeq DEF RecordsOf

LEMMA PutRecords ==
    ASSUME NEW f \in Seq(Line), NEW line \in Line
    PROVE  RecordsOf(Put(f, line)) \subseteq
             RecordsOf(f) \cup (IF line.text = "record" THEN {line.rec} ELSE {})
<1>1. Len(f) \in Nat
  BY LenProperties
<1>2. CASE OpenTail(f)
  <2>1. PICK b : /\ Put(f, line) = [f EXCEPT ![Len(f)] = b]
                 /\ b.text # "record"
    <3>1. PICK t \in {"not_utf8", "garbled"} :
            Put(f, line) = [f EXCEPT ![Len(f)] = Broken(t, FALSE)]
      BY <1>2 DEF Put
    <3>2. Broken(t, FALSE).text # "record"
      BY DEF Broken
    <3> QED
      BY <3>1, <3>2
  <2>2. PICK g : g = [f EXCEPT ![Len(f)] = b]
    OBVIOUS
  <2>3. Len(g) = Len(f) /\ \A j \in 1 .. Len(f) : g[j] = IF j = Len(f) THEN b ELSE f[j]
    BY <1>1, <2>2
  <2>4. RecordsOf(g) \subseteq RecordsOf(f)
    BY <2>1, <2>3 DEF RecordsOf
  <2> QED
    BY <2>1, <2>2, <2>4
<1>3. CASE ~OpenTail(f)
  <2>1. PICK g : g = Put(f, line)
    OBVIOUS
  <2>2. /\ Len(g) = Len(f) + 1
        /\ \A i \in 1 .. Len(f) : g[i] = f[i]
        /\ g[Len(f) + 1] = line
    BY <1>3, <2>1, PutFresh
  <2>3. \A i \in 1 .. Len(f) + 1 : i \in 1 .. Len(f) \/ i = Len(f) + 1
    BY <1>1
  <2>4. RecordsOf(g) \subseteq
           RecordsOf(f) \cup (IF line.text = "record" THEN {line.rec} ELSE {})
    BY <2>2, <2>3 DEF RecordsOf
  <2> QED
    BY <2>1, <2>4
<1> QED
  BY <1>2, <1>3

LEMMA PutNewlineRecords ==
    ASSUME NEW f \in Seq(Line), f # << >>
    PROVE  RecordsOf(PutNewline(f)) \subseteq RecordsOf(f)
<1>1. PICK g : g = PutNewline(f)
  OBVIOUS
<1>2. /\ Len(g) = Len(f)
      /\ \A i \in 1 .. Len(f) : i # Len(f) => g[i] = f[i]
      /\ g[Len(f)].rec = f[Len(f)].rec
      /\ g[Len(f)].text = f[Len(f)].text
  BY <1>1, PutNewlineFacts
<1>3. RecordsOf(g) \subseteq RecordsOf(f)
  BY <1>2 DEF RecordsOf
<1> QED
  BY <1>1, <1>3

LEMMA TrimRecords ==
    ASSUME NEW f \in Seq(Line), NEW n \in 0 .. Len(f)
    PROVE  RecordsOf(Trim(f, n)) \subseteq RecordsOf(f)
<1>1. Len(f) \in Nat
  BY LenProperties
<1>2. CASE n = Len(f) /\ OpenTail(f)
  <2>1. PICK b : b = Broken("garbled", FALSE)
    OBVIOUS
  <2>2. b.text # "record"
    BY <2>1 DEF Broken
  <2>3. PICK g : g = [f EXCEPT ![n] = b]
    OBVIOUS
  <2>4. Len(g) = Len(f) /\ \A j \in 1 .. Len(f) : g[j] = IF j = n THEN b ELSE f[j]
    BY <1>1, <2>3
  <2>5. Trim(f, n) = g
    BY <1>2, <2>1, <2>3 DEF Trim
  <2> QED
    BY <2>2, <2>4, <2>5 DEF RecordsOf
<1>3. CASE ~(n = Len(f) /\ OpenTail(f))
  <2>1. PICK g : g = SubSeq(f, 1, n)
    OBVIOUS
  <2>2. Len(g) = n /\ \A i \in 1 .. n : g[i] = f[i]
    BY <2>1, CutFacts
  <2>3. Trim(f, n) = g
    BY <1>3, <2>1 DEF Trim
  <2>4. \A i \in 1 .. n : i \in 1 .. Len(f)
    BY <1>1
  <2> QED
    BY <2>2, <2>3, <2>4 DEF RecordsOf
<1> QED
  BY <1>2, <1>3

LEMMA PowerLossRecords ==
    ASSUME TypeOK, PowerLoss
    PROVE  RecordsOf(file') \subseteq RecordsOf(file) \cup RecordsOf(disk)
<1>1. CASE file' = << >>
  BY <1>1, EmptyRecords
<1>2. CASE file' = disk
  BY <1>2
<1>3. CASE Within(file', file)
  BY <1>3 DEF RecordsOf, Within
<1> QED
  BY <1>1, <1>2, <1>3, PowerLossLines

(* The record a gateway chains and signs is the newest of all, and hangs   *)
(* from the head of its chain.                                             *)
LEMMA BeginWriteLaunder ==
    ASSUME TypeOK, LaunderInv, BeginWrite PROVE LaunderInv'
<1>1. PICK r : r = [seq |-> chain.next_seq, prev |-> chain.head, uid |-> issued + 1,
                    kind |-> "own"]
  OBVIOUS
<1>2. /\ r.prev = chain.head /\ r.uid = issued + 1 /\ r.kind = "own" /\ Hash(r) = issued + 1
  BY <1>1 DEF Hash
<1>3. /\ cur' = r /\ issued' = issued + 1 /\ file' = file /\ disk' = disk
      /\ chain' = [next_seq |-> chain.next_seq + 1, head |-> Hash(cur')]
      /\ pc = "idle"
  BY <1>1 DEF BeginWrite
<1>4. chain'.head = issued + 1
  BY <1>2, <1>3
<1>5. issued \in Nat /\ chain.head \in 0 .. issued
  BY DEF TypeOK, LaunderInv
<1>6. Known' \subseteq Known \cup {r}
  BY <1>3 DEF Known
<1>7. \A s \in Known : s.uid \in 1 .. issued /\ (s.kind = "own" => s.prev \in 0 .. issued)
  BY DEF LaunderInv
<1>8. \A s \in Known : s.uid # issued + 1 /\ (s.kind = "own" => s.prev # issued + 1)
  BY <1>5, <1>7
<1>9. Sound(r)
  BY <1>2 DEF Sound
<1>10. \A s \in Known' : s.uid \in 1 .. issued' /\ (s.kind = "own" => s.prev \in 0 .. issued')
  <2>1. TAKE s \in Known'
  <2>2. CASE s = r
    BY <1>2, <1>3, <1>5, <2>2
  <2>3. CASE s \in Known
    <3>1. s.uid \in 1 .. issued + 1
      BY <1>5, <1>7, <2>3
    <3>2. s.kind = "own" => s.prev \in 0 .. issued + 1
      BY <1>5, <1>7, <2>3
    <3> QED
      BY <1>3, <3>1, <3>2
  <2> QED
    BY <1>6, <2>2, <2>3
<1>11. \A s \in Known' : \A t \in Known' : s.uid = t.uid => s = t
  BY <1>2, <1>6, <1>8 DEF LaunderInv
<1>12. \A s \in Known' : \A t \in Known' : s.kind = "own" /\ s.prev = t.uid => Sound(t)
  <2> SUFFICES ASSUME NEW s \in Known', NEW t \in Known', s.kind = "own", s.prev = t.uid
               PROVE  Sound(t)
    OBVIOUS
  <2>1. CASE t = r
    BY <1>9, <2>1
  <2>2. CASE t \in Known /\ s = r
    BY <1>2, <2>2 DEF LaunderInv
  <2>3. CASE t \in Known /\ s \in Known
    BY <2>3 DEF LaunderInv
  <2> QED
    BY <1>6, <2>1, <2>2, <2>3
<1>13. \A s \in Known' : s.uid = chain'.head => Sound(s)
  BY <1>2, <1>4, <1>6, <1>8, <1>9
<1>14. chain'.head \in 0 .. issued'
  BY <1>3, <1>4, <1>5
<1> QED
  BY <1>10, <1>11, <1>12, <1>13, <1>14 DEF LaunderInv, Sound

LEMMA OtherLaunder ==
    ASSUME TypeOK, LaunderInv, OtherWriter \/ OtherKilled PROVE LaunderInv'
<1>1. PICK r : /\ r.uid = issued + 1 /\ r.kind \in {"foreign", "newer"}
               /\ \E w \in Line : /\ file' = Append(file, w)
                                  /\ w.text = "record" => w.rec = r
  <2>1. PICK kind \in {"foreign", "newer"}, w \in Line :
          OtherLeaves(kind, w) /\ file' = Append(file, w)
    BY OtherAppendsLine
  <2>2. PICK r : r = OtherRecord(kind)
    OBVIOUS
  <2>3. r \in Record
    BY <2>2, OtherRecordType DEF Kinds
  <2>4. r.uid = issued + 1 /\ r.kind = kind
    BY <2>2 DEF OtherRecord
  <2>5. w.text = "record" => w.rec = r
    BY <2>1, <2>2, <2>3, WholeFacts, FragmentFacts DEF OtherLeaves
  <2> QED
    BY <2>1, <2>4, <2>5
<1>1a. PICK w \in Line : file' = Append(file, w) /\ (w.text = "record" => w.rec = r)
  BY <1>1
<1>2. /\ issued' = issued + 1 /\ (disk' = file' \/ disk' = disk)
      /\ pc' = "down" /\ chain' = chain
      /\ issued \in Nat /\ chain.head \in 0 .. issued
      /\ file \in Seq(Line) /\ Len(file) \in Nat
  BY OtherAppendsLine, LenProperties DEF OtherAppends, TypeOK, LaunderInv
<1>3. Known' \subseteq Known \cup {r}
  <2>4. /\ Len(file') = Len(file) + 1
        /\ \A i \in 1 .. Len(file) : file'[i] = file[i]
        /\ file'[Len(file) + 1] = w
    BY <1>1a, <1>2
  <2>5. \A i \in 1 .. Len(file) + 1 : i \in 1 .. Len(file) \/ i = Len(file) + 1
    BY <1>2
  <2>6. RecordsOf(file') \subseteq RecordsOf(file) \cup {r}
    BY <1>1a, <2>4, <2>5 DEF RecordsOf
  <2>7. Known' \subseteq RecordsOf(file') \cup RecordsOf(disk)
    BY <1>2 DEF Known
  <2> QED
    BY <2>6, <2>7 DEF Known
<1>4. \A s \in Known : s.uid \in 1 .. issued /\ (s.kind = "own" => s.prev \in 0 .. issued)
  BY DEF LaunderInv
<1>5. \A s \in Known : s.uid # issued + 1 /\ (s.kind = "own" => s.prev # issued + 1)
  BY <1>2, <1>4
<1>6. \A s \in Known' : s.uid \in 1 .. issued' /\ (s.kind = "own" => s.prev \in 0 .. issued')
  <2>1. TAKE s \in Known'
  <2>2. CASE s = r
    BY <1>1, <1>2, <2>2
  <2>3. CASE s \in Known
    BY <1>2, <1>4, <2>3
  <2> QED
    BY <1>3, <2>2, <2>3
<1>7. \A s \in Known' : \A t \in Known' : s.uid = t.uid => s = t
  BY <1>1, <1>3, <1>5 DEF LaunderInv
<1>8. \A s \in Known' : \A t \in Known' : s.kind = "own" /\ s.prev = t.uid => Sound(t)
  <2> SUFFICES ASSUME NEW s \in Known', NEW t \in Known', s.kind = "own", s.prev = t.uid
               PROVE  Sound(t)
    OBVIOUS
  <2>1. s \in Known
    BY <1>1, <1>3
  <2>2. t \in Known
    BY <1>1, <1>3, <1>5, <2>1
  <2> QED
    BY <2>1, <2>2 DEF LaunderInv
<1>9. \A s \in Known' : s.uid = chain'.head => Sound(s)
  <2> SUFFICES ASSUME NEW s \in Known', s.uid = chain.head PROVE Sound(s)
    BY <1>2
  <2>1. s # r
    BY <1>1, <1>2
  <2> QED
    BY <1>3, <2>1 DEF LaunderInv
<1> QED
  BY <1>2, <1>6, <1>7, <1>8, <1>9 DEF LaunderInv, Sound

(* A gateway opens a log on a head it understands and, when it             *)
(* authenticates, trusts.                                                  *)
LEMMA OpenExistingLaunder ==
    ASSUME TypeOK, LaunderInv, OpenExisting PROVE LaunderInv'
<1>1. /\ file \in Seq(Line) /\ Len(file) \in Nat /\ issued \in Nat
      /\ issued' = issued /\ disk' = disk /\ pc = "down" /\ pc' \in {"down", "idle"}
  BY LenProperties DEF TypeOK, OpenExisting
<1>2. PICK n \in 0 .. Len(file) :
        /\ Replays(file, n)
        /\ \/ file' = file /\ chain' = chain
           \/ /\ Authenticated => \A i \in 1 .. n : Trusted(file[i].rec)
              /\ file' = Trim(file, n)
              /\ \/ chain' = chain
                 \/ /\ \A i \in 1 .. n : Understood(file[i].rec)
                    /\ chain' = ResumeAt(file, n)
  BY DEF OpenExisting
<1>3. Known' \subseteq Known
  <2>1. RecordsOf(Trim(file, n)) \subseteq RecordsOf(file)
    BY <1>1, TrimRecords
  <2>2. RecordsOf(file') \subseteq RecordsOf(file)
    BY <1>2, <2>1
  <2> QED
    BY <1>1, <2>2 DEF Known
<1>4. CASE chain' = chain
  BY <1>1, <1>3, <1>4, KnownShrinks
<1>5. CASE n = 0 /\ chain' = ResumeAt(file, n)
  <2>1. chain'.head = 0 /\ 0 \in 0 .. issued
    BY <1>1, <1>5 DEF ResumeAt, NewChain, GENESIS
  <2>2. \A s \in Known : s.uid # 0
    BY <1>1 DEF LaunderInv
  <2> QED
    BY <1>1, <1>3, <2>1, <2>2 DEF LaunderInv, Sound
<1>6. CASE /\ n # 0 /\ chain' = ResumeAt(file, n)
           /\ \A i \in 1 .. n : Understood(file[i].rec)
           /\ Authenticated => \A i \in 1 .. n : Trusted(file[i].rec)
  <2>1. n \in 1 .. n /\ n \in 1 .. Len(file)
    BY <1>1, <1>6
  <2>2. PICK r : r = file[n].rec
    OBVIOUS
  <2>3. Understood(r) /\ (Authenticated => Trusted(r))
    BY <1>6, <2>1, <2>2
  <2>4. file[n].text = "record"
    BY <1>2, <2>1 DEF Replays, GoodPrefix, GoodLine
  <2>5. r \in Known
    BY <2>1, <2>2, <2>4 DEF Known, RecordsOf
  <2>6. chain'.head = r.uid
    BY <1>6, <2>2, <2>3 DEF ResumeAt, Hash, Understood
  <2>7. Sound(r)
    BY <2>3 DEF Sound, Understood, Trusted
  <2>8. \A s \in Known : s.uid = r.uid => Sound(s)
    BY <2>5, <2>7 DEF LaunderInv
  <2>9. r.uid \in 0 .. issued
    BY <1>1, <2>5 DEF LaunderInv
  <2> QED
    BY <1>1, <1>3, <2>6, <2>8, <2>9 DEF LaunderInv, Sound
<1> QED
  BY <1>2, <1>4, <1>5, <1>6

(* Only a new record adds to what is known, and only an open moves the     *)
(* chain besides.                                                          *)
LEMMA KnownStep ==
    ASSUME TypeOK, [Next]_vars, ~BeginWrite, ~OtherWriter, ~OtherKilled, ~OpenExisting,
           ~SyncDir
    PROVE  Known' \subseteq Known /\ issued' = issued /\ chain' = chain
<1>0. /\ file \in Seq(Line) /\ disk \in Seq(Line) /\ cur \in Record
      /\ pc = "newline" => file # << >>
  BY DEF TypeOK
<1>1. CASE OpenNew
  BY <1>1, EmptyRecords DEF OpenNew, Known
<1>2. CASE WriteLine
  <2>1. PICK w : w = Whole(cur, FALSE)
    OBVIOUS
  <2>2. w \in Line /\ w.rec = cur
    BY <1>0, <2>1, WholeFacts
  <2>3. RecordsOf(Put(file, w)) \subseteq RecordsOf(file) \cup {cur}
    BY <1>0, <2>2, PutRecords
  <2>4. Known' \subseteq Known
    BY <1>2, <2>1, <2>3 DEF WriteLine, Known
  <2> QED
    BY <1>2, <2>4 DEF WriteLine
<1>3. CASE WriteNewline
  <2>1. RecordsOf(PutNewline(file)) \subseteq RecordsOf(file)
    BY <1>0, <1>3, PutNewlineRecords DEF WriteNewline
  <2>2. Known' \subseteq Known
    BY <1>3, <2>1 DEF WriteNewline, Known
  <2> QED
    BY <1>3, <2>2 DEF WriteNewline
<1>4. CASE SyncData
  <2>1. Known' \subseteq Known
    BY <1>4 DEF SyncData, Known
  <2> QED
    BY <1>4, <2>1 DEF SyncData
<1>5. CASE WriteLineFails \/ KillTorn
  <2>1. /\ disk' = disk /\ issued' = issued /\ chain' = chain /\ pc = "line"
        /\ pc' \in {"down", "idle"}
        /\ file' = file \/ \E b \in Fragments : file' = Put(file, b)
    BY <1>5 DEF WriteLineFails, KillTorn, AfterError
  <2>2. \A b \in Fragments : RecordsOf(Put(file, b)) \subseteq RecordsOf(file)
    BY <1>0, PutRecords, FragmentFacts
  <2>3. Known' \subseteq Known
    BY <2>1, <2>2 DEF Known
  <2> QED
    BY <2>1, <2>3
<1>6. CASE PowerLoss
  <2>1. RecordsOf(file') \subseteq RecordsOf(file) \cup RecordsOf(disk)
    BY <1>6, PowerLossRecords
  <2>2. disk' = file' /\ pc' = "down" /\ issued' = issued /\ chain' = chain
    BY <1>6 DEF PowerLoss
  <2>3. Known' \subseteq Known
    BY <2>1, <2>2 DEF Known
  <2> QED
    BY <2>2, <2>3
<1>7. CASE \/ OpenUnreadable \/ SignFails \/ WriteNewlineFails \/ SyncDataFails
            \/ Stop \/ KillGap \/ KillCreated \/ UNCHANGED vars
  <2>1. /\ file' = file /\ disk' = disk /\ cur' = cur /\ issued' = issued /\ chain' = chain
        /\ pc' = pc \/ pc' # "line"
    BY <1>7
       DEF OpenUnreadable, SignFails, WriteNewlineFails, SyncDataFails, Stop, KillGap,
           KillCreated, AfterError, vars
  <2>2. Known' \subseteq Known
    BY <2>1 DEF Known
  <2> QED
    BY <2>1, <2>2
<1> QED
  BY <1>1, <1>2, <1>3, <1>4, <1>5, <1>6, <1>7
     DEF Next, Open, Write, Fault

LEMMA LaunderStep == TypeOK /\ LaunderInv /\ [Next]_vars => LaunderInv'
<1> SUFFICES ASSUME TypeOK, LaunderInv, [Next]_vars PROVE LaunderInv'
  OBVIOUS
<1>1. CASE BeginWrite
  BY <1>1, BeginWriteLaunder
<1>2. CASE OtherWriter \/ OtherKilled
  BY <1>2, OtherLaunder
<1>3. CASE OpenExisting
  BY <1>3, OpenExistingLaunder
<1>4. CASE SyncDir
  <2>1. NewChain.head = 0
    BY DEF NewChain, GENESIS
  <2>2. \A s \in Known : s.uid # 0
    BY DEF LaunderInv, TypeOK
  <2>3. Known' \subseteq Known /\ issued' = issued /\ chain'.head = 0 /\ issued \in Nat
    BY <1>4, <2>1 DEF SyncDir, Known, TypeOK
  <2> QED
    BY <2>2, <2>3 DEF LaunderInv, Sound
<1>5. CASE ~BeginWrite /\ ~OtherWriter /\ ~OtherKilled /\ ~OpenExisting /\ ~SyncDir
  BY <1>5, KnownStep, KnownShrinks
<1> QED
  BY <1>1, <1>2, <1>3, <1>4, <1>5

(* Through every fault, the ones Durability excludes among them, a record  *)
(* of the gateway never hangs from one written by a newer build, nor, when *)
(* it authenticates its log, from one no trusted key signed: Wal::open     *)
(* reads all of the log before it positions the chain on it.               *)
THEOREM NothingLaundered == Spec => []NoLaundering
<1>1. Init => TypeOK /\ LaunderInv
  <2> SUFFICES ASSUME Init PROVE LaunderInv
    BY InitType
  <2>1. Known = {} /\ issued = 0 /\ chain.head = 0
    BY EmptyRecords DEF Init, Known, NewChain, GENESIS
  <2> QED
    BY <2>1 DEF LaunderInv
<1>2. TypeOK /\ LaunderInv /\ [Next]_vars => TypeOK' /\ LaunderInv'
  BY TypeStep, LaunderStep
<1>3. TypeOK /\ LaunderInv => NoLaundering
  <2> SUFFICES ASSUME TypeOK, LaunderInv, NEW i \in 1 .. Len(file), NEW j \in 1 .. Len(file),
                      file[i].text = "record", file[i].rec.kind = "own",
                      file[j].text = "record",
                      file[i].rec.prev \in {file[j].rec.uid, Hash(file[j].rec)}
               PROVE  Sound(file[j].rec)
    BY DEF NoLaundering, Sound
  <2>1. PICK r, s : r = file[i].rec /\ s = file[j].rec
    OBVIOUS
  <2>2. r \in Known /\ s \in Known
    BY <2>1 DEF Known, RecordsOf
  <2>3. r.prev \in 0 .. issued /\ s.uid \in 1 .. issued /\ r.kind = "own"
    BY <2>1, <2>2 DEF LaunderInv
  <2>4. r.prev # -s.uid
    BY <2>3, issued \in Nat DEF TypeOK
  <2>5. r.prev = s.uid
    BY <2>1, <2>4 DEF Hash
  <2> QED
    BY <2>1, <2>2, <2>3, <2>5 DEF LaunderInv
<1> QED
  BY <1>1, <1>2, <1>3, PTL DEF Spec

-----------------------------------------------------------------------------
(***************************************************************************)
(* Replays of an honest log.                                               *)
(***************************************************************************)

(* Up to the first record of a newer build every line parses and chains on *)
(* the line before, but for a last line that was torn.                     *)
Honest(f) ==
    \A n \in 1 .. Len(f) :
        (\A i \in 1 .. n : Understood(f[i].rec)) =>
            GoodLine(f, n) \/ (n = Len(f) /\ f[n].text = "garbled")

HonestInv == DurableInv /\ Honest(file) /\ Honest(disk)

LEMMA EmptyHonest == Honest(<< >>)
BY EmptySeq DEF Honest

LEMMA GoodHonest ==
    ASSUME NEW f \in Seq(Line), GoodPrefix(f, Len(f)) PROVE Honest(f)
BY DEF Honest, GoodPrefix

LEMMA HonestReplays ==
    ASSUME NEW f \in Seq(Line), Honest(f), \A i \in 1 .. Len(f) : Understood(f[i].rec)
    PROVE  ReplayOk(f)
<1>1. Len(f) \in Nat
  BY LenProperties
<1>2. \A n \in 1 .. Len(f) : GoodLine(f, n) \/ (n = Len(f) /\ f[n].text = "garbled")
  <2> TAKE n \in 1 .. Len(f)
  <2>1. \A i \in 1 .. n : Understood(f[i].rec)
    BY <1>1
  <2> QED
    BY <2>1 DEF Honest
<1>3. CASE Len(f) > 0 /\ f[Len(f)].text = "garbled"
  <2>1. PICK n : n = Len(f) - 1
    OBVIOUS
  <2>2. n \in 0 .. Len(f) /\ \A i \in 1 .. n : i \in 1 .. Len(f) /\ i # Len(f)
    BY <1>1, <1>3, <2>1
  <2>3. GoodPrefix(f, n)
    BY <1>2, <2>2 DEF GoodPrefix
  <2> QED
    BY <1>3, <2>1, <2>2, <2>3 DEF ReplayOk, Replays
<1>4. CASE ~(Len(f) > 0 /\ f[Len(f)].text = "garbled")
  <2>1. GoodPrefix(f, Len(f))
    BY <1>1, <1>2, <1>4 DEF GoodPrefix
  <2>2. Len(f) \in 0 .. Len(f)
    BY <1>1
  <2> QED
    BY <2>1, <2>2 DEF ReplayOk, Replays
<1> QED
  BY <1>3, <1>4

LEMMA RunningHonest == DurableInv /\ pc # "down" => Honest(file)
<1> SUFFICES ASSUME DurableInv, pc # "down" PROVE Honest(file)
  OBVIOUS
<1>1. CASE pc = "created"
  BY <1>1, EmptyHonest DEF DurableInv, WriterState
<1>2. CASE pc # "created"
  <2>1. GoodPrefix(file, Len(file))
    BY <1>2 DEF DurableInv, WriterState, TypeOK, PCs
  <2> QED
    BY <2>1, GoodHonest DEF DurableInv, TypeOK
<1> QED
  BY <1>1, <1>2

(* A prefix of an honest log, with or without a torn line after it.        *)
LEMMA PrefixHonest ==
    ASSUME NEW f \in Seq(Line), Honest(f), NEW g \in Seq(Line),
           NEW k \in 0 .. Len(f), \A i \in 1 .. k : g[i] = f[i],
           \/ Len(g) = k
           \/ k < Len(f) /\ Len(g) = k + 1 /\ g[k + 1].text = "garbled"
    PROVE  Honest(g)
<1>1. Len(f) \in Nat /\ Len(g) \in Nat /\ k \in Nat
  BY LenProperties
<1> SUFFICES ASSUME NEW n \in 1 .. Len(g), \A i \in 1 .. n : Understood(g[i].rec)
             PROVE  GoodLine(g, n) \/ (n = Len(g) /\ g[n].text = "garbled")
  BY DEF Honest
<1>2. CASE n = k + 1
  BY <1>1, <1>2
<1>3. CASE n # k + 1
  <2>1. n \in 1 .. k /\ n \in 1 .. Len(f) /\ \A i \in 1 .. n : i \in 1 .. k
    BY <1>1, <1>3
  <2>2. \A i \in 1 .. n : Understood(f[i].rec)
    BY <2>1
  <2>3. GoodLine(f, n) \/ (n = Len(f) /\ f[n].text = "garbled")
    BY <2>1, <2>2 DEF Honest
  <2>4. CASE GoodLine(f, n)
    <3>1. g[n] = f[n] /\ (n # 1 => g[n - 1] = f[n - 1])
      BY <1>1, <2>1
    <3> QED
      BY <2>4, <3>1 DEF GoodLine
  <2>5. CASE n = Len(f) /\ f[n].text = "garbled"
    BY <1>1, <2>1, <2>5
  <2> QED
    BY <2>3, <2>4, <2>5
<1> QED
  BY <1>2, <1>3

LEMMA PlainFragments ==
    ASSUME "utf8" \notin Faults, NEW b \in Fragments
    PROVE  b \in Line /\ b.text = "garbled" /\ b.nl = FALSE
<1>1. b = Broken("garbled", FALSE)
  BY DEF Fragments
<1> QED
  BY <1>1, FragmentFacts DEF Broken

(* A torn line after a log that chains.                                    *)
LEMMA TornHonest ==
    ASSUME DurableInv, pc = "line", NEW b \in Fragments, "utf8" \notin Faults
    PROVE  Honest(Put(file, b))
<1>1. /\ file \in Seq(Line) /\ ~OpenTail(file) /\ GoodPrefix(file, Len(file))
      /\ Len(file) \in Nat
  BY LenProperties DEF DurableInv, TypeOK, WriterState
<1>2. b \in Line /\ b.text = "garbled"
  BY PlainFragments
<1>3. PICK g : g = Put(file, b)
  OBVIOUS
<1>4. /\ g \in Seq(Line) /\ Len(g) = Len(file) + 1
      /\ \A i \in 1 .. Len(file) : g[i] = file[i]
      /\ g[Len(file) + 1] = b
  BY <1>1, <1>2, <1>3, PutFresh
<1>5. GoodPrefix(g, Len(file))
  <2>1. Len(file) <= Len(file) /\ Len(file) <= Len(g)
    BY <1>1, <1>4
  <2> QED
    BY <1>1, <1>4, <2>1, GoodPrefixSame
<1>6. \A n \in 1 .. Len(g) : GoodLine(g, n) \/ (n = Len(g) /\ g[n].text = "garbled")
  BY <1>1, <1>2, <1>4, <1>5 DEF GoodPrefix
<1> QED
  BY <1>3, <1>6 DEF Honest

LEMMA PowerLossHonest ==
    ASSUME Contained, "utf8" \notin Faults, HonestInv, PowerLoss
    PROVE  Honest(file')
<1>1. /\ file \in Seq(Line) /\ disk \in Seq(Line) /\ Len(file) \in Nat /\ TypeOK
      /\ Honest(file) /\ Honest(disk)
  BY LenProperties DEF HonestInv, DurableInv, TypeOK
<1>2. CASE file' = << >>
  BY <1>2, EmptyHonest
<1>3. CASE file' = disk
  BY <1>1, <1>3
<1>4. ASSUME NEW k \in 0 .. Len(file), NEW rest \in Remnants(k),
             file' = SubSeq(file, 1, k) \o rest
      PROVE  Honest(file')
  <2>1. PICK g : g = SubSeq(file, 1, k)
    OBVIOUS
  <2>2. g \in Seq(Line) /\ Len(g) = k /\ \A i \in 1 .. k : g[i] = file[i]
    BY <1>1, <2>1, CutFacts
  <2>3. rest = << >> \/ (k # Len(file) /\ \E b \in Fragments : rest = <<b>>)
    <3>1. "gap" \notin Faults
      BY DEF Contained
    <3>2. CASE k = Len(file)
      BY <3>2 DEF Remnants
    <3>3. CASE k # Len(file)
      <4>1. rest \in {<< >>} \cup {<<b>> : b \in Fragments}
        BY <3>1, <3>3 DEF Remnants
      <4> QED
        BY <3>3, <4>1
    <3> QED
      BY <3>2, <3>3
  <2>4. CASE rest = << >>
    <3>1. file' = g
      BY <1>4, <2>1, <2>2, <2>4
    <3> QED
      BY <1>1, <2>2, <3>1, PrefixHonest
  <2>5. CASE k # Len(file) /\ \E b \in Fragments : rest = <<b>>
    <3>1. PICK b \in Fragments : rest = <<b>>
      BY <2>5
    <3>2. b \in Line /\ b.text = "garbled"
      BY PlainFragments
    <3>3. PICK h : h = g \o <<b>>
      OBVIOUS
    <3>4. h = Append(g, b)
      BY <2>2, <3>2, <3>3
    <3>5. /\ h \in Seq(Line) /\ Len(h) = k + 1 /\ \A i \in 1 .. k : h[i] = g[i]
          /\ h[k + 1] = b
      BY <2>2, <3>2, <3>4
    <3>6. file' = h
      BY <1>4, <2>1, <3>1, <3>3
    <3>7. k < Len(file) /\ \A i \in 1 .. k : h[i] = file[i]
      BY <1>1, <2>2, <2>5, <3>5
    <3>8. Honest(h)
      BY <1>1, <3>2, <3>5, <3>7, PrefixHonest
    <3> QED
      BY <3>6, <3>8
  <2> QED
    BY <2>3, <2>4, <2>5
<1> QED
  BY <1>2, <1>3, <1>4 DEF PowerLoss

(* Another writer chains on what it finds.                                 *)
LEMMA OtherHonest ==
    ASSUME HonestInv, OtherWriter \/ OtherKilled, TypeOK',
           Contained, "utf8" \notin Faults
    PROVE  Honest(file')
<1>1. /\ TypeOK /\ file \in Seq(Line) /\ file' \in Seq(Line) /\ Len(file) \in Nat
      /\ file # << >> => file[Len(file)].text = "record"
      /\ Honest(file)
  <2>1. TypeOK /\ Honest(file)
    BY DEF HonestInv, DurableInv
  <2>2. OtherAppends
    BY <2>1, OtherAppendsLine
  <2> QED
    BY <2>1, <2>2, LenProperties DEF TypeOK, OtherAppends
<1>2. PICK n : n = Len(file)
  OBVIOUS
<1>3. PICK kind \in {"foreign", "newer"}, w \in Line :
        OtherLeaves(kind, w) /\ file' = Append(file, w)
  BY <1>1, OtherAppendsLine
<1>4. PICK r : r = OtherRecord(kind)
  OBVIOUS
<1>5. r \in Record
  BY <1>1, <1>4, OtherRecordType DEF Kinds
<1>6. (w.text = "record" /\ w.rec = r) \/ w.text = "garbled"
  <2>1. "gap" \notin Faults
    BY DEF Contained
  <2> QED
    BY <1>3, <1>4, <1>5, <2>1, WholeFacts, PlainFragments DEF OtherLeaves
<1>7. /\ Len(file') = n + 1
      /\ \A i \in 1 .. n : file'[i] = file[i]
      /\ file'[n + 1] = w
  BY <1>1, <1>2, <1>3
<1> SUFFICES ASSUME NEW m \in 1 .. Len(file'), \A i \in 1 .. m : Understood(file'[i].rec)
             PROVE  GoodLine(file', m) \/ (m = Len(file') /\ file'[m].text = "garbled")
  BY DEF Honest
<1>8. CASE m = n + 1
  <2>1. CASE w.text = "garbled"
    BY <1>7, <1>8, <2>1
  <2>2. CASE n = 0 /\ w.text = "record" /\ w.rec = r
    <3>1. r.prev = GENESIS
      BY <1>2, <1>4, <2>2 DEF OtherRecord
    <3> QED
      BY <1>7, <1>8, <2>2, <3>1 DEF GoodLine
  <2>3. CASE n # 0 /\ w.text = "record" /\ w.rec = r
    <3>1. n \in 1 .. n /\ n \in 1 .. m /\ m - 1 = n /\ m # 1
      BY <1>1, <1>2, <1>8, <2>3
    <3>2. PICK p : p = file[n].rec
      OBVIOUS
    <3>3. Understood(p) /\ file'[n].rec = p
      BY <1>7, <3>1, <3>2
    <3>4. Hash(p) = p.uid
      BY <3>3 DEF Understood, Hash
    <3>5. r.seq = p.seq + 1 /\ r.prev = p.uid
      BY <1>2, <1>4, <2>3, <3>2 DEF OtherRecord
    <3> QED
      BY <1>7, <1>8, <2>3, <3>1, <3>3, <3>4, <3>5 DEF GoodLine
  <2> QED
    BY <1>6, <2>1, <2>2, <2>3
<1>9. CASE m # n + 1
  <2>1. m \in 1 .. n /\ \A i \in 1 .. m : i \in 1 .. n
    BY <1>1, <1>2, <1>7, <1>9
  <2>2. \A i \in 1 .. m : Understood(file[i].rec)
    BY <1>7, <2>1
  <2>3. file # << >>
    BY <1>2, <2>1, EmptySeq
  <2>4. GoodLine(file, m)
    BY <1>1, <1>2, <2>1, <2>2, <2>3 DEF Honest
  <2>5. file'[m] = file[m] /\ (m # 1 => file'[m - 1] = file[m - 1])
    BY <1>1, <1>2, <1>7, <2>1
  <2> QED
    BY <2>4, <2>5 DEF GoodLine
<1> QED
  BY <1>8, <1>9

LEMMA HonestStep ==
    ASSUME Contained, "utf8" \notin Faults
    PROVE  HonestInv /\ [Next]_vars => HonestInv'
<1> SUFFICES ASSUME HonestInv, [Next]_vars PROVE HonestInv'
  OBVIOUS
<1>1. DurableInv /\ Honest(file) /\ Honest(disk)
  BY DEF HonestInv
<1>2. DurableInv'
  BY <1>1, DurableStep
<1>3. /\ TypeOK /\ TypeOK' /\ file \in Seq(Line) /\ Len(file) \in Nat
  BY <1>1, <1>2, LenProperties DEF DurableInv, TypeOK
<1>4. pc' # "down" => Honest(file')
  <2>1. (DurableInv /\ pc # "down" => Honest(file))'
    BY RunningHonest, PTL
  <2> QED
    BY <1>2, <2>1 DEF Honest
<1>5. Honest(file')
  <2> SUFFICES ASSUME pc' = "down" PROVE Honest(file')
    BY <1>4
  <2>1. CASE OtherWriter \/ OtherKilled
    BY <1>3, <2>1, OtherHonest
  <2>2. CASE OpenExisting
    <3>1. PICK n \in 0 .. Len(file) :
             Replays(file, n) /\ (file' = file \/ file' = Trim(file, n))
      BY <2>2 DEF OpenExisting
    <3>2. NoDangling(file)
      BY <1>1, <2>2 DEF OpenExisting, DurableInv, WriterState
    <3>3. PICK g : g = Trim(file, n)
      OBVIOUS
    <3>4. Len(g) = n /\ GoodPrefix(g, n) /\ g \in Seq(Line)
      BY <1>3, <3>1, <3>2, <3>3, TrimFacts, TrimType
    <3>5. Honest(g)
      BY <3>4, GoodHonest
    <3> QED
      BY <1>1, <3>1, <3>3, <3>5
  <2>3. CASE PowerLoss
    BY <2>3, PowerLossHonest
  <2>4. CASE KillTorn \/ WriteLineFails
    <3>1. /\ pc = "line"
          /\ file' = file \/ \E b \in Fragments : file' = Put(file, b)
      BY <2>4 DEF KillTorn, WriteLineFails
    <3> QED
      BY <1>1, <3>1, TornHonest
  <2>5. CASE file' = file
    BY <1>1, <2>5
  <2> QED
    BY <2>1, <2>2, <2>3, <2>4, <2>5
       DEF Next, Open, Write, Fault, OpenNew, OpenUnreadable, SyncDir, BeginWrite, WriteLine,
           WriteNewline, SyncData, SignFails, WriteNewlineFails,
           SyncDataFails, Stop, KillGap, KillCreated, vars
<1>6. disk' = file' \/ disk' = disk
  BY DEF Next, Open, Write, Fault, OpenNew, OpenExisting, OpenUnreadable, SyncDir, BeginWrite,
         WriteLine, WriteNewline, SyncData, SignFails, WriteLineFails, WriteNewlineFails,
         SyncDataFails, Stop, KillTorn, KillGap, KillCreated, PowerLoss, OtherWriter,
         OtherKilled, vars
<1>7. Honest(disk')
  BY <1>1, <1>5, <1>6
<1> QED
  BY <1>2, <1>5, <1>7 DEF HonestInv, Honest

(* A log that holds nothing of a newer build replays at every moment, for  *)
(* the gateway that opens it and for a reader in the middle of an append:  *)
(* no crash makes Wal::open report an honest log as corrupt.  Besides what *)
(* Contained excludes, a line torn inside a multi-byte character would be. *)
THEOREM HonestReplay ==
    ASSUME Contained, "utf8" \notin Faults PROVE Spec => []HonestLogReplays
<1>1. Init => HonestInv
  <2> SUFFICES ASSUME Init PROVE HonestInv
    OBVIOUS
  <2>1. Honest(file) /\ Honest(disk)
    BY EmptyHonest DEF Init
  <2> QED
    BY <2>1, InitDurable DEF HonestInv
<1>2. HonestInv => HonestLogReplays
  BY HonestReplays DEF HonestInv, DurableInv, TypeOK, HonestLogReplays
<1>3. HonestInv /\ [Next]_vars => HonestInv'
  BY HonestStep
<1> QED
  BY <1>1, <1>2, <1>3, PTL DEF Spec
=============================================================================
