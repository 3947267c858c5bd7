---------------------------- MODULE GatewayProofs ----------------------------
(***************************************************************************)
(* Proofs about Gateway, for every set of ids, tokens and bundles and      *)
(* every number of calls, reloads, restarts and failed writes.  The first  *)
(* part says what an identity check can answer and which records a handler *)
(* leaves behind it when a write may fail at any of them; the theorems     *)
(* rest on these facts alone.                                              *)
(***************************************************************************)
EXTENDS Gateway, SequenceTheorems, FiniteSetTheorems, TLAPS

-----------------------------------------------------------------------------
(***************************************************************************)
(* Sequences: writing the first k of some records after a log.             *)
(***************************************************************************)

LEMMA Cut ==
    ASSUME NEW S, NEW f \in Seq(S), NEW n \in 0 .. Len(f)
    PROVE  /\ SubSeq(f, 1, n) \in Seq(S)
           /\ Len(SubSeq(f, 1, n)) = n
           /\ \A i \in 1 .. n : SubSeq(f, 1, n)[i] = f[i]
<1>1. Len(f) \in Nat
  BY LenProperties
<1>2. \A i \in 1 .. n : f[i] \in S
  BY <1>1, ElementOfSeq
<1> QED
  BY <1>1, <1>2, SubSeqProperties

LEMMA Joined ==
    ASSUME NEW S, NEW f \in Seq(S), NEW g \in Seq(S), NEW j, j = f \o g
    PROVE  /\ j \in Seq(S)
           /\ Len(f) \in Nat /\ Len(g) \in Nat
           /\ Len(j) = Len(f) + Len(g)
           /\ \A i \in 1 .. Len(f) : j[i] = f[i]
           /\ \A i \in 1 .. Len(g) : j[Len(f) + i] = g[i]
<1>1. Len(f) \in Nat /\ Len(g) \in Nat
  BY LenProperties
<1>2. ASSUME NEW i \in 1 .. Len(g)
      PROVE  (f \o g)[Len(f) + i] = g[i]
  <2>1. Len(f) + i \in 1 .. Len(f) + Len(g) /\ ~(Len(f) + i <= Len(f))
        /\ (Len(f) + i) - Len(f) = i
    BY <1>1
  <2> QED
    BY <2>1, ConcatProperties
<1>3. \A i \in 1 .. Len(f) : i \in 1 .. Len(f) + Len(g) /\ i <= Len(f)
  BY <1>1
<1> QED
  BY <1>1, <1>2, <1>3, ConcatProperties

LEMMA Put ==
    ASSUME NEW S, NEW f \in Seq(S), NEW g \in Seq(S), NEW k \in 0 .. Len(g),
           NEW j, j = f \o SubSeq(g, 1, k)
    PROVE  /\ j \in Seq(S)
           /\ Len(f) \in Nat
           /\ Len(j) = Len(f) + k
           /\ \A i \in 1 .. Len(f) : j[i] = f[i]
           /\ \A i \in 1 .. k : j[Len(f) + i] = g[i]
<1>1. PICK h : h = SubSeq(g, 1, k)
  OBVIOUS
<1>2. h \in Seq(S) /\ Len(h) = k /\ \A i \in 1 .. k : h[i] = g[i]
  BY <1>1, Cut
<1>3. /\ j \in Seq(S) /\ Len(f) \in Nat
      /\ Len(j) = Len(f) + Len(h)
      /\ \A i \in 1 .. Len(f) : j[i] = f[i]
      /\ \A i \in 1 .. Len(h) : j[Len(f) + i] = h[i]
  BY <1>1, <1>2, Joined
<1> QED
  BY <1>2, <1>3

LEMMA JoinedOne ==
    ASSUME NEW S, NEW f \in Seq(S), NEW x \in S, NEW j, j = f \o <<x>>
    PROVE  /\ j \in Seq(S) /\ Len(j) = Len(f) + 1
           /\ \A i \in 1 .. Len(f) : j[i] = f[i]
           /\ j[Len(f) + 1] = x
<1>1. PICK g : g = <<x>>
  OBVIOUS
<1>2. g \in Seq(S) /\ Len(g) = 1 /\ g[1] = x /\ 1 \in 1 .. 1
  BY <1>1
<1> QED
  BY <1>1, <1>2, Joined

LEMMA JoinedTwo ==
    ASSUME NEW S, NEW f \in Seq(S), NEW x \in S, NEW y \in S,
           NEW j, j = f \o <<x, y>>
    PROVE  /\ j \in Seq(S) /\ Len(j) = Len(f) + 2
           /\ \A i \in 1 .. Len(f) : j[i] = f[i]
           /\ j[Len(f) + 1] = x /\ j[Len(f) + 2] = y
<1>1. PICK g : g = <<x, y>>
  OBVIOUS
<1>2. g \in Seq(S) /\ Len(g) = 2 /\ g[1] = x /\ g[2] = y
      /\ 1 \in 1 .. 2 /\ 2 \in 1 .. 2
  BY <1>1
<1> QED
  BY <1>1, <1>2, Joined

LEMMA JoinedNone ==
    ASSUME NEW S, NEW f \in Seq(S)
    PROVE  f \o << >> = f /\ << >> \o f = f
BY ConcatEmptySeq

(* l is f and then the first k of g.                                       *)
Puts(l, f, g, k) ==
    /\ Len(f) \in Nat
    /\ Len(l) = Len(f) + k
    /\ \A i \in 1 .. Len(f) : l[i] = f[i]
    /\ \A i \in 1 .. k : l[Len(f) + i] = g[i]

LEMMA PutFacts ==
    ASSUME NEW S, NEW f \in Seq(S), NEW g \in Seq(S), NEW k \in 0 .. Len(g)
    PROVE  /\ f \o SubSeq(g, 1, k) \in Seq(S)
           /\ Puts(f \o SubSeq(g, 1, k), f, g, k)
<1>1. PICK j : j = f \o SubSeq(g, 1, k)
  OBVIOUS
<1>2. j \in Seq(S) /\ Puts(j, f, g, k)
  BY <1>1, Put DEF Puts
<1> QED
  BY <1>1, <1>2

(* j is f and then g.                                                      *)
Follows(j, f, g) ==
    /\ Len(f) \in Nat /\ Len(g) \in Nat
    /\ Len(j) = Len(f) + Len(g)
    /\ \A i \in 1 .. Len(f) : j[i] = f[i]
    /\ \A i \in 1 .. Len(g) : j[Len(f) + i] = g[i]

LEMMA JoinFollows ==
    ASSUME NEW S, NEW f \in Seq(S), NEW g \in Seq(S)
    PROVE  f \o g \in Seq(S) /\ Follows(f \o g, f, g)
BY Joined DEF Follows

(* q begins with r, d, c and e.                                            *)
Closes(q, r, d, c, e) ==
    /\ Len(r) \in Nat /\ Len(d) \in Nat
    /\ \A i \in 1 .. Len(r) : q[i] = r[i]
    /\ \A i \in 1 .. Len(d) : q[Len(r) + i] = d[i]
    /\ q[Len(r) + Len(d) + 1] = c
    /\ q[Len(r) + Len(d) + 2] = e

LEMMA JoinedFour ==
    ASSUME NEW S, NEW r \in Seq(S), NEW d \in Seq(S), NEW c \in S, NEW e \in S
    PROVE  LET m == r \o d \o <<c, e>>
           IN  /\ m \in Seq(S)
               /\ Closes(m, r, d, c, e) /\ Len(m) = Len(r) + Len(d) + 2
<1>1. PICK h : h = r \o d
  OBVIOUS
<1>2. PICK p : p = <<c, e>>
  OBVIOUS
<1>3. PICK m : m = h \o p
  OBVIOUS
<1>4. h \in Seq(S) /\ Follows(h, r, d)
  BY <1>1, JoinFollows
<1>5. p \in Seq(S) /\ Len(p) = 2 /\ p[1] = c /\ p[2] = e
  BY <1>2
<1>6. m \in Seq(S) /\ Follows(m, h, p)
  BY <1>3, <1>4, <1>5, JoinFollows
<1>7. Len(r) \in Nat /\ Len(d) \in Nat /\ Len(h) = Len(r) + Len(d)
      /\ Len(m) = Len(h) + 2
  BY <1>4, <1>5, <1>6 DEF Follows
<1>8. ASSUME NEW i \in 1 .. Len(r) PROVE m[i] = r[i]
  <2>1. i \in 1 .. Len(h)
    BY <1>7
  <2> QED
    BY <1>4, <1>6, <2>1 DEF Follows
<1>9. ASSUME NEW i \in 1 .. Len(d) PROVE m[Len(r) + i] = d[i]
  <2>1. Len(r) + i \in 1 .. Len(h)
    BY <1>7
  <2> QED
    BY <1>4, <1>6, <2>1 DEF Follows
<1>10. m[Len(h) + 1] = c /\ m[Len(h) + 2] = e
  <2>1. 1 \in 1 .. Len(p) /\ 2 \in 1 .. Len(p)
    BY <1>5
  <2> QED
    BY <1>5, <1>6, <2>1 DEF Follows
<1>11. Closes(m, r, d, c, e)
  BY <1>7, <1>8, <1>9, <1>10 DEF Closes
<1> QED
  BY <1>1, <1>2, <1>3, <1>6, <1>7, <1>11

LEMMA JoinedFive ==
    ASSUME NEW S, NEW r \in Seq(S), NEW d \in Seq(S), NEW c \in S, NEW e \in S,
           NEW f \in S
    PROVE  LET q == r \o d \o <<c, e>> \o <<f>>
           IN  /\ q \in Seq(S)
               /\ Closes(q, r, d, c, e) /\ Len(q) = Len(r) + Len(d) + 3
               /\ q[Len(r) + Len(d) + 3] = f
<1>1. PICK m : m = r \o d \o <<c, e>>
  OBVIOUS
<1>2. PICK p : p = <<f>>
  OBVIOUS
<1>3. PICK q : q = m \o p
  OBVIOUS
<1>4. m \in Seq(S) /\ Closes(m, r, d, c, e) /\ Len(m) = Len(r) + Len(d) + 2
  BY <1>1, JoinedFour
<1>5. p \in Seq(S) /\ Len(p) = 1 /\ p[1] = f
  BY <1>2
<1>6. q \in Seq(S) /\ Follows(q, m, p)
  BY <1>3, <1>4, <1>5, JoinFollows
<1>7. Len(r) \in Nat /\ Len(d) \in Nat /\ Len(m) = Len(r) + Len(d) + 2
      /\ Len(q) = Len(m) + 1
  BY <1>4, <1>5, <1>6 DEF Follows, Closes
<1>8. ASSUME NEW i \in 1 .. Len(r) PROVE q[i] = r[i]
  <2>1. i \in 1 .. Len(m)
    BY <1>7
  <2> QED
    BY <1>4, <1>6, <2>1 DEF Follows, Closes
<1>9. ASSUME NEW i \in 1 .. Len(d) PROVE q[Len(r) + i] = d[i]
  <2>1. Len(r) + i \in 1 .. Len(m)
    BY <1>7
  <2> QED
    BY <1>4, <1>6, <2>1 DEF Follows, Closes
<1>10. /\ q[Len(r) + Len(d) + 1] = c /\ q[Len(r) + Len(d) + 2] = e
       /\ q[Len(r) + Len(d) + 3] = f
  <2>1. /\ Len(r) + Len(d) + 1 \in 1 .. Len(m)
        /\ Len(r) + Len(d) + 2 \in 1 .. Len(m)
        /\ Len(r) + Len(d) + 3 = Len(m) + 1
        /\ 1 \in 1 .. Len(p)
    BY <1>5, <1>7
  <2> QED
    BY <1>4, <1>5, <1>6, <2>1 DEF Follows, Closes
<1>11. Closes(q, r, d, c, e)
  BY <1>7, <1>8, <1>9, <1>10 DEF Closes
<1> QED
  BY <1>1, <1>2, <1>3, <1>6, <1>7, <1>10, <1>11

-----------------------------------------------------------------------------
(***************************************************************************)
(* Records.                                                                *)
(***************************************************************************)

LEMMA RecParts ==
    ASSUME NEW t, NEW n, NEW p, NEW v
    PROVE  /\ Rec(t, n, p, v).id = <<t, n>>
           /\ Rec(t, n, p, v).id[1] = t /\ Rec(t, n, p, v).id[2] = n
           /\ Rec(t, n, p, v).parent = p
           /\ Rec(t, n, p, v).val = v
BY DEF Rec

Vals == Delegations \cup Bundles \cup
        {"cert", "applied", "rejected", "call", "allow", "deny", "done",
         "blocked"}

LEMMA RecType ==
    ASSUME NEW t \in Kinds, NEW n \in Nat, NEW p \in Kinds \X Nat,
           NEW v \in Vals
    PROVE  Rec(t, n, p, v) \in Record
BY DEF Rec, Record, Vals

LEMMA NoParentType == NoParent \in Kinds \X Nat
BY DEF NoParent, Kinds

LEMMA ActRecType ==
    ASSUME NEW n \in Nat, NEW g \in Nat, NEW v \in {"allow", "deny"},
           NEW e \in {"done", "blocked"}
    PROVE  CallRec(n, g) \in Record /\ DecRec(n, v) \in Record
           /\ EffRec(n, e) \in Record
<1>1. /\ "call" \in Kinds /\ "dec" \in Kinds /\ "eff" \in Kinds
      /\ "call" \in Vals /\ v \in Vals /\ e \in Vals
      /\ <<"agent", g>> \in Kinds \X Nat
      /\ <<"call", n>> \in Kinds \X Nat
      /\ <<"dec", n>> \in Kinds \X Nat
  BY DEF Kinds, Vals
<1> QED
  BY <1>1, RecType DEF CallRec, DecRec, EffRec

LEMMA ActRecParts ==
    ASSUME NEW n, NEW g, NEW v
    PROVE  /\ CallRec(n, g).id = <<"call", n>>
           /\ CallRec(n, g).id[1] = "call" /\ CallRec(n, g).id[2] = n
           /\ CallRec(n, g).parent = <<"agent", g>>
           /\ CallRec(n, g).parent[2] = g
           /\ CallRec(n, g).val = "call"
           /\ DecRec(n, v).id = <<"dec", n>>
           /\ DecRec(n, v).id[1] = "dec" /\ DecRec(n, v).id[2] = n
           /\ DecRec(n, v).parent = <<"call", n>>
           /\ DecRec(n, v).val = v
           /\ EffRec(n, v).id = <<"eff", n>>
           /\ EffRec(n, v).id[1] = "eff" /\ EffRec(n, v).id[2] = n
           /\ EffRec(n, v).parent = <<"dec", n>>
           /\ EffRec(n, v).val = v
BY RecParts DEF CallRec, DecRec, EffRec

(* The records of a delegation: the delegation first and once, the agent   *)
(* last, each below the parent it names.                                   *)
Introduces(d, a) ==
    /\ d \in Seq(Record)
    /\ Len(d) \in {3, 4}
    /\ \A i \in 1 .. Len(d) :
          /\ d[i].id[1] \in {"deleg", "label", "actor", "agent"}
          /\ d[i].parent # NoParent => \E j \in 1 .. i - 1 : d[j].id = d[i].parent
    /\ d[1].id = <<"deleg", a.generation>>
    /\ d[1].val = a.current
    /\ \A i \in 2 .. Len(d) : d[i].id[1] # "deleg"
    /\ d[Len(d)].id = <<"agent", a.generation>>
    /\ \A i \in 1 .. Len(d) - 1 : d[i].id[1] # "agent"

LEMMA DelegationFacts ==
    ASSUME NEW a \in AuthState
    PROVE  Introduces(DelegationRecords(a), a)
<1> DEFINE g == a.generation
           r1 == Rec("deleg", g, NoParent, a.current)
           r2 == Rec("label", g, <<"deleg", g>>, a.current)
           r3 == Rec("actor", g, <<"deleg", g>>, a.current)
           r4 == Rec("agent", g, <<"actor", g>>, a.current)
<1>1. g \in Nat /\ a.current \in Vals
  BY DEF AuthState, Vals
<1>2. r1 \in Record /\ r2 \in Record /\ r3 \in Record /\ r4 \in Record
  <2>1. /\ "deleg" \in Kinds /\ "label" \in Kinds /\ "actor" \in Kinds
        /\ "agent" \in Kinds /\ NoParent \in Kinds \X Nat
        /\ <<"deleg", g>> \in Kinds \X Nat /\ <<"actor", g>> \in Kinds \X Nat
    BY <1>1, NoParentType DEF Kinds
  <2> QED
    BY <1>1, <2>1, RecType
<1>3. /\ r1.id = <<"deleg", g>> /\ r1.parent = NoParent /\ r1.val = a.current
      /\ r2.id = <<"label", g>> /\ r2.parent = <<"deleg", g>>
      /\ r3.id = <<"actor", g>> /\ r3.parent = <<"deleg", g>>
      /\ r4.id = <<"agent", g>> /\ r4.parent = <<"actor", g>>
      /\ r1.id[1] = "deleg" /\ r2.id[1] = "label" /\ r3.id[1] = "actor"
      /\ r4.id[1] = "agent"
  BY RecParts
<1>4. CASE a.current \in Labelled
  <2>1. PICK d : d = DelegationRecords(a)
    OBVIOUS
  <2>2. d = <<r1>> \o <<r2>> \o <<r3, r4>>
    BY <1>4, <2>1 DEF DelegationRecords
  <2> HIDE DEF r1, r2, r3, r4, g
  <2>3. PICK m : m = <<r1>> \o <<r2>>
    OBVIOUS
  <2>8. <<r1>> \in Seq(Record) /\ Len(<<r1>>) = 1 /\ <<r1>>[1] = r1
    BY <1>2
  <2>9. m \in Seq(Record) /\ Len(m) = 2 /\ m[1] = r1 /\ m[2] = r2
    BY <1>2, <2>3, <2>8, JoinedOne
  <2>10. d = m \o <<r3, r4>>
    BY <2>2, <2>3
  <2>4. d \in Seq(Record) /\ Len(d) = 4 /\ d[1] = r1 /\ d[2] = r2 /\ d[3] = r3
        /\ d[4] = r4
    <3>0. m \in Seq(Record) /\ r3 \in Record /\ r4 \in Record
      BY <1>2, <2>9
    <3>1. /\ d \in Seq(Record) /\ Len(d) = Len(m) + 2
          /\ \A i \in 1 .. Len(m) : d[i] = m[i]
          /\ d[Len(m) + 1] = r3 /\ d[Len(m) + 2] = r4
      BY <2>10, <3>0, JoinedTwo
    <3> QED
      BY <2>9, <3>1
  <2>5. \A i \in 1 .. 4 : i = 1 \/ i = 2 \/ i = 3 \/ i = 4
    OBVIOUS
  <2>6. \A i \in 1 .. 4 : d[i].parent # NoParent => \E j \in 1 .. i - 1 : d[j].id = d[i].parent
    <3>1. d[1].parent = NoParent /\ d[2].parent = d[1].id /\ d[3].parent = d[1].id
          /\ d[4].parent = d[3].id
      BY <1>3, <2>4
    <3>2. 1 \in 1 .. 2 - 1 /\ 1 \in 1 .. 3 - 1 /\ 3 \in 1 .. 4 - 1
      OBVIOUS
    <3> QED
      BY <2>5, <3>1, <3>2
  <2>11. \A i \in 1 .. 4 - 1 : d[i].id[1] # "agent"
    <3>1. \A i \in 1 .. 4 - 1 : i = 1 \/ i = 2 \/ i = 3
      OBVIOUS
    <3> QED
      BY <1>3, <2>4, <3>1
  <2>7. Introduces(d, a)
    BY <1>3, <2>4, <2>5, <2>6, <2>11 DEF Introduces, g
  <2> QED
    BY <2>1, <2>7
<1>5. CASE a.current \notin Labelled
  <2>1. PICK d : d = DelegationRecords(a)
    OBVIOUS
  <2>2. d = <<r1>> \o << >> \o <<r3, r4>>
    BY <1>5, <2>1 DEF DelegationRecords
  <2> HIDE DEF r1, r2, r3, r4, g
  <2>8. <<r1>> \in Seq(Record) /\ Len(<<r1>>) = 1 /\ <<r1>>[1] = r1
    BY <1>2
  <2>3. d = <<r1>> \o <<r3, r4>>
    BY <2>2, <2>8, JoinedNone
  <2>4. d \in Seq(Record) /\ Len(d) = 3 /\ d[1] = r1 /\ d[2] = r3 /\ d[3] = r4
    BY <1>2, <2>3, <2>8, JoinedTwo
  <2>5. \A i \in 1 .. 3 : i = 1 \/ i = 2 \/ i = 3
    OBVIOUS
  <2>6. \A i \in 1 .. 3 : d[i].parent # NoParent => \E j \in 1 .. i - 1 : d[j].id = d[i].parent
    <3>1. d[1].parent = NoParent /\ d[2].parent = d[1].id /\ d[3].parent = d[2].id
      BY <1>3, <2>4
    <3>2. 1 \in 1 .. 2 - 1 /\ 2 \in 1 .. 3 - 1
      OBVIOUS
    <3> QED
      BY <2>5, <3>1, <3>2
  <2>11. \A i \in 1 .. 3 - 1 : d[i].id[1] # "agent"
    <3>1. \A i \in 1 .. 3 - 1 : i = 1 \/ i = 2
      OBVIOUS
    <3> QED
      BY <1>3, <2>4, <3>1
  <2>7. Introduces(d, a)
    BY <1>3, <2>4, <2>5, <2>6, <2>11 DEF Introduces, g
  <2> QED
    BY <2>1, <2>7
<1> QED
  BY <1>4, <1>5

-----------------------------------------------------------------------------
(***************************************************************************)
(* What an identity check can answer.                                      *)
(***************************************************************************)

Notices == {<< >>, <<"applied">>, <<"rejected">>}

(* The identity changes by its bundle only, and only when that is noted.   *)
Reloaded(b, r, a) ==
    /\ b \in AuthState
    /\ r \in Notices
    /\ b.current = a.current /\ b.generation = a.generation
    /\ b.presented = a.presented
    /\ r # <<"applied">> => b.bundle = a.bundle

LEMMA ReloadFacts ==
    ASSUME NEW a \in AuthState, NEW p \in Bundles \cup {NoBundle},
           NEW r \in Reload(a, p)
    PROVE  Reloaded(r.auth, r.reloads, a)
<1>1. \/ r = [auth |-> a, reloads |-> << >>]
      \/ r = [auth |-> a, reloads |-> <<"rejected">>]
      \/ /\ p \in Bundles
         /\ r = [auth |-> [a EXCEPT !.content = p], reloads |-> <<"rejected">>]
      \/ /\ p \in Bundles
         /\ r = [auth |-> [a EXCEPT !.bundle = p, !.content = p],
                 reloads |-> <<"applied">>]
  <2>0. a.content \in Bundles /\ NoBundle \notin Bundles /\ NoBundle \notin Unsigned
    BY AuthAssumption DEF AuthState
  <2>1. CASE p = NoBundle
    BY <2>0, <2>1 DEF Reload
  <2>2. CASE p # NoBundle /\ p = a.content
    BY <2>0, <2>2 DEF Reload
  <2>3. CASE p # NoBundle /\ p # a.content /\ p \in Unsigned
    BY <2>0, <2>3 DEF Reload
  <2>4. CASE p # NoBundle /\ p # a.content /\ p \notin Unsigned
    BY <2>0, <2>4 DEF Reload
  <2> QED
    BY <2>1, <2>2, <2>3, <2>4
<1>2. CASE \/ r = [auth |-> a, reloads |-> << >>]
           \/ r = [auth |-> a, reloads |-> <<"rejected">>]
  BY <1>2 DEF Reloaded, Notices
<1>3. CASE /\ p \in Bundles
           /\ r = [auth |-> [a EXCEPT !.content = p], reloads |-> <<"rejected">>]
  <2>1. PICK b : b = [a EXCEPT !.content = p]
    OBVIOUS
  <2>2. b \in AuthState /\ b.current = a.current /\ b.generation = a.generation
        /\ b.presented = a.presented /\ b.bundle = a.bundle
    BY <1>3, <2>1 DEF AuthState
  <2> QED
    BY <1>3, <2>1, <2>2 DEF Reloaded, Notices
<1>4. CASE /\ p \in Bundles
           /\ r = [auth |-> [a EXCEPT !.bundle = p, !.content = p],
                   reloads |-> <<"applied">>]
  <2>1. PICK b : b = [a EXCEPT !.bundle = p, !.content = p]
    OBVIOUS
  <2>2. b \in AuthState /\ b.current = a.current /\ b.generation = a.generation
        /\ b.presented = a.presented
    BY <1>4, <2>1 DEF AuthState
  <2> QED
    BY <1>4, <2>1, <2>2 DEF Reloaded, Notices
<1> QED
  BY <1>1, <1>2, <1>3, <1>4

LEMMA VerifyFacts ==
    ASSUME NEW a \in AuthState, NEW p \in Bundles \cup {NoBundle},
           NEW t, NEW v \in VerifyToken(a, t, p)
    PROVE  Reloaded(v.auth, v.reloads, a) /\ v.ok \in BOOLEAN
<1>1. CASE v = [ok |-> t \notin BadTokens, auth |-> a, reloads |-> << >>]
  BY <1>1 DEF Reloaded, Notices
<1>2. CASE \E r \in Reload(a, p) :
             v = [ok      |-> /\ KidOf[t] \in KeysOf[r.auth.bundle]
                              /\ t \notin BadTokens,
                  auth    |-> r.auth,
                  reloads |-> r.reloads]
  <2>1. PICK r \in Reload(a, p) :
             v = [ok      |-> /\ KidOf[t] \in KeysOf[r.auth.bundle]
                              /\ t \notin BadTokens,
                  auth    |-> r.auth,
                  reloads |-> r.reloads]
    BY <1>2
  <2>2. v.auth = r.auth /\ v.reloads = r.reloads /\ v.ok \in BOOLEAN
    BY <2>1
  <2> QED
    BY <2>2, ReloadFacts
<1> QED
  BY <1>1, <1>2 DEF VerifyToken

(* The outcome o of an identity check from a, which looked at token t and  *)
(* remembers the presented token s.                                        *)
Identified(o, a, t, s) ==
    /\ o.auth \in AuthState
    /\ o.reloads \in Notices
    /\ o.renewed \in BOOLEAN /\ o.denied \in BOOLEAN
    /\ o.reloads # <<"applied">> => o.auth.bundle = a.bundle
    /\ ~o.renewed => /\ o.auth.current = a.current
                     /\ o.auth.generation = a.generation
    /\ o.renewed => o.auth.generation > 1
    /\ ~o.denied => /\ o.auth.current \notin expired
                    /\ t \in Tokens => /\ o.auth.current = DelegOf[t]
                                       /\ o.auth.presented = s
    /\ o.denied => o.auth.current = a.current /\ o.auth.presented = a.presented

LEMMA AdoptFacts ==
    ASSUME NEW a \in AuthState, NEW t \in Tokens, NEW s \in Tokens \cup {NoToken},
           NEW v, Reloaded(v.auth, v.reloads, a), v.ok \in BOOLEAN,
           NEW o, o = Adopt(v, t, s, expired)
    PROVE  Identified(o, a, t, s)
<1>0. DelegOf[t] \in Delegations
  BY AuthAssumption
<1>1. CASE v.ok /\ DelegOf[t] \notin expired
  <2>1. PICK ch : ch = (DelegOf[t] # v.auth.current)
    OBVIOUS
  <2>2. PICK b : b = [v.auth EXCEPT !.presented  = s,
                                    !.current    = DelegOf[t],
                                    !.generation = IF ch THEN @ + 1 ELSE @]
    OBVIOUS
  <2>3. o = [auth |-> b, reloads |-> v.reloads, renewed |-> ch, denied |-> FALSE]
    BY <1>1, <2>1, <2>2 DEF Adopt
  <2>4. /\ v.auth \in AuthState /\ v.auth.generation \in Nat \ {0}
        /\ v.auth.current = a.current /\ v.auth.generation = a.generation
    BY DEF Reloaded, AuthState
  <2>5. /\ b \in AuthState /\ b.presented = s /\ b.current = DelegOf[t]
        /\ b.bundle = v.auth.bundle
        /\ ~ch => b.generation = a.generation
        /\ ch => b.generation > 1
    <3>1. PICK g : g = IF ch THEN v.auth.generation + 1 ELSE v.auth.generation
      OBVIOUS
    <3>2. g \in Nat \ {0} /\ (~ch => g = a.generation) /\ (ch => g > 1)
      BY <2>4, <3>1
    <3>3. b = [v.auth EXCEPT !.presented = s, !.current = DelegOf[t],
                             !.generation = g]
      BY <2>2, <3>1
    <3> QED
      BY <1>0, <2>4, <3>2, <3>3 DEF AuthState
  <2>6. o.auth = b /\ o.reloads = v.reloads /\ o.renewed = ch /\ o.denied = FALSE
    BY <2>3
  <2> QED
    BY <1>1, <2>1, <2>4, <2>5, <2>6 DEF Identified, Reloaded
<1>2. CASE ~(v.ok /\ DelegOf[t] \notin expired)
  <2>1. o = [auth |-> v.auth, reloads |-> v.reloads, renewed |-> FALSE,
             denied |-> TRUE]
    BY <1>2 DEF Adopt
  <2> QED
    BY <2>1 DEF Identified, Reloaded
<1> QED
  BY <1>1, <1>2

(* Over HTTP a token that is known was presented by whoever is in force;   *)
(* over stdio none is ever presented.                                      *)
Faithful(a) ==
    /\ Http /\ a.presented \in Tokens => a.current = DelegOf[a.presented]
    /\ ~Http => a.presented = NoToken

LEMMA PresentFacts ==
    ASSUME TypeOK, NEW t \in Tokens, NEW o \in Present(auth, t, published, expired)
    PROVE  /\ o.auth \in AuthState /\ o.reloads \in Notices
           /\ o.renewed \in BOOLEAN /\ o.denied \in BOOLEAN
           /\ o.reloads # <<"applied">> => o.auth.bundle = auth.bundle
           /\ ~o.renewed => /\ o.auth.current = auth.current
                            /\ o.auth.generation = auth.generation
           /\ o.renewed => o.auth.generation > 1
           /\ ~o.denied => o.auth.current \notin expired
           /\ Http /\ Faithful(auth) => /\ Faithful(o.auth)
                                        /\ ~o.denied => o.auth.current = DelegOf[t]
<1>0. auth \in AuthState /\ published \in Bundles \cup {NoBundle}
  BY DEF TypeOK
<1>1. CASE auth.presented = t
  <2>1. o = [auth |-> auth, reloads |-> << >>, renewed |-> FALSE,
             denied |-> auth.current \in expired]
    BY <1>1 DEF Present
  <2>2. /\ o.auth = auth /\ o.reloads = << >> /\ o.renewed = FALSE
        /\ o.denied = (auth.current \in expired)
    BY <2>1, Zenon
  <2>3. (auth.current \in expired) \in BOOLEAN
    OBVIOUS
  <2>4. o.denied \in BOOLEAN /\ (~o.denied => o.auth.current \notin expired)
    BY <2>2, <2>3
  <2> QED
    BY <1>0, <1>1, <2>2, <2>4 DEF Notices, Faithful
<1>2. CASE auth.presented # t
  <2>1. PICK v \in VerifyToken(auth, t, published) : o = Adopt(v, t, t, expired)
    BY <1>2 DEF Present
  <2>2. Reloaded(v.auth, v.reloads, auth) /\ v.ok \in BOOLEAN
    BY <1>0, VerifyFacts
  <2>3. Identified(o, auth, t, t)
    BY <1>0, <2>1, <2>2, AdoptFacts
  <2>4. NoToken \notin Tokens
    BY AuthAssumption
  <2> QED
    BY <2>3, <2>4 DEF Identified, Faithful
<1> QED
  BY <1>1, <1>2

LEMMA RefreshFacts ==
    ASSUME TypeOK, NEW o \in Refresh(auth, tokenFile, published, expired)
    PROVE  /\ o.auth \in AuthState /\ o.reloads \in Notices
           /\ o.renewed \in BOOLEAN /\ o.denied \in BOOLEAN
           /\ o.reloads # <<"applied">> => o.auth.bundle = auth.bundle
           /\ ~o.renewed => /\ o.auth.current = auth.current
                            /\ o.auth.generation = auth.generation
           /\ o.renewed => o.auth.generation > 1
           /\ ~o.denied => o.auth.current \notin expired
           /\ ~Http /\ Faithful(auth) => Faithful(o.auth)
<1>0. auth \in AuthState /\ published \in Bundles \cup {NoBundle}
      /\ auth.presented \in Tokens \cup {NoToken}
  BY DEF TypeOK, AuthState
<1>1. CASE auth.current \notin expired
  <2>1. o = [auth |-> auth, reloads |-> << >>, renewed |-> FALSE, denied |-> FALSE]
    BY <1>1 DEF Refresh
  <2> QED
    BY <1>0, <1>1, <2>1 DEF Notices
<1>2. CASE auth.current \in expired /\ tokenFile = NoToken
  <2>1. o = [auth |-> auth, reloads |-> << >>, renewed |-> FALSE, denied |-> TRUE]
    BY <1>2 DEF Refresh
  <2> QED
    BY <1>0, <2>1 DEF Notices
<1>3. CASE auth.current \in expired /\ tokenFile # NoToken
  <2>0. tokenFile \in Tokens
    BY <1>3 DEF TypeOK
  <2>1. PICK v \in VerifyToken(auth, tokenFile, published) :
                o = Adopt(v, tokenFile, auth.presented, expired)
    BY <1>3 DEF Refresh
  <2>2. Reloaded(v.auth, v.reloads, auth) /\ v.ok \in BOOLEAN
    BY <1>0, VerifyFacts
  <2>3. Identified(o, auth, tokenFile, auth.presented)
    BY <1>0, <2>0, <2>1, <2>2, AdoptFacts
  <2> QED
    BY <2>0, <2>3 DEF Identified, Faithful
<1> QED
  BY <1>1, <1>2, <1>3

(* Identify, for the handlers.                                             *)
Checked(o) ==
    /\ o.auth \in AuthState /\ o.reloads \in Notices
    /\ o.renewed \in BOOLEAN /\ o.denied \in BOOLEAN
    /\ o.reloads # <<"applied">> => o.auth.bundle = auth.bundle
    /\ ~o.renewed => /\ o.auth.current = auth.current
                     /\ o.auth.generation = auth.generation
    /\ o.renewed => o.auth.generation > 1
    /\ ~o.denied => o.auth.current \notin expired
    /\ Faithful(auth) => Faithful(o.auth)

LEMMA IdentifyFacts ==
    ASSUME TypeOK, NEW t \in Bearers, NEW o \in Identify(t)
    PROVE  /\ Checked(o)
           /\ t = NoToken \/ t \in Tokens
           /\ t \in Tokens /\ Faithful(auth) /\ ~o.denied =>
                 o.auth.current = DelegOf[t]
<1>0. NoToken \notin Tokens
  BY AuthAssumption
<1>1. CASE Http
  <2>1. t \in Tokens /\ o \in Present(auth, t, published, expired)
    BY <1>1 DEF Bearers, Identify
  <2> QED
    BY <1>1, <2>1, PresentFacts DEF Checked
<1>2. CASE ~Http
  <2>1. t = NoToken /\ o \in Refresh(auth, tokenFile, published, expired)
    BY <1>2 DEF Bearers, Identify
  <2> QED
    BY <1>0, <1>2, <2>1, RefreshFacts DEF Checked
<1> QED
  BY <1>1, <1>2

-----------------------------------------------------------------------------
(***************************************************************************)
(* What the handlers write.                                                *)
(***************************************************************************)

Headers == {"cert", "deployment", "reload", "deleg", "label", "actor", "agent"}

(* The records of the reloads an identity check noted.                     *)
Reports(r, o) ==
    /\ r \in Seq(Record)
    /\ Len(r) = Len(o.reloads) /\ Len(r) \in {0, 1}
    /\ \A i \in 1 .. Len(r) : r[i].id[1] = "reload" /\ r[i].parent = NoParent
    /\ o.reloads = <<"applied">> => Len(r) = 1 /\ r[1].val = o.auth.bundle
    /\ o.reloads # <<"applied">> => \A i \in 1 .. Len(r) : r[i].val = "rejected"

LEMMA ReportFacts ==
    ASSUME NEW o, o.auth \in AuthState, o.reloads \in Notices, NEW start \in Nat
    PROVE  Reports(ReloadRecords(o.reloads, o.auth, start), o)
<1>1. CASE o.reloads = << >>
  <2>1. PICK r : r = ReloadRecords(o.reloads, o.auth, start)
    OBVIOUS
  <2>2. r = [i \in 1 .. 0 |-> Rec("reload", start + i, NoParent,
                IF o.reloads[i] = "applied" THEN o.auth.bundle ELSE "rejected")]
    BY <1>1, <2>1 DEF ReloadRecords
  <2>3. r \in Seq(Record) /\ Len(r) = 0
    BY <2>2
  <2> QED
    BY <1>1, <2>1, <2>3 DEF Reports
<1>2. CASE o.reloads = <<"applied">> \/ o.reloads = <<"rejected">>
  <2>1. PICK r : r = ReloadRecords(o.reloads, o.auth, start)
    OBVIOUS
  <2>2. PICK v : v = IF o.reloads[1] = "applied" THEN o.auth.bundle ELSE "rejected"
    OBVIOUS
  <2>3. PICK x : x = Rec("reload", start + 1, NoParent, v)
    OBVIOUS
  <2>4. Len(o.reloads) = 1
    BY <1>2
  <2>5. r = [i \in 1 .. 1 |-> Rec("reload", start + i, NoParent,
                IF o.reloads[i] = "applied" THEN o.auth.bundle ELSE "rejected")]
    BY <2>1, <2>4 DEF ReloadRecords
  <2>6. DOMAIN r = 1 .. 1 /\ r[1] = x
    BY <2>2, <2>3, <2>5
  <2>7. v \in Vals /\ "reload" \in Kinds /\ start + 1 \in Nat
    BY <2>2 DEF Vals, AuthState, Kinds
  <2>8. x \in Record
    BY <2>3, <2>7, NoParentType, RecType
  <2>9. r = [i \in 1 .. 1 |-> x]
    BY <2>5, <2>6
  <2>10. r \in Seq(Record) /\ Len(r) = 1
    BY <2>8, <2>9
  <2>11. x.id[1] = "reload" /\ x.parent = NoParent /\ x.val = v
    BY <2>3, RecParts
  <2>12. /\ o.reloads = <<"applied">> => v = o.auth.bundle
         /\ o.reloads # <<"applied">> => v = "rejected"
    BY <1>2, <2>2
  <2> QED
    BY <2>1, <2>4, <2>6, <2>10, <2>11, <2>12 DEF Reports
<1> QED
  BY <1>1, <1>2 DEF Notices

(* The records of the delegation, if it is new.                            *)
Renews(d, o) == IF o.renewed THEN Introduces(d, o.auth) ELSE d = << >>

LEMMA RenewsFacts ==
    ASSUME NEW o, o.auth \in AuthState, o.renewed \in BOOLEAN
    PROVE  Renews(IF o.renewed THEN DelegationRecords(o.auth) ELSE << >>, o)
BY DelegationFacts DEF Renews

LEMMA RenewsType ==
    ASSUME NEW o, NEW d, Renews(d, o), o.renewed \in BOOLEAN
    PROVE  d \in Seq(Record) /\ Len(d) \in Nat
<1>1. << >> \in Seq(Record) /\ Len(<< >>) = 0
  OBVIOUS
<1>2. d \in Seq(Record)
  BY <1>1 DEF Renews, Introduces
<1> QED
  BY <1>2, LenProperties

(* The first k of r, the first j of d, then b records of calls.            *)
Writes(r, k, d, j, b) ==
    /\ k \in 0 .. Len(r) /\ j \in 0 .. Len(d) /\ b \in Nat
    /\ log' \in Seq(Record)
    /\ Len(log') = Len(log) + k + j + b
    /\ \A i \in 1 .. Len(log) : log'[i] = log[i]
    /\ \A i \in 1 .. k : log'[Len(log) + i] = r[i]
    /\ \A i \in 1 .. j : log'[Len(log) + k + i] = d[i]

(* The first b of call, decision and effect, after position `at'.          *)
Attempt(at, n, g, v, e, b) ==
    /\ b \in 0 .. 3
    /\ b >= 1 => log'[at + 1] = CallRec(n, g)
    /\ b >= 2 => log'[at + 2] = DecRec(n, v)
    /\ b >= 3 => log'[at + 3] = EffRec(n, e)

(* What one handled act leaves behind: the records of the identity check,  *)
(* then those of the act, up to the first write that fails.                *)
ActLeaves(o, r, d, k, j, b, id, token, verdict, out) ==
    LET n    == sess.counter + 1
        pass == Passes(o, id, verdict)
        full == k = Len(r) /\ j = Len(d)
        done == b = (IF pass THEN 2 ELSE 3)
    IN  /\ Writes(r, k, d, j, b)
        /\ Attempt(Len(log) + k + j, n,
                   IF o.renewed THEN o.auth.generation ELSE sess.agent,
                   IF o.denied \/ verdict = "deny" THEN "deny" ELSE "allow",
                   "blocked", b)
        /\ pass => b <= 2
        /\ j > 0 => k = Len(r)
        /\ b > 0 => full
        /\ k < Len(r) => "reload" \in FailAt
        /\ k = Len(r) /\ j < Len(d) => d[j + 1].id[1] \in FailAt
        /\ auth' = o.auth
        /\ sess' = [agent   |-> IF o.renewed /\ full THEN o.auth.generation
                                                     ELSE sess.agent,
                    counter |-> IF full THEN n ELSE sess.counter,
                    reloads |-> sess'.reloads]
        /\ sess'.reloads \in Nat
        /\ fails' \in Nat
        /\ pending' = IF done /\ pass /\ id # NoId
                      THEN [pending EXCEPT ![id] = n] ELSE pending
        /\ toServer' = out \cup
                       (IF done /\ pass
                        THEN toServer \cup {Message("act", id, n)} ELSE toServer)
        /\ hist' = Note(b > 0, Act(Len(log) + Len(r) + Len(d) + 1,
                                   IF token = NoToken THEN o.auth.current
                                                      ELSE DelegOf[token],
                                   o.auth.bundle))
        /\ UNCHANGED <<envVars, toAgent, relayed, atServer, disp>>

(* The records of an act: r, d, the attempt n of agent g, its decision v   *)
(* and, unless it passes, its effect.                                      *)
Acts(recs, r, d, n, g, v, pass) ==
    /\ recs \in Seq(Record)
    /\ Len(recs) = Len(r) + Len(d) + (IF pass THEN 2 ELSE 3)
    /\ Closes(recs, r, d, CallRec(n, g), DecRec(n, v))
    /\ ~pass => recs[Len(r) + Len(d) + 3] = EffRec(n, "blocked")

LEMMA ActRecordsFacts ==
    ASSUME NEW n \in Nat, NEW g \in Nat, NEW v \in {"allow", "deny"},
           NEW r \in Seq(Record), NEW d \in Seq(Record), NEW pass \in BOOLEAN,
           NEW recs,
           recs = r \o d \o <<CallRec(n, g), DecRec(n, v)>> \o
                  (IF pass THEN << >> ELSE <<EffRec(n, "blocked")>>)
    PROVE  Acts(recs, r, d, n, g, v, pass)
<1> DEFINE c == CallRec(n, g)
           e == DecRec(n, v)
           f == EffRec(n, "blocked")
<1>1. c \in Record /\ e \in Record /\ f \in Record
  BY ActRecType
<1>2. CASE pass
  <2>1. recs = r \o d \o <<c, e>> \o << >>
    BY <1>2
  <2> HIDE DEF c, e, f
  <2>2. PICK m : m = r \o d \o <<c, e>>
    OBVIOUS
  <2>3. m \in Seq(Record) /\ Closes(m, r, d, c, e) /\ Len(m) = Len(r) + Len(d) + 2
    BY <1>1, <2>2, JoinedFour
  <2>4. recs = m
    BY <2>1, <2>2, <2>3, JoinedNone
  <2> QED
    BY <1>2, <2>3, <2>4 DEF Acts, c, e, f
<1>3. CASE ~pass
  <2>1. recs = r \o d \o <<c, e>> \o <<f>>
    BY <1>3
  <2> HIDE DEF c, e, f
  <2>2. PICK q : q = r \o d \o <<c, e>> \o <<f>>
    OBVIOUS
  <2>3. /\ q \in Seq(Record) /\ Closes(q, r, d, c, e)
        /\ Len(q) = Len(r) + Len(d) + 3 /\ q[Len(r) + Len(d) + 3] = f
    BY <1>1, <2>2, JoinedFive
  <2>4. recs = q
    BY <2>1, <2>2
  <2> QED
    BY <1>3, <2>3, <2>4 DEF Acts, c, e, f
<1> QED
  BY <1>2, <1>3

(* How many of a records, of the next c and of the m that follow are among *)
(* the first q.                                                            *)
Splits(q, a, c, m) ==
    \E k \in 0 .. a, j \in 0 .. c, b \in 0 .. m :
        /\ q = k + j + b
        /\ j > 0 => k = a
        /\ b > 0 => k = a /\ j = c

LEMMA Split ==
    ASSUME NEW a \in Nat, NEW c \in Nat, NEW m \in {2, 3}, NEW q \in 0 .. a + c + m
    PROVE  Splits(q, a, c, m)
<1> USE DEF Splits
<1>1. CASE q <= a
  BY <1>1
<1>2. CASE a < q /\ q <= a + c
  <2>1. a \in 0 .. a /\ q - a \in 0 .. c /\ 0 \in 0 .. m /\ q = a + (q - a) + 0
    BY <1>2
  <2> USE <2>1
  <2> WITNESS a \in 0 .. a, q - a \in 0 .. c, 0 \in 0 .. m
  <2> QED
    OBVIOUS
<1>3. CASE a + c < q
  <2>1. a \in 0 .. a /\ c \in 0 .. c /\ q - (a + c) \in 0 .. m
        /\ q = a + c + (q - (a + c))
    BY <1>3
  <2> USE <2>1
  <2> WITNESS a \in 0 .. a, c \in 0 .. c, q - (a + c) \in 0 .. m
  <2> QED
    BY <2>1
<1> QED
  BY <1>1, <1>2, <1>3

(* What FromAgent asks the session to arbitrate: an act of the agent, or   *)
(* over HTTP a message whose method is not a string.                       *)
Handled(id, token, verdict, out) ==
    /\ Arbitrate(id, token, verdict, out)
    /\ \/ id \in ActIds \cup {NoId} /\ out = {}
       \/ /\ id \in MachineryIds /\ verdict = "deny" /\ Http
          /\ out = {Message("malformed", id, sess.counter + 1)}

Handles ==
    \E id \in Ids \cup {NoId}, t \in Bearers, v \in {"allow", "deny"} :
        \E out : Handled(id, t, v, out)

LEMMA AgentCases ==
    FromAgent =>
        \/ Handles
        \/ \E id \in MachineryIds : HandleMachinery(id)
        \/ RelayMalformed
        \/ \E t \in Tokens : PresentBearer(t)
        \/ \E id \in ServerIds : HandleAnswer(id)
        \/ \E id \in ServerIds \cup {NoId} : HandleUnsolicited(id)
<1>1. ASSUME NEW id \in ActIds \cup {NoId}, NEW t \in Bearers,
             NEW v \in {"allow", "deny"}, HandleAct(id, t, v)
      PROVE  Handles
  <2>1. id \in Ids \cup {NoId} /\ Handled(id, t, v, {})
    BY <1>1 DEF HandleAct, Handled, Ids
  <2> QED
    BY <2>1 DEF Handles
<1>2. ASSUME NEW id \in MachineryIds, NEW t \in Bearers, HandleMalformed(id, t)
      PROVE  Handles
  <2>1. PICK out : out = {Message("malformed", id, sess.counter + 1)}
    OBVIOUS
  <2>2. id \in Ids \cup {NoId} /\ Handled(id, t, "deny", out)
    BY <1>2, <2>1 DEF HandleMalformed, Handled, Ids
  <2> QED
    BY <2>2 DEF Handles
<1> QED
  BY <1>1, <1>2 DEF FromAgent

LEMMA ActStep ==
    ASSUME TypeOK, NEW id, NEW token \in Bearers, NEW verdict, NEW out,
           Handled(id, token, verdict, out)
    PROVE  \E o \in Identify(token) : \E r, d, k, j, b :
              /\ Checked(o) /\ Reports(r, o) /\ Renews(d, o)
              /\ ActLeaves(o, r, d, k, j, b, id, token, verdict, out)
<1> DEFINE n == sess.counter + 1
<1>1. PICK o \in Identify(token) :
        \E q \in 0 .. Len(ActRecords(o, n, id, verdict)) :
            /\ Written(ActRecords(o, n, id, verdict), q)
            /\ auth' = o.auth
            /\ sess' = [agent   |-> IF o.renewed /\ q >= Preamble(o)
                                    THEN o.auth.generation ELSE sess.agent,
                        counter |-> IF q >= Preamble(o) THEN n ELSE sess.counter,
                        reloads |-> sess.reloads + Min2(q + 1, Len(o.reloads))]
            /\ pending' = IF /\ q = Len(ActRecords(o, n, id, verdict))
                             /\ Passes(o, id, verdict) /\ id # NoId
                          THEN [pending EXCEPT ![id] = n] ELSE pending
            /\ toServer' = out \cup
                           (IF /\ q = Len(ActRecords(o, n, id, verdict))
                               /\ Passes(o, id, verdict)
                            THEN toServer \cup {Message("act", id, n)}
                            ELSE toServer)
            /\ hist' = Note(q > Preamble(o),
                            Act(Len(log) + Preamble(o) + 1,
                                IF token = NoToken THEN o.auth.current
                                                   ELSE DelegOf[token],
                                o.auth.bundle))
  BY DEF Handled, Arbitrate
<1>2. Checked(o)
  BY IdentifyFacts
<1>3. /\ o.auth \in AuthState /\ o.reloads \in Notices
      /\ o.renewed \in BOOLEAN /\ o.denied \in BOOLEAN
  BY <1>2 DEF Checked
<1>4. /\ sess.agent \in Nat /\ sess.counter \in Nat /\ sess.reloads \in Nat
      /\ n \in Nat /\ log \in Seq(Record) /\ fails \in Nat
  BY DEF TypeOK
<1> DEFINE r == ReloadRecords(o.reloads, o.auth, sess.reloads)
           d == IF o.renewed THEN DelegationRecords(o.auth) ELSE << >>
           g == IF o.renewed THEN o.auth.generation ELSE sess.agent
           v == IF o.denied \/ verdict = "deny" THEN "deny" ELSE "allow"
           recs == ActRecords(o, n, id, verdict)
           pass == Passes(o, id, verdict)
<1>5. Reports(r, o) /\ Renews(d, o)
  BY <1>3, <1>4, ReportFacts, RenewsFacts
<1>6. r \in Seq(Record) /\ d \in Seq(Record) /\ Len(r) \in Nat /\ Len(d) \in Nat
  BY <1>3, <1>5, RenewsType, LenProperties DEF Reports
<1>7. Acts(recs, r, d, n, g, v, pass)
  <2>1. g \in Nat /\ v \in {"allow", "deny"} /\ pass \in BOOLEAN
    BY <1>3, <1>4 DEF AuthState, Passes
  <2>2. recs = r \o d \o <<CallRec(n, g), DecRec(n, v)>> \o
               (IF pass THEN << >> ELSE <<EffRec(n, "blocked")>>)
    BY DEF ActRecords
  <2> HIDE DEF n, r, d, g, v, recs, pass
  <2> QED
    BY <1>4, <1>6, <2>1, <2>2, ActRecordsFacts
<1>8. Preamble(o) = Len(r) + Len(d)
  <2>1. Len(r) = Len(o.reloads)
    BY <1>5 DEF Reports
  <2>2. Len(d) = IF o.renewed THEN Len(DelegationRecords(o.auth)) ELSE 0
    OBVIOUS
  <2> QED
    BY <2>1, <2>2 DEF Preamble
<1>9. PICK q \in 0 .. Len(recs) :
            /\ Written(recs, q)
            /\ auth' = o.auth
            /\ sess' = [agent   |-> IF o.renewed /\ q >= Preamble(o)
                                    THEN o.auth.generation ELSE sess.agent,
                        counter |-> IF q >= Preamble(o) THEN n ELSE sess.counter,
                        reloads |-> sess.reloads + Min2(q + 1, Len(o.reloads))]
            /\ pending' = IF q = Len(recs) /\ pass /\ id # NoId
                          THEN [pending EXCEPT ![id] = n] ELSE pending
            /\ toServer' = out \cup
                           (IF q = Len(recs) /\ pass
                            THEN toServer \cup {Message("act", id, n)}
                            ELSE toServer)
            /\ hist' = Note(q > Preamble(o),
                            Act(Len(log) + Preamble(o) + 1,
                                IF token = NoToken THEN o.auth.current
                                                   ELSE DelegOf[token],
                                o.auth.bundle))
  BY <1>1
<1>10. UNCHANGED <<envVars, toAgent, relayed, atServer, disp>>
  BY DEF Handled, Arbitrate
<1> HIDE DEF n, r, d, g, v, recs, pass
<1>11. Len(recs) = Len(r) + Len(d) + (IF pass THEN 2 ELSE 3)
  BY <1>7 DEF Acts
<1>12. PICK k \in 0 .. Len(r), j \in 0 .. Len(d),
            b \in 0 .. (IF pass THEN 2 ELSE 3) :
              /\ q = k + j + b
              /\ j > 0 => k = Len(r)
              /\ b > 0 => k = Len(r) /\ j = Len(d)
  <2>1. PICK z : z = IF pass THEN 2 ELSE 3
    OBVIOUS
  <2>2. z \in {2, 3} /\ q \in 0 .. Len(r) + Len(d) + z
    BY <1>11, <2>1
  <2>3. Splits(q, Len(r), Len(d), z)
    BY <1>6, <2>2, Split
  <2> QED
    BY <2>1, <2>3 DEF Splits
<1>13. /\ k \in Nat /\ j \in Nat /\ b \in 0 .. 3 /\ Len(log) \in Nat
       /\ q >= Preamble(o) <=> k = Len(r) /\ j = Len(d)
       /\ q > Preamble(o) <=> b > 0
       /\ q = Len(recs) <=> b = (IF pass THEN 2 ELSE 3)
  <2>1. /\ k \in Nat /\ j \in Nat /\ b \in 0 .. 3 /\ Len(log) \in Nat
        /\ Len(r) \in Nat /\ Len(d) \in Nat
        /\ k <= Len(r) /\ j <= Len(d)
    BY <1>4, <1>6, <1>12, LenProperties
  <2>2. q >= Preamble(o) <=> k = Len(r) /\ j = Len(d)
    BY <1>8, <1>12, <2>1
  <2>3. q > Preamble(o) <=> b > 0
    BY <1>8, <1>12, <2>1
  <2>4. q = Len(recs) <=> b = (IF pass THEN 2 ELSE 3)
    <3>1. PICK z : z = IF pass THEN 2 ELSE 3
      OBVIOUS
    <3>2. /\ z \in {2, 3} /\ b \in 0 .. z /\ Len(recs) = Len(r) + Len(d) + z
      BY <1>11, <1>12, <3>1
    <3>3. q = Len(recs) <=> b = z
      BY <1>12, <2>1, <3>2
    <3> QED
      BY <3>1, <3>3
  <2> QED
    BY <2>1, <2>2, <2>3, <2>4
<1>14. Writes(r, k, d, j, b) /\ Attempt(Len(log) + k + j, n, g, v, "blocked", b)
  <2>1. PICK l : l = log'
    OBVIOUS
  <2>2. l = log \o SubSeq(recs, 1, q) /\ recs \in Seq(Record)
    BY <1>7, <1>9, <2>1 DEF Written, Acts
  <2>3. /\ l \in Seq(Record) /\ Len(l) = Len(log) + q
        /\ \A i \in 1 .. Len(log) : l[i] = log[i]
        /\ \A i \in 1 .. q : l[Len(log) + i] = recs[i]
    BY <1>4, <2>2, PutFacts DEF Puts
  <2>4. /\ \A i \in 1 .. Len(r) : recs[i] = r[i]
        /\ \A i \in 1 .. Len(d) : recs[Len(r) + i] = d[i]
        /\ recs[Len(r) + Len(d) + 1] = CallRec(n, g)
        /\ recs[Len(r) + Len(d) + 2] = DecRec(n, v)
        /\ ~pass => recs[Len(r) + Len(d) + 3] = EffRec(n, "blocked")
    BY <1>7 DEF Acts, Closes
  <2>5. ASSUME NEW i \in 1 .. k PROVE l[Len(log) + i] = r[i]
    <3>1. i \in 1 .. Len(r) /\ i \in 1 .. q
      BY <1>6, <1>12, <1>13
    <3> QED
      BY <2>3, <2>4, <3>1
  <2>6. ASSUME NEW i \in 1 .. j PROVE l[Len(log) + k + i] = d[i]
    <3>1. i \in 1 .. Len(d) /\ Len(r) + i \in 1 .. q /\ k = Len(r)
          /\ Len(log) + k + i = Len(log) + (Len(r) + i)
      BY <1>6, <1>12, <1>13, SMTT(30)
    <3> QED
      BY <2>3, <2>4, <3>1, SMTT(30)
  <2>7. ASSUME NEW i \in 1 .. b
        PROVE  /\ l[Len(log) + k + j + i] = recs[Len(r) + Len(d) + i]
               /\ i = 3 => ~pass
    <3>1. Len(r) + Len(d) + i \in 1 .. q /\ k = Len(r) /\ j = Len(d)
          /\ Len(log) + k + j + i = Len(log) + (Len(r) + Len(d) + i)
          /\ i \in Nat
      BY <1>6, <1>12, <1>13
    <3>2. i = 3 => ~pass
      BY <1>12, <1>13
    <3> QED
      BY <2>3, <3>1, <3>2
  <2>8. /\ b >= 1 => 1 \in 1 .. b
        /\ b >= 2 => 2 \in 1 .. b
        /\ b >= 3 => 3 \in 1 .. b
    BY <1>13
  <2>9. Attempt(Len(log) + k + j, n, g, v, "blocked", b)
    BY <1>13, <2>1, <2>4, <2>7, <2>8 DEF Attempt
  <2>10. Len(l) = Len(log) + k + j + b
    BY <1>12, <1>13, <2>3
  <2>11. Writes(r, k, d, j, b)
    BY <1>12, <1>13, <2>1, <2>3, <2>5, <2>6, <2>10 DEF Writes
  <2> QED
    BY <2>9, <2>11
<1>15. /\ pass => b <= 2
       /\ j > 0 => k = Len(r)
       /\ b > 0 => k = Len(r) /\ j = Len(d)
  BY <1>12
<1>16. /\ k < Len(r) => "reload" \in FailAt
       /\ k = Len(r) /\ j < Len(d) => d[j + 1].id[1] \in FailAt
  <2>1. q < Len(recs) => recs[q + 1].id[1] \in FailAt
    BY <1>9 DEF Written
  <2>2. CASE k < Len(r)
    <3>1. q = k /\ q + 1 \in 1 .. Len(r) /\ q < Len(recs)
      BY <1>6, <1>11, <1>12, <1>13, <2>2
    <3>2. recs[q + 1] = r[q + 1] /\ r[q + 1].id[1] = "reload"
      BY <1>5, <1>7, <3>1 DEF Acts, Closes, Reports
    <3> QED
      BY <2>1, <2>2, <3>1, <3>2
  <2>3. CASE k = Len(r) /\ j < Len(d)
    <3>1. q + 1 = Len(r) + (j + 1) /\ j + 1 \in 1 .. Len(d) /\ q < Len(recs)
      BY <1>6, <1>11, <1>12, <1>13, <2>3
    <3>2. recs[Len(r) + (j + 1)] = d[j + 1]
      BY <1>7, <3>1 DEF Acts, Closes
    <3> QED
      BY <2>1, <2>3, <3>1, <3>2, SMTT(30)
  <2> QED
    BY <1>6, <1>12, <2>2, <2>3
<1>17. sess'.reloads \in Nat /\ fails' \in Nat
  <2>1. Len(o.reloads) \in Nat
    BY <1>5, <1>6 DEF Reports
  <2>2. Min2(q + 1, Len(o.reloads)) \in Nat
    BY <1>13, <1>12, <2>1 DEF Min2
  <2> QED
    <3>1. sess'.reloads = sess.reloads + Min2(q + 1, Len(o.reloads))
      BY <1>9
    <3>2. fails' = fails \/ fails' = fails + 1
      BY <1>9 DEF Written
    <3>3. PICK x \in Nat : x = Min2(q + 1, Len(o.reloads))
      BY <2>2
    <3>4. sess.reloads + x \in Nat /\ fails + 1 \in Nat
      BY <1>4
    <3> QED
      BY <1>4, <3>1, <3>2, <3>3, <3>4
<1>18. sess' = [agent   |-> IF o.renewed /\ k = Len(r) /\ j = Len(d)
                            THEN o.auth.generation ELSE sess.agent,
                counter |-> IF k = Len(r) /\ j = Len(d) THEN n ELSE sess.counter,
                reloads |-> sess'.reloads]
  BY <1>9, <1>13
<1>19. ActLeaves(o, r, d, k, j, b, id, token, verdict, out)
  <2>1. Note(q > Preamble(o), Act(Len(log) + Preamble(o) + 1,
                                IF token = NoToken THEN o.auth.current
                                                   ELSE DelegOf[token],
                                o.auth.bundle))
        = Note(b > 0, Act(Len(log) + Len(r) + Len(d) + 1,
                                IF token = NoToken THEN o.auth.current
                                                   ELSE DelegOf[token],
                                o.auth.bundle))
    <3>1. Len(log) + Preamble(o) + 1 = Len(log) + Len(r) + Len(d) + 1
      BY <1>6, <1>8, <1>13
    <3> QED
      BY <1>13, <3>1 DEF Note
  <2> QED
    BY <1>9, <1>10, <1>13, <1>14, <1>15, <1>16, <1>17, <1>18, <2>1
       DEF ActLeaves, n, g, v, pass
<1> QED
  BY <1>2, <1>5, <1>19

(* A message whose method is not a string goes out, but never as an act.   *)
LEMMA HandledFacts ==
    ASSUME TypeOK, NEW id, NEW t, NEW v, NEW out, Handled(id, t, v, out)
    PROVE  /\ id \in Ids \cup {NoId}
           /\ v = "deny" \/ id \in ActIds \cup {NoId}
           /\ sess.counter + 1 \in 1 .. MaxCalls
           /\ out \subseteq Messages
           /\ \A m \in out : m.kind = "malformed" /\ m.id \in MachineryIds
           /\ \A m \in out : Http
<1>1. sess.counter + 1 \in 1 .. MaxCalls
  BY GatewayAssumption DEF TypeOK, Handled, Arbitrate
<1>2. CASE id \in ActIds \cup {NoId} /\ out = {}
  BY <1>1, <1>2 DEF Ids
<1>3. CASE /\ id \in MachineryIds /\ v = "deny" /\ Http
           /\ out = {Message("malformed", id, sess.counter + 1)}
  <2>1. PICK m : m = Message("malformed", id, sess.counter + 1)
    OBVIOUS
  <2>2. m \in Messages /\ m.kind = "malformed" /\ m.id = id
    BY <1>1, <1>3, <2>1, GatewayAssumption DEF Message, Messages
  <2> QED
    BY <1>1, <1>3, <2>1, <2>2 DEF Ids
<1> QED
  BY <1>2, <1>3 DEF Handled

(* The log keeps what it holds; up to `at' come records of the identity,   *)
(* each below its parent, and then b others.                               *)
Appends(at, b) ==
    /\ log' \in Seq(Record)
    /\ Len(log) \in Nat /\ at \in Nat /\ b \in Nat
    /\ Len(log) <= at /\ Len(log') = at + b
    /\ \A i \in 1 .. Len(log) : log'[i] = log[i]
    /\ \A i \in Len(log) + 1 .. at :
          /\ log'[i].id[1] \in Headers
          /\ log'[i].parent # NoParent =>
                \E j \in 1 .. i - 1 : log'[j].id = log'[i].parent

LEMMA WritesAppends ==
    ASSUME TypeOK, NEW o, NEW r, NEW d, NEW k, NEW j, NEW b,
           o.renewed \in BOOLEAN, Reports(r, o), Renews(d, o),
           Writes(r, k, d, j, b)
    PROVE  Appends(Len(log) + k + j, b)
<1>1. Len(log) \in Nat /\ Len(r) \in Nat /\ Len(d) \in Nat
  BY RenewsType, LenProperties DEF TypeOK, Reports
<1>2. k \in Nat /\ j \in Nat /\ b \in Nat /\ k <= Len(r) /\ j <= Len(d)
  BY <1>1 DEF Writes
<1>3. ASSUME NEW i \in Len(log) + 1 .. Len(log) + k + j
      PROVE  /\ log'[i].id[1] \in Headers
             /\ log'[i].parent # NoParent =>
                   \E h \in 1 .. i - 1 : log'[h].id = log'[i].parent
  <2>1. CASE i <= Len(log) + k
    <3>1. PICK x \in 1 .. k : i = Len(log) + x
      <4>1. i - Len(log) \in 1 .. k /\ i = Len(log) + (i - Len(log))
        BY <1>1, <1>2, <2>1
      <4> QED
        BY <4>1
    <3>2. log'[i] = r[x] /\ x \in 1 .. Len(r)
      BY <1>1, <1>2, <3>1 DEF Writes
    <3> QED
      BY <3>2 DEF Reports, Headers
  <2>2. CASE Len(log) + k < i
    <3>1. PICK x \in 1 .. j : i = Len(log) + k + x
      <4>1. i - (Len(log) + k) \in 1 .. j /\ i = Len(log) + k + (i - (Len(log) + k))
        BY <1>1, <1>2, <2>2
      <4> QED
        BY <4>1
    <3>2. log'[i] = d[x] /\ x \in 1 .. Len(d)
      BY <1>1, <1>2, <3>1 DEF Writes
    <3>3. o.renewed
      <4>1. Len(<< >>) = 0
        OBVIOUS
      <4> QED
        BY <1>2, <3>1, <4>1 DEF Renews
    <3>4. /\ d[x].id[1] \in {"deleg", "label", "actor", "agent"}
          /\ d[x].parent # NoParent => \E h \in 1 .. x - 1 : d[h].id = d[x].parent
      BY <3>2, <3>3 DEF Renews, Introduces
    <3>5. ASSUME d[x].parent # NoParent
          PROVE  \E h \in 1 .. i - 1 : log'[h].id = log'[i].parent
      <4>1. PICK h \in 1 .. x - 1 : d[h].id = d[x].parent
        BY <3>4, <3>5
      <4>2. h \in 1 .. j /\ Len(log) + k + h \in 1 .. i - 1
        BY <1>1, <1>2, <3>1
      <4>3. log'[Len(log) + k + h] = d[h]
        BY <4>2 DEF Writes
      <4> QED
        BY <3>2, <4>1, <4>2, <4>3
    <3> QED
      BY <3>2, <3>4, <3>5 DEF Headers
  <2> QED
    BY <1>1, <1>2, <2>1, <2>2
<1>4. Len(log) + k + j \in Nat /\ Len(log) <= Len(log) + k + j
  BY <1>1, <1>2
<1> QED
  BY <1>1, <1>2, <1>3, <1>4 DEF Appends, Writes

(* A handler that writes nothing but an act.                               *)
LEMMA TripleFacts ==
    ASSUME TypeOK, NEW n \in Nat, NEW g \in Nat, NEW v \in {"allow", "deny"},
           NEW e \in {"done", "blocked"},
           NEW k \in 0 .. 3, Written(<<CallRec(n, g), DecRec(n, v), EffRec(n, e)>>, k)
    PROVE  /\ Appends(Len(log), k) /\ Attempt(Len(log), n, g, v, e, k)
           /\ fails' \in Nat
<1> DEFINE c == CallRec(n, g)
           f == DecRec(n, v)
           h == EffRec(n, e)
<1>1. c \in Record /\ f \in Record /\ h \in Record
  BY ActRecType
<1>2. log \in Seq(Record) /\ Len(log) \in Nat /\ fails \in Nat
  BY LenProperties DEF TypeOK
<1>3. fails' \in Nat
  BY <1>2 DEF Written
<1>4. log' = log \o SubSeq(<<c, f, h>>, 1, k)
  BY DEF Written
<1> HIDE DEF c, f, h
<1>5. PICK s : s = <<c, f, h>>
  OBVIOUS
<1>6. s \in Seq(Record) /\ Len(s) = 3 /\ s[1] = c /\ s[2] = f /\ s[3] = h
  BY <1>1, <1>5
<1>7. log' \in Seq(Record) /\ Puts(log', log, s, k)
  BY <1>2, <1>4, <1>5, <1>6, PutFacts
<1>8. /\ k >= 1 => 1 \in 1 .. k
      /\ k >= 2 => 2 \in 1 .. k
      /\ k >= 3 => 3 \in 1 .. k
  OBVIOUS
<1>9. Attempt(Len(log), n, g, v, e, k)
  BY <1>2, <1>6, <1>7, <1>8 DEF Attempt, Puts, c, f, h
<1>10. Appends(Len(log), k)
  BY <1>2, <1>7 DEF Appends, Puts
<1> QED
  BY <1>3, <1>9, <1>10

LEMMA PairFacts ==
    ASSUME TypeOK, NEW n \in Nat, NEW g \in Nat, NEW v \in {"allow", "deny"},
           NEW k \in 0 .. 2, Written(<<CallRec(n, g), DecRec(n, v)>>, k)
    PROVE  /\ Appends(Len(log), k) /\ Attempt(Len(log), n, g, v, "blocked", k)
           /\ fails' \in Nat
<1> DEFINE c == CallRec(n, g)
           f == DecRec(n, v)
<1>1. c \in Record /\ f \in Record
  BY ActRecType
<1>2. log \in Seq(Record) /\ Len(log) \in Nat /\ fails \in Nat
  BY LenProperties DEF TypeOK
<1>3. fails' \in Nat
  BY <1>2 DEF Written
<1>4. log' = log \o SubSeq(<<c, f>>, 1, k)
  BY DEF Written
<1> HIDE DEF c, f
<1>5. PICK s : s = <<c, f>>
  OBVIOUS
<1>6. s \in Seq(Record) /\ Len(s) = 2 /\ s[1] = c /\ s[2] = f
  BY <1>1, <1>5
<1>7. log' \in Seq(Record) /\ Puts(log', log, s, k)
  BY <1>2, <1>4, <1>5, <1>6, PutFacts
<1>8. /\ k >= 1 => 1 \in 1 .. k
      /\ k >= 2 => 2 \in 1 .. k
      /\ k \in 0 .. 3 /\ ~(k >= 3)
  OBVIOUS
<1>9. Attempt(Len(log), n, g, v, "blocked", k)
  BY <1>2, <1>6, <1>7, <1>8 DEF Attempt, Puts, c, f
<1>10. Appends(Len(log), k)
  BY <1>2, <1>7 DEF Appends, Puts
<1> QED
  BY <1>3, <1>9, <1>10

(* A handler that writes the effect of a call that went out.               *)
LEMMA CloseFacts ==
    ASSUME TypeOK, NEW n \in Nat, NEW k \in 0 .. 1,
           Written(<<EffRec(n, "done")>>, k)
    PROVE  /\ Appends(Len(log), k) /\ fails' \in Nat
           /\ k = 1 => log'[Len(log) + 1] = EffRec(n, "done")
<1> DEFINE h == EffRec(n, "done")
<1>1. h \in Record
  BY ActRecType
<1>2. log \in Seq(Record) /\ Len(log) \in Nat /\ fails \in Nat
  BY LenProperties DEF TypeOK
<1>3. fails' \in Nat
  BY <1>2 DEF Written
<1>4. log' = log \o SubSeq(<<h>>, 1, k)
  BY DEF Written
<1> HIDE DEF h
<1>5. PICK s : s = <<h>>
  OBVIOUS
<1>6. s \in Seq(Record) /\ Len(s) = 1 /\ s[1] = h
  BY <1>1, <1>5
<1>7. log' \in Seq(Record) /\ Puts(log', log, s, k)
  BY <1>2, <1>4, <1>5, <1>6, PutFacts
<1>8. k = 1 => 1 \in 1 .. k
  OBVIOUS
<1>9. k = 1 => log'[Len(log) + 1] = EffRec(n, "done")
  BY <1>6, <1>7, <1>8 DEF Puts, h
<1>10. Appends(Len(log), k)
  BY <1>2, <1>7 DEF Appends, Puts
<1> QED
  BY <1>3, <1>9, <1>10

(* HandleUnsolicited, when it writes.                                      *)
LEMMA UnsolicitedStep ==
    ASSUME TypeOK, NEW id, HandleUnsolicited(id)
    PROVE  \/ Http /\ id = NoId /\ UNCHANGED <<log, fails, sess>>
           \/ /\ sess' = [sess EXCEPT !.counter = sess.counter + 1]
              /\ fails' \in Nat
              /\ \E k \in 0 .. 3 :
                    /\ Appends(Len(log), k)
                    /\ Attempt(Len(log), sess.counter + 1, sess.agent, "deny",
                               "blocked", k)
<1>1. sess.counter + 1 \in Nat /\ sess.agent \in Nat
  BY DEF TypeOK
<1>2. CASE Http /\ id = NoId
  BY <1>2 DEF HandleUnsolicited
<1>3. CASE ~(Http /\ id = NoId)
  <2>1. PICK k \in 0 .. 3 : Written(<<CallRec(sess.counter + 1, sess.agent),
                DecRec(sess.counter + 1, "deny"), EffRec(sess.counter + 1, "blocked")>>, k)
    BY <1>3 DEF HandleUnsolicited
  <2>2. /\ Appends(Len(log), k)
        /\ Attempt(Len(log), sess.counter + 1, sess.agent, "deny", "blocked", k)
        /\ fails' \in Nat
    BY <1>1, <2>1, TripleFacts
  <2> QED
    BY <1>3, <2>2 DEF HandleUnsolicited
<1> QED
  BY <1>2, <1>3

LEMMA NotifiesStep ==
    ASSUME TypeOK, NEW verdict \in {"allow", "deny"}, ServerNotifies(verdict)
    PROVE  /\ sess' = [sess EXCEPT !.counter = sess.counter + 1]
           /\ fails' \in Nat
           /\ \E k \in 0 .. 3, v \in {"allow", "deny"} :
                /\ Appends(Len(log), k)
                /\ Attempt(Len(log), sess.counter + 1, sess.agent, v,
                           IF v = "allow" THEN "done" ELSE "blocked", k)
                /\ hist' = Note(k > 0, ServerAct)
<1>1. sess.counter + 1 \in Nat /\ sess.agent \in Nat
  BY DEF TypeOK
<1>2. PICK v \in {"allow", "deny"} : v = ServerVerdict(verdict)
  BY DEF ServerVerdict
<1>3. PICK e \in {"done", "blocked"} : e = IF v = "allow" THEN "done" ELSE "blocked"
  OBVIOUS
<1>4. PICK k \in 0 .. 3 : /\ Written(<<CallRec(sess.counter + 1, sess.agent),
                              DecRec(sess.counter + 1, v), EffRec(sess.counter + 1, e)>>, k)
                          /\ hist' = Note(k > 0, ServerAct)
  BY <1>2, <1>3 DEF ServerNotifies
<1>5. /\ Appends(Len(log), k)
      /\ Attempt(Len(log), sess.counter + 1, sess.agent, v, e, k)
      /\ fails' \in Nat
  BY <1>1, <1>4, TripleFacts
<1> QED
  BY <1>3, <1>4, <1>5 DEF ServerNotifies

LEMMA AsksStep ==
    ASSUME TypeOK, NEW id, NEW verdict \in {"allow", "deny"}, ServerAsks(id, verdict)
    PROVE  /\ sess' = [sess EXCEPT !.counter = sess.counter + 1]
           /\ fails' \in Nat
           /\ \E k \in 0 .. 3, v \in {"allow", "deny"}, pass \in BOOLEAN, open \in BOOLEAN :
                /\ Appends(Len(log), k)
                /\ Attempt(Len(log), sess.counter + 1, sess.agent, v, "blocked", k)
                /\ pass => k <= 2 /\ v = "allow" /\ (id = NoId \/ toAgent[id] = 0)
                /\ open = (pass /\ k = 2 /\ id # NoId)
                /\ toAgent' = IF open THEN [toAgent EXCEPT ![id] = sess.counter + 1]
                              ELSE toAgent
                /\ hist' = IF open THEN [Note(k > 0, ServerAct) EXCEPT !.asked[id] = @ + 1]
                              ELSE Note(k > 0, ServerAct)
<1> DEFINE n == sess.counter + 1
<1>1. n \in Nat /\ sess.agent \in Nat
  BY DEF TypeOK
<1>2. PICK v \in {"allow", "deny"} : v = ServerVerdict(verdict)
  BY DEF ServerVerdict
<1>3. PICK pass \in BOOLEAN : pass = (v = "allow" /\ (id = NoId \/ toAgent[id] = 0))
  OBVIOUS
<1> DEFINE c == CallRec(n, sess.agent)
           f == DecRec(n, v)
           h == EffRec(n, "blocked")
           recs == <<c, f>> \o (IF pass THEN << >> ELSE <<h>>)
<1>4. PICK k \in 0 .. Len(recs) :
            /\ Written(recs, k)
            /\ toAgent' = IF k = Len(recs) /\ pass /\ id # NoId
                          THEN [toAgent EXCEPT ![id] = n] ELSE toAgent
            /\ hist' = IF k = Len(recs) /\ pass /\ id # NoId
                       THEN [Note(k > 0, ServerAct) EXCEPT !.asked[id] = @ + 1]
                       ELSE Note(k > 0, ServerAct)
  BY <1>2, <1>3 DEF ServerAsks
<1>5. c \in Record /\ f \in Record /\ h \in Record
  BY <1>1, ActRecType
<1>6. CASE pass
  <2>1. recs = <<c, f>>
    <3>1. recs = <<c, f>> \o << >>
      BY <1>6
    <3> HIDE DEF c, f, recs
    <3>2. <<c, f>> \in Seq(Record)
      BY <1>5
    <3> QED
      BY <3>1, <3>2, JoinedNone
  <2>2. Len(recs) = 2 /\ Written(<<c, f>>, k)
    BY <1>4, <2>1
  <2>3. k \in 0 .. 2
    BY <2>2
  <2>4. /\ Appends(Len(log), k)
        /\ Attempt(Len(log), n, sess.agent, v, "blocked", k)
        /\ fails' \in Nat
    BY <1>1, <2>2, <2>3, PairFacts
  <2>5. PICK open \in BOOLEAN : open = (pass /\ k = 2 /\ id # NoId)
    OBVIOUS
  <2>6. open <=> (k = Len(recs) /\ pass /\ id # NoId)
    BY <2>2, <2>5
  <2> HIDE DEF recs, c, f
  <2>7. /\ toAgent' = IF open THEN [toAgent EXCEPT ![id] = n] ELSE toAgent
        /\ hist' = IF open THEN [Note(k > 0, ServerAct) EXCEPT !.asked[id] = @ + 1]
                      ELSE Note(k > 0, ServerAct)
    BY <1>4, <2>6
  <2>8. k \in 0 .. 3 /\ k <= 2
    BY <2>3
  <2> QED
    BY <1>3, <1>6, <2>4, <2>5, <2>7, <2>8 DEF ServerAsks
<1>7. CASE ~pass
  <2>1. recs = <<c, f, h>>
    <3>1. recs = <<c, f>> \o <<h>>
      BY <1>7
    <3> HIDE DEF c, f, h, recs
    <3>2. PICK s, t : s = <<c, f>> /\ t = <<c, f, h>>
      OBVIOUS
    <3>3. /\ s \in Seq(Record) /\ Len(s) = 2 /\ s[1] = c /\ s[2] = f
          /\ t \in Seq(Record) /\ Len(t) = 3 /\ t[1] = c /\ t[2] = f /\ t[3] = h
      BY <1>5, <3>2
    <3>4. recs = s \o <<h>> /\ s \in Seq(Record)
      BY <3>1, <3>2, <3>3
    <3>5. /\ recs \in Seq(Record) /\ Len(recs) = Len(s) + 1
          /\ \A i \in 1 .. Len(s) : recs[i] = s[i]
          /\ recs[Len(s) + 1] = h
      BY <1>5, <3>4, JoinedOne
    <3>6. Len(recs) = 3 /\ recs[1] = c /\ recs[2] = f /\ recs[3] = h
      BY <3>3, <3>5
    <3>7. \A i \in 1 .. Len(recs) : recs[i] = t[i]
      <4>1. \A i \in 1 .. 3 : i = 1 \/ i = 2 \/ i = 3
        OBVIOUS
      <4> QED
        BY <3>3, <3>6, <4>1
    <3> QED
      BY <3>2, <3>3, <3>5, <3>6, <3>7, SeqEqual
  <2>2. Len(recs) = 3 /\ Written(<<c, f, h>>, k)
    BY <1>4, <2>1
  <2>3. k \in 0 .. 3
    BY <2>2
  <2>4. /\ Appends(Len(log), k)
        /\ Attempt(Len(log), n, sess.agent, v, "blocked", k)
        /\ fails' \in Nat
    BY <1>1, <2>2, <2>3, TripleFacts
  <2>5. PICK open \in BOOLEAN : open = FALSE
    OBVIOUS
  <2> HIDE DEF recs, c, f
  <2>7. /\ toAgent' = IF open THEN [toAgent EXCEPT ![id] = n] ELSE toAgent
        /\ hist' = IF open THEN [Note(k > 0, ServerAct) EXCEPT !.asked[id] = @ + 1]
                      ELSE Note(k > 0, ServerAct)
    BY <1>4, <1>7, <2>5
  <2> QED
    BY <1>7, <2>3, <2>4, <2>5, <2>7 DEF ServerAsks
<1> QED
  BY <1>6, <1>7

(* What a request that is not arbitrated leaves behind: its two kinds of   *)
(* records, each up to its first failure.                                  *)
BearerLeaves(o, r, d, k, j) ==
    /\ Writes(r, k, d, j, 0)
    /\ k < Len(r) => "reload" \in FailAt
    /\ j < Len(d) => d[j + 1].id[1] \in FailAt
    /\ auth' = o.auth
    /\ sess' = [agent   |-> IF o.renewed /\ j = Len(d) THEN o.auth.generation
                                                       ELSE sess.agent,
                counter |-> sess.counter,
                reloads |-> sess'.reloads]
    /\ sess'.reloads \in Nat /\ fails' \in Nat

LEMMA BearerStep ==
    ASSUME TypeOK, NEW token \in Tokens, PresentBearer(token)
    PROVE  \E o, r, d, k, j :
              /\ Checked(o) /\ Reports(r, o) /\ Renews(d, o)
              /\ BearerLeaves(o, r, d, k, j)
<1>1. PICK o \in Present(auth, token, published, expired) :
        LET recs1 == ReloadRecords(o.reloads, o.auth, sess.reloads)
            recs2 == IF o.renewed THEN DelegationRecords(o.auth) ELSE << >>
        IN  \E k1 \in 0 .. Len(recs1), k2 \in 0 .. Len(recs2) :
            LET missed == (IF k1 < Len(recs1) THEN 1 ELSE 0) +
                          (IF k2 < Len(recs2) THEN 1 ELSE 0)
            IN  /\ k1 < Len(recs1) => "reload" \in FailAt
                /\ k2 < Len(recs2) => recs2[k2 + 1].id[1] \in FailAt
                /\ fails + missed <= MaxFails
                /\ fails' = fails + missed
                /\ log' = log \o SubSeq(recs1, 1, k1) \o SubSeq(recs2, 1, k2)
                /\ auth' = o.auth
                /\ sess' = [sess EXCEPT
                              !.agent = IF o.renewed /\ k2 = Len(recs2)
                                        THEN o.auth.generation ELSE @,
                              !.reloads = @ + Len(recs1)]
  BY DEF PresentBearer
<1>2. Http
  BY DEF PresentBearer
<1>3. Checked(o)
  <2>1. /\ o.auth \in AuthState /\ o.reloads \in Notices
        /\ o.renewed \in BOOLEAN /\ o.denied \in BOOLEAN
        /\ o.reloads # <<"applied">> => o.auth.bundle = auth.bundle
        /\ ~o.renewed => /\ o.auth.current = auth.current
                         /\ o.auth.generation = auth.generation
        /\ o.renewed => o.auth.generation > 1
        /\ ~o.denied => o.auth.current \notin expired
        /\ Http /\ Faithful(auth) => /\ Faithful(o.auth)
                                     /\ ~o.denied => o.auth.current = DelegOf[token]
    BY PresentFacts
  <2> QED
    BY <1>2, <2>1 DEF Checked
<1>4. /\ o.auth \in AuthState /\ o.reloads \in Notices
      /\ o.renewed \in BOOLEAN
  BY <1>3 DEF Checked
<1>5. /\ sess \in [agent : Nat, counter : 0 .. MaxCalls, reloads : Nat]
      /\ sess.reloads \in Nat /\ log \in Seq(Record) /\ fails \in Nat
      /\ Len(log) \in Nat
  BY LenProperties DEF TypeOK
<1> DEFINE r == ReloadRecords(o.reloads, o.auth, sess.reloads)
           d == IF o.renewed THEN DelegationRecords(o.auth) ELSE << >>
<1>6. Reports(r, o) /\ Renews(d, o)
  BY <1>4, <1>5, ReportFacts, RenewsFacts
<1>7. r \in Seq(Record) /\ d \in Seq(Record) /\ Len(r) \in Nat /\ Len(d) \in Nat
  BY <1>4, <1>6, RenewsType, LenProperties DEF Reports
<1>8. PICK k \in 0 .. Len(r), j \in 0 .. Len(d) :
        /\ k < Len(r) => "reload" \in FailAt
        /\ j < Len(d) => d[j + 1].id[1] \in FailAt
        /\ fails' = fails + ((IF k < Len(r) THEN 1 ELSE 0) +
                             (IF j < Len(d) THEN 1 ELSE 0))
        /\ log' = log \o SubSeq(r, 1, k) \o SubSeq(d, 1, j)
        /\ auth' = o.auth
        /\ sess' = [sess EXCEPT
                      !.agent = IF o.renewed /\ j = Len(d)
                                THEN o.auth.generation ELSE @,
                      !.reloads = @ + Len(r)]
  BY <1>1
<1> HIDE DEF r, d
<1>9. Writes(r, k, d, j, 0)
  <2>1. PICK m : m = log \o SubSeq(r, 1, k)
    OBVIOUS
  <2>2. m \in Seq(Record) /\ Puts(m, log, r, k)
    BY <1>5, <1>7, <2>1, PutFacts
  <2>3. PICK l : l = m \o SubSeq(d, 1, j)
    OBVIOUS
  <2>4. l \in Seq(Record) /\ Puts(l, m, d, j)
    BY <1>7, <2>2, <2>3, PutFacts
  <2>5. l = log'
    BY <1>8, <2>1, <2>3
  <2>6. k \in Nat /\ j \in Nat /\ Len(m) = Len(log) + k /\ Len(l) = Len(m) + j
    BY <1>7, <2>2, <2>4 DEF Puts
  <2>7. ASSUME NEW i \in 1 .. Len(log) PROVE l[i] = log[i]
    <3>1. i \in 1 .. Len(m)
      BY <1>5, <2>6
    <3> QED
      BY <2>2, <2>4, <3>1 DEF Puts
  <2>8. ASSUME NEW i \in 1 .. k PROVE l[Len(log) + i] = r[i]
    <3>1. Len(log) + i \in 1 .. Len(m)
      BY <1>5, <2>6
    <3> QED
      BY <2>2, <2>4, <3>1 DEF Puts
  <2>9. ASSUME NEW i \in 1 .. j PROVE l[Len(log) + k + i] = d[i]
    BY <2>4, <2>6 DEF Puts
  <2>10. Len(l) = Len(log) + k + j + 0
    BY <1>5, <2>6
  <2> QED
    BY <2>4, <2>5, <2>7, <2>8, <2>9, <2>10 DEF Writes
<1>10. fails' \in Nat
  <2>1. PICK u \in {0, 1}, w \in {0, 1} : u = (IF k < Len(r) THEN 1 ELSE 0)
                                       /\ w = (IF j < Len(d) THEN 1 ELSE 0)
    OBVIOUS
  <2>2. fails' = fails + (u + w)
    BY <1>8, <2>1
  <2>3. fails \in Nat
    BY <1>5
  <2> QED
    BY <2>2, <2>3
<1>11. /\ sess'.reloads \in Nat
       /\ sess' = [agent   |-> IF o.renewed /\ j = Len(d) THEN o.auth.generation
                                                          ELSE sess.agent,
                   counter |-> sess.counter,
                   reloads |-> sess'.reloads]
  <2>1. sess.reloads + Len(r) \in Nat
    BY <1>5, <1>7
  <2>2. PICK g : g = IF o.renewed /\ j = Len(d) THEN o.auth.generation ELSE sess.agent
    OBVIOUS
  <2>3. sess' = [sess EXCEPT !.agent = g, !.reloads = sess.reloads + Len(r)]
    BY <1>8, <2>2
  <2>4. sess' = [agent |-> g, counter |-> sess.counter,
                 reloads |-> sess.reloads + Len(r)]
    BY <1>5, <2>3
  <2> QED
    BY <2>1, <2>2, <2>4
<1>12. BearerLeaves(o, r, d, k, j)
  BY <1>8, <1>9, <1>10, <1>11 DEF BearerLeaves
<1> QED
  BY <1>3, <1>6, <1>12

(* The records a session opens its chain with.                             *)
Opens(s, a) ==
    /\ s \in Seq(Record)
    /\ Len(s) \in Nat \ {0}
    /\ \A i \in 1 .. Len(s) :
          /\ s[i].id[1] \in Headers \ {"reload"}
          /\ s[i].parent # NoParent => \E j \in 1 .. i - 1 : s[j].id = s[i].parent
    /\ \E h \in 1 .. Len(s) :
          /\ s[h].id = <<"deleg", a.generation>> /\ s[h].val = a.current
          /\ \A i \in 1 .. Len(s) : s[i].id[1] = "deleg" => i = h
    /\ s[Len(s)].id = <<"agent", a.generation>>
    /\ \A i \in 1 .. Len(s) - 1 : s[i].id[1] # "agent"

LEMMA OpeningFacts ==
    ASSUME NEW a \in AuthState
    PROVE  Opens(OpeningRecords(a), a)
<1> DEFINE x == IF TwoTier THEN <<Rec("cert", 1, NoParent, "cert")>> ELSE << >>
           y == IF Deployment THEN <<Rec("deployment", 1, NoParent, "applied")>>
                ELSE << >>
           d == DelegationRecords(a)
<1>1. /\ Rec("cert", 1, NoParent, "cert") \in Record
      /\ Rec("deployment", 1, NoParent, "applied") \in Record
  <2>1. "cert" \in Kinds /\ "deployment" \in Kinds /\ "cert" \in Vals
        /\ "applied" \in Vals /\ 1 \in Nat
    BY DEF Kinds, Vals
  <2> QED
    BY <2>1, NoParentType, RecType
<1>2. /\ x \in Seq(Record) /\ Len(x) \in Nat
      /\ \A i \in 1 .. Len(x) : x[i].id[1] = "cert" /\ x[i].parent = NoParent
  <2>1. PICK q : q = Rec("cert", 1, NoParent, "cert")
    OBVIOUS
  <2>2. q \in Record /\ q.id[1] = "cert" /\ q.parent = NoParent
    BY <1>1, <2>1, RecParts
  <2>3. x = <<q>> \/ x = << >>
    BY <2>1
  <2> HIDE DEF x
  <2>4. CASE x = <<q>>
    <3>1. x \in Seq(Record) /\ Len(x) = 1 /\ x[1] = q
      BY <2>2, <2>4
    <3> QED
      BY <2>2, <3>1
  <2>5. CASE x = << >>
    <3>1. x \in Seq(Record) /\ Len(x) = 0
      BY <2>5
    <3> QED
      BY <3>1
  <2> QED
    BY <2>3, <2>4, <2>5
<1>3. /\ y \in Seq(Record) /\ Len(y) \in Nat
      /\ \A i \in 1 .. Len(y) : y[i].id[1] = "deployment" /\ y[i].parent = NoParent
  <2>1. PICK q : q = Rec("deployment", 1, NoParent, "applied")
    OBVIOUS
  <2>2. q \in Record /\ q.id[1] = "deployment" /\ q.parent = NoParent
    BY <1>1, <2>1, RecParts
  <2>3. y = <<q>> \/ y = << >>
    BY <2>1
  <2> HIDE DEF y
  <2>4. CASE y = <<q>>
    <3>1. y \in Seq(Record) /\ Len(y) = 1 /\ y[1] = q
      BY <2>2, <2>4
    <3> QED
      BY <2>2, <3>1
  <2>5. CASE y = << >>
    <3>1. y \in Seq(Record) /\ Len(y) = 0
      BY <2>5
    <3> QED
      BY <3>1
  <2> QED
    BY <2>3, <2>4, <2>5
<1>4. Introduces(d, a)
  BY DelegationFacts
<1>5. OpeningRecords(a) = x \o y \o d
  BY DEF OpeningRecords
<1> HIDE DEF x, y, d
<1>6. PICK m : m = x \o y
  OBVIOUS
<1>7. m \in Seq(Record) /\ Follows(m, x, y)
  BY <1>2, <1>3, <1>6, JoinFollows
<1>8. \A i \in 1 .. Len(m) : m[i].id[1] \in {"cert", "deployment"} /\ m[i].parent = NoParent
  <2>1. TAKE i \in 1 .. Len(m)
  <2>2. Len(m) = Len(x) + Len(y)
    BY <1>7 DEF Follows
  <2>3. CASE i <= Len(x)
    <3>1. i \in 1 .. Len(x)
      BY <1>2, <1>3, <2>2, <2>3
    <3>2. m[i] = x[i]
      BY <1>7, <3>1 DEF Follows
    <3> QED
      BY <1>2, <3>1, <3>2
  <2>4. CASE ~(i <= Len(x))
    <3>1. i - Len(x) \in 1 .. Len(y) /\ i = Len(x) + (i - Len(x))
      BY <1>2, <1>3, <2>2, <2>4
    <3>2. m[i] = y[i - Len(x)]
      BY <1>7, <3>1 DEF Follows
    <3> QED
      BY <1>3, <3>1, <3>2
  <2> QED
    BY <2>3, <2>4
<1>9. PICK s : s = m \o d
  OBVIOUS
<1>10. d \in Seq(Record) /\ Len(d) \in {3, 4}
  BY <1>4 DEF Introduces
<1>11. s \in Seq(Record) /\ Follows(s, m, d)
  BY <1>7, <1>9, <1>10, JoinFollows
<1>12. Len(m) \in Nat /\ Len(s) = Len(m) + Len(d)
  BY <1>11 DEF Follows
<1>13. ASSUME NEW i \in 1 .. Len(s)
       PROVE  \/ /\ i \in 1 .. Len(m) /\ s[i] = m[i]
              \/ \E z \in 1 .. Len(d) : i = Len(m) + z /\ s[i] = d[z]
  <2>1. CASE i <= Len(m)
    <3>1. i \in 1 .. Len(m)
      BY <1>12, <2>1
    <3> QED
      BY <1>11, <3>1 DEF Follows
  <2>2. CASE ~(i <= Len(m))
    <3>1. i - Len(m) \in 1 .. Len(d) /\ i = Len(m) + (i - Len(m))
      BY <1>10, <1>12, <2>2
    <3>2. s[Len(m) + (i - Len(m))] = d[i - Len(m)]
      BY <1>11, <3>1 DEF Follows
    <3> QED
      BY <3>1, <3>2
  <2> QED
    BY <2>1, <2>2
<1>14. ASSUME NEW i \in 1 .. Len(s)
       PROVE  /\ s[i].id[1] \in Headers \ {"reload"}
              /\ s[i].parent # NoParent => \E j \in 1 .. i - 1 : s[j].id = s[i].parent
              /\ s[i].id[1] = "deleg" => i = Len(m) + 1
              /\ s[i].id[1] = "agent" => i = Len(s)
  <2>1. CASE i \in 1 .. Len(m) /\ s[i] = m[i]
    BY <1>8, <2>1 DEF Headers
  <2>2. CASE \E z \in 1 .. Len(d) : i = Len(m) + z /\ s[i] = d[z]
    <3>1. PICK z \in 1 .. Len(d) : i = Len(m) + z /\ s[i] = d[z]
      BY <2>2
    <3>2. /\ d[z].id[1] \in {"deleg", "label", "actor", "agent"}
          /\ d[z].parent # NoParent => \E j \in 1 .. z - 1 : d[j].id = d[z].parent
          /\ z \in 2 .. Len(d) => d[z].id[1] # "deleg"
          /\ z \in 1 .. Len(d) - 1 => d[z].id[1] # "agent"
      BY <1>4 DEF Introduces
    <3>3. ASSUME d[z].parent # NoParent
          PROVE  \E j \in 1 .. i - 1 : s[j].id = s[i].parent
      <4>1. PICK j \in 1 .. z - 1 : d[j].id = d[z].parent
        BY <3>2, <3>3
      <4>2. j \in 1 .. Len(d) /\ Len(m) + j \in 1 .. i - 1
        BY <1>10, <1>12, <3>1
      <4>3. s[Len(m) + j] = d[j]
        BY <1>11, <4>2 DEF Follows
      <4> QED
        BY <3>1, <4>1, <4>2, <4>3
    <3>4. z \in 2 .. Len(d) \/ z = 1
      BY <1>10
    <3>5. z \in 1 .. Len(d) - 1 \/ i = Len(s)
      BY <1>10, <1>12, <3>1
    <3> QED
      BY <3>1, <3>2, <3>3, <3>4, <3>5 DEF Headers
  <2> QED
    BY <1>13, <2>1, <2>2
<1>15. /\ Len(m) + 1 \in 1 .. Len(s) /\ 1 \in 1 .. Len(d) /\ Len(d) \in 1 .. Len(d)
       /\ Len(s) = Len(m) + Len(d) /\ Len(s) \in Nat \ {0}
  <2>1. PICK x1, x2, x3 : x1 = Len(m) /\ x2 = Len(d) /\ x3 = Len(s)
    OBVIOUS
  <2>2. x1 \in Nat /\ (x2 = 3 \/ x2 = 4) /\ x3 = x1 + x2
    BY <1>10, <1>12, <2>1
  <2>3. x1 + 1 \in 1 .. x3 /\ 1 \in 1 .. x2 /\ x2 \in 1 .. x2 /\ x3 \in Nat \ {0}
    BY <2>2
  <2> QED
    BY <2>1, <2>2, <2>3
<1>16. s[Len(m) + 1] = d[1] /\ s[Len(s)] = d[Len(d)]
  BY <1>11, <1>15 DEF Follows
<1>17. /\ d[1].id = <<"deleg", a.generation>> /\ d[1].val = a.current
       /\ d[Len(d)].id = <<"agent", a.generation>>
  BY <1>4 DEF Introduces
<1>18. \A i \in 1 .. Len(s) - 1 : s[i].id[1] # "agent"
  <2>1. \A i \in 1 .. Len(s) - 1 : i \in 1 .. Len(s) /\ i # Len(s)
    BY <1>15
  <2> QED
    BY <1>14, <2>1
<1>19. Opens(s, a)
  BY <1>11, <1>14, <1>15, <1>16, <1>17, <1>18 DEF Opens
<1> QED
  BY <1>5, <1>6, <1>9, <1>19

LEMMA OpenAuthFacts ==
    ASSUME NEW t \in Tokens, NEW b \in Bundles, NEW s \in Tokens \cup {NoToken},
           NEW a, a = OpenAuth(t, b, s)
    PROVE  /\ a \in AuthState
           /\ a.current = DelegOf[t] /\ a.presented = s /\ a.generation = 1
           /\ a.bundle = b
<1>1. DelegOf[t] \in Delegations
  BY AuthAssumption
<1> QED
  BY <1>1 DEF OpenAuth, AuthState

LEMMA RestartStep ==
    ASSUME TypeOK, Restart
    PROVE  /\ auth' = OpenAuth(tokenFile, published, NoToken)
           /\ auth' \in AuthState /\ auth'.generation = 1
           /\ auth'.current = DelegOf[tokenFile] /\ auth'.presented = NoToken
           /\ auth'.bundle = published /\ published \in Bundles
           /\ tokenFile \in Tokens
           /\ \E s : /\ Opens(s, auth')
                     /\ log' = log \o s
                     /\ Follows(log', log, s)
                     /\ Appends(Len(log) + Len(s), 0)
<1>1. tokenFile \in Tokens /\ published \in Bundles
  BY DEF Restart, TypeOK, Http
<1>2. auth' = OpenAuth(tokenFile, published, NoToken)
  BY DEF Restart
<1>3. /\ auth' \in AuthState /\ auth'.generation = 1
      /\ auth'.current = DelegOf[tokenFile] /\ auth'.presented = NoToken
      /\ auth'.bundle = published
  BY <1>1, <1>2, OpenAuthFacts
<1>4. PICK s : s = OpeningRecords(auth')
  OBVIOUS
<1>5. Opens(s, auth')
  BY <1>3, <1>4, OpeningFacts
<1>6. log' = log \o s
  BY <1>4 DEF Restart
<1>7. s \in Seq(Record) /\ log \in Seq(Record)
  BY <1>5 DEF Opens, TypeOK
<1>8. log' \in Seq(Record) /\ Follows(log', log, s)
  BY <1>6, <1>7, JoinFollows
<1>9. Len(log) \in Nat /\ Len(s) \in Nat
  BY <1>8 DEF Follows
<1>10. ASSUME NEW i \in Len(log) + 1 .. Len(log) + Len(s)
       PROVE  /\ log'[i].id[1] \in Headers
              /\ log'[i].parent # NoParent =>
                   \E h \in 1 .. i - 1 : log'[h].id = log'[i].parent
  <2>1. PICK x \in 1 .. Len(s) : i = Len(log) + x
    <3>1. i - Len(log) \in 1 .. Len(s) /\ i = Len(log) + (i - Len(log))
      BY <1>9
    <3> QED
      BY <3>1
  <2>2. log'[i] = s[x]
    BY <1>8, <2>1 DEF Follows
  <2>3. /\ s[x].id[1] \in Headers
        /\ s[x].parent # NoParent => \E h \in 1 .. x - 1 : s[h].id = s[x].parent
    BY <1>5 DEF Opens
  <2>4. ASSUME s[x].parent # NoParent
        PROVE  \E h \in 1 .. i - 1 : log'[h].id = log'[i].parent
    <3>1. PICK h \in 1 .. x - 1 : s[h].id = s[x].parent
      BY <2>3, <2>4
    <3>2. h \in 1 .. Len(s) /\ Len(log) + h \in 1 .. i - 1
      BY <1>9, <2>1
    <3>3. log'[Len(log) + h] = s[h]
      BY <1>8, <3>2 DEF Follows
    <3> QED
      BY <2>2, <3>1, <3>2, <3>3
  <2> QED
    BY <2>2, <2>3, <2>4
<1>11. Len(log) + Len(s) \in Nat /\ Len(log) <= Len(log) + Len(s)
       /\ Len(log') = Len(log) + Len(s) + 0
  BY <1>8, <1>9 DEF Follows
<1>12. Appends(Len(log) + Len(s), 0)
  BY <1>8, <1>9, <1>10, <1>11 DEF Appends, Follows
<1> QED
  BY <1>1, <1>2, <1>3, <1>5, <1>6, <1>8, <1>12

-----------------------------------------------------------------------------
(***************************************************************************)
(* Type correctness.                                                       *)
(***************************************************************************)

ActNotes == [at : Nat, who : Delegations, trust : Bundles]

(* h is the history with one more act.                                     *)
Noted(h, a) ==
    /\ h \in History
    /\ h.acts = hist.acts \cup {a}
    /\ h.by = hist.by
    /\ h.asked = hist.asked /\ h.replied = hist.replied

LEMMA NoteFacts ==
    ASSUME hist \in History, NEW at \in Nat, NEW who \in Delegations,
           NEW trust \in Bundles
    PROVE  Noted([hist EXCEPT !.acts = hist.acts \cup {Act(at, who, trust)}],
                 Act(at, who, trust))
<1>1. PICK a : a = Act(at, who, trust)
  OBVIOUS
<1>2. a \in ActNotes
  BY <1>1 DEF Act, ActNotes
<1>3. PICK h : h = [hist EXCEPT !.acts = hist.acts \cup {a}]
  OBVIOUS
<1>4. hist.acts \cup {a} \in SUBSET ActNotes
  BY <1>2 DEF History, ActNotes
<1>5. Noted(h, a)
  BY <1>3, <1>4 DEF History, Noted, ActNotes
<1> QED
  BY <1>1, <1>3, <1>5

LEMMA ServerNote ==
    ASSUME TypeOK
    PROVE  Noted([hist EXCEPT !.acts = hist.acts \cup {ServerAct}], ServerAct)
<1>1. PICK at : at = Len(log) + 1
  OBVIOUS
<1>2. /\ at \in Nat /\ auth.current \in Delegations
      /\ auth.bundle \in Bundles /\ hist \in History
  BY <1>1, LenProperties DEF TypeOK, AuthState
<1>3. ServerAct = Act(at, auth.current, auth.bundle)
  BY <1>1 DEF ServerAct
<1> QED
  BY <1>2, <1>3, NoteFacts

LEMMA AskedOnce ==
    ASSUME NEW h \in History, NEW id \in ServerIds
    PROVE  /\ [h EXCEPT !.asked[id] = @ + 1] \in History
           /\ [h EXCEPT !.replied[id] = @ + 1] \in History
BY DEF History

LEMMA MessageType ==
    ASSUME NEW id, NEW n
    PROVE  /\ id \in ActIds \cup {NoId} /\ n \in 1 .. MaxCalls =>
                 Message("act", id, n) \in Messages
           /\ id \in MachineryIds => Message("machinery", id, 0) \in Messages
           /\ id \in MachineryIds \cup {NoId} /\ n \in 0 .. MaxCalls =>
                 Message("malformed", id, n) \in Messages
           /\ id \in ServerIds \cup {NoId} /\ n \in 0 .. MaxCalls =>
                 Message("answer", id, n) \in Messages
           /\ \A k : /\ Message(k, id, n).kind = k
                     /\ Message(k, id, n).id = id /\ Message(k, id, n).n = n
BY DEF Message, Messages

LEMMA MessageParts ==
    ASSUME NEW m \in Messages
    PROVE  /\ m.kind \in {"act", "machinery", "malformed", "answer"}
           /\ m.n \in 0 .. MaxCalls
           /\ m.kind = "act" => m.id \in ActIds \cup {NoId} /\ m.n \in 1 .. MaxCalls
           /\ m.kind = "machinery" => m.id \in MachineryIds /\ m.n = 0
           /\ m.kind = "malformed" => m.id \in MachineryIds \cup {NoId}
           /\ m.kind # "answer" /\ m.id # NoId => m.id \in Ids
BY GatewayAssumption DEF Messages, Ids

LEMMA TypeInit == Init => TypeOK
<1> SUFFICES ASSUME Init PROVE TypeOK
  OBVIOUS
<1>1. published \in Bundles
  BY DEF Init
<1>2. /\ auth \in AuthState /\ auth.generation = 1 /\ auth.bundle \in Bundles
      /\ tokenFile \in Tokens \cup {NoToken}
  <2>1. PICK t \in Tokens :
          \/ auth = OpenAuth(t, published, t) /\ tokenFile = NoToken
          \/ auth = OpenAuth(t, published, NoToken) /\ tokenFile = t
    BY DEF Init
  <2> QED
    BY <1>1, <2>1, OpenAuthFacts
<1>3. sess \in [agent : Nat, counter : 0 .. MaxCalls, reloads : Nat]
  BY <1>2, GatewayAssumption DEF Init, NewSession
<1>4. log \in Seq(Record)
  BY <1>2, OpeningFacts DEF Init, Opens
<1>5. pending \in [Ids -> 0 .. MaxCalls] /\ toAgent \in [ServerIds -> 0 .. MaxCalls]
      /\ disp \in [call : 0 .. MaxCalls, answer : 0 .. MaxCalls]
  BY GatewayAssumption DEF Init
<1>6. /\ relayed \subseteq ServerIds /\ IsFiniteSet(relayed)
      /\ Cardinality(relayed) <= MaxRelayed
  BY GatewayAssumption, FS_EmptySet DEF Init
<1>7. hist \in History
  <2>1. PICK z : z = [i \in ServerIds |-> 0]
    OBVIOUS
  <2>2. z \in [ServerIds -> Nat]
    BY <2>1
  <2>3. hist = [acts |-> {}, by |-> {}, asked |-> z, replied |-> z]
    BY <2>1 DEF Init
  <2> QED
    BY <2>2, <2>3 DEF History
<1> QED
  BY <1>1, <1>2, <1>3, <1>4, <1>5, <1>6, <1>7 DEF Init, TypeOK

LEMMA TypeAct ==
    ASSUME TypeOK, NEW id \in Ids \cup {NoId}, NEW token \in Bearers,
           NEW verdict \in {"allow", "deny"}, NEW out,
           Handled(id, token, verdict, out)
    PROVE  TypeOK'
<1>0. PICK o \in Identify(token) : \E r, d, k, j, b :
              /\ Checked(o) /\ Reports(r, o) /\ Renews(d, o)
              /\ ActLeaves(o, r, d, k, j, b, id, token, verdict, out)
  BY ActStep
<1>1. PICK r, d, k, j, b :
              /\ Checked(o) /\ Reports(r, o) /\ Renews(d, o)
              /\ ActLeaves(o, r, d, k, j, b, id, token, verdict, out)
  BY <1>0
<1> DEFINE n == sess.counter + 1
<1>2. n \in 1 .. MaxCalls /\ sess.counter \in 0 .. MaxCalls /\ sess.agent \in Nat
  BY GatewayAssumption, HandledFacts DEF TypeOK
<1> HIDE DEF n
<1>3. /\ o.auth \in AuthState /\ o.auth.generation \in Nat
      /\ o.auth.current \in Delegations /\ o.auth.bundle \in Bundles
      /\ o.renewed \in BOOLEAN
  BY <1>1 DEF Checked, AuthState
<1>4. auth' \in AuthState
  BY <1>1, <1>3 DEF ActLeaves
<1>5. sess' \in [agent : Nat, counter : 0 .. MaxCalls, reloads : Nat]
  <2>1. PICK x, y, z : sess' = [agent |-> x, counter |-> y, reloads |-> z]
                       /\ x \in Nat /\ y \in 0 .. MaxCalls /\ z \in Nat
    BY <1>1, <1>2, <1>3, SMTT(30) DEF ActLeaves, n
  <2> QED
    BY <2>1
<1>6. pending' \in [Ids -> 0 .. MaxCalls]
  <2>1. pending \in [Ids -> 0 .. MaxCalls]
    BY DEF TypeOK
  <2>2. pending' = pending \/ (id \in Ids /\ pending' = [pending EXCEPT ![id] = n])
    BY <1>1 DEF ActLeaves, n
  <2> QED
    BY <1>2, <2>1, <2>2
<1>7. toServer' \subseteq Messages
  <2>1. CASE toServer' = out \cup toServer
    BY <2>1, HandledFacts DEF TypeOK
  <2>2. CASE /\ Passes(o, id, verdict)
             /\ toServer' = out \cup (toServer \cup {Message("act", id, n)})
    <3>1. id \in ActIds \cup {NoId} /\ out \subseteq Messages
      BY <2>2, HandledFacts DEF Passes
    <3>2. Message("act", id, n) \in Messages
      BY <1>2, <3>1, MessageType
    <3> QED
      BY <2>2, <3>1, <3>2 DEF TypeOK
  <2> QED
    BY <1>1, <2>1, <2>2 DEF ActLeaves, n
<1>8. log' \in Seq(Record) /\ fails' \in Nat
  BY <1>1 DEF ActLeaves, Writes
<1>9. hist' \in History
  <2>1. PICK at : at = Len(log) + Len(r) + Len(d) + 1
    OBVIOUS
  <2>2. at \in Nat
    BY <1>1, <1>3, <2>1, RenewsType, LenProperties DEF TypeOK, Reports
  <2>3. PICK who : who = IF token = NoToken THEN o.auth.current ELSE DelegOf[token]
    OBVIOUS
  <2>4. who \in Delegations
    BY <1>3, <2>3, AuthAssumption, IdentifyFacts
  <2>5. hist' = Note(b > 0, Act(at, who, o.auth.bundle))
    BY <1>1, <2>1, <2>3 DEF ActLeaves
  <2>6. CASE b > 0
    <3>1. hist' = [hist EXCEPT !.acts = hist.acts \cup {Act(at, who, o.auth.bundle)}]
      BY <2>5, <2>6 DEF Note
    <3>2. Noted(hist', Act(at, who, o.auth.bundle))
      BY <1>3, <2>2, <2>4, <3>1, NoteFacts DEF TypeOK
    <3> QED
      BY <3>2 DEF Noted
  <2>7. CASE ~(b > 0)
    BY <2>5, <2>7 DEF Note, TypeOK
  <2> QED
    BY <2>6, <2>7
<1>10. UNCHANGED <<envVars, toAgent, relayed, atServer, disp>>
  BY <1>1 DEF ActLeaves
<1> QED
  BY <1>4, <1>5, <1>6, <1>7, <1>8, <1>9, <1>10 DEF TypeOK, envVars

LEMMA TypeBearer ==
    ASSUME TypeOK, NEW token \in Tokens, PresentBearer(token)
    PROVE  TypeOK'
<1>1. PICK o, r, d, k, j :
              /\ Checked(o) /\ Reports(r, o) /\ Renews(d, o)
              /\ BearerLeaves(o, r, d, k, j)
  BY BearerStep
<1>2. o.auth \in AuthState /\ o.auth.generation \in Nat
  BY <1>1 DEF Checked, AuthState
<1>3. auth' \in AuthState
  BY <1>1, <1>2 DEF BearerLeaves
<1>4. sess' \in [agent : Nat, counter : 0 .. MaxCalls, reloads : Nat]
  <2>1. sess.agent \in Nat /\ sess.counter \in 0 .. MaxCalls
    BY DEF TypeOK
  <2>2. PICK x, z : sess' = [agent |-> x, counter |-> sess.counter, reloads |-> z]
                    /\ x \in Nat /\ z \in Nat
    BY <1>1, <1>2, <2>1 DEF BearerLeaves
  <2> QED
    BY <2>1, <2>2
<1>5. log' \in Seq(Record) /\ fails' \in Nat
  BY <1>1 DEF BearerLeaves, Writes
<1>6. UNCHANGED <<envVars, pending, toAgent, relayed, wireVars, disp, hist>>
  BY DEF PresentBearer
<1> QED
  BY <1>3, <1>4, <1>5, <1>6 DEF TypeOK, envVars, wireVars

LEMMA TypeUnsolicited ==
    ASSUME TypeOK, NEW id \in ServerIds \cup {NoId}, HandleUnsolicited(id)
    PROVE  TypeOK'
<1>1. sess \in [agent : Nat, counter : 0 .. MaxCalls, reloads : Nat]
      /\ sess.counter < MaxCalls /\ MaxCalls \in Nat
  BY GatewayAssumption DEF TypeOK, HandleUnsolicited
<1>2. /\ sess' \in [agent : Nat, counter : 0 .. MaxCalls, reloads : Nat]
      /\ log' \in Seq(Record) /\ fails' \in Nat
  <2>1. CASE Http /\ id = NoId /\ UNCHANGED <<log, fails, sess>>
    BY <2>1 DEF TypeOK
  <2>2. CASE /\ sess' = [sess EXCEPT !.counter = sess.counter + 1]
             /\ fails' \in Nat
             /\ \E k \in 0 .. 3 : Appends(Len(log), k)
    <3>1. sess.counter + 1 \in 0 .. MaxCalls
      BY <1>1
    <3>2. log' \in Seq(Record)
      BY <2>2 DEF Appends
    <3> QED
      BY <1>1, <2>2, <3>1, <3>2
  <2> QED
    BY <2>1, <2>2, UnsolicitedStep
<1>3. toServer' \subseteq Messages
  <2>1. Message("answer", id, 0) \in Messages
    BY MessageType, GatewayAssumption
  <2> QED
    BY <2>1 DEF TypeOK, HandleUnsolicited
<1>4. hist' \in History
  <2>1. PICK h : h = Note(Len(log') > Len(log), ServerAct)
    OBVIOUS
  <2>2. h = hist \/ h = [hist EXCEPT !.acts = hist.acts \cup {ServerAct}]
    BY <2>1 DEF Note
  <2>3. h \in History
    BY <2>2, ServerNote DEF Noted, TypeOK
  <2>4. hist' = h \/ (id # NoId /\ hist' = [h EXCEPT !.replied[id] = @ + 1])
    BY <2>1 DEF HandleUnsolicited
  <2> QED
    BY <2>3, <2>4, AskedOnce
<1>5. UNCHANGED <<auth, envVars, pending, toAgent, relayed, atServer, disp>>
  BY DEF HandleUnsolicited
<1> QED
  BY <1>2, <1>3, <1>4, <1>5 DEF TypeOK, envVars

LEMMA TypeAnswer ==
    ASSUME TypeOK, NEW id \in ServerIds, HandleAnswer(id)
    PROVE  TypeOK'
<1>1. toAgent[id] \in 0 .. MaxCalls /\ toAgent[id] \in Nat
      /\ toAgent \in [ServerIds -> 0 .. MaxCalls] /\ MaxCalls \in Nat
  BY GatewayAssumption DEF TypeOK
<1>2. log' \in Seq(Record) /\ fails' \in Nat
  <2>1. CASE toAgent[id] # 0
    <3>1. PICK k \in 0 .. 1 : Written(<<EffRec(toAgent[id], "done")>>, k)
      BY <2>1 DEF HandleAnswer
    <3> QED
      BY <1>1, <3>1, CloseFacts DEF Appends
  <2>2. CASE toAgent[id] = 0
    BY <2>2 DEF HandleAnswer, TypeOK
  <2> QED
    BY <2>1, <2>2
<1>3. toAgent' \in [ServerIds -> 0 .. MaxCalls]
  <2>1. 0 \in 0 .. MaxCalls
    BY <1>1
  <2>2. toAgent' = toAgent \/ toAgent' = [toAgent EXCEPT ![id] = 0]
    BY DEF HandleAnswer
  <2> QED
    BY <1>1, <2>1, <2>2
<1>4. /\ relayed' \subseteq ServerIds /\ IsFiniteSet(relayed')
      /\ Cardinality(relayed') <= MaxRelayed
  <2>1. relayed' = relayed \/ relayed' = relayed \ {id}
    BY DEF HandleAnswer
  <2>2. /\ relayed \subseteq ServerIds /\ IsFiniteSet(relayed)
        /\ Cardinality(relayed) <= MaxRelayed /\ MaxRelayed \in Nat
    BY GatewayAssumption DEF TypeOK
  <2>3. relayed' \subseteq relayed
    BY <2>1
  <2>4. IsFiniteSet(relayed') /\ Cardinality(relayed') <= Cardinality(relayed)
    BY <2>2, <2>3, FS_Subset
  <2>5. Cardinality(relayed) \in Nat /\ Cardinality(relayed') \in Nat
    BY <2>2, <2>4, FS_CardinalityType
  <2> QED
    BY <2>2, <2>3, <2>4, <2>5
<1>5. toServer' \subseteq Messages
  <2>1. /\ Message("answer", id, toAgent[id]) \in Messages
        /\ Message("answer", id, 0) \in Messages
    BY <1>1, MessageType
  <2>2. \/ toServer' = toServer \cup {Message("answer", id, toAgent[id])}
        \/ toServer' = toServer \cup {Message("answer", id, 0)}
    BY DEF HandleAnswer
  <2> QED
    BY <2>1, <2>2 DEF TypeOK
<1>6. hist' \in History
  BY AskedOnce DEF HandleAnswer, TypeOK
<1>7. UNCHANGED <<auth, envVars, sess, pending, atServer, disp>>
  BY DEF HandleAnswer
<1> QED
  BY <1>2, <1>3, <1>4, <1>5, <1>6, <1>7 DEF TypeOK, envVars

LEMMA TypeWire ==
    ASSUME TypeOK,
           \/ \E id \in MachineryIds : HandleMachinery(id)
           \/ RelayMalformed
           \/ \E m \in toServer : Deliver(m)
           \/ \E m \in atServer : ServerAnswers(m)
           \/ \E id \in Ids : ServerMakesUp(id)
           \/ CloseEffect
    PROVE  TypeOK'
<1> USE GatewayAssumption DEF TypeOK, envVars, wireVars
<1>1. ASSUME NEW id \in MachineryIds, HandleMachinery(id) PROVE TypeOK'
  <2>1. Message("machinery", id, 0) \in Messages
    BY MessageType
  <2> QED
    BY <1>1, <2>1 DEF HandleMachinery
<1>7. ASSUME RelayMalformed PROVE TypeOK'
  <2>1. Message("malformed", NoId, 0) \in Messages
    BY MessageType
  <2> QED
    BY <1>7, <2>1 DEF RelayMalformed
<1>2. ASSUME NEW m \in toServer, Deliver(m) PROVE TypeOK'
  BY <1>2 DEF Deliver
<1>3. ASSUME NEW id \in Ids, NEW n \in 0 .. MaxCalls, TakePending(id, n)
      PROVE  /\ disp' \in [call : 0 .. MaxCalls, answer : 0 .. MaxCalls]
             /\ pending' \in [Ids -> 0 .. MaxCalls]
  BY <1>3 DEF TakePending
<1>4. ASSUME NEW m \in atServer, ServerAnswers(m) PROVE TypeOK'
  <2>1. m.id \in Ids /\ m.n \in 0 .. MaxCalls
    BY MessageParts
  <2> QED
    BY <1>3, <1>4, <2>1 DEF ServerAnswers
<1>5. ASSUME NEW id \in Ids, ServerMakesUp(id) PROVE TypeOK'
  <2>1. 0 \in 0 .. MaxCalls
    OBVIOUS
  <2> QED
    BY <1>3, <1>5, <2>1 DEF ServerMakesUp
<1>6. ASSUME CloseEffect PROVE TypeOK'
  <2>1. disp.call \in 0 .. MaxCalls /\ disp.answer \in 0 .. MaxCalls
        /\ disp.call \in Nat
    OBVIOUS
  <2>2. log' \in Seq(Record) /\ fails' \in Nat
    <3>1. PICK k \in 0 .. 1 : Written(<<EffRec(disp.call, "done")>>, k)
      BY <1>6 DEF CloseEffect
    <3> QED
      BY <2>1, <3>1, CloseFacts DEF Appends
  <2>3. hist' \in History
    <3>1. PICK q : q = hist.by \cup {<<disp.call, disp.answer>>}
      OBVIOUS
    <3>2. q \in SUBSET ((0 .. MaxCalls) \X (0 .. MaxCalls))
      BY <2>1, <3>1 DEF History
    <3>3. hist' = [hist EXCEPT !.by = q]
      BY <1>6, <3>1 DEF CloseEffect
    <3> QED
      BY <3>2, <3>3 DEF History
  <2>4. disp' \in [call : 0 .. MaxCalls, answer : 0 .. MaxCalls]
    BY <1>6 DEF CloseEffect
  <2>5. UNCHANGED <<auth, envVars, sess, pending, toAgent, relayed, wireVars>>
    BY <1>6 DEF CloseEffect
  <2> QED
    BY <2>2, <2>3, <2>4, <2>5
<1> QED
  BY <1>1, <1>2, <1>4, <1>5, <1>6, <1>7

LEMMA TypeServer ==
    ASSUME TypeOK,
           \/ \E id \in ServerIds : ServerPings(id)
           \/ \E id \in ServerIds \cup {NoId}, v \in {"allow", "deny"} :
                ServerAsks(id, v)
           \/ \E v \in {"allow", "deny"} : ServerNotifies(v)
    PROVE  TypeOK'
<1>1. /\ sess \in [agent : Nat, counter : 0 .. MaxCalls, reloads : Nat]
      /\ MaxCalls \in Nat /\ hist \in History
  BY GatewayAssumption DEF TypeOK
<1>2. sess.counter < MaxCalls =>
        /\ sess.counter + 1 \in 0 .. MaxCalls
        /\ [sess EXCEPT !.counter = sess.counter + 1]
             \in [agent : Nat, counter : 0 .. MaxCalls, reloads : Nat]
  BY <1>1
<1>3. ASSUME NEW k, NEW h, h = Note(k > 0, ServerAct)
      PROVE  h \in History
  <2>1. h = hist \/ h = [hist EXCEPT !.acts = hist.acts \cup {ServerAct}]
    BY <1>3 DEF Note
  <2> QED
    BY <1>1, <2>1, ServerNote DEF Noted
<1>4. ASSUME NEW id \in ServerIds, ServerPings(id) PROVE TypeOK'
  <2>1. /\ relayed' \subseteq ServerIds /\ IsFiniteSet(relayed')
        /\ Cardinality(relayed') <= MaxRelayed
    <3>1. /\ relayed \subseteq ServerIds /\ IsFiniteSet(relayed)
          /\ Cardinality(relayed) <= MaxRelayed /\ MaxRelayed \in Nat
      BY GatewayAssumption DEF TypeOK
    <3>2. CASE Cardinality(relayed) < MaxRelayed /\ id \notin relayed
      <4>1. relayed' = relayed \cup {id}
        BY <1>4, <3>2 DEF ServerPings
      <4>2. IsFiniteSet(relayed') /\ Cardinality(relayed') = Cardinality(relayed) + 1
        BY <3>1, <3>2, <4>1, FS_AddElement
      <4>3. Cardinality(relayed) \in Nat
        BY <3>1, FS_CardinalityType
      <4> QED
        BY <3>1, <3>2, <4>1, <4>2, <4>3
    <3>3. CASE ~(Cardinality(relayed) < MaxRelayed /\ id \notin relayed)
      <4>1. relayed' = relayed
        BY <1>4, <3>3 DEF ServerPings
      <4> QED
        BY <3>1, <4>1
    <3> QED
      BY <3>2, <3>3
  <2>2. hist' \in History
    BY <1>1, <1>4, AskedOnce DEF ServerPings
  <2> QED
    BY <1>4, <2>1, <2>2 DEF ServerPings, TypeOK, envVars, wireVars
<1>5. ASSUME NEW id \in ServerIds \cup {NoId}, NEW v \in {"allow", "deny"},
             ServerAsks(id, v)
      PROVE  TypeOK'
  <2>1. sess.counter < MaxCalls
    BY <1>5 DEF ServerAsks
  <2>2. /\ sess' = [sess EXCEPT !.counter = sess.counter + 1]
        /\ fails' \in Nat
        /\ \E k \in 0 .. 3, open \in BOOLEAN :
              /\ Appends(Len(log), k)
              /\ open => id # NoId
              /\ toAgent' = IF open THEN [toAgent EXCEPT ![id] = sess.counter + 1]
                            ELSE toAgent
              /\ hist' = IF open THEN [Note(k > 0, ServerAct) EXCEPT !.asked[id] = @ + 1]
                            ELSE Note(k > 0, ServerAct)
    BY <1>5, AsksStep
  <2>3. PICK k \in 0 .. 3, open \in BOOLEAN :
              /\ Appends(Len(log), k)
              /\ open => id # NoId
              /\ toAgent' = IF open THEN [toAgent EXCEPT ![id] = sess.counter + 1]
                            ELSE toAgent
              /\ hist' = IF open THEN [Note(k > 0, ServerAct) EXCEPT !.asked[id] = @ + 1]
                            ELSE Note(k > 0, ServerAct)
    BY <2>2
  <2>4. toAgent' \in [ServerIds -> 0 .. MaxCalls]
    BY <1>2, <2>1, <2>3 DEF TypeOK
  <2>5. hist' \in History
    <3>1. PICK h : h = Note(k > 0, ServerAct)
      OBVIOUS
    <3>2. h \in History
      BY <1>3, <3>1
    <3>3. hist' = h \/ (id \in ServerIds /\ hist' = [h EXCEPT !.asked[id] = @ + 1])
      BY <2>3, <3>1
    <3> QED
      BY <3>2, <3>3, AskedOnce
  <2>6. UNCHANGED <<auth, envVars, pending, relayed, wireVars, disp>>
    BY <1>5 DEF ServerAsks
  <2>7. log' \in Seq(Record)
    BY <2>3 DEF Appends
  <2>8. sess' \in [agent : Nat, counter : 0 .. MaxCalls, reloads : Nat]
    BY <1>2, <2>1, <2>2
  <2> QED
    BY <2>2, <2>4, <2>5, <2>6, <2>7, <2>8 DEF TypeOK, envVars, wireVars
<1>6. ASSUME NEW v \in {"allow", "deny"}, ServerNotifies(v) PROVE TypeOK'
  <2>1. sess.counter < MaxCalls
    BY <1>6 DEF ServerNotifies
  <2>2. PICK k \in 0 .. 3 : Appends(Len(log), k) /\ hist' = Note(k > 0, ServerAct)
    BY <1>6, NotifiesStep
  <2>3. hist' \in History
    BY <1>3, <2>2
  <2>4. sess' \in [agent : Nat, counter : 0 .. MaxCalls, reloads : Nat]
        /\ fails' \in Nat
    BY <1>2, <1>6, <2>1, NotifiesStep
  <2>5. log' \in Seq(Record)
    BY <2>2 DEF Appends
  <2>6. UNCHANGED <<auth, envVars, pending, toAgent, relayed, wireVars, disp>>
    BY <1>6 DEF ServerNotifies
  <2> QED
    BY <2>3, <2>4, <2>5, <2>6 DEF TypeOK, envVars, wireVars
<1> QED
  BY <1>4, <1>5, <1>6

LEMMA TypeWorld ==
    ASSUME TypeOK, World
    PROVE  TypeOK'
<1>1. ASSUME NEW d \in Delegations, Expire(d) PROVE TypeOK'
  BY <1>1 DEF TypeOK, Expire, wireVars
<1>2. ASSUME NEW b \in Bundles \cup {NoBundle}, Publish(b) PROVE TypeOK'
  BY <1>2 DEF TypeOK, Publish, wireVars
<1>3. ASSUME NEW t \in Tokens, RenewTokenFile(t) PROVE TypeOK'
  BY <1>3 DEF TypeOK, RenewTokenFile, wireVars
<1>4. ASSUME Restart PROVE TypeOK'
  <2>1. /\ auth' \in AuthState /\ auth'.generation = 1
        /\ auth'.bundle \in Bundles /\ log' \in Seq(Record)
    BY <1>4, RestartStep DEF Appends
  <2>2. sess' \in [agent : Nat, counter : 0 .. MaxCalls, reloads : Nat]
    BY <1>4, <2>1, GatewayAssumption DEF Restart, NewSession
  <2>3. /\ pending' \in [Ids -> 0 .. MaxCalls] /\ toAgent' \in [ServerIds -> 0 .. MaxCalls]
        /\ disp' \in [call : 0 .. MaxCalls, answer : 0 .. MaxCalls]
    BY <1>4, GatewayAssumption DEF Restart
  <2>4. /\ relayed' \subseteq ServerIds /\ IsFiniteSet(relayed')
        /\ Cardinality(relayed') <= MaxRelayed
    BY <1>4, GatewayAssumption, FS_EmptySet DEF Restart
  <2>5. hist' \in History
    <3>1. PICK z : z = [i \in ServerIds |-> 0]
      OBVIOUS
    <3>2. z \in [ServerIds -> Nat]
      BY <3>1
    <3>3. hist' = [hist EXCEPT !.asked = z, !.replied = z]
      BY <1>4, <3>1 DEF Restart
    <3> QED
      BY <3>2, <3>3 DEF History, TypeOK
  <2>6. toServer' = {} /\ atServer' = {} /\ restarts' \in Nat
        /\ UNCHANGED <<published, tokenFile, expired, fails>>
    BY <1>4 DEF Restart, TypeOK
  <2> QED
    BY <2>1, <2>2, <2>3, <2>4, <2>5, <2>6 DEF TypeOK
<1> QED
  BY <1>1, <1>2, <1>3, <1>4 DEF World

LEMMA TypeStep == TypeOK /\ [Next]_vars => TypeOK'
<1> SUFFICES ASSUME TypeOK, [Next]_vars PROVE TypeOK'
  OBVIOUS
<1>1. CASE FromAgent
  BY <1>1, AgentCases, TypeAct, TypeBearer, TypeUnsolicited, TypeAnswer, TypeWire
     DEF Handles
<1>2. CASE \E m \in toServer : Deliver(m)
  BY <1>2, TypeWire
<1>3. CASE FromServer
  BY <1>3, TypeWire, TypeServer DEF FromServer
<1>4. CASE World
  BY <1>4, TypeWorld
<1>5. CASE UNCHANGED vars
  BY <1>5 DEF vars, TypeOK
<1> QED
  BY <1>1, <1>2, <1>3, <1>4, <1>5 DEF Next

(* Every variable of the gateway keeps its type, whatever fails.           *)
THEOREM TypeCorrect == Spec => []TypeOK
BY TypeInit, TypeStep, PTL DEF Spec

-----------------------------------------------------------------------------
(***************************************************************************)
(* No act under an expired delegation.                                     *)
(***************************************************************************)

(* What only an act the engine allows can add to the server's messages.    *)
LEMMA OnlyActsAdd ==
    ASSUME TypeOK, [Next]_vars, NEW m \in toServer' \ toServer, m.kind = "act"
    PROVE  Handles
<1>1. ASSUME NEW id \in MachineryIds, HandleMachinery(id) PROVE FALSE
  <2>1. m = Message("machinery", id, 0)
    BY <1>1 DEF HandleMachinery
  <2> QED
    BY <2>1 DEF Message
<1>8. ASSUME RelayMalformed PROVE FALSE
  <2>1. m = Message("malformed", NoId, 0)
    BY <1>8 DEF RelayMalformed
  <2> QED
    BY <2>1 DEF Message
<1>2. ASSUME NEW id \in ServerIds, HandleAnswer(id) PROVE FALSE
  <2>1. \/ m = Message("answer", id, toAgent[id])
        \/ m = Message("answer", id, 0)
    BY <1>2 DEF HandleAnswer
  <2> QED
    BY <2>1 DEF Message
<1>3. ASSUME NEW id \in ServerIds \cup {NoId}, HandleUnsolicited(id) PROVE FALSE
  <2>1. m = Message("answer", id, 0)
    BY <1>3 DEF HandleUnsolicited
  <2> QED
    BY <2>1 DEF Message
<1>4. ASSUME \/ \E t \in Tokens : PresentBearer(t)
             \/ \E x \in toServer : Deliver(x)
      PROVE  FALSE
  <2>1. (\E t \in Tokens : PresentBearer(t)) => toServer' = toServer
    BY DEF PresentBearer, wireVars
  <2>2. (\E x \in toServer : Deliver(x)) => toServer' \subseteq toServer
    BY DEF Deliver
  <2> QED
    BY <1>4, <2>1, <2>2
<1>5. ASSUME FromServer PROVE FALSE
  BY <1>5 DEF FromServer, ServerAnswers, ServerMakesUp, CloseEffect, ServerPings,
              ServerAsks, ServerNotifies, wireVars
<1>6. ASSUME World PROVE FALSE
  BY <1>6 DEF World, Expire, Publish, RenewTokenFile, Restart, wireVars
<1>7. ASSUME UNCHANGED vars PROVE FALSE
  BY <1>7 DEF vars
<1> QED
  BY <1>1, <1>2, <1>3, <1>4, <1>5, <1>6, <1>7, <1>8, AgentCases DEF Next

LEMMA ExpiryStep ==
    TypeOK /\ [Next]_vars =>
        \A m \in toServer' \ toServer :
            m.kind = "act" => auth'.current \notin expired
<1> SUFFICES ASSUME TypeOK, [Next]_vars, NEW m \in toServer' \ toServer,
                    m.kind = "act"
             PROVE  auth'.current \notin expired
  OBVIOUS
<1>0. PICK id \in Ids \cup {NoId}, t \in Bearers, v \in {"allow", "deny"} :
        \E out : Handled(id, t, v, out)
  BY OnlyActsAdd DEF Handles
<1>1. PICK out : Handled(id, t, v, out)
  BY <1>0
<1>2. PICK o, r, d, k, j, b :
        Checked(o) /\ ActLeaves(o, r, d, k, j, b, id, t, v, out)
  BY <1>1, ActStep
<1>3. Passes(o, id, v) /\ auth' = o.auth
  <2>1. m \notin out
    BY <1>1, HandledFacts
  <2> QED
    BY <1>2, <2>1 DEF ActLeaves
<1> QED
  BY <1>2, <1>3 DEF Passes, Checked

(* No act goes out under a delegation that has expired by the time it is   *)
(* decided, whichever way its token came (auth.rs present and refresh).    *)
THEOREM ActsUnexpired == Spec => NoActUnderExpired
<1>1. TypeOK /\ [Next]_vars =>
        [\A m \in toServer' \ toServer :
            m.kind = "act" => auth'.current \notin expired]_vars
  BY ExpiryStep
<1> QED
  BY <1>1, TypeCorrect, PTL DEF Spec, NoActUnderExpired

-----------------------------------------------------------------------------
(***************************************************************************)
(* A server that answers what it is asked: each effect is closed by the    *)
(* answer to its own call.  What makes it so: while a call is in flight    *)
(* under an id, the one message with that id is its own, and it is in one  *)
(* place.                                                                  *)
(***************************************************************************)

(* What an act does to the slots and the messages: nothing, or it passes.  *)
ActSends(id, out) ==
    LET n == sess.counter + 1
    IN  \/ /\ pending' = pending /\ toServer' = out \cup toServer
           /\ sess'.counter \in Nat /\ sess'.counter >= sess.counter
        \/ /\ sess'.counter = n
           /\ id # NoId => pending[id] = 0
           /\ pending' = IF id = NoId THEN pending ELSE [pending EXCEPT ![id] = n]
           /\ id \in ActIds \cup {NoId}
           /\ toServer' = out \cup (toServer \cup {Message("act", id, n)})

LEMMA ActWire ==
    ASSUME TypeOK, NEW id \in Ids \cup {NoId}, NEW t \in Bearers,
           NEW v \in {"allow", "deny"}, NEW out, Handled(id, t, v, out)
    PROVE  /\ ActSends(id, out)
           /\ UNCHANGED <<envVars, toAgent, relayed, atServer, disp>>
           /\ hist'.by = hist.by
<1>1. PICK o, r, d, k, j, b :
              /\ Checked(o) /\ Reports(r, o) /\ Renews(d, o)
              /\ ActLeaves(o, r, d, k, j, b, id, t, v, out)
  BY ActStep
<1>2. sess.counter \in Nat /\ hist \in History
  BY GatewayAssumption DEF TypeOK
<1>3. ASSUME b = (IF Passes(o, id, v) THEN 2 ELSE 3), Passes(o, id, v)
      PROVE  ActSends(id, out)
  <2>1. sess'.counter = sess.counter + 1
    BY <1>1, <1>3 DEF ActLeaves
  <2>2. toServer' = out \cup (toServer \cup {Message("act", id, sess.counter + 1)})
    BY <1>1, <1>3 DEF ActLeaves
  <2>3. pending' = IF id = NoId THEN pending
                   ELSE [pending EXCEPT ![id] = sess.counter + 1]
    BY <1>1, <1>3 DEF ActLeaves
  <2>4. id \in ActIds \cup {NoId} /\ (id # NoId => pending[id] = 0)
    BY <1>3, HandledFacts DEF Passes
  <2> QED
    BY <2>1, <2>2, <2>3, <2>4 DEF ActSends
<1>4. ASSUME ~(b = (IF Passes(o, id, v) THEN 2 ELSE 3) /\ Passes(o, id, v))
      PROVE  ActSends(id, out)
  <2>1. sess'.counter = sess.counter + 1 \/ sess'.counter = sess.counter
    BY <1>1 DEF ActLeaves
  <2>2. pending' = pending /\ toServer' = out \cup toServer
    BY <1>1, <1>4 DEF ActLeaves
  <2>3. sess'.counter \in Nat /\ sess'.counter >= sess.counter
    BY <1>2, <2>1
  <2> QED
    BY <2>2, <2>3 DEF ActSends
<1>5. UNCHANGED <<envVars, toAgent, relayed, atServer, disp>>
  BY <1>1 DEF ActLeaves
<1>6. hist'.by = hist.by
  BY <1>1, <1>2 DEF ActLeaves, Note, History
<1> QED
  BY <1>3, <1>4, <1>5, <1>6

OneHolder ==
    /\ disp.call # 0 => disp.call = disp.answer
    /\ \A i \in MachineryIds : pending[i] = 0
    /\ \A m \in toServer \cup atServer : m.kind = "act" =>
          /\ m.n <= sess.counter
          /\ m.id # NoId => pending[m.id] = m.n
    /\ \A m \in toServer \cap atServer : m.kind # "act"
    /\ EffectClosedByOwnAnswer

LEMMA HolderInit == Init => OneHolder
<1> SUFFICES ASSUME Init PROVE OneHolder
  OBVIOUS
<1>1. hist.by = {} /\ toServer = {} /\ atServer = {} /\ disp.call = 0
  BY DEF Init
<1>2. \A i \in MachineryIds : pending[i] = 0
  BY DEF Init, Ids
<1> QED
  BY <1>1, <1>2 DEF OneHolder, EffectClosedByOwnAnswer

LEMMA HolderAct ==
    ASSUME TypeOK, OneHolder, MachineryIds \cap ActIds = {},
           NEW id, NEW out, ActSends(id, out),
           \A m \in out : m.kind # "act",
           UNCHANGED <<envVars, toAgent, relayed, atServer, disp>>,
           hist'.by = hist.by
    PROVE  OneHolder'
<1>1. sess.counter \in Nat /\ pending \in [Ids -> 0 .. MaxCalls]
  BY GatewayAssumption DEF TypeOK
<1>2. CASE /\ pending' = pending /\ toServer' = out \cup toServer
           /\ sess'.counter \in Nat /\ sess'.counter >= sess.counter
  <2>1. \A m \in toServer \cup atServer : m.kind = "act" => m.n \in Nat
    BY GatewayAssumption, MessageParts DEF TypeOK
  <2> QED
    BY <1>1, <1>2, <2>1 DEF OneHolder, EffectClosedByOwnAnswer
<1>3. CASE LET n == sess.counter + 1
           IN  /\ sess'.counter = n
               /\ id # NoId => pending[id] = 0
               /\ pending' = IF id = NoId THEN pending
                             ELSE [pending EXCEPT ![id] = n]
               /\ id \in ActIds \cup {NoId}
               /\ toServer' = out \cup (toServer \cup {Message("act", id, n)})
  <2> DEFINE n == sess.counter + 1
             a == Message("act", id, n)
  <2>1. \A m \in toServer \cup atServer : m.kind = "act" =>
            m.n \in Nat /\ m.n > 0 /\ m.id \in Ids \cup {NoId}
    BY GatewayAssumption, MessageParts DEF TypeOK
  <2>2. \A m \in toServer \cup atServer : m.kind = "act" =>
            /\ m.n <= sess.counter
            /\ m.id # NoId => pending[m.id] = m.n
    BY DEF OneHolder
  <2>3. a.kind = "act" /\ a.id = id /\ a.n = n
    BY DEF Message
  <2>4. n \in Nat /\ n > sess.counter /\ sess'.counter = n
    BY <1>1, <1>3
  <2>5. id # NoId => id \in Ids /\ id \notin MachineryIds
    BY <1>3 DEF Ids
  <2>6. /\ toServer' = out \cup (toServer \cup {a})
        /\ id # NoId => pending[id] = 0
        /\ pending' = IF id = NoId THEN pending ELSE [pending EXCEPT ![id] = n]
    BY <1>3
  <2> HIDE DEF n, a
  <2>7. a \notin atServer
    BY <1>1, <2>2, <2>3, <2>4
  <2>8. \A i \in MachineryIds : pending'[i] = 0
    BY <1>1, <2>5, <2>6 DEF OneHolder, Ids
  <2>9. ASSUME NEW m \in toServer \cup atServer, m.kind = "act"
        PROVE  m.n <= n /\ (m.id # NoId => pending'[m.id] = m.n)
    <3>1. m.n <= n
      BY <1>1, <2>1, <2>2, <2>4, <2>9
    <3>2. ASSUME m.id # NoId PROVE pending'[m.id] = m.n
      <4>1. pending[m.id] = m.n /\ m.id # id /\ m.id \in Ids
        BY <2>1, <2>2, <2>6, <2>9, <3>2
      <4> QED
        BY <1>1, <2>6, <4>1
    <3> QED
      BY <3>1, <3>2
  <2>10. a.n <= n /\ (a.id # NoId => pending'[a.id] = a.n)
    BY <1>1, <2>3, <2>4, <2>5, <2>6
  <2>11. \A m \in toServer' \cap atServer' : m.kind # "act"
    BY <2>6, <2>7 DEF OneHolder
  <2> QED
    BY <2>4, <2>6, <2>8, <2>9, <2>10, <2>11 DEF OneHolder, EffectClosedByOwnAnswer
<1> QED
  BY <1>2, <1>3 DEF ActSends

(* A slot is emptied: no message in flight is left under its id.           *)
LEMMA HolderTake ==
    ASSUME TypeOK, OneHolder, MachineryIds \cap ActIds = {},
           NEW m \in atServer, ServerAnswers(m)
    PROVE  OneHolder'
<1>1. /\ disp' = [call |-> pending[m.id], answer |-> m.n]
      /\ pending' = [pending EXCEPT ![m.id] = 0]
      /\ atServer' = atServer \ {m}
      /\ UNCHANGED <<sess, toServer, hist>>
  BY DEF ServerAnswers, TakePending, wireVars
<1>2. /\ m \in Messages /\ m.kind # "answer" /\ m.id # NoId
      /\ m.id \in Ids /\ pending \in [Ids -> 0 .. MaxCalls]
  BY GatewayAssumption, MessageParts DEF TypeOK
<1>3. m.kind = "act" => pending[m.id] = m.n
  BY <1>2 DEF OneHolder
<1>4. m.kind \in {"machinery", "malformed"} => pending[m.id] = 0
  BY <1>2, MessageParts DEF OneHolder
<1>5. disp'.call # 0 => disp'.call = disp'.answer
  BY <1>1, <1>2, <1>3, <1>4, MessageParts
<1>6. ASSUME NEW x \in toServer' \cup atServer', x.kind = "act"
      PROVE  x.n <= sess'.counter /\ (x.id # NoId => pending'[x.id] = x.n)
  <2>1. x \in toServer \cup atServer /\ x \in Messages
    BY <1>1, <1>6 DEF TypeOK
  <2>2. x.n <= sess.counter /\ (x.id # NoId => pending[x.id] = x.n)
    BY <1>6, <2>1 DEF OneHolder
  <2>3. x.id # NoId => x.id \in Ids /\ x.n # 0
    BY <1>6, <2>1, MessageParts
  <2>4. x.id = m.id => FALSE
    <3>1. SUFFICES ASSUME x.id = m.id PROVE FALSE
      OBVIOUS
    <3>2. m.kind = "act"
      BY <1>2, <1>4, <2>2, <2>3, <3>1, MessageParts
    <3>3. x.n = m.n
      BY <1>2, <1>3, <2>2, <3>1, <3>2
    <3>4. x = m
      BY <1>2, <1>6, <2>1, <3>1, <3>2, <3>3 DEF Messages
    <3> QED
      BY <1>1, <1>6, <3>2, <3>4 DEF OneHolder
  <2> QED
    BY <1>1, <1>2, <2>2, <2>3, <2>4
<1>7. \A i \in MachineryIds : pending'[i] = 0
  BY <1>1, <1>2 DEF OneHolder, Ids
<1> QED
  BY <1>1, <1>5, <1>6, <1>7 DEF OneHolder, EffectClosedByOwnAnswer

LEMMA HolderStep ==
    ASSUME ~RogueServer, MachineryIds \cap ActIds = {}
    PROVE  TypeOK /\ OneHolder /\ [Next]_vars => OneHolder'
<1> SUFFICES ASSUME TypeOK, OneHolder, [Next]_vars PROVE OneHolder'
  OBVIOUS
<1> DEFINE Rest == UNCHANGED <<pending, atServer, disp>> /\ hist'.by = hist.by
<1>1. ASSUME Rest, sess'.counter = sess.counter,
             toServer' = toServer
                \/ \E i, n : toServer' = toServer \cup {Message("answer", i, n)}
                \/ \E z : toServer' = toServer \cup {Message("machinery", z, 0)}
                \/ \E y : toServer' = toServer \cup {Message("malformed", y, 0)}
      PROVE  OneHolder'
  <2>1. \A m \in toServer' : m \in toServer \/ m.kind # "act"
    BY <1>1 DEF Message
  <2> QED
    BY <1>1, <2>1 DEF OneHolder, EffectClosedByOwnAnswer
<1>2. ASSUME Rest, sess'.counter = sess.counter + 1,
             toServer' = toServer
                \/ \E i, n : toServer' = toServer \cup {Message("answer", i, n)}
      PROVE  OneHolder'
  <2>1. \A m \in toServer' : m \in toServer \/ m.kind # "act"
    BY <1>2 DEF Message
  <2>2. sess.counter \in Nat
    BY GatewayAssumption DEF TypeOK
  <2>3. \A m \in toServer \cup atServer : m.kind = "act" => m.n \in Nat
    BY GatewayAssumption, MessageParts DEF TypeOK
  <2> QED
    BY <1>2, <2>1, <2>2, <2>3 DEF OneHolder, EffectClosedByOwnAnswer
<1>3. ASSUME NEW id \in Ids \cup {NoId}, NEW t \in Bearers,
             NEW v \in {"allow", "deny"}, NEW out, Handled(id, t, v, out)
      PROVE  OneHolder'
  <2>1. \A m \in out : m.kind # "act"
    BY <1>3, HandledFacts
  <2> QED
    BY <1>3, <2>1, ActWire, HolderAct
<1>4. ASSUME NEW id \in MachineryIds, HandleMachinery(id) PROVE OneHolder'
  BY <1>1, <1>4 DEF HandleMachinery
<1>18. ASSUME RelayMalformed PROVE OneHolder'
  BY <1>1, <1>18 DEF RelayMalformed
<1>5. ASSUME NEW t \in Tokens, PresentBearer(t) PROVE OneHolder'
  <2>1. sess'.counter = sess.counter
    BY <1>5 DEF PresentBearer, TypeOK
  <2>2. UNCHANGED <<pending, wireVars, disp, hist>>
    BY <1>5 DEF PresentBearer
  <2> QED
    BY <1>1, <2>1, <2>2 DEF wireVars
<1>6. ASSUME NEW id \in ServerIds, HandleAnswer(id) PROVE OneHolder'
  <2>1. UNCHANGED <<sess, pending, atServer, disp>>
    BY <1>6 DEF HandleAnswer
  <2>2. \E n : toServer' = toServer \cup {Message("answer", id, n)}
    BY <1>6 DEF HandleAnswer
  <2>3. hist'.by = hist.by
    BY <1>6 DEF HandleAnswer, TypeOK, History
  <2> QED
    BY <1>1, <2>1, <2>2, <2>3
<1>7. ASSUME NEW id \in ServerIds \cup {NoId}, HandleUnsolicited(id)
      PROVE  OneHolder'
  <2>1. UNCHANGED <<pending, atServer, disp>>
    BY <1>7 DEF HandleUnsolicited
  <2>2. sess'.counter = sess.counter \/ sess'.counter = sess.counter + 1
    BY <1>7, UnsolicitedStep DEF TypeOK
  <2>3. toServer' = toServer
          \/ \E n : toServer' = toServer \cup {Message("answer", id, n)}
    BY <1>7 DEF HandleUnsolicited
  <2>4. hist'.by = hist.by
    <3>1. PICK h : h = Note(Len(log') > Len(log), ServerAct)
      OBVIOUS
    <3>2. h.by = hist.by /\ h \in History
      BY <3>1, ServerNote DEF Note, Noted, TypeOK, History
    <3>3. hist' = h \/ hist' = [h EXCEPT !.replied[id] = @ + 1]
      BY <1>7, <3>1 DEF HandleUnsolicited
    <3> QED
      BY <3>2, <3>3 DEF History
  <2> QED
    BY <1>1, <1>2, <2>1, <2>2, <2>3, <2>4
<1>8. ASSUME NEW m \in toServer, Deliver(m) PROVE OneHolder'
  <2>1. UNCHANGED <<sess, pending, disp, hist>> /\ toServer' = toServer \ {m}
        /\ atServer' \subseteq atServer \cup {m}
    BY <1>8 DEF Deliver
  <2> QED
    BY <2>1 DEF OneHolder, EffectClosedByOwnAnswer
<1>9. ASSUME NEW m \in atServer, ServerAnswers(m) PROVE OneHolder'
  BY <1>9, HolderTake
<1>10. ASSUME NEW id \in Ids, ServerMakesUp(id) PROVE OneHolder'
  BY <1>10 DEF ServerMakesUp
<1>11. ASSUME CloseEffect PROVE OneHolder'
  <2>1. UNCHANGED <<sess, pending, wireVars>> /\ disp' = [call |-> 0, answer |-> 0]
        /\ disp.call # 0
    BY <1>11 DEF CloseEffect, Idle
  <2>2. disp.call = disp.answer
    BY <2>1 DEF OneHolder
  <2>3. hist'.by = hist.by \cup {<<disp.call, disp.answer>>}
    BY <1>11 DEF CloseEffect, TypeOK, History
  <2> QED
    BY <2>1, <2>2, <2>3 DEF OneHolder, EffectClosedByOwnAnswer, wireVars
<1>12. ASSUME NEW id \in ServerIds, ServerPings(id) PROVE OneHolder'
  <2>1. UNCHANGED <<sess, pending, wireVars, disp>>
    BY <1>12 DEF ServerPings
  <2>2. hist'.by = hist.by
    BY <1>12 DEF ServerPings, TypeOK, History
  <2> QED
    BY <1>1, <2>1, <2>2 DEF wireVars
<1>13. ASSUME NEW k, NEW h, h = Note(k > 0, ServerAct)
       PROVE  h.by = hist.by /\ h \in History
  <2>1. h = hist \/ h = [hist EXCEPT !.acts = hist.acts \cup {ServerAct}]
    BY <1>13 DEF Note
  <2> QED
    BY <2>1, ServerNote DEF Noted, TypeOK
<1>14. ASSUME NEW id \in ServerIds \cup {NoId}, NEW v \in {"allow", "deny"},
              ServerAsks(id, v)
       PROVE  OneHolder'
  <2>1. UNCHANGED <<pending, wireVars, disp>>
    BY <1>14 DEF ServerAsks
  <2>2. sess'.counter = sess.counter + 1
    BY <1>14, AsksStep DEF TypeOK
  <2>3. hist'.by = hist.by
    <3>1. PICK k \in 0 .. 3, open \in BOOLEAN :
            hist' = IF open THEN [Note(k > 0, ServerAct) EXCEPT !.asked[id] = @ + 1]
                    ELSE Note(k > 0, ServerAct)
      BY <1>14, AsksStep
    <3>2. PICK h : h = Note(k > 0, ServerAct)
      OBVIOUS
    <3>3. h.by = hist.by /\ h \in History
      BY <1>13, <3>2
    <3>4. hist' = h \/ hist' = [h EXCEPT !.asked[id] = @ + 1]
      BY <3>1, <3>2
    <3> QED
      BY <3>3, <3>4 DEF History
  <2> QED
    BY <1>2, <2>1, <2>2, <2>3 DEF wireVars
<1>15. ASSUME NEW v \in {"allow", "deny"}, ServerNotifies(v) PROVE OneHolder'
  <2>1. UNCHANGED <<pending, wireVars, disp>>
    BY <1>15 DEF ServerNotifies
  <2>2. sess'.counter = sess.counter + 1
    BY <1>15, NotifiesStep DEF TypeOK
  <2>3. hist'.by = hist.by
    BY <1>13, <1>15, NotifiesStep
  <2> QED
    BY <1>2, <2>1, <2>2, <2>3 DEF wireVars
<1>16. ASSUME World PROVE OneHolder'
  <2>1. CASE Restart
    <3>1. /\ toServer' = {} /\ atServer' = {} /\ disp'.call = 0
          /\ pending' = [i \in Ids |-> 0]
      BY <2>1 DEF Restart
    <3>2. hist'.by = hist.by
      BY <2>1 DEF Restart, TypeOK, History
    <3> QED
      BY <3>1, <3>2 DEF OneHolder, EffectClosedByOwnAnswer, Ids
  <2>2. CASE ~Restart
    <3>1. UNCHANGED <<sess, pending, wireVars, disp, hist>>
      BY <1>16, <2>2 DEF World, Expire, Publish, RenewTokenFile
    <3> QED
      BY <1>1, <3>1 DEF wireVars
  <2> QED
    BY <2>1, <2>2
<1>17. CASE UNCHANGED vars
  BY <1>17 DEF vars, OneHolder, EffectClosedByOwnAnswer
<1> QED
  BY <1>3, <1>4, <1>5, <1>6, <1>7, <1>8, <1>9, <1>10, <1>11, <1>12, <1>14,
     <1>15, <1>16, <1>17, <1>18, AgentCases DEF Next, FromServer, Handles

(* With a server that answers only what it was asked, and ids the agent    *)
(* does not share between acts and machinery, an effect is closed by the   *)
(* answer to its own call, across restarts and failed writes.              *)
THEOREM OwnAnswer ==
    ASSUME ~RogueServer, MachineryIds \cap ActIds = {}
    PROVE  Spec => []EffectClosedByOwnAnswer
<1>1. OneHolder => EffectClosedByOwnAnswer
  BY DEF OneHolder
<1> QED
  BY <1>1, HolderInit, HolderStep, TypeCorrect, PTL DEF Spec

-----------------------------------------------------------------------------
(***************************************************************************)
(* Parents.  A record's parent is above it because the agent of the        *)
(* session and the decision of every call still open are in the log.       *)
(***************************************************************************)

Named(l, id) == \E i \in 1 .. Len(l) : l[i].id = id

(* What the record at i of l hangs from is above it.                       *)
Hangs(l, i) ==
    l[i].parent # NoParent => \E j \in 1 .. i - 1 : l[j].id = l[i].parent

(* The calls that wait for an answer, and 0.                               *)
Slots == {pending[i] : i \in Ids} \cup {toAgent[i] : i \in ServerIds} \cup
         {disp.call}

Grounded ==
    /\ ParentsAbove
    /\ Named(log, <<"agent", sess.agent>>)
    /\ \A n \in Slots \ {0} : Named(log, <<"dec", n>>)

LEMMA ParentsHang == ParentsAbove <=> \A i \in 1 .. Len(log) : Hangs(log, i)
BY DEF ParentsAbove, Hangs

LEMMA NamedKept ==
    ASSUME NEW at, NEW b, Appends(at, b), NEW id, Named(log, id)
    PROVE  Named(log', id) /\ \E i \in 1 .. at : log'[i].id = id
<1>1. PICK i \in 1 .. Len(log) : log[i].id = id
  BY DEF Named
<1>2. /\ Len(log) \in Nat /\ at \in Nat /\ b \in Nat
      /\ Len(log) <= at /\ Len(log') = at + b
  BY DEF Appends
<1>3. i \in 1 .. at /\ i \in 1 .. Len(log')
  BY <1>2
<1>4. log'[i].id = id
  BY <1>1 DEF Appends
<1> QED
  BY <1>3, <1>4 DEF Named

LEMMA ParentsKept ==
    ASSUME ParentsAbove, NEW at, NEW b, Appends(at, b),
           \A i \in at + 1 .. at + b : Hangs(log', i)
    PROVE  \A i \in 1 .. Len(log') : Hangs(log', i)
<1> SUFFICES ASSUME NEW i \in 1 .. Len(log') PROVE Hangs(log', i)
  OBVIOUS
<1>1. /\ Len(log) \in Nat /\ at \in Nat /\ b \in Nat
      /\ Len(log) <= at /\ Len(log') = at + b
  BY DEF Appends
<1>2. i \in 1 .. Len(log) \/ i \in Len(log) + 1 .. at \/ i \in at + 1 .. at + b
  BY <1>1
<1>3. CASE i \in 1 .. Len(log)
  <2>1. log'[i] = log[i]
    BY <1>3 DEF Appends
  <2>2. \A j \in 1 .. i - 1 : log'[j] = log[j]
    <3>1. \A j \in 1 .. i - 1 : j \in 1 .. Len(log)
      BY <1>1, <1>3
    <3> QED
      BY <3>1 DEF Appends
  <2>3. Hangs(log, i)
    BY <1>3, ParentsHang
  <2> QED
    BY <2>1, <2>2, <2>3 DEF Hangs
<1>4. CASE i \in Len(log) + 1 .. at
  BY <1>4 DEF Appends, Hangs
<1> QED
  BY <1>2, <1>3, <1>4

LEMMA AttemptHangs ==
    ASSUME NEW at, NEW b, Appends(at, b), NEW n, NEW g, NEW v, NEW e,
           Attempt(at, n, g, v, e, b),
           b > 0 => \E i \in 1 .. at : log'[i].id = <<"agent", g>>
    PROVE  /\ \A i \in at + 1 .. at + b : Hangs(log', i)
           /\ b >= 2 => Named(log', <<"dec", n>>)
<1>1. at \in Nat /\ b \in 0 .. 3 /\ Len(log') = at + b
  BY DEF Appends, Attempt
<1>2. b >= 1 => log'[at + 1] = CallRec(n, g)
  BY DEF Attempt
<1>3. b >= 2 => log'[at + 2] = DecRec(n, v)
  BY DEF Attempt
<1>4. b >= 3 => log'[at + 3] = EffRec(n, e)
  BY DEF Attempt
<1>5. ASSUME b >= 1 PROVE Hangs(log', at + 1)
  <2>1. PICK i \in 1 .. at : log'[i].id = <<"agent", g>>
    BY <1>1, <1>5
  <2>2. i \in 1 .. (at + 1) - 1
    BY <1>1
  <2>3. log'[at + 1].parent = <<"agent", g>>
    BY <1>2, <1>5 DEF CallRec, Rec
  <2> QED
    BY <2>1, <2>2, <2>3 DEF Hangs
<1>6. ASSUME b >= 2 PROVE Hangs(log', at + 2)
  <2>1. at + 1 \in 1 .. (at + 2) - 1 /\ b >= 1
    BY <1>1, <1>6
  <2>2. log'[at + 2].parent = <<"call", n>> /\ log'[at + 1].id = <<"call", n>>
    BY <1>2, <1>3, <1>6, <2>1 DEF CallRec, DecRec, Rec
  <2> QED
    BY <2>1, <2>2 DEF Hangs
<1>7. ASSUME b >= 3 PROVE Hangs(log', at + 3)
  <2>1. at + 2 \in 1 .. (at + 3) - 1 /\ b >= 2
    BY <1>1, <1>7
  <2>2. log'[at + 3].parent = <<"dec", n>> /\ log'[at + 2].id = <<"dec", n>>
    BY <1>3, <1>4, <1>7, <2>1 DEF DecRec, EffRec, Rec
  <2> QED
    BY <2>1, <2>2 DEF Hangs
<1>8. \A i \in at + 1 .. at + b :
        \/ i = at + 1 /\ b >= 1
        \/ i = at + 2 /\ b >= 2
        \/ i = at + 3 /\ b >= 3
  BY <1>1
<1>9. ASSUME b >= 2 PROVE Named(log', <<"dec", n>>)
  <2>1. at + 2 \in 1 .. Len(log')
    BY <1>1, <1>9
  <2>2. log'[at + 2].id = <<"dec", n>>
    BY <1>3, <1>9 DEF DecRec, Rec
  <2> QED
    BY <2>1, <2>2 DEF Named
<1> QED
  BY <1>5, <1>6, <1>7, <1>8, <1>9

(* One of the first m records of l has the identifier id.                  *)
Within(l, m, id) == \E i \in 1 .. m : l[i].id = id

(* The records of a new delegation end in its agent.                       *)
LEMMA AgentWritten ==
    ASSUME TypeOK, NEW o, NEW r, NEW d, NEW k \in Nat, NEW j, NEW b,
           Renews(d, o), Writes(r, k, d, j, b)
    PROVE  o.renewed /\ j = Len(d) =>
              Within(log', Len(log) + k + j, <<"agent", o.auth.generation>>)
<1> SUFFICES ASSUME o.renewed, j = Len(d)
             PROVE  \E i \in 1 .. Len(log) + k + j :
                       log'[i].id = <<"agent", o.auth.generation>>
  BY DEF Within
<1>1. Len(d) \in {3, 4} /\ d[Len(d)].id = <<"agent", o.auth.generation>>
  BY DEF Renews, Introduces
<1>2. Len(log) \in Nat
  BY LenProperties DEF TypeOK
<1>3. j \in 1 .. j /\ Len(log) + k + j \in 1 .. Len(log) + k + j
  BY <1>1, <1>2
<1>4. log'[Len(log) + k + j] = d[j]
  BY <1>3 DEF Writes
<1> QED
  BY <1>1, <1>3, <1>4

(* A handler that writes an identity's records and then those of an act.   *)
LEMMA GroundedAct ==
    ASSUME TypeOK, Grounded, NEW at, NEW b, Appends(at, b),
           NEW n, NEW g, NEW v, NEW e, Attempt(at, n, g, v, e, b),
           b > 0 => \E i \in 1 .. at : log'[i].id = <<"agent", g>>,
           Named(log', <<"agent", sess'.agent>>),
           \A x \in Slots' \ {0} : x \in Slots \/ (x = n /\ b >= 2)
    PROVE  Grounded'
<1>1. \A i \in 1 .. Len(log') : Hangs(log', i)
  BY AttemptHangs, ParentsKept DEF Grounded
<1>2. ParentsAbove'
  BY <1>1 DEF ParentsAbove, Hangs
<1>3. ASSUME NEW x \in Slots' \ {0} PROVE Named(log', <<"dec", x>>)
  <2>1. CASE x \in Slots
    <3>1. Named(log, <<"dec", x>>)
      BY <2>1 DEF Grounded
    <3> QED
      BY <3>1, NamedKept
  <2>2. CASE x = n /\ b >= 2
    BY <2>2, AttemptHangs
  <2> QED
    BY <2>1, <2>2
<1> QED
  BY <1>2, <1>3 DEF Grounded

(* One that writes none, or the effect of an open call.                    *)
LEMMA GroundedClose ==
    ASSUME TypeOK, Grounded, NEW at, NEW b, Appends(at, b), b \in {0, 1},
           b = 1 => /\ at = Len(log)
                    /\ \E n \in Slots \ {0} : log'[at + 1] = EffRec(n, "done"),
           Named(log', <<"agent", sess'.agent>>),
           \A x \in Slots' \ {0} : x \in Slots
    PROVE  Grounded'
<1>0. at \in Nat
  BY DEF Appends
<1>1. \A i \in at + 1 .. at + b : Hangs(log', i)
  <2>1. CASE b = 0
    BY <1>0, <2>1
  <2>2. CASE b = 1
    <3>1. PICK n \in Slots \ {0} : log'[at + 1] = EffRec(n, "done")
      BY <2>2
    <3>2. Named(log, <<"dec", n>>)
      BY <3>1 DEF Grounded
    <3>3. PICK i \in 1 .. at : log'[i].id = <<"dec", n>>
      BY <3>2, NamedKept
    <3>4. log'[at + 1].parent = <<"dec", n>>
      BY <3>1 DEF EffRec, Rec
    <3>5. i \in 1 .. (at + 1) - 1
      BY <1>0
    <3>6. Hangs(log', at + 1)
      BY <3>3, <3>4, <3>5 DEF Hangs
    <3>7. \A x \in at + 1 .. at + b : x = at + 1
      BY <1>0, <2>2
    <3> QED
      BY <3>6, <3>7
  <2> QED
    BY <2>1, <2>2
<1>2. \A i \in 1 .. Len(log') : Hangs(log', i)
  BY <1>1, ParentsKept DEF Grounded
<1>3. ParentsAbove'
  BY <1>2 DEF ParentsAbove, Hangs
<1>4. ASSUME NEW x \in Slots' \ {0} PROVE Named(log', <<"dec", x>>)
  <2>1. Named(log, <<"dec", x>>)
    BY DEF Grounded
  <2> QED
    BY <2>1, NamedKept
<1> QED
  BY <1>3, <1>4 DEF Grounded

LEMMA GroundedInit == Init => Grounded
<1> SUFFICES ASSUME Init PROVE Grounded
  OBVIOUS
<1>1. auth \in AuthState
  BY TypeInit DEF TypeOK
<1>2. PICK a : a = auth
  OBVIOUS
<1>3. Opens(log, auth)
  BY <1>1, OpeningFacts DEF Init
<1>4. sess.agent = auth.generation
  BY DEF Init, NewSession
<1>5. ParentsAbove
  BY <1>3 DEF ParentsAbove, Opens
<1>6. Named(log, <<"agent", sess.agent>>)
  <2>1. Len(log) \in 1 .. Len(log)
    BY <1>3 DEF Opens
  <2> QED
    BY <1>3, <1>4, <2>1 DEF Opens, Named
<1>7. Slots \subseteq {0}
  BY DEF Init, Slots
<1> QED
  BY <1>5, <1>6, <1>7 DEF Grounded

LEMMA SlotsAct ==
    ASSUME TypeOK, NEW o, NEW r, NEW d, NEW k, NEW j, NEW b,
           NEW id \in Ids \cup {NoId}, NEW t, NEW v, NEW out,
           ActLeaves(o, r, d, k, j, b, id, t, v, out)
    PROVE  \A x \in Slots' \ {0} : x \in Slots \/ (x = sess.counter + 1 /\ b >= 2)
<1> DEFINE n == sess.counter + 1
<1>1. /\ toAgent' = toAgent /\ disp' = disp
      /\ pending' = pending
           \/ (b >= 2 /\ id \in Ids /\ pending' = [pending EXCEPT ![id] = n])
  BY DEF ActLeaves, Ids
<1>2. pending \in [Ids -> 0 .. MaxCalls]
  BY DEF TypeOK
<1> HIDE DEF n
<1>3. \A x \in Slots' \ {0} : x \in Slots \/ (x = n /\ b >= 2)
  BY <1>1, <1>2 DEF Slots
<1> QED
  BY <1>3 DEF n

LEMMA GroundedHandle ==
    ASSUME TypeOK, Grounded, NEW id \in Ids \cup {NoId}, NEW t \in Bearers,
           NEW v \in {"allow", "deny"}, NEW out, Handled(id, t, v, out)
    PROVE  Grounded'
<1>1. PICK o, r, d, k, j, b :
              /\ Checked(o) /\ Reports(r, o) /\ Renews(d, o)
              /\ ActLeaves(o, r, d, k, j, b, id, t, v, out)
  BY ActStep
<1> DEFINE at   == Len(log) + k + j
           full == k = Len(r) /\ j = Len(d)
           g    == IF o.renewed THEN o.auth.generation ELSE sess.agent
           w    == IF o.denied \/ v = "deny" THEN "deny" ELSE "allow"
<1>2. /\ Writes(r, k, d, j, b)
      /\ Attempt(at, sess.counter + 1, g, w, "blocked", b)
      /\ b > 0 => full
      /\ sess'.agent = IF o.renewed /\ full THEN o.auth.generation ELSE sess.agent
  BY <1>1 DEF ActLeaves
<1>3. o.renewed \in BOOLEAN /\ Appends(at, b)
  BY <1>1, <1>2, WritesAppends DEF Checked
<1>4. k \in Nat
  BY <1>1, <1>2 DEF Writes, Reports
<1>5. \E i \in 1 .. at : log'[i].id = <<"agent", sess.agent>>
  BY <1>3, NamedKept DEF Grounded
<1>6. o.renewed /\ full => \E i \in 1 .. at : log'[i].id = <<"agent", o.auth.generation>>
  <2>1. Renews(d, o) /\ Writes(r, k, d, j, b)
    BY <1>1, <1>2
  <2>2. o.renewed /\ j = Len(d) =>
           Within(log', at, <<"agent", o.auth.generation>>)
    BY <1>4, <2>1, AgentWritten
  <2> QED
    BY <2>2 DEF Within
<1>7. b > 0 => \E i \in 1 .. at : log'[i].id = <<"agent", g>>
  <2>1. CASE o.renewed
    BY <1>2, <1>6, <2>1
  <2>2. CASE ~o.renewed
    BY <1>5, <2>2
  <2> QED
    BY <2>1, <2>2
<1>8. \E i \in 1 .. at : log'[i].id = <<"agent", sess'.agent>>
  BY <1>2, <1>5, <1>6
<1>9. Named(log', <<"agent", sess'.agent>>)
  <2>1. at \in Nat /\ b \in Nat /\ Len(log') = at + b
    BY <1>3 DEF Appends
  <2>2. \A i \in 1 .. at : i \in 1 .. Len(log')
    BY <2>1
  <2> QED
    BY <1>8, <2>2 DEF Named
<1>10. \A x \in Slots' \ {0} : x \in Slots \/ (x = sess.counter + 1 /\ b >= 2)
  BY <1>1, SlotsAct
<1> HIDE DEF at, full, g, w
<1> QED
  BY <1>2, <1>3, <1>7, <1>9, <1>10, GroundedAct

LEMMA GroundedBearer ==
    ASSUME TypeOK, Grounded, NEW t \in Tokens, PresentBearer(t)
    PROVE  Grounded'
<1>1. PICK o, r, d, k, j :
              /\ Checked(o) /\ Reports(r, o) /\ Renews(d, o)
              /\ BearerLeaves(o, r, d, k, j)
  BY BearerStep
<1> DEFINE at   == Len(log) + k + j
           full == j = Len(d)
<1>2. /\ Writes(r, k, d, j, 0)
      /\ sess'.agent = IF o.renewed /\ full THEN o.auth.generation ELSE sess.agent
  BY <1>1 DEF BearerLeaves
<1>3. o.renewed \in BOOLEAN /\ Appends(at, 0)
  BY <1>1, <1>2, WritesAppends DEF Checked
<1>4. k \in Nat
  BY <1>1, <1>2 DEF Writes, Reports
<1>5. \E i \in 1 .. at : log'[i].id = <<"agent", sess.agent>>
  BY <1>3, NamedKept DEF Grounded
<1>6. o.renewed /\ full => \E i \in 1 .. at : log'[i].id = <<"agent", o.auth.generation>>
  <2>1. Renews(d, o) /\ Writes(r, k, d, j, 0)
    BY <1>1, <1>2
  <2>2. o.renewed /\ j = Len(d) =>
           Within(log', at, <<"agent", o.auth.generation>>)
    BY <1>4, <2>1, AgentWritten
  <2> QED
    BY <2>2 DEF Within
<1>7. \E i \in 1 .. at : log'[i].id = <<"agent", sess'.agent>>
  BY <1>2, <1>5, <1>6
<1>8. Named(log', <<"agent", sess'.agent>>)
  <2>1. Len(log') = at
    BY <1>3 DEF Appends
  <2> QED
    BY <1>7, <2>1 DEF Named
<1>9. \A x \in Slots' \ {0} : x \in Slots
  BY DEF PresentBearer, Slots
<1> HIDE DEF at, full
<1> QED
  BY <1>3, <1>8, <1>9, GroundedClose

(* A handler that writes an act under the session's agent.                 *)
LEMMA GroundedTriple ==
    ASSUME TypeOK, Grounded, sess'.agent = sess.agent, NEW k, Appends(Len(log), k),
           NEW n, NEW v, NEW e, Attempt(Len(log), n, sess.agent, v, e, k),
           \A x \in Slots' \ {0} : x \in Slots \/ (x = n /\ k >= 2)
    PROVE  Grounded'
<1>1. Named(log, <<"agent", sess.agent>>)
  BY DEF Grounded
<1>2. /\ Named(log', <<"agent", sess.agent>>)
      /\ \E i \in 1 .. Len(log) : log'[i].id = <<"agent", sess.agent>>
  BY <1>1, NamedKept
<1>3. Named(log', <<"agent", sess'.agent>>)
  BY <1>2
<1> QED
  BY <1>2, <1>3, GroundedAct

(* One that leaves the log and the agent alone.                            *)
LEMMA GroundedStill ==
    ASSUME TypeOK, Grounded, log' = log, sess'.agent = sess.agent,
           \A x \in Slots' \ {0} : x \in Slots
    PROVE  Grounded'
BY DEF Grounded, ParentsAbove, Named

LEMMA GroundedAgent ==
    ASSUME TypeOK, Grounded,
           \/ \E id \in MachineryIds : HandleMachinery(id)
           \/ RelayMalformed
           \/ \E id \in ServerIds : HandleAnswer(id)
           \/ \E id \in ServerIds \cup {NoId} : HandleUnsolicited(id)
           \/ \E m \in toServer : Deliver(m)
    PROVE  Grounded'
<1>1. ASSUME NEW id \in MachineryIds, HandleMachinery(id) PROVE Grounded'
  BY <1>1, GroundedStill DEF HandleMachinery, Slots
<1>5. ASSUME RelayMalformed PROVE Grounded'
  BY <1>5, GroundedStill DEF RelayMalformed, Slots
<1>2. ASSUME NEW id \in ServerIds, HandleAnswer(id) PROVE Grounded'
  <2>1. toAgent \in [ServerIds -> 0 .. MaxCalls] /\ toAgent[id] \in Nat
    BY GatewayAssumption DEF TypeOK
  <2>2. sess' = sess /\ Named(log, <<"agent", sess.agent>>)
    BY <1>2 DEF HandleAnswer, Grounded
  <2>3. \A x \in Slots' \ {0} : x \in Slots
    <3>1. UNCHANGED <<pending, disp>>
          /\ (toAgent' = toAgent \/ toAgent' = [toAgent EXCEPT ![id] = 0])
      BY <1>2 DEF HandleAnswer
    <3> QED
      BY <2>1, <3>1 DEF Slots
  <2>4. CASE toAgent[id] # 0
    <3>1. PICK k \in 0 .. 1 : Written(<<EffRec(toAgent[id], "done")>>, k)
      BY <1>2, <2>4 DEF HandleAnswer
    <3>2. /\ Appends(Len(log), k)
          /\ k = 1 => log'[Len(log) + 1] = EffRec(toAgent[id], "done")
      BY <2>1, <3>1, CloseFacts
    <3>3. toAgent[id] \in Slots \ {0}
      BY <2>4 DEF Slots
    <3>4. Named(log', <<"agent", sess'.agent>>)
      BY <2>2, <3>2, NamedKept
    <3>5. k \in {0, 1}
      OBVIOUS
    <3> QED
      BY <2>3, <3>2, <3>3, <3>4, <3>5, GroundedClose
  <2>5. CASE toAgent[id] = 0
    BY <1>2, <2>2, <2>3, <2>5, GroundedStill DEF HandleAnswer
  <2> QED
    BY <2>4, <2>5
<1>3. ASSUME NEW id \in ServerIds \cup {NoId}, HandleUnsolicited(id)
      PROVE  Grounded'
  <2>1. \A x \in Slots' \ {0} : x \in Slots
    BY <1>3 DEF HandleUnsolicited, Slots
  <2>2. CASE UNCHANGED <<log, fails, sess>>
    BY <2>1, <2>2, GroundedStill
  <2>3. CASE /\ sess' = [sess EXCEPT !.counter = sess.counter + 1]
             /\ \E k \in 0 .. 3 :
                    /\ Appends(Len(log), k)
                    /\ Attempt(Len(log), sess.counter + 1, sess.agent, "deny",
                               "blocked", k)
    <3>1. sess'.agent = sess.agent
      BY <2>3 DEF TypeOK
    <3> QED
      BY <2>1, <2>3, <3>1, GroundedTriple
  <2> QED
    BY <1>3, <2>2, <2>3, UnsolicitedStep
<1>4. ASSUME NEW m \in toServer, Deliver(m) PROVE Grounded'
  BY <1>4, GroundedStill DEF Deliver, Slots
<1> QED
  BY <1>1, <1>2, <1>3, <1>4, <1>5

LEMMA GroundedServer ==
    ASSUME TypeOK, Grounded, FromServer
    PROVE  Grounded'
<1>1. ASSUME NEW id \in Ids, NEW n, TakePending(id, n), UNCHANGED <<sess, toAgent, log>>
      PROVE  Grounded'
  <2>1. pending \in [Ids -> 0 .. MaxCalls]
    BY DEF TypeOK
  <2>2. \A x \in Slots' \ {0} : x \in Slots
    BY <1>1, <2>1 DEF TakePending, Slots
  <2> QED
    BY <1>1, <2>2, GroundedStill
<1>2. ASSUME NEW m \in atServer, ServerAnswers(m) PROVE Grounded'
  <2>1. m.id \in Ids
    BY MessageParts DEF TypeOK
  <2> QED
    BY <1>1, <1>2, <2>1 DEF ServerAnswers
<1>3. ASSUME NEW id \in Ids, ServerMakesUp(id) PROVE Grounded'
  BY <1>1, <1>3 DEF ServerMakesUp
<1>4. ASSUME CloseEffect PROVE Grounded'
  <2>1. PICK k \in 0 .. 1 : Written(<<EffRec(disp.call, "done")>>, k)
    BY <1>4 DEF CloseEffect
  <2>2. disp.call \in Nat /\ disp.call \in Slots \ {0}
    BY <1>4, GatewayAssumption DEF TypeOK, CloseEffect, Idle, Slots
  <2>3. /\ Appends(Len(log), k)
        /\ k = 1 => log'[Len(log) + 1] = EffRec(disp.call, "done")
    BY <2>1, <2>2, CloseFacts
  <2>4. \A x \in Slots' \ {0} : x \in Slots
    BY <1>4 DEF CloseEffect, Slots
  <2>5. sess' = sess /\ Named(log, <<"agent", sess.agent>>)
    BY <1>4 DEF CloseEffect, Grounded
  <2>6. Named(log', <<"agent", sess'.agent>>)
    BY <2>3, <2>5, NamedKept
  <2>7. k \in {0, 1}
    OBVIOUS
  <2> QED
    BY <2>2, <2>3, <2>4, <2>6, <2>7, GroundedClose
<1>5. ASSUME NEW id \in ServerIds, ServerPings(id) PROVE Grounded'
  BY <1>5, GroundedStill DEF ServerPings, Slots
<1>6. ASSUME NEW id \in ServerIds \cup {NoId}, NEW verdict \in {"allow", "deny"},
             ServerAsks(id, verdict)
      PROVE  Grounded'
  <2>1. PICK k \in 0 .. 3, v \in {"allow", "deny"}, open \in BOOLEAN :
              /\ Appends(Len(log), k)
              /\ Attempt(Len(log), sess.counter + 1, sess.agent, v, "blocked", k)
              /\ open => k = 2 /\ id # NoId
              /\ toAgent' = IF open THEN [toAgent EXCEPT ![id] = sess.counter + 1]
                            ELSE toAgent
    BY <1>6, AsksStep
  <2>2. sess'.agent = sess.agent
    BY <1>6, AsksStep DEF TypeOK
  <2>3. \A x \in Slots' \ {0} : x \in Slots \/ (x = sess.counter + 1 /\ k >= 2)
    <3>1. PICK n : n = sess.counter + 1
      OBVIOUS
    <3>2. UNCHANGED <<pending, disp>> /\ toAgent \in [ServerIds -> 0 .. MaxCalls]
      BY <1>6 DEF ServerAsks, TypeOK
    <3>3. toAgent' = toAgent \/ (k >= 2 /\ toAgent' = [toAgent EXCEPT ![id] = n])
      BY <2>1, <3>1
    <3>4. \A x \in Slots' \ {0} : x \in Slots \/ (x = n /\ k >= 2)
      BY <3>2, <3>3 DEF Slots
    <3> QED
      BY <3>1, <3>4
  <2> QED
    BY <2>1, <2>2, <2>3, GroundedTriple
<1>7. ASSUME NEW verdict \in {"allow", "deny"}, ServerNotifies(verdict)
      PROVE  Grounded'
  <2>1. PICK k \in 0 .. 3, v \in {"allow", "deny"} :
              /\ Appends(Len(log), k)
              /\ Attempt(Len(log), sess.counter + 1, sess.agent, v,
                         IF v = "allow" THEN "done" ELSE "blocked", k)
    BY <1>7, NotifiesStep
  <2>2. sess'.agent = sess.agent
    BY <1>7, NotifiesStep DEF TypeOK
  <2>3. \A x \in Slots' \ {0} : x \in Slots
    BY <1>7 DEF ServerNotifies, Slots
  <2> QED
    BY <2>1, <2>2, <2>3, GroundedTriple
<1> QED
  BY <1>2, <1>3, <1>4, <1>5, <1>6, <1>7 DEF FromServer

LEMMA GroundedWorld ==
    ASSUME TypeOK, Grounded, World
    PROVE  Grounded'
<1>1. CASE Restart
  <2>1. PICK s : /\ Opens(s, auth') /\ Follows(log', log, s)
                 /\ Appends(Len(log) + Len(s), 0)
    BY <1>1, RestartStep
  <2>2. sess'.agent = auth'.generation
    BY <1>1 DEF Restart, NewSession
  <2>3. Slots' \subseteq {0}
    BY <1>1 DEF Restart, Slots
  <2>4. Len(s) \in 1 .. Len(s) /\ s[Len(s)].id = <<"agent", auth'.generation>>
    BY <2>1 DEF Opens
  <2>5. Len(log) + Len(s) \in 1 .. Len(log')
    BY <2>1, <2>4 DEF Follows
  <2>6. log'[Len(log) + Len(s)] = s[Len(s)]
    BY <2>1, <2>4 DEF Follows
  <2>7. Named(log', <<"agent", sess'.agent>>)
    BY <2>2, <2>4, <2>5, <2>6 DEF Named
  <2> QED
    BY <2>1, <2>3, <2>7, GroundedClose
<1>2. CASE ~Restart
  BY <1>2, GroundedStill DEF World, Expire, Publish, RenewTokenFile, Slots
<1> QED
  BY <1>1, <1>2

LEMMA GroundedStep == TypeOK /\ Grounded /\ [Next]_vars => Grounded'
<1> SUFFICES ASSUME TypeOK, Grounded, [Next]_vars PROVE Grounded'
  OBVIOUS
<1>1. CASE FromAgent
  BY <1>1, AgentCases, GroundedHandle, GroundedBearer, GroundedAgent DEF Handles
<1>2. CASE \E m \in toServer : Deliver(m)
  BY <1>2, GroundedAgent
<1>3. CASE UNCHANGED vars
  BY <1>3, GroundedStill DEF vars, Slots
<1> QED
  BY <1>1, <1>2, <1>3, GroundedServer, GroundedWorld DEF Next

(* Every parent a record names is above it in the log, across renewals,    *)
(* failed writes and restarts on the same chain.                           *)
THEOREM ParentsOrdered == Spec => []ParentsAbove
<1>1. Grounded => ParentsAbove
  BY DEF Grounded
<1> QED
  BY <1>1, GroundedInit, GroundedStep, TypeCorrect, PTL DEF Spec

-----------------------------------------------------------------------------
(***************************************************************************)
(* Effects, for one process on its chain.  The numbers of a session only   *)
(* grow; a call that waits for an answer is allowed, has no effect yet     *)
(* and waits in one place.                                                 *)
(***************************************************************************)

(* The effect at i of l is the only one of its call, below the decision    *)
(* that accounts for it.                                                   *)
Closing(l, i) ==
    l[i].id[1] = "eff" =>
        LET n == l[i].id[2]
        IN  /\ \A j \in 1 .. Len(l) : l[j].id = <<"eff", n>> => j = i
            /\ \E j \in 1 .. i - 1 :
                  /\ l[j].id = <<"dec", n>>
                  /\ l[i].val # "blocked" => l[j].val = "allow"

Numbered(l, c) ==
    \A i \in 1 .. Len(l) :
        l[i].id[1] \in {"call", "dec", "eff"} => l[i].id[2] <= c

(* l allows call n, and holds no effect of it.                             *)
Opened(l, n) ==
    /\ \E i \in 1 .. Len(l) : l[i].id = <<"dec", n>> /\ l[i].val = "allow"
    /\ \A i \in 1 .. Len(l) : l[i].id # <<"eff", n>>

(* The calls that wait wait in one place.                                  *)
Apart ==
    /\ \A i, j \in Ids : pending[i] = pending[j] => pending[i] = 0 \/ i = j
    /\ \A i, j \in ServerIds : toAgent[i] = toAgent[j] => toAgent[i] = 0 \/ i = j
    /\ \A i \in Ids, j \in ServerIds : pending[i] = toAgent[j] => pending[i] = 0
    /\ \A i \in Ids : pending[i] = disp.call => pending[i] = 0
    /\ \A j \in ServerIds : toAgent[j] = disp.call => toAgent[j] = 0

Sound ==
    /\ Numbered(log, sess.counter)
    /\ EffectsAreSound
    /\ \A n \in Slots \ {0} : n <= sess.counter /\ Opened(log, n)
    /\ Apart

LEMMA SoundCloses == EffectsAreSound <=> \A i \in 1 .. Len(log) : Closing(log, i)
BY DEF EffectsAreSound, Closing

LEMMA SlotsType == ASSUME TypeOK PROVE Slots \subseteq 0 .. MaxCalls /\ Slots \subseteq Nat
BY GatewayAssumption DEF TypeOK, Slots

(* What the first records of a handler, up to `at', and its b last ones    *)
(* do to the calls of the log.                                             *)
LEMMA OldRecords ==
    ASSUME NEW at, NEW b, Appends(at, b), NEW i \in 1 .. Len(log')
    PROVE  \/ i \in 1 .. Len(log) /\ log'[i] = log[i]
           \/ i \in Len(log) + 1 .. at /\ log'[i].id[1] \in Headers
           \/ i \in at + 1 .. at + b
<1>1. /\ Len(log) \in Nat /\ at \in Nat /\ b \in Nat
      /\ Len(log) <= at /\ Len(log') = at + b
  BY DEF Appends
<1>2. i \in 1 .. Len(log) \/ i \in Len(log) + 1 .. at \/ i \in at + 1 .. at + b
  BY <1>1
<1>3. i \in 1 .. Len(log) => log'[i] = log[i]
  BY DEF Appends
<1>4. i \in Len(log) + 1 .. at => log'[i].id[1] \in Headers
  BY DEF Appends
<1> QED
  BY <1>2, <1>3, <1>4

LEMMA NotHeaders == \A t \in Headers : t \notin {"call", "dec", "eff"}
BY DEF Headers

LEMMA NumberedKept ==
    ASSUME NEW at, NEW b, Appends(at, b), TypeOK, Numbered(log, sess.counter),
           NEW c \in Nat, c >= sess.counter,
           \A i \in at + 1 .. at + b : log'[i].id[2] <= c
    PROVE  Numbered(log', c)
<1> SUFFICES ASSUME NEW i \in 1 .. Len(log'),
                    log'[i].id[1] \in {"call", "dec", "eff"}
             PROVE  log'[i].id[2] <= c
  BY DEF Numbered
<1>1. CASE i \in 1 .. Len(log) /\ log'[i] = log[i]
  <2>1. log[i].id[2] <= sess.counter
    BY <1>1 DEF Numbered
  <2>2. log[i].id[2] \in Nat /\ sess.counter \in Nat
    <3>1. log[i] \in Record
      BY <1>1, ElementOfSeq DEF TypeOK
    <3> QED
      BY <3>1, GatewayAssumption, SMTT(30) DEF TypeOK, Record
  <2> QED
    BY <1>1, <2>1, <2>2
<1> QED
  BY <1>1, OldRecords, NotHeaders

(* The new records hold at most one effect, the last, of a call that had   *)
(* none and that a decision accounts for.                                  *)
LEMMA EffectsKept ==
    ASSUME TypeOK, EffectsAreSound, NEW at, NEW b, Appends(at, b),
           \A i \in at + 1 .. at + b : log'[i].id[1] = "eff" =>
              /\ i = at + b
              /\ \A j \in 1 .. Len(log) : log[j].id # log'[i].id
              /\ \E j \in 1 .. i - 1 :
                    /\ log'[j].id = <<"dec", log'[i].id[2]>>
                    /\ log'[i].val # "blocked" => log'[j].val = "allow"
    PROVE  \A i \in 1 .. Len(log') : Closing(log', i)
<1> SUFFICES ASSUME NEW i \in 1 .. Len(log'), log'[i].id[1] = "eff"
             PROVE  Closing(log', i)
  BY DEF Closing
<1> DEFINE n == log'[i].id[2]
<1>1. log'[i].id = <<"eff", n>>
  <2>1. log' \in Seq(Record)
    BY DEF Appends
  <2>2. log'[i] \in Record
    BY <2>1, ElementOfSeq
  <2> QED
    BY <2>2 DEF Record
<1>2. /\ Len(log) \in Nat /\ at \in Nat /\ b \in Nat /\ Len(log) <= at
  BY DEF Appends
<1> HIDE DEF n
<1>3. CASE i \in 1 .. Len(log) /\ log'[i] = log[i]
  <2>1. Closing(log, i) /\ log[i].id = <<"eff", n>>
    BY <1>1, <1>3, SoundCloses
  <2>2. /\ \A j \in 1 .. Len(log) : log[j].id = <<"eff", n>> => j = i
        /\ \E j \in 1 .. i - 1 :
              /\ log[j].id = <<"dec", n>>
              /\ log[i].val # "blocked" => log[j].val = "allow"
    BY <2>1 DEF Closing
  <2>3. ASSUME NEW j \in 1 .. Len(log'), log'[j].id = <<"eff", n>>
        PROVE  j = i
    <3>1. log'[j].id[1] = "eff"
      BY <2>3
    <3>2. CASE j \in 1 .. Len(log) /\ log'[j] = log[j]
      BY <2>2, <2>3, <3>2
    <3>3. CASE j \in at + 1 .. at + b
      <4>1. log[i].id # log'[j].id
        BY <1>3, <3>1, <3>3
      <4> QED
        BY <2>1, <2>3, <4>1
    <3> QED
      BY <3>1, <3>2, <3>3, OldRecords, NotHeaders
  <2>4. PICK j \in 1 .. i - 1 : /\ log[j].id = <<"dec", n>>
                                /\ log[i].val # "blocked" => log[j].val = "allow"
    BY <2>2
  <2>5. log'[j] = log[j]
    <3>1. j \in 1 .. Len(log)
      BY <1>2, <1>3
    <3> QED
      BY <3>1 DEF Appends
  <2> QED
    BY <1>3, <2>3, <2>4, <2>5 DEF Closing, n
<1>4. CASE i \in at + 1 .. at + b
  <2>1. /\ i = at + b
        /\ \A j \in 1 .. Len(log) : log[j].id # log'[i].id
        /\ \E j \in 1 .. i - 1 :
              /\ log'[j].id = <<"dec", n>>
              /\ log'[i].val # "blocked" => log'[j].val = "allow"
    BY <1>4 DEF n
  <2>2. ASSUME NEW j \in 1 .. Len(log'), log'[j].id = <<"eff", n>>
        PROVE  j = i
    <3>1. log'[j].id[1] = "eff"
      BY <2>2
    <3>2. CASE j \in 1 .. Len(log) /\ log'[j] = log[j]
      BY <1>1, <2>1, <2>2, <3>2
    <3>3. CASE j \in at + 1 .. at + b
      BY <2>1, <3>1, <3>3
    <3> QED
      BY <3>1, <3>2, <3>3, OldRecords, NotHeaders
  <2> QED
    BY <2>1, <2>2 DEF Closing, n
<1> QED
  BY <1>3, <1>4, OldRecords, NotHeaders

LEMMA OpenedKept ==
    ASSUME NEW at, NEW b, Appends(at, b), NEW n, Opened(log, n),
           \A i \in at + 1 .. at + b : log'[i].id # <<"eff", n>>
    PROVE  Opened(log', n)
<1>1. PICK i \in 1 .. Len(log) : log[i].id = <<"dec", n>> /\ log[i].val = "allow"
  BY DEF Opened
<1>2. i \in 1 .. Len(log') /\ log'[i] = log[i]
  <2>1. Len(log) \in Nat /\ at \in Nat /\ b \in Nat /\ Len(log) <= at /\ Len(log') = at + b
    BY DEF Appends
  <2>2. i \in 1 .. Len(log')
    BY <2>1
  <2> QED
    BY <2>2 DEF Appends
<1>3. ASSUME NEW j \in 1 .. Len(log') PROVE log'[j].id # <<"eff", n>>
  <2>1. CASE j \in 1 .. Len(log) /\ log'[j] = log[j]
    BY <2>1 DEF Opened
  <2>2. CASE log'[j].id[1] \in Headers
    <3>1. log'[j].id[1] # "eff"
      BY <2>2, NotHeaders
    <3> QED
      BY <3>1
  <2> QED
    BY <2>1, <2>2, OldRecords
<1> QED
  BY <1>1, <1>2, <1>3 DEF Opened

(* No record yet carries the number of the next call.                      *)
LEMMA FreshNumber ==
    ASSUME TypeOK, Numbered(log, sess.counter), NEW n \in Nat, n > sess.counter
    PROVE  \A i \in 1 .. Len(log), t \in {"call", "dec", "eff"} : log[i].id # <<t, n>>
<1> SUFFICES ASSUME NEW i \in 1 .. Len(log), NEW t \in {"call", "dec", "eff"},
                    log[i].id = <<t, n>>
             PROVE  FALSE
  OBVIOUS
<1>1. log[i].id[1] = t /\ log[i].id[2] = n
  OBVIOUS
<1>2. n <= sess.counter
  BY <1>1 DEF Numbered
<1>3. sess.counter \in Nat
  BY GatewayAssumption DEF TypeOK
<1> QED
  BY <1>2, <1>3

(* What the last b records are.                                            *)
LEMMA AttemptParts ==
    ASSUME NEW at \in Nat, NEW b, NEW n, NEW g, NEW v, NEW e,
           Attempt(at, n, g, v, e, b), NEW i \in at + 1 .. at + b
    PROVE  /\ log'[i].id \in {<<"call", n>>, <<"dec", n>>, <<"eff", n>>}
           /\ log'[i].id[2] = n
           /\ b >= 2 => log'[at + 2].id = <<"dec", n>> /\ log'[at + 2].val = v
           /\ log'[i].id[1] = "eff" =>
                 i = at + 3 /\ b = 3 /\ log'[i].id = <<"eff", n>> /\ log'[i].val = e
<1>1. b \in 0 .. 3
  BY DEF Attempt
<1>2. \/ i = at + 1 /\ b >= 1
      \/ i = at + 2 /\ b >= 2
      \/ i = at + 3 /\ b = 3
  BY <1>1
<1>3. b >= 2 => log'[at + 2].id = <<"dec", n>> /\ log'[at + 2].val = v
  BY DEF Attempt, DecRec, Rec
<1>4. CASE i = at + 1 /\ b >= 1
  <2>1. log'[i].id = <<"call", n>>
    BY <1>4 DEF Attempt, CallRec, Rec
  <2> QED
    BY <1>3, <2>1
<1>5. CASE i = at + 2 /\ b >= 2
  <2>1. log'[i].id = <<"dec", n>>
    BY <1>3, <1>5
  <2> QED
    BY <1>3, <2>1
<1>6. CASE i = at + 3 /\ b = 3
  <2>1. log'[i].id = <<"eff", n>> /\ log'[i].val = e
    BY <1>6 DEF Attempt, EffRec, Rec
  <2> QED
    BY <1>3, <1>6, <2>1
<1> QED
  BY <1>2, <1>4, <1>5, <1>6

LEMMA SoundAttempt ==
    ASSUME TypeOK, Sound, NEW at, NEW b, Appends(at, b),
           NEW n \in Nat, n > sess.counter, NEW g, NEW v, NEW e,
           Attempt(at, n, g, v, e, b), e # "blocked" => v = "allow",
           sess'.counter \in Nat, sess'.counter >= sess.counter,
           b > 0 => sess'.counter >= n,
           \A x \in Slots' \ {0} : x \in Slots \/ (x = n /\ b = 2 /\ v = "allow"),
           Apart'
    PROVE  Sound'
<1>1. at \in Nat /\ b \in Nat /\ Len(log) \in Nat /\ Len(log) <= at
      /\ Len(log') = at + b /\ sess.counter \in Nat
  BY GatewayAssumption DEF Appends, TypeOK
<1>2. Numbered(log, sess.counter) /\ EffectsAreSound
  BY DEF Sound
<1>3. Numbered(log', sess'.counter)
  <2>1. ASSUME NEW i \in at + 1 .. at + b PROVE log'[i].id[2] <= sess'.counter
    <3>1. b > 0
      BY <1>1
    <3>2. log'[i].id[2] = n
      BY <1>1, AttemptParts
    <3> QED
      BY <3>1, <3>2
  <2> QED
    BY <1>2, <2>1, NumberedKept
<1>4. EffectsAreSound'
  <2>1. ASSUME NEW i \in at + 1 .. at + b, log'[i].id[1] = "eff"
        PROVE  /\ i = at + b
               /\ \A j \in 1 .. Len(log) : log[j].id # log'[i].id
               /\ \E j \in 1 .. i - 1 :
                     /\ log'[j].id = <<"dec", log'[i].id[2]>>
                     /\ log'[i].val # "blocked" => log'[j].val = "allow"
    <3>1. /\ i = at + 3 /\ b = 3 /\ log'[i].id = <<"eff", n>> /\ log'[i].val = e
          /\ log'[i].id[2] = n
          /\ b >= 2 => log'[at + 2].id = <<"dec", n>> /\ log'[at + 2].val = v
      BY <1>1, <2>1, AttemptParts
    <3>2. at + 2 \in 1 .. i - 1 /\ i = at + b
      BY <1>1, <3>1
    <3>3. \A j \in 1 .. Len(log) : log[j].id # <<"eff", n>>
      BY <1>2, FreshNumber
    <3>4. /\ log'[at + 2].id = <<"dec", log'[i].id[2]>>
          /\ log'[i].val # "blocked" => log'[at + 2].val = "allow"
      BY <3>1
    <3>5. \A j \in 1 .. Len(log) : log[j].id # log'[i].id
      BY <3>1, <3>3
    <3> QED
      BY <3>2, <3>4, <3>5
  <2>2. \A i \in 1 .. Len(log') : Closing(log', i)
    BY <1>2, <2>1, EffectsKept
  <2> QED
    BY <2>2 DEF EffectsAreSound, Closing
<1>5. ASSUME NEW x \in Slots' \ {0}
      PROVE  x <= sess'.counter /\ Opened(log', x)
  <2>1. CASE x \in Slots
    <3>1. x <= sess.counter /\ Opened(log, x) /\ x \in Nat
      BY <1>5, <2>1, SlotsType DEF Sound
    <3>2. x # n /\ x <= sess'.counter
      BY <1>1, <3>1
    <3>3. \A i \in at + 1 .. at + b : log'[i].id # <<"eff", x>>
      <4>1. \A i \in at + 1 .. at + b : log'[i].id[2] = n
        BY <1>1, AttemptParts
      <4> QED
        BY <3>2, <4>1
    <3> QED
      BY <3>1, <3>2, <3>3, OpenedKept
  <2>2. CASE x = n /\ b = 2 /\ v = "allow"
    <3>1. at + 2 \in at + 1 .. at + b /\ at + 2 \in 1 .. Len(log') /\ b >= 2 /\ b > 0
      BY <1>1, <2>2
    <3>2. log'[at + 2].id = <<"dec", n>> /\ log'[at + 2].val = "allow"
      BY <1>1, <2>2, <3>1, AttemptParts
    <3>3. ASSUME NEW j \in 1 .. Len(log'), log'[j].id = <<"eff", n>> PROVE FALSE
      <4>1. log'[j].id[1] = "eff"
        BY <3>3
      <4>2. CASE j \in 1 .. Len(log) /\ log'[j] = log[j]
        BY <1>2, <3>3, <4>2, FreshNumber
      <4>3. CASE j \in at + 1 .. at + b
        <5>1. b = 3
          BY <1>1, <4>1, <4>3, AttemptParts
        <5> QED
          BY <2>2, <5>1
      <4> QED
        BY <4>1, <4>2, <4>3, OldRecords, NotHeaders
    <3>4. Opened(log', n)
      BY <3>1, <3>2, <3>3 DEF Opened
    <3> QED
      BY <2>2, <3>1, <3>4
  <2> QED
    BY <1>5, <2>1, <2>2
<1> QED
  BY <1>3, <1>4, <1>5 DEF Sound

LEMMA SoundClose ==
    ASSUME TypeOK, Sound, NEW at, NEW b, Appends(at, b), b \in {0, 1},
           NEW x \in Slots \ {0},
           b = 1 => log'[at + 1] = EffRec(x, "done"),
           sess'.counter = sess.counter,
           \A y \in Slots' \ {0} : y \in Slots /\ y # x,
           Apart'
    PROVE  Sound'
<1>1. at \in Nat /\ b \in Nat /\ Len(log) \in Nat /\ Len(log) <= at
      /\ Len(log') = at + b /\ sess.counter \in Nat
  BY GatewayAssumption DEF Appends, TypeOK
<1>2. /\ Numbered(log, sess.counter) /\ EffectsAreSound
      /\ x <= sess.counter /\ Opened(log, x)
  BY DEF Sound
<1>3. ASSUME NEW i \in at + 1 .. at + b
      PROVE  /\ i = at + b /\ log'[i].id = <<"eff", x>> /\ log'[i].id[2] = x
  <2>1. i = at + 1 /\ b = 1
    BY <1>1
  <2> QED
    BY <2>1 DEF EffRec, Rec
<1>4. Numbered(log', sess'.counter)
  BY <1>1, <1>2, <1>3, NumberedKept
<1>5. EffectsAreSound'
  <2>1. ASSUME NEW i \in at + 1 .. at + b
        PROVE  /\ i = at + b
               /\ \A j \in 1 .. Len(log) : log[j].id # log'[i].id
               /\ \E j \in 1 .. i - 1 :
                     /\ log'[j].id = <<"dec", log'[i].id[2]>>
                     /\ log'[i].val # "blocked" => log'[j].val = "allow"
    <3>1. PICK j \in 1 .. Len(log) : log[j].id = <<"dec", x>> /\ log[j].val = "allow"
      BY <1>2 DEF Opened
    <3>2. log'[j] = log[j]
      BY DEF Appends
    <3>3. j \in 1 .. i - 1
      BY <1>1
    <3>4. \A y \in 1 .. Len(log) : log[y].id # <<"eff", x>>
      BY <1>2 DEF Opened
    <3> QED
      BY <1>3, <3>1, <3>2, <3>3, <3>4
  <2>2. \A i \in 1 .. Len(log') : Closing(log', i)
    BY <1>2, <2>1, EffectsKept
  <2> QED
    BY <2>2 DEF EffectsAreSound, Closing
<1>6. ASSUME NEW y \in Slots' \ {0}
      PROVE  y <= sess'.counter /\ Opened(log', y)
  <2>1. y <= sess.counter /\ Opened(log, y) /\ y # x
    BY <1>6 DEF Sound
  <2>2. \A i \in at + 1 .. at + b : log'[i].id # <<"eff", y>>
    BY <1>3, <2>1
  <2> QED
    BY <2>1, <2>2, OpenedKept
<1> QED
  BY <1>4, <1>5, <1>6 DEF Sound

LEMMA SoundStill ==
    ASSUME TypeOK, Sound, NEW at, Appends(at, 0),
           sess'.counter \in Nat, sess'.counter >= sess.counter,
           \A y \in Slots' \ {0} : y \in Slots,
           Apart'
    PROVE  Sound'
<1>1. at \in Nat /\ \A i \in at + 1 .. at + 0 : FALSE
  BY DEF Appends
<1>2. Numbered(log', sess'.counter)
  BY <1>1, NumberedKept DEF Sound
<1>3. \A i \in 1 .. Len(log') : Closing(log', i)
  BY <1>1, EffectsKept DEF Sound
<1>4. EffectsAreSound'
  BY <1>3 DEF EffectsAreSound, Closing
<1>5. ASSUME NEW y \in Slots' \ {0}
      PROVE  y <= sess'.counter /\ Opened(log', y)
  <2>1. y <= sess.counter /\ Opened(log, y) /\ y \in Nat /\ sess.counter \in Nat
    BY <1>5, SlotsType, GatewayAssumption DEF Sound, TypeOK
  <2>2. Opened(log', y)
    BY <1>1, <2>1, OpenedKept
  <2> QED
    BY <2>1, <2>2
<1> QED
  BY <1>2, <1>4, <1>5 DEF Sound

-----------------------------------------------------------------------------
(* Where a call waits moves from slot to slot, is given up, or is new.     *)

LEMMA ApartStill ==
    ASSUME Apart, UNCHANGED <<pending, toAgent, disp>>
    PROVE  Apart'
BY DEF Apart

LEMMA ApartAct ==
    ASSUME TypeOK, Apart, \A x \in Slots \ {0} : x <= sess.counter,
           NEW id \in Ids, NEW n \in Nat, n > sess.counter,
           pending' = [pending EXCEPT ![id] = n], UNCHANGED <<toAgent, disp>>
    PROVE  Apart'
<1>1. /\ pending \in [Ids -> 0 .. MaxCalls] /\ sess.counter \in Nat
      /\ toAgent \in [ServerIds -> 0 .. MaxCalls]
  BY GatewayAssumption DEF TypeOK
<1>2. n \notin Slots /\ n # 0
  BY <1>1, SlotsType
<1>3. /\ \A i \in Ids : pending[i] # n
      /\ \A j \in ServerIds : toAgent[j] # n
      /\ disp.call # n
  BY <1>2 DEF Slots
<1>4. \A i \in Ids : pending'[i] = IF i = id THEN n ELSE pending[i]
  BY <1>1
<1> QED
  BY <1>2, <1>3, <1>4 DEF Apart

LEMMA ApartAsk ==
    ASSUME TypeOK, Apart, \A x \in Slots \ {0} : x <= sess.counter,
           NEW id \in ServerIds, NEW n \in Nat, n > sess.counter,
           toAgent' = [toAgent EXCEPT ![id] = n], UNCHANGED <<pending, disp>>
    PROVE  Apart'
<1>1. /\ pending \in [Ids -> 0 .. MaxCalls] /\ sess.counter \in Nat
      /\ toAgent \in [ServerIds -> 0 .. MaxCalls]
  BY GatewayAssumption DEF TypeOK
<1>2. n \notin Slots /\ n # 0
  BY <1>1, SlotsType
<1>3. /\ \A i \in Ids : pending[i] # n
      /\ \A j \in ServerIds : toAgent[j] # n
      /\ disp.call # n
  BY <1>2 DEF Slots
<1>4. \A i \in ServerIds : toAgent'[i] = IF i = id THEN n ELSE toAgent[i]
  BY <1>1
<1> QED
  BY <1>2, <1>3, <1>4 DEF Apart

LEMMA ApartAnswer ==
    ASSUME TypeOK, Apart, NEW id \in ServerIds,
           toAgent' = [toAgent EXCEPT ![id] = 0], UNCHANGED <<pending, disp>>
    PROVE  /\ Apart'
           /\ \A y \in Slots' \ {0} : y \in Slots /\ y # toAgent[id]
<1>1. toAgent \in [ServerIds -> 0 .. MaxCalls]
  BY DEF TypeOK
<1>2. \A i \in ServerIds : toAgent'[i] = IF i = id THEN 0 ELSE toAgent[i]
  BY <1>1
<1>3. Apart'
  BY <1>2 DEF Apart
<1>4. \A i \in ServerIds : toAgent'[i] # 0 => toAgent'[i] = toAgent[i]
                                              /\ toAgent[i] # toAgent[id]
  BY <1>2 DEF Apart
<1>5. /\ \A i \in Ids : pending'[i] # 0 => pending'[i] = pending[i]
                                           /\ pending[i] # toAgent[id]
      /\ disp'.call # 0 => disp'.call = disp.call /\ disp.call # toAgent[id]
  BY DEF Apart
<1> QED
  BY <1>3, <1>4, <1>5 DEF Slots

LEMMA ApartTake ==
    ASSUME TypeOK, Apart, Idle, NEW id \in Ids, NEW a, TakePending(id, a),
           UNCHANGED toAgent
    PROVE  Apart' /\ \A y \in Slots' \ {0} : y \in Slots
<1>1. pending \in [Ids -> 0 .. MaxCalls]
  BY DEF TypeOK
<1>2. /\ \A i \in Ids : pending'[i] = IF i = id THEN 0 ELSE pending[i]
      /\ disp'.call = pending[id]
  BY <1>1 DEF TakePending
<1>3. Apart'
  BY <1>2 DEF Apart
<1> QED
  BY <1>2, <1>3 DEF Slots

LEMMA ApartClose ==
    ASSUME TypeOK, Apart, ~Idle, disp' = [call |-> 0, answer |-> 0],
           UNCHANGED <<pending, toAgent>>
    PROVE  Apart' /\ \A y \in Slots' \ {0} : y \in Slots /\ y # disp.call
<1>1. disp'.call = 0
  OBVIOUS
<1>2. Apart'
  BY <1>1 DEF Apart
<1>3. /\ \A i \in Ids : pending[i] # 0 => pending[i] # disp.call
      /\ \A i \in ServerIds : toAgent[i] # 0 => toAgent[i] # disp.call
  BY DEF Apart
<1> QED
  BY <1>1, <1>2, <1>3 DEF Slots

LEMMA SoundInit == Init => Sound
<1> SUFFICES ASSUME Init PROVE Sound
  OBVIOUS
<1>1. Opens(log, auth)
  BY TypeInit, OpeningFacts DEF Init, TypeOK
<1>2. \A i \in 1 .. Len(log) : log[i].id[1] \notin {"call", "dec", "eff"}
  BY <1>1 DEF Opens, Headers
<1>3. Numbered(log, sess.counter) /\ EffectsAreSound
  BY <1>2 DEF Numbered, EffectsAreSound
<1>4. Slots \subseteq {0}
  BY DEF Init, Slots
<1>5. Apart
  BY DEF Init, Apart
<1> QED
  BY <1>3, <1>4, <1>5 DEF Sound

LEMMA SoundSlots ==
    ASSUME Sound
    PROVE  Apart /\ \A x \in Slots \ {0} : x <= sess.counter
BY DEF Sound

LEMMA SoundHandle ==
    ASSUME TypeOK, Sound, NEW id \in Ids \cup {NoId}, NEW t \in Bearers,
           NEW v \in {"allow", "deny"}, NEW out, Handled(id, t, v, out)
    PROVE  Sound'
<1>1. PICK o, r, d, k, j, b :
              /\ Checked(o) /\ Reports(r, o) /\ Renews(d, o)
              /\ ActLeaves(o, r, d, k, j, b, id, t, v, out)
  BY ActStep
<1> DEFINE at   == Len(log) + k + j
           full == k = Len(r) /\ j = Len(d)
           n    == sess.counter + 1
           g    == IF o.renewed THEN o.auth.generation ELSE sess.agent
           w    == IF o.denied \/ v = "deny" THEN "deny" ELSE "allow"
<1>2. /\ Writes(r, k, d, j, b) /\ Attempt(at, n, g, w, "blocked", b)
      /\ b > 0 => full
      /\ sess'.counter = IF full THEN n ELSE sess.counter
  BY <1>1 DEF ActLeaves
<1>3. o.renewed \in BOOLEAN /\ o.denied \in BOOLEAN /\ Appends(at, b)
  BY <1>1, <1>2, WritesAppends DEF Checked
<1>4. n \in Nat /\ n > sess.counter /\ sess.counter \in Nat
  BY GatewayAssumption DEF TypeOK
<1>5. sess'.counter \in Nat /\ sess'.counter >= sess.counter
      /\ (b > 0 => sess'.counter >= n)
  BY <1>2, <1>4
<1>6. /\ toAgent' = toAgent /\ disp' = disp
      /\ pending' = pending
           \/ (/\ b = 2 /\ w = "allow" /\ id \in Ids
               /\ pending' = [pending EXCEPT ![id] = n])
  <2>1. toAgent' = toAgent /\ disp' = disp
    BY <1>1 DEF ActLeaves
  <2>2. Passes(o, id, v) => w = "allow"
    BY <1>3 DEF Passes
  <2>3. pending' = IF b = (IF Passes(o, id, v) THEN 2 ELSE 3) /\ Passes(o, id, v)
                      /\ id # NoId
                   THEN [pending EXCEPT ![id] = n] ELSE pending
    BY <1>1 DEF ActLeaves
  <2>4. id # NoId => id \in Ids
    BY DEF Ids
  <2> HIDE DEF n, w
  <2> QED
    BY <2>1, <2>2, <2>3, <2>4
<1>7. pending \in [Ids -> 0 .. MaxCalls]
  BY DEF TypeOK
<1> HIDE DEF at, full, n, g, w
<1>8. Apart'
  BY <1>4, <1>6, SoundSlots, ApartAct, ApartStill
<1>9. \A x \in Slots' \ {0} : x \in Slots \/ (x = n /\ b = 2 /\ w = "allow")
  BY <1>6, <1>7 DEF Slots
<1> QED
  BY <1>2, <1>3, <1>4, <1>5, <1>8, <1>9, SoundAttempt

LEMMA SoundAgent ==
    ASSUME TypeOK, Sound,
           \/ \E id \in MachineryIds : HandleMachinery(id)
           \/ RelayMalformed
           \/ \E t \in Tokens : PresentBearer(t)
           \/ \E id \in ServerIds : HandleAnswer(id)
           \/ \E id \in ServerIds \cup {NoId} : HandleUnsolicited(id)
           \/ \E m \in toServer : Deliver(m)
    PROVE  Sound'
<1>0. sess.counter \in Nat /\ Apart /\ sess.counter >= sess.counter
  BY GatewayAssumption, SoundSlots DEF TypeOK
<1>1. ASSUME UNCHANGED <<log, pending, toAgent, disp>>, sess'.counter = sess.counter
      PROVE  Sound'
  <2>1. Numbered(log', sess'.counter)
    BY <1>1 DEF Sound
  <2>2. EffectsAreSound'
    BY <1>1 DEF Sound, EffectsAreSound
  <2>3. \A n \in Slots' \ {0} : n <= sess'.counter /\ Opened(log', n)
    BY <1>1 DEF Sound, Slots
  <2> QED
    BY <1>0, <1>1, <2>1, <2>2, <2>3, ApartStill DEF Sound
<1>2. ASSUME NEW id \in MachineryIds, HandleMachinery(id) PROVE Sound'
  BY <1>1, <1>2 DEF HandleMachinery
<1>7. ASSUME RelayMalformed PROVE Sound'
  BY <1>1, <1>7 DEF RelayMalformed
<1>3. ASSUME NEW t \in Tokens, PresentBearer(t) PROVE Sound'
  <2>1. PICK o, r, d, k, j :
              /\ Checked(o) /\ Reports(r, o) /\ Renews(d, o)
              /\ BearerLeaves(o, r, d, k, j)
    BY <1>3, BearerStep
  <2>2. Writes(r, k, d, j, 0) /\ sess'.counter = sess.counter /\ o.renewed \in BOOLEAN
    BY <2>1 DEF BearerLeaves, Checked
  <2>3. Appends(Len(log) + k + j, 0)
    BY <2>1, <2>2, WritesAppends
  <2>4. UNCHANGED <<pending, toAgent, disp>>
    <3>1. UNCHANGED <<envVars, pending, toAgent, relayed, wireVars, disp, hist>>
      BY <1>3, Zenon DEF PresentBearer
    <3> QED
      BY <3>1
  <2>5. \A y \in Slots' \ {0} : y \in Slots
    BY <2>4 DEF Slots
  <2>6. Apart'
    BY <1>0, <2>4, ApartStill
  <2>7. sess'.counter \in Nat /\ sess'.counter >= sess.counter
    BY <1>0, <2>2
  <2> QED
    BY <2>3, <2>5, <2>6, <2>7, SoundStill
<1>4. ASSUME NEW id \in ServerIds, HandleAnswer(id) PROVE Sound'
  <2>1. toAgent[id] \in Nat
    BY GatewayAssumption DEF TypeOK
  <2>2. sess' = sess /\ UNCHANGED <<pending, disp>>
    BY <1>4 DEF HandleAnswer
  <2>3. CASE toAgent[id] # 0
    <3>1. PICK k \in 0 .. 1 : Written(<<EffRec(toAgent[id], "done")>>, k)
      BY <1>4, <2>3 DEF HandleAnswer
    <3>2. /\ Appends(Len(log), k)
          /\ k = 1 => log'[Len(log) + 1] = EffRec(toAgent[id], "done")
      BY <2>1, <3>1, CloseFacts
    <3>3. toAgent' = [toAgent EXCEPT ![id] = 0]
      BY <1>4, <2>3 DEF HandleAnswer
    <3>4. /\ Apart'
          /\ \A y \in Slots' \ {0} : y \in Slots /\ y # toAgent[id]
      BY <1>0, <2>2, <3>3, ApartAnswer
    <3>5. toAgent[id] \in Slots \ {0}
      BY <2>3 DEF Slots
    <3>6. k \in {0, 1} /\ sess'.counter = sess.counter
      BY <2>2
    <3> QED
      BY <3>2, <3>4, <3>5, <3>6, SoundClose
  <2>4. CASE toAgent[id] = 0
    BY <1>1, <1>4, <2>2, <2>4 DEF HandleAnswer
  <2> QED
    BY <2>3, <2>4
<1>5. ASSUME NEW id \in ServerIds \cup {NoId}, HandleUnsolicited(id)
      PROVE  Sound'
  <2>1. UNCHANGED <<pending, toAgent, disp>>
    BY <1>5 DEF HandleUnsolicited
  <2>2. CASE UNCHANGED <<log, fails, sess>>
    BY <1>1, <2>1, <2>2
  <2>3. CASE /\ sess' = [sess EXCEPT !.counter = sess.counter + 1]
             /\ \E k \in 0 .. 3 :
                    /\ Appends(Len(log), k)
                    /\ Attempt(Len(log), sess.counter + 1, sess.agent, "deny",
                               "blocked", k)
    <3>1. sess'.counter = sess.counter + 1
      BY <2>3 DEF TypeOK
    <3>2. \A y \in Slots' \ {0} : y \in Slots
      BY <2>1 DEF Slots
    <3>3. Apart'
      BY <1>0, <2>1, ApartStill
    <3>4. sess.counter + 1 \in Nat /\ sess.counter + 1 > sess.counter
      BY <1>0
    <3>5. PICK k \in 0 .. 3 :
                    /\ Appends(Len(log), k)
                    /\ Attempt(Len(log), sess.counter + 1, sess.agent, "deny",
                               "blocked", k)
      BY <2>3
    <3>6. sess'.counter \in Nat /\ sess'.counter >= sess.counter
          /\ sess'.counter >= sess.counter + 1
      BY <1>0, <3>1
    <3> QED
      BY <3>2, <3>3, <3>4, <3>5, <3>6, SoundAttempt
  <2> QED
    BY <1>5, <2>2, <2>3, UnsolicitedStep
<1>6. ASSUME NEW m \in toServer, Deliver(m) PROVE Sound'
  BY <1>1, <1>6 DEF Deliver
<1> QED
  BY <1>2, <1>3, <1>4, <1>5, <1>6, <1>7

LEMMA SoundServer ==
    ASSUME TypeOK, Sound, FromServer
    PROVE  Sound'
<1>0. sess.counter \in Nat /\ Apart /\ Len(log) \in Nat
  BY GatewayAssumption, LenProperties, SoundSlots DEF TypeOK
<1>1. ASSUME NEW id \in Ids, NEW n, Idle, TakePending(id, n),
             UNCHANGED <<sess, toAgent, log>>
      PROVE  Sound'
  <2>1. Apart' /\ \A y \in Slots' \ {0} : y \in Slots
    BY <1>0, <1>1, ApartTake
  <2>2. Numbered(log', sess'.counter)
    BY <1>1 DEF Sound
  <2>3. EffectsAreSound'
    BY <1>1 DEF Sound, EffectsAreSound
  <2>4. \A y \in Slots' \ {0} : y <= sess'.counter /\ Opened(log', y)
    BY <1>1, <2>1 DEF Sound
  <2> QED
    BY <2>1, <2>2, <2>3, <2>4 DEF Sound
<1>2. ASSUME NEW m \in atServer, ServerAnswers(m) PROVE Sound'
  <2>1. m.id \in Ids
    BY MessageParts DEF TypeOK
  <2> QED
    BY <1>1, <1>2, <2>1 DEF ServerAnswers
<1>3. ASSUME NEW id \in Ids, ServerMakesUp(id) PROVE Sound'
  BY <1>1, <1>3 DEF ServerMakesUp
<1>4. ASSUME CloseEffect PROVE Sound'
  <2>1. PICK k \in 0 .. 1 : Written(<<EffRec(disp.call, "done")>>, k)
    BY <1>4 DEF CloseEffect
  <2>2. disp.call \in Nat /\ disp.call \in Slots \ {0}
    BY <1>4, GatewayAssumption DEF TypeOK, CloseEffect, Idle, Slots
  <2>3. /\ Appends(Len(log), k)
        /\ k = 1 => log'[Len(log) + 1] = EffRec(disp.call, "done")
    BY <2>1, <2>2, CloseFacts
  <2>4. /\ Apart'
        /\ \A y \in Slots' \ {0} : y \in Slots /\ y # disp.call
    BY <1>0, <1>4, ApartClose DEF CloseEffect
  <2>5. k \in {0, 1} /\ sess'.counter = sess.counter
    BY <1>4 DEF CloseEffect
  <2> QED
    BY <2>2, <2>3, <2>4, <2>5, SoundClose
<1>5. ASSUME NEW id \in ServerIds, ServerPings(id) PROVE Sound'
  <2>1. UNCHANGED <<log, sess, pending, toAgent, disp>>
    BY <1>5 DEF ServerPings
  <2>2. EffectsAreSound'
    BY <2>1 DEF Sound, EffectsAreSound
  <2> QED
    BY <1>0, <2>1, <2>2, ApartStill DEF Sound, Slots
<1>6. ASSUME NEW id \in ServerIds \cup {NoId}, NEW verdict \in {"allow", "deny"},
             ServerAsks(id, verdict)
      PROVE  Sound'
  <2>1. PICK k \in 0 .. 3, v \in {"allow", "deny"}, pass \in BOOLEAN, open \in BOOLEAN :
              /\ Appends(Len(log), k)
              /\ Attempt(Len(log), sess.counter + 1, sess.agent, v, "blocked", k)
              /\ pass => v = "allow"
              /\ open = (pass /\ k = 2 /\ id # NoId)
              /\ toAgent' = IF open THEN [toAgent EXCEPT ![id] = sess.counter + 1]
                            ELSE toAgent
    BY <1>6, AsksStep
  <2>2. sess'.counter = sess.counter + 1
    BY <1>6, AsksStep DEF TypeOK
  <2>3. PICK n : n = sess.counter + 1
    OBVIOUS
  <2>4. UNCHANGED <<pending, disp>> /\ toAgent \in [ServerIds -> 0 .. MaxCalls]
    BY <1>6 DEF ServerAsks, TypeOK
  <2>5. toAgent' = toAgent
          \/ (/\ k = 2 /\ v = "allow" /\ id \in ServerIds
              /\ toAgent' = [toAgent EXCEPT ![id] = n])
    BY <2>1, <2>3
  <2>6. n \in Nat /\ n > sess.counter /\ sess'.counter \in Nat
        /\ sess'.counter >= sess.counter /\ sess'.counter >= n
    BY <1>0, <2>2, <2>3
  <2>7. Apart'
    BY <2>4, <2>5, <2>6, SoundSlots, ApartAsk, ApartStill
  <2>8. \A x \in Slots' \ {0} : x \in Slots \/ (x = n /\ k = 2 /\ v = "allow")
    BY <2>4, <2>5 DEF Slots
  <2>9. Appends(Len(log), k) /\ Attempt(Len(log), n, sess.agent, v, "blocked", k)
    BY <2>1, <2>3
  <2> QED
    BY <2>6, <2>7, <2>8, <2>9, SoundAttempt
<1>7. ASSUME NEW verdict \in {"allow", "deny"}, ServerNotifies(verdict)
      PROVE  Sound'
  <2>1. PICK k \in 0 .. 3, v \in {"allow", "deny"} :
              /\ Appends(Len(log), k)
              /\ Attempt(Len(log), sess.counter + 1, sess.agent, v,
                         IF v = "allow" THEN "done" ELSE "blocked", k)
    BY <1>7, NotifiesStep
  <2>2. sess'.counter = sess.counter + 1
    BY <1>7, NotifiesStep DEF TypeOK
  <2>3. PICK n : n = sess.counter + 1
    OBVIOUS
  <2>4. PICK e : e = IF v = "allow" THEN "done" ELSE "blocked"
    OBVIOUS
  <2>5. Attempt(Len(log), n, sess.agent, v, e, k) /\ (e # "blocked" => v = "allow")
    BY <2>1, <2>3, <2>4
  <2>6. n \in Nat /\ n > sess.counter /\ sess'.counter \in Nat
        /\ sess'.counter >= sess.counter /\ sess'.counter >= n
    BY <1>0, <2>2, <2>3
  <2>7. UNCHANGED <<pending, toAgent, disp>>
    BY <1>7 DEF ServerNotifies
  <2>8. \A y \in Slots' \ {0} : y \in Slots
    BY <2>7 DEF Slots
  <2>9. Apart'
    BY <1>0, <2>7, ApartStill
  <2> QED
    BY <2>1, <2>5, <2>6, <2>8, <2>9, SoundAttempt
<1> QED
  BY <1>2, <1>3, <1>4, <1>5, <1>6, <1>7 DEF FromServer

LEMMA SoundStep ==
    ASSUME MaxRestarts = 0
    PROVE  TypeOK /\ Sound /\ [Next]_vars => Sound'
<1> SUFFICES ASSUME TypeOK, Sound, [Next]_vars PROVE Sound'
  OBVIOUS
<1>1. ASSUME UNCHANGED <<log, sess, pending, toAgent, disp>> PROVE Sound'
  <2>1. EffectsAreSound'
    BY <1>1 DEF Sound, EffectsAreSound
  <2> QED
    BY <1>1, <2>1, SoundSlots, ApartStill DEF Sound, Slots
<1>2. CASE FromAgent
  BY <1>2, AgentCases, SoundHandle, SoundAgent DEF Handles
<1>3. CASE \E m \in toServer : Deliver(m)
  BY <1>3, SoundAgent
<1>4. CASE World
  <2>1. ~Restart
    BY DEF Restart, TypeOK
  <2> QED
    BY <1>1, <1>4, <2>1 DEF World, Expire, Publish, RenewTokenFile
<1>5. CASE UNCHANGED vars
  BY <1>1, <1>5 DEF vars
<1> QED
  BY <1>2, <1>3, <1>4, <1>5, SoundServer DEF Next

(* A call of one process has at most one effect, below its decision, and a *)
(* denied call is never recorded as executed, whatever the server answers, *)
(* whatever ids are reused and whichever writes fail.                      *)
THEOREM EffectsSound ==
    ASSUME MaxRestarts = 0
    PROVE  Spec => []EffectsAreSound
<1>1. Sound => EffectsAreSound
  BY DEF Sound
<1> QED
  BY <1>1, SoundInit, SoundStep, TypeCorrect, PTL DEF Spec

-----------------------------------------------------------------------------
(***************************************************************************)
(* What goes out was recorded first.                                       *)
(***************************************************************************)

(* l holds the attempt n, allows it and never calls it blocked.            *)
Cleared(l, n) ==
    /\ \E i \in 1 .. Len(l) : l[i].id = <<"call", n>> /\ l[i].val = "call"
    /\ \E i \in 1 .. Len(l) : l[i].id = <<"dec", n>> /\ l[i].val = "allow"
    /\ \A i \in 1 .. Len(l) : l[i].id = <<"eff", n>> => l[i].val # "blocked"

Sent ==
    \A m \in toServer \cup atServer :
        m.kind = "act" => m.n <= sess.counter /\ Cleared(log, m.n)

(* No step calls an earlier attempt blocked.                               *)
Grows ==
    \E at, b :
        /\ Appends(at, b)
        /\ \A i \in at + 1 .. at + b, n \in 0 .. sess.counter :
              log'[i].id = <<"eff", n>> => log'[i].val # "blocked"

LEMMA ClearedKept ==
    ASSUME Grows, NEW n \in 0 .. sess.counter, Cleared(log, n)
    PROVE  Cleared(log', n)
<1>1. PICK at, b :
        /\ Appends(at, b)
        /\ \A i \in at + 1 .. at + b :
              log'[i].id = <<"eff", n>> => log'[i].val # "blocked"
  BY DEF Grows
<1>2. ASSUME NEW i \in 1 .. Len(log) PROVE i \in 1 .. Len(log') /\ log'[i] = log[i]
  <2>1. Len(log) \in Nat /\ at \in Nat /\ b \in Nat /\ Len(log) <= at /\ Len(log') = at + b
    BY <1>1 DEF Appends
  <2> QED
    BY <1>1, <2>1 DEF Appends
<1>3. ASSUME NEW i \in 1 .. Len(log'), log'[i].id = <<"eff", n>>
      PROVE  log'[i].val # "blocked"
  <2>1. log'[i].id[1] = "eff"
    BY <1>3
  <2>2. CASE i \in 1 .. Len(log) /\ log'[i] = log[i]
    BY <1>3, <2>2 DEF Cleared
  <2>3. CASE i \in at + 1 .. at + b
    BY <1>1, <1>3, <2>3
  <2> QED
    BY <1>1, <2>1, <2>2, <2>3, OldRecords, NotHeaders
<1>4. \E i \in 1 .. Len(log') : log'[i].id = <<"call", n>> /\ log'[i].val = "call"
  BY <1>2 DEF Cleared
<1>5. \E i \in 1 .. Len(log') : log'[i].id = <<"dec", n>> /\ log'[i].val = "allow"
  BY <1>2 DEF Cleared
<1> QED
  BY <1>3, <1>4, <1>5 DEF Cleared

LEMMA GrowsAttempt ==
    ASSUME TypeOK, NEW at, NEW b, Appends(at, b), NEW g, NEW v, NEW e,
           Attempt(at, sess.counter + 1, g, v, e, b)
    PROVE  Grows
<1>1. sess.counter \in Nat /\ at \in Nat
  BY GatewayAssumption DEF TypeOK, Appends
<1>2. PICK n : n = sess.counter + 1
  OBVIOUS
<1>3. ASSUME NEW i \in at + 1 .. at + b, NEW x \in 0 .. sess.counter,
             log'[i].id = <<"eff", x>>
      PROVE  FALSE
  <2>1. log'[i].id[2] = n
    BY <1>1, <1>2, AttemptParts
  <2> QED
    BY <1>1, <1>2, <1>3, <2>1
<1> QED
  BY <1>3 DEF Grows

LEMMA GrowsClose ==
    ASSUME NEW at, NEW b, Appends(at, b), b \in {0, 1}, NEW x,
           b = 1 => log'[at + 1] = EffRec(x, "done")
    PROVE  Grows
<1>1. at \in Nat
  BY DEF Appends
<1>2. ASSUME NEW i \in at + 1 .. at + b PROVE log'[i].val # "blocked"
  <2>1. i = at + 1 /\ b = 1
    BY <1>1
  <2>2. log'[at + 1].val = "done"
    BY <2>1 DEF EffRec, Rec
  <2> QED
    BY <2>1, <2>2
<1> QED
  BY <1>2 DEF Grows

LEMMA GrowsStill ==
    ASSUME TypeOK, log' = log
    PROVE  Grows
<1>1. Len(log) \in Nat /\ log' \in Seq(Record)
  BY LenProperties DEF TypeOK
<1>2. Appends(Len(log), 0)
  BY <1>1 DEF Appends
<1>3. \A i \in Len(log) + 1 .. Len(log) + 0 : FALSE
  BY <1>1
<1> QED
  BY <1>2, <1>3 DEF Grows

LEMMA LogGrows ==
    ASSUME TypeOK, [Next]_vars
    PROVE  /\ Grows
           /\ ~Restart => sess'.counter \in Nat /\ sess'.counter >= sess.counter
<1>0. sess.counter \in Nat
  BY GatewayAssumption DEF TypeOK
<1> DEFINE Ok == Grows /\ sess'.counter \in Nat /\ sess'.counter >= sess.counter
<1>1. ASSUME log' = log, sess'.counter = sess.counter PROVE Ok
  BY <1>0, <1>1, GrowsStill
<1>2. ASSUME NEW id \in Ids \cup {NoId}, NEW t \in Bearers,
             NEW v \in {"allow", "deny"}, NEW out, Handled(id, t, v, out)
      PROVE  Ok
  <2>1. PICK o, r, d, k, j, b :
              /\ Checked(o) /\ Reports(r, o) /\ Renews(d, o)
              /\ ActLeaves(o, r, d, k, j, b, id, t, v, out)
    BY <1>2, ActStep
  <2>2. /\ Writes(r, k, d, j, b) /\ o.renewed \in BOOLEAN
        /\ Attempt(Len(log) + k + j, sess.counter + 1,
                   IF o.renewed THEN o.auth.generation ELSE sess.agent,
                   IF o.denied \/ v = "deny" THEN "deny" ELSE "allow",
                   "blocked", b)
    BY <2>1 DEF ActLeaves, Checked
  <2>3. Appends(Len(log) + k + j, b)
    BY <2>1, <2>2, WritesAppends
  <2>4. Grows
    BY <2>2, <2>3, GrowsAttempt
  <2>5. sess'.counter = sess.counter + 1 \/ sess'.counter = sess.counter
    BY <2>1 DEF ActLeaves
  <2> QED
    BY <1>0, <2>4, <2>5
<1>3. ASSUME NEW t \in Tokens, PresentBearer(t) PROVE Ok
  <2>1. PICK o, r, d, k, j :
              /\ Checked(o) /\ Reports(r, o) /\ Renews(d, o)
              /\ BearerLeaves(o, r, d, k, j)
    BY <1>3, BearerStep
  <2>2. Writes(r, k, d, j, 0) /\ sess'.counter = sess.counter /\ o.renewed \in BOOLEAN
    BY <2>1 DEF BearerLeaves, Checked
  <2>3. Appends(Len(log) + k + j, 0)
    BY <2>1, <2>2, WritesAppends
  <2> QED
    BY <1>0, <2>2, <2>3, GrowsClose
<1>4. ASSUME NEW id \in ServerIds, HandleAnswer(id) PROVE Ok
  <2>1. toAgent[id] \in Nat /\ sess' = sess
    BY <1>4, GatewayAssumption DEF TypeOK, HandleAnswer
  <2>2. CASE toAgent[id] # 0
    <3>1. PICK k \in 0 .. 1 : Written(<<EffRec(toAgent[id], "done")>>, k)
      BY <1>4, <2>2 DEF HandleAnswer
    <3>2. /\ Appends(Len(log), k) /\ k \in {0, 1}
          /\ k = 1 => log'[Len(log) + 1] = EffRec(toAgent[id], "done")
      BY <2>1, <3>1, CloseFacts
    <3> QED
      BY <1>0, <2>1, <3>2, GrowsClose
  <2>3. CASE toAgent[id] = 0
    BY <1>1, <1>4, <2>1, <2>3 DEF HandleAnswer
  <2> QED
    BY <2>2, <2>3
<1>5. ASSUME NEW id \in ServerIds \cup {NoId}, HandleUnsolicited(id) PROVE Ok
  <2>1. CASE UNCHANGED <<log, fails, sess>>
    BY <1>1, <2>1
  <2>2. CASE /\ sess' = [sess EXCEPT !.counter = sess.counter + 1]
             /\ \E k \in 0 .. 3 :
                    /\ Appends(Len(log), k)
                    /\ Attempt(Len(log), sess.counter + 1, sess.agent, "deny",
                               "blocked", k)
    <3>1. sess'.counter = sess.counter + 1
      BY <2>2 DEF TypeOK
    <3> QED
      BY <1>0, <2>2, <3>1, GrowsAttempt
  <2> QED
    BY <1>5, <2>1, <2>2, UnsolicitedStep
<1>6. ASSUME CloseEffect PROVE Ok
  <2>1. PICK k \in 0 .. 1 : Written(<<EffRec(disp.call, "done")>>, k)
    BY <1>6 DEF CloseEffect
  <2>2. disp.call \in Nat /\ sess' = sess
    BY <1>6, GatewayAssumption DEF TypeOK, CloseEffect
  <2>3. /\ Appends(Len(log), k) /\ k \in {0, 1}
        /\ k = 1 => log'[Len(log) + 1] = EffRec(disp.call, "done")
    BY <2>1, <2>2, CloseFacts
  <2> QED
    BY <1>0, <2>2, <2>3, GrowsClose
<1>7. ASSUME NEW id \in ServerIds \cup {NoId}, NEW v \in {"allow", "deny"},
             ServerAsks(id, v)
      PROVE  Ok
  <2>1. sess'.counter = sess.counter + 1
    BY <1>7, AsksStep DEF TypeOK
  <2>2. \E k, w : /\ Appends(Len(log), k)
                  /\ Attempt(Len(log), sess.counter + 1, sess.agent, w, "blocked", k)
    BY <1>7, AsksStep
  <2> QED
    BY <1>0, <2>1, <2>2, GrowsAttempt
<1>8. ASSUME NEW v \in {"allow", "deny"}, ServerNotifies(v) PROVE Ok
  <2>1. sess'.counter = sess.counter + 1
    BY <1>8, NotifiesStep DEF TypeOK
  <2>2. \E k, w, e : /\ Appends(Len(log), k)
                     /\ Attempt(Len(log), sess.counter + 1, sess.agent, w, e, k)
    BY <1>8, NotifiesStep
  <2> QED
    BY <1>0, <2>1, <2>2, GrowsAttempt
<1>9. ASSUME \/ \E id \in MachineryIds : HandleMachinery(id)
             \/ RelayMalformed
             \/ \E m \in toServer : Deliver(m)
             \/ \E m \in atServer : ServerAnswers(m)
             \/ \E id \in Ids : ServerMakesUp(id)
             \/ \E id \in ServerIds : ServerPings(id)
             \/ World /\ ~Restart
             \/ UNCHANGED vars
      PROVE  Ok
  <2>1. log' = log /\ sess' = sess
    BY <1>9 DEF HandleMachinery, RelayMalformed, Deliver, ServerAnswers,
                ServerMakesUp, ServerPings, World, Expire, Publish, RenewTokenFile,
                vars
  <2> QED
    BY <1>1, <2>1
<1>10. ASSUME Restart PROVE Grows
  <2>1. \E s : Appends(Len(log) + Len(s), 0)
    BY <1>10, RestartStep
  <2> QED
    BY <2>1, GrowsClose
<1> QED
  BY <1>2, <1>3, <1>4, <1>5, <1>6, <1>7, <1>8, <1>9, <1>10, AgentCases
     DEF Next, FromServer, Handles, World

(* A message on its way to the server was there before, or passes now.     *)
LEMMA ActsSent ==
    ASSUME TypeOK, [Next]_vars, NEW m \in toServer' \cup atServer', m.kind = "act"
    PROVE  \/ m \in toServer \cup atServer
           \/ m \in toServer' \ toServer
<1>1. CASE \E x \in toServer : Deliver(x)
  BY <1>1 DEF Deliver
<1>2. CASE FromAgent
  <2>1. CASE Handles
    <3>1. atServer' = atServer
      BY <2>1 DEF Handles, Handled, Arbitrate
    <3> QED
      BY <3>1
  <2>2. CASE \E t \in Tokens : PresentBearer(t)
    <3>1. atServer' = atServer
      BY <2>2, Zenon DEF PresentBearer, wireVars
    <3> QED
      BY <3>1
  <2>3. CASE ~Handles /\ ~\E t \in Tokens : PresentBearer(t)
    <3>1. atServer' = atServer
      BY <1>2, <2>3, AgentCases DEF HandleMachinery, RelayMalformed, HandleAnswer,
                                    HandleUnsolicited
    <3> QED
      BY <3>1
  <2> QED
    BY <2>1, <2>2, <2>3
<1>3. CASE FromServer
  BY <1>3 DEF FromServer, ServerAnswers, ServerMakesUp, CloseEffect, ServerPings,
              ServerAsks, ServerNotifies, wireVars
<1>4. CASE World
  BY <1>4 DEF World, Expire, Publish, RenewTokenFile, Restart, wireVars
<1>5. CASE UNCHANGED vars
  BY <1>5 DEF vars
<1> QED
  BY <1>1, <1>2, <1>3, <1>4, <1>5 DEF Next

(* What an act sends is the next number, cleared by what it just wrote.    *)
LEMMA ActCleared ==
    ASSUME TypeOK, Numbered(log, sess.counter), NEW id \in Ids \cup {NoId},
           NEW t \in Bearers, NEW v \in {"allow", "deny"}, NEW out,
           Handled(id, t, v, out), NEW m \in toServer' \ toServer, m.kind = "act"
    PROVE  m.n <= sess'.counter /\ Cleared(log', m.n)
<1>1. PICK o, r, d, k, j, b :
              /\ Checked(o) /\ Reports(r, o) /\ Renews(d, o)
              /\ ActLeaves(o, r, d, k, j, b, id, t, v, out)
  BY ActStep
<1> DEFINE at == Len(log) + k + j
           n  == sess.counter + 1
           g  == IF o.renewed THEN o.auth.generation ELSE sess.agent
           w  == IF o.denied \/ v = "deny" THEN "deny" ELSE "allow"
<1>2. /\ Writes(r, k, d, j, b) /\ Attempt(at, n, g, w, "blocked", b)
      /\ b > 0 => sess'.counter = n
      /\ o.renewed \in BOOLEAN /\ o.denied \in BOOLEAN
  BY <1>1 DEF ActLeaves, Checked
<1>3. b = 2 /\ Passes(o, id, v) /\ m = Message("act", id, n)
  <2>1. toServer' = out \cup
                    (IF b = (IF Passes(o, id, v) THEN 2 ELSE 3) /\ Passes(o, id, v)
                     THEN toServer \cup {Message("act", id, n)} ELSE toServer)
    BY <1>1 DEF ActLeaves
  <2>2. m \notin out
    BY HandledFacts
  <2> HIDE DEF n
  <2> QED
    BY <2>1, <2>2
<1>4. m.n = n
  BY <1>3 DEF Message
<1>5. w = "allow"
  BY <1>2, <1>3 DEF Passes
<1>6. Appends(at, b)
  BY <1>1, <1>2, WritesAppends
<1>7. n \in Nat /\ n > sess.counter
  BY GatewayAssumption DEF TypeOK
<1> HIDE DEF at, n, g, w
<1>8. /\ at \in Nat /\ Len(log') = at + 2
      /\ at + 1 \in 1 .. Len(log') /\ at + 2 \in 1 .. Len(log')
  BY <1>3, <1>6 DEF Appends
<1>9. /\ log'[at + 1].id = <<"call", n>> /\ log'[at + 1].val = "call"
      /\ log'[at + 2].id = <<"dec", n>> /\ log'[at + 2].val = "allow"
  BY <1>2, <1>3, <1>5 DEF Attempt, CallRec, DecRec, Rec
<1>10. ASSUME NEW i \in 1 .. Len(log'), log'[i].id = <<"eff", n>> PROVE FALSE
  <2>1. log'[i].id[1] = "eff"
    BY <1>10
  <2>2. CASE i \in 1 .. Len(log) /\ log'[i] = log[i]
    BY <1>7, <1>10, <2>2, FreshNumber
  <2>3. CASE i \in at + 1 .. at + b
    <3>1. b = 3
      BY <1>2, <1>8, <2>1, <2>3, AttemptParts
    <3> QED
      BY <1>3, <3>1
  <2> QED
    BY <1>6, <2>1, <2>2, <2>3, OldRecords, NotHeaders
<1>11. Cleared(log', n)
  BY <1>8, <1>9, <1>10 DEF Cleared
<1>12. m.n <= sess'.counter
  BY <1>2, <1>3, <1>4, <1>7
<1> QED
  BY <1>4, <1>11, <1>12

LEMMA SentStep ==
    ASSUME MaxRestarts = 0
    PROVE  TypeOK /\ Sound /\ Sent /\ [Next]_vars => Sent'
<1> SUFFICES ASSUME TypeOK, Sound, Sent, [Next]_vars,
                    NEW m \in toServer' \cup atServer', m.kind = "act"
             PROVE  m.n <= sess'.counter /\ Cleared(log', m.n)
  BY DEF Sent
<1>1. ~Restart
  BY DEF Restart, TypeOK
<1>2. Grows /\ sess'.counter \in Nat /\ sess'.counter >= sess.counter
  BY <1>1, LogGrows
<1>3. CASE m \in toServer \cup atServer
  <2>1. m.n <= sess.counter /\ Cleared(log, m.n)
    BY <1>3 DEF Sent
  <2>2. m.n \in Nat /\ sess.counter \in Nat
    <3>1. m \in Messages
      BY <1>3 DEF TypeOK
    <3> QED
      BY <3>1, MessageParts, GatewayAssumption DEF TypeOK
  <2>3. m.n \in 0 .. sess.counter /\ m.n <= sess'.counter
    BY <1>2, <2>1, <2>2
  <2> QED
    BY <1>2, <2>1, <2>3, ClearedKept
<1>4. CASE m \in toServer' \ toServer
  <2>1. PICK id \in Ids \cup {NoId}, t \in Bearers, v \in {"allow", "deny"} :
          \E out : Handled(id, t, v, out)
    BY <1>4, OnlyActsAdd DEF Handles
  <2> QED
    BY <1>4, <2>1, ActCleared DEF Sound
<1> QED
  BY <1>3, <1>4, ActsSent

ActsRecorded ==
    \A m \in toServer \cup atServer : m.kind = "act" => RecordedAllowed(m.n)

(* Over any transport, no act of a process is on its way to the server, or *)
(* in its hands, before its attempt and the decision that allows it are    *)
(* durable, and the log never calls it blocked.                            *)
THEOREM ForwardedActs ==
    ASSUME MaxRestarts = 0
    PROVE  Spec => []ActsRecorded
<1>1. Sent => ActsRecorded
  <2> SUFFICES ASSUME Sent, NEW m \in toServer \cup atServer, m.kind = "act"
               PROVE  RecordedAllowed(m.n)
    BY DEF ActsRecorded
  <2>1. Cleared(log, m.n)
    BY DEF Sent
  <2> QED
    BY <2>1 DEF Cleared, Has, RecordedAllowed
<1>2. Init => Sent
  BY DEF Init, Sent
<1> QED
  BY <1>1, <1>2, SentStep, SoundInit, SoundStep, TypeCorrect, PTL DEF Spec

(* Over stdio nothing else goes out: an answer, machinery, or an act.      *)
Stdio ==
    /\ tokenFile \in Tokens
    /\ \A m \in toServer \cup atServer : m.kind # "malformed"

LEMMA StdioStep == TypeOK /\ Stdio /\ [Next]_vars => Stdio'
<1> SUFFICES ASSUME TypeOK, Stdio, [Next]_vars PROVE Stdio'
  OBVIOUS
<1>0. ~Http
  BY AuthAssumption DEF Stdio, Http
<1> DEFINE Kept(x) == x.kind # "malformed"
<1>1. ASSUME UNCHANGED <<tokenFile, atServer>>,
             toServer' = toServer \/ \E x : Kept(x) /\ toServer' = toServer \cup {x}
      PROVE  Stdio'
  BY <1>1 DEF Stdio
<1>2. \A i, n : /\ Kept(Message("act", i, n)) /\ Kept(Message("answer", i, n))
                /\ Kept(Message("machinery", i, n))
  BY DEF Message
<1>3. ASSUME NEW id \in Ids \cup {NoId}, NEW t \in Bearers,
             NEW v \in {"allow", "deny"}, NEW out, Handled(id, t, v, out)
      PROVE  Stdio'
  <2>1. ActSends(id, out) /\ UNCHANGED <<envVars, atServer>>
    BY <1>3, ActWire
  <2>2. out = {}
    BY <1>0, <1>3, HandledFacts
  <2>3. toServer' = toServer
          \/ toServer' = toServer \cup {Message("act", id, sess.counter + 1)}
    BY <2>1, <2>2 DEF ActSends
  <2> QED
    BY <1>1, <1>2, <2>1, <2>3 DEF envVars
<1>4. ASSUME NEW id \in MachineryIds, HandleMachinery(id) PROVE Stdio'
  BY <1>1, <1>2, <1>4 DEF HandleMachinery, envVars
<1>5. ~RelayMalformed /\ ~\E t \in Tokens : PresentBearer(t)
  BY <1>0 DEF RelayMalformed, PresentBearer
<1>6. ASSUME NEW id \in ServerIds, HandleAnswer(id) PROVE Stdio'
  BY <1>1, <1>2, <1>6 DEF HandleAnswer, envVars
<1>7. ASSUME NEW id \in ServerIds \cup {NoId}, HandleUnsolicited(id) PROVE Stdio'
  BY <1>1, <1>2, <1>7 DEF HandleUnsolicited, envVars
<1>8. CASE FromAgent
  BY <1>3, <1>4, <1>5, <1>6, <1>7, <1>8, AgentCases DEF Handles
<1>9. CASE \E m \in toServer : Deliver(m)
  BY <1>9 DEF Deliver, envVars, Stdio
<1>10. CASE FromServer
  <2>1. tokenFile' = tokenFile /\ toServer' = toServer /\ atServer' \subseteq atServer
    BY <1>10 DEF FromServer, ServerAnswers, ServerMakesUp, CloseEffect, ServerPings,
                 ServerAsks, ServerNotifies, wireVars, envVars
  <2> QED
    BY <2>1 DEF Stdio
<1>11. CASE World
  <2>1. tokenFile' \in Tokens /\ toServer' \subseteq toServer
        /\ atServer' \subseteq atServer
    BY <1>11 DEF World, Expire, Publish, RenewTokenFile, Restart, wireVars, Stdio
  <2> QED
    BY <2>1 DEF Stdio
<1>12. CASE UNCHANGED vars
  BY <1>12 DEF vars, Stdio
<1> QED
  BY <1>8, <1>9, <1>10, <1>11, <1>12 DEF Next

(* Over stdio, nothing arbitrated is on its way to the server, or in its   *)
(* hands, unless it was recorded as allowed first: a message whose method  *)
(* is not a string never gets there.  Over HTTP it does.                   *)
THEOREM ForwardedRecorded ==
    ASSUME MaxRestarts = 0, "http" \notin Transports
    PROVE  Spec => []ForwardedIsRecorded
<1>1. ActsRecorded /\ Stdio => ForwardedIsRecorded
  BY DEF ActsRecorded, Stdio, ForwardedIsRecorded
<1>2. Init => Stdio
  BY DEF Init, Stdio
<1> QED
  BY <1>1, <1>2, StdioStep, TypeCorrect, ForwardedActs, PTL DEF Spec

-----------------------------------------------------------------------------
(***************************************************************************)
(* Answers to the server, over stdio: what was answered and what may still *)
(* be answered under an id is no more than what was asked under it.        *)
(***************************************************************************)

One(b) == IF b THEN 1 ELSE 0

Balance ==
    /\ tokenFile \in Tokens
    /\ \A id \in ServerIds :
          hist.replied[id] + One(toAgent[id] # 0) + One(id \in relayed)
            <= hist.asked[id]

LEMMA BalanceInit == ASSUME "http" \notin Transports PROVE Init => Balance
<1> SUFFICES ASSUME Init PROVE Balance
  OBVIOUS
<1>1. tokenFile \in Tokens
  BY DEF Init
<1>2. ASSUME NEW id \in ServerIds
      PROVE  hist.replied[id] + One(toAgent[id] # 0) + One(id \in relayed)
               <= hist.asked[id]
  <2>1. hist.replied[id] = 0 /\ hist.asked[id] = 0
    BY DEF Init
  <2>2. toAgent[id] = 0 /\ id \notin relayed
    BY DEF Init
  <2> QED
    BY <2>1, <2>2 DEF One
<1> QED
  BY <1>1, <1>2 DEF Balance

LEMMA NoteCounts ==
    ASSUME TypeOK, NEW w, NEW h, h = Note(w, ServerAct)
    PROVE  h \in History /\ h.asked = hist.asked /\ h.replied = hist.replied
<1>1. h = hist \/ h = [hist EXCEPT !.acts = hist.acts \cup {ServerAct}]
  BY DEF Note
<1> QED
  BY <1>1, ServerNote DEF Noted, TypeOK

(* A step that asks and answers nothing.                                   *)
LEMMA BalanceStill ==
    ASSUME Balance, tokenFile' \in Tokens, UNCHANGED <<toAgent, relayed>>,
           hist'.asked = hist.asked, hist'.replied = hist.replied
    PROVE  Balance'
BY DEF Balance

LEMMA HistCounts ==
    ASSUME TypeOK, NEW id \in ServerIds
    PROVE  /\ hist \in History
           /\ hist.asked \in [ServerIds -> Nat] /\ hist.replied \in [ServerIds -> Nat]
           /\ hist.asked[id] \in Nat /\ hist.replied[id] \in Nat
BY DEF TypeOK, History

LEMMA BalanceAnswer ==
    ASSUME TypeOK, Balance, NEW id \in ServerIds, HandleAnswer(id)
    PROVE  Balance'
<1>1. /\ hist' = [hist EXCEPT !.replied[id] = @ + 1]
      /\ tokenFile' = tokenFile
  BY DEF HandleAnswer, envVars
<1>2. hist'.asked = hist.asked /\ hist'.replied = [hist.replied EXCEPT ![id] = @ + 1]
  BY <1>1, HistCounts DEF History
<1>3. toAgent \in [ServerIds -> 0 .. MaxCalls]
  BY DEF TypeOK
<1>4. \/ toAgent[id] # 0 /\ toAgent' = [toAgent EXCEPT ![id] = 0] /\ relayed' = relayed
      \/ toAgent[id] = 0 /\ id \in relayed /\ toAgent' = toAgent /\ relayed' = relayed \ {id}
  BY DEF HandleAnswer
<1>5. ASSUME NEW x \in ServerIds
      PROVE  hist'.replied[x] + One(toAgent'[x] # 0) + One(x \in relayed')
               <= hist'.asked[x]
  <2>1. hist.replied[x] + One(toAgent[x] # 0) + One(x \in relayed) <= hist.asked[x]
    BY DEF Balance
  <2>2. hist.asked[x] \in Nat /\ hist.replied[x] \in Nat
        /\ hist.replied \in [ServerIds -> Nat]
    BY HistCounts
  <2>3. CASE x = id
    <3>1. hist'.replied[x] = hist.replied[x] + 1
      BY <1>2, <2>2, <2>3
    <3>2. \/ toAgent[x] # 0 /\ toAgent'[x] = 0 /\ (x \in relayed' <=> x \in relayed)
          \/ toAgent[x] = 0 /\ toAgent'[x] = 0 /\ x \in relayed /\ x \notin relayed'
      BY <1>3, <1>4, <2>3
    <3> QED
      BY <1>2, <2>1, <2>2, <3>1, <3>2 DEF One
  <2>4. CASE x # id
    <3>1. /\ hist'.replied[x] = hist.replied[x] /\ toAgent'[x] = toAgent[x]
          /\ (x \in relayed' <=> x \in relayed)
      BY <1>2, <1>3, <1>4, <2>2, <2>4
    <3> QED
      BY <1>2, <2>1, <3>1 DEF One
  <2> QED
    BY <2>3, <2>4
<1> QED
  BY <1>1, <1>5 DEF Balance

(* One more question under id, and at most one more answer expected.       *)
LEMMA BalanceAsk ==
    ASSUME TypeOK, Balance, NEW id \in ServerIds, tokenFile' = tokenFile,
           hist'.replied = hist.replied,
           hist'.asked = [hist.asked EXCEPT ![id] = @ + 1],
           \/ relayed' = relayed /\ toAgent[id] = 0
                /\ \E n : toAgent' = [toAgent EXCEPT ![id] = n]
           \/ toAgent' = toAgent
                /\ (relayed' = relayed \/ relayed' = relayed \cup {id})
    PROVE  Balance'
<1>1. toAgent \in [ServerIds -> 0 .. MaxCalls]
  BY DEF TypeOK
<1>2. ASSUME NEW x \in ServerIds
      PROVE  hist'.replied[x] + One(toAgent'[x] # 0) + One(x \in relayed')
               <= hist'.asked[x]
  <2>1. hist.replied[x] + One(toAgent[x] # 0) + One(x \in relayed) <= hist.asked[x]
    BY DEF Balance
  <2>2. hist.asked[x] \in Nat /\ hist.replied[x] \in Nat
        /\ hist.asked \in [ServerIds -> Nat]
    BY HistCounts
  <2>3. CASE x = id
    <3>1. hist'.asked[x] = hist.asked[x] + 1
      BY <2>2, <2>3
    <3>2. \/ toAgent[x] = 0 /\ (x \in relayed' <=> x \in relayed)
          \/ toAgent'[x] = toAgent[x]
      BY <1>1, <2>3
    <3> QED
      BY <2>1, <2>2, <3>1, <3>2 DEF One
  <2>4. CASE x # id
    <3>1. /\ hist'.asked[x] = hist.asked[x] /\ toAgent'[x] = toAgent[x]
          /\ (x \in relayed' <=> x \in relayed)
      BY <1>1, <2>2, <2>4
    <3> QED
      BY <2>1, <3>1 DEF One
  <2> QED
    BY <2>3, <2>4
<1> QED
  BY <1>2 DEF Balance

LEMMA BalanceStep == TypeOK /\ Balance /\ [Next]_vars => Balance'
<1> SUFFICES ASSUME TypeOK, Balance, [Next]_vars PROVE Balance'
  OBVIOUS
<1>0. tokenFile \in Tokens /\ ~Http
  BY AuthAssumption DEF Balance, Http
<1>1. ASSUME NEW id \in Ids \cup {NoId}, NEW t \in Bearers,
             NEW v \in {"allow", "deny"}, NEW out, Handled(id, t, v, out)
      PROVE  Balance'
  <2>1. PICK o, r, d, k, j, b : ActLeaves(o, r, d, k, j, b, id, t, v, out)
    BY <1>1, ActStep
  <2>2. UNCHANGED <<envVars, toAgent, relayed>>
    BY <2>1 DEF ActLeaves
  <2>3. hist'.asked = hist.asked /\ hist'.replied = hist.replied
    BY <2>1 DEF ActLeaves, Note, TypeOK, History
  <2> QED
    BY <1>0, <2>2, <2>3, BalanceStill DEF envVars
<1>2. ASSUME NEW t \in Tokens, PresentBearer(t) PROVE Balance'
  BY <1>0, <1>2 DEF PresentBearer
<1>3. ASSUME NEW id \in ServerIds, HandleAnswer(id) PROVE Balance'
  BY <1>3, BalanceAnswer
<1>4. ASSUME NEW id \in ServerIds \cup {NoId}, HandleUnsolicited(id) PROVE Balance'
  <2>1. UNCHANGED <<envVars, toAgent, relayed>>
    BY <1>4 DEF HandleUnsolicited
  <2>2. hist' = Note(Len(log') > Len(log), ServerAct)
    BY <1>0, <1>4 DEF HandleUnsolicited
  <2> QED
    BY <1>0, <2>1, <2>2, NoteCounts, BalanceStill DEF envVars
<1>5. ASSUME CloseEffect PROVE Balance'
  <2>1. UNCHANGED <<envVars, toAgent, relayed>>
    BY <1>5 DEF CloseEffect
  <2>2. hist'.asked = hist.asked /\ hist'.replied = hist.replied
    BY <1>5 DEF CloseEffect, TypeOK, History
  <2> QED
    BY <1>0, <2>1, <2>2, BalanceStill DEF envVars
<1>6. ASSUME NEW id \in ServerIds, ServerPings(id) PROVE Balance'
  <2>1. UNCHANGED <<envVars, toAgent>>
        /\ (relayed' = relayed \/ relayed' = relayed \cup {id})
        /\ hist' = [hist EXCEPT !.asked[id] = @ + 1]
    BY <1>6 DEF ServerPings
  <2>2. /\ hist'.replied = hist.replied
        /\ hist'.asked = [hist.asked EXCEPT ![id] = @ + 1]
    BY <2>1, HistCounts DEF History
  <2> QED
    BY <2>1, <2>2, BalanceAsk DEF envVars
<1>7. ASSUME NEW id \in ServerIds \cup {NoId}, NEW verdict \in {"allow", "deny"},
             ServerAsks(id, verdict)
      PROVE  Balance'
  <2>1. PICK k \in 0 .. 3, pass \in BOOLEAN, open \in BOOLEAN :
              /\ pass => (id = NoId \/ toAgent[id] = 0)
              /\ open = (pass /\ k = 2 /\ id # NoId)
              /\ toAgent' = IF open THEN [toAgent EXCEPT ![id] = sess.counter + 1]
                            ELSE toAgent
              /\ hist' = IF open
                         THEN [Note(k > 0, ServerAct) EXCEPT !.asked[id] = @ + 1]
                         ELSE Note(k > 0, ServerAct)
    BY <1>7, AsksStep
  <2>2. UNCHANGED <<envVars, relayed>>
    BY <1>7 DEF ServerAsks
  <2>3. PICK h : h = Note(k > 0, ServerAct)
    OBVIOUS
  <2>4. h \in History /\ h.asked = hist.asked /\ h.replied = hist.replied
    BY <2>3, NoteCounts
  <2>5. CASE open
    <3>1. id \in ServerIds /\ toAgent[id] = 0
      BY <2>1, <2>5
    <3>2. hist' = [h EXCEPT !.asked[id] = @ + 1]
      BY <2>1, <2>3, <2>5
    <3>3. /\ hist'.replied = hist.replied
          /\ hist'.asked = [hist.asked EXCEPT ![id] = @ + 1]
      BY <2>4, <3>2 DEF History
    <3>4. toAgent' = [toAgent EXCEPT ![id] = sess.counter + 1]
      BY <2>1, <2>5
    <3> QED
      BY <2>2, <3>1, <3>3, <3>4, BalanceAsk DEF envVars
  <2>6. CASE ~open
    BY <1>0, <2>1, <2>2, <2>3, <2>4, <2>6, BalanceStill DEF envVars
  <2> QED
    BY <2>5, <2>6
<1>8. ASSUME NEW v \in {"allow", "deny"}, ServerNotifies(v) PROVE Balance'
  <2>1. UNCHANGED <<envVars, toAgent, relayed>>
    BY <1>8 DEF ServerNotifies
  <2>2. \E k \in 0 .. 3 : hist' = Note(k > 0, ServerAct)
    BY <1>8 DEF ServerNotifies
  <2> QED
    BY <1>0, <2>1, <2>2, NoteCounts, BalanceStill DEF envVars
<1>9. ASSUME \/ \E id \in MachineryIds : HandleMachinery(id)
             \/ RelayMalformed
             \/ \E m \in toServer : Deliver(m)
             \/ \E m \in atServer : ServerAnswers(m)
             \/ \E id \in Ids : ServerMakesUp(id)
             \/ UNCHANGED vars
      PROVE  Balance'
  <2>1. UNCHANGED <<envVars, toAgent, relayed, hist>>
    BY <1>9 DEF HandleMachinery, RelayMalformed, Deliver, ServerAnswers,
                ServerMakesUp, vars, envVars
  <2> QED
    BY <1>0, <2>1, BalanceStill DEF envVars
<1>10. ASSUME World PROVE Balance'
  <2>1. CASE Restart
    <3>1. /\ toAgent' = [i \in ServerIds |-> 0] /\ relayed' = {} /\ tokenFile' = tokenFile
          /\ hist'.asked = [i \in ServerIds |-> 0]
          /\ hist'.replied = [i \in ServerIds |-> 0]
      BY <2>1 DEF Restart, TypeOK, History
    <3>2. ASSUME NEW id \in ServerIds
          PROVE  hist'.replied[id] + One(toAgent'[id] # 0) + One(id \in relayed')
                   <= hist'.asked[id]
      <4>1. /\ toAgent'[id] = 0 /\ id \notin relayed'
            /\ hist'.asked[id] = 0 /\ hist'.replied[id] = 0
        BY <3>1
      <4> QED
        BY <4>1 DEF One
    <3> QED
      BY <1>0, <3>1, <3>2 DEF Balance
  <2>2. CASE ~Restart
    <3>1. UNCHANGED <<toAgent, relayed, hist>> /\ tokenFile' \in Tokens
      BY <1>0, <1>10, <2>2 DEF World, Expire, Publish, RenewTokenFile
    <3> QED
      BY <3>1, BalanceStill
  <2> QED
    BY <2>1, <2>2
<1> QED
  BY <1>1, <1>2, <1>3, <1>4, <1>5, <1>6, <1>7, <1>8, <1>9, <1>10, AgentCases
     DEF Next, FromServer, Handles

(* Over stdio, the server gets no answer to a question it did not ask, and *)
(* no question is answered twice, whatever ids the two sides reuse.        *)
THEOREM AnswersSolicited ==
    ASSUME "http" \notin Transports
    PROVE  Spec => []AnswersAreSolicited
<1>1. TypeOK /\ Balance => AnswersAreSolicited
  <2> SUFFICES ASSUME TypeOK, Balance, NEW id \in ServerIds
               PROVE  hist.replied[id] <= hist.asked[id]
    BY DEF AnswersAreSolicited
  <2>1. hist.replied[id] + One(toAgent[id] # 0) + One(id \in relayed)
          <= hist.asked[id]
    BY DEF Balance
  <2>2. hist.asked[id] \in Nat /\ hist.replied[id] \in Nat
    BY HistCounts
  <2> QED
    BY <2>1, <2>2 DEF One
<1> QED
  BY <1>1, BalanceInit, BalanceStep, TypeCorrect, PTL DEF Spec

-----------------------------------------------------------------------------
(***************************************************************************)
(* The steps, by what they do to the log, the identity and the acts noted. *)
(***************************************************************************)

(* An attempt made in the name of whoever is in force.                     *)
OnBehalf ==
    /\ \E k, v, e :
          /\ Appends(Len(log), k)
          /\ Attempt(Len(log), sess.counter + 1, sess.agent, v, e, k)
          /\ k > 0 => hist'.acts = hist.acts \cup {ServerAct}
          /\ k = 0 => hist'.acts = hist.acts
    /\ auth' = auth /\ sess'.agent = sess.agent /\ Http' = Http

(* At most the effect of a call that went out.                             *)
Quiet ==
    /\ \E k, x :
          /\ Appends(Len(log), k)
          /\ k \in {0, 1}
          /\ k = 1 => log'[Len(log) + 1] = EffRec(x, "done")
    /\ hist'.acts = hist.acts
    /\ auth' = auth /\ sess'.agent = sess.agent /\ Http' = Http

LEMMA AppendsNone == ASSUME TypeOK, log' = log PROVE Appends(Len(log), 0)
<1>1. Len(log) \in Nat /\ log' \in Seq(Record)
  BY LenProperties DEF TypeOK
<1> QED
  BY <1>1 DEF Appends

LEMMA NotedActs ==
    ASSUME TypeOK, NEW k, k \in Nat, NEW h, h = Note(k > 0, ServerAct)
    PROVE  /\ h \in History
           /\ k > 0 => h.acts = hist.acts \cup {ServerAct}
           /\ k = 0 => h.acts = hist.acts
<1>1. CASE k > 0
  <2>1. h = [hist EXCEPT !.acts = hist.acts \cup {ServerAct}]
    BY <1>1 DEF Note
  <2>2. /\ h \in History
        /\ h.acts = hist.acts \cup {ServerAct}
    BY <2>1, ServerNote DEF Noted
  <2>3. k # 0
    BY <1>1
  <2> QED
    BY <2>2, <2>3
<1>2. CASE ~(k > 0)
  <2>1. h = hist
    BY <1>2 DEF Note
  <2> QED
    BY <1>2, <2>1 DEF TypeOK
<1> QED
  BY <1>1, <1>2

LEMMA BehalfStep ==
    ASSUME TypeOK,
           \/ \E id \in ServerIds \cup {NoId} : HandleUnsolicited(id)
           \/ \E id \in ServerIds \cup {NoId}, v \in {"allow", "deny"} :
                ServerAsks(id, v)
           \/ \E v \in {"allow", "deny"} : ServerNotifies(v)
    PROVE  OnBehalf
<1>0. Len(log) \in Nat
  BY LenProperties DEF TypeOK
<1>1. ASSUME NEW id \in ServerIds \cup {NoId}, HandleUnsolicited(id)
      PROVE  OnBehalf
  <2>1. auth' = auth /\ UNCHANGED envVars
    BY <1>1 DEF HandleUnsolicited
  <2>2. PICK k \in 0 .. 3 :
          /\ Appends(Len(log), k) /\ sess'.agent = sess.agent
          /\ Attempt(Len(log), sess.counter + 1, sess.agent, "deny", "blocked", k)
    <3>1. CASE UNCHANGED <<log, fails, sess>>
      <4>1. Appends(Len(log), 0)
        BY <3>1, AppendsNone
      <4>2. Attempt(Len(log), sess.counter + 1, sess.agent, "deny", "blocked", 0)
        BY DEF Attempt
      <4>3. 0 \in 0 .. 3
        OBVIOUS
      <4> QED
        BY <3>1, <4>1, <4>2, <4>3
    <3>2. CASE /\ sess' = [sess EXCEPT !.counter = sess.counter + 1]
               /\ \E k \in 0 .. 3 :
                    /\ Appends(Len(log), k)
                    /\ Attempt(Len(log), sess.counter + 1, sess.agent, "deny",
                               "blocked", k)
      <4>1. sess'.agent = sess.agent
        BY <3>2 DEF TypeOK
      <4> QED
        BY <3>2, <4>1
    <3> QED
      BY <1>1, <3>1, <3>2, UnsolicitedStep
  <2>3. Len(log') > Len(log) <=> k > 0
    BY <1>0, <2>2 DEF Appends
  <2>4. PICK h : h = Note(Len(log') > Len(log), ServerAct)
    OBVIOUS
  <2>5. h = Note(k > 0, ServerAct)
    BY <2>3, <2>4 DEF Note
  <2>6. /\ h \in History
        /\ k > 0 => h.acts = hist.acts \cup {ServerAct}
        /\ k = 0 => h.acts = hist.acts
    BY <2>5, NotedActs
  <2>7. hist' = h \/ hist' = [h EXCEPT !.replied[id] = @ + 1]
    BY <1>1, <2>4 DEF HandleUnsolicited
  <2>8. hist'.acts = h.acts
    BY <2>6, <2>7 DEF History
  <2> QED
    BY <2>1, <2>2, <2>6, <2>8 DEF OnBehalf, envVars, Http
<1>2. ASSUME NEW id \in ServerIds \cup {NoId}, NEW verdict \in {"allow", "deny"},
             ServerAsks(id, verdict)
      PROVE  OnBehalf
  <2>1. auth' = auth /\ UNCHANGED envVars
    BY <1>2 DEF ServerAsks
  <2>2. sess'.agent = sess.agent
    BY <1>2, AsksStep DEF TypeOK
  <2>3. PICK k \in 0 .. 3, v \in {"allow", "deny"}, open \in BOOLEAN :
              /\ Appends(Len(log), k)
              /\ Attempt(Len(log), sess.counter + 1, sess.agent, v, "blocked", k)
              /\ hist' = IF open
                         THEN [Note(k > 0, ServerAct) EXCEPT !.asked[id] = @ + 1]
                         ELSE Note(k > 0, ServerAct)
    BY <1>2, AsksStep
  <2>4. PICK h : h = Note(k > 0, ServerAct)
    OBVIOUS
  <2>5. /\ h \in History
        /\ k > 0 => h.acts = hist.acts \cup {ServerAct}
        /\ k = 0 => h.acts = hist.acts
    BY <2>4, NotedActs
  <2>6. hist' = h \/ hist' = [h EXCEPT !.asked[id] = @ + 1]
    BY <2>3, <2>4
  <2>7. hist'.acts = h.acts
    BY <2>5, <2>6 DEF History
  <2> QED
    BY <2>1, <2>2, <2>3, <2>5, <2>7 DEF OnBehalf, envVars, Http
<1>3. ASSUME NEW verdict \in {"allow", "deny"}, ServerNotifies(verdict)
      PROVE  OnBehalf
  <2>1. auth' = auth /\ UNCHANGED envVars
    BY <1>3 DEF ServerNotifies
  <2>2. sess'.agent = sess.agent
    BY <1>3, NotifiesStep DEF TypeOK
  <2>3. PICK k \in 0 .. 3, v \in {"allow", "deny"} :
              /\ Appends(Len(log), k)
              /\ Attempt(Len(log), sess.counter + 1, sess.agent, v,
                         IF v = "allow" THEN "done" ELSE "blocked", k)
              /\ hist' = Note(k > 0, ServerAct)
    BY <1>3, NotifiesStep
  <2>4. PICK h : h = Note(k > 0, ServerAct)
    OBVIOUS
  <2>5. /\ k > 0 => h.acts = hist.acts \cup {ServerAct}
        /\ k = 0 => h.acts = hist.acts
    BY <2>4, NotedActs
  <2>6. hist' = h
    BY <2>3, <2>4
  <2> QED
    BY <2>1, <2>2, <2>3, <2>5, <2>6 DEF OnBehalf, envVars, Http
<1> QED
  BY <1>1, <1>2, <1>3

LEMMA QuietStep ==
    ASSUME TypeOK,
           \/ \E id \in MachineryIds : HandleMachinery(id)
           \/ RelayMalformed
           \/ \E id \in ServerIds : HandleAnswer(id)
           \/ \E m \in toServer : Deliver(m)
           \/ \E m \in atServer : ServerAnswers(m)
           \/ \E id \in Ids : ServerMakesUp(id)
           \/ CloseEffect
           \/ \E id \in ServerIds : ServerPings(id)
           \/ World /\ ~Restart
           \/ UNCHANGED vars
    PROVE  Quiet
<1>1. ASSUME UNCHANGED <<log, auth, sess, tokenFile>>,
             hist'.acts = hist.acts
      PROVE  Quiet
  <2>1. Appends(Len(log), 0)
    BY <1>1, AppendsNone
  <2>2. \E k, x :
          /\ Appends(Len(log), k)
          /\ k \in {0, 1}
          /\ k = 1 => log'[Len(log) + 1] = EffRec(x, "done")
    <3>1. 0 \in {0, 1} /\ 0 # 1
      OBVIOUS
    <3> QED
      BY <2>1, <3>1, Zenon
  <2>3. auth' = auth /\ sess'.agent = sess.agent /\ Http' = Http
    BY <1>1 DEF Http
  <2> QED
    BY <1>1, <2>2, <2>3, Zenon DEF Quiet
<1>2. ASSUME NEW id \in ServerIds, HandleAnswer(id) PROVE Quiet
  <2>1. UNCHANGED <<auth, envVars, sess>> /\ toAgent[id] \in Nat
    BY <1>2, GatewayAssumption DEF HandleAnswer, TypeOK
  <2>2. hist'.acts = hist.acts
    BY <1>2 DEF HandleAnswer, TypeOK, History
  <2>3. CASE toAgent[id] # 0
    <3>1. PICK k \in 0 .. 1 : Written(<<EffRec(toAgent[id], "done")>>, k)
      BY <1>2, <2>3 DEF HandleAnswer
    <3>2. /\ Appends(Len(log), k) /\ k \in {0, 1}
          /\ k = 1 => log'[Len(log) + 1] = EffRec(toAgent[id], "done")
      BY <2>1, <3>1, CloseFacts
    <3> QED
      BY <2>1, <2>2, <3>2 DEF Quiet, envVars, Http
  <2>4. CASE toAgent[id] = 0
    BY <1>1, <1>2, <2>1, <2>2, <2>4 DEF HandleAnswer, envVars
  <2> QED
    BY <2>3, <2>4
<1>3. ASSUME CloseEffect PROVE Quiet
  <2>1. UNCHANGED <<auth, envVars, sess>> /\ disp.call \in Nat
    BY <1>3, GatewayAssumption DEF CloseEffect, TypeOK
  <2>2. hist'.acts = hist.acts
    BY <1>3 DEF CloseEffect, TypeOK, History
  <2>3. PICK k \in 0 .. 1 : Written(<<EffRec(disp.call, "done")>>, k)
    BY <1>3 DEF CloseEffect
  <2>4. /\ Appends(Len(log), k) /\ k \in {0, 1}
        /\ k = 1 => log'[Len(log) + 1] = EffRec(disp.call, "done")
    BY <2>1, <2>3, CloseFacts
  <2> QED
    BY <2>1, <2>2, <2>4 DEF Quiet, envVars, Http
<1>4. ASSUME NEW id \in ServerIds, ServerPings(id) PROVE Quiet
  <2>1. UNCHANGED <<log, auth, envVars, sess>>
    BY <1>4 DEF ServerPings
  <2>2. hist'.acts = hist.acts
    BY <1>4 DEF ServerPings, TypeOK, History
  <2> QED
    BY <1>1, <2>1, <2>2 DEF envVars
<1>5. ASSUME \/ \E id \in MachineryIds : HandleMachinery(id)
             \/ RelayMalformed
             \/ \E m \in toServer : Deliver(m)
             \/ \E m \in atServer : ServerAnswers(m)
             \/ \E id \in Ids : ServerMakesUp(id)
             \/ UNCHANGED vars
      PROVE  Quiet
  <2>1. UNCHANGED <<log, auth, tokenFile, sess, hist>>
    BY <1>5 DEF HandleMachinery, RelayMalformed, Deliver, ServerAnswers,
                ServerMakesUp, vars, envVars
  <2> QED
    BY <1>1, <2>1
<1>6. ASSUME World, ~Restart PROVE Quiet
  <2>1. UNCHANGED <<log, auth, sess, hist>>
    BY <1>6 DEF World, Expire, Publish, RenewTokenFile
  <2>2. CASE UNCHANGED tokenFile
    BY <1>1, <2>1, <2>2
  <2>3. CASE ~UNCHANGED tokenFile
    <3>1. PICK t \in Tokens : RenewTokenFile(t)
      BY <1>6, <2>3 DEF World, Expire, Publish
    <3>2. Http' = Http
      BY <3>1, AuthAssumption DEF RenewTokenFile, Http
    <3>3. Appends(Len(log), 0)
      BY <2>1, AppendsNone
    <3> QED
      BY <2>1, <3>2, <3>3 DEF Quiet
  <2> QED
    BY <2>2, <2>3
<1> QED
  BY <1>2, <1>3, <1>4, <1>5, <1>6

LEMMA StepKinds ==
    ASSUME TypeOK, [Next]_vars
    PROVE  \/ OnBehalf \/ Quiet \/ Restart
           \/ Handles
           \/ \E t \in Tokens : PresentBearer(t)
BY AgentCases, BehalfStep, QuietStep DEF Next, FromServer

-----------------------------------------------------------------------------
(***************************************************************************)
(* Attribution.  When the identity's own records can be written, the last  *)
(* delegation under the session's agent is the one in force: a call hangs  *)
(* from the delegation its parent named when it was written, and what is   *)
(* written later comes below it.                                           *)
(***************************************************************************)

(* Among the first m records of l, the last delegation g is that of c.     *)
LastOf(l, m, g, c) ==
    \E h \in 1 .. m :
        /\ l[h].id = <<"deleg", g>> /\ l[h].val = c
        /\ \A i \in 1 .. m : l[i].id = <<"deleg", g>> => i <= h

(* The act a, if l allows it, hangs from whoever asked for it.             *)
Owed(l, a) ==
    /\ a.at + 1 <= Len(l) /\ l[a.at].id[1] = "call"
    /\ l[a.at + 1].id[1] = "dec" /\ l[a.at + 1].val = "allow"
    => LastOf(l, a.at - 1, l[a.at].parent[2], a.who)

Attributed ==
    /\ Faithful(auth)
    /\ LastOf(log, Len(log), sess.agent, auth.current)
    /\ \A a \in hist.acts : a.at \in 1 .. Len(log) /\ Owed(log, a)

LEMMA LastAbove ==
    ASSUME TypeOK, NEW i \in Nat, NEW c, LastOf(log, i - 1, log[i].parent[2], c)
    PROVE  DelegationAbove(i) = c
<1> DEFINE g  == log[i].parent[2]
           js == {j \in 1 .. i - 1 : log[j].id = <<"deleg", g>>}
<1>1. PICK h \in 1 .. i - 1 :
        /\ log[h].id = <<"deleg", g>> /\ log[h].val = c
        /\ \A j \in 1 .. i - 1 : log[j].id = <<"deleg", g>> => j <= h
  BY DEF LastOf
<1>2. h \in js /\ \A k \in js : k <= h
  BY <1>1
<1>3. \A j \in js : (\A k \in js : k <= j) => j = h
  BY <1>2
<1>4. (CHOOSE j \in js : \A k \in js : k <= j) = h
  BY <1>2, <1>3
<1> QED
  BY <1>1, <1>4 DEF DelegationAbove

LEMMA AttributedReads == ASSUME TypeOK, Attributed PROVE AttributedToBearer
<1> SUFFICES ASSUME NEW a \in hist.acts, a.at + 1 <= Len(log),
                    log[a.at].id[1] = "call", log[a.at + 1].id[1] = "dec",
                    log[a.at + 1].val = "allow"
             PROVE  DelegationAbove(a.at) = a.who
  BY DEF AttributedToBearer
<1>1. a.at \in Nat
  BY DEF TypeOK, History
<1>2. LastOf(log, a.at - 1, log[a.at].parent[2], a.who)
  BY DEF Attributed, Owed
<1> QED
  BY <1>1, <1>2, LastAbove

(* Records that open no delegation leave the last one where it is.         *)
LEMMA LastKept ==
    ASSUME NEW at, NEW b, Appends(at, b), NEW m \in Nat, Len(log) <= m,
           m <= Len(log'), NEW g, NEW c, LastOf(log, Len(log), g, c),
           \A i \in Len(log) + 1 .. m : log'[i].id[1] # "deleg"
    PROVE  LastOf(log', m, g, c)
<1>1. PICK h \in 1 .. Len(log) :
        /\ log[h].id = <<"deleg", g>> /\ log[h].val = c
        /\ \A i \in 1 .. Len(log) : log[i].id = <<"deleg", g>> => i <= h
  BY DEF LastOf
<1>2. Len(log) \in Nat /\ h \in 1 .. m /\ log'[h] = log[h]
  BY <1>1 DEF Appends
<1>3. ASSUME NEW i \in 1 .. m, log'[i].id = <<"deleg", g>> PROVE i <= h
  <2>1. CASE i \in 1 .. Len(log)
    <3>1. log'[i] = log[i]
      BY <2>1 DEF Appends
    <3> QED
      BY <1>1, <1>3, <2>1, <3>1
  <2>2. CASE i \in Len(log) + 1 .. m
    <3>1. log'[i].id[1] = "deleg"
      BY <1>3
    <3> QED
      BY <2>2, <3>1
  <2> QED
    BY <1>2, <2>1, <2>2
<1> QED
  BY <1>1, <1>2, <1>3 DEF LastOf

LEMMA OwedKept ==
    ASSUME NEW at, NEW b, Appends(at, b), NEW a, a.at \in 1 .. Len(log),
           Owed(log, a),
           Len(log') > Len(log) => log'[Len(log) + 1].id[1] # "dec"
    PROVE  a.at \in 1 .. Len(log') /\ Owed(log', a)
<1>1. /\ Len(log) \in Nat /\ Len(log') \in Nat /\ Len(log) <= Len(log')
      /\ \A i \in 1 .. Len(log) : log'[i] = log[i]
  BY DEF Appends
<1>2. a.at \in 1 .. Len(log')
  BY <1>1
<1>3. SUFFICES ASSUME a.at + 1 <= Len(log'), log'[a.at].id[1] = "call",
                      log'[a.at + 1].id[1] = "dec", log'[a.at + 1].val = "allow"
               PROVE  LastOf(log', a.at - 1, log'[a.at].parent[2], a.who)
  BY <1>2 DEF Owed
<1>4. a.at + 1 <= Len(log) /\ a.at + 1 \in 1 .. Len(log)
  <2>1. a.at = Len(log) => FALSE
    BY <1>1, <1>3
  <2> QED
    BY <1>1, <2>1
<1>5. log'[a.at] = log[a.at] /\ log'[a.at + 1] = log[a.at + 1]
  BY <1>1, <1>4
<1>6. LastOf(log, a.at - 1, log[a.at].parent[2], a.who)
  BY <1>3, <1>4, <1>5 DEF Owed
<1>7. \A i \in 1 .. a.at - 1 : log'[i] = log[i]
  <2>1. \A i \in 1 .. a.at - 1 : i \in 1 .. Len(log)
    BY <1>1
  <2> QED
    BY <1>1, <2>1
<1> QED
  BY <1>5, <1>6, <1>7 DEF LastOf

(* A new act that hangs from the delegation in force.                      *)
LEMMA OwedNew ==
    ASSUME NEW at, NEW n, NEW g, NEW v, NEW e, NEW b, Appends(at, b),
           Attempt(at, n, g, v, e, b), b > 0, NEW c, LastOf(log', at, g, c),
           NEW a, a.at = at + 1, v = "allow" => a.who = c
    PROVE  a.at \in 1 .. Len(log') /\ Owed(log', a)
<1>1. /\ at \in Nat /\ b \in 1 .. 3 /\ Len(log') = at + b
      /\ log'[at + 1] = CallRec(n, g)
      /\ b >= 2 => log'[at + 2] = DecRec(n, v)
  BY DEF Appends, Attempt
<1>2. a.at \in 1 .. Len(log') /\ a.at - 1 = at /\ a.at + 1 = at + 2
      /\ (a.at + 1 <= Len(log') => b >= 2)
  BY <1>1
<1>3. CallRec(n, g).parent[2] = g /\ DecRec(n, v).val = v
  BY DEF CallRec, DecRec, Rec
<1>4. SUFFICES ASSUME a.at + 1 <= Len(log'), log'[a.at + 1].val = "allow"
               PROVE  LastOf(log', a.at - 1, log'[a.at].parent[2], a.who)
  BY <1>2 DEF Owed
<1>5. log'[at + 2] = DecRec(n, v)
  BY <1>1, <1>2, <1>4
<1>6. v = "allow"
  BY <1>2, <1>3, <1>4, <1>5
<1>7. log'[a.at].parent[2] = g
  BY <1>1, <1>3
<1> QED
  BY <1>2, <1>6, <1>7

(* The records of an act open no delegation.                               *)
LEMMA LastAct ==
    ASSUME NEW at, NEW n, NEW g, NEW v, NEW e, NEW b, Appends(at, b),
           Attempt(at, n, g, v, e, b), NEW h, NEW c, LastOf(log', at, h, c)
    PROVE  LastOf(log', Len(log'), h, c)
<1>1. /\ at \in Nat /\ b \in 0 .. 3 /\ Len(log') = at + b
  BY DEF Appends, Attempt
<1>2. ASSUME NEW i \in at + 1 .. Len(log') PROVE log'[i].id[1] # "deleg"
  <2>1. i \in {at + 1, at + 2, at + 3} /\ i - at <= b
    BY <1>1
  <2>2. \/ log'[i] = CallRec(n, g) \/ log'[i] = DecRec(n, v)
        \/ log'[i] = EffRec(n, e)
    BY <1>1, <2>1 DEF Attempt
  <2> QED
    BY <2>2 DEF CallRec, DecRec, EffRec, Rec
<1>3. PICK x \in 1 .. at :
        /\ log'[x].id = <<"deleg", h>> /\ log'[x].val = c
        /\ \A i \in 1 .. at : log'[i].id = <<"deleg", h>> => i <= x
  BY DEF LastOf
<1>4. ASSUME NEW i \in 1 .. Len(log'), log'[i].id = <<"deleg", h>> PROVE i <= x
  <2>1. log'[i].id[1] = "deleg"
    BY <1>4
  <2>2. i \in 1 .. at
    BY <1>1, <1>2, <2>1
  <2> QED
    BY <1>3, <1>4, <2>2
<1>5. x \in 1 .. Len(log')
  BY <1>1
<1> QED
  BY <1>3, <1>4, <1>5 DEF LastOf

(* No write of the identity's own records may fail.                        *)
IdentityWritten == FailAt \cap {"reload", "deleg", "label", "actor", "agent"} = {}

(* The identity check written, the delegation it leaves in force is the    *)
(* last one under the agent it leaves.                                     *)
LEMMA LastChecked ==
    ASSUME TypeOK, NEW o, NEW r, NEW d, NEW b, Checked(o), Reports(r, o),
           Renews(d, o), Writes(r, Len(r), d, Len(d), b),
           LastOf(log, Len(log), sess.agent, auth.current)
    PROVE  LastOf(log', Len(log) + Len(r) + Len(d),
                  IF o.renewed THEN o.auth.generation ELSE sess.agent,
                  o.auth.current)
<1> DEFINE at == Len(log) + Len(r) + Len(d)
<1>0. o.renewed \in BOOLEAN /\ Appends(at, b)
  BY WritesAppends DEF Checked
<1>1. Len(log) \in Nat /\ Len(r) \in Nat /\ Len(d) \in Nat
  BY <1>0, RenewsType, LenProperties DEF TypeOK, Reports
<1>2. CASE o.renewed
  <2> DEFINE g == o.auth.generation
             h == Len(log) + Len(r) + 1
  <2>1. /\ Len(d) \in {3, 4} /\ d[1].id = <<"deleg", g>>
        /\ d[1].val = o.auth.current
        /\ \A i \in 2 .. Len(d) : d[i].id[1] # "deleg"
    BY <1>2 DEF Renews, Introduces
  <2>2. 1 \in 1 .. Len(d) /\ h \in 1 .. at
    BY <1>1, <2>1
  <2>3. log'[h] = d[1]
    BY <2>2 DEF Writes
  <2>4. ASSUME NEW i \in 1 .. at, log'[i].id = <<"deleg", g>> PROVE i <= h
    <3>1. SUFFICES ASSUME i > h PROVE FALSE
      BY <1>1
    <3>2. PICK x \in 2 .. Len(d) : i = Len(log) + Len(r) + x
      <4>1. /\ i - (Len(log) + Len(r)) \in 2 .. Len(d)
            /\ i = Len(log) + Len(r) + (i - (Len(log) + Len(r)))
        BY <1>1, <2>1, <3>1
      <4> QED
        BY <4>1
    <3>3. x \in 1 .. Len(d)
      BY <2>1
    <3>4. log'[i] = d[x]
      BY <3>2, <3>3 DEF Writes
    <3>5. d[x].id[1] = "deleg"
      BY <2>4, <3>4
    <3> QED
      BY <2>1, <3>5
  <2> HIDE DEF at, h
  <2>5. LastOf(log', at, g, o.auth.current)
    BY <2>1, <2>2, <2>3, <2>4 DEF LastOf
  <2> QED
    BY <1>2, <2>5 DEF at
<1>3. CASE ~o.renewed
  <2>1. Len(d) = 0
    BY <1>3 DEF Renews
  <2>2. o.auth.current = auth.current
    BY <1>3 DEF Checked
  <2>3. ASSUME NEW i \in Len(log) + 1 .. at PROVE log'[i].id[1] # "deleg"
    <3>1. PICK x \in 1 .. Len(r) : i = Len(log) + x
      <4>1. i - Len(log) \in 1 .. Len(r) /\ i = Len(log) + (i - Len(log))
        BY <1>1, <2>1
      <4> QED
        BY <4>1
    <3>2. log'[i] = r[x]
      BY <3>1 DEF Writes
    <3> QED
      BY <3>2 DEF Reports
  <2>4. at \in Nat /\ Len(log) <= at /\ at <= Len(log')
    BY <1>0, <1>1 DEF Appends
  <2> HIDE DEF at
  <2>5. LastOf(log', at, sess.agent, auth.current)
    BY <1>0, <2>3, <2>4, LastKept
  <2> QED
    BY <1>3, <2>2, <2>5 DEF at
<1> QED
  BY <1>2, <1>3

(* With those writes in order, an identity check is written in full.       *)
LEMMA FullyWritten ==
    ASSUME IdentityWritten, NEW o, NEW r, NEW d, NEW k, NEW j, NEW b,
           o.renewed \in BOOLEAN, Reports(r, o), Renews(d, o),
           Writes(r, k, d, j, b),
           k < Len(r) => "reload" \in FailAt,
           k = Len(r) /\ j < Len(d) => d[j + 1].id[1] \in FailAt
    PROVE  k = Len(r) /\ j = Len(d)
<1>1. /\ Len(r) \in Nat /\ Len(d) \in Nat
      /\ k \in 0 .. Len(r) /\ j \in 0 .. Len(d)
  BY RenewsType, LenProperties DEF Reports, Writes
<1>2. "reload" \notin FailAt
  BY DEF IdentityWritten
<1>3. k = Len(r)
  BY <1>1, <1>2
<1>4. ASSUME j < Len(d) PROVE FALSE
  <2>1. o.renewed
    <3>1. Len(<< >>) = 0
      OBVIOUS
    <3> QED
      BY <1>1, <1>4, <3>1 DEF Renews
  <2>2. j + 1 \in 1 .. Len(d)
    BY <1>1, <1>4
  <2>3. d[j + 1].id[1] \in {"deleg", "label", "actor", "agent"}
    BY <2>1, <2>2 DEF Renews, Introduces
  <2>4. d[j + 1].id[1] \in FailAt
    BY <1>3, <1>4
  <2> QED
    BY <2>3, <2>4 DEF IdentityWritten
<1> QED
  BY <1>1, <1>3, <1>4

(* The acts noted before a step, and at most one noted by it.              *)
LEMMA ActsOwed ==
    ASSUME Attributed, NEW at, NEW b, Appends(at, b),
           Len(log') > Len(log) => log'[Len(log) + 1].id[1] # "dec",
           NEW a, hist'.acts = hist.acts \/ hist'.acts = hist.acts \cup {a},
           a \in hist'.acts \ hist.acts => a.at \in 1 .. Len(log') /\ Owed(log', a)
    PROVE  \A c \in hist'.acts : c.at \in 1 .. Len(log') /\ Owed(log', c)
<1> SUFFICES ASSUME NEW c \in hist'.acts
             PROVE  c.at \in 1 .. Len(log') /\ Owed(log', c)
  OBVIOUS
<1>1. CASE c \in hist.acts
  <2>1. c.at \in 1 .. Len(log) /\ Owed(log, c)
    BY <1>1 DEF Attributed
  <2> QED
    BY <2>1, OwedKept
<1>2. CASE c \notin hist.acts
  <2>1. c = a
    BY <1>2
  <2> QED
    BY <1>2, <2>1
<1> QED
  BY <1>1, <1>2

(* What comes first is a record of the identity or an attempt.             *)
LEMMA FirstAct ==
    ASSUME NEW at, NEW b, Appends(at, b), NEW n, NEW g, NEW v, NEW e,
           Attempt(at, n, g, v, e, b)
    PROVE  Len(log') > Len(log) => log'[Len(log) + 1].id[1] # "dec"
<1>1. /\ Len(log) \in Nat /\ at \in Nat /\ Len(log) <= at
      /\ b \in Nat /\ Len(log') = at + b
  BY DEF Appends
<1> SUFFICES ASSUME Len(log') > Len(log)
             PROVE  log'[Len(log) + 1].id[1] # "dec"
  OBVIOUS
<1>2. CASE Len(log) < at
  <2>1. Len(log) + 1 \in Len(log) + 1 .. at
    BY <1>1, <1>2
  <2>2. log'[Len(log) + 1].id[1] \in Headers
    BY <2>1 DEF Appends
  <2> QED
    BY <2>2 DEF Headers
<1>3. CASE Len(log) = at
  <2>1. b >= 1
    BY <1>1, <1>3
  <2>2. log'[Len(log) + 1] = CallRec(n, g)
    BY <1>3, <2>1 DEF Attempt
  <2> QED
    BY <2>2 DEF CallRec, Rec
<1> QED
  BY <1>1, <1>2, <1>3

LEMMA AttributedHandle ==
    ASSUME TypeOK, IdentityWritten, Attributed, NEW id, NEW t \in Bearers,
           NEW v, NEW out, Handled(id, t, v, out)
    PROVE  Attributed'
<1>1. PICK o \in Identify(t) : \E r, d, k, j, b :
              /\ Checked(o) /\ Reports(r, o) /\ Renews(d, o)
              /\ ActLeaves(o, r, d, k, j, b, id, t, v, out)
  BY ActStep
<1>2. PICK r, d, k, j, b :
              /\ Checked(o) /\ Reports(r, o) /\ Renews(d, o)
              /\ ActLeaves(o, r, d, k, j, b, id, t, v, out)
  BY <1>1
<1> DEFINE at  == Len(log) + Len(r) + Len(d)
           g   == IF o.renewed THEN o.auth.generation ELSE sess.agent
           w   == IF o.denied \/ v = "deny" THEN "deny" ELSE "allow"
           who == IF t = NoToken THEN o.auth.current ELSE DelegOf[t]
           a   == Act(at + 1, who, o.auth.bundle)
<1>3. o.renewed \in BOOLEAN /\ o.denied \in BOOLEAN
  BY <1>2 DEF Checked
<1>4. Writes(r, k, d, j, b)
  BY <1>2 DEF ActLeaves
<1>5. k = Len(r) /\ j = Len(d)
  <2>1. /\ k < Len(r) => "reload" \in FailAt
        /\ k = Len(r) /\ j < Len(d) => d[j + 1].id[1] \in FailAt
    BY <1>2 DEF ActLeaves
  <2> QED
    BY <1>2, <1>3, <1>4, <2>1, FullyWritten
<1>6. /\ Attempt(at, sess.counter + 1, g, w, "blocked", b)
      /\ auth' = o.auth /\ sess'.agent = g
      /\ hist' = Note(b > 0, a)
      /\ tokenFile' = tokenFile
  BY <1>2, <1>5 DEF ActLeaves, envVars
<1>7. Appends(at, b)
  BY <1>2, <1>3, <1>4, <1>5, WritesAppends
<1>8. LastOf(log', at, g, o.auth.current)
  BY <1>2, <1>4, <1>5, LastChecked DEF Attributed
<1>9. w = "allow" => who = o.auth.current
  <2>1. t = NoToken \/ t \in Tokens
    BY <1>1, IdentifyFacts
  <2>2. t \in Tokens /\ Faithful(auth) /\ ~o.denied => o.auth.current = DelegOf[t]
    BY <1>1, IdentifyFacts
  <2> QED
    BY <2>1, <2>2 DEF Attributed
<1>10. a.at = at + 1 /\ a.who = who
  BY DEF Act
<1>11. Faithful(auth)'
  <2>1. Faithful(o.auth)
    BY <1>2 DEF Checked, Attributed
  <2> QED
    BY <1>6, <2>1 DEF Faithful, Http
<1> HIDE DEF at, g, w, who, a
<1>12. LastOf(log', Len(log'), sess'.agent, auth'.current)
  BY <1>6, <1>7, <1>8, LastAct
<1>13. b > 0 => a.at \in 1 .. Len(log') /\ Owed(log', a)
  BY <1>6, <1>7, <1>8, <1>9, <1>10, OwedNew
<1>14. /\ b > 0 => hist'.acts = hist.acts \cup {a}
       /\ ~(b > 0) => hist'.acts = hist.acts
  BY <1>6 DEF Note, TypeOK, History
<1>15. \A c \in hist'.acts : c.at \in 1 .. Len(log') /\ Owed(log', c)
  BY <1>6, <1>7, <1>13, <1>14, FirstAct, ActsOwed
<1> QED
  BY <1>11, <1>12, <1>15 DEF Attributed

LEMMA AttributedBearer ==
    ASSUME TypeOK, IdentityWritten, Attributed, NEW t \in Tokens, PresentBearer(t)
    PROVE  Attributed'
<1>1. PICK o, r, d, k, j :
              /\ Checked(o) /\ Reports(r, o) /\ Renews(d, o)
              /\ BearerLeaves(o, r, d, k, j)
  BY BearerStep
<1> DEFINE at == Len(log) + Len(r) + Len(d)
           g  == IF o.renewed THEN o.auth.generation ELSE sess.agent
<1>2. o.renewed \in BOOLEAN
  BY <1>1 DEF Checked
<1>3. Writes(r, k, d, j, 0)
  BY <1>1 DEF BearerLeaves
<1>4. k = Len(r) /\ j = Len(d)
  <2>1. /\ k < Len(r) => "reload" \in FailAt
        /\ k = Len(r) /\ j < Len(d) => d[j + 1].id[1] \in FailAt
    BY <1>1 DEF BearerLeaves
  <2> QED
    BY <1>1, <1>2, <1>3, <2>1, FullyWritten
<1>5. auth' = o.auth /\ sess'.agent = g
  BY <1>1, <1>4 DEF BearerLeaves
<1>6. tokenFile' = tokenFile /\ hist' = hist
  BY DEF PresentBearer, envVars
<1>7. Appends(at, 0)
  BY <1>1, <1>2, <1>3, <1>4, WritesAppends
<1>8. LastOf(log', at, g, o.auth.current)
  BY <1>1, <1>3, <1>4, LastChecked DEF Attributed
<1>9. Faithful(auth)'
  <2>1. Faithful(o.auth)
    BY <1>1 DEF Checked, Attributed
  <2> QED
    BY <1>5, <1>6, <2>1 DEF Faithful, Http
<1> HIDE DEF at, g
<1>10. Attempt(at, 0, g, "deny", "blocked", 0)
  BY DEF Attempt
<1>11. LastOf(log', Len(log'), sess'.agent, auth'.current)
  BY <1>5, <1>7, <1>8, <1>10, LastAct
<1>12. \A c \in hist'.acts : c.at \in 1 .. Len(log') /\ Owed(log', c)
  <2>1. hist'.acts = hist.acts
    BY <1>6
  <2>2. Len(log') > Len(log) => log'[Len(log) + 1].id[1] # "dec"
    BY <1>7, <1>10, FirstAct
  <2> QED
    BY <1>7, <2>1, <2>2, ActsOwed
<1> QED
  BY <1>9, <1>11, <1>12 DEF Attributed

LEMMA AttributedBehalf ==
    ASSUME TypeOK, Attributed, OnBehalf
    PROVE  Attributed'
<1>1. PICK k, v, e :
          /\ Appends(Len(log), k)
          /\ Attempt(Len(log), sess.counter + 1, sess.agent, v, e, k)
          /\ k > 0 => hist'.acts = hist.acts \cup {ServerAct}
          /\ k = 0 => hist'.acts = hist.acts
  BY DEF OnBehalf
<1>2. auth' = auth /\ sess'.agent = sess.agent /\ Http' = Http
  BY DEF OnBehalf
<1>3. k \in Nat /\ \A i \in 1 .. Len(log) : log'[i] = log[i]
  BY <1>1 DEF Appends
<1>4. LastOf(log', Len(log), sess.agent, auth.current)
  BY <1>3 DEF LastOf, Attributed
<1>5. LastOf(log', Len(log'), sess'.agent, auth'.current)
  BY <1>1, <1>2, <1>4, LastAct
<1>6. Faithful(auth)'
  BY <1>2 DEF Faithful, Attributed
<1>7. ServerAct.at = Len(log) + 1 /\ ServerAct.who = auth.current
  BY DEF ServerAct, Act
<1>8. k > 0 => ServerAct.at \in 1 .. Len(log') /\ Owed(log', ServerAct)
  BY <1>1, <1>4, <1>7, OwedNew
<1>9. \A c \in hist'.acts : c.at \in 1 .. Len(log') /\ Owed(log', c)
  <2>1. Len(log') > Len(log) => log'[Len(log) + 1].id[1] # "dec"
    BY <1>1, FirstAct
  <2>2. hist'.acts = hist.acts \/ hist'.acts = hist.acts \cup {ServerAct}
    BY <1>1, <1>3
  <2>3. ServerAct \in hist'.acts \ hist.acts => k > 0
    BY <1>1, <1>3
  <2> QED
    BY <1>1, <1>8, <2>1, <2>2, <2>3, ActsOwed
<1> QED
  BY <1>5, <1>6, <1>9 DEF Attributed

LEMMA AttributedQuiet ==
    ASSUME TypeOK, Attributed, Quiet
    PROVE  Attributed'
<1>1. PICK k, x :
          /\ Appends(Len(log), k)
          /\ k \in {0, 1}
          /\ k = 1 => log'[Len(log) + 1] = EffRec(x, "done")
  BY DEF Quiet
<1>2. auth' = auth /\ sess'.agent = sess.agent /\ Http' = Http
      /\ hist'.acts = hist.acts
  BY DEF Quiet
<1>3. /\ Len(log) \in Nat /\ Len(log') = Len(log) + k
  BY <1>1 DEF Appends
<1>4. ASSUME NEW i \in Len(log) + 1 .. Len(log')
      PROVE  i = Len(log) + 1 /\ log'[i].id[1] = "eff"
  <2>1. k = 1 /\ i = Len(log) + 1
    BY <1>1, <1>3
  <2> QED
    BY <1>1, <2>1 DEF EffRec, Rec
<1>5. Len(log') \in Nat /\ Len(log) <= Len(log')
  BY <1>1, <1>3
<1>6. LastOf(log', Len(log'), sess'.agent, auth'.current)
  <2>1. \A i \in Len(log) + 1 .. Len(log') : log'[i].id[1] # "deleg"
    BY <1>4
  <2>2. LastOf(log, Len(log), sess.agent, auth.current)
    BY DEF Attributed
  <2>3. Len(log') <= Len(log')
    BY <1>5
  <2> QED
    BY <1>1, <1>2, <1>5, <2>1, <2>2, <2>3, LastKept
<1>7. Len(log') > Len(log) => log'[Len(log) + 1].id[1] # "dec"
  BY <1>4, <1>3, <1>5
<1>8. \A c \in hist'.acts : c.at \in 1 .. Len(log') /\ Owed(log', c)
  BY <1>1, <1>2, <1>7, ActsOwed
<1>9. Faithful(auth)'
  BY <1>2 DEF Faithful, Attributed
<1> QED
  BY <1>6, <1>8, <1>9 DEF Attributed

(* The delegation a chain or a restart opens with.                         *)
LEMMA LastOpened ==
    ASSUME NEW l, NEW m \in Nat, NEW s, NEW a, Opens(s, a), Len(l) = m + Len(s),
           \A i \in 1 .. Len(s) : l[m + i] = s[i]
    PROVE  LastOf(l, Len(l), a.generation, a.current)
<1>1. PICK h \in 1 .. Len(s) :
          /\ s[h].id = <<"deleg", a.generation>> /\ s[h].val = a.current
          /\ \A i \in 1 .. Len(s) : s[i].id[1] = "deleg" => i = h
  BY DEF Opens
<1>2. Len(s) \in Nat
  BY DEF Opens
<1>3. m + h \in 1 .. Len(l) /\ l[m + h] = s[h]
  BY <1>2
<1>4. ASSUME NEW i \in 1 .. Len(l), l[i].id = <<"deleg", a.generation>>
      PROVE  i <= m + h
  <2>1. CASE i <= m
    BY <1>2, <2>1
  <2>2. CASE i > m
    <3>1. PICK x \in 1 .. Len(s) : i = m + x
      <4>1. i - m \in 1 .. Len(s) /\ i = m + (i - m)
        BY <1>2, <2>2
      <4> QED
        BY <4>1
    <3>2. s[x].id[1] = "deleg"
      BY <1>4, <3>1
    <3>3. x = h
      BY <1>1, <3>2
    <3> QED
      BY <3>1, <3>3
  <2> QED
    BY <2>1, <2>2
<1>5. l[m + h].id = <<"deleg", a.generation>> /\ l[m + h].val = a.current
  BY <1>1, <1>3
<1> QED
  BY <1>3, <1>4, <1>5 DEF LastOf

LEMMA AttributedRestart ==
    ASSUME TypeOK, Attributed, Restart
    PROVE  Attributed'
<1>1. PICK s : /\ Opens(s, auth') /\ Follows(log', log, s)
               /\ Appends(Len(log) + Len(s), 0)
  BY RestartStep
<1>2. /\ auth'.presented = NoToken /\ sess'.agent = auth'.generation
      /\ tokenFile' = tokenFile /\ ~Http
  BY RestartStep DEF Restart, NewSession
<1>3. Faithful(auth)'
  BY <1>2 DEF Faithful, Http
<1>4. /\ Len(log) \in Nat /\ Len(log') = Len(log) + Len(s)
      /\ \A i \in 1 .. Len(s) : log'[Len(log) + i] = s[i]
  BY <1>1 DEF Follows
<1>5. LastOf(log', Len(log'), auth'.generation, auth'.current)
  BY <1>1, <1>4, LastOpened
<1>6. hist'.acts = hist.acts
  BY DEF Restart, TypeOK, History
<1>7. Attempt(Len(log) + Len(s), 0, 0, "deny", "blocked", 0)
  BY DEF Attempt
<1>8. Len(log') > Len(log) => log'[Len(log) + 1].id[1] # "dec"
  BY <1>1, <1>7, FirstAct
<1>9. \A c \in hist'.acts : c.at \in 1 .. Len(log') /\ Owed(log', c)
  BY <1>1, <1>6, <1>8, ActsOwed
<1> QED
  BY <1>2, <1>3, <1>5, <1>9 DEF Attributed

LEMMA AttributedInit == Init => Attributed
<1> SUFFICES ASSUME Init PROVE Attributed
  OBVIOUS
<1>1. auth \in AuthState
  BY TypeInit DEF TypeOK
<1>2. PICK t \in Tokens :
        \/ auth = OpenAuth(t, published, t) /\ tokenFile = NoToken
        \/ auth = OpenAuth(t, published, NoToken) /\ tokenFile = t
  BY DEF Init
<1>3. published \in Bundles /\ t # NoToken
  BY AuthAssumption DEF Init
<1>4. Faithful(auth)
  BY <1>2, <1>3, OpenAuthFacts DEF Faithful, Http
<1>5. Opens(log, auth)
  BY <1>1, OpeningFacts DEF Init
<1>6. LastOf(log, Len(log), sess.agent, auth.current)
  <2>1. sess.agent = auth.generation
    BY DEF Init, NewSession
  <2>2. Len(log) = 0 + Len(log) /\ \A i \in 1 .. Len(log) : log[0 + i] = log[i]
    BY <1>5 DEF Opens
  <2>3. LastOf(log, Len(log), auth.generation, auth.current)
    BY <1>5, <2>2, LastOpened
  <2> QED
    BY <2>1, <2>3
<1>7. hist.acts = {}
  BY DEF Init
<1> QED
  BY <1>4, <1>6, <1>7 DEF Attributed

LEMMA AttributedStep ==
    ASSUME IdentityWritten
    PROVE  TypeOK /\ Attributed /\ [Next]_vars => Attributed'
BY StepKinds, AttributedHandle, AttributedBearer, AttributedBehalf,
   AttributedQuiet, AttributedRestart DEF Handles

(* An allowed call hangs from the delegation of whoever asked for it, with *)
(* concurrent requests under several tokens, renewals, key rotations and   *)
(* restarts, as long as the identity's own records are written: a handler  *)
(* that fails on one of them leaves the new identity in force with the old *)
(* one as the last the log names.                                          *)
THEOREM ActsAttributed ==
    ASSUME IdentityWritten
    PROVE  Spec => []AttributedToBearer
<1>1. TypeOK /\ Attributed => AttributedToBearer
  BY AttributedReads
<1>2. TypeOK /\ Attributed /\ [Next]_vars => Attributed'
  BY AttributedStep
<1> QED
  BY <1>1, <1>2, AttributedInit, TypeCorrect, PTL DEF Spec

-----------------------------------------------------------------------------
(***************************************************************************)
(* Trust.  The bundle in force is the one the last reload applied since    *)
(* the opening names, when every reload is recorded.  What was in force at *)
(* an opening no record says: the proof carries it in a set s that pairs   *)
(* each opening agent_session with the bundle it opened under.             *)
(***************************************************************************)

Applied(l, i) == l[i].id[1] = "reload" /\ l[i].val # "rejected"

(* Of the marks below m, one that comes last names the bundle b.           *)
InForce(l, s, m, b) ==
    \E h \in 0 .. m - 1 :
        /\ \/ <<h, b>> \in s
           \/ h \in 1 .. m - 1 /\ Applied(l, h) /\ l[h].val = b
        /\ \A q \in s : q[1] < m => q[1] <= h
        /\ \A i \in 1 .. m - 1 : Applied(l, i) => i <= h

(* s marks each opening agent_session of l, once.                          *)
Marks(l, s) ==
    /\ s \in SUBSET (Nat \X Bundles)
    /\ \A q \in s : q[1] \in 1 .. Len(l) /\ l[q[1]].id = <<"agent", 1>>
    /\ \A i \in 1 .. Len(l) : l[i].id = <<"agent", 1>> =>
          \E c \in Bundles : <<i, c>> \in s
    /\ \A p, q \in s : p[1] = q[1] => p[2] = q[2]

TrustedBy(s) ==
    /\ Marks(log, s)
    /\ InForce(log, s, Len(log) + 1, auth.bundle)
    /\ \A a \in hist.acts : a.at \in 1 .. Len(log) /\ InForce(log, s, a.at, a.trust)

Trusted == \E s : TrustedBy(s)

(* What is in force at an act of the opening j: the last reload applied    *)
(* since, or what the opening is marked with.                              *)
LEMMA ForceReads ==
    ASSUME TypeOK, NEW s, Marks(log, s), NEW m \in 1 .. Len(log), NEW c,
           InForce(log, s, m, c), NEW j \in 1 .. Len(log), OpenedAt(j, m)
    PROVE  /\ \A k \in AppliedSince(j, m) :
                 (\A l \in AppliedSince(j, m) : l <= k) => log[k].val = c
           /\ AppliedSince(j, m) = {} => <<j, c>> \in s
<1>0. Len(log) \in Nat
  BY LenProperties DEF TypeOK
<1>1. PICK h \in 0 .. m - 1 :
        /\ \/ <<h, c>> \in s
           \/ h \in 1 .. m - 1 /\ Applied(log, h) /\ log[h].val = c
        /\ \A q \in s : q[1] < m => q[1] <= h
        /\ \A i \in 1 .. m - 1 : Applied(log, i) => i <= h
  BY DEF InForce
<1>2. j \in 1 .. m - 1 /\ log[j].id = <<"agent", 1>>
      /\ \A k \in j + 1 .. m - 1 : log[k].id # <<"agent", 1>>
  BY DEF OpenedAt
<1>3. PICK x \in Bundles : <<j, x>> \in s
  BY <1>2 DEF Marks
<1>4. j <= h
  <2>1. PICK q : q = <<j, x>> /\ q \in s
    BY <1>3
  <2>2. q[1] = j /\ j < m
    BY <1>2, <2>1
  <2> QED
    BY <1>1, <2>1, <2>2
<1>5. <<h, c>> \in s => h <= j
  <2>1. SUFFICES ASSUME <<h, c>> \in s PROVE h <= j
    OBVIOUS
  <2>2. PICK q : q = <<h, c>> /\ q \in s
    BY <2>1
  <2>3. log[h].id = <<"agent", 1>>
    <3>1. q[1] = h
      BY <2>2
    <3> QED
      BY <2>2, <3>1 DEF Marks
  <2>4. ~(h \in j + 1 .. m - 1)
    BY <1>2, <2>3
  <2> QED
    BY <1>0, <1>2, <2>4
<1>6. <<h, c>> \in s => <<j, c>> \in s
  BY <1>2, <1>4, <1>5
<1>7. <<h, c>> \notin s => h \in AppliedSince(j, m) /\ log[h].val = c
  <2>1. SUFFICES ASSUME <<h, c>> \notin s
                 PROVE  h \in AppliedSince(j, m) /\ log[h].val = c
    OBVIOUS
  <2>2. h \in 1 .. m - 1 /\ Applied(log, h) /\ log[h].val = c
    BY <1>1, <2>1
  <2>3. h # j
    BY <1>2, <2>2 DEF Applied
  <2>4. h \in j + 1 .. m - 1
    BY <1>2, <1>4, <2>2, <2>3
  <2> QED
    BY <2>2, <2>4 DEF Applied, AppliedSince
<1>8. \A k \in AppliedSince(j, m) : k <= h /\ k > j /\ k \in Nat
  <2>1. ASSUME NEW k \in AppliedSince(j, m) PROVE k <= h /\ k > j /\ k \in Nat
    <3>1. k \in j + 1 .. m - 1 /\ Applied(log, k)
      BY DEF AppliedSince, Applied
    <3>2. k \in 1 .. m - 1 /\ k > j /\ k \in Nat
      BY <1>2, <3>1
    <3> QED
      BY <1>1, <3>1, <3>2
  <2> QED
    BY <2>1
<1>9. ASSUME NEW k \in AppliedSince(j, m), \A l \in AppliedSince(j, m) : l <= k
      PROVE  log[k].val = c
  <2>1. <<h, c>> \notin s
    BY <1>1, <1>5, <1>8
  <2>2. h \in AppliedSince(j, m) /\ log[h].val = c
    BY <1>7, <2>1
  <2>3. h <= k /\ k <= h
    BY <1>8, <1>9, <2>2
  <2>4. h = k
    BY <1>1, <1>8, <2>3
  <2> QED
    BY <2>2, <2>4
<1>10. AppliedSince(j, m) = {} => <<j, c>> \in s
  BY <1>6, <1>7
<1> QED
  BY <1>9, <1>10

LEMMA TrustedReads == ASSUME TypeOK, Trusted PROVE TrustFollowsReloads
<1>1. PICK s : TrustedBy(s)
  BY DEF Trusted
<1>2. \A x \in hist.acts : x.at \in 1 .. Len(log) /\ InForce(log, s, x.at, x.trust)
  BY <1>1 DEF TrustedBy
<1>3. Marks(log, s)
  BY <1>1 DEF TrustedBy
<1>4. ASSUME NEW x \in hist.acts, NEW j \in 1 .. Len(log), OpenedAt(j, x.at)
      PROVE  /\ \A k \in AppliedSince(j, x.at) :
                   (\A l \in AppliedSince(j, x.at) : l <= k) => log[k].val = x.trust
             /\ AppliedSince(j, x.at) = {} => <<j, x.trust>> \in s
  BY <1>2, <1>3, <1>4, ForceReads
<1>5. ASSUME NEW a \in hist.acts, NEW c \in hist.acts, NEW j \in 1 .. Len(log),
             OpenedAt(j, a.at), AppliedSince(j, a.at) = {},
             OpenedAt(j, c.at), AppliedSince(j, c.at) = {}
      PROVE  c.trust = a.trust
  <2>1. <<j, a.trust>> \in s /\ <<j, c.trust>> \in s
    BY <1>4, <1>5
  <2>2. PICK p, q : p = <<j, a.trust>> /\ q = <<j, c.trust>>
    OBVIOUS
  <2>3. p \in s /\ q \in s /\ p[1] = q[1] /\ p[2] = a.trust /\ q[2] = c.trust
    BY <2>1, <2>2
  <2> QED
    BY <1>3, <2>3 DEF Marks
<1> QED
  BY <1>4, <1>5 DEF TrustFollowsReloads

(* A step that opens no chain leaves the marks as they are.                *)
LEMMA MarksKept ==
    ASSUME NEW at, NEW b, Appends(at, b), NEW s, Marks(log, s),
           \A i \in Len(log) + 1 .. Len(log') : log'[i].id # <<"agent", 1>>
    PROVE  Marks(log', s)
<1>1. /\ Len(log) \in Nat /\ Len(log') \in Nat /\ Len(log) <= Len(log')
      /\ \A i \in 1 .. Len(log) : log'[i] = log[i]
  BY DEF Appends
<1>2. \A i \in 1 .. Len(log') : i \in 1 .. Len(log) \/ i \in Len(log) + 1 .. Len(log')
  BY <1>1
<1>3. \A i \in 1 .. Len(log) : i \in 1 .. Len(log')
  BY <1>1
<1>4. s \in SUBSET (Nat \X Bundles) /\ \A p, q \in s : p[1] = q[1] => p[2] = q[2]
  BY DEF Marks
<1>5. \A q \in s : q[1] \in 1 .. Len(log') /\ log'[q[1]].id = <<"agent", 1>>
  BY <1>1, <1>3 DEF Marks
<1>6. \A i \in 1 .. Len(log') : log'[i].id = <<"agent", 1>> =>
          \E c \in Bundles : <<i, c>> \in s
  BY <1>1, <1>2 DEF Marks
<1> QED
  BY <1>4, <1>5, <1>6 DEF Marks

(* An identity check and the records of an act open no chain.              *)
LEMMA OpensNone ==
    ASSUME TypeOK, NEW o, NEW r, NEW d, NEW k, NEW j, NEW b, Checked(o),
           Reports(r, o), Renews(d, o), Writes(r, k, d, j, b), NEW n, NEW g,
           NEW v, NEW e, Attempt(Len(log) + k + j, n, g, v, e, b)
    PROVE  \A i \in Len(log) + 1 .. Len(log') : log'[i].id # <<"agent", 1>>
<1>0. /\ o.renewed \in BOOLEAN /\ o.auth \in AuthState
      /\ Len(log) \in Nat /\ Len(r) \in Nat
  BY LenProperties DEF Checked, TypeOK, Reports
<1>1. d \in Seq(Record) /\ Len(d) \in Nat
  BY <1>0, RenewsType
<1>2. /\ k \in Nat /\ k <= Len(r) /\ j \in Nat /\ j <= Len(d) /\ b \in 0 .. 3
      /\ Len(log') = Len(log) + k + j + b
  BY <1>0, <1>1 DEF Writes, Attempt
<1>3. ASSUME NEW i \in Len(log) + 1 .. Len(log') PROVE log'[i].id # <<"agent", 1>>
  <2>1. CASE i <= Len(log) + k
    <3>1. PICK x \in 1 .. k : i = Len(log) + x
      <4>1. i - Len(log) \in 1 .. k /\ i = Len(log) + (i - Len(log))
        BY <1>0, <1>2, <2>1
      <4> QED
        BY <4>1
    <3>2. log'[i] = r[x] /\ x \in 1 .. Len(r)
      BY <1>0, <1>2, <3>1 DEF Writes
    <3>3. r[x].id[1] = "reload"
      BY <3>2 DEF Reports
    <3> QED
      BY <3>2, <3>3
  <2>2. CASE Len(log) + k < i /\ i <= Len(log) + k + j
    <3>1. PICK x \in 1 .. j : i = Len(log) + k + x
      <4>1. /\ i - (Len(log) + k) \in 1 .. j
            /\ i = Len(log) + k + (i - (Len(log) + k))
        BY <1>0, <1>2, <2>2
      <4> QED
        BY <4>1
    <3>2. log'[i] = d[x] /\ x \in 1 .. Len(d)
      BY <1>1, <1>2, <3>1 DEF Writes
    <3>3. o.renewed
      <4>1. Len(<< >>) = 0
        OBVIOUS
      <4> QED
        BY <1>0, <1>1, <3>2, <4>1 DEF Renews
    <3>4. Introduces(d, o.auth) /\ o.auth.generation > 1
      BY <3>3 DEF Renews, Checked
    <3>5. CASE x = Len(d)
      <4>1. PICK z : z = o.auth.generation
        OBVIOUS
      <4>2. d[x].id = <<"agent", z>> /\ z > 1 /\ z \in Nat
        BY <1>0, <3>4, <3>5, <4>1 DEF Introduces, AuthState
      <4>3. z # 1
        BY <4>2
      <4> QED
        BY <3>2, <4>2, <4>3
    <3>6. CASE x # Len(d)
      <4>1. x \in 1 .. Len(d) - 1
        BY <1>1, <3>2, <3>6
      <4>2. d[x].id[1] # "agent"
        BY <3>4, <4>1 DEF Introduces
      <4> QED
        BY <3>2, <4>2
    <3> QED
      BY <3>5, <3>6
  <2>3. CASE Len(log) + k + j < i
    <3>1. PICK at : at = Len(log) + k + j
      OBVIOUS
    <3>2. PICK u : u = Len(log')
      OBVIOUS
    <3>3. at \in Nat /\ b \in 0 .. 3 /\ u = at + b
      BY <1>0, <1>2, <3>1, <3>2
    <3>4. i \in Int /\ at < i /\ i <= u
      BY <1>0, <2>3, <3>1, <3>2, <3>3
    <3>5. i \in {at + 1, at + 2, at + 3} /\ i - at <= b
      BY <3>3, <3>4
    <3>6. Attempt(at, n, g, v, e, b)
      BY <3>1
    <3>7. \/ log'[i] = CallRec(n, g) \/ log'[i] = DecRec(n, v)
          \/ log'[i] = EffRec(n, e)
      BY <3>3, <3>5, <3>6 DEF Attempt
    <3> QED
      BY <3>7 DEF CallRec, DecRec, EffRec, Rec
  <2>4. i \in Int /\ Len(log) + k \in Int /\ Len(log) + k + j \in Int
    BY <1>0, <1>2
  <2> QED
    BY <2>1, <2>2, <2>3, <2>4
<1> QED
  BY <1>3

(* The marks below a position are what they were.                          *)
LEMMA ForceLog ==
    ASSUME NEW at, NEW b, Appends(at, b), NEW s, NEW c,
           NEW m \in 1 .. Len(log) + 1, InForce(log, s, m, c)
    PROVE  InForce(log', s, m, c)
<1>1. Len(log) \in Nat /\ \A i \in 1 .. m - 1 : log'[i] = log[i]
  BY DEF Appends
<1>2. PICK h \in 0 .. m - 1 :
        /\ \/ <<h, c>> \in s
           \/ h \in 1 .. m - 1 /\ Applied(log, h) /\ log[h].val = c
        /\ \A q \in s : q[1] < m => q[1] <= h
        /\ \A i \in 1 .. m - 1 : Applied(log, i) => i <= h
  BY DEF InForce
<1>3. \A i \in 1 .. m - 1 : Applied(log', i) <=> Applied(log, i)
  BY <1>1 DEF Applied
<1>4. \/ <<h, c>> \in s
      \/ h \in 1 .. m - 1 /\ Applied(log', h) /\ log'[h].val = c
  BY <1>1, <1>2, <1>3
<1>5. \A i \in 1 .. m - 1 : Applied(log', i) => i <= h
  BY <1>2, <1>3
<1> QED
  BY <1>2, <1>4, <1>5 DEF InForce

(* Records that apply no reload leave the last mark where it is.           *)
LEMMA ForceOn ==
    ASSUME NEW l, NEW s, NEW c, NEW m \in Nat, NEW n \in Nat, m <= n,
           InForce(l, s, m, c), \A q \in s : q[1] < m,
           \A i \in m .. n - 1 : ~Applied(l, i)
    PROVE  InForce(l, s, n, c)
<1>1. PICK h \in 0 .. m - 1 :
        /\ \/ <<h, c>> \in s
           \/ h \in 1 .. m - 1 /\ Applied(l, h) /\ l[h].val = c
        /\ \A q \in s : q[1] < m => q[1] <= h
        /\ \A i \in 1 .. m - 1 : Applied(l, i) => i <= h
  BY DEF InForce
<1>2. h \in 0 .. n - 1 /\ (h \in 1 .. m - 1 => h \in 1 .. n - 1)
  OBVIOUS
<1>3. \A i \in 1 .. n - 1 : Applied(l, i) => i <= h
  <2>1. \A i \in 1 .. n - 1 : i \in 1 .. m - 1 \/ i \in m .. n - 1
    OBVIOUS
  <2> QED
    BY <1>1, <2>1
<1> QED
  BY <1>1, <1>2, <1>3 DEF InForce

(* A reload the identity check applied is the last mark, and names the     *)
(* bundle the check leaves in force.                                       *)
LEMMA ForceChecked ==
    ASSUME TypeOK, NEW s, TrustedBy(s), NEW o, NEW r, NEW d, NEW j, NEW b,
           Checked(o), Reports(r, o), Renews(d, o),
           Writes(r, Len(r), d, j, b)
    PROVE  InForce(log', s, Len(log) + Len(r) + j + 1, o.auth.bundle)
<1> DEFINE top == Len(log) + Len(r) + j + 1
<1>0. o.renewed \in BOOLEAN /\ Appends(Len(log) + Len(r) + j, b)
  BY WritesAppends DEF Checked
<1>1. /\ Len(log) \in Nat /\ Len(r) \in Nat /\ Len(d) \in Nat
      /\ j \in Nat /\ j <= Len(d)
  BY <1>0, RenewsType, LenProperties DEF TypeOK, Reports, Writes
<1>2. ASSUME NEW i \in Len(log) + Len(r) + 1 .. top - 1 PROVE ~Applied(log', i)
  <2>1. PICK x \in 1 .. j : i = Len(log) + Len(r) + x
    <3>1. /\ i - (Len(log) + Len(r)) \in 1 .. j
          /\ i = Len(log) + Len(r) + (i - (Len(log) + Len(r)))
      BY <1>1
    <3> QED
      BY <3>1
  <2>2. log'[i] = d[x] /\ x \in 1 .. Len(d)
    BY <1>1, <2>1 DEF Writes
  <2>3. o.renewed
    <3>1. Len(<< >>) = 0
      OBVIOUS
    <3> QED
      BY <1>1, <2>1, <3>1 DEF Renews
  <2>4. d[x].id[1] \in {"deleg", "label", "actor", "agent"}
    BY <2>2, <2>3 DEF Renews, Introduces
  <2> QED
    BY <2>2, <2>4 DEF Applied
<1>3. \A q \in s : q[1] \in Nat /\ q[1] <= Len(log)
  BY <1>1 DEF TrustedBy, Marks
<1>4. CASE o.reloads # <<"applied">>
  <2>1. o.auth.bundle = auth.bundle
    BY <1>4 DEF Checked
  <2>2. Len(log) + 1 \in 1 .. Len(log) + 1
    BY <1>1
  <2>3. InForce(log', s, Len(log) + 1, auth.bundle)
    BY <1>0, <2>2, ForceLog DEF TrustedBy
  <2>4. ASSUME NEW i \in Len(log) + 1 .. top - 1 PROVE ~Applied(log', i)
    <3>1. CASE i <= Len(log) + Len(r)
      <4>1. PICK x \in 1 .. Len(r) : i = Len(log) + x
        <5>1. i - Len(log) \in 1 .. Len(r) /\ i = Len(log) + (i - Len(log))
          BY <1>1, <3>1
        <5> QED
          BY <5>1
      <4>2. log'[i] = r[x]
        BY <4>1 DEF Writes
      <4>3. r[x].val = "rejected"
        BY <1>4 DEF Reports
      <4> QED
        BY <4>2, <4>3 DEF Applied
    <3>2. CASE i > Len(log) + Len(r)
      BY <1>1, <1>2, <3>2
    <3> QED
      BY <1>1, <3>1, <3>2
  <2>5. Len(log) + 1 \in Nat /\ top \in Nat /\ Len(log) + 1 <= top
    BY <1>1
  <2>6. \A q \in s : q[1] < Len(log) + 1
    BY <1>1, <1>3
  <2> HIDE DEF top
  <2>7. InForce(log', s, top, auth.bundle)
    BY <2>3, <2>4, <2>5, <2>6, ForceOn
  <2> QED
    BY <2>1, <2>7 DEF top
<1>5. CASE o.reloads = <<"applied">>
  <2> DEFINE h == Len(log) + 1
  <2>1. /\ Len(r) = 1 /\ r[1].id[1] = "reload" /\ r[1].val = o.auth.bundle
    BY <1>5 DEF Reports
  <2>2. o.auth.bundle # "rejected"
    BY GatewayAssumption DEF Checked, AuthState
  <2>3. log'[h] = r[1]
    BY <2>1 DEF Writes
  <2>4. Applied(log', h) /\ log'[h].val = o.auth.bundle
    BY <2>1, <2>2, <2>3 DEF Applied
  <2>5. h \in Nat /\ h + 1 \in Nat /\ h \in 0 .. (h + 1) - 1 /\ h \in 1 .. (h + 1) - 1
        /\ (\A i \in 1 .. (h + 1) - 1 : i <= h)
    BY <1>1
  <2>6. \A q \in s : q[1] <= h /\ q[1] < h + 1
    BY <1>1, <1>3
  <2>7. top \in Nat /\ h + 1 <= top /\ h + 1 = Len(log) + Len(r) + 1
    BY <1>1, <2>1
  <2>8. \A i \in h + 1 .. top - 1 : ~Applied(log', i)
    BY <1>2, <2>7
  <2> HIDE DEF h, top
  <2>9. InForce(log', s, h + 1, o.auth.bundle)
    BY <2>4, <2>5, <2>6 DEF InForce
  <2>10. InForce(log', s, top, o.auth.bundle)
    BY <2>5, <2>6, <2>7, <2>8, <2>9, ForceOn
  <2> QED
    BY <2>10 DEF top
<1> QED
  BY <1>4, <1>5

(* The acts noted before a step, and at most one noted by it.              *)
LEMMA ActsTrusted ==
    ASSUME TypeOK, NEW s, TrustedBy(s), NEW at, NEW b, Appends(at, b),
           NEW z, s \subseteq z, z \subseteq Nat \X Bundles,
           \A q \in z : q \in s \/ q[1] > Len(log),
           NEW a, hist'.acts = hist.acts \/ hist'.acts = hist.acts \cup {a},
           a \in hist'.acts \ hist.acts =>
              a.at \in 1 .. Len(log') /\ InForce(log', z, a.at, a.trust)
    PROVE  \A c \in hist'.acts :
              c.at \in 1 .. Len(log') /\ InForce(log', z, c.at, c.trust)
<1> SUFFICES ASSUME NEW c \in hist'.acts
             PROVE  c.at \in 1 .. Len(log') /\ InForce(log', z, c.at, c.trust)
  OBVIOUS
<1>1. CASE c \in hist.acts
  <2>1. c.at \in 1 .. Len(log) /\ InForce(log, s, c.at, c.trust)
    BY <1>1 DEF TrustedBy
  <2>2. /\ Len(log) \in Nat /\ Len(log') \in Nat /\ Len(log) <= Len(log')
    BY DEF Appends
  <2>3. c.at \in 1 .. Len(log) + 1 /\ c.at \in 1 .. Len(log')
    BY <2>1, <2>2
  <2>4. InForce(log', s, c.at, c.trust)
    BY <2>1, <2>3, ForceLog
  <2>5. PICK m : m = c.at
    OBVIOUS
  <2>6. InForce(log', s, m, c.trust) /\ m \in 1 .. Len(log)
    BY <2>1, <2>4, <2>5
  <2>7. \A q \in z : q[1] < m => q \in s
    <3>1. ASSUME NEW q \in z, q[1] < m, q \notin s PROVE FALSE
      <4>1. q[1] > Len(log)
        BY <3>1
      <4>2. PICK w : w = q[1]
        OBVIOUS
      <4>3. PICK u : u = Len(log)
        OBVIOUS
      <4>4. u \in Nat /\ m \in 1 .. u
        BY <2>2, <2>6, <4>3
      <4>5. w \in Nat
        BY <4>2
      <4>6. w < m /\ w > u
        BY <3>1, <4>1, <4>2, <4>3
      <4> QED
        BY <4>4, <4>5, <4>6
    <3> QED
      BY <3>1
  <2>9. InForce(log', z, m, c.trust)
    BY <2>6, <2>7 DEF InForce
  <2> QED
    BY <2>3, <2>5, <2>9
<1>2. CASE c \notin hist.acts
  <2>1. c = a
    BY <1>2
  <2> QED
    BY <1>2, <2>1
<1> QED
  BY <1>1, <1>2

(* The records of an act apply no reload.                                  *)
LEMMA ForceAct ==
    ASSUME TypeOK, NEW s, TrustedBy(s), NEW at, NEW n, NEW g, NEW v, NEW e, NEW b,
           Appends(at, b), Attempt(at, n, g, v, e, b), NEW c,
           InForce(log', s, at + 1, c)
    PROVE  InForce(log', s, Len(log') + 1, c)
<1>1. /\ at \in Nat /\ b \in 0 .. 3 /\ Len(log') = at + b
      /\ Len(log) \in Nat /\ Len(log) <= at
  BY DEF Appends, Attempt
<1>2. ASSUME NEW i \in at + 1 .. (Len(log') + 1) - 1 PROVE ~Applied(log', i)
  <2>1. i \in {at + 1, at + 2, at + 3} /\ i - at <= b
    BY <1>1
  <2>2. \/ log'[i] = CallRec(n, g) \/ log'[i] = DecRec(n, v)
        \/ log'[i] = EffRec(n, e)
    BY <1>1, <2>1 DEF Attempt
  <2> QED
    BY <2>2 DEF CallRec, DecRec, EffRec, Rec, Applied
<1>3. \A q \in s : q[1] \in Nat /\ q[1] <= Len(log)
  BY <1>1 DEF TrustedBy, Marks
<1>4. \A q \in s : q[1] < at + 1
  BY <1>1, <1>3
<1>5. at + 1 \in Nat /\ Len(log') + 1 \in Nat /\ at + 1 <= Len(log') + 1
  BY <1>1
<1> QED
  BY <1>2, <1>4, <1>5, ForceOn

(* An act noted above the log's end holds under the marks as they were.    *)
LEMMA TrustedHandle ==
    ASSUME TypeOK, "reload" \notin FailAt, NEW s, TrustedBy(s), NEW id,
           NEW t \in Bearers, NEW v, NEW out, Handled(id, t, v, out)
    PROVE  TrustedBy(s)'
<1>1. PICK o, r, d, k, j, b :
              /\ Checked(o) /\ Reports(r, o) /\ Renews(d, o)
              /\ ActLeaves(o, r, d, k, j, b, id, t, v, out)
  BY ActStep
<1> DEFINE at  == Len(log) + Len(r) + j
           g   == IF o.renewed THEN o.auth.generation ELSE sess.agent
           w   == IF o.denied \/ v = "deny" THEN "deny" ELSE "allow"
           a   == Act(Len(log) + Len(r) + Len(d) + 1,
                      IF t = NoToken THEN o.auth.current ELSE DelegOf[t],
                      o.auth.bundle)
<1>2. o.renewed \in BOOLEAN
  BY <1>1 DEF Checked
<1>3. Writes(r, k, d, j, b)
  BY <1>1 DEF ActLeaves
<1>4. k = Len(r)
  <2>1. k < Len(r) => "reload" \in FailAt
    BY <1>1 DEF ActLeaves
  <2>2. k \in 0 .. Len(r) /\ Len(r) \in Nat
    BY <1>1, <1>3 DEF Writes, Reports
  <2> QED
    BY <2>1, <2>2
<1>5. /\ Attempt(at, sess.counter + 1, g, w, "blocked", b)
      /\ b > 0 => j = Len(d)
      /\ auth' = o.auth /\ hist' = Note(b > 0, a)
  BY <1>1, <1>4 DEF ActLeaves
<1>6. Appends(at, b)
  BY <1>1, <1>2, <1>3, <1>4, WritesAppends
<1>7. InForce(log', s, at + 1, o.auth.bundle)
  BY <1>1, <1>3, <1>4, ForceChecked
<1>8. /\ b > 0 => a.at = at + 1
      /\ a.trust = o.auth.bundle
  BY <1>5 DEF Act
<1>9. Marks(log', s)
  <2>1. Marks(log, s)
    BY DEF TrustedBy
  <2>2. \A i \in Len(log) + 1 .. Len(log') : log'[i].id # <<"agent", 1>>
    BY <1>1, <1>3, <1>4, <1>5, OpensNone
  <2> HIDE DEF at
  <2> QED
    BY <1>6, <2>1, <2>2, MarksKept
<1> HIDE DEF at, g, w, a
<1>10. InForce(log', s, Len(log') + 1, auth'.bundle)
  BY <1>5, <1>6, <1>7, ForceAct
<1>11. /\ b > 0 => hist'.acts = hist.acts \cup {a}
       /\ ~(b > 0) => hist'.acts = hist.acts
  BY <1>5 DEF Note, TypeOK, History
<1>12. b > 0 => a.at \in 1 .. Len(log') /\ InForce(log', s, a.at, a.trust)
  <2>1. at \in Nat /\ b \in Nat /\ Len(log') = at + b
    BY <1>6 DEF Appends
  <2>2. b > 0 => at + 1 \in 1 .. Len(log')
    BY <2>1
  <2> QED
    BY <1>7, <1>8, <2>2
<1>13. s \subseteq Nat \X Bundles
  BY DEF TrustedBy, Marks
<1>14. \A c \in hist'.acts :
          c.at \in 1 .. Len(log') /\ InForce(log', s, c.at, c.trust)
  BY <1>6, <1>11, <1>12, <1>13, ActsTrusted
<1> QED
  BY <1>9, <1>10, <1>14 DEF TrustedBy

LEMMA TrustedBearer ==
    ASSUME TypeOK, "reload" \notin FailAt, NEW s, TrustedBy(s),
           NEW t \in Tokens, PresentBearer(t)
    PROVE  TrustedBy(s)'
<1>1. PICK o, r, d, k, j :
              /\ Checked(o) /\ Reports(r, o) /\ Renews(d, o)
              /\ BearerLeaves(o, r, d, k, j)
  BY BearerStep
<1> DEFINE at == Len(log) + Len(r) + j
<1>2. o.renewed \in BOOLEAN
  BY <1>1 DEF Checked
<1>3. Writes(r, k, d, j, 0)
  BY <1>1 DEF BearerLeaves
<1>4. k = Len(r)
  <2>1. k < Len(r) => "reload" \in FailAt
    BY <1>1 DEF BearerLeaves
  <2>2. k \in 0 .. Len(r) /\ Len(r) \in Nat
    BY <1>1, <1>3 DEF Writes, Reports
  <2> QED
    BY <2>1, <2>2
<1>5. auth' = o.auth
  BY <1>1 DEF BearerLeaves
<1>6. hist' = hist
  BY DEF PresentBearer
<1>7. Appends(at, 0)
  BY <1>1, <1>2, <1>3, <1>4, WritesAppends
<1>8. InForce(log', s, at + 1, o.auth.bundle)
  BY <1>1, <1>3, <1>4, ForceChecked
<1>9. Attempt(at, 0, 0, "deny", "blocked", 0)
  BY DEF Attempt
<1>10. Marks(log', s)
  <2>1. Marks(log, s)
    BY DEF TrustedBy
  <2>2. \A i \in Len(log) + 1 .. Len(log') : log'[i].id # <<"agent", 1>>
    BY <1>1, <1>3, <1>4, <1>9, OpensNone
  <2> HIDE DEF at
  <2> QED
    BY <1>7, <2>1, <2>2, MarksKept
<1> HIDE DEF at
<1>11. InForce(log', s, Len(log') + 1, auth'.bundle)
  BY <1>5, <1>7, <1>8, <1>9, ForceAct
<1>12. s \subseteq Nat \X Bundles
  BY DEF TrustedBy, Marks
<1>13. \A c \in hist'.acts :
          c.at \in 1 .. Len(log') /\ InForce(log', s, c.at, c.trust)
  BY <1>6, <1>7, <1>12, ActsTrusted
<1> QED
  BY <1>10, <1>11, <1>13 DEF TrustedBy

LEMMA TrustedBehalf ==
    ASSUME TypeOK, NEW s, TrustedBy(s), OnBehalf
    PROVE  TrustedBy(s)'
<1>1. PICK k, v, e :
          /\ Appends(Len(log), k)
          /\ Attempt(Len(log), sess.counter + 1, sess.agent, v, e, k)
          /\ k > 0 => hist'.acts = hist.acts \cup {ServerAct}
          /\ k = 0 => hist'.acts = hist.acts
  BY DEF OnBehalf
<1>2. auth' = auth
  BY DEF OnBehalf
<1>3. Len(log) \in Nat /\ k \in Nat /\ Len(log') = Len(log) + k
  BY <1>1 DEF Appends
<1>4. InForce(log', s, Len(log) + 1, auth.bundle)
  <2>1. Len(log) + 1 \in 1 .. Len(log) + 1
    BY <1>3
  <2> QED
    BY <1>1, <2>1, ForceLog DEF TrustedBy
<1>5. InForce(log', s, Len(log') + 1, auth'.bundle)
  BY <1>1, <1>2, <1>4, ForceAct
<1>6. ServerAct.at = Len(log) + 1 /\ ServerAct.trust = auth.bundle
  BY DEF ServerAct, Act
<1>7. \A c \in hist'.acts :
          c.at \in 1 .. Len(log') /\ InForce(log', s, c.at, c.trust)
  <2>1. hist'.acts = hist.acts \/ hist'.acts = hist.acts \cup {ServerAct}
    BY <1>1, <1>3
  <2>2. ServerAct \in hist'.acts \ hist.acts => k > 0
    BY <1>1, <1>3
  <2>3. k > 0 => Len(log) + 1 \in 1 .. Len(log')
    BY <1>3
  <2>4. k > 0 => /\ ServerAct.at \in 1 .. Len(log')
                 /\ InForce(log', s, ServerAct.at, ServerAct.trust)
    BY <1>4, <1>6, <2>3
  <2>5. s \subseteq Nat \X Bundles
    BY DEF TrustedBy, Marks
  <2> QED
    BY <1>1, <2>1, <2>2, <2>4, <2>5, ActsTrusted
<1>8. Marks(log', s)
  <2>1. ASSUME NEW i \in Len(log) + 1 .. Len(log')
        PROVE  log'[i].id # <<"agent", 1>>
    <3>0. k \in 0 .. 3
      BY <1>1 DEF Attempt
    <3>1. i \in {Len(log) + 1, Len(log) + 2, Len(log) + 3} /\ i - Len(log) <= k
      BY <1>3, <3>0
    <3>2. \/ log'[i] = CallRec(sess.counter + 1, sess.agent)
          \/ log'[i] = DecRec(sess.counter + 1, v)
          \/ log'[i] = EffRec(sess.counter + 1, e)
      BY <1>1, <1>3, <3>1 DEF Attempt
    <3> QED
      BY <3>2 DEF CallRec, DecRec, EffRec, Rec
  <2>2. Marks(log, s)
    BY DEF TrustedBy
  <2> QED
    BY <1>1, <2>1, <2>2, MarksKept
<1> QED
  BY <1>5, <1>7, <1>8 DEF TrustedBy

LEMMA TrustedQuiet ==
    ASSUME TypeOK, NEW s, TrustedBy(s), Quiet
    PROVE  TrustedBy(s)'
<1>1. PICK k, x :
          /\ Appends(Len(log), k)
          /\ k \in {0, 1}
          /\ k = 1 => log'[Len(log) + 1] = EffRec(x, "done")
  BY DEF Quiet
<1>2. auth' = auth /\ hist'.acts = hist.acts
  BY DEF Quiet
<1>3. Len(log) \in Nat /\ Len(log') = Len(log) + k
  BY <1>1 DEF Appends
<1>4. InForce(log', s, Len(log) + 1, auth.bundle)
  <2>1. Len(log) + 1 \in 1 .. Len(log) + 1
    BY <1>3
  <2> QED
    BY <1>1, <2>1, ForceLog DEF TrustedBy
<1>5. ASSUME NEW i \in Len(log) + 1 .. (Len(log') + 1) - 1
      PROVE  ~Applied(log', i) /\ log'[i].id # <<"agent", 1>>
  <2>1. k = 1 /\ i = Len(log) + 1
    BY <1>1, <1>3
  <2> QED
    BY <1>1, <2>1 DEF EffRec, Rec, Applied
<1>6. InForce(log', s, Len(log') + 1, auth.bundle)
  <2>1. \A q \in s : q[1] < Len(log) + 1
    BY <1>3 DEF TrustedBy, Marks
  <2>2. Len(log) + 1 \in Nat /\ Len(log') + 1 \in Nat /\ Len(log) + 1 <= Len(log') + 1
    BY <1>1, <1>3
  <2> QED
    BY <1>4, <1>5, <2>1, <2>2, ForceOn
<1>7. \A c \in hist'.acts :
          c.at \in 1 .. Len(log') /\ InForce(log', s, c.at, c.trust)
  <2>1. s \subseteq Nat \X Bundles
    BY DEF TrustedBy, Marks
  <2> QED
    BY <1>1, <1>2, <2>1, ActsTrusted
<1>8. Marks(log', s)
  <2>1. Marks(log, s)
    BY DEF TrustedBy
  <2>2. \A i \in Len(log) + 1 .. Len(log') : log'[i].id # <<"agent", 1>>
    BY <1>1, <1>3, <1>5
  <2> QED
    BY <1>1, <2>1, <2>2, MarksKept
<1> QED
  BY <1>2, <1>6, <1>7, <1>8 DEF TrustedBy

(* An opening's own records apply no reload, and its last one opens the    *)
(* chain.                                                                  *)
LEMMA OpensOnce ==
    ASSUME NEW l, NEW n \in Nat, NEW r, NEW u, Opens(r, u),
           u.generation = 1, Len(l) = n + Len(r),
           \A i \in 1 .. Len(r) : l[n + i] = r[i]
    PROVE  /\ Len(l) \in Nat /\ n < Len(l)
           /\ l[Len(l)].id = <<"agent", 1>>
           /\ \A i \in n + 1 .. Len(l) : ~Applied(l, i)
           /\ \A i \in n + 1 .. Len(l) - 1 : l[i].id # <<"agent", 1>>
<1>1. Len(r) \in Nat /\ Len(r) > 0
  BY DEF Opens
<1>2. l[Len(l)].id = <<"agent", 1>>
  BY <1>1 DEF Opens
<1>3. ASSUME NEW i \in n + 1 .. Len(l)
      PROVE  ~Applied(l, i) /\ (i < Len(l) => l[i].id # <<"agent", 1>>)
  <2>1. PICK x \in 1 .. Len(r) : i = n + x
    <3>1. i - n \in 1 .. Len(r) /\ i = n + (i - n)
      BY <1>1
    <3> QED
      BY <3>1
  <2>2. l[i] = r[x] /\ r[x].id[1] # "reload"
    BY <2>1 DEF Opens
  <2>3. i < Len(l) => x \in 1 .. Len(r) - 1
    BY <1>1, <2>1
  <2>4. i < Len(l) => r[x].id[1] # "agent"
    BY <2>3 DEF Opens
  <2> QED
    BY <2>2, <2>4 DEF Applied
<1> QED
  BY <1>1, <1>2, <1>3

LEMMA TrustedRestart ==
    ASSUME TypeOK, NEW s, TrustedBy(s), Restart
    PROVE  Trusted'
<1>1. /\ auth' \in AuthState /\ auth'.generation = 1
      /\ \E r : /\ Opens(r, auth') /\ Follows(log', log, r)
                /\ Appends(Len(log) + Len(r), 0)
  BY RestartStep
<1>2. PICK r : /\ Opens(r, auth') /\ Follows(log', log, r)
               /\ Appends(Len(log) + Len(r), 0)
  BY <1>1
<1>0. PICK p : p = <<Len(log'), auth'.bundle>>
  OBVIOUS
<1> DEFINE z == s \cup {p}
<1>3. hist'.acts = hist.acts
  BY DEF Restart, TypeOK, History
<1>4. /\ Len(log) \in Nat /\ Len(r) \in Nat /\ Len(log') = Len(log) + Len(r)
      /\ \A i \in 1 .. Len(r) : log'[Len(log) + i] = r[i]
      /\ \A i \in 1 .. Len(log) : log'[i] = log[i]
  BY <1>2 DEF Follows
<1>5. /\ Len(log') \in Nat /\ Len(log) < Len(log')
      /\ log'[Len(log')].id = <<"agent", 1>>
      /\ \A i \in Len(log) + 1 .. Len(log') : ~Applied(log', i)
      /\ \A i \in Len(log) + 1 .. Len(log') - 1 : log'[i].id # <<"agent", 1>>
  BY <1>1, <1>2, <1>4, OpensOnce
<1>6. auth'.bundle \in Bundles
  BY <1>1 DEF AuthState
<1>7. p[1] = Len(log') /\ p[2] = auth'.bundle /\ p \in Nat \X Bundles
  BY <1>0, <1>5, <1>6
<1>8. \A q \in s : q[1] \in Nat /\ q[1] <= Len(log) /\ q[1] \in 1 .. Len(log)
  BY <1>4 DEF TrustedBy, Marks
<1>9. Marks(log', z)
  <2>1. z \subseteq Nat \X Bundles
    BY <1>7 DEF TrustedBy, Marks
  <2>2. ASSUME NEW q \in z
        PROVE  q[1] \in 1 .. Len(log') /\ log'[q[1]].id = <<"agent", 1>>
    <3>1. CASE q \in s
      <4>1. q[1] \in 1 .. Len(log) /\ log[q[1]].id = <<"agent", 1>>
        BY <3>1 DEF TrustedBy, Marks
      <4> QED
        BY <1>4, <1>5, <4>1
    <3>2. CASE q = p
      BY <1>4, <1>5, <1>7, <3>2
    <3> QED
      BY <3>1, <3>2
  <2>3. ASSUME NEW i \in 1 .. Len(log'), log'[i].id = <<"agent", 1>>
        PROVE  \E c \in Bundles : <<i, c>> \in z
    <3>1. CASE i \in 1 .. Len(log)
      BY <1>4, <2>3, <3>1 DEF TrustedBy, Marks
    <3>2. CASE i = Len(log')
      BY <1>0, <1>6, <3>2
    <3>3. i \notin 1 .. Len(log) => i \in Len(log) + 1 .. Len(log')
      BY <1>4, <1>5
    <3>4. i # Len(log') /\ i \in Len(log) + 1 .. Len(log')
          => i \in Len(log) + 1 .. Len(log') - 1
      BY <1>5
    <3> QED
      BY <1>5, <2>3, <3>1, <3>2, <3>3, <3>4
  <2>4. ASSUME NEW x \in z, NEW y \in z, x[1] = y[1] PROVE x[2] = y[2]
    <3>1. CASE x \in s /\ y \in s
      BY <2>4, <3>1 DEF TrustedBy, Marks
    <3>2. CASE x = p /\ y = p
      BY <3>2
    <3>3. ASSUME NEW q \in s, q[1] = p[1] PROVE FALSE
      <4>1. PICK w : w = q[1]
        OBVIOUS
      <4>2. w \in Nat /\ w <= Len(log) /\ w = Len(log')
        BY <1>7, <1>8, <3>3, <4>1
      <4> QED
        BY <1>4, <1>5, <4>2
    <3>4. (x \in s \/ x = p) /\ (y \in s \/ y = p)
      OBVIOUS
    <3> QED
      BY <2>4, <3>1, <3>2, <3>3, <3>4
  <2> HIDE DEF z
  <2> QED
    BY <2>1, <2>2, <2>3, <2>4 DEF Marks
<1>10. InForce(log', z, Len(log') + 1, auth'.bundle)
  <2>1. PICK h : h = Len(log')
    OBVIOUS
  <2>2. h \in 0 .. (h + 1) - 1 /\ h \in Nat
    BY <1>5, <2>1
  <2>3. <<h, auth'.bundle>> \in z
    BY <1>0, <2>1
  <2>4. \A q \in z : q[1] <= h
    <3>1. ASSUME NEW q \in s PROVE q[1] <= h
      <4>1. PICK w : w = q[1]
        OBVIOUS
      <4>2. w \in Nat /\ w <= Len(log)
        BY <1>8, <4>1
      <4> QED
        BY <1>4, <1>5, <2>1, <4>1, <4>2
    <3>2. p[1] <= h
      BY <1>7, <2>1, <2>2
    <3> QED
      BY <3>1, <3>2
  <2>5. \A i \in 1 .. (h + 1) - 1 : i <= h
    BY <2>2
  <2> HIDE DEF z
  <2>6. InForce(log', z, h + 1, auth'.bundle)
    BY <2>2, <2>3, <2>4, <2>5 DEF InForce
  <2> QED
    BY <2>1, <2>6
<1>11. \A c \in hist'.acts :
          c.at \in 1 .. Len(log') /\ InForce(log', z, c.at, c.trust)
  <2>1. s \subseteq z
    OBVIOUS
  <2>2. z \subseteq Nat \X Bundles
    BY <1>9 DEF Marks
  <2>3. \A q \in z : q \in s \/ q[1] > Len(log)
    BY <1>4, <1>5, <1>7
  <2> HIDE DEF z
  <2> QED
    BY <1>2, <1>3, <2>1, <2>2, <2>3, ActsTrusted
<1> HIDE DEF z
<1>12. TrustedBy(z)'
  BY <1>9, <1>10, <1>11 DEF TrustedBy
<1> QED
  BY <1>12 DEF Trusted

LEMMA TrustedInit == Init => Trusted
<1> SUFFICES ASSUME Init PROVE Trusted
  OBVIOUS
<1>1. auth \in AuthState
  BY TypeInit DEF TypeOK
<1>2. auth.generation = 1 /\ auth.bundle \in Bundles
  BY <1>1 DEF Init, OpenAuth, AuthState
<1>3. Opens(log, auth)
  BY <1>1, OpeningFacts DEF Init
<1>4. hist.acts = {}
  BY DEF Init
<1>5. Len(log) \in Nat /\ \A i \in 1 .. Len(log) : log[0 + i] = log[i]
  BY <1>3 DEF Opens
<1>6. /\ 0 < Len(log) /\ log[Len(log)].id = <<"agent", 1>>
      /\ \A i \in 0 + 1 .. Len(log) - 1 : log[i].id # <<"agent", 1>>
  <2>1. Len(log) = 0 + Len(log) /\ 0 \in Nat
    BY <1>5
  <2> QED
    BY <1>2, <1>3, <1>5, <2>1, OpensOnce
<1> DEFINE p == <<Len(log), auth.bundle>>
           s == {p}
<1>7. p[1] = Len(log) /\ p[2] = auth.bundle /\ p \in Nat \X Bundles
  BY <1>2, <1>5
<1>8. Marks(log, s)
  <2>1. s \in SUBSET (Nat \X Bundles)
    BY <1>7
  <2>2. \A q \in s : q[1] \in 1 .. Len(log) /\ log[q[1]].id = <<"agent", 1>>
    BY <1>5, <1>6, <1>7
  <2>3. ASSUME NEW i \in 1 .. Len(log), log[i].id = <<"agent", 1>>
        PROVE  \E c \in Bundles : <<i, c>> \in s
    <3>1. i = Len(log)
      BY <1>5, <1>6, <2>3
    <3> QED
      BY <1>2, <3>1
  <2>4. \A x, y \in s : x[1] = y[1] => x[2] = y[2]
    OBVIOUS
  <2> HIDE DEF s
  <2> QED
    BY <2>1, <2>2, <2>3, <2>4 DEF Marks
<1>9. InForce(log, s, Len(log) + 1, auth.bundle)
  <2>1. PICK h : h = Len(log)
    OBVIOUS
  <2>2. h \in 0 .. (h + 1) - 1 /\ h \in Nat
    BY <1>5, <2>1
  <2>3. <<h, auth.bundle>> \in s
    BY <2>1
  <2>4. \A q \in s : q[1] <= h
    BY <1>7, <2>1, <2>2
  <2>5. \A i \in 1 .. (h + 1) - 1 : i <= h
    BY <2>2
  <2> HIDE DEF s
  <2>6. InForce(log, s, h + 1, auth.bundle)
    BY <2>2, <2>3, <2>4, <2>5 DEF InForce
  <2> QED
    BY <2>1, <2>6
<1> HIDE DEF s
<1>10. TrustedBy(s)
  BY <1>4, <1>8, <1>9 DEF TrustedBy
<1> QED
  BY <1>10 DEF Trusted

LEMMA TrustedStep ==
    ASSUME "reload" \notin FailAt
    PROVE  TypeOK /\ Trusted /\ [Next]_vars => Trusted'
<1> SUFFICES ASSUME TypeOK, Trusted, [Next]_vars PROVE Trusted'
  OBVIOUS
<1>1. PICK s : TrustedBy(s)
  BY DEF Trusted
<1>2. CASE OnBehalf \/ Quiet
  BY <1>1, <1>2, TrustedBehalf, TrustedQuiet DEF Trusted
<1>3. CASE Restart
  BY <1>1, <1>3, TrustedRestart DEF Trusted
<1>4. CASE Handles
  <2>1. PICK id, t, v, out : t \in Bearers /\ Handled(id, t, v, out)
    BY <1>4 DEF Handles
  <2>2. TrustedBy(s)'
    BY <1>1, <2>1, TrustedHandle
  <2> QED
    BY <2>2 DEF Trusted
<1>5. CASE \E t \in Tokens : PresentBearer(t)
  BY <1>1, <1>5, TrustedBearer DEF Trusted
<1> QED
  BY <1>2, <1>3, <1>4, <1>5, StepKinds

(* The log accounts for every change of the identity bundle between two    *)
(* openings of the chain, across rotations and write failures, as long as  *)
(* every reload is recorded: the bundle is in force from the check that    *)
(* read it, whether or not its record follows.                             *)
THEOREM TrustFollows ==
    ASSUME "reload" \notin FailAt
    PROVE  Spec => []TrustFollowsReloads
<1>1. TypeOK /\ Trusted => TrustFollowsReloads
  BY TrustedReads
<1>2. TypeOK /\ Trusted /\ [Next]_vars => Trusted'
  BY TrustedStep
<1> QED
  BY <1>1, <1>2, TrustedInit, TypeCorrect, PTL DEF Spec
=============================================================================
