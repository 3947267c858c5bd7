--------------------------- MODULE ReleaseProofs ----------------------------
(***************************************************************************)
(* Theorems about `publish' (Release).  What is served as a version, what  *)
(* stands in its directory and what a publish in progress still carries    *)
(* are tied together, and to the commit whose sha is the version.          *)
(***************************************************************************)
EXTENDS Release, TLAPS

-----------------------------------------------------------------------------
(***************************************************************************)
(* The operators.                                                          *)
(***************************************************************************)

LEMMA Three == /\ Len(Order) = 3 /\ Order[1] = "deployment" /\ Order[2] = "identity"
               /\ Order[3] = "policies"
               /\ \A k \in 1 .. 3 : Order[k] \in Inputs
               /\ \A n \in Inputs : \E k \in 1 .. 3 : Order[k] = n
               /\ \A j, k \in 1 .. 3 : Order[j] = Order[k] => j = k
BY DEF Order, Inputs

LEMMA RefFacts ==
    /\ \A k \in 1 .. MaxCommits : Sha(k) \in Refs /\ Sha(k) \in Shas
    /\ \A l \in Labels : l \in Refs
    /\ \A j, k : Sha(j) = Sha(k) => j = k
    /\ \A r \in Shas : \E k \in 1 .. MaxCommits : r = Sha(k)
BY DEF Refs, Shas, Sha

LEMMA FileFacts ==
    /\ \A b \in SignedBundle \cup Manifest : b # NoFile
    /\ Bundle \subseteq SignedBundle
<1>1. \A b \in SignedBundle \cup Manifest : "ref" \in DOMAIN b
  BY DEF SignedBundle, Manifest
<1>2. "ref" \notin DOMAIN NoFile
  BY DEF NoFile
<1> QED
  BY <1>1, <1>2 DEF Bundle, SignedBundle

(* What compilation reads of a publish.                                    *)
LEMMA CompiledFacts ==
    ASSUME NEW c, c.src \in Source, c.ref \in Refs, c.key \in OpsKeys
    PROVE  /\ Compiled(c) \in [Inputs -> Bundle \cup {NoFile}]
           /\ \A n \in Inputs :
                 Compiled(c)[n] # NoFile =>
                    /\ Compiled(c)[n] \in Bundle
                    /\ Compiled(c)[n].ref = c.ref /\ Compiled(c)[n].key = c.key
                    /\ Compiled(c)[n].content = c.src[n]
           /\ \A n \in Inputs : Compiled(c)[n] = NoFile => c.src[n] = Absent
<1> SUFFICES ASSUME NEW n \in Inputs
             PROVE  \/ c.src[n] = Absent /\ Compiled(c)[n] = NoFile
                    \/ /\ Compiled(c)[n] \in Bundle /\ Compiled(c)[n] # NoFile
                       /\ Compiled(c)[n].ref = c.ref /\ Compiled(c)[n].key = c.key
                       /\ Compiled(c)[n].content = c.src[n]
  BY DEF Compiled
<1>1. c.src[n] \in Contents \cup {Absent}
  BY DEF Source
<1>2. CASE c.src[n] = Absent
  BY <1>2 DEF Compiled
<1>3. CASE c.src[n] # Absent
  <2>1. Compiled(c)[n] = [ref |-> c.ref, content |-> c.src[n], key |-> c.key]
    BY <1>3 DEF Compiled
  <2>2. Compiled(c)[n] \in Bundle
    BY <1>1, <1>3, <2>1 DEF Bundle
  <2> QED
    BY <2>1, <2>2, FileFacts
<1> QED
  BY <1>2, <1>3

LEMMA CompiledSame ==
    ASSUME NEW c, NEW d, c.src = d.src, c.ref = d.ref, c.key = d.key
    PROVE  Compiled(c) = Compiled(d)
BY DEF Compiled

LEMMA NextArtifactFacts ==
    ASSUME NEW c, NEW i \in 1 .. 4
    PROVE  /\ NextArtifact(c, i) \in i .. 4
           /\ NextArtifact(c, i) <= 3 => Compiled(c)[Order[NextArtifact(c, i)]] # NoFile
           /\ \A k \in i .. NextArtifact(c, i) - 1 : Compiled(c)[Order[k]] = NoFile
<1> DEFINE Empty(k) == Compiled(c)[Order[k]] = NoFile
           Found(j) == /\ j > Len(Order) \/ Compiled(c)[Order[j]] # NoFile
                       /\ \A k \in i .. j - 1 : Compiled(c)[Order[k]] = NoFile
<1>1. NextArtifact(c, i) = CHOOSE j \in i .. Len(Order) + 1 : Found(j)
  BY Zenon DEF NextArtifact
<1>0. Len(Order) + 1 = 4 /\ \A j : j > Len(Order) <=> j > 3
  BY Three
<1>4. \A j : Found(j) <=> (j > 3 \/ ~Empty(j)) /\ \A k \in i .. j - 1 : Empty(k)
  BY <1>0
<1> HIDE DEF Empty, Found
<1>2. \E j \in i .. 4 : Found(j)
  <2>1. CASE \E k \in i .. 3 : ~Empty(k)
    <3>1. CASE ~Empty(i) /\ i <= 3
      BY <1>4, <3>1
    <3>2. CASE i <= 2 /\ Empty(i) /\ ~Empty(i + 1)
      <4>1. i + 1 \in i .. 4 /\ Found(i + 1)
        BY <1>4, <3>2
      <4> QED
        BY <4>1
    <3>3. CASE i = 1 /\ Empty(1) /\ Empty(2) /\ ~Empty(3)
      <4>1. 3 \in i .. 4 /\ Found(3)
        BY <1>4, <3>3
      <4> QED
        BY <4>1
    <3> QED
      BY <2>1, <3>1, <3>2, <3>3
  <2>2. CASE \A k \in i .. 3 : Empty(k)
    <3>1. 4 \in i .. 4 /\ Found(4)
      BY <1>4, <2>2
    <3> QED
      BY <3>1
  <2> QED
    BY <2>1, <2>2
<1>3. NextArtifact(c, i) \in i .. 4 /\ Found(NextArtifact(c, i))
  <2>1. \E j \in i .. Len(Order) + 1 : Found(j)
    BY <1>0, <1>2
  <2>2. NextArtifact(c, i) \in i .. Len(Order) + 1 /\ Found(NextArtifact(c, i))
    BY <1>1, <2>1, Zenon
  <2> QED
    BY <1>0, <2>2
<1> QED
  BY <1>4, <1>3 DEF Empty

-----------------------------------------------------------------------------
(***************************************************************************)
(* What a step of a publish does to the publishes in progress.             *)
(***************************************************************************)

(* Only the publish of p moves.                                            *)
OthersStay(p) ==
    /\ proc' \in [Publishers -> {Idle} \cup Job]
    /\ \A x \in Publishers \ {p} : proc'[x] = proc[x]

(* It goes on with what it read and with the version it took.              *)
GoesOn(p, pc, at) ==
    /\ OthersStay(p)
    /\ proc'[p] \in Job /\ proc'[p].pc = pc /\ proc'[p].at = at
    /\ proc'[p].src = proc[p].src /\ proc'[p].key = proc[p].key
    /\ proc'[p].ref = proc[p].ref

(* It is over, and says why.                                               *)
Over(p, outcome) ==
    /\ OthersStay(p)
    /\ proc'[p] = Idle
    /\ result' = [result EXCEPT ![p] =
          [outcome |-> outcome, ref |-> proc[p].ref, key |-> proc[p].key]]

LEMMA IdleFacts == Idle.pc = "idle" /\ \A c \in Job : c.pc # "idle"
BY DEF Idle, Job

LEMMA JobFacts ==
    ASSUME TypeOK, NEW p \in Publishers, proc[p].pc # "idle"
    PROVE  /\ proc[p] \in Job
           /\ proc[p].pc # "head" => proc[p].ref \in Refs
           /\ proc[p].src \in Source /\ proc[p].key \in OpsKeys /\ proc[p].at \in 1 .. 4
           /\ proc[p].manifest \in Manifest \cup {NoFile}
<1>1. proc[p] \in Job
  BY IdleFacts DEF TypeOK
<1>2. /\ proc[p].src \in Source /\ proc[p].key \in OpsKeys /\ proc[p].at \in 1 .. 4
      /\ proc[p].manifest \in Manifest \cup {NoFile}
  BY <1>1 DEF Job
<1> QED
  BY <1>1, <1>2 DEF TypeOK

LEMMA OverEffect ==
    ASSUME TypeOK, NEW p \in Publishers, NEW outcome, Finish(p, outcome)
    PROVE  Over(p, outcome)
BY DEF TypeOK, Finish, Over, OthersStay

LEMMA LoadEffect ==
    ASSUME TypeOK, NEW p \in Publishers, Load(p)
    PROVE  /\ OthersStay(p) /\ proc[p].pc = "idle"
           /\ \/ proc' = proc /\ result' = [result EXCEPT ![p] = [outcome |-> "Source"]]
              \/ /\ proc'[p] \in Job /\ proc'[p].src = work /\ result' = result
                 /\ \/ proc'[p].pc = "head"
                    \/ /\ proc'[p].pc = "trust"
                       /\ proc'[p].ref \in Shas => "checkout" \in count'.unseen
                       /\ proc'[p].ref \in Refs
           /\ UNCHANGED <<gitVars, distVars>>
<1>1. CASE proc' = proc
  BY <1>1 DEF Load, TypeOK, OthersStay
<1>2. CASE proc' # proc
  <2>1. PICK key \in OpsKeys, label \in Labels \cup {NoLabel} :
            /\ proc' = [proc EXCEPT ![p] =
                        [pc  |-> IF label = NoLabel THEN "head" ELSE "trust",
                         key |-> key, src |-> work, ref |-> label, at |-> 1,
                         manifest |-> NoFile]]
            /\ count' = [count EXCEPT !.publishes = @ + 1,
                  !.unseen = @ \cup (IF label \in Shas THEN {"checkout"} ELSE {})]
    BY <1>2 DEF Load
  <2>6. label \in Shas => "checkout" \in count'.unseen
    BY <2>1 DEF TypeOK
  <2>2. PICK c : c = [pc  |-> IF label = NoLabel THEN "head" ELSE "trust",
                      key |-> key, src |-> work, ref |-> label, at |-> 1,
                      manifest |-> NoFile]
    OBVIOUS
  <2>3. label \in Refs \cup {NoLabel} /\ work \in Source
    BY RefFacts DEF TypeOK
  <2>4. c \in Job /\ c.src = work /\ c.ref = label
        /\ (c.pc = "head" \/ (c.pc = "trust" /\ label \in Labels))
    BY <2>2, <2>3 DEF Job
  <2>5. proc' \in [Publishers -> {Idle} \cup Job] /\ proc'[p] = c
        /\ \A x \in Publishers \ {p} : proc'[x] = proc[x]
    BY <2>1, <2>2, <2>4 DEF TypeOK
  <2> QED
    BY <1>2, <2>3, <2>4, <2>5, <2>6, RefFacts DEF Load, OthersStay
<1> QED
  BY <1>1, <1>2

LEMMA HeadEffect ==
    ASSUME TypeOK, NEW p \in Publishers, Head_(p)
    PROVE  /\ OthersStay(p) /\ proc[p].pc = "head"
           /\ proc'[p] \in Job /\ proc'[p].pc = "check" /\ proc'[p].src = proc[p].src
           /\ proc'[p].ref = Sha(head) /\ Sha(head) \in Refs
           /\ UNCHANGED <<gitVars, distVars, result>>
<1>0. proc[p].pc = "head" /\ UNCHANGED <<gitVars, distVars, result>>
  BY DEF Head_
<1>1. proc[p] \in Job
  BY <1>0, JobFacts
<1>2. Sha(head) \in Refs
  <2>1. head \in 1 .. MaxCommits
    BY ReleaseAssumption DEF TypeOK
  <2> QED
    BY <2>1, RefFacts
<1>3. PICK c : c = [proc[p] EXCEPT !.pc = "check", !.ref = Sha(head)]
  OBVIOUS
<1>4. c \in Job /\ c.pc = "check" /\ c.ref = Sha(head) /\ c.src = proc[p].src
  BY <1>1, <1>2, <1>3 DEF Job
<1>5. proc' = [proc EXCEPT ![p] = c]
  BY <1>3 DEF Head_, TypeOK
<1> QED
  BY <1>0, <1>2, <1>4, <1>5 DEF TypeOK, OthersStay

(* A publish that keeps its version and moves on.                          *)
LEMMA GoesOnEffect ==
    ASSUME TypeOK, NEW p \in Publishers, proc[p].pc # "idle",
           NEW pc \in {"trust", "store", "write", "repoint"}, NEW at \in 1 .. 4,
           NEW m \in Manifest \cup {NoFile},
           proc' = [proc EXCEPT ![p].pc = pc, ![p].at = at, ![p].manifest = m]
    PROVE  GoesOn(p, pc, at) /\ proc'[p].manifest = m
<1>1. proc[p] \in Job
  BY JobFacts
<1>2. PICK c : c = [proc[p] EXCEPT !.pc = pc, !.at = at, !.manifest = m]
  OBVIOUS
<1>3. /\ c \in Job /\ c.pc = pc /\ c.at = at /\ c.manifest = m
      /\ c.src = proc[p].src /\ c.key = proc[p].key /\ c.ref = proc[p].ref
  BY <1>1, <1>2 DEF Job
<1>4. proc' = [proc EXCEPT ![p] = c]
  BY <1>2 DEF TypeOK
<1>5. proc \in [Publishers -> {Idle} \cup Job]
  BY DEF TypeOK
<1>6. proc'[p] = c /\ OthersStay(p)
  <2>1. c \in {Idle} \cup Job
    BY <1>3
  <2>2. proc'[p] = c /\ \A x \in Publishers \ {p} : proc'[x] = proc[x]
    BY <1>4, <1>5
  <2>3. proc' \in [Publishers -> {Idle} \cup Job]
    BY <1>4, <1>5, <2>1
  <2> QED
    BY <2>2, <2>3 DEF OthersStay
<1> QED
  BY <1>3, <1>6 DEF GoesOn

LEMMA SameCompiled ==
    ASSUME NEW p, NEW pc, NEW at, GoesOn(p, pc, at)
    PROVE  Compiled(proc'[p]) = Compiled(proc[p])
BY CompiledSame DEF GoesOn

LEMMA CheckEffect ==
    ASSUME TypeOK, NEW p \in Publishers, Check(p)
    PROVE  /\ proc[p].pc = "check" /\ UNCHANGED <<gitVars, distVars>>
           /\ \/ Over(p, "DirtyTree")
              \/ /\ ~Diverged /\ GoesOn(p, "trust", proc[p].at) /\ result' = result
                 /\ Uncompared(p) => "deployment" \in count'.unseen
<1>0. proc[p].pc = "check" /\ UNCHANGED <<gitVars, distVars>>
  BY DEF Check
<1>1. CASE Diverged
  BY <1>0, <1>1, OverEffect DEF Check
<1>2. CASE ~Diverged
  <2>1. proc[p] \in Job /\ proc[p].at \in 1 .. 4
        /\ proc[p].manifest \in Manifest \cup {NoFile}
    BY <1>0, JobFacts
  <2>2. proc' = [proc EXCEPT ![p].pc = "trust", ![p].at = proc[p].at,
                             ![p].manifest = proc[p].manifest]
    BY <1>2, <2>1 DEF Check, TypeOK, Job
  <2>3. Uncompared(p) => "deployment" \in count'.unseen
    BY <1>2 DEF Check, TypeOK
  <2> QED
    BY <1>0, <1>2, <2>1, <2>2, <2>3, GoesOnEffect DEF Check
<1> QED
  BY <1>1, <1>2

LEMMA TrustEffect ==
    ASSUME TypeOK, NEW p \in Publishers, Trust(p)
    PROVE  /\ proc[p].pc = "trust"
           /\ UNCHANGED <<gitVars, rel, cur, between, served, forged>>
           /\ \/ Over(p, "KeyConflict") /\ trusted' = trusted
              \/ /\ GoesOn(p, "store", NextArtifact(proc[p], 1)) /\ result' = result
                 /\ trusted' = trusted \cup {proc[p].key}
<1>0. proc[p].pc = "trust" /\ UNCHANGED <<gitVars, rel, cur, between, served, forged>>
  BY DEF Trust
<1>1. CASE \E k \in trusted : k.id = proc[p].key.id /\ k # proc[p].key
  BY <1>0, <1>1, OverEffect DEF Trust
<1>2. CASE ~\E k \in trusted : k.id = proc[p].key.id /\ k # proc[p].key
  <2>1. proc[p] \in Job /\ proc[p].manifest \in Manifest \cup {NoFile}
    BY <1>0, JobFacts
  <2>2. PICK i : i = NextArtifact(proc[p], 1)
    OBVIOUS
  <2>3. i \in 1 .. 4
    BY <2>2, NextArtifactFacts
  <2>4. proc' = [proc EXCEPT ![p].pc = "store", ![p].at = i,
                             ![p].manifest = proc[p].manifest]
    <3>1. proc' = [proc EXCEPT ![p].pc = "store", ![p].at = i]
      BY <1>2, <2>2 DEF Trust
    <3> QED
      BY <2>1, <3>1 DEF TypeOK, Job
  <2> QED
    BY <1>0, <1>2, <2>1, <2>2, <2>3, <2>4, GoesOnEffect DEF Trust
<1> QED
  BY <1>1, <1>2

(* A publish that stores or repoints stands at an artifact that exists, or *)
(* at the end of the list, and its key is in trusted-keys.json.            *)
Pointing ==
    \A p \in Publishers :
        proc[p].pc \in {"store", "write", "repoint"} =>
            /\ proc[p].pc = "write" => proc[p].at <= 3
            /\ proc[p].at <= 3 => Compiled(proc[p])[Order[proc[p].at]] # NoFile
            /\ proc[p].key \in trusted

(* The artifact a publish stands at, as it will be stored or served.       *)
LEMMA Pointed ==
    ASSUME TypeOK, Pointing, NEW p \in Publishers,
           proc[p].pc \in {"store", "write", "repoint"}, proc[p].at \in 1 .. 3
    PROVE  LET n == Order[proc[p].at]
               b == Compiled(proc[p])[n]
           IN  /\ n \in Inputs /\ b \in Bundle /\ b # NoFile
               /\ b.ref = proc[p].ref /\ b.key = proc[p].key /\ b.content = proc[p].src[n]
               /\ proc[p].ref \in Refs /\ proc[p].key \in OpsKeys
<1>1. /\ proc[p].ref \in Refs /\ proc[p].src \in Source /\ proc[p].key \in OpsKeys
      /\ Order[proc[p].at] \in Inputs
  BY JobFacts, Three
<1>2. Compiled(proc[p])[Order[proc[p].at]] # NoFile
  BY DEF Pointing
<1> QED
  BY <1>1, <1>2, CompiledFacts

LEMMA CompareEffect ==
    ASSUME TypeOK, NEW p \in Publishers, CompareArtifact(p)
    PROVE  LET n == Order[proc[p].at]
               there == rel[proc[p].ref][n] IN
           /\ proc[p].pc = "store" /\ proc[p].at \in 1 .. 3
           /\ UNCHANGED <<gitVars, distVars>>
           /\ \/ /\ Over(p, "VersionConflict")
                 /\ there \notin {NoFile, Compiled(proc[p])[n]}
              \/ /\ GoesOn(p, "store", NextArtifact(proc[p], proc[p].at + 1))
                 /\ result' = result /\ there = Compiled(proc[p])[n]
              \/ /\ GoesOn(p, "write", proc[p].at)
                 /\ result' = result /\ there = NoFile
<1>0. proc[p].pc = "store" /\ UNCHANGED <<gitVars, distVars>>
  BY DEF CompareArtifact
<1>1. /\ proc[p] \in Job /\ proc[p].manifest \in Manifest \cup {NoFile}
      /\ proc[p].at \in 1 .. 3
  BY <1>0, JobFacts, Three DEF CompareArtifact
<1>2. PICK b, there : /\ b = Compiled(proc[p])[Order[proc[p].at]]
                      /\ there = rel[proc[p].ref][Order[proc[p].at]]
  OBVIOUS
<1>3. CASE there \notin {NoFile, b} /\ Finish(p, "VersionConflict")
  BY <1>0, <1>1, <1>2, <1>3, OverEffect
<1>4. CASE /\ there = b /\ result' = result
           /\ proc' = [proc EXCEPT ![p].at = NextArtifact(proc[p], proc[p].at + 1)]
  <2>2. PICK i : i = NextArtifact(proc[p], proc[p].at + 1)
    OBVIOUS
  <2>3. i \in 1 .. 4
    <3>1. proc[p].at + 1 \in 1 .. 4
      BY <1>1
    <3> QED
      BY <1>1, <2>2, <3>1, NextArtifactFacts
  <2>4. proc' = [proc EXCEPT ![p].pc = "store", ![p].at = i,
                             ![p].manifest = proc[p].manifest]
    <3>1. proc' = [proc EXCEPT ![p].at = i]
      BY <1>4, <2>2
    <3> QED
      BY <1>0, <1>1, <3>1 DEF TypeOK, Job
  <2>5. GoesOn(p, "store", i)
    BY <1>0, <1>1, <2>3, <2>4, GoesOnEffect
  <2> QED
    BY <1>0, <1>1, <1>2, <1>4, <2>2, <2>5
<1>5. CASE there = NoFile /\ result' = result /\ proc' = [proc EXCEPT ![p].pc = "write"]
  <2>1. proc' = [proc EXCEPT ![p].pc = "write", ![p].at = proc[p].at,
                             ![p].manifest = proc[p].manifest]
    BY <1>0, <1>1, <1>5 DEF TypeOK, Job
  <2>2. GoesOn(p, "write", proc[p].at)
    <3>1. PICK at, m : at = proc[p].at /\ m = proc[p].manifest
      OBVIOUS
    <3>2. proc' = [proc EXCEPT ![p].pc = "write", ![p].at = at, ![p].manifest = m]
      BY <2>1, <3>1
    <3>3. at \in 1 .. 4 /\ m \in Manifest \cup {NoFile} /\ proc[p].pc # "idle"
      BY <1>0, <1>1, <3>1
    <3>4. GoesOn(p, "write", at)
      BY <3>2, <3>3, GoesOnEffect
    <3> QED
      BY <3>1, <3>4
  <2> QED
    BY <1>0, <1>1, <1>2, <1>5, <2>2
<1> QED
  BY <1>2, <1>3, <1>4, <1>5 DEF CompareArtifact

LEMMA WriteEffect ==
    ASSUME TypeOK, Pointing, NEW p \in Publishers, WriteArtifact(p)
    PROVE  /\ proc[p].pc = "write" /\ proc[p].at \in 1 .. 3
           /\ UNCHANGED <<gitVars, result, trusted, cur, between, served, forged>>
           /\ GoesOn(p, "store", NextArtifact(proc[p], proc[p].at + 1))
           /\ rel' = [rel EXCEPT ![proc[p].ref][Order[proc[p].at]] =
                          Compiled(proc[p])[Order[proc[p].at]]]
<1>0. /\ proc[p].pc = "write"
      /\ UNCHANGED <<gitVars, result, trusted, cur, between, served, forged>>
      /\ rel' = [rel EXCEPT ![proc[p].ref][Order[proc[p].at]] =
                     Compiled(proc[p])[Order[proc[p].at]]]
  BY DEF WriteArtifact
<1>1. /\ proc[p] \in Job /\ proc[p].manifest \in Manifest \cup {NoFile}
      /\ proc[p].at \in 1 .. 3
  <2>1. proc[p].at <= 3
    BY <1>0 DEF Pointing
  <2> QED
    BY <1>0, <2>1, JobFacts
<1>2. PICK i : i = NextArtifact(proc[p], proc[p].at + 1)
  OBVIOUS
<1>3. i \in 1 .. 4
  <2>1. proc[p].at + 1 \in 1 .. 4
    BY <1>1
  <2> QED
    BY <1>1, <1>2, <2>1, NextArtifactFacts
<1>4. proc' = [proc EXCEPT ![p].pc = "store", ![p].at = i,
                           ![p].manifest = proc[p].manifest]
  <2>1. proc' = [proc EXCEPT ![p].pc = "store", ![p].at = i]
    BY <1>2 DEF WriteArtifact
  <2> QED
    BY <1>0, <1>1, <2>1 DEF TypeOK, Job
<1>5. GoesOn(p, "store", i)
  BY <1>0, <1>1, <1>3, <1>4, GoesOnEffect
<1> QED
  BY <1>0, <1>1, <1>2, <1>5

(* The manifest a publish goes on with: of its artifacts, and trusted.     *)
LEMMA ManifestEffect ==
    ASSUME TypeOK, NEW p \in Publishers, StoreManifest(p)
    PROVE  /\ proc[p].pc = "store" /\ proc[p].at = 4
           /\ UNCHANGED <<gitVars, result, trusted, cur, between, served, forged>>
           /\ GoesOn(p, "repoint", NextArtifact(proc[p], 1))
           /\ proc'[p].manifest \in Manifest
           /\ proc[p].key \in trusted => proc'[p].manifest.key \in trusted
           /\ proc'[p].manifest.arts = Compiled(proc[p])
           /\ \/ rel' = rel
              \/ rel' = [rel EXCEPT ![proc[p].ref]["manifest"] = proc'[p].manifest]
<1>0. /\ proc[p].pc = "store"
      /\ UNCHANGED <<gitVars, result, trusted, cur, between, served, forged>>
  BY DEF StoreManifest
<1>1. /\ proc[p] \in Job /\ proc[p].at = 4 /\ proc[p].ref \in Refs
      /\ proc[p].src \in Source /\ proc[p].key \in OpsKeys
  BY <1>0, JobFacts, Three DEF StoreManifest
<1>2. PICK i : i = NextArtifact(proc[p], 1)
  OBVIOUS
<1>3. i \in 1 .. 4
  BY <1>2, NextArtifactFacts
<1>4. PICK fresh : fresh = [ref |-> proc[p].ref, key |-> proc[p].key, arts |-> Compiled(proc[p])]
  OBVIOUS
<1>5. fresh \in Manifest /\ fresh.key = proc[p].key /\ fresh.arts = Compiled(proc[p])
  <2>1. Compiled(proc[p]) \in [Inputs -> Bundle \cup {NoFile}]
    BY <1>1, CompiledFacts
  <2> QED
    BY <1>1, <1>4, <2>1 DEF Manifest
<1>6. PICK there : there = rel[proc[p].ref]["manifest"]
  OBVIOUS
<1>7. there \in Manifest \cup {NoFile}
  BY <1>1, <1>6 DEF TypeOK
<1>8. CASE MatchingManifest(proc[p], there)
  <2>1. there \in Manifest /\ there.key \in trusted /\ there.arts = Compiled(proc[p])
    BY <1>7, <1>8 DEF MatchingManifest
  <2>2. rel' = rel /\ proc' = [proc EXCEPT ![p].pc = "repoint", ![p].at = i,
                                           ![p].manifest = there]
    BY <1>2, <1>6, <1>8 DEF StoreManifest
  <2>3. GoesOn(p, "repoint", i) /\ proc'[p].manifest = there
    BY <1>0, <1>3, <2>1, <2>2, GoesOnEffect
  <2> QED
    BY <1>0, <1>1, <1>2, <2>1, <2>2, <2>3
<1>9. CASE ~MatchingManifest(proc[p], there)
  <2>1. /\ rel' = [rel EXCEPT ![proc[p].ref]["manifest"] = fresh]
        /\ proc' = [proc EXCEPT ![p].pc = "repoint", ![p].at = i, ![p].manifest = fresh]
    BY <1>2, <1>4, <1>6, <1>9 DEF StoreManifest
  <2>2. GoesOn(p, "repoint", i) /\ proc'[p].manifest = fresh
    BY <1>0, <1>3, <1>5, <2>1, GoesOnEffect
  <2> QED
    BY <1>0, <1>1, <1>2, <1>5, <2>1, <2>2
<1> QED
  BY <1>8, <1>9

LEMMA RepointEffect ==
    ASSUME TypeOK, NEW p \in Publishers, Repoint(p)
    PROVE  /\ proc[p].pc = "repoint" /\ proc[p].at \in 1 .. 3
           /\ UNCHANGED <<gitVars, result, trusted, rel, forged>>
           /\ GoesOn(p, "repoint", NextArtifact(proc[p], proc[p].at + 1))
           /\ proc'[p].manifest = proc[p].manifest
           /\ cur' = [cur EXCEPT ![Order[proc[p].at]] = Compiled(proc[p])[Order[proc[p].at]]]
           /\ served' = served \cup {<<Order[proc[p].at], Compiled(proc[p])[Order[proc[p].at]]>>}
           /\ between' = TRUE
<1>0. /\ proc[p].pc = "repoint" /\ UNCHANGED <<gitVars, result, trusted, rel, forged>>
      /\ cur' = [cur EXCEPT ![Order[proc[p].at]] = Compiled(proc[p])[Order[proc[p].at]]]
      /\ served' = served \cup {<<Order[proc[p].at], Compiled(proc[p])[Order[proc[p].at]]>>}
      /\ between' = TRUE
  BY DEF Repoint
<1>1. /\ proc[p] \in Job /\ proc[p].manifest \in Manifest \cup {NoFile}
      /\ proc[p].at \in 1 .. 3
  BY <1>0, JobFacts, Three DEF Repoint
<1>2. PICK i : i = NextArtifact(proc[p], proc[p].at + 1)
  OBVIOUS
<1>3. i \in 1 .. 4
  <2>1. proc[p].at + 1 \in 1 .. 4
    BY <1>1
  <2> QED
    BY <1>1, <1>2, <2>1, NextArtifactFacts
<1>4. proc' = [proc EXCEPT ![p].pc = "repoint", ![p].at = i,
                           ![p].manifest = proc[p].manifest]
  <2>1. proc' = [proc EXCEPT ![p].at = i]
    BY <1>2 DEF Repoint
  <2> QED
    BY <1>0, <1>1, <2>1, ZenonT(60) DEF TypeOK, Job
<1>5. GoesOn(p, "repoint", i) /\ proc'[p].manifest = proc[p].manifest
  BY <1>0, <1>1, <1>3, <1>4, GoesOnEffect
<1> QED
  BY <1>0, <1>1, <1>2, <1>5

LEMMA RepointManifestEffect ==
    ASSUME TypeOK, NEW p \in Publishers, RepointManifest(p)
    PROVE  /\ proc[p].pc = "repoint" /\ proc[p].at = 4
           /\ UNCHANGED <<gitVars, trusted, rel, served, forged>>
           /\ Over(p, "published") /\ between' = FALSE
           /\ cur' = [cur EXCEPT !["manifest"] = proc[p].manifest]
<1>1. proc[p].pc = "repoint"
  BY DEF RepointManifest
<1>2. proc[p].at = 4
  BY <1>1, JobFacts, Three DEF RepointManifest
<1> QED
  BY <1>1, <1>2, OverEffect DEF RepointManifest

LEMMA CrashEffect ==
    ASSUME TypeOK, NEW p \in Publishers, Crash(p)
    PROVE  /\ proc[p].pc \in {"store", "write", "repoint"} /\ UNCHANGED <<gitVars, distVars>>
           /\ Over(p, "crashed")
BY OverEffect DEF Crash

-----------------------------------------------------------------------------
(***************************************************************************)
(* The types.                                                              *)
(***************************************************************************)

GitOK ==
    /\ work \in Source /\ index \in [Inputs -> IndexEntry]
    /\ tree \in {"valid", "invalid", "none"}
    /\ commits \in Seq(Source) /\ Len(commits) \in 1 .. MaxCommits
    /\ head \in 1 .. Len(commits)

ProcOK ==
    /\ proc \in [Publishers -> {Idle} \cup Job]
    /\ \A p \in Publishers : proc[p].pc \notin {"idle", "head"} => proc[p].ref \in Refs
    /\ result \in [Publishers -> Result]

RelOK ==
    /\ rel \in [Refs -> [FileName -> SignedBundle \cup Manifest \cup {NoFile}]]
    /\ \A r \in Refs :
          /\ \A n \in Inputs : rel[r][n] \in SignedBundle \cup {NoFile}
          /\ rel[r]["manifest"] \in Manifest \cup {NoFile}

CurOK ==
    /\ cur \in [FileName -> Bundle \cup Manifest \cup {NoFile}]
    /\ \A n \in Inputs : cur[n] \in Bundle \cup {NoFile}
    /\ cur["manifest"] \in Manifest \cup {NoFile}

RestOK ==
    /\ trusted \subseteq OpsKeys
    /\ between \in BOOLEAN
    /\ served \subseteq Inputs \X Bundle
    /\ forged \subseteq Refs

CountOK ==
    count \in [edits : Nat, publishes : Nat, crashes : Nat,
               unseen : SUBSET {"checkout", "deployment"}]

LEMMA TypeParts == TypeOK <=> GitOK /\ ProcOK /\ RelOK /\ CurOK /\ RestOK /\ CountOK
BY DEF TypeOK, GitOK, ProcOK, RelOK, CurOK, RestOK, CountOK

LEMMA InputFacts == /\ Inputs \subseteq FileName /\ "manifest" \in FileName
                    /\ "manifest" \notin Inputs /\ Compared \subseteq Inputs
                    /\ \A n \in Inputs : n \in Compared \/ n = "deployment"
BY DEF Inputs, FileName, Compared

LEMMA InitTypes == Init => TypeOK
<1> SUFFICES ASSUME Init PROVE TypeOK
  OBVIOUS
<1>1. PICK c \in Contents \ Broken : commits = <<[f \in Inputs |-> c]>>
  BY ReleaseAssumption, Zenon DEF Init
<1>2. [f \in Inputs |-> c] \in Source
  BY DEF Source
<1>3. GitOK
  <2>1. /\ commits \in Seq(Source) /\ Len(commits) = 1
        /\ commits[1] \in Source /\ commits[1] = [f \in Inputs |-> c]
    BY <1>1, <1>2
  <2>2. index \in [Inputs -> IndexEntry]
    <3>1. \A f \in Inputs : Tracked(work[f]) \in IndexEntry
      BY <2>1 DEF Init, Tracked, IndexEntry
    <3> QED
      BY <3>1 DEF Init
  <2>3. Len(commits) \in 1 .. MaxCommits /\ head \in 1 .. Len(commits)
    BY <2>1, ReleaseAssumption DEF Init
  <2>4. work \in Source /\ tree = "valid"
    BY <2>1 DEF Init
  <2> QED
    BY <2>1, <2>2, <2>3, <2>4 DEF GitOK
<1>4. ProcOK
  <2>1. [outcome |-> "none"] \in Result
    BY DEF Result
  <2> QED
    BY <2>1, IdleFacts DEF Init, ProcOK
<1>5. RelOK /\ CurOK
  BY InputFacts DEF Init, RelOK, CurOK, FileName
<1>6. RestOK /\ CountOK
  BY DEF Init, RestOK, CountOK
<1> QED
  BY <1>3, <1>4, <1>5, <1>6, TypeParts

LEMMA GitStep == ASSUME TypeOK, [Next]_vars PROVE GitOK'
<1>1. /\ work \in Source /\ index \in [Inputs -> IndexEntry]
      /\ tree \in {"valid", "invalid", "none"}
      /\ commits \in Seq(Source) /\ Len(commits) \in 1 .. MaxCommits
      /\ head \in 1 .. Len(commits)
  BY DEF TypeOK
<1>2. Authored \subseteq Inputs /\ Flags \subseteq AllFlags /\ MaxCommits \in Nat
  BY ReleaseAssumption
<1>3. \A c \in Contents \cup {Absent} : Tracked(c) \in IndexEntry
  BY DEF Tracked, IndexEntry
<1>4. CASE Edit
  <2>1. PICK f \in Authored, c \in Contents \cup {Absent} : work' = [work EXCEPT ![f] = c]
    BY <1>4 DEF Edit
  <2>2. work' \in Source
    BY <1>1, <2>1 DEF Source
  <2> QED
    BY <1>1, <1>4, <2>2 DEF Edit, GitOK
<1>5. CASE Stage
  <2>1. PICK f \in Authored : index' = [index EXCEPT ![f] = Tracked(work[f])]
    BY <1>5 DEF Stage
  <2>2. Tracked(work[f]) \in IndexEntry
    BY <1>1, <1>2, <1>3 DEF Source
  <2>3. index' \in [Inputs -> IndexEntry]
    BY <1>1, <2>1, <2>2
  <2> QED
    BY <1>1, <1>5, <2>3 DEF Stage, GitOK
<1>6. CASE Mark
  <2>1. PICK f \in Authored, e \in OddEntries : index' = [index EXCEPT ![f] = e]
    BY <1>6 DEF Mark
  <2>2. e \in IndexEntry
    BY <1>2 DEF OddEntries, IndexEntry
  <2>3. index' \in [Inputs -> IndexEntry]
    BY <1>1, <2>1, <2>2
  <2> QED
    BY <1>1, <1>6, <2>3 DEF Mark, GitOK
<1>7. CASE Commit
  <2>1. PICK t : t = [f \in Inputs |-> index[f].blob]
    OBVIOUS
  <2>2. t \in Source
    BY <1>1, <2>1 DEF Source, IndexEntry
  <2>3. commits' = Append(commits, t) /\ head' = Len(commits) + 1
        /\ Len(commits) < MaxCommits /\ tree' = "valid" /\ UNCHANGED <<work, index>>
    BY <1>7, <2>1 DEF Commit
  <2>4. commits' \in Seq(Source) /\ Len(commits') = Len(commits) + 1
    BY <1>1, <2>2, <2>3
  <2>5. Len(commits') \in 1 .. MaxCommits /\ head' \in 1 .. Len(commits')
    BY <1>1, <1>2, <2>3, <2>4
  <2> QED
    BY <1>1, <2>3, <2>4, <2>5 DEF GitOK
<1>8. CASE Checkout
  <2>1. PICK k \in 1 .. Len(commits) :
            /\ head' = k
            /\ work' = [f \in Inputs |->
                  IF index[f] = Tracked(Absent) /\ commits[k][f] = Absent
                  THEN work[f] ELSE commits[k][f]]
            /\ index' = [f \in Inputs |-> Tracked(commits[k][f])]
    BY <1>8 DEF Checkout
  <2>2. commits[k] \in Source
    BY <1>1
  <2>3. \A f \in Inputs : commits[k][f] \in Contents \cup {Absent}
                          /\ work[f] \in Contents \cup {Absent}
    BY <1>1, <2>2 DEF Source
  <2>4. work' \in Source
    BY <2>1, <2>3 DEF Source
  <2>5. index' \in [Inputs -> IndexEntry]
    BY <1>3, <2>1, <2>3
  <2> QED
    BY <1>1, <1>8, <2>1, <2>4, <2>5 DEF Checkout, GitOK
<1>9. CASE UNCHANGED gitVars
  BY <1>1, <1>9 DEF gitVars, GitOK
<1>10. ASSUME NEW p \in Publishers, Publish(p) \/ Crash(p) PROVE UNCHANGED gitVars
  BY <1>10 DEF Publish, Load, Head_, Check, Trust, CompareArtifact, WriteArtifact,
              StoreManifest, Repoint, RepointManifest, Crash
<1>11. CASE Tamper \/ UNCHANGED vars
  BY <1>9, <1>11 DEF Tamper, vars, gitVars
<1>12. CASE ResetSoft \/ DropCacheTree
  BY <1>1, <1>12 DEF ResetSoft, DropCacheTree, GitOK
<1> QED
  BY <1>4, <1>5, <1>6, <1>7, <1>8, <1>9, <1>10, <1>11, <1>12 DEF Next

(* Steps of the author leave the rest.                                     *)
LEMMA AuthorFrame ==
    ASSUME Edit \/ Stage \/ Mark \/ Commit \/ Checkout \/ ResetSoft \/ DropCacheTree
    PROVE  TreeIsFree /\ UNCHANGED <<proc, result, distVars>>
BY DEF Edit, Stage, Mark, Commit, Checkout, ResetSoft, DropCacheTree, Editing, Author

LEMMA MovedType ==
    ASSUME TypeOK, NEW p \in Publishers, OthersStay(p),
           proc'[p].pc \in {"idle", "head"} \/ proc'[p].ref \in Refs,
           result' \in [Publishers -> Result]
    PROVE  ProcOK'
BY DEF TypeOK, ProcOK, OthersStay

LEMMA OverType ==
    ASSUME TypeOK, NEW p \in Publishers, proc[p].pc \notin {"idle", "head"},
           NEW o \in {"DirtyTree", "KeyConflict", "VersionConflict", "published", "crashed"},
           Over(p, o)
    PROVE  ProcOK'
<1>1. proc[p].ref \in Refs /\ proc[p].key \in OpsKeys
  BY JobFacts
<1>2. PICK r : r = [outcome |-> o, ref |-> proc[p].ref, key |-> proc[p].key]
  OBVIOUS
<1>3. r \in Result
  BY <1>1, <1>2 DEF Result
<1>4. result' \in [Publishers -> Result]
  BY <1>2, <1>3 DEF TypeOK, Over
<1> QED
  BY <1>4, MovedType, IdleFacts DEF Over

LEMMA GoesOnType ==
    ASSUME TypeOK, NEW p \in Publishers, proc[p].pc \notin {"idle", "head"},
           NEW pc, NEW at, GoesOn(p, pc, at), result' = result
    PROVE  ProcOK'
<1>1. proc[p].ref \in Refs
  BY JobFacts
<1> QED
  BY <1>1, MovedType DEF GoesOn, TypeOK

LEMMA ProcStep == ASSUME TypeOK, Pointing, [Next]_vars PROVE ProcOK'
<1>1. ASSUME NEW p \in Publishers, Load(p) PROVE ProcOK'
  <2>1. CASE proc' = proc /\ result' = [result EXCEPT ![p] = [outcome |-> "Source"]]
    <3>1. [outcome |-> "Source"] \in Result
      BY DEF Result
    <3>2. result' \in [Publishers -> Result]
      BY <2>1, <3>1 DEF TypeOK
    <3> QED
      BY <2>1, <3>2 DEF TypeOK, ProcOK
  <2>2. CASE /\ OthersStay(p) /\ result' = result
             /\ proc'[p].pc = "head" \/ proc'[p].ref \in Refs
    BY <2>2, MovedType DEF TypeOK
  <2> QED
    BY <1>1, <2>1, <2>2, LoadEffect, RefFacts
<1>2. ASSUME NEW p \in Publishers, Head_(p) PROVE ProcOK'
  <2>1. OthersStay(p) /\ proc'[p].ref \in Refs /\ result' = result
    BY <1>2, HeadEffect
  <2> QED
    BY <2>1, MovedType DEF TypeOK
<1>3. ASSUME NEW p \in Publishers, Check(p) PROVE ProcOK'
  <2>1. proc[p].pc \notin {"idle", "head"}
    BY <1>3, CheckEffect
  <2>2. Over(p, "DirtyTree") \/ (GoesOn(p, "trust", proc[p].at) /\ result' = result)
    BY <1>3, CheckEffect
  <2> QED
    BY <2>1, <2>2, OverType, GoesOnType
<1>4. ASSUME NEW p \in Publishers, Trust(p) PROVE ProcOK'
  <2>1. proc[p].pc \notin {"idle", "head"}
    BY <1>4, TrustEffect
  <2>2. \/ Over(p, "KeyConflict")
        \/ GoesOn(p, "store", NextArtifact(proc[p], 1)) /\ result' = result
    BY <1>4, TrustEffect
  <2> QED
    BY <2>1, <2>2, OverType, GoesOnType
<1>5. ASSUME NEW p \in Publishers, CompareArtifact(p) \/ WriteArtifact(p) PROVE ProcOK'
  <2>1. proc[p].pc \notin {"idle", "head"}
    BY <1>5, CompareEffect, WriteEffect
  <2>2. \/ Over(p, "VersionConflict")
        \/ GoesOn(p, "store", NextArtifact(proc[p], proc[p].at + 1)) /\ result' = result
        \/ GoesOn(p, "write", proc[p].at) /\ result' = result
    BY <1>5, CompareEffect, WriteEffect
  <2> QED
    BY <2>1, <2>2, OverType, GoesOnType
<1>6. ASSUME NEW p \in Publishers, StoreManifest(p) PROVE ProcOK'
  <2>1. proc[p].pc \notin {"idle", "head"} /\ result' = result
        /\ GoesOn(p, "repoint", NextArtifact(proc[p], 1))
    BY <1>6, ManifestEffect
  <2> QED
    BY <2>1, GoesOnType
<1>7. ASSUME NEW p \in Publishers, Repoint(p) PROVE ProcOK'
  <2>1. proc[p].pc \notin {"idle", "head"} /\ result' = result
        /\ GoesOn(p, "repoint", NextArtifact(proc[p], proc[p].at + 1))
    BY <1>7, RepointEffect
  <2> QED
    BY <2>1, GoesOnType
<1>8. ASSUME NEW p \in Publishers, RepointManifest(p) \/ Crash(p) PROVE ProcOK'
  <2>1. proc[p].pc \notin {"idle", "head"} /\ (Over(p, "published") \/ Over(p, "crashed"))
    BY <1>8, RepointManifestEffect, CrashEffect
  <2> QED
    BY <2>1, OverType
<1>9. CASE \/ Edit \/ Stage \/ Mark \/ Commit \/ Checkout \/ ResetSoft
           \/ DropCacheTree \/ Tamper \/ UNCHANGED vars
  <2>1. proc' = proc /\ result' = result
    BY <1>9, AuthorFrame DEF Tamper, vars
  <2> QED
    BY <2>1 DEF TypeOK, ProcOK
<1> QED
  BY <1>1, <1>2, <1>3, <1>4, <1>5, <1>6, <1>7, <1>8, <1>9 DEF Next, Publish

(* What a step does to the files of a release, file by file.               *)
Writes(r, n, b) == rel' = [rel EXCEPT ![r][n] = b]

LEMMA RelFiles ==
    ASSUME TypeOK, NEW r \in Refs, NEW n, NEW b,
           (n \in Inputs /\ b \in SignedBundle) \/ (n = "manifest" /\ b \in Manifest),
           Writes(r, n, b)
    PROVE  /\ RelOK'
           /\ rel'[r][n] = b
           /\ \A q \in Refs, m \in FileName :
                 ~(q = r /\ m = n) => rel'[q][m] = rel[q][m]
<1>1. /\ rel \in [Refs -> [FileName -> SignedBundle \cup Manifest \cup {NoFile}]]
      /\ n \in FileName /\ b \in SignedBundle \cup Manifest \cup {NoFile}
  BY InputFacts DEF TypeOK
<1>2. \A q \in Refs :
          rel'[q] = IF q = r THEN [rel[r] EXCEPT ![n] = b] ELSE rel[q]
  BY <1>1 DEF Writes
<1>3. \A q \in Refs : rel'[q] \in [FileName -> SignedBundle \cup Manifest \cup {NoFile}]
  BY <1>1, <1>2
<1>4. rel' \in [Refs -> [FileName -> SignedBundle \cup Manifest \cup {NoFile}]]
  BY <1>1, <1>3 DEF Writes
<1>5. /\ rel'[r][n] = b
      /\ \A q \in Refs, m \in FileName : ~(q = r /\ m = n) => rel'[q][m] = rel[q][m]
  BY <1>1, <1>2
<1>6. \A q \in Refs :
          /\ \A m \in Inputs : rel'[q][m] \in SignedBundle \cup {NoFile}
          /\ rel'[q]["manifest"] \in Manifest \cup {NoFile}
  <2>1. RelOK
    BY TypeParts
  <2> QED
    BY <1>5, <2>1, InputFacts DEF RelOK
<1> QED
  BY <1>4, <1>5, <1>6 DEF RelOK

(* A file of a release is what a publish wrote, but for its signature once *)
(* somebody tampered with it.                                              *)
LEMMA RelStep ==
    ASSUME TypeOK, Pointing, [Next]_vars
    PROVE  /\ RelOK'
           /\ forged \subseteq forged'
           /\ \A r \in Refs, n \in Inputs :
                 rel'[r][n] # rel[r][n] =>
                    \/ \E p \in Publishers :
                          /\ WriteArtifact(p) /\ r = proc[p].ref /\ n = Order[proc[p].at]
                          /\ rel'[r][n] = Compiled(proc[p])[n]
                    \/ /\ Tamper /\ r \in forged' /\ rel[r][n] # NoFile
                       /\ rel'[r][n] = [rel[r][n] EXCEPT !.key = Forger]
<1>0. RelOK
  BY DEF TypeOK, RelOK
<1>1. CASE rel' = rel /\ forged' = forged
  BY <1>0, <1>1 DEF RelOK
<1>2. ASSUME NEW p \in Publishers, WriteArtifact(p), rel' # rel
      PROVE  /\ RelOK' /\ forged' = forged
             /\ \A r \in Refs, n \in Inputs :
                   rel'[r][n] # rel[r][n] =>
                       /\ r = proc[p].ref /\ n = Order[proc[p].at]
                       /\ rel'[r][n] = Compiled(proc[p])[n]
  <2>1. PICK b : b = Compiled(proc[p])[Order[proc[p].at]]
    OBVIOUS
  <2>2. /\ proc[p].pc = "write" /\ proc[p].at \in 1 .. 3 /\ forged' = forged
        /\ Writes(proc[p].ref, Order[proc[p].at], b)
    BY <1>2, <2>1, WriteEffect DEF Writes
  <2>3. /\ proc[p].ref \in Refs /\ Order[proc[p].at] \in Inputs
    BY <2>2, JobFacts, Three
  <2>5. b \in SignedBundle
    BY <2>1, <2>2, Pointed, FileFacts
  <2>6. /\ RelOK' /\ rel'[proc[p].ref][Order[proc[p].at]] = b
        /\ \A q \in Refs, m \in FileName :
              ~(q = proc[p].ref /\ m = Order[proc[p].at]) => rel'[q][m] = rel[q][m]
    BY <2>2, <2>3, <2>5, RelFiles
  <2> QED
    BY <2>1, <2>2, <2>3, <2>6, InputFacts
<1>3. ASSUME NEW p \in Publishers, StoreManifest(p), rel' # rel
      PROVE  /\ RelOK' /\ forged' = forged
             /\ \A r \in Refs, n \in Inputs : rel'[r][n] = rel[r][n]
  <2>1. PICK b : b = proc'[p].manifest
    OBVIOUS
  <2>2. /\ proc[p].pc = "store" /\ b \in Manifest /\ forged' = forged
        /\ Writes(proc[p].ref, "manifest", b)
    BY <1>3, <2>1, ManifestEffect DEF Writes
  <2>3. proc[p].ref \in Refs
    BY <2>2, JobFacts
  <2>4. /\ RelOK'
        /\ \A q \in Refs, m \in FileName :
              ~(q = proc[p].ref /\ m = "manifest") => rel'[q][m] = rel[q][m]
    BY <2>2, <2>3, RelFiles
  <2> QED
    BY <2>2, <2>4, InputFacts
<1>4. ASSUME Tamper
      PROVE  /\ RelOK' /\ forged \subseteq forged'
             /\ \A r \in Refs, n \in Inputs :
                   rel'[r][n] # rel[r][n] =>
                       /\ r \in forged' /\ rel[r][n] # NoFile
                       /\ rel'[r][n] = [rel[r][n] EXCEPT !.key = Forger]
  <2>1. PICK r \in Refs, n \in FileName :
            /\ rel[r][n] # NoFile
            /\ Writes(r, n, [rel[r][n] EXCEPT !.key = Forger])
            /\ forged' = forged \cup {r}
    <3>1. PICK r \in Refs \ forged, n \in FileName :
              /\ rel[r][n] # NoFile
              /\ rel' = [rel EXCEPT ![r][n] = [@ EXCEPT !.key = Forger]]
              /\ forged' = forged \cup {r}
      BY <1>4 DEF Tamper, FileName
    <3>2. rel' = [rel EXCEPT ![r][n] = [rel[r][n] EXCEPT !.key = Forger]]
      BY <3>1 DEF TypeOK
    <3> QED
      BY <3>1, <3>2 DEF Writes
  <2>2. PICK b : b = [rel[r][n] EXCEPT !.key = Forger]
    OBVIOUS
  <2>3. CASE n \in Inputs
    <3>1. rel[r][n] \in SignedBundle
      BY <2>1, <2>3 DEF TypeOK
    <3>2. b \in SignedBundle
      BY <2>2, <3>1 DEF SignedBundle
    <3>3. /\ RelOK' /\ rel'[r][n] = b
          /\ \A q \in Refs, m \in FileName : ~(q = r /\ m = n) => rel'[q][m] = rel[q][m]
      BY <2>1, <2>2, <2>3, <3>2, RelFiles
    <3> QED
      BY <2>1, <2>2, <3>3, InputFacts
  <2>4. CASE n = "manifest"
    <3>1. rel[r][n] \in Manifest
      BY <2>1, <2>4 DEF TypeOK
    <3>2. b \in Manifest
      BY <2>2, <3>1 DEF Manifest
    <3>3. /\ RelOK'
          /\ \A q \in Refs, m \in FileName : ~(q = r /\ m = n) => rel'[q][m] = rel[q][m]
      BY <2>1, <2>2, <2>4, <3>2, RelFiles
    <3> QED
      BY <2>1, <2>4, <3>3, InputFacts
  <2> QED
    BY <2>3, <2>4 DEF FileName
<1>5. ASSUME NEW p \in Publishers,
             \/ Load(p) \/ Head_(p) \/ Check(p) \/ Trust(p) \/ CompareArtifact(p)
             \/ Repoint(p) \/ RepointManifest(p) \/ Crash(p)
      PROVE  rel' = rel /\ forged' = forged
  BY <1>5 DEF Load, Head_, Check, Trust, CompareArtifact, Repoint, RepointManifest, Crash,
              distVars
<1>6. CASE \/ Edit \/ Stage \/ Mark \/ Commit \/ Checkout \/ ResetSoft
           \/ DropCacheTree \/ UNCHANGED vars
  BY <1>1, <1>6, AuthorFrame DEF distVars, vars
<1>7. ASSUME NEW p \in Publishers, WriteArtifact(p) \/ StoreManifest(p)
      PROVE  forged' = forged
  BY <1>7 DEF WriteArtifact, StoreManifest
<1> QED
  BY <1>1, <1>2, <1>3, <1>4, <1>5, <1>6, <1>7 DEF Next, Publish

LEMMA StaysPointing ==
    ASSUME Pointing, NEW p \in Publishers, OthersStay(p), trusted \subseteq trusted',
           proc'[p].pc \in {"store", "write", "repoint"} =>
              /\ proc'[p].pc = "write" => proc'[p].at <= 3
              /\ proc'[p].at <= 3 => Compiled(proc'[p])[Order[proc'[p].at]] # NoFile
              /\ proc'[p].key \in trusted'
    PROVE  Pointing'
<1> SUFFICES ASSUME NEW x \in Publishers, proc'[x].pc \in {"store", "write", "repoint"}
             PROVE  /\ proc'[x].pc = "write" => proc'[x].at <= 3
                    /\ proc'[x].at <= 3 => Compiled(proc'[x])[Order[proc'[x].at]] # NoFile
                    /\ proc'[x].key \in trusted'
  BY DEF Pointing, Compiled
<1>1. CASE x = p
  BY <1>1
<1>2. CASE x # p
  BY <1>2 DEF Pointing, OthersStay
<1> QED
  BY <1>1, <1>2

LEMMA PointStep == ASSUME TypeOK, Pointing, [Next]_vars PROVE Pointing'
<1>1. ASSUME NEW p \in Publishers, Load(p) \/ Head_(p) \/ Check(p) PROVE Pointing'
  <2>1. /\ OthersStay(p) /\ trusted' = trusted
        /\ proc' = proc \/ proc'[p].pc \notin {"store", "write", "repoint"}
    BY <1>1, LoadEffect, HeadEffect, CheckEffect, IdleFacts
       DEF distVars, Over, GoesOn
  <2>2. CASE proc' = proc
    BY <2>1, <2>2 DEF Pointing, Compiled
  <2>3. CASE proc'[p].pc \notin {"store", "write", "repoint"}
    BY <2>1, <2>3, StaysPointing
  <2> QED
    BY <2>1, <2>2, <2>3
<1>2. ASSUME NEW p \in Publishers, RepointManifest(p) \/ Crash(p) PROVE Pointing'
  <2>1. OthersStay(p) /\ trusted' = trusted /\ proc'[p].pc \notin {"store", "write", "repoint"}
    BY <1>2, RepointManifestEffect, CrashEffect, IdleFacts DEF distVars, Over
  <2> QED
    BY <2>1, StaysPointing
<1>3. ASSUME NEW p \in Publishers, NEW pc \in {"store", "repoint"}, NEW i \in 1 .. 4,
             proc[p].pc # "idle",
             GoesOn(p, pc, NextArtifact(proc[p], i)),
             trusted \subseteq trusted', proc[p].key \in trusted'
      PROVE  Pointing'
  <2>1. PICK at : at = NextArtifact(proc[p], i)
    OBVIOUS
  <2>2. at \in 1 .. 4 /\ (at <= 3 => Compiled(proc[p])[Order[at]] # NoFile)
    BY <2>1, NextArtifactFacts
  <2>3. Compiled(proc'[p]) = Compiled(proc[p]) /\ proc'[p].at = at /\ proc'[p].pc = pc
        /\ proc'[p].key = proc[p].key /\ OthersStay(p)
    BY <1>3, <2>1, SameCompiled DEF GoesOn
  <2> QED
    BY <1>3, <2>2, <2>3, StaysPointing
<1>4. ASSUME NEW p \in Publishers, Trust(p) PROVE Pointing'
  <2>1. CASE Over(p, "KeyConflict") /\ trusted' = trusted
    BY <2>1, StaysPointing, IdleFacts DEF Over
  <2>2. CASE /\ GoesOn(p, "store", NextArtifact(proc[p], 1))
             /\ trusted' = trusted \cup {proc[p].key}
    <3>1. proc[p].pc # "idle"
      BY <1>4, TrustEffect
    <3> QED
      BY <1>3, <2>2, <3>1
  <2> QED
    BY <1>4, <2>1, <2>2, TrustEffect
<1>5. ASSUME NEW p \in Publishers, CompareArtifact(p) PROVE Pointing'
  <2>0. /\ proc[p].pc = "store" /\ proc[p].at \in 1 .. 3 /\ trusted' = trusted
        /\ proc[p].key \in trusted /\ Compiled(proc[p])[Order[proc[p].at]] # NoFile
    BY <1>5, CompareEffect DEF Pointing, distVars
  <2>1. CASE Over(p, "VersionConflict")
    BY <2>0, <2>1, StaysPointing, IdleFacts DEF Over
  <2>2. CASE GoesOn(p, "store", NextArtifact(proc[p], proc[p].at + 1))
    <3>1. proc[p].at + 1 \in 1 .. 4 /\ proc[p].pc # "idle"
      BY <2>0
    <3> QED
      BY <1>3, <2>0, <2>2, <3>1
  <2>3. CASE GoesOn(p, "write", proc[p].at)
    <3>1. /\ OthersStay(p) /\ Compiled(proc'[p]) = Compiled(proc[p])
          /\ proc'[p].at = proc[p].at /\ proc'[p].key = proc[p].key
      BY <2>3, SameCompiled DEF GoesOn
    <3> QED
      BY <2>0, <3>1, StaysPointing
  <2> QED
    BY <1>5, <2>1, <2>2, <2>3, CompareEffect
<1>9. ASSUME NEW p \in Publishers, WriteArtifact(p) PROVE Pointing'
  <2>1. /\ proc[p].pc = "write" /\ proc[p].at \in 1 .. 3 /\ trusted' = trusted
        /\ proc[p].key \in trusted
        /\ GoesOn(p, "store", NextArtifact(proc[p], proc[p].at + 1))
    BY <1>9, WriteEffect DEF Pointing
  <2>2. proc[p].at + 1 \in 1 .. 4
    BY <2>1
  <2> QED
    BY <1>3, <2>1, <2>2
<1>6. ASSUME NEW p \in Publishers, StoreManifest(p) PROVE Pointing'
  <2>1. /\ proc[p].pc = "store" /\ trusted' = trusted /\ proc[p].key \in trusted
        /\ GoesOn(p, "repoint", NextArtifact(proc[p], 1))
    BY <1>6, ManifestEffect DEF Pointing
  <2> QED
    BY <1>3, <2>1
<1>7. ASSUME NEW p \in Publishers, Repoint(p) PROVE Pointing'
  <2>1. /\ proc[p].pc = "repoint" /\ proc[p].at \in 1 .. 3 /\ trusted' = trusted
        /\ proc[p].key \in trusted
        /\ GoesOn(p, "repoint", NextArtifact(proc[p], proc[p].at + 1))
    BY <1>7, RepointEffect DEF Pointing
  <2>2. proc[p].at + 1 \in 1 .. 4
    BY <2>1
  <2> QED
    BY <1>3, <2>1, <2>2
<1>8. CASE \/ Edit \/ Stage \/ Mark \/ Commit \/ Checkout \/ ResetSoft
           \/ DropCacheTree \/ Tamper \/ UNCHANGED vars
  <2>1. proc' = proc /\ trusted' = trusted
    BY <1>8, AuthorFrame DEF Tamper, vars, distVars
  <2> QED
    BY <2>1 DEF Pointing, Compiled
<1> QED
  BY <1>1, <1>2, <1>4, <1>5, <1>6, <1>7, <1>8, <1>9 DEF Next, Publish

LEMMA CurStep == ASSUME TypeOK, Pointing, [Next]_vars PROVE CurOK' /\ RestOK'
<1>0. CurOK /\ RestOK
  BY DEF TypeOK, CurOK, RestOK
<1>1. ASSUME NEW p \in Publishers, Repoint(p) PROVE CurOK' /\ RestOK'
  <2>1. PICK n, b : n = Order[proc[p].at] /\ b = Compiled(proc[p])[n]
    OBVIOUS
  <2>2. /\ proc[p].pc = "repoint" /\ proc[p].at \in 1 .. 3
        /\ UNCHANGED <<trusted, forged>> /\ between' = TRUE
        /\ cur' = [cur EXCEPT ![n] = b] /\ served' = served \cup {<<n, b>>}
    BY <1>1, <2>1, RepointEffect
  <2>3. n \in Inputs /\ b \in Bundle
    BY <2>1, <2>2, Pointed
  <2>4. CurOK'
    <3>1. \A m \in FileName : cur'[m] = IF m = n THEN b ELSE cur[m]
      BY <1>0, <2>2 DEF CurOK
    <3>2. cur' \in [FileName -> Bundle \cup Manifest \cup {NoFile}]
      BY <1>0, <2>2, <2>3 DEF CurOK
    <3> QED
      BY <1>0, <2>3, <3>1, <3>2, InputFacts DEF CurOK
  <2>5. RestOK'
    BY <1>0, <2>2, <2>3 DEF RestOK
  <2> QED
    BY <2>4, <2>5
<1>2. ASSUME NEW p \in Publishers, RepointManifest(p) PROVE CurOK' /\ RestOK'
  <2>1. PICK m : m = proc[p].manifest
    OBVIOUS
  <2>2. /\ proc[p].pc = "repoint" /\ UNCHANGED <<trusted, served, forged>>
        /\ between' = FALSE /\ cur' = [cur EXCEPT !["manifest"] = m]
    BY <1>2, <2>1, RepointManifestEffect
  <2>3. m \in Manifest \cup {NoFile}
    BY <2>1, <2>2, JobFacts
  <2>4. CurOK'
    <3>1. \A n \in FileName : cur'[n] = IF n = "manifest" THEN m ELSE cur[n]
      BY <1>0, <2>2 DEF CurOK
    <3>2. cur' \in [FileName -> Bundle \cup Manifest \cup {NoFile}]
      BY <1>0, <2>2, <2>3 DEF CurOK
    <3> QED
      BY <1>0, <2>3, <3>1, <3>2, InputFacts DEF CurOK
  <2> QED
    BY <1>0, <2>2, <2>4 DEF RestOK
<1>3. ASSUME NEW p \in Publishers, Trust(p) PROVE CurOK' /\ RestOK'
  <2>1. proc[p].key \in OpsKeys /\ UNCHANGED <<cur, between, served, forged>>
    BY <1>3, TrustEffect, JobFacts
  <2>2. trusted' \in {trusted, trusted \cup {proc[p].key}}
    BY <1>3, TrustEffect
  <2> QED
    BY <1>0, <2>1, <2>2 DEF CurOK, RestOK
<1>4. CASE Tamper
  <2>1. UNCHANGED <<trusted, cur, between, served>> /\ forged' \subseteq Refs
    BY <1>0, <1>4 DEF Tamper, RestOK
  <2> QED
    BY <1>0, <2>1 DEF CurOK, RestOK
<1>5. CASE UNCHANGED <<trusted, cur, between, served, forged>>
  BY <1>0, <1>5 DEF CurOK, RestOK
<1>6. ASSUME NEW p \in Publishers,
             \/ Load(p) \/ Head_(p) \/ Check(p) \/ CompareArtifact(p) \/ WriteArtifact(p)
             \/ StoreManifest(p) \/ Crash(p)
      PROVE  UNCHANGED <<trusted, cur, between, served, forged>>
  BY <1>6 DEF Load, Head_, Check, CompareArtifact, WriteArtifact,
              StoreManifest, Crash, distVars
<1>7. CASE \/ Edit \/ Stage \/ Mark \/ Commit \/ Checkout \/ ResetSoft
           \/ DropCacheTree \/ UNCHANGED vars
  BY <1>5, <1>7, AuthorFrame DEF distVars, vars
<1> QED
  BY <1>1, <1>2, <1>3, <1>4, <1>5, <1>6, <1>7 DEF Next, Publish

(* What went unseen is never forgotten.                                    *)
LEMMA CountStep ==
    ASSUME TypeOK, [Next]_vars PROVE CountOK' /\ count.unseen \subseteq count'.unseen
<1> DEFINE Kinds == {"checkout", "deployment"}
           Kept == CountOK' /\ count.unseen \subseteq count'.unseen
<1>0. count \in [edits : Nat, publishes : Nat, crashes : Nat, unseen : SUBSET Kinds]
  BY DEF TypeOK
<1>1. CASE count' = count
  BY <1>0, <1>1 DEF CountOK
<1>2. ASSUME NEW e \in {0, 1}, NEW v \in SUBSET Kinds,
             count' = [count EXCEPT !.edits = @ + e, !.unseen = @ \cup v]
      PROVE  Kept
  <2>1. PICK n, u : n = count.edits + e /\ u = count.unseen \cup v
    OBVIOUS
  <2>2. count' = [count EXCEPT !.edits = n, !.unseen = u]
    BY <1>2, <2>1
  <2>3. n \in Nat /\ u \in SUBSET Kinds
    <3>1. count.edits \in Nat /\ count.publishes \in Nat
      BY <1>0
    <3>2. count.unseen \in SUBSET Kinds
      BY <1>0
    <3>3. u \in SUBSET Kinds
      BY <2>1, <3>2
    <3> QED
      BY <2>1, <3>1, <3>3
  <2>4. CountOK' /\ count'.unseen = u
    BY <1>0, <2>2, <2>3 DEF CountOK
  <2> QED
    BY <2>1, <2>4
<1>3. ASSUME NEW v \in SUBSET Kinds,
              count' = [count EXCEPT !.publishes = @ + 1, !.unseen = @ \cup v]
       PROVE  Kept
  <2>1. PICK n, u : n = count.publishes + 1 /\ u = count.unseen \cup v
    OBVIOUS
  <2>2. count' = [count EXCEPT !.publishes = n, !.unseen = u]
    BY <1>3, <2>1
  <2>3. n \in Nat /\ u \in SUBSET Kinds
    <3>1. count.edits \in Nat /\ count.publishes \in Nat
      BY <1>0
    <3>2. count.unseen \in SUBSET Kinds
      BY <1>0
    <3>3. u \in SUBSET Kinds
      BY <2>1, <3>2
    <3> QED
      BY <2>1, <3>1, <3>3
  <2>4. CountOK' /\ count'.unseen = u
    BY <1>0, <2>2, <2>3 DEF CountOK
  <2> QED
    BY <2>1, <2>4
<1>4. ASSUME NEW e \in {0, 1}, NEW u \in SUBSET Kinds, Author(e, u) PROVE Kept
  <2>1. PICK v : v = u \cup (IF Racing THEN {"checkout"} ELSE {})
    OBVIOUS
  <2>2. /\ v \in SUBSET Kinds
        /\ count' = [count EXCEPT !.edits = @ + e, !.unseen = @ \cup v]
    BY <1>0, <1>4, <2>1 DEF Author
  <2> QED
    BY <2>2, <1>2
<1>5. CASE \/ Edit \/ Stage \/ Mark \/ Commit \/ Checkout \/ ResetSoft \/ DropCacheTree
  <2>1. Author(1, {}) \/ Author(0, {}) \/ Author(0, {"checkout"})
    BY <1>5 DEF Edit, Stage, Mark, Commit, Checkout, ResetSoft, DropCacheTree, Editing
  <2> QED
    BY <1>4, <2>1
<1>6. ASSUME NEW p \in Publishers, Load(p) PROVE Kept
  <2>1. PICK v \in {{}, {"checkout"}} :
            count' = [count EXCEPT !.publishes = @ + 1, !.unseen = @ \cup v]
    BY <1>6 DEF Load
  <2> QED
    BY <2>1, <1>3
<1>7. ASSUME NEW p \in Publishers, Check(p) PROVE Kept
  <2>1. CASE count' # count
    <3>1. PICK v \in {{}, {"deployment"}} : count' = [count EXCEPT !.unseen = @ \cup v]
      BY <1>7, <2>1 DEF Check
    <3> QED
      BY <1>0, <3>1 DEF CountOK
  <2> QED
    BY <1>1, <2>1
<1>8. ASSUME NEW p \in Publishers, Crash(p) PROVE Kept
  BY <1>0, <1>8 DEF Crash, CountOK
<1>9. ASSUME NEW p \in Publishers,
             \/ Head_(p) \/ Trust(p) \/ CompareArtifact(p) \/ WriteArtifact(p)
             \/ StoreManifest(p) \/ Repoint(p) \/ RepointManifest(p)
      PROVE  count' = count
  BY <1>9 DEF Head_, Trust, CompareArtifact, WriteArtifact, StoreManifest, Repoint,
              RepointManifest
<1>10. CASE Tamper \/ UNCHANGED vars
  BY <1>1, <1>10 DEF Tamper, vars
<1> QED
  BY <1>1, <1>5, <1>6, <1>7, <1>8, <1>9, <1>10 DEF Next, Publish

LEMMA TypeStep == ASSUME TypeOK, Pointing, [Next]_vars PROVE TypeOK' /\ Pointing'
<1>1. GitOK' /\ ProcOK' /\ RelOK' /\ CurOK' /\ RestOK' /\ CountOK' /\ Pointing'
  BY GitStep, ProcStep, RelStep, CurStep, CountStep, PointStep
<1> QED
  BY <1>1 DEF TypeOK, GitOK, ProcOK, RelOK, CurOK, RestOK, CountOK

LEMMA TypePoints == Spec => [](TypeOK /\ Pointing)
<1>1. Init => Pointing
  BY IdleFacts DEF Init, Pointing
<1>2. TypeOK /\ Pointing /\ [Next]_vars => (TypeOK /\ Pointing)'
  BY TypeStep
<1> QED
  BY <1>1, <1>2, InitTypes, PTL DEF Spec

(* Type correctness of the checkout, of the publishes in progress and of   *)
(* the distribution directory, for any number of publishers, keys, labels  *)
(* and contents.                                                           *)
THEOREM TypeCorrect == Spec => []TypeOK
BY TypePoints, PTL

-----------------------------------------------------------------------------
(***************************************************************************)
(* One content per version.                                                *)
(***************************************************************************)

(* One publish at a time writes the distribution directory, as the code    *)
(* presumes: nothing in it locks the directory.                            *)
OnePublisher == \A p, q \in Publishers : p = q

(* What a publish has stored so far stands in its directory, and the file  *)
(* it is about to write is still missing.                                  *)
StoredBy(p) ==
    /\ proc[p].pc = "write" => rel[proc[p].ref][Order[proc[p].at]] = NoFile
    /\ proc[p].pc \in {"store", "write", "repoint"} =>
          \A k \in 1 .. 3 :
              /\ proc[p].pc = "repoint" \/ k < proc[p].at
              /\ Compiled(proc[p])[Order[k]] # NoFile
              => rel[proc[p].ref][Order[k]] = Compiled(proc[p])[Order[k]]

Stored == \A p \in Publishers : StoredBy(p)

(* What was served stands in the directory of its version, unless someone  *)
(* signed it anew.                                                         *)
ServedIsStored ==
    \A s \in served : rel[s[2].ref][s[1]] \in {s[2], [s[2] EXCEPT !.key = Forger]}

(* A file of a release is written once: only Tamper changes it, and only   *)
(* its signature.                                                          *)
LEMMA WrittenOnce ==
    ASSUME TypeOK, Pointing, Stored, [Next]_vars, NEW r \in Refs, NEW n \in Inputs,
           rel'[r][n] # rel[r][n]
    PROVE  \/ rel[r][n] = NoFile
           \/ /\ Tamper /\ r \in forged'
              /\ rel'[r][n] = [rel[r][n] EXCEPT !.key = Forger]
<1>1. ASSUME NEW p \in Publishers, WriteArtifact(p), r = proc[p].ref, n = Order[proc[p].at]
      PROVE  rel[r][n] = NoFile
  BY <1>1, WriteEffect DEF Stored, StoredBy
<1> QED
  BY <1>1, RelStep

(* A stored file never changes under a publish in progress.                *)
LEMMA StoredStays ==
    ASSUME TypeOK, Pointing, Stored, [Next]_vars, ~Tamper,
           NEW r \in Refs, NEW n \in Inputs, rel[r][n] # NoFile
    PROVE  rel'[r][n] = rel[r][n]
BY WrittenOnce

LEMMA StoredStep ==
    ASSUME OnePublisher, TypeOK, Pointing, Stored, [Next]_vars PROVE Stored'
<1>0. ASSUME NEW p \in Publishers, StoredBy(p)' PROVE Stored'
  <2>1. \A x \in Publishers : x = p
    BY DEF OnePublisher
  <2> QED
    BY <1>0, <2>1 DEF Stored
<1>1. CASE Tamper
  <2>1. proc' = proc /\ \A p \in Publishers : proc[p].pc = "idle"
    BY <1>1, IdleFacts DEF Tamper
  <2> QED
    BY <2>1 DEF Stored, StoredBy
<1>2. CASE UNCHANGED <<proc, rel>>
  BY <1>2 DEF Stored, StoredBy, Compiled
<1>3. ASSUME NEW p \in Publishers, proc'[p].pc \notin {"store", "write", "repoint"}
      PROVE  Stored'
  BY <1>0, <1>3 DEF StoredBy
<1>4. ASSUME NEW p \in Publishers, Load(p) \/ Head_(p) \/ Check(p) PROVE Stored'
  <2>1. /\ rel' = rel
        /\ proc' = proc \/ proc'[p].pc \notin {"store", "write", "repoint"}
    BY <1>4, LoadEffect, HeadEffect, CheckEffect, IdleFacts DEF distVars, Over, GoesOn
  <2> QED
    BY <1>2, <1>3, <2>1
<1>5. ASSUME NEW p \in Publishers, NEW o, Over(p, o) PROVE Stored'
  BY <1>3, <1>5, IdleFacts DEF Over
<1>6. ASSUME NEW p \in Publishers, ~Tamper, proc[p].pc \in {"store", "write", "repoint"},
             NEW k \in 1 .. 3, proc[p].pc = "repoint" \/ k < proc[p].at,
             Compiled(proc[p])[Order[k]] # NoFile
      PROVE  rel'[proc[p].ref][Order[k]] = Compiled(proc[p])[Order[k]]
  <2>1. rel[proc[p].ref][Order[k]] = Compiled(proc[p])[Order[k]]
    BY <1>6 DEF Stored, StoredBy
  <2>2. proc[p].ref \in Refs /\ Order[k] \in Inputs
    BY <1>6, JobFacts, Three
  <2> QED
    BY <1>6, <2>1, <2>2, StoredStays
<1>7. ASSUME NEW p \in Publishers, Trust(p) PROVE Stored'
  <2>1. CASE Over(p, "KeyConflict")
    BY <1>5, <2>1
  <2>2. CASE GoesOn(p, "store", NextArtifact(proc[p], 1))
    <3>1. PICK at : at = NextArtifact(proc[p], 1)
      OBVIOUS
    <3>2. \A k \in 1 .. 3 : k < at => Compiled(proc[p])[Order[k]] = NoFile
      BY <3>1, NextArtifactFacts
    <3>3. /\ Compiled(proc'[p]) = Compiled(proc[p])
          /\ proc'[p].pc = "store" /\ proc'[p].at = at
      BY <2>2, <3>1, SameCompiled DEF GoesOn
    <3>4. StoredBy(p)'
      BY <3>2, <3>3 DEF StoredBy
    <3> QED
      BY <1>0, <3>4
  <2> QED
    BY <1>7, <2>1, <2>2, TrustEffect
(* The publish stores its next artifact, with the one it stood at there.   *)
<1>8. ASSUME NEW p \in Publishers, ~Tamper, proc[p].pc \in {"store", "write"},
             proc[p].at \in 1 .. 3,
             GoesOn(p, "store", NextArtifact(proc[p], proc[p].at + 1)),
             rel'[proc[p].ref][Order[proc[p].at]] = Compiled(proc[p])[Order[proc[p].at]]
      PROVE  Stored'
  <2>1. PICK at : at = NextArtifact(proc[p], proc[p].at + 1)
    OBVIOUS
  <2>2. \A k \in 1 .. 3 : k < at /\ k > proc[p].at => Compiled(proc[p])[Order[k]] = NoFile
    <3>1. proc[p].at + 1 \in 1 .. 4
      BY <1>8
    <3> QED
      BY <1>8, <2>1, <3>1, NextArtifactFacts
  <2>3. /\ Compiled(proc'[p]) = Compiled(proc[p])
        /\ proc'[p].pc = "store" /\ proc'[p].at = at /\ proc'[p].ref = proc[p].ref
    BY <1>8, <2>1, SameCompiled DEF GoesOn
  <2>4. ASSUME NEW k \in 1 .. 3, k < at, Compiled(proc[p])[Order[k]] # NoFile
        PROVE  rel'[proc[p].ref][Order[k]] = Compiled(proc[p])[Order[k]]
    <3>1. k = proc[p].at \/ k < proc[p].at
      BY <1>8, <2>2, <2>4
    <3>2. CASE k = proc[p].at
      BY <1>8, <3>2
    <3>3. CASE k < proc[p].at
      BY <1>6, <1>8, <2>4, <3>3
    <3> QED
      BY <3>1, <3>2, <3>3
  <2>5. StoredBy(p)'
    BY <2>3, <2>4 DEF StoredBy
  <2> QED
    BY <1>0, <2>5
<1>9. ASSUME NEW p \in Publishers, ~Tamper, CompareArtifact(p) PROVE Stored'
  <2>0. proc[p].pc = "store" /\ proc[p].at \in 1 .. 3 /\ rel' = rel
    BY <1>9, CompareEffect DEF distVars
  <2>1. CASE Over(p, "VersionConflict")
    BY <1>5, <2>1
  <2>2. CASE /\ GoesOn(p, "store", NextArtifact(proc[p], proc[p].at + 1))
             /\ rel[proc[p].ref][Order[proc[p].at]] = Compiled(proc[p])[Order[proc[p].at]]
    BY <1>8, <1>9, <2>0, <2>2
  <2>3. CASE /\ GoesOn(p, "write", proc[p].at)
             /\ rel[proc[p].ref][Order[proc[p].at]] = NoFile
    <3>1. /\ Compiled(proc'[p]) = Compiled(proc[p]) /\ proc'[p].pc = "write"
          /\ proc'[p].at = proc[p].at /\ proc'[p].ref = proc[p].ref
      BY <2>3, SameCompiled DEF GoesOn
    <3>2. \A k \in 1 .. 3 :
              k < proc[p].at /\ Compiled(proc[p])[Order[k]] # NoFile
                  => rel'[proc[p].ref][Order[k]] = Compiled(proc[p])[Order[k]]
      BY <1>6, <1>9, <2>0
    <3>3. StoredBy(p)'
      BY <2>0, <2>3, <3>1, <3>2 DEF StoredBy
    <3> QED
      BY <1>0, <3>3
  <2> QED
    BY <1>9, <2>1, <2>2, <2>3, CompareEffect
<1>10. ASSUME NEW p \in Publishers, ~Tamper, WriteArtifact(p) PROVE Stored'
  <2>1. PICK r, n, b : r = proc[p].ref /\ n = Order[proc[p].at] /\ b = Compiled(proc[p])[n]
    OBVIOUS
  <2>2. /\ proc[p].pc = "write" /\ proc[p].at \in 1 .. 3
        /\ GoesOn(p, "store", NextArtifact(proc[p], proc[p].at + 1))
        /\ Writes(r, n, b)
    BY <1>10, <2>1, WriteEffect DEF Writes
  <2>3. r \in Refs /\ n \in Inputs /\ b \in SignedBundle
    BY <2>1, <2>2, Pointed, FileFacts
  <2>4. rel'[r][n] = b
    BY <2>2, <2>3, RelFiles
  <2> QED
    BY <1>8, <1>10, <2>1, <2>2, <2>4
<1>11. ASSUME NEW p \in Publishers, ~Tamper, StoreManifest(p) \/ Repoint(p)
       PROVE  Stored'
  <2>1. /\ proc[p].pc = "repoint" \/ (proc[p].pc = "store" /\ proc[p].at = 4)
        /\ \E at : GoesOn(p, "repoint", at)
    BY <1>11, ManifestEffect, RepointEffect
  <2>2. /\ Compiled(proc'[p]) = Compiled(proc[p])
        /\ proc'[p].pc = "repoint" /\ proc'[p].ref = proc[p].ref
    BY <2>1, SameCompiled DEF GoesOn
  <2>3. \A k \in 1 .. 3 :
            Compiled(proc[p])[Order[k]] # NoFile
                => rel'[proc[p].ref][Order[k]] = Compiled(proc[p])[Order[k]]
    BY <1>6, <1>11, <2>1
  <2>4. StoredBy(p)'
    BY <2>2, <2>3 DEF StoredBy
  <2> QED
    BY <1>0, <2>4
<1>12. ASSUME NEW p \in Publishers, RepointManifest(p) \/ Crash(p) PROVE Stored'
  BY <1>5, <1>12, RepointManifestEffect, CrashEffect
<1>13. CASE \/ Edit \/ Stage \/ Mark \/ Commit \/ Checkout \/ ResetSoft \/ DropCacheTree
            \/ UNCHANGED vars
  BY <1>2, <1>13, AuthorFrame DEF vars, distVars
<1> QED
  BY <1>1, <1>4, <1>7, <1>9, <1>10, <1>11, <1>12, <1>13 DEF Next, Publish

(* A served file of the model is what a publish stands at.                 *)
LEMMA ServedEffect ==
    ASSUME TypeOK, Pointing, [Next]_vars
    PROVE  \/ served' = served
           \/ /\ ~Tamper
              /\ \E p \in Publishers :
                    /\ proc[p].pc = "repoint" /\ proc[p].at \in 1 .. 3
                    /\ served' = served \cup
                          {<<Order[proc[p].at], Compiled(proc[p])[Order[proc[p].at]]>>}
<1>1. ASSUME NEW p \in Publishers, Repoint(p)
      PROVE  /\ proc[p].pc = "repoint" /\ proc[p].at \in 1 .. 3
             /\ served' = served \cup
                   {<<Order[proc[p].at], Compiled(proc[p])[Order[proc[p].at]]>>}
  BY <1>1, RepointEffect
<1>2. ASSUME NEW p \in Publishers, Crash(p) \/ (Publish(p) /\ ~Repoint(p))
      PROVE  served' = served
  BY <1>2 DEF Publish, Load, Head_, Check, Trust, CompareArtifact, WriteArtifact,
              StoreManifest, RepointManifest, Crash, distVars
<1>3. CASE \/ Edit \/ Stage \/ Mark \/ Commit \/ Checkout \/ ResetSoft
           \/ DropCacheTree \/ Tamper \/ UNCHANGED vars
  BY <1>3, AuthorFrame DEF Tamper, vars, distVars
<1>4. CASE Tamper
  BY <1>4 DEF Tamper
<1> QED
  BY <1>1, <1>2, <1>3, <1>4 DEF Next, Publish

LEMMA ServedFacts ==
    ASSUME TypeOK, NEW s \in served
    PROVE  /\ s[1] \in Inputs /\ s[2] \in Bundle /\ s = <<s[1], s[2]>>
           /\ s[2].ref \in Refs /\ s[2].key \in OpsKeys /\ s[2] # NoFile
<1>1. s[1] \in Inputs /\ s[2] \in Bundle /\ s = <<s[1], s[2]>>
  BY DEF TypeOK
<1>2. s[2].ref \in Refs /\ s[2].key \in OpsKeys
  BY <1>1 DEF Bundle
<1> QED
  BY <1>1, <1>2, FileFacts

(* A bundle somebody signed anew is not one that an ops key signed.        *)
LEMMA ForgedIsForeign ==
    ASSUME NEW b \in Bundle, NEW f, f = [b EXCEPT !.key = Forger]
    PROVE  /\ f \in SignedBundle /\ f # NoFile /\ f.key = Forger
           /\ f.content = b.content /\ f.ref = b.ref
           /\ [f EXCEPT !.key = Forger] = f
           /\ f \notin Bundle
<1>1. /\ f \in SignedBundle /\ f.key = Forger /\ f.content = b.content /\ f.ref = b.ref
  BY DEF Bundle, SignedBundle
<1>2. [f EXCEPT !.key = Forger] = f
  BY <1>1 DEF SignedBundle
<1>3. f \notin Bundle
  BY <1>1, ReleaseAssumption DEF Bundle
<1> QED
  BY <1>1, <1>2, <1>3, FileFacts

LEMMA ServedStoredStep ==
    ASSUME TypeOK, Pointing, Stored, ServedIsStored, [Next]_vars
    PROVE  ServedIsStored'
<1>1. ASSUME NEW s \in served
      PROVE  rel'[s[2].ref][s[1]] \in {s[2], [s[2] EXCEPT !.key = Forger]}
  <2>0. PICK f : f = [s[2] EXCEPT !.key = Forger]
    OBVIOUS
  <2>1. s[1] \in Inputs /\ s[2] \in Bundle /\ s[2].ref \in Refs /\ s[2] # NoFile
    BY ServedFacts
  <2>2. f # NoFile /\ [f EXCEPT !.key = Forger] = f
    BY <2>0, <2>1, ForgedIsForeign
  <2>3. rel[s[2].ref][s[1]] \in {s[2], f}
    BY <2>0 DEF ServedIsStored
  <2>4. \/ rel'[s[2].ref][s[1]] = rel[s[2].ref][s[1]]
        \/ rel'[s[2].ref][s[1]] = [rel[s[2].ref][s[1]] EXCEPT !.key = Forger]
    BY <2>1, <2>2, <2>3, WrittenOnce
  <2> QED
    BY <2>0, <2>2, <2>3, <2>4
<1>2. CASE served' = served
  BY <1>1, <1>2 DEF ServedIsStored
<1>3. ASSUME ~Tamper, NEW p \in Publishers,
             proc[p].pc = "repoint", proc[p].at \in 1 .. 3,
             served' = served \cup
                 {<<Order[proc[p].at], Compiled(proc[p])[Order[proc[p].at]]>>}
      PROVE  ServedIsStored'
  <2>1. PICK n, b : n = Order[proc[p].at] /\ b = Compiled(proc[p])[n]
    OBVIOUS
  <2>2. n \in Inputs /\ b \in Bundle /\ b # NoFile /\ b.ref = proc[p].ref /\ b.ref \in Refs
    BY <1>3, <2>1, Pointed
  <2>3. rel[b.ref][n] = b
    BY <1>3, <2>1, <2>2 DEF Stored, StoredBy
  <2>4. rel'[b.ref][n] = b
    BY <1>3, <2>2, <2>3, StoredStays
  <2>5. PICK s : s = <<n, b>>
    OBVIOUS
  <2>6. served' = served \cup {s} /\ rel'[s[2].ref][s[1]] = s[2]
    BY <1>3, <2>1, <2>4, <2>5
  <2> QED
    BY <1>1, <2>6 DEF ServedIsStored
<1> QED
  BY <1>2, <1>3, ServedEffect

LEMMA OneContentStep ==
    ASSUME TypeOK, Pointing, Stored, ServedIsStored, OneContentPerVersion, [Next]_vars
    PROVE  OneContentPerVersion'
<1>1. CASE served' = served
  BY <1>1 DEF OneContentPerVersion
<1>2. ASSUME NEW p \in Publishers,
             proc[p].pc = "repoint", proc[p].at \in 1 .. 3,
             served' = served \cup
                 {<<Order[proc[p].at], Compiled(proc[p])[Order[proc[p].at]]>>}
      PROVE  OneContentPerVersion'
  <2>1. PICK n, b : n = Order[proc[p].at] /\ b = Compiled(proc[p])[n]
    OBVIOUS
  <2>2. n \in Inputs /\ b \in Bundle /\ b # NoFile /\ b.ref = proc[p].ref
    BY <1>2, <2>1, Pointed
  <2>3. rel[b.ref][n] = b
    BY <1>2, <2>1, <2>2 DEF Stored, StoredBy
  <2>4. ASSUME NEW s \in served, s[1] = n, s[2].ref = b.ref PROVE s = <<n, b>>
    <3>0. PICK f : f = [s[2] EXCEPT !.key = Forger]
      OBVIOUS
    <3>1. s[2] \in Bundle /\ s = <<s[1], s[2]>>
      BY ServedFacts
    <3>2. f \notin Bundle
      BY <3>0, <3>1, ForgedIsForeign
    <3>3. b \in {s[2], f}
      BY <2>3, <2>4, <3>0 DEF ServedIsStored
    <3> QED
      BY <2>2, <2>4, <3>1, <3>2, <3>3
  <2>5. PICK t : t = <<n, b>>
    OBVIOUS
  <2>6. served' = served \cup {t} /\ t[1] = n /\ t[2] = b
    BY <1>2, <2>1, <2>5
  <2> QED
    BY <2>4, <2>5, <2>6 DEF OneContentPerVersion
<1> QED
  BY <1>1, <1>2, ServedEffect

LEMMA ServedAlways ==
    ASSUME OnePublisher
    PROVE  Spec => [](TypeOK /\ Pointing /\ Stored /\ ServedIsStored /\ OneContentPerVersion)
<1> DEFINE Inv == TypeOK /\ Pointing /\ Stored /\ ServedIsStored /\ OneContentPerVersion
<1>1. Init => Inv
  BY InitTypes, IdleFacts
     DEF Init, Pointing, Stored, StoredBy, ServedIsStored, OneContentPerVersion
<1>2. Inv /\ [Next]_vars => Inv'
  BY TypeStep, StoredStep, ServedStoredStep, OneContentStep
<1> QED
  BY <1>1, <1>2, PTL DEF Spec

(* With one publish at a time a version's bundle is one content for ever:  *)
(* whatever labels are reused or are shas, whatever the checkout does,     *)
(* whatever keys are rotated, publishes killed between comparing a file    *)
(* and writing it, and release directories rewritten, two files served     *)
(* under one version and name are the same bytes, signature included       *)
(* (publish: VersionConflict).                                             *)
THEOREM OneContent ==
    ASSUME OnePublisher
    PROVE  Spec => []OneContentPerVersion
BY ServedAlways, PTL

-----------------------------------------------------------------------------
(***************************************************************************)
(* What a sha stamps.  C is the set of inputs the argument is about: those *)
(* that `worktree_divergence' compares, or all of them.                    *)
(***************************************************************************)

(* Nothing has happened so far that a publish could not notice about C.    *)
Noticed(C) ==
    /\ "checkout" \notin count.unseen
    /\ C \subseteq Compared \/ "deployment" \notin count.unseen

(* The index has a cache tree, and without an invalidated entry it is the  *)
(* tree of HEAD.                                                           *)
IndexIsHead ==
    /\ tree # "none"
    /\ tree = "valid" =>
          \A f \in Inputs : index[f].flag = "plain" => index[f].blob = commits[head][f]

(* Before it is compared, what a publish read is what the tree holds;      *)
(* afterwards what a publish of a sha carries is what its commit holds.    *)
ReadAsCommitted(C) ==
    \A p \in Publishers :
        /\ proc[p].pc \in {"head", "check"} => proc[p].src = work
        /\ proc[p].pc = "check" => proc[p].ref = Sha(head)
        /\ proc[p].pc \in {"trust", "store", "write", "repoint"} =>
              \A k \in 1 .. MaxCommits :
                  proc[p].ref = Sha(k) =>
                      /\ k <= Len(commits)
                      /\ \A n \in C : proc[p].src[n] = commits[k][n]

ServedAsRead(C) ==
    \A s \in served, k \in 1 .. MaxCommits :
        s[2].ref = Sha(k) =>
            /\ k <= Len(commits)
            /\ s[1] \in C => s[2].content = commits[k][s[1]]

StoredAsRead(C) ==
    \A k \in 1 .. MaxCommits, n \in Inputs :
        rel[Sha(k)][n] # NoFile =>
            /\ k <= Len(commits) /\ rel[Sha(k)][n].ref = Sha(k)
            /\ n \in C => rel[Sha(k)][n].content = commits[k][n]

LEMMA CommitsGrow ==
    ASSUME TypeOK, [Next]_vars
    PROVE  /\ Len(commits) \in Nat /\ Len(commits') \in Nat /\ Len(commits) <= Len(commits')
           /\ \A k \in 1 .. Len(commits) : commits'[k] = commits[k]
<1>0. commits \in Seq(Source) /\ Len(commits) \in Nat
  BY DEF TypeOK
<1>1. CASE commits' = commits
  BY <1>0, <1>1
<1>2. CASE Commit
  <2>1. PICK t : t = [f \in Inputs |-> index[f].blob]
    OBVIOUS
  <2>2. t \in Source
    BY <2>1 DEF Source, IndexEntry, TypeOK
  <2>3. commits' = Append(commits, t)
    BY <1>2, <2>1 DEF Commit
  <2> QED
    BY <1>0, <2>2, <2>3
<1>3. CASE \/ Edit \/ Stage \/ Mark \/ Checkout \/ ResetSoft \/ DropCacheTree
           \/ Tamper \/ UNCHANGED vars
  BY <1>1, <1>3 DEF Edit, Stage, Mark, Checkout, ResetSoft, DropCacheTree,
     Tamper, gitVars, vars
<1>4. ASSUME NEW p \in Publishers, Publish(p) \/ Crash(p) PROVE UNCHANGED gitVars
  BY <1>4 DEF Publish, Load, Head_, Check, Trust, CompareArtifact, WriteArtifact,
              StoreManifest, Repoint, RepointManifest, Crash
<1> QED
  BY <1>1, <1>2, <1>3, <1>4 DEF Next, gitVars

(* A step of the author or nothing of git.                                 *)
LEMMA GitFrame ==
    ASSUME [Next]_vars
    PROVE  \/ UNCHANGED gitVars
           \/ Edit \/ Stage \/ Mark \/ Commit \/ Checkout \/ ResetSoft \/ DropCacheTree
<1>1. ASSUME NEW p \in Publishers, Publish(p) \/ Crash(p) PROVE UNCHANGED gitVars
  BY <1>1 DEF Publish, Load, Head_, Check, Trust, CompareArtifact, WriteArtifact,
              StoreManifest, Repoint, RepointManifest, Crash
<1> QED
  BY <1>1 DEF Next, Tamper, vars, gitVars

(* What the author may have done meanwhile.                                *)
LEMMA NoticedStep ==
    ASSUME NEW C, TypeOK, [Next]_vars, Noticed(C)'
    PROVE  /\ Noticed(C) /\ ~ResetSoft /\ ~DropCacheTree
           /\ Racing => ~(Edit \/ Stage \/ Mark \/ Commit \/ Checkout)
<1>0. "checkout" \notin count'.unseen
  BY DEF Noticed
<1>1. ASSUME NEW e, NEW u, Author(e, u) PROVE ~Racing /\ "checkout" \notin u
  <2>1. count'.unseen = count.unseen \cup u \cup (IF Racing THEN {"checkout"} ELSE {})
    BY <1>1 DEF Author, TypeOK
  <2> QED
    BY <1>0, <2>1
<1>2. ~ResetSoft /\ ~DropCacheTree
  BY <1>1 DEF ResetSoft, DropCacheTree
<1>3. Racing => ~(Edit \/ Stage \/ Mark \/ Commit \/ Checkout)
  BY <1>1 DEF Edit, Stage, Mark, Commit, Checkout, Editing
<1>4. Noticed(C)
  BY CountStep DEF Noticed
<1> QED
  BY <1>2, <1>3, <1>4

LEMMA IndexStep ==
    ASSUME TypeOK, IndexIsHead, [Next]_vars, ~ResetSoft, ~DropCacheTree
    PROVE  IndexIsHead'
<1>0. /\ index \in [Inputs -> IndexEntry] /\ Authored \subseteq Inputs
      /\ commits \in Seq(Source) /\ Len(commits) \in Nat /\ head \in 1 .. Len(commits)
  BY ReleaseAssumption DEF TypeOK
<1>1. CASE UNCHANGED gitVars \/ Edit
  BY <1>1 DEF gitVars, Edit, IndexIsHead
<1>2. CASE Stage
  BY <1>2 DEF Stage, IndexIsHead
<1>3. CASE Mark
  <2>1. PICK f \in Authored, e \in OddEntries : index' = [index EXCEPT ![f] = e]
    BY <1>3 DEF Mark
  <2>2. e.flag # "plain"
    BY ReleaseAssumption DEF OddEntries, AllFlags
  <2>3. \A g \in Inputs : index'[g] = index[g] \/ index'[g].flag # "plain"
    BY <1>0, <2>1, <2>2
  <2> QED
    BY <1>3, <2>3 DEF Mark, IndexIsHead
<1>4. CASE Commit
  <2>1. PICK t : t = [f \in Inputs |-> index[f].blob]
    OBVIOUS
  <2>2. t \in Source
    BY <1>0, <2>1 DEF Source, IndexEntry
  <2>3. commits' = Append(commits, t) /\ head' = Len(commits) + 1 /\ index' = index
    BY <1>4, <2>1 DEF Commit
  <2>4. commits'[head'] = t
    BY <1>0, <2>2, <2>3
  <2> QED
    BY <1>4, <2>1, <2>3, <2>4 DEF Commit, IndexIsHead
<1>5. CASE Checkout
  <2>1. commits' = commits /\ \A f \in Inputs : index'[f] = Tracked(commits[head'][f])
    BY <1>5 DEF Checkout
  <2>2. \A x : Tracked(x).blob = x
    BY DEF Tracked
  <2>3. \A f \in Inputs : index'[f].blob = commits'[head'][f]
    BY <2>1, <2>2
  <2> QED
    BY <1>5, <2>3 DEF Checkout, IndexIsHead
<1> QED
  BY <1>1, <1>2, <1>3, <1>4, <1>5, GitFrame

(* worktree_divergence lets a tree pass that holds the commit HEAD names.  *)
LEMMA NotDiverged ==
    ASSUME TypeOK, IndexIsHead, ~Diverged, NEW n \in Compared
    PROVE  work[n] = commits[head][n]
<1>1. index[n].flag = "plain" /\ work[n] = index[n].blob /\ tree # "invalid"
  BY DEF Diverged, EntryDiverged, Untracked, CacheTreeStale
<1> QED
  BY <1>1, InputFacts DEF IndexIsHead, TypeOK

(* A publish that has its version keeps it, and the commit stays.          *)
LEMMA ReadStays ==
    ASSUME NEW C \in SUBSET Inputs, TypeOK, ReadAsCommitted(C), [Next]_vars,
           NEW p \in Publishers, proc[p].pc \in {"trust", "store", "write", "repoint"},
           NEW k \in 1 .. MaxCommits, proc[p].ref = Sha(k)
    PROVE  k <= Len(commits') /\ \A n \in C : proc[p].src[n] = commits'[k][n]
<1>1. k <= Len(commits) /\ \A n \in C : proc[p].src[n] = commits[k][n]
  BY DEF ReadAsCommitted
<1>2. k \in 1 .. Len(commits) /\ k <= Len(commits')
  BY <1>1, CommitsGrow, ReleaseAssumption
<1>3. commits'[k] = commits[k]
  BY <1>2, CommitsGrow
<1> QED
  BY <1>1, <1>2, <1>3

LEMMA ReadMoves ==
    ASSUME NEW C \in SUBSET Inputs, TypeOK, ReadAsCommitted(C), [Next]_vars,
           UNCHANGED gitVars, NEW p \in Publishers, OthersStay(p),
           /\ proc'[p].pc \in {"head", "check"} => proc'[p].src = work
           /\ proc'[p].pc = "check" => proc'[p].ref = Sha(head)
           /\ proc'[p].pc \in {"trust", "store", "write", "repoint"} =>
                 \A k \in 1 .. MaxCommits :
                     proc'[p].ref = Sha(k) =>
                         /\ k <= Len(commits)
                         /\ \A n \in C : proc'[p].src[n] = commits[k][n]
    PROVE  ReadAsCommitted(C)'
<1>1. work' = work /\ head' = head /\ commits' = commits
  BY DEF gitVars
<1>2. \A x \in Publishers : x = p \/ proc'[x] = proc[x]
  BY DEF OthersStay
<1> QED
  BY <1>1, <1>2 DEF ReadAsCommitted

LEMMA ReadStep ==
    ASSUME NEW C \in SUBSET Inputs, TypeOK, Pointing,
           IndexIsHead, ReadAsCommitted(C), [Next]_vars, Noticed(C)'
    PROVE  ReadAsCommitted(C)'
<1>1. CASE Edit \/ Stage \/ Mark \/ Commit \/ Checkout \/ ResetSoft \/ DropCacheTree
  <2>1. proc' = proc /\ \A p \in Publishers : proc[p].pc \notin {"head", "check"}
    BY <1>1, AuthorFrame, NoticedStep DEF Racing
  <2>2. ASSUME NEW p \in Publishers, proc[p].pc \in {"trust", "store", "write", "repoint"},
               NEW k \in 1 .. MaxCommits, proc[p].ref = Sha(k)
        PROVE  k <= Len(commits') /\ \A n \in C : proc[p].src[n] = commits'[k][n]
    BY <2>2, ReadStays
  <2> QED
    BY <2>1, <2>2 DEF ReadAsCommitted
<1>2. CASE UNCHANGED <<gitVars, proc>>
  BY <1>2 DEF ReadAsCommitted, gitVars
<1>3. ASSUME NEW p \in Publishers, Load(p) PROVE ReadAsCommitted(C)'
  <2>1. OthersStay(p) /\ UNCHANGED gitVars
    BY <1>3, LoadEffect
  <2>2. CASE proc' = proc
    BY <1>2, <2>1, <2>2
  <2>3. CASE proc'[p].pc = "head" /\ proc'[p].src = work
    BY <2>1, <2>3, ReadMoves
  <2>4. CASE /\ proc'[p].pc = "trust"
             /\ proc'[p].ref \in Shas => "checkout" \in count'.unseen
    <3>1. \A k \in 1 .. MaxCommits : proc'[p].ref # Sha(k)
      BY <2>4, RefFacts DEF Noticed
    <3> QED
      BY <2>1, <2>4, <3>1, ReadMoves
  <2> QED
    BY <1>3, <2>2, <2>3, <2>4, LoadEffect
<1>4. ASSUME NEW p \in Publishers, Head_(p) PROVE ReadAsCommitted(C)'
  <2>1. /\ OthersStay(p) /\ UNCHANGED gitVars /\ proc[p].pc = "head"
        /\ proc'[p].pc = "check" /\ proc'[p].src = proc[p].src /\ proc'[p].ref = Sha(head)
    BY <1>4, HeadEffect
  <2>2. proc[p].src = work
    BY <2>1 DEF ReadAsCommitted
  <2> QED
    BY <2>1, <2>2, ReadMoves
<1>5. ASSUME NEW p \in Publishers, NEW o, Over(p, o), UNCHANGED gitVars
      PROVE  ReadAsCommitted(C)'
  <2>1. OthersStay(p) /\ proc'[p].pc = "idle"
    BY <1>5, IdleFacts DEF Over
  <2> QED
    BY <1>5, <2>1, ReadMoves
<1>6. ASSUME NEW p \in Publishers, Check(p) PROVE ReadAsCommitted(C)'
  <2>0. proc[p].pc = "check" /\ UNCHANGED gitVars
    BY <1>6, CheckEffect
  <2>1. CASE Over(p, "DirtyTree")
    BY <1>5, <2>0, <2>1
  <2>2. CASE /\ ~Diverged /\ GoesOn(p, "trust", proc[p].at)
             /\ Uncompared(p) => "deployment" \in count'.unseen
    <3>1. proc[p].src = work /\ proc[p].ref = Sha(head)
      BY <2>0 DEF ReadAsCommitted
    <3>2. \A n \in C : work[n] = commits[head][n]
      <4> SUFFICES ASSUME NEW n \in C PROVE work[n] = commits[head][n]
        OBVIOUS
      <4>1. CASE n \in Compared
        BY <2>2, <4>1, NotDiverged
      <4>2. CASE n \notin Compared
        BY <2>2, <3>1, <4>2 DEF Uncompared, Noticed
      <4> QED
        BY <4>1, <4>2
    <3>3. /\ OthersStay(p) /\ proc'[p].pc = "trust" /\ proc'[p].src = work
          /\ proc'[p].ref = Sha(head)
      BY <2>2, <3>1 DEF GoesOn
    <3>4. head <= Len(commits)
      BY DEF TypeOK
    <3>5. \A k \in 1 .. MaxCommits : proc'[p].ref = Sha(k) => k = head
      BY <3>3, RefFacts
    <3> QED
      BY <2>0, <3>2, <3>3, <3>4, <3>5, ReadMoves
  <2> QED
    BY <1>6, <2>1, <2>2, CheckEffect
<1>7. ASSUME NEW p \in Publishers, UNCHANGED gitVars,
             proc[p].pc \in {"trust", "store", "write", "repoint"},
             NEW pc \in {"store", "write", "repoint"}, NEW at, GoesOn(p, pc, at)
      PROVE  ReadAsCommitted(C)'
  <2>1. /\ OthersStay(p) /\ proc'[p].pc = pc /\ proc'[p].src = proc[p].src
        /\ proc'[p].ref = proc[p].ref
    BY <1>7 DEF GoesOn
  <2>2. \A k \in 1 .. MaxCommits :
            proc[p].ref = Sha(k) =>
                k <= Len(commits) /\ \A n \in C : proc[p].src[n] = commits[k][n]
    BY <1>7 DEF ReadAsCommitted
  <2> QED
    BY <1>7, <2>1, <2>2, ReadMoves
<1>8. ASSUME NEW p \in Publishers, Trust(p) \/ CompareArtifact(p) \/ WriteArtifact(p)
      PROVE  ReadAsCommitted(C)'
  <2>1. proc[p].pc \in {"trust", "store", "write", "repoint"} /\ UNCHANGED gitVars
    BY <1>8, TrustEffect, CompareEffect, WriteEffect
  <2>2. \/ \E o : Over(p, o)
        \/ \E at : GoesOn(p, "store", at) \/ GoesOn(p, "write", at)
    BY <1>8, TrustEffect, CompareEffect, WriteEffect
  <2> QED
    BY <1>5, <1>7, <2>1, <2>2
<1>9. ASSUME NEW p \in Publishers, StoreManifest(p) \/ Repoint(p) PROVE ReadAsCommitted(C)'
  <2>1. proc[p].pc \in {"trust", "store", "write", "repoint"} /\ UNCHANGED gitVars
    BY <1>9, ManifestEffect, RepointEffect
  <2>2. \E at : GoesOn(p, "repoint", at)
    BY <1>9, ManifestEffect, RepointEffect
  <2> QED
    BY <1>7, <2>1, <2>2
<1>10. ASSUME NEW p \in Publishers, RepointManifest(p) \/ Crash(p)
       PROVE  ReadAsCommitted(C)'
  BY <1>5, <1>10, RepointManifestEffect, CrashEffect
<1>11. CASE Tamper \/ UNCHANGED vars
  BY <1>2, <1>11 DEF Tamper, vars, gitVars
<1> QED
  BY <1>1, <1>3, <1>4, <1>6, <1>8, <1>9, <1>10, <1>11 DEF Next, Publish

LEMMA ServedReadStep ==
    ASSUME NEW C \in SUBSET Inputs, TypeOK, Pointing, ReadAsCommitted(C),
           ServedAsRead(C), [Next]_vars
    PROVE  ServedAsRead(C)'
<1>1. ASSUME NEW s \in served, NEW k \in 1 .. MaxCommits, s[2].ref = Sha(k)
      PROVE  k <= Len(commits') /\ (s[1] \in C => s[2].content = commits'[k][s[1]])
  <2>1. k <= Len(commits) /\ (s[1] \in C => s[2].content = commits[k][s[1]])
    BY <1>1 DEF ServedAsRead
  <2>2. k \in 1 .. Len(commits) /\ k <= Len(commits')
    BY <2>1, CommitsGrow, ReleaseAssumption
  <2>3. commits'[k] = commits[k]
    BY <2>2, CommitsGrow
  <2> QED
    BY <2>1, <2>2, <2>3
<1>2. CASE served' = served
  BY <1>1, <1>2 DEF ServedAsRead
<1>3. ASSUME NEW p \in Publishers,
             proc[p].pc = "repoint", proc[p].at \in 1 .. 3,
             served' = served \cup
                 {<<Order[proc[p].at], Compiled(proc[p])[Order[proc[p].at]]>>}
      PROVE  ServedAsRead(C)'
  <2>1. PICK n, b : n = Order[proc[p].at] /\ b = Compiled(proc[p])[n]
    OBVIOUS
  <2>2. n \in Inputs /\ b.ref = proc[p].ref /\ b.content = proc[p].src[n]
    BY <1>3, <2>1, Pointed
  <2>3. PICK s : s = <<n, b>>
    OBVIOUS
  <2>4. served' = served \cup {s} /\ s[1] = n /\ s[2] = b
    BY <1>3, <2>1, <2>3
  <2>5. \A k \in 1 .. MaxCommits :
            b.ref = Sha(k) => k <= Len(commits') /\ (n \in C => b.content = commits'[k][n])
    BY <1>3, <2>2, ReadStays, ZenonT(60)
  <2> QED
    BY <1>1, <2>4, <2>5 DEF ServedAsRead
<1> QED
  BY <1>2, <1>3, ServedEffect

LEMMA InitRead == ASSUME NEW C \in SUBSET Inputs, Init
                  PROVE  /\ IndexIsHead /\ ReadAsCommitted(C)
                         /\ ServedAsRead(C) /\ StoredAsRead(C)
<1>1. /\ head = 1 /\ work = commits[1] /\ Len(commits) = 1
      /\ \A f \in Inputs : index[f] = Tracked(work[f])
  BY DEF Init
<1>2. IndexIsHead
  <2>1. \A f \in Inputs : index[f].blob = commits[head][f]
    <3>1. \A x : Tracked(x).blob = x
      BY DEF Tracked
    <3> QED
      BY <1>1, <3>1
  <2>2. tree = "valid"
    BY DEF Init
  <2> QED
    BY <2>1, <2>2 DEF IndexIsHead
<1>3. ReadAsCommitted(C) /\ ServedAsRead(C)
  BY IdleFacts DEF Init, ReadAsCommitted, ServedAsRead
<1>4. StoredAsRead(C)
  BY RefFacts, InputFacts DEF Init, StoredAsRead, FileName
<1> QED
  BY <1>2, <1>3, <1>4

(* However edits, staging, odd index entries, commits and checkouts follow *)
(* each other and any number of publishes, rules and identity served under *)
(* a sha are those of its commit (worktree_divergence, load_and_compile)   *)
(* until the checkout changes between the reads of a publish, is reset     *)
(* softly or has an index without a TREE extension, or a label is a sha.   *)
THEOREM ServedAsCommit == Spec => []RulesAsCommitted
<1> DEFINE C == Compared
           Inv == /\ TypeOK /\ Pointing
                  /\ Noticed(C) => IndexIsHead /\ ReadAsCommitted(C) /\ ServedAsRead(C)
<1>0. C \in SUBSET Inputs
  BY InputFacts
<1>1. Init => Inv
  BY <1>0, InitTypes, InitRead, IdleFacts DEF Init, Pointing
<1>2. Inv /\ [Next]_vars => Inv'
  <2> SUFFICES ASSUME Inv, [Next]_vars PROVE Inv'
    OBVIOUS
  <2>1. TypeOK' /\ Pointing'
    BY TypeStep
  <2>2. ASSUME Noticed(C)' PROVE IndexIsHead' /\ ReadAsCommitted(C)' /\ ServedAsRead(C)'
    <3>1. Noticed(C) /\ ~ResetSoft /\ ~DropCacheTree
      BY <2>2, NoticedStep
    <3> QED
      BY <1>0, <2>2, <3>1, IndexStep, ReadStep, ServedReadStep
  <2> QED
    BY <2>1, <2>2
<1>3. Inv => RulesAsCommitted
  <2> SUFFICES ASSUME Inv, "checkout" \notin count.unseen,
                      NEW s \in served, NEW k \in 1 .. Len(commits),
                      s[1] \in Compared, s[2].ref = Sha(k)
               PROVE  s[2].content = commits[k][s[1]]
    BY DEF RulesAsCommitted, ServedAsCommitted, Compared
  <2>1. k \in 1 .. MaxCommits
    BY ReleaseAssumption DEF TypeOK
  <2> QED
    BY <2>1 DEF ServedAsRead, Noticed
<1> QED
  BY <1>1, <1>2, <1>3, PTL DEF Spec

-----------------------------------------------------------------------------
(***************************************************************************)
(* Rollback and the manifest.                                              *)
(***************************************************************************)

LEMMA StoredReadStep ==
    ASSUME NEW C \in SUBSET Inputs, TypeOK, Pointing, ReadAsCommitted(C),
           StoredAsRead(C), [Next]_vars
    PROVE  StoredAsRead(C)'
<1> SUFFICES ASSUME NEW k \in 1 .. MaxCommits, NEW n \in Inputs, rel'[Sha(k)][n] # NoFile
             PROVE  /\ k <= Len(commits') /\ rel'[Sha(k)][n].ref = Sha(k)
                    /\ n \in C => rel'[Sha(k)][n].content = commits'[k][n]
  BY DEF StoredAsRead
<1>0. PICK r, b : r = Sha(k) /\ b = rel[r][n]
  OBVIOUS
<1>1. r \in Refs
  BY <1>0, RefFacts
<1>2. ASSUME b # NoFile
      PROVE  /\ k <= Len(commits') /\ b.ref = Sha(k)
             /\ n \in C => b.content = commits'[k][n]
  <2>1. /\ k <= Len(commits) /\ b.ref = Sha(k)
        /\ n \in C => b.content = commits[k][n]
    BY <1>0, <1>2 DEF StoredAsRead
  <2>2. k \in 1 .. Len(commits) /\ k <= Len(commits')
    BY <2>1, CommitsGrow, ReleaseAssumption
  <2>3. commits'[k] = commits[k]
    BY <2>2, CommitsGrow
  <2> QED
    BY <2>1, <2>2, <2>3
<1>3. CASE rel'[r][n] = b
  BY <1>0, <1>2, <1>3
<1>4. ASSUME NEW p \in Publishers, WriteArtifact(p), r = proc[p].ref,
             n = Order[proc[p].at], rel'[r][n] = Compiled(proc[p])[n]
      PROVE  /\ k <= Len(commits') /\ rel'[r][n].ref = Sha(k)
             /\ n \in C => rel'[r][n].content = commits'[k][n]
  <2>1. proc[p].pc = "write" /\ proc[p].at \in 1 .. 3
    BY <1>4, WriteEffect
  <2>2. rel'[r][n].ref = proc[p].ref /\ rel'[r][n].content = proc[p].src[n]
    BY <1>4, <2>1, Pointed
  <2>3. k <= Len(commits') /\ \A m \in C : proc[p].src[m] = commits'[k][m]
    BY <1>0, <1>4, <2>1, ReadStays
  <2> QED
    BY <1>0, <1>4, <2>2, <2>3
<1>5. CASE b # NoFile /\ rel'[r][n] = [b EXCEPT !.key = Forger]
  <2>1. b \in SignedBundle
    BY <1>0, <1>1, <1>5 DEF TypeOK
  <2>2. rel'[r][n].ref = b.ref /\ rel'[r][n].content = b.content
    BY <1>5, <2>1 DEF SignedBundle
  <2> QED
    BY <1>0, <1>2, <1>5, <2>2
<1>6. \/ rel'[r][n] = b
      \/ \E p \in Publishers : /\ WriteArtifact(p) /\ r = proc[p].ref
                               /\ n = Order[proc[p].at]
                               /\ rel'[r][n] = Compiled(proc[p])[n]
      \/ b # NoFile /\ rel'[r][n] = [b EXCEPT !.key = Forger]
  BY <1>0, <1>1, RelStep
<1> QED
  BY <1>0, <1>3, <1>4, <1>5, <1>6

LEMMA ResultFacts ==
    ASSUME TypeOK, NEW p \in Publishers, result[p].outcome = "VersionConflict"
    PROVE  result[p].ref \in Refs
<1>1. result[p] \in Result
  BY DEF TypeOK
<1>2. \A o \in {"none", "Source"} : [outcome |-> o].outcome # "VersionConflict"
  OBVIOUS
<1> QED
  BY <1>1, <1>2 DEF Result

LEMMA RefusedStays ==
    ASSUME TypeOK, Pointing, Stored, [Next]_vars, NEW p \in Publishers, Refused(result[p]),
           result'[p] = result[p]
    PROVE  Refused(result[p])'
<1> SUFFICES ASSUME result[p].outcome = "VersionConflict", result[p].ref \in Shas
             PROVE  \/ result[p].ref \in forged'
                    \/ \E n \in Inputs : /\ rel'[result[p].ref][n] # NoFile
                                         /\ rel'[result[p].ref][n].key # result[p].key
  BY DEF Refused
<1>0. result[p].ref \in Refs
  BY ResultFacts
<1>1. CASE result[p].ref \in forged
  BY <1>1, RelStep
<1>2. ASSUME NEW n \in Inputs, rel[result[p].ref][n] # NoFile,
             rel[result[p].ref][n].key # result[p].key
      PROVE  \/ result[p].ref \in forged'
             \/ /\ rel'[result[p].ref][n] # NoFile
                /\ rel'[result[p].ref][n].key # result[p].key
  BY <1>0, <1>2, WrittenOnce
<1> QED
  BY <1>1, <1>2 DEF Refused

RefusalsNamed == \A p \in Publishers : Refused(result[p])

LEMMA RollbackStep ==
    ASSUME TypeOK, Pointing, Stored, ReadAsCommitted(Inputs), StoredAsRead(Inputs),
           RefusalsNamed, [Next]_vars
    PROVE  RefusalsNamed'
<1> SUFFICES ASSUME NEW x \in Publishers PROVE Refused(result[x])'
  BY DEF RefusalsNamed
<1>0. Refused(result[x])
  BY DEF RefusalsNamed
<1>1. CASE result'[x] = result[x]
  BY <1>0, <1>1, RefusedStays
<1>2. ASSUME NEW p \in Publishers, NEW o, o # "VersionConflict", Over(p, o)
      PROVE  Refused(result[x])'
  <2>1. \/ result'[x] = result[x]
        \/ result'[x].outcome = o
    BY <1>2 DEF Over, TypeOK
  <2> QED
    BY <1>1, <1>2, <2>1 DEF Refused
<1>3. ASSUME NEW p \in Publishers, Load(p) PROVE Refused(result[x])'
  <2>1. result'[x] = result[x] \/ result'[x].outcome = "Source"
    BY <1>3, LoadEffect DEF TypeOK
  <2> QED
    BY <1>1, <2>1 DEF Refused
<1>4. ASSUME NEW p \in Publishers, CompareArtifact(p) PROVE Refused(result[x])'
  <2>1. CASE result' = result
    BY <1>1, <2>1
  <2>2. CASE /\ Over(p, "VersionConflict") /\ rel' = rel
             /\ rel[proc[p].ref][Order[proc[p].at]] \notin
                   {NoFile, Compiled(proc[p])[Order[proc[p].at]]}
    <3>1. x # p => result'[x] = result[x]
      BY <2>2 DEF Over, TypeOK
    <3>2. ASSUME x = p, result'[p].ref \in Shas PROVE Refused(result[x])'
      <4>0. PICK r, n, b, f : /\ r = proc[p].ref /\ n = Order[proc[p].at]
                              /\ b = Compiled(proc[p])[n] /\ f = rel[r][n]
        OBVIOUS
      <4>1. proc[p].pc = "store" /\ proc[p].at \in 1 .. 3
        BY <1>4, CompareEffect
      <4>2. result'[p].ref = r /\ result'[p].key = proc[p].key
        BY <2>2, <4>0 DEF Over, TypeOK
      <4>3. /\ n \in Inputs /\ b \in Bundle /\ b.ref = r /\ b.key = proc[p].key
            /\ b.content = proc[p].src[n] /\ r \in Refs
        BY <4>0, <4>1, Pointed
      <4>4. PICK k \in 1 .. MaxCommits : r = Sha(k)
        BY <3>2, <4>2, <4>3, RefFacts
      <4>5. f # NoFile /\ f # b /\ f \in SignedBundle
        BY <2>2, <4>0, <4>3 DEF TypeOK
      <4>6. f.ref = r /\ f.content = commits[k][n]
        BY <4>0, <4>3, <4>4, <4>5 DEF StoredAsRead
      <4>7. b.content = commits[k][n]
        BY <4>0, <4>1, <4>3, <4>4 DEF ReadAsCommitted
      <4>8. f.key # b.key
        BY <4>3, <4>5, <4>6, <4>7 DEF Bundle, SignedBundle
      <4>9. rel'[r][n] # NoFile /\ rel'[r][n].key # result'[p].key
        BY <2>2, <4>0, <4>2, <4>3, <4>5, <4>8
      <4> QED
        BY <3>2, <4>2, <4>3, <4>9 DEF Refused
    <3> QED
      BY <1>1, <3>1, <3>2 DEF Refused
  <2> QED
    BY <1>4, <2>1, <2>2, CompareEffect DEF distVars
<1>5. ASSUME NEW p \in Publishers,
             \/ Head_(p) \/ Check(p) \/ Trust(p) \/ WriteArtifact(p) \/ StoreManifest(p)
             \/ Repoint(p)
             \/ RepointManifest(p) \/ Crash(p)
      PROVE  Refused(result[x])'
  <2>1. \/ result' = result \/ Over(p, "DirtyTree") \/ Over(p, "KeyConflict")
        \/ Over(p, "published") \/ Over(p, "crashed")
    BY <1>5, HeadEffect, CheckEffect, TrustEffect, WriteEffect, ManifestEffect, RepointEffect,
       RepointManifestEffect, CrashEffect
  <2> QED
    BY <1>1, <1>2, <2>1
<1>6. CASE \/ Edit \/ Stage \/ Mark \/ Commit \/ Checkout \/ ResetSoft
           \/ DropCacheTree \/ Tamper \/ UNCHANGED vars
  BY <1>1, <1>6, AuthorFrame DEF Tamper, vars
<1> QED
  BY <1>3, <1>4, <1>5, <1>6 DEF Next, Publish

(* A version can be published again by its own key as long as nobody       *)
(* tampered with its directory, with one publish at a time and until a     *)
(* publish takes for a commit what is not (count.unseen: the ways of       *)
(* ServedAsCommit, or deployment/ not as committed): a refusal has one of  *)
(* these two reasons (publish: VersionConflict).  The commit and what      *)
(* stands in releases/ determine the bytes.                                *)
THEOREM RollbackHolds ==
    ASSUME OnePublisher
    PROVE  Spec => []RollbackSucceeds
<1> DEFINE C == Inputs
           Read == /\ IndexIsHead /\ ReadAsCommitted(C) /\ StoredAsRead(C)
                   /\ RefusalsNamed
           Inv == TypeOK /\ Pointing /\ Stored /\ (Noticed(C) => Read)
<1>0. C \in SUBSET Inputs
  OBVIOUS
<1>1. Init => Inv
  <2>1. Init => Pointing /\ Stored
    BY IdleFacts DEF Init, Pointing, Stored, StoredBy
  <2>2. Init => RefusalsNamed
    BY DEF Init, RefusalsNamed, Refused
  <2> QED
    BY <1>0, <2>1, <2>2, InitTypes, InitRead
<1>2. Inv /\ [Next]_vars => Inv'
  <2> SUFFICES ASSUME Inv, [Next]_vars PROVE Inv'
    OBVIOUS
  <2>1. TypeOK' /\ Pointing' /\ Stored'
    BY TypeStep, StoredStep
  <2>2. ASSUME Noticed(C)' PROVE Read'
    <3>1. Noticed(C) /\ ~ResetSoft /\ ~DropCacheTree
      BY <2>2, NoticedStep
    <3> QED
      BY <1>0, <2>2, <3>1, IndexStep, ReadStep, StoredReadStep, RollbackStep
  <2> QED
    BY <2>1, <2>2
<1>3. Inv => RollbackSucceeds
  BY DEF Noticed, RollbackSucceeds, RefusalsNamed
<1> QED
  BY <1>1, <1>2, <1>3, PTL DEF Spec

(* A publish that repoints carries a trusted manifest of its own artifacts *)
(* and has made current those before `at'.                                 *)
Carries(p) ==
    proc[p].pc = "repoint" =>
        /\ proc[p].manifest # NoFile /\ proc[p].manifest.key \in trusted
        /\ proc[p].manifest.arts = Compiled(proc[p])
        /\ \A k \in 1 .. 3 :
              k < proc[p].at /\ Compiled(proc[p])[Order[k]] # NoFile =>
                  cur[Order[k]] = Compiled(proc[p])[Order[k]]

Carried == \A p \in Publishers : Carries(p)

LEMMA CarriedStep ==
    ASSUME OnePublisher, TypeOK, Pointing, Carried, [Next]_vars PROVE Carried'
<1>1. ASSUME NEW p \in Publishers, proc'[p].pc # "repoint" PROVE Carried'
  BY <1>1 DEF OnePublisher, Carried, Carries
<1>2. CASE UNCHANGED <<proc, trusted, cur>>
  BY <1>2 DEF Carried, Carries
<1>3. ASSUME NEW p \in Publishers, Load(p) \/ Head_(p) \/ Check(p) PROVE Carried'
  <2>1. /\ UNCHANGED <<trusted, cur>>
        /\ proc' = proc \/ proc'[p].pc # "repoint"
    BY <1>3, LoadEffect, HeadEffect, CheckEffect, IdleFacts DEF distVars, Over, GoesOn
  <2> QED
    BY <1>1, <1>2, <2>1
<1>4. ASSUME NEW p \in Publishers,
             \/ Trust(p) \/ CompareArtifact(p) \/ WriteArtifact(p)
             \/ RepointManifest(p) \/ Crash(p)
      PROVE  Carried'
  <2>1. proc'[p].pc # "repoint"
    BY <1>4, TrustEffect, CompareEffect, WriteEffect, RepointManifestEffect, CrashEffect,
       IdleFacts
       DEF Over, GoesOn
  <2> QED
    BY <1>1, <2>1
<1>5. ASSUME NEW p \in Publishers, StoreManifest(p) PROVE Carried'
  <2>1. PICK at : at = NextArtifact(proc[p], 1)
    OBVIOUS
  <2>2. \A k \in 1 .. 3 : k < at => Compiled(proc[p])[Order[k]] = NoFile
    BY <2>1, NextArtifactFacts
  <2>3. /\ proc[p].pc = "store" /\ UNCHANGED <<trusted, cur>>
        /\ GoesOn(p, "repoint", at)
        /\ proc'[p].manifest \in Manifest
        /\ proc[p].key \in trusted => proc'[p].manifest.key \in trusted
        /\ proc'[p].manifest.arts = Compiled(proc[p])
    BY <1>5, <2>1, ManifestEffect
  <2>4. proc[p].key \in trusted
    BY <2>3 DEF Pointing
  <2>5. Compiled(proc'[p]) = Compiled(proc[p]) /\ proc'[p].at = at
    BY <2>3, SameCompiled DEF GoesOn
  <2>6. Carries(p)'
    BY <2>2, <2>3, <2>4, <2>5, FileFacts DEF Carries
  <2> QED
    BY <2>6 DEF Carried, OnePublisher
<1>6. ASSUME NEW p \in Publishers, Repoint(p) PROVE Carried'
  <2>1. PICK at, n, b : /\ at = NextArtifact(proc[p], proc[p].at + 1)
                        /\ n = Order[proc[p].at] /\ b = Compiled(proc[p])[n]
    OBVIOUS
  <2>2. /\ proc[p].pc = "repoint" /\ proc[p].at \in 1 .. 3 /\ UNCHANGED trusted
        /\ GoesOn(p, "repoint", at) /\ proc'[p].manifest = proc[p].manifest
        /\ cur' = [cur EXCEPT ![n] = b]
    BY <1>6, <2>1, RepointEffect
  <2>3. proc[p].at + 1 \in 1 .. 4
    BY <2>2
  <2>4. \A k \in 1 .. 3 : k < at /\ k > proc[p].at => Compiled(proc[p])[Order[k]] = NoFile
    BY <2>1, <2>2, <2>3, NextArtifactFacts
  <2>5. Compiled(proc'[p]) = Compiled(proc[p]) /\ proc'[p].at = at /\ proc'[p].pc = "repoint"
    BY <2>2, SameCompiled DEF GoesOn
  <2>6. Carries(p)
    BY DEF Carried
  <2>7. ASSUME NEW k \in 1 .. 3, k < at, Compiled(proc[p])[Order[k]] # NoFile
        PROVE  cur'[Order[k]] = Compiled(proc[p])[Order[k]]
    <3>1. Order[k] \in FileName /\ n \in FileName
      BY <2>1, <2>2, Three, InputFacts
    <3>2. CASE k = proc[p].at
      BY <2>1, <2>2, <3>1, <3>2 DEF TypeOK
    <3>3. CASE k < proc[p].at
      <4>1. cur[Order[k]] = Compiled(proc[p])[Order[k]]
        BY <2>2, <2>6, <2>7, <3>3 DEF Carries
      <4>2. Order[k] # n
        BY <2>1, <2>2, <3>3, Three
      <4> QED
        BY <2>2, <3>1, <4>1, <4>2 DEF TypeOK
    <3> QED
      BY <2>2, <2>4, <2>7, <3>2, <3>3
  <2>8. Carries(p)'
    BY <2>2, <2>5, <2>6, <2>7 DEF Carries
  <2> QED
    BY <2>8 DEF Carried, OnePublisher
<1>7. CASE \/ Edit \/ Stage \/ Mark \/ Commit \/ Checkout \/ ResetSoft
           \/ DropCacheTree \/ Tamper \/ UNCHANGED vars
  BY <1>2, <1>7, AuthorFrame DEF Tamper, vars, distVars
<1> QED
  BY <1>3, <1>4, <1>5, <1>6, <1>7 DEF Next, Publish

LEMMA ManifestStep ==
    ASSUME TypeOK, Pointing, Carried, ManifestHolds, [Next]_vars PROVE ManifestHolds'
<1>1. ASSUME UNCHANGED <<cur, between>>, trusted \subseteq trusted' PROVE ManifestHolds'
  BY <1>1 DEF ManifestHolds
<1>2. ASSUME NEW p \in Publishers, Repoint(p) PROVE ManifestHolds'
  <2>1. /\ between' = TRUE /\ UNCHANGED trusted /\ cur'["manifest"] = cur["manifest"]
    <3>1. Order[proc[p].at] # "manifest"
      BY <1>2, RepointEffect, Three, InputFacts
    <3>2. PICK n, b : n = Order[proc[p].at] /\ b = Compiled(proc[p])[n]
      OBVIOUS
    <3>3. between' = TRUE /\ UNCHANGED trusted /\ cur' = [cur EXCEPT ![n] = b]
      BY <1>2, <3>2, RepointEffect
    <3>4. "manifest" \in DOMAIN cur
      BY InputFacts DEF TypeOK
    <3> QED
      BY <3>1, <3>2, <3>3, <3>4
  <2> QED
    BY <2>1 DEF ManifestHolds
<1>3. ASSUME NEW p \in Publishers, RepointManifest(p) PROVE ManifestHolds'
  <2>1. /\ proc[p].pc = "repoint" /\ proc[p].at = 4 /\ UNCHANGED trusted
        /\ cur' = [cur EXCEPT !["manifest"] = proc[p].manifest]
    BY <1>3, RepointManifestEffect
  <2>2. /\ cur'["manifest"] = proc[p].manifest
        /\ \A n \in Inputs : cur'[n] = cur[n]
    BY <2>1, InputFacts DEF TypeOK
  <2>3. /\ proc[p].manifest.key \in trusted
        /\ proc[p].manifest.arts = Compiled(proc[p])
        /\ \A k \in 1 .. 3 :
              Compiled(proc[p])[Order[k]] # NoFile =>
                  cur[Order[k]] = Compiled(proc[p])[Order[k]]
    BY <2>1 DEF Carried, Carries
  <2>4. \A n \in Inputs : proc[p].manifest.arts[n] \in {NoFile, cur[n]}
    BY <2>3, Three
  <2> QED
    BY <2>1, <2>2, <2>3, <2>4 DEF ManifestHolds
<1>4. ASSUME NEW p \in Publishers,
             \/ Load(p) \/ Head_(p) \/ Check(p) \/ Trust(p) \/ CompareArtifact(p)
             \/ WriteArtifact(p)
             \/ StoreManifest(p) \/ Crash(p)
      PROVE  UNCHANGED <<cur, between>> /\ trusted \subseteq trusted'
  BY <1>4 DEF Load, Head_, Check, Trust, CompareArtifact, WriteArtifact,
              StoreManifest, Crash, distVars
<1>5. CASE \/ Edit \/ Stage \/ Mark \/ Commit \/ Checkout \/ ResetSoft
           \/ DropCacheTree \/ Tamper \/ UNCHANGED vars
  BY <1>1, <1>5, AuthorFrame DEF Tamper, vars, distVars
<1> QED
  BY <1>1, <1>2, <1>3, <1>4, <1>5 DEF Next, Publish

(* With one publish at a time, through crashes between any two writes, key *)
(* rotations and release directories somebody rewrote, the current         *)
(* manifest verifies under trusted-keys.json and, unless a publish is      *)
(* repointing or died doing so, the current files are the ones it names    *)
(* (publish, read_matching_manifest).                                      *)
THEOREM ManifestVerifies ==
    ASSUME OnePublisher
    PROVE  Spec => []ManifestHolds
<1> DEFINE Inv == TypeOK /\ Pointing /\ Carried /\ ManifestHolds
<1>1. Init => Inv
  <2>1. Init => Pointing /\ Carried
    BY IdleFacts DEF Init, Pointing, Carried, Carries
  <2>2. Init => ManifestHolds
    BY DEF Init, ManifestHolds
  <2> QED
    BY <2>1, <2>2, InitTypes
<1>2. Inv /\ [Next]_vars => Inv'
  BY TypeStep, CarriedStep, ManifestStep
<1> QED
  BY <1>1, <1>2, PTL DEF Spec
=============================================================================
