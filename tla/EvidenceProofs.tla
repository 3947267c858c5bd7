--------------------------- MODULE EvidenceProofs ---------------------------
(***************************************************************************)
(* What a valid report proves, for any number of chains, records, seals,   *)
(* rotations and edits.  The invariant has two parts: what gateways,       *)
(* ledger and operator leave behind (Kept), and that the signatures in a   *)
(* pack by keys nobody else holds are over bytes they signed (Unforged).   *)
(* The theorems relate the verdict Valid to these.                         *)
(***************************************************************************)
EXTENDS Evidence, SequenceTheorems, FiniteSetTheorems, WellFoundedInduction, TLAPS

IsSeq(s) == s \in Seq(ToSet(s))

(* A key that no editor of packs holds.                                    *)
Secret(k) ==
    k[1] \in {"identity", "ops", "seal"} \/ (k[1] = "session" /\ k[2] \notin Leaked)

-----------------------------------------------------------------------------
(***************************************************************************)
(* What is kept: bundles, logs, seals.                                     *)
(***************************************************************************)
RecordShaped(r) ==
    r = [seq |-> r.seq, prev |-> r.prev, payload |-> r.payload, kid |-> r.kid, sig |-> r.sig]

BundleShaped(b) ==
    b = [keys |-> b.keys, attestations |-> b.attestations, kid |-> b.kid, sig |-> b.sig]

SealShaped(e) ==
    LET s == e.seal
    IN  /\ e = [seal |-> s, sig |-> [by |-> e.sig.by, over |-> e.sig.over]]
        /\ s = [chain |-> s.chain, from |-> s.from, to |-> s.to, root |-> s.root,
                head |-> s.head, prev |-> s.prev, kid |-> s.kid]

PackShaped ==
    pack = [chain |-> pack.chain, records |-> pack.records, seals |-> pack.seals,
            bundle |-> pack.bundle, keys |-> pack.keys, anchors |-> pack.anchors]

(* A bundle about some of the identity keys up to number max.              *)
BundleKept(b, max) ==
    /\ BundleShaped(b)
    /\ IsSeq(b.keys)
    /\ \A i \in DOMAIN b.keys : \E n \in 1 .. max : b.keys[i] = Entry(Identity(n), "origin")
    /\ UsableKeys(b)
    /\ \A a \in b.attestations :
          host.enrolment.attested /\ \E n \in 1 .. max : a = Enrolled(n)
    /\ b.kid = OpsKey
    /\ b.sig = Sign(OpsKey, BundleBytes(b))

BundlesKept ==
    /\ IsSeq(bundles) /\ bundles # << >>
    /\ \A m \in DOMAIN bundles : BundleKept(bundles[m], Len(bundles))

(* A record of chain c certifies key at or above position i.               *)
CertifiedBy(c, i, key) ==
    \E j \in 1 .. i : logs[c][j].payload.type = "cert" /\ logs[c][j].payload.session = key

PayloadKept(c, p) ==
    \/ p.type = "data"
    \/ /\ p.type = "cert"
       /\ p.session[1] = "session" /\ p.session[2] = c
       /\ p.identity[1] = "identity"
       /\ p.sig = Sign(p.identity, CertBytes(c, p))

KeyKept(c, i, key) ==
    key[1] = "identity" \/ (key[1] = "session" /\ CertifiedBy(c, i, key))

RecordKept(c, i) ==
    LET r == logs[c][i]
    IN  /\ RecordShaped(r)
        /\ r.seq = i - 1
        /\ r.prev = IF i = 1 THEN Genesis ELSE Hash(logs[c][i - 1])
        /\ r.sig = Sign(r.kid, OriginBytes(c, r))
        /\ PayloadKept(c, r.payload)
        /\ r.payload.type = "cert" => r.kid = r.payload.session
        /\ KeyKept(c, i, r.kid)

LogKept(c) == IsSeq(logs[c]) /\ \A i \in DOMAIN logs[c] : RecordKept(c, i)

SignerKept(c) == signer[c] = NoKid \/ KeyKept(c, Len(logs[c]), signer[c])

LogsKept ==
    /\ DOMAIN logs = Chains /\ DOMAIN signer = Chains
    /\ \A c \in Chains : LogKept(c) /\ SignerKept(c)

(* The hashes of the records that seal s of chain c covers.                *)
Leaves(c, s) == [k \in 1 .. s.to - s.from + 1 |-> Hash(logs[c][s.from + k])]

SealKept(c, i) ==
    LET e == seals[c][i]
        s == e.seal
    IN  /\ SealShaped(e)
        /\ s.chain = c /\ s.kid = SealKey /\ e.sig = Sign(SealKey, SealBytes(s))
        /\ s.from \in Nat /\ s.to \in Nat /\ s.from <= s.to /\ s.to < Len(logs[c])
        /\ \A j \in 1 .. i - 1 : seals[c][j].seal.to < s.to
        /\ s.prev = IF i = 1 THEN << >> ELSE SealBytes(seals[c][i - 1].seal)
        /\ s.root = MerkleRoot(Leaves(c, s))
        /\ s.head = Hash(logs[c][s.to + 1])

SealsKept ==
    /\ DOMAIN seals = Chains
    /\ \A c \in Chains : IsSeq(seals[c]) /\ \A i \in DOMAIN seals[c] : SealKept(c, i)

Kept == host \in Hosts /\ BundlesKept /\ LogsKept /\ SealsKept

-----------------------------------------------------------------------------
(***************************************************************************)
(* What a pack can hold.                                                   *)
(***************************************************************************)
(* The bytes that gateways, ledger and operator signed.                    *)
RecordSigned(bytes) ==
    \E c \in Chains : \E i \in DOMAIN logs[c] : bytes = OriginBytes(c, logs[c][i])

CertSigned(bytes) ==
    \E c \in Chains : \E i \in DOMAIN logs[c] :
        logs[c][i].payload.type = "cert" /\ bytes = CertBytes(c, logs[c][i].payload)

SealSigned(bytes) ==
    \E c \in Chains : \E i \in DOMAIN seals[c] : bytes = SealBytes(seals[c][i].seal)

BundleSigned(bytes) == \E m \in DOMAIN bundles : bytes = BundleBytes(bundles[m])

Genuine(sig) ==
    Secret(sig.by) =>
        \/ RecordSigned(sig.over) \/ CertSigned(sig.over)
        \/ SealSigned(sig.over) \/ BundleSigned(sig.over)

RecordUnforged(r) ==
    /\ RecordShaped(r) /\ r.seq \in Nat
    /\ Genuine(r.sig)
    /\ r.payload.type = "cert" => Genuine(r.payload.sig)

RecordsUnforged(rs) == IsSeq(rs) /\ \A i \in DOMAIN rs : RecordUnforged(rs[i])

SealUnforged(e) == SealShaped(e) /\ Genuine(e.sig)

SealsUnforged(ss) == IsSeq(ss) /\ \A i \in DOMAIN ss : SealUnforged(ss[i])

Unforged ==
    /\ PackShaped
    /\ pack.chain \in Chains
    /\ RecordsUnforged(pack.records)
    /\ SealsUnforged(pack.seals)
    /\ pack.bundle # NoBundle => Genuine(pack.bundle.sig)

Exported ==
    LET c == pack.chain
        last == SealBytes(LastSeal(seals[c]))
    IN  /\ pack.records = logs[c] /\ pack.seals = seals[c]
        /\ pack.bundle = NoBundle \/ \E m \in DOMAIN bundles : pack.bundle = bundles[m]
        /\ pack.keys = IF seals[c] = << >> THEN {} ELSE {Entry(SealKey, "seal")}
        /\ \A a \in pack.anchors :
              /\ seals[c] # << >>
              /\ a.seal = last /\ a.status = "granted" /\ a.imprint = last

PackInv == pack # NoPack => Unforged /\ (edits = {} => Exported)

EvidenceInv == Kept /\ PackInv

-----------------------------------------------------------------------------
(***************************************************************************)
(* Natural numbers and sequences.                                          *)
(***************************************************************************)
(* Induction over numbers: what is false of some is false of a least one.  *)
LEMMA LeastNumber ==
  ASSUME NEW S, S \subseteq Nat, S # {}
  PROVE  \E m \in S : \A k \in S : m <= k
<1>1. PICK m \in S : \A k \in S : ~ (<<k, m>> \in OpToRel(<, Nat))
  BY WFMin, NatLessThanWellFounded
<1>2. \A k \in S : ~ (k < m)
  BY <1>1 DEF OpToRel
<1> QED
  BY <1>2

LEMMA NumbersUpTo ==
  ASSUME NEW n \in Nat, NEW Good, 0 \in Good,
         \A k \in 0 .. n : k # n /\ k \in Good => k + 1 \in Good
  PROVE  0 .. n \subseteq Good
<1> DEFINE Bad == (0 .. n) \ Good
<1>1. SUFFICES ASSUME Bad # {} PROVE FALSE
  OBVIOUS
<1>2. PICK m \in Bad : \A k \in Bad : m <= k
  <2>1. Bad \subseteq Nat
    OBVIOUS
  <2> HIDE DEF Bad
  <2> QED
    BY <1>1, <2>1, LeastNumber
<1>3. m \in 0 .. n /\ m \notin Good /\ m # 0
  OBVIOUS
<1>4. m - 1 \in 0 .. n /\ m - 1 # n /\ ~ (m <= m - 1) /\ (m - 1) + 1 = m
  BY <1>3
<1>5. m - 1 \in Good
  BY <1>2, <1>4
<1> QED
  BY <1>3, <1>4, <1>5

LEMMA GreatestNumber ==
  ASSUME NEW S, NEW n \in Nat, S \subseteq 0 .. n, S # {}
  PROVE  \E m \in S : \A k \in S : k <= m
<1> DEFINE T == {n - k : k \in S}
<1>1. T \subseteq Nat
  OBVIOUS
<1>0. T # {}
  OBVIOUS
<1>2. PICK t \in T : \A k \in T : t <= k
  <2> HIDE DEF T
  <2> QED
    BY <1>0, <1>1, LeastNumber
<1>3. PICK m \in S : t = n - m
  OBVIOUS
<1>4. ASSUME NEW k \in S PROVE k <= m
  <2>1. n - m <= n - k
    BY <1>2, <1>3
  <2> QED
    BY <2>1
<1> QED
  BY <1>4

LEMMA SeqDomain ==
  ASSUME NEW s, IsSeq(s)
  PROVE  Len(s) \in Nat /\ DOMAIN s = 1 .. Len(s)
BY DEF IsSeq

LEMMA FunctionIsSeq ==
  ASSUME NEW n \in Nat, NEW f, NEW S, f \in [1 .. n -> S]
  PROVE  IsSeq(f) /\ Len(f) = n
<1>1. f \in [1 .. n -> ToSet(f)]
  BY DEF ToSet
<1>2. f \in Seq(ToSet(f))
  BY <1>1, SeqDef
<1> QED
  BY <1>1, <1>2, LenProperties DEF IsSeq

LEMMA AppendSeq ==
  ASSUME NEW s, IsSeq(s), NEW e
  PROVE  /\ IsSeq(Append(s, e)) /\ Len(Append(s, e)) = Len(s) + 1
         /\ \A i \in 1 .. Len(s) : Append(s, e)[i] = s[i]
         /\ Append(s, e)[Len(s) + 1] = e
<1> DEFINE S == ToSet(s) \cup {e}
<1>1. s \in Seq(S)
  BY DEF IsSeq
<1>2. /\ Append(s, e) \in Seq(S) /\ Len(Append(s, e)) = Len(s) + 1
      /\ \A i \in 1 .. Len(s) : Append(s, e)[i] = s[i]
      /\ Append(s, e)[Len(s) + 1] = e
  BY <1>1, AppendProperties
<1>3. Append(s, e) \in [1 .. Len(s) + 1 -> S]
  BY <1>2, LenProperties
<1> QED
  BY <1>2, <1>3, FunctionIsSeq, <1>1, LenProperties

LEMMA SubSeqSeq ==
  ASSUME NEW s, IsSeq(s), NEW k \in 0 .. Len(s)
  PROVE  /\ IsSeq(SubSeq(s, 1, k)) /\ Len(SubSeq(s, 1, k)) = k
         /\ \A i \in 1 .. k : SubSeq(s, 1, k)[i] = s[i]
<1>1. s \in Seq(ToSet(s)) /\ Len(s) \in Nat
  BY SeqDomain DEF IsSeq
<1>2. /\ SubSeq(s, 1, k) \in Seq(ToSet(s)) /\ Len(SubSeq(s, 1, k)) = k
      /\ \A i \in 1 .. k : SubSeq(s, 1, k)[i] = s[i]
  BY <1>1, SubSeqProperties
<1> QED
  BY <1>2, FunctionIsSeq, LenProperties

(* What remains of a sequence is of that sequence.                         *)
Only(t, s) == \A i \in DOMAIN t : \E j \in DOMAIN s : t[i] = s[j]

LEMMA RemoveAtSeq ==
  ASSUME NEW s, IsSeq(s), NEW i \in DOMAIN s
  PROVE  IsSeq(RemoveAt(s, i)) /\ Only(RemoveAt(s, i), s)
<1> DEFINE S == ToSet(s)
           a == SubSeq(s, 1, i - 1)
           b == SubSeq(s, i + 1, Len(s))
<1>1. s \in Seq(S) /\ Len(s) \in Nat /\ i \in 1 .. Len(s) /\ DOMAIN s = 1 .. Len(s)
  BY SeqDomain DEF IsSeq
<1>2. \A k \in 1 .. Len(s) : s[k] \in S
  BY <1>1, LenProperties
<1>3. a \in Seq(S)
  <2>1. \A k \in 1 .. i - 1 : s[k] \in S
    BY <1>1, <1>2
  <2> QED
    BY <1>1, <2>1, SubSeqProperties
<1>4. b \in Seq(S)
  <2>1. \A k \in i + 1 .. Len(s) : s[k] \in S
    BY <1>1, <1>2
  <2> QED
    BY <1>1, <2>1, SubSeqProperties
<1> DEFINE t == a \o b
<1>5. t \in Seq(S)
  <2> HIDE DEF a, b
  <2> QED
    BY <1>3, <1>4, ConcatProperties
<1>6. RemoveAt(s, i) = t
  BY DEF RemoveAt
<1> HIDE DEF t
<1>7. Only(t, s)
  <2>1. \A k \in DOMAIN t : t[k] \in S
    BY <1>5, LenProperties
  <2> QED
    BY <2>1 DEF Only, ToSet
<1> QED
  BY <1>5, <1>6, <1>7, FunctionIsSeq, LenProperties

LEMMA ReplacedSeq ==
  ASSUME NEW s, IsSeq(s), NEW S, NEW t \in [DOMAIN s -> S]
  PROVE  IsSeq(t)
<1>1. DOMAIN s = 1 .. Len(s) /\ Len(s) \in Nat
  BY SeqDomain
<1> QED
  BY <1>1, FunctionIsSeq

LEMMA SingletonSeq ==
  ASSUME NEW x
  PROVE  IsSeq(<<x>>) /\ DOMAIN <<x>> = {1} /\ <<x>>[1] = x
<1>1. <<x>> \in [1 .. 1 -> {x}]
  OBVIOUS
<1>2. IsSeq(<<x>>)
  BY <1>1, FunctionIsSeq
<1> QED
  BY <1>2

LEMMA NothingSeq == IsSeq(<< >>) /\ DOMAIN << >> = {} /\ Len(<< >>) = 0
<1>1. IsSeq(<< >>)
  BY EmptySeq DEF IsSeq
<1> QED
  BY <1>1, EmptySeq

-----------------------------------------------------------------------------
(***************************************************************************)
(* Merkle trees.                                                           *)
(***************************************************************************)
Tree(f, n, leaves) ==
    f = [k \in 0 .. n |-> IF k = 0 THEN [i \in DOMAIN leaves |-> <<"leaf", leaves[i]>>]
                          ELSE Paired(f[k - 1])]

(* There is a tree of any height: each level is built on the one below.    *)
LEMMA TreeExists ==
  ASSUME NEW leaves, NEW n \in Nat
  PROVE  \E f : Tree(f, n, leaves)
<1> DEFINE Good == {m \in 0 .. n : \E f : Tree(f, m, leaves)}
           base == [i \in DOMAIN leaves |-> <<"leaf", leaves[i]>>]
<1>1. 0 \in Good
  <2>1. PICK f : f = [k \in 0 .. 0 |-> base]
    OBVIOUS
  <2>2. Tree(f, 0, leaves)
    BY <2>1 DEF Tree
  <2> QED
    BY <2>2
<1>2. ASSUME NEW l \in 0 .. n, l # n, l \in Good PROVE l + 1 \in Good
  <2>1. PICK m : m = l + 1
    OBVIOUS
  <2>2. m \in 1 .. n /\ m - 1 = l /\ l \in Nat
    BY <1>2, <2>1
  <2>3. PICK f : Tree(f, l, leaves)
    BY <1>2
  <2>4. PICK g : g = [k \in 0 .. m |-> IF k = m THEN Paired(f[l]) ELSE f[k]]
    OBVIOUS
  <2>5. ASSUME NEW k \in 0 .. m
        PROVE  g[k] = IF k = 0 THEN base ELSE Paired(g[k - 1])
    <3>1. CASE k = m
      <4>1. k # 0 /\ k - 1 \in 0 .. m /\ k - 1 # m /\ k - 1 = l
        BY <2>2, <3>1
      <4> QED
        BY <2>4, <3>1, <4>1
    <3>2. CASE k # m
      <4>1. k \in 0 .. l /\ (k # 0 => k - 1 \in 0 .. m /\ k - 1 # m)
        BY <2>2, <3>2
      <4>2. f[k] = IF k = 0 THEN base ELSE Paired(f[k - 1])
        BY <2>3, <4>1 DEF Tree
      <4> QED
        BY <2>4, <3>2, <4>1, <4>2
    <3> QED
      BY <3>1, <3>2
  <2>6. g = [k \in 0 .. m |-> g[k]]
    BY <2>4
  <2>7. Tree(g, m, leaves)
    <3> HIDE DEF base
    <3>1. g = [k \in 0 .. m |-> IF k = 0 THEN base ELSE Paired(g[k - 1])]
      BY <2>5, <2>6
    <3> QED
      BY <3>1 DEF Tree, base
  <2> QED
    BY <2>1, <2>2, <2>7
<1>3. 0 .. n \subseteq Good
  <2> HIDE DEF Good
  <2> QED
    BY <1>1, <1>2, NumbersUpTo
<1>4. n \in Good
  BY <1>3
<1> QED
  BY <1>4

LEMMA RootOfTree ==
  ASSUME NEW leaves, Len(leaves) \in Nat
  PROVE  \E f : Tree(f, Len(leaves), leaves) /\ MerkleRoot(leaves) = f[Len(leaves)][1]
<1>1. PICK f : f = CHOOSE t : Tree(t, Len(leaves), leaves)
  OBVIOUS
<1>2. Tree(f, Len(leaves), leaves)
  BY <1>1, TreeExists
<1>3. MerkleRoot(leaves) = f[Len(leaves)][1]
  BY <1>1, Zenon DEF MerkleRoot, Tree
<1> QED
  BY <1>2, <1>3

LEMMA PairedSeq ==
  ASSUME NEW s, IsSeq(s)
  PROVE  /\ IsSeq(Paired(s)) /\ Len(Paired(s)) = (Len(s) + 1) \div 2
         /\ \A i \in 1 .. (Len(s) + 1) \div 2 :
               Paired(s)[i] = IF 2 * i <= Len(s) THEN <<"node", s[2 * i - 1], s[2 * i]>>
                              ELSE s[2 * i - 1]
<1>1. PICK n, t : n = (Len(s) + 1) \div 2 /\ t = Paired(s)
  OBVIOUS
<1>2. n \in Nat
  BY <1>1, SeqDomain
<1>3. /\ DOMAIN t = 1 .. n /\ t = [i \in 1 .. n |-> t[i]]
      /\ \A i \in 1 .. n : t[i] = IF 2 * i <= Len(s) THEN <<"node", s[2 * i - 1], s[2 * i]>>
                                  ELSE s[2 * i - 1]
  BY <1>1 DEF Paired
<1>4. PICK S : S = {t[i] : i \in 1 .. n}
  OBVIOUS
<1>5. t \in [1 .. n -> S]
  BY <1>3, <1>4
<1>6. IsSeq(t) /\ Len(t) = n
  BY <1>2, <1>5, FunctionIsSeq
<1> QED
  BY <1>1, <1>3, <1>6

LEMMA PairedOne ==
  ASSUME NEW s, IsSeq(s), Len(s) = 1
  PROVE  Len(Paired(s)) = 1 /\ Paired(s)[1] = s[1]
<1>1. (1 + 1) \div 2 = 1 /\ 1 \in 1 .. 1 /\ ~ (2 * 1 <= 1) /\ 2 * 1 - 1 = 1
  OBVIOUS
<1>2. Len(Paired(s)) = (1 + 1) \div 2
  BY PairedSeq
<1>3. Paired(s)[1] = s[2 * 1 - 1]
  BY <1>1, PairedSeq
<1> QED
  BY <1>1, <1>2, <1>3

LEMMA PairedDiffer ==
  ASSUME NEW s, NEW t, IsSeq(s), IsSeq(t), Len(s) = Len(t), Paired(s) = Paired(t)
  PROVE  s = t
<1>1. PICK n : n = Len(s)
  OBVIOUS
<1>2. n \in Nat /\ DOMAIN s = 1 .. n /\ DOMAIN t = 1 .. n
  BY <1>1, SeqDomain
<1>3. ASSUME NEW j \in 1 .. n PROVE s[j] = t[j]
  <2>1. PICK i : i = (j + 1) \div 2
    OBVIOUS
  <2>2. /\ i \in 1 .. (n + 1) \div 2
        /\ j = 2 * i - 1 \/ (j = 2 * i /\ 2 * i <= n)
    BY <1>2, <2>1
  <2>3. (IF 2 * i <= n THEN <<"node", s[2 * i - 1], s[2 * i]>> ELSE s[2 * i - 1])
          = (IF 2 * i <= n THEN <<"node", t[2 * i - 1], t[2 * i]>> ELSE t[2 * i - 1])
    BY <1>1, <2>2, PairedSeq
  <2> QED
    BY <2>2, <2>3
<1>4. s = [j \in DOMAIN s |-> s[j]] /\ t = [j \in DOMAIN t |-> t[j]]
  <2>1. s \in Seq(ToSet(s)) /\ t \in Seq(ToSet(t))
    BY DEF IsSeq
  <2> QED
    BY <2>1, LenProperties
<1> QED
  BY <1>2, <1>3, <1>4

(* Each level is shorter than the one below, down to one node.             *)
LEMMA LevelsShrink ==
  ASSUME NEW leaves, IsSeq(leaves), Len(leaves) # 0,
         NEW n \in Nat, NEW f, Tree(f, n, leaves)
  PROVE  \A k \in 0 .. n : /\ IsSeq(f[k]) /\ Len(f[k]) \in Nat /\ Len(f[k]) # 0
                           /\ Len(f[k]) = 1 \/ Len(f[k]) + k <= Len(leaves)
<1> DEFINE Good == {k \in 0 .. n : /\ IsSeq(f[k]) /\ Len(f[k]) \in Nat /\ Len(f[k]) # 0
                                   /\ Len(f[k]) = 1 \/ Len(f[k]) + k <= Len(leaves)}
<1>1. 0 \in Good
  <2>1. PICK m, t : m = Len(leaves) /\ t = f[0]
    OBVIOUS
  <2>2. m \in Nat /\ DOMAIN leaves = 1 .. m
    BY <2>1, SeqDomain
  <2>3. t = [i \in 1 .. m |-> <<"leaf", leaves[i]>>]
    BY <2>1, <2>2 DEF Tree
  <2>4. PICK S : S = {<<"leaf", leaves[i]>> : i \in 1 .. m}
    OBVIOUS
  <2>5. t \in [1 .. m -> S]
    BY <2>3, <2>4
  <2>6. IsSeq(t) /\ Len(t) = m
    BY <2>2, <2>5, FunctionIsSeq
  <2> QED
    BY <2>1, <2>2, <2>6
<1>2. ASSUME NEW k \in 0 .. n, k # n, k \in Good PROVE k + 1 \in Good
  <2>1. PICK m, l, t : m = Len(f[k]) /\ l = Len(leaves) /\ t = f[k + 1]
    OBVIOUS
  <2>2. IsSeq(f[k]) /\ m \in Nat /\ m # 0 /\ (m = 1 \/ m + k <= l) /\ l \in Nat
    BY <1>2, <2>1, SeqDomain
  <2>3. k + 1 \in 0 .. n /\ k + 1 # 0 /\ (k + 1) - 1 = k
    BY <1>2
  <2>4. t = Paired(f[k])
    BY <2>1, <2>3 DEF Tree
  <2>5. IsSeq(t) /\ Len(t) = (m + 1) \div 2
    BY <2>1, <2>2, <2>4, PairedSeq
  <2>6. /\ (m + 1) \div 2 \in Nat /\ (m + 1) \div 2 # 0
        /\ (m + 1) \div 2 = 1 \/ (m + 1) \div 2 + (k + 1) <= l
    BY <2>2
  <2> QED
    BY <2>1, <2>3, <2>5, <2>6
<1>3. 0 .. n \subseteq Good
  <2> HIDE DEF Good
  <2> QED
    BY <1>1, <1>2, NumbersUpTo
<1> QED
  BY <1>3

(* Trees of the same leaves differ in height only.                         *)
LEMMA TreesAgree ==
  ASSUME NEW leaves, NEW n \in Nat, NEW f, Tree(f, n, leaves),
         NEW m \in Nat, n <= m, NEW g, Tree(g, m, leaves)
  PROVE  \A k \in 0 .. n : f[k] = g[k]
<1> DEFINE Good == {k \in 0 .. n : f[k] = g[k]}
<1>1. 0 \in Good
  BY DEF Tree
<1>2. ASSUME NEW k \in 0 .. n, k # n, k \in Good PROVE k + 1 \in Good
  <2>1. /\ k + 1 \in 0 .. n /\ k + 1 \in 0 .. m /\ k + 1 # 0 /\ (k + 1) - 1 = k
    BY <1>2
  <2>2. f[k + 1] = Paired(f[k]) /\ g[k + 1] = Paired(g[k])
    BY <2>1 DEF Tree
  <2> QED
    BY <1>2, <2>1, <2>2
<1>3. 0 .. n \subseteq Good
  <2> HIDE DEF Good
  <2> QED
    BY <1>1, <1>2, NumbersUpTo
<1> QED
  BY <1>3

LEMMA SameSeq ==
  ASSUME NEW s, NEW t, IsSeq(s), IsSeq(t), DOMAIN s = DOMAIN t,
         \A i \in DOMAIN s : s[i] = t[i]
  PROVE  s = t
<1>1. s \in Seq(ToSet(s)) /\ t \in Seq(ToSet(t))
  BY DEF IsSeq
<1>2. s = [i \in DOMAIN s |-> s[i]] /\ t = [i \in DOMAIN t |-> t[i]]
  BY <1>1, LenProperties
<1> QED
  BY <1>2

(* A tree may be higher than it needs to be: its top is the root.          *)
LEMMA TallTree ==
  ASSUME NEW leaves, IsSeq(leaves), Len(leaves) # 0, NEW n \in Nat, Len(leaves) <= n
  PROVE  \E f : /\ Tree(f, n, leaves)
                /\ Len(f[n]) = 1 /\ f[n][1] = MerkleRoot(leaves)
<1>1. PICK l : l = Len(leaves)
  OBVIOUS
<1>2. l \in Nat /\ l # 0 /\ l <= n
  BY <1>1, SeqDomain
<1>3. PICK f : Tree(f, n, leaves)
  BY TreeExists
<1>4. PICK g : Tree(g, l, leaves) /\ MerkleRoot(leaves) = g[l][1]
  BY <1>1, <1>2, RootOfTree
<1>5. f[l] = g[l]
  <2>1. \A k \in 0 .. l : g[k] = f[k]
    BY <1>2, <1>3, <1>4, TreesAgree
  <2>2. l \in 0 .. l
    BY <1>2
  <2> QED
    BY <2>1, <2>2
<1>6. \A k \in 0 .. n : /\ IsSeq(f[k]) /\ Len(f[k]) \in Nat /\ Len(f[k]) # 0
                        /\ Len(f[k]) = 1 \/ Len(f[k]) + k <= l
  BY <1>1, <1>2, <1>3, LevelsShrink
<1> DEFINE Good == {k \in 0 .. n : k >= l => Len(f[k]) = 1 /\ f[k][1] = f[l][1]}
<1>7. 0 \in Good
  BY <1>2
<1>8. ASSUME NEW k \in 0 .. n, k # n, k \in Good PROVE k + 1 \in Good
  <2>1. k + 1 \in 0 .. n /\ k + 1 # 0 /\ (k + 1) - 1 = k /\ k \in Nat
    BY <1>8
  <2>2. CASE k + 1 < l
    BY <2>1, <2>2, <1>2
  <2>3. CASE k + 1 = l
    <3>1. PICK x : x = Len(f[l])
      OBVIOUS
    <3>2. x \in Nat /\ x # 0 /\ (x = 1 \/ x + l <= l)
      BY <1>6, <2>1, <2>3, <3>1
    <3>3. x = 1
      BY <1>2, <3>2
    <3> QED
      BY <2>1, <2>3, <3>1, <3>3
  <2>4. CASE k + 1 > l
    <3>1. k >= l
      BY <1>2, <2>1, <2>4
    <3>2. Len(f[k]) = 1 /\ f[k][1] = f[l][1] /\ IsSeq(f[k])
      BY <1>6, <1>8, <3>1
    <3>3. f[k + 1] = Paired(f[k])
      BY <1>3, <2>1 DEF Tree
    <3>4. PICK s : s = f[k]
      OBVIOUS
    <3>5. Len(f[k + 1]) = 1 /\ f[k + 1][1] = f[k][1]
      BY <3>2, <3>3, <3>4, PairedOne
    <3> QED
      BY <2>1, <3>2, <3>5
  <2> QED
    BY <1>2, <2>1, <2>2, <2>3, <2>4
<1>9. 0 .. n \subseteq Good
  <2> HIDE DEF Good
  <2> QED
    BY <1>7, <1>8, NumbersUpTo
<1>10. n \in 0 .. n /\ n >= l
  BY <1>2
<1>11. Len(f[n]) = 1 /\ f[n][1] = f[l][1]
  BY <1>9, <1>10
<1> QED
  BY <1>3, <1>4, <1>5, <1>11

(* Each node of a level but the last is a pair of such nodes below.        *)
Inner(f, n) ==
    \A k \in 0 .. n : k # 0 =>
        \A i \in 1 .. Len(f[k]) - 1 :
            /\ 2 * i - 1 \in 1 .. Len(f[k - 1]) - 1
            /\ f[k][i] = <<"node", f[k - 1][2 * i - 1], f[k - 1][2 * i]>>

LEMMA InnerNode ==
  ASSUME NEW leaves, IsSeq(leaves), Len(leaves) # 0,
         NEW n \in Nat, NEW f, Tree(f, n, leaves)
  PROVE  Inner(f, n)
<1> SUFFICES ASSUME NEW k \in 0 .. n, k # 0, NEW i \in 1 .. Len(f[k]) - 1
             PROVE  /\ 2 * i - 1 \in 1 .. Len(f[k - 1]) - 1
                    /\ f[k][i] = <<"node", f[k - 1][2 * i - 1], f[k - 1][2 * i]>>
  BY DEF Inner
<1>1. k - 1 \in 0 .. n
  OBVIOUS
<1>2. PICK s, m : s = f[k - 1] /\ m = Len(s)
  OBVIOUS
<1>3. IsSeq(s) /\ m \in Nat
  BY <1>1, <1>2, LevelsShrink
<1>4. f[k] = Paired(s)
  BY <1>2 DEF Tree
<1>5. Len(f[k]) = (m + 1) \div 2
  BY <1>2, <1>3, <1>4, PairedSeq
<1>6. i \in 1 .. (m + 1) \div 2 - 1
  BY <1>5
<1>7. /\ i \in 1 .. (m + 1) \div 2 /\ 2 * i <= m /\ 2 * i - 1 \in 1 .. m - 1
  BY <1>3, <1>6
<1>8. f[k][i] = <<"node", s[2 * i - 1], s[2 * i]>>
  BY <1>2, <1>3, <1>4, <1>7, PairedSeq
<1> QED
  BY <1>2, <1>7, <1>8

(* The last node of a level is a leaf or was paired somewhere below.       *)
EndsInPair(f, n) ==
    \A k \in 0 .. n :
        \/ \E z : f[k][Len(f[k])] = <<"leaf", z>>
        \/ \E l \in 0 .. n : \E j \in 1 .. Len(f[l]) - 1 :
             l < k /\ \E z : f[k][Len(f[k])] = <<"node", f[l][j], z>>

LEMMA LastNode ==
  ASSUME NEW leaves, IsSeq(leaves), Len(leaves) # 0,
         NEW n \in Nat, NEW f, Tree(f, n, leaves)
  PROVE  EndsInPair(f, n)
<1> DEFINE Good == {k \in 0 .. n :
                      \/ \E z : f[k][Len(f[k])] = <<"leaf", z>>
                      \/ \E l \in 0 .. n : \E j \in 1 .. Len(f[l]) - 1 :
                           l < k /\ \E z : f[k][Len(f[k])] = <<"node", f[l][j], z>>}
<1>1. 0 \in Good
  <2>1. PICK m, t : m = Len(leaves) /\ t = f[0]
    OBVIOUS
  <2>2. m \in 1 .. m /\ DOMAIN leaves = 1 .. m
    BY <2>1, SeqDomain
  <2>3. t = [i \in 1 .. m |-> <<"leaf", leaves[i]>>]
    BY <2>1, <2>2 DEF Tree
  <2>4. IsSeq(t)
    BY <2>1, LevelsShrink
  <2>5. DOMAIN t = 1 .. Len(t) /\ Len(t) \in Nat /\ Len(t) # 0
    BY <2>1, <2>4, LevelsShrink, SeqDomain
  <2>6. Len(t) \in 1 .. m
    <3>1. DOMAIN t = 1 .. m
      BY <2>3
    <3>2. PICK d : d = Len(t)
      OBVIOUS
    <3>3. d \in 1 .. d
      BY <2>5, <3>2
    <3> QED
      BY <2>5, <3>1, <3>2, <3>3
  <2>7. t[Len(t)] = <<"leaf", leaves[Len(t)]>>
    BY <2>3, <2>6
  <2> QED
    BY <2>1, <2>7
<1>2. ASSUME NEW k \in 0 .. n, k # n, k \in Good PROVE k + 1 \in Good
  <2>1. PICK s, t, m, x : s = f[k] /\ t = f[k + 1] /\ m = Len(s) /\ x = t[Len(t)]
    OBVIOUS
  <2>2. k + 1 \in 0 .. n /\ k + 1 # 0 /\ (k + 1) - 1 = k /\ k < k + 1 /\ k \in Nat
    BY <1>2
  <2>3. IsSeq(s) /\ m \in Nat /\ m # 0
    BY <2>1, LevelsShrink
  <2>4. t = Paired(s)
    BY <2>1, <2>2 DEF Tree
  <2>5. PICK l : l = (m + 1) \div 2
    OBVIOUS
  <2>6. l \in 1 .. (m + 1) \div 2 /\ (2 * l <= m \/ 2 * l - 1 = m)
    BY <2>3, <2>5
  <2>7. Len(t) = l /\ x = IF 2 * l <= m THEN <<"node", s[2 * l - 1], s[2 * l]>> ELSE s[2 * l - 1]
    <3>1. Len(t) = l
      BY <2>1, <2>3, <2>4, <2>5, PairedSeq
    <3>2. t[l] = IF 2 * l <= m THEN <<"node", s[2 * l - 1], s[2 * l]>> ELSE s[2 * l - 1]
      BY <2>1, <2>3, <2>4, <2>6, PairedSeq
    <3> QED
      BY <2>1, <3>1, <3>2
  <2>8. CASE 2 * l <= m
    <3>1. 2 * l - 1 \in 1 .. m - 1
      BY <2>3, <2>6, <2>8
    <3>2. x = <<"node", f[k][2 * l - 1], s[2 * l]>>
      BY <2>1, <2>7, <2>8
    <3> QED
      BY <2>1, <2>2, <3>1, <3>2
  <2>9. CASE ~ (2 * l <= m)
    <3>1. x = f[k][Len(f[k])]
      BY <2>1, <2>6, <2>7, <2>9
    <3>2. \A d \in 0 .. n : d < k => d < k + 1
      BY <2>2
    <3> QED
      BY <1>2, <2>1, <2>2, <3>1, <3>2
  <2> QED
    BY <2>8, <2>9
<1>3. 0 .. n \subseteq Good
  <2> HIDE DEF Good
  <2> QED
    BY <1>1, <1>2, NumbersUpTo
<1> QED
  BY <1>3 DEF EndsInPair

(* No node but a last one occurs on two levels, be it of two trees.        *)
Apart(f, g, n) ==
    \A l \in 0 .. n : \A k \in 0 .. n :
        \A i \in 1 .. Len(f[k]) - 1, j \in 1 .. Len(g[l]) - 1 : l < k => f[k][i] # g[l][j]

LEMMA InnerNodesDiffer ==
  ASSUME NEW a, IsSeq(a), Len(a) # 0, NEW b, IsSeq(b), Len(b) # 0, NEW n \in Nat,
         NEW f, Tree(f, n, a), NEW g, Tree(g, n, b)
  PROVE  Apart(f, g, n)
<1> DEFINE Good == {l \in 0 .. n : \A k \in 0 .. n :
                      \A i \in 1 .. Len(f[k]) - 1, j \in 1 .. Len(g[l]) - 1 :
                        l < k => f[k][i] # g[l][j]}
<1>a. Inner(f, n)
  BY InnerNode
<1>b. Inner(g, n)
  BY InnerNode
<1>1. 0 \in Good
  <2>1. ASSUME NEW k \in 0 .. n, NEW i \in 1 .. Len(f[k]) - 1, NEW j \in 1 .. Len(g[0]) - 1, 0 < k
        PROVE  f[k][i] # g[0][j]
    <3>1. PICK x, y : f[k][i] = <<"node", x, y>>
      <4>1. k # 0
        BY <2>1
      <4> QED
        BY <2>1, <4>1, <1>a DEF Inner
    <3>2. PICK z : g[0][j] = <<"leaf", z>>
      <4>1. PICK m, t : m = Len(b) /\ t = g[0]
        OBVIOUS
      <4>2. DOMAIN b = 1 .. m
        BY <4>1, SeqDomain
      <4>3. t = [d \in 1 .. m |-> <<"leaf", b[d]>>]
        BY <4>1, <4>2 DEF Tree
      <4>4. 0 \in 0 .. n
        OBVIOUS
      <4>5. IsSeq(t) /\ Len(t) \in Nat
        BY <4>1, <4>4, LevelsShrink
      <4>6. DOMAIN t = 1 .. Len(t)
        BY <4>5, SeqDomain
      <4>7. j \in 1 .. Len(t)
        BY <4>1, <4>5
      <4> QED
        BY <4>1, <4>3, <4>6, <4>7
    <3> QED
      BY <3>1, <3>2
  <2> QED
    BY <2>1
<1>2. ASSUME NEW l \in 0 .. n, l # n, l \in Good PROVE l + 1 \in Good
  <2>1. l + 1 \in 0 .. n /\ l + 1 # 0 /\ (l + 1) - 1 = l /\ l \in Nat
    BY <1>2
  <2>2. ASSUME NEW k \in 0 .. n, NEW i \in 1 .. Len(f[k]) - 1,
               NEW j \in 1 .. Len(g[l + 1]) - 1, l + 1 < k, f[k][i] = g[l + 1][j]
        PROVE  FALSE
    <3>1. k # 0 /\ k - 1 \in 0 .. n /\ l < k - 1
      BY <2>1, <2>2
    <3>2. /\ 2 * i - 1 \in 1 .. Len(f[k - 1]) - 1
          /\ f[k][i] = <<"node", f[k - 1][2 * i - 1], f[k - 1][2 * i]>>
      BY <3>1, <1>a DEF Inner
    <3>3. /\ 2 * j - 1 \in 1 .. Len(g[l]) - 1
          /\ g[l + 1][j] = <<"node", g[l][2 * j - 1], g[l][2 * j]>>
      <4>1. PICK k1 : k1 = l + 1
        OBVIOUS
      <4>2. k1 \in 0 .. n /\ k1 # 0 /\ k1 - 1 = l /\ j \in 1 .. Len(g[k1]) - 1
        BY <2>1, <4>1
      <4>3. /\ 2 * j - 1 \in 1 .. Len(g[k1 - 1]) - 1
            /\ g[k1][j] = <<"node", g[k1 - 1][2 * j - 1], g[k1 - 1][2 * j]>>
        BY <4>2, <1>b DEF Inner
      <4> QED
        BY <4>1, <4>2, <4>3
    <3>4. f[k - 1][2 * i - 1] = g[l][2 * j - 1]
      <4>1. <<"node", f[k - 1][2 * i - 1], f[k - 1][2 * i]>>
              = <<"node", g[l][2 * j - 1], g[l][2 * j]>>
        BY Zenon, <2>2, <3>2, <3>3
      <4> QED
        BY <4>1
    <3> QED
      BY <1>2, <3>1, <3>2, <3>3, <3>4
  <2> QED
    BY <2>1, <2>2
<1>3. 0 .. n \subseteq Good
  <2> HIDE DEF Good
  <2> QED
    BY <1>1, <1>2, NumbersUpTo
<1> QED
  BY <1>3 DEF Apart

(* A level of 2 * l nodes and one of 2 * l - 1 have different levels above *)
(* them: the promoted node would be the pair that ends the other level.    *)
LEMMA NoTwin ==
  ASSUME NEW a, IsSeq(a), Len(a) # 0, NEW b, IsSeq(b), Len(b) # 0, NEW n \in Nat,
         NEW f, Tree(f, n, a), NEW g, Tree(g, n, b),
         NEW k \in 0 .. n, k # n, NEW l \in Nat,
         Len(f[k]) = 2 * l, Len(g[k]) = 2 * l - 1, f[k + 1] = g[k + 1]
  PROVE  FALSE
<1>1. EndsInPair(g, n)
  BY LastNode
<1>2. Apart(f, g, n)
  BY InnerNodesDiffer
<1>3. PICK s, t : s = f[k] /\ t = g[k]
  OBVIOUS
<1>4. IsSeq(s) /\ Len(s) = 2 * l /\ Len(s) # 0
  BY <1>3, LevelsShrink
<1>5. IsSeq(t) /\ Len(t) = 2 * l - 1
  BY <1>3, LevelsShrink
<1>6. k + 1 \in 0 .. n /\ k + 1 # 0 /\ (k + 1) - 1 = k
  OBVIOUS
<1>7. f[k + 1] = Paired(s) /\ g[k + 1] = Paired(t)
  BY <1>3, <1>6 DEF Tree
<1>8. /\ l \in 1 .. (2 * l + 1) \div 2 /\ l \in 1 .. ((2 * l - 1) + 1) \div 2
      /\ 2 * l <= 2 * l /\ ~ (2 * l <= 2 * l - 1) /\ 2 * l - 1 \in 1 .. 2 * l - 1
  <2>1. l # 0
    BY <1>4
  <2> QED
    BY <2>1
<1>9. Paired(s)[l] = <<"node", s[2 * l - 1], s[2 * l]>>
  BY <1>4, <1>8, PairedSeq
<1>10. Paired(t)[l] = t[2 * l - 1]
  BY <1>5, <1>8, PairedSeq
<1>11. g[k][Len(g[k])] = <<"node", f[k][2 * l - 1], f[k][2 * l]>>
  BY <1>3, <1>5, <1>7, <1>9, <1>10
<1>12. \A q \in 0 .. n : \A j \in 1 .. Len(g[q]) - 1 : q < k => f[k][2 * l - 1] # g[q][j]
  BY <1>2, <1>8 DEF Apart
<1>13. CASE \E z : g[k][Len(g[k])] = <<"leaf", z>>
  BY <1>11, <1>13
<1>14. CASE \E q \in 0 .. n : \E j \in 1 .. Len(g[q]) - 1 :
              q < k /\ \E z : g[k][Len(g[k])] = <<"node", g[q][j], z>>
  <2>1. PICK q \in 0 .. n : \E j \in 1 .. Len(g[q]) - 1 :
          q < k /\ \E z : g[k][Len(g[k])] = <<"node", g[q][j], z>>
    BY <1>14
  <2>2. PICK j \in 1 .. Len(g[q]) - 1 :
          q < k /\ \E z : g[k][Len(g[k])] = <<"node", g[q][j], z>>
    BY <2>1
  <2>3. PICK z : g[k][Len(g[k])] = <<"node", g[q][j], z>>
    BY <2>2
  <2>4. f[k][2 * l - 1] = g[q][j]
    BY <1>11, <2>3
  <2> QED
    BY <1>12, <2>2, <2>4
<1> QED
  BY <1>1, <1>13, <1>14 DEF EndsInPair

(* Levels of one length differ unless those below them are equal; levels   *)
(* of different lengths never come from equal levels above.                *)
LEMMA LevelBelow ==
  ASSUME NEW a, IsSeq(a), Len(a) # 0, NEW b, IsSeq(b), Len(b) # 0, NEW n \in Nat,
         NEW f, Tree(f, n, a), NEW g, Tree(g, n, b),
         NEW k \in 0 .. n, k # n, f[k + 1] = g[k + 1]
  PROVE  f[k] = g[k]
<1>1. PICK s, t, x, y : s = f[k] /\ t = g[k] /\ x = Len(f[k]) /\ y = Len(g[k])
  OBVIOUS
<1>2. IsSeq(s) /\ Len(s) = x /\ x \in Nat
  BY <1>1, LevelsShrink
<1>3. IsSeq(t) /\ Len(t) = y /\ y \in Nat
  BY <1>1, LevelsShrink
<1>4. k + 1 \in 0 .. n /\ k + 1 # 0 /\ (k + 1) - 1 = k
  OBVIOUS
<1>5. f[k + 1] = Paired(s) /\ g[k + 1] = Paired(t)
  BY <1>1, <1>4 DEF Tree
<1>6. Paired(s) = Paired(t)
  BY <1>5
<1>7. (x + 1) \div 2 = (y + 1) \div 2
  <2>1. Len(Paired(s)) = (x + 1) \div 2
    BY <1>2, PairedSeq
  <2>2. Len(Paired(t)) = (y + 1) \div 2
    BY <1>3, PairedSeq
  <2> QED
    BY <1>6, <2>1, <2>2
<1>8. PICK l : l = (x + 1) \div 2
  OBVIOUS
<1>9. l \in Nat /\ (x = y \/ (x = 2 * l /\ y = 2 * l - 1) \/ (y = 2 * l /\ x = 2 * l - 1))
  BY <1>2, <1>3, <1>7, <1>8
<1>10. CASE x = y
  BY <1>1, <1>2, <1>3, <1>6, <1>10, PairedDiffer
<1>11. CASE x = 2 * l /\ y = 2 * l - 1
  <2>1. l \in Nat /\ Len(f[k]) = 2 * l /\ Len(g[k]) = 2 * l - 1
    BY <1>1, <1>9, <1>11
  <2> QED
    BY <2>1, NoTwin
<1>12. CASE y = 2 * l /\ x = 2 * l - 1
  <2>1. l \in Nat /\ Len(g[k]) = 2 * l /\ Len(f[k]) = 2 * l - 1 /\ g[k + 1] = f[k + 1]
    BY <1>1, <1>9, <1>12
  <2> QED
    BY <2>1, NoTwin
<1> QED
  BY <1>9, <1>10, <1>11, <1>12

LEMMA SeqNotEmpty ==
  ASSUME NEW S, NEW a \in Seq(S), a # <<>>
  PROVE  IsSeq(a) /\ Len(a) \in Nat /\ Len(a) # 0
<1>1. Len(a) \in Nat /\ a \in [1 .. Len(a) -> S]
  BY LenProperties
<1>2. IsSeq(a)
  BY <1>1, FunctionIsSeq
<1>3. Len(a) # 0
  BY EmptySeq
<1> QED
  BY <1>1, <1>2, <1>3

(* A root stands for one batch (merkle_root's second precaution: an odd    *)
(* node is promoted, never duplicated): two batches with one root are the  *)
(* same records in the same order, and as many of them.                    *)
THEOREM RootDetermines ==
  ASSUME NEW S, NEW a \in Seq(S), NEW b \in Seq(S), a # <<>>, b # <<>>,
         MerkleRoot(a) = MerkleRoot(b)
  PROVE  a = b
<1>1. IsSeq(a) /\ Len(a) \in Nat /\ Len(a) # 0
  BY SeqNotEmpty
<1>2. IsSeq(b) /\ Len(b) \in Nat /\ Len(b) # 0
  BY SeqNotEmpty
<1>3. PICK n \in Nat : Len(a) <= n /\ Len(b) <= n
  <2>1. PICK x, y : x = Len(a) /\ y = Len(b)
    OBVIOUS
  <2>2. x + y \in Nat /\ x <= x + y /\ y <= x + y
    BY <1>1, <1>2, <2>1
  <2> QED
    BY <2>1, <2>2
<1>4. PICK f : Tree(f, n, a) /\ Len(f[n]) = 1 /\ f[n][1] = MerkleRoot(a)
  BY <1>1, <1>3, TallTree
<1>5. PICK g : Tree(g, n, b) /\ Len(g[n]) = 1 /\ g[n][1] = MerkleRoot(b)
  BY <1>2, <1>3, TallTree
<1>6. f[n] = g[n]
  <2>1. PICK s, t : s = f[n] /\ t = g[n]
    OBVIOUS
  <2>2. n \in 0 .. n
    OBVIOUS
  <2>3. IsSeq(s) /\ Len(s) = 1
    BY <1>1, <1>4, <2>1, <2>2, LevelsShrink
  <2>4. IsSeq(t) /\ Len(t) = 1
    BY <1>2, <1>5, <2>1, <2>2, LevelsShrink
  <2>5. DOMAIN s = 1 .. 1 /\ DOMAIN t = 1 .. 1
    BY <2>3, <2>4, SeqDomain
  <2>6. s[1] = t[1]
    BY <1>4, <1>5, <2>1
  <2>7. DOMAIN s = DOMAIN t /\ \A i \in DOMAIN s : s[i] = t[i]
    BY <2>5, <2>6
  <2>8. s = t
    BY <2>3, <2>4, <2>7, SameSeq
  <2> QED
    BY <2>1, <2>8
<1> DEFINE Good == {d \in 0 .. n : f[n - d] = g[n - d]}
<1>7. 0 \in Good
  BY <1>6
<1>8. ASSUME NEW d \in 0 .. n, d # n, d \in Good PROVE d + 1 \in Good
  <2>1. PICK k : k = n - (d + 1)
    OBVIOUS
  <2>2. k \in 0 .. n /\ k # n /\ k + 1 = n - d /\ d + 1 \in 0 .. n
    BY <1>8, <2>1
  <2>3. f[k + 1] = g[k + 1]
    BY <1>8, <2>2
  <2>4. f[k] = g[k]
    BY <1>1, <1>2, <1>4, <1>5, <2>2, <2>3, LevelBelow
  <2> QED
    BY <2>1, <2>2, <2>4
<1>9. 0 .. n \subseteq Good
  <2> HIDE DEF Good
  <2> QED
    BY <1>7, <1>8, NumbersUpTo
<1>10. f[0] = g[0]
  <2>1. n \in 0 .. n /\ n - n = 0
    OBVIOUS
  <2> QED
    BY <1>9, <2>1
<1>11. /\ f[0] = [i \in DOMAIN a |-> <<"leaf", a[i]>>]
       /\ g[0] = [i \in DOMAIN b |-> <<"leaf", b[i]>>]
  BY <1>4, <1>5 DEF Tree
<1>12. DOMAIN a = DOMAIN b
  BY <1>10, <1>11
<1>13. ASSUME NEW i \in DOMAIN a PROVE a[i] = b[i]
  <2>1. <<"leaf", a[i]>> = <<"leaf", b[i]>>
    <3>1. f[0][i] = <<"leaf", a[i]>>
      BY <1>11
    <3>2. g[0][i] = <<"leaf", b[i]>>
      BY <1>11, <1>12
    <3> QED
      BY <1>10, <3>1, <3>2
  <2> QED
    BY <2>1
<1> QED
  BY <1>1, <1>2, <1>12, <1>13, SameSeq

-----------------------------------------------------------------------------
(***************************************************************************)
(* What is kept stays.                                                     *)
(***************************************************************************)
LogsGrow ==
    /\ DOMAIN logs' = Chains
    /\ \A c \in Chains :
          /\ IsSeq(logs'[c]) /\ Len(logs[c]) <= Len(logs'[c])
          /\ \A i \in 1 .. Len(logs[c]) : logs'[c][i] = logs[c][i]

LEMMA AppendedLogsGrow ==
  ASSUME LogsKept, NEW c \in Chains, NEW r, logs' = [logs EXCEPT ![c] = Append(@, r)]
  PROVE  /\ LogsGrow
         /\ Len(logs'[c]) = Len(logs[c]) + 1 /\ logs'[c][Len(logs[c]) + 1] = r
         /\ \A d \in Chains \ {c} : logs'[d] = logs[d]
<1>1. DOMAIN logs = Chains /\ \A d \in Chains : IsSeq(logs[d])
  BY DEF LogsKept, LogKept
<1>2. \A d \in Chains : Len(logs[d]) \in Nat
  BY <1>1, SeqDomain
<1>3. logs'[c] = Append(logs[c], r) /\ DOMAIN logs' = Chains
  BY <1>1
<1>4. \A d \in Chains \ {c} : logs'[d] = logs[d]
  BY <1>1
<1>5. /\ IsSeq(logs'[c]) /\ Len(logs'[c]) = Len(logs[c]) + 1
      /\ \A i \in 1 .. Len(logs[c]) : logs'[c][i] = logs[c][i]
      /\ logs'[c][Len(logs[c]) + 1] = r
  BY <1>1, <1>3, AppendSeq
<1>6. Len(logs[c]) <= Len(logs'[c])
  BY <1>2, <1>5
<1>7. ASSUME NEW d \in Chains
      PROVE  /\ IsSeq(logs'[d]) /\ Len(logs[d]) <= Len(logs'[d])
             /\ \A i \in 1 .. Len(logs[d]) : logs'[d][i] = logs[d][i]
  <2>1. CASE d = c
    BY <1>5, <1>6, <2>1
  <2>2. CASE d # c
    BY <1>1, <1>2, <1>4, <2>2
  <2> QED
    BY <2>1, <2>2
<1> QED
  BY <1>3, <1>4, <1>5, <1>7 DEF LogsGrow

LEMMA SameLogsGrow ==
  ASSUME LogsKept, logs' = logs
  PROVE  LogsGrow
<1>1. \A d \in Chains : Len(logs[d]) \in Nat
  BY SeqDomain DEF LogsKept, LogKept
<1> QED
  BY <1>1 DEF LogsGrow, LogsKept, LogKept

LEMMA KeyStaysKept ==
  ASSUME LogsKept, LogsGrow, NEW c \in Chains, NEW i \in 0 .. Len(logs[c]), NEW key,
         KeyKept(c, i, key), NEW n \in Nat, i <= n
  PROVE  KeyKept(c, n, key)'
<1>1. Len(logs[c]) \in Nat
  BY SeqDomain DEF LogsKept, LogKept
<1>2. ASSUME CertifiedBy(c, i, key) PROVE CertifiedBy(c, n, key)'
  <2>1. PICK j \in 1 .. i : logs[c][j].payload.type = "cert" /\ logs[c][j].payload.session = key
    BY <1>2 DEF CertifiedBy
  <2>2. logs'[c][j] = logs[c][j]
    BY <1>1, <2>1 DEF LogsGrow
  <2>3. j \in 1 .. n
    BY <2>1
  <2> QED
    BY <2>1, <2>2, <2>3 DEF CertifiedBy
<1> QED
  BY <1>2 DEF KeyKept

LEMMA RecordStaysKept ==
  ASSUME LogsKept, LogsGrow, NEW c \in Chains, NEW i \in 1 .. Len(logs[c])
  PROVE  RecordKept(c, i)'
<1>1. Len(logs[c]) \in Nat /\ DOMAIN logs[c] = 1 .. Len(logs[c])
  BY SeqDomain DEF LogsKept, LogKept
<1>2. RecordKept(c, i)
  BY <1>1 DEF LogsKept, LogKept
<1>3. logs'[c][i] = logs[c][i] /\ (i # 1 => logs'[c][i - 1] = logs[c][i - 1])
  <2>1. i # 1 => i - 1 \in 1 .. Len(logs[c])
    BY <1>1
  <2> QED
    BY <2>1 DEF LogsGrow
<1>4. PICK key : key = logs[c][i].kid
  OBVIOUS
<1>5. KeyKept(c, i, key)
  BY <1>2, <1>4 DEF RecordKept
<1>6. KeyKept(c, i, key)'
  BY <1>1, <1>5, KeyStaysKept
<1>7. KeyKept(c, i, logs[c][i].kid)'
  BY <1>3, <1>4, <1>6
<1>8. PayloadKept(c, logs[c][i].payload)'
  BY <1>2, <1>3 DEF RecordKept, PayloadKept
<1> QED
  BY <1>2, <1>3, <1>7, <1>8 DEF RecordKept, RecordShaped, Hash, OriginBytes, Sign

(* One more record of chain c, under a key that is kept with it.           *)
LEMMA RecordAppended ==
  ASSUME LogsKept, NEW c \in Chains, NEW key, NEW payload, PayloadKept(c, payload),
         payload.type = "cert" => key = payload.session,
         logs' = [logs EXCEPT ![c] = Append(@, Record(c, @, key, payload))],
         KeyKept(c, Len(logs[c]), key)'
  PROVE  \A d \in Chains : LogKept(d)'
<1>0. PICK n, r : n = Len(logs[c]) /\ r = Record(c, logs[c], key, payload)
  OBVIOUS
<1>1. logs' = [logs EXCEPT ![c] = Append(@, r)]
  BY <1>0
<1>2. /\ LogsGrow
      /\ Len(logs'[c]) = n + 1 /\ logs'[c][n + 1] = r
      /\ \A d \in Chains \ {c} : logs'[d] = logs[d]
  BY <1>0, <1>1, AppendedLogsGrow
<1>3. n \in Nat
  BY <1>0, SeqDomain DEF LogsKept, LogKept
<1>4. r.seq = n /\ r.prev = (IF n = 0 THEN Genesis ELSE Hash(logs[c][n]))
      /\ r.payload = payload /\ r.kid = key
      /\ r.sig = Sign(key, <<"record", c, Hash(r)>>)
  BY <1>0 DEF Record, Hash, OriginBytes
<1>9. RecordShaped(r)
  BY <1>0 DEF Record, RecordShaped
<1>5. RecordKept(c, n + 1)'
  <2>1. n # 0 => logs'[c][n] = logs[c][n]
    BY <1>0, <1>2, <1>3 DEF LogsGrow
  <2>2. (n + 1) - 1 = n /\ (n + 1 = 1 <=> n = 0)
    BY <1>3
  <2>3. KeyKept(c, n + 1, key)'
    BY <1>2
  <2>4. logs'[c][n + 1] = r
    BY <1>2
  <2>5. PayloadKept(c, payload)'
    BY DEF PayloadKept
  <2>6. Hash(logs'[c][n]) = Hash(logs[c][n]) \/ n = 0
    BY <2>1
  <2> QED
    BY <1>4, <1>9, <2>2, <2>3, <2>4, <2>5, <2>6 DEF RecordKept, RecordShaped, OriginBytes
<1>6. ASSUME NEW d \in Chains PROVE LogKept(d)'
  <2>1. IsSeq(logs'[d])
    BY <1>2 DEF LogsGrow
  <2>2. DOMAIN logs'[d] = 1 .. Len(logs'[d])
    BY <2>1, SeqDomain
  <2>3. ASSUME NEW i \in 1 .. Len(logs'[d]) PROVE RecordKept(d, i)'
    <3>1. CASE d = c /\ i = n + 1
      BY <1>5, <3>1
    <3>2. CASE ~ (d = c /\ i = n + 1)
      <4>1. i \in 1 .. Len(logs[d])
        BY <1>0, <1>2, <1>3, <3>2
      <4> QED
        BY <1>2, <4>1, RecordStaysKept
    <3> QED
      BY <3>1, <3>2
  <2> QED
    BY <2>1, <2>2, <2>3 DEF LogKept
<1> QED
  BY <1>6

LEMMA SealsStayKept ==
  ASSUME LogsKept, LogsGrow, SealsKept, NEW c \in Chains, NEW i \in DOMAIN seals[c],
         seals'[c][i] = seals[c][i],
         \A j \in 1 .. i - 1 : seals'[c][j] = seals[c][j]
  PROVE  SealKept(c, i)'
<1>0. PICK s : s = seals[c][i].seal
  OBVIOUS
<1>1. SealKept(c, i) /\ i \in 1 .. Len(seals[c]) /\ Len(seals[c]) \in Nat
  BY SeqDomain DEF SealsKept
<1>2. s.from \in Nat /\ s.to \in Nat /\ s.from <= s.to /\ s.to < Len(logs[c])
  BY <1>0, <1>1 DEF SealKept
<1>3. Len(logs[c]) \in Nat /\ IsSeq(logs'[c]) /\ Len(logs'[c]) \in Nat
  BY SeqDomain DEF LogsKept, LogKept, LogsGrow
<1>4. s.to < Len(logs'[c])
  <2>1. Len(logs[c]) <= Len(logs'[c])
    BY DEF LogsGrow
  <2> QED
    BY <1>2, <1>3, <2>1
<1>5. logs'[c][s.to + 1] = logs[c][s.to + 1]
  <2>1. s.to + 1 \in 1 .. Len(logs[c])
    BY <1>2, <1>3
  <2> QED
    BY <2>1 DEF LogsGrow
<1>6. Leaves(c, s)' = Leaves(c, s)
  <2> DEFINE K == 1 .. s.to - s.from + 1
  <2>1. ASSUME NEW k \in K PROVE logs'[c][s.from + k] = logs[c][s.from + k]
    <3>1. s.from + k \in 1 .. Len(logs[c])
      BY <1>2, <1>3
    <3> QED
      BY <3>1 DEF LogsGrow
  <2> QED
    BY <2>1 DEF Leaves, Hash
<1>7. i # 1 => seals'[c][i - 1] = seals[c][i - 1]
  BY <1>1
<1>8. s.root = MerkleRoot(Leaves(c, s)')
  BY <1>0, <1>1, <1>6 DEF SealKept
<1>9. s.head = Hash(logs'[c][s.to + 1])
  BY <1>0, <1>1, <1>5 DEF SealKept
<1>10. \A j \in 1 .. i - 1 : seals'[c][j].seal.to < s.to
  BY <1>0, <1>1 DEF SealKept
<1>11. s.prev = IF i = 1 THEN << >> ELSE SealBytes(seals'[c][i - 1].seal)
  BY <1>0, <1>1, <1>7 DEF SealKept
<1>12. seals'[c][i].seal = s /\ SealShaped(seals'[c][i])
  BY <1>0, <1>1 DEF SealKept
<1>13. s.chain = c /\ s.kid = SealKey /\ seals'[c][i].sig = Sign(SealKey, SealBytes(s))
  BY <1>0, <1>1 DEF SealKept
<1> QED
  BY <1>2, <1>4, <1>8, <1>9, <1>10, <1>11, <1>12, <1>13 DEF SealKept, SealShaped, SealBytes

LEMMA LastSealIs ==
  ASSUME SealsKept, NEW c \in Chains
  PROVE  IF seals[c] = << >> THEN LastSeal(seals[c]) = NoSeal
         ELSE /\ Len(seals[c]) \in DOMAIN seals[c] /\ SealKept(c, Len(seals[c]))
              /\ LastSeal(seals[c]) = seals[c][Len(seals[c])].seal
              /\ LastSeal(seals[c]) # NoSeal
<1>1. IsSeq(seals[c]) /\ Len(seals[c]) \in Nat /\ DOMAIN seals[c] = 1 .. Len(seals[c])
  BY SeqDomain DEF SealsKept
<1>2. CASE seals[c] = << >>
  BY <1>2 DEF LastSeal
<1>3. CASE seals[c] # << >>
  <2>1. Len(seals[c]) # 0
    BY <1>1, <1>3, EmptySeq DEF IsSeq
  <2>2. Len(seals[c]) \in DOMAIN seals[c]
    BY <1>1, <2>1
  <2>3. SealKept(c, Len(seals[c]))
    BY <2>2 DEF SealsKept
  <2>4. PICK s : s = seals[c][Len(seals[c])].seal
    OBVIOUS
  <2>5. s = [chain |-> s.chain, from |-> s.from, to |-> s.to, root |-> s.root,
             head |-> s.head, prev |-> s.prev, kid |-> s.kid]
    BY <2>3, <2>4 DEF SealKept, SealShaped
  <2>6. "chain" \in DOMAIN s
    BY <2>5
  <2>7. "chain" \notin DOMAIN NoSeal
    BY DEF NoSeal
  <2>8. s # NoSeal
    BY <2>6, <2>7
  <2> QED
    BY <1>3, <2>2, <2>3, <2>4, <2>8 DEF LastSeal
<1> QED
  BY <1>2, <1>3

LEMMA SealAppended ==
  ASSUME LogsKept, SealsKept, NEW c \in Chains, Seal(c)
  PROVE  SealsKept'
<1> DEFINE n == Len(seals[c])
           last == LastSeal(seals[c])
<1>0. PICK e, from, len : /\ e = SealOf(c, logs[c], last, SealKey)
                          /\ from = (IF last = NoSeal THEN 0 ELSE last.to + 1)
                          /\ len = Len(logs[c])
  OBVIOUS
<1>1. seals' = [seals EXCEPT ![c] = Append(@, e)] /\ logs' = logs
  BY <1>0 DEF Seal
<1>2. IsSeq(seals[c]) /\ n \in Nat /\ DOMAIN seals[c] = 1 .. n /\ DOMAIN seals = Chains
  BY SeqDomain DEF SealsKept
<1>3. len \in Nat
  BY <1>0, SeqDomain DEF LogsKept, LogKept
<1>4. from \in Nat /\ from < len /\ \A j \in 1 .. n : seals[c][j].seal.to < from
  <2>1. from < len
    BY <1>0, LastSealIs DEF Seal
  <2>2. CASE seals[c] = << >>
    <3>1. from = 0 /\ n = 0
      BY <1>0, <2>2, LastSealIs, NothingSeq
    <3> QED
      BY <2>1, <3>1
  <2>3. CASE seals[c] # << >>
    <3>1. from = seals[c][n].seal.to + 1 /\ SealKept(c, n)
      BY <1>0, <2>3, LastSealIs
    <3>2. seals[c][n].seal.to \in Nat /\ \A j \in 1 .. n - 1 : seals[c][j].seal.to < seals[c][n].seal.to
      BY <3>1 DEF SealKept
    <3>3. ASSUME NEW j \in 1 .. n PROVE seals[c][j].seal.to < from
      <4>1. CASE j = n
        BY <3>1, <3>2, <4>1
      <4>2. CASE j # n
        <5>0. j \in 1 .. n - 1
          <6> HIDE DEF n
          <6> QED
            BY <1>2, <4>2
        <5>1. j \in 1 .. n - 1 /\ SealKept(c, j)
          BY <1>2, <5>0 DEF SealsKept
        <5>2. seals[c][j].seal.to \in Nat
          BY <5>1 DEF SealKept
        <5> QED
          BY <3>1, <3>2, <5>1, <5>2
      <4> QED
        BY <4>1, <4>2
    <3> QED
      BY <2>1, <3>1, <3>2, <3>3
  <2> QED
    BY <2>2, <2>3
<1>5. PICK k, root, prev :
        /\ k = n + 1
        /\ root = MerkleRoot([i \in 1 .. len - from |-> Hash(logs[c][from + i])])
        /\ prev = IF last = NoSeal THEN << >> ELSE SealBytes(last)
  OBVIOUS
<1>6. PICK s : s = [chain |-> c, from |-> from, to |-> len - 1, root |-> root,
                    head |-> Hash(logs[c][len]), prev |-> prev, kid |-> SealKey]
  OBVIOUS
<1>7. e = [seal |-> s, sig |-> Sign(SealKey, SealBytes(s))]
  <2> HIDE DEF last
  <2> QED
    BY <1>0, <1>5, <1>6 DEF SealOf
<1>8. /\ IsSeq(seals'[c]) /\ Len(seals'[c]) = k /\ k \in Nat
      /\ \A i \in 1 .. n : seals'[c][i] = seals[c][i]
      /\ seals'[c][k] = e
  <2>1. seals'[c] = Append(seals[c], e)
    BY <1>1, <1>2
  <2> QED
    BY <1>2, <1>5, <2>1, AppendSeq
<1>9. SealKept(c, k)'
  <2>1. seals'[c][k].seal = s /\ SealShaped(seals'[c][k])
    BY <1>6, <1>7, <1>8 DEF SealShaped, Sign
  <2>2. s.to = len - 1 /\ s.from = from /\ s.chain = c /\ s.kid = SealKey /\ s.root = root
        /\ s.head = Hash(logs[c][len]) /\ s.prev = prev
    BY <1>6
  <2>3. seals'[c][k].sig = Sign(SealKey, SealBytes(s))
    BY <1>7, <1>8
  <2>4. s.from \in Nat /\ s.to \in Nat /\ s.from <= s.to /\ s.to < len /\ s.to + 1 = len
        /\ s.to - s.from + 1 = len - from
    BY <1>3, <1>4, <2>2
  <2>5. \A j \in 1 .. k - 1 : seals'[c][j].seal.to < s.to
    <3>1. ASSUME NEW j \in 1 .. k - 1 PROVE seals'[c][j].seal.to < s.to
      <4>1. j \in 1 .. n /\ seals'[c][j] = seals[c][j]
        BY <1>2, <1>5, <1>8
      <4>2. SealKept(c, j) /\ seals[c][j].seal.to < from
        BY <1>2, <1>4, <4>1 DEF SealsKept
      <4>3. seals[c][j].seal.to \in Nat
        BY <4>2 DEF SealKept
      <4> QED
        BY <1>4, <2>4, <2>2, <4>1, <4>2, <4>3
    <3> QED
      BY <3>1
  <2>6. s.prev = IF k = 1 THEN << >> ELSE SealBytes(seals'[c][k - 1].seal)
    <3>1. CASE seals[c] = << >>
      <4>1. k = 1 /\ prev = << >>
        BY <1>5, <3>1, LastSealIs, NothingSeq
      <4> QED
        BY <2>2, <4>1
    <3>2. CASE seals[c] # << >>
      <4>1. n \in 1 .. n /\ prev = SealBytes(seals[c][n].seal)
        BY <1>2, <1>5, <3>2, LastSealIs
      <4>2. k # 1 /\ k - 1 = n /\ seals'[c][n] = seals[c][n]
        BY <1>2, <1>5, <1>8, <4>1
      <4> QED
        BY <2>2, <4>1, <4>2
    <3> QED
      BY <3>1, <3>2
  <2>7. s.root = MerkleRoot(Leaves(c, s)')
    <3>1. Leaves(c, s)' = [i \in 1 .. len - from |-> Hash(logs[c][from + i])]
      BY <1>1, <2>2, <2>4 DEF Leaves
    <3> QED
      BY <1>5, <2>2, <3>1
  <2>8. Len(logs'[c]) = len /\ s.head = Hash(logs'[c][s.to + 1])
    BY <1>0, <1>1, <2>2, <2>4
  <2> QED
    BY <2>1, <2>2, <2>3, <2>4, <2>5, <2>6, <2>7, <2>8 DEF SealKept, SealShaped, SealBytes
<1>10. LogsGrow
  BY <1>1, SameLogsGrow
<1>11. ASSUME NEW d \in Chains
       PROVE  IsSeq(seals'[d]) /\ \A i \in DOMAIN seals'[d] : SealKept(d, i)'
  <2>1. CASE d = c
    <3>1. ASSUME NEW i \in DOMAIN seals'[c] PROVE SealKept(c, i)'
      <4>1. i \in 1 .. k
        BY <1>8, SeqDomain
      <4>2. CASE i = k
        BY <1>9, <4>2
      <4>3. CASE i # k
        <5>1. i \in DOMAIN seals[c] /\ i \in 1 .. n /\ \A j \in 1 .. i - 1 : j \in 1 .. n
          BY <1>2, <1>5, <4>1, <4>3
        <5> QED
          BY <1>8, <1>10, <5>1, SealsStayKept
      <4> QED
        BY <4>2, <4>3
    <3> QED
      BY <1>8, <2>1, <3>1
  <2>2. CASE d # c
    <3>1. seals'[d] = seals[d]
      BY <1>1, <1>2, <2>2
    <3>2. IsSeq(seals'[d])
      BY <3>1 DEF SealsKept
    <3>3. ASSUME NEW i \in DOMAIN seals[d] PROVE SealKept(d, i)'
      BY <1>10, <3>1, <3>3, SealsStayKept
    <3> QED
      BY <3>1, <3>2, <3>3
  <2> QED
    BY <2>1, <2>2
<1>12. DOMAIN seals' = Chains
  BY <1>1, <1>2
<1> QED
  BY <1>11, <1>12 DEF SealsKept

(* Bundles are published for the host, which does not change.              *)
LEMMA BundleStays ==
  ASSUME host' = host, NEW b, NEW m \in Nat, NEW n \in Nat, m <= n, BundleKept(b, m)
  PROVE  BundleKept(b, n)'
<1>1. 1 .. m \subseteq 1 .. n
  OBVIOUS
<1>2. \A i : Enrolled(i)' = Enrolled(i)
  BY DEF Enrolled
<1>3. \A a \in b.attestations :
         host'.enrolment.attested /\ \E i \in 1 .. n : a = Enrolled(i)'
  BY <1>1, <1>2 DEF BundleKept
<1>4. \A i \in DOMAIN b.keys :
         \E k \in 1 .. n : b.keys[i] = Entry(Identity(k), "origin")
  BY <1>1 DEF BundleKept
<1> QED
  BY <1>3, <1>4 DEF BundleKept, BundleShaped

LEMMA PublishedKept ==
  ASSUME NEW ns, NEW k \in Nat, DOMAIN ns = 1 .. k, NEW max \in Nat,
         \A i \in DOMAIN ns : ns[i] \in 1 .. max,
         \A i, j \in DOMAIN ns : ns[i] = ns[j] => i = j
  PROVE  BundleKept(Publish(ns), max)
<1> DEFINE keys == [i \in DOMAIN ns |-> Entry(Identity(ns[i]), "origin")]
           atts == IF host.enrolment.attested
                   THEN {Enrolled(ns[i]) : i \in DOMAIN ns} ELSE {}
           b == Publish(ns)
<1>1. /\ b.keys = keys /\ b.attestations = atts /\ b.kid = OpsKey
      /\ b.sig = Sign(OpsKey, <<"deployment", keys, atts>>)
      /\ BundleShaped(b)
  BY DEF Publish, BundleBytes, BundleShaped
<1>2. keys \in [1 .. k -> {keys[i] : i \in 1 .. k}]
  OBVIOUS
<1>3. IsSeq(keys)
  BY <1>2, FunctionIsSeq
<1>4. \A a \in atts : host.enrolment.attested /\ \E m \in 1 .. max : a = Enrolled(m)
  OBVIOUS
<1>5. \A i \in DOMAIN keys : keys[i] = [kid |-> <<"identity", ns[i]>>, role |-> "origin",
                                        key |-> <<"identity", ns[i]>>]
  BY DEF Entry, Identity
<1>6. \A i, j \in DOMAIN keys : keys[i].kid = keys[j].kid => i = j
  BY <1>5
<1>7. UsableKeys(b)
  BY <1>1, <1>5, <1>6 DEF UsableKeys
<1>8. \A i \in DOMAIN keys : \E m \in 1 .. max : keys[i] = Entry(Identity(m), "origin")
  OBVIOUS
<1> HIDE DEF keys, atts, b
<1> QED
  BY <1>1, <1>3, <1>4, <1>7, <1>8 DEF BundleKept, BundleBytes, b

LEMMA RotateKeeps ==
  ASSUME BundlesKept, Rotate
  PROVE  BundlesKept'
<1>0. PICK n : n = Len(bundles)
  OBVIOUS
<1>1. IsSeq(bundles) /\ n \in Nat /\ DOMAIN bundles = 1 .. n /\ n # 0
  <2>1. IsSeq(bundles) /\ n \in Nat /\ DOMAIN bundles = 1 .. n
    BY <1>0, SeqDomain DEF BundlesKept
  <2>2. n # 0
    BY <1>0, EmptySeq DEF BundlesKept, IsSeq
  <2> QED
    BY <2>1, <2>2
<1>2. host' = host
  BY DEF Rotate
<1>3. PICK b : bundles' = Append(bundles, b) /\ BundleKept(b, n + 1)
  <2>0. n + 1 \in Nat /\ 1 \in Nat /\ 2 \in Nat
    BY <1>1
  <2>1. BundleKept(Publish(<<n + 1>>), n + 1)
    <3>1. PICK ns : ns = <<n + 1>>
      OBVIOUS
    <3>2. DOMAIN ns = 1 .. 1 /\ \A i \in 1 .. 1 : ns[i] = n + 1
      BY <3>1
    <3>3. \A i \in DOMAIN ns : ns[i] \in 1 .. n + 1
      BY <1>1, <3>2
    <3>4. \A i, j \in DOMAIN ns : ns[i] = ns[j] => i = j
      BY <3>2
    <3>5. BundleKept(Publish(ns), n + 1)
      BY <2>0, <3>2, <3>3, <3>4, PublishedKept
    <3> QED
      BY <3>1, <3>5
  <2>2. BundleKept(Publish(<<n, n + 1>>), n + 1)
    <3>1. PICK ns : ns = <<n, n + 1>>
      OBVIOUS
    <3>2. DOMAIN ns = 1 .. 2 /\ ns[1] = n /\ ns[2] = n + 1
      BY <3>1
    <3>3. \A i \in DOMAIN ns : ns[i] \in 1 .. n + 1
      BY <1>1, <3>2
    <3>4. \A i, j \in DOMAIN ns : ns[i] = ns[j] => i = j
      BY <1>1, <3>2
    <3>5. BundleKept(Publish(ns), n + 1)
      BY <2>0, <3>2, <3>3, <3>4, PublishedKept
    <3> QED
      BY <3>1, <3>5
  <2>3. (n + 1) - 1 = n
    BY <1>1
  <2> QED
    BY <1>0, <2>1, <2>2, <2>3 DEF Rotate
<1>4. /\ IsSeq(bundles') /\ Len(bundles') = n + 1 /\ bundles'[n + 1] = b
      /\ \A i \in 1 .. n : bundles'[i] = bundles[i]
  BY <1>0, <1>1, <1>3, AppendSeq
<1>5. bundles' # << >>
  BY <1>1, <1>4, EmptySeq
<1>6. ASSUME NEW m \in DOMAIN bundles' PROVE BundleKept(bundles[m], n + 1)'
  <2>1. m \in 1 .. n + 1
    BY <1>4, SeqDomain
  <2>2. BundleKept(b, n + 1)'
    BY <1>1, <1>2, <1>3, BundleStays
  <2>3. CASE m = n + 1
    BY <1>4, <2>2, <2>3
  <2>4. CASE m # n + 1
    <3>1. m \in 1 .. n
      BY <1>1, <2>1, <2>4
    <3>2. PICK d : d = bundles[m]
      OBVIOUS
    <3>3. BundleKept(d, n)
      BY <1>0, <1>1, <3>1, <3>2 DEF BundlesKept
    <3>4. BundleKept(d, n + 1)'
      BY <1>1, <1>2, <3>3, BundleStays
    <3> QED
      BY <1>4, <3>1, <3>2, <3>4
  <2> QED
    BY <2>3, <2>4
<1> QED
  BY <1>4, <1>5, <1>6 DEF BundlesKept

LEMMA CertificateKept ==
  ASSUME NEW c, NEW n
  PROVE  LET p == Certificate(c, Session(c, n))
         IN  PayloadKept(c, p) /\ p.type = "cert" /\ p.session = Session(c, n)
<1> DEFINE p == Certificate(c, Session(c, n))
<1>1. /\ p.type = "cert" /\ p.session = Session(c, n) /\ p.identity = OwnKey
      /\ p.sig = Sign(OwnKey, CertBytes(c, p))
  BY DEF Certificate, CertBytes
<1>2. OwnKey[1] = "identity"
  BY DEF OwnKey, Identity
<1>3. Session(c, n)[1] = "session" /\ Session(c, n)[2] = c
  BY DEF Session
<1> HIDE DEF p
<1> QED
  BY <1>1, <1>2, <1>3 DEF PayloadKept, p

LEMMA SignersKept ==
  ASSUME LogsKept, LogsGrow, NEW c \in Chains, signer'[c] = signer[c]
  PROVE  SignerKept(c)'
<1>0. PICK key, n : key = signer[c] /\ n = Len(logs'[c])
  OBVIOUS
<1>1. Len(logs[c]) \in Nat /\ n \in Nat /\ Len(logs[c]) <= n
  BY <1>0, SeqDomain DEF LogsKept, LogKept, LogsGrow
<1>2. key # NoKid => KeyKept(c, Len(logs[c]), key)
  BY <1>0 DEF LogsKept, SignerKept
<1>3. key # NoKid => KeyKept(c, n, key)'
  BY <1>1, <1>2, KeyStaysKept
<1> QED
  BY <1>0, <1>3 DEF SignerKept

LEMMA OpenKeeps ==
  ASSUME LogsKept, NEW c \in Chains, Open(c)
  PROVE  LogsKept' /\ LogsGrow
<1> DEFINE direct == host.tier = "direct"
<1>0. PICK key, n : key = (IF direct THEN OwnKey ELSE Session(c, n))
                    /\ n = opened[c] + 1
  OBVIOUS
<1>1. /\ signer' = [signer EXCEPT ![c] = key]
      /\ logs' = IF direct THEN logs
                 ELSE [logs EXCEPT ![c] = Append(@, Record(c, @, key, Certificate(c, key)))]
  BY <1>0 DEF Open
<1>2. DOMAIN signer = Chains /\ DOMAIN logs = Chains
  BY DEF LogsKept
<1>3. DOMAIN signer' = Chains /\ signer'[c] = key /\ \A d \in Chains \ {c} : signer'[d] = signer[d]
  BY <1>1, <1>2
<1>4. CASE direct
  <2>1. LogsGrow /\ logs' = logs
    BY <1>1, <1>4, SameLogsGrow
  <2>2. \A d \in Chains : LogKept(d)'
    BY <2>1 DEF LogsKept, LogKept, RecordKept, PayloadKept, KeyKept, CertifiedBy
  <2>3. ASSUME NEW d \in Chains PROVE SignerKept(d)'
    <3>1. CASE d = c
      <4>1. signer'[d][1] = "identity"
        BY <1>0, <1>3, <1>4, <3>1 DEF OwnKey, Identity
      <4> QED
        BY <4>1 DEF SignerKept, KeyKept
    <3>2. CASE d # c
      BY <1>3, <2>1, <3>2, SignersKept
    <3> QED
      BY <3>1, <3>2
  <2> QED
    BY <1>2, <1>3, <2>1, <2>2, <2>3 DEF LogsKept
<1>5. CASE ~direct
  <2>0. PICK p : p = Certificate(c, key)
    OBVIOUS
  <2>1. /\ logs' = [logs EXCEPT ![c] = Append(@, Record(c, @, key, p))]
        /\ key = Session(c, n)
    BY <1>0, <1>1, <1>5, <2>0
  <2>2. PayloadKept(c, p) /\ p.type = "cert" /\ p.session = key
    BY <2>0, <2>1, CertificateKept
  <2>3. PICK r : r = Record(c, logs[c], key, p)
    OBVIOUS
  <2>4. /\ LogsGrow
        /\ Len(logs'[c]) = Len(logs[c]) + 1 /\ logs'[c][Len(logs[c]) + 1] = r
        /\ \A d \in Chains \ {c} : logs'[d] = logs[d]
    BY <2>1, <2>3, AppendedLogsGrow
  <2>5. Len(logs[c]) \in Nat
    BY SeqDomain DEF LogsKept, LogKept
  <2>6. KeyKept(c, Len(logs[c]), key)'
    <3>1. r.payload = p
      BY <2>3 DEF Record
    <3>2. Len(logs'[c]) \in 1 .. Len(logs'[c]) /\ logs'[c][Len(logs'[c])].payload = p
      BY <2>4, <2>5, <3>1
    <3>3. CertifiedBy(c, Len(logs[c]), key)'
      BY <2>2, <3>2 DEF CertifiedBy
    <3>4. key[1] = "session"
      BY <2>1 DEF Session
    <3> QED
      BY <3>3, <3>4 DEF KeyKept
  <2>7. \A d \in Chains : LogKept(d)'
    BY <2>1, <2>2, <2>6, RecordAppended
  <2>8. ASSUME NEW d \in Chains PROVE SignerKept(d)'
    <3>1. CASE d = c
      BY <1>3, <2>6, <3>1 DEF SignerKept
    <3>2. CASE d # c
      BY <1>3, <2>4, <3>2, SignersKept
    <3> QED
      BY <3>1, <3>2
  <2>9. DOMAIN logs' = Chains
    BY <2>4 DEF LogsGrow
  <2> QED
    BY <1>3, <2>4, <2>7, <2>8, <2>9 DEF LogsKept
<1> QED
  BY <1>4, <1>5

LEMMA WriteKeeps ==
  ASSUME LogsKept, NEW c \in Chains, Write(c)
  PROVE  LogsKept' /\ LogsGrow
<1>0. PICK key, p, r : key = signer[c] /\ p = Data("written") /\ r = Record(c, logs[c], key, p)
  OBVIOUS
<1>1. /\ logs' = [logs EXCEPT ![c] = Append(@, Record(c, @, key, p))]
      /\ signer' = signer /\ key # NoKid
  BY <1>0 DEF Write
<1>2. logs' = [logs EXCEPT ![c] = Append(@, r)]
  BY <1>0, <1>1
<1>3. LogsGrow /\ Len(logs'[c]) = Len(logs[c]) + 1
  BY <1>2, AppendedLogsGrow
<1>4. Len(logs[c]) \in Nat
  BY SeqDomain DEF LogsKept, LogKept
<1>5. KeyKept(c, Len(logs[c]), key)
  BY <1>0, <1>1 DEF LogsKept, SignerKept
<1>6. KeyKept(c, Len(logs[c]), key)'
  <2>1. PICK n : n = Len(logs[c]) + 1
    OBVIOUS
  <2>2. KeyKept(c, n, key)'
    BY <1>3, <1>4, <1>5, <2>1, KeyStaysKept
  <2> QED
    BY <1>3, <2>1, <2>2
<1>7. PayloadKept(c, p) /\ p.type # "cert"
  BY <1>0 DEF PayloadKept, Data
<1>8. \A d \in Chains : LogKept(d)'
  BY <1>1, <1>6, <1>7, RecordAppended
<1>9. \A d \in Chains : SignerKept(d)'
  BY <1>1, <1>3, SignersKept
<1> QED
  BY <1>1, <1>3, <1>8, <1>9 DEF LogsKept, LogsGrow

LEMMA LogsStay ==
  ASSUME LogsKept, logs' = logs, DOMAIN signer' = Chains,
         \A c \in Chains : signer'[c] \in {signer[c], NoKid}
  PROVE  LogsKept' /\ LogsGrow
<1>1. LogsGrow
  BY SameLogsGrow
<1>2. \A d \in Chains : LogKept(d)'
  BY DEF LogsKept, LogKept, RecordKept, RecordShaped, PayloadKept, KeyKept, CertifiedBy
<1>3. ASSUME NEW d \in Chains PROVE SignerKept(d)'
  <2>1. CASE signer'[d] = signer[d]
    BY <1>1, <2>1, SignersKept
  <2>2. CASE signer'[d] = NoKid
    BY <2>2 DEF SignerKept
  <2> QED
    BY <2>1, <2>2
<1> QED
  BY <1>1, <1>2, <1>3 DEF LogsKept

LEMMA SealsStay ==
  ASSUME LogsKept, LogsGrow, SealsKept, seals' = seals
  PROVE  SealsKept'
<1>1. ASSUME NEW c \in Chains, NEW i \in DOMAIN seals[c] PROVE SealKept(c, i)'
  BY SealsStayKept
<1> QED
  BY <1>1 DEF SealsKept

LEMMA BundlesStay ==
  ASSUME BundlesKept, bundles' = bundles, host' = host
  PROVE  BundlesKept'
<1>1. \A i : Enrolled(i)' = Enrolled(i)
  BY DEF Enrolled
<1> QED
  BY <1>1 DEF BundlesKept, BundleKept, BundleShaped

LEMMA KeptInit == Init => Kept
<1> SUFFICES ASSUME Init PROVE Kept
  OBVIOUS
<1>1. BundlesKept
  <2>1. PICK ns, b : ns = <<1>> /\ b = Publish(ns)
    OBVIOUS
  <2>2. DOMAIN ns = 1 .. 1 /\ ns[1] = 1
    BY <2>1
  <2>3. BundleKept(b, 1)
    <3>1. \A i \in DOMAIN ns : ns[i] \in 1 .. 1
      BY <2>2
    <3>2. \A i, j \in DOMAIN ns : ns[i] = ns[j] => i = j
      BY <2>2
    <3> QED
      BY <2>1, <2>2, <3>1, <3>2, PublishedKept
  <2>4. bundles = <<b>>
    BY <2>1 DEF Init
  <2>5. IsSeq(bundles) /\ DOMAIN bundles = {1} /\ bundles[1] = b /\ Len(bundles) = 1
    BY <2>4, SingletonSeq
  <2>6. bundles # << >>
    BY <2>4
  <2> QED
    BY <2>3, <2>5, <2>6 DEF BundlesKept
<1>2. LogsKept
  BY NothingSeq DEF Init, LogsKept, LogKept, SignerKept
<1>3. SealsKept
  BY NothingSeq DEF Init, SealsKept
<1> QED
  BY <1>1, <1>2, <1>3 DEF Init, Kept

(* Every action, by what it does to what is kept.                          *)
LEMMA KeptNext == Kept /\ [Next]_vars => Kept'
<1> SUFFICES ASSUME Kept, [Next]_vars PROVE Kept'
  OBVIOUS
<1> USE DEF Kept
<1>1. ASSUME NEW c \in Chains, Open(c) PROVE Kept'
  <2>1. LogsKept' /\ LogsGrow
    BY <1>1, OpenKeeps
  <2>2. host' = host /\ bundles' = bundles /\ seals' = seals
    BY <1>1 DEF Open
  <2> QED
    BY <2>1, <2>2, SealsStay, BundlesStay
<1>2. ASSUME NEW c \in Chains, Write(c) PROVE Kept'
  <2>1. LogsKept' /\ LogsGrow
    BY <1>2, WriteKeeps
  <2>2. host' = host /\ bundles' = bundles /\ seals' = seals
    BY <1>2 DEF Write
  <2> QED
    BY <2>1, <2>2, SealsStay, BundlesStay
<1>3. ASSUME NEW c \in Chains, Seal(c) PROVE Kept'
  <2>1. host' = host /\ bundles' = bundles /\ logs' = logs /\ signer' = signer
    BY <1>3 DEF Seal
  <2>2. LogsKept'
    BY <2>1, LogsStay DEF LogsKept
  <2> QED
    BY <1>3, <2>1, <2>2, SealAppended, BundlesStay
<1>4. ASSUME Rotate PROVE Kept'
  <2>1. host' = host /\ logs' = logs /\ seals' = seals /\ signer' = [c \in Chains |-> NoKid]
    BY <1>4 DEF Rotate
  <2>2. LogsKept' /\ LogsGrow
    BY <2>1, LogsStay
  <2> QED
    BY <1>4, <2>1, <2>2, RotateKeeps, SealsStay
<1>5. ASSUME UNCHANGED <<host, bundles, logs, seals, signer>> PROVE Kept'
  <2>1. LogsKept' /\ LogsGrow
    BY <1>5, LogsStay DEF LogsKept
  <2> QED
    BY <1>5, <2>1, SealsStay, BundlesStay
<1>6. ASSUME NEW c \in Chains, Export(c) PROVE Kept'
  BY <1>5, <1>6 DEF Export
<1>7. ASSUME NEW kind, Edit(kind) PROVE Kept'
  BY <1>5, <1>7 DEF Edit
<1>8. CASE UNCHANGED vars
  BY <1>5, <1>8 DEF vars
<1>9. CASE \/ RemoveRecord \/ SwapRecords \/ RewriteRecord \/ ForgeRecords
           \/ RenameChain \/ RemoveSeal \/ AddSeal \/ ReplaceBundle \/ ChangeAnchor
  <2>1. (RemoveRecord => Edit("records")) /\ (SwapRecords => Edit("records"))
    BY DEF RemoveRecord, SwapRecords
  <2>2. (RewriteRecord => Edit("records")) /\ (ForgeRecords => Edit("records"))
    BY DEF RewriteRecord, ForgeRecords
  <2>3. (RenameChain => Edit("chain")) /\ (RemoveSeal => Edit("seals"))
    BY DEF RenameChain, RemoveSeal
  <2>4. AddSeal => Edit("seals")
    BY DEF AddSeal
  <2>7. ReplaceBundle => Edit("bundle")
    BY DEF ReplaceBundle
  <2>5. ChangeAnchor => Edit("anchors")
    BY DEF ChangeAnchor
  <2>6. \E kind : Edit(kind)
    BY <1>9, <2>1, <2>2, <2>3, <2>4, <2>5, <2>7
  <2> QED
    BY <1>7, <2>6
<1> QED
  BY <1>1, <1>2, <1>3, <1>4, <1>6, <1>8, <1>9 DEF Next

-----------------------------------------------------------------------------
(***************************************************************************)
(* What a pack can hold: copies, and what other keys sign.                 *)
(***************************************************************************)
LEMMA LogUnforged ==
  ASSUME LogsKept, NEW c \in Chains
  PROVE  RecordsUnforged(logs[c])
<1>1. IsSeq(logs[c]) /\ DOMAIN logs[c] = 1 .. Len(logs[c]) /\ Len(logs[c]) \in Nat
  BY SeqDomain DEF LogsKept, LogKept
<1>2. ASSUME NEW i \in DOMAIN logs[c] PROVE RecordUnforged(logs[c][i])
  <2>0. PICK r : r = logs[c][i]
    OBVIOUS
  <2>1. RecordKept(c, i)
    BY DEF LogsKept, LogKept
  <2>2. RecordShaped(r) /\ r.seq \in Nat /\ r.sig = Sign(r.kid, OriginBytes(c, r))
        /\ PayloadKept(c, r.payload)
    BY <1>1, <2>0, <2>1 DEF RecordKept
  <2>3. Genuine(r.sig)
    BY <2>0, <2>2 DEF Genuine, RecordSigned, Sign
  <2>4. ASSUME r.payload.type = "cert" PROVE Genuine(r.payload.sig)
    <3>1. r.payload.sig.over = CertBytes(c, r.payload)
      BY <2>2, <2>4 DEF PayloadKept, Sign
    <3> QED
      BY <2>0, <2>4, <3>1 DEF Genuine, CertSigned
  <2> QED
    BY <2>0, <2>2, <2>3, <2>4 DEF RecordUnforged
<1> QED
  BY <1>1, <1>2 DEF RecordsUnforged

LEMMA SealsAreUnforged ==
  ASSUME SealsKept, NEW c \in Chains
  PROVE  SealsUnforged(seals[c])
<1>1. ASSUME NEW i \in DOMAIN seals[c] PROVE SealUnforged(seals[c][i])
  <2>1. SealKept(c, i)
    BY DEF SealsKept
  <2>2. seals[c][i].sig.over = SealBytes(seals[c][i].seal) /\ SealShaped(seals[c][i])
    BY <2>1 DEF SealKept, Sign
  <2> QED
    BY <2>2 DEF SealUnforged, Genuine, SealSigned
<1> QED
  BY <1>1 DEF SealsUnforged, SealsKept

LEMMA BundleUnforged ==
  ASSUME BundlesKept, NEW m \in DOMAIN bundles
  PROVE  Genuine(bundles[m].sig) /\ BundleShaped(bundles[m])
<1>1. PICK b : b = bundles[m]
  OBVIOUS
<1>2. BundleKept(b, Len(bundles))
  BY <1>1 DEF BundlesKept
<1>3. b.sig.over = BundleBytes(b) /\ BundleShaped(b)
  BY <1>2 DEF BundleKept, Sign
<1> QED
  BY <1>1, <1>3 DEF Genuine, BundleSigned

LEMMA CertsUnforged ==
  ASSUME LogsKept, NEW p \in KnownCerts
  PROVE  p.type = "cert" /\ Genuine(p.sig) /\ p.session[1] = "session"
<1>1. PICK c, r : c \in Chains /\ r \in ToSet(logs[c]) /\ r.payload = p /\ p.type = "cert"
  BY DEF KnownCerts
<1>2. PICK i \in DOMAIN logs[c] : r = logs[c][i]
  BY <1>1 DEF ToSet
<1>3. PayloadKept(c, p)
  BY <1>1, <1>2 DEF LogsKept, LogKept, RecordKept
<1>4. p.session[1] = "session"
  BY <1>1, <1>3 DEF PayloadKept
<1>5. Genuine(p.sig)
  BY <1>1, <1>2, LogUnforged DEF RecordsUnforged, RecordUnforged
<1> QED
  BY <1>1, <1>4, <1>5

LEMMA HeldIsNotSecret ==
  ASSUME LogsKept, NEW key \in HeldKeys
  PROVE  ~ Secret(key)
<1>1. CASE key = Mallory
  BY <1>1 DEF Mallory, Secret
<1>2. CASE key # Mallory
  <2>1. PICK p \in KnownCerts : key = p.session /\ key[2] \in Leaked
    BY <1>2 DEF HeldKeys
  <2> QED
    BY <2>1, CertsUnforged DEF Secret
<1> QED
  BY <1>1, <1>2

LEMMA OwnSignature ==
  ASSUME NEW key, ~ Secret(key), NEW bytes
  PROVE  Genuine(Sign(key, bytes))
BY DEF Genuine, Sign

LEMMA ContinuedUnforged ==
  ASSUME NEW rs, RecordsUnforged(rs), NEW key, ~ Secret(key), NEW payload,
         payload.type = "cert" => Genuine(payload.sig)
  PROVE  RecordsUnforged(Continued(rs, key, payload))
<1>0. PICK r : r = Record(pack.chain, rs, key, payload)
  OBVIOUS
<1>1. IsSeq(rs) /\ Len(rs) \in Nat /\ DOMAIN rs = 1 .. Len(rs)
  BY SeqDomain DEF RecordsUnforged
<1>2. RecordUnforged(r)
  <2>1. RecordShaped(r) /\ r.seq = Len(rs) /\ r.payload = payload
    BY <1>0 DEF Record, RecordShaped
  <2>2. Genuine(r.sig)
    BY <1>0, OwnSignature DEF Record
  <2> QED
    BY <1>1, <2>1, <2>2 DEF RecordUnforged
<1>3. /\ IsSeq(Append(rs, r)) /\ Len(Append(rs, r)) = Len(rs) + 1
      /\ \A i \in 1 .. Len(rs) : Append(rs, r)[i] = rs[i]
      /\ Append(rs, r)[Len(rs) + 1] = r
  BY <1>1, AppendSeq
<1>4. ASSUME NEW i \in DOMAIN Append(rs, r) PROVE RecordUnforged(Append(rs, r)[i])
  <2>1. i \in 1 .. Len(rs) + 1
    BY <1>3, SeqDomain
  <2> QED
    BY <1>1, <1>2, <1>3, <2>1 DEF RecordsUnforged
<1> QED
  BY <1>0, <1>3, <1>4 DEF RecordsUnforged, Continued

LEMMA OnlyUnforged ==
  ASSUME NEW s, NEW t, IsSeq(t), Only(t, s)
  PROVE  /\ RecordsUnforged(s) => RecordsUnforged(t)
         /\ SealsUnforged(s) => SealsUnforged(t)
BY DEF Only, RecordsUnforged, SealsUnforged

LEMMA PrefixUnforged ==
  ASSUME NEW rs, RecordsUnforged(rs), NEW k \in 0 .. Len(rs)
  PROVE  RecordsUnforged(SubSeq(rs, 1, k))
<1>1. IsSeq(rs) /\ Len(rs) \in Nat /\ DOMAIN rs = 1 .. Len(rs)
  BY SeqDomain DEF RecordsUnforged
<1>2. PICK t : t = SubSeq(rs, 1, k)
  OBVIOUS
<1>3. IsSeq(t) /\ Len(t) = k /\ \A i \in 1 .. k : t[i] = rs[i]
  BY <1>1, <1>2, SubSeqSeq
<1>4. DOMAIN t = 1 .. k
  BY <1>3, SeqDomain
<1>5. Only(t, rs)
  BY <1>1, <1>3, <1>4 DEF Only
<1> QED
  BY <1>2, <1>3, <1>5, OnlyUnforged

LEMMA RemovedUnforged ==
  ASSUME Unforged, RemoveRecord
  PROVE  \E rs : RecordsUnforged(rs) /\ pack' = [pack EXCEPT !.records = rs]
<1>1. PICK i \in DOMAIN pack.records : pack' = [pack EXCEPT !.records = RemoveAt(@, i)]
  BY DEF RemoveRecord
<1>2. IsSeq(pack.records) /\ RecordsUnforged(pack.records)
  BY DEF Unforged, RecordsUnforged
<1>3. RecordsUnforged(RemoveAt(pack.records, i))
  BY <1>2, RemoveAtSeq, OnlyUnforged
<1> QED
  BY <1>1, <1>3

LEMMA SwappedUnforged ==
  ASSUME Unforged, SwapRecords
  PROVE  \E rs : RecordsUnforged(rs) /\ pack' = [pack EXCEPT !.records = rs]
<1>0. PICK s : s = pack.records
  OBVIOUS
<1>1. PICK i \in 2 .. Len(s) :
         pack' = [pack EXCEPT !.records[i] = pack.records[i - 1],
                              !.records[i - 1] = pack.records[i]]
  BY <1>0 DEF SwapRecords
<1>2. IsSeq(s) /\ Len(s) \in Nat /\ DOMAIN s = 1 .. Len(s) /\ RecordsUnforged(s)
  BY <1>0, SeqDomain DEF Unforged, RecordsUnforged
<1>9. PICK j, x, y : j = i - 1 /\ x = s[i - 1] /\ y = s[i]
  OBVIOUS
<1>3. i \in DOMAIN s /\ j \in DOMAIN s /\ j # i
  BY <1>2, <1>9
<1>4. PICK t : t = [k \in DOMAIN s |-> IF k = j THEN y ELSE IF k = i THEN x ELSE s[k]]
  OBVIOUS
<1>10. IsSeq(s)
  BY <1>2
<1>11. PICK S : S = {x, y} \cup ToSet(s)
  OBVIOUS
<1>12. t \in [DOMAIN s -> S]
  BY <1>4, <1>11 DEF ToSet
<1>5. IsSeq(t) /\ \A k \in DOMAIN t : t[k] \in {x, y} \cup ToSet(s)
  BY <1>10, <1>11, <1>12, ReplacedSeq
<1>6. Only(t, s)
  BY <1>3, <1>5, <1>9 DEF Only, ToSet
<1>7. RecordsUnforged(t)
  BY <1>2, <1>5, <1>6, OnlyUnforged
<1>8. pack' = [pack EXCEPT !.records = t]
  <2>1. [s EXCEPT ![i] = s[i - 1], ![i - 1] = s[i]] = t
    BY <1>2, <1>3, <1>4, <1>9
  <2>2. pack' = [[pack EXCEPT !.records[i] = s[i - 1]] EXCEPT !.records[i - 1] = s[i]]
    BY <1>0, <1>1
  <2> QED
    BY <1>0, <2>1, <2>2 DEF Unforged, PackShaped
<1> QED
  BY <1>7, <1>8

LEMMA RewrittenUnforged ==
  ASSUME Unforged, RewriteRecord
  PROVE  \E rs : RecordsUnforged(rs) /\ pack' = [pack EXCEPT !.records = rs]
<1>0. PICK s : s = pack.records
  OBVIOUS
<1>1. PICK i, new :
         LET r == [s[i] EXCEPT !.payload = Data("forged")]
             bare == [r EXCEPT !.sig = NoSig]
         IN  /\ i \in DOMAIN s
             /\ new \in {r, bare, [bare EXCEPT !.kid = NoKid],
                         [r EXCEPT !.payload = [type |-> "unknown"]]}
             /\ pack' = [pack EXCEPT !.records = Append(SubSeq(@, 1, i - 1), new)]
  BY <1>0 DEF RewriteRecord
<1>2. IsSeq(s) /\ Len(s) \in Nat /\ DOMAIN s = 1 .. Len(s) /\ RecordsUnforged(s)
  BY <1>0, SeqDomain DEF Unforged, RecordsUnforged
<1>3. RecordUnforged(new)
  <2>1. RecordUnforged(s[i])
    BY <1>1, <1>2 DEF RecordsUnforged
  <2>2. PICK o, r, bare, d, u :
          /\ o = s[i] /\ d = Data("forged") /\ u = [type |-> "unknown"]
          /\ r = [o EXCEPT !.payload = d]
          /\ bare = [r EXCEPT !.sig = NoSig]
    OBVIOUS
  <2>5. new \in {r, bare, [bare EXCEPT !.kid = NoKid], [r EXCEPT !.payload = u]}
    BY <1>1, <2>2
  <2>6. d.type # "cert" /\ u.type # "cert"
    BY <2>2 DEF Data
  <2>7. RecordShaped(o)
    BY <2>1, <2>2 DEF RecordUnforged
  <2>8. /\ r = [seq |-> o.seq, prev |-> o.prev, payload |-> d, kid |-> o.kid, sig |-> o.sig]
        /\ bare = [seq |-> o.seq, prev |-> o.prev, payload |-> d, kid |-> o.kid, sig |-> NoSig]
    BY <2>2, <2>7 DEF RecordShaped
  <2>9. \/ new = [seq |-> o.seq, prev |-> o.prev, payload |-> d, kid |-> o.kid, sig |-> o.sig]
        \/ new = [seq |-> o.seq, prev |-> o.prev, payload |-> d, kid |-> o.kid, sig |-> NoSig]
        \/ new = [seq |-> o.seq, prev |-> o.prev, payload |-> d, kid |-> NoKid, sig |-> NoSig]
        \/ new = [seq |-> o.seq, prev |-> o.prev, payload |-> u, kid |-> o.kid, sig |-> o.sig]
    BY <2>5, <2>8
  <2>3. /\ RecordShaped(new) /\ new.seq = o.seq
        /\ new.payload.type # "cert"
        /\ new.sig = o.sig \/ new.sig = NoSig
    BY <2>6, <2>9 DEF RecordShaped
  <2>4. Genuine(NoSig)
    BY DEF NoSig, NoKid, Genuine, Secret
  <2> QED
    BY <2>1, <2>2, <2>3, <2>4 DEF RecordUnforged
<1>4. i - 1 \in 0 .. Len(s)
  BY <1>1, <1>2
<1>5. PICK t : t = SubSeq(s, 1, i - 1)
  OBVIOUS
<1>6. RecordsUnforged(t)
  BY <1>2, <1>4, <1>5, PrefixUnforged
<1>7. RecordsUnforged(Append(t, new))
  <2>1. IsSeq(t) /\ Len(t) \in Nat /\ DOMAIN t = 1 .. Len(t)
    BY <1>6, SeqDomain DEF RecordsUnforged
  <2>2. PICK u : u = Append(t, new)
    OBVIOUS
  <2>3. /\ IsSeq(u) /\ Len(u) = Len(t) + 1 /\ u[Len(t) + 1] = new
        /\ \A k \in 1 .. Len(t) : u[k] = t[k]
    BY <2>1, <2>2, AppendSeq
  <2>4. \A k \in DOMAIN u : k \in 1 .. Len(t) \/ k = Len(t) + 1
    BY <2>1, <2>3, SeqDomain
  <2> QED
    BY <1>3, <1>6, <2>1, <2>2, <2>3, <2>4 DEF RecordsUnforged
<1> QED
  BY <1>0, <1>1, <1>5, <1>7

LEMMA ForgedUnforged ==
  ASSUME LogsKept, Unforged, ForgeRecords
  PROVE  \E rs : RecordsUnforged(rs) /\ pack' = [pack EXCEPT !.records = rs]
<1>1. PICK k, key, rs, kept :
         /\ k \in 0 .. Len(pack.records) /\ key \in HeldKeys
         /\ kept = SubSeq(pack.records, 1, k)
         /\ rs \in {kept} \cup {Continued(kept, key, p) : p \in KnownCerts}
         /\ pack' = [pack EXCEPT !.records = Continued(rs, key, Data("forged"))]
  BY DEF ForgeRecords
<1>2. ~ Secret(key)
  BY <1>1, HeldIsNotSecret
<1>3. RecordsUnforged(kept)
  BY <1>1, PrefixUnforged DEF Unforged
<1>4. RecordsUnforged(rs)
  BY <1>1, <1>2, <1>3, CertsUnforged, ContinuedUnforged
<1>5. PICK p : p = Data("forged")
  OBVIOUS
<1>6. p.type # "cert"
  BY <1>5 DEF Data
<1>7. RecordsUnforged(Continued(rs, key, p))
  BY <1>2, <1>4, <1>6, ContinuedUnforged
<1> QED
  BY <1>1, <1>5, <1>7

LEMMA RenamedUnforged ==
  ASSUME Unforged, RenameChain
  PROVE  \E c \in Chains : pack' = [pack EXCEPT !.chain = c]
BY DEF RenameChain

LEMMA UnsealedUnforged ==
  ASSUME Unforged, RemoveSeal
  PROVE  \E ss : SealsUnforged(ss) /\ pack' = [pack EXCEPT !.seals = ss]
<1>1. PICK i \in DOMAIN pack.seals : pack' = [pack EXCEPT !.seals = RemoveAt(@, i)]
  BY DEF RemoveSeal
<1>2. IsSeq(pack.seals) /\ SealsUnforged(pack.seals)
  BY DEF Unforged, SealsUnforged
<1>3. SealsUnforged(RemoveAt(pack.seals, i))
  BY <1>2, RemoveAtSeq, OnlyUnforged
<1> QED
  BY <1>1, <1>3

LEMMA SealedUnforged ==
  ASSUME SealsKept, Unforged, AddSeal
  PROVE  \E ss : SealsUnforged(ss) /\ pack' = [pack EXCEPT !.seals = ss, !.anchors = {}]
<1>1. PICK e : /\ pack' = [pack EXCEPT !.seals = <<e>>, !.anchors = {}]
               /\ (\E c \in Chains : e \in ToSet(seals[c])) \/ \E kid : e = OwnSeal(kid)
  BY DEF AddSeal
<1>2. SealUnforged(e)
  <2>1. ASSUME NEW c \in Chains, e \in ToSet(seals[c]) PROVE SealUnforged(e)
    BY <2>1, SealsAreUnforged DEF SealsUnforged, ToSet
  <2>2. ASSUME NEW kid, e = OwnSeal(kid) PROVE SealUnforged(e)
    <3>1. PICK s : s = SealOf(pack.chain, pack.records, NoSeal, kid).seal
      OBVIOUS
    <3>2. s = [chain |-> s.chain, from |-> s.from, to |-> s.to, root |-> s.root,
               head |-> s.head, prev |-> s.prev, kid |-> s.kid]
      BY <3>1 DEF SealOf
    <3>3. e = [seal |-> s, sig |-> Sign(Mallory, SealBytes(s))]
      BY <2>2, <3>1 DEF OwnSeal
    <3>4. SealShaped(e)
      BY <3>2, <3>3 DEF SealShaped, Sign
    <3>5. Genuine(e.sig)
      BY <3>3, OwnSignature DEF Secret, Mallory
    <3> QED
      BY <3>4, <3>5 DEF SealUnforged
  <2> QED
    BY <1>1, <2>1, <2>2
<1>3. PICK ss : ss = <<e>>
  OBVIOUS
<1>4. SealsUnforged(ss)
  <2>1. IsSeq(ss) /\ DOMAIN ss = {1} /\ ss[1] = e
    BY <1>3, SingletonSeq
  <2> QED
    BY <1>2, <2>1 DEF SealsUnforged
<1> QED
  BY <1>1, <1>3, <1>4

LEMMA ReplacedUnforged ==
  ASSUME BundlesKept, ReplaceBundle
  PROVE  \E b : Genuine(b.sig) /\ pack' = [pack EXCEPT !.bundle = b]
<1>1. PICK b : /\ pack' = [pack EXCEPT !.bundle = b]
               /\ b = [Current EXCEPT !.attestations = {}] \/ \E k, e : b = OwnBundle(k, e)
  BY DEF ReplaceBundle
<1>2. Genuine(b.sig)
  <2>1. ASSUME b = [Current EXCEPT !.attestations = {}] PROVE Genuine(b.sig)
    <3>1. Len(bundles) \in DOMAIN bundles
      <4>1. Len(bundles) \in Nat /\ DOMAIN bundles = 1 .. Len(bundles) /\ Len(bundles) # 0
        BY SeqDomain, EmptySeq DEF BundlesKept, IsSeq
      <4> QED
        BY <4>1
    <3>2. PICK o : o = bundles[Len(bundles)]
      OBVIOUS
    <3>3. Genuine(o.sig) /\ BundleShaped(o)
      BY <3>1, <3>2, BundleUnforged
    <3>4. b = [o EXCEPT !.attestations = {}]
      BY <2>1, <3>2 DEF Current
    <3>5. b.sig = o.sig
      BY <3>3, <3>4 DEF BundleShaped
    <3> QED
      BY <3>3, <3>5
  <2>2. ASSUME NEW k, NEW e, b = OwnBundle(k, e) PROVE Genuine(b.sig)
    <3>1. PICK bytes : b.sig = Sign(Mallory, bytes)
      BY <2>2 DEF OwnBundle
    <3> QED
      BY <3>1, OwnSignature DEF Secret, Mallory
  <2> QED
    BY <1>1, <2>1, <2>2
<1> QED
  BY <1>1, <1>2

LEMMA AnchorsChange ==
  ASSUME ChangeAnchor
  PROVE  \E a : pack' = [pack EXCEPT !.anchors = a]
BY DEF ChangeAnchor

(* The editor signs nothing that others are believed to have signed.       *)
LEMMA GenuineStays ==
  ASSUME UNCHANGED <<bundles, logs, seals>>, NEW x
  PROVE  /\ Genuine(x) => Genuine(x)'
         /\ RecordsUnforged(x) => RecordsUnforged(x)'
         /\ SealsUnforged(x) => SealsUnforged(x)'
<1>1. \A y : Genuine(y) => Genuine(y)'
  BY DEF Genuine, RecordSigned, CertSigned, SealSigned, BundleSigned
<1>2. \A y : RecordUnforged(y) => RecordUnforged(y)'
  BY <1>1 DEF RecordUnforged
<1>3. \A y : SealUnforged(y) => SealUnforged(y)'
  BY <1>1 DEF SealUnforged
<1> QED
  BY <1>1, <1>2, <1>3 DEF RecordsUnforged, SealsUnforged

LEMMA EditedUnforged ==
  ASSUME Unforged, UNCHANGED <<bundles, logs, seals>>,
         \/ \E rs : RecordsUnforged(rs) /\ pack' = [pack EXCEPT !.records = rs]
         \/ \E c \in Chains : pack' = [pack EXCEPT !.chain = c]
         \/ \E ss : SealsUnforged(ss) /\ pack' = [pack EXCEPT !.seals = ss]
         \/ \E ss : SealsUnforged(ss) /\ pack' = [pack EXCEPT !.seals = ss, !.anchors = {}]
         \/ \E b : Genuine(b.sig) /\ pack' = [pack EXCEPT !.bundle = b]
         \/ \E a : pack' = [pack EXCEPT !.anchors = a]
  PROVE  Unforged'
<1>1. PICK c, rs, ss, b, ks, as :
         /\ c = pack.chain /\ rs = pack.records /\ ss = pack.seals
         /\ b = pack.bundle /\ ks = pack.keys /\ as = pack.anchors
  OBVIOUS
<1>2. pack = [chain |-> c, records |-> rs, seals |-> ss, bundle |-> b, keys |-> ks, anchors |-> as]
  BY <1>1 DEF Unforged, PackShaped
<1>3. c \in Chains /\ RecordsUnforged(rs) /\ SealsUnforged(ss) /\ (b # NoBundle => Genuine(b.sig))
  BY <1>1 DEF Unforged
<1>4. ASSUME NEW d \in Chains, NEW rt, NEW st, NEW e, NEW at,
             RecordsUnforged(rt), SealsUnforged(st), e # NoBundle => Genuine(e.sig),
             pack' = [chain |-> d, records |-> rt, seals |-> st, bundle |-> e, keys |-> ks,
                      anchors |-> at]
      PROVE  Unforged'
  <2>1. RecordsUnforged(rt)' /\ SealsUnforged(st)' /\ (e # NoBundle => Genuine(e.sig)')
    BY <1>4, GenuineStays
  <2>2. /\ pack'.chain = d /\ pack'.records = rt /\ pack'.seals = st /\ pack'.bundle = e
        /\ pack'.keys = ks /\ pack'.anchors = at
    BY <1>4
  <2>3. PackShaped'
    BY <1>4, <2>2 DEF PackShaped
  <2>4. RecordsUnforged(pack.records)'
    BY <2>1, <2>2
  <2>5. SealsUnforged(pack.seals)'
    BY <2>1, <2>2
  <2>6. (pack.bundle # NoBundle => Genuine(pack.bundle.sig))'
    BY <2>1, <2>2
  <2> QED
    BY <2>2, <2>3, <2>4, <2>5, <2>6 DEF Unforged
<1>5. ASSUME NEW rt, RecordsUnforged(rt), pack' = [pack EXCEPT !.records = rt] PROVE Unforged'
  BY <1>2, <1>3, <1>4, <1>5
<1>6. ASSUME NEW d \in Chains, pack' = [pack EXCEPT !.chain = d] PROVE Unforged'
  BY <1>2, <1>3, <1>4, <1>6
<1>7. ASSUME NEW st, SealsUnforged(st), pack' = [pack EXCEPT !.seals = st] PROVE Unforged'
  BY <1>2, <1>3, <1>4, <1>7
<1>8. ASSUME NEW st, SealsUnforged(st), pack' = [pack EXCEPT !.seals = st, !.anchors = {}]
      PROVE  Unforged'
  BY <1>2, <1>3, <1>4, <1>8
<1>9. ASSUME NEW e, Genuine(e.sig), pack' = [pack EXCEPT !.bundle = e] PROVE Unforged'
  BY <1>2, <1>3, <1>4, <1>9
<1>10. ASSUME NEW at, pack' = [pack EXCEPT !.anchors = at] PROVE Unforged'
  BY <1>2, <1>3, <1>4, <1>10
<1> QED
  BY <1>5, <1>6, <1>7, <1>8, <1>9, <1>10

LEMMA EditNext ==
  ASSUME Kept, Unforged,
         \/ RemoveRecord \/ SwapRecords \/ RewriteRecord \/ ForgeRecords
         \/ RenameChain \/ RemoveSeal \/ AddSeal \/ ReplaceBundle \/ ChangeAnchor
  PROVE  Unforged' /\ edits' # {}
<1> USE DEF Kept
<1>1. ASSUME NEW kind, Edit(kind)
      PROVE  UNCHANGED <<bundles, logs, seals>> /\ edits' # {}
  BY <1>1 DEF Edit
<1>2. CASE RemoveRecord
  BY <1>1, <1>2, RemovedUnforged, EditedUnforged DEF RemoveRecord
<1>3. CASE SwapRecords
  BY <1>1, <1>3, SwappedUnforged, EditedUnforged DEF SwapRecords
<1>4. CASE RewriteRecord
  BY <1>1, <1>4, RewrittenUnforged, EditedUnforged DEF RewriteRecord
<1>5. CASE ForgeRecords
  BY <1>1, <1>5, ForgedUnforged, EditedUnforged DEF ForgeRecords
<1>6. CASE RenameChain
  BY <1>1, <1>6, RenamedUnforged, EditedUnforged DEF RenameChain
<1>7. CASE RemoveSeal
  BY <1>1, <1>7, UnsealedUnforged, EditedUnforged DEF RemoveSeal
<1>8. CASE AddSeal
  BY <1>1, <1>8, SealedUnforged, EditedUnforged DEF AddSeal
<1>9. CASE ReplaceBundle
  BY <1>1, <1>9, ReplacedUnforged, EditedUnforged DEF ReplaceBundle
<1>10. CASE ChangeAnchor
  BY <1>1, <1>10, AnchorsChange, EditedUnforged DEF ChangeAnchor
<1> QED
  BY <1>2, <1>3, <1>4, <1>5, <1>6, <1>7, <1>8, <1>9, <1>10

LEMMA ExportNext ==
  ASSUME Kept, NEW c \in Chains, Export(c)
  PROVE  Unforged' /\ Exported'
<1> USE DEF Kept
<1>1. PICK b, ks, as, last :
        /\ b \in ToSet(bundles) \cup {NoBundle}
        /\ last = SealBytes(LastSeal(seals[c]))
        /\ pack' = [chain |-> c, records |-> logs[c], seals |-> seals[c], bundle |-> b,
                    keys |-> ks, anchors |-> as]
        /\ ks = IF seals[c] = << >> THEN {} ELSE {Entry(SealKey, "seal")}
        /\ as = IF seals[c] = << >> THEN {}
                ELSE {[seal |-> last, status |-> "granted", imprint |-> last]}
  BY DEF Export
<1>2. UNCHANGED <<bundles, logs, seals>>
  BY DEF Export
<1>3. /\ pack'.chain = c /\ pack'.records = logs[c] /\ pack'.seals = seals[c]
      /\ pack'.bundle = b /\ pack'.keys = ks /\ pack'.anchors = as
  BY <1>1
<1>4. b = NoBundle \/ \E m \in DOMAIN bundles : b = bundles[m]
  BY <1>1 DEF ToSet
<1>5. PICK rs, ss : rs = logs[c] /\ ss = seals[c]
  OBVIOUS
<1>6. RecordsUnforged(rs) /\ SealsUnforged(ss) /\ (b # NoBundle => Genuine(b.sig))
  BY <1>4, <1>5, LogUnforged, SealsAreUnforged, BundleUnforged
<1>7. RecordsUnforged(rs)' /\ SealsUnforged(ss)' /\ (b # NoBundle => Genuine(b.sig)')
  BY <1>2, <1>6, GenuineStays
<1>8. Unforged'
  <2>1. PackShaped'
    BY <1>1, <1>3 DEF PackShaped
  <2>2. RecordsUnforged(pack.records)'
    BY <1>3, <1>5, <1>7
  <2>3. SealsUnforged(pack.seals)'
    BY <1>3, <1>5, <1>7
  <2>4. (pack.bundle # NoBundle => Genuine(pack.bundle.sig))'
    BY <1>3, <1>7
  <2> QED
    BY <1>3, <2>1, <2>2, <2>3, <2>4 DEF Unforged
<1>9. Exported'
  <2>1. SealBytes(LastSeal(seals'[c])) = last
    BY <1>1, <1>2
  <2>2. \A a \in as : seals'[c] # << >> /\ a.seal = last /\ a.status = "granted" /\ a.imprint = last
    BY <1>1, <1>2
  <2>3. pack'.bundle = NoBundle \/ \E m \in DOMAIN bundles' : pack'.bundle = bundles'[m]
    BY <1>2, <1>3, <1>4
  <2>4. ks = IF seals'[c] = << >> THEN {} ELSE {Entry(SealKey, "seal")}
    BY <1>1, <1>2
  <2> QED
    BY <1>2, <1>3, <2>1, <2>2, <2>3, <2>4 DEF Exported
<1> QED
  BY <1>8, <1>9

LEMMA PackNext == Kept /\ PackInv /\ [Next]_vars => PackInv'
<1> SUFFICES ASSUME Kept, PackInv, [Next]_vars PROVE PackInv'
  OBVIOUS
<1>1. ASSUME pack = NoPack, pack' = pack PROVE PackInv'
  BY <1>1 DEF PackInv
<1>2. ASSUME NEW c \in Chains, Open(c) \/ Write(c) \/ Seal(c) PROVE PackInv'
  BY <1>1, <1>2 DEF Open, Write, Seal
<1>3. ASSUME Rotate PROVE PackInv'
  BY <1>1, <1>3 DEF Rotate
<1>4. ASSUME NEW c \in Chains, Export(c) PROVE PackInv'
  BY <1>4, ExportNext DEF PackInv
<1>5. ASSUME \/ RemoveRecord \/ SwapRecords \/ RewriteRecord \/ ForgeRecords
             \/ RenameChain \/ RemoveSeal \/ AddSeal \/ ReplaceBundle \/ ChangeAnchor
      PROVE  PackInv'
  <2>1. ASSUME NEW kind, Edit(kind) PROVE pack # NoPack
    BY <2>1 DEF Edit
  <2>2. pack # NoPack
    <3>1. (RemoveRecord => Edit("records")) /\ (SwapRecords => Edit("records"))
      BY DEF RemoveRecord, SwapRecords
    <3>2. (RewriteRecord => Edit("records")) /\ (ForgeRecords => Edit("records"))
      BY DEF RewriteRecord, ForgeRecords
    <3>3. (RenameChain => Edit("chain")) /\ (RemoveSeal => Edit("seals"))
      BY DEF RenameChain, RemoveSeal
    <3>4. (AddSeal => Edit("seals")) /\ (ReplaceBundle => Edit("bundle"))
      BY DEF AddSeal, ReplaceBundle
    <3>5. ChangeAnchor => Edit("anchors")
      BY DEF ChangeAnchor
    <3> QED
      BY <1>5, <2>1, <3>1, <3>2, <3>3, <3>4, <3>5
  <2> QED
    BY <1>5, <2>2, EditNext DEF PackInv
<1>6. CASE UNCHANGED vars
  <2>1. UNCHANGED <<bundles, logs, seals, pack, edits>>
    BY <1>6 DEF vars
  <2>2. ASSUME pack # NoPack PROVE Unforged'
    <3>1. Unforged /\ pack' = [pack EXCEPT !.anchors = pack.anchors]
      BY <2>1, <2>2 DEF PackInv, Unforged, PackShaped
    <3> QED
      BY <2>1, <3>1, EditedUnforged
  <2>3. ASSUME pack # NoPack, edits = {} PROVE Exported'
    BY <2>1, <2>3 DEF PackInv, Exported
  <2> QED
    BY <2>1, <2>2, <2>3 DEF PackInv
<1> QED
  BY <1>2, <1>3, <1>4, <1>5, <1>6 DEF Next

(* The invariant on which everything below rests: records, seals and       *)
(* bundles stay as they were signed, and whatever is done to a pack, a     *)
(* signature in it by a key that no editor holds is over bytes that a      *)
(* gateway, a ledger or the operator signed.                               *)
THEOREM NothingForged == Spec => []EvidenceInv
<1>1. Init => EvidenceInv
  BY KeptInit DEF EvidenceInv, PackInv, Init
<1>2. EvidenceInv /\ [Next]_vars => EvidenceInv'
  BY KeptNext, PackNext DEF EvidenceInv
<1> QED
  BY <1>1, <1>2, PTL DEF Spec

-----------------------------------------------------------------------------
(***************************************************************************)
(* Signatures of keys nobody else holds.                                   *)
(***************************************************************************)
LEMMA SignedRecord ==
  ASSUME NEW sig, Genuine(sig), Secret(sig.by), NEW c, NEW r, sig.over = OriginBytes(c, r)
  PROVE  c \in Chains /\ \E i \in DOMAIN logs[c] : Hash(logs[c][i]) = Hash(r)
<1>1. OriginBytes(c, r) = <<"record", c, Hash(r)>>
  BY DEF OriginBytes
<1> QED
  BY <1>1 DEF Genuine, RecordSigned, CertSigned, SealSigned, BundleSigned,
              OriginBytes, CertBytes, SealBytes, BundleBytes

LEMMA SignedCert ==
  ASSUME NEW sig, Genuine(sig), Secret(sig.by), NEW c, NEW p, sig.over = CertBytes(c, p)
  PROVE  /\ c \in Chains
         /\ \E i \in DOMAIN logs[c] : /\ logs[c][i].payload.type = "cert"
                                      /\ logs[c][i].payload.session = p.session
                                      /\ logs[c][i].payload.identity = p.identity
BY DEF Genuine, RecordSigned, CertSigned, SealSigned, BundleSigned,
       OriginBytes, CertBytes, SealBytes, BundleBytes

LEMMA SignedSeal ==
  ASSUME SealsKept, NEW sig, Genuine(sig), Secret(sig.by), NEW s, sig.over = SealBytes(s)
  PROVE  /\ s.chain \in Chains
         /\ \E i \in DOMAIN seals[s.chain] : SealBytes(seals[s.chain][i].seal) = SealBytes(s)
<1>1. PICK c, i : /\ c \in Chains /\ i \in DOMAIN seals[c]
                  /\ SealBytes(seals[c][i].seal) = SealBytes(s)
  BY DEF Genuine, RecordSigned, CertSigned, SealSigned, BundleSigned,
         OriginBytes, CertBytes, SealBytes, BundleBytes
<1>2. seals[c][i].seal.chain = c
  BY <1>1 DEF SealsKept, SealKept
<1>3. s.chain = c
  BY <1>1, <1>2 DEF SealBytes
<1> QED
  BY <1>1, <1>3

LEMMA SignedBundle ==
  ASSUME NEW sig, Genuine(sig), Secret(sig.by), NEW b, sig.over = BundleBytes(b)
  PROVE  \E m \in DOMAIN bundles : /\ bundles[m].keys = b.keys
                                   /\ bundles[m].attestations = b.attestations
BY DEF Genuine, RecordSigned, CertSigned, SealSigned, BundleSigned,
       OriginBytes, CertBytes, SealBytes, BundleBytes

LEMMA TrustIsHonest ==
  ASSUME NEW trust \in TrustSets
  PROVE  /\ \A e \in trust : e.kid = e.key /\ Secret(e.key)
         /\ Entry(SealKey, "seal") \in trust
         /\ \A p : KeySource(p, trust) = trust
BY EvidenceAssumption DEF Secret, KeySource

LEMMA AnchoredBundle ==
  ASSUME Unforged, NEW trust \in TrustSets, NEW o, Anchored(pack, trust),
         BundleAccepted(pack, trust, o)
  PROVE  \E m \in DOMAIN bundles : /\ bundles[m].keys = pack.bundle.keys
                                   /\ bundles[m].attestations = pack.bundle.attestations
<1>1. PICK e \in trust : Verified(pack.bundle.sig, e.key, BundleBytes(pack.bundle))
  BY DEF BundleAccepted
<1>2. Genuine(pack.bundle.sig)
  BY DEF Unforged, Anchored
<1>3. Secret(pack.bundle.sig.by) /\ pack.bundle.sig.over = BundleBytes(pack.bundle)
  BY <1>1, TrustIsHonest DEF Verified
<1> QED
  BY <1>2, <1>3, SignedBundle

LEMMA IdentitiesHonest ==
  ASSUME Kept, Unforged, NEW trust \in TrustSets, NEW o, BundleAccepted(pack, trust, o),
         NEW e \in IdentityKeys(pack, trust)
  PROVE  e.kid = e.key /\ Secret(e.key)
<1>1. CASE e \in trust
  BY <1>1, TrustIsHonest
<1>2. CASE Anchored(pack, trust) /\ e \in ActiveKeys(pack.bundle)
  <2>1. PICK m \in DOMAIN bundles : bundles[m].keys = pack.bundle.keys
    BY <1>2, AnchoredBundle
  <2>2. PICK i \in DOMAIN bundles[m].keys : e = bundles[m].keys[i]
    BY <1>2, <2>1 DEF ActiveKeys, ToSet
  <2>3. BundleKept(bundles[m], Len(bundles))
    BY DEF Kept, BundlesKept
  <2>4. PICK n : e = Entry(Identity(n), "origin")
    BY <2>2, <2>3 DEF BundleKept
  <2> QED
    BY <2>4 DEF Entry, Identity, Secret
<1> QED
  BY <1>1, <1>2 DEF IdentityKeys

(* A certificate that verifies was made, for a session of the pack's chain.*)
LEMMA CertifiedSessions ==
  ASSUME Kept, Unforged, NEW trust \in TrustSets, NEW o, BundleAccepted(pack, trust, o),
         NEW e \in CertifiedKeys(pack.chain, pack.records, IdentityKeys(pack, trust))
  PROVE  e.kid = e.key /\ e.key[1] = "session" /\ e.key[2] = pack.chain
<1>1. PICK i \in DOMAIN pack.records, f \in IdentityKeys(pack, trust) :
        /\ pack.records[i].payload.type = "cert"
        /\ CertVerifies(pack.chain, pack.records[i].payload, f.key)
        /\ e = Entry(pack.records[i].payload.session, "origin")
  BY DEF CertifiedKeys
<1>2. PICK p : p = pack.records[i].payload
  OBVIOUS
<1>3. Genuine(p.sig)
  BY <1>1, <1>2 DEF Unforged, RecordsUnforged, RecordUnforged
<1>4. Secret(p.sig.by) /\ p.sig.over = CertBytes(pack.chain, p)
  BY <1>1, <1>2, IdentitiesHonest DEF CertVerifies, Verified
<1>5. PICK j \in DOMAIN logs[pack.chain] :
        /\ logs[pack.chain][j].payload.type = "cert"
        /\ logs[pack.chain][j].payload.session = p.session
  BY <1>3, <1>4, SignedCert
<1>6. PayloadKept(pack.chain, logs[pack.chain][j].payload)
  BY DEF Kept, LogsKept, LogKept, RecordKept, Unforged
<1>7. p.session[1] = "session" /\ p.session[2] = pack.chain
  BY <1>5, <1>6 DEF PayloadKept
<1> QED
  BY <1>1, <1>2, <1>7 DEF Entry

-----------------------------------------------------------------------------
(***************************************************************************)
(* A verified record was written.                                          *)
(***************************************************************************)
LEMMA VerifiedRecordWritten ==
  ASSUME Kept, Unforged, NEW trust \in TrustSets, pack.chain \notin Leaked,
         Valid(pack, trust, Requiring(TRUE, FALSE)), NEW r \in ToSet(pack.records)
  PROVE  WrittenAt(pack.chain, r)
<1> DEFINE o == Requiring(TRUE, FALSE)
           c == pack.chain
           identities == IdentityKeys(pack, trust)
           origins == identities \cup CertifiedKeys(c, pack.records, identities)
<1>1. BundleAccepted(pack, trust, o) /\ OriginAccepted(pack, trust, origins, o)
  BY TrustIsHonest DEF Valid
<1>2. o.origin
  BY DEF Requiring
<1>3. PICK i \in DOMAIN pack.records : r = pack.records[i]
  BY DEF ToSet
<1>4. PICK e \in origins : Verified(r.sig, e.key, OriginBytes(c, r))
  <2> HIDE DEF o, origins
  <2> QED
    BY <1>1, <1>2, <1>3 DEF OriginAccepted
<1>5. Secret(e.key)
  <2>1. CASE e \in identities
    BY <1>1, <2>1, IdentitiesHonest
  <2>2. CASE e \in CertifiedKeys(c, pack.records, identities)
    <3>1. e.key[1] = "session" /\ e.key[2] = c
      BY <1>1, <2>2, CertifiedSessions
    <3> QED
      BY <3>1 DEF Secret
  <2> QED
    BY <2>1, <2>2
<1>6. Genuine(r.sig) /\ Secret(r.sig.by) /\ r.sig.over = OriginBytes(c, r)
  BY <1>3, <1>4, <1>5 DEF Unforged, RecordsUnforged, RecordUnforged, Verified
<1>7. PICK j \in DOMAIN logs[c] : Hash(logs[c][j]) = Hash(r)
  BY <1>6, SignedRecord
<1>8. c \in Chains
  BY DEF Unforged
<1>9. logs[c][j].seq = j - 1 /\ j \in Nat
  <2>1. RecordKept(c, j)
    BY <1>8 DEF Kept, LogsKept, LogKept
  <2>2. j \in Nat
    BY <1>8, SeqDomain DEF Kept, LogsKept, LogKept
  <2> QED
    BY <2>1, <2>2 DEF RecordKept
<1>10. r.seq + 1 = j
  BY <1>7, <1>9 DEF Hash
<1> QED
  BY <1>7, <1>10 DEF WrittenAt

(* With origins required and keys from outside the pack, every record of a *)
(* valid pack was written, there, to the chain that the pack names         *)
(* (evidence.rs verify_with, require_origin).                              *)
THEOREM VerifiedWritten == Spec => []VerifiedIsWritten
<1>1. EvidenceInv => VerifiedIsWritten
  BY VerifiedRecordWritten DEF EvidenceInv, PackInv, VerifiedIsWritten
<1> QED
  BY <1>1, NothingForged, PTL

-----------------------------------------------------------------------------
(***************************************************************************)
(* The seals of a valid pack.                                              *)
(***************************************************************************)
(* Two seals of a chain that say the same are one.                         *)
LEMMA SealsDiffer ==
  ASSUME SealsKept, NEW c \in Chains, NEW i \in DOMAIN seals[c], NEW j \in DOMAIN seals[c],
         SealBytes(seals[c][i].seal) = SealBytes(seals[c][j].seal)
  PROVE  i = j
<1>1. i \in Nat /\ j \in Nat /\ i >= 1 /\ j >= 1
  BY SeqDomain DEF SealsKept
<1>2. seals[c][i].seal.to = seals[c][j].seal.to
  BY DEF SealBytes
<1>3. /\ SealKept(c, i) /\ SealKept(c, j)
  BY DEF SealsKept
<1>4. /\ seals[c][i].seal.to \in Nat /\ seals[c][j].seal.to \in Nat
      /\ \A k \in 1 .. i - 1 : seals[c][k].seal.to < seals[c][i].seal.to
      /\ \A k \in 1 .. j - 1 : seals[c][k].seal.to < seals[c][j].seal.to
  BY <1>3 DEF SealKept
<1>5. ~ (i < j)
  <2>1. i < j => i \in 1 .. j - 1
    BY <1>1
  <2> QED
    BY <1>2, <1>4, <2>1
<1>6. ~ (j < i)
  <2>1. j < i => j \in 1 .. i - 1
    BY <1>1
  <2> QED
    BY <1>2, <1>4, <2>1
<1> QED
  BY <1>1, <1>5, <1>6

(* A seal that is accepted is one that the ledger made of that chain.      *)
LEMMA SealWasMade ==
  ASSUME Kept, Unforged, NEW trust \in TrustSets, NEW i \in DOMAIN pack.seals,
         SealAccepted(pack, trust, i)
  PROVE  \E j \in DOMAIN seals[pack.chain] : seals[pack.chain][j] = pack.seals[i]
<1>0. PICK e, c : e = pack.seals[i] /\ c = pack.chain
  OBVIOUS
<1>1. PICK k \in trust : k.kid = e.seal.kid /\ Verified(e.sig, k.key, SealBytes(e.seal))
  BY <1>0 DEF SealAccepted
<1>2. e.seal.chain = c
  BY <1>0 DEF SealAccepted
<1>3. SealUnforged(e)
  BY <1>0 DEF Unforged, SealsUnforged
<1>4. k.kid = k.key /\ Secret(k.key)
  BY TrustIsHonest
<1>5. /\ e.sig.by = k.key /\ e.sig.over = SealBytes(e.seal)
      /\ Genuine(e.sig) /\ Secret(e.sig.by)
  BY <1>1, <1>3, <1>4 DEF Verified, SealUnforged
<1>6. PICK j \in DOMAIN seals[c] : SealBytes(seals[c][j].seal) = SealBytes(e.seal)
  BY <1>2, <1>5, SignedSeal DEF Kept
<1>7. PICK f : f = seals[c][j]
  OBVIOUS
<1>8. /\ SealShaped(f) /\ f.seal.kid = SealKey /\ f.sig = Sign(SealKey, SealBytes(f.seal))
  <2>1. SealKept(c, j)
    BY <1>0 DEF Kept, SealsKept, Unforged
  <2> QED
    BY <1>7, <2>1 DEF SealKept
<1>9. SealShaped(e)
  BY <1>3 DEF SealUnforged
<1>10. f.seal = e.seal
  BY <1>6, <1>7, <1>8, <1>9 DEF SealBytes, SealShaped
<1>11. f.sig = [by |-> e.sig.by, over |-> e.sig.over]
  BY <1>1, <1>4, <1>5, <1>8, <1>10 DEF Sign
<1>12. e = [seal |-> e.seal, sig |-> [by |-> e.sig.by, over |-> e.sig.over]]
  BY <1>9 DEF SealShaped
<1>13. f = [seal |-> f.seal, sig |-> f.sig]
  BY <1>8 DEF SealShaped
<1>14. f = e
  BY <1>10, <1>11, <1>12, <1>13
<1> QED
  BY <1>0, <1>7, <1>14

(* Linked to one another, the seals are the first ones of the chain.       *)
LEMMA SealsAreFirst ==
  ASSUME Kept, Unforged, NEW trust \in TrustSets,
         \A i \in DOMAIN pack.seals : SealAccepted(pack, trust, i)
  PROVE  \A i \in DOMAIN pack.seals : /\ i \in DOMAIN seals[pack.chain]
                                      /\ seals[pack.chain][i] = pack.seals[i]
<1> DEFINE Bad == {i \in DOMAIN pack.seals :
                     ~ (i \in DOMAIN seals[pack.chain] /\ seals[pack.chain][i] = pack.seals[i])}
<1>1. /\ DOMAIN pack.seals = 1 .. Len(pack.seals) /\ Len(pack.seals) \in Nat
  BY SeqDomain DEF Unforged, SealsUnforged
<1>2. Bad = {}
  <2>1. SUFFICES ASSUME Bad # {} PROVE FALSE
    OBVIOUS
  <2>2. Bad \subseteq Nat
    BY <1>1
  <2>3. PICK i \in Bad : \A k \in Bad : i <= k
    <3> HIDE DEF Bad
    <3> QED
      BY <2>1, <2>2, LeastNumber
  <2>4. PICK c, p, s : c = pack.chain /\ p = pack.seals /\ s = seals[c]
    OBVIOUS
  <2>5. i \in DOMAIN p /\ i \in Nat /\ i >= 1
    BY <1>1, <2>4
  <2>6. PICK j \in DOMAIN s : s[j] = p[i]
    BY <2>4, SealWasMade
  <2>7. c \in Chains /\ IsSeq(s)
    BY <2>4 DEF Unforged, Kept, SealsKept
  <2>8. Len(s) \in Nat /\ DOMAIN s = 1 .. Len(s)
    BY <2>7, SeqDomain
  <2>9. p[i].seal.prev = IF i = 1 THEN << >> ELSE SealBytes(p[i - 1].seal)
    BY <2>4, <2>5 DEF SealAccepted, SealLinked
  <2>10. s[j].seal.prev = IF j = 1 THEN << >> ELSE SealBytes(s[j - 1].seal)
    <3>1. SealKept(c, j)
      BY <2>4, <2>7 DEF Kept, SealsKept
    <3> QED
      BY <2>4, <3>1 DEF SealKept
  <2>11. \A x : SealBytes(x) # << >>
    BY DEF SealBytes
  <2>12. i = 1 <=> j = 1
    BY <2>6, <2>9, <2>10, <2>11
  <2>13. i # 1 => i = j
    <3>1. SUFFICES ASSUME i # 1 PROVE i = j
      OBVIOUS
    <3>2. i - 1 \in DOMAIN p /\ ~ (i <= i - 1)
      BY <1>1, <2>4, <2>5, <3>1
    <3>3. i - 1 \notin Bad
      BY <2>3, <3>2
    <3>4. i - 1 \in DOMAIN s /\ s[i - 1] = p[i - 1]
      BY <2>4, <3>2, <3>3
    <3>5. SealBytes(s[i - 1].seal) = SealBytes(s[j - 1].seal)
      BY <2>6, <2>9, <2>10, <2>12, <3>1, <3>4
    <3>6. j - 1 \in DOMAIN s /\ j \in Nat
      BY <2>8, <2>12, <3>1
    <3>7. i - 1 = j - 1
      BY <2>4, <2>7, <3>4, <3>5, <3>6, SealsDiffer DEF Kept
    <3> QED
      BY <2>5, <3>6, <3>7
  <2>14. i = j
    BY <2>12, <2>13
  <2> QED
    BY <2>4, <2>6, <2>14
<1> QED
  BY <1>2

LEMMA SealsArePrefix ==
  ASSUME NEW p, NEW s, IsSeq(p), IsSeq(s),
         \A i \in DOMAIN p : i \in DOMAIN s /\ s[i] = p[i]
  PROVE  IsPrefix(p, s)
<1>1. /\ Len(p) \in Nat /\ DOMAIN p = 1 .. Len(p)
      /\ Len(s) \in Nat /\ DOMAIN s = 1 .. Len(s)
  BY SeqDomain
<1>2. Len(p) <= Len(s)
  <2>1. CASE Len(p) = 0
    BY <1>1, <2>1
  <2>2. CASE Len(p) # 0
    <3>1. Len(p) \in DOMAIN p
      BY <1>1, <2>2
    <3>2. Len(p) \in DOMAIN s
      BY <3>1
    <3> QED
      BY <1>1, <3>2
  <2> QED
    BY <2>1, <2>2
<1>3. PICK a, b : a = SubSeq(p, 1, Len(p)) /\ b = SubSeq(s, 1, Len(p))
  OBVIOUS
<1>4. Len(p) \in 0 .. Len(p) /\ Len(p) \in 0 .. Len(s)
  BY <1>1, <1>2
<1>5. /\ IsSeq(a) /\ Len(a) = Len(p) /\ \A i \in 1 .. Len(p) : a[i] = p[i]
      /\ IsSeq(b) /\ Len(b) = Len(p) /\ \A i \in 1 .. Len(p) : b[i] = s[i]
  BY <1>3, <1>4, SubSeqSeq
<1>6. DOMAIN a = 1 .. Len(p) /\ DOMAIN b = 1 .. Len(p)
  BY <1>5, SeqDomain
<1>7. \A i \in 1 .. Len(p) : a[i] = b[i]
  BY <1>1, <1>5
<1>8. a = b
  <2>1. a = [i \in DOMAIN a |-> a[i]] /\ b = [i \in DOMAIN b |-> b[i]]
    <3>1. a \in Seq(ToSet(a)) /\ b \in Seq(ToSet(b))
      BY <1>5 DEF IsSeq
    <3> QED
      BY <3>1, LenProperties
  <2> QED
    BY <1>6, <1>7, <2>1
<1> QED
  BY <1>2, <1>3, <1>8 DEF IsPrefix

-----------------------------------------------------------------------------
(***************************************************************************)
(* The records that the seals of a valid pack cover.                       *)
(***************************************************************************)
(* The numbers of an intact chain follow one another.                      *)
LEMMA Consecutive ==
  ASSUME Unforged, ChainIntact(pack)
  PROVE  /\ DOMAIN pack.records = 1 .. Len(pack.records) /\ Len(pack.records) \in Nat
         /\ \A i \in DOMAIN pack.records :
              /\ pack.records[i].seq \in Nat /\ pack.records[1].seq \in Nat
              /\ pack.records[i].seq = pack.records[1].seq + i - 1
<1> DEFINE rs == pack.records
           Bad == {i \in DOMAIN rs : rs[i].seq # rs[1].seq + i - 1}
<1>1. DOMAIN rs = 1 .. Len(rs) /\ Len(rs) \in Nat
  BY SeqDomain DEF Unforged, RecordsUnforged
<1>2. \A i \in DOMAIN rs : rs[i].seq \in Nat
  BY DEF Unforged, RecordsUnforged, RecordUnforged
<1>3. ASSUME NEW i \in DOMAIN rs, i # 1 PROVE rs[i].seq = rs[i - 1].seq + 1
  BY <1>3 DEF ChainIntact
<1> HIDE DEF rs
<1>4. \A i \in DOMAIN rs : 1 \in DOMAIN rs /\ i \in Nat /\ i >= 1
  BY <1>1
<1>5. Bad = {}
  <2>1. SUFFICES ASSUME Bad # {} PROVE FALSE
    OBVIOUS
  <2>2. Bad \subseteq Nat
    BY <1>1
  <2>3. PICK i \in Bad : \A k \in Bad : i <= k
    <3> HIDE DEF Bad
    <3> QED
      BY <2>1, <2>2, LeastNumber
  <2>4. i # 1
    BY <1>2, <1>4
  <2>5. i - 1 \in DOMAIN rs /\ ~ (i <= i - 1)
    BY <1>1, <2>4
  <2>6. rs[i - 1].seq = rs[1].seq + (i - 1) - 1
    BY <2>3, <2>5
  <2>7. rs[i].seq = rs[i - 1].seq + 1
    BY <1>3, <2>4
  <2>8. i \in Nat /\ rs[1].seq \in Nat
    BY <1>2, <1>4
  <2>9. rs[i].seq = rs[1].seq + i - 1
    BY <2>6, <2>7, <2>8
  <2> QED
    BY <2>3, <2>9
<1>6. \A i \in DOMAIN rs : rs[i].seq = rs[1].seq + i - 1
  BY <1>5
<1> QED
  BY <1>1, <1>2, <1>4, <1>6 DEF rs

LEMMA HashAt ==
  ASSUME Unforged, ChainIntact(pack), NEW i \in DOMAIN pack.records
  PROVE  /\ HashBySeq(pack, pack.records[i].seq) = Hash(pack.records[i])
         /\ \A j \in DOMAIN pack.records : pack.records[j].seq = pack.records[i].seq => j = i
<1>1. \A j \in DOMAIN pack.records : pack.records[j].seq = pack.records[i].seq => j = i
  <2>1. ASSUME NEW j \in DOMAIN pack.records, pack.records[j].seq = pack.records[i].seq
        PROVE  j = i
    <3>1. PICK f, n : f = pack.records[1].seq /\ n = Len(pack.records)
      OBVIOUS
    <3>2. f \in Nat /\ n \in Nat /\ i \in 1 .. n /\ j \in 1 .. n /\ f + i - 1 = f + j - 1
      BY <2>1, <3>1, Consecutive
    <3>3. i \in Nat /\ j \in Nat
      BY <3>2
    <3>4. f + i - 1 = f + j - 1
      BY <3>2
    <3> QED
      BY <3>2, <3>3, <3>4
  <2> QED
    BY <2>1
<1>2. PICK at : at = {j \in DOMAIN pack.records : pack.records[j].seq = pack.records[i].seq}
  OBVIOUS
<1>3. at = {i}
  BY <1>1, <1>2
<1>4. i <= i
  BY Consecutive
<1>5. (CHOOSE k \in at : \A j \in at : j <= k) = i
  BY <1>3, <1>4
<1> QED
  BY <1>1, <1>2, <1>5 DEF HashBySeq

(* From the head of a seal down, each record is the one that was written.  *)
LEMMA SealedRecordWritten ==
  ASSUME Kept, Unforged, NEW trust \in TrustSets, ChainIntact(pack),
         \A i \in DOMAIN pack.seals : SealAccepted(pack, trust, i),
         NEW i \in DOMAIN pack.seals, NEW j \in DOMAIN pack.records,
         pack.records[j].seq \in pack.seals[i].seal.from .. pack.seals[i].seal.to
  PROVE  WrittenAt(pack.chain, pack.records[j])
<1>0. PICK c, rs, s, log :
         c = pack.chain /\ rs = pack.records /\ s = pack.seals[i].seal /\ log = logs[c]
  OBVIOUS
<1>1. c \in Chains
  BY <1>0 DEF Unforged
<1>2. SealKept(c, i) /\ seals[c][i].seal = s
  BY <1>0, <1>1, SealsAreFirst DEF Kept, SealsKept
<1>3. /\ s.from \in Nat /\ s.to \in Nat /\ s.to < Len(log)
      /\ s.head = Hash(log[s.to + 1])
  BY <1>0, <1>2 DEF SealKept
<1>4. LogKept(c) /\ Len(log) \in Nat /\ DOMAIN log = 1 .. Len(log)
  BY <1>0, <1>1, SeqDomain DEF Kept, LogsKept, LogKept
<1>5. \A n \in s.from .. s.to : \E k \in DOMAIN rs : rs[k].seq = n
  <2>1. s.from .. s.to \subseteq {r.seq : r \in ToSet(rs)}
    BY <1>0 DEF SealAccepted
  <2> QED
    BY <2>1 DEF ToSet
<1>6. HashBySeq(pack, s.to) = s.head
  BY <1>0 DEF SealAccepted
<1>7. /\ DOMAIN rs = 1 .. Len(rs) /\ Len(rs) \in Nat
      /\ \A k \in DOMAIN rs : /\ rs[k].seq \in Nat /\ rs[1].seq \in Nat
                              /\ rs[k].seq = rs[1].seq + k - 1
  BY <1>0, Consecutive
<1>8. \A k \in DOMAIN rs : rs[k].seq = s.to => Hash(rs[k]) = Hash(log[s.to + 1])
  BY <1>0, <1>3, <1>6, HashAt
<1>9. ASSUME NEW k \in DOMAIN rs, NEW l \in DOMAIN rs, rs[l].seq = rs[k].seq + 1
      PROVE  l = k + 1 /\ Hash(rs[k]) = rs[l].prev
  <2>1. PICK f, n : f = rs[1].seq /\ n = Len(rs)
    OBVIOUS
  <2>2. /\ f \in Nat /\ n \in Nat /\ k \in 1 .. n /\ l \in 1 .. n
        /\ f + l - 1 = f + k - 1 + 1
    BY <1>7, <1>9, <2>1
  <2>3. l = k + 1 /\ l # 1 /\ l - 1 = k
    BY <2>2
  <2>4. rs[l].prev = Hash(rs[l - 1])
    BY <1>0, <2>3 DEF ChainIntact
  <2> QED
    BY <2>3, <2>4
<1>10. ASSUME NEW n \in Nat, n + 1 <= s.to PROVE log[n + 2].prev = Hash(log[n + 1])
  <2>1. n + 2 \in 1 .. Len(log) /\ n + 2 # 1 /\ (n + 2) - 1 = n + 1
    <3>1. PICK to, len : to = s.to /\ len = Len(log)
      OBVIOUS
    <3>2. to \in Nat /\ len \in Nat /\ to < len /\ n + 1 <= to
      BY <1>3, <1>4, <1>10, <3>1
    <3> QED
      BY <3>1, <3>2
  <2>2. RecordKept(c, n + 2)
    BY <1>0, <1>4, <2>1 DEF LogKept
  <2> QED
    BY <1>0, <2>1, <2>2 DEF RecordKept
<1> DEFINE Bad == {n \in s.from .. s.to :
                     \E k \in DOMAIN rs : rs[k].seq = n /\ Hash(rs[k]) # Hash(log[n + 1])}
<1>11. Bad = {}
  <2>1. SUFFICES ASSUME Bad # {} PROVE FALSE
    OBVIOUS
  <2>2. Bad \subseteq 0 .. s.to
    BY <1>3
  <2>3. PICK n \in Bad : \A m \in Bad : m <= n
    <3> HIDE DEF Bad
    <3> QED
      BY <1>3, <2>1, <2>2, GreatestNumber
  <2>4. PICK k \in DOMAIN rs : rs[k].seq = n /\ Hash(rs[k]) # Hash(log[n + 1])
    BY <2>3
  <2>5. n # s.to
    BY <1>8, <2>4
  <2>6. /\ n \in Nat /\ n + 1 \in s.from .. s.to /\ ~ (n + 1 <= n)
        /\ n + 1 <= s.to /\ (n + 1) + 1 = n + 2
    BY <1>3, <2>5
  <2>7. PICK l \in DOMAIN rs : rs[l].seq = n + 1
    BY <1>5, <2>6
  <2>8. Hash(rs[l]) = Hash(log[n + 2])
    BY <2>3, <2>6, <2>7
  <2>9. rs[l].prev = log[n + 2].prev
    BY <2>8 DEF Hash
  <2>10. Hash(rs[k]) = rs[l].prev
    BY <1>9, <2>4, <2>7
  <2>11. log[n + 2].prev = Hash(log[n + 1])
    BY <1>10, <2>6
  <2> QED
    BY <2>4, <2>9, <2>10, <2>11
<1>12. j \in DOMAIN rs /\ rs[j].seq \in s.from .. s.to
  BY <1>0
<1>13. Hash(rs[j]) = Hash(log[rs[j].seq + 1])
  BY <1>11, <1>12
<1>14. rs[j].seq + 1 \in DOMAIN log
  BY <1>3, <1>4, <1>12
<1> QED
  BY <1>0, <1>13, <1>14 DEF WrittenAt

(* The seals of a valid pack are the first ones of its chain, and each     *)
(* record they cover was written: whatever session keys leaked             *)
(* (checkpoints of verify_with).                                           *)
THEOREM SealedCertified == Spec => []SealedIsCertified
<1>1. ASSUME Kept, Unforged, NEW trust \in TrustSets,
             Valid(pack, trust, Requiring(FALSE, FALSE))
      PROVE  /\ IsPrefix(pack.seals, seals[pack.chain])
             /\ \A s \in ToSet(pack.seals), r \in ToSet(pack.records) :
                  r.seq \in s.seal.from .. s.seal.to => WrittenAt(pack.chain, r)
  <2>1. ChainIntact(pack) /\ \A i \in DOMAIN pack.seals : SealAccepted(pack, trust, i)
    BY <1>1, TrustIsHonest DEF Valid
  <2>2. IsPrefix(pack.seals, seals[pack.chain])
    <3>1. IsSeq(pack.seals) /\ IsSeq(seals[pack.chain])
      BY <1>1 DEF Kept, SealsKept, Unforged, SealsUnforged
    <3> QED
      BY <1>1, <2>1, <3>1, SealsAreFirst, SealsArePrefix
  <2>3. ASSUME NEW s \in ToSet(pack.seals), NEW r \in ToSet(pack.records),
               r.seq \in s.seal.from .. s.seal.to
        PROVE  WrittenAt(pack.chain, r)
    <3>1. PICK i \in DOMAIN pack.seals : s = pack.seals[i]
      BY DEF ToSet
    <3>2. PICK j \in DOMAIN pack.records : r = pack.records[j]
      BY DEF ToSet
    <3> QED
      BY <1>1, <2>1, <2>3, <3>1, <3>2, SealedRecordWritten
  <2> QED
    BY <2>2, <2>3
<1>2. EvidenceInv => SealedIsCertified
  BY <1>1 DEF EvidenceInv, PackInv, SealedIsCertified
<1> QED
  BY <1>2, NothingForged, PTL

(* An accepted checkpoint is enough by itself: whatever else is wrong with *)
(* the pack, the records under it are, number by number, those of the log. *)
RootCertifies ==
    pack # NoPack =>
        \A trust \in TrustSets : \A i \in DOMAIN pack.seals :
            SealAccepted(pack, trust, i) =>
                \A n \in pack.seals[i].seal.from .. pack.seals[i].seal.to :
                    /\ n + 1 \in DOMAIN logs[pack.chain]
                    /\ HashBySeq(pack, n) = Hash(logs[pack.chain][n + 1])

(* A checkpoint's root binds its records without the chain between them    *)
(* (checkpoints of verify_with: the root recomputed from hash_by_seq).     *)
THEOREM SealedByRoot == Spec => []RootCertifies
<1>1. ASSUME Kept, Unforged, NEW trust \in TrustSets, NEW i \in DOMAIN pack.seals,
             SealAccepted(pack, trust, i),
             NEW n \in pack.seals[i].seal.from .. pack.seals[i].seal.to
      PROVE  /\ n + 1 \in DOMAIN logs[pack.chain]
             /\ HashBySeq(pack, n) = Hash(logs[pack.chain][n + 1])
  <2>1. PICK c, s, log, p : /\ c = pack.chain /\ s = pack.seals[i].seal
                            /\ log = logs[c] /\ p = pack
    OBVIOUS
  <2>2. PICK j \in DOMAIN seals[c] : seals[c][j].seal = s
    BY <1>1, <2>1, SealWasMade
  <2>3. c \in Chains
    BY <1>1, <2>1 DEF Unforged
  <2>4. /\ s.from \in Nat /\ s.to \in Nat /\ s.from <= s.to /\ s.to < Len(log)
        /\ s.root = MerkleRoot(Leaves(c, s))
    BY <1>1, <2>1, <2>2, <2>3 DEF Kept, SealsKept, SealKept
  <2>5. Len(log) \in Nat /\ DOMAIN log = 1 .. Len(log)
    BY <1>1, <2>1, <2>3, SeqDomain DEF Kept, LogsKept, LogKept
  <2>6. PICK m, k : m = s.to - s.from + 1 /\ k = n - s.from + 1
    OBVIOUS
  <2>7. /\ m \in Nat /\ m # 0 /\ k \in 1 .. m /\ n + 1 \in 1 .. Len(log)
        /\ s.from + k - 1 = n /\ s.from + k = n + 1
    <3>1. PICK f, t, l : f = s.from /\ t = s.to /\ l = Len(log)
      OBVIOUS
    <3>2. f \in Nat /\ t \in Nat /\ l \in Nat /\ f <= t /\ t < l /\ n \in f .. t
      BY <1>1, <2>1, <2>4, <2>5, <3>1
    <3>3. /\ t - f + 1 \in Nat /\ t - f + 1 # 0 /\ n - f + 1 \in 1 .. t - f + 1
          /\ n + 1 \in 1 .. l /\ f + (n - f + 1) - 1 = n /\ f + (n - f + 1) = n + 1
      BY <3>2
    <3> QED
      BY <2>6, <3>1, <3>3
  <2>8. PICK a, b : /\ a = [d \in 1 .. m |-> HashBySeq(p, s.from + d - 1)]
                    /\ b = [d \in 1 .. m |-> Hash(log[s.from + d])]
    OBVIOUS
  <2>9. MerkleRoot(a) = MerkleRoot(b)
    <3>1. MerkleRoot(a) = s.root
      BY <1>1, <2>1, <2>6, <2>8 DEF SealAccepted
    <3>2. b = Leaves(c, s)
      BY <2>1, <2>6, <2>8 DEF Leaves
    <3> QED
      BY <2>4, <3>1, <3>2
  <2>10. PICK S : S = {a[d] : d \in 1 .. m} \cup {b[d] : d \in 1 .. m}
    OBVIOUS
  <2>11. a \in [1 .. m -> S] /\ b \in [1 .. m -> S]
    BY <2>8, <2>10
  <2>12. a \in Seq(S) /\ b \in Seq(S) /\ a # << >> /\ b # << >>
    <3>1. Len(a) = m /\ Len(b) = m
      BY <2>7, <2>11, FunctionIsSeq
    <3>2. a \in Seq(S) /\ b \in Seq(S)
      BY <2>7, <2>11
    <3> QED
      BY <2>7, <3>1, <3>2, EmptySeq
  <2>13. a = b
    BY <2>9, <2>12, RootDetermines
  <2>14. a[k] = HashBySeq(p, n) /\ b[k] = Hash(log[n + 1])
    BY <2>7, <2>8
  <2> QED
    BY <2>1, <2>5, <2>7, <2>13, <2>14
<1>2. EvidenceInv => RootCertifies
  BY <1>1 DEF EvidenceInv, PackInv, RootCertifies
<1> QED
  BY <1>2, NothingForged, PTL

-----------------------------------------------------------------------------
(***************************************************************************)
(* Attestations.                                                           *)
(***************************************************************************)
(* The place of PCR i in a digest of the PCRs D.                           *)
Place(D, i) == Cardinality({j \in D : j <= i})

LEMMA PlacesDiffer ==
  ASSUME NEW D, IsFiniteSet(D), D \subseteq Nat, NEW i \in D
  PROVE  /\ Place(D, i) \in 1 .. Cardinality(D)
         /\ \A k \in D : Place(D, k) = Place(D, i) => k = i
<1> DEFINE upTo(k) == {j \in D : j <= k}
<1>1. \A k \in D : /\ IsFiniteSet(upTo(k)) /\ Cardinality(upTo(k)) \in Nat
                   /\ Cardinality(upTo(k)) <= Cardinality(D)
  <2>1. \A k \in D : upTo(k) \in SUBSET D
    OBVIOUS
  <2> HIDE DEF upTo
  <2> QED
    BY <2>1, FS_Subset, FS_CardinalityType
<1>2. Cardinality(D) \in Nat
  BY FS_CardinalityType
<1>3. Cardinality(upTo(i)) # 0
  <2>1. i \in upTo(i)
    OBVIOUS
  <2> HIDE DEF upTo
  <2> QED
    BY <1>1, <2>1, FS_EmptySet
<1>4. ASSUME NEW k \in D, NEW l \in D, k < l
      PROVE  Cardinality(upTo(k)) # Cardinality(upTo(l))
  <2>1. upTo(k) \in SUBSET upTo(l)
    <3>1. ASSUME NEW j \in D, j <= k PROVE j <= l
      <4>1. j \in Nat /\ k \in Nat /\ l \in Nat
        OBVIOUS
      <4> QED
        BY <1>4, <3>1, <4>1
    <3> QED
      BY <3>1
  <2>2. l \in upTo(l) /\ l \notin upTo(k)
    BY <1>4
  <2> HIDE DEF upTo
  <2> QED
    BY <1>1, <2>1, <2>2, FS_Subset
<1>5. ASSUME NEW k \in D, Cardinality(upTo(k)) = Cardinality(upTo(i)) PROVE k = i
  <2>1. ~ (k < i) /\ ~ (i < k)
    BY <1>4, <1>5
  <2>2. k \in Nat /\ i \in Nat
    OBVIOUS
  <2> QED
    BY <2>1, <2>2
<1>6. \A k : Place(D, k) = Cardinality(upTo(k))
  BY DEF Place
<1> QED
  <2> HIDE DEF upTo
  <2> QED
    BY <1>1, <1>2, <1>3, <1>5, <1>6

(* A digest has the value of each PCR at its place.                        *)
LEMMA DigestAt ==
  ASSUME NEW f, IsFiniteSet(DOMAIN f), DOMAIN f \subseteq Nat, NEW i \in DOMAIN f
  PROVE  PcrDigest(f)[Place(DOMAIN f, i)] = f[i]
<1>1. PcrDigest(f) = [k \in 1 .. Cardinality(DOMAIN f) |->
                        f[CHOOSE j \in DOMAIN f : Place(DOMAIN f, j) = k]]
  BY Zenon DEF PcrDigest, Place
<1>2. PICK k : k = Place(DOMAIN f, i)
  OBVIOUS
<1>3. k \in 1 .. Cardinality(DOMAIN f) /\ \A j \in DOMAIN f : Place(DOMAIN f, j) = k => j = i
  BY <1>2, PlacesDiffer
<1>4. (CHOOSE j \in DOMAIN f : Place(DOMAIN f, j) = k) = i
  BY <1>2, <1>3
<1> QED
  BY <1>1, <1>2, <1>3, <1>4, Zenon

(* Over the same PCRs, a digest is of one list of values only.             *)
LEMMA DigestsDiffer ==
  ASSUME NEW D, IsFiniteSet(D), D \subseteq Nat, NEW f, NEW g, DOMAIN f = D, DOMAIN g = D,
         PcrDigest(f) = PcrDigest(g), NEW i \in D
  PROVE  f[i] = g[i]
<1>1. PcrDigest(f)[Place(D, i)] = f[i] /\ PcrDigest(g)[Place(D, i)] = g[i]
  BY DigestAt
<1> QED
  BY <1>1

(* The parts of what enrolment says of key n.                              *)
EnrolledArea(n) ==
    LET t == host.enrolment
    IN  IF t.pub = "none" THEN NoPub
        ELSE [shape |-> "signing", key |-> IF t.pub = "own" THEN Identity(n) ELSE Mallory]

EnrolledCertify(n) ==
    [type |-> "certify", by |-> <<"ak", 0>>,
     name |-> NameOf(EnrolledArea(n),
                     IF host.enrolment.certified = "own" THEN Identity(n) ELSE Mallory)]

Released == [i \in host.enrolment.expected |-> "released"]
Booted == [i \in host.enrolment.selected |-> host.boot[i]]

EnrolledQuote ==
    LET t == host.enrolment
    IN  [type |-> "quote", by |-> t.quotedBy, bank |-> t.bank,
         selected |-> t.selected, digest |-> PcrDigest(Booted)]

LEMMA EnrolledIs ==
  ASSUME NEW n
  PROVE  Enrolled(n) =
           [kid |-> Identity(n), ak |-> <<"ak", 0>>, pub |-> EnrolledArea(n),
            certify |-> IF host.enrolment.swapped THEN EnrolledQuote ELSE EnrolledCertify(n),
            quote |-> IF host.enrolment.swapped THEN EnrolledCertify(n) ELSE EnrolledQuote,
            expected |-> Released]
BY Zenon DEF Enrolled, EnrolledArea, EnrolledCertify, EnrolledQuote, Booted, Released

(* What an attestation of a host says that passes.                         *)
LEMMA AcceptedIsMeasured ==
  ASSUME host \in Hosts, NEW n, NEW a, a = Enrolled(n), NEW e, VerifyAttestation(e, a)
  PROVE  /\ a.certify.name \in {<<"raw", e.key>>, <<"area", e.key>>}
         /\ \A i \in DOMAIN a.expected : host.boot[i] = a.expected[i]
<1>1. a.certify.name \in {<<"raw", e.key>>, <<"area", e.key>>}
  BY DEF VerifyAttestation, NamesEnrolled, NameOf
<1>2. PICK t, f, g, quote :
        /\ t = host.enrolment /\ f = Booted /\ g = Released /\ quote = EnrolledQuote
  OBVIOUS
<1>9. EnrolledCertify(n).type = "certify"
  BY DEF EnrolledCertify
<1>10. /\ quote.selected = t.selected /\ quote.digest = PcrDigest(f)
  BY <1>2 DEF EnrolledQuote
<1>3. /\ a.quote.type = "quote" /\ a.quote.selected = DOMAIN a.expected
      /\ a.quote.digest = PcrDigest(a.expected)
  BY DEF VerifyAttestation, QuoteMatches
<1>4. a.quote = quote /\ a.expected = g
  BY <1>2, <1>3, <1>9, EnrolledIs
<1>5. /\ DOMAIN f = t.selected /\ DOMAIN g = t.expected /\ t.selected = t.expected
      /\ PcrDigest(f) = PcrDigest(g)
  BY <1>2, <1>3, <1>4, <1>10 DEF Booted, Released
<1>6. IsFiniteSet(t.selected) /\ t.selected \subseteq Nat
  <2>1. t.selected \subseteq DOMAIN host.boot
    BY <1>2, EvidenceAssumption
  <2>2. IsFiniteSet(DOMAIN host.boot) /\ DOMAIN host.boot \subseteq Nat
    BY EvidenceAssumption
  <2> QED
    BY <2>1, <2>2, FS_Subset
<1>7. \A i \in t.selected : f[i] = g[i]
  BY <1>5, <1>6, DigestsDiffer
<1>8. \A i \in DOMAIN a.expected : host.boot[i] = a.expected[i]
  BY <1>2, <1>4, <1>5, <1>7 DEF Booted
<1> QED
  BY <1>1, <1>8

(* The origin keys that only a bundle can bring.                           *)
LEMMA OnlyFromBundle ==
  ASSUME Unforged, NEW trust \in TrustSets, Kids(trust, "origin") = {},
         NEW e \in IdentityKeys(pack, trust)
  PROVE  Anchored(pack, trust) /\ e \in ToSet(pack.bundle.keys)
<1>1. {d \in trust : d.role = "origin"} = {}
  BY DEF Kids
<1> QED
  BY <1>1 DEF IdentityKeys, ActiveKeys

(* The key of a record, or of the certificate it holds, is in the bundle.  *)
LEMMA WriterInBundle ==
  ASSUME Kept, Unforged, NEW trust \in TrustSets, Kids(trust, "origin") = {},
         NEW o, o.origin, BundleAccepted(pack, trust, o),
         CertsAccepted(pack, IdentityKeys(pack, trust), o),
         OriginAccepted(pack, trust,
             IdentityKeys(pack, trust)
                 \cup CertifiedKeys(pack.chain, pack.records, IdentityKeys(pack, trust)), o),
         NEW i \in DOMAIN pack.records, NEW kid, kid[1] = "identity",
         kid = IF pack.records[i].payload.type = "cert" THEN pack.records[i].payload.identity
               ELSE pack.records[i].kid
  PROVE  Anchored(pack, trust) /\ \E e \in ToSet(pack.bundle.keys) : e.kid = kid
<1> DEFINE identities == IdentityKeys(pack, trust)
           sessions == CertifiedKeys(pack.chain, pack.records, identities)
<1>1. CASE pack.records[i].payload.type = "cert"
  <2>1. PICK e \in identities : e.kid = kid
    <3> HIDE DEF identities, sessions
    <3> QED
      BY <1>1 DEF CertsAccepted, identities
  <2> QED
    BY <2>1, OnlyFromBundle
<1>2. CASE pack.records[i].payload.type # "cert"
  <2>1. PICK e \in identities \cup sessions : e.kid = kid
    <3> HIDE DEF identities, sessions
    <3> QED
      BY <1>2 DEF OriginAccepted, identities, sessions
  <2>2. e \notin sessions
    <3>1. e \in sessions => e.kid[1] = "session"
      BY CertifiedSessions
    <3> QED
      BY <2>1, <3>1
  <2> QED
    BY <2>1, <2>2, OnlyFromBundle
<1> QED
  BY <1>1, <1>2

(* A key of a bundle whose attestations are accepted.                      *)
LEMMA EnrolledIsMeasured ==
  ASSUME Kept, Unforged, NEW trust \in TrustSets, NEW o, o.attestation,
         Anchored(pack, trust), BundleAccepted(pack, trust, o),
         NEW e \in ToSet(pack.bundle.keys)
  PROVE  Measured(pack.bundle, e)
<1>1. PICK m \in DOMAIN bundles : bundles[m].attestations = pack.bundle.attestations
  BY AnchoredBundle
<1>2. BundleKept(bundles[m], Len(bundles))
  BY DEF Kept, BundlesKept
<1>3. PICK a \in pack.bundle.attestations : a.kid = e.kid /\ VerifyAttestation(e, a)
  <2>1. AttestationsAccepted(pack.bundle, o)
    BY DEF BundleAccepted
  <2>2. PICK found : found = {a \in pack.bundle.attestations : a.kid = e.kid}
    OBVIOUS
  <2>3. IF found = {} THEN ~ o.attestation ELSE \A a \in found : VerifyAttestation(e, a)
    BY <2>1, <2>2 DEF AttestationsAccepted
  <2> QED
    BY <2>2, <2>3
<1>4. PICK n : a = Enrolled(n)
  BY <1>1, <1>2 DEF BundleKept
<1>5. host \in Hosts
  BY DEF Kept
<1>6. /\ a.certify.name \in {<<"raw", e.key>>, <<"area", e.key>>}
      /\ \A i \in DOMAIN a.expected : host.boot[i] = a.expected[i]
  BY <1>3, <1>4, <1>5, AcceptedIsMeasured
<1> QED
  BY <1>3, <1>6 DEF Measured

(* With attestations required too, and origin keys only from a bundle,     *)
(* each key that signed or certified a record of a valid pack is of a host *)
(* that was measured as expected (attestation.rs verify_attestation).      *)
THEOREM AttestedMeasured == Spec => []AttestedIsMeasured
<1>1. ASSUME Kept, Unforged, NEW trust \in TrustSets, Kids(trust, "origin") = {},
             Valid(pack, trust, Requiring(TRUE, TRUE)), NEW r \in ToSet(pack.records),
             NEW kid, kid[1] = "identity",
             kid = IF r.payload.type = "cert" THEN r.payload.identity ELSE r.kid
      PROVE  \E e \in ToSet(pack.bundle.keys) : e.kid = kid /\ Measured(pack.bundle, e)
  <2>1. PICK o : o = Requiring(TRUE, TRUE)
    OBVIOUS
  <2>2. o.origin /\ o.attestation
    BY <2>1 DEF Requiring
  <2>3. /\ BundleAccepted(pack, trust, o)
        /\ CertsAccepted(pack, IdentityKeys(pack, trust), o)
        /\ OriginAccepted(pack, trust,
             IdentityKeys(pack, trust)
                 \cup CertifiedKeys(pack.chain, pack.records, IdentityKeys(pack, trust)), o)
    BY <1>1, <2>1, TrustIsHonest DEF Valid
  <2>4. PICK i \in DOMAIN pack.records : r = pack.records[i]
    BY DEF ToSet
  <2>5. Anchored(pack, trust) /\ \E e \in ToSet(pack.bundle.keys) : e.kid = kid
    BY <1>1, <2>2, <2>3, <2>4, WriterInBundle
  <2> QED
    BY <1>1, <2>2, <2>3, <2>5, EnrolledIsMeasured
<1>2. EvidenceInv => AttestedIsMeasured
  BY <1>1 DEF EvidenceInv, PackInv, AttestedIsMeasured
<1> QED
  BY <1>2, NothingForged, PTL

-----------------------------------------------------------------------------
(***************************************************************************)
(* A pack nobody edited.                                                   *)
(***************************************************************************)
LEMMA OwnVerified ==
  ASSUME NEW key, key # NoKid, NEW bytes
  PROVE  Verified(Sign(key, bytes), key, bytes)
<1>1. Sign(key, bytes).by # NoSig.by
  BY DEF Sign, NoSig
<1> QED
  BY <1>1 DEF Verified, Sign

(* What a log is made of.                                                  *)
LEMMA LogFacts ==
  ASSUME LogsKept, NEW c \in Chains
  PROVE  /\ Len(logs[c]) \in Nat /\ DOMAIN logs[c] = 1 .. Len(logs[c])
         /\ \A i \in DOMAIN logs[c] : RecordKept(c, i)
BY SeqDomain DEF LogsKept, LogKept

LEMMA ExportedIntact ==
  ASSUME Kept, Unforged, Exported
  PROVE  ChainIntact(pack)
<1>0. PICK c, log : c = pack.chain /\ log = logs[c] /\ pack.records = log
  BY DEF Exported
<1>1. c \in Chains
  BY <1>0 DEF Unforged
<1>2. /\ Len(log) \in Nat /\ DOMAIN log = 1 .. Len(log)
      /\ \A i \in DOMAIN log : RecordKept(c, i)
  BY <1>0, <1>1, LogFacts DEF Kept
<1>3. ASSUME NEW i \in DOMAIN log
      PROVE  /\ log[i].payload.type # "unknown"
             /\ IF i = 1 THEN log[i].seq = 0 <=> log[i].prev = Genesis
                ELSE log[i].seq = log[i - 1].seq + 1 /\ log[i].prev = Hash(log[i - 1])
  <2>1. /\ log[i].seq = i - 1
        /\ log[i].prev = IF i = 1 THEN Genesis ELSE Hash(log[i - 1])
        /\ PayloadKept(c, log[i].payload)
    BY <1>0, <1>2 DEF RecordKept
  <2>2. log[i].payload.type # "unknown"
    BY <2>1 DEF PayloadKept
  <2>3. CASE i = 1
    BY <2>1, <2>2, <2>3
  <2>4. CASE i # 1
    <3>1. i - 1 \in DOMAIN log /\ i \in Nat
      BY <1>2, <2>4
    <3>2. log[i - 1].seq = (i - 1) - 1
      BY <1>0, <1>2, <3>1 DEF RecordKept
    <3>3. log[i].seq = log[i - 1].seq + 1
      BY <2>1, <3>1, <3>2
    <3> QED
      BY <2>1, <2>2, <2>4, <3>3
  <2> QED
    BY <2>3, <2>4
<1> QED
  BY <1>0, <1>3 DEF ChainIntact

LEMMA ExportedAnchors ==
  ASSUME Kept, Unforged, Exported
  PROVE  AnchorsAccepted(pack)
<1>0. PICK c, s : c = pack.chain /\ s = seals[c] /\ pack.seals = s
  BY DEF Exported
<1>1. c \in Chains /\ IsSeq(s)
  BY <1>0 DEF Kept, SealsKept, Unforged
<1>2. ASSUME NEW a \in pack.anchors
      PROVE  /\ \E i \in DOMAIN s : a.seal = SealBytes(s[i].seal)
             /\ a.status = "granted" /\ a.imprint = a.seal
  <2>1. /\ s # << >> /\ a.seal = SealBytes(LastSeal(s))
        /\ a.status = "granted" /\ a.imprint = a.seal
    BY <1>0 DEF Exported
  <2>2. Len(s) \in Nat /\ DOMAIN s = 1 .. Len(s) /\ Len(s) # 0
    BY <1>1, <2>1, SeqDomain, EmptySeq DEF IsSeq
  <2>3. Len(s) \in DOMAIN s
    BY <2>2
  <2>4. LastSeal(s) = s[Len(s)].seal
    BY <2>1 DEF LastSeal
  <2> QED
    BY <2>1, <2>3, <2>4
<1> QED
  BY <1>0, <1>2 DEF AnchorsAccepted

(* The hash that the auditor finds of number n.                            *)
LEMMA ExportedHash ==
  ASSUME Kept, Unforged, Exported, NEW n \in Nat, n < Len(logs[pack.chain])
  PROVE  /\ HashBySeq(pack, n) = Hash(logs[pack.chain][n + 1])
         /\ n \in {r.seq : r \in ToSet(pack.records)}
<1>0. PICK c, log : c = pack.chain /\ log = logs[c] /\ pack.records = log
  BY DEF Exported
<1>1. c \in Chains
  BY <1>0 DEF Unforged
<1>2. /\ Len(log) \in Nat /\ DOMAIN log = 1 .. Len(log)
      /\ \A i \in DOMAIN log : RecordKept(c, i)
  BY <1>0, <1>1, LogFacts DEF Kept
<1>3. n + 1 \in DOMAIN log /\ (n + 1) - 1 = n
  <2>1. n < Len(log)
    BY <1>0
  <2> QED
    BY <1>2, <2>1
<1>4. log[n + 1].seq = n
  BY <1>0, <1>2, <1>3 DEF RecordKept
<1>5. HashBySeq(pack, n) = Hash(log[n + 1])
  BY <1>0, <1>3, <1>4, ExportedIntact, HashAt
<1>6. log[n + 1] \in ToSet(log)
  BY <1>3 DEF ToSet
<1> QED
  BY <1>0, <1>4, <1>5, <1>6

LEMMA ExportedSeals ==
  ASSUME Kept, Unforged, Exported, NEW source, NEW i \in DOMAIN pack.seals,
         Entry(SealKey, "seal") \in source
  PROVE  SealAccepted(pack, source, i)
<1>0. PICK c, log, e, s : /\ c = pack.chain /\ log = logs[c] /\ pack.seals = seals[c]
                          /\ e = seals[c][i] /\ s = e.seal
  BY DEF Exported
<1>1. c \in Chains /\ i \in DOMAIN seals[c]
  BY <1>0 DEF Unforged
<1>2. SealKept(c, i)
  BY <1>1 DEF Kept, SealsKept
<1>3. /\ s.chain = c /\ s.kid = SealKey /\ e.sig = Sign(SealKey, SealBytes(s))
      /\ s.from \in Nat /\ s.to \in Nat /\ s.from <= s.to /\ s.to < Len(log)
      /\ s.prev = IF i = 1 THEN << >> ELSE SealBytes(seals[c][i - 1].seal)
      /\ s.root = MerkleRoot(Leaves(c, s))
      /\ s.head = Hash(log[s.to + 1])
  BY <1>0, <1>2 DEF SealKept
<1>4. Len(log) \in Nat
  BY <1>0, <1>1, LogFacts DEF Kept
<1>5. SealLinked(pack, i)
  BY <1>0, <1>3 DEF SealLinked
<1>6. \E k \in source : /\ k.role = "seal" /\ k.kid = s.kid
                        /\ Verified(e.sig, k.key, SealBytes(s))
  <2>1. SealKey # NoKid
    BY DEF SealKey, NoKid
  <2>2. PICK k \in source : k.role = "seal" /\ k.kid = SealKey /\ k.key = SealKey
    BY DEF Entry
  <2>3. Verified(e.sig, SealKey, SealBytes(s))
    BY <1>3, <2>1, OwnVerified
  <2> QED
    BY <1>3, <2>2, <2>3
<1>7. s.from .. s.to \subseteq {r.seq : r \in ToSet(pack.records)}
  <2>1. ASSUME NEW n \in s.from .. s.to PROVE n \in Nat /\ n < Len(log)
    BY <1>3, <1>4
  <2> QED
    BY <1>0, <2>1, ExportedHash
<1>8. [k \in 1 .. s.to - s.from + 1 |-> HashBySeq(pack, s.from + k - 1)] = Leaves(c, s)
  <2>1. ASSUME NEW k \in 1 .. s.to - s.from + 1
        PROVE  HashBySeq(pack, s.from + k - 1) = Hash(log[s.from + k])
    <3>1. PICK n : n = s.from + k - 1
      OBVIOUS
    <3>2. n \in Nat /\ n < Len(log) /\ n + 1 = s.from + k
      <4>1. PICK from, to, len : from = s.from /\ to = s.to /\ len = Len(log)
        OBVIOUS
      <4>2. /\ from \in Nat /\ to \in Nat /\ len \in Nat /\ to < len
            /\ k \in 1 .. to - from + 1 /\ n = from + k - 1
        BY <1>3, <1>4, <3>1, <4>1
      <4>3. n \in Nat /\ n < len /\ n + 1 = from + k
        BY <4>2
      <4> QED
        BY <4>1, <4>3
    <3>3. HashBySeq(pack, n) = Hash(log[n + 1])
      BY <1>0, <3>2, ExportedHash
    <3> QED
      BY <3>1, <3>2, <3>3
  <2> QED
    BY <1>0, <2>1 DEF Leaves
<1>9. MerkleRoot([k \in 1 .. s.to - s.from + 1 |-> HashBySeq(pack, s.from + k - 1)]) = s.root
  BY <1>3, <1>8
<1>10. HashBySeq(pack, s.to) = s.head
  BY <1>0, <1>3, ExportedHash
<1>11. s = pack.seals[i].seal /\ e = pack.seals[i]
  BY <1>0
<1> QED
  BY <1>0, <1>3, <1>5, <1>6, <1>7, <1>9, <1>10, <1>11 DEF SealAccepted

(* The two conditions of HonestPackVerifies: what the bundle attests is so,*)
(* and it enrols the keys that wrote the records.                          *)
AttestedIsSo ==
    host.enrolment.attested =>
        /\ Faithful(host.enrolment)
        /\ \A e \in ToSet(pack.bundle.keys) : Measured(pack.bundle, e)

Writer(r) == IF r.payload.type = "cert" THEN r.payload.identity ELSE r.kid

WritersEnrolled ==
    \A r \in ToSet(pack.records) :
        Writer(r)[1] = "identity" => \E e \in ToSet(pack.bundle.keys) : e.kid = Writer(r)

(* An attestation of a host that is as expected passes.                    *)
LEMMA FaithfulAccepted ==
  ASSUME NEW n, NEW a, a = Enrolled(n), NEW e, e.key = Identity(n), Faithful(host.enrolment),
         \A i \in DOMAIN Released : host.boot[i] = Released[i]
  PROVE  VerifyAttestation(e, a)
<1>1. PICK t, f, g, area, certify, quote :
        /\ t = host.enrolment /\ f = Booted /\ g = Released
        /\ area = EnrolledArea(n) /\ certify = EnrolledCertify(n) /\ quote = EnrolledQuote
  OBVIOUS
<1>2. /\ t.pub \in {"none", "own"} /\ t.certified = "own" /\ ~ t.swapped
      /\ t.quotedBy = <<"ak", 0>> /\ t.bank = "sha256"
      /\ t.selected = t.expected /\ t.expected # {}
  BY <1>1 DEF Faithful
<1>3. /\ a.ak = <<"ak", 0>> /\ a.pub = area /\ a.certify = certify /\ a.quote = quote
      /\ a.expected = g
  BY <1>1, <1>2, EnrolledIs
<1>4. /\ certify.type = "certify" /\ certify.by = <<"ak", 0>>
      /\ certify.name = NameOf(area, e.key)
  BY <1>1, <1>2 DEF EnrolledCertify
<1>5. /\ quote.type = "quote" /\ quote.by = <<"ak", 0>> /\ quote.bank = "sha256"
      /\ quote.selected = t.selected /\ quote.digest = PcrDigest(f)
  BY <1>1, <1>2 DEF EnrolledQuote
<1>6. NamesEnrolled(e, a)
  <2>1. area = NoPub \/ (area.shape = "signing" /\ area.key = e.key)
    BY <1>1, <1>2 DEF EnrolledArea
  <2> QED
    BY <1>3, <2>1 DEF NamesEnrolled, ParsesPublic
<1>7. f = g /\ DOMAIN g = t.selected /\ DOMAIN g # {}
  BY <1>1, <1>2 DEF Booted, Released
<1>8. QuoteMatches(a)
  BY <1>3, <1>5, <1>7 DEF QuoteMatches
<1>9. SignedAttest(a.certify, a.ak) /\ SignedAttest(a.quote, a.ak)
  BY <1>3, <1>4, <1>5 DEF SignedAttest, AkSigned
<1> QED
  BY <1>3, <1>4, <1>6, <1>8, <1>9 DEF VerifyAttestation

LEMMA BundleKeysOwn ==
  ASSUME NEW b, NEW max, BundleKept(b, max), NEW e \in ToSet(b.keys)
  PROVE  e.kid = e.key /\ \E n \in 1 .. max : e.key = Identity(n)
<1>1. PICK i \in DOMAIN b.keys : e = b.keys[i]
  BY DEF ToSet
<1>2. PICK n \in 1 .. max : e = Entry(Identity(n), "origin")
  BY <1>1 DEF BundleKept
<1> QED
  BY <1>2 DEF Entry

LEMMA ExportedAttestations ==
  ASSUME Kept, NEW m \in DOMAIN bundles, pack.bundle = bundles[m], AttestedIsSo,
         NEW o, ~ o.attestation
  PROVE  AttestationsAccepted(pack.bundle, o)
<1>0. PICK b : b = pack.bundle
  OBVIOUS
<1>1. BundleKept(b, Len(bundles))
  BY <1>0 DEF Kept, BundlesKept
<1>2. ASSUME NEW e \in ToSet(b.keys), NEW a \in b.attestations, a.kid = e.kid
      PROVE  VerifyAttestation(e, a)
  <2>1. PICK n : a = Enrolled(n) /\ host.enrolment.attested
    BY <1>1 DEF BundleKept
  <2>2. e.kid = e.key
    BY <1>1, BundleKeysOwn
  <2>3. e.key = Identity(n)
    BY <1>2, <2>1, <2>2, EnrolledIs
  <2>4. Faithful(host.enrolment) /\ Measured(b, e)
    BY <1>0, <2>1 DEF AttestedIsSo
  <2>5. PICK d \in b.attestations : \A i \in DOMAIN d.expected : host.boot[i] = d.expected[i]
    BY <2>4 DEF Measured
  <2>6. PICK k : d = Enrolled(k)
    BY <1>1 DEF BundleKept
  <2>7. d.expected = Released
    BY <2>6, EnrolledIs
  <2>8. \A i \in DOMAIN Released : host.boot[i] = Released[i]
    BY <2>5, <2>7
  <2> QED
    BY <2>1, <2>3, <2>4, <2>8, FaithfulAccepted
<1>3. ASSUME NEW e \in ToSet(b.keys)
      PROVE  LET found == {a \in b.attestations : a.kid = e.kid}
             IN  IF found = {} THEN ~ o.attestation ELSE \A a \in found : VerifyAttestation(e, a)
  BY <1>2
<1> QED
  BY <1>0, <1>3 DEF AttestationsAccepted

(* The operator's bundle, whoever looks at it.                             *)
LEMMA ExportedBundle ==
  ASSUME Kept, NEW m \in DOMAIN bundles, pack.bundle = bundles[m], AttestedIsSo,
         NEW o, ~ o.attestation, NEW source, \A e \in source : e.kid = e.key
  PROVE  BundleAccepted(pack, source, o) /\ ActiveKeys(pack.bundle) = ToSet(pack.bundle.keys)
<1>0. PICK b : b = pack.bundle
  OBVIOUS
<1>1. BundleKept(b, Len(bundles))
  BY <1>0 DEF Kept, BundlesKept
<1>2. b.kid = OpsKey /\ b.sig = Sign(OpsKey, BundleBytes(b)) /\ UsableKeys(b)
  BY <1>1 DEF BundleKept
<1>3. Verified(b.sig, OpsKey, BundleBytes(b))
  <2>1. OpsKey # NoKid
    BY DEF OpsKey, NoKid
  <2> QED
    BY <1>2, <2>1, OwnVerified
<1>4. \A f \in ToSet(b.keys) : f.kid = f.key
  BY <1>1, BundleKeysOwn
<1>5. AttestationsAccepted(b, o)
  BY <1>0, ExportedAttestations
<1>6. ASSUME Anchored(pack, source)
      PROVE  \E e \in source : e.kid = b.kid /\ Verified(b.sig, e.key, BundleBytes(b))
  BY <1>0, <1>2, <1>3, <1>6 DEF Anchored
<1>7. BundleAccepted(pack, source, o)
  BY <1>0, <1>2, <1>4, <1>5, <1>6 DEF BundleAccepted
<1> QED
  BY <1>0, <1>2, <1>7 DEF ActiveKeys

(* What an exported record is, to an auditor.                              *)
LEMMA ExportedRecord ==
  ASSUME Kept, Unforged, Exported, NEW i \in DOMAIN pack.records, NEW r, r = pack.records[i]
  PROVE  /\ Verified(r.sig, r.kid, OriginBytes(pack.chain, r))
         /\ r.kid # NoKid /\ r.sig # NoSig
         /\ r.payload.type = "cert" =>
              /\ CertVerifies(pack.chain, r.payload, r.payload.identity)
              /\ r.payload.identity[1] = "identity"
         /\ \/ r.kid[1] = "identity" /\ r.payload.type # "cert"
            \/ /\ r.kid[1] = "session"
               /\ \E j \in DOMAIN pack.records : /\ pack.records[j].payload.type = "cert"
                                                 /\ pack.records[j].payload.session = r.kid
<1>0. PICK c, log : c = pack.chain /\ log = logs[c] /\ pack.records = log
  BY DEF Exported
<1>1. c \in Chains
  BY <1>0 DEF Unforged
<1>2. Len(log) \in Nat /\ DOMAIN log = 1 .. Len(log) /\ RecordKept(c, i)
  BY <1>0, <1>1, LogFacts DEF Kept
<1>3. /\ r.sig = Sign(r.kid, OriginBytes(c, r))
      /\ PayloadKept(c, r.payload) /\ KeyKept(c, i, r.kid)
      /\ r.payload.type = "cert" => r.kid = r.payload.session
  BY <1>0, <1>2 DEF RecordKept
<1>4. r.kid # NoKid
  <2>1. r.kid[1] \in {"identity", "session"}
    BY <1>3 DEF KeyKept
  <2>2. NoKid[1] \notin {"identity", "session"}
    BY DEF NoKid
  <2> QED
    BY <2>1, <2>2
<1>5. Verified(r.sig, r.kid, OriginBytes(c, r)) /\ r.sig # NoSig
  BY <1>3, <1>4, OwnVerified DEF Verified
<1>6. ASSUME r.payload.type = "cert"
      PROVE  /\ CertVerifies(c, r.payload, r.payload.identity)
             /\ r.payload.identity[1] = "identity"
             /\ r.kid[1] = "session"
  <2>1. PICK p : p = r.payload
    OBVIOUS
  <2>2. /\ p.identity[1] = "identity" /\ p.session[1] = "session"
        /\ p.sig = Sign(p.identity, CertBytes(c, p))
    BY <1>3, <1>6, <2>1 DEF PayloadKept
  <2>3. p.identity # NoKid
    <3>1. NoKid[1] # "identity"
      BY DEF NoKid
    <3> QED
      BY <2>2, <3>1
  <2>4. CertVerifies(c, p, p.identity)
    BY <2>2, <2>3, OwnVerified DEF CertVerifies
  <2> QED
    BY <1>3, <1>6, <2>1, <2>2, <2>4
<1>7. ASSUME r.kid[1] = "session"
      PROVE  \E j \in DOMAIN log : log[j].payload.type = "cert" /\ log[j].payload.session = r.kid
  <2>1. PICK j \in 1 .. i : log[j].payload.type = "cert" /\ log[j].payload.session = r.kid
    BY <1>0, <1>3, <1>7 DEF KeyKept, CertifiedBy
  <2>2. j \in DOMAIN log
    BY <1>0, <1>2
  <2> QED
    BY <2>1, <2>2
<1>8. r.kid[1] \in {"identity", "session"}
  BY <1>3 DEF KeyKept
<1>9. ASSUME r.kid[1] = "identity" PROVE r.payload.type # "cert"
  BY <1>6, <1>9
<1> QED
  BY <1>0, <1>4, <1>5, <1>6, <1>7, <1>8, <1>9

(* For who trusts the operator's bundle, the keys it enrols, and the       *)
(* session keys they certify, account for every record.                    *)
LEMMA ExportedOrigins ==
  ASSUME Kept, Unforged, Exported, NEW trust \in TrustSets, NEW o,
         BundleAccepted(pack, trust, o), Anchored(pack, trust),
         ActiveKeys(pack.bundle) = ToSet(pack.bundle.keys), WritersEnrolled
  PROVE  /\ OriginAccepted(pack, trust,
              IdentityKeys(pack, trust)
                  \cup CertifiedKeys(pack.chain, pack.records, IdentityKeys(pack, trust)), o)
         /\ CertsAccepted(pack, IdentityKeys(pack, trust), o)
<1>0. PICK c, rs, ids, sessions :
        /\ c = pack.chain /\ rs = pack.records
        /\ ids = IdentityKeys(pack, trust) /\ sessions = CertifiedKeys(c, rs, ids)
  OBVIOUS
<1>1. \A e \in ids : e.kid = e.key
  BY <1>0, IdentitiesHonest
<1>2. \A e \in sessions : e.kid = e.key
  BY <1>0, CertifiedSessions
<1>3. ASSUME NEW i \in DOMAIN rs, Writer(rs[i])[1] = "identity"
      PROVE  \E e \in ids : e.kid = Writer(rs[i]) /\ e.key = Writer(rs[i])
  <2>1. rs[i] \in ToSet(rs)
    BY DEF ToSet
  <2>2. PICK e \in ToSet(pack.bundle.keys) : e.kid = Writer(rs[i])
    BY <1>0, <1>3, <2>1 DEF WritersEnrolled
  <2>3. e \in ids
    BY <1>0 DEF IdentityKeys
  <2> QED
    BY <1>1, <2>2, <2>3
<1>4. ASSUME NEW j \in DOMAIN rs, rs[j].payload.type = "cert"
      PROVE  /\ \E e \in ids : e.kid = rs[j].payload.identity
             /\ Entry(rs[j].payload.session, "origin") \in sessions
             /\ CertVerifies(c, rs[j].payload, rs[j].payload.identity)
  <2>1. /\ CertVerifies(c, rs[j].payload, rs[j].payload.identity)
        /\ rs[j].payload.identity[1] = "identity"
    BY <1>0, <1>4, ExportedRecord
  <2>2. PICK e \in ids : e.kid = rs[j].payload.identity /\ e.key = rs[j].payload.identity
    BY <1>3, <1>4, <2>1 DEF Writer
  <2>3. Entry(rs[j].payload.session, "origin") \in CertifiedKeys(c, rs, ids)
    BY <1>4, <2>1, <2>2 DEF CertifiedKeys
  <2> QED
    BY <1>0, <2>1, <2>2, <2>3
<1>5. ASSUME NEW i \in DOMAIN rs
      PROVE  \E e \in ids \cup sessions : e.kid = rs[i].kid
  <2>1. \/ rs[i].kid[1] = "identity" /\ rs[i].payload.type # "cert"
        \/ \E j \in DOMAIN rs : rs[j].payload.type = "cert" /\ rs[j].payload.session = rs[i].kid
    BY <1>0, ExportedRecord
  <2>2. CASE rs[i].kid[1] = "identity" /\ rs[i].payload.type # "cert"
    BY <1>3, <2>2 DEF Writer
  <2>3. ASSUME NEW j \in DOMAIN rs, rs[j].payload.type = "cert",
               rs[j].payload.session = rs[i].kid
        PROVE  \E e \in ids \cup sessions : e.kid = rs[i].kid
    <3>1. Entry(rs[i].kid, "origin") \in sessions
      BY <1>4, <2>3
    <3>2. Entry(rs[i].kid, "origin").kid = rs[i].kid
      BY DEF Entry
    <3> QED
      BY <3>1, <3>2
  <2> QED
    BY <2>1, <2>2, <2>3
<1>6. OriginAccepted(pack, trust, ids \cup sessions, o)
  <2>1. ASSUME NEW i \in DOMAIN rs
        PROVE  LET r == rs[i]
                   by == {e \in ids \cup sessions : e.kid = r.kid}
               IN  /\ (r.kid = NoKid) <=> (r.sig = NoSig)
                   /\ by # {} /\ \A e \in by : Verified(r.sig, e.key, OriginBytes(c, r))
    <3>1. /\ rs[i].kid # NoKid /\ rs[i].sig # NoSig
          /\ Verified(rs[i].sig, rs[i].kid, OriginBytes(c, rs[i]))
      BY <1>0, ExportedRecord
    <3> QED
      BY <1>1, <1>2, <1>5, <3>1
  <2> QED
    BY <1>0, <2>1 DEF OriginAccepted
<1>7. CertsAccepted(pack, ids, o)
  <2>1. ASSUME NEW i \in DOMAIN rs, rs[i].payload.type = "cert"
        PROVE  LET by == {e \in ids : e.kid = rs[i].payload.identity}
               IN  by # {} /\ \A e \in by : CertVerifies(c, rs[i].payload, e.key)
    BY <1>1, <1>4, <2>1
  <2> QED
    BY <1>0, <2>1 DEF CertsAccepted
<1> QED
  BY <1>0, <1>6, <1>7

LEMMA TrustedVerifies ==
  ASSUME Kept, Unforged, Exported, pack.bundle # NoBundle, AttestedIsSo, WritersEnrolled,
         NEW trust \in TrustSets, \E e \in trust : e.kid = OpsKey
  PROVE  Valid(pack, trust, Requiring(TRUE, FALSE))
<1>0. PICK o, source : o = Requiring(TRUE, FALSE) /\ source = KeySource(pack, trust)
  OBVIOUS
<1>1. source = trust /\ ~ o.attestation
  BY <1>0, TrustIsHonest DEF Requiring
<1>2. PICK m \in DOMAIN bundles : pack.bundle = bundles[m]
  BY DEF Exported
<1>3. \A e \in trust : e.kid = e.key
  BY TrustIsHonest
<1>4. BundleAccepted(pack, trust, o) /\ ActiveKeys(pack.bundle) = ToSet(pack.bundle.keys)
  BY <1>1, <1>2, <1>3, ExportedBundle
<1>5. Anchored(pack, trust)
  <2>1. BundleKept(bundles[m], Len(bundles))
    BY DEF Kept, BundlesKept
  <2>2. pack.bundle.kid = OpsKey
    BY <1>2, <2>1 DEF BundleKept
  <2> QED
    BY <2>2 DEF Anchored
<1>6. /\ OriginAccepted(pack, trust,
            IdentityKeys(pack, trust)
                \cup CertifiedKeys(pack.chain, pack.records, IdentityKeys(pack, trust)), o)
      /\ CertsAccepted(pack, IdentityKeys(pack, trust), o)
  BY <1>4, <1>5, ExportedOrigins
<1>7. \A i \in DOMAIN pack.seals : SealAccepted(pack, trust, i)
  BY TrustIsHonest, ExportedSeals
<1>8. ChainIntact(pack) /\ AnchorsAccepted(pack)
  BY ExportedIntact, ExportedAnchors
<1> QED
  BY <1>0, <1>1, <1>4, <1>6, <1>7, <1>8 DEF Valid

(* Under the keys that the pack carries, which is the sealing key only, no *)
(* record can be attributed and nothing but the seals is checked.          *)
LEMMA SelfContainedVerifies ==
  ASSUME Kept, Unforged, Exported, pack.bundle # NoBundle
  PROVE  Valid(pack, {}, Requiring(FALSE, FALSE))
<1>0. PICK o, source : o = Requiring(FALSE, FALSE) /\ source = KeySource(pack, {})
  OBVIOUS
<1>1. source = pack.keys /\ ~ o.attestation /\ ~ o.origin
  BY <1>0 DEF Requiring, KeySource
<1>2. /\ \A e \in source : e.role = "seal" /\ e.kid = SealKey /\ e.key = SealKey
      /\ DOMAIN pack.seals # {} => Entry(SealKey, "seal") \in source
  <2>1. DOMAIN pack.seals # {} => pack.seals # << >>
    OBVIOUS
  <2> QED
    BY <1>1, <2>1 DEF Exported, Entry
<1>3. ~ Anchored(pack, source)
  <2>1. PICK m \in DOMAIN bundles : pack.bundle = bundles[m]
    BY DEF Exported
  <2>2. BundleKept(bundles[m], Len(bundles))
    BY DEF Kept, BundlesKept
  <2>3. pack.bundle.kid = OpsKey
    BY <2>1, <2>2 DEF BundleKept
  <2>4. OpsKey # SealKey
    BY DEF OpsKey, SealKey
  <2> QED
    BY <1>2, <2>3, <2>4 DEF Anchored
<1>4. BundleAccepted(pack, source, o)
  BY <1>3 DEF BundleAccepted
<1>5. PICK ids, sessions : /\ ids = IdentityKeys(pack, source)
                           /\ sessions = CertifiedKeys(pack.chain, pack.records, ids)
  OBVIOUS
<1>6. ids = {} /\ sessions = {}
  <2>1. {e \in source : e.role = "origin"} = {}
    BY <1>2
  <2>2. ids = {}
    BY <1>3, <1>5, <2>1 DEF IdentityKeys
  <2> QED
    BY <1>5, <2>2 DEF CertifiedKeys
<1>7. OriginAccepted(pack, source, ids \cup sessions, o)
  <2>1. Kids(source, "seal") \cup Kids(source, "ops") \subseteq {SealKey}
    BY <1>2 DEF Kids
  <2>2. ASSUME NEW i \in DOMAIN pack.records
        PROVE  /\ pack.records[i].kid # NoKid /\ pack.records[i].sig # NoSig
               /\ pack.records[i].kid \notin Kids(source, "seal") \cup Kids(source, "ops")
    <3>1. /\ pack.records[i].kid # NoKid /\ pack.records[i].sig # NoSig
          /\ pack.records[i].kid[1] \in {"identity", "session"}
      BY ExportedRecord
    <3>2. SealKey[1] \notin {"identity", "session"}
      BY DEF SealKey
    <3> QED
      BY <2>1, <3>1, <3>2
  <2> QED
    BY <1>1, <1>6, <2>2 DEF OriginAccepted
<1>8. CertsAccepted(pack, ids, o)
  BY <1>1, <1>6 DEF CertsAccepted
<1>9. \A i \in DOMAIN pack.seals : SealAccepted(pack, source, i)
  BY <1>2, ExportedSeals
<1>10. ChainIntact(pack) /\ AnchorsAccepted(pack)
  BY ExportedIntact, ExportedAnchors
<1> QED
  BY <1>0, <1>4, <1>5, <1>7, <1>8, <1>9, <1>10 DEF Valid

(* A pack nobody edited is valid for an auditor who has the sealing key    *)
(* and the ops key, and, with nothing required, under its own keys: the    *)
(* checks above refuse no honest pack (export, verify_with).               *)
THEOREM HonestVerifies == Spec => []HonestPackVerifies
<1>1. ASSUME EvidenceInv PROVE HonestPackVerifies
  <2>1. SUFFICES
          ASSUME pack # NoPack, edits = {}, pack.bundle # NoBundle,
                 host.enrolment.attested =>
                     /\ Faithful(host.enrolment)
                     /\ \A e \in ToSet(pack.bundle.keys) : Measured(pack.bundle, e),
                 {k \in {IF r.payload.type = "cert" THEN r.payload.identity ELSE r.kid :
                           r \in ToSet(pack.records)} : k[1] = "identity"}
                     \subseteq {e.kid : e \in ToSet(pack.bundle.keys)}
          PROVE  /\ \A trust \in {t \in TrustSets : \E e \in t : e.kid = OpsKey} :
                       Valid(pack, trust, Requiring(TRUE, FALSE))
                 /\ Valid(pack, {}, Requiring(FALSE, FALSE))
    BY Zenon DEF HonestPackVerifies
  <2>2. Kept /\ Unforged /\ Exported
    BY <1>1, <2>1 DEF EvidenceInv, PackInv
  <2>3. AttestedIsSo
    BY <2>1 DEF AttestedIsSo
  <2>4. WritersEnrolled
    BY <2>1 DEF WritersEnrolled, Writer
  <2> QED
    BY <2>1, <2>2, <2>3, <2>4, TrustedVerifies, SelfContainedVerifies
<1>2. EvidenceInv => HonestPackVerifies
  BY <1>1
<1> QED
  BY <1>2, NothingForged, PTL
=============================================================================
