------------------------------ MODULE Evidence ------------------------------
(***************************************************************************)
(* What an evidence pack proves.  Gateways write chains of signed records  *)
(* (obsign-proxy/src/origin.rs, obsign-audit-core/src/origin.rs), the      *)
(* ledger seals them (checkpoint.rs, merkle.rs), a chain is exported as a  *)
(* pack, somebody edits the pack, and the auditor verifies it (evidence.rs)*)
(* with keys obtained elsewhere.                                           *)
(*                                                                         *)
(* A hash is what it hashes and a signature is [by, over]: the key that    *)
(* made it and the bytes it covers.  Whoever edits a pack copies what is   *)
(* in it and signs with the keys it holds.                                 *)
(***************************************************************************)
EXTENDS Attestation, SequencesExt

CONSTANTS
    Chains,        \* chain ids
    Leaked,        \* chains whose session keys leaked
    Hosts,         \* the gateway hosts: [tier, boot, enrolment]
    TrustSets,     \* the key files an auditor can have from outside the pack
    MaxRecords,    \* bound: records of all chains
    MaxSeals,      \* bound: checkpoints of all chains
    MaxRotations,  \* bound: identity keys that replace one another
    MaxEdits       \* bound: kinds of edits made to the pack

Identity(n) == <<"identity", n>>
Session(c, n) == <<"session", c, n>>
OpsKey == <<"ops", 0>>
SealKey == <<"seal", 0>>
Mallory == <<"mallory", 0>>

(* PublicKeyEntry; key ids derive from keys (key_id_for) except where an   *)
(* entry is forged.                                                        *)
Entry(key, role) == [kid |-> key, key |-> key, role |-> role]

(* tier       "direct": the gateway's key signs every record; "two-tier":  *)
(*            it certifies a session key for each session of a chain       *)
(* boot       the PCRs: 0 measures the gateway's binary, 1 can be reset    *)
(* enrolment  what the operator's tool made of the host: see Enrolled      *)
(*                                                                         *)
(* A key file holds the sealing key and other keys of gateways, ledgers    *)
(* and operators, each under its own id: it does not come from the pack.   *)
ASSUME EvidenceAssumption ==
    /\ \A h \in Hosts :
          /\ h.tier \in {"direct", "two-tier"}
          /\ IsFiniteSet(DOMAIN h.boot) /\ DOMAIN h.boot \subseteq Nat
          /\ h.enrolment.attested \in BOOLEAN
          /\ h.enrolment.selected \subseteq DOMAIN h.boot
          /\ h.enrolment.expected \subseteq DOMAIN h.boot
    /\ Leaked \subseteq Chains
    /\ \A t \in TrustSets :
          /\ Entry(SealKey, "seal") \in t
          /\ \A e \in t : e.kid = e.key /\ e.key[1] \in {"identity", "ops", "seal"}

Genesis == [seq |-> -1]
NoSeal == [none |-> TRUE]
NoKid == <<"no key", 0>>
NoSig == [by |-> NoKid]
NoBundle == [kid |-> NoKid]
NoPack == [chain |-> "none"]

Data(v) == [type |-> "data", value |-> v]

VARIABLES
    host,     \* where the gateway runs
    bundles,  \* the deployment bundles published so far
    logs,     \* [Chains -> the records written]
    seals,    \* [Chains -> the checkpoints signed]
    opened,   \* [Chains -> sessions opened]
    signer,   \* [Chains -> the key of the open session, or NoKid]
    pack,     \* the evidence pack, or NoPack
    edits     \* history: the kinds of edits made

vars == <<host, bundles, logs, seals, opened, signer, pack, edits>>

-----------------------------------------------------------------------------
(***************************************************************************)
(* Bytes that are signed.                                                  *)
(***************************************************************************)
Sign(key, bytes) == [by |-> key, over |-> bytes]

Verified(sig, key, bytes) == sig # NoSig /\ sig.by = key /\ sig.over = bytes

(* Record::hash: the record without its envelope.                          *)
Hash(r) == [seq |-> r.seq, prev |-> r.prev, payload |-> r.payload]

OriginBytes(c, r) == <<"record", c, Hash(r)>>

(* Mutant of CertBytes: the certificate does not name its chain.           *)
CertBytesUnbound(c, cert) == <<"cert", "", cert.session, cert.identity>>

(* session_cert_signing_bytes                                              *)
CertBytes(c, cert) == <<"cert", c, cert.session, cert.identity>>

(* Checkpoint::signing_bytes, and its hash.                                *)
SealBytes(s) ==
    <<"seal", s.chain, s.from, s.to, s.root, s.head, s.prev, s.kid>>

(* DeploymentBundle::signing_bytes                                         *)
BundleBytes(b) == <<"deployment", b.keys, b.attestations>>

(* A level of the tree above another: pairs of nodes; an odd one is        *)
(* promoted.                                                               *)
Paired(below) ==
    [i \in 1 .. (Len(below) + 1) \div 2 |->
        IF 2 * i <= Len(below) THEN <<"node", below[2 * i - 1], below[2 * i]>>
        ELSE below[2 * i - 1]]

(* merkle_root: level by level, until there is one node.                   *)
MerkleRoot(leaves) ==
    LET Level[k \in 0 .. Len(leaves)] ==
            IF k = 0 THEN [i \in DOMAIN leaves |-> <<"leaf", leaves[i]>>]
            ELSE Paired(Level[k - 1])
    IN  Level[Len(leaves)][1]

-----------------------------------------------------------------------------
(***************************************************************************)
(* The gateway and the ledger.                                             *)
(***************************************************************************)
Current == bundles[Len(bundles)]
OwnKey == Identity(Len(bundles))

(* DeploymentBundle::active_origin_keys: origin keys only, each id once.   *)
UsableKeys(b) ==
    /\ \A i \in DOMAIN b.keys : b.keys[i].role = "origin"
    /\ \A i, j \in DOMAIN b.keys : b.keys[i].kid = b.keys[j].kid => i = j

ActiveKeys(b) == IF UsableKeys(b) THEN ToSet(b.keys) ELSE {}

(* What enrolment (external, obsign-tpm-enroll) says of key n of the host. *)
Enrolled(n) ==
    LET t == host.enrolment
        key == Identity(n)
        area == IF t.pub = "none" THEN NoPub
                ELSE [shape |-> "signing", key |-> IF t.pub = "own" THEN key ELSE Mallory]
        certify == [type |-> "certify", by |-> <<"ak", 0>>,
                    name |-> NameOf(area, IF t.certified = "own" THEN key ELSE Mallory)]
        quote == [type |-> "quote", by |-> t.quotedBy, bank |-> t.bank,
                  selected |-> t.selected,
                  digest |-> PcrDigest([i \in t.selected |-> host.boot[i]])]
    IN  [kid |-> key, ak |-> <<"ak", 0>>, pub |-> area,
         certify |-> IF t.swapped THEN quote ELSE certify,
         quote   |-> IF t.swapped THEN certify ELSE quote,
         expected |-> [i \in t.expected |-> "released"]]

(* DeploymentBundle::sign, over the identity keys numbered in ns.          *)
Publish(ns) ==
    LET b == [keys |-> [i \in DOMAIN ns |-> Entry(Identity(ns[i]), "origin")],
              attestations |-> IF host.enrolment.attested
                               THEN {Enrolled(ns[i]) : i \in DOMAIN ns} ELSE {}]
    IN  [keys |-> b.keys, attestations |-> b.attestations, kid |-> OpsKey,
         sig |-> Sign(OpsKey, BundleBytes(b))]

Init ==
    /\ host \in Hosts
    /\ bundles = <<Publish(<<1>>)>>
    /\ logs = [c \in Chains |-> << >>]
    /\ seals = [c \in Chains |-> << >>]
    /\ opened = [c \in Chains |-> 0]
    /\ signer = [c \in Chains |-> NoKid]
    /\ pack = NoPack
    /\ edits = {}

(* The operator replaces the gateway's key, keeps the old one enrolled for *)
(* a while or not, and restarts the gateway.                               *)
Rotate ==
    /\ pack = NoPack
    /\ Len(bundles) <= MaxRotations
    /\ \E keep \in BOOLEAN :
          LET n == Len(bundles) + 1
          IN  bundles' = Append(bundles, Publish(IF keep THEN <<n - 1, n>> ELSE <<n>>))
    /\ signer' = [c \in Chains |-> NoKid]
    /\ UNCHANGED <<host, logs, seals, opened, pack, edits>>

Total(seqs) == FoldFunction(LAMBDA s, n : Len(s) + n, 0, seqs)

(* verify_session_cert                                                     *)
CertVerifies(c, cert, key) == Verified(cert.sig, key, CertBytes(c, cert))

(* Mutant of CertifiedKeys: only the first certificate counts.             *)
CertifiedKeysFirst(c, records, identities) ==
    LET certs == {i \in DOMAIN records : records[i].payload.type = "cert"}
    IN  {Entry(records[i].payload.session, "origin") :
            i \in {i \in certs :
                     /\ \A j \in certs : i <= j
                     /\ \E e \in identities :
                          /\ e.kid = records[i].payload.identity
                          /\ CertVerifies(c, records[i].payload, e.key)}}

(* The session keys that identity keys vouch for, in the certificates of a *)
(* chain: resume_session_trust (gateway), resolve_session_certs (auditor). *)
CertifiedKeys(c, records, identities) ==
    {Entry(records[i].payload.session, "origin") :
        i \in {i \in DOMAIN records :
                 /\ records[i].payload.type = "cert"
                 /\ \E e \in identities :
                      /\ e.kid = records[i].payload.identity
                      /\ CertVerifies(c, records[i].payload, e.key)}}

Record(c, records, key, payload) ==
    LET n == Len(records)
        r == [seq |-> n, payload |-> payload,
              prev |-> IF n = 0 THEN Genesis ELSE Hash(records[n])]
    IN  [seq |-> r.seq, prev |-> r.prev, payload |-> r.payload, kid |-> key,
         sig |-> Sign(key, OriginBytes(c, r))]

(* DeploymentTrust::load: the origin keys of the bundle in force.          *)
DeploymentTrust ==
    IF Verified(Current.sig, OpsKey, BundleBytes(Current)) THEN ActiveKeys(Current) ELSE {}

(* require_enrolled                                                        *)
OwnKeyEnrolled == \E e \in DeploymentTrust : e.kid = OwnKey

(* certify_session                                                         *)
Certificate(c, session) ==
    LET cert == [session |-> session, identity |-> OwnKey]
    IN  [type |-> "cert", session |-> session, identity |-> OwnKey,
         sig |-> Sign(OwnKey, CertBytes(c, cert))]

(* GatewayKeys::open_session: the tail of a chain that is resumed has to   *)
(* be of a key in force, and under two tiers a new session key is          *)
(* certified and its certificate written first.                            *)
Open(c) ==
    LET direct == host.tier = "direct"
        trust  == IF direct THEN DeploymentTrust
                  ELSE CertifiedKeys(c, logs[c], DeploymentTrust)
        key    == IF direct THEN OwnKey ELSE Session(c, opened[c] + 1)
    IN  /\ pack = NoPack
        /\ Total(logs) < MaxRecords
        /\ OwnKeyEnrolled
        /\ direct => signer[c] = NoKid
        /\ logs[c] # << >> => \E e \in trust : e.kid = Last(logs[c]).kid
        /\ opened' = [opened EXCEPT ![c] = @ + 1]
        /\ signer' = [signer EXCEPT ![c] = key]
        /\ logs' = IF direct THEN logs
                   ELSE [logs EXCEPT ![c] = Append(@, Record(c, @, key, Certificate(c, key)))]
        /\ UNCHANGED <<host, bundles, seals, pack, edits>>

Write(c) ==
    /\ pack = NoPack
    /\ signer[c] # NoKid
    /\ Total(logs) < MaxRecords
    /\ logs' = [logs EXCEPT ![c] = Append(@, Record(c, @, signer[c], Data("written")))]
    /\ UNCHANGED <<host, bundles, seals, opened, signer, pack, edits>>

(* seal_interval, Checkpoint::sign: the records after the last seal.       *)
SealOf(c, records, last, key) ==
    LET from == IF last = NoSeal THEN 0 ELSE last.to + 1
        s == [chain |-> c, from |-> from, to |-> Len(records) - 1,
              root |-> MerkleRoot([i \in 1 .. Len(records) - from |-> Hash(records[from + i])]),
              head |-> Hash(records[Len(records)]),
              prev |-> IF last = NoSeal THEN << >> ELSE SealBytes(last),
              kid |-> key]
    IN  [seal |-> s, sig |-> Sign(key, SealBytes(s))]

LastSeal(s) == IF s = << >> THEN NoSeal ELSE s[Len(s)].seal

Seal(c) ==
    /\ pack = NoPack
    /\ Total(seals) < MaxSeals
    /\ Len(logs[c]) > (IF seals[c] = << >> THEN 0 ELSE LastSeal(seals[c]).to + 1)
    /\ seals' = [seals EXCEPT ![c] = Append(@, SealOf(c, logs[c], LastSeal(@), SealKey))]
    /\ UNCHANGED <<host, bundles, logs, opened, signer, pack, edits>>

(* export: the log, the store and the bundle that the operator names.  The *)
(* last seal has been timestamped.                                         *)
Export(c) ==
    /\ pack = NoPack
    /\ logs[c] # << >>
    /\ \E b \in ToSet(bundles) \cup {NoBundle} :
          pack' = [chain |-> c, records |-> logs[c], seals |-> seals[c], bundle |-> b,
                   keys |-> IF seals[c] = << >> THEN {} ELSE {Entry(SealKey, "seal")},
                   anchors |-> IF seals[c] = << >> THEN {}
                               ELSE {[seal |-> SealBytes(LastSeal(seals[c])), status |-> "granted",
                                      imprint |-> SealBytes(LastSeal(seals[c]))]}]
    /\ UNCHANGED <<host, bundles, logs, seals, opened, signer, edits>>

-----------------------------------------------------------------------------
(***************************************************************************)
(* Whoever holds the pack edits it (external): with what any chain's log   *)
(* shows, and with the keys it holds.                                      *)
(***************************************************************************)
Edit(kind) ==
    /\ pack # NoPack
    /\ kind \notin edits
    /\ Cardinality(edits) < MaxEdits
    /\ edits' = edits \cup {kind}
    /\ UNCHANGED <<host, bundles, logs, seals, opened, signer>>

KnownCerts ==
    {r.payload : r \in {r \in UNION {ToSet(logs[c]) : c \in Chains} : r.payload.type = "cert"}}

HeldKeys ==
    {Mallory} \cup {k \in {p.session : p \in KnownCerts} : k[2] \in Leaked}

(* One more record, as the pack's chain would continue, under key.         *)
Continued(records, key, payload) ==
    Append(records, Record(pack.chain, records, key, payload))

RemoveRecord ==
    /\ Edit("records")
    /\ \E i \in DOMAIN pack.records : pack' = [pack EXCEPT !.records = RemoveAt(@, i)]

SwapRecords ==
    /\ Edit("records")
    /\ \E i \in 2 .. Len(pack.records) :
          pack' = [pack EXCEPT !.records[i] = pack.records[i - 1], !.records[i - 1] = pack.records[i]]

(* Another payload under the old signature or with that taken away, or one *)
(* of a type this build does not know.                                     *)
RewriteRecord ==
    /\ Edit("records")
    /\ \E i \in DOMAIN pack.records :
          LET r == [pack.records[i] EXCEPT !.payload = Data("forged")]
              bare == [r EXCEPT !.sig = NoSig]
          IN  \E new \in {r, bare, [bare EXCEPT !.kid = NoKid],
                          [r EXCEPT !.payload = [type |-> "unknown"]]} :
                pack' = [pack EXCEPT !.records = Append(SubSeq(@, 1, i - 1), new)]

(* New records, under a certificate copied from a log or under none.       *)
ForgeRecords ==
    /\ Edit("records")
    /\ \E k \in 0 .. Len(pack.records), key \in HeldKeys :
          LET kept == SubSeq(pack.records, 1, k)
          IN  \E rs \in {kept} \cup {Continued(kept, key, p) : p \in KnownCerts} :
                 pack' = [pack EXCEPT !.records = Continued(rs, key, Data("forged"))]

RenameChain ==
    /\ Edit("chain")
    /\ \E c \in Chains \ {pack.chain} : pack' = [pack EXCEPT !.chain = c]

RemoveSeal ==
    /\ Edit("seals")
    /\ \E i \in DOMAIN pack.seals : pack' = [pack EXCEPT !.seals = RemoveAt(@, i)]

(* A seal that whoever edits the pack signs, under some key's id.          *)
OwnSeal(kid) ==
    LET s == SealOf(pack.chain, pack.records, NoSeal, kid)
    IN  [seal |-> s.seal, sig |-> Sign(Mallory, SealBytes(s.seal))]

(* A seal of another chain, or one of the editor's.                        *)
AddSeal ==
    /\ Edit("seals")
    /\ \/ \E c \in Chains \ {pack.chain} : \E s \in ToSet(seals[c]) :
             pack' = [pack EXCEPT !.seals = <<s>>, !.anchors = {}]
       \/ /\ pack.records # << >>
          /\ \E kid \in {SealKey, OwnKey, Mallory} :
                pack' = [pack EXCEPT !.seals = <<OwnSeal(kid)>>, !.anchors = {}]

(* A bundle that enrols the editor's key, under the id of another or not.  *)
OwnBundle(kid, ekid) ==
    LET b == [keys |-> <<[kid |-> ekid, key |-> Mallory, role |-> "origin"]>>,
              attestations |-> {}]
    IN  [keys |-> b.keys, attestations |-> {}, kid |-> kid, sig |-> Sign(Mallory, BundleBytes(b))]

(* Another bundle, beside the ones there are: without its attestations, or *)
(* one of the editor's.                                                    *)
ReplaceBundle ==
    /\ Edit("bundle")
    /\ \/ pack' = [pack EXCEPT !.bundle = [Current EXCEPT !.attestations = {}]]
       \/ \E kid \in {OpsKey, Mallory}, ekid \in {Mallory, Identity(1)} :
             pack' = [pack EXCEPT !.bundle = OwnBundle(kid, ekid)]

ChangeAnchor ==
    /\ Edit("anchors")
    /\ \E a \in pack.anchors :
          \E b \in {[a EXCEPT !.status = "rejected"], [a EXCEPT !.imprint = << >>],
                     [a EXCEPT !.seal = << >>, !.imprint = << >>]} :
             pack' = [pack EXCEPT !.anchors = {b}]

Next ==
    \/ \E c \in Chains : Open(c) \/ Write(c) \/ Seal(c) \/ Export(c)
    \/ Rotate
    \/ RemoveRecord \/ SwapRecords \/ RewriteRecord \/ ForgeRecords
    \/ RenameChain \/ RemoveSeal \/ AddSeal \/ ReplaceBundle \/ ChangeAnchor

Spec == Init /\ [][Next]_vars

-----------------------------------------------------------------------------
(***************************************************************************)
(* verify_with: the auditor's tool.  trust is the key file, o the options  *)
(* [origin, attestation] the auditor requires.  Findings that are warnings *)
(* leave the report valid, so each check below says when there is no error.*)
(***************************************************************************)
KeySource(p, trust) == IF trust = {} THEN p.keys ELSE trust

Kids(source, role) == {e.kid : e \in {e \in source : e.role = role}}

(* resolve_deployment_bundle: the ops key is found by its id, whatever its *)
(* role, and a bundle whose key is not there is passed over.               *)
Anchored(p, source) == p.bundle # NoBundle /\ \E e \in source : e.kid = p.bundle.kid

(* resolve_attestations                                                    *)
AttestationsAccepted(b, o) ==
    \A e \in ToSet(b.keys) :
        LET found == {a \in b.attestations : a.kid = e.kid}
        IN  IF found = {} THEN ~o.attestation ELSE \A a \in found : VerifyAttestation(e, a)

BundleAccepted(p, source, o) ==
    Anchored(p, source) =>
        /\ \E e \in source : e.kid = p.bundle.kid /\ Verified(p.bundle.sig, e.key, BundleBytes(p.bundle))
        /\ UsableKeys(p.bundle)
        /\ \A e \in source, f \in ToSet(p.bundle.keys) :
              e.role = "origin" /\ e.kid = f.kid => e.key = f.key
        /\ AttestationsAccepted(p.bundle, o)

IdentityKeys(p, source) ==
    {e \in source : e.role = "origin"}
        \cup (IF Anchored(p, source) THEN ActiveKeys(p.bundle) ELSE {})

(* The errors of resolve_session_certs.                                    *)
CertsAccepted(p, identities, o) ==
    \A i \in DOMAIN p.records :
        LET cert == p.records[i].payload
            by   == {e \in identities : e.kid = cert.identity}
        IN  cert.type = "cert" =>
               IF by = {} THEN ~o.origin
               ELSE \A e \in by : CertVerifies(p.chain, cert, e.key)

(* An extract may start anywhere; from there on there is no gap.           *)
ChainIntact(p) ==
    \A i \in DOMAIN p.records :
        LET r == p.records[i]
        IN  /\ r.payload.type # "unknown"
            /\ IF i = 1 THEN r.seq = 0 <=> r.prev = Genesis
               ELSE r.seq = p.records[i - 1].seq + 1 /\ r.prev = Hash(p.records[i - 1])

OriginAccepted(p, source, origins, o) ==
    \A i \in DOMAIN p.records :
        LET r == p.records[i]
            by == {e \in origins : e.kid = r.kid}
        IN  /\ (r.kid = NoKid) <=> (r.sig = NoSig)
            /\ IF by # {} THEN \A e \in by : Verified(r.sig, e.key, OriginBytes(p.chain, r))
               ELSE /\ ~o.origin
                    /\ r.kid \notin Kids(source, "seal") \cup Kids(source, "ops")

(* Mutant of SealLinked: the seals need not follow one another.            *)
SealLinkedAnyhow(p, i) == TRUE

SealLinked(p, i) ==
    p.seals[i].seal.prev = IF i = 1 THEN << >> ELSE SealBytes(p.seals[i - 1].seal)

(* hash_by_seq: of the records with that number, the last one's hash.      *)
HashBySeq(p, n) ==
    LET at == {i \in DOMAIN p.records : p.records[i].seq = n}
    IN  Hash(p.records[CHOOSE i \in at : \A j \in at : j <= i])

SealAccepted(p, source, i) ==
    LET s == p.seals[i].seal
    IN  /\ s.chain = p.chain
        /\ SealLinked(p, i)
        /\ \E e \in source : e.role = "seal" /\ e.kid = s.kid
                              /\ Verified(p.seals[i].sig, e.key, SealBytes(s))
        /\ s.from <= s.to
        /\ s.from .. s.to \subseteq {r.seq : r \in ToSet(p.records)}
        /\ MerkleRoot([k \in 1 .. s.to - s.from + 1 |-> HashBySeq(p, s.from + k - 1)]) = s.root
        /\ HashBySeq(p, s.to) = s.head

AnchorsAccepted(p) ==
    \A a \in p.anchors :
        /\ \E i \in DOMAIN p.seals : a.seal = SealBytes(p.seals[i].seal)
        /\ a.status = "granted"
        /\ a.imprint = a.seal

Valid(p, trust, o) ==
    LET source     == KeySource(p, trust)
        identities == IdentityKeys(p, source)
        origins    == identities \cup CertifiedKeys(p.chain, p.records, identities)
    IN  /\ ChainIntact(p)
        /\ AnchorsAccepted(p)
        /\ OriginAccepted(p, source, origins, o)
        /\ \A i \in DOMAIN p.seals : SealAccepted(p, source, i)
        /\ CertsAccepted(p, identities, o)
        /\ BundleAccepted(p, source, o)

-----------------------------------------------------------------------------
(***************************************************************************)
(* Properties.                                                             *)
(***************************************************************************)
Requiring(origin, attestation) == [origin |-> origin, attestation |-> attestation]

WrittenAt(c, r) == r.seq + 1 \in DOMAIN logs[c] /\ Hash(logs[c][r.seq + 1]) = Hash(r)

(* With origins required and keys from outside the pack, a valid report    *)
(* means that every record was written, there, to the chain the pack       *)
(* names: nothing is added, altered, moved or brought from another chain,  *)
(* even with that other chain's session keys in hand (evidence.rs          *)
(* verify_with, require_origin; origin.rs session_cert_signing_bytes).     *)
VerifiedIsWritten ==
    pack # NoPack /\ pack.chain \notin Leaked =>
        \A trust \in TrustSets :
            Valid(pack, trust, Requiring(TRUE, FALSE)) =>
                \A r \in ToSet(pack.records) : WrittenAt(pack.chain, r)

(* Whatever is required, the seals of a valid pack are the first ones that *)
(* the ledger made of that chain, none left out, and each record they      *)
(* cover was written: also when the session keys of the chain leaked       *)
(* (checkpoints of verify_with).                                           *)
SealedIsCertified ==
    pack # NoPack =>
        \A trust \in TrustSets :
            Valid(pack, trust, Requiring(FALSE, FALSE)) =>
                /\ IsPrefix(pack.seals, seals[pack.chain])
                /\ \A s \in ToSet(pack.seals), r \in ToSet(pack.records) :
                      r.seq \in s.seal.from .. s.seal.to => WrittenAt(pack.chain, r)

(* The host of key e is what the bundle says: its TPM vouches for the key, *)
(* and each PCR the operator expects a value of had it.                    *)
Measured(b, e) ==
    \E a \in b.attestations :
        /\ a.kid = e.kid
        /\ a.certify.name \in {<<"raw", e.key>>, <<"area", e.key>>}
        /\ \A i \in DOMAIN a.expected : host.boot[i] = a.expected[i]

(* With attestations required too, and origin keys only from a bundle,     *)
(* each key that signed or certified a record of a valid pack belongs to a *)
(* host that was measured as expected (attestation.rs verify_attestation). *)
AttestedIsMeasured ==
    pack # NoPack =>
        \A trust \in {t \in TrustSets : Kids(t, "origin") = {}} :
            Valid(pack, trust, Requiring(TRUE, TRUE)) =>
                \A r \in ToSet(pack.records) :
                    LET kid == IF r.payload.type = "cert" THEN r.payload.identity ELSE r.kid
                    IN  kid[1] = "identity" =>
                           \E e \in ToSet(pack.bundle.keys) : e.kid = kid /\ Measured(pack.bundle, e)

Faithful(t) ==
    /\ t.pub \in {"none", "own"} /\ t.certified = "own" /\ ~t.swapped
    /\ t.quotedBy = <<"ak", 0>> /\ t.bank = "sha256"
    /\ t.selected = t.expected /\ t.expected # {}

(* A pack nobody edited is valid for an auditor who has the sealing and    *)
(* the ops key, origins required, when its bundle enrols the keys that     *)
(* wrote it and what the bundle attests is so.  Under the keys it carries  *)
(* itself it is valid when nothing is required, as export checks.          *)
HonestPackVerifies ==
    pack # NoPack /\ edits = {} /\ pack.bundle # NoBundle =>
        LET writers == {IF r.payload.type = "cert" THEN r.payload.identity ELSE r.kid :
                          r \in ToSet(pack.records)}
            enrolled == {e.kid : e \in ToSet(pack.bundle.keys)}
        IN  /\ host.enrolment.attested =>
                  /\ Faithful(host.enrolment)
                  /\ \A e \in ToSet(pack.bundle.keys) : Measured(pack.bundle, e)
            /\ {k \in writers : k[1] = "identity"} \subseteq enrolled
            => /\ \A trust \in {t \in TrustSets : \E e \in t : e.kid = OpsKey} :
                      Valid(pack, trust, Requiring(TRUE, FALSE))
               /\ Valid(pack, {}, Requiring(FALSE, FALSE))
=============================================================================
