---------------------------- MODULE Attestation -----------------------------
(***************************************************************************)
(* What a TPM says of the host that holds an identity key, and how the     *)
(* auditor's tool checks it (obsign-audit-core/src/attestation.rs).  Pure  *)
(* functions; the module Evidence drives them.                             *)
(*                                                                         *)
(* An attestation, as the deployment bundle carries it, is                 *)
(*   kid       the identity key it is about                                *)
(*   ak        the attestation key of the TPM                              *)
(*   pub       the public area of the identity key, or NoPub               *)
(*   certify,  two statements [type, by, ...], meant to be a certify, that *)
(*   quote     names a key, and a quote, that reports PCRs                 *)
(*   expected  what the operator expects of the PCRs: [index -> value]     *)
(***************************************************************************)
EXTENDS Naturals, Sequences, FiniteSets

NoPub == [key |-> "none"]

(* The name of a key: of its public area, or of the key itself in the form *)
(* that predates hardware.                                                 *)
NameOf(pub, key) == IF pub = NoPub THEN <<"raw", key>> ELSE <<"area", pub.key>>

(* A digest of PCRs: their values in the order of their indices, without   *)
(* the indices (expected_pcr_digest; a TPM computes the same).             *)
PcrDigest(values) ==
    LET n == Cardinality(DOMAIN values)
        Rank(i) == Cardinality({j \in DOMAIN values : j <= i})
    IN  [k \in 1 .. n |-> values[CHOOSE i \in DOMAIN values : Rank(i) = k]]

(* parse_tpmt_public: an ECC signing key with no symmetric part, no KDF,   *)
(* nothing after it.                                                       *)
ParsesPublic(pub) == pub.shape = "signing"

(* expected_identity_name: a public area has to hold the enrolled key.     *)
NamesEnrolled(entry, att) ==
    att.pub = NoPub \/ (ParsesPublic(att.pub) /\ att.pub.key = entry.key)

(* AkPublic::verify                                                        *)
AkSigned(s, ak) == s.by = ak

(* verify_signed_attest: the AK signed it, and it is of a type known here. *)
SignedAttest(s, ak) == AkSigned(s, ak) /\ s.type \in {"certify", "quote"}

(* Mutant of QuoteMatches: the digest alone is compared.                   *)
QuoteMatchesDigest(att) ==
    /\ att.quote.type = "quote"
    /\ att.quote.bank = "sha256"
    /\ att.quote.digest = PcrDigest(att.expected)
    /\ DOMAIN att.expected # {}

(* The second half of verify_attestation: the quote is over exactly the    *)
(* PCRs that are expected, and there are some.                             *)
QuoteMatches(att) ==
    /\ att.quote.type = "quote"
    /\ att.quote.bank = "sha256"
    /\ att.quote.selected = DOMAIN att.expected
    /\ att.quote.digest = PcrDigest(att.expected)
    /\ DOMAIN att.expected # {}

VerifyAttestation(entry, att) ==
    /\ NamesEnrolled(entry, att)
    /\ SignedAttest(att.certify, att.ak)
    /\ att.certify.type = "certify"
    /\ att.certify.name = NameOf(att.pub, entry.key)
    /\ SignedAttest(att.quote, att.ak)
    /\ QuoteMatches(att)
=============================================================================
