---------------------------- MODULE MCEvidence ------------------------------
(***************************************************************************)
(* Instances of Evidence for TLC.                                          *)
(***************************************************************************)
EXTENDS Evidence

Plain == [attested |-> FALSE, pub |-> "own", certified |-> "own", swapped |-> FALSE,
          quotedBy |-> <<"ak", 0>>, bank |-> "sha256", selected |-> {0, 1}, expected |-> {0, 1}]

Good == [Plain EXCEPT !.attested = TRUE]

(* Enrolments that went wrong, or were steered.                            *)
Enrolments ==
    {Good,
     [Good EXCEPT !.pub = "none"],
     [Good EXCEPT !.pub = "other"],
     [Good EXCEPT !.pub = "none", !.certified = "other"],
     [Good EXCEPT !.swapped = TRUE],
     [Good EXCEPT !.quotedBy = <<"ak", 1>>],
     [Good EXCEPT !.bank = "sha1"],
     [Good EXCEPT !.selected = {1}, !.expected = {0}],
     [Good EXCEPT !.selected = {0}, !.expected = {0}],
     [Good EXCEPT !.selected = {}, !.expected = {}]}

Boot(v) == [i \in {0, 1} |-> IF i = 0 THEN v ELSE "released"]

MCHosts ==
    {[tier |-> t, boot |-> Boot("released"), enrolment |-> Plain] : t \in {"direct", "two-tier"}}
    \cup {[tier |-> "direct", boot |-> Boot(v), enrolment |-> e] :
             v \in {"released", "other"}, e \in Enrolments}

(* The key files: the sealing key, with the ops key under its role or the  *)
(* role it had before there was one, or with the gateway's first key.      *)
MCTrustSets ==
    {{Entry(SealKey, "seal"), e} :
        e \in {Entry(OpsKey, "ops"), Entry(OpsKey, "seal"), Entry(Identity(1), "origin")}}

(* Attestations are about keys, not about logs: one record is enough.  One *)
(* certificate of the chain whose keys leaked is all there is to copy, and *)
(* rotations are another matter.                                           *)
Short ==
    /\ host.enrolment.attested => Total(logs) <= 1 /\ Len(bundles) = 1
    /\ \A c \in Leaked : Len(logs[c]) <= IF Len(bundles) = 1 THEN 1 ELSE 0
=============================================================================
