------------------------------ MODULE Identity ------------------------------
(***************************************************************************)
(* Who a token speaks for (obsign-identity/src): the signed identity       *)
(* bundle (bundle.rs), the keys it publishes (jwks.rs), the verification   *)
(* of a token (verifier.rs) and what is read from its claims (claims.rs).  *)
(* Pure functions: the module Policy drives them.                          *)
(*                                                                         *)
(* claims[path] is the set of strings that `resolve' and `flatten' find on *)
(* a path of the token.  An absent claim is the empty set.                 *)
(***************************************************************************)
EXTENDS Naturals, Sequences, FiniteSets

CONSTANTS
    ServicePrefix,   \* usernames that start like a service account's
    MaxActDepth      \* MAX_ACT_DEPTH: `act' claims that are followed

ASSUME IdentityAssumption == MaxActDepth \in Nat

NoKid == "no kid"
NoSub == "no sub"      \* an `act' without a usable "sub"
NoClient == "no client"

-----------------------------------------------------------------------------
(***************************************************************************)
(* The bundle.  A signature is what it was made over.                      *)
(***************************************************************************)

(* What MachineMarkers::default() and default_labels() are.                *)
DefaultMarkers ==
    [subject_is_client |-> TRUE,
     equals   |-> {[path |-> "idtyp", value |-> "app"]},
     prefixes |-> {"preferred_username"}]
DefaultLabels == <<"preferred_username", "email">>

(* IdentityBundle::signing_bytes.  Format 1 leaves the markers and the     *)
(* label paths out, format 2 the label paths.                              *)
IdentityBytes(b) ==
    <<b.format, b.issuer, b.audience, b.jwks, b.claims.subject, b.claims.scopes,
      b.claims.groups, b.claims.client_id>>
    \o (IF b.format # 1 THEN <<b.claims.machine>> ELSE << >>)
    \o (IF b.format \notin {1, 2} THEN <<b.claims.labels>> ELSE << >>)

(* Mutant of VerifyIdentity: older formats are taken as they are.          *)
VerifyIdentityBytes(f) ==
    /\ f.sig = IdentityBytes(f.bundle)
    /\ f.bundle.format \in 1 .. 3

(* SignedIdentityBundle::verify, after the key: an older format refuses    *)
(* what its signature does not cover.                                      *)
VerifyIdentity(f) ==
    /\ f.sig = IdentityBytes(f.bundle)
    /\ f.bundle.format \in 1 .. 3
    /\ f.bundle.format = 1 => f.bundle.claims.machine = DefaultMarkers
    /\ f.bundle.format \in {1, 2} => f.bundle.claims.labels = DefaultLabels

(* KeyStore::from_set: an unusable key, two keys of one kid or no key at   *)
(* all, and the gateway does not start.                                    *)
KeyStore(jwks) ==
    /\ \A k \in jwks : k.kty \in {"RSA", "EC", "OKP"} /\ k.usable
    /\ \A j, k \in jwks : j.kid = k.kid => j = k
    /\ jwks # {}

-----------------------------------------------------------------------------
(***************************************************************************)
(* The claims.                                                             *)
(***************************************************************************)

(* ClaimMap::scopes: the first path that answers.                          *)
ScopesOf(map, claims) ==
    LET answering == {i \in DOMAIN map.scopes : claims[map.scopes[i]] # {}}
    IN  IF answering = {} THEN {}
        ELSE claims[map.scopes[CHOOSE i \in answering : \A j \in answering : i <= j]]

(* ClaimMap::groups: every path, merged.                                   *)
GroupsOf(map, claims) ==
    UNION {claims[map.groups[i]] : i \in DOMAIN map.groups}

(* ClaimMap::client_id: the first path that answers.                       *)
ClientOf(map, claims) ==
    LET answering == {i \in DOMAIN map.client_id : claims[map.client_id[i]] # {}}
    IN  IF answering = {} THEN NoClient
        ELSE LET i == CHOOSE i \in answering : \A j \in answering : i <= j
             IN  CHOOSE c \in claims[map.client_id[i]] : TRUE

(* ClaimMap::label: the path of the first display name that is not empty.  *)
LabelOf(map, claims) ==
    LET answering == {i \in DOMAIN map.labels : claims[map.labels[i]] # {}}
    IN  IF answering = {} THEN "no label"
        ELSE map.labels[CHOOSE i \in answering : \A j \in answering : i <= j]

(* MachineMarkers::is_machine: any marker is enough.                       *)
IsMachine(m, claims, subject, client) ==
    \/ m.subject_is_client /\ client = subject
    \/ \E r \in m.equals : r.value \in claims[r.path]
    \/ \E p \in m.prefixes : claims[p] \cap ServicePrefix # {}

(* actor_chain: from the agent that acts to the principal, through at most *)
(* MAX_ACT_DEPTH nested `act' claims.                                      *)
ActorChain(token, subject) ==
    LET depth == IF Len(token.act) < MaxActDepth THEN Len(token.act) ELSE MaxActDepth
        Named(s) == s # NoSub
    IN  SelectSeq(SubSeq(token.act, 1, depth), Named) \o <<subject>>

KindOf(chain, machine) ==
    CASE machine -> "machine"
      [] ~machine /\ Len(chain) > 1 -> "delegated_human"
      [] ~machine /\ Len(chain) = 1 -> "human"

-----------------------------------------------------------------------------
(* Verifier::verify.  The key is the one that `kid' names, its algorithm   *)
(* the one the bundle gives it; issuer, audience and expiry are required.  *)
(* A bundle that does not verify a token does not name its bearer.         *)
Verifies(b, token) ==
    /\ token.kid # NoKid
    /\ \E k \in b.jwks : k.kid = token.kid /\ k.key = token.key
    /\ token.iss = b.issuer
    /\ token.aud = b.audience
    /\ token.fresh
    /\ token.claims[b.claims.subject] # {}
    /\ ScopesOf(b.claims, token.claims) # {}

(* The Delegation a verified token proves.                                 *)
DelegationOf(b, token) ==
    LET c       == token.claims
        subject == CHOOSE s \in c[b.claims.subject] : TRUE
        chain   == ActorChain(token, subject)
        machine == IsMachine(b.claims.machine, c, subject, ClientOf(b.claims, c))
    IN  [subject |-> subject,
         scopes  |-> ScopesOf(b.claims, c),
         groups  |-> GroupsOf(b.claims, c),
         depth   |-> Len(chain) - 1,
         kind    |-> KindOf(chain, machine),
         label   |-> LabelOf(b.claims, c)]

HasHuman(d) == d.kind \in {"human", "delegated_human"}
=============================================================================
