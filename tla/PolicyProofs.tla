---------------------------- MODULE PolicyProofs ----------------------------
(***************************************************************************)
(* Theorems about the verdicts of the gateway (Policy): for any rules,     *)
(* catalogues, fail modes, identity bundles and tokens, a gateway that     *)
(* started runs on the bundles that were signed.                           *)
(***************************************************************************)
EXTENDS Policy, SequenceTheorems, TLAPS

-----------------------------------------------------------------------------
(***************************************************************************)
(* What a signature pins.                                                  *)
(***************************************************************************)

(* A policy bundle as a file can hold it.                                  *)
FileBundle == [format : {1, 2}, rules : SUBSET Rules, tools : Catalogues, fail : FailModes]

(* The catalogue without its declared arguments, as format 1 signs it.     *)
Bare(tools) == [t \in DOMAIN tools |-> [tools[t] EXCEPT !.arg = NoArg]]

LEMMA BareIsWhole ==
    ASSUME NEW c \in Catalogues, \A t \in DOMAIN c : c[t].arg = NoArg
    PROVE  Bare(c) = c
<1>1. IsCatalogue(c)
  BY PolicyAssumption
<1>2. ASSUME NEW t \in DOMAIN c PROVE [c[t] EXCEPT !.arg = NoArg] = c[t]
  <2>1. c[t] = [required_scope |-> c[t].required_scope, arg |-> c[t].arg] /\ c[t].arg = NoArg
    BY <1>1 DEF IsCatalogue
  <2>2. PICK s, e : s = c[t].required_scope /\ e = c[t]
    OBVIOUS
  <2>3. e = [required_scope |-> s, arg |-> NoArg]
    BY <2>1, <2>2
  <2>4. [e EXCEPT !.arg = NoArg] = e
    BY <2>3
  <2> QED
    BY <2>2, <2>4
<1> QED
  BY <1>1, <1>2 DEF IsCatalogue, Bare

(* Two bundles with the same signed bytes, none of which holds a field its *)
(* format does not sign, are the same bundle.                              *)
LEMMA SignedBytesPin ==
    ASSUME NEW b \in FileBundle, NEW c \in FileBundle,
           SigningBytes(b) = SigningBytes(c),
           b.format = 1 => \A t \in DOMAIN b.tools : b.tools[t].arg = NoArg,
           c.format = 1 => \A t \in DOMAIN c.tools : c.tools[t].arg = NoArg
    PROVE  b = c
<1>1. /\ b.format = c.format /\ b.rules = c.rules /\ b.fail = c.fail
      /\ (IF b.format = 1 THEN Bare(b.tools) ELSE b.tools)
            = (IF c.format = 1 THEN Bare(c.tools) ELSE c.tools)
  BY DEF SigningBytes, Bare
<1>2. b.tools \in Catalogues /\ c.tools \in Catalogues
  BY DEF FileBundle
<1>3. b.tools = c.tools
  <2>1. CASE b.format = 1
    BY <1>1, <1>2, <2>1, BareIsWhole
  <2>2. CASE b.format # 1
    BY <1>1, <2>2
  <2> QED
    BY <2>1, <2>2
<1> QED
  BY <1>1, <1>3 DEF FileBundle

(* The elements of a concatenation.                                        *)
LEMMA ConcatAt ==
    ASSUME NEW S, NEW s \in Seq(S), NEW t \in Seq(S)
    PROVE  /\ s \o t \in Seq(S)
           /\ Len(s) \in Nat /\ Len(t) \in Nat
           /\ Len(s \o t) = Len(s) + Len(t)
           /\ \A i \in 1 .. Len(s) : (s \o t)[i] = s[i]
           /\ \A i \in 1 .. Len(t) : (s \o t)[Len(s) + i] = t[i]
OBVIOUS

(* The signed bytes of an identity bundle, one by one.                     *)
LEMMA IdentityBytesParts ==
    ASSUME NEW b
    PROVE  /\ IdentityBytes(b)[1] = b.format
           /\ IdentityBytes(b)[5] = b.claims.subject
           /\ IdentityBytes(b)[6] = b.claims.scopes
           /\ IdentityBytes(b)[7] = b.claims.groups
           /\ IdentityBytes(b)[8] = b.claims.client_id
           /\ b.format # 1 => IdentityBytes(b)[9] = b.claims.machine
           /\ b.format \notin {1, 2} => IdentityBytes(b)[10] = b.claims.labels
<1>0. PICK S : /\ b.format \in S /\ b.issuer \in S /\ b.audience \in S /\ b.jwks \in S
               /\ b.claims.subject \in S /\ b.claims.scopes \in S
               /\ b.claims.groups \in S /\ b.claims.client_id \in S
               /\ b.claims.machine \in S /\ b.claims.labels \in S
  <2> WITNESS {b.format, b.issuer, b.audience, b.jwks, b.claims.subject, b.claims.scopes,
               b.claims.groups, b.claims.client_id, b.claims.machine, b.claims.labels}
  <2> QED
    OBVIOUS
<1>1. PICK u : u = <<b.format, b.issuer, b.audience, b.jwks, b.claims.subject,
                     b.claims.scopes, b.claims.groups, b.claims.client_id>>
  OBVIOUS
<1>2. PICK v : v = IF b.format # 1 THEN <<b.claims.machine>> ELSE << >>
  OBVIOUS
<1>3. PICK w : w = IF b.format \notin {1, 2} THEN <<b.claims.labels>> ELSE << >>
  OBVIOUS
<1>4. /\ u \in Seq(S) /\ Len(u) = 8 /\ u[1] = b.format /\ u[5] = b.claims.subject
      /\ u[6] = b.claims.scopes /\ u[7] = b.claims.groups /\ u[8] = b.claims.client_id
  BY <1>0, <1>1
<1>5. /\ v \in Seq(S)
      /\ b.format # 1 => Len(v) = 1 /\ v[1] = b.claims.machine
  <2>1. CASE b.format # 1
    <3>1. v = <<b.claims.machine>>
      BY <1>2, <2>1
    <3> QED
      BY <1>0, <2>1, <3>1
  <2>2. CASE b.format = 1
    BY <1>2, <2>2, EmptySeq
  <2> QED
    BY <2>1, <2>2
<1>6. /\ w \in Seq(S)
      /\ b.format \notin {1, 2} => Len(w) = 1 /\ w[1] = b.claims.labels
  <2>1. CASE b.format \notin {1, 2}
    <3>1. w = <<b.claims.labels>>
      BY <1>3, <2>1
    <3> QED
      BY <1>0, <2>1, <3>1
  <2>2. CASE b.format \in {1, 2}
    BY <1>3, <2>2, EmptySeq
  <2> QED
    BY <2>1, <2>2
<1>7. PICK x : x = u \o v
  OBVIOUS
<1>8. /\ x \in Seq(S) /\ Len(x) = Len(u) + Len(v)
      /\ \A i \in 1 .. Len(u) : x[i] = u[i]
      /\ \A i \in 1 .. Len(v) : x[Len(u) + i] = v[i]
  <2>1. u \in Seq(S) /\ v \in Seq(S)
    BY <1>4, <1>5
  <2> QED
    BY <1>7, <2>1, ConcatAt
<1>9. PICK y : y = x \o w
  OBVIOUS
<1>10. /\ Len(x) \in Nat
       /\ \A i \in 1 .. Len(x) : y[i] = x[i]
       /\ \A i \in 1 .. Len(w) : y[Len(x) + i] = w[i]
  BY <1>6, <1>8, <1>9, ConcatAt, SMTT(30)
<1>11. IdentityBytes(b) = y
  BY <1>1, <1>2, <1>3, <1>7, <1>9 DEF IdentityBytes
<1>12. \A i \in 1 .. 8 : y[i] = u[i]
  <2>1. Len(v) \in Nat
    BY <1>4, <1>5, ConcatAt
  <2>2. \A i \in 1 .. 8 : i \in 1 .. Len(x) /\ x[i] = u[i]
    BY <1>4, <1>8, <2>1
  <2> QED
    BY <1>10, <2>2
<1>13. b.format # 1 => Len(x) = 9
  BY <1>4, <1>5, <1>8, SMTT(30)
<1>14. b.format # 1 => y[9] = b.claims.machine
  <2> SUFFICES ASSUME b.format # 1 PROVE y[9] = b.claims.machine
    OBVIOUS
  <2>1. 1 \in 1 .. Len(v)
    BY <1>5, SMTT(30)
  <2>2. x[8 + 1] = v[1]
    BY <1>4, <1>8, <2>1
  <2>3. y[9] = x[9]
    BY <1>10, <1>13
  <2> QED
    BY <1>5, <2>2, <2>3
<1>15. b.format \notin {1, 2} => y[10] = b.claims.labels
  <2> SUFFICES ASSUME b.format \notin {1, 2} PROVE y[10] = b.claims.labels
    OBVIOUS
  <2>1. 1 \in 1 .. Len(w)
    BY <1>6
  <2>2. y[9 + 1] = w[1]
    BY <1>10, <1>13, <2>1
  <2> QED
    BY <1>6, <2>2
<1> QED
  BY <1>4, <1>11, <1>12, <1>14, <1>15

LEMMA IdentityBytesPin ==
    ASSUME NEW b, NEW c, IsClaimMap(b.claims), IsClaimMap(c.claims),
           VerifyIdentity([bundle |-> b, sig |-> IdentityBytes(b)]),
           VerifyIdentity([bundle |-> c, sig |-> IdentityBytes(b)])
    PROVE  b.claims = c.claims
<1>1. /\ IdentityBytes(c) = IdentityBytes(b) /\ b.format \in 1 .. 3 /\ c.format \in 1 .. 3
      /\ b.format = 1 => b.claims.machine = DefaultMarkers
      /\ b.format \in {1, 2} => b.claims.labels = DefaultLabels
      /\ c.format = 1 => c.claims.machine = DefaultMarkers
      /\ c.format \in {1, 2} => c.claims.labels = DefaultLabels
  BY DEF VerifyIdentity
<1>2. /\ b.format = c.format /\ b.claims.subject = c.claims.subject
      /\ b.claims.scopes = c.claims.scopes /\ b.claims.groups = c.claims.groups
      /\ b.claims.client_id = c.claims.client_id
      /\ b.format # 1 => b.claims.machine = c.claims.machine
      /\ b.format \notin {1, 2} => b.claims.labels = c.claims.labels
  BY <1>1, IdentityBytesParts, SMTT(30)
<1>3. b.claims.machine = c.claims.machine /\ b.claims.labels = c.claims.labels
  BY <1>1, <1>2
<1> QED
  BY <1>2, <1>3 DEF IsClaimMap

LEMMA SameBearer ==
    ASSUME NEW b, NEW c, b.claims = c.claims
    PROVE  \A t : DelegationOf(b, t) = DelegationOf(c, t)
BY DEF DelegationOf

-----------------------------------------------------------------------------
(***************************************************************************)
(* What a gateway that started runs on.  The files keep the signatures the *)
(* control plane made, whatever is edited; a format-1 bundle that compiled *)
(* declares no argument, and each identity bundle that was signed holds    *)
(* nothing its format leaves out of the signature.                         *)
(***************************************************************************)
SignedInv ==
    /\ signed \in FileBundle
    /\ signed.format = 1 => \A t \in DOMAIN signed.tools : signed.tools[t].arg = NoArg
    /\ identity \in IdentityBundles

FilesInv ==
    /\ policyFile = [bundle |-> policyFile.bundle, sig |-> SigningBytes(signed)]
    /\ policyFile.bundle \in FileBundle
    /\ identityFile = [bundle |-> identityFile.bundle, sig |-> IdentityBytes(identity)]
    /\ IsIdentityBundle(identityFile.bundle)

EngineInv ==
    engine.up => engine.policy = signed /\ engine.identity.claims = identity.claims

PolicyInv == SignedInv /\ FilesInv /\ EngineInv

LEMMA InitInv == Init => PolicyInv
<1> SUFFICES ASSUME Init PROVE PolicyInv
  OBVIOUS
<1>1. signed \in Bundles /\ Compiles(signed) /\ identity \in IdentityBundles
  BY DEF Init
<1>2. signed \in FileBundle
  BY <1>1 DEF Bundles, FileBundle
<1>3. signed.format = 1 => \A t \in DOMAIN signed.tools : signed.tools[t].arg = NoArg
  BY <1>1 DEF Compiles, FormatFor
<1>4. IsIdentityBundle(identity)
  BY <1>1, PolicyAssumption
<1>5. FilesInv
  BY <1>2, <1>4 DEF Init, FilesInv
<1> QED
  BY <1>1, <1>2, <1>3, <1>5 DEF Init, PolicyInv, SignedInv, EngineInv, Down

(* An edit of the policy file: one part of the bundle, never its signature. *)
LEMMA EditedPolicy ==
    ASSUME NEW b \in FileBundle,
           NEW c \in {[b EXCEPT !.format = f] : f \in {1, 2}} \cup
                     {[b EXCEPT !.tools = t] : t \in Catalogues} \cup
                     {[b EXCEPT !.rules = {}]} \cup
                     {[b EXCEPT !.fail = m] : m \in FailModes}
    PROVE  c \in FileBundle
BY DEF FileBundle

LEMMA EditedIdentity ==
    ASSUME NEW b, IsIdentityBundle(b),
           NEW c \in {[b EXCEPT !.format = f] : f \in 1 .. 3} \cup
                     {[b EXCEPT !.claims = m] : m \in Edited}
    PROVE  IsIdentityBundle(c)
<1>1. PICK f, i, a, j, m : b = [format |-> f, issuer |-> i, audience |-> a, jwks |-> j,
                                claims |-> m] /\ IsClaimMap(m)
  BY DEF IsIdentityBundle
<1>2. CASE \E g \in 1 .. 3 : c = [b EXCEPT !.format = g]
  <2>1. PICK g \in 1 .. 3 : c = [b EXCEPT !.format = g]
    BY <1>2
  <2>2. c = [format |-> g, issuer |-> i, audience |-> a, jwks |-> j, claims |-> m]
    BY <1>1, <2>1
  <2> QED
    BY <1>1, <2>2 DEF IsIdentityBundle
<1>3. CASE \E n \in Edited : c = [b EXCEPT !.claims = n]
  <2>1. PICK n \in Edited : c = [b EXCEPT !.claims = n]
    BY <1>3
  <2>2. c = [format |-> f, issuer |-> i, audience |-> a, jwks |-> j, claims |-> n]
    BY <1>1, <2>1
  <2>3. IsClaimMap(n)
    BY PolicyAssumption
  <2> QED
    BY <2>2, <2>3 DEF IsIdentityBundle
<1> QED
  BY <1>2, <1>3

(* Start is the step that matters: what verifies under the signature of    *)
(* the signed bundle is that bundle.                                       *)
LEMMA StartInv == PolicyInv /\ Start => PolicyInv'
<1> SUFFICES ASSUME PolicyInv, Start PROVE PolicyInv'
  OBVIOUS
<1>1. SignedInv' /\ FilesInv'
  BY DEF PolicyInv, SignedInv, FilesInv, Start
<1>2. PICK b, g : b = policyFile.bundle /\ g = identityFile.bundle
  OBVIOUS
<1>3. policyFile.sig = SigningBytes(signed) /\ identityFile.sig = IdentityBytes(identity)
  BY DEF PolicyInv, FilesInv
<1>4. b = signed
  <2>1. /\ SigningBytes(signed) = SigningBytes(b)
        /\ b.format = 1 => \A t \in DOMAIN b.tools : b.tools[t].arg = NoArg
    BY <1>2, <1>3 DEF Start, Verify, Declares
  <2>2. /\ signed \in FileBundle /\ b \in FileBundle
        /\ signed.format = 1 => \A t \in DOMAIN signed.tools : signed.tools[t].arg = NoArg
    BY <1>2 DEF PolicyInv, SignedInv, FilesInv
  <2> QED
    BY <2>1, <2>2, SignedBytesPin
<1>5. g.claims = identity.claims
  <2>1. identityFile = [bundle |-> g, sig |-> IdentityBytes(identity)]
    BY <1>2 DEF PolicyInv, FilesInv
  <2>2. VerifyIdentity([bundle |-> g, sig |-> IdentityBytes(identity)])
    BY <2>1 DEF Start
  <2>3. /\ IsIdentityBundle(identity)
        /\ VerifyIdentity([bundle |-> identity, sig |-> IdentityBytes(identity)])
    BY PolicyAssumption DEF PolicyInv, SignedInv
  <2>4. IsClaimMap(identity.claims) /\ IsClaimMap(g.claims)
    BY <1>2, <2>3 DEF PolicyInv, FilesInv, IsIdentityBundle
  <2> QED
    BY <2>2, <2>3, <2>4, IdentityBytesPin
<1>6. engine' = [up |-> TRUE, policy |-> b, identity |-> g]
  BY <1>2 DEF Start
<1>7. signed' = signed /\ identity' = identity
  BY DEF Start
<1>8. EngineInv'
  BY <1>4, <1>5, <1>6, <1>7 DEF EngineInv
<1> QED
  BY <1>1, <1>8 DEF PolicyInv

LEMMA RewriteInv == PolicyInv /\ Rewrite => PolicyInv'
<1> SUFFICES ASSUME PolicyInv, Rewrite PROVE PolicyInv'
  OBVIOUS
<1>1. SignedInv' /\ EngineInv'
  BY DEF PolicyInv, SignedInv, EngineInv, Rewrite
<1>2. signed' = signed /\ identity' = identity
  BY DEF Rewrite
<1>3. CASE \E b \in {[policyFile.bundle EXCEPT !.format = f] : f \in {1, 2}} \cup
                    {[policyFile.bundle EXCEPT !.tools = t] : t \in Catalogues} \cup
                    {[policyFile.bundle EXCEPT !.rules = {}]} \cup
                    {[policyFile.bundle EXCEPT !.fail = m] : m \in FailModes} :
               policyFile' = [policyFile EXCEPT !.bundle = b] /\ identityFile' = identityFile
  <2>1. PICK b \in {[policyFile.bundle EXCEPT !.format = f] : f \in {1, 2}} \cup
                    {[policyFile.bundle EXCEPT !.tools = t] : t \in Catalogues} \cup
                    {[policyFile.bundle EXCEPT !.rules = {}]} \cup
                    {[policyFile.bundle EXCEPT !.fail = m] : m \in FailModes} :
               policyFile' = [policyFile EXCEPT !.bundle = b] /\ identityFile' = identityFile
    BY <1>3
  <2>2. policyFile.bundle \in FileBundle
    BY DEF PolicyInv, FilesInv
  <2>3. b \in FileBundle
    BY <2>2, EditedPolicy
  <2>4. policyFile' = [bundle |-> b, sig |-> SigningBytes(signed)]
    <3>1. PICK e, s : policyFile = [bundle |-> e, sig |-> s] /\ s = SigningBytes(signed)
      BY DEF PolicyInv, FilesInv
    <3> QED
      BY <2>1, <3>1
  <2>5. SigningBytes(signed)' = SigningBytes(signed)
    BY <1>2 DEF SigningBytes
  <2>6. IdentityBytes(identity)' = IdentityBytes(identity)
    BY <1>2 DEF IdentityBytes
  <2>7. FilesInv'
    BY <2>1, <2>3, <2>4, <2>5, <2>6 DEF PolicyInv, FilesInv
  <2> QED
    BY <1>1, <2>7 DEF PolicyInv
<1>4. CASE \E b \in {[identityFile.bundle EXCEPT !.format = f] : f \in 1 .. 3} \cup
                    {[identityFile.bundle EXCEPT !.claims = c] : c \in Edited} :
               identityFile' = [identityFile EXCEPT !.bundle = b] /\ policyFile' = policyFile
  <2>1. PICK b \in {[identityFile.bundle EXCEPT !.format = f] : f \in 1 .. 3} \cup
                    {[identityFile.bundle EXCEPT !.claims = c] : c \in Edited} :
               identityFile' = [identityFile EXCEPT !.bundle = b] /\ policyFile' = policyFile
    BY <1>4
  <2>2. IsIdentityBundle(identityFile.bundle)
    BY DEF PolicyInv, FilesInv
  <2>3. IsIdentityBundle(b)
    BY <2>2, EditedIdentity
  <2>4. identityFile' = [bundle |-> b, sig |-> IdentityBytes(identity)]
    <3>1. PICK e, s : identityFile = [bundle |-> e, sig |-> s] /\ s = IdentityBytes(identity)
      BY DEF PolicyInv, FilesInv
    <3> QED
      BY <2>1, <3>1
  <2>5. SigningBytes(signed)' = SigningBytes(signed)
    BY <1>2 DEF SigningBytes
  <2>6. IdentityBytes(identity)' = IdentityBytes(identity)
    BY <1>2 DEF IdentityBytes
  <2>7. identityFile'.bundle = b
    BY <2>4
  <2>8. FilesInv'
    BY <2>1, <2>3, <2>4, <2>5, <2>6, <2>7 DEF PolicyInv, FilesInv
  <2> QED
    BY <1>1, <2>8 DEF PolicyInv
<1> QED
  BY <1>3, <1>4 DEF Rewrite

LEMMA NextInv == PolicyInv /\ [Next]_vars => PolicyInv'
<1> SUFFICES ASSUME PolicyInv, [Next]_vars PROVE PolicyInv'
  OBVIOUS
<1>1. CASE Rewrite
  BY <1>1, RewriteInv
<1>2. CASE Start
  BY <1>2, StartInv
<1>3. CASE UNCHANGED <<signed, identity, policyFile, identityFile, engine>>
  BY <1>3 DEF PolicyInv, SignedInv, FilesInv, EngineInv
<1> QED
  BY <1>1, <1>2, <1>3 DEF Next, Present, Expire, Call, Access, List, Serving, vars

-----------------------------------------------------------------------------
(***************************************************************************)
(* The verdicts.                                                           *)
(***************************************************************************)
LEMMA BearerIsSigned ==
    ASSUME PolicyInv, engine.up
    PROVE  engine.policy = signed /\ InForce = DelegationOf(identity, bearer.token)
<1>1. engine.policy = signed /\ engine.identity.claims = identity.claims
  BY DEF PolicyInv, EngineInv
<1>2. \A t : DelegationOf(engine.identity, t) = DelegationOf(identity, t)
  BY <1>1, SameBearer
<1> QED
  BY <1>1, <1>2 DEF InForce

(* A step that judges nothing, or leaves the judged event as it was.       *)
LEMMA OtherSteps ==
    ASSUME [Next]_vars, ~Call, ~Access, ~List
    PROVE  UNCHANGED <<signed, identity, event>>
BY DEF Next, Rewrite, Start, Present, Expire, vars

LEMMA CallEvent ==
    ASSUME PolicyInv, Call
    PROVE  /\ UNCHANGED <<signed, identity>>
           /\ \E tok, x, t, raw :
                 event' = [type |-> "call", token |-> tok, expired |-> x, tool |-> t, raw |-> raw,
                           outcome |-> IF x THEN "deny"
                              ELSE Evaluate(signed, DelegationOf(identity, tok), t, raw)]
<1>1. engine.policy = signed /\ InForce = DelegationOf(identity, bearer.token)
  BY BearerIsSigned DEF Call, Serving
<1> QED
  BY <1>1 DEF Call, Serving

LEMMA AccessEvent ==
    ASSUME PolicyInv, Access
    PROVE  /\ UNCHANGED <<signed, identity>>
           /\ \E tok, x, cap, target :
                 event' = [type |-> "access", token |-> tok, expired |-> x, cap |-> cap,
                           target |-> target,
                           outcome |-> IF x THEN "deny"
                              ELSE EvaluateCapability(signed, DelegationOf(identity, tok), cap, target)]
<1>1. engine.policy = signed /\ InForce = DelegationOf(identity, bearer.token)
  BY BearerIsSigned DEF Access, Serving
<1> QED
  BY <1>1 DEF Access, Serving

LEMMA NextEnforced == PolicyInv /\ EnforcedAsSigned /\ [Next]_vars => EnforcedAsSigned'
<1> SUFFICES ASSUME PolicyInv, EnforcedAsSigned, [Next]_vars PROVE EnforcedAsSigned'
  OBVIOUS
<1>1. CASE Call
  <2>1. PICK tok, x, t, raw :
           event' = [type |-> "call", token |-> tok, expired |-> x, tool |-> t, raw |-> raw,
                     outcome |-> IF x THEN "deny"
                        ELSE Evaluate(signed, DelegationOf(identity, tok), t, raw)]
    BY <1>1, CallEvent
  <2>2. signed' = signed /\ identity' = identity
    BY <1>1, CallEvent
  <2> QED
    BY <2>1, <2>2 DEF EnforcedAsSigned, Bearer
<1>2. CASE Access
  <2>1. PICK tok, x, cap, target :
           event' = [type |-> "access", token |-> tok, expired |-> x, cap |-> cap,
                     target |-> target,
                     outcome |-> IF x THEN "deny"
                        ELSE EvaluateCapability(signed, DelegationOf(identity, tok), cap, target)]
    BY <1>2, AccessEvent
  <2>2. signed' = signed /\ identity' = identity
    BY <1>2, AccessEvent
  <2> QED
    BY <2>1, <2>2 DEF EnforcedAsSigned, Bearer
<1>3. CASE List
  BY <1>3 DEF List, EnforcedAsSigned
<1>4. CASE ~Call /\ ~Access /\ ~List
  BY <1>4, OtherSteps DEF EnforcedAsSigned, Bearer
<1> QED
  BY <1>1, <1>2, <1>3, <1>4

(* Whatever is edited on the gateway's disk before it starts, the verdicts *)
(* of calls and accesses are those of the bundles the control plane signed *)
(* for the token of the request: SignedBundle::verify and                  *)
(* SignedIdentityBundle::verify refuse, in each of the older formats, what *)
(* the format leaves out of the signed bytes.                              *)
THEOREM Enforced == Spec => []EnforcedAsSigned
<1>1. Init => PolicyInv /\ EnforcedAsSigned
  BY InitInv DEF Init, EnforcedAsSigned, Nothing
<1>2. PolicyInv /\ EnforcedAsSigned /\ [Next]_vars => PolicyInv' /\ EnforcedAsSigned'
  BY NextInv, NextEnforced
<1> QED
  BY <1>1, <1>2, PTL DEF Spec

(* Only a tool without arguments reaches its fail mode.                    *)
LEMMA FailModeNeedsNoArgument ==
    ASSUME NEW b, NEW d, NEW t, NEW raw, Evaluate(b, d, t, raw) = "allow_fail_open"
    PROVE  \A other : Evaluate(b, d, t, other) = "allow_fail_open"
<1>1. \A q : Decide(b, q, TRUE) \in {"error", "allow", "deny"}
  BY DEF Decide
<1>2. t \in DOMAIN b.tools
  BY DEF Evaluate
<1>3. b.tools[t].arg = NoArg
  BY <1>1, <1>2 DEF Evaluate
<1>4. \A other : Evaluate(b, d, t, other) = Evaluate(b, d, t, raw)
  BY <1>2, <1>3 DEF Evaluate
<1> QED
  BY <1>4

LEMMA NextSteered == PolicyInv /\ FailOpenNotSteered /\ [Next]_vars => FailOpenNotSteered'
<1> SUFFICES ASSUME PolicyInv, FailOpenNotSteered, [Next]_vars PROVE FailOpenNotSteered'
  OBVIOUS
<1>1. CASE Call
  <2>1. PICK tok, x, t, raw :
           event' = [type |-> "call", token |-> tok, expired |-> x, tool |-> t, raw |-> raw,
                     outcome |-> IF x THEN "deny"
                        ELSE Evaluate(signed, DelegationOf(identity, tok), t, raw)]
    BY <1>1, CallEvent
  <2>2. signed' = signed /\ identity' = identity
    BY <1>1, CallEvent
  <2>3. CASE x
    BY <2>1, <2>3 DEF FailOpenNotSteered
  <2>4. CASE ~x
    <3>1. /\ event'.outcome = Evaluate(signed, DelegationOf(identity, tok), t, raw)
          /\ event'.token = tok /\ event'.tool = t
      BY <2>1, <2>4
    <3>2. event'.outcome = "allow_fail_open" =>
              \A other : Evaluate(signed, DelegationOf(identity, tok), t, other) = "allow_fail_open"
      BY <3>1, FailModeNeedsNoArgument
    <3> QED
      BY <2>2, <3>1, <3>2 DEF FailOpenNotSteered, Bearer
  <2> QED
    BY <2>3, <2>4
<1>2. CASE Access \/ List
  BY <1>2 DEF Access, List, FailOpenNotSteered
<1>3. CASE ~Call /\ ~Access /\ ~List
  BY <1>3, OtherSteps DEF FailOpenNotSteered, Bearer
<1> QED
  BY <1>1, <1>2, <1>3

(* No choice of arguments opens a fail-open path that another choice would *)
(* not: Engine::evaluate answers a declared argument that does not extract *)
(* and a rule that raises over one with a deny, never with the fail mode.  *)
THEOREM FailOpenIsNotSteered == Spec => []FailOpenNotSteered
<1>1. Init => PolicyInv /\ FailOpenNotSteered
  BY InitInv DEF Init, FailOpenNotSteered, Nothing
<1>2. PolicyInv /\ FailOpenNotSteered /\ [Next]_vars => PolicyInv' /\ FailOpenNotSteered'
  BY NextInv, NextSteered
<1> QED
  BY <1>1, <1>2, PTL DEF Spec

-----------------------------------------------------------------------------
(***************************************************************************)
(* Listings.                                                               *)
(***************************************************************************)

(* Without arguments no rule over an argument is satisfied, so that a      *)
(* listing is decided by the other rules.                                  *)
LEMMA ArgumentRulesDoNotCount ==
    ASSUME NEW R \in SUBSET Rules, NEW q, q.args = NoArg
    PROVE  Permitted(R, q) <=> Permitted({r \in R : r.reads # "arg"}, q)
<1>1. ASSUME NEW r \in R, r.reads = "arg" PROVE ~Satisfied(r, q)
  <2>1. r.name # None
    BY PolicyAssumption
  <2>2. q.args.name # r.name
    BY <2>1 DEF NoArg
  <2>3. Applies(r, q) => Raises(r, q)
    BY <1>1, <2>2 DEF Raises, None
  <2> QED
    BY <2>3 DEF Satisfied
<1> QED
  BY <1>1 DEF Permitted

LEMMA ToolListing ==
    ASSUME NEW b, NEW d, NEW t, b.rules \in SUBSET Rules
    PROVE  EvaluateListing(b, d, t) = "allow" <=>
             /\ t \in DOMAIN b.tools
             /\ Permitted({r \in b.rules : r.reads # "arg"}, ToolRequest(b, d, t, NoArg))
<1>1. ToolRequest(b, d, t, NoArg).args = NoArg
  BY DEF ToolRequest
<1>2. Permitted(b.rules, ToolRequest(b, d, t, NoArg)) <=>
        Permitted({r \in b.rules : r.reads # "arg"}, ToolRequest(b, d, t, NoArg))
  BY <1>1, ArgumentRulesDoNotCount
<1>3. EvaluateListing(b, d, t) = "allow" <=>
        t \in DOMAIN b.tools /\ Permitted(b.rules, ToolRequest(b, d, t, NoArg))
  BY DEF EvaluateListing, Decide
<1> QED
  BY <1>2, <1>3

LEMMA CapabilityOutcome ==
    ASSUME NEW b, NEW d, NEW cap, NEW target
    PROVE  EvaluateCapability(b, d, cap, target) # "deny" <=>
             EvaluateCapability(b, d, cap, target) \in {"allow", "allow_fail_open"}
<1>1. PICK q : q = CapabilityRequest(d, cap, target)
  OBVIOUS
<1>2. Decide(b, q, TRUE) \in {"error", "allow", "deny"}
  BY DEF Decide
<1>3. OnFailure(b, cap) \in {"allow_fail_open", "deny"}
  BY DEF OnFailure
<1> QED
  BY <1>1, <1>2, <1>3 DEF EvaluateCapability

(* What the rules that were signed let a bearer see of one kind of list.   *)
Listed(l, d) ==
    IF l = "resources"
    THEN {u \in Targets :
            EvaluateCapability(signed, d, "resource_read", u) \in {"allow", "allow_fail_open"}}
    ELSE {t \in Tools \cap DOMAIN signed.tools :
            Permitted({r \in signed.rules : r.reads # "arg"}, ToolRequest(signed, d, t, NoArg))}

LEMMA VisibleIsListed ==
    ASSUME PolicyInv, engine.up, NEW l \in {"tools", "resources"}
    PROVE  {i \in (IF l = "tools" THEN Tools ELSE Targets) : Visible(l, i)}
             = IF bearer.expired THEN {} ELSE Listed(l, DelegationOf(identity, bearer.token))
<1>1. engine.policy = signed /\ InForce = DelegationOf(identity, bearer.token)
  BY BearerIsSigned
<1>2. signed.rules \in SUBSET Rules
  BY DEF PolicyInv, SignedInv, FileBundle
<1>3. CASE bearer.expired
  BY <1>3 DEF Visible
<1>4. CASE ~bearer.expired /\ l = "tools"
  <2>1. \A i : Visible(l, i) <=> EvaluateListing(signed, InForce, i) = "allow"
    BY <1>1, <1>4 DEF Visible
  <2>2. \A i : Visible(l, i) <=>
           /\ i \in DOMAIN signed.tools
           /\ Permitted({r \in signed.rules : r.reads # "arg"}, ToolRequest(signed, InForce, i, NoArg))
    BY <1>2, <2>1, ToolListing
  <2> QED
    BY <1>1, <1>4, <2>2 DEF Listed
<1>5. CASE ~bearer.expired /\ l = "resources"
  <2>1. \A i : Visible(l, i) <=>
           EvaluateCapability(signed, InForce, "resource_read", i) \in {"allow", "allow_fail_open"}
    BY <1>1, <1>5, CapabilityOutcome DEF Visible
  <2> QED
    BY <1>1, <1>5, <2>1 DEF Listed
<1> QED
  BY <1>3, <1>4, <1>5

(* The answer to a listing of one kind, for a token.                       *)
Shown(l, x, tok) ==
    [k \in {l} |-> IF x THEN {} ELSE Listed(l, DelegationOf(identity, tok))]

LEMMA ListEvent ==
    ASSUME PolicyInv, List, "mixed" \notin Faults
    PROVE  /\ UNCHANGED <<signed, identity>>
           /\ \E l \in {"tools", "resources"} :
                 event' = [type |-> "listing", token |-> bearer.token, expired |-> bearer.expired,
                           shown |-> Shown(l, bearer.expired, bearer.token)]
<1>1. UNCHANGED <<signed, identity>> /\ engine.up
  BY DEF List, Serving
<1>2. PICK lists \in {{"tools"}, {"resources"}} :
         event' = [type |-> "listing", token |-> bearer.token, expired |-> bearer.expired,
                   shown |-> [l \in lists |->
                      {i \in (IF l = "tools" THEN Tools ELSE Targets) :
                          l = (IF "tools" \in lists THEN "tools" ELSE "resources") => Visible(l, i)}]]
  BY DEF List
<1>3. PICK l \in {"tools", "resources"} : lists = {l}
  OBVIOUS
<1>4. \A k \in lists :
         /\ k = l
         /\ (IF "tools" \in lists THEN "tools" ELSE "resources") = l
  BY <1>3
<1>5. PICK s : s = [k \in lists |->
                      {i \in (IF k = "tools" THEN Tools ELSE Targets) :
                          k = (IF "tools" \in lists THEN "tools" ELSE "resources") => Visible(k, i)}]
  OBVIOUS
<1>6. s = [k \in {l} |-> {i \in (IF l = "tools" THEN Tools ELSE Targets) : Visible(l, i)}]
  BY <1>3, <1>4, <1>5
<1>7. s = [k \in {l} |-> IF bearer.expired THEN {}
                         ELSE Listed(l, DelegationOf(identity, bearer.token))]
  BY <1>1, <1>6, VisibleIsListed
<1>8. event' = [type |-> "listing", token |-> bearer.token, expired |-> bearer.expired,
                shown |-> s]
  BY <1>2, <1>5
<1> QED
  BY <1>1, <1>7, <1>8 DEF Shown

LEMMA NextListing ==
    ASSUME "mixed" \notin Faults
    PROVE  PolicyInv /\ ListingAgrees /\ [Next]_vars => ListingAgrees'
<1> SUFFICES ASSUME PolicyInv, ListingAgrees, [Next]_vars PROVE ListingAgrees'
  OBVIOUS
<1>1. CASE List
  <2>1. PICK l \in {"tools", "resources"} :
           event' = [type |-> "listing", token |-> bearer.token, expired |-> bearer.expired,
                     shown |-> Shown(l, bearer.expired, bearer.token)]
    BY <1>1, ListEvent
  <2>2. signed' = signed /\ identity' = identity
    BY <1>1, ListEvent
  <2>3. PICK x, tok, s : x = bearer.expired /\ tok = bearer.token /\ s = Shown(l, x, tok)
    OBVIOUS
  <2>4. /\ event'.expired = x /\ event'.token = tok /\ event'.shown = s
        /\ DOMAIN s = {l} /\ s[l] = IF x THEN {} ELSE Listed(l, DelegationOf(identity, tok))
    BY <2>1, <2>3 DEF Shown
  <2> QED
    BY <2>2, <2>4 DEF ListingAgrees, Listed, Bearer
<1>2. CASE Call \/ Access
  BY <1>2 DEF Call, Access, ListingAgrees
<1>3. CASE ~Call /\ ~Access /\ ~List
  BY <1>3, OtherSteps DEF ListingAgrees, Bearer
<1> QED
  BY <1>1, <1>2, <1>3

(* Unless a server mixes lists in one answer (handle_response filters only *)
(* the first it finds), a tool is shown exactly when the rules that read   *)
(* no argument allow it, a resource exactly when it can be read, and       *)
(* nothing at all to a bearer whose token expired.                         *)
THEOREM ListingIsExact ==
    ASSUME "mixed" \notin Faults
    PROVE  Spec => []ListingAgrees
<1>1. Init => PolicyInv /\ ListingAgrees
  BY InitInv DEF Init, ListingAgrees, Nothing
<1>2. PolicyInv /\ ListingAgrees /\ [Next]_vars => PolicyInv' /\ ListingAgrees'
  BY NextInv, NextListing
<1> QED
  BY <1>1, <1>2, PTL DEF Spec
=============================================================================
