------------------------------- MODULE Policy -------------------------------
(***************************************************************************)
(* The verdicts of the gateway: the policy engine (obsign-policy/src),     *)
(* from the bundle the control plane signs to the outcome of one call,     *)
(* access or listing, for the bearer that obsign-identity derives from a   *)
(* token.  The bundle files lie on the gateway's disk, where they can be   *)
(* rewritten but not signed again.                                         *)
(*                                                                         *)
(* A rule of a Cedar policy is its head (actions, resource, principal) and *)
(* one condition; Cedar itself is external.                                *)
(***************************************************************************)
EXTENDS Identity

CONSTANTS
    Rules,           \* the rules an author can write
    Catalogues,      \* the catalogues tools.json can hold
    Tools,           \* names of tools, catalogued or not
    Targets,         \* URIs a server mints
    Raw,             \* JSON values of an argument (see RawValues)
    FailModes,       \* fail-mode.json: [default, override]
    IdentityBundles, \* identity bundles that were ever signed
    Edited,          \* claim maps an edited identity bundle can have
    Tokens,          \* tokens an agent can hold
    Faults,          \* see AllFaults
    MaxRules,        \* bound: rules in a bundle
    MaxEdits,        \* bound: edits of the bundle files
    MaxTokens,       \* bound: tokens presented
    MaxEvents        \* bound: verdicts and listings

(* rewrite  somebody edits a bundle file on the gateway's disk             *)
(* mixed    a server answers with several lists at once                    *)
AllFaults == {"rewrite", "mixed"}

Any == "any"                       \* an unconstrained part of a rule's head
NoId == "no id"
None == "none"
WrappedServer == "the server"      \* WRAPPED_SERVER
Capabilities == {"resource_read", "sampling"}
Outcomes == {"allow", "deny", "allow_fail_open"}

(* An argument as JSON: of a kind, with a value; too large for the caps;   *)
(* null; or not there at all.                                              *)
Kinds == {"string", "long"}
RawValues == [kind : Kinds \cup {"oversize", "null", "absent"}, value : {"in", "out", "odd"}]

(* The shapes of a catalogue, of a claim map and of an identity bundle.    *)
IsCatalogue(c) ==
    /\ c = [t \in DOMAIN c |-> c[t]]
    /\ \A t \in DOMAIN c :
          c[t] = [required_scope |-> c[t].required_scope, arg |-> c[t].arg]

IsClaimMap(m) ==
    m = [subject |-> m.subject, scopes |-> m.scopes, groups |-> m.groups,
         client_id |-> m.client_id, machine |-> m.machine, labels |-> m.labels]

IsIdentityBundle(b) ==
    /\ b = [format |-> b.format, issuer |-> b.issuer, audience |-> b.audience,
            jwks |-> b.jwks, claims |-> b.claims]
    /\ IsClaimMap(b.claims)

(* A bundle was signed by a build whose format covers what it holds: an    *)
(* older build knew no other markers or labels than the defaults.          *)
ASSUME PolicyAssumption ==
    /\ Raw \subseteq RawValues
    /\ Faults \subseteq AllFaults
    /\ \A c \in Catalogues : IsCatalogue(c)
    /\ \A c \in Edited : IsClaimMap(c)
    /\ \A b \in IdentityBundles :
          IsIdentityBundle(b) /\ VerifyIdentity([bundle |-> b, sig |-> IdentityBytes(b)])
    /\ \A r \in Rules : r.name # None

-----------------------------------------------------------------------------
(***************************************************************************)
(* Bundles.  A tool of a catalogue declares at most one argument:          *)
(* [name, kind, default, wellformed], or NoArg.  A default that is not     *)
(* given is absent.                                                        *)
(***************************************************************************)
NoArg == [name |-> None]

Bundles ==
    [format : {1, 2}, rules : {R \in SUBSET Rules : Cardinality(R) <= MaxRules},
     tools : Catalogues, fail : FailModes]

Declares(b, t) == b.tools[t].arg # NoArg

(* format_for (compile.rs): 2 only when some tool declares an argument.    *)
FormatFor(tools) == IF \E t \in DOMAIN tools : tools[t].arg # NoArg THEN 2 ELSE 1

(* Bundle::signing_bytes: format 1 leaves the declared arguments out.      *)
SigningBytes(b) ==
    <<b.format, b.rules,
      IF b.format = 1 THEN [t \in DOMAIN b.tools |-> [b.tools[t] EXCEPT !.arg = NoArg]]
                      ELSE b.tools,
      b.fail>>

(* SignedBundle::verify, after the key.                                    *)
Verify(f) ==
    /\ f.bundle.format \in {1, 2}
    /\ f.sig = SigningBytes(f.bundle)
    /\ f.bundle.format = 1 => \A t \in DOMAIN f.bundle.tools : ~Declares(f.bundle, t)

(* coerce: a JSON value under the kind of its declaration.                 *)
Coerces(kind, raw) == raw.kind = kind

(* validate_arg_specs.  `wellformed' stands for the checks on names,       *)
(* pointers and numbers of arguments.                                      *)
ValidArgSpecs(b, t) ==
    LET a == b.tools[t].arg
    IN  a # NoArg =>
            /\ b.format = 2
            /\ a.wellformed
            /\ a.default.kind # "absent" => Coerces(a.kind, a.default)

(* Engine::load: every rule has an id of its own.                          *)
Loads(b) ==
    /\ \A r \in b.rules : r.id # NoId
    /\ \A r, q \in b.rules : r.id = q.id => r = q
    /\ \A t \in DOMAIN b.tools : ValidArgSpecs(b, t)

(* declared_args: `context.args' is one record for the whole catalogue.    *)
DeclaredArgs(b) == {b.tools[t].arg : t \in {u \in DOMAIN b.tools : Declares(b, u)}}

OneKindPerName(b) ==
    \A a, c \in DeclaredArgs(b) : a.name = c.name => a.kind = c.kind

(* schema_source: what a rule can read under an action, with its type.     *)
(* Only a tool has attributes, only a tool call has arguments, only a      *)
(* capability has a target, and the server is one fixed literal.           *)
Reads(b, r, action) ==
    /\ CASE r.reads \in {None, "human"} -> TRUE
         [] r.reads = "scope" -> action = "tool_call"
         [] r.reads = "arg" -> /\ action = "tool_call"
                               /\ \E a \in DeclaredArgs(b) :
                                     a.name = r.name /\ a.kind = r.kind
         [] r.reads = "target" -> action \in Capabilities /\ r.kind = "string"
         [] OTHER -> FALSE
    /\ action = "sampling" => r.on \in {Any, WrappedServer}

(* Engine::validate: the strict type checker, less the two findings that   *)
(* breaks_the_rule tolerates (here ip() over something that is read).      *)
Validates(b) ==
    /\ OneKindPerName(b)
    /\ \A r \in b.rules : \A action \in r.actions : Reads(b, r, action)

(* compile (control plane): what it takes for a bundle to be signed.       *)
Compiles(b) ==
    /\ b.format = FormatFor(b.tools)
    /\ Loads(b)
    /\ Validates(b)

-----------------------------------------------------------------------------
(***************************************************************************)
(* Cedar, external.  A request is [action, resource, scope, args, target,  *)
(* d]: the scope its tool requires, the argument that was extracted, or    *)
(* NoArg, the target of a capability, the delegation.                      *)
(***************************************************************************)
Applies(r, q) ==
    /\ q.action \in r.actions
    /\ r.on \in {Any, q.resource}
    /\ r.who = Any \/ r.who \in q.d.groups

(* What the condition reads is not there, or ip() cannot parse it.         *)
Raises(r, q) ==
    /\ Applies(r, q)
    /\ CASE r.reads \in {None, "human"} -> FALSE
         [] r.reads = "scope" -> q.action # "tool_call"
         [] r.reads = "arg" -> \/ q.args.name # r.name
                               \/ q.args.kind # r.kind
                               \/ r.test = "ip" /\ q.args.value = "odd"
         [] r.reads = "target" -> \/ q.target = None
                                  \/ r.test = "ip" /\ q.target = "odd"
         [] OTHER -> TRUE

Satisfied(r, q) ==
    /\ Applies(r, q)
    /\ ~Raises(r, q)
    /\ CASE r.reads = None -> TRUE
         [] r.reads = "human" -> ~HasHuman(q.d)
         [] r.reads = "scope" -> q.scope \in q.d.scopes
         [] r.reads = "arg" -> q.args.value = "in"
         [] r.reads = "target" -> q.target = "in"

(* A rule that raises does not apply; forbid wins; the default is no.      *)
Permitted(R, q) ==
    /\ \E r \in R : r.effect = "permit" /\ Satisfied(r, q)
    /\ ~\E r \in R : r.effect = "forbid" /\ Satisfied(r, q)

-----------------------------------------------------------------------------
(***************************************************************************)
(* The engine: a verdict is one of Outcomes.                               *)
(***************************************************************************)

(* Engine::decide; "error" is its Err.                                     *)
Decide(b, q, strict) ==
    IF strict /\ \E r \in b.rules : Raises(r, q) THEN "error"
    ELSE IF Permitted(b.rules, q) THEN "allow" ELSE "deny"

(* Engine::on_failure, FailMode::for_tool.                                 *)
OnFailure(b, key) ==
    LET open == IF key \in DOMAIN b.fail.tools THEN b.fail.tools[key] ELSE b.fail.default
    IN  IF open THEN "allow_fail_open" ELSE "deny"

Refused == [name |-> "refused"]

(* extract_args, for the one argument: null counts as absent, an absent    *)
(* one takes its default, and the rest is refused.                         *)
Extracted(a, raw) ==
    LET given == IF raw.kind \in {"null", "absent"} THEN a.default ELSE raw
    IN  IF Coerces(a.kind, given)
        THEN [name |-> a.name, kind |-> a.kind, value |-> given.value]
        ELSE Refused

(* authorize, principal_entities, context_pairs: the request of a tool.    *)
ToolRequest(b, d, t, args) ==
    [action |-> "tool_call", resource |-> t, d |-> d, target |-> None,
     scope |-> b.tools[t].required_scope, args |-> args]

(* Mutant of Evaluate: every error falls to the fail mode.                 *)
EvaluateFailMode(b, d, t, raw) ==
    IF t \notin DOMAIN b.tools THEN "deny"
    ELSE LET a    == b.tools[t].arg
             args == IF a = NoArg THEN NoArg ELSE Extracted(a, raw)
             v    == Decide(b, ToolRequest(b, d, t, args), TRUE)
         IN  IF args = Refused THEN "deny"
             ELSE IF v = "error" THEN OnFailure(b, t) ELSE v

(* Engine::evaluate: outside the catalogue, or with arguments that do not  *)
(* extract, the answer is no; an error over arguments is a no as well.     *)
Evaluate(b, d, t, raw) ==
    IF t \notin DOMAIN b.tools THEN "deny"
    ELSE LET a    == b.tools[t].arg
             args == IF a = NoArg THEN NoArg ELSE Extracted(a, raw)
             v    == Decide(b, ToolRequest(b, d, t, args), TRUE)
         IN  IF args = Refused THEN "deny"
             ELSE IF v # "error" THEN v
             ELSE IF a # NoArg THEN "deny" ELSE OnFailure(b, t)

(* Mutant of EvaluateListing: a listing is decided as strictly as a call.  *)
EvaluateListingStrict(b, d, t) ==
    IF t \notin DOMAIN b.tools THEN "deny"
    ELSE LET v == Decide(b, ToolRequest(b, d, t, NoArg), TRUE)
         IN  IF v = "error" THEN OnFailure(b, t) ELSE v

(* Engine::evaluate_listing: no arguments, and rules that raise do not     *)
(* count.                                                                  *)
EvaluateListing(b, d, t) ==
    IF t \notin DOMAIN b.tools THEN "deny"
    ELSE Decide(b, ToolRequest(b, d, t, NoArg), FALSE)

(* Capability::keyed_on_server.                                            *)
KeyedOnServer(cap) == cap = "sampling"

(* authorize_capability.                                                   *)
CapabilityRequest(d, cap, target) ==
    [action |-> cap, resource |-> IF KeyedOnServer(cap) THEN WrappedServer ELSE target,
     d |-> d, target |-> target, scope |-> None, args |-> NoArg]

(* Engine::evaluate_capability.                                            *)
EvaluateCapability(b, d, cap, target) ==
    LET v == Decide(b, CapabilityRequest(d, cap, target), TRUE)
    IN  IF v = "error" THEN OnFailure(b, cap) ELSE v

-----------------------------------------------------------------------------
(***************************************************************************)
(* The gateway.                                                            *)
(***************************************************************************)
VARIABLES
    signed,    \* the policy bundle the control plane signed
    identity,  \* the identity bundle it signed
    policyFile,    \* the files on the gateway's disk: [bundle, sig]
    identityFile,
    engine,    \* the bundles the gateway runs on: [policy, identity]
    bearer,    \* the token whose delegation is in force, and if it expired
    event,     \* the last verdict or listing
    count      \* history: [edits, tokens, events]

vars == <<signed, identity, policyFile, identityFile, engine, bearer, event, count>>

Down == [up |-> FALSE]
Nobody == [in |-> FALSE]
Nothing == [type |-> "nothing"]

Init ==
    /\ signed \in {b \in Bundles : Compiles(b)}
    /\ identity \in IdentityBundles
    /\ policyFile = [bundle |-> signed, sig |-> SigningBytes(signed)]
    /\ identityFile = [bundle |-> identity, sig |-> IdentityBytes(identity)]
    /\ engine = Down
    /\ bearer = Nobody
    /\ event = Nothing
    /\ count = [edits |-> 0, tokens |-> 0, events |-> 0]

(* External: one part of one file is rewritten, its signature kept.        *)
Rewrite ==
    /\ "rewrite" \in Faults
    /\ ~engine.up
    /\ count.edits < MaxEdits
    /\ \/ /\ \E b \in {[policyFile.bundle EXCEPT !.format = f] : f \in {1, 2}} \cup
                      {[policyFile.bundle EXCEPT !.tools = t] : t \in Catalogues} \cup
                      {[policyFile.bundle EXCEPT !.rules = {}]} \cup
                      {[policyFile.bundle EXCEPT !.fail = m] : m \in FailModes} :
               policyFile' = [policyFile EXCEPT !.bundle = b]
          /\ UNCHANGED identityFile
       \/ /\ \E b \in {[identityFile.bundle EXCEPT !.format = f] : f \in 1 .. 3} \cup
                      {[identityFile.bundle EXCEPT !.claims = c] : c \in Edited} :
               identityFile' = [identityFile EXCEPT !.bundle = b]
          /\ UNCHANGED policyFile
    /\ count' = [count EXCEPT !.edits = @ + 1]
    /\ UNCHANGED <<signed, identity, engine, bearer, event>>

(* main: both files verify, and load, or the gateway does not start.       *)
Start ==
    /\ ~engine.up
    /\ Verify(policyFile)
    /\ Loads(policyFile.bundle)
    /\ VerifyIdentity(identityFile)
    /\ KeyStore(identityFile.bundle.jwks)
    /\ engine' = [up |-> TRUE, policy |-> policyFile.bundle, identity |-> identityFile.bundle]
    /\ UNCHANGED <<signed, identity, policyFile, identityFile, bearer, event, count>>

(* A token is presented (see Auth for renewal and rotation).               *)
Present ==
    /\ engine.up
    /\ count.tokens < MaxTokens
    /\ count.events < MaxEvents
    /\ \E t \in Tokens :
          /\ Verifies(engine.identity, t)
          /\ bearer' = [in |-> TRUE, token |-> t, expired |-> FALSE]
    /\ count' = [count EXCEPT !.tokens = @ + 1]
    /\ UNCHANGED <<signed, identity, policyFile, identityFile, engine, event>>

(* Delegation::is_expired becomes true.                                    *)
Expire ==
    /\ bearer.in
    /\ count.events < MaxEvents
    /\ bearer' = [bearer EXCEPT !.expired = TRUE]
    /\ UNCHANGED <<signed, identity, policyFile, identityFile, engine, event, count>>

Serving ==
    /\ engine.up
    /\ bearer.in
    /\ count.events < MaxEvents
    /\ count' = [count EXCEPT !.events = @ + 1]
    /\ UNCHANGED <<signed, identity, policyFile, identityFile, engine, bearer>>

InForce == DelegationOf(engine.identity, bearer.token)

(* tools/call: the verdict of handle_request.  Without authority the       *)
(* engine is not asked.                                                    *)
Call ==
    /\ Serving
    /\ \E t \in Tools, raw \in Raw :
          event' = [type |-> "call", token |-> bearer.token, expired |-> bearer.expired,
                    tool |-> t, raw |-> raw,
                    outcome |-> IF bearer.expired THEN "deny"
                                ELSE Evaluate(engine.policy, InForce, t, raw)]

(* resources/read, or a channel that the server opens.                     *)
Access ==
    /\ Serving
    /\ \E cap \in Capabilities, target \in Targets :
          event' = [type |-> "access", token |-> bearer.token, expired |-> bearer.expired,
                    cap |-> cap, target |-> target,
                    outcome |-> IF bearer.expired THEN "deny"
                                ELSE EvaluateCapability(engine.policy, InForce, cap, target)]

Visible(list, item) ==
    /\ ~bearer.expired
    /\ IF list = "tools" THEN EvaluateListing(engine.policy, InForce, item) = "allow"
       ELSE EvaluateCapability(engine.policy, InForce, "resource_read", item) # "deny"

(* handle_response filters the first of the lists it finds in an answer    *)
(* and forwards the rest of the message as it came, under the delegation   *)
(* in force when the answer arrives.                                       *)
List ==
    /\ Serving
    /\ \E lists \in {{"tools"}, {"resources"}}
                    \cup (IF "mixed" \in Faults THEN {{"tools", "resources"}} ELSE {}) :
          LET first == IF "tools" \in lists THEN "tools" ELSE "resources"
              Offered(l) == IF l = "tools" THEN Tools ELSE Targets
          IN  event' = [type |-> "listing", token |-> bearer.token, expired |-> bearer.expired,
                        shown |-> [l \in lists |->
                            {i \in Offered(l) : l = first => Visible(l, i)}]]

Next ==
    \/ Rewrite
    \/ Start
    \/ Present
    \/ Expire
    \/ Call
    \/ Access
    \/ List

Spec == Init /\ [][Next]_vars

-----------------------------------------------------------------------------
(***************************************************************************)
(* Correctness.                                                            *)
(***************************************************************************)
Bearer == DelegationOf(identity, event.token)   \* as the signed bundle names it

(* Editing the files on the gateway's disk changes no verdict: whatever is *)
(* answered is what the bundles that were signed say for the token of the  *)
(* request.  The older formats leave fields out of their signed bytes, so  *)
(* that this rests on `verify' refusing those fields (bundle.rs of both    *)
(* crates).                                                                *)
EnforcedAsSigned ==
    /\ event.type = "call" /\ ~event.expired =>
           event.outcome = Evaluate(signed, Bearer, event.tool, event.raw)
    /\ event.type = "access" /\ ~event.expired =>
           event.outcome = EvaluateCapability(signed, Bearer, event.cap, event.target)

(* "A fail-open, argument-declaring tool cannot be pushed to its open path *)
(* by any request" (argument-policy-v1.md): a call that went through the   *)
(* open path would have gone through it with every argument.               *)
FailOpenNotSteered ==
    event.type = "call" /\ event.outcome = "allow_fail_open" =>
        \A raw \in Raw : Evaluate(signed, Bearer, event.tool, raw) = "allow_fail_open"

(* A tool is listed exactly when the rules that read no argument allow it  *)
(* (engine.rs, evaluate_listing: "as if the argument rules did not         *)
(* exist"), a resource exactly when it can be read, and nothing is listed  *)
(* that was not asked of the engine.  Hence a tool that is hidden from the *)
(* bearer is only ever allowed to it by a rule over arguments.             *)
ListingAgrees ==
    event.type = "listing" =>
        \A l \in DOMAIN event.shown :
            IF event.expired THEN event.shown[l] = {}
            ELSE IF l = "resources"
            THEN event.shown[l] = {u \in Targets :
                    EvaluateCapability(signed, Bearer, "resource_read", u) \in
                        {"allow", "allow_fail_open"}}
            ELSE LET plain == {r \in signed.rules : r.reads # "arg"}
                 IN  event.shown[l] =
                       {t \in Tools \cap DOMAIN signed.tools :
                          Permitted(plain, ToolRequest(signed, Bearer, t, NoArg))}

(* What compile.rs says of its type check, "this proves they can           *)
(* evaluate": no call reaches the fail mode under a bundle that compiled.  *)
SignedRulesEvaluate ==
    event.type = "call" => event.outcome # "allow_fail_open"
=============================================================================
