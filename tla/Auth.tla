-------------------------------- MODULE Auth --------------------------------
(***************************************************************************)
(* The identity in force in a session (obsign-proxy/src/auth.rs) and the   *)
(* reloadable identity bundle that verifies tokens (obsign-identity/src/   *)
(* source.rs).  Both live behind one mutex and are only ever driven by the *)
(* gateway's handlers, so they are operators from a state to the set of    *)
(* its possible outcomes; the module Gateway owns the variables.           *)
(***************************************************************************)
EXTENDS Naturals, Sequences

CONSTANTS
    Tokens,       \* tokens an agent can present
    NoToken,      \* no Authorization header, no token presented yet
    Delegations,  \* what a verified token says: subject, scopes, expiry...
    DelegOf,      \* [Tokens -> Delegations]
    KidOf,        \* [Tokens -> Kids]: the key a token names
    BadTokens,    \* tokens whose verification fails for another reason
    Bundles,      \* contents the identity bundle file can have
    NoBundle,     \* the file cannot be read
    KeysOf,       \* [Bundles -> SUBSET Kids]
    Unsigned      \* bundles that verify_bundle refuses

ASSUME AuthAssumption ==
    /\ NoToken \notin Tokens
    /\ NoBundle \notin Bundles
    /\ BadTokens \subseteq Tokens
    /\ Unsigned \subseteq Bundles
    /\ DelegOf \in [Tokens -> Delegations]

(* current     the delegation in force                                     *)
(* presented   the last token accepted (HTTP transport)                    *)
(* generation  how many delegations were in force, this one included       *)
(* bundle      the identity bundle in force                                *)
(* content     the last bundle content read, accepted or not               *)
AuthState ==
    [current : Delegations, presented : Tokens \cup {NoToken},
     generation : Nat \ {0}, bundle : Bundles, content : Bundles]

(* Auth::oidc, Auth::oidc_presented: the token opens generation 1.         *)
OpenAuth(token, bundle, presented) ==
    [current |-> DelegOf[token], presented |-> presented, generation |-> 1,
     bundle |-> bundle, content |-> bundle]

-----------------------------------------------------------------------------
(***************************************************************************)
(* BundleSource::reload.  The file holds `published'.  Clocks are not      *)
(* modelled: an attempt within the minimum interval is one more outcome.   *)
(* What a reload leaves for the log is "applied" or "rejected".            *)
(***************************************************************************)

(* Mutant of Reload: a reload is not reported to the caller.               *)
ReloadSilent(a, published) ==
    IF published \in Bundles \ (Unsigned \cup {a.content})
    THEN {[auth |-> [a EXCEPT !.bundle = published, !.content = published],
           reloads |-> << >>]}
    ELSE {[auth |-> a, reloads |-> << >>]}

Reload(a, published) ==
    {[auth |-> a, reloads |-> << >>]} \cup    \* rate-limited, or unchanged
    CASE published = NoBundle ->
            {[auth |-> a, reloads |-> <<"rejected">>]}
      [] published = a.content ->
            {}
      [] published \in Unsigned ->
            {[auth |-> [a EXCEPT !.content = published],
              reloads |-> <<"rejected">>]}
      [] OTHER ->
            {[auth |-> [a EXCEPT !.bundle = published,
                                 !.content = published],
              reloads |-> <<"applied">>]}

(* verify_token: an unknown kid reloads the bundle and retries once.       *)
VerifyToken(a, token, published) ==
    IF KidOf[token] \in KeysOf[a.bundle]
    THEN {[ok |-> token \notin BadTokens, auth |-> a, reloads |-> << >>]}
    ELSE {[ok      |-> /\ KidOf[token] \in KeysOf[r.auth.bundle]
                       /\ token \notin BadTokens,
           auth    |-> r.auth,
           reloads |-> r.reloads] : r \in Reload(a, published)}

(* The tail `present' and `refresh' share: adopt a verified, unexpired     *)
(* token; a delegation that differs opens a new generation.                *)
Adopt(v, token, presented, expired) ==
    IF v.ok /\ DelegOf[token] \notin expired
    THEN LET changed == DelegOf[token] # v.auth.current
         IN  [auth    |-> [v.auth EXCEPT
                             !.presented  = presented,
                             !.current    = DelegOf[token],
                             !.generation = IF changed THEN @ + 1 ELSE @],
              reloads |-> v.reloads, renewed |-> changed, denied |-> FALSE]
    ELSE [auth |-> v.auth, reloads |-> v.reloads, renewed |-> FALSE,
          denied |-> TRUE]

(* Mutant of Present: a known token skips the expiry check.                *)
PresentNoExpiry(a, token, published, expired) ==
    IF a.presented = token
    THEN {[auth |-> a, reloads |-> << >>, renewed |-> FALSE,
           denied |-> FALSE]}
    ELSE {Adopt(v, token, token, expired) :
             v \in VerifyToken(a, token, published)}

(* Auth::present: the outcomes of a request that carries `token'.          *)
Present(a, token, published, expired) ==
    IF a.presented = token
    THEN {[auth |-> a, reloads |-> << >>, renewed |-> FALSE,
           denied |-> a.current \in expired]}
    ELSE {Adopt(v, token, token, expired) :
             v \in VerifyToken(a, token, published)}

(* Auth::refresh: no token in the request, an expired delegation is        *)
(* renewed from the token file.                                            *)
Refresh(a, tokenFile, published, expired) ==
    IF a.current \notin expired
    THEN {[auth |-> a, reloads |-> << >>, renewed |-> FALSE,
           denied |-> FALSE]}
    ELSE IF tokenFile = NoToken
    THEN {[auth |-> a, reloads |-> << >>, renewed |-> FALSE,
           denied |-> TRUE]}
    ELSE {Adopt(v, tokenFile, a.presented, expired) :
             v \in VerifyToken(a, tokenFile, published)}
=============================================================================
