------------------------------ MODULE Gateway ------------------------------
(***************************************************************************)
(* One audited session of the gateway: obsign-proxy/src/gateway.rs, the    *)
(* session state of session.rs and, through the module Auth, auth.rs.      *)
(*                                                                         *)
(* Agent messages are handled by any number of threads (one per HTTP       *)
(* request), server messages by one dispatcher.  A handler runs under the  *)
(* session lock, so it is one action, except where the code releases the   *)
(* lock: the dispatcher takes a call out of `pending' under one lock and   *)
(* writes its effect under another, and a message that passed is written   *)
(* to the server after the lock is gone.                                   *)
(*                                                                         *)
(* The log is the sequence of records the WAL acknowledged (see Wal).  A   *)
(* write may fail; the handler then stops where the code's `?' does.       *)
(***************************************************************************)
EXTENDS Auth, FiniteSets

CONSTANTS
    ActIds,       \* JSON-RPC ids the agent uses for arbitrated acts
    ServerIds,    \* JSON-RPC ids the server uses for its own requests
    NoId,         \* a message with no id: a notification
    MachineryIds, \* ids the agent uses for machinery (ping, tools/list...)
                  \* and for messages whose method is not a string
    Labelled,     \* delegations that carry a readable name
    Transports,   \* how the agent reaches the gateway: "stdio", "http"
    TwoTier,      \* TRUE: the chain opens with a session certificate
    Deployment,   \* TRUE: the chain names the deployment bundle
    RogueServer,  \* TRUE: the server also answers what it was not asked
    MaxCalls,     \* bound: arbitrated acts
    MaxAsked,     \* bound: pings under one server id
    MaxRelayed,   \* relayed_to_agent's cap (1024 in the code)
    MaxGeneration,\* bound: delegations recorded by one process
    MaxReloads,   \* bound: reload records of one process
    MaxRestarts,  \* bound: restarts on the same chain (stdio)
    FailAt,       \* the record types whose write may fail
    MaxFails      \* bound: failed writes

ASSUME GatewayAssumption ==
    /\ NoId \notin ActIds \cup MachineryIds \cup ServerIds
    /\ Transports \subseteq {"stdio", "http"}
    /\ MaxCalls \in Nat /\ MaxAsked \in Nat /\ MaxRelayed \in Nat
    /\ MaxRestarts \in Nat
    /\ MaxGeneration \in Nat /\ MaxReloads \in Nat /\ MaxFails \in Nat
    /\ "rejected" \notin Bundles

Ids == ActIds \cup MachineryIds

VARIABLES
    auth,       \* the identity in force (module Auth)
    published,  \* the identity bundle file
    tokenFile,  \* the token file (stdio), NoToken over HTTP
    expired,    \* the delegations that have expired
    sess,       \* Session: agent (record), counter, reloads
    pending,    \* Session.pending: agent id -> call waiting for the server
    toAgent,    \* Session.pending_to_agent: server id -> call
    relayed,    \* Session.relayed_to_agent
    log,        \* the durable records
    toServer,   \* messages that passed, not yet written to the server
    atServer,   \* requests the server has not answered
    disp,       \* the dispatcher: the call whose effect it must write
    fails,      \* history: failed writes
    restarts,   \* history: restarts
    hist        \* history the properties read (see Init)

vars == <<auth, published, tokenFile, expired, sess, pending, toAgent,
          relayed, log, toServer, atServer, disp, fails, restarts, hist>>

envVars == <<published, tokenFile, expired, restarts>>
wireVars == <<toServer, atServer>>

-----------------------------------------------------------------------------
(***************************************************************************)
(* Records.  An identifier is a type and a number: <<"call", 3>> is        *)
(* "call-3", and so is the parent it names.                                *)
(***************************************************************************)

NoParent == <<"none", 0>>

Rec(type, n, parent, val) ==
    [id |-> <<type, n>>, parent |-> parent, val |-> val]

(* Mutant of DelegationRecords: the actor record is left out.              *)
DelegationRecordsNoActor(a) ==
    LET g == a.generation
    IN  <<Rec("deleg", g, NoParent, a.current),
          Rec("agent", g, <<"actor", g>>, a.current)>>

(* record_delegation: delegation, readable name, actor chain, agent.       *)
DelegationRecords(a) ==
    LET g     == a.generation
        label == IF a.current \in Labelled
                 THEN <<Rec("label", g, <<"deleg", g>>, a.current)>>
                 ELSE << >>
    IN  <<Rec("deleg", g, NoParent, a.current)>> \o label \o
        <<Rec("actor", g, <<"deleg", g>>, a.current),
          Rec("agent", g, <<"actor", g>>, a.current)>>

(* record_config_reloads: the identifier counts reloads and deployments.   *)
ReloadRecords(reloads, a, start) ==
    [i \in 1 .. Len(reloads) |->
        Rec("reload", start + i, NoParent,
            IF reloads[i] = "applied" THEN a.bundle ELSE "rejected")]

(* What a session writes when it opens its chain.                          *)
OpeningRecords(a) ==
    (IF TwoTier THEN <<Rec("cert", 1, NoParent, "cert")>> ELSE << >>) \o
    (IF Deployment THEN <<Rec("deployment", 1, NoParent, "applied")>>
     ELSE << >>) \o
    DelegationRecords(a)

NewSession(a) ==
    [agent   |-> a.generation, counter |-> 0,
     reloads |-> IF Deployment THEN 1 ELSE 0]

(* An effect is "done" (the code's Ok or Error, by what the answer says)   *)
(* or "blocked".                                                           *)
CallRec(n, agent) == Rec("call", n, <<"agent", agent>>, "call")
DecRec(n, val)    == Rec("dec", n, <<"call", n>>, val)
EffRec(n, val)    == Rec("eff", n, <<"dec", n>>, val)

(* Session::write, one record after the other until one fails: the first k *)
(* of recs are written.                                                    *)
Written(recs, k) ==
    /\ log' = log \o SubSeq(recs, 1, k)
    /\ IF k = Len(recs)
       THEN UNCHANGED fails
       ELSE /\ recs[k + 1].id[1] \in FailAt
            /\ fails < MaxFails
            /\ fails' = fails + 1

(* History: the call record written at position `at' of the log was asked  *)
(* by `who' while the identity bundle `trust' was in force.                *)
Act(at, who, trust) == [at |-> at, who |-> who, trust |-> trust]

(* The next record is a call nobody presented a token for.                 *)
ServerAct == Act(Len(log) + 1, auth.current, auth.bundle)

Note(written, act) ==
    IF written THEN [hist EXCEPT !.acts = @ \cup {act}] ELSE hist

Init ==
    /\ published \in Bundles \ Unsigned
    /\ \E t \in {u \in Tokens \ BadTokens : KidOf[u] \in KeysOf[published]} :
        \/ /\ "http" \in Transports
           /\ auth = OpenAuth(t, published, t)
           /\ tokenFile = NoToken
        \/ /\ "stdio" \in Transports
           /\ auth = OpenAuth(t, published, NoToken)
           /\ tokenFile = t
    /\ expired = {}
    /\ sess = NewSession(auth)
    /\ pending = [i \in Ids |-> 0]
    /\ toAgent = [i \in ServerIds |-> 0]
    /\ relayed = {}
    /\ log = OpeningRecords(auth)
    /\ toServer = {}
    /\ atServer = {}
    /\ disp = [call |-> 0, answer |-> 0]
    /\ fails = 0
    /\ restarts = 0
    /\ hist = [acts    |-> {},     \* see Act
               by      |-> {},     \* <<call, call it was an answer to>>
               asked   |-> [i \in ServerIds |-> 0],
               replied |-> [i \in ServerIds |-> 0]]

-----------------------------------------------------------------------------
(***************************************************************************)
(* handle_from_agent.                                                      *)
(***************************************************************************)

(* Over HTTP every request carries its token, there is no token file.      *)
Http == tokenFile = NoToken

(* A request with a bearer presents it; without one (stdio) the delegation *)
(* is refreshed.                                                           *)
Identify(token) ==
    IF Http
    THEN Present(auth, token, published, expired)
    ELSE Refresh(auth, tokenFile, published, expired)

(* The bounds on what an identity check may add to the log.                *)
InBounds(o) ==
    /\ o.auth.generation <= MaxGeneration
    /\ sess.reloads + Len(o.reloads) <= MaxReloads

Bearers == IF Http THEN Tokens ELSE {NoToken}

Message(kind, id, n) == [kind |-> kind, id |-> id, n |-> n]

(* Mutant of Passes: the call goes out whatever the slot holds.            *)
PassesAnyway(o, id, verdict) == ~o.denied /\ verdict = "allow"

(* The verdict lets the act out, and no call in flight uses its id.        *)
Passes(o, id, verdict) ==
    /\ ~o.denied
    /\ verdict = "allow"
    /\ id = NoId \/ pending[id] = 0

(* Mutant of ActRecords: the decision is written once the answer is known. *)
ActRecordsLate(o, n, id, verdict) ==
    ReloadRecords(o.reloads, o.auth, sess.reloads) \o
    (IF o.renewed THEN DelegationRecords(o.auth) ELSE << >>) \o
    <<CallRec(n, IF o.renewed THEN o.auth.generation ELSE sess.agent)>>

(* Mutant of ActRecords: the parent is read before the renewal.            *)
ActRecordsStale(o, n, id, verdict) ==
    ReloadRecords(o.reloads, o.auth, sess.reloads) \o
    (IF o.renewed THEN DelegationRecords(o.auth) ELSE << >>) \o
    <<CallRec(n, sess.agent),
      DecRec(n, IF o.denied \/ verdict = "deny" THEN "deny" ELSE "allow")>> \o
    (IF Passes(o, id, verdict) THEN << >> ELSE <<EffRec(n, "blocked")>>)

(* What an act writes: reloads, the renewed delegation, the attempt, the   *)
(* decision and, unless it goes out, the effect that closes it.            *)
ActRecords(o, n, id, verdict) ==
    ReloadRecords(o.reloads, o.auth, sess.reloads) \o
    (IF o.renewed THEN DelegationRecords(o.auth) ELSE << >>) \o
    <<CallRec(n, IF o.renewed THEN o.auth.generation ELSE sess.agent),
      DecRec(n, IF o.denied \/ verdict = "deny" THEN "deny" ELSE "allow")>> \o
    (IF Passes(o, id, verdict) THEN << >> ELSE <<EffRec(n, "blocked")>>)

(* How many of the records come before the call: a failure among them ends *)
(* the handler before the call counter moves.                              *)
Preamble(o) ==
    Len(o.reloads) + (IF o.renewed THEN Len(DelegationRecords(o.auth)) ELSE 0)

Min2(a, b) == IF a <= b THEN a ELSE b

(* What handle_from_agent does with an arbitrated method.  `verdict' is    *)
(* what the engine would say; identity comes first.  `out' is what the     *)
(* transport sends on whatever the answer is.                              *)
Arbitrate(id, token, verdict, out) ==
    /\ sess.counter < MaxCalls
    /\ \E o \in {p \in Identify(token) : InBounds(p)} :
        LET n    == sess.counter + 1
            recs == ActRecords(o, n, id, verdict)
            pass == Passes(o, id, verdict)
        IN  \E k \in 0 .. Len(recs) :
            LET counted == k >= Preamble(o)
                done    == k = Len(recs)
            IN  /\ Written(recs, k)
                /\ auth' = o.auth
                /\ sess' = [agent   |-> IF o.renewed /\ counted
                                        THEN o.auth.generation
                                        ELSE sess.agent,
                            counter |-> IF counted THEN n ELSE sess.counter,
                            reloads |-> sess.reloads +
                                        Min2(k + 1, Len(o.reloads))]
                /\ pending' = IF done /\ pass /\ id # NoId
                              THEN [pending EXCEPT ![id] = n] ELSE pending
                /\ toServer' = out \cup
                               (IF done /\ pass
                                THEN toServer \cup {Message("act", id, n)}
                                ELSE toServer)
                /\ hist' = Note(k > Preamble(o),
                                Act(Len(log) + Preamble(o) + 1,
                                    IF token = NoToken THEN o.auth.current
                                                       ELSE DelegOf[token],
                                    o.auth.bundle))
    /\ UNCHANGED <<envVars, toAgent, relayed, atServer, disp>>

(* An arbitrated method: tools/call, resources/read, prompts/get,          *)
(* completion/complete, or any method outside the machinery, which is      *)
(* denied without asking the engine.                                       *)
HandleAct(id, token, verdict) == Arbitrate(id, token, verdict, {})

(* A method that is not a string.  Over stdio it is denied like any method *)
(* outside the machinery (HandleAct).  Over HTTP handle_post takes the     *)
(* message for an answer: with an id it is arbitrated, refused and         *)
(* recorded, and relayed whatever came of that...                          *)
HandleMalformed(id, token) ==
    /\ Http
    /\ Arbitrate(id, token, "deny",
                 {Message("malformed", id, sess.counter + 1)})

(* ... and without an id it is relayed unseen.                             *)
RelayMalformed ==
    /\ Http
    /\ toServer' = toServer \cup {Message("malformed", NoId, 0)}
    /\ UNCHANGED <<auth, envVars, sess, pending, toAgent, relayed, log,
                   atServer, disp, fails, hist>>

(* Machinery passes with no record and no lock.                            *)
HandleMachinery(id) ==
    /\ Message("machinery", id, 0) \notin toServer \cup atServer
    /\ toServer' = toServer \cup {Message("machinery", id, 0)}
    /\ UNCHANGED <<auth, envVars, sess, pending, toAgent, relayed, log,
                   atServer, disp, fails, hist>>

(* present_bearer: a request that is not arbitrated still presents its     *)
(* token over HTTP.  A failed reload record does not stop the delegation's *)
(* records, and no failure is reported.                                    *)
PresentBearer(token) ==
    /\ Http
    /\ token # auth.presented
    /\ \E o \in {p \in Present(auth, token, published, expired) : InBounds(p)} :
        LET recs1 == ReloadRecords(o.reloads, o.auth, sess.reloads)
            recs2 == IF o.renewed THEN DelegationRecords(o.auth) ELSE << >>
        IN  \E k1 \in 0 .. Len(recs1), k2 \in 0 .. Len(recs2) :
            LET missed == (IF k1 < Len(recs1) THEN 1 ELSE 0) +
                          (IF k2 < Len(recs2) THEN 1 ELSE 0)
            IN  /\ k1 < Len(recs1) => "reload" \in FailAt
                /\ k2 < Len(recs2) => recs2[k2 + 1].id[1] \in FailAt
                /\ fails + missed <= MaxFails
                /\ fails' = fails + missed
                /\ log' = log \o SubSeq(recs1, 1, k1) \o SubSeq(recs2, 1, k2)
                /\ auth' = o.auth
                /\ sess' = [sess EXCEPT
                              !.agent = IF o.renewed /\ k2 = Len(recs2)
                                        THEN o.auth.generation ELSE @,
                              !.reloads = @ + Len(recs1)]
    /\ UNCHANGED <<envVars, pending, toAgent, relayed, wireVars, disp, hist>>

(* A message with no method: the agent answers a server request.  The      *)
(* answer to an arbitrated request closes its effect (a failed write is    *)
(* ignored), the answer to relayed machinery passes.                       *)
HandleAnswer(id) ==
    /\ toAgent[id] # 0 \/ id \in relayed
    /\ IF toAgent[id] # 0
       THEN /\ \E k \in 0 .. 1 : Written(<<EffRec(toAgent[id], "done")>>, k)
            /\ toAgent' = [toAgent EXCEPT ![id] = 0]
            /\ toServer' = toServer \cup {Message("answer", id, toAgent[id])}
            /\ UNCHANGED relayed
       ELSE /\ relayed' = relayed \ {id}
            /\ toServer' = toServer \cup {Message("answer", id, 0)}
            /\ UNCHANGED <<log, toAgent, fails>>
    /\ hist' = [hist EXCEPT !.replied[id] = @ + 1]
    /\ UNCHANGED <<auth, envVars, sess, pending, atServer, disp>>

(* Mutant of HandleUnsolicited: recorded, and forwarded all the same.      *)
HandleUnsolicitedPasses(id) ==
    /\ sess.counter < MaxCalls
    /\ id \in ServerIds /\ toAgent[id] = 0 /\ id \notin relayed
    /\ toServer' = toServer \cup {Message("answer", id, 0)}
    /\ hist' = [hist EXCEPT !.replied[id] = @ + 1]
    /\ UNCHANGED <<auth, envVars, sess, pending, toAgent, relayed, atServer,
                   disp, log, fails>>

(* An answer to nothing in flight.  Over stdio it is recorded, then        *)
(* refused.  Over HTTP handle_post relays every answer, whatever the       *)
(* handler said, and one without an id never reaches the handler.          *)
HandleUnsolicited(id) ==
    /\ sess.counter < MaxCalls
    /\ id \in ServerIds => toAgent[id] = 0 /\ id \notin relayed
    /\ LET n    == sess.counter + 1
           recs == <<CallRec(n, sess.agent), DecRec(n, "deny"),
                     EffRec(n, "blocked")>>
       IN  IF Http /\ id = NoId
           THEN UNCHANGED <<log, fails, sess>>
           ELSE /\ \E k \in 0 .. 3 : Written(recs, k)
                /\ sess' = [sess EXCEPT !.counter = n]
    /\ toServer' = IF Http THEN toServer \cup {Message("answer", id, 0)}
                   ELSE toServer
    /\ LET noted == Note(Len(log') > Len(log), ServerAct)
       IN  hist' = IF Http /\ id # NoId
                   THEN [noted EXCEPT !.replied[id] = @ + 1] ELSE noted
    /\ UNCHANGED <<auth, envVars, pending, toAgent, relayed, atServer, disp>>

(* The thread that handled the message writes it to the server's stdin.    *)
Deliver(m) ==
    /\ m \in toServer
    /\ toServer' = toServer \ {m}
    /\ atServer' = IF m.kind # "answer" /\ m.id # NoId
                   THEN atServer \cup {m} ELSE atServer
    /\ UNCHANGED <<auth, envVars, sess, pending, toAgent, relayed, log, disp,
                   fails, hist>>

-----------------------------------------------------------------------------
(***************************************************************************)
(* handle_from_server: the dispatcher.                                     *)
(***************************************************************************)

Idle == disp.call = 0

(* Mutant of TakePending: the slot is not emptied.                         *)
TakePendingKeeps(id, n) ==
    /\ disp' = [call |-> pending[id], answer |-> n]
    /\ UNCHANGED pending

(* The answer's slot is emptied under one lock; the effect is written      *)
(* under the next one.                                                     *)
TakePending(id, n) ==
    /\ disp' = [call |-> pending[id], answer |-> n]
    /\ pending' = [pending EXCEPT ![id] = 0]

(* The server answers a request it received, in any order.                 *)
ServerAnswers(m) ==
    /\ Idle
    /\ m \in atServer
    /\ atServer' = atServer \ {m}
    /\ TakePending(m.id, m.n)
    /\ UNCHANGED <<auth, envVars, sess, toAgent, relayed, log, toServer,
                   fails, hist>>

(* The server answers what it was not asked, or answers twice.             *)
ServerMakesUp(id) ==
    /\ RogueServer
    /\ Idle
    /\ pending[id] # 0
    /\ TakePending(id, 0)
    /\ UNCHANGED <<auth, envVars, sess, toAgent, relayed, log, wireVars,
                   fails, hist>>

(* The effect of the call taken out of `pending'.  A failed write is       *)
(* ignored and the answer still goes to the agent.                         *)
CloseEffect ==
    /\ ~Idle
    /\ \E k \in 0 .. 1 : Written(<<EffRec(disp.call, "done")>>, k)
    /\ disp' = [call |-> 0, answer |-> 0]
    /\ hist' = [hist EXCEPT !.by = @ \cup {<<disp.call, disp.answer>>}]
    /\ UNCHANGED <<auth, envVars, sess, pending, toAgent, relayed, wireVars>>

-----------------------------------------------------------------------------
(***************************************************************************)
(* handle_server_initiated and arbitrate_notification.                     *)
(***************************************************************************)

(* ping, roots/list: relayed, and the answer will be if there was room to  *)
(* remember the id.                                                        *)
ServerPings(id) ==
    /\ Idle
    /\ hist.asked[id] < MaxAsked
    /\ relayed' = IF Cardinality(relayed) < MaxRelayed
                  THEN relayed \cup {id} ELSE relayed
    /\ hist' = [hist EXCEPT !.asked[id] = @ + 1]
    /\ UNCHANGED <<auth, envVars, sess, pending, toAgent, log, wireVars, disp,
                   fails>>

(* The delegation the agent's traffic last established decides.            *)
ServerVerdict(verdict) ==
    IF auth.current \in expired THEN "deny" ELSE verdict

(* sampling, elicitation, or a method outside the surface (denied).  A     *)
(* failed call or decision record refuses the request; a failed effect     *)
(* record is ignored.                                                      *)
ServerAsks(id, verdict) ==
    /\ Idle
    /\ sess.counter < MaxCalls
    /\ LET n    == sess.counter + 1
           v    == ServerVerdict(verdict)
           pass == v = "allow" /\ (id = NoId \/ toAgent[id] = 0)
           recs == <<CallRec(n, sess.agent), DecRec(n, v)>> \o
                   (IF pass THEN << >> ELSE <<EffRec(n, "blocked")>>)
       IN  \E k \in 0 .. Len(recs) :
            /\ Written(recs, k)
            /\ sess' = [sess EXCEPT !.counter = n]
            /\ toAgent' = IF k = Len(recs) /\ pass /\ id # NoId
                          THEN [toAgent EXCEPT ![id] = n] ELSE toAgent
            /\ hist' = IF k = Len(recs) /\ pass /\ id # NoId
                       THEN [Note(k > 0, ServerAct) EXCEPT !.asked[id] = @ + 1]
                       ELSE Note(k > 0, ServerAct)
    /\ UNCHANGED <<auth, envVars, pending, relayed, wireVars, disp>>

(* notifications/message: the triple closes in one pass.                   *)
ServerNotifies(verdict) ==
    /\ Idle
    /\ sess.counter < MaxCalls
    /\ LET n    == sess.counter + 1
           v    == ServerVerdict(verdict)
           recs == <<CallRec(n, sess.agent), DecRec(n, v),
                     EffRec(n, IF v = "allow" THEN "done" ELSE "blocked")>>
       IN  /\ \E k \in 0 .. 3 :
                 Written(recs, k) /\ hist' = Note(k > 0, ServerAct)
           /\ sess' = [sess EXCEPT !.counter = n]
    /\ UNCHANGED <<auth, envVars, pending, toAgent, relayed, wireVars, disp>>

-----------------------------------------------------------------------------
(***************************************************************************)
(* The world around the session.                                           *)
(***************************************************************************)

Expire(d) ==
    /\ d \notin expired
    /\ expired' = expired \cup {d}
    /\ UNCHANGED <<auth, published, tokenFile, sess, pending, toAgent,
                   relayed, log, wireVars, disp, fails, restarts, hist>>

Publish(b) ==
    /\ b # published
    /\ published' = b
    /\ UNCHANGED <<auth, tokenFile, expired, sess, pending, toAgent, relayed,
                   log, wireVars, disp, fails, restarts, hist>>

RenewTokenFile(t) ==
    /\ ~Http /\ t # tokenFile
    /\ tokenFile' = t
    /\ UNCHANGED <<auth, published, expired, sess, pending, toAgent, relayed,
                   log, wireVars, disp, fails, restarts, hist>>

(* The stdio gateway exits and is started again on the same chain: the log *)
(* is resumed, the session starts from scratch with the token file's       *)
(* delegation, whose expiry is not looked at here.                         *)
Restart ==
    /\ restarts < MaxRestarts
    /\ ~Http
    /\ published # NoBundle /\ published \notin Unsigned
    /\ tokenFile \notin BadTokens
    /\ KidOf[tokenFile] \in KeysOf[published]
    /\ restarts' = restarts + 1
    /\ auth' = OpenAuth(tokenFile, published, NoToken)
    /\ sess' = NewSession(auth')
    /\ log' = log \o OpeningRecords(auth')
    /\ pending' = [i \in Ids |-> 0]
    /\ toAgent' = [i \in ServerIds |-> 0]
    /\ relayed' = {}
    /\ toServer' = {}
    /\ atServer' = {}
    /\ disp' = [call |-> 0, answer |-> 0]
    /\ hist' = [hist EXCEPT !.asked = [i \in ServerIds |-> 0],
                            !.replied = [i \in ServerIds |-> 0]]
    /\ UNCHANGED <<published, tokenFile, expired, fails>>

-----------------------------------------------------------------------------

FromAgent ==
    \/ \E id \in ActIds \cup {NoId}, t \in Bearers, v \in {"allow", "deny"} :
            HandleAct(id, t, v)
    \/ \E id \in MachineryIds : HandleMachinery(id)
    \/ \E id \in MachineryIds, t \in Bearers : HandleMalformed(id, t)
    \/ RelayMalformed
    \/ \E t \in Tokens : PresentBearer(t)
    \/ \E id \in ServerIds : HandleAnswer(id)
    \/ \E id \in ServerIds \cup {NoId} : HandleUnsolicited(id)

FromServer ==
    \/ \E m \in atServer : ServerAnswers(m)
    \/ \E id \in Ids : ServerMakesUp(id)
    \/ CloseEffect
    \/ \E id \in ServerIds : ServerPings(id)
    \/ \E id \in ServerIds \cup {NoId}, v \in {"allow", "deny"} :
            ServerAsks(id, v)
    \/ \E v \in {"allow", "deny"} : ServerNotifies(v)

World ==
    \/ \E d \in Delegations : Expire(d)
    \/ \E b \in Bundles \cup {NoBundle} : Publish(b)
    \/ \E t \in Tokens : RenewTokenFile(t)
    \/ Restart

Next == FromAgent \/ (\E m \in toServer : Deliver(m)) \/ FromServer \/ World

Spec == Init /\ [][Next]_vars

(* A thread that holds a message delivers it, the server answers what it   *)
(* received, the dispatcher finishes what it started.                      *)
Fairness ==
    /\ \A id \in ActIds \cup {NoId}, n \in 1 .. MaxCalls :
          WF_vars(Deliver(Message("act", id, n)))
    /\ \A id \in ActIds, n \in 1 .. MaxCalls :
          SF_vars(ServerAnswers(Message("act", id, n)))
    /\ WF_vars(CloseEffect)

FairSpec == Spec /\ Fairness

-----------------------------------------------------------------------------
(***************************************************************************)
(* Properties.                                                             *)
(***************************************************************************)

Has(id, val) == \E i \in 1 .. Len(log) : log[i].id = id /\ log[i].val = val

(* What a record, a message and a history note can be.                     *)
Kinds == {"none", "cert", "deployment", "reload", "deleg", "label", "actor",
          "agent", "call", "dec", "eff"}

Record ==
    [id     : Kinds \X Nat,
     parent : Kinds \X Nat,
     val    : Delegations \cup Bundles \cup
              {"cert", "applied", "rejected", "call", "allow", "deny", "done",
               "blocked"}]

Messages ==
    [kind : {"act"}, id : ActIds \cup {NoId}, n : 1 .. MaxCalls] \cup
    [kind : {"machinery"}, id : MachineryIds, n : {0}] \cup
    [kind : {"malformed"}, id : MachineryIds \cup {NoId}, n : 0 .. MaxCalls] \cup
    [kind : {"answer"}, id : ServerIds \cup {NoId}, n : 0 .. MaxCalls]

History ==
    [acts    : SUBSET [at : Nat, who : Delegations, trust : Bundles],
     by      : SUBSET ((0 .. MaxCalls) \X (0 .. MaxCalls)),
     asked   : [ServerIds -> Nat],
     replied : [ServerIds -> Nat]]

(* The session's counters and slots keep their types (session.rs).         *)
TypeOK ==
    /\ auth \in AuthState
    /\ published \in Bundles \cup {NoBundle}
    /\ tokenFile \in Tokens \cup {NoToken}
    /\ expired \subseteq Delegations
    /\ sess \in [agent : Nat, counter : 0 .. MaxCalls, reloads : Nat]
    /\ pending \in [Ids -> 0 .. MaxCalls]
    /\ toAgent \in [ServerIds -> 0 .. MaxCalls]
    /\ relayed \subseteq ServerIds
    /\ IsFiniteSet(relayed) /\ Cardinality(relayed) <= MaxRelayed
    /\ log \in Seq(Record)
    /\ toServer \subseteq Messages
    /\ atServer \subseteq {m \in Messages : m.kind # "answer" /\ m.id # NoId}
    /\ disp \in [call : 0 .. MaxCalls, answer : 0 .. MaxCalls]
    /\ fails \in Nat /\ restarts \in Nat
    /\ hist \in History

(* The attempt n and a decision that allows it are durable, and the log    *)
(* does not call it blocked.                                               *)
RecordedAllowed(n) ==
    /\ Has(<<"call", n>>, "call")
    /\ Has(<<"dec", n>>, "allow")
    /\ ~Has(<<"eff", n>>, "blocked")

(* Nothing arbitrated is on its way to the server, or in its hands, unless *)
(* it was recorded as allowed first (handle_from_agent's order of writes   *)
(* and forwarding).  It fails over HTTP for a method that is not a string  *)
(* (http.rs:339).                                                          *)
ForwardedIsRecorded ==
    \A m \in toServer \cup atServer :
        m.kind \in {"act", "malformed"} => RecordedAllowed(m.n)

(* A call has at most one effect, written after its decision, and a denied *)
(* call is never recorded as executed, whatever the order of the answers   *)
(* and whatever ids the agent and the server reuse.                        *)
EffectsAreSound ==
    \A i \in 1 .. Len(log) : log[i].id[1] = "eff" =>
        LET n == log[i].id[2]
        IN  /\ \A j \in 1 .. Len(log) : log[j].id = <<"eff", n>> => j = i
            /\ \E j \in 1 .. i - 1 :
                  /\ log[j].id = <<"dec", n>>
                  /\ log[i].val # "blocked" => log[j].val = "allow"

(* The effect of a call is closed by the server's answer to that call, not *)
(* by the answer to another message.                                       *)
EffectClosedByOwnAnswer == \A c \in hist.by : c[1] = c[2]

(* The delegation a call record hangs from: the last one above it under    *)
(* the identifier its parent names.                                        *)
DelegationAbove(i) ==
    LET g == log[i].parent[2]
        js == {j \in 1 .. i - 1 : log[j].id = <<"deleg", g>>}
    IN  log[CHOOSE j \in js : \A k \in js : k <= j].val

(* Every parent a record names is above it in the log.                     *)
ParentsAbove ==
    \A i \in 1 .. Len(log) :
        log[i].parent # NoParent =>
            \E j \in 1 .. i - 1 : log[j].id = log[i].parent

(* An allowed call hangs from the delegation of whoever asked for it, with *)
(* concurrent requests under several tokens, renewals and restarts.        *)
AttributedToBearer ==
    \A a \in hist.acts :
        a.at + 1 <= Len(log) /\ log[a.at].id[1] = "call"
            /\ log[a.at + 1].id[1] = "dec" /\ log[a.at + 1].val = "allow"
        => DelegationAbove(a.at) = a.who

(* No act goes out under a delegation that has expired, whether its token  *)
(* was presented before or comes from the token file (present, refresh).   *)
NoActUnderExpired ==
    [][\A m \in toServer' \ toServer :
          m.kind = "act" => auth'.current \notin expired]_vars

(* The record j is the opening agent_session the record i stands under.    *)
OpenedAt(j, i) ==
    /\ j \in 1 .. i - 1 /\ log[j].id = <<"agent", 1>>
    /\ \A k \in j + 1 .. i - 1 : log[k].id # <<"agent", 1>>

(* The reloads applied between the two.                                    *)
AppliedSince(j, i) ==
    {k \in j + 1 .. i - 1 : /\ log[k].id[1] = "reload"
                            /\ log[k].val # "rejected"}

(* From one opening of the chain to the next, the log accounts for every   *)
(* change of the identity bundle: an act was decided under the bundle the  *)
(* last reload above it names and, with none since the opening, under the  *)
(* one in force at the opening, the same for all such acts.  Which one     *)
(* that was the log does not say: no record of the opening names it.       *)
TrustFollowsReloads ==
    \A a \in hist.acts : \A j \in 1 .. Len(log) : OpenedAt(j, a.at) =>
        LET since == AppliedSince(j, a.at)
        IN  /\ \A k \in since :
                  (\A l \in since : l <= k) => log[k].val = a.trust
            /\ \A c \in hist.acts :
                  /\ since = {}
                  /\ OpenedAt(j, c.at) /\ AppliedSince(j, c.at) = {}
                  => c.trust = a.trust

(* The record i is the one session.rs:123-126 says to read for the act at  *)
(* `at': the last applied reload or opening agent_session above it.        *)
ReadFor(i, at) ==
    LET marks == {j \in 1 .. at - 1 : \/ log[j].id = <<"agent", 1>>
                                      \/ j \in AppliedSince(0, at)}
    IN  i \in marks /\ \A j \in marks : j <= i

(* What that comment promises: the record tells which bundle was trusted,  *)
(* so acts whose records read the same were decided under the same bundle. *)
(* It fails across two openings, whose agent_session is the same whatever  *)
(* the identity bundle (session.rs:246-253).                               *)
TrustReadsDirectly ==
    \A a, c \in hist.acts : \A i, j \in 1 .. Len(log) :
        /\ ReadFor(i, a.at) /\ ReadFor(j, c.at)
        /\ log[i].val = log[j].val
        => a.trust = c.trust

(* No two records of a chain share an identifier.                          *)
UniqueIds ==
    \A i, j \in 1 .. Len(log) : log[i].id = log[j].id => i = j

(* The server gets no answer to a question it did not ask, and no question *)
(* is answered twice.                                                      *)
AnswersAreSolicited ==
    \A id \in ServerIds : hist.replied[id] <= hist.asked[id]

(* Every call that went out under an id ends in an effect.                 *)
CallsEnd ==
    \A n \in 1 .. MaxCalls :
        (\E m \in toServer \cup atServer :
            m.kind = "act" /\ m.n = n /\ m.id # NoId)
        ~> (\E i \in 1 .. Len(log) : log[i].id = <<"eff", n>>)
=============================================================================
