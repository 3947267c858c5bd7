----------------------------- MODULE HttpSession -----------------------------
(***************************************************************************)
(* The life of one session of the HTTP transport (obsign-proxy/src/        *)
(* http.rs): POST threads that wait for the server's answers, the GET      *)
(* stream, the dispatcher that reads the server's output and ends the      *)
(* session, and DELETE.                                                    *)
(*                                                                         *)
(* One action per critical section: `waiters', `events', `child_stdin',    *)
(* `finished', the registry and the session have a lock each, and a thread *)
(* lets go of one before it takes the next.  What happens under the        *)
(* session lock is abridged from the module Gateway: a call and its        *)
(* decision are recorded together, an answer closes its effect, no write   *)
(* fails, and the records of a renewed identity are left out.              *)
(***************************************************************************)
EXTENDS Naturals, Sequences, SequencesExt

CONSTANTS
    Posts,       \* threads serving POSTs
    Opener,      \* the one of them that serves `initialize'
    Gets,        \* threads serving GETs
    Nobody,      \* no waiter, no stream
    Ids,         \* JSON-RPC ids of the agent's requests
    InitId,      \* the one of them `initialize' uses
    NoId,        \* a message without an id
    ServerIds,   \* JSON-RPC ids of the server's requests
    Kinds,       \* what the agent posts (see AllKinds)
    Faults,      \* what can go wrong (see AllFaults)
    MaxPosts,    \* bound: POSTs
    MaxGets,     \* bound: GETs
    MaxAsks,     \* bound: requests of the server
    MaxMessages  \* bound: POSTs, GETs and requests of the server together

(* act        an arbitrated method                                         *)
(* machinery  ping, tools/list, notifications                              *)
(* answer     the answer to a request of the server                        *)
AllKinds == {"act", "machinery", "answer"}

(* dies         the server exits on its own                                *)
(* bad_line     the server writes a line that is not UTF-8                 *)
(* client_gone  the client of the GET stream goes away                     *)
(* reuse        the agent reuses the id of a request in progress           *)
AllFaults == {"dies", "bad_line", "client_gone", "reuse"}

ASSUME HttpAssumption ==
    /\ Opener \in Posts /\ InitId \in Ids
    /\ Nobody \notin Posts \cup Gets
    /\ NoId \notin Ids \cup ServerIds
    /\ Kinds \subseteq AllKinds
    /\ Faults \subseteq AllFaults
    /\ MaxPosts \in Nat /\ MaxGets \in Nat /\ MaxAsks \in Nat
    /\ MaxMessages \in Nat

VARIABLES
    registered,  \* the session is in the registry
    stdin,       \* McpSession.child_stdin is Some
    finished,    \* McpSession.finished
    waiters,     \* McpSession.waiters: id -> the thread that waits
    events,      \* McpSession.events: the thread that holds the receiver
    pending,     \* Session.pending: id -> call
    toAgent,     \* Session.pending_to_agent: id -> call
    log,         \* the records of calls and effects
    post,        \* the POST threads
    get,         \* the GET threads
    del,         \* DELETE: where it is, or the status it returned
    disp,        \* the dispatcher
    child,       \* the server: "running" or "exited"
    input,       \* requests it has not answered
    output,      \* its standard output, not yet read
    hist         \* history: see Init

vars == <<registered, stdin, finished, waiters, events, pending, toAgent, log,
          post, get, del, disp, child, input, output, hist>>

sessVars == <<pending, toAgent, log>>
childVars == <<child, input, output>>

-----------------------------------------------------------------------------

(* A message of the agent (n counts POSTs) or of the server (n counts its  *)
(* requests); the answer to a message carries its number.                  *)
Message(kind, id, n) == [kind |-> kind, id |-> id, n |-> n]

NoMessage == Message("none", NoId, 0)

Call(who, n) == <<"call", who, n>>
Effect(who, n, status) == <<"effect", who, n, status>>

(* A POST thread: `got' is the number of the answer its channel holds, 0   *)
(* for none; `gone' says that the sender was dropped.                      *)
Serving(pc, m) == [pc |-> pc, msg |-> m, got |-> 0, gone |-> FALSE]

(* A thread that has given its response, whatever the status.              *)
Idle == Serving("idle", NoMessage)

(* The bounds leave room for one more message.                             *)
Room == hist.posts + hist.gets + hist.asks < MaxMessages

(* The session was opened: its records are written, the server spawned,    *)
(* the session registered, and `initialize' is about to be forwarded.      *)
Init ==
    /\ registered = TRUE
    /\ stdin = TRUE
    /\ finished = FALSE
    /\ waiters = [i \in Ids |-> Nobody]
    /\ events = Nobody
    /\ pending = [i \in Ids |-> 0]
    /\ toAgent = [i \in ServerIds |-> 0]
    /\ log = {}
    /\ post = [p \in Posts |->
                  IF p = Opener
                  THEN Serving("register", Message("machinery", InitId, 1))
                  ELSE Idle]
    /\ get = [g \in Gets |-> [pc |-> "idle", chan |-> << >>]]
    /\ del = "idle"
    /\ disp = [pc |-> "read", msg |-> NoMessage]
    /\ child = "running"
    /\ input = {}
    /\ output = << >>
    /\ hist = [posts |-> 1, gets |-> 0, asks |-> 0,
               reused   |-> FALSE,   \* an id in use was used again
               opened   |-> FALSE,   \* the client knows the session id
               answered |-> {},      \* calls the server answered
               shown    |-> {},      \* server requests the client received
               lost     |-> {}]      \* those a stream lost with its client

-----------------------------------------------------------------------------
(***************************************************************************)
(* handle_post.                                                            *)
(***************************************************************************)

(* A thread whose sender leaves `waiters' without a value sees its channel *)
(* disconnected.                                                           *)
Dropped(p) == [post EXCEPT ![p].gone = TRUE]

(* Some request in progress has this id.                                   *)
Busy(i) ==
    /\ i # NoId
    /\ \E p \in Posts : /\ post[p].pc # "idle"
                         /\ post[p].msg.kind # "answer" /\ post[p].msg.id = i

(* The ids the agent may use now: a well-behaved one, those not in use.    *)
FreeIds == {i \in Ids : "reuse" \in Faults \/ ~Busy(i)}

(* The session is looked up; from here on the thread holds it, whatever    *)
(* happens to the registry.                                                *)
PostFetch(p, kind, id) ==
    /\ post[p].pc = "idle"
    /\ hist.opened
    /\ hist.posts < MaxPosts /\ Room
    /\ hist' = [hist EXCEPT !.posts = @ + 1,
                             !.reused = @ \/ (kind # "answer" /\ Busy(id))]
    /\ LET m == Message(kind, id, hist.posts + 1)
       IN  post' = [post EXCEPT ![p] =
                      IF registered THEN Serving("handle", m)
                      ELSE Idle]    \* 404
    /\ UNCHANGED <<registered, stdin, finished, waiters, events, sessVars, get,
                   del, disp, childVars>>

(* handle_from_agent on an act: refused by the policy or because a call    *)
(* uses its id, it is answered at once; otherwise it is recorded and goes  *)
(* out.                                                                    *)
PostAct(p, verdict) ==
    /\ post[p].pc = "handle"
    /\ post[p].msg.kind = "act"
    /\ LET m    == post[p].msg
           pass == verdict = "allow" /\ (m.id = NoId \/ pending[m.id] = 0)
       IN  IF pass
           THEN /\ log' = log \cup {Call("agent", m.n)}
                /\ pending' = IF m.id = NoId THEN pending
                              ELSE [pending EXCEPT ![m.id] = m.n]
                /\ post' = [post EXCEPT ![p].pc =
                               IF m.id = NoId THEN "write" ELSE "register"]
           ELSE /\ log' = log \cup {Call("agent", m.n),
                                    Effect("agent", m.n, "blocked")}
                /\ post' = [post EXCEPT ![p] = Idle]
                /\ UNCHANGED pending
    /\ UNCHANGED <<registered, stdin, finished, waiters, events, toAgent, get,
                   del, disp, childVars, hist>>

(* Machinery passes unrecorded.  An answer closes the effect of the        *)
(* server's request, if there is one, or is recorded as blocked; it is     *)
(* relayed in both cases.                                                  *)
PostPass(p) ==
    /\ post[p].pc = "handle"
    /\ post[p].msg.kind # "act"
    /\ LET m == post[p].msg
       IN  IF m.kind = "machinery" THEN UNCHANGED <<log, toAgent>>
           ELSE IF toAgent[m.id] # 0
           THEN /\ log' = log \cup {Effect("server", toAgent[m.id], "done")}
                /\ toAgent' = [toAgent EXCEPT ![m.id] = 0]
           ELSE /\ log' = log \cup {Call("agent", m.n),
                                    Effect("agent", m.n, "blocked")}
                /\ UNCHANGED toAgent
    /\ post' = [post EXCEPT ![p].pc =
                   IF post[p].msg.kind = "answer" \/ post[p].msg.id = NoId
                   THEN "write" ELSE "register"]
    /\ UNCHANGED <<registered, stdin, finished, waiters, events, pending, get,
                   del, disp, childVars, hist>>

(* forward_and_wait: the waiter is registered before the write, in place   *)
(* of any other under the same id.                                         *)
PostRegister(p) ==
    /\ post[p].pc = "register"
    /\ LET id == post[p].msg.id
           q  == waiters[id]
       IN  /\ waiters' = [waiters EXCEPT ![id] = p]
           /\ post' = [(IF q = Nobody THEN post ELSE Dropped(q))
                         EXCEPT ![p].pc = "write"]
    /\ UNCHANGED <<registered, stdin, finished, events, sessVars, get, del,
                   disp, childVars, hist>>

(* Somebody is to answer this message.                                     *)
Waits(m) == m.kind # "answer" /\ m.id # NoId

(* forward_raw succeeds as long as the server reads its input.             *)
PostWrite(p) ==
    /\ post[p].pc = "write"
    /\ stdin /\ child = "running"
    /\ LET m == post[p].msg
       IN  /\ input' = IF Waits(m) THEN input \cup {m} ELSE input
           /\ post' = [post EXCEPT ![p] =
                          IF Waits(m) THEN [@ EXCEPT !.pc = "wait"]
                          ELSE Idle]    \* 202
    /\ UNCHANGED <<registered, stdin, finished, waiters, events, sessVars, get,
                   del, disp, child, output, hist>>

(* The input is closed, or nobody reads it (EPIPE).  The waiter under this *)
(* id is removed, whoever registered it.                                   *)
PostWriteFails(p) ==
    /\ post[p].pc = "write"
    /\ ~stdin \/ child = "exited"
    /\ LET m == post[p].msg
           q == IF Waits(m) THEN waiters[m.id] ELSE Nobody
       IN  /\ waiters' = IF Waits(m)
                         THEN [waiters EXCEPT ![m.id] = Nobody] ELSE waiters
           /\ post' = [(IF q = Nobody THEN post ELSE Dropped(q))
                         EXCEPT ![p] = Idle]    \* 502
    /\ UNCHANGED <<registered, stdin, finished, events, sessVars, get, del,
                   disp, childVars, hist>>

(* recv returns the answer, or an error once the sender is gone.  The      *)
(* answer to `initialize' carries the session's id.                        *)
PostReceive(p) ==
    /\ post[p].pc = "wait"
    /\ post[p].got # 0 \/ post[p].gone
    /\ post' = [post EXCEPT ![p] = Idle]    \* 200 or 502
    /\ hist' = [hist EXCEPT !.opened = @ \/ post[p].got # 0]
    /\ UNCHANGED <<registered, stdin, finished, waiters, events, sessVars, get,
                   del, disp, childVars>>

Post(p) ==
    \/ \E v \in {"allow", "deny"} : PostAct(p, v)
    \/ PostPass(p) \/ PostRegister(p) \/ PostWrite(p) \/ PostWriteFails(p)
    \/ PostReceive(p)

-----------------------------------------------------------------------------
(***************************************************************************)
(* handle_get.                                                             *)
(***************************************************************************)

GetFetch(g) ==
    /\ get[g].pc = "idle"
    /\ hist.opened
    /\ hist.gets < MaxGets /\ Room
    /\ registered
    /\ hist' = [hist EXCEPT !.gets = @ + 1]
    /\ get' = [get EXCEPT ![g] = [pc |-> "slot", chan |-> << >>]]
    /\ UNCHANGED <<registered, stdin, finished, waiters, events, sessVars,
                   post, del, disp, childVars>>

(* One stream per session: the slot is taken, or the GET answers 409.      *)
GetSlot(g) ==
    /\ get[g].pc = "slot"
    /\ IF events = Nobody
       THEN events' = g /\ get' = [get EXCEPT ![g].pc = "headers"]
       ELSE get' = [get EXCEPT ![g].pc = "idle"] /\ UNCHANGED events
    /\ UNCHANGED <<registered, stdin, finished, waiters, sessVars, post, del,
                   disp, childVars, hist>>

(* The thread returns, and its receiver goes with what it holds.           *)
Lose(g) ==
    /\ get' = [get EXCEPT ![g] = [pc |-> "idle", chan |-> << >>]]
    /\ hist' = [hist EXCEPT !.lost = @ \cup Range(get[g].chan)]

(* The headers cannot be written: the thread returns, the slot stays.      *)
GetHeadersFail(g) ==
    /\ "client_gone" \in Faults
    /\ get[g].pc = "headers"
    /\ Lose(g)
    /\ UNCHANGED <<registered, stdin, finished, waiters, events, sessVars,
                   post, del, disp, childVars>>

GetHeaders(g) ==
    /\ get[g].pc = "headers"
    /\ get' = [get EXCEPT ![g].pc = "stream"]
    /\ UNCHANGED <<registered, stdin, finished, waiters, events, sessVars,
                   post, del, disp, childVars, hist>>

GetShows(g) ==
    /\ get[g].pc = "stream"
    /\ get[g].chan # << >>
    /\ hist' = [hist EXCEPT !.shown = @ \cup {Head(get[g].chan)}]
    /\ get' = [get EXCEPT ![g].chan = Tail(@)]
    /\ UNCHANGED <<registered, stdin, finished, waiters, events, sessVars,
                   post, del, disp, childVars>>

(* A message or a keep-alive cannot be written: the slot is freed, what    *)
(* the channel held is lost.                                               *)
GetClientGone(g) ==
    /\ "client_gone" \in Faults
    /\ get[g].pc = "stream"
    /\ events' = Nobody
    /\ Lose(g)
    /\ UNCHANGED <<registered, stdin, finished, waiters, sessVars, post, del,
                   disp, childVars>>

(* The sender was dropped: the stream ends after what it holds.            *)
GetEnds(g) ==
    /\ get[g].pc = "stream"
    /\ events # g
    /\ get[g].chan = << >>
    /\ get' = [get EXCEPT ![g].pc = "idle"]
    /\ UNCHANGED <<registered, stdin, finished, waiters, events, sessVars,
                   post, del, disp, childVars, hist>>

Get(g) ==
    \/ GetSlot(g) \/ GetHeaders(g) \/ GetShows(g) \/ GetEnds(g)

-----------------------------------------------------------------------------
(***************************************************************************)
(* dispatch_from_server.                                                   *)
(***************************************************************************)

(* The thread that holds the receiver of `events' is still there.          *)
Listening == events # Nobody /\ get[events].pc \in {"headers", "stream"}

(* Mutant of DispAnswer: the answer is routed before its effect is closed. *)
DispAnswerUnrecorded ==
    /\ disp.pc = "read"
    /\ output # << >>
    /\ Head(output).kind = "answer"
    /\ output' = Tail(output)
    /\ pending' = [pending EXCEPT ![Head(output).id] = 0]
    /\ disp' = [pc |-> "route", msg |-> Head(output)]
    /\ UNCHANGED <<registered, stdin, finished, waiters, events, toAgent, log,
                   post, get, del, child, input, hist>>

(* handle_from_server on an answer: the effect of the call in its slot is  *)
(* closed before anybody hears of it.                                      *)
DispAnswer ==
    /\ disp.pc = "read"
    /\ output # << >>
    /\ Head(output).kind = "answer"
    /\ output' = Tail(output)
    /\ LET id == Head(output).id
       IN  /\ log' = IF pending[id] = 0 THEN log
                     ELSE log \cup {Effect("agent", pending[id], "done")}
           /\ pending' = [pending EXCEPT ![id] = 0]
    /\ disp' = [pc |-> "route", msg |-> Head(output)]
    /\ UNCHANGED <<registered, stdin, finished, waiters, events, toAgent, post,
                   get, del, child, input, hist>>

(* handle_from_server on a request of the server: refused, it is answered  *)
(* in the agent's place; otherwise it is recorded and takes its slot.      *)
DispAsk(verdict) ==
    /\ disp.pc = "read"
    /\ output # << >>
    /\ Head(output).kind = "ask"
    /\ output' = Tail(output)
    /\ LET m == Head(output)
       IN  IF verdict = "allow" /\ toAgent[m.id] = 0
           THEN /\ log' = log \cup {Call("server", m.n)}
                /\ toAgent' = [toAgent EXCEPT ![m.id] = m.n]
                /\ disp' = [pc |-> "event", msg |-> m]
           ELSE /\ log' = log \cup {Call("server", m.n),
                                    Effect("server", m.n, "blocked")}
                /\ UNCHANGED <<toAgent, disp>>
    /\ UNCHANGED <<registered, stdin, finished, waiters, events, pending, post,
                   get, del, child, input, hist>>

(* Mutant of DispRoute: answers are handed out in the order of arrival.    *)
DispRouteAny ==
    /\ disp.pc = "route"
    /\ \E i \in Ids :
        /\ waiters[i] # Nobody
        /\ waiters' = [waiters EXCEPT ![i] = Nobody]
        /\ post' = [post EXCEPT ![waiters[i]].got = disp.msg.n]
    /\ disp' = [pc |-> "read", msg |-> NoMessage]
    /\ UNCHANGED <<registered, stdin, finished, events, sessVars, get, del,
                   childVars, hist>>

(* An answer goes to whoever waits under its id, or nowhere.               *)
DispRoute ==
    /\ disp.pc = "route"
    /\ LET m == disp.msg
           p == waiters[m.id]
       IN  /\ waiters' = [waiters EXCEPT ![m.id] = Nobody]
           /\ post' = IF p = Nobody THEN post
                      ELSE [post EXCEPT ![p].got = m.n]
    /\ disp' = [pc |-> "read", msg |-> NoMessage]
    /\ UNCHANGED <<registered, stdin, finished, events, sessVars, get, del,
                   childVars, hist>>

(* A request goes to the stream; a stream whose thread is gone is          *)
(* discovered by the failed send.                                          *)
DispEvent ==
    /\ disp.pc = "event"
    /\ IF Listening
       THEN /\ get' = [get EXCEPT ![events].chan = Append(@, disp.msg.n)]
            /\ disp' = [pc |-> "read", msg |-> NoMessage]
            /\ UNCHANGED events
       ELSE /\ events' = Nobody
            /\ disp' = [disp EXCEPT !.pc = "undelivered"]
            /\ UNCHANGED get
    /\ UNCHANGED <<registered, stdin, finished, waiters, sessVars, post, del,
                   childVars, hist>>

(* Mutant of DispUndelivered: the request is dropped and nothing said.     *)
DispUndeliveredSilent ==
    /\ disp.pc = "undelivered"
    /\ disp' = [pc |-> "read", msg |-> NoMessage]
    /\ UNCHANGED <<registered, stdin, finished, waiters, events, sessVars,
                   post, get, del, childVars, hist>>

(* No stream: the slot is freed, the effect is closed as blocked, and the  *)
(* server is answered in the agent's place.                                *)
DispUndelivered ==
    /\ disp.pc = "undelivered"
    /\ LET id == disp.msg.id
       IN  /\ toAgent' = [toAgent EXCEPT ![id] = 0]
           /\ log' = IF toAgent[id] = 0 THEN log
                     ELSE log \cup {Effect("server", toAgent[id], "blocked")}
    /\ disp' = [pc |-> "read", msg |-> NoMessage]
    /\ UNCHANGED <<registered, stdin, finished, waiters, events, pending, post,
                   get, del, childVars, hist>>

(* The loop over the server's output ends: at its end of file, or at a     *)
(* line that is not UTF-8.                                                 *)
OutputEnds ==
    (child = "exited" /\ output = << >>) \/ "bad_line" \in Faults

(* The end of the session, one lock after the other.                       *)
DispEof ==
    /\ disp.pc = "read"
    /\ OutputEnds
    /\ registered' = FALSE
    /\ disp' = [pc |-> "waiters", msg |-> NoMessage]
    /\ UNCHANGED <<stdin, finished, waiters, events, sessVars, post, get, del,
                   childVars, hist>>

(* Mutant of EofWaiters: waiting POSTs are left alone.                     *)
EofWaitersKept ==
    /\ disp.pc = "waiters"
    /\ disp' = [disp EXCEPT !.pc = "events"]
    /\ UNCHANGED <<registered, stdin, finished, waiters, events, sessVars,
                   post, get, del, childVars, hist>>

EofWaiters ==
    /\ disp.pc = "waiters"
    /\ waiters' = [i \in Ids |-> Nobody]
    /\ post' = [p \in Posts |->
                   IF \E i \in Ids : waiters[i] = p THEN Dropped(p)[p]
                   ELSE post[p]]
    /\ disp' = [disp EXCEPT !.pc = "events"]
    /\ UNCHANGED <<registered, stdin, finished, events, sessVars, get, del,
                   childVars, hist>>

EofEvents ==
    /\ disp.pc = "events"
    /\ events' = Nobody
    /\ disp' = [disp EXCEPT !.pc = "stdin"]
    /\ UNCHANGED <<registered, stdin, finished, waiters, sessVars, post, get,
                   del, childVars, hist>>

EofStdin ==
    /\ disp.pc = "stdin"
    /\ stdin' = FALSE
    /\ disp' = [disp EXCEPT !.pc = "wait"]
    /\ UNCHANGED <<registered, finished, waiters, events, sessVars, post, get,
                   del, childVars, hist>>

(* The child is waited for, then the session is declared finished.         *)
EofFinish ==
    /\ disp.pc = "wait"
    /\ child = "exited"
    /\ finished' = TRUE
    /\ disp' = [disp EXCEPT !.pc = "done"]
    /\ UNCHANGED <<registered, stdin, waiters, events, sessVars, post, get,
                   del, childVars, hist>>

Dispatch ==
    \/ DispAnswer \/ (\E v \in {"allow", "deny"} : DispAsk(v)) \/ DispRoute
    \/ DispEvent \/ DispUndelivered \/ DispEof \/ EofWaiters \/ EofEvents
    \/ EofStdin \/ EofFinish

-----------------------------------------------------------------------------
(***************************************************************************)
(* handle_delete.                                                          *)
(***************************************************************************)

DeleteFetch ==
    /\ del = "idle"
    /\ hist.opened
    /\ registered' = FALSE
    /\ del' = IF registered THEN "close" ELSE "404"
    /\ UNCHANGED <<stdin, finished, waiters, events, sessVars, post, get, disp,
                   childVars, hist>>

DeleteClose ==
    /\ del = "close"
    /\ stdin' = FALSE
    /\ del' = "wait"
    /\ UNCHANGED <<registered, finished, waiters, events, sessVars, post, get,
                   disp, childVars, hist>>

(* Mutant of DeleteDone: 200 as soon as the server's input is closed.      *)
DeleteDoneEarly ==
    /\ del = "wait"
    /\ del' = "200"
    /\ UNCHANGED <<registered, stdin, finished, waiters, events, sessVars,
                   post, get, disp, childVars, hist>>

(* The log is closed: 200.                                                 *)
DeleteDone ==
    /\ del = "wait"
    /\ finished
    /\ del' = "200"
    /\ UNCHANGED <<registered, stdin, finished, waiters, events, sessVars,
                   post, get, disp, childVars, hist>>

(* Ten seconds have passed: 202.                                           *)
DeleteTimeout ==
    /\ del = "wait"
    /\ ~finished
    /\ del' = "202"
    /\ UNCHANGED <<registered, stdin, finished, waiters, events, sessVars,
                   post, get, disp, childVars, hist>>

-----------------------------------------------------------------------------
(***************************************************************************)
(* The wrapped server.                                                     *)
(***************************************************************************)

ServerAnswers(m) ==
    /\ child = "running"
    /\ m \in input
    /\ input' = input \ {m}
    /\ output' = Append(output, Message("answer", m.id, m.n))
    /\ hist' = [hist EXCEPT !.answered =
                   IF m.kind = "act" THEN @ \cup {m.n} ELSE @]
    /\ UNCHANGED <<registered, stdin, finished, waiters, events, sessVars,
                   post, get, del, disp, child>>

ServerAsks(id) ==
    /\ child = "running"
    /\ hist.asks < MaxAsks /\ Room
    /\ output' = Append(output, Message("ask", id, hist.asks + 1))
    /\ hist' = [hist EXCEPT !.asks = @ + 1]
    /\ UNCHANGED <<registered, stdin, finished, waiters, events, sessVars,
                   post, get, del, disp, child, input>>

(* The server exits at the end of its input, or dies.  What it wrote stays *)
(* readable.                                                               *)
ServerExits ==
    /\ child = "running"
    /\ ~stdin \/ "dies" \in Faults
    /\ child' = "exited"
    /\ input' = {}
    /\ UNCHANGED <<registered, stdin, finished, waiters, events, sessVars,
                   post, get, del, disp, output, hist>>

-----------------------------------------------------------------------------

Client ==
    \/ \E p \in Posts, kind \in Kinds \ {"answer"}, id \in FreeIds \cup {NoId} :
            PostFetch(p, kind, id)
    \/ \E p \in Posts, id \in ServerIds :
            "answer" \in Kinds /\ PostFetch(p, "answer", id)
    \/ \E g \in Gets : GetFetch(g) \/ GetHeadersFail(g) \/ GetClientGone(g)
    \/ DeleteFetch

Delete == DeleteClose \/ DeleteDone \/ DeleteTimeout

Server ==
    \/ \E m \in input : ServerAnswers(m)
    \/ \E id \in ServerIds : ServerAsks(id)
    \/ ServerExits

Next ==
    \/ Client
    \/ \E p \in Posts : Post(p)
    \/ \E g \in Gets : Get(g)
    \/ Dispatch \/ Delete \/ Server

Spec == Init /\ [][Next]_vars

(* The threads that serve POSTs and the dispatcher run.  Nothing is        *)
(* assumed of the client nor of the server.                                *)
FairSpec ==
    /\ Spec
    /\ \A p \in Posts : WF_vars(Post(p))
    /\ WF_vars(Dispatch)

-----------------------------------------------------------------------------
(***************************************************************************)
(* Properties.                                                             *)
(***************************************************************************)

(* What a POST thread serves: a request or a notification of the agent,    *)
(* or its answer to a request of the server.                               *)
PostMessage ==
    [kind : {"act", "machinery"}, id : Ids \cup {NoId}, n : Nat \ {0}] \cup
    [kind : {"answer"}, id : ServerIds, n : Nat \ {0}]

PostThread ==
    {Idle} \cup [pc : {"handle", "register", "write", "wait"},
                 msg : PostMessage, got : Nat, gone : BOOLEAN]

GetThread ==
    [pc : {"idle", "slot", "headers", "stream"}, chan : Seq(Nat)]

Request == [kind : {"act", "machinery"}, id : Ids, n : Nat \ {0}]
Answer == [kind : {"answer"}, id : Ids, n : Nat \ {0}]
Ask == [kind : {"ask"}, id : ServerIds, n : Nat \ {0}]

Dispatcher ==
    [pc : {"route"}, msg : Answer] \cup
    [pc : {"event", "undelivered"}, msg : Ask] \cup
    [pc : {"read", "waiters", "events", "stdin", "wait", "done"},
     msg : {NoMessage}]

History ==
    [posts : Nat, gets : Nat, asks : Nat, reused : BOOLEAN, opened : BOOLEAN,
     answered : SUBSET Nat, shown : SUBSET Nat, lost : SUBSET Nat]

(* Waiters, slots and messages name threads, calls and ids of this session *)
(* (McpSession, Session).                                                  *)
TypeOK ==
    /\ registered \in BOOLEAN /\ stdin \in BOOLEAN /\ finished \in BOOLEAN
    /\ waiters \in [Ids -> Posts \cup {Nobody}]
    /\ events \in Gets \cup {Nobody}
    /\ pending \in [Ids -> Nat]
    /\ toAgent \in [ServerIds -> Nat]
    /\ post \in [Posts -> PostThread]
    /\ get \in [Gets -> GetThread]
    /\ del \in {"idle", "close", "wait", "200", "202", "404"}
    /\ disp \in Dispatcher
    /\ child \in {"running", "exited"}
    /\ input \subseteq Request
    /\ output \in Seq(Answer \cup Ask)
    /\ hist \in History

(* The agent hears the result of a call only once the effect of that very  *)
(* call is in the log, as long as it never reuses the id of a request in   *)
(* progress (dispatch_from_server, forward_and_wait).                      *)
HeardIsRecorded ==
    \A p \in Posts :
        ~hist.reused /\ post[p].got # 0 /\ post[p].msg.kind = "act"
            => Effect("agent", post[p].msg.n, "done") \in log

(* A POST carries the answer to its own request, when the agent does not   *)
(* reuse the id of a request in progress.                                  *)
AnswerIsOwn ==
    ~hist.reused => \A p \in Posts : post[p].got \in {0, post[p].msg.n}

(* When DELETE returns 200, everything the server answered is in the log,  *)
(* down to the last buffered line (finished, handle_delete).               *)
DeletedHoldsAnswers ==
    del = "200" => \A n \in hist.answered : Effect("agent", n, "done") \in log

(* When DELETE returns 200 the log is complete: no record follows          *)
(* (handle_delete: "the client can rely on the WAL holding the complete    *)
(* session when DELETE returns").                                          *)
DeletedIsComplete == [][del = "200" => log' = log]_vars

(* Once the server is gone, every POST gets its response: no thread waits  *)
(* for an answer that cannot come (forward_and_wait: "a dead server is     *)
(* detected structurally").                                                *)
NobodyWaitsForTheDead ==
    \A p \in Posts :
        (child = "exited" /\ post[p].pc # "idle") ~> (post[p].pc = "idle")

(* A request of the server that finds no stream does not stay recorded as  *)
(* in flight: while the session lives, a slot is held by a request that is *)
(* on its way to the client, that the client received, or that a stream    *)
(* lost together with its client (dispatch_from_server).                   *)
NotStranded ==
    \A id \in ServerIds :
        toAgent[id] # 0 /\ registered =>
            \/ disp.pc \in {"event", "undelivered"} /\ disp.msg.id = id
            \/ toAgent[id] \in hist.shown \cup hist.lost
            \/ \E g \in Gets : toAgent[id] \in Range(get[g].chan)
=============================================================================
