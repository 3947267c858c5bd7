------------------------- MODULE HttpSessionProofs --------------------------
(***************************************************************************)
(* Proofs about HttpSession: for any number of POST and GET threads, any   *)
(* ids, any bounds and, unless a theorem says otherwise, any faults.       *)
(***************************************************************************)
EXTENDS HttpSession, SequenceTheorems, TLAPS

-----------------------------------------------------------------------------
(***************************************************************************)
(* The inductive invariants.                                               *)
(***************************************************************************)

(* Only a request waits, and only one that has been handled.               *)
ThreadOK ==
    \A p \in Posts :
        /\ post[p].pc \in {"register", "wait"} => Waits(post[p].msg)
        /\ post[p].pc \in {"idle", "handle", "register"} =>
              post[p].got = 0 /\ ~post[p].gone

(* A thread found in `waiters' is still waiting for its first news, under  *)
(* the id of the request it serves.                                        *)
WaiterOK ==
    \A i \in Ids : waiters[i] # Nobody =>
        LET p == waiters[i] IN
        /\ post[p].pc \in {"write", "wait"}
        /\ Waits(post[p].msg) /\ post[p].msg.id = i
        /\ post[p].got = 0 /\ ~post[p].gone

(* An act that is out holds its slot until its effect is in the log.       *)
Closing(m) ==
    m.kind = "act" /\ m.id # NoId =>
        \/ pending[m.id] = m.n
        \/ Effect("agent", m.n, "done") \in log

AnsweredOK ==
    /\ \A p \in Posts :
          post[p].pc \in {"register", "write", "wait"} => Closing(post[p].msg)
    /\ \A m \in input : Closing(m)
    /\ \A n \in hist.answered :
          \/ Effect("agent", n, "done") \in log
          \/ \E j \in 1 .. Len(output) :
                /\ output[j].kind = "answer" /\ output[j].n = n
                /\ pending[output[j].id] = n

(* The dispatcher still reads: it has not begun to end the session.        *)
Alive == disp.pc \in {"read", "route", "event", "undelivered"}

(* The session ends once the server is gone and its output read.           *)
EndOK ==
    /\ ~Alive => child = "exited" /\ output = << >>
    /\ finished => disp.pc = "done"
    /\ del = "200" => finished

(* A stream holds what was sent to it since it took the slot.              *)
StreamOK ==
    /\ \A g \in Gets : get[g].pc \in {"idle", "slot"} => get[g].chan = << >>
    /\ disp.pc \in {"event", "undelivered"} =>
          toAgent[disp.msg.id] \in {0, disp.msg.n}

(* NotStranded, also once the session has left the registry.               *)
Followed ==
    \A id \in ServerIds :
        toAgent[id] # 0 =>
            \/ disp.pc \in {"event", "undelivered"} /\ disp.msg.id = id
            \/ toAgent[id] \in hist.shown \cup hist.lost
            \/ \E g \in Gets : toAgent[id] \in Range(get[g].chan)

(* A thread that serves a request somebody is to answer.                   *)
Asking(p) == post[p].pc # "idle" /\ Waits(post[p].msg)

(* One request in progress per id.                                         *)
OneAsking ==
    \A p, q \in Posts :
        Asking(p) /\ Asking(q) /\ post[p].msg.id = post[q].msg.id => p = q

(* While the dispatcher reads, a request that is written or about to be is *)
(* waited for by the thread that serves it.                                *)
Registered ==
    Alive => \A p \in Posts :
        /\ post[p].pc \in {"write", "wait"} /\ Waits(post[p].msg)
        /\ post[p].got = 0
        => waiters[post[p].msg.id] = p

(* The request or answer m, on its way, is the one its waiter waits for.   *)
Awaited(m) ==
    /\ waiters[m.id] # Nobody
    /\ post[waiters[m.id]].pc = "wait"
    /\ post[waiters[m.id]].msg.n = m.n

(* The positions of the answers in the output.                             *)
AnswersAt == {j \in 1 .. Len(output) : output[j].kind = "answer"}

InFlightAwaited ==
    Alive =>
        /\ \A m \in input : Awaited(m)
        /\ \A j \in AnswersAt : Awaited(output[j])
        /\ disp.pc = "route" => Awaited(disp.msg)

(* A request and its answer are in one place at a time.                    *)
InFlightOnce ==
    Alive =>
        /\ \A m, k \in input : m.id = k.id => m = k
        /\ \A j, k \in AnswersAt : output[j].id = output[k].id => j = k
        /\ \A m \in input, j \in AnswersAt : output[j].id # m.id
        /\ disp.pc = "route" =>
              /\ \A m \in input : m.id # disp.msg.id
              /\ \A j \in AnswersAt : output[j].id # disp.msg.id

(* The effect of an act is closed between the reading of its answer and    *)
(* the hand-over to its thread.                                            *)
Recorded ==
    Alive => \A p \in Posts :
        /\ post[p].pc \in {"register", "write", "wait"}
        /\ post[p].msg.kind = "act" /\ Waits(post[p].msg) /\ post[p].got = 0
        => IF disp.pc = "route" /\ disp.msg.id = post[p].msg.id
           THEN Effect("agent", post[p].msg.n, "done") \in log
           ELSE pending[post[p].msg.id] = post[p].msg.n

(* A thread that holds an answer holds its own, with the effect recorded.  *)
GotOwn ==
    \A p \in Posts : post[p].got # 0 =>
        /\ post[p].pc = "wait"
        /\ post[p].got = post[p].msg.n
        /\ post[p].msg.kind = "act" =>
              Effect("agent", post[p].msg.n, "done") \in log

OwnInv ==
    /\ OneAsking /\ Registered /\ InFlightAwaited /\ InFlightOnce /\ Recorded
    /\ GotOwn

OwnAnswers == ~hist.reused => OwnInv

-----------------------------------------------------------------------------
(***************************************************************************)
(* Type correctness.                                                       *)
(***************************************************************************)

LEMMA IdleFacts ==
    /\ Idle \in PostThread /\ Idle.pc = "idle" /\ Idle.got = 0 /\ ~Idle.gone
    /\ Idle.msg = NoMessage
BY DEF Idle, Serving, NoMessage, Message, PostThread

(* A thread that is not idle serves a message.                             *)
LEMMA ThreadParts ==
    ASSUME TypeOK, NEW p \in Posts, post[p].pc # "idle"
    PROVE  /\ post[p] \in [pc : {"handle", "register", "write", "wait"},
                            msg : PostMessage, got : Nat, gone : BOOLEAN]
           /\ Waits(post[p].msg) => post[p].msg \in Request
BY IdleFacts DEF TypeOK, PostThread, PostMessage, Request, Waits

LEMMA InitType == Init => TypeOK
<1> SUFFICES ASSUME Init PROVE TypeOK
  OBVIOUS
<1>1. post \in [Posts -> PostThread]
  BY HttpAssumption, IdleFacts
     DEF Init, PostThread, PostMessage, Serving, Message
<1> QED
  BY <1>1, EmptySeq, HttpAssumption
     DEF Init, TypeOK, GetThread, Dispatcher, NoMessage, Message, History

(* A thread of which one field changes stays a thread.                     *)
LEMMA ThreadMoves ==
    ASSUME TypeOK, NEW p \in Posts, post[p].pc # "idle"
    PROVE  /\ [post EXCEPT ![p] = Idle] \in [Posts -> PostThread]
           /\ [post EXCEPT ![p].pc = "register"] \in [Posts -> PostThread]
           /\ [post EXCEPT ![p].pc = "write"] \in [Posts -> PostThread]
           /\ [post EXCEPT ![p].pc = "wait"] \in [Posts -> PostThread]
           /\ \A n \in Nat : [post EXCEPT ![p].got = n] \in [Posts -> PostThread]
BY IdleFacts, ThreadParts, ZenonT(60) DEF TypeOK, PostThread

(* A history of which one field changes stays a history.                   *)
LEMMA HistoryMoves ==
    ASSUME TypeOK, NEW n \in Nat, NEW s \in SUBSET Nat
    PROVE  /\ [hist EXCEPT !.gets = n] \in History
           /\ [hist EXCEPT !.asks = n] \in History
           /\ [hist EXCEPT !.answered = s] \in History
           /\ [hist EXCEPT !.shown = s] \in History
           /\ [hist EXCEPT !.lost = s] \in History
BY Zenon DEF TypeOK, History

LEMMA HistoryParts ==
    ASSUME TypeOK
    PROVE  /\ hist.posts \in Nat /\ hist.gets \in Nat /\ hist.asks \in Nat
           /\ hist.answered \subseteq Nat /\ hist.shown \subseteq Nat
           /\ hist.lost \subseteq Nat
           /\ hist = [hist EXCEPT !.answered = hist.answered]
BY DEF TypeOK, History

LEMMA PostFetchType ==
    ASSUME TypeOK, NEW p \in Posts, NEW kind, NEW id,
           \/ kind \in {"act", "machinery"} /\ id \in Ids \cup {NoId}
           \/ kind = "answer" /\ id \in ServerIds,
           PostFetch(p, kind, id)
    PROVE  TypeOK'
<1> DEFINE m == Message(kind, id, hist.posts + 1)
<1>1. m \in PostMessage
  BY HistoryParts DEF PostMessage, Message
<1>2. Serving("handle", m) \in PostThread
  BY <1>1 DEF Serving, PostThread
<1>3. PICK n \in Nat, b \in BOOLEAN :
         hist' = [hist EXCEPT !.posts = n, !.reused = b]
  <2>1. hist.posts + 1 \in Nat
    BY HistoryParts
  <2> QED
    BY <2>1 DEF PostFetch
<1> HIDE DEF m
<1>5. post' \in [Posts -> PostThread]
  BY <1>2, IdleFacts DEF TypeOK, PostFetch, m
<1>6. hist' \in History
  BY <1>3, Zenon DEF TypeOK, History
<1> QED
  BY <1>5, <1>6 DEF TypeOK, PostFetch, sessVars, childVars

(* What a registration does to the threads: the waiter it replaces, if     *)
(* there is one, is another thread.                                        *)
LEMMA RegisterEffect ==
    ASSUME TypeOK, ThreadOK, WaiterOK, NEW p \in Posts, PostRegister(p),
           NEW id, id = post[p].msg.id
    PROVE  /\ post[p].msg \in Request /\ id \in Ids
           /\ waiters[id] # p
           /\ waiters' = [waiters EXCEPT ![id] = p]
           /\ post' \in [Posts -> PostThread]
           /\ post'[p] = [post[p] EXCEPT !.pc = "write"]
           /\ \A x \in Posts \ {p} :
                 post'[x] = IF x = waiters[id]
                            THEN [post[x] EXCEPT !.gone = TRUE] ELSE post[x]
<1>1. post[p].pc = "register" /\ post[p].pc # "idle"
  BY DEF PostRegister
<1>2. post[p].msg \in Request /\ id \in Ids
  BY <1>1, ThreadParts DEF ThreadOK, Request
<1>3. PICK q \in Posts \cup {Nobody} : q = waiters[id]
  BY <1>2 DEF TypeOK
<1>4. q # Nobody => q \in Posts /\ post[q].pc \in {"write", "wait"}
  BY <1>2, <1>3 DEF WaiterOK
<1>5. /\ waiters' = [waiters EXCEPT ![id] = p]
      /\ post' = [(IF q = Nobody THEN post ELSE Dropped(q))
                    EXCEPT ![p].pc = "write"]
  BY <1>3 DEF PostRegister
<1>6. q # p
  BY <1>1, <1>4, HttpAssumption
<1>7. /\ post'[p] = [post[p] EXCEPT !.pc = "write"]
      /\ \A x \in Posts \ {p} :
             post'[x] = IF x = q THEN [post[x] EXCEPT !.gone = TRUE] ELSE post[x]
      /\ post' = [x \in Posts |-> post'[x]]
  BY <1>4, <1>5, <1>6, HttpAssumption DEF Dropped, TypeOK
<1>8. post'[p] \in PostThread
  BY <1>1, <1>7, ThreadParts DEF PostThread
<1>9. ASSUME NEW x \in Posts \ {p} PROVE post'[x] \in PostThread
  <2>1. CASE x = q
    <3>1. x \in Posts /\ post[x].pc # "idle"
      BY <1>4, <2>1, HttpAssumption
    <3> QED
      BY <1>7, <2>1, <3>1, ThreadParts, ZenonT(60) DEF PostThread
  <2>2. CASE x # q
    BY <1>7, <2>2 DEF TypeOK
  <2> QED
    BY <2>1, <2>2
<1> QED
  BY <1>2, <1>3, <1>5, <1>6, <1>7, <1>8, <1>9

(* What a failed write does: the waiter under the id is told, whoever it   *)
(* is.                                                                     *)
LEMMA WriteFailsEffect ==
    ASSUME TypeOK, ThreadOK, WaiterOK, NEW p \in Posts, PostWriteFails(p),
           NEW m, m = post[p].msg
    PROVE  /\ post' \in [Posts -> PostThread]
           /\ post'[p] = Idle
           /\ ~Waits(m) => /\ waiters' = waiters
                           /\ \A x \in Posts \ {p} : post'[x] = post[x]
           /\ Waits(m) =>
                 /\ m \in Request
                 /\ waiters' = [waiters EXCEPT ![m.id] = Nobody]
                 /\ \A x \in Posts \ {p} :
                       post'[x] = IF x = waiters[m.id]
                                  THEN [post[x] EXCEPT !.gone = TRUE]
                                  ELSE post[x]
<1>1. post[p].pc = "write" /\ post[p].pc # "idle"
  BY DEF PostWriteFails
<1> DEFINE w == IF Waits(m) THEN waiters[m.id] ELSE Nobody
<1>2. /\ waiters' = IF Waits(m) THEN [waiters EXCEPT ![m.id] = Nobody]
                    ELSE waiters
      /\ post' = [(IF w = Nobody THEN post ELSE Dropped(w)) EXCEPT ![p] = Idle]
  BY DEF PostWriteFails
<1>3. Waits(m) => m \in Request /\ m.id \in Ids
  BY <1>1, ThreadParts DEF Request
<1>4. w \in Posts \cup {Nobody}
  BY <1>3 DEF TypeOK
<1>5. w # Nobody => w \in Posts /\ post[w].pc # "idle"
  BY <1>3 DEF WaiterOK, TypeOK
<1> HIDE DEF w
<1>6. /\ post'[p] = Idle
      /\ \A x \in Posts \ {p} :
             post'[x] = IF x = w THEN [post[x] EXCEPT !.gone = TRUE] ELSE post[x]
      /\ post' = [x \in Posts |-> post'[x]]
  BY <1>2, <1>4, HttpAssumption DEF Dropped, TypeOK
<1>7. ASSUME NEW x \in Posts PROVE post'[x] \in PostThread
  <2>1. CASE x = p
    BY <1>6, <2>1, IdleFacts
  <2>2. CASE x # p /\ x = w
    <3>1. x \in Posts /\ post[x].pc # "idle"
      BY <1>5, <2>2, HttpAssumption
    <3> QED
      BY <1>6, <2>2, <3>1, ThreadParts DEF PostThread
  <2>3. CASE x # p /\ x # w
    BY <1>6, <2>3 DEF TypeOK
  <2> QED
    BY <2>1, <2>2, <2>3
<1>8. CASE ~Waits(m)
  BY <1>2, <1>6, <1>7, <1>8, HttpAssumption DEF w
<1>9. CASE Waits(m)
  BY <1>2, <1>3, <1>6, <1>7, <1>9 DEF w
<1> QED
  BY <1>8, <1>9

LEMMA PostType ==
    ASSUME TypeOK, ThreadOK, WaiterOK, NEW p \in Posts, Post(p)
    PROVE  TypeOK'
<1>1. ASSUME NEW v \in {"allow", "deny"}, PostAct(p, v) PROVE TypeOK'
  <2>1. post[p].pc # "idle" /\ post[p].msg \in PostMessage
        /\ post[p].msg.kind = "act"
    BY <1>1, ThreadParts DEF PostAct
  <2>2. post[p].msg.id \in Ids \cup {NoId} /\ post[p].msg.n \in Nat
    BY <2>1 DEF PostMessage
  <2>3. pending' \in [Ids -> Nat]
    BY <1>1, <2>2 DEF PostAct, TypeOK
  <2>4. \/ post' = [post EXCEPT ![p].pc = "write"]
        \/ post' = [post EXCEPT ![p].pc = "register"]
        \/ post' = [post EXCEPT ![p] = Idle]
    BY <1>1 DEF PostAct
  <2>5. post' \in [Posts -> PostThread]
    BY <2>1, <2>4, ThreadMoves
  <2> QED
    BY <1>1, <2>3, <2>5 DEF PostAct, TypeOK, childVars
<1>2. CASE PostPass(p)
  <2>1. post[p].pc # "idle" /\ post[p].msg \in PostMessage
    BY <1>2, ThreadParts DEF PostPass
  <2>2. post[p].msg.kind # "machinery" => post[p].msg.id \in ServerIds
    BY <1>2, <2>1 DEF PostMessage, PostPass
  <2>3. toAgent' \in [ServerIds -> Nat]
    BY <1>2, <2>2, SMTT(30) DEF PostPass, TypeOK
  <2>4. \/ post' = [post EXCEPT ![p].pc = "write"]
        \/ post' = [post EXCEPT ![p].pc = "register"]
    BY <1>2 DEF PostPass
  <2>5. post' \in [Posts -> PostThread]
    BY <2>1, <2>4, ThreadMoves
  <2> QED
    BY <1>2, <2>3, <2>5 DEF PostPass, TypeOK, childVars
<1>3. CASE PostRegister(p)
  <2>1. /\ post' \in [Posts -> PostThread]
        /\ \E id \in Ids : waiters' = [waiters EXCEPT ![id] = p]
    BY <1>3, RegisterEffect
  <2> QED
    BY <1>3, <2>1 DEF PostRegister, TypeOK, sessVars, childVars
<1>4. CASE PostWrite(p)
  <2>1. post[p].pc # "idle"
    BY <1>4 DEF PostWrite
  <2>2. input' \subseteq Request
    BY <1>4, <2>1, ThreadParts DEF PostWrite, TypeOK
  <2>3. \/ post' = [post EXCEPT ![p].pc = "wait"]
        \/ post' = [post EXCEPT ![p] = Idle]
    BY <1>4 DEF PostWrite
  <2>4. post' \in [Posts -> PostThread]
    BY <2>1, <2>3, ThreadMoves
  <2> QED
    BY <1>4, <2>2, <2>4 DEF PostWrite, TypeOK, sessVars
<1>5. CASE PostWriteFails(p)
  <2>1. /\ post' \in [Posts -> PostThread]
        /\ \/ waiters' = waiters
           \/ \E id \in Ids : waiters' = [waiters EXCEPT ![id] = Nobody]
    BY <1>5, WriteFailsEffect DEF Request
  <2> QED
    BY <1>5, <2>1 DEF PostWriteFails, TypeOK, sessVars, childVars
<1>6. CASE PostReceive(p)
  <2>1. post' \in [Posts -> PostThread]
    BY <1>6, ThreadMoves DEF PostReceive
  <2>2. PICK b \in BOOLEAN : hist' = [hist EXCEPT !.opened = b]
    BY <1>6 DEF PostReceive
  <2>3. hist' \in History
    BY <2>2, Zenon DEF TypeOK, History
  <2> QED
    BY <1>6, <2>1, <2>3 DEF PostReceive, TypeOK, sessVars, childVars
<1> QED
  BY <1>1, <1>2, <1>3, <1>4, <1>5, <1>6 DEF Post

LEMMA GetType ==
    ASSUME TypeOK, NEW g \in Gets,
           GetFetch(g) \/ GetHeadersFail(g) \/ GetClientGone(g) \/ Get(g)
    PROVE  TypeOK'
<1>1. get[g].chan \in Seq(Nat)
  BY DEF TypeOK, GetThread
<1>2. CASE GetFetch(g)
  <2>1. get' \in [Gets -> GetThread]
    BY <1>2, EmptySeq DEF GetFetch, TypeOK, GetThread
  <2>2. hist' \in History
    <3>1. hist.gets + 1 \in Nat
      BY HistoryParts
    <3> QED
      BY <1>2, <3>1, HistoryMoves DEF GetFetch
  <2> QED
    BY <1>2, <2>1, <2>2 DEF GetFetch, TypeOK, sessVars, childVars
<1>3. ASSUME Lose(g)
      PROVE  /\ get' \in [Gets -> GetThread]
             /\ hist' \in History
  <2>1. Range(get[g].chan) \subseteq Nat
    BY <1>1, ElementOfSeq, LenProperties DEF Range
  <2>2. hist' \in History
    BY <1>3, <2>1, HistoryMoves, HistoryParts DEF Lose
  <2> QED
    BY <1>3, <2>2, EmptySeq DEF Lose, TypeOK, GetThread
<1>4. CASE GetHeadersFail(g)
  BY <1>3, <1>4 DEF GetHeadersFail, TypeOK, sessVars, childVars
<1>5. CASE GetClientGone(g)
  BY <1>3, <1>5 DEF GetClientGone, TypeOK, sessVars, childVars
<1>6. CASE GetSlot(g)
  <2>1. get' \in [Gets -> GetThread] /\ events' \in Gets \cup {Nobody}
    <3>1. CASE events = Nobody
      BY <1>6, <3>1, ZenonT(60) DEF GetSlot, TypeOK, GetThread
    <3>2. CASE events # Nobody
      BY <1>6, <3>2, ZenonT(60) DEF GetSlot, TypeOK, GetThread
    <3> QED
      BY <3>1, <3>2
  <2> QED
    BY <1>6, <2>1 DEF GetSlot, TypeOK, sessVars, childVars
<1>7. CASE GetHeaders(g)
  BY <1>7 DEF GetHeaders, TypeOK, GetThread, sessVars, childVars
<1>8. CASE GetShows(g)
  <2>1. Head(get[g].chan) \in Nat /\ Tail(get[g].chan) \in Seq(Nat)
    BY <1>1, <1>8, HeadTailProperties DEF GetShows
  <2>2. hist' \in History
    BY <1>8, <2>1, HistoryMoves, HistoryParts DEF GetShows
  <2> QED
    BY <1>8, <2>1, <2>2 DEF GetShows, TypeOK, GetThread, sessVars, childVars
<1>9. CASE GetEnds(g)
  BY <1>9 DEF GetEnds, TypeOK, GetThread, sessVars, childVars
<1> QED
  BY <1>2, <1>4, <1>5, <1>6, <1>7, <1>8, <1>9 DEF Get

(* The message the dispatcher reads next.                                  *)
LEMMA OutputParts ==
    ASSUME TypeOK, output # << >>
    PROVE  /\ Tail(output) \in Seq(Answer \cup Ask)
           /\ Head(output) = output[1] /\ Len(output) \in Nat \ {0}
           /\ Head(output).kind = "answer" => Head(output) \in Answer
           /\ Head(output).kind = "ask" => Head(output) \in Ask
           /\ Len(Tail(output)) = Len(output) - 1
           /\ \A j \in 1 .. Len(output) - 1 : Tail(output)[j] = output[j + 1]
<1>1. output \in Seq(Answer \cup Ask)
  BY DEF TypeOK
<1>2. Head(output) \in Answer \cup Ask
  BY <1>1, HeadTailProperties
<1>3. /\ Tail(output) \in Seq(Answer \cup Ask)
      /\ Head(output) = output[1] /\ Len(output) \in Nat \ {0}
      /\ Len(Tail(output)) = Len(output) - 1
      /\ \A j \in 1 .. Len(output) - 1 : Tail(output)[j] = output[j + 1]
  BY <1>1, HeadTailProperties, EmptySeq, LenProperties
<1> QED
  BY <1>2, <1>3 DEF Answer, Ask

LEMMA DispatchType ==
    ASSUME TypeOK, WaiterOK, Dispatch
    PROVE  TypeOK'
<1>1. CASE DispAnswer
  <2>1. Head(output) \in Answer /\ Tail(output) \in Seq(Answer \cup Ask)
    BY <1>1, OutputParts DEF DispAnswer
  <2>2. disp' \in Dispatcher
    BY <1>1, <2>1 DEF DispAnswer, Dispatcher
  <2>3. pending' \in [Ids -> Nat]
    BY <1>1, <2>1 DEF DispAnswer, TypeOK, Answer
  <2> QED
    BY <1>1, <2>1, <2>2, <2>3 DEF DispAnswer, TypeOK
<1>2. ASSUME NEW v \in {"allow", "deny"}, DispAsk(v) PROVE TypeOK'
  <2>1. Head(output) \in Ask /\ Tail(output) \in Seq(Answer \cup Ask)
    BY <1>2, OutputParts DEF DispAsk
  <2>2. disp' \in Dispatcher
    BY <1>2, <2>1 DEF DispAsk, Dispatcher, TypeOK
  <2>3. toAgent' \in [ServerIds -> Nat]
    BY <1>2, <2>1 DEF DispAsk, TypeOK, Ask
  <2> QED
    BY <1>2, <2>1, <2>2, <2>3 DEF DispAsk, TypeOK
<1>3. CASE DispRoute
  <2>1. disp.msg \in Answer
    BY <1>3 DEF DispRoute, TypeOK, Dispatcher
  <2>2. disp.msg.id \in Ids /\ disp.msg.n \in Nat
    BY <2>1 DEF Answer
  <2>3. waiters' \in [Ids -> Posts \cup {Nobody}]
    BY <1>3, <2>2 DEF DispRoute, TypeOK
  <2>4. waiters[disp.msg.id] \in Posts \cup {Nobody}
    BY <2>2 DEF TypeOK
  <2>5. waiters[disp.msg.id] # Nobody => post[waiters[disp.msg.id]].pc # "idle"
    BY <2>2 DEF WaiterOK
  <2>6. post' \in [Posts -> PostThread]
    <3>1. CASE waiters[disp.msg.id] = Nobody
      BY <1>3, <3>1 DEF DispRoute, TypeOK
    <3>2. CASE waiters[disp.msg.id] # Nobody
      BY <1>3, <2>2, <2>4, <2>5, <3>2, ThreadMoves DEF DispRoute
    <3> QED
      BY <3>1, <3>2
  <2>7. disp' \in Dispatcher
    BY <1>3 DEF DispRoute, Dispatcher
  <2> QED
    BY <1>3, <2>3, <2>6, <2>7 DEF DispRoute, TypeOK, sessVars, childVars
<1>4. CASE DispEvent
  <2>1. disp.msg \in Ask
    BY <1>4 DEF DispEvent, TypeOK, Dispatcher
  <2>2. disp' \in Dispatcher
    BY <1>4, <2>1 DEF DispEvent, Dispatcher, TypeOK
  <2>3. get' \in [Gets -> GetThread]
    <3>1. CASE ~Listening
      BY <1>4, <3>1 DEF DispEvent, TypeOK
    <3>2. CASE Listening
      <4>1. events \in Gets
        BY <3>2 DEF Listening, TypeOK
      <4>2. get[events].chan \in Seq(Nat) /\ disp.msg.n \in Nat
        BY <2>1, <4>1 DEF TypeOK, GetThread, Ask
      <4>3. Append(get[events].chan, disp.msg.n) \in Seq(Nat)
        BY <4>2, AppendProperties
      <4> QED
        BY <1>4, <3>2, <4>1, <4>3 DEF DispEvent, TypeOK, GetThread
    <3> QED
      BY <3>1, <3>2
  <2>4. events' \in Gets \cup {Nobody}
    BY <1>4 DEF DispEvent, TypeOK
  <2> QED
    BY <1>4, <2>2, <2>3, <2>4 DEF DispEvent, TypeOK, sessVars, childVars
<1>5. CASE DispUndelivered
  <2>1. disp.msg \in Ask
    BY <1>5 DEF DispUndelivered, TypeOK, Dispatcher
  <2>2. toAgent' \in [ServerIds -> Nat] /\ disp' \in Dispatcher
    BY <1>5, <2>1 DEF DispUndelivered, TypeOK, Ask, Dispatcher
  <2> QED
    BY <1>5, <2>2 DEF DispUndelivered, TypeOK, childVars
<1>6. CASE DispEof
  BY <1>6 DEF DispEof, TypeOK, Dispatcher, sessVars, childVars
<1>7. CASE EofWaiters
  <2>1. ASSUME NEW p \in Posts PROVE post'[p] \in PostThread
    <3>1. CASE \E i \in Ids : waiters[i] = p
      <4>1. post[p].pc # "idle"
        BY <3>1, HttpAssumption DEF WaiterOK
      <4>2. post'[p] = [post[p] EXCEPT !.gone = TRUE]
        BY <1>7, <3>1 DEF EofWaiters, Dropped, TypeOK
      <4> QED
        BY <4>1, <4>2, ThreadParts DEF PostThread
    <3>2. CASE ~\E i \in Ids : waiters[i] = p
      BY <1>7, <3>2 DEF EofWaiters, TypeOK
    <3> QED
      BY <3>1, <3>2
  <2>2. post' \in [Posts -> PostThread]
    BY <1>7, <2>1 DEF EofWaiters
  <2>3. disp' \in Dispatcher /\ waiters' \in [Ids -> Posts \cup {Nobody}]
    BY <1>7 DEF EofWaiters, TypeOK, Dispatcher
  <2> QED
    BY <1>7, <2>2, <2>3 DEF EofWaiters, TypeOK, sessVars, childVars
<1>8. CASE EofEvents
  <2>1. disp' \in Dispatcher
    BY <1>8 DEF EofEvents, TypeOK, Dispatcher
  <2> QED
    BY <1>8, <2>1 DEF EofEvents, TypeOK, sessVars, childVars
<1>9. CASE EofStdin
  <2>1. disp' \in Dispatcher
    BY <1>9 DEF EofStdin, TypeOK, Dispatcher
  <2> QED
    BY <1>9, <2>1 DEF EofStdin, TypeOK, sessVars, childVars
<1>10. CASE EofFinish
  <2>1. disp' \in Dispatcher
    BY <1>10 DEF EofFinish, TypeOK, Dispatcher
  <2> QED
    BY <1>10, <2>1 DEF EofFinish, TypeOK, sessVars, childVars
<1> QED
  BY <1>1, <1>2, <1>3, <1>4, <1>5, <1>6, <1>7, <1>8, <1>9, <1>10 DEF Dispatch

LEMMA ServerType ==
    ASSUME TypeOK, Server
    PROVE  TypeOK'
<1>1. ASSUME NEW m \in input, ServerAnswers(m) PROVE TypeOK'
  <2>1. m \in Request
    BY DEF TypeOK
  <2>2. Message("answer", m.id, m.n) \in Answer
    BY <2>1 DEF Message, Request, Answer
  <2>3. output' \in Seq(Answer \cup Ask)
    BY <1>1, <2>2, AppendProperties DEF ServerAnswers, TypeOK
  <2>4. PICK s \in SUBSET Nat : hist' = [hist EXCEPT !.answered = s]
    BY <1>1, <2>1, HistoryParts DEF ServerAnswers, Request
  <2>5. hist' \in History
    BY <2>4, HistoryMoves
  <2> QED
    BY <1>1, <2>3, <2>5 DEF ServerAnswers, TypeOK, sessVars
<1>2. ASSUME NEW id \in ServerIds, ServerAsks(id) PROVE TypeOK'
  <2>1. hist.asks + 1 \in Nat \ {0}
    BY HistoryParts
  <2>2. Message("ask", id, hist.asks + 1) \in Ask
    BY <2>1 DEF Message, Ask
  <2>3. output' \in Seq(Answer \cup Ask)
    BY <1>2, <2>2, AppendProperties DEF ServerAsks, TypeOK
  <2>4. hist' \in History
    BY <1>2, <2>1, HistoryMoves DEF ServerAsks
  <2> QED
    BY <1>2, <2>3, <2>4 DEF ServerAsks, TypeOK, sessVars
<1>3. CASE ServerExits
  BY <1>3 DEF ServerExits, TypeOK, sessVars
<1> QED
  BY <1>1, <1>2, <1>3 DEF Server

(* Every step of the session keeps the types.                              *)
LEMMA TypeStep ==
    ASSUME TypeOK, ThreadOK, WaiterOK, [Next]_vars
    PROVE  TypeOK'
<1>1. CASE Client
  <2>1. ASSUME NEW p \in Posts, NEW kind \in Kinds \ {"answer"},
               NEW id \in FreeIds \cup {NoId}, PostFetch(p, kind, id)
        PROVE  TypeOK'
    <3>1. kind \in {"act", "machinery"} /\ id \in Ids \cup {NoId}
      BY HttpAssumption DEF AllKinds, FreeIds
    <3> QED
      BY <2>1, <3>1, PostFetchType
  <2>2. ASSUME NEW p \in Posts, NEW id \in ServerIds, PostFetch(p, "answer", id)
        PROVE  TypeOK'
    BY <2>2, PostFetchType
  <2>3. CASE \E g \in Gets : GetFetch(g) \/ GetHeadersFail(g) \/ GetClientGone(g)
    BY <2>3, GetType
  <2>4. CASE DeleteFetch
    BY <2>4 DEF DeleteFetch, TypeOK, sessVars, childVars
  <2> QED
    BY <1>1, <2>1, <2>2, <2>3, <2>4 DEF Client
<1>2. CASE \E p \in Posts : Post(p)
  BY <1>2, PostType
<1>3. CASE \E g \in Gets : Get(g)
  BY <1>3, GetType
<1>4. CASE Dispatch
  BY <1>4, DispatchType
<1>5. CASE Delete
  BY <1>5 DEF Delete, DeleteClose, DeleteDone, DeleteTimeout, TypeOK, sessVars,
              childVars
<1>6. CASE Server
  BY <1>6, ServerType
<1>7. CASE UNCHANGED vars
  BY <1>7 DEF vars, TypeOK
<1> QED
  BY <1>1, <1>2, <1>3, <1>4, <1>5, <1>6, <1>7 DEF Next

-----------------------------------------------------------------------------
(***************************************************************************)
(* Threads and waiters.                                                    *)
(***************************************************************************)

(* Every other action leaves the POST threads and `waiters' alone.         *)
LEMMA PostsMovedBy ==
    ASSUME [Next]_vars,
           ~\E p \in Posts : Post(p),
           ~\E p \in Posts : \E kind, id : PostFetch(p, kind, id),
           ~DispRoute, ~EofWaiters
    PROVE  post' = post /\ waiters' = waiters
<1>1. CASE Client
  BY <1>1 DEF Client, GetFetch, GetHeadersFail, GetClientGone, DeleteFetch
<1>2. CASE \E g \in Gets : Get(g)
  BY <1>2 DEF Get, GetSlot, GetHeaders, GetShows, GetEnds
<1>3. CASE Dispatch
  BY <1>3 DEF Dispatch, DispAnswer, DispAsk, DispEvent, DispUndelivered,
              DispEof, EofEvents, EofStdin, EofFinish
<1>4. CASE Delete
  BY <1>4 DEF Delete, DeleteClose, DeleteDone, DeleteTimeout
<1>5. CASE Server
  BY <1>5 DEF Server, ServerAnswers, ServerAsks, ServerExits
<1>6. CASE UNCHANGED vars
  BY <1>6 DEF vars
<1> QED
  BY <1>1, <1>2, <1>3, <1>4, <1>5, <1>6 DEF Next

(* What routing does to the threads.                                       *)
LEMMA RouteEffect ==
    ASSUME TypeOK, WaiterOK, DispRoute
    PROVE  /\ disp.msg \in Answer /\ disp.msg.id \in Ids
           /\ waiters' = [waiters EXCEPT ![disp.msg.id] = Nobody]
           /\ \A x \in Posts :
                 post'[x] = IF x = waiters[disp.msg.id]
                            THEN [post[x] EXCEPT !.got = disp.msg.n]
                            ELSE post[x]
<1>1. disp.msg \in Answer /\ disp.msg.id \in Ids
  BY DEF DispRoute, TypeOK, Dispatcher, Answer
<1> QED
  BY <1>1, HttpAssumption DEF DispRoute, TypeOK

(* What the end of the session does to the threads.                        *)
LEMMA EofEffect ==
    ASSUME TypeOK, EofWaiters
    PROVE  /\ waiters' = [i \in Ids |-> Nobody]
           /\ \A x \in Posts :
                 post'[x] = IF \E i \in Ids : waiters[i] = x
                            THEN [post[x] EXCEPT !.gone = TRUE] ELSE post[x]
BY DEF EofWaiters, Dropped, TypeOK

(* One thread that is not in `waiters' moves.                              *)
LEMMA OneThreadMoves ==
    ASSUME TypeOK, ThreadOK, WaiterOK, NEW p \in Posts,
           \A x \in Posts \ {p} : post'[x] = post[x],
           waiters' = waiters,
           \A i \in Ids : waiters[i] # p,
           post'[p].pc \in {"register", "wait"} => Waits(post'[p].msg),
           post'[p].pc \in {"idle", "handle", "register"} =>
               post'[p].got = 0 /\ ~post'[p].gone
    PROVE  ThreadOK' /\ WaiterOK'
<1>1. ThreadOK'
  BY DEF ThreadOK, Waits
<1>2. WaiterOK'
  <2> SUFFICES ASSUME NEW i \in Ids, waiters[i] # Nobody
               PROVE  post'[waiters[i]] = post[waiters[i]]
    BY DEF WaiterOK, Waits
  <2>1. waiters[i] \in Posts /\ waiters[i] # p
    BY DEF WaiterOK, TypeOK
  <2> QED
    BY <2>1
<1> QED
  BY <1>1, <1>2

(* A thread that has not registered, or has its news, is not in `waiters'. *)
LEMMA NotWaiter ==
    ASSUME WaiterOK, NEW p \in Posts,
           post[p].pc \notin {"write", "wait"} \/ post[p].got # 0
           \/ post[p].gone \/ ~Waits(post[p].msg)
    PROVE  \A i \in Ids : waiters[i] # p
BY HttpAssumption DEF WaiterOK

LEMMA PostThreadStep ==
    ASSUME TypeOK, ThreadOK, WaiterOK, NEW p \in Posts, Post(p)
    PROVE  ThreadOK' /\ WaiterOK'
<1>0. post[p].pc # "idle" =>
          post[p] \in [pc : {"handle", "register", "write", "wait"},
                       msg : PostMessage, got : Nat, gone : BOOLEAN]
  BY ThreadParts
<1>1. ASSUME NEW v \in {"allow", "deny"}, PostAct(p, v)
      PROVE  ThreadOK' /\ WaiterOK'
  <2>1. post[p].pc = "handle" /\ waiters' = waiters
    BY <1>1 DEF PostAct
  <2>2. post[p].got = 0 /\ ~post[p].gone /\ post[p].msg.kind = "act"
    BY <1>1 DEF PostAct, ThreadOK
  <2>3. \/ post'[p] = [post[p] EXCEPT !.pc = "write"]
        \/ /\ post'[p] = [post[p] EXCEPT !.pc = "register"]
           /\ post[p].msg.id # NoId
        \/ post'[p] = Idle
    BY <1>1 DEF PostAct, TypeOK
  <2>4. /\ post'[p].got = 0 /\ ~post'[p].gone
        /\ post'[p].pc \in {"register", "wait"} => Waits(post'[p].msg)
    BY <1>0, <2>1, <2>2, <2>3, IdleFacts DEF Waits
  <2>5. \A x \in Posts \ {p} : post'[x] = post[x]
    BY <1>1 DEF PostAct, TypeOK
  <2> QED
    BY <2>1, <2>4, <2>5, NotWaiter, OneThreadMoves
<1>2. CASE PostPass(p)
  <2>1. post[p].pc = "handle" /\ waiters' = waiters
    BY <1>2 DEF PostPass
  <2>2. post[p].got = 0 /\ ~post[p].gone
    BY <1>2 DEF PostPass, ThreadOK
  <2>3. \/ post'[p] = [post[p] EXCEPT !.pc = "write"]
        \/ /\ post'[p] = [post[p] EXCEPT !.pc = "register"]
           /\ Waits(post[p].msg)
    BY <1>2 DEF PostPass, TypeOK, Waits
  <2>4. /\ post'[p].got = 0 /\ ~post'[p].gone
        /\ post'[p].pc \in {"register", "wait"} => Waits(post'[p].msg)
    BY <1>0, <2>1, <2>2, <2>3
  <2>5. \A x \in Posts \ {p} : post'[x] = post[x]
    BY <1>2 DEF PostPass, TypeOK
  <2> QED
    BY <2>1, <2>4, <2>5, NotWaiter, OneThreadMoves
<1>3. CASE PostRegister(p)
  <2> DEFINE id == post[p].msg.id
  <2>1. /\ post[p].msg \in Request /\ id \in Ids
        /\ waiters[id] # p
        /\ waiters' = [waiters EXCEPT ![id] = p]
        /\ post'[p] = [post[p] EXCEPT !.pc = "write"]
        /\ \A x \in Posts \ {p} :
              post'[x] = IF x = waiters[id]
                         THEN [post[x] EXCEPT !.gone = TRUE] ELSE post[x]
    BY <1>3, RegisterEffect
  <2>2. post[p].pc = "register" /\ post[p].got = 0 /\ ~post[p].gone
        /\ Waits(post[p].msg)
    BY <1>3 DEF PostRegister, ThreadOK
  <2>3. /\ post'[p].pc = "write" /\ post'[p].got = 0 /\ ~post'[p].gone
        /\ post'[p].msg = post[p].msg
    BY <1>0, <2>1, <2>2
  <2>4. waiters[id] # Nobody =>
            /\ waiters[id] \in Posts
            /\ post[waiters[id]].pc \in {"write", "wait"}
            /\ Waits(post[waiters[id]].msg)
    BY <2>1 DEF WaiterOK, TypeOK
  <2> HIDE DEF id
  <2>5. ASSUME NEW x \in Posts \ {p}
        PROVE  /\ post'[x].pc \in {"register", "wait"} => Waits(post'[x].msg)
               /\ post'[x].pc \in {"idle", "handle", "register"} =>
                     post'[x].got = 0 /\ ~post'[x].gone
    <3>1. CASE x = waiters[id]
      <4>1. /\ post[x].pc \in {"write", "wait"} /\ Waits(post[x].msg)
            /\ post[x].pc # "idle"
        BY <2>4, <3>1, HttpAssumption
      <4>2. post'[x].pc = post[x].pc /\ post'[x].msg = post[x].msg
        BY <2>1, <3>1, <4>1, ThreadParts
      <4> QED
        BY <4>1, <4>2
    <3>2. CASE x # waiters[id]
      BY <2>1, <3>2 DEF ThreadOK
    <3> QED
      BY <3>1, <3>2
  <2>6. ThreadOK'
    BY <2>2, <2>3, <2>5 DEF ThreadOK, Waits
  <2>7. ASSUME NEW i \in Ids, waiters'[i] # Nobody
        PROVE  LET y == waiters'[i] IN
               /\ post'[y].pc \in {"write", "wait"}
               /\ Waits(post'[y].msg) /\ post'[y].msg.id = i
               /\ post'[y].got = 0 /\ ~post'[y].gone
    <3>1. CASE i = id
      BY <2>1, <2>2, <2>3, <3>1 DEF id, TypeOK
    <3>2. CASE i # id
      <4>1. waiters'[i] = waiters[i] /\ waiters[i] \in Posts
        BY <2>1, <2>7, <3>2 DEF TypeOK
      <4>2. /\ post[waiters[i]].pc \in {"write", "wait"}
            /\ Waits(post[waiters[i]].msg) /\ post[waiters[i]].msg.id = i
            /\ post[waiters[i]].got = 0 /\ ~post[waiters[i]].gone
        BY <2>7, <4>1 DEF WaiterOK
      <4>3. waiters[i] # p /\ waiters[i] # waiters[id]
        BY <2>1, <2>2, <3>2, <4>1, <4>2, HttpAssumption DEF WaiterOK
      <4> QED
        BY <2>1, <4>1, <4>2, <4>3
    <3> QED
      BY <3>1, <3>2
  <2>8. WaiterOK'
    BY <2>7 DEF WaiterOK, Waits
  <2> QED
    BY <2>6, <2>8
<1>4. CASE PostWrite(p)
  <2>1. post[p].pc = "write" /\ waiters' = waiters
    BY <1>4 DEF PostWrite
  <2>2. \A x \in Posts \ {p} : post'[x] = post[x]
    BY <1>4 DEF PostWrite, TypeOK
  <2>3. CASE ~Waits(post[p].msg)
    <3>1. post'[p] = Idle
      BY <1>4, <2>3 DEF PostWrite, TypeOK
    <3> QED
      BY <2>1, <2>2, <2>3, <3>1, IdleFacts, NotWaiter, OneThreadMoves
  <2>4. CASE Waits(post[p].msg)
    <3>1. post'[p] = [post[p] EXCEPT !.pc = "wait"]
      BY <1>4, <2>4 DEF PostWrite, TypeOK
    <3>2. /\ post'[p].pc = "wait" /\ post'[p].msg = post[p].msg
          /\ post'[p].got = post[p].got /\ post'[p].gone = post[p].gone
      BY <1>0, <2>1, <3>1
    <3>3. ThreadOK'
      BY <2>2, <2>4, <3>2 DEF ThreadOK, Waits
    <3>4. WaiterOK'
      <4> SUFFICES ASSUME NEW i \in Ids, waiters[i] # Nobody
                   PROVE  LET y == waiters[i] IN
                          /\ post'[y].pc \in {"write", "wait"}
                          /\ Waits(post'[y].msg) /\ post'[y].msg.id = i
                          /\ post'[y].got = 0 /\ ~post'[y].gone
        BY <2>1 DEF WaiterOK, Waits
      <4>1. /\ waiters[i] \in Posts
            /\ post[waiters[i]].pc \in {"write", "wait"}
            /\ Waits(post[waiters[i]].msg) /\ post[waiters[i]].msg.id = i
            /\ post[waiters[i]].got = 0 /\ ~post[waiters[i]].gone
        BY DEF WaiterOK, TypeOK
      <4> QED
        BY <2>2, <3>2, <4>1
    <3> QED
      BY <3>3, <3>4
  <2> QED
    BY <2>3, <2>4
<1>5. CASE PostReceive(p)
  <2>1. /\ post[p].pc = "wait" /\ waiters' = waiters
        /\ post[p].got # 0 \/ post[p].gone
    BY <1>5 DEF PostReceive
  <2>2. post'[p] = Idle /\ \A x \in Posts \ {p} : post'[x] = post[x]
    BY <1>5 DEF PostReceive, TypeOK
  <2> QED
    BY <2>1, <2>2, IdleFacts, NotWaiter, OneThreadMoves
<1>6. CASE PostWriteFails(p)
  <2> DEFINE m == post[p].msg
  <2>1. post[p].pc = "write"
    BY <1>6 DEF PostWriteFails
  <2>2. /\ post'[p] = Idle
        /\ ~Waits(m) => /\ waiters' = waiters
                        /\ \A x \in Posts \ {p} : post'[x] = post[x]
        /\ Waits(m) =>
              /\ m \in Request
              /\ waiters' = [waiters EXCEPT ![m.id] = Nobody]
              /\ \A x \in Posts \ {p} :
                    post'[x] = IF x = waiters[m.id]
                               THEN [post[x] EXCEPT !.gone = TRUE]
                               ELSE post[x]
    BY <1>6, WriteFailsEffect
  <2>3. CASE ~Waits(m)
    BY <2>1, <2>2, <2>3, IdleFacts, NotWaiter, OneThreadMoves
  <2>4. CASE Waits(m)
    <3>1. m.id \in Ids
      BY <2>2, <2>4 DEF Request
    <3>2. waiters[m.id] # Nobody =>
              /\ waiters[m.id] \in Posts
              /\ post[waiters[m.id]].pc \in {"write", "wait"}
              /\ Waits(post[waiters[m.id]].msg)
      BY <3>1 DEF WaiterOK, TypeOK
    <3>3. ASSUME NEW x \in Posts \ {p}
          PROVE  /\ post'[x].pc \in {"register", "wait"} => Waits(post'[x].msg)
                 /\ post'[x].pc \in {"idle", "handle", "register"} =>
                       post'[x].got = 0 /\ ~post'[x].gone
      <4>1. CASE x = waiters[m.id]
        <5>1. /\ post[x].pc \in {"write", "wait"} /\ Waits(post[x].msg)
              /\ post[x].pc # "idle"
          BY <3>2, <4>1, HttpAssumption
        <5>2. post'[x].pc = post[x].pc /\ post'[x].msg = post[x].msg
          BY <2>2, <2>4, <4>1, <5>1, ThreadParts
        <5> QED
          BY <5>1, <5>2
      <4>2. CASE x # waiters[m.id]
        BY <2>2, <2>4, <4>2 DEF ThreadOK
      <4> QED
        BY <4>1, <4>2
    <3>4. ThreadOK'
      BY <2>2, <3>3, IdleFacts DEF ThreadOK, Waits
    <3>5. ASSUME NEW i \in Ids, waiters'[i] # Nobody
          PROVE  LET y == waiters'[i] IN
                 /\ post'[y].pc \in {"write", "wait"}
                 /\ Waits(post'[y].msg) /\ post'[y].msg.id = i
                 /\ post'[y].got = 0 /\ ~post'[y].gone
      <4>1. i # m.id /\ waiters'[i] = waiters[i] /\ waiters[i] \in Posts
        BY <2>2, <2>4, <3>1, <3>5 DEF TypeOK
      <4>2. /\ post[waiters[i]].pc \in {"write", "wait"}
            /\ Waits(post[waiters[i]].msg) /\ post[waiters[i]].msg.id = i
            /\ post[waiters[i]].got = 0 /\ ~post[waiters[i]].gone
        BY <3>5, <4>1 DEF WaiterOK
      <4>3. waiters[i] # p /\ waiters[i] # waiters[m.id]
        BY <3>1, <4>1, <4>2, HttpAssumption DEF WaiterOK
      <4> QED
        BY <2>2, <2>4, <4>1, <4>2, <4>3
    <3>6. WaiterOK'
      BY <3>5 DEF WaiterOK, Waits
    <3> QED
      BY <3>4, <3>6
  <2> QED
    BY <2>3, <2>4
<1> QED
  BY <1>1, <1>2, <1>3, <1>4, <1>5, <1>6 DEF Post

(* Every step keeps the threads and the waiters in order.                  *)
LEMMA ThreadStep ==
    ASSUME TypeOK, ThreadOK, WaiterOK, [Next]_vars
    PROVE  ThreadOK' /\ WaiterOK'
<1>1. ASSUME NEW p \in Posts, NEW kind, NEW id, PostFetch(p, kind, id)
      PROVE  ThreadOK' /\ WaiterOK'
  <2>1. post[p].pc = "idle" /\ waiters' = waiters
    BY <1>1 DEF PostFetch
  <2>2. post'[p].pc \in {"idle", "handle"} /\ post'[p].got = 0 /\ ~post'[p].gone
    BY <1>1, IdleFacts DEF PostFetch, TypeOK, Serving
  <2>3. \A x \in Posts \ {p} : post'[x] = post[x]
    BY <1>1 DEF PostFetch, TypeOK
  <2> QED
    BY <2>1, <2>2, <2>3, NotWaiter, OneThreadMoves
<1>2. CASE \E p \in Posts : Post(p)
  BY <1>2, PostThreadStep
<1>3. CASE DispRoute
  <2>1. /\ disp.msg.id \in Ids
        /\ waiters' = [waiters EXCEPT ![disp.msg.id] = Nobody]
        /\ \A x \in Posts :
              post'[x] = IF x = waiters[disp.msg.id]
                         THEN [post[x] EXCEPT !.got = disp.msg.n] ELSE post[x]
    BY <1>3, RouteEffect
  <2>2. ASSUME NEW x \in Posts
        PROVE  /\ post'[x].pc \in {"register", "wait"} => Waits(post'[x].msg)
               /\ post'[x].pc \in {"idle", "handle", "register"} =>
                     post'[x].got = 0 /\ ~post'[x].gone
    <3>1. CASE x = waiters[disp.msg.id]
      <4>1. /\ post[x].pc \in {"write", "wait"} /\ Waits(post[x].msg)
            /\ post[x].pc # "idle"
        BY <2>1, <3>1, HttpAssumption DEF WaiterOK
      <4>2. post'[x].pc = post[x].pc /\ post'[x].msg = post[x].msg
        BY <2>1, <3>1, <4>1, ThreadParts
      <4> QED
        BY <4>1, <4>2
    <3>2. CASE x # waiters[disp.msg.id]
      BY <2>1, <3>2 DEF ThreadOK
    <3> QED
      BY <3>1, <3>2
  <2>3. ThreadOK'
    BY <2>2 DEF ThreadOK, Waits
  <2>4. ASSUME NEW i \in Ids, waiters'[i] # Nobody
        PROVE  LET y == waiters'[i] IN
               /\ post'[y].pc \in {"write", "wait"}
               /\ Waits(post'[y].msg) /\ post'[y].msg.id = i
               /\ post'[y].got = 0 /\ ~post'[y].gone
    <3>1. i # disp.msg.id /\ waiters'[i] = waiters[i] /\ waiters[i] \in Posts
      BY <2>1, <2>4 DEF TypeOK
    <3>2. /\ post[waiters[i]].pc \in {"write", "wait"}
          /\ Waits(post[waiters[i]].msg) /\ post[waiters[i]].msg.id = i
          /\ post[waiters[i]].got = 0 /\ ~post[waiters[i]].gone
      BY <2>4, <3>1 DEF WaiterOK
    <3>3. waiters[i] # waiters[disp.msg.id]
      BY <2>1, <3>1, <3>2, HttpAssumption DEF WaiterOK
    <3> QED
      BY <2>1, <3>1, <3>2, <3>3
  <2>5. WaiterOK'
    BY <2>4 DEF WaiterOK, Waits
  <2> QED
    BY <2>3, <2>5
<1>4. CASE EofWaiters
  <2>1. WaiterOK'
    BY <1>4, EofEffect DEF WaiterOK
  <2>2. ASSUME NEW x \in Posts
        PROVE  /\ post'[x].pc \in {"register", "wait"} => Waits(post'[x].msg)
               /\ post'[x].pc \in {"idle", "handle", "register"} =>
                     post'[x].got = 0 /\ ~post'[x].gone
    <3>1. CASE \E i \in Ids : waiters[i] = x
      <4>1. /\ post[x].pc \in {"write", "wait"} /\ Waits(post[x].msg)
            /\ post[x].pc # "idle"
        BY <3>1, HttpAssumption DEF WaiterOK
      <4>2. post'[x] = [post[x] EXCEPT !.gone = TRUE]
        BY <1>4, <3>1, EofEffect
      <4>3. post'[x].pc = post[x].pc /\ post'[x].msg = post[x].msg
        BY <4>1, <4>2, ThreadParts
      <4> QED
        BY <4>1, <4>3
    <3>2. CASE ~\E i \in Ids : waiters[i] = x
      <4>1. post'[x] = post[x]
        BY <1>4, <3>2, EofEffect
      <4> QED
        BY <4>1 DEF ThreadOK
    <3> QED
      BY <3>1, <3>2
  <2>3. ThreadOK'
    BY <2>2 DEF ThreadOK, Waits
  <2> QED
    BY <2>1, <2>3
<1>5. CASE post' = post /\ waiters' = waiters
  BY <1>5 DEF ThreadOK, WaiterOK, Waits
<1> QED
  BY <1>1, <1>2, <1>3, <1>4, <1>5, PostsMovedBy

LEMMA InitThreads == Init => ThreadOK /\ WaiterOK
BY HttpAssumption, IdleFacts
   DEF Init, ThreadOK, WaiterOK, Waits, Serving, Message

(* Threads and waiters stay in order.                                      *)
LEMMA ThreadsInOrder == Spec => [](TypeOK /\ ThreadOK /\ WaiterOK)
<1>1. TypeOK /\ ThreadOK /\ WaiterOK /\ [Next]_vars
      => TypeOK' /\ ThreadOK' /\ WaiterOK'
  BY TypeStep, ThreadStep
<1> QED
  BY InitType, InitThreads, <1>1, PTL DEF Spec

(* Whatever the threads, the client and the server do, waiters, slots and  *)
(* messages name threads, calls and ids of the session (McpSession).       *)
THEOREM TypeCorrect == Spec => []TypeOK
BY ThreadsInOrder, PTL

-----------------------------------------------------------------------------
(***************************************************************************)
(* DELETE returns when the log holds every answer.                         *)
(***************************************************************************)

LEMMA InitAnswered == Init => AnsweredOK /\ EndOK
BY HttpAssumption, IdleFacts
   DEF Init, AnsweredOK, EndOK, Alive, Closing, Serving, Message

LEMMA EndStep ==
    ASSUME TypeOK, EndOK, "bad_line" \notin Faults, [Next]_vars
    PROVE  EndOK'
<1>1. CASE DispEof
  BY <1>1 DEF DispEof, OutputEnds, EndOK, Alive, childVars, TypeOK
<1>2. CASE Dispatch /\ ~DispEof
  <2>1. CASE DispAnswer \/ DispRoute \/ DispEvent \/ DispUndelivered
    BY <2>1 DEF DispAnswer, DispRoute, DispEvent, DispUndelivered, EndOK, Alive,
                childVars, TypeOK, Dispatcher
  <2>2. CASE \E v \in {"allow", "deny"} : DispAsk(v)
    BY <2>2 DEF DispAsk, EndOK, Alive, TypeOK, Dispatcher
  <2>3. CASE EofWaiters \/ EofEvents \/ EofStdin \/ EofFinish
    BY <2>3 DEF EofWaiters, EofEvents, EofStdin, EofFinish, EndOK, Alive,
                childVars, TypeOK, Dispatcher
  <2> QED
    BY <1>2, <2>1, <2>2, <2>3 DEF Dispatch
<1>3. CASE Client
  <2>1. /\ UNCHANGED <<disp, child, output, finished>>
        /\ del' \in {del, "close", "404"}
    BY <1>3 DEF Client, PostFetch, GetFetch, GetHeadersFail, GetClientGone,
                DeleteFetch, childVars
  <2> QED
    BY <2>1 DEF EndOK, Alive
<1>4. ASSUME NEW p \in Posts, Post(p) PROVE EndOK'
  <2>1. UNCHANGED <<disp, child, output, finished, del>>
    BY <1>4 DEF Post, PostAct, PostPass, PostRegister, PostWrite,
                PostWriteFails, PostReceive, childVars
  <2> QED
    BY <2>1 DEF EndOK, Alive
<1>5. ASSUME NEW g \in Gets, Get(g) PROVE EndOK'
  BY <1>5 DEF Get, GetSlot, GetHeaders, GetShows, GetEnds, EndOK, Alive,
              childVars
<1>6. CASE Delete
  BY <1>6 DEF Delete, DeleteClose, DeleteDone, DeleteTimeout, EndOK, Alive,
              childVars
<1>7. CASE Server
  BY <1>7 DEF Server, ServerAnswers, ServerAsks, ServerExits, EndOK, Alive
<1>8. CASE UNCHANGED vars
  BY <1>8 DEF vars, EndOK, Alive
<1> QED
  BY <1>1, <1>2, <1>3, <1>4, <1>5, <1>6, <1>7, <1>8 DEF Next

(* The log only grows.                                                     *)
LEMMA LogGrows == ASSUME [Next]_vars PROVE log \subseteq log'
<1>1. CASE Client
  BY <1>1 DEF Client, PostFetch, GetFetch, GetHeadersFail, GetClientGone,
              DeleteFetch, sessVars
<1>2. ASSUME NEW p \in Posts, Post(p) PROVE log \subseteq log'
  BY <1>2 DEF Post, PostAct, PostPass, PostRegister, PostWrite, PostWriteFails,
              PostReceive, sessVars
<1>3. CASE \E g \in Gets : Get(g)
  BY <1>3 DEF Get, GetSlot, GetHeaders, GetShows, GetEnds, sessVars
<1>4. CASE Dispatch
  BY <1>4 DEF Dispatch, DispAnswer, DispAsk, DispRoute, DispEvent,
              DispUndelivered, DispEof, EofWaiters, EofEvents, EofStdin,
              EofFinish, sessVars
<1>5. CASE Delete \/ Server \/ UNCHANGED vars
  BY <1>5 DEF Delete, DeleteClose, DeleteDone, DeleteTimeout, Server,
              ServerAnswers, ServerAsks, ServerExits, vars, sessVars
<1> QED
  BY <1>1, <1>2, <1>3, <1>4, <1>5 DEF Next

(* The log only grows, and a slot is emptied only when its effect is       *)
(* closed: what is closing stays so.                                       *)
LEMMA ClosingStable ==
    ASSUME TypeOK, NEW i \in Ids, NEW n \in Nat \ {0}, [Next]_vars
    PROVE  /\ log \subseteq log'
           /\ pending[i] = n =>
                 pending'[i] = n \/ Effect("agent", n, "done") \in log'
<1>1. ASSUME NEW p \in Posts, NEW v \in {"allow", "deny"}, PostAct(p, v)
      PROVE  /\ log \subseteq log'
             /\ pending[i] = n => pending'[i] = n
  BY <1>1 DEF PostAct, TypeOK
<1>2. CASE DispAnswer
  BY <1>2, OutputParts DEF DispAnswer, TypeOK, Answer
<1>3. CASE Client
  BY <1>3 DEF Client, PostFetch, GetFetch, GetHeadersFail, GetClientGone,
              DeleteFetch, sessVars
<1>4. ASSUME NEW p \in Posts, Post(p), ~\E v \in {"allow", "deny"} : PostAct(p, v)
      PROVE  log \subseteq log' /\ pending' = pending
  BY <1>4 DEF Post, PostPass, PostRegister, PostWrite, PostWriteFails,
              PostReceive, sessVars
<1>5. CASE \E g \in Gets : Get(g)
  BY <1>5 DEF Get, GetSlot, GetHeaders, GetShows, GetEnds, sessVars
<1>6. CASE Dispatch /\ ~DispAnswer
  <2>1. log \subseteq log' /\ pending' = pending
    BY <1>6 DEF Dispatch, DispAsk, DispRoute, DispEvent, DispUndelivered, DispEof,
                EofWaiters, EofEvents, EofStdin, EofFinish, sessVars
  <2> QED
    BY <2>1
<1>7. CASE Delete \/ Server \/ UNCHANGED vars
  BY <1>7 DEF Delete, DeleteClose, DeleteDone, DeleteTimeout, Server,
              ServerAnswers, ServerAsks, ServerExits, vars, sessVars
<1> QED
  BY <1>1, <1>2, <1>3, <1>4, <1>5, <1>6, <1>7 DEF Next

(* What is closing stays so, for a message of the agent.                   *)
LEMMA ClosingKept ==
    ASSUME TypeOK, [Next]_vars, NEW m \in PostMessage, Closing(m)
    PROVE  Closing(m)'
<1> SUFFICES ASSUME m.kind = "act", m.id # NoId
             PROVE  pending'[m.id] = m.n \/ Effect("agent", m.n, "done") \in log'
  BY DEF Closing
<1>1. m.id \in Ids /\ m.n \in Nat \ {0}
  BY DEF PostMessage
<1> QED
  BY <1>1, ClosingStable DEF Closing

(* A thread that holds a message beyond the session lock either held it    *)
(* before, or has just put its act in its slot.                            *)
LEMMA ThreadsClosing ==
    ASSUME TypeOK, ThreadOK, WaiterOK, AnsweredOK, [Next]_vars,
           NEW p \in Posts, post'[p].pc \in {"register", "write", "wait"}
    PROVE  Closing(post[p].msg)'
<1>1. ASSUME /\ post[p].pc \in {"register", "write", "wait"}
             /\ post'[p].msg = post[p].msg
      PROVE  Closing(post[p].msg)'
  <2>1. post[p].msg \in PostMessage
    BY <1>1, ThreadParts
  <2> QED
    BY <1>1, <2>1, ClosingKept DEF AnsweredOK
<1>2. ASSUME NEW q \in Posts, NEW kind, NEW id, PostFetch(q, kind, id)
      PROVE  Closing(post[p].msg)'
  <2>1. post'[q].pc \in {"idle", "handle"}
    BY <1>2, IdleFacts DEF PostFetch, TypeOK, Serving
  <2>2. \A x \in Posts \ {q} : post'[x] = post[x]
    BY <1>2 DEF PostFetch, TypeOK
  <2> QED
    BY <1>1, <2>1, <2>2
<1>3. ASSUME NEW q \in Posts, NEW v \in {"allow", "deny"}, PostAct(q, v)
      PROVE  Closing(post[p].msg)'
  <2>1. CASE p # q
    BY <1>1, <1>3, <2>1 DEF PostAct, TypeOK
  <2>2. CASE p = q
    <3>1. post[p].msg \in PostMessage /\ post[p].pc = "handle"
      BY <1>3, <2>2, ThreadParts DEF PostAct
    <3>2. \/ post'[p] = Idle
          \/ /\ post'[p] \in {[post[p] EXCEPT !.pc = "write"],
                              [post[p] EXCEPT !.pc = "register"]}
             /\ pending' = IF post[p].msg.id = NoId THEN pending
                           ELSE [pending EXCEPT ![post[p].msg.id] = post[p].msg.n]
      BY <1>3, <2>2 DEF PostAct, TypeOK
    <3>3. post'[p] # Idle
      BY IdleFacts
    <3>4. post'[p].msg = post[p].msg
      BY <3>1, <3>2, <3>3, ThreadParts
    <3>5. post[p].msg.kind = "act"
      BY <1>3, <2>2 DEF PostAct
    <3>6. post[p].msg.id \in Ids \cup {NoId}
      BY <3>1, <3>5 DEF PostMessage
    <3> QED
      BY <3>2, <3>3, <3>4, <3>6 DEF Closing, TypeOK
  <2> QED
    BY <2>1, <2>2
<1>4. ASSUME NEW q \in Posts, PostPass(q)
      PROVE  Closing(post[p].msg)'
  <2>1. CASE p # q
    BY <1>1, <1>4, <2>1 DEF PostPass, TypeOK
  <2>2. CASE p = q
    <3>1. post[p].pc = "handle" /\ post[p].msg.kind # "act"
      BY <1>4, <2>2 DEF PostPass
    <3>2. post'[p] \in {[post[p] EXCEPT !.pc = "write"],
                        [post[p] EXCEPT !.pc = "register"]}
      BY <1>4, <2>2 DEF PostPass, TypeOK
    <3>3. post'[p].msg = post[p].msg
      BY <3>1, <3>2, ThreadParts
    <3> QED
      BY <3>1, <3>3 DEF Closing
  <2> QED
    BY <2>1, <2>2
<1>5. ASSUME NEW q \in Posts, PostRegister(q)
      PROVE  Closing(post[p].msg)'
  <2> DEFINE id == post[q].msg.id
  <2>1. /\ post'[q] = [post[q] EXCEPT !.pc = "write"]
        /\ \A x \in Posts \ {q} :
              post'[x] = IF x = waiters[id]
                         THEN [post[x] EXCEPT !.gone = TRUE] ELSE post[x]
    BY <1>5, RegisterEffect
  <2>2. post[q].pc = "register" /\ id \in Ids
    BY <1>5, RegisterEffect DEF PostRegister
  <2>3. p = waiters[id] => post[p].pc \in {"write", "wait"}
    BY <2>2, HttpAssumption DEF WaiterOK
  <2> HIDE DEF id
  <2>4. CASE p = q
    <3>1. post'[p].msg = post[p].msg
      BY <2>1, <2>2, <2>4, ThreadParts
    <3> QED
      BY <1>1, <2>2, <2>4, <3>1
  <2>5. CASE p # q /\ p = waiters[id]
    <3>1. post'[p] = [post[p] EXCEPT !.gone = TRUE]
      BY <2>1, <2>5
    <3>2. post'[p].msg = post[p].msg
      BY <2>3, <2>5, <3>1, ThreadParts
    <3> QED
      BY <1>1, <2>3, <2>5, <3>2
  <2>6. CASE p # q /\ p # waiters[id]
    <3>1. post'[p] = post[p]
      BY <2>1, <2>6
    <3> QED
      BY <1>1, <3>1
  <2> QED
    BY <2>4, <2>5, <2>6
<1>6. ASSUME NEW q \in Posts, PostWrite(q)
      PROVE  Closing(post[p].msg)'
  <2>1. post[q].pc = "write"
    BY <1>6 DEF PostWrite
  <2>2. /\ p # q => post'[p] = post[p]
        /\ p = q => post'[p] \in {[post[p] EXCEPT !.pc = "wait"], Idle}
    BY <1>6 DEF PostWrite, TypeOK
  <2>3. post[p].pc \in {"register", "write", "wait"} /\ post'[p].msg = post[p].msg
    BY <2>1, <2>2, IdleFacts, ThreadParts
  <2> QED
    BY <1>1, <2>3
<1>7. ASSUME NEW q \in Posts, PostWriteFails(q)
      PROVE  Closing(post[p].msg)'
  <2> DEFINE m == post[q].msg
  <2>1. /\ post'[q] = Idle
        /\ ~Waits(m) => /\ waiters' = waiters
                        /\ \A x \in Posts \ {q} : post'[x] = post[x]
        /\ Waits(m) =>
              /\ m \in Request
              /\ waiters' = [waiters EXCEPT ![m.id] = Nobody]
              /\ \A x \in Posts \ {q} :
                    post'[x] = IF x = waiters[m.id]
                               THEN [post[x] EXCEPT !.gone = TRUE]
                               ELSE post[x]
    BY <1>7, WriteFailsEffect
  <2>2. p # q
    BY <2>1, IdleFacts
  <2>3. Waits(m) /\ p = waiters[m.id] => post[p].pc \in {"write", "wait"}
    BY <2>1, HttpAssumption DEF WaiterOK, Request
  <2> HIDE DEF m
  <2>4. post[p].pc \in {"register", "write", "wait"} /\ post'[p].msg = post[p].msg
    BY <2>1, <2>2, <2>3, ThreadParts
  <2> QED
    BY <1>1, <2>4
<1>8. ASSUME NEW q \in Posts, PostReceive(q)
      PROVE  Closing(post[p].msg)'
  <2>1. post'[p] \in {post[p], Idle}
    BY <1>8 DEF PostReceive, TypeOK
  <2> QED
    BY <1>1, <2>1, IdleFacts
<1>9. CASE DispRoute
  <2>1. /\ disp.msg.id \in Ids
        /\ \A x \in Posts :
              post'[x] = IF x = waiters[disp.msg.id]
                         THEN [post[x] EXCEPT !.got = disp.msg.n] ELSE post[x]
    BY <1>9, RouteEffect
  <2>2. p = waiters[disp.msg.id] => post[p].pc \in {"write", "wait"}
    BY <2>1, HttpAssumption DEF WaiterOK
  <2>3. post[p].pc \in {"register", "write", "wait"} /\ post'[p].msg = post[p].msg
    BY <2>1, <2>2, ThreadParts
  <2> QED
    BY <1>1, <2>3
<1>10. CASE EofWaiters
  <2>1. post'[p] = IF \E i \in Ids : waiters[i] = p
                   THEN [post[p] EXCEPT !.gone = TRUE] ELSE post[p]
    BY <1>10, EofEffect
  <2>2. (\E i \in Ids : waiters[i] = p) => post[p].pc \in {"write", "wait"}
    BY HttpAssumption DEF WaiterOK
  <2>3. post[p].pc \in {"register", "write", "wait"} /\ post'[p].msg = post[p].msg
    BY <2>1, <2>2, ThreadParts
  <2> QED
    BY <1>1, <2>3
<1>11. CASE post' = post /\ waiters' = waiters
  BY <1>1, <1>11
<1> QED
  BY <1>2, <1>3, <1>4, <1>5, <1>6, <1>7, <1>8, <1>9, <1>10, <1>11,
     PostsMovedBy DEF Post

(* The three parts of AnsweredOK.                                          *)
LEMMA InputClosing ==
    ASSUME TypeOK, AnsweredOK, [Next]_vars, NEW m \in input'
    PROVE  Closing(m)'
<1>1. CASE m \in input
  <2>1. m \in PostMessage
    BY <1>1 DEF TypeOK, Request, PostMessage
  <2> QED
    BY <1>1, <2>1, ClosingKept DEF AnsweredOK
<1>2. CASE m \notin input
  <2>1. PICK p \in Posts : PostWrite(p)
    <3>1. CASE Client
      BY <1>2, <3>1 DEF Client, PostFetch, GetFetch, GetHeadersFail,
                        GetClientGone, DeleteFetch, childVars
    <3>2. CASE \E p \in Posts : Post(p)
      BY <1>2, <3>2 DEF Post, PostAct, PostPass, PostRegister, PostWriteFails,
                        PostReceive, childVars
    <3>3. CASE \E g \in Gets : Get(g)
      BY <1>2, <3>3 DEF Get, GetSlot, GetHeaders, GetShows, GetEnds, childVars
    <3>4. CASE Dispatch
      BY <1>2, <3>4 DEF Dispatch, DispAnswer, DispAsk, DispRoute, DispEvent,
                        DispUndelivered, DispEof, EofWaiters, EofEvents,
                        EofStdin, EofFinish, childVars
    <3>5. CASE Delete \/ Server \/ UNCHANGED vars
      BY <1>2, <3>5 DEF Delete, DeleteClose, DeleteDone, DeleteTimeout, Server,
                        ServerAnswers, ServerAsks, ServerExits, vars, childVars
    <3> QED
      BY <3>1, <3>2, <3>3, <3>4, <3>5 DEF Next
  <2>2. post[p].pc = "write" /\ m = post[p].msg
    BY <1>2, <2>1 DEF PostWrite
  <2>3. m \in PostMessage
    BY <2>2, ThreadParts
  <2> QED
    BY <2>2, <2>3, ClosingKept DEF AnsweredOK
<1> QED
  BY <1>1, <1>2

(* Whoever touches the output or the history of the answers.               *)
LEMMA OutputMovedBy ==
    ASSUME [Next]_vars, ~DispAnswer,
           ~\E v \in {"allow", "deny"} : DispAsk(v),
           ~\E m \in input : ServerAnswers(m),
           ~\E id \in ServerIds : ServerAsks(id)
    PROVE  output' = output
<1>1. CASE Client
  BY <1>1 DEF Client, PostFetch, GetFetch, GetHeadersFail, GetClientGone,
              DeleteFetch, childVars
<1>2. CASE \E p \in Posts : Post(p)
  BY <1>2 DEF Post, PostAct, PostPass, PostRegister, PostWrite, PostWriteFails,
              PostReceive, childVars
<1>3. CASE \E g \in Gets : Get(g)
  BY <1>3 DEF Get, GetSlot, GetHeaders, GetShows, GetEnds, childVars
<1>4. CASE Dispatch
  BY <1>4 DEF Dispatch, DispRoute, DispEvent, DispUndelivered, DispEof,
              EofWaiters, EofEvents, EofStdin, EofFinish, childVars
<1>5. CASE Delete \/ Server \/ UNCHANGED vars
  BY <1>5 DEF Delete, DeleteClose, DeleteDone, DeleteTimeout, Server,
              ServerExits, vars, childVars
<1> QED
  BY <1>1, <1>2, <1>3, <1>4, <1>5 DEF Next

LEMMA AnsweredMovedBy ==
    ASSUME TypeOK, [Next]_vars, ~\E m \in input : ServerAnswers(m)
    PROVE  hist'.answered = hist.answered
<1>0. hist \in History
  BY DEF TypeOK
<1>1. CASE Client
  BY <1>0, <1>1 DEF Client, PostFetch, GetFetch, GetHeadersFail, GetClientGone,
                    Lose, DeleteFetch, History
<1>2. CASE \E p \in Posts : Post(p)
  BY <1>0, <1>2 DEF Post, PostAct, PostPass, PostRegister, PostWrite,
                    PostWriteFails, PostReceive, History
<1>3. CASE \E g \in Gets : Get(g)
  BY <1>0, <1>3 DEF Get, GetSlot, GetHeaders, GetShows, GetEnds, History
<1>4. CASE Dispatch
  BY <1>4 DEF Dispatch, DispAnswer, DispAsk, DispRoute, DispEvent,
              DispUndelivered, DispEof, EofWaiters, EofEvents, EofStdin,
              EofFinish
<1>5. CASE Delete \/ Server \/ UNCHANGED vars
  BY <1>0, <1>5 DEF Delete, DeleteClose, DeleteDone, DeleteTimeout, Server,
                    ServerAsks, ServerExits, vars, History
<1> QED
  BY <1>1, <1>2, <1>3, <1>4, <1>5 DEF Next

(* An answer in the output that still holds its slot.                      *)
Held(n) ==
    \E j \in 1 .. Len(output) :
        /\ output[j].kind = "answer" /\ output[j].n = n
        /\ pending[output[j].id] = n

LEMMA AnsweredStep ==
    ASSUME TypeOK, ThreadOK, WaiterOK, AnsweredOK, [Next]_vars
    PROVE  AnsweredOK'
<1>1. ASSUME NEW n \in hist.answered
      PROVE  Effect("agent", n, "done") \in log' \/ Held(n)'
  <2>1. n \in Nat
    BY HistoryParts
  <2>2. CASE Effect("agent", n, "done") \in log
    BY <2>2, LogGrows
  <2>3. CASE Held(n)
    <3>1. PICK j \in 1 .. Len(output) :
            /\ output[j].kind = "answer" /\ output[j].n = n
            /\ pending[output[j].id] = n
      BY <2>3 DEF Held
    <3>2. output \in Seq(Answer \cup Ask)
      BY DEF TypeOK
    <3>3. output[j] \in Answer
      BY <3>1, <3>2, ElementOfSeq DEF Ask
    <3>4. output[j].id \in Ids /\ n \in Nat \ {0}
      BY <3>1, <3>3 DEF Answer
    <3>5. \/ pending'[output[j].id] = n
          \/ Effect("agent", n, "done") \in log'
      BY <3>1, <3>4, ClosingStable
    <3>6. CASE DispAnswer \/ \E v \in {"allow", "deny"} : DispAsk(v)
      <4>1. /\ output # << >> /\ output' = Tail(output)
            /\ DispAnswer \/ Head(output).kind = "ask"
        BY <3>6 DEF DispAnswer, DispAsk
      <4>2. CASE j = 1
        <5>1. Head(output) = output[j] /\ DispAnswer
          BY <3>1, <4>1, <4>2, OutputParts
        <5> QED
          BY <3>1, <3>4, <5>1 DEF DispAnswer
      <4>3. CASE j # 1
        <5>1. /\ j - 1 \in 1 .. Len(output) - 1 /\ j - 1 + 1 = j
              /\ Len(output') = Len(output) - 1
          BY <4>1, <4>3, OutputParts
        <5>2. output'[j - 1] = output[j]
          BY <4>1, <5>1, OutputParts
        <5> QED
          BY <3>1, <3>5, <5>1, <5>2 DEF Held
      <4> QED
        BY <4>2, <4>3
    <3>7. ASSUME NEW m, output' = Append(output, m)
          PROVE  Effect("agent", n, "done") \in log' \/ Held(n)'
      <4>1. j \in 1 .. Len(output') /\ output'[j] = output[j]
        BY <3>2, <3>7, AppendProperties, LenProperties
      <4> QED
        BY <3>1, <3>5, <4>1 DEF Held
    <3>8. CASE output' = output
      BY <3>1, <3>5, <3>8 DEF Held
    <3> QED
      BY <3>6, <3>7, <3>8, OutputMovedBy DEF ServerAnswers, ServerAsks
  <2> QED
    BY <2>2, <2>3 DEF AnsweredOK, Held
<1>2. ASSUME NEW n \in hist'.answered \ hist.answered
      PROVE  Effect("agent", n, "done") \in log' \/ Held(n)'
  <2>1. PICK m \in input : ServerAnswers(m)
    BY <1>2, AnsweredMovedBy
  <2>2. m \in Request /\ m.kind = "act" /\ m.n = n
    BY <1>2, <2>1, HistoryParts DEF ServerAnswers, TypeOK, History
  <2>3. pending[m.id] = n \/ Effect("agent", n, "done") \in log
    BY <2>2, HttpAssumption DEF AnsweredOK, Closing, Request
  <2>4. pending' = pending /\ log' = log
    BY <2>1 DEF ServerAnswers, sessVars
  <2>5. /\ Len(output') = Len(output) + 1 /\ Len(output) \in Nat
        /\ output'[Len(output) + 1] = Message("answer", m.id, m.n)
    BY <2>1, AppendProperties, LenProperties DEF ServerAnswers, TypeOK
  <2>6. Len(output) + 1 \in 1 .. Len(output')
    BY <2>5
  <2> QED
    BY <2>2, <2>3, <2>4, <2>5, <2>6 DEF Held, Message
<1>3. \A p \in Posts :
          post'[p].pc \in {"register", "write", "wait"} => Closing(post[p].msg)'
  BY ThreadsClosing
<1>4. \A m \in input' : Closing(m)'
  BY InputClosing
<1> QED
  BY <1>1, <1>2, <1>3, <1>4 DEF AnsweredOK, Held

(* When DELETE returns 200, everything the server answered is in the log,  *)
(* down to the last buffered line, whatever ids the agent reuses and       *)
(* whoever dies, as long as the server writes text: a line that is not     *)
(* UTF-8 ends the reading early (finished, handle_delete).                 *)
THEOREM DeletedIsAnswered ==
    ASSUME "bad_line" \notin Faults
    PROVE  Spec => []DeletedHoldsAnswers
<1> DEFINE Inv == TypeOK /\ ThreadOK /\ WaiterOK /\ AnsweredOK /\ EndOK
<1>1. Init => Inv
  BY InitType, InitThreads, InitAnswered
<1>2. Inv /\ [Next]_vars => Inv'
  BY TypeStep, ThreadStep, AnsweredStep, EndStep
<1>3. Inv => DeletedHoldsAnswers
  <2> SUFFICES ASSUME Inv, del = "200"
               PROVE  \A n \in hist.answered : Effect("agent", n, "done") \in log
    BY DEF DeletedHoldsAnswers
  <2>1. output = << >>
    BY DEF EndOK, Alive
  <2>2. Len(output) = 0
    BY <2>1, EmptySeq
  <2> QED
    BY <2>2 DEF AnsweredOK
<1> QED
  BY <1>1, <1>2, <1>3, PTL DEF Spec

-----------------------------------------------------------------------------
(***************************************************************************)
(* A request of the server does not stay recorded as in flight when it     *)
(* reached nobody.                                                         *)
(***************************************************************************)

(* The channels, the slots of the server's requests, the dispatcher and    *)
(* what the client saw are left alone.                                     *)
streamVars == <<get, toAgent, disp, hist.shown, hist.lost>>

LEMMA StreamsMovedBy ==
    ASSUME TypeOK, [Next]_vars,
           ~\E p \in Posts : PostPass(p),
           ~\E g \in Gets : \/ GetFetch(g) \/ GetHeadersFail(g)
                            \/ GetClientGone(g) \/ Get(g),
           ~Dispatch
    PROVE  UNCHANGED streamVars
<1>0. hist \in History
  BY DEF TypeOK
<1>1. CASE Client
  BY <1>0, <1>1 DEF Client, PostFetch, DeleteFetch, streamVars, History, sessVars
<1>2. CASE \E p \in Posts : Post(p)
  BY <1>0, <1>2 DEF Post, PostAct, PostRegister, PostWrite, PostWriteFails,
                    PostReceive, streamVars, History, sessVars
<1>3. CASE Delete \/ Server \/ UNCHANGED vars
  BY <1>0, <1>3 DEF Delete, DeleteClose, DeleteDone, DeleteTimeout, Server,
                    ServerAnswers, ServerAsks, ServerExits, vars, streamVars,
                    History, sessVars
<1> QED
  BY <1>1, <1>2, <1>3 DEF Next

(* What leaves a channel was shown to the client or lost with it.          *)
LEMMA GetEffect ==
    ASSUME TypeOK, StreamOK, NEW g \in Gets,
           GetFetch(g) \/ GetHeadersFail(g) \/ GetClientGone(g) \/ Get(g)
    PROVE  /\ toAgent' = toAgent /\ disp' = disp
           /\ \A x \in Gets \ {g} : get'[x] = get[x]
           /\ get'[g].pc \in {"idle", "slot"} => get'[g].chan = << >>
           /\ Range(get[g].chan) \subseteq
                 Range(get'[g].chan) \cup hist'.shown \cup hist'.lost
           /\ hist.shown \subseteq hist'.shown /\ hist.lost \subseteq hist'.lost
<1>0. /\ hist \in History
      /\ get[g].pc \in {"idle", "slot", "headers", "stream"}
      /\ get[g].chan \in Seq(Nat)
      /\ get[g] \in [pc : {"idle", "slot", "headers", "stream"}, chan : Seq(Nat)]
  BY DEF TypeOK, GetThread
<1>1. Range(<< >>) = {}
  BY EmptySeq DEF Range
<1>2. CASE GetFetch(g)
  <2>1. get[g].chan = << >>
    BY <1>2 DEF GetFetch, StreamOK
  <2>2. get'[g].chan = << >> /\ hist'.shown = hist.shown /\ hist'.lost = hist.lost
    BY <1>0, <1>2 DEF GetFetch, TypeOK, History
  <2>3. /\ toAgent' = toAgent /\ disp' = disp
        /\ \A x \in Gets \ {g} : get'[x] = get[x]
    BY <1>2 DEF GetFetch, TypeOK, sessVars
  <2> QED
    BY <1>1, <2>1, <2>2, <2>3
<1>3. CASE GetHeadersFail(g) \/ GetClientGone(g)
  <2>1. /\ get'[g].chan = << >> /\ hist'.shown = hist.shown
        /\ hist'.lost = hist.lost \cup Range(get[g].chan)
        /\ \A x \in Gets \ {g} : get'[x] = get[x]
    BY <1>0, <1>3 DEF GetHeadersFail, GetClientGone, Lose, TypeOK, History
  <2>2. toAgent' = toAgent /\ disp' = disp
    BY <1>3 DEF GetHeadersFail, GetClientGone, sessVars
  <2> QED
    BY <2>1, <2>2
<1>4. CASE GetShows(g)
  <2>1. /\ get'[g].chan = Tail(get[g].chan) /\ hist'.lost = hist.lost
        /\ hist'.shown = hist.shown \cup {Head(get[g].chan)}
        /\ \A x \in Gets \ {g} : get'[x] = get[x]
        /\ get'[g].pc = "stream"
    BY <1>0, <1>4 DEF GetShows, TypeOK, History
  <2>2. toAgent' = toAgent /\ disp' = disp /\ get[g].chan # << >>
    BY <1>4 DEF GetShows, sessVars
  <2>3. Range(get[g].chan) \subseteq Range(Tail(get[g].chan)) \cup {Head(get[g].chan)}
    <3> DEFINE c == get[g].chan
    <3> SUFFICES ASSUME NEW i \in 1 .. Len(c)
                 PROVE  c[i] = Head(c) \/ c[i] \in Range(Tail(c))
      BY <1>0, LenProperties DEF Range
    <3>1. /\ Head(c) = c[1] /\ Tail(c) \in Seq(Nat) /\ Len(c) \in Nat \ {0}
          /\ Len(Tail(c)) = Len(c) - 1
          /\ \A j \in 1 .. Len(Tail(c)) : Tail(c)[j] = c[j + 1]
      BY <1>0, <2>2, HeadTailProperties, EmptySeq, LenProperties
    <3>2. CASE i = 1
      BY <3>1, <3>2
    <3>3. CASE i # 1
      <4>1. i - 1 \in 1 .. Len(Tail(c)) /\ i - 1 + 1 = i
        BY <3>1, <3>3
      <4>2. Tail(c)[i - 1] = c[i] /\ i - 1 \in DOMAIN Tail(c)
        BY <3>1, <4>1, LenProperties
      <4> QED
        BY <4>2 DEF Range
    <3> QED
      BY <3>2, <3>3
  <2> QED
    BY <2>1, <2>2, <2>3
<1>5. CASE GetSlot(g) \/ GetHeaders(g) \/ GetEnds(g)
  <2>1. /\ toAgent' = toAgent /\ disp' = disp /\ hist' = hist
        /\ get'[g].chan = get[g].chan
        /\ \A x \in Gets \ {g} : get'[x] = get[x]
    BY <1>0, <1>5 DEF GetSlot, GetHeaders, GetEnds, TypeOK, sessVars
  <2>2. get'[g].pc \in {"idle", "slot"} => get[g].chan = << >>
    BY <1>0, <1>5 DEF GetSlot, GetHeaders, GetEnds, TypeOK, StreamOK
  <2> QED
    BY <2>1, <2>2
<1> QED
  BY <1>2, <1>3, <1>4, <1>5 DEF Get

(* The end of the session leaves channels and slots alone.                 *)
LEMMA EofStreams ==
    ASSUME TypeOK, DispEof \/ EofWaiters \/ EofEvents \/ EofStdin \/ EofFinish
    PROVE  /\ get' = get /\ toAgent' = toAgent /\ hist' = hist
           /\ disp.pc \notin {"event", "undelivered"}
           /\ disp'.pc \notin {"event", "undelivered"}
BY DEF DispEof, EofWaiters, EofEvents, EofStdin, EofFinish, sessVars, TypeOK,
       Dispatcher

LEMMA StreamStep ==
    ASSUME TypeOK, StreamOK, [Next]_vars
    PROVE  StreamOK'
<1>1. CASE \E p \in Posts : PostPass(p)
  BY <1>1 DEF PostPass, StreamOK, TypeOK, Dispatcher, Ask
<1>2. ASSUME NEW g \in Gets,
             GetFetch(g) \/ GetHeadersFail(g) \/ GetClientGone(g) \/ Get(g)
      PROVE  StreamOK'
  BY <1>2, GetEffect DEF StreamOK
<1>3. CASE Dispatch
  <2>1. CASE DispAnswer \/ DispRoute
    BY <2>1 DEF DispAnswer, DispRoute, StreamOK, sessVars
  <2>2. ASSUME NEW v \in {"allow", "deny"}, DispAsk(v)
        PROVE  StreamOK'
    <3>1. Head(output) \in Ask
      BY <2>2, OutputParts DEF DispAsk
    <3> QED
      BY <2>2, <3>1 DEF DispAsk, StreamOK, TypeOK, Ask
  <2>3. CASE DispEvent
    <3>1. disp.msg \in Ask
      BY <2>3 DEF DispEvent, TypeOK, Dispatcher
    <3>2. CASE Listening
      <4>1. /\ disp'.pc = "read" /\ events \in Gets
            /\ get[events].pc \in {"headers", "stream"}
        BY <2>3, <3>2 DEF DispEvent, Listening, TypeOK
      <4>2. /\ \A x \in Gets \ {events} : get'[x] = get[x]
            /\ get'[events].pc = get[events].pc
        BY <2>3, <3>2, <4>1 DEF DispEvent, TypeOK, GetThread
      <4> QED
        BY <4>1, <4>2 DEF StreamOK
    <3>3. CASE ~Listening
      BY <2>3, <3>3 DEF DispEvent, StreamOK, TypeOK, Dispatcher, sessVars
    <3> QED
      BY <3>2, <3>3
  <2>4. CASE DispUndelivered
    BY <2>4 DEF DispUndelivered, StreamOK
  <2>5. CASE DispEof \/ EofWaiters \/ EofEvents \/ EofStdin \/ EofFinish
    BY <2>5, EofStreams DEF StreamOK
  <2> QED
    BY <1>3, <2>1, <2>2, <2>3, <2>4, <2>5 DEF Dispatch
<1>4. CASE UNCHANGED streamVars
  BY <1>4 DEF streamVars, StreamOK
<1> QED
  BY <1>1, <1>2, <1>3, <1>4, StreamsMovedBy

LEMMA RangeAppend ==
    ASSUME NEW s \in Seq(Nat), NEW n \in Nat
    PROVE  Range(s) \subseteq Range(Append(s, n)) /\ n \in Range(Append(s, n))
<1> DEFINE t == Append(s, n)
<1>1. /\ t \in Seq(Nat) /\ Len(t) = Len(s) + 1 /\ Len(s) \in Nat
      /\ \A i \in 1 .. Len(s) : t[i] = s[i]
      /\ t[Len(s) + 1] = n
  BY AppendProperties, LenProperties
<1> HIDE DEF t
<1>2. DOMAIN s = 1 .. Len(s) /\ DOMAIN t = 1 .. Len(s) + 1
  BY <1>1, LenProperties
<1>3. Range(s) \subseteq Range(t) /\ n \in Range(t)
  BY <1>1, <1>2, SMTT(30) DEF Range
<1> QED
  BY <1>3 DEF t

LEMMA FollowedStep ==
    ASSUME TypeOK, StreamOK, Followed, [Next]_vars
    PROVE  Followed'
<1>1. CASE \E p \in Posts : PostPass(p)
  <2>1. PICK p \in Posts : PostPass(p)
    BY <1>1
  <2>2. \A id \in ServerIds : toAgent'[id] \in {0, toAgent[id]}
    BY <2>1 DEF PostPass, TypeOK
  <2>3. get' = get /\ disp' = disp /\ hist' = hist
    BY <2>1 DEF PostPass
  <2> QED
    BY <2>2, <2>3 DEF Followed
<1>2. ASSUME NEW g \in Gets,
             GetFetch(g) \/ GetHeadersFail(g) \/ GetClientGone(g) \/ Get(g)
      PROVE  Followed'
  BY <1>2, GetEffect DEF Followed
<1>3. CASE Dispatch
  <2>1. CASE DispAnswer \/ DispRoute
    <3>1. /\ get' = get /\ toAgent' = toAgent /\ hist' = hist
          /\ disp.pc \notin {"event", "undelivered"}
      BY <2>1 DEF DispAnswer, DispRoute, sessVars
    <3> QED
      BY <3>1 DEF Followed
  <2>2. ASSUME NEW v \in {"allow", "deny"}, DispAsk(v)
        PROVE  Followed'
    <3>1. Head(output) \in Ask /\ disp.pc = "read" /\ get' = get /\ hist' = hist
      BY <2>2, OutputParts DEF DispAsk
    <3>2. \/ toAgent' = toAgent /\ disp' = disp
          \/ /\ disp' = [pc |-> "event", msg |-> Head(output)]
             /\ toAgent' = [toAgent EXCEPT ![Head(output).id] = Head(output).n]
      BY <2>2 DEF DispAsk
    <3> QED
      BY <3>1, <3>2 DEF Followed, TypeOK, Ask
  <2>3. CASE DispEvent
    <3>1. /\ disp.msg \in Ask /\ disp.pc = "event"
          /\ toAgent' = toAgent /\ hist' = hist
      BY <2>3 DEF DispEvent, TypeOK, Dispatcher, sessVars
    <3>2. CASE Listening
      <4>1. /\ events \in Gets /\ get[events].chan \in Seq(Nat)
            /\ disp.msg.n \in Nat
        BY <3>1, <3>2 DEF Listening, TypeOK, GetThread, Ask
      <4>2. /\ \A x \in Gets \ {events} : get'[x] = get[x]
            /\ get'[events].chan = Append(get[events].chan, disp.msg.n)
        BY <2>3, <3>2, <4>1 DEF DispEvent, TypeOK, GetThread
      <4>3. /\ Range(get[events].chan) \subseteq Range(get'[events].chan)
            /\ disp.msg.n \in Range(get'[events].chan)
        BY <4>1, <4>2, RangeAppend
      <4>4. toAgent[disp.msg.id] \in {0, disp.msg.n}
        BY <3>1 DEF StreamOK
      <4> QED
        BY <3>1, <4>1, <4>2, <4>3, <4>4 DEF Followed
    <3>3. CASE ~Listening
      <4>1. get' = get /\ disp'.pc = "undelivered" /\ disp'.msg = disp.msg
        BY <2>3, <3>3 DEF DispEvent, TypeOK, Dispatcher
      <4> QED
        BY <3>1, <4>1 DEF Followed
    <3> QED
      BY <3>2, <3>3
  <2>4. CASE DispUndelivered
    <3>1. /\ disp.msg \in Ask /\ get' = get /\ hist' = hist
          /\ toAgent' = [toAgent EXCEPT ![disp.msg.id] = 0]
      BY <2>4 DEF DispUndelivered, TypeOK, Dispatcher
    <3> QED
      BY <3>1 DEF Followed, TypeOK, Ask
  <2>5. CASE DispEof \/ EofWaiters \/ EofEvents \/ EofStdin \/ EofFinish
    BY <2>5, EofStreams DEF Followed
  <2> QED
    BY <1>3, <2>1, <2>2, <2>3, <2>4, <2>5 DEF Dispatch
<1>4. CASE UNCHANGED streamVars
  BY <1>4 DEF streamVars, Followed
<1> QED
  BY <1>1, <1>2, <1>3, <1>4, StreamsMovedBy

LEMMA InitStreams == Init => StreamOK /\ Followed
BY DEF Init, StreamOK, Followed, NoMessage, Message

(* However the stream's client comes and goes, a slot of                   *)
(* `pending_to_agent' is held by a request that is on its way to the       *)
(* client, that the client received, or that a stream lost together with   *)
(* its client (dispatch_from_server).                                      *)
THEOREM NothingStranded == Spec => []NotStranded
<1> DEFINE Inv == TypeOK /\ ThreadOK /\ WaiterOK /\ StreamOK /\ Followed
<1>1. Init => Inv
  BY InitType, InitThreads, InitStreams
<1>2. Inv /\ [Next]_vars => Inv'
  BY TypeStep, ThreadStep, StreamStep, FollowedStep
<1>3. Inv => NotStranded
  BY DEF Followed, NotStranded
<1> QED
  BY <1>1, <1>2, <1>3, PTL DEF Spec

-----------------------------------------------------------------------------
(***************************************************************************)
(* A POST carries the answer to its own request, after its effect is       *)
(* recorded, as long as the agent does not reuse the id of a request in    *)
(* progress.                                                               *)
(***************************************************************************)

(* Parts of the state a request in flight depends on.                      *)
wayVars == <<waiters, input, output, disp>>

(* Where the answers of the output go when its first message is read, and  *)
(* where they come from when one is written.                               *)
LEMMA TailAnswers ==
    ASSUME TypeOK, output # << >>, output' = Tail(output)
    PROVE  \A j \in AnswersAt' :
              /\ j + 1 \in AnswersAt /\ output'[j] = output[j + 1]
              /\ j \in Nat /\ j + 1 # 1
<1>1. /\ Len(Tail(output)) = Len(output) - 1 /\ Len(output) \in Nat \ {0}
      /\ \A j \in 1 .. Len(output) - 1 : Tail(output)[j] = output[j + 1]
  BY OutputParts
<1> QED
  BY <1>1 DEF AnswersAt

LEMMA AppendAnswers ==
    ASSUME TypeOK, NEW m \in Answer \cup Ask, output' = Append(output, m)
    PROVE  \A j \in AnswersAt' :
              \/ j \in AnswersAt /\ output'[j] = output[j]
              \/ j = Len(output) + 1 /\ output'[j] = m /\ m.kind = "answer"
<1>1. /\ Len(output') = Len(output) + 1 /\ Len(output) \in Nat
      /\ \A j \in 1 .. Len(output) : output'[j] = output[j]
      /\ output'[Len(output) + 1] = m
  BY AppendProperties, LenProperties DEF TypeOK
<1> QED
  BY <1>1 DEF AnswersAt

(* Messages on their way have ids of requests.                             *)
LEMMA WayIds ==
    ASSUME TypeOK
    PROVE  /\ \A m \in input : m.id \in Ids /\ m \in Request
           /\ \A j \in AnswersAt : output[j].id \in Ids /\ output[j] \in Answer
           /\ disp.pc = "route" => disp.msg.id \in Ids /\ disp.msg \in Answer
<1>1. \A j \in AnswersAt : output[j] \in Answer
  <2> SUFFICES ASSUME NEW j \in AnswersAt PROVE output[j] \in Answer
    OBVIOUS
  <2>1. output[j] \in Answer \cup Ask /\ output[j].kind = "answer"
    BY ElementOfSeq DEF AnswersAt, TypeOK
  <2> QED
    BY <2>1 DEF Ask
<1> QED
  BY <1>1 DEF TypeOK, Request, Answer, Dispatcher

(* One thread that nobody waits for moves: requests in flight are still    *)
(* awaited.                                                                *)
LEMMA OneThreadFlight ==
    ASSUME TypeOK, WaiterOK, OwnInv, NEW p \in Posts,
           \A x \in Posts \ {p} : post'[x] = post[x],
           \A i \in Ids : waiters[i] # p,
           UNCHANGED wayVars
    PROVE  InFlightAwaited' /\ InFlightOnce'
<1>1. Alive' <=> Alive
  BY DEF Alive, wayVars
<1>2. AnswersAt' = AnswersAt
  BY DEF AnswersAt, wayVars
<1>3. ASSUME NEW m, m.id \in Ids, Awaited(m) PROVE Awaited(m)'
  <2>1. waiters[m.id] \in Posts \ {p}
    BY <1>3 DEF Awaited, TypeOK
  <2> QED
    BY <1>3, <2>1 DEF Awaited, wayVars
<1>4. InFlightOnce'
  BY <1>1, <1>2 DEF OwnInv, InFlightOnce, wayVars
<1>5. ASSUME Alive
      PROVE  /\ \A m \in input : Awaited(m)'
             /\ \A j \in AnswersAt : Awaited(output[j])'
             /\ disp.pc = "route" => Awaited(disp.msg)'
  <2>1. /\ \A m \in input : m.id \in Ids /\ Awaited(m)
        /\ \A j \in AnswersAt : output[j].id \in Ids /\ Awaited(output[j])
        /\ disp.pc = "route" => disp.msg.id \in Ids /\ Awaited(disp.msg)
    BY <1>5, WayIds DEF OwnInv, InFlightAwaited
  <2>2. /\ input' = input /\ output' = output /\ disp' = disp
        /\ waiters' = waiters
    BY DEF wayVars
  <2> QED
    BY <2>1, <2>2, <1>3 DEF Awaited
<1>6. InFlightAwaited'
  BY <1>1, <1>2, <1>5 DEF InFlightAwaited, wayVars, Awaited
<1> QED
  BY <1>4, <1>6

(* A message on its way has a waiter whose request bears its id.           *)
LEMMA AwaitedBy ==
    ASSUME TypeOK, WaiterOK, NEW m, m.id \in Ids, Awaited(m)
    PROVE  /\ waiters[m.id] \in Posts /\ Asking(waiters[m.id])
           /\ post[waiters[m.id]].msg.id = m.id
           /\ post[waiters[m.id]].pc = "wait" /\ post[waiters[m.id]].got = 0
BY DEF TypeOK, WaiterOK, Awaited, Asking

LEMMA FetchOwn ==
    ASSUME TypeOK, ThreadOK, WaiterOK, OwnInv, NEW p \in Posts, NEW kind, NEW id,
           PostFetch(p, kind, id), ~hist'.reused
    PROVE  OwnInv'
<1>1. post[p].pc = "idle" /\ UNCHANGED <<wayVars, pending, log>>
  BY DEF PostFetch, wayVars, sessVars, childVars
<1>2. \A x \in Posts \ {p} : post'[x] = post[x]
  BY DEF PostFetch, TypeOK
<1>3. /\ post'[p].pc \in {"idle", "handle"} /\ post'[p].got = 0
      /\ post'[p].pc = "handle" =>
            post'[p].msg.kind = kind /\ post'[p].msg.id = id
  BY IdleFacts DEF PostFetch, TypeOK, Serving, Message
<1>4. ~(kind # "answer" /\ Busy(id))
  <2>1. hist \in History
    BY DEF TypeOK
  <2>2. hist'.reused = (hist.reused \/ (kind # "answer" /\ Busy(id)))
    BY <2>1 DEF PostFetch, History
  <2> QED
    BY <2>2
<1>5. OneAsking'
  <2> SUFFICES ASSUME NEW x \in Posts, NEW y \in Posts,
                      Asking(x)', Asking(y)',
                      post'[x].msg.id = post'[y].msg.id
               PROVE  x = y
    BY DEF OneAsking
  <2>1. CASE x # p /\ y # p
    BY <1>2, <2>1 DEF OwnInv, OneAsking, Asking, Waits
  <2>2. ASSUME NEW z \in Posts \ {p}, Asking(p)', Asking(z)',
               post'[p].msg.id = post'[z].msg.id
        PROVE  FALSE
    <3>1. /\ kind # "answer" /\ id # NoId
          /\ post[z].pc # "idle" /\ post[z].msg.kind # "answer"
          /\ post[z].msg.id = id
      BY <1>2, <1>3, <2>2 DEF Asking, Waits
    <3> QED
      BY <1>4, <3>1 DEF Busy
  <2> QED
    BY <2>1, <2>2
<1>6. InFlightAwaited' /\ InFlightOnce'
  BY <1>1, <1>2, NotWaiter, OneThreadFlight
<1>7. Registered'
  BY <1>1, <1>2, <1>3 DEF OwnInv, Registered, Alive, Waits, wayVars
<1>8. Recorded'
  BY <1>1, <1>2, <1>3 DEF OwnInv, Recorded, Alive, Waits, wayVars
<1>9. GotOwn'
  BY <1>1, <1>2, <1>3 DEF OwnInv, GotOwn
<1> QED
  BY <1>5, <1>6, <1>7, <1>8, <1>9 DEF OwnInv

LEMMA ActOwn ==
    ASSUME TypeOK, ThreadOK, WaiterOK, OwnInv, NEW p \in Posts,
           NEW v \in {"allow", "deny"}, PostAct(p, v)
    PROVE  OwnInv'
<1> DEFINE m == post[p].msg
<1>1. /\ post[p].pc = "handle" /\ m.kind = "act" /\ UNCHANGED wayVars
      /\ log \subseteq log'
  BY DEF PostAct, wayVars, childVars
<1>2. \A x \in Posts \ {p} : post'[x] = post[x]
  BY DEF PostAct, TypeOK
<1>3. /\ m \in PostMessage /\ m.id \in Ids \cup {NoId} /\ post[p].got = 0
      /\ post[p] \in [pc : {"handle", "register", "write", "wait"},
                      msg : PostMessage, got : Nat, gone : BOOLEAN]
  BY <1>1, ThreadParts DEF PostMessage, ThreadOK
<1>4. \/ post'[p] = Idle /\ pending' = pending
      \/ /\ m.id = NoId /\ pending' = pending
         /\ post'[p] = [post[p] EXCEPT !.pc = "write"]
      \/ /\ m.id \in Ids /\ pending' = [pending EXCEPT ![m.id] = m.n]
         /\ post'[p] = [post[p] EXCEPT !.pc = "register"]
  BY <1>3 DEF PostAct, TypeOK
<1> HIDE DEF m
<1>5. /\ post'[p].got = 0 /\ post'[p].pc # "wait"
      /\ post'[p].pc # "idle" => post'[p].msg = m
      /\ post'[p].pc = "write" => ~Waits(m)
  BY <1>3, <1>4, IdleFacts DEF Waits, m
<1>6. OneAsking'
  BY <1>1, <1>2, <1>5 DEF OwnInv, OneAsking, Asking, Waits, m
<1>7. InFlightAwaited' /\ InFlightOnce'
  BY <1>1, <1>2, NotWaiter, OneThreadFlight
<1>8. Registered'
  BY <1>1, <1>2, <1>5 DEF OwnInv, Registered, Alive, Waits, wayVars
<1>9. Recorded'
  <2> SUFFICES ASSUME Alive', NEW x \in Posts,
                      post'[x].pc \in {"register", "write", "wait"},
                      post'[x].msg.kind = "act", Waits(post'[x].msg),
                      post'[x].got = 0
               PROVE  IF disp'.pc = "route" /\ disp'.msg.id = post'[x].msg.id
                      THEN Effect("agent", post'[x].msg.n, "done") \in log'
                      ELSE pending'[post'[x].msg.id] = post'[x].msg.n
    BY DEF Recorded, Waits
  <2>0. Alive /\ disp' = disp
    BY <1>1 DEF Alive, wayVars
  <2>1. CASE x # p
    <3>1. post'[x] = post[x] /\ Asking(x)
      BY <1>2, <2>1 DEF Asking, Waits
    <3>2. Waits(m) => post[x].msg.id # m.id
      BY <1>1, <2>1, <3>1 DEF OwnInv, OneAsking, Asking, m
    <3>3. post[x].msg \in Request
      BY <3>1, ThreadParts DEF Asking
    <3>4. pending'[post[x].msg.id] = pending[post[x].msg.id]
      BY <1>1, <1>4, <3>2, <3>3, HttpAssumption DEF Waits, TypeOK, Request
    <3> QED
      BY <1>1, <2>0, <3>1, <3>4 DEF OwnInv, Recorded
  <2>2. CASE x = p
    <3>1. /\ post'[x].msg = m /\ m.id \in Ids
          /\ pending' = [pending EXCEPT ![m.id] = m.n]
      BY <1>4, <1>5, <2>2, IdleFacts DEF Waits
    <3>2. ~(disp.pc = "route" /\ disp.msg.id = m.id)
      <4> SUFFICES ASSUME disp.pc = "route", disp.msg.id = m.id PROVE FALSE
        OBVIOUS
      <4>1. Awaited(disp.msg) /\ disp.msg.id \in Ids
        BY <2>0, <3>1 DEF OwnInv, InFlightAwaited
      <4>2. PICK q \in Posts : /\ Asking(q) /\ post[q].msg.id = m.id
                               /\ post[q].pc = "wait"
        BY <4>1, AwaitedBy
      <4>3. Asking(p)
        BY <1>1, <3>1, HttpAssumption DEF Asking, Waits, m
      <4> QED
        BY <1>1, <4>2, <4>3 DEF OwnInv, OneAsking, m
    <3> QED
      BY <2>0, <3>1, <3>2 DEF TypeOK
  <2> QED
    BY <2>1, <2>2
<1>10. GotOwn'
  BY <1>1, <1>2, <1>5 DEF OwnInv, GotOwn
<1> QED
  BY <1>6, <1>7, <1>8, <1>9, <1>10 DEF OwnInv

LEMMA PassOwn ==
    ASSUME TypeOK, ThreadOK, WaiterOK, OwnInv, NEW p \in Posts, PostPass(p)
    PROVE  OwnInv'
<1> DEFINE m == post[p].msg
<1>1. /\ post[p].pc = "handle" /\ m.kind # "act" /\ UNCHANGED wayVars
      /\ log \subseteq log' /\ pending' = pending
  BY DEF PostPass, wayVars, childVars
<1>2. \A x \in Posts \ {p} : post'[x] = post[x]
  BY DEF PostPass, TypeOK
<1>3. /\ post[p].got = 0
      /\ post[p] \in [pc : {"handle", "register", "write", "wait"},
                      msg : PostMessage, got : Nat, gone : BOOLEAN]
  BY <1>1, ThreadParts DEF ThreadOK
<1>4. \/ ~Waits(m) /\ post'[p] = [post[p] EXCEPT !.pc = "write"]
      \/ post'[p] = [post[p] EXCEPT !.pc = "register"]
  BY DEF PostPass, TypeOK, Waits
<1>5. /\ post'[p].got = 0 /\ post'[p].pc # "wait" /\ post'[p].msg = m
      /\ post'[p].pc = "write" => ~Waits(m)
  BY <1>3, <1>4
<1> HIDE DEF m
<1>6. OneAsking'
  BY <1>1, <1>2, <1>5 DEF OwnInv, OneAsking, Asking, Waits, m
<1>7. InFlightAwaited' /\ InFlightOnce'
  BY <1>1, <1>2, NotWaiter, OneThreadFlight
<1>8. Registered'
  BY <1>1, <1>2, <1>5 DEF OwnInv, Registered, Alive, Waits, wayVars
<1>9. Recorded'
  BY <1>1, <1>2, <1>5 DEF OwnInv, Recorded, Alive, Waits, wayVars
<1>10. GotOwn'
  BY <1>1, <1>2, <1>5 DEF OwnInv, GotOwn
<1> QED
  BY <1>6, <1>7, <1>8, <1>9, <1>10 DEF OwnInv

(* A request that nobody answers yet has nothing under its id on its way.  *)
LEMMA NothingUnder ==
    ASSUME TypeOK, WaiterOK, OwnInv, Alive, NEW p \in Posts, Asking(p),
           post[p].pc # "wait", NEW i, i = post[p].msg.id
    PROVE  /\ \A m \in input : m.id # i
           /\ \A j \in AnswersAt : output[j].id # i
           /\ disp.pc = "route" => disp.msg.id # i
<1>1. ASSUME NEW m, m.id \in Ids, Awaited(m), m.id = i PROVE FALSE
  BY <1>1, AwaitedBy DEF OwnInv, OneAsking
<1>2. /\ \A m \in input : m.id \in Ids /\ Awaited(m)
      /\ \A j \in AnswersAt : output[j].id \in Ids /\ Awaited(output[j])
      /\ disp.pc = "route" => disp.msg.id \in Ids /\ Awaited(disp.msg)
  BY WayIds DEF OwnInv, InFlightAwaited
<1> QED
  BY <1>1, <1>2

(* The waiters that wait stay: requests in flight are still awaited.       *)
LEMMA WaitersStay ==
    ASSUME TypeOK, WaiterOK, OwnInv, UNCHANGED <<input, output, disp>>,
           \A i \in Ids :
              waiters[i] # Nobody /\ post[waiters[i]].pc = "wait" =>
                  /\ waiters'[i] = waiters[i]
                  /\ post'[waiters[i]] = post[waiters[i]]
    PROVE  InFlightAwaited' /\ InFlightOnce'
<1>1. Alive' <=> Alive
  BY DEF Alive
<1>2. AnswersAt' = AnswersAt
  BY DEF AnswersAt
<1>3. ASSUME NEW m, m.id \in Ids, Awaited(m) PROVE Awaited(m)'
  BY <1>3 DEF Awaited
<1>4. InFlightOnce'
  BY <1>1, <1>2 DEF OwnInv, InFlightOnce
<1>5. ASSUME Alive
      PROVE  /\ \A m \in input : Awaited(m)'
             /\ \A j \in AnswersAt : Awaited(output[j])'
             /\ disp.pc = "route" => Awaited(disp.msg)'
  <2>1. /\ \A m \in input : m.id \in Ids /\ Awaited(m)
        /\ \A j \in AnswersAt : output[j].id \in Ids /\ Awaited(output[j])
        /\ disp.pc = "route" => disp.msg.id \in Ids /\ Awaited(disp.msg)
    BY <1>5, WayIds DEF OwnInv, InFlightAwaited
  <2> QED
    BY <2>1, <1>3 DEF Awaited
<1>6. InFlightAwaited'
  BY <1>1, <1>2, <1>5 DEF InFlightAwaited, Awaited
<1> QED
  BY <1>4, <1>6

LEMMA RegisterOwn ==
    ASSUME TypeOK, ThreadOK, WaiterOK, OwnInv, NEW p \in Posts, PostRegister(p)
    PROVE  OwnInv'
<1> DEFINE id == post[p].msg.id
<1>1. /\ post[p].pc = "register" /\ UNCHANGED <<input, output, disp, pending, log>>
  BY DEF PostRegister, sessVars, childVars
<1>2. /\ post[p].msg \in Request /\ id \in Ids /\ waiters[id] # p
      /\ waiters' = [waiters EXCEPT ![id] = p]
      /\ post'[p] = [post[p] EXCEPT !.pc = "write"]
      /\ \A x \in Posts \ {p} :
            post'[x] = IF x = waiters[id]
                       THEN [post[x] EXCEPT !.gone = TRUE] ELSE post[x]
  BY RegisterEffect, SMTT(30)
<1>3. /\ Waits(post[p].msg) /\ post[p].got = 0 /\ Asking(p)
  BY <1>1 DEF ThreadOK, Asking
<1>4. waiters[id] = Nobody
  <2> SUFFICES ASSUME waiters[id] # Nobody PROVE FALSE
    OBVIOUS
  <2>1. waiters[id] \in Posts
    BY <1>2 DEF TypeOK
  <2>2. Asking(waiters[id]) /\ post[waiters[id]].msg.id = id
    BY <1>2 DEF WaiterOK, Asking
  <2> QED
    BY <1>2, <1>3, <2>1, <2>2 DEF OwnInv, OneAsking
<1>5. \A x \in Posts \ {p} : post'[x] = post[x]
  BY <1>2, <1>4, HttpAssumption
<1>6. post'[p].pc = "write" /\ post'[p].got = 0 /\ post'[p].msg = post[p].msg
  BY <1>1, <1>2, <1>3, ThreadParts
<1> HIDE DEF id
<1>7. OneAsking'
  BY <1>1, <1>5, <1>6 DEF OwnInv, OneAsking, Asking, Waits
<1>8. InFlightAwaited' /\ InFlightOnce'
  <2>1. ASSUME NEW i \in Ids, waiters[i] # Nobody, post[waiters[i]].pc = "wait"
        PROVE  /\ waiters'[i] = waiters[i]
               /\ post'[waiters[i]] = post[waiters[i]]
    BY <1>1, <1>2, <1>4, <1>5, <2>1 DEF TypeOK
  <2> QED
    BY <1>1, <2>1, WaitersStay
<1>9. Registered'
  <2> SUFFICES ASSUME Alive', NEW x \in Posts, post'[x].pc \in {"write", "wait"},
                      Waits(post'[x].msg), post'[x].got = 0
               PROVE  waiters'[post'[x].msg.id] = x
    BY DEF Registered, Waits
  <2>1. CASE x = p
    BY <1>2, <1>6, <2>1 DEF TypeOK, id
  <2>2. CASE x # p
    <3>1. /\ post'[x] = post[x] /\ Asking(x) /\ waiters[post[x].msg.id] = x
      BY <1>1, <1>5, <2>2 DEF OwnInv, Registered, Alive, Asking, Waits
    <3>2. post[x].msg.id # id
      BY <1>3, <2>2, <3>1 DEF OwnInv, OneAsking, id
    <3>3. post[x].msg \in Request
      BY <3>1, ThreadParts DEF Asking
    <3> QED
      BY <1>2, <3>1, <3>2, <3>3 DEF TypeOK, Request
  <2> QED
    BY <2>1, <2>2
<1>10. Recorded'
  <2>1. \A x \in Posts :
          /\ post'[x].msg = post[x].msg /\ post'[x].got = post[x].got
          /\ post'[x].pc \in {"register", "write", "wait"} =>
                post[x].pc \in {"register", "write", "wait"}
    BY <1>1, <1>3, <1>5, <1>6
  <2> QED
    BY <1>1, <2>1 DEF OwnInv, Recorded, Alive, Waits
<1>11. GotOwn'
  BY <1>1, <1>5, <1>6 DEF OwnInv, GotOwn
<1> QED
  BY <1>7, <1>8, <1>9, <1>10, <1>11 DEF OwnInv

(* A thread that is not in `waiters' and holds no answer gives up its      *)
(* request.                                                                *)
LEMMA IdlesOwn ==
    ASSUME TypeOK, ThreadOK, WaiterOK, OwnInv, NEW p \in Posts,
           UNCHANGED <<input, output, disp, pending, log>>,
           post'[p] = Idle, \A x \in Posts \ {p} : post'[x] = post[x],
           \A i \in Ids : \/ waiters[i] # p /\ waiters'[i] = waiters[i]
                          \/ /\ waiters[i] = p /\ waiters'[i] = Nobody
                             /\ post[p].pc = "write"
    PROVE  OwnInv'
<1>1. OneAsking'
  BY IdleFacts DEF OwnInv, OneAsking, Asking, Waits
<1>2. InFlightAwaited' /\ InFlightOnce'
  <2>1. ASSUME NEW i \in Ids, waiters[i] # Nobody, post[waiters[i]].pc = "wait"
        PROVE  /\ waiters'[i] = waiters[i]
               /\ post'[waiters[i]] = post[waiters[i]]
    BY <2>1 DEF TypeOK
  <2> QED
    BY <2>1, WaitersStay
<1>3. Registered'
  <2> SUFFICES ASSUME Alive', NEW x \in Posts, post'[x].pc \in {"write", "wait"},
                      Waits(post'[x].msg), post'[x].got = 0
               PROVE  waiters'[post'[x].msg.id] = x
    BY DEF Registered, Waits
  <2>1. x # p
    BY IdleFacts
  <2>2. /\ post'[x] = post[x] /\ waiters[post[x].msg.id] = x
        /\ post[x].pc # "idle"
    BY <2>1 DEF OwnInv, Registered, Alive, Waits
  <2>3. post[x].msg \in Request
    BY <2>2, ThreadParts DEF Waits
  <2> QED
    BY <2>1, <2>2, <2>3 DEF Request
<1>4. Recorded'
  BY IdleFacts DEF OwnInv, Recorded, Alive, Waits
<1>5. GotOwn'
  BY IdleFacts DEF OwnInv, GotOwn
<1> QED
  BY <1>1, <1>2, <1>3, <1>4, <1>5 DEF OwnInv

LEMMA ReceiveOwn ==
    ASSUME TypeOK, ThreadOK, WaiterOK, OwnInv, NEW p \in Posts, PostReceive(p)
    PROVE  OwnInv'
<1>1. /\ UNCHANGED <<input, output, disp, pending, log, waiters>>
      /\ post[p].got # 0 \/ post[p].gone
  BY DEF PostReceive, sessVars, childVars
<1>2. post'[p] = Idle /\ \A x \in Posts \ {p} : post'[x] = post[x]
  BY DEF PostReceive, TypeOK
<1> QED
  BY <1>1, <1>2, NotWaiter, IdlesOwn

LEMMA WriteFailsOwn ==
    ASSUME TypeOK, ThreadOK, WaiterOK, OwnInv, NEW p \in Posts, PostWriteFails(p)
    PROVE  OwnInv'
<1> DEFINE m == post[p].msg
<1>1. /\ UNCHANGED <<input, output, disp, pending, log>>
      /\ post[p].pc = "write"
  BY DEF PostWriteFails, sessVars, childVars
<1>2. /\ post'[p] = Idle
      /\ ~Waits(m) => /\ waiters' = waiters
                      /\ \A x \in Posts \ {p} : post'[x] = post[x]
      /\ Waits(m) =>
            /\ m \in Request
            /\ waiters' = [waiters EXCEPT ![m.id] = Nobody]
            /\ \A x \in Posts \ {p} :
                  post'[x] = IF x = waiters[m.id]
                             THEN [post[x] EXCEPT !.gone = TRUE] ELSE post[x]
  BY WriteFailsEffect
<1>3. CASE ~Waits(m)
  BY <1>1, <1>2, <1>3, NotWaiter, IdlesOwn
<1>4. CASE Waits(m)
  <2>1. m.id \in Ids /\ Asking(p)
    BY <1>1, <1>2, <1>4 DEF Request, Asking
  <2>2. waiters[m.id] \in {p, Nobody}
    <3> SUFFICES ASSUME waiters[m.id] # Nobody PROVE waiters[m.id] = p
      OBVIOUS
    <3>1. /\ waiters[m.id] \in Posts /\ Asking(waiters[m.id])
          /\ post[waiters[m.id]].msg.id = m.id
      BY <2>1 DEF WaiterOK, TypeOK, Asking
    <3> QED
      BY <2>1, <3>1 DEF OwnInv, OneAsking
  <2>3. \A x \in Posts \ {p} : post'[x] = post[x]
    BY <1>2, <1>4, <2>2, HttpAssumption
  <2>4. \A i \in Ids : waiters[i] = p => i = m.id
    BY HttpAssumption DEF WaiterOK
  <2>5. \A i \in Ids : \/ waiters[i] # p /\ waiters'[i] = waiters[i]
                       \/ waiters[i] = p /\ waiters'[i] = Nobody
    <3>1. \A i \in Ids : waiters'[i] = IF i = m.id THEN Nobody ELSE waiters[i]
      BY <1>2, <1>4, <2>1 DEF TypeOK
    <3>2. p # Nobody
      BY HttpAssumption
    <3> SUFFICES ASSUME NEW i \in Ids
                 PROVE  \/ waiters[i] # p /\ waiters'[i] = waiters[i]
                        \/ waiters[i] = p /\ waiters'[i] = Nobody
      OBVIOUS
    <3>3. CASE i = m.id
      BY <2>2, <3>1, <3>2, <3>3
    <3>4. CASE i # m.id
      BY <2>4, <3>1, <3>4
    <3> QED
      BY <3>3, <3>4
  <2> QED
    BY <1>1, <1>2, <2>3, <2>5, IdlesOwn
<1> QED
  BY <1>3, <1>4

LEMMA WriteOwn ==
    ASSUME TypeOK, ThreadOK, WaiterOK, OwnInv, NEW p \in Posts, PostWrite(p)
    PROVE  OwnInv'
<1>0. PICK m : m = post[p].msg
  OBVIOUS
<1>1. /\ UNCHANGED <<waiters, output, disp, pending, log>>
      /\ post[p].pc = "write"
      /\ \A x \in Posts \ {p} : post'[x] = post[x]
  BY DEF PostWrite, sessVars, TypeOK
<1>2. CASE ~Waits(m)
  <2>1. post'[p] = Idle /\ input' = input
    BY <1>0, <1>2 DEF PostWrite, TypeOK
  <2> QED
    BY <1>0, <1>1, <1>2, <2>1, NotWaiter, IdlesOwn
<1>3. CASE Waits(m)
  <2>1. /\ post'[p] = [post[p] EXCEPT !.pc = "wait"] /\ input' = input \cup {m}
    BY <1>0, <1>3 DEF PostWrite, TypeOK
  <2>2. /\ m \in Request /\ m.id \in Ids /\ Asking(p)
        /\ post'[p].pc = "wait" /\ post'[p].got = post[p].got
        /\ post'[p].msg = m
    BY <1>0, <1>1, <1>3, <2>1, ThreadParts DEF Request, Asking
  <2>3. post[p].got = 0
    BY <1>0, <1>1 DEF OwnInv, GotOwn
  <2>4. OneAsking'
    BY <1>0, <1>1, <2>2 DEF OwnInv, OneAsking, Asking, Waits
  <2>5. Registered'
    BY <1>0, <1>1, <2>2 DEF OwnInv, Registered, Alive, Waits
  <2>6. Recorded'
    BY <1>0, <1>1, <2>2, <2>3 DEF OwnInv, Recorded, Alive, Waits
  <2>7. GotOwn'
    BY <1>0, <1>1, <2>2, <2>3 DEF OwnInv, GotOwn
  <2>8. Alive' <=> Alive
    BY <1>0, <1>1 DEF Alive
  <2>9. AnswersAt' = AnswersAt
    BY <1>0, <1>1 DEF AnswersAt
  <2>10. ASSUME Alive PROVE waiters[m.id] = p
    BY <1>0, <1>1, <1>3, <2>3, <2>10 DEF OwnInv, Registered
  <2>11. ASSUME Alive
         PROVE  /\ \A k \in input : k.id # m.id
                /\ \A j \in AnswersAt : output[j].id # m.id
                /\ disp.pc = "route" => disp.msg.id # m.id
    BY <1>0, <1>1, <2>2, <2>11, NothingUnder 
  <2>12. InFlightOnce'
    BY <1>0, <1>1, <2>1, <2>8, <2>9, <2>11 DEF OwnInv, InFlightOnce
  <2>13. ASSUME NEW k, k.id \in Ids, Awaited(k) PROVE Awaited(k)'
    BY <1>0, <1>1, <2>13, AwaitedBy DEF Awaited
  <2>14. ASSUME Alive
         PROVE  /\ \A k \in input' : Awaited(k)'
                /\ \A j \in AnswersAt : Awaited(output[j])'
                /\ disp.pc = "route" => Awaited(disp.msg)'
    <3>1. /\ \A k \in input : k.id \in Ids /\ Awaited(k)
          /\ \A j \in AnswersAt : output[j].id \in Ids /\ Awaited(output[j])
          /\ disp.pc = "route" => disp.msg.id \in Ids /\ Awaited(disp.msg)
      BY <2>14, WayIds DEF OwnInv, InFlightAwaited
    <3>2. Awaited(m)'
      <4>1. waiters'[m.id] = p /\ p # Nobody
        BY <1>0, <1>1, <2>10, <2>14, HttpAssumption
      <4> QED
        BY <1>0, <2>2, <4>1 DEF Awaited
    <3> QED
      BY <1>0, <1>1, <2>1, <2>13, <3>1, <3>2, ZenonT(60) DEF Awaited
  <2>15. InFlightAwaited'
    BY <1>0, <1>1, <2>8, <2>9, <2>14 DEF InFlightAwaited, Awaited
  <2> QED
    BY <2>4, <2>5, <2>6, <2>7, <2>12, <2>15 DEF OwnInv
<1> QED
  BY <1>2, <1>3

LEMMA AnswerOwn ==
    ASSUME TypeOK, ThreadOK, WaiterOK, OwnInv, DispAnswer
    PROVE  OwnInv'
<1>0. PICK a : a = Head(output)
  OBVIOUS
<1>1. /\ disp.pc = "read" /\ output # << >> /\ a.kind = "answer"
      /\ output' = Tail(output) /\ disp' = [pc |-> "route", msg |-> a]
      /\ UNCHANGED <<post, waiters, input>>
      /\ log' = IF pending[a.id] = 0 THEN log
                ELSE log \cup {Effect("agent", pending[a.id], "done")}
      /\ pending' = [pending EXCEPT ![a.id] = 0]
  BY <1>0 DEF DispAnswer
<1>2. /\ a = output[1] /\ a \in Answer /\ a.id \in Ids /\ 1 \in AnswersAt
  BY <1>0, <1>1, OutputParts DEF AnswersAt, Answer
<1>3. \A j \in AnswersAt' :
          /\ j + 1 \in AnswersAt /\ output'[j] = output[j + 1]
          /\ j \in Nat /\ j + 1 # 1
  BY <1>1, TailAnswers
<1>4. Alive /\ Alive'
  BY <1>1 DEF Alive
<1>5. OneAsking'
  BY <1>1 DEF OwnInv, OneAsking, Asking, Waits
<1>6. Registered'
  BY <1>1, <1>4 DEF OwnInv, Registered, Waits
<1>7. InFlightAwaited'
  <2>1. /\ \A m \in input : Awaited(m)'
        /\ \A j \in AnswersAt : Awaited(output[j])
        /\ Awaited(a)'
    BY <1>1, <1>2, <1>4 DEF OwnInv, InFlightAwaited, Awaited
  <2>2. \A j \in AnswersAt' : Awaited(output[j])'
    BY <1>1, <1>3, <2>1 DEF Awaited
  <2>3. disp'.msg = a
    BY <1>1
  <2>4. Awaited(disp.msg)'
    BY <2>1, <2>3 DEF Awaited
  <2> QED
    BY <1>1, <2>1, <2>2, <2>4 DEF InFlightAwaited
<1>8. InFlightOnce'
  <2>1. /\ \A m, k \in input : m.id = k.id => m = k
        /\ \A j, k \in AnswersAt : output[j].id = output[k].id => j = k
        /\ \A m \in input, j \in AnswersAt : output[j].id # m.id
    BY <1>4 DEF OwnInv, InFlightOnce
  <2>2. \A j, k \in AnswersAt' : output'[j].id = output'[k].id => j = k
    <3> SUFFICES ASSUME NEW j \in AnswersAt', NEW k \in AnswersAt',
                        output'[j].id = output'[k].id
                 PROVE  j = k
      OBVIOUS
    <3>1. j + 1 = k + 1 /\ j \in Nat /\ k \in Nat
      BY <1>3, <2>1
    <3> QED
      BY <3>1
  <2>3. \A m \in input, j \in AnswersAt' : output'[j].id # m.id
    BY <1>3, <2>1
  <2>4. /\ \A m \in input : m.id # a.id
        /\ \A j \in AnswersAt' : output'[j].id # a.id
    BY <1>2, <1>3, <2>1
  <2> QED
    BY <1>1, <2>1, <2>2, <2>3, <2>4 DEF InFlightOnce
<1>9. Recorded'
  <2> SUFFICES ASSUME NEW x \in Posts,
                      post[x].pc \in {"register", "write", "wait"},
                      post[x].msg.kind = "act", Waits(post[x].msg),
                      post[x].got = 0
               PROVE  IF a.id = post[x].msg.id
                      THEN Effect("agent", post[x].msg.n, "done") \in log'
                      ELSE pending'[post[x].msg.id] = post[x].msg.n
    BY <1>1 DEF Recorded, Waits
  <2>1. post[x].msg \in Request /\ post[x].msg.id \in Ids /\ post[x].msg.n # 0
    BY ThreadParts DEF Request
  <2>2. pending[post[x].msg.id] = post[x].msg.n
    BY <1>1, <1>4 DEF OwnInv, Recorded
  <2> QED
    BY <1>1, <1>2, <2>1, <2>2 DEF TypeOK
<1>10. GotOwn'
  BY <1>1 DEF OwnInv, GotOwn
<1> QED
  BY <1>5, <1>6, <1>7, <1>8, <1>9, <1>10 DEF OwnInv

LEMMA RouteOwn ==
    ASSUME TypeOK, ThreadOK, WaiterOK, OwnInv, DispRoute
    PROVE  OwnInv'
<1>0. PICK a : a = disp.msg
  OBVIOUS
<1>1. /\ disp.pc = "route" /\ disp'.pc = "read"
      /\ UNCHANGED <<input, output, pending, log>>
  BY DEF DispRoute, sessVars, childVars
<1>2. /\ a \in Answer /\ a.id \in Ids
      /\ waiters' = [waiters EXCEPT ![a.id] = Nobody]
      /\ \A x \in Posts :
            post'[x] = IF x = waiters[a.id]
                       THEN [post[x] EXCEPT !.got = a.n] ELSE post[x]
  BY <1>0, RouteEffect
<1>3. Alive /\ Alive' /\ AnswersAt' = AnswersAt
  BY <1>1 DEF Alive, AnswersAt
<1>4. Awaited(a)
  BY <1>0, <1>1, <1>3 DEF OwnInv, InFlightAwaited
<1>5. PICK p \in Posts : p = waiters[a.id]
  BY <1>2, <1>4, AwaitedBy
<1>6. /\ Asking(p) /\ post[p].msg.id = a.id /\ post[p].pc = "wait"
      /\ post[p].got = 0 /\ post[p].msg.n = a.n
  BY <1>2, <1>4, <1>5, AwaitedBy DEF Awaited
<1>7. /\ post'[p].pc = "wait" /\ post'[p].msg = post[p].msg
      /\ post'[p].got = a.n /\ a.n # 0
  <2>1. post[p] \in [pc : {"handle", "register", "write", "wait"},
                     msg : PostMessage, got : Nat, gone : BOOLEAN]
    BY <1>6, ThreadParts
  <2> QED
    BY <1>2, <1>5, <1>6, <2>1 DEF Answer
<1>8. \A x \in Posts \ {p} : post'[x] = post[x]
  BY <1>2, <1>5
<1>9. OneAsking'
  BY <1>6, <1>7, <1>8 DEF OwnInv, OneAsking, Asking, Waits
<1>10. Registered'
  <2> SUFFICES ASSUME NEW x \in Posts, post'[x].pc \in {"write", "wait"},
                      Waits(post'[x].msg), post'[x].got = 0
               PROVE  waiters'[post'[x].msg.id] = x
    BY DEF Registered, Waits
  <2>1. x # p
    BY <1>7
  <2>2. /\ post'[x] = post[x] /\ Asking(x) /\ waiters[post[x].msg.id] = x
    BY <1>3, <1>8, <2>1 DEF OwnInv, Registered, Asking, Waits
  <2>3. post[x].msg.id # a.id
    BY <1>6, <2>1, <2>2 DEF OwnInv, OneAsking
  <2>4. post[x].msg \in Request
    BY <2>2, ThreadParts DEF Asking
  <2> QED
    BY <1>2, <2>2, <2>3, <2>4 DEF TypeOK, Request
<1>11. InFlightOnce'
  BY <1>1, <1>3 DEF OwnInv, InFlightOnce
<1>12. InFlightAwaited'
  <2>1. ASSUME NEW k, k.id \in Ids, k.id # a.id, Awaited(k) PROVE Awaited(k)'
    <3>1. waiters[k.id] \in Posts /\ post[waiters[k.id]].msg.id = k.id
      BY <2>1, AwaitedBy
    <3>2. waiters'[k.id] = waiters[k.id]
      BY <1>2, <2>1 DEF TypeOK
    <3> QED
      BY <1>6, <1>8, <2>1, <3>1, <3>2 DEF Awaited
  <2>2. /\ \A k \in input : k.id \in Ids /\ k.id # a.id /\ Awaited(k)
        /\ \A j \in AnswersAt : /\ output[j].id \in Ids /\ output[j].id # a.id
                                /\ Awaited(output[j])
    BY <1>0, <1>1, <1>3, WayIds DEF OwnInv, InFlightAwaited, InFlightOnce
  <2>3. /\ \A k \in input' : Awaited(k)'
        /\ \A j \in AnswersAt' : Awaited(output[j])'
    BY <1>1, <1>3, <2>1, <2>2 DEF Awaited
  <2> QED
    BY <1>1, <2>3 DEF InFlightAwaited
<1>13. Recorded'
  <2> SUFFICES ASSUME NEW x \in Posts,
                      post'[x].pc \in {"register", "write", "wait"},
                      post'[x].msg.kind = "act", Waits(post'[x].msg),
                      post'[x].got = 0
               PROVE  pending'[post'[x].msg.id] = post'[x].msg.n
    BY <1>1 DEF Recorded, Waits
  <2>1. x # p /\ post'[x] = post[x]
    BY <1>7, <1>8
  <2>2. Asking(x)
    BY <2>1 DEF Asking, Waits
  <2>3. post[x].msg.id # a.id
    BY <1>6, <2>1, <2>2 DEF OwnInv, OneAsking
  <2> QED
    BY <1>0, <1>1, <1>3, <2>1, <2>3 DEF OwnInv, Recorded
<1>14. GotOwn'
  <2>1. post[p].msg.kind = "act" => Effect("agent", post[p].msg.n, "done") \in log
    BY <1>0, <1>1, <1>3, <1>6 DEF OwnInv, Recorded, Asking
  <2> QED
    BY <1>1, <1>6, <1>7, <1>8, <2>1 DEF OwnInv, GotOwn
<1> QED
  BY <1>9, <1>10, <1>11, <1>12, <1>13, <1>14 DEF OwnInv

(* The threads and the slots of the agent's calls stay, the dispatcher     *)
(* stays off `route', nothing new is on its way.                           *)
LEMMA QuietOwn ==
    ASSUME TypeOK, OwnInv, UNCHANGED <<post, waiters, pending>>,
           log \subseteq log', input' \subseteq input,
           Alive' => Alive,
           (disp' = disp) \/ (disp.pc # "route" /\ disp'.pc # "route"),
           \A j \in AnswersAt' : \E k \in AnswersAt : output'[j] = output[k],
           Alive' => \A i, j \in AnswersAt' :
                         output'[i].id = output'[j].id => i = j
    PROVE  OwnInv'
<1>1. OneAsking' /\ GotOwn'
  BY DEF OwnInv, OneAsking, GotOwn, Asking, Waits
<1>2. Registered'
  BY DEF OwnInv, Registered, Waits
<1>3. Recorded'
  BY DEF OwnInv, Recorded, Waits
<1>4. InFlightOnce'
  BY DEF OwnInv, InFlightOnce
<1>5. InFlightAwaited'
  <2> SUFFICES ASSUME Alive'
               PROVE  /\ \A m \in input' : Awaited(m)'
                      /\ \A j \in AnswersAt' : Awaited(output[j])'
                      /\ disp'.pc = "route" => Awaited(disp.msg)'
    BY DEF InFlightAwaited
  <2>1. /\ \A m \in input : Awaited(m)
        /\ \A j \in AnswersAt : Awaited(output[j])
        /\ disp.pc = "route" => Awaited(disp.msg)
    BY DEF OwnInv, InFlightAwaited
  <2>2. \A m \in input' : Awaited(m)'
    BY <2>1 DEF Awaited
  <2>3. \A j \in AnswersAt' : Awaited(output[j])'
    BY <2>1 DEF Awaited
  <2>4. disp'.pc = "route" => Awaited(disp.msg)'
    BY <2>1 DEF Awaited
  <2> QED
    BY <2>2, <2>3, <2>4
<1> QED
  BY <1>1, <1>2, <1>3, <1>4, <1>5 DEF OwnInv

LEMMA ServerAnswersOwn ==
    ASSUME TypeOK, ThreadOK, WaiterOK, OwnInv, NEW m \in input, ServerAnswers(m)
    PROVE  OwnInv'
<1>0. PICK a : a = Message("answer", m.id, m.n)
  OBVIOUS
<1>1. /\ UNCHANGED <<post, waiters, pending, log, disp>>
      /\ input' = input \ {m} /\ output' = Append(output, a)
  BY <1>0 DEF ServerAnswers, sessVars
<1>2. a \in Answer /\ a.id = m.id /\ a.n = m.n /\ a.kind = "answer"
  BY <1>0 DEF TypeOK, Request, Answer, Message
<1>3. \A j \in AnswersAt' :
          \/ j \in AnswersAt /\ output'[j] = output[j]
          \/ j = Len(output) + 1 /\ output'[j] = a
  BY <1>1, <1>2, AppendAnswers
<1>4. Alive' <=> Alive
  BY <1>1 DEF Alive
<1>5. OneAsking' /\ GotOwn' /\ Registered'
  BY <1>1, <1>4 DEF OwnInv, OneAsking, GotOwn, Registered, Asking, Waits
<1>6. Recorded'
  BY <1>1, <1>4 DEF OwnInv, Recorded, Waits
<1>7. InFlightOnce'
  <2> SUFFICES ASSUME Alive
               PROVE  /\ \A k, l \in input' : k.id = l.id => k = l
                      /\ \A j, k \in AnswersAt' :
                            output'[j].id = output'[k].id => j = k
                      /\ \A k \in input', j \in AnswersAt' : output'[j].id # k.id
                      /\ disp.pc = "route" =>
                            /\ \A k \in input' : k.id # disp.msg.id
                            /\ \A j \in AnswersAt' : output'[j].id # disp.msg.id
    BY <1>1, <1>4 DEF InFlightOnce
  <2>1. /\ \A k, l \in input : k.id = l.id => k = l
        /\ \A j, k \in AnswersAt : output[j].id = output[k].id => j = k
        /\ \A k \in input, j \in AnswersAt : output[j].id # k.id
        /\ disp.pc = "route" =>
              /\ \A k \in input : k.id # disp.msg.id
              /\ \A j \in AnswersAt : output[j].id # disp.msg.id
    BY DEF OwnInv, InFlightOnce
  <2>2. \A j, k \in AnswersAt' : output'[j].id = output'[k].id => j = k
    BY <1>2, <1>3, <2>1
  <2>3. ASSUME NEW k \in input', NEW j \in AnswersAt'
        PROVE  output'[j].id # k.id
    <3>1. k \in input /\ k.id # m.id
      BY <1>1, <2>1
    <3> QED
      BY <1>2, <1>3, <2>1, <3>1
  <2>4. \A k, l \in input' : k.id = l.id => k = l
    BY <1>1, <2>1
  <2>5. ASSUME disp.pc = "route"
        PROVE  /\ \A k \in input' : k.id # disp.msg.id
               /\ \A j \in AnswersAt' : output'[j].id # disp.msg.id
    <3>1. \A k \in input' : k.id # disp.msg.id
      BY <1>1, <2>1, <2>5
    <3>2. \A j \in AnswersAt' : output'[j].id # disp.msg.id
      BY <1>2, <1>3, <2>1, <2>5
    <3> QED
      BY <3>1, <3>2
  <2> QED
    BY <2>2, <2>3, <2>4, <2>5
<1>8. InFlightAwaited'
  <2> SUFFICES ASSUME Alive
               PROVE  /\ \A k \in input' : Awaited(k)'
                      /\ \A j \in AnswersAt' : Awaited(output[j])'
                      /\ disp'.pc = "route" => Awaited(disp.msg)'
    BY <1>4 DEF InFlightAwaited
  <2>1. /\ \A k \in input : Awaited(k)
        /\ \A j \in AnswersAt : Awaited(output[j])
        /\ disp.pc = "route" => Awaited(disp.msg)
    BY DEF OwnInv, InFlightAwaited
  <2>2. \A k \in input' : Awaited(k)'
    BY <1>1, <2>1 DEF Awaited
  <2>3. ASSUME NEW j \in AnswersAt' PROVE Awaited(output[j])'
    <3>1. CASE j \in AnswersAt /\ output'[j] = output[j]
      <4>1. Awaited(output[j])
        BY <2>1, <3>1
      <4> QED
        BY <1>1, <3>1, <4>1 DEF Awaited
    <3>2. CASE output'[j] = a
      <4>1. Awaited(m)
        BY <2>1
      <4> QED
        BY <1>1, <1>2, <3>2, <4>1 DEF Awaited
    <3> QED
      BY <1>3, <3>1, <3>2
  <2>4. disp'.pc = "route" => Awaited(disp.msg)'
    BY <1>1, <2>1 DEF Awaited
  <2> QED
    BY <2>2, <2>3, <2>4
<1> QED
  BY <1>5, <1>6, <1>7, <1>8 DEF OwnInv

(* The reading of a request of the server, its delivery, the end of the    *)
(* session, and what the server does besides answering.                    *)
LEMMA ReadingOwn ==
    ASSUME TypeOK, ThreadOK, WaiterOK, OwnInv,
           \/ \E v \in {"allow", "deny"} : DispAsk(v)
           \/ DispEvent \/ DispUndelivered \/ ServerExits
           \/ \E id \in ServerIds : ServerAsks(id)
    PROVE  OwnInv'
<1>1. ASSUME output' = output
      PROVE  /\ \A j \in AnswersAt' : \E k \in AnswersAt : output'[j] = output[k]
             /\ Alive => \A i, j \in AnswersAt' :
                             output'[i].id = output'[j].id => i = j
  BY <1>1 DEF AnswersAt, OwnInv, InFlightOnce
<1>2. ASSUME NEW v \in {"allow", "deny"}, DispAsk(v) PROVE OwnInv'
  <2>1. /\ UNCHANGED <<post, waiters, pending, input>> /\ log \subseteq log'
        /\ disp.pc = "read" /\ disp'.pc \in {"read", "event"}
        /\ output # << >> /\ output' = Tail(output)
    BY <1>2 DEF DispAsk
  <2>2. \A j \in AnswersAt' :
            /\ j + 1 \in AnswersAt /\ output'[j] = output[j + 1]
            /\ j \in Nat /\ j + 1 # 1
    BY <2>1, TailAnswers
  <2>3. Alive
    BY <2>1 DEF Alive
  <2>4. ASSUME NEW i \in AnswersAt', NEW j \in AnswersAt',
               output'[i].id = output'[j].id
        PROVE  i = j
    <3>1. i + 1 = j + 1 /\ i \in Nat /\ j \in Nat
      BY <2>2, <2>3, <2>4 DEF OwnInv, InFlightOnce
    <3> QED
      BY <3>1
  <2> QED
    BY <2>1, <2>2, <2>3, <2>4, QuietOwn
<1>3. CASE DispEvent \/ DispUndelivered
  <2>1. /\ UNCHANGED <<post, waiters, pending, input, output>> /\ log \subseteq log'
        /\ disp.pc \in {"event", "undelivered"}
        /\ disp'.pc \in {"read", "undelivered"}
    BY <1>3 DEF DispEvent, DispUndelivered, sessVars, childVars, TypeOK, Dispatcher
  <2>2. Alive
    BY <2>1 DEF Alive
  <2> QED
    BY <1>1, <2>1, <2>2, QuietOwn
<1>4. CASE ServerExits
  <2>1. /\ UNCHANGED <<post, waiters, pending, output, disp, log>> /\ input' = {}
    BY <1>4 DEF ServerExits, sessVars
  <2>2. Alive' => Alive
    BY <2>1 DEF Alive
  <2>3. log \subseteq log' /\ input' \subseteq input
    BY <2>1
  <2>4. /\ \A j \in AnswersAt' : \E k \in AnswersAt : output'[j] = output[k]
        /\ Alive' => \A i, j \in AnswersAt' :
                         output'[i].id = output'[j].id => i = j
    BY <1>1, <2>1, <2>2
  <2> QED
    BY <2>1, <2>2, <2>3, <2>4, QuietOwn
<1>5. ASSUME NEW id \in ServerIds, ServerAsks(id) PROVE OwnInv'
  <2>0. PICK a : a = Message("ask", id, hist.asks + 1)
    OBVIOUS
  <2>1. /\ UNCHANGED <<post, waiters, pending, input, disp, log>>
        /\ output' = Append(output, a)
    BY <1>5, <2>0 DEF ServerAsks, sessVars
  <2>2. a \in Ask /\ a.kind = "ask"
    BY <2>0, HistoryParts DEF Message, Ask
  <2>3. \A j \in AnswersAt' : j \in AnswersAt /\ output'[j] = output[j]
    BY <2>1, <2>2, AppendAnswers
  <2>4. Alive' => Alive
    BY <2>1 DEF Alive
  <2>5. Alive' => \A i, j \in AnswersAt' : output'[i].id = output'[j].id => i = j
    BY <2>3, <2>4 DEF OwnInv, InFlightOnce
  <2>6. \A j \in AnswersAt' : \E k \in AnswersAt : output'[j] = output[k]
    BY <2>3
  <2>7. log \subseteq log' /\ input' \subseteq input
    BY <2>1
  <2> QED
    BY <2>1, <2>4, <2>5, <2>6, <2>7, QuietOwn
<1> QED
  BY <1>2, <1>3, <1>4, <1>5

LEMMA EofOwn ==
    ASSUME TypeOK, ThreadOK, WaiterOK, OwnInv,
           DispEof \/ EofWaiters \/ EofEvents \/ EofStdin \/ EofFinish
    PROVE  OwnInv'
<1>1. ~Alive' /\ log' = log
  BY DEF DispEof, EofWaiters, EofEvents, EofStdin, EofFinish, Alive, sessVars,
         TypeOK, Dispatcher
<1>2. ASSUME NEW x \in Posts
      PROVE  /\ post'[x].pc = post[x].pc /\ post'[x].msg = post[x].msg
             /\ post'[x].got = post[x].got
  <2>1. CASE EofWaiters
    <3>1. CASE \E i \in Ids : waiters[i] = x
      <4>1. post'[x] = [post[x] EXCEPT !.gone = TRUE]
        BY <2>1, <3>1, EofEffect
      <4>2. post[x].pc # "idle"
        BY <3>1, HttpAssumption DEF WaiterOK
      <4> QED
        BY <4>1, <4>2, ThreadParts
    <3>2. CASE ~\E i \in Ids : waiters[i] = x
      BY <2>1, <3>2, EofEffect
    <3> QED
      BY <3>1, <3>2
  <2>2. CASE DispEof \/ EofEvents \/ EofStdin \/ EofFinish
    BY <2>2 DEF DispEof, EofEvents, EofStdin, EofFinish
  <2> QED
    BY <2>1, <2>2
<1>3. OneAsking' /\ GotOwn'
  BY <1>1, <1>2 DEF OwnInv, OneAsking, GotOwn, Asking, Waits
<1> QED
  BY <1>1, <1>3 DEF OwnInv, Registered, InFlightAwaited, InFlightOnce, Recorded

(* Once an id was reused the history says so for ever.                     *)
LEMMA ReusedStays ==
    ASSUME TypeOK, [Next]_vars, ~hist'.reused
    PROVE  ~hist.reused
<1>0. hist \in History
  BY DEF TypeOK
<1>1. CASE Client
  BY <1>0, <1>1 DEF Client, PostFetch, GetFetch, GetHeadersFail, GetClientGone,
                    Lose, DeleteFetch, History
<1>2. CASE \E p \in Posts : Post(p)
  BY <1>0, <1>2 DEF Post, PostAct, PostPass, PostRegister, PostWrite,
                    PostWriteFails, PostReceive, History
<1>3. CASE \E g \in Gets : Get(g)
  BY <1>0, <1>3 DEF Get, GetSlot, GetHeaders, GetShows, GetEnds, History
<1>4. CASE Dispatch
  BY <1>4 DEF Dispatch, DispAnswer, DispAsk, DispRoute, DispEvent,
              DispUndelivered, DispEof, EofWaiters, EofEvents, EofStdin,
              EofFinish
<1>5. CASE Delete \/ Server \/ UNCHANGED vars
  BY <1>0, <1>5 DEF Delete, DeleteClose, DeleteDone, DeleteTimeout, Server,
                    ServerAnswers, ServerAsks, ServerExits, vars, History
<1> QED
  BY <1>1, <1>2, <1>3, <1>4, <1>5 DEF Next

(* The rest of the system touches nothing of it.                           *)
LEMMA OthersOwn ==
    ASSUME OwnInv, UNCHANGED <<post, wayVars, pending, log>>
    PROVE  OwnInv'
BY DEF OwnInv, OneAsking, Registered, InFlightAwaited, InFlightOnce, Recorded,
       GotOwn, Asking, Waits, Alive, AnswersAt, Awaited, wayVars

LEMMA OwnStep ==
    ASSUME TypeOK, ThreadOK, WaiterOK, OwnAnswers, [Next]_vars
    PROVE  OwnAnswers'
<1> SUFFICES ASSUME ~hist'.reused PROVE OwnInv'
  BY DEF OwnAnswers
<1>0. OwnInv
  BY ReusedStays DEF OwnAnswers
<1>1. CASE Client
  <2>1. ASSUME NEW p \in Posts, NEW kind, NEW id, PostFetch(p, kind, id)
        PROVE  OwnInv'
    BY <1>0, <2>1, FetchOwn
  <2>2. CASE DeleteFetch
          \/ \E g \in Gets : GetFetch(g) \/ GetHeadersFail(g) \/ GetClientGone(g)
    <3>1. UNCHANGED <<post, wayVars, pending, log>>
      BY <2>2 DEF DeleteFetch, GetFetch, GetHeadersFail, GetClientGone, wayVars,
                  sessVars, childVars
    <3> QED
      BY <1>0, <3>1, OthersOwn
  <2> QED
    BY <1>1, <2>1, <2>2 DEF Client
<1>2. ASSUME NEW p \in Posts, Post(p) PROVE OwnInv'
  BY <1>0, <1>2, ActOwn, PassOwn, RegisterOwn, WriteOwn, WriteFailsOwn,
     ReceiveOwn DEF Post
<1>3. CASE Dispatch
  BY <1>0, <1>3, AnswerOwn, RouteOwn, ReadingOwn, EofOwn DEF Dispatch
<1>4. CASE Server
  BY <1>0, <1>4, ServerAnswersOwn, ReadingOwn DEF Server
<1>5. CASE Delete \/ UNCHANGED vars \/ \E g \in Gets : Get(g)
  <2>1. UNCHANGED <<post, wayVars, pending, log>>
    BY <1>5 DEF Delete, DeleteClose, DeleteDone, DeleteTimeout, Get, GetSlot,
                GetHeaders, GetShows, GetEnds, wayVars, sessVars, childVars, vars
  <2> QED
    BY <1>0, <2>1, OthersOwn
<1> QED
  BY <1>1, <1>2, <1>3, <1>4, <1>5 DEF Next

LEMMA InitOwn == Init => OwnAnswers
<1> SUFFICES ASSUME Init PROVE OwnInv
  BY DEF OwnAnswers
<1>1. /\ \A p \in Posts \ {Opener} : post[p] = Idle
      /\ post[Opener].pc = "register" /\ post[Opener].got = 0
      /\ post[Opener].msg.kind = "machinery"
  BY HttpAssumption DEF Init, Serving, Message
<1>2. input = {} /\ disp.pc = "read" /\ AnswersAt = {}
  BY EmptySeq DEF Init, AnswersAt
<1>3. OneAsking /\ GotOwn
  BY <1>1, IdleFacts DEF OneAsking, GotOwn, Asking
<1>4. Registered /\ InFlightAwaited /\ InFlightOnce
  BY <1>1, <1>2, IdleFacts DEF Registered, InFlightAwaited, InFlightOnce
<1>5. Recorded
  BY <1>1, IdleFacts DEF Recorded
<1> QED
  BY <1>3, <1>4, <1>5 DEF OwnInv

LEMMA OwnAlways == Spec => []OwnAnswers
<1> DEFINE Inv == TypeOK /\ ThreadOK /\ WaiterOK /\ OwnAnswers
<1>1. Init => Inv
  BY InitType, InitThreads, InitOwn
<1>2. Inv /\ [Next]_vars => Inv'
  BY TypeStep, ThreadStep, OwnStep
<1> QED
  BY <1>1, <1>2, PTL DEF Spec

(* Whatever the interleaving of POST threads, dispatcher, server, DELETE   *)
(* and the end of the session, a POST carries the answer to its own        *)
(* request, when the agent does not reuse the id of a request in progress  *)
(* (forward_and_wait, dispatch_from_server).                               *)
THEOREM OwnAnswer == Spec => []AnswerIsOwn
<1>1. OwnAnswers => AnswerIsOwn
  BY DEF OwnAnswers, OwnInv, GotOwn, AnswerIsOwn
<1> QED
  BY <1>1, OwnAlways, PTL

(* ... and the agent hears the result of a call only once the effect of    *)
(* that very call is in the log.                                           *)
THEOREM NothingHeardUnrecorded == Spec => []HeardIsRecorded
<1>1. OwnAnswers => HeardIsRecorded
  BY DEF OwnAnswers, OwnInv, GotOwn, HeardIsRecorded
<1> QED
  BY <1>1, OwnAlways, PTL
=============================================================================
