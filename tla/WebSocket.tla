----------------------------- MODULE WebSocket ------------------------------
(***************************************************************************)
(* The WebSockets helpers: WSEndpoint with the role Client, JsonRpcInter-  *)
(* face and PingPongEnabled.  Threads of the user send requests and wait   *)
(* for their answers at most five seconds; one thread runs the event loop, *)
(* whose callbacks are steps of the library websocketpp (external).        *)
(*                                                                         *)
(* A request stands for its id.  The same request may be sent again, in    *)
(* particular after it timed out.                                          *)
(***************************************************************************)
EXTENDS Naturals, FiniteSets

CONSTANTS
    Callers,      \* threads in sendRequest
    Requests,     \* requests they send
    MaxSends,     \* bound: calls of sendRequest
    MaxConnects   \* bound: calls of connect

ASSUME SocketAssumption == MaxSends \in Nat /\ MaxConnects \in Nat

Links == 1..MaxConnects   \* the connections, in the order of their connects

VARIABLES
    link,         \* per connection: its state, the pings its peer has yet to
                  \* answer, websocketpp's timer for a pong, and its peer
    handler,      \* connectionHandler_: the connection opened last, 0 for none
    connects,     \* calls of connect
    pingTimers,   \* timers of schedule that are pending
    ending,       \* the destructor: "no", "joining", "returned"; "late" is
                  \* joining after it found connections it does not close
    caller,       \* where each thread is in sendRequest, and with what
    promises,     \* responseToPromise_: ids, and whether the value is set
    answers,      \* answers still owed, by each connection's peer
    sends,        \* calls of sendRequest
    aborted       \* a promise was set twice: the exception ends the process

linkVars == <<link, handler, connects, pingTimers, ending>>
requestVars == <<caller, promises, answers, sends, aborted>>
socketVars == <<linkVars, requestVars>>

Unused == [state |-> "none", pings |-> 0, pongTimer |-> FALSE, peer |-> "well"]
NoAnswers == [r \in Requests |-> 0]
Idle == [at |-> "idle", id |-> CHOOSE r \in Requests : TRUE]

SocketInit ==
    /\ link = [i \in Links |-> Unused]
    /\ handler = 0 /\ connects = 0 /\ pingTimers = 0 /\ ending = "no"
    /\ caller = [c \in Callers |-> Idle]
    /\ promises = [set |-> {}, pending |-> {}]
    /\ answers = [i \in Links |-> NoAnswers]
    /\ sends = 0 /\ aborted = FALSE

-----------------------------------------------------------------------------
(* The connections.                                                        *)
Running == ending \in {"no", "joining", "late"} /\ ~aborted

(* The connection in use, if it is open.                                   *)
InUse == {i \in Links : i = handler /\ link[i].state = "open"}

(* Client::connect, which starts the event loop; it asks for nothing of    *)
(* the connections there are.                                              *)
Connect ==
    /\ ending = "no" /\ ~aborted /\ connects < MaxConnects
    /\ connects' = connects + 1
    /\ link' = [link EXCEPT ![connects + 1].state = "connecting"]
    /\ UNCHANGED <<handler, pingTimers, ending, requestVars>>

(* onOpen forgets the connection before, and starts to ping.               *)
onOpen(i) ==
    /\ Running /\ link[i].state = "connecting"
    /\ link' = [link EXCEPT ![i].state = "open"]
    /\ handler' = i
    /\ pingTimers' = pingTimers + 1
    /\ UNCHANGED <<connects, ending, requestVars>>

onFail(i) ==
    /\ Running /\ link[i].state = "connecting"
    /\ link' = [link EXCEPT ![i].state = "closed"]
    /\ UNCHANGED <<handler, connects, pingTimers, ending, requestVars>>

(* The peer closes, or a handshake that closes ends or times out; nothing  *)
(* comes over this connection any more.                                    *)
onClose(i) ==
    /\ Running
    /\ link[i].state = "closing" \/ (link[i].state = "open" /\ link[i].peer = "well")
    /\ link' = [link EXCEPT ![i] = [Unused EXCEPT !.state = "closed"]]
    /\ answers' = [answers EXCEPT ![i] = NoAnswers]
    /\ UNCHANGED <<handler, connects, pingTimers, ending, caller, promises, sends, aborted>>

(* closeConnection closes only what is in use, and open.                   *)
closeConnection(links) ==
    [i \in Links |-> IF i \in InUse THEN [links[i] EXCEPT !.state = "closing"] ELSE links[i]]

Disconnect ==
    /\ ending = "no" /\ ~aborted /\ InUse # {}
    /\ link' = closeConnection(link)
    /\ UNCHANGED <<handler, connects, pingTimers, ending, requestVars>>

-----------------------------------------------------------------------------
(* PingPongEnabled::ping, from a timer; it pings whatever connection is in *)
(* use by then, or gives up.                                               *)
Ping ==
    /\ Running /\ pingTimers > 0
    /\ pingTimers' = pingTimers - 1
    /\ link' = [i \in Links |-> IF i \in InUse
                                THEN [link[i] EXCEPT !.pings = @ + 1, !.pongTimer = TRUE]
                                ELSE link[i]]
    /\ UNCHANGED <<handler, connects, ending, requestVars>>

Answered(i) == link[i].state = "open" /\ link[i].peer = "well" /\ link[i].pings > 0

(* Faulty form: the next ping is not scheduled.                            *)
onPongOnce(i) ==
    /\ Running /\ Answered(i)
    /\ link' = [link EXCEPT ![i].pings = @ - 1, ![i].pongTimer = FALSE]
    /\ UNCHANGED <<handler, connects, pingTimers, ending, requestVars>>

(* A pong on any connection has the one in use pinged again.               *)
onPong(i) ==
    /\ Running /\ Answered(i)
    /\ link' = [link EXCEPT ![i].pings = @ - 1, ![i].pongTimer = FALSE]
    /\ pingTimers' = pingTimers + 1
    /\ UNCHANGED <<handler, connects, ending, requestVars>>

(* Whichever connection's pong is missing, the one in use is closed.       *)
onPongTimeout(i) ==
    /\ Running /\ link[i].pongTimer
    /\ link' = closeConnection([link EXCEPT ![i].pongTimer = FALSE])
    /\ UNCHANGED <<handler, connects, pingTimers, ending, requestVars>>

(* The peer is gone without a word.                                        *)
FallsSilent(i) ==
    /\ Running /\ link[i].state = "open" /\ link[i].peer = "well"
    /\ link' = [link EXCEPT ![i].peer = "silent"]
    /\ UNCHANGED <<handler, connects, pingTimers, ending, requestVars>>

-----------------------------------------------------------------------------
(* Connections the destructor does not close: a handshake under way may    *)
(* open later, and a connection that connectionHandler_ referred to before *)
(* another was opened stays open.                                          *)
LeftBehind ==
    {i \in Links : link[i].state = "connecting" \/ (link[i].state = "open" /\ i # handler)}

(* Faulty form: the destructor leaves the connection to the library.       *)
DestroyOnly ==
    /\ ending = "no" /\ ~aborted /\ \A c \in Callers : caller[c].at = "idle"
    /\ ending' = IF LeftBehind # {} THEN "late" ELSE "joining"
    /\ UNCHANGED <<link, handler, connects, pingTimers, requestVars>>

(* ~WSEndpoint: stop_perpetual, closeConnection, join.  The event loop     *)
(* ends when there is nothing it waits for.                                *)
Destroy ==
    /\ ending = "no" /\ ~aborted /\ \A c \in Callers : caller[c].at = "idle"
    /\ ending' = IF LeftBehind # {} THEN "late" ELSE "joining"
    /\ link' = closeConnection(link)
    /\ UNCHANGED <<handler, connects, pingTimers, requestVars>>

LoopEnds ==
    /\ ending \in {"joining", "late"} /\ ~aborted
    /\ pingTimers = 0
    /\ \A i \in Links : link[i].state \in {"none", "closed"} /\ ~link[i].pongTimer
    /\ ending' = "returned"
    /\ UNCHANGED <<link, handler, connects, pingTimers, requestVars>>

-----------------------------------------------------------------------------
(* sendRequest, by a thread of the user.                                   *)
Step(c, from, to) ==
    /\ caller[c].at = from /\ ~aborted
    /\ caller' = [caller EXCEPT ![c].at = to]

Ids == promises.set \cup promises.pending
Removed(i) == [set |-> promises.set \ {i}, pending |-> promises.pending \ {i}]

(* isRequestProcessingOngoing: a request that is under way is dropped.     *)
sendRequest(c, r) ==
    /\ ending = "no" /\ ~aborted /\ caller[c].at = "idle" /\ sends < MaxSends
    /\ sends' = sends + 1
    /\ caller' = IF r \in Ids THEN caller ELSE [caller EXCEPT ![c] = [at |-> "checked", id |-> r]]
    /\ UNCHANGED <<linkVars, promises, answers, aborted>>

(* createFutureResponse looks again: another thread may have been faster.  *)
createFutureResponse(c) ==
    LET i == caller[c].id IN
    /\ IF i \in Ids THEN Step(c, "checked", "idle") /\ UNCHANGED promises
       ELSE /\ Step(c, "checked", "created")
            /\ promises' = [promises EXCEPT !.pending = @ \cup {i}]
    /\ UNCHANGED <<linkVars, answers, sends, aborted>>

(* Faulty form: a request that cannot be sent is forgotten.                *)
SendForgets(c) ==
    /\ IF InUse # {}
       THEN /\ Step(c, "created", "waiting")
            /\ answers' = [answers EXCEPT ![handler][caller[c].id] = @ + 1]
       ELSE Step(c, "created", "idle") /\ UNCHANGED answers
    /\ UNCHANGED <<linkVars, promises, sends, aborted>>

(* send, which fails if the connection in use is not open.                 *)
Send(c) ==
    /\ IF InUse # {}
       THEN /\ Step(c, "created", "waiting")
            /\ answers' = [answers EXCEPT ![handler][caller[c].id] = @ + 1]
       ELSE Step(c, "created", "removing") /\ UNCHANGED answers
    /\ UNCHANGED <<linkVars, promises, sends, aborted>>

(* getAsyncResponse: the future is ready, or five seconds are over.        *)
getAsyncResponse(c) ==
    /\ caller[c].id \in promises.set \/ caller[c].id \in promises.pending
    /\ Step(c, "waiting", "removing")
    /\ UNCHANGED <<linkVars, promises, answers, sends, aborted>>

removePromise(c) ==
    /\ Step(c, "removing", "idle")
    /\ promises' = Removed(caller[c].id)
    /\ UNCHANGED <<linkVars, answers, sends, aborted>>

(* handleResponse, for an answer to any request the peer was sent, over    *)
(* any connection.  A promise that is set already throws, out of the       *)
(* event loop.                                                             *)
handleResponse(i, r) ==
    /\ Running /\ link[i].state \in {"open", "closing"} /\ link[i].peer = "well"
    /\ answers[i][r] > 0
    /\ answers' = [answers EXCEPT ![i][r] = @ - 1]
    /\ aborted' = (r \in promises.set)
    /\ promises' = IF r \in promises.pending
                   THEN [set |-> promises.set \cup {r}, pending |-> promises.pending \ {r}]
                   ELSE promises
    /\ UNCHANGED <<linkVars, caller, sends>>

-----------------------------------------------------------------------------
CallerStep(c) ==
    createFutureResponse(c) \/ Send(c) \/ getAsyncResponse(c) \/ removePromise(c)

SocketNext ==
    \/ Connect \/ Disconnect \/ Ping \/ Destroy \/ LoopEnds
    \/ \E i \in Links :
         \/ onOpen(i) \/ onFail(i) \/ onClose(i)
         \/ onPong(i) \/ onPongTimeout(i) \/ FallsSilent(i)
         \/ \E r \in Requests : handleResponse(i, r)
    \/ \E c \in Callers : (\E r \in Requests : sendRequest(c, r)) \/ CallerStep(c)

-----------------------------------------------------------------------------
(* A promise is kept exactly while a thread is to wait for it: whichever   *)
(* way sendRequest ends (answered, timed out, not sent, overtaken by       *)
(* another thread with the same request), its id can be used again.        *)
PromisesMatchCallers ==
    /\ Ids = {caller[c].id : c \in {d \in Callers : caller[d].at \in {"created", "waiting", "removing"}}}
    /\ \A c, d \in Callers :
         /\ c # d /\ caller[c].id = caller[d].id
         /\ caller[c].at \in {"created", "waiting", "removing"}
         => caller[d].at \in {"idle", "checked"}

(* A peer that is gone is noticed, after any number of pings that were     *)
(* answered, after a reconnection and with other connections left open:    *)
(* the connection in use is closed (PingPongEnabled, onPongTimeout).       *)
SilentPeerIsLeft ==
    \A i \in Links :
        i \in InUse /\ link[i].peer = "silent" ~> i \notin InUse \/ aborted

(* The destructor returns, but for two cases, LeftBehind: a handshake was  *)
(* under way, which may open later; or a connect while another connection  *)
(* was open left that one behind, which nothing closes but its peer.  Then *)
(* it joins a loop that serves them (~WSEndpoint, closeConnection).        *)
EndpointEnds ==
    ending = "joining" ~> ending = "returned"
=============================================================================
