--------------------------- MODULE LaunchingProofs ---------------------------
(***************************************************************************)
(* What an application is launched with and the helpers around it: the     *)
(* table of promises of JsonRpcInterface for any number of threads,        *)
(* requests and calls; the front panel for any pattern; the environment    *)
(* and the memory limits for any configuration and any container.          *)
(***************************************************************************)
EXTENDS MCLaunching, TLAPS

(* The endpoint on its own.                                                *)
SocketSpec == SocketInit /\ [][SocketNext]_socketVars

Names == Requests \cup {Idle.id}
Places == {"idle", "checked", "created", "waiting", "removing"}
Holding == {"created", "waiting", "removing"}

(* What the threads and the table are made of.                             *)
CallsType ==
    /\ caller \in [Callers -> [at : Places, id : Names]]
    /\ promises \in [set : SUBSET Names, pending : SUBSET Names]

Holders == {d \in Callers : caller[d].at \in Holding}

(* PromisesMatchCallers, said of the threads that hold an id.              *)
Matched ==
    /\ Ids = {caller[d].id : d \in Holders}
    /\ \A c, d \in Holders : caller[c].id = caller[d].id => c = d

CallsInv == CallsType /\ Matched

-----------------------------------------------------------------------------
LEMMA MatchedSuffices == CallsInv => PromisesMatchCallers
<1> SUFFICES ASSUME CallsInv PROVE PromisesMatchCallers
  OBVIOUS
<1>1. Ids = {caller[c].id : c \in {d \in Callers : caller[d].at \in Holding}}
  BY DEF CallsInv, Matched, Holders
<1>2. ASSUME NEW c \in Callers, NEW d \in Callers, c # d, caller[c].id = caller[d].id,
             caller[c].at \in Holding
      PROVE  caller[d].at \in {"idle", "checked"}
  <2>1. caller[d].at \in Places
    BY DEF CallsInv, CallsType
  <2>2. d \notin Holders
    BY <1>2 DEF CallsInv, Matched, Holders
  <2> QED
    BY <2>1, <2>2 DEF Places, Holders, Holding
<1> QED
  BY <1>1, <1>2 DEF PromisesMatchCallers, Holding

LEMMA CallsBegin == SocketInit => CallsInv
<1> SUFFICES ASSUME SocketInit PROVE CallsInv
  OBVIOUS
<1>1. Idle.id \in Names /\ Idle.at = "idle"
  BY DEF Names, Idle
<1>2. caller = [c \in Callers |-> [at |-> "idle", id |-> Idle.id]]
  BY DEF SocketInit, Idle
<1>3. CallsType
  BY <1>1, <1>2 DEF SocketInit, CallsType, Places, Names
<1>4. Holders = {} /\ Ids = {}
  BY <1>2 DEF SocketInit, Holders, Holding, Ids
<1> QED
  BY <1>3, <1>4 DEF CallsInv, Matched

(* Where a thread gets by a step, and that nobody else moves.              *)
LEMMA StepMoves ==
    ASSUME CallsType, NEW c \in Callers, NEW from, NEW to \in Places, Step(c, from, to)
    PROVE  /\ caller' \in [Callers -> [at : Places, id : Names]]
           /\ caller[c].at = from /\ caller'[c].at = to
           /\ \A d \in Callers : caller'[d].id = caller[d].id
           /\ \A d \in Callers : d # c => caller'[d].at = caller[d].at
<1>1. caller \in [Callers -> [at : Places, id : Names]]
  BY DEF CallsType
<1>2. caller[c].at = from /\ caller' = [caller EXCEPT ![c] = [@ EXCEPT !.at = to]]
  BY DEF Step
<1>3. caller[c] \in [at : Places, id : Names]
  BY <1>1
<1>4. /\ [caller[c] EXCEPT !.at = to] \in [at : Places, id : Names]
      /\ [caller[c] EXCEPT !.at = to].at = to
      /\ [caller[c] EXCEPT !.at = to].id = caller[c].id
  BY <1>3
<1> QED
  BY <1>1, <1>2, <1>4

(* A thread that moves without taking or leaving its id.                   *)
LEMMA MovesAlike ==
    ASSUME CallsInv, NEW c \in Callers, NEW from, NEW to \in Places,
           from \in Holding <=> to \in Holding,
           Step(c, from, to), UNCHANGED promises
    PROVE  CallsInv'
<1>1. CallsType'
  BY StepMoves DEF CallsInv, CallsType
<1>2. Holders' = Holders /\ \A d \in Callers : caller'[d].id = caller[d].id
  BY StepMoves DEF CallsInv, Holders
<1>3. Ids' = Ids
  BY DEF Ids
<1>4. Matched'
  BY <1>2, <1>3 DEF CallsInv, Matched, Holders
<1> QED
  BY <1>1, <1>4 DEF CallsInv

(* A thread that holds nothing and finds its id free takes it.             *)
LEMMA Takes ==
    ASSUME CallsInv, NEW c \in Callers, createFutureResponse(c)
    PROVE  CallsInv'
<1> DEFINE i == caller[c].id
<1>1. CASE i \in Ids
  <2>1. Step(c, "checked", "idle") /\ UNCHANGED promises
    BY <1>1 DEF createFutureResponse
  <2> QED
    BY <2>1, MovesAlike DEF Places, Holding
<1>2. CASE i \notin Ids
  <2>1. /\ Step(c, "checked", "created")
        /\ promises' = [promises EXCEPT !.pending = @ \cup {i}]
    BY <1>2 DEF createFutureResponse
  <2>2. /\ caller' \in [Callers -> [at : Places, id : Names]]
        /\ caller[c].at = "checked" /\ caller'[c].at = "created"
        /\ \A d \in Callers : caller'[d].id = caller[d].id
        /\ \A d \in Callers : d # c => caller'[d].at = caller[d].at
    BY <2>1, StepMoves DEF CallsInv, Places
  <2>3. Holders' = Holders \cup {c}
    BY <2>2 DEF Holders, Holding
  <2>4. promises \in [set : SUBSET Names, pending : SUBSET Names] /\ i \in Names
    BY DEF CallsInv, CallsType
  <2>5. CallsType' /\ Ids' = Ids \cup {i}
    BY <2>1, <2>2, <2>4 DEF CallsType, Ids
  <2>6. \A d \in Holders : caller[d].id # i
    BY <1>2 DEF CallsInv, Matched
  <2>7. Ids' = {caller'[d].id : d \in Holders'}
    <3>1. Holders \subseteq Callers
      BY DEF Holders
    <3>2. {caller'[d].id : d \in Holders'} = {caller[d].id : d \in Holders} \cup {i}
      BY <2>2, <2>3, <3>1
    <3> QED
      BY <2>5, <3>2 DEF CallsInv, Matched
  <2>8. \A d, e \in Holders' : caller'[d].id = caller'[e].id => d = e
    BY <2>2, <2>3, <2>6 DEF CallsInv, Matched, Holders
  <2> QED
    BY <2>5, <2>7, <2>8 DEF CallsInv, Matched
<1> QED
  BY <1>1, <1>2

(* The only thread that holds an id leaves it: the id is free.             *)
LEMMA Leaves ==
    ASSUME CallsInv, NEW c \in Callers, removePromise(c)
    PROVE  CallsInv'
<1> DEFINE i == caller[c].id
<1>1. /\ Step(c, "removing", "idle")
      /\ promises' = [set |-> promises.set \ {i}, pending |-> promises.pending \ {i}]
  BY DEF removePromise, Removed
<1>2. /\ caller' \in [Callers -> [at : Places, id : Names]]
      /\ caller[c].at = "removing" /\ caller'[c].at = "idle"
      /\ \A d \in Callers : caller'[d].id = caller[d].id
      /\ \A d \in Callers : d # c => caller'[d].at = caller[d].at
  BY <1>1, StepMoves DEF CallsInv, Places
<1>3. Holders' = Holders \ {c} /\ c \in Holders /\ Holders \subseteq Callers
  BY <1>2 DEF Holders, Holding
<1>4. promises \in [set : SUBSET Names, pending : SUBSET Names]
  BY DEF CallsInv, CallsType
<1>5. CallsType' /\ Ids' = Ids \ {i}
  BY <1>1, <1>2, <1>4 DEF CallsType, Ids
<1>6. \A d \in Holders : caller[d].id = i => d = c
  BY <1>3 DEF CallsInv, Matched
<1>7. Ids' = {caller'[d].id : d \in Holders'}
  <2>1. {caller'[d].id : d \in Holders'} = {caller[d].id : d \in Holders} \ {i}
    BY <1>2, <1>3, <1>6
  <2> QED
    BY <1>5, <2>1 DEF CallsInv, Matched
<1>8. \A d, e \in Holders' : caller'[d].id = caller'[e].id => d = e
  BY <1>2, <1>3 DEF CallsInv, Matched
<1> QED
  BY <1>5, <1>7, <1>8 DEF CallsInv, Matched

(* A request is dropped, or its id is that of a thread which holds none.   *)
LEMMA Asks ==
    ASSUME CallsInv, NEW c \in Callers, NEW r \in Requests, sendRequest(c, r)
    PROVE  CallsInv'
<1>1. CASE caller' = caller
  BY <1>1 DEF sendRequest, CallsInv, CallsType, Matched, Holders, Ids
<1>2. CASE caller' = [caller EXCEPT ![c] = [at |-> "checked", id |-> r]]
  <2>1. UNCHANGED promises /\ caller[c].at = "idle"
    BY DEF sendRequest
  <2>2. CallsType'
    BY <1>2, <2>1 DEF CallsInv, CallsType, Places, Names
  <2>3. /\ Holders' = Holders
        /\ \A d \in Holders : caller'[d] = caller[d]
    BY <1>2, <2>1 DEF CallsInv, CallsType, Holders, Holding
  <2> QED
    BY <2>1, <2>2, <2>3 DEF CallsInv, Matched, Ids
<1> QED
  BY <1>1, <1>2 DEF sendRequest

(* An answer moves an id within the table.                                 *)
LEMMA Answers ==
    ASSUME CallsInv, NEW i \in Links, NEW r \in Requests, handleResponse(i, r)
    PROVE  CallsInv'
<1>1. promises \in [set : SUBSET Names, pending : SUBSET Names] /\ r \in Names
  BY DEF CallsInv, CallsType, Names
<1>2. UNCHANGED caller
  BY DEF handleResponse
<1>3. promises' \in [set : SUBSET Names, pending : SUBSET Names] /\ Ids' = Ids
  <2>1. CASE r \in promises.pending
    BY <1>1, <2>1 DEF handleResponse, Ids
  <2>2. CASE r \notin promises.pending
    BY <1>1, <2>2 DEF handleResponse, Ids
  <2> QED
    BY <2>1, <2>2
<1> QED
  BY <1>2, <1>3 DEF CallsInv, CallsType, Matched, Holders

LEMMA CallsKept == CallsInv /\ [SocketNext]_socketVars => CallsInv'
<1> SUFFICES ASSUME CallsInv, [SocketNext]_socketVars PROVE CallsInv'
  OBVIOUS
<1>1. ASSUME UNCHANGED <<caller, promises>> PROVE CallsInv'
  BY <1>1 DEF CallsInv, CallsType, Matched, Holders, Ids
<1>2. ASSUME NEW c \in Callers, NEW r \in Requests, sendRequest(c, r) PROVE CallsInv'
  BY <1>2, Asks
<1>3. ASSUME NEW c \in Callers, CallerStep(c) PROVE CallsInv'
  <2>1. CASE createFutureResponse(c)
    BY <2>1, Takes
  <2>2. CASE Send(c)
    <3>1. Step(c, "created", "waiting") \/ Step(c, "created", "removing")
      BY <2>2 DEF Send
    <3> QED
      BY <2>2, <3>1, MovesAlike DEF Send, Places, Holding
  <2>3. CASE getAsyncResponse(c)
    BY <2>3, MovesAlike DEF getAsyncResponse, Places, Holding
  <2>4. CASE removePromise(c)
    BY <2>4, Leaves
  <2> QED
    BY <1>3, <2>1, <2>2, <2>3, <2>4 DEF CallerStep
<1>4. ASSUME NEW i \in Links, NEW r \in Requests, handleResponse(i, r) PROVE CallsInv'
  BY <1>4, Answers
<1>5. CASE Connect \/ Disconnect \/ Ping \/ Destroy \/ LoopEnds
  BY <1>1, <1>5 DEF Connect, Disconnect, Ping, Destroy, LoopEnds, requestVars
<1>6. ASSUME NEW i \in Links, onOpen(i) \/ onFail(i) \/ onClose(i) PROVE CallsInv'
  BY <1>1, <1>6 DEF onOpen, onFail, onClose, requestVars
<1>7. ASSUME NEW i \in Links, onPong(i) \/ onPongTimeout(i) \/ FallsSilent(i) PROVE CallsInv'
  BY <1>1, <1>7 DEF onPong, onPongTimeout, FallsSilent, requestVars
<1>8. CASE UNCHANGED socketVars
  BY <1>1, <1>8 DEF socketVars, requestVars
<1> QED
  BY <1>2, <1>3, <1>4, <1>5, <1>6, <1>7, <1>8 DEF SocketNext

(* However many threads send however many requests, and in whatever order  *)
(* answers, timeouts, failures and reconnections come: sendRequest leaves  *)
(* no id behind, and no two threads wait for one (JsonRpcInterface).       *)
THEOREM PromisesAreMatched == SocketSpec => []PromisesMatchCallers
<1>1. SocketInit => CallsInv
  BY CallsBegin
<1>2. CallsInv /\ [SocketNext]_socketVars => CallsInv'
  BY CallsKept
<1>3. CallsInv => PromisesMatchCallers
  BY MatchedSuffices
<1> QED
  BY <1>1, <1>2, <1>3, PTL DEF SocketSpec
-----------------------------------------------------------------------------
(* The front panel on its own.                                             *)
PanelSpec == instance /\ [][PanelNext]_panelVars

(* What the pieces are made of.                                            *)
BlinkShape ==
    /\ blink = [list |-> blink.list, index |-> blink.index, number |-> blink.number,
                max |-> blink.max, on |-> blink.on]
    /\ blink.list \in Seq(Elements) /\ blink.index \in Nat
PanelTypeOK ==
    /\ BlinkShape /\ pending \in Nat
    /\ callback.at = "advances" => callback.index \in Nat
    /\ plugin.at = "revokes" /\ plugin.call.name = "setBlink" =>
          plugin.call.pattern \in Seq(Elements)
    /\ plugin.at = "fills" => plugin.rest \in Seq(Elements)

(* A call takes the flag, and once it has waited for the callback nothing  *)
(* sets the timer again before the call itself does.                       *)
CallsStop ==
    /\ plugin.at \in {"revokes", "fills", "starts"} => ~blink.on
    /\ plugin.at \in {"fills", "starts"} => callback.at # "schedules"
    /\ plugin.at = "starts" => pending = 0
    /\ plugin.at = "shows" => /\ pending = 0 /\ callback = Resting
                              /\ blink.index = 0 /\ blink.list # <<>>

(* The element at i is shown, if it is the last or the only one.           *)
ShownIf(what, i) == i + 1 = Len(blink.list) \/ Len(blink.list) = 1 => what = Last(blink.list)

(* A blink nobody stopped has one timer or one callback, or has ended.     *)
Going ==
    /\ blink.index < Len(blink.list)
    /\ \/ pending = 1 /\ callback = Resting /\ ShownIf(shown, blink.index)
       \/ /\ pending = 0 /\ callback.at = "advances" /\ ShownIf(shown, callback.index - 1)
          /\ callback.index \in 1..Len(blink.list)
       \/ pending = 0 /\ callback.at = "shows" /\ ShownIf(callback.element, blink.index)
       \/ pending = 0 /\ callback = [at |-> "schedules"] /\ ShownIf(shown, blink.index)
       \/ pending = 0 /\ callback = Resting /\ shown = Last(blink.list)
OneTimer == plugin = Resting /\ blink.on /\ blink.list # <<>> => Going

PanelInv == PanelTypeOK /\ CallsStop /\ OneTimer

LEMMA PanelBegins == instance => PanelInv
<1> SUFFICES ASSUME instance PROVE PanelInv
  OBVIOUS
<1>1. PanelTypeOK
  BY DEF instance, PanelTypeOK, BlinkShape, Resting
<1>2. CallsStop /\ OneTimer
  BY DEF instance, CallsStop, OneTimer, Resting
<1> QED
  BY <1>1, <1>2 DEF PanelInv

(* Once the flag is taken nothing is said of the blink any more.           *)
LEMMA CallTakesTheFlag == PanelInv /\ (\E call \in Calls : Stopping(call)) => PanelInv'
<1> SUFFICES ASSUME PanelInv, NEW call \in Calls, Stopping(call) PROVE PanelInv'
  OBVIOUS
<1>1. /\ blink' = [blink EXCEPT !.on = FALSE] /\ pending' = 0 /\ callback' = callback
      /\ plugin' = [at |-> "revokes", call |-> call]
  BY DEF Stopping, stopBlinkTimer
<1>2. call.name = "setBlink" => call.pattern \in Seq(Elements)
  BY DEF Calls, SeqOf
<1>3. blink'.on = FALSE /\ BlinkShape'
  BY <1>1 DEF PanelInv, PanelTypeOK, BlinkShape
<1>4. PanelTypeOK'
  BY <1>1, <1>2, <1>3 DEF PanelInv, PanelTypeOK
<1>5. CallsStop' /\ OneTimer'
  BY <1>1, <1>3 DEF CallsStop, OneTimer, Resting
<1> QED
  BY <1>4, <1>5 DEF PanelInv

LEMMA StartKeepsTheBlink == PanelInv /\ start => PanelInv'
<1> SUFFICES ASSUME PanelInv, start PROVE PanelInv'
  OBVIOUS
<1>1. /\ UNCHANGED <<shown, pending, callback, plugin>> /\ plugin = Resting
      /\ blink' \in {blink, [blink EXCEPT !.number = 0, !.max = 0, !.index = 0]}
  BY DEF start, PanelCall
<1>2. /\ blink'.on = blink.on /\ blink'.list = blink.list /\ blink'.index \in {0, blink.index}
      /\ BlinkShape'
  <2>1. CASE blink' = blink
    BY <2>1 DEF PanelInv, PanelTypeOK, BlinkShape
  <2>2. CASE blink' = [blink EXCEPT !.number = 0, !.max = 0, !.index = 0]
    BY <2>2 DEF PanelInv, PanelTypeOK, BlinkShape
  <2> QED
    BY <2>1, <2>2, <1>1
<1>3. PanelTypeOK' /\ CallsStop'
  BY <1>1, <1>2 DEF PanelInv, PanelTypeOK, CallsStop, Resting
<1>4. OneTimer'
  <2> SUFFICES ASSUME blink.on, blink.list # <<>> PROVE Going'
    BY <1>1, <1>2 DEF OneTimer
  <2>1. Going /\ Len(blink.list) \in Nat
    BY <1>1 DEF PanelInv, OneTimer, PanelTypeOK, BlinkShape
  <2>2. Len(blink.list) # 0
    BY DEF PanelInv, PanelTypeOK, BlinkShape
  <2>3. PICK i : i = blink'.index /\ i \in {0, blink.index}
    BY <1>2
  <2>4. /\ i < Len(blink.list)
        /\ \A what : ShownIf(what, blink.index) => ShownIf(what, i)
    <3>1. CASE i = 0
      BY <3>1, <2>1, <2>2 DEF ShownIf
    <3>2. CASE i = blink.index
      BY <3>2, <2>1 DEF Going
    <3> QED
      BY <3>1, <3>2, <2>3
  <2>5. \A what, n : ShownIf(what, n)' <=> ShownIf(what, n)
    BY <1>2 DEF ShownIf
  <2> QED
    BY <2>1, <2>3, <2>4, <2>5, <1>1, <1>2 DEF Going
<1> QED
  BY <1>3, <1>4 DEF PanelInv

LEMMA PowerChangesNothing == PanelInv /\ (\E on \in BOOLEAN : setPowerStatus(on)) => PanelInv'
  BY DEF setPowerStatus, PanelInv, PanelTypeOK, BlinkShape, CallsStop, OneTimer, Going, ShownIf

(* The calls that end after they have waited.                              *)
LEMMA CallEnds ==
  ASSUME PanelInv, plugin.at = "revokes", Returns, callback' = callback
  PROVE  PanelInv'
<1>1. UNCHANGED <<blink, pending, callback>> /\ plugin' = Resting /\ ~blink.on
  BY DEF Returns, PanelInv, CallsStop
<1>2. PanelTypeOK'
  BY <1>1 DEF PanelInv, PanelTypeOK, BlinkShape, Resting
<1>3. CallsStop' /\ OneTimer'
  BY <1>1 DEF CallsStop, OneTimer, Resting
<1> QED
  BY <1>2, <1>3 DEF PanelInv

LEMMA BrightnessStopsAgain == PanelInv /\ setBrightness => PanelInv'
<1> SUFFICES ASSUME PanelInv, setBrightness PROVE PanelInv'
  OBVIOUS
<1>1. /\ blink' = [blink EXCEPT !.on = FALSE] /\ pending' = 0 /\ callback' = Resting
      /\ plugin.at = "revokes"
      /\ plugin' = [plugin EXCEPT !.call = [name |-> "powerOnLed", light |-> "all"]]
  BY DEF setBrightness, Stopped, stopBlinkTimer
<1>2. plugin'.at = "revokes" /\ plugin'.call.name # "setBlink"
  BY <1>1
<1>3. blink'.on = FALSE /\ BlinkShape'
  BY <1>1 DEF PanelInv, PanelTypeOK, BlinkShape
<1>4. PanelTypeOK'
  BY <1>1, <1>2, <1>3 DEF PanelTypeOK, Resting
<1>5. CallsStop' /\ OneTimer'
  BY <1>2, <1>3 DEF CallsStop, OneTimer
<1> QED
  BY <1>4, <1>5 DEF PanelInv

LEMMA PatternIsFilledIn == PanelInv /\ (setBlink \/ Fills \/ StopsAgain) => PanelInv'
<1> SUFFICES ASSUME PanelInv, setBlink \/ Fills \/ StopsAgain PROVE PanelInv'
  OBVIOUS
<1>1. CASE setBlink
  <2>1. /\ blink' = [blink EXCEPT !.list = <<>>] /\ UNCHANGED <<pending, callback>>
        /\ plugin.at = "revokes" /\ callback = Resting
        /\ plugin.call.name = "setBlink"
        /\ plugin' = [at |-> "fills", rest |-> plugin.call.pattern, max |-> plugin.call.iterations]
    BY <1>1 DEF setBlink, Stopped
  <2>2. plugin.call.pattern \in Seq(Elements) /\ ~blink.on
    BY <2>1 DEF PanelInv, PanelTypeOK, CallsStop
  <2>3. ~blink'.on /\ BlinkShape'
    BY <2>1, <2>2 DEF PanelInv, PanelTypeOK, BlinkShape
  <2>4. PanelTypeOK'
    BY <2>1, <2>2, <2>3 DEF PanelInv, PanelTypeOK
  <2>5. CallsStop' /\ OneTimer'
    BY <2>1, <2>3 DEF CallsStop, OneTimer, Resting
  <2> QED
    BY <2>4, <2>5 DEF PanelInv
<1>2. CASE Fills
  <2>1. PICK e, rest : e = Head(plugin.rest) /\ rest = Tail(plugin.rest)
    OBVIOUS
  <2>2. /\ blink' = [blink EXCEPT !.list = Append(blink.list, e)]
        /\ UNCHANGED <<pending, callback>>
        /\ plugin.at = "fills" /\ plugin.rest # <<>>
        /\ plugin' = [plugin EXCEPT !.rest = rest]
    BY <1>2, <2>1 DEF Fills
  <2>3. plugin.rest \in Seq(Elements) /\ ~blink.on
    BY <2>2 DEF PanelInv, PanelTypeOK, CallsStop
  <2>4. e \in Elements /\ rest \in Seq(Elements)
    BY <2>1, <2>2, <2>3
  <2>5. Append(blink.list, e) \in Seq(Elements)
    BY <2>4 DEF PanelInv, PanelTypeOK, BlinkShape
  <2>6. ~blink'.on /\ BlinkShape'
    BY <2>2, <2>3, <2>5 DEF PanelInv, PanelTypeOK, BlinkShape
  <2>7. plugin'.at = "fills" /\ plugin'.rest \in {rest, plugin.rest}
    BY <2>2
  <2>8. PanelTypeOK'
    BY <2>2, <2>3, <2>4, <2>6, <2>7 DEF PanelInv, PanelTypeOK
  <2>9. CallsStop' /\ OneTimer'
    BY <2>2, <2>6, <2>7 DEF PanelInv, CallsStop, OneTimer
  <2> QED
    BY <2>8, <2>9 DEF PanelInv
<1>3. CASE StopsAgain
  <2>1. /\ blink' = [blink EXCEPT !.on = FALSE] /\ pending' = 0 /\ callback' = callback
        /\ plugin.at = "fills" /\ plugin'.at = "starts"
    BY <1>3 DEF StopsAgain, stopBlinkTimer
  <2>2. blink'.on = FALSE /\ BlinkShape'
    BY <2>1 DEF PanelInv, PanelTypeOK, BlinkShape
  <2>3. PanelTypeOK'
    BY <2>1, <2>2 DEF PanelInv, PanelTypeOK
  <2>4. CallsStop' /\ OneTimer'
    BY <2>1, <2>2 DEF PanelInv, CallsStop, OneTimer, Resting
  <2> QED
    BY <2>3, <2>4 DEF PanelInv
<1> QED
  BY <1>1, <1>2, <1>3

LEMMA BlinkBegins == PanelInv /\ startBlinkTimer => PanelInv'
<1> SUFFICES ASSUME PanelInv, startBlinkTimer PROVE PanelInv'
  OBVIOUS
<1>1. PICK max : max = plugin.max
  OBVIOUS
<1>2. /\ blink' = [blink EXCEPT !.number = 0, !.on = TRUE, !.max = max, !.index = 0]
      /\ UNCHANGED <<pending, callback>> /\ callback = Resting /\ plugin.at = "starts"
      /\ plugin' = IF blink.list = <<>> THEN Resting ELSE [at |-> "shows"]
  BY <1>1 DEF startBlinkTimer
<1>3. pending = 0
  BY <1>2 DEF PanelInv, CallsStop
<1>4. blink'.list = blink.list /\ blink'.index = 0 /\ BlinkShape'
  BY <1>2 DEF PanelInv, PanelTypeOK, BlinkShape
<1>5. plugin'.at \in {"idle", "shows"} /\ (plugin' = Resting => blink.list = <<>>)
      /\ (plugin'.at = "shows" => blink.list # <<>>)
  BY <1>2 DEF Resting
<1>6. PanelTypeOK'
  BY <1>2, <1>4, <1>5 DEF PanelInv, PanelTypeOK
<1>7. CallsStop' /\ OneTimer'
  BY <1>2, <1>3, <1>4, <1>5 DEF CallsStop, OneTimer
<1> QED
  BY <1>6, <1>7 DEF PanelInv

LEMMA FirstIsShown == PanelInv /\ ShowsFirst => PanelInv'
<1> SUFFICES ASSUME PanelInv, ShowsFirst PROVE PanelInv'
  OBVIOUS
<1>1. /\ UNCHANGED <<blink, callback>> /\ plugin.at = "shows" /\ plugin' = Resting
      /\ shown' = blink.list[1]
      /\ pending' = pending + (IF blink.on THEN 1 ELSE 0)
  BY DEF ShowsFirst
<1>2. pending = 0 /\ callback = Resting /\ blink.index = 0 /\ blink.list # <<>>
  BY <1>1 DEF PanelInv, CallsStop
<1>3. pending' = IF blink.on THEN 1 ELSE 0
  BY <1>1, <1>2
<1>4. PanelTypeOK' /\ CallsStop'
  BY <1>1, <1>3 DEF PanelInv, PanelTypeOK, BlinkShape, CallsStop, Resting
<1>5. OneTimer'
  <2> SUFFICES ASSUME blink.on PROVE Going'
    BY <1>1 DEF OneTimer
  <2>1. Len(blink.list) \in Nat \ {0}
    BY <1>2 DEF PanelInv, PanelTypeOK, BlinkShape
  <2>2. ShownIf(blink.list[1], 0)
    BY <2>1 DEF ShownIf, Last
  <2>3. ShownIf(shown, blink.index)'
    BY <2>2, <1>1, <1>2 DEF ShownIf
  <2> QED
    BY <2>1, <2>3, <1>1, <1>2, <1>3 DEF Going
<1> QED
  BY <1>4, <1>5 DEF PanelInv

(* The steps of the timer's thread.                                        *)
LEMMA TimerExpires == PanelInv /\ Timed => PanelInv'
<1> SUFFICES ASSUME PanelInv, Timed PROVE PanelInv'
  OBVIOUS
<1>1. PICK i, n : i = blink.index + 1 /\ n = Counted(blink.number)
  OBVIOUS
<1>2. /\ UNCHANGED <<blink, shown, plugin>> /\ callback = Resting /\ pending > 0
      /\ pending' = pending - 1
      /\ callback' = [at |-> "advances", index |-> i, number |-> n]
  BY <1>1 DEF Timed
<1>3. pending \in Nat /\ blink.index \in Nat
  BY DEF PanelInv, PanelTypeOK, BlinkShape
<1>4. PICK p \in Nat : p = pending /\ p # 0 /\ pending' = p - 1 /\ p - 1 \in Nat
  BY <1>2, <1>3
<1>5. i \in Nat /\ i - 1 = blink.index
  BY <1>1, <1>3
<1>6. PanelTypeOK'
  BY <1>2, <1>4, <1>5 DEF PanelInv, PanelTypeOK, BlinkShape
<1>7. CallsStop'
  BY <1>2, <1>4 DEF PanelInv, CallsStop
<1>8. OneTimer'
  <2> SUFFICES ASSUME plugin = Resting, blink.on, blink.list # <<>> PROVE Going'
    BY <1>2 DEF OneTimer
  <2>1. Going
    BY DEF PanelInv, OneTimer
  <2>2. p = 1 /\ blink.index < Len(blink.list) /\ ShownIf(shown, blink.index)
    BY <2>1, <1>2, <1>4 DEF Going, Resting
  <2>3. i \in 1..Len(blink.list)
    BY <2>2, <1>1, <1>3 DEF PanelInv, PanelTypeOK, BlinkShape
  <2>4. pending' = 0
    BY <2>2, <1>4
  <2>5. ShownIf(shown, i - 1)'
    BY <2>2, <1>2, <1>5 DEF ShownIf
  <2> QED
    BY <2>2, <2>3, <2>4, <2>5, <1>2 DEF Going
<1> QED
  BY <1>6, <1>7, <1>8 DEF PanelInv

LEMMA CallbackAdvances == PanelInv /\ onBlinkTimer => PanelInv'
<1> SUFFICES ASSUME PanelInv, onBlinkTimer PROVE PanelInv'
  OBVIOUS
<1>1. PICK len, over, i, n :
        /\ len = Len(blink.list)
        /\ over = (callback.index >= len)
        /\ i = (IF callback.index >= len THEN 0 ELSE callback.index)
        /\ n = (IF callback.index >= len THEN callback.number ELSE blink.number)
  OBVIOUS
<1>2. /\ UNCHANGED <<shown, pending, plugin>> /\ callback.at = "advances"
      /\ blink' = [blink EXCEPT !.index = i, !.number = n]
      /\ \/ callback' = Resting /\ callback.index >= len
         \/ callback' = [at |-> "shows", element |-> blink.list[i + 1]]
         \/ callback' = [at |-> "thrown"] /\ ~(i < len)
  <2>1. /\ UNCHANGED <<shown, pending, plugin>> /\ callback.at = "advances"
        /\ blink' = [blink EXCEPT !.index = i, !.number = n]
    BY <1>1 DEF onBlinkTimer
  <2>2. \/ callback' = Resting /\ ~blinkAgain(callback.index >= len, callback.number)
        \/ callback' = [at |-> "shows", element |-> blink.list[i + 1]]
        \/ callback' = [at |-> "thrown"] /\ ~(i < len)
    BY <1>1 DEF onBlinkTimer
  <2> QED
    BY <2>1, <2>2 DEF blinkAgain
<1>3. len \in Nat /\ callback.index \in Nat /\ i \in Nat
  BY <1>1, <1>2 DEF PanelInv, PanelTypeOK, BlinkShape
<1>4. /\ blink'.on = blink.on /\ blink'.list = blink.list /\ blink'.index = i
      /\ BlinkShape'
  BY <1>2, <1>3 DEF PanelInv, PanelTypeOK, BlinkShape
<1>5. callback'.at \in {"idle", "shows", "thrown"}
  BY <1>2 DEF Resting
<1>6. PanelTypeOK'
  BY <1>2, <1>4, <1>5 DEF PanelInv, PanelTypeOK
<1>7. CallsStop'
  BY <1>2, <1>4, <1>5 DEF PanelInv, CallsStop, Resting
<1>8. OneTimer'
  <2> SUFFICES ASSUME plugin = Resting, blink.on, blink.list # <<>> PROVE Going'
    BY <1>2, <1>4 DEF OneTimer
  <2>1. /\ pending = 0 /\ ShownIf(shown, callback.index - 1)
        /\ callback.index \in 1..len
    BY <1>1, <1>2 DEF PanelInv, OneTimer, Going, Resting
  <2>2. len # 0
    BY <2>1
  <2>3. i < len
    BY <2>1, <2>2, <1>1, <1>3
  <2>4. CASE callback' = Resting /\ callback.index >= len
    <3>1. callback.index - 1 + 1 = len
      BY <2>1, <2>4, <1>3
    <3>2. shown = Last(blink.list)
      BY <2>1, <3>1, <1>1 DEF ShownIf
    <3> QED
      BY <2>1, <2>3, <2>4, <3>2, <1>1, <1>2, <1>4 DEF Going
  <2>5. CASE callback' = [at |-> "shows", element |-> blink.list[i + 1]]
    <3>1. ShownIf(blink.list[i + 1], i)
      BY <2>3, <1>1, <1>3 DEF ShownIf, Last
    <3>2. ShownIf(callback.element, blink.index)'
      BY <3>1, <2>5, <1>4 DEF ShownIf
    <3> QED
      BY <2>1, <2>3, <2>5, <3>2, <1>1, <1>2, <1>4 DEF Going
  <2> QED
    BY <2>3, <2>4, <2>5, <1>2
<1> QED
  BY <1>6, <1>7, <1>8 DEF PanelInv

LEMMA CallbackShows == PanelInv /\ setBlinkLed => PanelInv'
<1> SUFFICES ASSUME PanelInv, setBlinkLed PROVE PanelInv'
  OBVIOUS
<1>1. /\ UNCHANGED <<blink, pending, plugin>> /\ callback.at = "shows"
      /\ shown' = callback.element
      /\ \/ blink.on /\ callback' = [at |-> "schedules"]
         \/ ~blink.on /\ callback' = Resting
  BY DEF setBlinkLed
<1>2. PanelTypeOK'
  BY <1>1 DEF PanelInv, PanelTypeOK, BlinkShape, Resting
<1>3. CallsStop'
  BY <1>1 DEF PanelInv, CallsStop, Resting
<1>4. OneTimer'
  <2> SUFFICES ASSUME plugin = Resting, blink.on, blink.list # <<>> PROVE Going'
    BY <1>1 DEF OneTimer
  <2>1. /\ pending = 0 /\ ShownIf(callback.element, blink.index)
        /\ blink.index < Len(blink.list)
    BY <1>1 DEF PanelInv, OneTimer, Going, Resting
  <2>2. ShownIf(shown, blink.index)'
    BY <2>1, <1>1 DEF ShownIf
  <2> QED
    BY <2>1, <2>2, <1>1 DEF Going
<1> QED
  BY <1>2, <1>3, <1>4 DEF PanelInv

LEMMA CallbackSchedules == PanelInv /\ Schedule => PanelInv'
<1> SUFFICES ASSUME PanelInv, Schedule PROVE PanelInv'
  OBVIOUS
<1>1. /\ UNCHANGED <<blink, shown, plugin>> /\ callback.at = "schedules"
      /\ callback' = Resting /\ pending' = pending + 1
  BY DEF Schedule
<1>2. PICK p \in Nat : p = pending /\ pending' = p + 1 /\ p + 1 \in Nat
  BY <1>1 DEF PanelInv, PanelTypeOK
<1>3. PanelTypeOK'
  BY <1>1, <1>2 DEF PanelInv, PanelTypeOK, BlinkShape, Resting
<1>4. CallsStop'
  BY <1>1 DEF PanelInv, CallsStop, Resting
<1>5. OneTimer'
  <2> SUFFICES ASSUME plugin = Resting, blink.on, blink.list # <<>> PROVE Going'
    BY <1>1 DEF OneTimer
  <2>1. /\ p = 0 /\ ShownIf(shown, blink.index) /\ blink.index < Len(blink.list)
    BY <1>1, <1>2 DEF PanelInv, OneTimer, Going, Resting
  <2>2. ShownIf(shown, blink.index)'
    BY <2>1, <1>1 DEF ShownIf
  <2>3. pending' = 1
    BY <2>1, <1>2
  <2> QED
    BY <2>1, <2>2, <2>3, <1>1 DEF Going
<1> QED
  BY <1>3, <1>4, <1>5 DEF PanelInv

LEMMA PanelKept == PanelInv /\ [PanelNext]_panelVars => PanelInv'
<1> SUFFICES ASSUME PanelInv, [PanelNext]_panelVars PROVE PanelInv'
  OBVIOUS
<1>1. CASE stop \/ setLED \/ powerOnLed \/ powerOffLed
  <2>1. plugin.at = "revokes" /\ Returns /\ callback' = callback
    BY <1>1 DEF stop, setLED, powerOnLed, powerOffLed, Stopped
  <2> QED
    BY <2>1, CallEnds
<1>2. CASE UNCHANGED panelVars
  BY <1>2 DEF panelVars, PanelInv, PanelTypeOK, BlinkShape, CallsStop, OneTimer, Going, ShownIf
<1> QED
  BY <1>1, <1>2, CallTakesTheFlag, StartKeepsTheBlink, PowerChangesNothing,
     BrightnessStopsAgain, PatternIsFilledIn, BlinkBegins, FirstIsShown,
     TimerExpires, CallbackAdvances, CallbackShows, CallbackSchedules DEF PanelNext

(* However long a pattern and however often it is repeated, and whatever   *)
(* calls come between the steps of the timer's thread: a blink that ends   *)
(* by itself leaves the light on the last element.                         *)
THEOREM LightStaysOnLast == PanelSpec => []StaysOnLast
<1>1. PanelInv => StaysOnLast
  <2> SUFFICES ASSUME PanelInv, blink.on, blink.list # <<>>, pending = 0, callback = Resting,
                      plugin = Resting
               PROVE  shown = Last(blink.list)
    BY DEF StaysOnLast
  <2> QED
    BY DEF PanelInv, OneTimer, Going, Resting
<1> QED
  BY <1>1, PanelBegins, PanelKept, PTL DEF PanelSpec

-----------------------------------------------------------------------------
(* The configuration on its own.                                           *)
ConfigSpec == ConfigInit /\ [][ConfigNext]_configVars

(* What a limit is read as: 100 MiB at least, 2 GiB at most.               *)
Readable == 100..2048

(* The limits a container is divided into never add up to more, although   *)
(* the differences are taken without a sign.                               *)
LEMMA LimitsFitIn ==
  ASSUME NEW total \in Readable, NEW version \in Nat
  PROVE  \A l : l = limitsInForce(version, memoryLimits(total)) =>
                l.network + l.web + l.worker <= total
<1>0. total \in 100..2048
  BY DEF Readable
<1>1. PICK worker \in {0, 100} : worker = IF On("enableServiceWorker") THEN 100 ELSE 0
  OBVIOUS
<1>2. PICK rest : rest = minus(total, 50)
  OBVIOUS
<1>3. rest = total - 50
  BY <1>0, <1>2 DEF minus, ULong
<1>4. PICK web : web = minus(rest, worker)
  OBVIOUS
<1>5. web = IF worker <= total - 50 THEN total - 50 - worker ELSE total - 50 - worker + ULong
  BY <1>0, <1>3, <1>4 DEF minus, ULong
<1>6. PICK given : given = IF web > total THEN 0 ELSE web
  OBVIOUS
<1>7. given \in Nat /\ (given = 0 \/ 50 + worker + given = total)
  BY <1>0, <1>5, <1>6 DEF ULong
<1>8. memoryLimits(total) = [network |-> 50, worker |-> worker, web |-> given]
  BY <1>1, <1>2, <1>4, <1>6 DEF memoryLimits
<1>9. PICK l : l = limitsInForce(version, memoryLimits(total))
  OBVIOUS
<1>10. \/ l = [network |-> 0, web |-> 0, worker |-> 0]
       \/ l = [network |-> 50, web |-> 0, worker |-> 0]
       \/ l = [network |-> 50, worker |-> worker, web |-> given] /\ given # 0
  <2>1. version < 238 \/ version >= 238
    OBVIOUS
  <2> QED
    BY <2>1, <1>8, <1>9 DEF limitsInForce
<1>11. l.network + l.web + l.worker <= total
  BY <1>0, <1>7, <1>10
<1> QED
  BY <1>9, <1>11

(* The container's limit is known when the view is created, and what the   *)
(* view was given stays.                                                   *)
LimitsInv ==
    /\ stage \in {"limited", "prepared", "running"} => system \in Readable
    /\ view.state # "none" => /\ stage = "running" /\ {"state", "limits"} \subseteq DOMAIN view
                              /\ LimitsAddUp
    /\ view = [f \in DOMAIN view |-> view[f]]

LEMMA LimitsKept == LimitsInv /\ [ConfigNext]_configVars => LimitsInv'
<1> SUFFICES ASSUME LimitsInv, [ConfigNext]_configVars PROVE LimitsInv'
  OBVIOUS
<1>1. CASE /\ UNCHANGED <<system, view>>
           /\ stage \notin {"limited", "prepared", "running"}
           /\ stage' \notin {"limited", "prepared", "running"}
  BY <1>1 DEF LimitsInv
<1>2. CASE ReadConfig \/ applyCmdLineOptions \/ preLoadWPE
  BY <1>1, <1>2 DEF ReadConfig, applyCmdLineOptions, preLoadWPE
<1>3. CASE createBrowserInstance
  BY <1>1, <1>3 DEF createBrowserInstance
<1>4. CASE ReadLimits
  <2>1. PICK limit \in Limits \cup {0} : system' = readLimits(limit, 200)
    BY <1>4 DEF ReadLimits
  <2>2. system' \in Readable
    <3>1. limit \in Nat
      BY BoundsAssumption
    <3> QED
      BY <2>1, <3>1 DEF readLimits, Readable
  <2>3. view' = view /\ view.state = "none"
    BY <1>4 DEF ReadLimits, LimitsInv
  <2> QED
    BY <2>2, <2>3 DEF LimitsInv
<1>5. CASE setEnvironment
  BY <1>5 DEF setEnvironment, LimitsInv
<1>6. CASE createView
  <2>1. /\ stage = "prepared" /\ stage' = "running" /\ system' = system
        /\ system \in Readable
    BY <1>6 DEF createView, LimitsInv
  <2>2. PICK version \in Versions : /\ view'.limits = limitsInForce(version, memoryLimits(system))
                                    /\ {"state", "limits"} \subseteq DOMAIN view'
                                    /\ view' = [f \in DOMAIN view' |-> view'[f]]
    BY <1>6 DEF createView
  <2>3. LimitsAddUp'
    <3>1. version \in Nat
      BY BoundsAssumption
    <3>2. PICK total \in Readable : total = system
      BY <2>1
    <3>3. PICK l : l = limitsInForce(version, memoryLimits(total))
      OBVIOUS
    <3>4. l.network + l.web + l.worker <= total
      BY <3>1, <3>2, <3>3, LimitsFitIn
    <3>5. view'.limits = l /\ system' = total
      BY <2>1, <2>2, <3>2, <3>3
    <3> QED
      BY <3>4, <3>5 DEF LimitsAddUp
  <2> QED
    BY <2>1, <2>2, <2>3 DEF LimitsInv
<1>7. CASE loadFailed
  <2>1. UNCHANGED <<stage, system>> /\ view.state = "loading" /\ stage = "running"
    BY <1>7 DEF loadFailed
  <2>2. PICK what : view' = [view EXCEPT !.state = what]
    BY <1>7 DEF loadFailed
  <2>3. {"state", "limits"} \subseteq DOMAIN view /\ view = [f \in DOMAIN view |-> view[f]]
    BY <2>1 DEF LimitsInv
  <2>4. /\ view'.limits = view.limits /\ DOMAIN view' = DOMAIN view
        /\ view' = [f \in DOMAIN view' |-> view'[f]]
    BY <2>2, <2>3
  <2> QED
    BY <2>1, <2>3, <2>4 DEF LimitsInv, LimitsAddUp
<1>8. CASE UNCHANGED configVars
  BY <1>8 DEF configVars, LimitsInv, LimitsAddUp
<1> QED
  BY <1>2, <1>3, <1>4, <1>5, <1>6, <1>7, <1>8 DEF ConfigNext

(* Whatever the memory of the container, the version of WebKit and the     *)
(* options: the limits WebKit is given add up to no more than there is.    *)
THEOREM LimitsNeverExceed == ConfigSpec => []LimitsAddUp
<1>1. ConfigInit => LimitsInv
  BY DEF ConfigInit, LimitsInv
<1>2. LimitsInv => LimitsAddUp
  BY DEF LimitsInv, LimitsAddUp
<1> QED
  BY <1>1, <1>2, LimitsKept, PTL DEF ConfigSpec

(* A variable that is paths of libraries, or is renamed.                   *)
Rewritten == {"LD_LIBRARY_PATH", "GST_PLUGIN_SYSTEM_PATH", "WEBKIT_LEGACY_INSPECTOR_SERVER"}

(* What is the host's in one environment is so in the other, but for those.*)
KeepsHost(e, f) ==
    /\ DOMAIN f = DOMAIN e
    /\ \A v \in DOMAIN e : e[v] = "host" /\ v \notin Rewritten => f[v] = "host"

LEMMA GentlySet ==
  ASSUME NEW e, NEW names, NEW who
  PROVE  KeepsHost(e, setEnvVar(e, names, who, FALSE))
  BY DEF KeepsHost, setEnvVar

LEMMA MediaKeepsHost ==
  ASSUME NEW e
  PROVE  /\ KeepsHost(e, setRialtoEnvironment(e))
         /\ \A platform : KeepsHost(e, setGStreamerEnvironment(e, platform))
<1>1. PICK f : f = setEnvVar(e, {"LD_LIBRARY_PATH", "GST_PLUGIN_SYSTEM_PATH"}, "rialto", TRUE)
  OBVIOUS
<1>2. KeepsHost(e, f)
  BY <1>1 DEF KeepsHost, Rewritten, setEnvVar
<1>3. KeepsHost(f, setRialtoEnvironment(e))
  BY <1>1, GentlySet DEF setRialtoEnvironment
<1>4. ASSUME NEW platform PROVE KeepsHost(e, setGStreamerEnvironment(e, platform))
  <2>1. PICK paths \in SUBSET {"LD_LIBRARY_PATH"} :
             paths = IF platform = "realtek" THEN {"LD_LIBRARY_PATH"} ELSE {}
    OBVIOUS
  <2>2. PICK g : g = setEnvVar(e, paths, "prepended", TRUE)
    OBVIOUS
  <2>3. KeepsHost(e, g)
    BY <2>1, <2>2 DEF KeepsHost, Rewritten, setEnvVar
  <2>4. KeepsHost(g, setGStreamerEnvironment(e, platform))
    BY <2>1, <2>2, GentlySet DEF setGStreamerEnvironment
  <2> QED
    BY <2>3, <2>4 DEF KeepsHost
<1> QED
  BY <1>2, <1>3, <1>4 DEF KeepsHost

LEMMA SwapKeepsHost ==
  ASSUME NEW e PROVE KeepsHost(e, swapInspector(e))
<1>1. CASE e["WEBKIT_LEGACY_INSPECTOR_SERVER"] = "unset"
  BY <1>1 DEF swapInspector, KeepsHost
<1>2. CASE e["WEBKIT_LEGACY_INSPECTOR_SERVER"] # "unset"
  <2>1. PICK f : f = [e EXCEPT !["WEBKIT_LEGACY_INSPECTOR_SERVER"] = "unset"]
    OBVIOUS
  <2>2. KeepsHost(e, f)
    BY <2>1 DEF KeepsHost, Rewritten
  <2>3. KeepsHost(f, swapInspector(e))
    BY <1>2, <2>1, GentlySet DEF swapInspector
  <2> QED
    BY <2>2, <2>3 DEF KeepsHost
<1> QED
  BY <1>1, <1>2

(* Through all that the launcher sets on the way: what the package sets    *)
(* comes last, and what the host set is lost to nothing else.              *)
THEOREM PackageComesLast == ConfigSpec => AppHasLastWord
<1> DEFINE LastWord ==
      /\ stage' = "prepared" => \A v \in DOMAIN env \cap options.envs : env'[v] = "package"
      /\ \A v \in DOMAIN env : env[v] = "host" /\ env'[v] # "host" =>
           v \in options.envs \cup {"LD_LIBRARY_PATH", "GST_PLUGIN_SYSTEM_PATH",
                                    "WEBKIT_LEGACY_INSPECTOR_SERVER"}
<1>1. ASSUME ConfigNext PROVE LastWord
  <2>1. CASE env' = env /\ stage' # "prepared"
    BY <2>1
  <2>2. CASE ReadConfig \/ applyCmdLineOptions \/ createBrowserInstance \/ ReadLimits
             \/ createView \/ loadFailed
    BY <2>1, <2>2 DEF ReadConfig, applyCmdLineOptions, createBrowserInstance, ReadLimits,
                      createView, loadFailed
  <2>3. CASE preLoadWPE
    <3>1. stage' # "prepared"
      BY <2>3 DEF preLoadWPE
    <3>2. KeepsHost(env, env')
      BY <2>3, GentlySet DEF preLoadWPE, KeepsHost
    <3> QED
      BY <3>1, <3>2 DEF KeepsHost, Rewritten
  <2>4. CASE setEnvironment
    <3>1. PICK gpu \in BOOLEAN, platform \in {"realtek", "other"}, rialto \in {"off", "fails", "works"},
               backends \in SUBSET {"/usr/lib"} :
            LET base == setEnvVar(env, defaultEnvs(gpu, backends), "default", FALSE)
                media == IF rialto = "works" THEN setRialtoEnvironment(base)
                         ELSE setGStreamerEnvironment(base, platform)
            IN  env' = insertEnvs(swapInspector(media), options.envs)
      BY <2>4 DEF setEnvironment
    <3>2. PICK base : base = setEnvVar(env, defaultEnvs(gpu, backends), "default", FALSE)
      OBVIOUS
    <3>3. PICK media : media = IF rialto = "works" THEN setRialtoEnvironment(base)
                               ELSE setGStreamerEnvironment(base, platform)
      OBVIOUS
    <3>4. PICK swapped : swapped = swapInspector(media)
      OBVIOUS
    <3>5. env' = setEnvVar(swapped, options.envs, "package", TRUE)
      BY <3>1, <3>2, <3>3, <3>4 DEF insertEnvs
    <3>6. KeepsHost(env, base)
      BY <3>2, GentlySet
    <3>7. KeepsHost(base, media)
      BY <3>3, MediaKeepsHost
    <3>8. KeepsHost(media, swapped)
      BY <3>4, SwapKeepsHost
    <3>9. KeepsHost(env, swapped)
      BY <3>6, <3>7, <3>8 DEF KeepsHost
    <3>10. \A v \in DOMAIN env : env'[v] = IF v \in options.envs THEN "package" ELSE swapped[v]
      BY <3>5, <3>9 DEF KeepsHost, setEnvVar
    <3> QED
      BY <3>9, <3>10 DEF KeepsHost, Rewritten
  <2> QED
    BY <1>1, <2>2, <2>3, <2>4 DEF ConfigNext
<1>2. [ConfigNext]_configVars => [LastWord]_configVars
  BY <1>1
<1> QED
  BY <1>2, PTL DEF ConfigSpec, AppHasLastWord

-----------------------------------------------------------------------------
(* What is proved of the configuration, the socket and the front panel on  *)
(* their own holds of the system the run checks, in which they are side    *)
(* by side.                                                                *)
THEOREM LaunchingIsSafe ==
  Spec => []LimitsAddUp /\ []PromisesMatchCallers /\ []StaysOnLast /\ AppHasLastWord
<1>1. Init => ConfigInit /\ SocketInit /\ instance
  BY DEF Init
<1>2. [Next]_vars => [ConfigNext]_configVars
  BY DEF Next, vars
<1>3. [Next]_vars => [SocketNext]_socketVars
  BY DEF Next, vars
<1>4. [Next]_vars => [PanelNext]_panelVars
  BY DEF Next, vars
<1>5. Spec => ConfigSpec /\ SocketSpec /\ PanelSpec
  BY <1>1, <1>2, <1>3, <1>4, PTL DEF Spec, ConfigSpec, SocketSpec, PanelSpec
<1> QED
  BY <1>5, LimitsNeverExceed, PromisesAreMatched, LightStaysOnLast, PackageComesLast, PTL
=============================================================================
