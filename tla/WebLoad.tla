------------------------------ MODULE WebLoad -------------------------------
(***************************************************************************)
(* How WebKitImplementation turns the load signals of WebKit into the      *)
(* notifications LoadFinished, LoadFailed and URLChange.  A page may be    *)
(* asked for by the setter of URL or by the page itself; the web process   *)
(* (external) takes what it is sent in order and answers in order, so that *)
(* the end of one load may arrive when the next has already been asked.    *)
(*                                                                         *)
(* GLib flavour (WEBKIT_GLIB_API).  A load is the number of its page in    *)
(* "pages".  Every signal and its notifications are one step of the web    *)
(* thread: the clients are called under the lock.                          *)
(***************************************************************************)
EXTENDS Naturals, Sequences, SequencesExt

CONSTANTS
    HttpPages,    \* pages whose uri starts with http
    OtherPages,   \* about:blank and files: no response is decided on
    MaxLoads      \* bound: loads

ASSUME LoadAssumption ==
    /\ HttpPages \cap OtherPages = {}
    /\ HttpPages # {}
    /\ MaxLoads \in Nat

Pages == HttpPages \cup OtherPages
NoPage == "noPage"

VARIABLES
    url,          \* _URL
    status,       \* _httpStatusCode: "none" (-1) or "some"
    ignoreOnce,   \* _ignoreLoadFinishedOnce
    pages,        \* the page of every load asked for so far
    view,         \* the web view: its uri, its newest load, whether that has
                  \* yet to start in the web process
    toProcess,    \* messages to the web process
    process,      \* the load the web process is at, and how far it is
    wire,         \* messages from the web process
    told,         \* notifications of the last step, in their order
    cause,        \* the message that caused them
    reported      \* history: loads whose end was reported

browserVars == <<url, status, ignoreOnce>>
processVars == <<process, toProcess, wire>>
loadVars == <<browserVars, pages, view, processVars, told, cause, reported>>

NoMessage == [kind |-> "none", load |-> 0]
Message(kind, i) == [kind |-> kind, load |-> i]
Told(what, p) == [what |-> what, page |-> p]

LoadInit ==
    /\ url = NoPage /\ status = "none" /\ ignoreOnce = FALSE
    /\ pages = <<>>
    /\ view = [uri |-> NoPage, newest |-> 0, pending |-> FALSE]
    /\ toProcess = <<>> /\ process = [load |-> 0, phase |-> "idle"] /\ wire = <<>>
    /\ told = <<>> /\ cause = NoMessage
    /\ reported = {}

Quiet == told' = <<>> /\ cause' = NoMessage /\ UNCHANGED reported

-----------------------------------------------------------------------------
(* notify::uri -> OnURLChanged.                                            *)
uriChanged(p) ==
    IF p = view.uri THEN <<>> ELSE <<Told("URLChange", p)>>

(* Faulty form: the answer to the previous page still counts.              *)
SetURLKeepsStatus(p) ==
    /\ Len(pages) < MaxLoads
    /\ pages' = Append(pages, p)
    /\ view' = [uri |-> p, newest |-> Len(pages'), pending |-> TRUE]
    /\ toProcess' = Append(toProcess, Message("load", Len(pages')))
    /\ url' = p
    /\ told' = uriChanged(p) /\ cause' = NoMessage
    /\ UNCHANGED <<status, ignoreOnce, process, wire, reported>>

(* URL(string), on the web thread: the answer to the previous page no      *)
(* longer counts, and webkit_web_view_load_uri shows the uri at once.      *)
SetURL(p) ==
    /\ Len(pages) < MaxLoads
    /\ pages' = Append(pages, p)
    /\ view' = [uri |-> p, newest |-> Len(pages'), pending |-> TRUE]
    /\ toProcess' = Append(toProcess, Message("load", Len(pages')))
    /\ url' = p /\ status' = "none"
    /\ told' = uriChanged(p) /\ cause' = NoMessage
    /\ UNCHANGED <<ignoreOnce, process, wire, reported>>

-----------------------------------------------------------------------------
(* The web process.  A new load cancels the one it is at.                  *)
StartLoad(i) ==
    /\ process' = [load |-> i, phase |-> "requested"]
    /\ wire' = wire \o (IF process.phase = "idle" THEN <<>>
                        ELSE <<Message("cancelled", process.load)>>)
                    \o <<Message("started", i)>>

TakeLoad ==
    /\ toProcess # <<>> /\ Head(toProcess).kind = "load"
    /\ StartLoad(Head(toProcess).load)
    /\ toProcess' = Tail(toProcess)
    /\ UNCHANGED <<browserVars, pages, view>> /\ Quiet

(* The decision to use a response; of no use to a load that is over.       *)
TakeUse ==
    /\ toProcess # <<>> /\ Head(toProcess).kind = "use"
    /\ process' = IF process = [load |-> Head(toProcess).load, phase |-> "deciding"]
                  THEN [process EXCEPT !.phase = "receiving"] ELSE process
    /\ toProcess' = Tail(toProcess)
    /\ UNCHANGED <<browserVars, pages, view, wire>> /\ Quiet

(* The page goes to another page.                                          *)
Navigate(p) ==
    /\ process.load # 0 /\ Len(pages) < MaxLoads
    /\ pages' = Append(pages, p)
    /\ StartLoad(Len(pages'))
    /\ UNCHANGED <<browserVars, view, toProcess>> /\ Quiet

OfHttp(i) == pages[i] \in HttpPages

Sends(kind, phase) ==
    /\ wire' = Append(wire, Message(kind, process.load))
    /\ process' = [process EXCEPT !.phase = phase]
    /\ UNCHANGED <<browserVars, pages, view, toProcess>> /\ Quiet

Respond == process.phase = "requested" /\ OfHttp(process.load) /\ Sends("response", "deciding")

Finish ==
    /\ \/ process.phase = "receiving"
       \/ process.phase = "requested" /\ ~OfHttp(process.load)
    /\ Sends("finished", "idle")

Fail ==
    /\ process.phase # "idle" /\ OfHttp(process.load)
    /\ Sends("failed", "idle")

-----------------------------------------------------------------------------
(* The signals the view emits for a message.                               *)
Receive(kind) ==
    /\ wire # <<>> /\ Head(wire).kind = kind
    /\ wire' = Tail(wire) /\ cause' = Head(wire)
    /\ UNCHANGED <<pages, process>>

(* The uri is that of the newest load the view knows of; a load the view   *)
(* has asked for itself hides those that start before it.                  *)
Started ==
    /\ Receive("started")
    /\ LET i == Head(wire).load IN
       IF view.pending /\ i # view.newest
       THEN told' = <<>> /\ UNCHANGED <<url, view>>
       ELSE /\ view' = [uri |-> pages[i], newest |-> i, pending |-> FALSE]
            /\ told' = uriChanged(pages[i])
            /\ url' = pages[i]
    /\ UNCHANGED <<status, ignoreOnce, toProcess, reported>>

(* decidePolicyCallback for the response of the main frame.                *)
decidePolicy ==
    /\ Receive("response")
    /\ status' = "some"
    /\ toProcess' = Append(toProcess, Message("use", Head(wire).load))
    /\ told' = <<>>
    /\ UNCHANGED <<url, ignoreOnce, view, reported>>

(* Faulty form: the flag is not taken back.                                *)
loadChangedForgetful(done, ignore, first) ==
    LET heard == ~ignore /\ ~(status = "none" /\ view.uri \in HttpPages /\ ~done) IN
    /\ ignoreOnce' = ignore
    /\ told' = IF heard THEN Append(first, Told("LoadFinished", view.uri)) ELSE first
    /\ url' = IF heard THEN view.uri ELSE url

(* loadChangedCallback for WEBKIT_LOAD_FINISHED: "done" is whether the     *)
(* progress of the view is 1, "ignore" the flag by then, "first" what was  *)
(* told before in the step.  OnLoadFinished passes on the view's uri.      *)
loadChanged(done, ignore, first) ==
    LET heard == ~ignore /\ ~(status = "none" /\ view.uri \in HttpPages /\ ~done) IN
    /\ ignoreOnce' = FALSE
    /\ told' = IF heard THEN Append(first, Told("LoadFinished", view.uri)) ELSE first
    /\ url' = IF heard THEN view.uri ELSE url

UnchangedByEnd == UNCHANGED <<status, view, toProcess>>

Finished ==
    /\ Receive("finished")
    /\ loadChanged(Head(wire).load = view.newest, ignoreOnce, <<>>)
    /\ reported' = IF told' = <<>> THEN reported ELSE reported \cup {Head(wire).load}
    /\ UnchangedByEnd

(* loadFailedCallback, and the "finished" WebKit emits after it.  Whether  *)
(* the progress of a load that failed is 1 is up to WebKit.                *)
Failed ==
    /\ Receive("failed")
    /\ \E done \in BOOLEAN :
         /\ done => Head(wire).load = view.newest
         /\ loadChanged(done, ignoreOnce, <<Told("LoadFailed", pages[Head(wire).load])>>)
    /\ reported' = reported \cup {Head(wire).load}
    /\ UnchangedByEnd

(* An error WEBKIT_NETWORK_ERROR_CANCELLED: neither failed nor finished.   *)
Cancelled ==
    /\ Receive("cancelled")
    /\ loadChanged(FALSE, TRUE, <<>>)
    /\ UNCHANGED reported
    /\ UnchangedByEnd

-----------------------------------------------------------------------------
Engine == TakeLoad \/ TakeUse \/ Respond \/ Finish
Signals == Started \/ decidePolicy \/ Finished \/ Failed \/ Cancelled

LoadNext ==
    \/ \E p \in Pages : SetURL(p)
    \/ \E p \in HttpPages : Navigate(p)
    \/ Engine \/ Fail \/ Signals

-----------------------------------------------------------------------------
(* By the end of another load than the newest nobody is told that an http  *)
(* page finished: "there is another load in progress already"              *)
(* (loadChangedCallback).  Two such ends are taken for the newest load's,  *)
(* both before it started and when the late response to another load was   *)
(* decided on after it was asked for: that of a load that failed (told as  *)
(* failed, too), and that of about:blank or a file, asked for between two  *)
(* http pages, which has no response of its own.                           *)
NoEarlyFinish ==
    \A i \in DOMAIN told :
       /\ told[i].what = "LoadFinished" /\ told[i].page \in HttpPages
       /\ cause.load # view.newest
       => /\ view.pending /\ status = "some"
          /\ cause.kind = "failed" \/ ~OfHttp(cause.load)

(* The end of the newest load is reported, as finished or as failed,       *)
(* unless another load replaces it; in particular a cancelled load leaves  *)
(* nothing behind that swallows the end of the next                        *)
(* (_ignoreLoadFinishedOnce).                                              *)
EndIsReported ==
    \A i \in 1..MaxLoads : view.newest = i ~> i \in reported \/ view.newest # i
=============================================================================
