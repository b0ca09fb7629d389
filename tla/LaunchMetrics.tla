--------------------------- MODULE LaunchMetrics ----------------------------
(***************************************************************************)
(* What the PerformanceMetrics plugin makes of the notifications of a      *)
(* browser: WebBrowserObservable counts the loads, and SysLogOuput takes a *)
(* sample of the system at every URLChange and logs it, once for every     *)
(* application, at the end of a load.  The composition with WebLoad: the   *)
(* notifications are those the browser gives.                              *)
(*                                                                         *)
(* An application is the host of a page.  A sample is the page it was      *)
(* taken for: the figures in it (idle time, memory, load average) are left *)
(* out.                                                                    *)
(***************************************************************************)
EXTENDS WebLoad

CONSTANTS
    StartPage,    \* startURL, about:blank
    HostOf(_),    \* getHostName
    MaxCount      \* UINT32_MAX

ASSUME StartAssumption == StartPage \in OtherPages
ASSUME CountAssumption == MaxCount \in Nat

VARIABLE
    logger        \* observable and logger:
                  \*   sample     _urloadmetrics
                  \*   didLog     _didLogLaunchMetrics
                  \*   lastApp    _lastLoggedApp
                  \*   good, bad  _nbrloadedsuccess, _nbrloadedfailed
                  \*   report     the launch metrics logged last

metricsVars == <<loadVars, logger>>

MetricsInit ==
    /\ LoadInit
    /\ logger = [sample |-> NoPage, didLog |-> FALSE, lastApp |-> NoPage, good |-> 0, bad |-> 0,
                 report |-> [app |-> NoPage, success |-> TRUE, sample |-> NoPage, loads |-> 0]]

-----------------------------------------------------------------------------
(* Faulty form: "we only measure on first url handling", taken literally.  *)
URLChangeFirst(l, p) ==
    IF p = StartPage \/ l.sample # NoPage THEN l ELSE [l EXCEPT !.sample = p]

(* SysLogOuput::URLChange.                                                 *)
URLChange(l, p) ==
    IF p = StartPage THEN l ELSE [l EXCEPT !.sample = p]

(* OutputLoadFinishedMetrics.                                              *)
Output(l, app, success) ==
    IF l.didLog THEN l
    ELSE [l EXCEPT !.didLog = TRUE, !.lastApp = app,
                   !.report = [app |-> app, success |-> success,
                               sample |-> l.sample, loads |-> l.good + l.bad]]

(* SysLogOuput::LoadFinished; the sums of uint32_t wrap.                   *)
LogEnd(l, p, success) ==
    LET fresh == [l EXCEPT !.didLog = @ /\ HostOf(p) = l.lastApp]
    IN  IF p = StartPage \/ l.good > MaxCount - l.bad THEN l
        ELSE Output(fresh, HostOf(p), success)

Count(n, p) == IF p = StartPage THEN n ELSE (n + 1) % (MaxCount + 1)

(* WebBrowserObservable hears one notification.                            *)
Hear(l, e) ==
    CASE e.what = "URLChange" -> URLChange(l, e.page)
      [] e.what = "LoadFinished" ->
           LogEnd([l EXCEPT !.good = Count(@, e.page)], e.page, TRUE)
      [] e.what = "LoadFailed" ->
           LogEnd([l EXCEPT !.bad = Count(@, e.page)], e.page, FALSE)

MetricsNext == LoadNext /\ logger' = FoldLeft(Hear, logger, told')

-----------------------------------------------------------------------------
(* The metrics logged for a page that finished are those sampled when the  *)
(* browser went to that page, not to another: whichever load the end       *)
(* belongs to, the browser and the logger agree on the page               *)
(* (SysLogOuput::LoadFinished, OnLoadFinished).  Pages are told apart by   *)
(* their hosts, and the observable is there from the first load on.        *)
SampledForItsPage ==
    LET r == logger.report
    IN  r.app # NoPage /\ r.success => HostOf(r.sample) = r.app
=============================================================================
