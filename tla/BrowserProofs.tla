--------------------------- MODULE BrowserProofs ----------------------------
(***************************************************************************)
(* What WebKitImplementation, its plugin and PerformanceMetrics promise,   *)
(* for any number of clients, calls, loads and processes: the lists of     *)
(* sinks, the cookie jar, settings and headers, the plugin with its        *)
(* observer, load signals and the metrics of them, the memory observer,    *)
(* the lines cookies travel in and their packing; together, that the whole *)
(* run is safe.                                                            *)
(***************************************************************************)
EXTENDS Browser, FiniteSetTheorems, SequenceTheorems, WellFoundedInduction, TLAPS

(* The lists on their own.                                                 *)
ListenersSpec == ListenersInit /\ [][ListenersNext]_listenerVars

(* A list is changed while nothing is walked, and a walk takes its sinks   *)
(* from the lists: what is still to call stays registered.                 *)
LEMMA ListsKept == CalledWhileHeld /\ [ListenersNext]_listenerVars => CalledWhileHeld'
<1> SUFFICES ASSUME CalledWhileHeld, [ListenersNext]_listenerVars PROVE CalledWhileHeld'
  OBVIOUS
<1>1. ASSUME NEW entry, Register(entry) PROVE CalledWhileHeld'
  BY <1>1 DEF Register, Locked, CalledWhileHeld
<1>2. ASSUME NEW entry, Unregister(entry) PROVE CalledWhileHeld'
  BY <1>2 DEF Unregister, Locked, CalledWhileHeld
<1>3. ASSUME NEW entry, Leave(entry) PROVE CalledWhileHeld'
  BY <1>3 DEF Leave, CalledWhileHeld
<1>4. ASSUME NEW lists, Notify(lists) PROVE CalledWhileHeld'
  BY <1>4 DEF Notify, CalledWhileHeld
<1>5. CASE CallSink
  BY <1>5 DEF CallSink, CalledWhileHeld
<1>6. CASE UNCHANGED listenerVars
  BY <1>6 DEF listenerVars, CalledWhileHeld
<1>7. ASSUME NEW sink,
             \/ RegisterWebBrowser(sink) \/ RegisterBrowser(sink)
             \/ RegisterApplication(sink) \/ RegisterCookieJar(sink)
      PROVE  CalledWhileHeld'
  BY <1>1, <1>7 DEF RegisterWebBrowser, RegisterBrowser, RegisterApplication, RegisterCookieJar
<1>8. ASSUME NEW sink,
             \/ UnregisterWebBrowser(sink) \/ UnregisterBrowser(sink)
             \/ UnregisterApplication(sink) \/ UnregisterCookieJar(sink)
      PROVE  CalledWhileHeld'
  BY <1>2, <1>8 DEF UnregisterWebBrowser, UnregisterBrowser, UnregisterApplication,
                    UnregisterCookieJar
<1>9. CASE Hidden \/ NotifyClosure \/ OnBridgeQuery \/ NotifyCookieJarClients
  BY <1>4, <1>9 DEF Hidden, NotifyClosure, OnBridgeQuery, NotifyCookieJarClients
<1> QED
  BY <1>3, <1>5, <1>6, <1>7, <1>8, <1>9 DEF ListenersNext

(* However many clients come and leave, on whatever lists, during however  *)
(* many walks: no sink is called whose reference is gone.                  *)
THEOREM SinksAreHeld == ListenersSpec => []CalledWhileHeld
<1>1. ListenersInit => CalledWhileHeld
  BY DEF ListenersInit, CalledWhileHeld
<1> QED
  BY <1>1, ListsKept, PTL DEF ListenersSpec

-----------------------------------------------------------------------------
(* What queues do: an entry joins at the end, the first leaves.            *)
LEMMA Joined ==
  ASSUME NEW S, NEW s \in Seq(S), NEW e \in S
  PROVE  /\ Append(s, e) \in Seq(S) /\ Len(Append(s, e)) = Len(s) + 1
         /\ \A i \in 1..Len(s) : Append(s, e)[i] = s[i]
         /\ Append(s, e)[Len(s) + 1] = e
         /\ Len(s) \in Nat
  OBVIOUS

LEMMA Left ==
  ASSUME NEW S, NEW s \in Seq(S), s # <<>>
  PROVE  /\ Tail(s) \in Seq(S) /\ Len(s) \in Nat \ {0} /\ Len(Tail(s)) = Len(s) - 1
         /\ \A i \in 1..(Len(s) - 1) : Tail(s)[i] = s[i + 1]
         /\ Head(s) = s[1] /\ Head(s) \in S
  OBVIOUS

-----------------------------------------------------------------------------
(* The cookie jar on its own.                                              *)
JarSpec == JarInit /\ [][JarNext]_cookieVars

Asked == [kind : {"get", "set"}, set : Nat]
News == [kind : {"cookies", "changed"}, set : Nat, version : Nat]

GetterStates == {"idle", "stale", "waiting", "refreshed", "done", "timedOut"}

JarTypeOK ==
    /\ cookies \in [set : Nat, version : Int]
    /\ tasks \in Seq({"refresh", "store"})
    /\ toNetwork \in Seq(Asked) /\ toWeb \in Seq(News)
    /\ store \in Nat /\ version \in Nat /\ written \in Nat /\ notified \in Nat
    /\ gets \in Nat
    /\ getter \in [Getters -> GetterStates]
    /\ since \in [Getters -> Nat] /\ answer \in [Getters -> Int]
    /\ setters \subseteq Nat /\ lastSet \in Nat

(* News on their way to the web thread are in the order of the store, and  *)
(* none is older than the change notified last.                            *)
NewsInOrder ==
    /\ \A i \in 1..Len(toWeb) : notified <= toWeb[i].version /\ toWeb[i].version <= version
    /\ \A i, j \in 1..Len(toWeb) : i <= j => toWeb[i].version <= toWeb[j].version
    /\ notified <= version

(* A fresh jar has all that clients were notified of; so has the jar that  *)
(* a getter saw refreshed, unless a client has set cookies since.          *)
AnswersFit ==
    /\ refreshed => cookies.version >= notified
    /\ \A g \in Getters :
         /\ since[g] <= notified
         /\ getter[g] = "refreshed" => NewEnough(cookies.version, since[g])
         /\ getter[g] = "done" => NewEnough(answer[g], since[g])

JarInv == JarTypeOK /\ NewsInOrder /\ AnswersFit

LEMMA FirstNews ==
  ASSUME NEW s \in Seq(News), s # <<>>
  PROVE  /\ Tail(s) \in Seq(News) /\ Head(s).kind \in {"cookies", "changed"}
         /\ Head(s).set \in Nat /\ Head(s).version \in Nat
<1>1. Head(s) \in News /\ Tail(s) \in Seq(News)
  BY Left
<1> QED
  BY <1>1 DEF News

LEMMA FirstAsked ==
  ASSUME NEW s \in Seq(Asked), s # <<>>
  PROVE  /\ Tail(s) \in Seq(Asked) /\ Head(s).kind \in {"get", "set"} /\ Head(s).set \in Nat
<1>1. Head(s) \in Asked /\ Tail(s) \in Seq(Asked)
  BY Left
<1> QED
  BY <1>1 DEF Asked

LEMMA JarTyped == JarTypeOK /\ [JarNext]_cookieVars => JarTypeOK'
<1> SUFFICES ASSUME JarTypeOK, [JarNext]_cookieVars PROVE JarTypeOK'
  OBVIOUS
<1> USE DEF JarTypeOK, jarVars, webVars, storeVars, getVars, setVars
<1> USE DEF GetterStates
<1>1. ASSUME NEW g \in Getters, Get(g) PROVE JarTypeOK'
  <2>1. answer' \in [Getters -> Int] /\ getter' \in [Getters -> GetterStates]
    BY <1>1 DEF Get, Answer
  <2>2. gets' \in Nat /\ since' \in [Getters -> Nat]
    BY <1>1 DEF Get
  <2> QED
    BY <1>1, <2>1, <2>2 DEF Get
<1>2. ASSUME NEW g \in Getters, Refreshed(g) \/ PackRefreshed(g) \/ TimedOut(g) PROVE JarTypeOK'
  BY <1>2 DEF Refreshed, PackRefreshed, TimedOut, Answer
<1>3. CASE Set
  BY <1>3 DEF Set, Replace, Unpacked, RefreshUnderWay
<1>11. ASSUME NEW g \in Getters, AskForRefresh(g) PROVE JarTypeOK'
  <2>1. Append(tasks, "refresh") \in Seq({"refresh", "store"})
    BY Joined
  <2> QED
    BY <1>11, <2>1 DEF AskForRefresh
<1>12. ASSUME NEW v \in setters, AskToStore(v) PROVE JarTypeOK'
  <2>1. Append(tasks, "store") \in Seq({"refresh", "store"})
    BY Joined
  <2> QED
    BY <1>12, <2>1 DEF AskToStore
<1>4. CASE RefreshCookieJar
  <2>1. /\ Tail(tasks) \in Seq({"refresh", "store"})
        /\ Append(toNetwork, [kind |-> "get", set |-> 0]) \in Seq(Asked)
    BY <1>4, Left, Joined DEF RefreshCookieJar, Asked
  <2> QED
    BY <1>4, <2>1 DEF RefreshCookieJar
<1>5. CASE SetCookies
  <2>1. /\ Tail(tasks) \in Seq({"refresh", "store"})
        /\ Append(toNetwork, [kind |-> "set", set |-> cookies.set]) \in Seq(Asked)
    BY <1>5, Left, Joined DEF SetCookies, Asked
  <2> QED
    BY <1>5, <2>1 DEF SetCookies
<1>6. CASE NotifyCookieJarChanged
  <2>1. Tail(toWeb) \in Seq(News) /\ Head(toWeb).version \in Nat
    BY <1>6, FirstNews DEF NotifyCookieJarChanged, Arrives
  <2> QED
    BY <1>6, <2>1 DEF NotifyCookieJarChanged, Arrives
<1>7. CASE CookiesReceived
  <2>1. Tail(toWeb) \in Seq(News) /\ Head(toWeb).version \in Nat /\ Head(toWeb).set \in Nat
    BY <1>7, FirstNews DEF CookiesReceived, Arrives
  <2> QED
    BY <1>7, <2>1 DEF CookiesReceived, Arrives
<1>8. CASE NetworkAnswers
  <2>1. Tail(toNetwork) \in Seq(Asked) /\ Head(toNetwork).set \in Nat
    BY <1>8, FirstAsked DEF NetworkAnswers
  <2>2. toWeb' \in Seq(News)
    <3>1. CASE toWeb' = Append(toWeb, message("cookies", store, version))
      BY <3>1, Joined DEF message, News
    <3>2. CASE version' = version + 1 /\ toWeb' = Append(toWeb, message("changed", 0, version'))
      BY <3>2, Joined DEF message, News
    <3> QED
      BY <1>8, <3>1, <3>2 DEF NetworkAnswers
  <2>3. store' \in Nat /\ version' \in Nat
    BY <1>8, <2>1 DEF NetworkAnswers
  <2> QED
    BY <1>8, <2>1, <2>2, <2>3 DEF NetworkAnswers
<1>9. CASE PageSetsCookie
  <2>1. toWeb' \in Seq(News)
    BY <1>9, Joined DEF PageSetsCookie, message, News
  <2> QED
    BY <1>9, <2>1 DEF PageSetsCookie
<1>10. CASE UNCHANGED cookieVars
  BY <1>10 DEF cookieVars
<1> QED
  BY <1>1, <1>2, <1>3, <1>4, <1>5, <1>6, <1>7, <1>8, <1>9, <1>10, <1>11, <1>12 DEF JarNext

LEMMA JarInOrder ==
  JarTypeOK /\ NewsInOrder /\ [JarNext]_cookieVars => NewsInOrder'
<1> SUFFICES ASSUME JarTypeOK, NewsInOrder, [JarNext]_cookieVars PROVE NewsInOrder'
  OBVIOUS
<1> USE DEF jarVars, webVars, storeVars, getVars, setVars
<1>1. UNCHANGED <<toWeb, version, notified>> => NewsInOrder'
  BY DEF NewsInOrder
<1>2. Len(toWeb) \in Nat /\ version \in Nat /\ notified \in Nat /\ notified <= version
  BY DEF JarTypeOK, NewsInOrder
<1>3. \A i \in 1..Len(toWeb) : toWeb[i].version \in Nat
  <2>1. \A i \in 1..Len(toWeb) : toWeb[i] \in News
    BY DEF JarTypeOK
  <2> QED
    BY <2>1 DEF News
<1>4. ASSUME NEW m \in News, NEW v \in {version, version + 1}, m.version = v,
             toWeb' = Append(toWeb, m), version' = v, notified' = notified
      PROVE  NewsInOrder'
  <2>1. version <= v /\ v \in Nat /\ notified <= v
    BY <1>2, <1>4
  <2>2. /\ \A i \in 1..Len(toWeb) : toWeb'[i] = toWeb[i]
        /\ toWeb'[Len(toWeb) + 1] = m /\ Len(toWeb') = Len(toWeb) + 1
    BY <1>4, Joined DEF JarTypeOK
  <2>3. ASSUME NEW i \in 1..Len(toWeb)
        PROVE  notified <= toWeb'[i].version /\ toWeb'[i].version <= v
    BY <1>2, <1>3, <2>1, <2>2, <2>3 DEF NewsInOrder
  <2>4. \A i \in 1..(Len(toWeb) + 1) :
           notified <= toWeb'[i].version /\ toWeb'[i].version <= v
    BY <1>2, <1>4, <2>1, <2>2, <2>3
  <2>5. ASSUME NEW i \in 1..(Len(toWeb) + 1), NEW j \in 1..(Len(toWeb) + 1), i <= j
        PROVE  toWeb'[i].version <= toWeb'[j].version
    <3>1. CASE j = Len(toWeb) + 1
      BY <1>4, <2>2, <2>4, <3>1
    <3>2. CASE j # Len(toWeb) + 1
      <4>1. i \in 1..Len(toWeb) /\ j \in 1..Len(toWeb)
        BY <1>2, <2>5, <3>2
      <4> QED
        BY <2>2, <2>5, <4>1 DEF NewsInOrder
    <3> QED
      BY <3>1, <3>2
  <2> QED
    BY <1>4, <2>1, <2>2, <2>4, <2>5 DEF NewsInOrder
<1>5. ASSUME toWeb # <<>>, toWeb' = Tail(toWeb), version' = version,
             notified' \in {notified, Head(toWeb).version}
      PROVE  NewsInOrder'
  <2>1. /\ Len(toWeb) \in Nat \ {0} /\ Len(toWeb') = Len(toWeb) - 1
        /\ \A i \in 1..(Len(toWeb) - 1) : toWeb'[i] = toWeb[i + 1]
        /\ Head(toWeb) = toWeb[1]
    BY <1>5, Left DEF JarTypeOK
  <2>2. ASSUME NEW i \in 1..(Len(toWeb) - 1)
        PROVE  i + 1 \in 1..Len(toWeb) /\ 1 \in 1..Len(toWeb) /\ 1 <= i + 1
    BY <2>1
  <2>3. PICK k \in {notified, toWeb[1].version} : notified' = k
    BY <1>5, <2>1
  <2>4. k <= version
    BY <1>2, <2>1, <2>3 DEF NewsInOrder
  <2>5. ASSUME NEW i \in 1..(Len(toWeb) - 1)
        PROVE  k <= toWeb[i + 1].version /\ toWeb[i + 1].version <= version
    BY <2>2, <2>3 DEF NewsInOrder
  <2>6. ASSUME NEW i \in 1..(Len(toWeb) - 1), NEW j \in 1..(Len(toWeb) - 1), i <= j
        PROVE  toWeb[i + 1].version <= toWeb[j + 1].version
    <3>1. i + 1 <= j + 1
      BY <2>6, <2>1
    <3> QED
      BY <2>2, <3>1 DEF NewsInOrder
  <2> QED
    BY <1>5, <2>1, <2>3, <2>4, <2>5, <2>6 DEF NewsInOrder
<1>11. /\ message("changed", 0, version + 1) \in News
       /\ message("changed", 0, version + 1).version = version + 1
  BY <1>2 DEF message, News
<1>6. CASE NetworkAnswers
  <2>1. CASE /\ toWeb' = Append(toWeb, message("cookies", store, version))
             /\ UNCHANGED <<store, version>>
    BY <1>2, <1>4, <1>6, <2>1 DEF NetworkAnswers, message, News, JarTypeOK
  <2>2. CASE /\ version' = version + 1
             /\ toWeb' = Append(toWeb, message("changed", 0, version'))
    BY <1>4, <1>6, <1>11, <2>2 DEF NetworkAnswers
  <2> QED
    BY <1>6, <2>1, <2>2 DEF NetworkAnswers
<1>7. CASE PageSetsCookie
  BY <1>4, <1>7, <1>11 DEF PageSetsCookie
<1>8. CASE NotifyCookieJarChanged \/ CookiesReceived
  BY <1>5, <1>8 DEF NotifyCookieJarChanged, CookiesReceived, Arrives
<1>9. ASSUME NEW g \in Getters,
             \/ Get(g) \/ AskForRefresh(g) \/ Refreshed(g) \/ PackRefreshed(g) \/ TimedOut(g)
      PROVE  NewsInOrder'
  BY <1>1, <1>9 DEF Get, AskForRefresh, Refreshed, PackRefreshed, TimedOut
<1>10. CASE \/ Set \/ (\E v \in setters : AskToStore(v))
            \/ RefreshCookieJar \/ SetCookies \/ UNCHANGED cookieVars
  BY <1>1, <1>10 DEF Set, AskToStore, RefreshCookieJar, SetCookies, cookieVars
<1> QED
  BY <1>6, <1>7, <1>8, <1>9, <1>10 DEF JarNext

LEMMA JarAnswersFit == JarInv /\ [JarNext]_cookieVars => AnswersFit'
<1> SUFFICES ASSUME JarInv, [JarNext]_cookieVars PROVE AnswersFit'
  OBVIOUS
<1> USE DEF jarVars, webVars, storeVars, getVars, setVars
<1>1. /\ notified \in Nat /\ cookies.version \in Int
      /\ \A g \in Getters : since[g] \in Nat /\ answer[g] \in Int /\ since[g] <= notified
  BY DEF JarInv, JarTypeOK, AnswersFit
<1>2. AnswersFit
  BY DEF JarInv
<1>3. getter \in [Getters -> GetterStates] /\ since \in [Getters -> Nat]
      /\ answer \in [Getters -> Int]
  BY DEF JarInv, JarTypeOK
<1>4. UNCHANGED <<refreshed, cookies, notified, getter, since, answer>> => AnswersFit'
  BY <1>2 DEF AnswersFit
<1>5. ASSUME NEW g \in Getters, Get(g) PROVE AnswersFit'
  <2>1. /\ UNCHANGED <<refreshed, cookies, notified>>
        /\ since' = [since EXCEPT ![g] = notified]
    BY <1>5 DEF Get
  <2>2. CASE /\ refreshed /\ getter' = [getter EXCEPT ![g] = "done"]
             /\ answer' = [answer EXCEPT ![g] = cookies.version]
    BY <1>1, <1>2, <1>3, <2>1, <2>2 DEF AnswersFit, NewEnough
  <2>3. CASE getter' = [getter EXCEPT ![g] = "stale"] /\ UNCHANGED answer
    BY <1>1, <1>2, <1>3, <2>1, <2>3 DEF AnswersFit
  <2> QED
    BY <1>5, <2>2, <2>3 DEF Get, Answer
<1>6. ASSUME NEW g \in Getters, Refreshed(g) PROVE AnswersFit'
  <2>1. NewEnough(cookies.version, since[g])
    BY <1>1, <1>2, <1>6 DEF Refreshed, AnswersFit, NewEnough
  <2> QED
    BY <1>2, <1>3, <1>6, <2>1 DEF Refreshed, AnswersFit
<1>7. ASSUME NEW g \in Getters, PackRefreshed(g) PROVE AnswersFit'
  BY <1>2, <1>3, <1>7 DEF PackRefreshed, Answer, AnswersFit
<1>8. ASSUME NEW g \in Getters, AskForRefresh(g) \/ TimedOut(g) PROVE AnswersFit'
  BY <1>2, <1>3, <1>8 DEF AskForRefresh, TimedOut, AnswersFit
<1>9. CASE Set
  <2>1. /\ cookies'.version = Unpacked /\ ~refreshed'
        /\ UNCHANGED <<notified, getter, since, answer>>
    BY <1>9 DEF Set, Replace
  <2> QED
    BY <1>2, <2>1 DEF AnswersFit, NewEnough
<1>10. CASE NotifyCookieJarChanged
  <2>1. /\ toWeb # <<>> /\ toWeb \in Seq(News) /\ ~refreshed'
        /\ UNCHANGED <<cookies, getter, since, answer>> /\ notified' = Head(toWeb).version
    BY <1>10 DEF NotifyCookieJarChanged, Arrives, JarInv, JarTypeOK
  <2>2. Head(toWeb) = toWeb[1] /\ 1 \in 1..Len(toWeb) /\ Head(toWeb).version \in Nat
    BY <2>1, Left, FirstNews
  <2>3. notified <= Head(toWeb).version
    BY <2>2 DEF JarInv, NewsInOrder
  <2>4. \A g \in Getters : since[g] <= Head(toWeb).version
    BY <1>1, <2>2, <2>3
  <2> QED
    BY <1>2, <2>1, <2>4 DEF AnswersFit
<1>11. CASE CookiesReceived
  <2>1. /\ toWeb # <<>> /\ toWeb \in Seq(News) /\ cookies'.version = Head(toWeb).version
        /\ UNCHANGED <<notified, getter, since, answer>>
    BY <1>11 DEF CookiesReceived, Arrives, JarInv, JarTypeOK
  <2>2. Head(toWeb) = toWeb[1] /\ 1 \in 1..Len(toWeb) /\ Head(toWeb).version \in Nat
    BY <2>1, Left, FirstNews
  <2>3. notified <= Head(toWeb).version
    BY <2>2 DEF JarInv, NewsInOrder
  <2>4. \A g \in Getters : since[g] <= Head(toWeb).version
    BY <1>1, <2>2, <2>3
  <2> QED
    BY <1>2, <2>1, <2>3, <2>4 DEF AnswersFit, NewEnough
<1>12. CASE \/ (\E v \in setters : AskToStore(v))
            \/ RefreshCookieJar \/ SetCookies \/ NetworkAnswers \/ PageSetsCookie
            \/ UNCHANGED cookieVars
  BY <1>4, <1>12 DEF AskToStore, RefreshCookieJar, SetCookies, NetworkAnswers, PageSetsCookie,
                     cookieVars
<1> QED
  BY <1>5, <1>6, <1>7, <1>8, <1>9, <1>10, <1>11, <1>12 DEF JarNext

LEMMA JarKept == JarSpec => []JarInv
<1>1. JarInit => JarInv
  <2> SUFFICES ASSUME JarInit PROVE JarInv
    OBVIOUS
  <2> USE DEF JarInit
  <2>1. JarTypeOK
    <3>1. /\ getter \in [Getters -> GetterStates]
          /\ since \in [Getters -> Nat] /\ answer \in [Getters -> Int]
      BY DEF GetterStates
    <3> QED
      BY <3>1 DEF JarTypeOK
  <2>2. Len(toWeb) = 0
    OBVIOUS
  <2>3. NewsInOrder /\ AnswersFit
    BY <2>2 DEF NewsInOrder, AnswersFit
  <2> QED
    BY <2>1, <2>3 DEF JarInv
<1>2. JarInv /\ [JarNext]_cookieVars => JarInv'
  BY JarTyped, JarInOrder, JarAnswersFit DEF JarInv
<1> QED
  BY <1>1, <1>2, PTL DEF JarSpec

(* However many clients ask, set cookies and run into the time-out, and    *)
(* however often pages write: who was notified of a change and then asks   *)
(* is not answered with cookies from before it.                            *)
THEOREM AnswersAreNewEnough == JarSpec => []AnswerIsNewEnough
<1>1. JarInv => AnswerIsNewEnough
  BY DEF JarInv, AnswersFit, AnswerIsNewEnough
<1> QED
  BY <1>1, JarKept, PTL

-----------------------------------------------------------------------------
(* Where the cookies last set are, unless a refresh was under way: in the  *)
(* jar, with a task that stores them first or yet to be queued; in a       *)
(* message that no older set follows; or in the store, or overwritten, and *)
(* then nothing older is anywhere.                                         *)
OfKind(s, kind) == \A j \in 1..Len(s) : s[j].kind = kind
NotOlder(s, kind, v) == \A j \in 1..Len(s) : s[j].kind = kind => s[j].set >= v

NoRefresh == \A j \in 1..Len(tasks) : tasks[j] = "store"

SetWaits ==
    /\ cookies.set = lastSet
    /\ OfKind(toNetwork, "set") /\ OfKind(toWeb, "changed")
    /\ \/ lastSet \in setters /\ NoRefresh
       \/ tasks # <<>> /\ Head(tasks) = "store"

LastMessage(i) ==
    /\ toNetwork[i].kind = "set" /\ toNetwork[i].set = lastSet
    /\ \A j \in 1..(i - 1) : toNetwork[j].kind = "set"
    /\ \A j \in (i + 1)..Len(toNetwork) :
         toNetwork[j].kind = "set" => toNetwork[j].set >= lastSet

SetTravels ==
    /\ cookies.set = lastSet
    /\ OfKind(toWeb, "changed")
    /\ \E i \in 1..Len(toNetwork) : LastMessage(i)

SetStored ==
    /\ cookies.set >= lastSet /\ store >= lastSet
    /\ NotOlder(toNetwork, "set", lastSet) /\ NotOlder(toWeb, "cookies", lastSet)

SetFollowed ==
    /\ lastSet <= written
    /\ lastSet > 0 /\ ~raced => SetWaits \/ SetTravels \/ SetStored

LEMMA KindJoined ==
  ASSUME NEW S, NEW s \in Seq(S), NEW e \in S, NEW kind, OfKind(s, kind), e.kind = kind
  PROVE  OfKind(Append(s, e), kind)
<1>1. /\ Len(s) \in Nat /\ Len(Append(s, e)) = Len(s) + 1
      /\ \A i \in 1..Len(s) : Append(s, e)[i] = s[i]
      /\ Append(s, e)[Len(s) + 1] = e
  BY Joined
<1>2. \A i \in 1..(Len(s) + 1) : i \in 1..Len(s) \/ i = Len(s) + 1
  BY <1>1
<1> QED
  BY <1>1, <1>2 DEF OfKind

LEMMA KindLeft ==
  ASSUME NEW S, NEW s \in Seq(S), s # <<>>, NEW kind, OfKind(s, kind)
  PROVE  OfKind(Tail(s), kind) /\ Head(s).kind = kind
<1>1. /\ Len(s) \in Nat \ {0} /\ Len(Tail(s)) = Len(s) - 1 /\ Head(s) = s[1]
      /\ \A i \in 1..(Len(s) - 1) : Tail(s)[i] = s[i + 1]
  BY Left
<1>2. /\ 1 \in 1..Len(s)
      /\ \A i \in 1..(Len(s) - 1) : i + 1 \in 1..Len(s)
  BY <1>1
<1> QED
  BY <1>1, <1>2 DEF OfKind

LEMMA NotOlderJoined ==
  ASSUME NEW S, NEW s \in Seq(S), NEW e \in S, NEW kind, NEW v,
         NotOlder(s, kind, v), e.kind = kind => e.set >= v
  PROVE  NotOlder(Append(s, e), kind, v)
<1>1. /\ Len(s) \in Nat /\ Len(Append(s, e)) = Len(s) + 1
      /\ \A i \in 1..Len(s) : Append(s, e)[i] = s[i]
      /\ Append(s, e)[Len(s) + 1] = e
  BY Joined
<1>2. \A i \in 1..(Len(s) + 1) : i \in 1..Len(s) \/ i = Len(s) + 1
  BY <1>1
<1> QED
  BY <1>1, <1>2 DEF NotOlder

LEMMA NotOlderLeft ==
  ASSUME NEW S, NEW s \in Seq(S), s # <<>>, NEW kind, NEW v, NotOlder(s, kind, v)
  PROVE  NotOlder(Tail(s), kind, v) /\ (Head(s).kind = kind => Head(s).set >= v)
<1>1. /\ Len(s) \in Nat \ {0} /\ Len(Tail(s)) = Len(s) - 1 /\ Head(s) = s[1]
      /\ \A i \in 1..(Len(s) - 1) : Tail(s)[i] = s[i + 1]
  BY Left
<1>2. /\ 1 \in 1..Len(s)
      /\ \A i \in 1..(Len(s) - 1) : i + 1 \in 1..Len(s)
  BY <1>1
<1> QED
  BY <1>1, <1>2 DEF NotOlder

(* A new task leaves the first as it is, or is the first.                  *)
LEMMA FirstTask ==
  ASSUME NEW S, NEW s \in Seq(S), NEW e \in S
  PROVE  /\ Append(s, e) # <<>>
         /\ s # <<>> => Head(Append(s, e)) = Head(s)
         /\ s = <<>> => Head(Append(s, e)) = e
<1>1. /\ Append(s, e) \in Seq(S) /\ Len(Append(s, e)) = Len(s) + 1 /\ Len(s) \in Nat
      /\ \A i \in 1..Len(s) : Append(s, e)[i] = s[i]
      /\ Append(s, e)[Len(s) + 1] = e
  BY Joined
<1>2. Append(s, e) # <<>> /\ Head(Append(s, e)) = Append(s, e)[1]
  BY <1>1, Left
<1>3. s # <<>> => Head(s) = s[1] /\ 1 \in 1..Len(s)
  BY Left
<1>4. s = <<>> => Len(s) + 1 = 1
  OBVIOUS
<1> QED
  BY <1>1, <1>2, <1>3, <1>4

(* Whatever the network process does, it tells of with the set it has.     *)
LEMMA NetworkTells ==
  ASSUME JarTypeOK, NetworkAnswers
  PROVE  /\ toNetwork # <<>> /\ toNetwork' = Tail(toNetwork) /\ toNetwork \in Seq(Asked)
         /\ UNCHANGED <<cookies, tasks, written, setters, lastSet, raced>>
         /\ \E m \in News :
              /\ toWeb' = Append(toWeb, m)
              /\ \/ /\ Head(toNetwork).kind = "get" /\ m.kind = "cookies"
                    /\ m.set = store /\ store' = store
                 \/ /\ Head(toNetwork).kind = "set" /\ m.kind = "changed"
                    /\ store' = Head(toNetwork).set
<1> USE DEF jarVars, getVars, setVars
<1>1. store \in Nat /\ version \in Nat
  BY DEF JarTypeOK
<1>2. /\ message("cookies", store, version) \in News
      /\ message("cookies", store, version).kind = "cookies"
      /\ message("cookies", store, version).set = store
      /\ message("changed", 0, version + 1) \in News
      /\ message("changed", 0, version + 1).kind = "changed"
  BY <1>1 DEF message, News
<1>3. CASE /\ Head(toNetwork).kind = "get" /\ UNCHANGED store
           /\ toWeb' = Append(toWeb, message("cookies", store, version))
  BY <1>2, <1>3 DEF NetworkAnswers, JarTypeOK
<1>4. CASE /\ Head(toNetwork).kind = "set" /\ store' = Head(toNetwork).set
           /\ toWeb' = Append(toWeb, message("changed", 0, version + 1))
  BY <1>2, <1>4 DEF NetworkAnswers, JarTypeOK
<1> QED
  BY <1>3, <1>4 DEF NetworkAnswers

LEMMA PageTells ==
  ASSUME JarTypeOK, PageSetsCookie
  PROVE  /\ UNCHANGED <<cookies, tasks, toNetwork, setters, lastSet, raced>>
         /\ store' = written + 1 /\ written' = written + 1
         /\ \E m \in News : m.kind = "changed" /\ toWeb' = Append(toWeb, m)
<1>1. /\ message("changed", 0, version + 1) \in News
      /\ message("changed", 0, version + 1).kind = "changed"
  BY DEF message, News, JarTypeOK
<1> QED
  BY <1>1 DEF PageSetsCookie, jarVars, setVars

(* A step other than Set leads what is to be stored on its way.            *)
LEMMA WaitsOrTravels ==
  ASSUME JarTypeOK, SetWaits, [JarNext]_cookieVars, ~Set
  PROVE  raced' \/ SetWaits' \/ SetTravels'
<1> USE DEF jarVars, webVars, storeVars, getVars, setVars
<1>1. /\ cookies.set = lastSet /\ OfKind(toNetwork, "set") /\ OfKind(toWeb, "changed")
      /\ \/ lastSet \in setters /\ NoRefresh
         \/ tasks # <<>> /\ Head(tasks) = "store"
  BY DEF SetWaits
<1>2. /\ tasks \in Seq({"refresh", "store"}) /\ toNetwork \in Seq(Asked) /\ toWeb \in Seq(News)
      /\ lastSet \in Nat
  BY DEF JarTypeOK
<1>3. UNCHANGED <<tasks, setters, lastSet>> =>
        \/ lastSet' \in setters' /\ NoRefresh'
        \/ tasks' # <<>> /\ Head(tasks') = "store"
  BY <1>1 DEF NoRefresh
<1>4. UNCHANGED <<cookies, tasks, toNetwork, toWeb, setters, lastSet>> => SetWaits'
  BY <1>1, <1>3 DEF SetWaits
<1>5. ASSUME NEW g \in Getters, AskForRefresh(g) PROVE raced' \/ SetWaits'
  <2>1. CASE lastSet \in setters
    BY <1>5, <2>1 DEF AskForRefresh
  <2>2. CASE lastSet \notin setters
    <3>1. tasks' # <<>> /\ Head(tasks') = "store"
      BY <1>1, <1>2, <1>5, <2>2, FirstTask DEF AskForRefresh
    <3>2. UNCHANGED <<cookies, toNetwork, toWeb, lastSet>>
      BY <1>5 DEF AskForRefresh
    <3> QED
      BY <1>1, <3>1, <3>2 DEF SetWaits
  <2> QED
    BY <2>1, <2>2
<1>6. ASSUME NEW v \in setters, AskToStore(v) PROVE SetWaits'
  <2>1. tasks' = Append(tasks, "store") /\ UNCHANGED <<cookies, toNetwork, toWeb, lastSet>>
    BY <1>6 DEF AskToStore
  <2>2. tasks' # <<>> /\ Head(tasks') = "store"
    <3>1. CASE tasks = <<>>
      BY <1>2, <2>1, <3>1, FirstTask
    <3>2. CASE tasks # <<>>
      <4>1. Head(tasks) = tasks[1] /\ 1 \in 1..Len(tasks)
        BY <1>2, <3>2, Left
      <4>2. Head(tasks) = "store"
        BY <1>1, <4>1 DEF NoRefresh
      <4> QED
        BY <1>2, <2>1, <3>2, <4>2, FirstTask
    <3> QED
      BY <3>1, <3>2
  <2> QED
    BY <1>1, <2>1, <2>2 DEF SetWaits
<1>7. ~RefreshCookieJar
  <2> SUFFICES ASSUME RefreshCookieJar PROVE FALSE
    OBVIOUS
  <2>1. Head(tasks) = "refresh" /\ tasks # <<>>
    BY DEF RefreshCookieJar
  <2>2. Head(tasks) = tasks[1] /\ 1 \in 1..Len(tasks)
    BY <1>2, <2>1, Left
  <2> QED
    BY <1>1, <2>1, <2>2 DEF NoRefresh
<1>8. CASE SetCookies
  <2> DEFINE m == [kind |-> "set", set |-> cookies.set]
  <2>1. m \in Asked /\ m.kind = "set" /\ m.set = lastSet
    BY <1>1, <1>2 DEF Asked
  <2>2. toNetwork' = Append(toNetwork, m) /\ UNCHANGED <<cookies, toWeb, setters, lastSet>>
    BY <1>8 DEF SetCookies
  <2> HIDE DEF m
  <2>3. OfKind(toNetwork', "set")
    BY <1>1, <1>2, <2>1, <2>2, KindJoined
  <2>4. /\ Len(toNetwork) \in Nat /\ Len(toNetwork') = Len(toNetwork) + 1
        /\ toNetwork'[Len(toNetwork) + 1] = m
    BY <1>2, <2>1, <2>2, Joined
  <2>5. PICK k \in 1..Len(toNetwork') : k = Len(toNetwork')
    BY <2>4
  <2>6. /\ \A j \in 1..(k - 1) : j \in 1..Len(toNetwork')
        /\ \A j \in (k + 1)..Len(toNetwork') : FALSE
    BY <2>4, <2>5
  <2>7. LastMessage(k)'
    BY <2>1, <2>2, <2>3, <2>4, <2>5, <2>6 DEF LastMessage, OfKind
  <2> QED
    BY <1>1, <2>2, <2>5, <2>7 DEF SetTravels
<1>9. CASE NotifyCookieJarChanged
  <2>1. OfKind(toWeb', "changed") /\ UNCHANGED <<cookies, tasks, toNetwork, setters, lastSet>>
    BY <1>1, <1>2, <1>9, KindLeft DEF NotifyCookieJarChanged, Arrives
  <2> QED
    BY <1>1, <1>3, <2>1 DEF SetWaits
<1>10. ~CookiesReceived
  BY <1>1, <1>2, KindLeft DEF CookiesReceived, Arrives
<1>11. CASE NetworkAnswers
  <2>1. OfKind(toNetwork', "set") /\ Head(toNetwork).kind = "set"
    BY <1>1, <1>2, <1>11, KindLeft DEF NetworkAnswers
  <2>2. OfKind(toWeb', "changed")
    BY <1>1, <1>2, <1>11, <2>1, NetworkTells, KindJoined
  <2>3. UNCHANGED <<cookies, tasks, setters, lastSet>>
    BY <1>11, NetworkTells
  <2> QED
    BY <1>1, <1>3, <2>1, <2>2, <2>3 DEF SetWaits
<1>12. CASE PageSetsCookie
  <2>1. OfKind(toWeb', "changed")
    BY <1>1, <1>2, <1>12, PageTells, KindJoined
  <2>2. UNCHANGED <<cookies, tasks, toNetwork, setters, lastSet>>
    BY <1>12, PageTells
  <2> QED
    BY <1>1, <1>3, <2>1, <2>2 DEF SetWaits
<1>13. ASSUME NEW g \in Getters, Get(g) \/ Refreshed(g) \/ PackRefreshed(g) \/ TimedOut(g)
       PROVE  SetWaits'
  BY <1>4, <1>13 DEF Get, Refreshed, PackRefreshed, TimedOut
<1>14. CASE UNCHANGED cookieVars
  BY <1>4, <1>14 DEF cookieVars
<1> QED
  BY <1>5, <1>6, <1>7, <1>8, <1>9, <1>10, <1>11, <1>12, <1>13, <1>14 DEF JarNext

(* What is behind the last message is not older.                           *)
LEMMA MessageBehind ==
  ASSUME JarTypeOK, NEW i \in 1..Len(toNetwork), LastMessage(i), NEW m \in Asked,
         m.kind = "set" => m.set >= lastSet,
         toNetwork' = Append(toNetwork, m), lastSet' = lastSet
  PROVE  \E k \in 1..Len(toNetwork') : LastMessage(k)'
<1>1. /\ Len(toNetwork) \in Nat /\ Len(toNetwork') = Len(toNetwork) + 1
      /\ \A j \in 1..Len(toNetwork) : toNetwork'[j] = toNetwork[j]
      /\ toNetwork'[Len(toNetwork) + 1] = m
  BY Joined DEF JarTypeOK
<1>2. /\ i \in 1..(Len(toNetwork) + 1) /\ \A j \in 1..(i - 1) : j \in 1..Len(toNetwork)
      /\ \A j \in (i + 1)..(Len(toNetwork) + 1) :
           (j \in (i + 1)..Len(toNetwork) /\ j \in 1..Len(toNetwork)) \/ j = Len(toNetwork) + 1
  BY <1>1
<1>3. LastMessage(i)'
  BY <1>1, <1>2 DEF LastMessage
<1> QED
  BY <1>1, <1>2, <1>3

LEMMA TravelsOrStored ==
  ASSUME JarTypeOK, SetTravels, [JarNext]_cookieVars, ~Set
  PROVE  SetTravels' \/ SetStored'
<1> USE DEF jarVars, webVars, storeVars, getVars, setVars
<1>1. PICK i \in 1..Len(toNetwork) : LastMessage(i)
  BY DEF SetTravels
<1>2. cookies.set = lastSet /\ OfKind(toWeb, "changed")
  BY DEF SetTravels
<1>3. /\ toNetwork \in Seq(Asked) /\ toWeb \in Seq(News)
      /\ Len(toNetwork) \in Nat /\ lastSet \in Nat
  BY DEF JarTypeOK
<1>4. UNCHANGED <<toNetwork, lastSet>> => \E k \in 1..Len(toNetwork') : LastMessage(k)'
  BY <1>1 DEF LastMessage
<1>5. UNCHANGED <<cookies, toNetwork, toWeb, lastSet>> => SetTravels'
  BY <1>2, <1>4 DEF SetTravels
<1>6. CASE RefreshCookieJar
  <2> DEFINE m == [kind |-> "get", set |-> 0]
  <2>1. m \in Asked /\ m.kind # "set"
    BY DEF Asked
  <2>2. toNetwork' = Append(toNetwork, m) /\ UNCHANGED <<cookies, toWeb, lastSet>>
    BY <1>6 DEF RefreshCookieJar
  <2> HIDE DEF m
  <2>3. \E k \in 1..Len(toNetwork') : LastMessage(k)'
    BY <1>1, <2>1, <2>2, MessageBehind
  <2> QED
    BY <1>2, <2>2, <2>3 DEF SetTravels
<1>7. CASE SetCookies
  <2> DEFINE m == [kind |-> "set", set |-> cookies.set]
  <2>1. m \in Asked /\ m.set >= lastSet
    BY <1>2, <1>3 DEF Asked
  <2>2. toNetwork' = Append(toNetwork, m) /\ UNCHANGED <<cookies, toWeb, lastSet>>
    BY <1>7 DEF SetCookies
  <2> HIDE DEF m
  <2>3. \E k \in 1..Len(toNetwork') : LastMessage(k)'
    BY <1>1, <2>1, <2>2, MessageBehind
  <2> QED
    BY <1>2, <2>2, <2>3 DEF SetTravels
<1>8. CASE NotifyCookieJarChanged
  <2>1. OfKind(toWeb', "changed") /\ UNCHANGED <<cookies, toNetwork, lastSet>>
    BY <1>2, <1>3, <1>8, KindLeft DEF NotifyCookieJarChanged, Arrives
  <2> QED
    BY <1>2, <1>4, <2>1 DEF SetTravels
<1>9. ~CookiesReceived
  BY <1>2, <1>3, KindLeft DEF CookiesReceived, Arrives
<1>10. CASE NetworkAnswers
  <2>1. /\ Len(toNetwork') = Len(toNetwork) - 1 /\ Len(toNetwork) \in Nat \ {0}
        /\ \A j \in 1..(Len(toNetwork) - 1) : toNetwork'[j] = toNetwork[j + 1]
        /\ Head(toNetwork) = toNetwork[1]
    BY <1>3, <1>10, Left DEF NetworkAnswers
  <2>2. i = 1 \/ 1 \in 1..(i - 1)
    BY <1>3
  <2>3. Head(toNetwork).kind = "set" /\ (i = 1 => Head(toNetwork).set = lastSet)
    BY <1>1, <2>1, <2>2 DEF LastMessage
  <2>4. /\ store' = Head(toNetwork).set /\ UNCHANGED <<cookies, lastSet>>
        /\ \E m \in News : m.kind = "changed" /\ toWeb' = Append(toWeb, m)
    BY <1>10, <2>3, NetworkTells
  <2>5. OfKind(toWeb', "changed")
    BY <1>2, <1>3, <2>4, KindJoined
  <2>6. CASE i = 1
    <3>1. \A j \in 1..(Len(toNetwork) - 1) : j + 1 \in (i + 1)..Len(toNetwork)
      BY <2>1, <2>6
    <3>2. NotOlder(toNetwork', "set", lastSet)
      BY <1>1, <2>1, <3>1 DEF NotOlder, LastMessage
    <3>3. NotOlder(toWeb', "cookies", lastSet)
      BY <2>5 DEF OfKind, NotOlder
    <3>4. store' = lastSet /\ lastSet >= lastSet
      BY <1>3, <2>3, <2>4, <2>6
    <3> QED
      BY <1>2, <2>4, <3>2, <3>3, <3>4 DEF SetStored, NotOlder
  <2>7. CASE i # 1
    <3>1. i - 1 \in 1..(Len(toNetwork) - 1) /\ (i - 1) + 1 = i
      BY <2>1, <2>7
    <3>2. \A j \in 1..(i - 2) : j + 1 \in 1..(i - 1) /\ j \in 1..(Len(toNetwork) - 1)
      BY <2>1, <2>7
    <3>3. \A j \in i..(Len(toNetwork) - 1) :
             j + 1 \in (i + 1)..Len(toNetwork) /\ j \in 1..(Len(toNetwork) - 1)
      BY <2>1, <2>7
    <3>4. (i - 1) - 1 = i - 2
      BY <2>1
    <3>5. /\ toNetwork'[i - 1] = toNetwork[i]
          /\ \A j \in 1..(i - 2) : toNetwork'[j] = toNetwork[j + 1]
          /\ \A j \in i..(Len(toNetwork) - 1) : toNetwork'[j] = toNetwork[j + 1]
      BY <2>1, <3>1, <3>2, <3>3
    <3>6. /\ \A j \in 1..(i - 2) : toNetwork'[j].kind = "set"
          /\ \A j \in i..(Len(toNetwork) - 1) :
               toNetwork'[j].kind = "set" => toNetwork'[j].set >= lastSet
      BY <1>1, <3>2, <3>3, <3>5 DEF LastMessage
    <3>7. LastMessage(i - 1)'
      BY <1>1, <2>1, <2>4, <3>1, <3>4, <3>5, <3>6 DEF LastMessage
    <3> QED
      BY <1>2, <2>1, <2>4, <2>5, <3>1, <3>7 DEF SetTravels
  <2> QED
    BY <2>6, <2>7
<1>11. CASE PageSetsCookie
  <2>1. OfKind(toWeb', "changed")
    BY <1>2, <1>3, <1>11, PageTells, KindJoined
  <2>2. UNCHANGED <<cookies, toNetwork, lastSet>>
    BY <1>11, PageTells
  <2> QED
    BY <1>2, <1>4, <2>1, <2>2 DEF SetTravels
<1>12. ASSUME NEW g \in Getters,
              \/ Get(g) \/ AskForRefresh(g) \/ Refreshed(g) \/ PackRefreshed(g) \/ TimedOut(g)
       PROVE  SetTravels'
  BY <1>5, <1>12 DEF Get, AskForRefresh, Refreshed, PackRefreshed, TimedOut
<1>13. CASE (\E v \in setters : AskToStore(v)) \/ UNCHANGED cookieVars
  BY <1>5, <1>13 DEF AskToStore, cookieVars
<1> QED
  BY <1>6, <1>7, <1>8, <1>9, <1>10, <1>11, <1>12, <1>13 DEF JarNext

LEMMA StaysStored ==
  ASSUME JarTypeOK, SetStored, lastSet <= written, [JarNext]_cookieVars, ~Set
  PROVE  SetStored'
<1> USE DEF jarVars, webVars, storeVars, getVars, setVars
<1>1. /\ cookies.set >= lastSet /\ store >= lastSet
      /\ NotOlder(toNetwork, "set", lastSet) /\ NotOlder(toWeb, "cookies", lastSet)
      /\ toNetwork \in Seq(Asked) /\ toWeb \in Seq(News)
      /\ lastSet \in Nat /\ store \in Nat /\ written \in Nat /\ cookies.set \in Nat
  BY DEF SetStored, JarTypeOK
<1>2. UNCHANGED <<cookies, store, toNetwork, toWeb, lastSet>> => SetStored'
  BY <1>1 DEF SetStored
<1>3. CASE RefreshCookieJar
  <2>1. NotOlder(toNetwork', "set", lastSet)
    BY <1>1, <1>3, NotOlderJoined DEF RefreshCookieJar, Asked
  <2>2. UNCHANGED <<cookies, store, toWeb, lastSet>>
    BY <1>3 DEF RefreshCookieJar
  <2> QED
    BY <1>1, <2>1, <2>2 DEF SetStored
<1>4. CASE SetCookies
  <2>1. NotOlder(toNetwork', "set", lastSet)
    BY <1>1, <1>4, NotOlderJoined DEF SetCookies, Asked
  <2>2. UNCHANGED <<cookies, store, toWeb, lastSet>>
    BY <1>4 DEF SetCookies
  <2> QED
    BY <1>1, <2>1, <2>2 DEF SetStored
<1>5. CASE NetworkAnswers
  <2>1. /\ NotOlder(toNetwork', "set", lastSet)
        /\ Head(toNetwork).kind = "set" => Head(toNetwork).set >= lastSet
    BY <1>1, <1>5, NetworkTells, NotOlderLeft
  <2>2. PICK m \in News :
          /\ toWeb' = Append(toWeb, m)
          /\ \/ /\ Head(toNetwork).kind = "get" /\ m.kind = "cookies"
                /\ m.set = store /\ store' = store
             \/ /\ Head(toNetwork).kind = "set" /\ m.kind = "changed"
                /\ store' = Head(toNetwork).set
    BY <1>5, NetworkTells
  <2>3. store' >= lastSet /\ (m.kind = "cookies" => m.set >= lastSet)
    BY <1>1, <2>1, <2>2
  <2>4. NotOlder(toWeb', "cookies", lastSet)
    BY <1>1, <2>2, <2>3, NotOlderJoined
  <2>5. UNCHANGED <<cookies, lastSet>>
    BY <1>5, NetworkTells
  <2> QED
    BY <1>1, <2>1, <2>3, <2>4, <2>5 DEF SetStored
<1>6. CASE PageSetsCookie
  <2>1. PICK m \in News : m.kind = "changed" /\ toWeb' = Append(toWeb, m)
    BY <1>6, PageTells
  <2>2. NotOlder(toWeb', "cookies", lastSet)
    BY <1>1, <2>1, NotOlderJoined
  <2>3. store' >= lastSet /\ UNCHANGED <<cookies, toNetwork, lastSet>>
    BY <1>1, <1>6, PageTells
  <2> QED
    BY <1>1, <2>2, <2>3 DEF SetStored
<1>7. CASE NotifyCookieJarChanged
  <2>1. NotOlder(toWeb', "cookies", lastSet) /\ UNCHANGED <<cookies, store, toNetwork, lastSet>>
    BY <1>1, <1>7, NotOlderLeft DEF NotifyCookieJarChanged, Arrives
  <2> QED
    BY <1>1, <2>1 DEF SetStored
<1>8. CASE CookiesReceived
  <2>1. NotOlder(toWeb', "cookies", lastSet) /\ Head(toWeb).set >= lastSet
    BY <1>1, <1>8, NotOlderLeft DEF CookiesReceived, Arrives
  <2>2. cookies'.set = Head(toWeb).set /\ UNCHANGED <<store, toNetwork, lastSet>>
    BY <1>8 DEF CookiesReceived
  <2> QED
    BY <1>1, <2>1, <2>2 DEF SetStored
<1>9. ASSUME NEW g \in Getters,
             \/ Get(g) \/ AskForRefresh(g) \/ Refreshed(g) \/ PackRefreshed(g) \/ TimedOut(g)
      PROVE  SetStored'
  BY <1>2, <1>9 DEF Get, AskForRefresh, Refreshed, PackRefreshed, TimedOut
<1>10. CASE (\E v \in setters : AskToStore(v)) \/ UNCHANGED cookieVars
  BY <1>2, <1>10 DEF AskToStore, cookieVars
<1> QED
  BY <1>3, <1>4, <1>5, <1>6, <1>7, <1>8, <1>9, <1>10 DEF JarNext

(* The setter finds no refresh under way.                                  *)
LEMMA SetBegins ==
  ASSUME JarTypeOK, Set, ~raced' PROVE SetWaits'
<1> USE DEF webVars
<1>1. /\ tasks \in Seq({"refresh", "store"}) /\ toNetwork \in Seq(Asked) /\ toWeb \in Seq(News)
      /\ Len(tasks) \in Nat /\ Len(toNetwork) \in Nat /\ Len(toWeb) \in Nat
  BY DEF JarTypeOK
<1>2. ~RefreshUnderWay
  BY DEF Set
<1>3. \A j \in 1..Len(tasks) : tasks[j] = "store"
  <2>1. \A j \in 1..Len(tasks) : tasks[j] \in {"refresh", "store"}
    BY <1>1
  <2>2. \A j \in 1..Len(tasks) : tasks[j] # "refresh"
    BY <1>1, <1>2 DEF RefreshUnderWay, Range
  <2> QED
    BY <2>1, <2>2
<1>4. OfKind(toNetwork, "set")
  <2>1. \A j \in 1..Len(toNetwork) : toNetwork[j] \in Asked
    BY <1>1
  <2>2. \A j \in 1..Len(toNetwork) : toNetwork[j].kind \notin {"get", "cookies"}
    BY <1>1, <1>2 DEF RefreshUnderWay, Range
  <2> QED
    BY <2>1, <2>2 DEF OfKind, Asked
<1>5. OfKind(toWeb, "changed")
  <2>1. \A j \in 1..Len(toWeb) : toWeb[j] \in News
    BY <1>1
  <2>2. \A j \in 1..Len(toWeb) : toWeb[j].kind \notin {"get", "cookies"}
    BY <1>1, <1>2 DEF RefreshUnderWay, Range
  <2> QED
    BY <2>1, <2>2 DEF OfKind, News
<1>6. /\ cookies'.set = lastSet' /\ lastSet' \in setters'
      /\ UNCHANGED <<tasks, toNetwork, toWeb>>
  BY DEF Set, Replace
<1>7. NoRefresh'
  BY <1>3, <1>6 DEF NoRefresh
<1> QED
  BY <1>4, <1>5, <1>6, <1>7 DEF SetWaits

LEMMA SetKept == JarTypeOK /\ SetFollowed /\ [JarNext]_cookieVars => SetFollowed'
<1> SUFFICES ASSUME JarTypeOK, SetFollowed, [JarNext]_cookieVars PROVE SetFollowed'
  OBVIOUS
<1>1. lastSet <= written /\ lastSet \in Nat /\ written \in Nat
  BY DEF SetFollowed, JarTypeOK
<1>2. CASE Set
  <2>1. lastSet' = written' /\ written' = written + 1
    BY <1>2 DEF Set
  <2>2. lastSet' <= written'
    BY <1>1, <2>1
  <2>3. ~raced' => SetWaits'
    BY <1>2, SetBegins
  <2> QED
    BY <2>2, <2>3 DEF SetFollowed
<1>3. CASE ~Set
  <2>1. lastSet' = lastSet /\ (raced => raced')
    <3>1. ASSUME NEW g \in Getters, AskForRefresh(g) PROVE lastSet' = lastSet /\ (raced => raced')
      BY <3>1 DEF AskForRefresh
    <3>2. CASE UNCHANGED <<lastSet, raced>>
      BY <3>2
    <3>3. UNCHANGED <<lastSet, raced>> \/ \E g \in Getters : AskForRefresh(g)
      BY <1>3 DEF JarNext, Get, AskToStore, Refreshed, PackRefreshed, TimedOut,
                  RefreshCookieJar, SetCookies, NotifyCookieJarChanged, CookiesReceived,
                  NetworkAnswers, PageSetsCookie, cookieVars, setVars
    <3> QED
      BY <3>1, <3>2, <3>3
  <2>2. written' = written \/ written' = written + 1
    BY <1>3 DEF JarNext, Get, AskForRefresh, AskToStore, Refreshed, PackRefreshed, TimedOut,
                RefreshCookieJar, SetCookies, NotifyCookieJarChanged, CookiesReceived,
                NetworkAnswers, PageSetsCookie, cookieVars, storeVars
  <2>3. lastSet' <= written'
    BY <1>1, <2>1, <2>2
  <2>4. lastSet > 0 /\ ~raced' => SetWaits' \/ SetTravels' \/ SetStored'
    BY <1>1, <1>3, <2>1, WaitsOrTravels, TravelsOrStored, StaysStored DEF SetFollowed
  <2> QED
    BY <2>1, <2>3, <2>4 DEF SetFollowed
<1> QED
  BY <1>2, <1>3

(* However many clients set cookies one over the other while pages write:  *)
(* if no refresh was under way when they were unpacked or came before the  *)
(* task that stores them, the last of them are stored by the time          *)
(* nothing is left to do, unless a page has written since.                 *)
THEOREM SetIsStored == JarSpec => []SetReachesStore
<1>1. JarInit => SetFollowed
  <2> SUFFICES ASSUME JarInit PROVE lastSet <= written /\ lastSet = 0
    BY DEF SetFollowed
  <2> QED
    BY DEF JarInit
<1>2. JarInv /\ SetFollowed /\ [JarNext]_cookieVars => SetFollowed'
  BY SetKept DEF JarInv
<1>3. JarInv /\ SetFollowed => SetReachesStore
  <2> SUFFICES ASSUME SetFollowed, NothingLeft, lastSet > 0, ~raced PROVE store >= lastSet
    BY DEF SetReachesStore
  <2>1. setters = {} /\ tasks = <<>> /\ 1..Len(toNetwork) = {}
    BY DEF NothingLeft
  <2> QED
    BY <2>1 DEF SetFollowed, SetWaits, SetTravels, SetStored
<1> QED
  BY <1>1, <1>2, <1>3, JarKept, PTL DEF JarSpec

-----------------------------------------------------------------------------
(* The settings on their own.                                              *)
SettingsSpec == SettingsInit /\ [][SettingsNext]_settingsVars

Words == {"x", "builtIn", "configured"} \cup Policies
Texts == Words \cup HeaderTexts \cup {"any"}
PageOps == {"headers", "load", "script", "collect", "addScript", "removeScripts"}
Closures ==
    [op : {"set"}, of : Settings, value : Words, call : Nat, floor : Nat]
        \cup [op : PageOps, of : {"page"}, value : Texts, call : Nat, floor : Nat]
Messages == [op : PageOps, value : Texts, call : Nat, floor : Nat]

SettingsTypeOK ==
    /\ invoked \in Seq(Closures) /\ pipe \in Seq(Messages)
    /\ calls \in Nat /\ headersAsked \in Nat
    /\ current \in [Settings -> Words] /\ engine \in [Settings -> Words]
    /\ asked \in [Settings -> Words]
    /\ DOMAIN page = {"created", "from", "has", "loads", "floor"}
    /\ page.from \in Nat /\ page.floor \in Nat
    /\ request.carried \in Nat /\ request.floor \in Nat

(* Before the thread runs there is nothing for it to do, nor for the page. *)
NothingEarly ==
    stage # "running" => invoked = <<>> /\ pipe = <<>> /\ page.from = 0 /\ headersAsked = 0

(* What WebKit's processes find is what the configuration found makes.     *)
Prepared ==
    \E u, s : prepared = [env |-> Environment(configured.line, configured.host, configured.listed),
                          url |-> u, storage |-> s]

(* The last closure queued for a setting has the value asked for last;     *)
(* without one, that value is in force.                                    *)
Sets(c, s) == c.op = "set" /\ c.of = s
InForce(s) ==
    /\ current[s] = asked[s]
    /\ \/ engine[s] = asked[s]
       \/ s = "cookiePolicy" /\ s \in Applied /\ asked[s] = Given(s)
Queued(s) ==
    \E i \in 1..Len(invoked) :
       /\ Sets(invoked[i], s) /\ Translated(s, invoked[i].value) = asked[s]
       /\ \A j \in (i + 1)..Len(invoked) : ~Sets(invoked[j], s)
Counts(s) ==
    \/ InForce(s) /\ \A i \in 1..Len(invoked) : ~Sets(invoked[i], s)
    \/ Queued(s)
LastCounts == stage = "running" => \A s \in Settings : Counts(s)

(* Calls reach the page in their order.                                    *)
CallsInRange ==
    /\ \A i \in 1..Len(invoked) : page.from <= invoked[i].call /\ invoked[i].call <= calls
    /\ \A i \in 1..Len(pipe) : page.from <= pipe[i].call /\ pipe[i].call <= calls
    /\ page.from <= calls
QueueInOrder == \A i, j \in 1..Len(invoked) : i <= j => invoked[i].call <= invoked[j].call
PipeInOrder == \A i, j \in 1..Len(pipe) : i <= j => pipe[i].call <= pipe[j].call
PipeFirst == \A i \in 1..Len(pipe), j \in 1..Len(invoked) : pipe[i].call <= invoked[j].call
CallsInOrder == CallsInRange /\ QueueInOrder /\ PipeInOrder /\ PipeFirst

(* The headers that an entry of a queue is to find are the page's, or      *)
(* those of another entry that is before it.                               *)
Gives(m, f) == m.op = "headers" /\ m.value # "bad" /\ f <= m.call
InPipe(f, i) == f <= page.from \/ \E j \in 1..(i - 1) : Gives(pipe[j], f)
InQueue(f, i) == InPipe(f, Len(pipe) + 1) \/ \E j \in 1..(i - 1) : Gives(invoked[j], f)
HeadersAhead ==
    /\ \A i \in 1..Len(pipe) : InPipe(pipe[i].floor, i)
    /\ \A i \in 1..Len(invoked) : InQueue(invoked[i].floor, i)
    /\ InQueue(headersAsked, Len(invoked) + 1)
    /\ page.floor <= page.from
    /\ RequestsCarryHeaders

SettingsInv ==
    /\ SettingsTypeOK /\ NothingEarly /\ Prepared /\ LastCounts
    /\ CallsInOrder /\ HeadersAhead

(* The calls of clients, and the closures of the web thread, by kind.      *)
LEMMA CallsOfClients ==
  ASSUME SettingsNext
  PROVE  \/ Configure \/ Worker
         \/ \E s \in Settings, v \in Words : Send(s, v)
         \/ \E text \in HeaderTexts : HeaderList(text)
         \/ \E op \in {"load", "script", "collect", "addScript", "removeScripts"} : Other(op)
         \/ SetTask \/ GarbageTask \/ AddUserScriptImpl \/ RemoveScriptsTask
         \/ \E op \in {"headers", "load", "script"} : PageTask(op)
         \/ ExtensionStarts \/ SetRequestHeaders \/ Load \/ RunsScript \/ ApplyRequestHeaders
<1>1. \A s \in Settings : Values(s) \subseteq Words
  BY DEF Values, BuiltIn, Policies, Words
<1>3. {"userAgent", "localStorage", "cookiePolicy", "languages"} = Settings
  BY DEF Settings
<1>4. ASSUME \/ \E v \in Values("userAgent") : UserAgent(v)
             \/ \E v \in Values("localStorage") : LocalStorageEnabled(v)
             \/ \E v \in Values("cookiePolicy") : HTTPCookieAcceptPolicy(v)
             \/ \E v \in Values("languages") : Language(v)
      PROVE  \E s \in Settings, v \in Words : Send(s, v)
  BY <1>1, <1>3, <1>4 DEF UserAgent, LocalStorageEnabled, HTTPCookieAcceptPolicy, Language
<1>5. ASSUME \/ URL \/ SendToBridge \/ RunJavaScript \/ CollectGarbage
             \/ AddUserScript \/ RemoveAllUserScripts
      PROVE  \E op \in {"load", "script", "collect", "addScript", "removeScripts"} : Other(op)
  BY <1>5 DEF URL, SendToBridge, RunJavaScript, CollectGarbage, AddUserScript,
              RemoveAllUserScripts
<1> QED
  BY <1>4, <1>5 DEF SettingsNext

LEMMA SettingsTyped == SettingsTypeOK /\ [SettingsNext]_settingsVars => SettingsTypeOK'
<1> SUFFICES ASSUME SettingsTypeOK, [SettingsNext]_settingsVars PROVE SettingsTypeOK'
  OBVIOUS
<1> USE DEF SettingsTypeOK, settingVars, pageVars
<1>1. ASSUME Configure PROVE SettingsTypeOK'
  BY <1>1 DEF Configure
<1>2. CASE Worker
  <2>1. pipe' \in Seq(Messages)
    <3>1. [op |-> "load", value |-> "any", call |-> 0, floor |-> 0] \in Messages
      BY DEF Messages, PageOps, Texts
    <3> QED
      BY <1>2, <3>1 DEF Worker
  <2>2. current' \in [Settings -> Words] /\ engine' \in [Settings -> Words]
    <3>1. \A s \in Settings : Given(s) \in Words /\ BuiltIn(s) \in Words
      BY DEF Given, BuiltIn, Words, Policies
    <3> QED
      BY <1>2, <3>1 DEF Worker
  <2> QED
    BY <1>2, <2>1, <2>2 DEF Worker
<1>3. ASSUME NEW op, NEW of, NEW v, Invoke(op, of, v),
             \/ op = "set" /\ of \in Settings /\ v \in Words
             \/ op \in PageOps /\ of = "page" /\ v \in Texts
      PROVE  /\ invoked' \in Seq(Closures) /\ calls' \in Nat /\ calls' = calls + 1
             /\ UNCHANGED <<current, engine, pipe, page, request>>
  <2>1. [op |-> op, of |-> of, value |-> v, call |-> calls + 1, floor |-> headersAsked]
           \in Closures
    BY <1>3 DEF Closures
  <2> QED
    BY <1>3, <2>1, Joined DEF Invoke
<1>4. ASSUME NEW s \in Settings, NEW v \in Words, Send(s, v) PROVE SettingsTypeOK'
  <2>1. Translated(s, v) \in Words
    BY DEF Translated, translatePolicy, Words, Policies
  <2>3. /\ Invoke("set", s, v) /\ UNCHANGED headersAsked
        /\ asked' = [asked EXCEPT ![s] = Translated(s, v)]
    BY <1>4 DEF Send
  <2>4. asked' \in [Settings -> Words]
    BY <2>1, <2>3
  <2>5. /\ invoked' \in Seq(Closures) /\ calls' \in Nat
        /\ UNCHANGED <<current, engine, pipe, page, request>>
    BY <1>3, <2>3
  <2> QED
    BY <2>3, <2>4, <2>5
<1>5. ASSUME NEW text \in HeaderTexts, HeaderList(text) PROVE SettingsTypeOK'
  <2>1. /\ invoked' \in Seq(Closures) /\ calls' \in Nat
        /\ UNCHANGED <<current, engine, pipe, page, request>>
    BY <1>3, <1>5 DEF HeaderList, Texts, PageOps
  <2>2. headersAsked' \in Nat
    BY <1>5, <2>1 DEF HeaderList
  <2> QED
    BY <1>5, <2>1, <2>2 DEF HeaderList
<1>6. ASSUME NEW op \in {"load", "script", "collect", "addScript", "removeScripts"}, Other(op)
      PROVE  SettingsTypeOK'
  <2>1. /\ invoked' \in Seq(Closures) /\ calls' \in Nat
        /\ UNCHANGED <<current, engine, pipe, page, request>>
    BY <1>3, <1>6 DEF Other, Texts, PageOps
  <2> QED
    BY <1>6, <2>1 DEF Other
<1>7. ASSUME NEW op, Closure(op)
      PROVE  /\ invoked' \in Seq(Closures) /\ Head(invoked) \in Closures
             /\ UNCHANGED <<calls, asked, headersAsked, page, request>>
  BY <1>7, Left DEF Closure
<1>8. CASE SetTask
  <2>1. Head(invoked).of \in Settings /\ Head(invoked).value \in Words
    <3>1. Head(invoked) \in Closures /\ Head(invoked).op = "set"
      BY <1>7, <1>8 DEF SetTask, Closure
    <3> QED
      BY <3>1 DEF Closures, PageOps
  <2> DEFINE of == Head(invoked).of
             v == Translated(of, Head(invoked).value)
  <2>2. v \in Words
    BY <2>1 DEF Translated, translatePolicy, Words, Policies
  <2>3. current' = [current EXCEPT ![of] = v] /\ engine' = [engine EXCEPT ![of] = v]
    BY <1>8 DEF SetTask
  <2>4. Closure("set") /\ UNCHANGED pipe
    BY <1>8 DEF SetTask
  <2> HIDE DEF v, of
  <2>5. current' \in [Settings -> Words] /\ engine' \in [Settings -> Words]
    BY <2>2, <2>3
  <2> QED
    BY <1>7, <2>4, <2>5
<1>9. ASSUME NEW op \in {"headers", "load", "script"}, PageTask(op) PROVE SettingsTypeOK'
  <2>1. Head(invoked) \in Closures
    BY <1>7, <1>9 DEF PageTask
  <2>2. [op |-> op, value |-> Head(invoked).value, call |-> Head(invoked).call,
         floor |-> Head(invoked).floor] \in Messages
    BY <2>1 DEF Closures, Messages, Texts, PageOps
  <2>3. pipe' \in Seq(Messages)
    BY <1>9, <2>2, Joined DEF PageTask
  <2> QED
    BY <1>7, <1>9, <2>3 DEF PageTask
<1>10. CASE GarbageTask \/ AddUserScriptImpl \/ RemoveScriptsTask
  BY <1>7, <1>10 DEF GarbageTask, AddUserScriptImpl, RemoveScriptsTask
<1>11. CASE ExtensionStarts
  BY <1>11 DEF ExtensionStarts
<1>12. ASSUME NEW op, Reaches(op)
       PROVE  /\ pipe' \in Seq(Messages) /\ Head(pipe) \in Messages
              /\ Head(pipe).call \in Nat /\ Head(pipe).floor \in Nat
              /\ UNCHANGED <<invoked, calls, headersAsked, current, engine, asked, request>>
  <2>1. pipe' \in Seq(Messages) /\ Head(pipe) \in Messages
    BY <1>12, Left DEF Reaches
  <2> QED
    BY <1>12, <2>1 DEF Reaches, Messages
<1>13. CASE SetRequestHeaders
  <2>1. /\ DOMAIN page' = {"created", "from", "has", "loads", "floor"}
        /\ page'.from \in Nat /\ page'.floor \in Nat
    BY <1>12, <1>13 DEF SetRequestHeaders
  <2> QED
    BY <1>12, <1>13, <2>1 DEF SetRequestHeaders
<1>14. CASE Load
  <2>1. /\ DOMAIN page' = {"created", "from", "has", "loads", "floor"}
        /\ page'.from \in Nat /\ page'.floor \in Nat
    BY <1>12, <1>14 DEF Load
  <2> QED
    BY <1>12, <1>14, <2>1 DEF Load
<1>15. CASE RunsScript
  BY <1>12, <1>15 DEF RunsScript
<1>16. CASE ApplyRequestHeaders
  BY <1>16 DEF ApplyRequestHeaders
<1>17. CASE UNCHANGED settingsVars
  BY <1>17 DEF settingsVars
<1> QED
  BY <1>1, <1>2, <1>4, <1>5, <1>6, <1>8, <1>9, <1>10, <1>11, <1>13, <1>14, <1>15, <1>16, <1>17,
     CallsOfClients

(* Setting variables one after the other: the list has the last word, then *)
(* HOME is the plugin's, then an override leaves the host's alone.         *)
LEMMA EnvironmentFits ==
  ASSUME NEW line, NEW there, NEW listed, NEW v \in Variables
  PROVE  LET found == Environment(line, there, listed)[v]
             settled == IF v \in listed THEN "listed"
                        ELSE IF v = "HOME" THEN "plugin"
                        ELSE IF v \in there THEN "host" ELSE "unset"
         IN  \/ found = settled
             \/ /\ found = "plugin" /\ v \notin listed
                /\ v \in there => ~EnvironmentOverride(line, there)
<1> DEFINE inherited == [w \in Variables |-> IF w \in there THEN "host" ELSE "unset"]
           played == [w \in Variables |->
                        IF w \in {"QUEUEPLAYER_FLUSH_MODE"} /\ (FALSE \/ inherited[w] = "unset")
                        THEN "plugin" ELSE inherited[w]]
           home == [w \in Variables |->
                      IF w \in {"HOME"} /\ (TRUE \/ played[w] = "unset")
                      THEN "plugin" ELSE played[w]]
           wrote == [w \in Variables |->
                       IF w \in Written(line)
                            /\ (~EnvironmentOverride(line, there) \/ home[w] = "unset")
                       THEN "plugin" ELSE home[w]]
           last == [w \in Variables |->
                      IF w \in listed /\ (TRUE \/ wrote[w] = "unset")
                      THEN "listed" ELSE wrote[w]]
<1>1. Environment(line, there, listed) = last
  BY DEF Environment, SetEnvironment
<1>2. inherited[v] = IF v \in there THEN "host" ELSE "unset"
  OBVIOUS
<1>3. played[v] = IF v = "QUEUEPLAYER_FLUSH_MODE" /\ inherited[v] = "unset"
                  THEN "plugin" ELSE inherited[v]
  OBVIOUS
<1>4. home[v] = IF v = "HOME" THEN "plugin" ELSE played[v]
  OBVIOUS
<1>5. wrote[v] = IF v \in Written(line)
                      /\ (~EnvironmentOverride(line, there) \/ home[v] = "unset")
                 THEN "plugin" ELSE home[v]
  OBVIOUS
<1>6. last[v] = IF v \in listed THEN "listed" ELSE wrote[v]
  OBVIOUS
<1> HIDE DEF inherited, played, home, wrote, last
<1> QED
  BY <1>1, <1>2, <1>3, <1>4, <1>5, <1>6

LEMMA EnvironmentKept ==
  ASSUME SettingsTypeOK, Prepared, [SettingsNext]_settingsVars PROVE Prepared'
<1> USE DEF settingVars, pageVars
<1>1. PICK u, s : prepared = [env |-> Environment(configured.line, configured.host,
                                                  configured.listed),
                              url |-> u, storage |-> s]
  BY DEF Prepared
<1>2. UNCHANGED <<configured, prepared>> => Prepared'
  BY <1>1 DEF Prepared
<1>3. CASE Configure
  BY <1>1, <1>3 DEF Configure, Prepared
<1>4. CASE Worker
  BY <1>1, <1>4 DEF Worker, Prepared
<1>5. ASSUME NEW op, NEW of, NEW v, Invoke(op, of, v) PROVE Prepared'
  BY <1>2, <1>5 DEF Invoke
<1>6. ASSUME NEW op, Closure(op) \/ Reaches(op) PROVE Prepared'
  BY <1>2, <1>6 DEF Closure, Reaches
<1>7. CASE ExtensionStarts \/ ApplyRequestHeaders \/ UNCHANGED settingsVars
  BY <1>2, <1>7 DEF ExtensionStarts, ApplyRequestHeaders, settingsVars
<1> QED
  BY <1>3, <1>4, <1>5, <1>6, <1>7, CallsOfClients
     DEF Send, HeaderList, Other, SetTask, PageTask, GarbageTask, AddUserScriptImpl,
         RemoveScriptsTask, SetRequestHeaders, Load, RunsScript

LEMMA NothingEarlyKept ==
  ASSUME SettingsTypeOK, NothingEarly, [SettingsNext]_settingsVars PROVE NothingEarly'
<1> USE DEF settingVars, pageVars
<1>1. UNCHANGED <<stage, invoked, pipe, page, headersAsked>> => NothingEarly'
  BY DEF NothingEarly
<1>2. stage' = "running" => NothingEarly'
  BY DEF NothingEarly
<1>3. CASE Configure
  BY <1>3 DEF Configure, NothingEarly
<1>4. CASE Worker
  BY <1>2, <1>4 DEF Worker
<1>5. ASSUME NEW op, NEW of, NEW v, Invoke(op, of, v) PROVE NothingEarly'
  BY <1>2, <1>5 DEF Invoke
<1>6. ASSUME NEW op, Closure(op) PROVE NothingEarly'
  BY <1>2, <1>6 DEF Closure, NothingEarly
<1>7. ASSUME NEW op, Reaches(op) PROVE NothingEarly'
  BY <1>2, <1>7 DEF Reaches, NothingEarly
<1>8. CASE ExtensionStarts
  BY <1>2, <1>8 DEF ExtensionStarts
<1>9. CASE ApplyRequestHeaders \/ UNCHANGED settingsVars
  BY <1>1, <1>9 DEF ApplyRequestHeaders, settingsVars
<1> QED
  BY <1>3, <1>4, <1>5, <1>6, <1>7, <1>8, <1>9, CallsOfClients
     DEF Send, HeaderList, Other, SetTask, PageTask, GarbageTask, AddUserScriptImpl,
         RemoveScriptsTask, SetRequestHeaders, Load, RunsScript

(* A closure that is not of a setting comes and goes without it.           *)
LEMMA OthersJoin ==
  ASSUME SettingsTypeOK, NEW s \in Settings, Counts(s), NEW c \in Closures, ~Sets(c, s),
         invoked' = Append(invoked, c), InForce(s) => InForce(s)', asked'[s] = asked[s]
  PROVE  Counts(s)'
<1>1. /\ Len(invoked) \in Nat /\ Len(invoked') = Len(invoked) + 1
      /\ \A i \in 1..Len(invoked) : invoked'[i] = invoked[i]
      /\ invoked'[Len(invoked) + 1] = c
  BY Joined DEF SettingsTypeOK
<1>2. \A i \in 1..(Len(invoked) + 1) : i \in 1..Len(invoked) \/ i = Len(invoked) + 1
  BY <1>1
<1>3. CASE InForce(s) /\ \A i \in 1..Len(invoked) : ~Sets(invoked[i], s)
  <2>1. \A i \in 1..Len(invoked') : ~Sets(invoked'[i], s)
    BY <1>1, <1>2, <1>3
  <2> QED
    BY <1>3, <2>1 DEF Counts
<1>4. CASE Queued(s)
  <2>1. PICK i \in 1..Len(invoked) :
               /\ Sets(invoked[i], s) /\ Translated(s, invoked[i].value) = asked[s]
               /\ \A j \in (i + 1)..Len(invoked) : ~Sets(invoked[j], s)
    BY <1>4 DEF Queued
  <2>2. \A j \in (i + 1)..(Len(invoked) + 1) :
           (j \in (i + 1)..Len(invoked) /\ j \in 1..Len(invoked)) \/ j = Len(invoked) + 1
    BY <1>1
  <2>3. \A j \in (i + 1)..Len(invoked') : ~Sets(invoked'[j], s)
    BY <1>1, <2>1, <2>2
  <2>4. i \in 1..Len(invoked')
    BY <1>1
  <2>5. Sets(invoked'[i], s) /\ Translated(s, invoked'[i].value) = asked'[s]
    BY <1>1, <2>1
  <2> QED
    BY <2>3, <2>4, <2>5 DEF Counts, Queued
<1> QED
  BY <1>3, <1>4 DEF Counts

LEMMA OthersLeave ==
  ASSUME SettingsTypeOK, NEW s \in Settings, Counts(s), invoked # <<>>, ~Sets(Head(invoked), s),
         invoked' = Tail(invoked), InForce(s) => InForce(s)', asked'[s] = asked[s]
  PROVE  Counts(s)'
<1>1. /\ Len(invoked) \in Nat \ {0} /\ Len(invoked') = Len(invoked) - 1
      /\ \A i \in 1..(Len(invoked) - 1) : invoked'[i] = invoked[i + 1]
      /\ Head(invoked) = invoked[1]
  BY Left DEF SettingsTypeOK
<1>2. CASE InForce(s) /\ \A i \in 1..Len(invoked) : ~Sets(invoked[i], s)
  <2>1. \A i \in 1..(Len(invoked) - 1) : i + 1 \in 1..Len(invoked)
    BY <1>1
  <2>2. \A i \in 1..Len(invoked') : ~Sets(invoked'[i], s)
    BY <1>1, <1>2, <2>1
  <2> QED
    BY <1>2, <2>2 DEF Counts
<1>3. CASE Queued(s)
  <2>1. PICK i \in 1..Len(invoked) :
               /\ Sets(invoked[i], s) /\ Translated(s, invoked[i].value) = asked[s]
               /\ \A j \in (i + 1)..Len(invoked) : ~Sets(invoked[j], s)
    BY <1>3 DEF Queued
  <2>2. i # 1
    BY <1>1, <2>1
  <2>3. i - 1 \in 1..(Len(invoked) - 1) /\ (i - 1) + 1 = i
    BY <1>1, <2>2
  <2>4. \A j \in ((i - 1) + 1)..(Len(invoked) - 1) :
           j + 1 \in (i + 1)..Len(invoked) /\ j \in 1..(Len(invoked) - 1)
    BY <1>1, <2>2
  <2>5. Sets(invoked'[i - 1], s) /\ Translated(s, invoked'[i - 1].value) = asked'[s]
    BY <1>1, <2>1, <2>3
  <2>6. \A j \in ((i - 1) + 1)..Len(invoked') : ~Sets(invoked'[j], s)
    BY <1>1, <2>1, <2>4
  <2> QED
    BY <1>1, <2>3, <2>5, <2>6 DEF Counts, Queued
<1> QED
  BY <1>2, <1>3 DEF Counts

LEMMA LastCountsKept ==
  ASSUME SettingsTypeOK, NothingEarly, LastCounts, [SettingsNext]_settingsVars
  PROVE  LastCounts'
<1> USE DEF settingVars, pageVars
<1>1. UNCHANGED <<stage, configured, invoked, current, engine, asked>> => LastCounts'
  BY DEF LastCounts, Counts, InForce, Applied, Queued
<1>2. CASE Configure
  BY <1>2 DEF Configure, LastCounts
<1>3. CASE Worker
  <2>1. invoked' = <<>> /\ UNCHANGED configured
    BY <1>3 DEF Worker, NothingEarly
  <2>2. Len(invoked') = 0
    BY <2>1
  <2>3. Applied' = Applied
    BY <2>1 DEF Applied
  <2>4. ASSUME NEW s \in Settings PROVE InForce(s)'
    <3>1. /\ current'[s] = IF s \in Applied THEN Given(s) ELSE BuiltIn(s)
          /\ engine'[s] = IF s \in Applied \ {"cookiePolicy"} THEN Given(s) ELSE BuiltIn(s)
          /\ asked'[s] = current'[s]
      BY <1>3 DEF Worker
    <3>2. CASE s \in Applied /\ s = "cookiePolicy"
      BY <2>3, <3>1, <3>2 DEF InForce
    <3>3. CASE ~(s \in Applied /\ s = "cookiePolicy")
      BY <3>1, <3>3 DEF InForce
    <3> QED
      BY <3>2, <3>3
  <2> QED
    BY <2>2, <2>4 DEF LastCounts, Counts
<1>4. ASSUME NEW s \in Settings, NEW v \in Words, Send(s, v) PROVE LastCounts'
  <2> DEFINE c == [op |-> "set", of |-> s, value |-> v, call |-> calls + 1,
                   floor |-> headersAsked]
  <2>1. c \in Closures /\ Sets(c, s) /\ c.value = v /\ c.of = s
    BY DEF SettingsTypeOK, Closures, Sets
  <2>2. /\ invoked' = Append(invoked, c) /\ stage = "running"
        /\ asked' = [asked EXCEPT ![s] = Translated(s, v)]
        /\ UNCHANGED <<current, engine, configured>>
    BY <1>4 DEF Send, Invoke
  <2> HIDE DEF c
  <2>3. Counts(s)'
    <3>1. /\ Len(invoked) \in Nat /\ Len(invoked') = Len(invoked) + 1
          /\ invoked'[Len(invoked) + 1] = c
      BY <2>1, <2>2, Joined DEF SettingsTypeOK
    <3>2. PICK k \in 1..Len(invoked') : k = Len(invoked) + 1
      BY <3>1
    <3>3. \A j \in (k + 1)..Len(invoked') : FALSE
      BY <3>1, <3>2
    <3>4. Translated(s, v) = asked'[s]
      BY <2>2 DEF SettingsTypeOK
    <3> QED
      BY <2>1, <3>1, <3>2, <3>3, <3>4 DEF Counts, Queued
  <2>4. ASSUME NEW r \in Settings, r # s PROVE Counts(r)'
    <3>1. ~Sets(c, r)
      BY <2>1, <2>4 DEF Sets
    <3>2. asked'[r] = asked[r] /\ (InForce(r) => InForce(r)')
      BY <2>2, <2>4 DEF SettingsTypeOK, InForce, Applied
    <3> QED
      BY <2>1, <2>2, <3>1, <3>2, OthersJoin DEF LastCounts
  <2> QED
    BY <2>3, <2>4 DEF LastCounts
<1>5. ASSUME NEW op \in PageOps, NEW v \in Texts, Invoke(op, "page", v), UNCHANGED asked
      PROVE  LastCounts'
  <2> DEFINE c == [op |-> op, of |-> "page", value |-> v, call |-> calls + 1,
                   floor |-> headersAsked]
  <2>1. c \in Closures /\ c.op # "set"
    BY DEF SettingsTypeOK, Closures, PageOps
  <2>2. /\ invoked' = Append(invoked, c) /\ stage = "running"
        /\ UNCHANGED <<current, engine, configured>>
    BY <1>5 DEF Invoke
  <2> HIDE DEF c
  <2>3. ASSUME NEW r \in Settings PROVE Counts(r)'
    <3>1. ~Sets(c, r)
      BY <2>1 DEF Sets
    <3>2. asked'[r] = asked[r] /\ (InForce(r) => InForce(r)')
      BY <1>5, <2>2 DEF InForce, Applied
    <3> QED
      BY <2>1, <2>2, <3>1, <3>2, OthersJoin DEF LastCounts
  <2> QED
    BY <2>3 DEF LastCounts
<1>6. CASE SetTask
  <2>1. PICK of \in Settings : of = Head(invoked).of
    <3>1. Head(invoked) \in Closures /\ Head(invoked).op = "set"
      BY <1>6, Left DEF SetTask, Closure, SettingsTypeOK
    <3> QED
      BY <3>1 DEF Closures, PageOps
  <2>2. PICK v : v = Translated(of, Head(invoked).value)
    OBVIOUS
  <2>3. /\ current' = [current EXCEPT ![of] = v] /\ engine' = [engine EXCEPT ![of] = v]
        /\ invoked # <<>> /\ Head(invoked).op = "set" /\ invoked' = Tail(invoked)
        /\ UNCHANGED <<stage, configured, asked>>
    BY <1>6, <2>1, <2>2 DEF SetTask, Closure
  <2>4. stage = "running"
    BY <2>3 DEF NothingEarly
  <2>5. ASSUME NEW r \in Settings, r # of PROVE Counts(r)'
    <3>1. ~Sets(Head(invoked), r)
      BY <2>1, <2>5 DEF Sets
    <3>2. asked'[r] = asked[r] /\ (InForce(r) => InForce(r)')
      BY <2>3, <2>5 DEF SettingsTypeOK, InForce, Applied
    <3> QED
      BY <2>3, <2>4, <3>1, <3>2, OthersLeave DEF LastCounts
  <2>6. Counts(of)'
    <3>1. /\ Len(invoked) \in Nat \ {0} /\ Len(invoked') = Len(invoked) - 1
          /\ \A i \in 1..(Len(invoked) - 1) : invoked'[i] = invoked[i + 1]
          /\ Head(invoked) = invoked[1]
      BY <2>3, Left DEF SettingsTypeOK
    <3>2. Sets(invoked[1], of) /\ 1 \in 1..Len(invoked)
      BY <2>1, <2>3, <3>1 DEF Sets
    <3>3. PICK i \in 1..Len(invoked) :
                 /\ Sets(invoked[i], of) /\ Translated(of, invoked[i].value) = asked[of]
                 /\ \A j \in (i + 1)..Len(invoked) : ~Sets(invoked[j], of)
      BY <2>4, <3>2 DEF LastCounts, Counts, Queued
    <3>4. CASE i = 1
      <4>1. current'[of] = v /\ engine'[of] = v /\ asked'[of] = v
        BY <2>2, <2>3, <3>1, <3>3, <3>4 DEF SettingsTypeOK
      <4>2. InForce(of)'
        BY <4>1 DEF InForce
      <4>3. \A j \in 1..(Len(invoked) - 1) : j + 1 \in (i + 1)..Len(invoked)
        BY <3>1, <3>4
      <4>4. \A j \in 1..Len(invoked') : ~Sets(invoked'[j], of)
        BY <3>1, <3>3, <4>3
      <4> QED
        BY <4>2, <4>4 DEF Counts
    <3>5. CASE i # 1
      <4>1. i - 1 \in 1..(Len(invoked) - 1) /\ (i - 1) + 1 = i
        BY <3>1, <3>5
      <4>2. \A j \in ((i - 1) + 1)..(Len(invoked) - 1) :
               j + 1 \in (i + 1)..Len(invoked) /\ j \in 1..(Len(invoked) - 1)
        BY <3>1, <3>5
      <4>3. Sets(invoked'[i - 1], of) /\ Translated(of, invoked'[i - 1].value) = asked'[of]
        BY <2>3, <3>1, <3>3, <4>1
      <4>4. \A j \in ((i - 1) + 1)..Len(invoked') : ~Sets(invoked'[j], of)
        BY <3>1, <3>3, <4>2
      <4> QED
        BY <3>1, <4>1, <4>3, <4>4 DEF Counts, Queued
    <3> QED
      BY <3>4, <3>5
  <2> QED
    BY <2>5, <2>6 DEF LastCounts
<1>7. ASSUME NEW op, op # "set", Closure(op), UNCHANGED <<current, engine>> PROVE LastCounts'
  <2>1. /\ invoked # <<>> /\ Head(invoked).op = op /\ invoked' = Tail(invoked)
        /\ UNCHANGED <<stage, configured, asked>>
    BY <1>7 DEF Closure
  <2>2. stage = "running"
    BY <2>1 DEF NothingEarly
  <2>3. ASSUME NEW r \in Settings PROVE Counts(r)'
    <3>1. ~Sets(Head(invoked), r)
      BY <1>7, <2>1 DEF Sets
    <3>2. asked'[r] = asked[r] /\ (InForce(r) => InForce(r)')
      BY <1>7, <2>1 DEF InForce, Applied
    <3> QED
      BY <2>1, <2>2, <3>1, <3>2, OthersLeave DEF LastCounts
  <2> QED
    BY <2>3 DEF LastCounts
<1>8. ASSUME NEW op, Reaches(op) PROVE LastCounts'
  BY <1>1, <1>8 DEF Reaches
<1>9. CASE ExtensionStarts \/ ApplyRequestHeaders \/ UNCHANGED settingsVars
  BY <1>1, <1>9 DEF ExtensionStarts, ApplyRequestHeaders, settingsVars
<1>10. ASSUME NEW text \in HeaderTexts, HeaderList(text) PROVE LastCounts'
  BY <1>5, <1>10 DEF HeaderList, PageOps, Texts
<1>11. ASSUME NEW op \in {"load", "script", "collect", "addScript", "removeScripts"}, Other(op)
       PROVE  LastCounts'
  BY <1>5, <1>11 DEF Other, PageOps, Texts
<1>12. ASSUME NEW op \in {"headers", "load", "script"}, PageTask(op) PROVE LastCounts'
  BY <1>7, <1>12 DEF PageTask
<1>13. CASE GarbageTask \/ AddUserScriptImpl \/ RemoveScriptsTask
  BY <1>7, <1>13 DEF GarbageTask, AddUserScriptImpl, RemoveScriptsTask
<1>14. CASE SetRequestHeaders \/ Load \/ RunsScript
  BY <1>8, <1>14 DEF SetRequestHeaders, Load, RunsScript
<1> QED
  BY <1>2, <1>3, <1>4, <1>6, <1>9, <1>10, <1>11, <1>12, <1>13, <1>14, CallsOfClients

LEMMA CallsAreNumbers ==
  ASSUME SettingsTypeOK
  PROVE  /\ Len(invoked) \in Nat /\ Len(pipe) \in Nat /\ calls \in Nat /\ page.from \in Nat
         /\ \A i \in 1..Len(invoked) : invoked[i].call \in Nat /\ invoked[i].floor \in Nat
         /\ \A i \in 1..Len(pipe) : pipe[i].call \in Nat /\ pipe[i].floor \in Nat
<1>1. /\ \A i \in 1..Len(invoked) : invoked[i] \in Closures
      /\ \A i \in 1..Len(pipe) : pipe[i] \in Messages
  BY DEF SettingsTypeOK
<1> QED
  BY <1>1 DEF SettingsTypeOK, Closures, Messages

(* A call takes the next number; a closure leaves, and the page may be     *)
(* sent what it was; a message leaves, and the page may be told it.        *)
LEMMA CallsJoin ==
  ASSUME SettingsTypeOK, CallsInOrder, NEW op, NEW of, NEW v, Invoke(op, of, v),
         invoked' \in Seq(Closures)
  PROVE  CallsInOrder'
<1> DEFINE c == [op |-> op, of |-> of, value |-> v, call |-> calls + 1, floor |-> headersAsked]
           n == Len(invoked)
<1>1. c.call = calls + 1 /\ n \in Nat /\ calls \in Nat /\ page.from \in Nat
  BY CallsAreNumbers
<1>2. /\ invoked' = Append(invoked, c) /\ calls' = calls + 1 /\ UNCHANGED <<page, pipe>>
  BY DEF Invoke, pageVars
<1> HIDE DEF c
<1>3. Len(invoked') = n + 1 /\ invoked'[n + 1] = c /\ \A i \in 1..n : invoked'[i] = invoked[i]
  BY <1>2 DEF SettingsTypeOK
<1> HIDE DEF n
<1>4. \A i \in 1..(n + 1) : i \in 1..n \/ i = n + 1
  BY <1>1
<1>5. /\ \A i \in 1..n : /\ invoked[i].call \in Nat /\ page.from <= invoked[i].call
                        /\ invoked[i].call <= calls
      /\ \A i \in 1..Len(pipe) : /\ pipe[i].call \in Nat /\ page.from <= pipe[i].call
                                /\ pipe[i].call <= calls
      /\ page.from <= calls
  BY CallsAreNumbers DEF CallsInOrder, CallsInRange, n
<1>6. CallsInRange'
  <2>1. \A i \in 1..(n + 1) : page.from <= invoked'[i].call /\ invoked'[i].call <= calls + 1
    BY <1>1, <1>3, <1>4, <1>5
  <2>2. \A i \in 1..Len(pipe) : page.from <= pipe[i].call /\ pipe[i].call <= calls + 1
    BY <1>1, <1>5
  <2>3. page.from <= calls + 1
    BY <1>1, <1>5
  <2> QED
    BY <1>2, <1>3, <2>1, <2>2, <2>3 DEF CallsInRange
<1>7. QueueInOrder'
  <2>1. ASSUME NEW i \in 1..(n + 1), NEW j \in 1..(n + 1), i <= j
        PROVE  invoked'[i].call <= invoked'[j].call
    <3>1. CASE j = n + 1
      BY <1>1, <1>3, <1>4, <1>5, <3>1
    <3>2. CASE j # n + 1
      <4>1. i \in 1..n /\ j \in 1..n
        BY <1>1, <2>1, <3>2
      <4> QED
        BY <1>3, <2>1, <4>1 DEF CallsInOrder, QueueInOrder, n
    <3> QED
      BY <3>1, <3>2
  <2> QED
    BY <1>3, <2>1 DEF QueueInOrder
<1>8. PipeInOrder'
  BY <1>2 DEF CallsInOrder, PipeInOrder
<1>9. PipeFirst'
  <2>1. ASSUME NEW i \in 1..Len(pipe), NEW j \in 1..(n + 1)
        PROVE  pipe[i].call <= invoked'[j].call
    <3>1. CASE j = n + 1
      BY <1>1, <1>3, <1>5, <3>1
    <3>2. CASE j \in 1..n
      BY <1>3, <3>2 DEF CallsInOrder, PipeFirst, n
    <3> QED
      BY <1>4, <3>1, <3>2
  <2> QED
    BY <1>2, <1>3, <2>1 DEF PipeFirst
<1> QED
  BY <1>6, <1>7, <1>8, <1>9 DEF CallsInOrder

LEMMA CallsLeave ==
  ASSUME SettingsTypeOK, CallsInOrder, NEW op, Closure(op),
         \/ UNCHANGED pipe
         \/ \E m \in Messages : m.call = Head(invoked).call /\ pipe' = Append(pipe, m)
  PROVE  CallsInOrder'
<1> DEFINE n == Len(invoked) - 1
<1>1. /\ Len(invoked) \in Nat \ {0} /\ Len(invoked') = n /\ n \in Nat
      /\ \A i \in 1..n : invoked'[i] = invoked[i + 1]
      /\ Head(invoked) = invoked[1]
      /\ UNCHANGED <<calls, page>>
  BY Left DEF Closure, SettingsTypeOK
<1>2. \A i \in 1..n : i + 1 \in 1..Len(invoked) /\ 1 <= i + 1
  BY <1>1
<1>3. 1 \in 1..Len(invoked)
  BY <1>1
<1>4. /\ \A i \in 1..Len(invoked) : /\ invoked[i].call \in Nat /\ page.from <= invoked[i].call
                                   /\ invoked[i].call <= calls
      /\ \A i \in 1..Len(pipe) : /\ pipe[i].call \in Nat /\ page.from <= pipe[i].call
                                /\ pipe[i].call <= calls
      /\ page.from <= calls /\ Len(pipe) \in Nat
  BY CallsAreNumbers DEF CallsInOrder, CallsInRange
<1>5. ASSUME NEW i \in 1..n, NEW j \in 1..n, i <= j PROVE i + 1 <= j + 1
  BY <1>1, <1>5
<1> HIDE DEF n
<1>6. QueueInOrder'
  <2>1. ASSUME NEW i \in 1..n, NEW j \in 1..n, i <= j
        PROVE  invoked'[i].call <= invoked'[j].call
    BY <1>1, <1>2, <1>5, <2>1 DEF CallsInOrder, QueueInOrder
  <2> QED
    BY <1>1, <2>1 DEF QueueInOrder
<1>7. \A i \in 1..Len(invoked') : page.from <= invoked'[i].call /\ invoked'[i].call <= calls
  BY <1>1, <1>2, <1>4
<1>8. CASE UNCHANGED pipe
  <2>1. CallsInRange'
    BY <1>1, <1>4, <1>7, <1>8 DEF CallsInRange
  <2>2. PipeInOrder'
    BY <1>8 DEF CallsInOrder, PipeInOrder
  <2>3. PipeFirst'
    BY <1>1, <1>2, <1>8 DEF CallsInOrder, PipeFirst
  <2> QED
    BY <1>6, <2>1, <2>2, <2>3 DEF CallsInOrder
<1>9. ASSUME NEW m \in Messages, m.call = Head(invoked).call, pipe' = Append(pipe, m)
      PROVE  CallsInOrder'
  <2> DEFINE k == Len(pipe)
  <2>1. k \in Nat /\ Len(pipe') = k + 1 /\ pipe'[k + 1] = m /\ \A i \in 1..k : pipe'[i] = pipe[i]
    BY <1>9, Joined DEF SettingsTypeOK
  <2>2. \A i \in 1..(k + 1) : i \in 1..k \/ i = k + 1
    BY <2>1
  <2>3. /\ m.call = invoked[1].call /\ m.call \in Nat /\ page.from <= m.call /\ m.call <= calls
        /\ \A i \in 1..k : pipe[i].call <= m.call
        /\ \A j \in 1..n : m.call <= invoked[j + 1].call
    BY <1>1, <1>2, <1>3, <1>4, <1>9 DEF CallsInOrder, PipeFirst, QueueInOrder
  <2>4. \A i \in 1..(k + 1) : page.from <= pipe'[i].call /\ pipe'[i].call <= calls
    BY <1>4, <2>1, <2>2, <2>3
  <2>5. CallsInRange'
    BY <1>1, <1>4, <1>7, <2>1, <2>4 DEF CallsInRange
  <2> HIDE DEF k
  <2>6. ASSUME NEW i \in 1..(k + 1), NEW j \in 1..(k + 1), i <= j
        PROVE  pipe'[i].call <= pipe'[j].call
    <3>1. CASE j = k + 1 /\ i \in 1..k
      BY <2>1, <2>3, <3>1
    <3>2. CASE j = k + 1 /\ i = k + 1
      BY <2>1, <2>3, <3>2
    <3>3. CASE j # k + 1
      <4>1. i \in 1..k /\ j \in 1..k
        BY <2>1, <2>6, <3>3
      <4> QED
        BY <2>1, <2>6, <4>1 DEF CallsInOrder, PipeInOrder, k
    <3> QED
      BY <2>2, <3>1, <3>2, <3>3
  <2>7. PipeInOrder'
    BY <2>1, <2>6 DEF PipeInOrder
  <2>8. ASSUME NEW i \in 1..(k + 1), NEW j \in 1..n
        PROVE  pipe'[i].call <= invoked'[j].call
    <3>1. CASE i = k + 1
      BY <1>1, <2>1, <2>3, <3>1
    <3>2. CASE i \in 1..k
      BY <1>1, <1>2, <2>1, <3>2 DEF CallsInOrder, PipeFirst, k
    <3> QED
      BY <2>2, <3>1, <3>2
  <2>9. PipeFirst'
    BY <1>1, <2>1, <2>8 DEF PipeFirst
  <2> QED
    BY <1>6, <2>5, <2>7, <2>9 DEF CallsInOrder
<1> QED
  BY <1>8, <1>9

LEMMA CallsArrive ==
  ASSUME SettingsTypeOK, CallsInOrder, NEW op, Reaches(op),
         page'.from \in {page.from, Head(pipe).call}
  PROVE  CallsInOrder'
<1> DEFINE n == Len(pipe) - 1
<1>1. /\ Len(pipe) \in Nat \ {0} /\ Len(pipe') = n /\ n \in Nat
      /\ \A i \in 1..n : pipe'[i] = pipe[i + 1]
      /\ Head(pipe) = pipe[1]
      /\ UNCHANGED <<calls, invoked>>
  BY Left DEF Reaches, SettingsTypeOK
<1>2. \A i \in 1..n : i + 1 \in 1..Len(pipe) /\ 1 <= i + 1
  BY <1>1
<1>3. 1 \in 1..Len(pipe)
  BY <1>1
<1>4. PICK f \in {page.from, pipe[1].call} : page'.from = f
  BY <1>1
<1>5. /\ \A i \in 1..Len(invoked) : f <= invoked[i].call /\ invoked[i].call <= calls
      /\ \A i \in 1..n : f <= pipe[i + 1].call /\ pipe[i + 1].call <= calls
      /\ f <= calls
  BY <1>2, <1>3, <1>4 DEF CallsInOrder, CallsInRange, PipeFirst, PipeInOrder
<1>6. ASSUME NEW i \in 1..n, NEW j \in 1..n, i <= j PROVE i + 1 <= j + 1
  BY <1>1, <1>6
<1> HIDE DEF n
<1>7. CallsInRange'
  BY <1>1, <1>4, <1>5 DEF CallsInRange
<1>8. QueueInOrder'
  BY <1>1 DEF CallsInOrder, QueueInOrder
<1>9. PipeInOrder'
  <2>1. ASSUME NEW i \in 1..n, NEW j \in 1..n, i <= j
        PROVE  pipe'[i].call <= pipe'[j].call
    BY <1>1, <1>2, <1>6, <2>1 DEF CallsInOrder, PipeInOrder
  <2> QED
    BY <1>1, <2>1 DEF PipeInOrder
<1>10. PipeFirst'
  BY <1>1, <1>2 DEF CallsInOrder, PipeFirst
<1> QED
  BY <1>7, <1>8, <1>9, <1>10 DEF CallsInOrder

(* New headers are behind those of before, and what follows them is to     *)
(* find them.                                                              *)
LEMMA HeadersJoin ==
  ASSUME SettingsTypeOK, HeadersAhead, NEW op, NEW of, NEW v, Invoke(op, of, v),
         invoked' \in Seq(Closures),
         \/ headersAsked' = headersAsked
         \/ op = "headers" /\ v # "bad" /\ headersAsked' = calls + 1
  PROVE  HeadersAhead'
<1> DEFINE c == [op |-> op, of |-> of, value |-> v, call |-> calls + 1, floor |-> headersAsked]
<1>0. PICK n : n = Len(invoked)
  OBVIOUS
<1>1. /\ c.call = calls + 1 /\ c.op = op /\ c.value = v /\ c.floor = headersAsked
      /\ n \in Nat /\ calls \in Nat /\ Len(pipe) \in Nat
  BY <1>0, CallsAreNumbers
<1>2. /\ invoked' = Append(invoked, c) /\ UNCHANGED <<page, pipe, request>>
  BY DEF Invoke, pageVars
<1> HIDE DEF c
<1>3. Len(invoked') = n + 1 /\ invoked'[n + 1] = c /\ \A i \in 1..n : invoked'[i] = invoked[i]
  BY <1>0, <1>2, Joined DEF SettingsTypeOK
<1>4. \A i \in 1..(n + 1) : i \in 1..n \/ i = n + 1
  BY <1>1
<1>5. ASSUME NEW f, NEW i, InPipe(f, i) PROVE InPipe(f, i)'
  BY <1>2, <1>5 DEF InPipe
<1>6. ASSUME NEW f, NEW i \in 1..(n + 1), InQueue(f, i) PROVE InQueue(f, i)'
  <2>1. \A j \in 1..(i - 1) : j \in 1..n
    BY <1>1
  <2> QED
    BY <1>2, <1>3, <1>5, <1>6, <2>1 DEF InQueue
<1>7. ASSUME NEW f, InQueue(f, n + 1)' PROVE InQueue(f, n + 2)'
  <2>1. \A j \in 1..((n + 1) - 1) : j \in 1..((n + 2) - 1)
    BY <1>1
  <2> QED
    BY <1>7, <2>1 DEF InQueue
<1>8. \A i \in 1..Len(pipe') : InPipe(pipe[i].floor, i)'
  BY <1>2, <1>5 DEF HeadersAhead
<1>9. InQueue(headersAsked, n + 1)
  BY <1>0 DEF HeadersAhead
<1>10. \A i \in 1..(n + 1) : InQueue(invoked[i].floor, i)'
  <2>1. ASSUME NEW i \in 1..n PROVE InQueue(invoked[i].floor, i)'
    <3>1. PICK f : f = invoked[i].floor
      OBVIOUS
    <3>2. InQueue(f, i) /\ i \in 1..(n + 1)
      BY <1>0, <1>1, <3>1 DEF HeadersAhead
    <3>3. InQueue(f, i)'
      BY <1>6, <3>2
    <3> QED
      BY <1>3, <3>1, <3>3
  <2>2. InQueue(invoked[n + 1].floor, n + 1)'
    <3>1. PICK f : f = headersAsked
      OBVIOUS
    <3>2. InQueue(f, n + 1) /\ n + 1 \in 1..(n + 1)
      BY <1>1, <1>9, <3>1
    <3>3. InQueue(f, n + 1)'
      BY <1>6, <3>2
    <3> QED
      BY <1>1, <1>3, <3>1, <3>3
  <2> QED
    BY <1>4, <2>1, <2>2
<1>11. InQueue(headersAsked, n + 2)'
  <2>1. CASE headersAsked' = headersAsked
    <3>1. PICK f : f = headersAsked
      OBVIOUS
    <3>2. InQueue(f, n + 1) /\ n + 1 \in 1..(n + 1)
      BY <1>1, <1>9, <3>1
    <3>3. InQueue(f, n + 2)'
      BY <1>6, <1>7, <3>2
    <3> QED
      BY <2>1, <3>1, <3>3
  <2>2. CASE op = "headers" /\ v # "bad" /\ headersAsked' = calls + 1
    <3>1. PICK f \in Nat : f = calls + 1
      BY <1>1
    <3>2. Gives(c, f)
      BY <1>1, <2>2, <3>1 DEF Gives
    <3>3. n + 1 \in 1..((n + 2) - 1)
      BY <1>1
    <3>4. InQueue(f, n + 2)'
      BY <1>3, <3>2, <3>3 DEF InQueue
    <3> QED
      BY <2>2, <3>1, <3>4
  <2> QED
    BY <2>1, <2>2
<1>12. Len(invoked') + 1 = n + 2
  BY <1>1, <1>3
<1>13. page'.floor <= page'.from /\ RequestsCarryHeaders'
  BY <1>2 DEF HeadersAhead, RequestsCarryHeaders
<1> QED
  BY <1>3, <1>8, <1>10, <1>11, <1>12, <1>13 DEF HeadersAhead

(* A closure of headers becomes a message of the same, and others have no  *)
(* headers.                                                                *)
LEMMA HeadersLeave ==
  ASSUME SettingsTypeOK, HeadersAhead, NEW op, Closure(op),
         \/ UNCHANGED pipe /\ op # "headers"
         \/ \E m \in Messages :
               /\ m.call = Head(invoked).call /\ m.floor = Head(invoked).floor
               /\ m.value = Head(invoked).value /\ m.op = op /\ pipe' = Append(pipe, m)
  PROVE  HeadersAhead'
<1>0. PICK n, k : n = Len(invoked) - 1 /\ k = Len(pipe)
  OBVIOUS
<1>1. /\ Len(invoked) = n + 1 /\ Len(invoked') = n /\ n \in Nat /\ k \in Nat
      /\ \A i \in 1..n : invoked'[i] = invoked[i + 1]
      /\ Head(invoked) = invoked[1] /\ invoked[1].op = op
      /\ UNCHANGED <<page, request, headersAsked>>
  BY <1>0, Left DEF Closure, SettingsTypeOK
<1>2. \A i \in 1..n : i + 1 \in 1..(n + 1)
  BY <1>1
<1>3. ASSUME NEW f, NEW i \in 1..(n + 1), InQueue(f, i + 1)
      PROVE  \/ InPipe(f, k + 1) \/ Gives(invoked[1], f)
             \/ \E j \in 1..(i - 1) : Gives(invoked'[j], f)
  <2>1. ASSUME NEW j \in 1..((i + 1) - 1), j # 1
        PROVE  j - 1 \in 1..(i - 1) /\ j - 1 \in 1..n /\ (j - 1) + 1 = j
    BY <1>1, <2>1
  <2>2. CASE InPipe(f, k + 1)
    BY <2>2
  <2>3. ASSUME NEW j \in 1..((i + 1) - 1), Gives(invoked[j], f), j # 1
        PROVE  \E h \in 1..(i - 1) : Gives(invoked'[h], f)
    BY <1>1, <2>1, <2>3
  <2> QED
    BY <1>0, <1>3, <2>2, <2>3 DEF InQueue
<1>4. page'.floor <= page'.from /\ RequestsCarryHeaders'
  BY <1>1 DEF HeadersAhead, RequestsCarryHeaders
<1>5. CASE UNCHANGED pipe /\ op # "headers"
  <2>1. ASSUME NEW f, NEW i, InPipe(f, i) PROVE InPipe(f, i)'
    BY <1>1, <1>5, <2>1 DEF InPipe
  <2>2. ASSUME NEW f, NEW i \in 1..(n + 1), InQueue(f, i + 1) PROVE InQueue(f, i)'
    <3>1. ~Gives(invoked[1], f)
      BY <1>1, <1>5 DEF Gives
    <3>2. InPipe(f, k + 1) \/ \E j \in 1..(i - 1) : Gives(invoked'[j], f)
      BY <1>3, <2>2, <3>1
    <3> QED
      BY <1>0, <1>5, <2>1, <3>2 DEF InQueue
  <2>3. \A i \in 1..Len(pipe') : InPipe(pipe[i].floor, i)'
    BY <1>5, <2>1 DEF HeadersAhead
  <2>4. ASSUME NEW i \in 1..n PROVE InQueue(invoked[i].floor, i)'
    <3>1. PICK f : f = invoked[i + 1].floor
      OBVIOUS
    <3>2. InQueue(f, i + 1) /\ i \in 1..(n + 1)
      BY <1>1, <1>2, <3>1 DEF HeadersAhead
    <3> QED
      BY <1>1, <2>2, <3>1, <3>2
  <2>5. InQueue(headersAsked, n + 1)'
    <3>1. PICK f : f = headersAsked
      OBVIOUS
    <3>2. InQueue(f, (n + 1) + 1) /\ n + 1 \in 1..(n + 1)
      BY <1>1, <3>1 DEF HeadersAhead
    <3> QED
      BY <1>1, <2>2, <3>1, <3>2
  <2> QED
    BY <1>1, <1>4, <2>3, <2>4, <2>5 DEF HeadersAhead
<1>6. ASSUME NEW m \in Messages,
             m.call = Head(invoked).call, m.floor = Head(invoked).floor,
             m.value = Head(invoked).value, m.op = op, pipe' = Append(pipe, m)
      PROVE  HeadersAhead'
  <2>1. Len(pipe') = k + 1 /\ pipe'[k + 1] = m /\ \A i \in 1..k : pipe'[i] = pipe[i]
    BY <1>0, <1>6, Joined DEF SettingsTypeOK
  <2>2. ASSUME NEW f, NEW i \in 1..(k + 1), InPipe(f, i) PROVE InPipe(f, i)'
    <3>1. \A j \in 1..(i - 1) : j \in 1..k
      BY <1>1
    <3> QED
      BY <1>1, <2>1, <2>2, <3>1 DEF InPipe
  <2>3. ASSUME NEW f, NEW i \in 1..(n + 1), InQueue(f, i + 1) PROVE InQueue(f, i)'
    <3>1. k + 1 \in 1..((k + 2) - 1) /\ k + 1 \in 1..(k + 1)
          /\ \A j \in 1..((k + 1) - 1) : j \in 1..((k + 2) - 1)
      BY <1>1
    <3>2. CASE InPipe(f, k + 1)
      <4>1. InPipe(f, k + 1)'
        BY <2>2, <3>1, <3>2
      <4> QED
        BY <2>1, <3>1, <4>1 DEF InQueue, InPipe
    <3>3. CASE Gives(invoked[1], f)
      <4>1. Gives(m, f)
        BY <1>1, <1>6, <3>3 DEF Gives
      <4> QED
        BY <2>1, <3>1, <4>1 DEF InQueue, InPipe
    <3>4. CASE \E j \in 1..(i - 1) : Gives(invoked'[j], f)
      BY <3>4 DEF InQueue
    <3> QED
      BY <1>3, <2>3, <3>2, <3>3, <3>4
  <2>4. ASSUME NEW i \in 1..(k + 1) PROVE InPipe(pipe[i].floor, i)'
    <3>1. CASE i \in 1..k
      <4>1. PICK f : f = pipe[i].floor
        OBVIOUS
      <4> QED
        BY <1>0, <2>1, <2>2, <3>1, <4>1 DEF HeadersAhead
    <3>2. CASE i = k + 1
      <4>1. PICK f : f = invoked[1].floor
        OBVIOUS
      <4>2. InQueue(f, 1)
        BY <1>1, <4>1 DEF HeadersAhead
      <4>3. \A j \in 1..(1 - 1) : FALSE
        OBVIOUS
      <4>4. InPipe(f, k + 1)
        BY <1>0, <4>2, <4>3 DEF InQueue
      <4> QED
        BY <1>1, <1>6, <2>1, <2>2, <3>2, <4>1, <4>4
    <3> QED
      BY <1>1, <3>1, <3>2
  <2>5. ASSUME NEW i \in 1..n PROVE InQueue(invoked[i].floor, i)'
    <3>1. PICK f : f = invoked[i + 1].floor
      OBVIOUS
    <3>2. InQueue(f, i + 1) /\ i \in 1..(n + 1)
      BY <1>1, <1>2, <3>1 DEF HeadersAhead
    <3> QED
      BY <1>1, <2>3, <3>1, <3>2
  <2>6. InQueue(headersAsked, n + 1)'
    <3>1. PICK f : f = headersAsked
      OBVIOUS
    <3>2. InQueue(f, (n + 1) + 1) /\ n + 1 \in 1..(n + 1)
      BY <1>1, <3>1 DEF HeadersAhead
    <3> QED
      BY <1>1, <2>3, <3>1, <3>2
  <2> QED
    BY <1>1, <1>4, <2>1, <2>4, <2>5, <2>6 DEF HeadersAhead
<1> QED
  BY <1>5, <1>6

(* The page takes what the first message gives, which is not older than    *)
(* what it had.                                                            *)
LEMMA HeadersArrive ==
  ASSUME SettingsTypeOK, HeadersAhead, NEW op, Reaches(op),
         page.from <= page'.from, page'.from \in Nat, page'.floor \in Nat,
         \A f \in Nat : Gives(Head(pipe), f) => f <= page'.from,
         \/ page'.floor = page.floor
         \/ page'.floor = Head(pipe).floor /\ page'.from = page.from
  PROVE  HeadersAhead'
<1>0. PICK n, k : n = Len(invoked) /\ k = Len(pipe) - 1
  OBVIOUS
<1>1. /\ Len(pipe) = k + 1 /\ Len(pipe') = k /\ k \in Nat /\ n \in Nat
      /\ \A i \in 1..k : pipe'[i] = pipe[i + 1]
      /\ Head(pipe) = pipe[1]
      /\ UNCHANGED <<invoked, request, headersAsked>>
  BY <1>0, Left DEF Reaches, SettingsTypeOK
<1>2. page.from \in Nat /\ page.floor \in Nat /\ page.floor <= page.from
  BY DEF SettingsTypeOK, HeadersAhead
<1>3. PICK g \in Nat : page'.from = g
  OBVIOUS
<1>4. page.from <= g /\ \A f \in Nat : Gives(pipe[1], f) => f <= g
  BY <1>1, <1>3
<1>5. ASSUME NEW f \in Nat, NEW i \in 1..(k + 1), InPipe(f, i + 1) PROVE InPipe(f, i)'
  <2>1. ASSUME NEW j \in 1..((i + 1) - 1), j # 1
        PROVE  j - 1 \in 1..(i - 1) /\ j - 1 \in 1..k /\ (j - 1) + 1 = j
    BY <1>1, <2>1
  <2>2. CASE f <= page.from
    <3>1. f <= g
      BY <1>2, <1>4, <2>2
    <3> QED
      BY <1>3, <3>1 DEF InPipe
  <2>3. CASE Gives(pipe[1], f)
    BY <1>3, <1>4, <2>3 DEF InPipe
  <2>4. ASSUME NEW j \in 1..((i + 1) - 1), Gives(pipe[j], f), j # 1
        PROVE  InPipe(f, i)'
    BY <1>1, <2>1, <2>4 DEF InPipe
  <2> QED
    BY <1>5, <2>2, <2>3, <2>4 DEF InPipe
<1>6. ASSUME NEW f \in Nat, NEW i, InQueue(f, i) PROVE InQueue(f, i)'
  <2>1. k + 1 \in 1..(k + 1)
    BY <1>1
  <2> QED
    BY <1>1, <1>5, <1>6, <2>1 DEF InQueue
<1>7. ASSUME NEW i \in 1..k PROVE InPipe(pipe[i].floor, i)'
  <2>1. i + 1 \in 1..(k + 1) /\ i \in 1..(k + 1)
    BY <1>1
  <2>2. PICK f \in Nat : f = pipe[i + 1].floor
    BY <1>1, <2>1, CallsAreNumbers
  <2>3. InPipe(f, i + 1)
    BY <1>1, <2>1, <2>2 DEF HeadersAhead
  <2> QED
    BY <1>1, <1>5, <2>1, <2>2, <2>3
<1>8. ASSUME NEW i \in 1..n PROVE InQueue(invoked[i].floor, i)'
  <2>1. PICK f \in Nat : f = invoked[i].floor
    BY <1>0, CallsAreNumbers
  <2>2. InQueue(f, i)
    BY <1>0, <2>1 DEF HeadersAhead
  <2> QED
    BY <1>1, <1>6, <2>1, <2>2
<1>9. InQueue(headersAsked, n + 1)'
  <2>1. PICK f \in Nat : f = headersAsked
    BY DEF SettingsTypeOK
  <2>2. InQueue(f, n + 1)
    BY <1>0, <2>1 DEF HeadersAhead
  <2> QED
    BY <1>1, <1>6, <2>1, <2>2
<1>10. page'.floor <= page'.from
  <2>1. CASE page'.floor = page.floor
    BY <1>2, <1>3, <1>4, <2>1
  <2>2. CASE page'.floor = pipe[1].floor /\ page'.from = page.from
    <3>1. 1 \in 1..Len(pipe) /\ \A j \in 1..(1 - 1) : FALSE
      BY <1>1
    <3>2. InPipe(pipe[1].floor, 1)
      BY <3>1 DEF HeadersAhead
    <3>3. pipe[1].floor <= page.from
      BY <3>1, <3>2 DEF InPipe
    <3> QED
      BY <2>2, <3>3
  <2> QED
    BY <1>1, <2>1, <2>2
<1>11. RequestsCarryHeaders'
  BY <1>1 DEF HeadersAhead, RequestsCarryHeaders
<1> QED
  BY <1>0, <1>1, <1>7, <1>8, <1>9, <1>10, <1>11 DEF HeadersAhead

(* What a step does to the queues of calls.                                *)
LEMMA QueuesKept ==
  ASSUME SettingsTypeOK, NothingEarly, CallsInOrder, HeadersAhead, [SettingsNext]_settingsVars
  PROVE  CallsInOrder' /\ HeadersAhead'
<1> USE DEF settingVars, pageVars
<1>1. invoked' \in Seq(Closures)
  BY SettingsTyped DEF SettingsTypeOK
<1>2. ASSUME UNCHANGED <<invoked, pipe, page, calls, headersAsked>>, RequestsCarryHeaders'
      PROVE  CallsInOrder' /\ HeadersAhead'
  BY <1>2 DEF CallsInOrder, CallsInRange, QueueInOrder, PipeInOrder, PipeFirst,
              HeadersAhead, InQueue, InPipe
<1>3. request' = request => RequestsCarryHeaders'
  BY DEF HeadersAhead, RequestsCarryHeaders
<1>4. CASE Configure
  BY <1>2, <1>3, <1>4 DEF Configure
<1>5. CASE Worker
  <2> DEFINE m == [op |-> "load", value |-> "any", call |-> 0, floor |-> 0]
  <2>1. /\ invoked' = <<>> /\ page' = page /\ page.from = 0 /\ headersAsked' = 0
        /\ calls' = calls /\ request' = request /\ pipe' = <<m>>
    BY <1>5 DEF Worker, NothingEarly
  <2>2. m.call = 0 /\ m.floor = 0 /\ calls \in Nat
    BY DEF SettingsTypeOK
  <2> HIDE DEF m
  <2>3. Len(invoked') = 0 /\ Len(pipe') = 1 /\ pipe'[1] = m
    BY <2>1
  <2>4. /\ \A i \in 1..1 : i = 1
        /\ \A i \in 1..0 : FALSE
        /\ 0 <= calls /\ 0 <= 0
    BY <2>2
  <2>5. CallsInOrder'
    BY <2>1, <2>2, <2>3, <2>4
       DEF CallsInOrder, CallsInRange, QueueInOrder, PipeInOrder, PipeFirst
  <2>6. HeadersAhead'
    BY <1>3, <2>1, <2>2, <2>3, <2>4 DEF HeadersAhead, InQueue, InPipe
  <2> QED
    BY <2>5, <2>6
<1>6. ASSUME NEW s \in Settings, NEW v \in Words, Send(s, v)
      PROVE  CallsInOrder' /\ HeadersAhead'
  BY <1>1, <1>6, CallsJoin, HeadersJoin DEF Send
<1>7. ASSUME NEW text \in HeaderTexts, HeaderList(text)
      PROVE  CallsInOrder' /\ HeadersAhead'
  <2>1. /\ Invoke("headers", "page", text)
        /\ \/ headersAsked' = headersAsked
           \/ text # "bad" /\ headersAsked' = calls + 1
    BY <1>7 DEF HeaderList, Invoke
  <2> QED
    BY <1>1, <2>1, CallsJoin, HeadersJoin
<1>8. ASSUME NEW op, Other(op) PROVE CallsInOrder' /\ HeadersAhead'
  BY <1>1, <1>8, CallsJoin, HeadersJoin DEF Other
<1>9. ASSUME NEW op, op # "headers", Closure(op), UNCHANGED pipe
      PROVE  CallsInOrder' /\ HeadersAhead'
  BY <1>9, CallsLeave, HeadersLeave
<1>10. ASSUME NEW op \in {"headers", "load", "script"}, PageTask(op)
       PROVE  CallsInOrder' /\ HeadersAhead'
  <2>1. PICK m : m = [op |-> op, value |-> Head(invoked).value, call |-> Head(invoked).call,
                      floor |-> Head(invoked).floor]
    OBVIOUS
  <2>2. Closure(op) /\ pipe' = Append(pipe, m)
    BY <1>10, <2>1 DEF PageTask
  <2>3. Head(invoked) \in Closures
    BY <2>2, Left DEF Closure, SettingsTypeOK
  <2>4. m \in Messages
    BY <2>1, <2>3 DEF Closures, Messages, Texts, PageOps
  <2>5. /\ m.call = Head(invoked).call /\ m.floor = Head(invoked).floor
        /\ m.value = Head(invoked).value /\ m.op = op
    BY <2>1
  <2> QED
    BY <2>2, <2>4, <2>5, CallsLeave, HeadersLeave
<1>11. CASE ExtensionStarts
  <2>1. /\ page'.from = page.from /\ page'.floor = page.floor
        /\ UNCHANGED <<invoked, pipe, calls, headersAsked, request>>
    BY <1>11 DEF ExtensionStarts, SettingsTypeOK
  <2> QED
    BY <1>3, <2>1 DEF CallsInOrder, CallsInRange, QueueInOrder, PipeInOrder, PipeFirst,
                      HeadersAhead, InQueue, InPipe
<1>12. ASSUME NEW op, Reaches(op), page'.from = page.from,
              page'.floor \in {page.floor, Head(pipe).floor},
              ~(Head(pipe).op = "headers" /\ Head(pipe).value # "bad")
       PROVE  CallsInOrder' /\ HeadersAhead'
  <2>1. page'.from \in Nat /\ page'.floor \in Nat /\ page.from <= page'.from
    BY <1>12, SettingsTyped DEF SettingsTypeOK
  <2>2. \A f \in Nat : ~Gives(Head(pipe), f)
    BY <1>12 DEF Gives
  <2> QED
    BY <1>12, <2>1, <2>2, CallsArrive, HeadersArrive
<1>13. CASE SetRequestHeaders
  <2>1. Reaches("headers") /\ pipe # <<>> /\ Head(pipe).op = "headers"
    BY <1>13 DEF SetRequestHeaders, Reaches
  <2>2. CASE Head(pipe).value = "bad"
    BY <1>12, <1>13, <2>1, <2>2 DEF SetRequestHeaders
  <2>3. CASE Head(pipe).value # "bad"
    <3>1. page'.from = Head(pipe).call /\ page'.floor = page.floor
      BY <1>13, <2>3 DEF SetRequestHeaders, SettingsTypeOK
    <3>2. Head(pipe) = pipe[1] /\ 1 \in 1..Len(pipe)
      BY <2>1, Left DEF SettingsTypeOK
    <3>3. page.from <= Head(pipe).call
      BY <3>2 DEF CallsInOrder, CallsInRange
    <3>4. \A f \in Nat : Gives(Head(pipe), f) => f <= page'.from
      BY <3>1 DEF Gives
    <3>5. page'.from \in Nat /\ page'.floor \in Nat
      BY SettingsTyped DEF SettingsTypeOK
    <3> QED
      BY <2>1, <3>1, <3>3, <3>4, <3>5, CallsArrive, HeadersArrive
  <2> QED
    BY <2>2, <2>3
<1>14. CASE Load
  <2>1. Reaches("load") /\ Head(pipe).op = "load"
    BY <1>14 DEF Load, Reaches
  <2>2. page'.from = page.from /\ page'.floor = Head(pipe).floor
    BY <1>14 DEF Load, SettingsTypeOK
  <2> QED
    BY <1>12, <2>1, <2>2
<1>15. CASE RunsScript
  BY <1>12, <1>15 DEF RunsScript, Reaches
<1>16. CASE ApplyRequestHeaders
  <2>1. request'.carried = page.from /\ request'.floor = page.floor
    BY <1>16 DEF ApplyRequestHeaders
  <2>2. page.floor <= page.from /\ page.floor \in Nat /\ page.from \in Nat
    BY DEF HeadersAhead, SettingsTypeOK
  <2>3. page.from >= page.floor
    BY <2>2
  <2>4. RequestsCarryHeaders'
    BY <2>1, <2>3 DEF RequestsCarryHeaders
  <2> QED
    BY <1>2, <1>16, <2>4 DEF ApplyRequestHeaders
<1>17. CASE UNCHANGED settingsVars
  BY <1>2, <1>3, <1>17 DEF settingsVars
<1>18. CASE SetTask \/ GarbageTask \/ AddUserScriptImpl \/ RemoveScriptsTask
  BY <1>9, <1>18 DEF SetTask, GarbageTask, AddUserScriptImpl, RemoveScriptsTask
<1> QED
  BY <1>4, <1>5, <1>6, <1>7, <1>8, <1>10, <1>11, <1>13, <1>14, <1>15, <1>16, <1>17, <1>18,
     CallsOfClients

LEMMA SettingsKept == SettingsSpec => []SettingsInv
<1>1. SettingsInit => SettingsInv
  <2> SUFFICES ASSUME SettingsInit PROVE SettingsInv
    OBVIOUS
  <2>1. SettingsTypeOK
    <3>1. \A s \in Settings : BuiltIn(s) \in Words
      BY DEF BuiltIn, Words, Policies
    <3>2. current \in [Settings -> Words] /\ engine = current /\ asked = current
      BY <3>1 DEF SettingsInit
    <3>3. invoked \in Seq(Closures) /\ pipe \in Seq(Messages)
      BY DEF SettingsInit
    <3>4. /\ DOMAIN page = {"created", "from", "has", "loads", "floor"}
          /\ page.from = 0 /\ page.floor = 0
          /\ request.carried = 0 /\ request.floor = 0 /\ calls = 0 /\ headersAsked = 0
      BY DEF SettingsInit, NoRequest
    <3> QED
      BY <3>2, <3>3, <3>4 DEF SettingsTypeOK
  <2>2. NothingEarly /\ LastCounts
    BY DEF SettingsInit, NothingEarly, LastCounts
  <2>3. Prepared
    BY DEF SettingsInit, Prepared
  <2>4. /\ Len(invoked) = 0 /\ Len(pipe) = 0 /\ page.from = 0 /\ page.floor = 0 /\ calls = 0
        /\ headersAsked = 0 /\ request.carried = 0 /\ request.floor = 0
    BY DEF SettingsInit, NoRequest
  <2>5. CallsInOrder
    BY <2>4 DEF CallsInOrder, CallsInRange, QueueInOrder, PipeInOrder, PipeFirst
  <2>6. HeadersAhead
    BY <2>4 DEF HeadersAhead, InQueue, InPipe, RequestsCarryHeaders
  <2> QED
    BY <2>1, <2>2, <2>3, <2>5, <2>6 DEF SettingsInv
<1>2. SettingsInv /\ [SettingsNext]_settingsVars => SettingsInv'
  BY SettingsTyped, NothingEarlyKept, EnvironmentKept, LastCountsKept, QueuesKept DEF SettingsInv
<1> QED
  BY <1>1, <1>2, PTL DEF SettingsSpec

(* For any number of calls, in any order: when the web thread has run what *)
(* was accepted, getters, engine and environment agree with what was asked *)
(* for last and with the configuration found.                              *)
THEOREM SettingsWillAgree == SettingsSpec => []SettingsAgree
<1>1. SettingsInv => SettingsAgree
  <2> SUFFICES ASSUME SettingsInv, stage = "running", invoked = <<>>
               PROVE  EnvironmentAgrees /\ \A s \in Settings : InForce(s)
    BY DEF SettingsAgree, InForce
  <2>1. EnvironmentAgrees
    <3>1. prepared.env = Environment(configured.line, configured.host, configured.listed)
      BY DEF SettingsInv, Prepared
    <3> QED
      BY <3>1, EnvironmentFits DEF EnvironmentAgrees
  <2>2. Len(invoked) = 0
    OBVIOUS
  <2>3. \A s \in Settings : InForce(s)
    BY <2>2 DEF SettingsInv, LastCounts, Counts, Queued
  <2> QED
    BY <2>1, <2>3
<1> QED
  BY <1>1, SettingsKept, PTL

(* However many lists of headers, pages and scripts are under way between  *)
(* the client and the page: a request has the headers given before its     *)
(* page was asked for, or later ones.                                      *)
THEOREM HeadersGetThere == SettingsSpec => []RequestsCarryHeaders
<1>1. SettingsInv => RequestsCarryHeaders
  BY DEF SettingsInv, HeadersAhead
<1> QED
  BY <1>1, SettingsKept, PTL
-----------------------------------------------------------------------------
(* The plugin and its observer on their own.                               *)
ShellSpec == ShellInit /\ [][ShellNext]_shellVars

Callers == {"IWebBrowser", "IStateControl", "cookieJar"}
Optional == {"cookieJar", "scripting"}
Needed == {"service", "browser", "application", "memory"}
NoCallers == clients \cap Own(Callers) = {}

(* What the plugin holds, and who may call it, in every state.             *)
Down ==
    /\ pointers = {} /\ owned = {} /\ "plugin" \notin sinks
    /\ methods = {} /\ NoCallers
ComingUp ==
    /\ pointers \in {{"service"}, {"service", "browser"}}
    /\ owned = pointers \ {"service"}
    /\ methods = {} /\ NoCallers
Up ==
    /\ Needed \subseteq pointers /\ pointers \subseteq Needed \cup Optional
    /\ owned = pointers \ {"service"}
    /\ methods = {"own", "JWebBrowser"} \cup (pointers \cap Optional)
Releasing ==
    /\ Needed \subseteq pointers /\ pointers \subseteq Needed \cup Optional
    /\ owned = pointers \ {"service", "application", "memory"}
    /\ methods = {"own", "JWebBrowser"} \cup (pointers \cap Optional)
    /\ "plugin" \notin sinks /\ clients \cap Own({"IWebBrowser"}) = {}
Unregistering ==
    /\ Needed \subseteq pointers /\ pointers \subseteq Needed \cup {"cookieJar"}
    /\ owned = {"browser"} /\ methods = {"own"}
    /\ "plugin" \notin sinks /\ clients \cap Own({"IWebBrowser", "cookieJar"}) = {}
ComingDown ==
    /\ pointers = Needed /\ owned = {"browser"} /\ "plugin" \notin sinks
    /\ methods = {} /\ clients \cap Own({"IWebBrowser", "cookieJar"}) = {}

PluginFits ==
    /\ state \in {"deactivated", "activating", "active", "deactivating", "releasing",
                  "unregistering", "deinitializing"}
    /\ state = "deactivated" => Down
    /\ state = "activating" => ComingUp
    /\ state \in {"active", "deactivating"} => Up
    /\ state = "releasing" => Releasing
    /\ state = "unregistering" => Unregistering
    /\ state = "deinitializing" => ComingDown

(* An observable is there while the plugin is active, and what it holds is *)
(* what it was registered with and has references of.                      *)
Held == {"service", "IWebBrowser", "logService", "logMemory"}
ObserverFits ==
    /\ observers # "none" => state = "active" /\ handler # "none"
    /\ observers = "observes" => observed \in {Held, Held \cup {"IStateControl"}}
    /\ observers # "observes" => observed = {}
    /\ clients \cap Metrics({"IWebBrowser", "IStateControl"}) \subseteq Metrics(observed)
    /\ refs["metrics"] = Cardinality(OfBrowser(observed))
    /\ ~threw => refs["lost"] = 0

Holders == {"metrics", "lost"}
RefsTypeOK == refs \in [Holders -> Int]

ShellInv == RefsTypeOK /\ PluginFits /\ ObserverFits

(* Nothing of the browser is held by who holds nothing.                    *)
LEMMA NothingHeld == OfBrowser({}) = {} /\ Metrics({}) = {} /\ Cardinality(OfBrowser({})) = 0
  BY FS_EmptySet DEF OfBrowser, Metrics

(* What one who is registered with the browser is called for.              *)
LEMMA OwnOrMetrics ==
  ASSUME NEW what, NEW other PROVE Own(what) \cap Metrics(other) = {}
  BY DEF Own, Metrics

(* What the observer gains by an activation, when it observed nothing      *)
(* before: all it holds of the browser is counted, unless its creation was *)
(* interrupted, and the plugin's registrations and references stay.        *)
Gained(c, r) ==
    /\ observers' \in {"none", "empty", "observes"}
    /\ observers' # "none" => handler' # "none"
    /\ observers' = "observes" => observed' \in {Held, Held \cup {"IStateControl"}}
    /\ observers' # "observes" => observed' = {}
    /\ \A what : clients' \cap Own(what) = c \cap Own(what)
    /\ clients' \cap Metrics({"IWebBrowser", "IStateControl"}) \subseteq Metrics(observed')
    /\ refs' \in [Holders -> Int]
    /\ refs'["metrics"] = Cardinality(OfBrowser(observed'))
    /\ ~threw' => refs'["lost"] = 0

LEMMA BothAreFinite == IsFiniteSet({"IWebBrowser", "IStateControl"})
<1>1. {"IWebBrowser", "IStateControl"} = {"IWebBrowser"} \cup {"IStateControl"}
  OBVIOUS
<1>2. IsFiniteSet({"IWebBrowser"})
  BY FS_Singleton
<1>3. IsFiniteSet({"IWebBrowser"} \cup {"IStateControl"})
  BY <1>2, FS_AddElement
<1> QED
  BY <1>1, <1>3

LEMMA ObservableIsCounted ==
  ASSUME NEW c, NEW r \in [Holders -> Int], handler' # "none",
         c \cap Metrics({"IWebBrowser", "IStateControl"}) = {},
         ~threw => r["lost"] = 0,
         CreateObservable(c, r)
  PROVE  Gained(c, r)
<1> DEFINE there == Available
           enabled == WebBrowserEnable(WebBrowserObservable(there))
<1>1. PICK t : t = Available /\ t \in {{"IWebBrowser", "IStateControl"}, {"IWebBrowser"}}
  BY DEF Available
<1>2. PICK e : e = WebBrowserEnable(WebBrowserObservable(t))
  OBVIOUS
<1>3. /\ e.held \in {Held, Held \cup {"IStateControl"}}
      /\ e.listens \subseteq e.held
  BY <1>1, <1>2 DEF WebBrowserEnable, StateEnable, BasicEnable, LoggerEnable,
                    WebBrowserObservable, StateObservable, BasicObservable, Held
<1>4. /\ observers' = "observes" /\ observed' = e.held
      /\ clients' \in {c, c \cup Metrics(e.listens)}
      /\ refs' = [r EXCEPT !["metrics"] = Cardinality(OfBrowser(e.held))]
      /\ threw' = threw
  BY <1>1, <1>2 DEF CreateObservable
<1>5. Cardinality(OfBrowser(e.held)) \in Int
  <2>1. OfBrowser(e.held) \subseteq {"IWebBrowser", "IStateControl"}
    BY DEF OfBrowser
  <2>2. IsFiniteSet(OfBrowser(e.held))
    BY <2>1, BothAreFinite, FS_Subset
  <2>3. Cardinality(OfBrowser(e.held)) \in Nat
    BY <2>2, FS_CardinalityType
  <2> QED
    BY <2>3
<1>6. /\ refs' \in [Holders -> Int]
      /\ refs'["metrics"] = Cardinality(OfBrowser(e.held)) /\ refs'["lost"] = r["lost"]
  BY <1>4, <1>5 DEF Holders
<1>7. \A what : clients' \cap Own(what) = c \cap Own(what)
  BY <1>4, OwnOrMetrics
<1>8. clients' \cap Metrics({"IWebBrowser", "IStateControl"}) \subseteq Metrics(e.held)
  BY <1>3, <1>4 DEF Metrics
<1> QED
  BY <1>3, <1>4, <1>6, <1>7, <1>8 DEF Gained

LEMMA ThrowIsCounted ==
  ASSUME NEW c, NEW r \in [Holders -> Int], handler' # "none", observed = {},
         c \cap Metrics({"IWebBrowser", "IStateControl"}) = {}, r["metrics"] = 0,
         CreateThrows(c, r)
  PROVE  Gained(c, r)
<1>1. IsFiniteSet(Available)
  BY BothAreFinite, FS_Singleton DEF Available
<1>2. Cardinality(Available) - 1 \in Int
  <2>1. Cardinality(Available) \in Nat
    BY <1>1, FS_CardinalityType
  <2> QED
    BY <2>1
<1>3. /\ observers' \in {"none", "empty"} /\ observed' = {} /\ clients' = c
      /\ refs' = [r EXCEPT !["lost"] = Cardinality(Available) - 1] /\ threw' = TRUE
  BY DEF CreateThrows
<1>4. refs' \in [Holders -> Int] /\ refs'["metrics"] = 0
  BY <1>2, <1>3 DEF Holders
<1> QED
  BY <1>3, <1>4, NothingHeld DEF Gained

LEMMA ActivationIsCounted ==
  ASSUME NEW c, NEW r \in [Holders -> Int], observers = "none", observed = {},
         c \cap Metrics({"IWebBrowser", "IStateControl"}) = {},
         r["metrics"] = 0, ~threw => r["lost"] = 0,
         HandlerActivated(c, r)
  PROVE  Gained(c, r)
<1>1. CASE handler' # "none" /\ CallsignActivated(c, r)
  BY <1>1, ObservableIsCounted, ThrowIsCounted DEF CallsignActivated
<1>2. CASE NotObserving(c, r)
  BY <1>2, NothingHeld DEF NotObserving, Gained
<1> QED
  BY <1>1, <1>2 DEF HandlerActivated, ClassnameActivated

(* An observable that is dropped takes with it what it holds: nothing is   *)
(* kept, no reference and no registration.                                 *)
LEMMA DropTakesAll ==
  ASSUME ShellInv, DropObservable
  PROVE  /\ observers' = "none" /\ observed' = {}
         /\ clients' \cap Metrics({"IWebBrowser", "IStateControl"}) = {}
         /\ \A what : clients' \cap Own(what) = clients \cap Own(what)
         /\ refs' \in [Holders -> Int] /\ refs'["metrics"] = 0 /\ refs'["lost"] = refs["lost"]
<1>1. observed \in {{}, Held, Held \cup {"IStateControl"}}
  BY DEF ShellInv, ObserverFits
<1>2. WebBrowserDisable(observed) = {}
  BY <1>1 DEF WebBrowserDisable, StateDisable, BasicDisable, LoggerDisable, Held
<1>3. OfBrowser(observed) \ {} = OfBrowser(observed)
  OBVIOUS
<1>4. refs' = [refs EXCEPT !["metrics"] = refs["metrics"] - Cardinality(OfBrowser(observed))]
  BY <1>2, <1>3 DEF DropObservable
<1>5. refs["metrics"] = Cardinality(OfBrowser(observed)) /\ refs["metrics"] \in Int
  BY DEF ShellInv, ObserverFits, RefsTypeOK, Holders
<1>6. refs' \in [Holders -> Int] /\ refs'["metrics"] = 0 /\ refs'["lost"] = refs["lost"]
  BY <1>4, <1>5 DEF ShellInv, RefsTypeOK, Holders
<1>7. clients' = clients \ Metrics(OfBrowser(observed))
  BY DEF DropObservable
<1>8. clients \cap Metrics({"IWebBrowser", "IStateControl"}) \subseteq Metrics(observed)
  BY DEF ShellInv, ObserverFits
<1>9. clients' \cap Metrics({"IWebBrowser", "IStateControl"}) = {}
  BY <1>7, <1>8 DEF Metrics, OfBrowser
<1>10. \A what : clients' \cap Own(what) = clients \cap Own(what)
  BY <1>7, OwnOrMetrics
<1> QED
  BY <1>2, <1>6, <1>9, <1>10 DEF DropObservable

LEMMA ShellStarts == ShellInit => ShellInv
<1> SUFFICES ASSUME ShellInit PROVE ShellInv
  OBVIOUS
<1>1. RefsTypeOK /\ refs["metrics"] = 0 /\ refs["lost"] = 0
  BY DEF ShellInit, RefsTypeOK, Holders
<1>2. PluginFits
  BY <1>1 DEF ShellInit, PluginFits, Down, NoCallers
<1>3. ObserverFits
  BY <1>1, NothingHeld DEF ShellInit, ObserverFits
<1> QED
  BY <1>1, <1>2, <1>3 DEF ShellInv

(* A step that leaves the observer and its registrations alone, outside    *)
(* the time the plugin is active.                                          *)
LEMMA ObserverLeftAlone ==
  ASSUME ShellInv, UNCHANGED <<observers, observed, threw>>,
         (state' = state /\ handler' = handler) \/ state # "active",
         clients' \cap Metrics({"IWebBrowser", "IStateControl"})
             \subseteq clients \cap Metrics({"IWebBrowser", "IStateControl"}),
         refs'["metrics"] = refs["metrics"], refs'["lost"] = refs["lost"]
  PROVE  ObserverFits'
<1>1. PICK o : o = observed
  OBVIOUS
<1>2. clients' \cap Metrics({"IWebBrowser", "IStateControl"}) \subseteq Metrics(o)
  BY <1>1 DEF ShellInv, ObserverFits
<1>3. refs'["metrics"] = Cardinality(OfBrowser(o)) /\ observed' = o
  BY <1>1 DEF ShellInv, ObserverFits
<1>4. Metrics(observed)' = Metrics(o) /\ OfBrowser(observed)' = OfBrowser(o)
  BY <1>3 DEF Metrics, OfBrowser
<1> QED
  BY <1>2, <1>3, <1>4 DEF ShellInv, ObserverFits, Metrics

LEMMA ActivateFits == ShellInv /\ Activate => ShellInv'
<1> SUFFICES ASSUME ShellInv, Activate PROVE ShellInv'
  OBVIOUS
<1>1. state = "deactivated" /\ Down
  BY DEF Activate, ShellInv, PluginFits
<1>2. PluginFits'
  BY <1>1 DEF Activate, PluginFits, ComingUp, Down, NoCallers, Own, Callers
<1>3. ObserverFits'
  BY <1>1, ObserverLeftAlone DEF Activate, observerVars
<1> QED
  BY <1>2, <1>3 DEF Activate, ShellInv, RefsTypeOK

(* What a failed Initialize acquired it gives back.                        *)
LEMMA FailureFits == ShellInv /\ state = "activating" /\ InitializeFails => ShellInv'
<1> SUFFICES ASSUME ShellInv, state = "activating", InitializeFails PROVE ShellInv'
  OBVIOUS
<1>1. PICK a \in {{}, {"application", "memory"}} : GivesUp(a, a)
  BY DEF InitializeFails
<1>2. ComingUp
  BY DEF ShellInv, PluginFits
<1>3. /\ pointers' = {} /\ owned' = {} /\ "plugin" \notin sinks'
      /\ state' = "deactivated"
  BY <1>1, <1>2 DEF GivesUp, ComingUp
<1>4. PluginFits'
  BY <1>1, <1>2, <1>3 DEF GivesUp, PluginFits, Down, ComingUp, NoCallers, Own, Callers
<1>5. ObserverFits'
  BY <1>1, ObserverLeftAlone DEF GivesUp
<1> QED
  BY <1>1, <1>4, <1>5 DEF GivesUp, ShellInv, RefsTypeOK

(* A successful one has a reference for every pointer it sets.             *)
LEMMA SuccessFits == ShellInv /\ state = "activating" /\ InitializeSucceeds => ShellInv'
<1> SUFFICES ASSUME ShellInv, state = "activating", InitializeSucceeds PROVE ShellInv'
  OBVIOUS
<1>1. /\ pointers = {"service", "browser"} /\ owned = {"browser"} /\ NoCallers
      /\ refs \in [Holders -> Int]
  BY DEF InitializeSucceeds, ShellInv, PluginFits, RefsTypeOK, ComingUp
<1>2. /\ observers = "none" /\ observed = {} /\ refs["metrics"] = 0
      /\ ~threw => refs["lost"] = 0
      /\ clients \cap Metrics({"IWebBrowser", "IStateControl"}) = {}
  BY NothingHeld DEF ShellInv, ObserverFits
<1>3. PICK optional \in SUBSET Optional : \E c :
        /\ pointers' = pointers \cup {"application", "memory"} \cup optional
        /\ owned' = owned \cup {"application", "memory"} \cup optional
        /\ methods' = {"own", "JWebBrowser"} \cup optional
        /\ c \subseteq clients \cup Own(Callers)
        /\ HandlerActivated(c, refs)
  <2>1. PICK optional \in IF Answers THEN SUBSET {"cookieJar", "scripting"} ELSE {{}} :
          /\ pointers' = pointers \cup {"application", "memory"} \cup optional
          /\ owned' = owned \cup {"application", "memory"} \cup optional
          /\ methods' = {"own", "JWebBrowser"} \cup optional
          /\ HandlerActivated(
               IF Answers THEN clients \cup Own({"IWebBrowser", "IStateControl"})
                                       \cup Own(optional \cap {"cookieJar"})
               ELSE clients, refs)
    BY DEF InitializeSucceeds
  <2>2. (IF Answers THEN clients \cup Own({"IWebBrowser", "IStateControl"})
                                 \cup Own(optional \cap {"cookieJar"})
         ELSE clients) \subseteq clients \cup Own(Callers)
    BY DEF Own, Callers
  <2>3. optional \in SUBSET Optional
    BY DEF Optional
  <2> QED
    BY <2>1, <2>2, <2>3
<1>4. PICK c : c \subseteq clients \cup Own(Callers) /\ HandlerActivated(c, refs)
  BY <1>3
<1>5. c \cap Metrics({"IWebBrowser", "IStateControl"}) = {}
  BY <1>2, <1>4, OwnOrMetrics
<1>6. Gained(c, refs)
  BY <1>1, <1>2, <1>4, <1>5, ActivationIsCounted
<1>7. Up'
  BY <1>1, <1>3 DEF Up, Needed, Optional
<1>8. state' = "active" /\ PluginFits'
  BY <1>7 DEF InitializeSucceeds, PluginFits
<1>9. ObserverFits' /\ RefsTypeOK'
  BY <1>6, <1>8 DEF Gained, ObserverFits, RefsTypeOK, Metrics, OfBrowser
<1> QED
  BY <1>8, <1>9 DEF ShellInv

LEMMA DeactivatingFits ==
  ASSUME ShellInv, state = "active", Deactivating PROVE ShellInv'
<1>1. DropObservable
  BY DEF Deactivating, HandlerDeactivated, CallsignDeactivated, ClassnameDeactivated
<1>2. Up' /\ state' = "deactivating"
  BY <1>1, DropTakesAll DEF Deactivating, ShellInv, PluginFits, Up
<1>3. PluginFits'
  BY <1>2 DEF PluginFits
<1>4. ObserverFits' /\ RefsTypeOK'
  BY <1>1, DropTakesAll, NothingHeld DEF Deactivating, ShellInv, ObserverFits, RefsTypeOK,
                                         Metrics, OfBrowser
<1> QED
  BY <1>3, <1>4 DEF ShellInv

(* Deinitialize lets go of everything but the browser, and of that last.   *)
LEMMA DeinitializeFits == ShellInv /\ Deinitialize => ShellInv'
<1> SUFFICES ASSUME ShellInv, Deinitialize PROVE ShellInv'
  OBVIOUS
<1>1. Up /\ state = "deactivating"
  BY DEF Deinitialize, ShellInv, PluginFits
<1>2. Releasing'
  BY <1>1 DEF Deinitialize, Up, Releasing, Own
<1>3. PluginFits'
  BY <1>2 DEF Deinitialize, PluginFits
<1>4. ObserverFits'
  BY <1>1, ObserverLeftAlone DEF Deinitialize, observerVars
<1> QED
  BY <1>3, <1>4 DEF Deinitialize, ShellInv, RefsTypeOK

LEMMA UnregisterInterfacesFits == ShellInv /\ UnregisterInterfaces => ShellInv'
<1> SUFFICES ASSUME ShellInv, UnregisterInterfaces PROVE ShellInv'
  OBVIOUS
<1>1. Releasing /\ state = "releasing"
  BY DEF UnregisterInterfaces, ShellInv, PluginFits
<1>2. owned' = {"browser"}
  BY <1>1 DEF UnregisterInterfaces, Releasing, Needed, Optional
<1>3. methods' = {"own"}
  BY <1>1 DEF UnregisterInterfaces, Releasing, Optional
<1>4. Unregistering'
  BY <1>1, <1>2, <1>3 DEF UnregisterInterfaces, Releasing, Unregistering, Needed, Optional, Own
<1>5. PluginFits'
  BY <1>4 DEF UnregisterInterfaces, PluginFits
<1>6. ObserverFits'
  BY <1>1, ObserverLeftAlone DEF UnregisterInterfaces, observerVars
<1> QED
  BY <1>5, <1>6 DEF UnregisterInterfaces, ShellInv, RefsTypeOK

LEMMA UnregisterAllFits == ShellInv /\ UnregisterAll => ShellInv'
<1> SUFFICES ASSUME ShellInv, UnregisterAll PROVE ShellInv'
  OBVIOUS
<1>1. Unregistering /\ state = "unregistering"
  BY DEF UnregisterAll, ShellInv, PluginFits
<1>2. ComingDown'
  BY <1>1 DEF UnregisterAll, Unregistering, ComingDown, Needed, Own
<1>3. PluginFits'
  BY <1>2 DEF UnregisterAll, PluginFits
<1>4. ObserverFits'
  BY <1>1, ObserverLeftAlone DEF UnregisterAll, observerVars
<1> QED
  BY <1>3, <1>4 DEF UnregisterAll, ShellInv, RefsTypeOK

LEMMA DeinitializedFits == ShellInv /\ Deinitialized => ShellInv'
<1> SUFFICES ASSUME ShellInv, Deinitialized PROVE ShellInv'
  OBVIOUS
<1>1. ComingDown /\ state = "deinitializing"
  BY DEF Deinitialized, ShellInv, PluginFits
<1>2. Down'
  BY <1>1 DEF Deinitialized, ComingDown, Down, NoCallers, Own, Callers
<1>3. PluginFits'
  BY <1>2 DEF Deinitialized, PluginFits
<1>4. ObserverFits'
  BY <1>1, ObserverLeftAlone DEF Deinitialized, observerVars
<1> QED
  BY <1>3, <1>4 DEF Deinitialized, ShellInv, RefsTypeOK

(* Losing the process, hearing of it, and a request of the web interface   *)
(* take nothing the plugin holds.                                          *)
LEMMA LossFits == ShellInv /\ (Lost \/ Noticed \/ Process) => ShellInv'
<1> SUFFICES ASSUME ShellInv, Lost \/ Noticed \/ Process PROVE ShellInv'
  OBVIOUS
<1>1. /\ UNCHANGED <<state, pointers, owned, sinks, methods, refs, handler, observers, observed, threw>>
      /\ clients' \subseteq clients
  BY DEF Lost, Noticed, Process, pluginVars, observerVars
<1>2. PluginFits'
  BY <1>1 DEF ShellInv, PluginFits, Down, ComingUp, Up, Releasing, Unregistering, ComingDown,
              NoCallers, Own, Callers
<1>3. ObserverFits'
  BY <1>1, ObserverLeftAlone
<1> QED
  BY <1>1, <1>2, <1>3 DEF ShellInv, RefsTypeOK

LEMMA MetricsStartFits == ShellInv /\ MetricsStart => ShellInv'
<1> SUFFICES ASSUME ShellInv, MetricsStart PROVE ShellInv'
  OBVIOUS
<1>1. /\ observers = "none" /\ observed = {} /\ refs["metrics"] = 0
      /\ ~threw => refs["lost"] = 0
      /\ clients \cap Metrics({"IWebBrowser", "IStateControl"}) = {}
      /\ refs \in [Holders -> Int]
  BY NothingHeld DEF MetricsStart, ShellInv, ObserverFits, RefsTypeOK
<1>2. Gained(clients, refs) /\ (observers' # "none" => state = "active")
  <2>1. CASE state = "active"
    BY <2>1, <1>1, ActivationIsCounted DEF MetricsStart
  <2>2. CASE state # "active"
    BY <2>2, <1>1, NothingHeld DEF MetricsStart, Gained
  <2> QED
    BY <2>1, <2>2
<1>3. /\ UNCHANGED <<state, pointers, owned, methods>>
      /\ ("plugin" \in sinks' <=> "plugin" \in sinks)
      /\ \A what : clients' \cap Own(what) = clients \cap Own(what)
  BY <1>2 DEF MetricsStart, Gained
<1>4. PluginFits'
  BY <1>3 DEF ShellInv, PluginFits, Down, ComingUp, Up, Releasing, Unregistering, ComingDown,
              NoCallers, Own, Callers
<1>5. ObserverFits' /\ RefsTypeOK'
  BY <1>2, <1>3 DEF Gained, ObserverFits, RefsTypeOK, Metrics, OfBrowser
<1> QED
  BY <1>4, <1>5 DEF ShellInv

LEMMA MetricsStopFits == ShellInv /\ MetricsStop => ShellInv'
<1> SUFFICES ASSUME ShellInv, MetricsStop PROVE ShellInv'
  OBVIOUS
<1>1. /\ UNCHANGED <<state, pointers, owned, methods, threw>>
      /\ ("plugin" \in sinks' <=> "plugin" \in sinks)
      /\ \A what : clients' \cap Own(what) = clients \cap Own(what)
  BY DropTakesAll DEF MetricsStop
<1>2. PluginFits'
  BY <1>1 DEF ShellInv, PluginFits, Down, ComingUp, Up, Releasing, Unregistering, ComingDown,
              NoCallers, Own, Callers
<1>3. /\ observers' = "none" /\ observed' = {} /\ refs' \in [Holders -> Int]
      /\ clients' \cap Metrics({"IWebBrowser", "IStateControl"}) = {}
      /\ refs'["metrics"] = 0 /\ refs'["lost"] = refs["lost"]
  BY DropTakesAll DEF MetricsStop
<1>4. refs'["metrics"] = Cardinality(OfBrowser(observed'))
  BY <1>3, NothingHeld
<1>5. ObserverFits' /\ RefsTypeOK'
  BY <1>1, <1>3, <1>4 DEF ShellInv, ObserverFits, RefsTypeOK, Metrics, OfBrowser
<1> QED
  BY <1>2, <1>5 DEF ShellInv

LEMMA ShellKept == ShellSpec => []ShellInv
<1>1. ShellInv /\ [ShellNext]_shellVars => ShellInv'
  <2> SUFFICES ASSUME ShellInv, [ShellNext]_shellVars PROVE ShellInv'
    OBVIOUS
  <2>1. CASE Initialized
    BY <2>1, FailureFits, SuccessFits DEF Initialized
  <2>2. CASE Deactivate
    BY <2>2, DeactivatingFits DEF Deactivate
  <2>3. CASE Job
    <3>1. CASE state = "active"
      BY <2>3, <3>1, DeactivatingFits DEF Job
    <3>2. CASE state # "active"
      <4>1. /\ UNCHANGED <<state, pointers, owned, sinks, methods, refs, handler,
                           observers, observed, threw, clients>>
        BY <2>3, <3>2 DEF Job, observerVars
      <4>2. PluginFits'
        BY <4>1 DEF ShellInv, PluginFits, Down, ComingUp, Up, Releasing, Unregistering,
                    ComingDown, NoCallers, Own, Callers
      <4>3. ObserverFits'
        BY <4>1, ObserverLeftAlone
      <4> QED
        BY <4>1, <4>2, <4>3 DEF ShellInv, RefsTypeOK
    <3> QED
      BY <3>1, <3>2
  <2>4. CASE UNCHANGED shellVars
    <3>1. /\ UNCHANGED <<state, pointers, owned, sinks, methods, refs, handler,
                         observers, observed, threw, clients>>
      BY <2>4 DEF shellVars, pluginVars, observerVars
    <3>2. PluginFits'
      BY <3>1 DEF ShellInv, PluginFits, Down, ComingUp, Up, Releasing, Unregistering,
                  ComingDown, NoCallers, Own, Callers
    <3>3. ObserverFits'
      BY <3>1, ObserverLeftAlone
    <3> QED
      BY <3>1, <3>2, <3>3 DEF ShellInv, RefsTypeOK
  <2> QED
    BY <2>1, <2>2, <2>3, <2>4, ActivateFits, DeinitializeFits, UnregisterInterfacesFits,
       UnregisterAllFits, DeinitializedFits, LossFits, MetricsStartFits, MetricsStopFits
       DEF ShellNext
<1> QED
  BY <1>1, ShellStarts, PTL DEF ShellSpec

(* Whoever may call the plugin or an observable finds the service, the     *)
(* interfaces or the observable it uses, and finds them held, except for   *)
(* the two that Deinitialize releases before its own methods are gone,     *)
(* however often the plugin is started, at whatever step the process is    *)
(* lost and whenever the observer comes and goes.                          *)
THEOREM CallbacksAreSafe == ShellSpec => []CallbacksFindTheirTarget
<1>1. ShellInv => CallbacksFindTheirTarget
  <2> SUFFICES ASSUME ShellInv PROVE CallbacksFindTheirTarget
    OBVIOUS
  <2>1. \/ clients \cap Own({"IWebBrowser", "IStateControl", "cookieJar"}) # {}
        \/ "plugin" \in sinks
        => "service" \in pointers
    BY DEF ShellInv, PluginFits, Down, ComingUp, Up, Releasing, Unregistering, ComingDown,
           NoCallers, Callers, Needed
  <2>2. ASSUME NEW m \in methods PROVE MethodUses(m) \ ReleasedEarly \subseteq owned
    <3>1. CASE state \in {"active", "deactivating"}
      <4>1. Up
        BY <3>1 DEF ShellInv, PluginFits
      <4>2. m \in {"own", "JWebBrowser"} \cup (pointers \cap Optional)
        BY <4>1 DEF Up
      <4> QED
        BY <4>1, <4>2 DEF Up, MethodUses, Needed, Optional
    <3>2. CASE state = "releasing"
      <4>1. Releasing
        BY <3>2 DEF ShellInv, PluginFits
      <4>2. m \in {"own", "JWebBrowser"} \cup (pointers \cap Optional)
        BY <4>1 DEF Releasing
      <4>3. ReleasedEarly = {"application"}
        BY <3>2 DEF ReleasedEarly
      <4> QED
        BY <4>1, <4>2, <4>3 DEF Releasing, MethodUses, Needed, Optional
    <3>3. CASE state = "unregistering"
      <4>1. m = "own" /\ owned = {"browser"}
        BY <3>3 DEF ShellInv, PluginFits, Unregistering
      <4>2. ReleasedEarly = {"application", "cookieJar"}
        BY <3>3 DEF ReleasedEarly
      <4> QED
        BY <4>1, <4>2 DEF MethodUses
    <3> QED
      BY <3>1, <3>2, <3>3 DEF ShellInv, PluginFits, Down, ComingUp, ComingDown
  <2>3. clients \cap Metrics({"IWebBrowser", "IStateControl"}) # {} => observers = "observes"
    BY NothingHeld DEF ShellInv, ObserverFits
  <2>4. state \in {"deactivated", "activating", "active", "deactivating"} =>
          pointers \ {"service"} = owned
    BY DEF ShellInv, PluginFits, Down, ComingUp, Up
  <2> QED
    BY <2>1, <2>2, <2>3, <2>4 DEF CallbacksFindTheirTarget
<1> QED
  BY <1>1, ShellKept, PTL

(* The plugin's is the last reference when Deinitialize lets go of the     *)
(* browser, and a failed Initialize leaves none, unless an exception ended *)
(* an Activated of the observer.                                           *)
THEOREM NothingIsLeftBehind == ShellSpec => []LastReference
<1>1. ShellInv => LastReference
  <2> SUFFICES ASSUME ShellInv, ~threw PROVE
         /\ state \in {"deinitializing", "deactivated"} =>
              observed = {} /\ refs = [metrics |-> 0, lost |-> 0]
         /\ state = "deinitializing" => owned = {"browser"}
         /\ state = "deactivated" => owned = {} /\ pointers = {} /\ "plugin" \notin sinks
    BY DEF LastReference
  <2>1. refs \in [Holders -> Int] /\ refs["lost"] = 0
    BY DEF ShellInv, RefsTypeOK, ObserverFits
  <2>2. refs = [metrics |-> refs["metrics"], lost |-> refs["lost"]]
    BY <2>1 DEF Holders
  <2>3. state \in {"deinitializing", "deactivated"} => observed = {} /\ refs["metrics"] = 0
    BY NothingHeld DEF ShellInv, ObserverFits
  <2> QED
    BY <2>1, <2>2, <2>3 DEF ShellInv, PluginFits, ComingDown, Down
<1> QED
  BY <1>1, ShellKept, PTL

-----------------------------------------------------------------------------
(* The loads on their own.                                                 *)
LoadSpec == LoadInit /\ [][LoadNext]_loadVars

Sent == [kind : {"started", "response", "finished", "failed", "cancelled"}, load : Nat]
Ordered == [kind : {"load", "use"}, load : Nat]
Phases == {"idle", "requested", "deciding", "receiving"}
Is(m, kind, i) == m.kind = kind /\ m.load = i

LoadTypeOK ==
    /\ pages \in Seq(Pages)
    /\ toProcess \in Seq(Ordered) /\ wire \in Seq(Sent)
    /\ process \in [load : Nat, phase : Phases]
    /\ view.newest \in Nat /\ status \in {"none", "some"}

(* Only loads that were asked for are talked about.                        *)
Numbered ==
    /\ view.newest <= Len(pages) /\ process.load <= Len(pages)
    /\ \A q \in 1..Len(toProcess) : toProcess[q].load \in 1..Len(pages)
    /\ \A q \in 1..Len(wire) : wire[q].load \in 1..Len(pages)
    /\ process.phase # "idle" => process.load \in 1..Len(pages)
    /\ process.phase \in {"deciding", "receiving"} => OfHttp(process.load)

(* A load the web process has yet to take was never heard of.              *)
Fresh ==
    \A q \in 1..Len(toProcess) : toProcess[q].kind = "load" =>
        /\ toProcess[q].load # process.load
        /\ \A p \in 1..Len(wire) : wire[p].load # toProcess[q].load
        /\ \A p \in 1..Len(toProcess) : p # q => toProcess[p].load # toProcess[q].load

(* A load that waits for an answer has none, one that is decided on sends  *)
(* nothing more until it is, and the decision reaches it, if at all, when  *)
(* all it has sent has arrived.                                            *)
Asks ==
    process.phase = "requested" =>
        /\ \A q \in 1..Len(toProcess) : ~Is(toProcess[q], "use", process.load)
        /\ \A p \in 1..Len(wire) : ~Is(wire[p], "response", process.load)
Waits ==
    process.phase = "deciding" =>
        \A p \in 1..Len(wire) : Is(wire[p], "response", process.load) => p = Len(wire)
Uses ==
    process.phase = "deciding" =>
        \A q \in 1..Len(toProcess) : Is(toProcess[q], "use", process.load) => wire = <<>>
Receives == process.phase = "receiving" => wire = <<>>
OfHttpEnd(p) == wire[p].kind = "finished" /\ OfHttp(wire[p].load)
EndComesFirst == \A p \in 1..Len(wire) : OfHttpEnd(p) => p = 1

(* The load the view waits for is on its way to the web process, behind    *)
(* all others, or has started there.                                       *)
Ahead(q) ==
    \E r \in 1..Len(toProcess) : r >= q /\ Is(toProcess[r], "load", view.newest)
StartedThere == \E p \in 1..Len(wire) : Is(wire[p], "started", view.newest)
Awaited ==
    /\ view.pending => Ahead(1) \/ StartedThere
    /\ \A q \in 1..Len(toProcess) : toProcess[q].kind = "load" => view.pending /\ Ahead(q)

(* The last load that started is that of the web process.                  *)
Later(p) == \E r \in 1..Len(wire) : r > p /\ wire[r].kind = "started"
Newest ==
    /\ \A p \in 1..Len(wire) :
         wire[p].kind = "started" => wire[p].load = process.load \/ Later(p)
    /\ view.pending \/ process.load = view.newest \/ Later(0)

(* The end of a load on its way is that of the last load that started      *)
(* before it: of the newest load the view knows of, when none did, unless  *)
(* the view waits for one it asked for.                                    *)
Between(r, p) == \E s \in 1..Len(wire) : r < s /\ s < p /\ wire[s].kind = "started"
IsEnd(p) == wire[p].kind \in {"finished", "failed"}
EndsInOrder ==
    \A p \in 1..Len(wire) : IsEnd(p) =>
       /\ \A r \in 1..Len(wire) : r < p /\ wire[r].kind = "started" =>
            wire[r].load = wire[p].load \/ Between(r, p)
       /\ view.pending \/ wire[p].load = view.newest \/ Between(0, p)

(* When another load was asked for, no answer counts of an http page whose *)
(* end is on its way.                                                      *)
EndFits ==
    view.pending /\ status # "none" =>
         /\ \A p \in 1..Len(wire) : ~OfHttpEnd(p)
         /\ process.phase # "receiving"
         /\ process.phase = "deciding" =>
              \A q \in 1..Len(toProcess) : Is(toProcess[q], "use", process.load) =>
                 \E r \in 1..Len(toProcess) : r < q /\ Is(toProcess[r], "load", view.newest)

LoadInv ==
    /\ LoadTypeOK /\ Numbered /\ Fresh /\ Asks /\ Waits /\ Uses /\ Receives /\ EndComesFirst
    /\ Awaited /\ Newest /\ EndsInOrder /\ EndFits

-----------------------------------------------------------------------------
(* The same of queues, said of the queue before and after.                 *)
Grows(s, t, e) ==
    /\ Len(s) \in Nat /\ Len(t) = Len(s) + 1
    /\ \A q \in 1..Len(s) : q \in 1..Len(t) /\ t[q] = s[q] /\ q < Len(t)
    /\ Len(t) \in 1..Len(t) /\ t[Len(t)] = e
    /\ \A q \in 1..Len(t) : q \in 1..Len(s) \/ q = Len(t)

Shrinks(s, t) ==
    /\ Len(t) \in Nat /\ Len(s) = Len(t) + 1
    /\ \A q \in 1..Len(t) : q + 1 \in 1..Len(s) /\ t[q] = s[q + 1]
    /\ \A q \in 1..Len(s) : q # 1 => q - 1 \in 1..Len(t) /\ t[q - 1] = s[q]
    /\ 1 \in 1..Len(s) /\ Head(s) = s[1]
    /\ Len(s) = 1 => t = <<>>

LEMMA AppendGrows ==
  ASSUME NEW S, NEW s \in Seq(S), NEW e \in S, NEW t, t = Append(s, e)
  PROVE  t \in Seq(S) /\ Grows(s, t, e)
<1>1. /\ t \in Seq(S) /\ Len(t) = Len(s) + 1 /\ Len(s) \in Nat
      /\ \A i \in 1..Len(s) : t[i] = s[i]
      /\ t[Len(s) + 1] = e
  BY Joined
<1>2. /\ \A q \in 1..Len(s) : q \in 1..Len(t) /\ q < Len(t)
      /\ Len(t) \in 1..Len(t)
      /\ \A q \in 1..Len(t) : q \in 1..Len(s) \/ q = Len(t)
  BY <1>1
<1> QED
  BY <1>1, <1>2 DEF Grows

LEMMA TailShrinks ==
  ASSUME NEW S, NEW s \in Seq(S), s # <<>>, NEW t, t = Tail(s)
  PROVE  t \in Seq(S) /\ Shrinks(s, t) /\ Head(s) \in S
<1>1. /\ t \in Seq(S) /\ Len(s) \in Nat \ {0} /\ Len(t) = Len(s) - 1
      /\ \A i \in 1..(Len(s) - 1) : t[i] = s[i + 1]
      /\ Head(s) = s[1] /\ Head(s) \in S
  BY Left
<1>2. /\ Len(t) \in Nat /\ Len(s) = Len(t) + 1 /\ 1 \in 1..Len(s)
      /\ \A q \in 1..Len(t) : q \in 1..(Len(s) - 1) /\ q + 1 \in 1..Len(s)
      /\ \A q \in 1..Len(s) : q # 1 => /\ q - 1 \in 1..Len(t) /\ q - 1 \in 1..(Len(s) - 1)
                                       /\ (q - 1) + 1 = q
  BY <1>1
<1>3. Len(s) = 1 => t = <<>>
  BY <1>1
<1> QED
  BY <1>1, <1>2, <1>3 DEF Shrinks

LEMMA OfMessages ==
  /\ \A kind, i : Message(kind, i).kind = kind /\ Message(kind, i).load = i
  /\ \A kind \in {"load", "use"}, i \in Nat : Message(kind, i) \in Ordered
  /\ \A kind \in {"started", "response", "finished", "failed", "cancelled"}, i \in Nat :
        Message(kind, i) \in Sent
  BY DEF Message, Ordered, Sent

LEMMA LoadsBegin == LoadInit => LoadInv /\ NoEarlyFinish
<1> SUFFICES ASSUME LoadInit PROVE LoadInv /\ NoEarlyFinish
  OBVIOUS
<1>1. LoadTypeOK /\ Len(wire) = 0 /\ Len(toProcess) = 0 /\ Len(pages) = 0
  BY DEF LoadInit, LoadTypeOK, Phases
<1>2. 1..0 = {}
  OBVIOUS
<1>3. Numbered /\ Fresh /\ Asks /\ Waits /\ Uses /\ Receives /\ EndComesFirst
  BY <1>1, <1>2 DEF LoadInit, Numbered, Fresh, Asks, Waits, Uses, Receives, EndComesFirst
<1>4. Awaited /\ Newest /\ EndsInOrder /\ EndFits
  BY <1>1, <1>2 DEF LoadInit, Awaited, Newest, EndsInOrder, EndFits
<1>5. NoEarlyFinish
  BY DEF LoadInit, NoEarlyFinish
<1> QED
  BY <1>1, <1>3, <1>4, <1>5 DEF LoadInv

(* A load the view asks for is behind all others, and no answer counts.    *)
LEMMA SetURLFits ==
  ASSUME NEW p \in Pages, LoadInv, SetURL(p)
  PROVE  LoadInv'
<1>1. PICK n, t1, pg1 : n = Len(pages) + 1 /\ t1 = toProcess' /\ pg1 = pages'
  OBVIOUS
<1>2. /\ pg1 = Append(pages, p) /\ Len(pg1) = n /\ n \in Nat /\ Len(pages) \in Nat
      /\ pg1 \in Seq(Pages) /\ \A i \in 1..Len(pages) : pg1[i] = pages[i]
  BY <1>1, Joined DEF SetURL, LoadInv, LoadTypeOK
<1>3. /\ view' = [uri |-> p, newest |-> n, pending |-> TRUE]
      /\ t1 = Append(toProcess, Message("load", n)) /\ status' = "none"
      /\ UNCHANGED <<process, wire>>
  BY <1>1, <1>2 DEF SetURL
<1>4. t1 \in Seq(Ordered) /\ Grows(toProcess, t1, Message("load", n))
  BY <1>2, <1>3, AppendGrows, OfMessages DEF LoadInv, LoadTypeOK
<1>5. Is(t1[Len(t1)], "load", n)
  BY <1>4, OfMessages DEF Grows, Is
<1>6. LoadTypeOK'
  BY <1>1, <1>2, <1>3, <1>4 DEF LoadInv, LoadTypeOK
<1>7. /\ \A i \in 1..Len(pages) : i \in 1..n /\ i # n
      /\ n \in 1..n /\ process.load # n /\ process.load <= n /\ n <= n
  BY <1>2 DEF LoadInv, Numbered, LoadTypeOK
<1>8. Numbered'
  BY <1>1, <1>2, <1>3, <1>4, <1>5, <1>7 DEF LoadInv, Numbered, OfHttp, Grows, Is
<1>9. Fresh'
  BY <1>1, <1>3, <1>4, <1>5, <1>7 DEF LoadInv, Numbered, Fresh, Grows, Is
<1>10. Asks' /\ Waits' /\ Uses' /\ Receives'
  BY <1>1, <1>3, <1>4, <1>5 DEF LoadInv, Asks, Waits, Uses, Receives, Grows, Is
<1>11. EndComesFirst'
  BY <1>1, <1>2, <1>3 DEF LoadInv, EndComesFirst, OfHttpEnd, OfHttp, Numbered
<1>12. Awaited'
  <2>1. \A q \in 1..Len(t1) : Ahead(q)'
    BY <1>1, <1>3, <1>4, <1>5 DEF Ahead, Grows, Is
  <2>2. 1 \in 1..Len(t1)
    BY <1>4 DEF Grows
  <2> QED
    BY <1>1, <1>3, <2>1, <2>2 DEF Awaited, Ahead
<1>13. Newest' /\ EndFits'
  BY <1>3 DEF LoadInv, Newest, EndFits, Later
<1>14. EndsInOrder'
  BY <1>3 DEF LoadInv, EndsInOrder, IsEnd, Between
<1> QED
  BY <1>6, <1>8, <1>9, <1>10, <1>11, <1>12, <1>13, <1>14 DEF LoadInv

(* A load begins in the web process: what it sends for that comes last on  *)
(* the wire.                                                               *)
Begins(i, w) ==
    /\ \A p \in 1..Len(wire) : p \in 1..Len(w) /\ w[p] = wire[p]
    /\ \A p \in 1..Len(w) : \/ p \in 1..Len(wire)
                            \/ Is(w[p], "cancelled", process.load) /\ process.phase # "idle"
                            \/ p = Len(w) /\ Is(w[p], "started", i)
    /\ Len(w) \in 1..Len(w) /\ Is(w[Len(w)], "started", i)
    /\ \A p \in 1..Len(w) : p # Len(w) => p < Len(w)
    /\ Len(w) > 0

LEMMA StartLoadBegins ==
  ASSUME NEW i \in Nat, LoadInv, StartLoad(i)
  PROVE  /\ process' = [load |-> i, phase |-> "requested"]
         /\ wire' \in Seq(Sent) /\ Begins(i, wire')
<1>1. PICK w : w = wire'
  OBVIOUS
<1>2. wire \in Seq(Sent) /\ process.load \in Nat
  BY DEF LoadInv, LoadTypeOK
<1>3. /\ process' = [load |-> i, phase |-> "requested"]
      /\ w = wire \o (IF process.phase = "idle" THEN <<>>
                      ELSE <<Message("cancelled", process.load)>>)
                  \o <<Message("started", i)>>
  BY <1>1 DEF StartLoad
<1>4. Message("cancelled", process.load) \in Sent /\ Message("started", i) \in Sent
  BY <1>2, OfMessages
<1>5. CASE process.phase = "idle"
  <2>1. w = Append(wire, Message("started", i))
    BY <1>2, <1>3, <1>4, <1>5
  <2>2. w \in Seq(Sent) /\ Grows(wire, w, Message("started", i))
    BY <2>1, <1>2, <1>4, AppendGrows
  <2>3. \A p \in 1..Len(w) : p # Len(w) => p < Len(w)
    BY <2>2 DEF Grows
  <2>4. Len(w) > 0
    BY <2>2 DEF Grows
  <2>5. Begins(i, w)
    BY <2>2, <2>3, <2>4, OfMessages DEF Grows, Begins, Is
  <2> QED
    BY <1>1, <1>3, <2>2, <2>5
<1>6. CASE process.phase # "idle"
  <2>1. PICK m : m = Append(wire, Message("cancelled", process.load))
    OBVIOUS
  <2>2. w = Append(m, Message("started", i))
    BY <1>2, <1>3, <1>4, <1>6, <2>1
  <2>3. m \in Seq(Sent) /\ Grows(wire, m, Message("cancelled", process.load))
    BY <2>1, <1>2, <1>4, AppendGrows
  <2>4. w \in Seq(Sent) /\ Grows(m, w, Message("started", i))
    BY <2>2, <2>3, <1>4, AppendGrows
  <2>5. \A p \in 1..Len(w) : p # Len(w) => p < Len(w)
    BY <2>4 DEF Grows
  <2>6. Len(w) > 0
    BY <2>4 DEF Grows
  <2>7. Is(m[Len(m)], "cancelled", process.load) /\ Is(w[Len(w)], "started", i)
    BY <2>3, <2>4, OfMessages DEF Grows, Is
  <2>8. \A p \in 1..Len(wire) : p \in 1..Len(w) /\ w[p] = wire[p]
    BY <2>3, <2>4 DEF Grows
  <2>9. \A p \in 1..Len(w) : \/ p \in 1..Len(wire)
                             \/ Is(w[p], "cancelled", process.load)
                             \/ p = Len(w) /\ Is(w[p], "started", i)
    BY <2>3, <2>4, <2>7 DEF Grows
  <2>10. Begins(i, w)
    BY <1>6, <2>4, <2>5, <2>6, <2>7, <2>8, <2>9 DEF Grows, Begins
  <2> QED
    BY <1>1, <1>3, <2>4, <2>10
<1> QED
  BY <1>5, <1>6

LEMMA EndsStayInOrder ==
  ASSUME NEW i, LoadInv, Begins(i, wire'), UNCHANGED view
  PROVE  EndsInOrder'
<1> SUFFICES ASSUME NEW p \in 1..Len(wire'), IsEnd(p)'
             PROVE  /\ \A r \in 1..Len(wire') : r < p /\ wire'[r].kind = "started" =>
                         wire'[r].load = wire'[p].load \/ Between(r, p)'
                    /\ view.pending \/ wire'[p].load = view.newest \/ Between(0, p)'
  BY DEF EndsInOrder
<1>1. p \in 1..Len(wire) /\ wire'[p] = wire[p] /\ IsEnd(p)
  BY DEF Begins, Is, IsEnd
<1>2. \A r : Between(r, p) => Between(r, p)'
  BY DEF Begins, Between
<1>3. \A r \in 1..Len(wire') : r < p => r \in 1..Len(wire) /\ wire'[r] = wire[r]
  <2>1. Len(wire) \in Nat
    BY DEF LoadInv, LoadTypeOK
  <2>2. \A r \in 1..Len(wire') : r < p => r \in 1..Len(wire)
    BY <1>1, <2>1
  <2> QED
    BY <2>2 DEF Begins
<1> QED
  BY <1>1, <1>2, <1>3 DEF LoadInv, EndsInOrder

LEMMA TakeLoadFits == LoadInv /\ TakeLoad => LoadInv'
<1> SUFFICES ASSUME LoadInv, TakeLoad PROVE LoadInv'
  OBVIOUS
<1>1. PICK i, t1, w1 : i = Head(toProcess).load /\ t1 = toProcess' /\ w1 = wire'
  OBVIOUS
<1>2. t1 \in Seq(Ordered) /\ Shrinks(toProcess, t1) /\ i \in Nat
  <2>1. t1 \in Seq(Ordered) /\ Shrinks(toProcess, t1) /\ Head(toProcess) \in Ordered
    BY <1>1, TailShrinks DEF TakeLoad, LoadInv, LoadTypeOK
  <2> QED
    BY <2>1, <1>1 DEF Ordered
<1>3. Is(toProcess[1], "load", i) /\ 1 \in 1..Len(toProcess)
  BY <1>1, <1>2 DEF TakeLoad, Shrinks, Is
<1>4. /\ UNCHANGED <<pages, view, status>>
      /\ process' = [load |-> i, phase |-> "requested"]
      /\ w1 \in Seq(Sent) /\ Begins(i, w1)
  BY <1>1, <1>2, StartLoadBegins DEF TakeLoad, browserVars
<1>5. LoadTypeOK'
  BY <1>1, <1>2, <1>4 DEF LoadInv, LoadTypeOK, Phases
<1>6. /\ i \in 1..Len(pages) /\ i # process.load
      /\ \A p \in 1..Len(wire) : wire[p].load # i
      /\ \A q \in 1..Len(t1) : t1[q].load # i
  <2>1. \A q \in 1..Len(t1) : q + 1 # 1
    BY <1>2 DEF Shrinks
  <2> QED
    BY <1>2, <1>3, <2>1 DEF LoadInv, Numbered, Fresh, Is, Shrinks
<1>7. Numbered'
  <2>1. i <= Len(pages)
    BY <1>6 DEF LoadInv, LoadTypeOK
  <2> QED
    BY <1>1, <1>2, <1>4, <1>6, <2>1 DEF LoadInv, Numbered, Shrinks, Begins, Is
<1>8. Fresh'
  <2> SUFFICES ASSUME NEW q \in 1..Len(t1), t1[q].kind = "load"
               PROVE  /\ t1[q].load # i
                      /\ \A p \in 1..Len(w1) : w1[p].load # t1[q].load
                      /\ \A p \in 1..Len(t1) : p # q => t1[p].load # t1[q].load
    BY <1>1, <1>4 DEF Fresh
  <2>1. \A p \in 1..Len(t1) : p # q => p + 1 # q + 1
    BY <1>2 DEF Shrinks
  <2>2. /\ t1[q].load # process.load
        /\ \A p \in 1..Len(wire) : wire[p].load # t1[q].load
        /\ \A p \in 1..Len(t1) : p # q => t1[p].load # t1[q].load
    <3>1. PICK o \in 1..Len(toProcess) : o = q + 1 /\ toProcess[o] = t1[q]
      BY <1>2 DEF Shrinks
    <3>2. /\ toProcess[o].load # process.load
          /\ \A p \in 1..Len(wire) : wire[p].load # toProcess[o].load
          /\ \A p \in 1..Len(toProcess) : p # o => toProcess[p].load # toProcess[o].load
      BY <3>1 DEF LoadInv, Fresh
    <3>3. \A p \in 1..Len(t1) : p # q => t1[p].load # t1[q].load
      BY <2>1, <3>1, <3>2, <1>2 DEF Shrinks
    <3> QED
      BY <3>1, <3>2, <3>3
  <2> QED
    BY <1>4, <1>6, <2>2 DEF Begins, Is
<1>9. Asks' /\ Waits' /\ Uses' /\ Receives'
  BY <1>1, <1>4, <1>6 DEF Asks, Waits, Uses, Receives, Begins, Is
<1>10. EndComesFirst'
  BY <1>1, <1>4 DEF LoadInv, EndComesFirst, OfHttpEnd, OfHttp, Begins, Is
<1>11. Awaited'
  <2>1. view.pending => Ahead(1)' \/ StartedThere'
    <3>1. CASE Ahead(1)
      <4>1. PICK r \in 1..Len(toProcess) : Is(toProcess[r], "load", view.newest)
        BY <3>1 DEF Ahead
      <4>2. CASE r = 1
        BY <4>1, <4>2, <1>1, <1>3, <1>4 DEF StartedThere, Begins, Is
      <4>3. CASE r # 1
        <5>1. r - 1 \in 1..Len(t1) /\ t1[r - 1] = toProcess[r] /\ r - 1 >= 1
          BY <4>3, <1>2 DEF Shrinks
        <5> QED
          BY <5>1, <4>1, <1>1, <1>4 DEF Ahead
      <4> QED
        BY <4>2, <4>3
    <3>2. CASE StartedThere
      BY <3>2, <1>1, <1>4 DEF StartedThere, Begins
    <3> QED
      BY <3>1, <3>2 DEF LoadInv, Awaited
  <2>2. ASSUME NEW q \in 1..Len(t1), t1[q].kind = "load"
        PROVE  view.pending /\ Ahead(q)'
    <3>1. view.pending /\ Ahead(q + 1)
      BY <2>2, <1>2 DEF LoadInv, Awaited, Shrinks
    <3>2. PICK r \in 1..Len(toProcess) : r >= q + 1 /\ Is(toProcess[r], "load", view.newest)
      BY <3>1 DEF Ahead
    <3>3. r # 1 /\ r - 1 >= q
      BY <3>2
    <3>4. r - 1 \in 1..Len(t1) /\ t1[r - 1] = toProcess[r]
      BY <3>3, <1>2 DEF Shrinks
    <3> QED
      BY <3>1, <3>2, <3>3, <3>4, <1>1, <1>4 DEF Ahead
  <2> QED
    BY <2>1, <2>2, <1>1, <1>4 DEF Awaited
<1>12. Newest'
  <2>1. Later(0)' /\ \A p \in 1..Len(w1) : p # Len(w1) => Later(p)'
    BY <1>1, <1>4 DEF Later, Begins, Is
  <2> QED
    BY <2>1, <1>1, <1>4 DEF Newest, Begins, Is
<1>13. EndFits'
  <2>1. \A p \in 1..Len(w1) : OfHttpEnd(p)' => p \in 1..Len(wire) /\ w1[p] = wire[p]
    BY <1>1, <1>4 DEF OfHttpEnd, OfHttp, Begins, Is
  <2>2. \A p \in 1..Len(w1) : OfHttpEnd(p)' => OfHttpEnd(p)
    BY <2>1, <1>1, <1>4 DEF OfHttpEnd, OfHttp
  <2> QED
    BY <2>1, <2>2, <1>1, <1>4 DEF LoadInv, EndFits
<1>14. EndsInOrder'
  BY <1>1, <1>4, EndsStayInOrder
<1> QED
  BY <1>5, <1>7, <1>8, <1>9, <1>10, <1>11, <1>12, <1>13, <1>14 DEF LoadInv

LEMMA NavigateFits ==
  ASSUME NEW p \in HttpPages, LoadInv, Navigate(p)
  PROVE  LoadInv'
<1>1. PICK n, w1, pg1 : n = Len(pages) + 1 /\ w1 = wire' /\ pg1 = pages'
  OBVIOUS
<1>2. /\ pg1 = Append(pages, p) /\ Len(pg1) = n /\ n \in Nat /\ Len(pages) \in Nat
      /\ pg1 \in Seq(Pages) /\ \A i \in 1..Len(pages) : pg1[i] = pages[i]
  BY <1>1, Joined DEF Navigate, LoadInv, LoadTypeOK, Pages
<1>3. /\ UNCHANGED <<toProcess, view, status>>
      /\ process' = [load |-> n, phase |-> "requested"]
      /\ w1 \in Seq(Sent) /\ Begins(n, w1)
  BY <1>1, <1>2, StartLoadBegins DEF Navigate, browserVars
<1>4. LoadTypeOK'
  BY <1>1, <1>2, <1>3 DEF LoadInv, LoadTypeOK, Phases
<1>5. /\ \A i \in 1..Len(pages) : i \in 1..n /\ i # n
      /\ n \in 1..n /\ n <= n
      /\ \A i \in Nat : i <= Len(pages) => i <= n
      /\ process.load # n
  BY <1>2 DEF LoadInv, Numbered, LoadTypeOK
<1>6. /\ \A q \in 1..Len(wire) : wire[q].load # n
      /\ \A q \in 1..Len(toProcess) : toProcess[q].load # n
  BY <1>5 DEF LoadInv, Numbered
<1>7. Numbered'
  BY <1>1, <1>2, <1>3, <1>5 DEF LoadInv, LoadTypeOK, Numbered, Begins, Is
<1>8. Fresh'
  <2> SUFFICES ASSUME NEW q \in 1..Len(toProcess), toProcess[q].kind = "load"
               PROVE  /\ toProcess[q].load # n
                      /\ \A o \in 1..Len(w1) : w1[o].load # toProcess[q].load
                      /\ \A o \in 1..Len(toProcess) :
                            o # q => toProcess[o].load # toProcess[q].load
    BY <1>1, <1>3 DEF Fresh
  <2>1. /\ toProcess[q].load # process.load
        /\ \A o \in 1..Len(wire) : wire[o].load # toProcess[q].load
        /\ \A o \in 1..Len(toProcess) : o # q => toProcess[o].load # toProcess[q].load
    BY DEF LoadInv, Fresh
  <2>2. \A o \in 1..Len(w1) : w1[o].load # toProcess[q].load
    BY <1>3, <1>6, <2>1 DEF Begins, Is
  <2> QED
    BY <1>6, <2>1, <2>2
<1>9. Asks' /\ Waits' /\ Uses' /\ Receives'
  BY <1>1, <1>3, <1>6 DEF Asks, Waits, Uses, Receives, Begins, Is
<1>10. \A q \in 1..Len(w1) : OfHttpEnd(q)' => q \in 1..Len(wire) /\ w1[q] = wire[q]
  BY <1>1, <1>3 DEF OfHttpEnd, OfHttp, Begins, Is
<1>11. \A q \in 1..Len(w1) : OfHttpEnd(q)' => OfHttpEnd(q)
  BY <1>10, <1>1, <1>2, <1>3 DEF OfHttpEnd, OfHttp, LoadInv, Numbered
<1>12. EndComesFirst'
  BY <1>10, <1>11, <1>1 DEF LoadInv, EndComesFirst
<1>13. Awaited'
  BY <1>1, <1>3 DEF LoadInv, Awaited, Ahead, StartedThere, Begins
<1>14. Newest'
  <2>1. Later(0)' /\ \A q \in 1..Len(w1) : q # Len(w1) => Later(q)'
    BY <1>1, <1>3 DEF Later, Begins, Is
  <2> QED
    BY <2>1, <1>1, <1>3 DEF Newest, Begins, Is
<1>15. EndFits'
  BY <1>10, <1>11, <1>1, <1>3 DEF LoadInv, EndFits
<1>16. EndsInOrder'
  BY <1>1, <1>3, EndsStayInOrder
<1> QED
  BY <1>4, <1>7, <1>8, <1>9, <1>12, <1>13, <1>14, <1>15, <1>16 DEF LoadInv

LEMMA TakeUseFits == LoadInv /\ TakeUse => LoadInv'
<1> SUFFICES ASSUME LoadInv, TakeUse PROVE LoadInv'
  OBVIOUS
<1>1. PICK i, t1 : i = Head(toProcess).load /\ t1 = toProcess'
  OBVIOUS
<1>2. t1 \in Seq(Ordered) /\ Shrinks(toProcess, t1) /\ i \in Nat
  <2>1. t1 \in Seq(Ordered) /\ Shrinks(toProcess, t1) /\ Head(toProcess) \in Ordered
    BY <1>1, TailShrinks DEF TakeUse, LoadInv, LoadTypeOK
  <2> QED
    BY <2>1, <1>1 DEF Ordered
<1>3. /\ Is(toProcess[1], "use", i) /\ 1 \in 1..Len(toProcess)
      /\ UNCHANGED <<pages, view, status, wire>>
  BY <1>1, <1>2 DEF TakeUse, browserVars, Shrinks, Is
<1>4. \/ process' = process
      \/ /\ process.load = i /\ process.phase = "deciding" /\ wire = <<>>
         /\ process' = [load |-> i, phase |-> "receiving"]
  <2>1. process' = IF process = [load |-> i, phase |-> "deciding"]
                   THEN [process EXCEPT !.phase = "receiving"] ELSE process
    BY <1>1 DEF TakeUse
  <2>2. CASE process = [load |-> i, phase |-> "deciding"]
    <3>1. process.load = i /\ process.phase = "deciding"
      BY <2>2
    <3>2. process' = [load |-> i, phase |-> "receiving"]
      BY <2>1, <2>2
    <3>3. wire = <<>>
      BY <3>1, <1>3 DEF LoadInv, Uses, Is
    <3> QED
      BY <3>1, <3>2, <3>3
  <2> QED
    BY <2>1, <2>2
<1>5. process'.load = process.load /\ process' \in [load : Nat, phase : Phases]
  BY <1>2, <1>4 DEF LoadInv, LoadTypeOK, Phases
<1>6. LoadTypeOK'
  BY <1>1, <1>2, <1>3, <1>5 DEF LoadInv, LoadTypeOK
<1>7. Numbered'
  BY <1>1, <1>2, <1>3, <1>4 DEF LoadInv, Numbered, OfHttp, Shrinks
<1>8. Fresh'
  <2> SUFFICES ASSUME NEW q \in 1..Len(t1), t1[q].kind = "load"
               PROVE  /\ t1[q].load # process.load
                      /\ \A p \in 1..Len(wire) : wire[p].load # t1[q].load
                      /\ \A p \in 1..Len(t1) : p # q => t1[p].load # t1[q].load
    BY <1>1, <1>3, <1>5 DEF Fresh
  <2>1. PICK o \in 1..Len(toProcess) : o = q + 1 /\ toProcess[o] = t1[q]
    BY <1>2 DEF Shrinks
  <2>2. /\ toProcess[o].load # process.load
        /\ \A p \in 1..Len(wire) : wire[p].load # toProcess[o].load
        /\ \A p \in 1..Len(toProcess) : p # o => toProcess[p].load # toProcess[o].load
    BY <2>1 DEF LoadInv, Fresh
  <2>3. \A p \in 1..Len(t1) : p # q => p + 1 # o
    BY <2>1, <1>2 DEF Shrinks
  <2>4. \A p \in 1..Len(t1) : p # q => t1[p].load # t1[q].load
    BY <2>1, <2>2, <2>3, <1>2 DEF Shrinks
  <2> QED
    BY <2>1, <2>2, <2>4
<1>9. Asks' /\ Waits' /\ Uses' /\ Receives'
  BY <1>1, <1>2, <1>3, <1>4 DEF LoadInv, Asks, Waits, Uses, Receives, Shrinks
<1>10. EndComesFirst'
  BY <1>3 DEF LoadInv, EndComesFirst, OfHttpEnd, OfHttp
<1>11. Awaited'
  <2>1. ASSUME NEW q \in Nat, Ahead(q + 1) PROVE Ahead(q)'
    <3>1. PICK r \in 1..Len(toProcess) : r >= q + 1 /\ Is(toProcess[r], "load", view.newest)
      BY <2>1 DEF Ahead
    <3>2. r # 1
      BY <3>1, <1>3 DEF Is
    <3>3. r - 1 \in 1..Len(t1) /\ t1[r - 1] = toProcess[r] /\ r - 1 >= q
      BY <3>1, <3>2, <1>2 DEF Shrinks
    <3> QED
      BY <3>1, <3>3, <1>1, <1>3 DEF Ahead
  <2>2. Ahead(1) => Ahead(1)'
    <3> SUFFICES ASSUME Ahead(1) PROVE Ahead(1)'
      OBVIOUS
    <3>1. PICK r \in 1..Len(toProcess) : Is(toProcess[r], "load", view.newest)
      BY DEF Ahead
    <3>2. r # 1
      BY <3>1, <1>3 DEF Is
    <3>3. r - 1 \in 1..Len(t1) /\ t1[r - 1] = toProcess[r] /\ r - 1 >= 1
      BY <3>1, <3>2, <1>2 DEF Shrinks
    <3> QED
      BY <3>1, <3>3, <1>1, <1>3 DEF Ahead
  <2>3. ASSUME NEW q \in 1..Len(t1), t1[q].kind = "load"
        PROVE  view.pending /\ Ahead(q)'
    BY <2>1, <2>3, <1>2 DEF LoadInv, Awaited, Shrinks
  <2> QED
    BY <2>2, <2>3, <1>1, <1>3 DEF LoadInv, Awaited, StartedThere
<1>12. Newest'
  BY <1>3, <1>5 DEF LoadInv, Newest, Later
<1>13. EndFits'
  <2>1. \A p \in 1..Len(wire) : OfHttpEnd(p)' <=> OfHttpEnd(p)
    BY <1>3 DEF OfHttpEnd, OfHttp
  <2>2. ASSUME view.pending, status # "none"
        PROVE  process' = process
    <3>1. ASSUME process.phase = "deciding", process.load = i PROVE FALSE
      <4>1. PICK r \in 1..Len(toProcess) : r < 1
        BY <2>2, <3>1, <1>3 DEF LoadInv, EndFits, Is
      <4> QED
        BY <4>1
    <3> QED
      BY <3>1, <1>4
  <2>3. ASSUME view.pending, status # "none", process.phase = "deciding",
               NEW q \in 1..Len(t1), Is(t1[q], "use", process.load)
        PROVE  \E r \in 1..Len(t1) : r < q /\ Is(t1[r], "load", view.newest)
    <3>1. PICK r \in 1..Len(toProcess) : r < q + 1 /\ Is(toProcess[r], "load", view.newest)
      BY <2>3, <1>2 DEF LoadInv, EndFits, Shrinks
    <3>2. r # 1
      BY <3>1, <1>3 DEF Is
    <3>3. r - 1 \in 1..Len(t1) /\ t1[r - 1] = toProcess[r] /\ r - 1 < q
      BY <3>1, <3>2, <1>2 DEF Shrinks
    <3> QED
      BY <3>1, <3>3
  <2> QED
    BY <2>1, <2>2, <2>3, <1>1, <1>3 DEF LoadInv, EndFits
<1>14. EndsInOrder'
  BY <1>3 DEF LoadInv, EndsInOrder, IsEnd, Between
<1> QED
  BY <1>6, <1>7, <1>8, <1>9, <1>10, <1>11, <1>12, <1>13, <1>14 DEF LoadInv

(* What the web process sends of its load.  The end of an http page is     *)
(* sent when nothing else is on the wire.                                  *)
LEMMA SendsFits ==
  ASSUME LoadInv,
         NEW kind \in {"response", "finished", "failed"}, NEW phase \in {"deciding", "idle"},
         Sends(kind, phase), process.phase # "idle",
         kind = "finished" => process.phase = "receiving" \/ ~OfHttp(process.load),
         phase = "deciding" => process.phase = "requested" /\ OfHttp(process.load),
         kind = "response" => phase = "deciding"
  PROVE  LoadInv'
<1>1. PICK w1, n : w1 = wire' /\ n = Len(w1)
  OBVIOUS
<1>2. /\ UNCHANGED <<status, pages, view, toProcess>>
      /\ w1 = Append(wire, Message(kind, process.load))
      /\ process.load \in Nat
      /\ process' = [load |-> process.load, phase |-> phase]
  BY <1>1 DEF Sends, browserVars, LoadInv, LoadTypeOK
<1>3. w1 \in Seq(Sent) /\ Grows(wire, w1, Message(kind, process.load))
  BY <1>2, AppendGrows, OfMessages DEF LoadInv, LoadTypeOK
<1>4. Is(w1[n], kind, process.load)
  BY <1>1, <1>3, OfMessages DEF Grows, Is
<1>5. LoadTypeOK'
  BY <1>1, <1>2, <1>3 DEF LoadInv, LoadTypeOK, Phases
<1>6. Numbered'
  BY <1>1, <1>2, <1>3, <1>4 DEF LoadInv, Numbered, OfHttp, Grows, Is
<1>7. Fresh'
  <2> SUFFICES ASSUME NEW q \in 1..Len(toProcess), toProcess[q].kind = "load"
               PROVE  /\ toProcess[q].load # process.load
                      /\ \A o \in 1..Len(w1) : w1[o].load # toProcess[q].load
                      /\ \A o \in 1..Len(toProcess) :
                            o # q => toProcess[o].load # toProcess[q].load
    BY <1>1, <1>2 DEF Fresh
  <2>1. /\ toProcess[q].load # process.load
        /\ \A o \in 1..Len(wire) : wire[o].load # toProcess[q].load
        /\ \A o \in 1..Len(toProcess) : o # q => toProcess[o].load # toProcess[q].load
    BY DEF LoadInv, Fresh
  <2>2. \A o \in 1..Len(w1) : w1[o].load # toProcess[q].load
    BY <1>1, <1>3, <1>4, <2>1 DEF Grows, Is
  <2> QED
    BY <2>1, <2>2
<1>8. Asks' /\ Receives'
  BY <1>2 DEF Asks, Receives
<1>9. Waits'
  BY <1>1, <1>2, <1>3 DEF LoadInv, Asks, Waits, Grows
<1>10. Uses'
  BY <1>2 DEF LoadInv, Asks, Uses
<1>11. \A p \in 1..Len(wire) : OfHttpEnd(p)' <=> OfHttpEnd(p)
  BY <1>1, <1>2, <1>3 DEF OfHttpEnd, OfHttp, Grows
<1>12. OfHttpEnd(n)' => wire = <<>> /\ n = 1 /\ process.phase = "receiving"
  <2> SUFFICES ASSUME OfHttpEnd(n)' PROVE wire = <<>> /\ n = 1 /\ process.phase = "receiving"
    OBVIOUS
  <2>1. kind = "finished" /\ OfHttp(process.load)
    BY <1>1, <1>2, <1>4 DEF OfHttpEnd, OfHttp, Is
  <2>2. process.phase = "receiving" /\ wire = <<>>
    BY <2>1 DEF LoadInv, Receives
  <2>3. n = 1
    BY <2>2, <1>1, <1>3 DEF Grows
  <2> QED
    BY <2>2, <2>3
<1>13. EndComesFirst'
  BY <1>1, <1>3, <1>11, <1>12 DEF LoadInv, EndComesFirst, Grows
<1>14. Awaited'
  BY <1>1, <1>2, <1>3 DEF LoadInv, Awaited, Ahead, StartedThere, Grows
<1>15. Newest'
  <2>1. \A p : Later(p) => Later(p)'
    BY <1>1, <1>3 DEF Later, Grows
  <2>2. \A p \in 1..Len(w1) : w1[p].kind = "started" => p \in 1..Len(wire) /\ w1[p] = wire[p]
    BY <1>1, <1>3, <1>4 DEF Grows, Is
  <2> QED
    BY <2>1, <2>2, <1>1, <1>2 DEF LoadInv, Newest
<1>16. EndFits'
  <2>2. ASSUME view.pending, status # "none", NEW p \in 1..Len(w1)
        PROVE  ~OfHttpEnd(p)'
    BY <2>2, <1>1, <1>3, <1>11, <1>12 DEF LoadInv, EndFits, Grows
  <2>3. ASSUME phase = "deciding", NEW q \in 1..Len(toProcess)
        PROVE  ~Is(toProcess[q], "use", process.load)
    BY <2>3 DEF LoadInv, Asks
  <2> QED
    BY <2>2, <2>3, <1>1, <1>2 DEF EndFits
<1>17. EndsInOrder'
  <2> SUFFICES ASSUME NEW p \in 1..n, IsEnd(p)'
               PROVE  /\ \A r \in 1..n : r < p /\ w1[r].kind = "started" =>
                           w1[r].load = w1[p].load \/ Between(r, p)'
                      /\ view.pending \/ w1[p].load = view.newest \/ Between(0, p)'
    BY <1>1, <1>2 DEF EndsInOrder
  <2>1. \A r : Between(r, p) => Between(r, p)'
    BY <1>1, <1>3 DEF Grows, Between
  <2>2. Len(wire) \in Nat /\ n = Len(wire) + 1 /\ \A r \in 1..Len(wire) : w1[r] = wire[r]
    BY <1>1, <1>3 DEF Grows
  <2>3. \A r \in 1..n : r < p => r \in 1..Len(wire)
    BY <2>2
  <2>4. CASE p \in 1..Len(wire)
    <3>1. IsEnd(p) /\ w1[p] = wire[p]
      BY <2>2, <2>4, <1>1 DEF IsEnd
    <3> QED
      BY <2>1, <2>2, <2>3, <2>4, <3>1 DEF LoadInv, EndsInOrder
  <2>5. CASE p = n
    <3>1. w1[p].load = process.load
      BY <2>5, <1>4 DEF Is
    <3>2. \A r : Later(r) => Between(r, p)'
      BY <2>2, <2>5, <1>1 DEF Later, Between
    <3> QED
      BY <2>2, <2>3, <3>1, <3>2 DEF LoadInv, Newest
  <2> QED
    BY <2>2, <2>4, <2>5
<1> QED
  BY <1>5, <1>6, <1>7, <1>8, <1>9, <1>10, <1>13, <1>14, <1>15, <1>16, <1>17 DEF LoadInv

-----------------------------------------------------------------------------
(* A message leaves the wire: the load it is of is not one that was        *)
(* decided on, unless it is that decision's answer and the last message.   *)
Delivers ==
    /\ wire # <<>> /\ wire' = Tail(wire)
    /\ UNCHANGED <<pages, process>>

LEMMA AfterDelivery ==
  ASSUME LoadInv, Delivers
  PROVE  /\ wire' \in Seq(Sent) /\ Shrinks(wire, wire') /\ wire[1] \in Sent /\ 1 \in 1..Len(wire)
         /\ process.phase # "receiving"
         /\ process.phase = "deciding" =>
              \A q \in 1..Len(toProcess) : ~Is(toProcess[q], "use", process.load)
         /\ \A p \in 1..Len(wire') : ~OfHttpEnd(p)' /\ wire'[p].load \in 1..Len(pages)
         /\ Waits' /\ Receives' /\ EndComesFirst'
         /\ \A p \in 1..Len(wire') :
              wire'[p].kind = "started" => wire'[p].load = process.load \/ Later(p)'
         /\ wire[1].kind # "started" => (Later(0) => Later(0)')
<1>1. PICK w1 : w1 = wire'
  OBVIOUS
<1>2. w1 \in Seq(Sent) /\ Shrinks(wire, w1) /\ Head(wire) \in Sent
  BY <1>1, TailShrinks DEF Delivers, LoadInv, LoadTypeOK
<1>3. wire[1] \in Sent /\ 1 \in 1..Len(wire)
  BY <1>2 DEF Shrinks
<1>4. /\ process.phase # "receiving"
      /\ process.phase = "deciding" =>
           \A q \in 1..Len(toProcess) : ~Is(toProcess[q], "use", process.load)
  BY DEF LoadInv, Receives, Uses, Delivers
<1>5. \A p \in 1..Len(w1) : p + 1 # 1 /\ p + 1 \in 1..Len(wire) /\ w1[p] = wire[p + 1]
  BY <1>2 DEF Shrinks
<1>6. \A p \in 1..Len(w1) : ~OfHttpEnd(p)'
  <2> SUFFICES ASSUME NEW p \in 1..Len(w1), OfHttpEnd(p)' PROVE FALSE
    BY <1>1
  <2>1. OfHttpEnd(p + 1)
    BY <1>1, <1>5 DEF OfHttpEnd, OfHttp, Delivers
  <2> QED
    BY <2>1, <1>5 DEF LoadInv, EndComesFirst
<1>7. \A p \in 1..Len(w1) : w1[p].load \in 1..Len(pages)
  BY <1>5 DEF LoadInv, Numbered
<1>8. Waits'
  <2> SUFFICES ASSUME process.phase = "deciding",
                      NEW p \in 1..Len(w1), Is(w1[p], "response", process.load)
               PROVE  p = Len(w1)
    BY <1>1 DEF Waits, Delivers
  <2>1. p + 1 = Len(wire)
    BY <1>5 DEF LoadInv, Waits
  <2> QED
    BY <2>1, <1>2 DEF Shrinks
<1>9. ASSUME NEW p \in Nat, NEW o \in Nat, o = p + 1, Later(o) PROVE Later(p)'
  <2>1. PICK r \in 1..Len(wire) : r > o /\ wire[r].kind = "started"
    BY <1>9 DEF Later
  <2>2. r # 1 /\ r - 1 > p
    BY <2>1, <1>9
  <2>3. r - 1 \in 1..Len(w1) /\ w1[r - 1] = wire[r]
    BY <2>2, <1>2 DEF Shrinks
  <2> QED
    BY <2>1, <2>2, <2>3, <1>1 DEF Later
<1>10. ASSUME NEW p \in 1..Len(w1), w1[p].kind = "started"
       PROVE  w1[p].load = process.load \/ Later(p)'
  <2>1. wire[p + 1].load = process.load \/ Later(p + 1)
    BY <1>10, <1>5 DEF LoadInv, Newest
  <2>2. p \in Nat /\ p + 1 \in Nat
    OBVIOUS
  <2>3. Later(p + 1) => Later(p)'
    BY <2>2, <1>9
  <2> QED
    BY <2>1, <2>3, <1>5
<1>11. ASSUME wire[1].kind # "started", Later(0) PROVE Later(0)'
  <2>1. PICK r \in 1..Len(wire) : wire[r].kind = "started"
    BY <1>11 DEF Later
  <2>2. r # 1 /\ r - 1 > 0
    BY <2>1, <1>11
  <2>3. r - 1 \in 1..Len(w1) /\ w1[r - 1] = wire[r]
    BY <2>2, <1>2 DEF Shrinks
  <2> QED
    BY <2>1, <2>2, <2>3, <1>1 DEF Later
<1>12. EndComesFirst'
  BY <1>1, <1>6 DEF EndComesFirst
<1>13. Receives'
  BY <1>4 DEF Receives, Delivers
<1> QED
  BY <1>1, <1>2, <1>3, <1>4, <1>6, <1>7, <1>8, <1>10, <1>11, <1>12, <1>13

(* ... and the ends behind it are of the load that starts with it.         *)
LEMMA EndsAfterDelivery ==
  ASSUME LoadInv, Delivers,
         \/ view' = view /\ (wire[1].kind = "started" => view.pending)
         \/ wire[1].kind = "started" /\ view'.newest = wire[1].load
  PROVE  EndsInOrder'
<1>1. PICK w1 : w1 = wire'
  OBVIOUS
<1>2. Shrinks(wire, w1) /\ 1 \in 1..Len(wire)
  BY <1>1, AfterDelivery
<1> SUFFICES ASSUME NEW p \in 1..Len(w1), IsEnd(p)'
             PROVE  /\ \A r \in 1..Len(w1) : r < p /\ w1[r].kind = "started" =>
                         w1[r].load = w1[p].load \/ Between(r, p)'
                    /\ view'.pending \/ w1[p].load = view'.newest \/ Between(0, p)'
  BY <1>1 DEF EndsInOrder
<1>3. PICK o \in 1..Len(wire) : o = p + 1 /\ w1[p] = wire[o] /\ 1 < o
  BY <1>2 DEF Shrinks
<1>4. /\ \A r \in 1..Len(wire) : r < o /\ wire[r].kind = "started" =>
           wire[r].load = wire[o].load \/ Between(r, o)
      /\ view.pending \/ wire[o].load = view.newest \/ Between(0, o)
  <2>1. IsEnd(o)
    BY <1>1, <1>3 DEF IsEnd
  <2> QED
    BY <2>1 DEF LoadInv, EndsInOrder
<1>5. ASSUME NEW r \in Nat, Between(r + 1, o) PROVE Between(r, p)'
  <2>1. PICK s \in 1..Len(wire) : r + 1 < s /\ s < o /\ wire[s].kind = "started"
    BY <1>5 DEF Between
  <2>2. s # 1 /\ r < s - 1 /\ s - 1 < p
    BY <2>1, <1>3
  <2>3. s - 1 \in 1..Len(w1) /\ w1[s - 1] = wire[s]
    BY <2>2, <1>2 DEF Shrinks
  <2> QED
    BY <2>1, <2>2, <2>3, <1>1 DEF Between
<1>6. ASSUME NEW r \in 1..Len(w1), r < p, w1[r].kind = "started"
      PROVE  w1[r].load = w1[p].load \/ Between(r, p)'
  <2>1. r + 1 \in 1..Len(wire) /\ w1[r] = wire[r + 1] /\ r + 1 < o
    BY <1>2, <1>3, <1>6 DEF Shrinks
  <2> QED
    BY <2>1, <1>3, <1>4, <1>5, <1>6
<1>7. view'.pending \/ w1[p].load = view'.newest \/ Between(0, p)'
  <2>1. CASE wire[1].kind = "started" /\ view'.newest = wire[1].load
    <3>1. wire[1].load = wire[o].load \/ Between(1, o)
      BY <2>1, <1>2, <1>3, <1>4
    <3>2. 0 \in Nat /\ 0 + 1 = 1
      OBVIOUS
    <3>3. Between(1, o) => Between(0, p)'
      BY <3>2, <1>5
    <3> QED
      BY <2>1, <3>1, <3>3, <1>3
  <2>2. CASE view' = view /\ wire[1].kind # "started"
    <3>1. ASSUME Between(0, o) PROVE Between(0, p)'
      <4>1. PICK s \in 1..Len(wire) : 0 < s /\ s < o /\ wire[s].kind = "started"
        BY <3>1 DEF Between
      <4>2. s # 1
        BY <4>1, <2>2
      <4>3. 0 < s - 1 /\ s - 1 < p
        BY <4>1, <4>2, <1>3
      <4>4. s - 1 \in 1..Len(w1) /\ w1[s - 1] = wire[s]
        BY <4>2, <1>2 DEF Shrinks
      <4> QED
        BY <4>1, <4>3, <4>4, <1>1 DEF Between
    <3> QED
      BY <2>2, <3>1, <1>3, <1>4
  <2>3. CASE view' = view /\ view.pending
    BY <2>3
  <2> QED
    BY <2>1, <2>2, <2>3
<1> QED
  BY <1>6, <1>7

(* ... the queue to the web process and the view left as they are.         *)
LEMMA QueueAfterDelivery ==
  ASSUME LoadInv, Delivers, toProcess' = toProcess
  PROVE  Fresh' /\ Asks' /\ Uses'
<1>1. PICK w1 : w1 = wire'
  OBVIOUS
<1>2. \A p \in 1..Len(w1) : p + 1 \in 1..Len(wire) /\ w1[p] = wire[p + 1]
  BY <1>1, AfterDelivery DEF Shrinks
<1>3. Fresh'
  <2> SUFFICES ASSUME NEW q \in 1..Len(toProcess), toProcess[q].kind = "load"
               PROVE  /\ toProcess[q].load # process.load
                      /\ \A o \in 1..Len(w1) : w1[o].load # toProcess[q].load
                      /\ \A o \in 1..Len(toProcess) :
                            o # q => toProcess[o].load # toProcess[q].load
    BY <1>1 DEF Fresh, Delivers
  <2>1. /\ toProcess[q].load # process.load
        /\ \A o \in 1..Len(wire) : wire[o].load # toProcess[q].load
        /\ \A o \in 1..Len(toProcess) : o # q => toProcess[o].load # toProcess[q].load
    BY DEF LoadInv, Fresh
  <2> QED
    BY <1>2, <2>1
<1>4. Asks'
  BY <1>1, <1>2 DEF LoadInv, Asks, Delivers
<1>5. Uses'
  BY AfterDelivery DEF Uses, Delivers
<1> QED
  BY <1>3, <1>4, <1>5

LEMMA StartedFits == LoadInv /\ Started => LoadInv'
<1> SUFFICES ASSUME LoadInv, Started PROVE LoadInv'
  OBVIOUS
<1>1. PICK i, w1 : i = Head(wire).load /\ w1 = wire'
  OBVIOUS
<1>2. Delivers /\ UNCHANGED <<status, toProcess>>
  BY DEF Started, Receive, Delivers
<1>3. w1 \in Seq(Sent) /\ Shrinks(wire, w1) /\ wire[1] \in Sent /\ 1 \in 1..Len(wire)
  BY <1>1, <1>2, AfterDelivery
<1>4. Is(wire[1], "started", i) /\ i \in Nat /\ i \in 1..Len(pages)
  BY <1>1, <1>3 DEF Started, Receive, Shrinks, Is, Sent, LoadInv, Numbered
<1>5. \/ view.pending /\ i # view.newest /\ view' = view
      \/ /\ ~(view.pending /\ i # view.newest)
         /\ view'.newest = i /\ ~view'.pending
  BY <1>1 DEF Started
<1>6. LoadTypeOK'
  BY <1>1, <1>2, <1>3, <1>4, <1>5 DEF LoadInv, LoadTypeOK, Delivers
<1>7. Numbered'
  <2>1. i <= Len(pages)
    BY <1>4 DEF LoadInv, LoadTypeOK
  <2> QED
    BY <2>1, <1>2, <1>5, AfterDelivery DEF LoadInv, Numbered, OfHttp, Delivers
<1>8. Awaited'
  <2>1. CASE view.pending /\ i # view.newest /\ view' = view
    <3>1. StartedThere => StartedThere'
      <4> SUFFICES ASSUME StartedThere PROVE StartedThere'
        OBVIOUS
      <4>1. PICK p \in 1..Len(wire) : Is(wire[p], "started", view.newest)
        BY DEF StartedThere
      <4>2. p # 1
        BY <4>1, <2>1, <1>4 DEF Is
      <4>3. p - 1 \in 1..Len(w1) /\ w1[p - 1] = wire[p]
        BY <4>2, <1>3 DEF Shrinks
      <4> QED
        BY <4>1, <4>3, <2>1, <1>1 DEF StartedThere
    <3> QED
      BY <2>1, <3>1, <1>2 DEF LoadInv, Awaited, Ahead
  <2>2. CASE ~(view.pending /\ i # view.newest) /\ view'.newest = i /\ ~view'.pending
    <3>1. ASSUME NEW q \in 1..Len(toProcess), toProcess[q].kind = "load" PROVE FALSE
      <4>1. view.pending /\ Ahead(q) /\ i = view.newest
        BY <3>1, <2>2 DEF LoadInv, Awaited
      <4>2. PICK r \in 1..Len(toProcess) : Is(toProcess[r], "load", i)
        BY <4>1 DEF Ahead
      <4>3. wire[1].load # toProcess[r].load
        BY <4>2, <1>3 DEF LoadInv, Fresh, Is
      <4> QED
        BY <4>2, <4>3, <1>4 DEF Is
    <3> QED
      BY <3>1, <2>2, <1>2 DEF Awaited
  <2> QED
    BY <2>1, <2>2, <1>5
<1>9. Newest'
  <2>1. view'.pending \/ process.load = view'.newest \/ Later(0)'
    <3>1. CASE view.pending /\ view' = view
      BY <3>1
    <3>2. CASE view'.newest = i
      <4>1. i = process.load \/ Later(1)
        BY <1>3, <1>4 DEF LoadInv, Newest, Is
      <4>2. ASSUME Later(1) PROVE Later(0)'
        <5>1. PICK r \in 1..Len(wire) : r > 1 /\ wire[r].kind = "started"
          BY <4>2 DEF Later
        <5>2. r # 1 /\ r - 1 > 0
          BY <5>1
        <5>3. r - 1 \in 1..Len(w1) /\ w1[r - 1] = wire[r]
          BY <5>2, <1>3 DEF Shrinks
        <5> QED
          BY <5>1, <5>2, <5>3, <1>1 DEF Later
      <4> QED
        BY <3>2, <4>1, <4>2
    <3> QED
      BY <3>1, <3>2, <1>5
  <2> QED
    BY <2>1, <1>2, AfterDelivery DEF Newest, Delivers
<1>10. EndFits'
  BY <1>2, AfterDelivery DEF EndFits, Delivers
<1>11. EndsInOrder'
  <2>1. CASE view.pending /\ view' = view
    BY <2>1, <1>2, EndsAfterDelivery
  <2>2. CASE view'.newest = i
    BY <2>2, <1>2, <1>4, EndsAfterDelivery DEF Is
  <2> QED
    BY <2>1, <2>2, <1>5
<1> QED
  BY <1>2, <1>6, <1>7, <1>8, <1>9, <1>10, <1>11, AfterDelivery, QueueAfterDelivery DEF LoadInv

(* The answer to a load the view no longer waits for: the decision comes   *)
(* behind the load it waits for.                                           *)
LEMMA DecidePolicyFits == LoadInv /\ decidePolicy => LoadInv'
<1> SUFFICES ASSUME LoadInv, decidePolicy PROVE LoadInv'
  OBVIOUS
<1>1. PICK k, w1, t1, n : k = Head(wire).load /\ w1 = wire' /\ t1 = toProcess' /\ n = Len(t1)
  OBVIOUS
<1>2. Delivers /\ UNCHANGED view
  BY DEF decidePolicy, Receive, Delivers
<1>3. w1 \in Seq(Sent) /\ Shrinks(wire, w1) /\ wire[1] \in Sent /\ 1 \in 1..Len(wire)
  BY <1>1, <1>2, AfterDelivery
<1>4. Is(wire[1], "response", k) /\ k \in Nat /\ k \in 1..Len(pages)
  BY <1>1, <1>3 DEF decidePolicy, Receive, Shrinks, Is, Sent, LoadInv, Numbered
<1>5. t1 = Append(toProcess, Message("use", k))
  BY <1>1 DEF decidePolicy
<1>6. t1 \in Seq(Ordered) /\ Grows(toProcess, t1, Message("use", k))
  BY <1>4, <1>5, AppendGrows, OfMessages DEF LoadInv, LoadTypeOK
<1>7. Is(t1[n], "use", k)
  BY <1>1, <1>6, OfMessages DEF Grows, Is
<1>8. LoadTypeOK'
  <2>1. status' = "some"
    BY DEF decidePolicy
  <2> QED
    BY <2>1, <1>1, <1>2, <1>3, <1>6 DEF LoadInv, LoadTypeOK, Delivers
<1>9. Numbered'
  <2>1. \A q \in 1..Len(t1) : t1[q].load \in 1..Len(pages)
    BY <1>1, <1>4, <1>6, <1>7 DEF LoadInv, Numbered, Grows, Is
  <2> QED
    BY <2>1, <1>1, <1>2, AfterDelivery DEF LoadInv, Numbered, OfHttp, Delivers
<1>10. \A p \in 1..Len(w1) : p + 1 \in 1..Len(wire) /\ w1[p] = wire[p + 1]
  BY <1>3 DEF Shrinks
<1>11. Fresh'
  <2> SUFFICES ASSUME NEW q \in 1..Len(t1), t1[q].kind = "load"
               PROVE  /\ t1[q].load # process.load
                      /\ \A o \in 1..Len(w1) : w1[o].load # t1[q].load
                      /\ \A o \in 1..Len(t1) : o # q => t1[o].load # t1[q].load
    BY <1>1, <1>2 DEF Fresh, Delivers
  <2>1. q \in 1..Len(toProcess) /\ t1[q] = toProcess[q]
    BY <1>1, <1>6, <1>7 DEF Grows, Is
  <2>2. /\ toProcess[q].load # process.load
        /\ \A o \in 1..Len(wire) : wire[o].load # toProcess[q].load
        /\ \A o \in 1..Len(toProcess) : o # q => toProcess[o].load # toProcess[q].load
    BY <2>1 DEF LoadInv, Fresh
  <2>3. k # toProcess[q].load
    BY <2>2, <1>3, <1>4 DEF Is
  <2>4. \A o \in 1..Len(t1) : o # q => t1[o].load # t1[q].load
    BY <2>1, <2>2, <2>3, <1>1, <1>6, <1>7 DEF Grows, Is
  <2> QED
    BY <2>1, <2>2, <2>4, <1>10
<1>12. Asks'
  <2>1. process.phase = "requested" => k # process.load
    BY <1>3, <1>4 DEF LoadInv, Asks, Is
  <2> QED
    BY <2>1, <1>1, <1>2, <1>6, <1>7, <1>10 DEF LoadInv, Asks, Delivers, Grows, Is
<1>13. ASSUME process.phase = "deciding", NEW q \in 1..Len(t1), Is(t1[q], "use", process.load)
       PROVE  q = n /\ k = process.load /\ 1 = Len(wire) /\ w1 = <<>>
  <2>1. q = n /\ k = process.load
    BY <1>1, <1>2, <1>6, <1>7, <1>13, AfterDelivery DEF Grows, Is
  <2>2. 1 = Len(wire)
    BY <2>1, <1>3, <1>4, <1>13 DEF LoadInv, Waits
  <2> QED
    BY <2>1, <2>2, <1>3 DEF Shrinks
<1>14. Uses'
  BY <1>1, <1>2, <1>13 DEF Uses, Delivers
<1>15. \A q \in 1..Len(toProcess) : Ahead(q) => Ahead(q)'
  BY <1>1, <1>2, <1>6 DEF Ahead, Grows
<1>16. Ahead(1) => Ahead(1)'
  BY <1>1, <1>2, <1>6 DEF Ahead, Grows
<1>17. Awaited'
  <2>1. StartedThere => StartedThere'
    <3> SUFFICES ASSUME StartedThere PROVE StartedThere'
      OBVIOUS
    <3>1. PICK p \in 1..Len(wire) : Is(wire[p], "started", view.newest)
      BY DEF StartedThere
    <3>2. p # 1
      BY <3>1, <1>4 DEF Is
    <3>3. p - 1 \in 1..Len(w1) /\ w1[p - 1] = wire[p]
      BY <3>2, <1>3 DEF Shrinks
    <3> QED
      BY <3>1, <3>3, <1>1, <1>2 DEF StartedThere
  <2>2. \A q \in 1..Len(t1) :
           t1[q].kind = "load" => q \in 1..Len(toProcess) /\ t1[q] = toProcess[q]
    BY <1>1, <1>6, <1>7 DEF Grows, Is
  <2> QED
    BY <2>1, <2>2, <1>1, <1>2, <1>15, <1>16 DEF LoadInv, Awaited
<1>18. Newest'
  BY <1>2, <1>4, AfterDelivery DEF LoadInv, Newest, Delivers, Is
<1>19. EndFits'
  <2>1. ASSUME view.pending, process.phase = "deciding",
               NEW q \in 1..Len(t1), Is(t1[q], "use", process.load)
        PROVE  \E r \in 1..Len(t1) : r < q /\ Is(t1[r], "load", view.newest)
    <3>1. q = n /\ 1 = Len(wire)
      BY <2>1, <1>13
    <3>2. ~StartedThere
      <4>1. \A len : len = 1 => \A p \in 1..len : p = 1
        OBVIOUS
      <4> QED
        BY <3>1, <4>1, <1>4 DEF StartedThere, Is
    <3>3. PICK r \in 1..Len(toProcess) : Is(toProcess[r], "load", view.newest)
      BY <2>1, <3>2 DEF LoadInv, Awaited, Ahead
    <3> QED
      BY <3>1, <3>3, <1>1, <1>6 DEF Grows
  <2> QED
    BY <2>1, <1>1, <1>2, AfterDelivery DEF EndFits, Delivers
<1>20. EndsInOrder'
  BY <1>2, <1>4, EndsAfterDelivery DEF Is
<1> QED
  BY <1>2, <1>8, <1>9, <1>11, <1>12, <1>14, <1>17, <1>18, <1>19, <1>20, AfterDelivery DEF LoadInv

LEMMA EndDeliveredFits == LoadInv /\ (Finished \/ Failed \/ Cancelled) => LoadInv'
<1> SUFFICES ASSUME LoadInv, Finished \/ Failed \/ Cancelled PROVE LoadInv'
  OBVIOUS
<1>1. PICK w1 : w1 = wire'
  OBVIOUS
<1>2. /\ Delivers /\ UNCHANGED <<status, view, toProcess>>
      /\ Head(wire).kind \in {"finished", "failed", "cancelled"}
  BY DEF Finished, Failed, Cancelled, Receive, Delivers, UnchangedByEnd
<1>3. w1 \in Seq(Sent) /\ Shrinks(wire, w1) /\ wire[1] \in Sent /\ 1 \in 1..Len(wire)
  BY <1>1, <1>2, AfterDelivery
<1>4. wire[1].kind # "started"
  BY <1>2, <1>3 DEF Shrinks
<1>5. LoadTypeOK'
  BY <1>1, <1>2, <1>3 DEF LoadInv, LoadTypeOK, Delivers
<1>6. Numbered'
  BY <1>2, AfterDelivery DEF LoadInv, Numbered, OfHttp, Delivers
<1>7. Awaited'
  <2>1. StartedThere => StartedThere'
    <3> SUFFICES ASSUME StartedThere PROVE StartedThere'
      OBVIOUS
    <3>1. PICK p \in 1..Len(wire) : Is(wire[p], "started", view.newest)
      BY DEF StartedThere
    <3>2. p # 1
      BY <3>1, <1>4 DEF Is
    <3>3. p - 1 \in 1..Len(w1) /\ w1[p - 1] = wire[p]
      BY <3>2, <1>3 DEF Shrinks
    <3> QED
      BY <3>1, <3>3, <1>1, <1>2 DEF StartedThere
  <2> QED
    BY <2>1, <1>2 DEF LoadInv, Awaited, Ahead
<1>8. Newest'
  BY <1>2, <1>4, AfterDelivery DEF LoadInv, Newest, Delivers
<1>9. EndFits'
  BY <1>2, AfterDelivery DEF EndFits, Delivers
<1>10. EndsInOrder'
  BY <1>2, <1>4, EndsAfterDelivery
<1> QED
  BY <1>2, <1>5, <1>6, <1>7, <1>8, <1>9, <1>10, AfterDelivery, QueueAfterDelivery DEF LoadInv

(* Nobody is told of an end but of what the view shows, and that when it   *)
(* is the end of the newest load, or else when another answer counts.      *)
LEMMA NobodyTold == told' = <<>> => NoEarlyFinish'
  BY DEF NoEarlyFinish

LEMMA OnlyUri ==
  ASSUME NEW p, told' = uriChanged(p) PROVE NoEarlyFinish'
<1>1. told' = <<>> \/ told' = <<Told("URLChange", p)>>
  BY DEF uriChanged
<1>2. CASE told' = <<Told("URLChange", p)>>
  <2>1. \A i \in DOMAIN told' : told'[i].what = "URLChange"
    BY <1>2 DEF Told
  <2> QED
    BY <2>1 DEF NoEarlyFinish
<1> QED
  BY <1>1, <1>2, NobodyTold

(* The end of another load comes while the newest has yet to start.        *)
LEMMA EndOfAnother ==
  ASSUME LoadInv, wire # <<>>, Delivers, Head(wire).kind \in {"finished", "failed"},
         Head(wire).load # view.newest
  PROVE  /\ view.pending
         /\ status # "none" => ~(Head(wire).kind = "finished" /\ OfHttp(Head(wire).load))
<1>1. Head(wire) = wire[1] /\ 1 \in 1..Len(wire)
  BY AfterDelivery DEF Shrinks
<1>2. view.pending
  <2>1. ~Between(0, 1)
    <3>1. \A s \in 1..Len(wire) : ~(s < 1)
      BY DEF LoadInv, LoadTypeOK
    <3> QED
      BY <3>1 DEF Between
  <2> QED
    BY <1>1, <2>1 DEF LoadInv, EndsInOrder, IsEnd
<1> QED
  BY <1>1, <1>2 DEF LoadInv, EndFits, OfHttpEnd

LEMMA FinishedIsNotEarly == LoadInv /\ (Finished \/ Failed) => NoEarlyFinish'
<1> SUFFICES ASSUME LoadInv, Finished \/ Failed,
                    NEW i \in DOMAIN told',
                    told'[i].what = "LoadFinished", told'[i].page \in HttpPages,
                    cause'.load # view'.newest
             PROVE  /\ view'.pending /\ status' = "some"
                    /\ cause'.kind = "failed" \/ ~OfHttp(cause.load)'
  BY DEF NoEarlyFinish
<1>1. /\ wire # <<>> /\ Head(wire).kind \in {"finished", "failed"} /\ cause' = Head(wire)
      /\ UNCHANGED <<pages, view, status>>
      /\ Delivers
  BY DEF Finished, Failed, Receive, UnchangedByEnd, Delivers
<1>2. /\ view.pending
      /\ status # "none" => ~(Head(wire).kind = "finished" /\ OfHttp(Head(wire).load))
  BY <1>1, EndOfAnother
<1>3. status # "none"
  <2>1. PICK first : /\ loadChanged(FALSE, ignoreOnce, first)
                     /\ first = <<>> \/ \E p : first = <<Told("LoadFailed", p)>>
    BY <1>1 DEF Finished, Failed
  <2>2. told' = first \/ told' = Append(first, Told("LoadFinished", view.uri))
    BY <2>1 DEF loadChanged
  <2>3. told' = Append(first, Told("LoadFinished", view.uri)) /\ told'[i].page = view.uri
    <3>1. CASE first = <<>>
      BY <2>2, <3>1 DEF Told
    <3>2. ASSUME NEW p, first = <<Told("LoadFailed", p)>>
          PROVE  told' = Append(first, Told("LoadFinished", view.uri)) /\ told'[i].page = view.uri
      <4>1. PICK a, b, S : /\ a = Told("LoadFailed", p) /\ b = Told("LoadFinished", view.uri)
                           /\ S = {a, b}
        OBVIOUS
      <4>2. <<a>> \in Seq(S) /\ Len(<<a>>) = 1 /\ <<a>>[1] = a /\ b \in S
        BY <4>1
      <4>3. PICK s, t : s = <<a>> /\ t = Append(s, b)
        OBVIOUS
      <4>4. t \in Seq(S) /\ Len(t) = 2 /\ t[1] = a /\ t[2] = b
        BY <4>2, <4>3, Joined
      <4>5. DOMAIN t = 1..2 /\ DOMAIN s = 1..1
        BY <4>2, <4>3, <4>4
      <4>6. a.what = "LoadFailed" /\ b.page = view.uri
        BY <4>1 DEF Told
      <4>7. told' = s \/ told' = t
        BY <2>2, <3>2, <4>1, <4>3
      <4>8. told' # s
        BY <4>2, <4>3, <4>5, <4>6
      <4>9. told' = t /\ i = 2
        BY <4>4, <4>5, <4>6, <4>7, <4>8
      <4> QED
        BY <3>2, <4>1, <4>2, <4>3, <4>4, <4>6, <4>9
    <3> QED
      BY <2>1, <3>1, <3>2
  <2>4. told' # first
    BY <2>3, <2>1
  <2> QED
    BY <2>1, <2>3, <2>4 DEF loadChanged
<1>4. status = "some"
  BY <1>3 DEF LoadInv, LoadTypeOK
<1> QED
  BY <1>1, <1>2, <1>3, <1>4 DEF OfHttp

LEMMA NobodyIsToldEarly == LoadInv /\ NoEarlyFinish /\ [LoadNext]_loadVars => NoEarlyFinish'
<1> SUFFICES ASSUME LoadInv, NoEarlyFinish, [LoadNext]_loadVars PROVE NoEarlyFinish'
  OBVIOUS
<1>1. ASSUME NEW p \in Pages, SetURL(p) PROVE NoEarlyFinish'
  BY <1>1, OnlyUri DEF SetURL
<1>2. ASSUME NEW p \in HttpPages, Navigate(p) PROVE NoEarlyFinish'
  BY <1>2, NobodyTold DEF Navigate, Quiet
<1>3. CASE TakeLoad \/ TakeUse
  BY <1>3, NobodyTold DEF TakeLoad, TakeUse, Quiet
<1>4. CASE Respond \/ Finish \/ Fail
  BY <1>4, NobodyTold DEF Respond, Finish, Fail, Sends, Quiet
<1>5. CASE Started
  BY <1>5, NobodyTold, OnlyUri DEF Started
<1>6. CASE decidePolicy
  BY <1>6, NobodyTold DEF decidePolicy
<1>7. CASE Finished \/ Failed
  BY <1>7, FinishedIsNotEarly
<1>8. CASE Cancelled
  BY <1>8, NobodyTold DEF Cancelled, loadChanged
<1>9. CASE UNCHANGED loadVars
  BY <1>9 DEF loadVars, browserVars, processVars, NoEarlyFinish, OfHttp
<1> QED
  BY <1>1, <1>2, <1>3, <1>4, <1>5, <1>6, <1>7, <1>8, <1>9
     DEF LoadNext, Engine, Signals

LEMMA LoadsKept == LoadInv /\ [LoadNext]_loadVars => LoadInv'
<1> SUFFICES ASSUME LoadInv, [LoadNext]_loadVars PROVE LoadInv'
  OBVIOUS
<1>1. CASE Respond
  BY <1>1, SendsFits DEF Respond
<1>2. CASE Finish
  BY <1>2, SendsFits DEF Finish
<1>3. CASE Fail
  BY <1>3, SendsFits DEF Fail
<1>4. CASE UNCHANGED loadVars
  <2>1. UNCHANGED <<status, pages, view, toProcess, process, wire>>
    BY <1>4 DEF loadVars, browserVars, processVars
  <2>2. LoadTypeOK' /\ Numbered' /\ Fresh' /\ Asks' /\ Waits' /\ Uses' /\ Receives'
    BY <2>1 DEF LoadInv, LoadTypeOK, Numbered, OfHttp, Fresh, Asks, Waits, Uses, Receives
  <2>3. EndComesFirst' /\ Awaited' /\ Newest' /\ EndFits'
    BY <2>1 DEF LoadInv, EndComesFirst, OfHttpEnd, OfHttp, Awaited, Ahead, StartedThere,
                Newest, Later, EndFits
  <2>4. EndsInOrder'
    BY <2>1 DEF LoadInv, EndsInOrder, IsEnd, Between
  <2> QED
    BY <2>2, <2>3, <2>4 DEF LoadInv
<1> QED
  BY <1>1, <1>2, <1>3, <1>4, SetURLFits, NavigateFits, TakeLoadFits, TakeUseFits,
     StartedFits, DecidePolicyFits, EndDeliveredFits DEF LoadNext, Engine, Signals

(* However many loads the plugin and the page itself ask for while those   *)
(* before them are under way, and wherever their signals are: LoadFinished *)
(* of an http page is told by the end of the newest load, or else by that  *)
(* of a load that failed or had no response, before the newest started and *)
(* after a late response was decided on.                                   *)
THEOREM FinishIsNotEarly == LoadSpec => []NoEarlyFinish
  BY LoadsBegin, LoadsKept, NobodyIsToldEarly, PTL DEF LoadSpec

-----------------------------------------------------------------------------
(* The memory observer on its own.                                         *)
MemorySpec == ObserverInit /\ [][ObserverNext]_memoryVars

LEMMA TwoAreMandatory ==
  IsFiniteSet(mandatoryProcesses) /\ Cardinality(mandatoryProcesses) = 2
<1>1. mandatoryProcesses = {"WPENetworkProcess"} \cup {"WPEWebProcess"}
  BY DEF mandatoryProcesses
<1>2. IsFiniteSet({"WPENetworkProcess"}) /\ Cardinality({"WPENetworkProcess"}) = 1
  BY FS_Singleton
<1>3. "WPEWebProcess" \notin {"WPENetworkProcess"}
  OBVIOUS
<1>4. /\ IsFiniteSet({"WPENetworkProcess"} \cup {"WPEWebProcess"})
      /\ Cardinality({"WPENetworkProcess"} \cup {"WPEWebProcess"}) = 1 + 1
  BY <1>2, <1>3, FS_AddElement
<1> QED
  BY <1>1, <1>4

(* As many children as are mandatory, all of them different, are all that  *)
(* are mandatory: the list needs no refresh.                               *)
LEMMA LongListIsComplete ==
  ASSUME Cardinality(Run(childList)) = Cardinality(childList),
         ~(Cardinality(childList) < RequiredChildren)
  PROVE  Run(childList) = mandatoryProcesses
<1>1. Run(childList) \subseteq mandatoryProcesses
  BY DEF Run
<1>2. PICK n : n = Cardinality(Run(childList))
  OBVIOUS
<1>3. IsFiniteSet(Run(childList)) /\ n <= 2
  BY <1>1, <1>2, TwoAreMandatory, FS_Subset
<1>4. n \in Nat
  BY <1>2, <1>3, FS_CardinalityType
<1>5. n = 2
  BY <1>2, <1>3, <1>4, TwoAreMandatory DEF RequiredChildren
<1> QED
  BY <1>1, <1>2, <1>5, TwoAreMandatory, FS_Subset

(* What the monitor is told of the browser's processes has a cause in the  *)
(* processes, whichever of them end and are replaced between the times the *)
(* list of children is read.                                               *)
THEOREM MonitorIsToldTheTruth == MemorySpec => OperationalIsJustified
<1> DEFINE complete == Run(DOMAIN running) = mandatoryProcesses
           exact == Cardinality(Run(childList)) = Cardinality(childList)
<1>1. ASSUME IsOperational, remote
      PROVE  IF toldMonitor'.is THEN mainActive /\ (starting \/ complete)
             ELSE ~mainActive \/ (~starting /\ ~(complete /\ exact))
  <2>1. PICK list : /\ list = childList'
                    /\ list = IF Cardinality(childList) < RequiredChildren
                              THEN DOMAIN running ELSE childList
    BY <1>1 DEF IsOperational, Children
  <2>2. toldMonitor'.is <=> mainActive /\ (starting \/ Run(list) = mandatoryProcesses)
    BY <1>1, <2>1 DEF IsOperational, Run
  <2>3. Run(list) \subseteq Run(DOMAIN running) /\ Run(DOMAIN running) \subseteq mandatoryProcesses
    BY DEF Run
  <2>4. Run(list) = mandatoryProcesses => complete
    BY <2>3
  <2>5. complete /\ exact => Run(list) = mandatoryProcesses
    BY <2>1, LongListIsComplete
  <2> QED
    BY <2>2, <2>4, <2>5
<1>2. [ObserverNext]_memoryVars =>
        [IsOperational /\ remote =>
          LET all == Run(DOMAIN running) = mandatoryProcesses
              fit == Cardinality(Run(childList)) = Cardinality(childList)
          IN  IF toldMonitor'.is THEN mainActive /\ (starting \/ all)
              ELSE ~mainActive \/ (~starting /\ ~(all /\ fit))]_memoryVars
  BY <1>1
<1> QED
  BY <1>2, PTL DEF MemorySpec, OperationalIsJustified

-----------------------------------------------------------------------------
(* A set of numbers has a least one, so what holds of 0 and passes from    *)
(* every number to the next holds of all.                                  *)
LEMMA Least ==
  ASSUME NEW T \in SUBSET Nat, T # {}
  PROVE  \E n \in T : \A m \in T : n <= m
<1>1. PICK R : R = OpToRel(<, Nat)
  OBVIOUS
<1>2. IsWellFoundedOn(R, Nat)
  BY <1>1, NatLessThanWellFounded
<1>3. PICK n \in T : \A m \in T : ~(<<m, n>> \in R)
  BY <1>2, WFMin
<1>4. \A m \in Nat, k \in Nat : m < k => <<m, k>> \in R
  BY <1>1 DEF OpToRel
<1>5. ASSUME NEW m \in T PROVE n <= m
  <2>1. m \in Nat /\ n \in Nat
    OBVIOUS
  <2>2. ~(m < n)
    BY <1>3, <1>4, <2>1
  <2> QED
    BY <2>1, <2>2
<1> QED
  BY <1>5

LEMMA Induction ==
  ASSUME NEW S, 0 \in S, \A n \in Nat : n \in S => n + 1 \in S
  PROVE  Nat \subseteq S
<1>1. SUFFICES ASSUME Nat \ S # {} PROVE FALSE
  OBVIOUS
<1>2. PICK n \in Nat \ S : \A m \in Nat \ S : n <= m
  BY <1>1, Least
<1>3. n # 0 /\ n - 1 \in Nat /\ n - 1 + 1 = n
  BY <1>2
<1>4. n - 1 \in S
  BY <1>2, <1>3
<1> QED
  BY <1>2, <1>3, <1>4

(* The operators the modules fold with.                                    *)
Step(by, a, e) ==
    CASE by = "Hear" -> Hear(a, e)
      [] by = "Line" -> Line(a, e)
      [] by = "Keep" -> Keep(a, e)

(* What FoldLeft makes of s: a value for every set of places in s, which   *)
(* adds that of the last of them to the value for the others.              *)
Places(k) == SUBSET (1..k)
Folds(f, by, base, s, k) ==
    f = [t \in Places(k) |->
           IF t = {} THEN base ELSE Step(by, f[t \ {Max(t)}], s[Max(t)])]

LEMMA LastPlace ==
  ASSUME NEW k \in Nat
  PROVE  /\ \A t \in Places(k + 1) : k + 1 \in t => Max(t) = k + 1
         /\ 1..0 = {} /\ 1..(k + 1) # {} /\ k + 1 \in 1..(k + 1)
         /\ (1..(k + 1)) \ {k + 1} = 1..k
         /\ \A t \in Places(k + 1) :
              t \ {k + 1} \in Places(k) /\ (k + 1 \notin t => t \in Places(k))
         /\ Places(k) \subseteq Places(k + 1)
         /\ 1..k \in Places(k) /\ 1..(k + 1) \in Places(k + 1)
         /\ Max(1..(k + 1)) = k + 1
<1>1. ASSUME NEW t \in Places(k + 1), k + 1 \in t PROVE Max(t) = k + 1
  <2>1. PICK m : m = Max(t)
    OBVIOUS
  <2>2. \A y \in t : y \in Int /\ k + 1 >= y
    BY <1>1 DEF Places
  <2>3. m \in t /\ \A y \in t : m >= y
    BY <1>1, <2>1, <2>2 DEF Max
  <2> QED
    BY <1>1, <2>1, <2>2, <2>3
<1>2. 1..0 = {} /\ 1..(k + 1) # {} /\ (1..(k + 1)) \ {k + 1} = 1..k /\ 1..k \subseteq 1..(k + 1)
      /\ k + 1 \in 1..(k + 1)
  OBVIOUS
<1>3. 1..k \in Places(k) /\ 1..(k + 1) \in Places(k + 1)
  BY DEF Places
<1>4. Max(1..(k + 1)) = k + 1
  BY <1>1, <1>2, <1>3
<1> QED
  BY <1>1, <1>2, <1>3, <1>4 DEF Places

LEMMA SomeFolds ==
  ASSUME NEW by, NEW base, NEW s PROVE \A k \in Nat : \E f : Folds(f, by, base, s, k)
<1> DEFINE S == {k \in Nat : \E f : Folds(f, by, base, s, k)}
<1>1. 0 \in S
  <2>1. Places(0) = {{}}
    BY DEF Places
  <2>2. Folds([t \in {{}} |-> base], by, base, s, 0)
    BY <2>1 DEF Folds
  <2> QED
    BY <2>2
<1>2. ASSUME NEW k \in Nat, k \in S PROVE k + 1 \in S
  <2>1. PICK f : Folds(f, by, base, s, k)
    BY <1>2
  <2> DEFINE g == [t \in Places(k + 1) |->
                     IF k + 1 \in t THEN Step(by, f[t \ {k + 1}], s[k + 1]) ELSE f[t]]
  <2>2. ASSUME NEW t \in Places(k + 1)
        PROVE  g[t] = IF t = {} THEN base ELSE Step(by, g[t \ {Max(t)}], s[Max(t)])
    <3>1. CASE k + 1 \in t
      <4>1. g[t] = Step(by, f[t \ {k + 1}], s[k + 1]) /\ t # {}
        BY <3>1
      <4>2. t \ {k + 1} \in Places(k + 1) /\ k + 1 \notin (t \ {k + 1})
        BY LastPlace
      <4>3. g[t \ {k + 1}] = f[t \ {k + 1}]
        BY <4>2
      <4> QED
        BY <3>1, <4>1, <4>3, LastPlace
    <3>2. CASE k + 1 \notin t
      <4>1. t \in Places(k) /\ g[t] = f[t]
        BY <3>2, LastPlace
      <4>2. f[t] = IF t = {} THEN base ELSE Step(by, f[t \ {Max(t)}], s[Max(t)])
        BY <2>1, <4>1 DEF Folds
      <4>3. t \ {Max(t)} \in Places(k + 1) /\ k + 1 \notin (t \ {Max(t)})
        BY <3>2 DEF Places
      <4>4. g[t \ {Max(t)}] = f[t \ {Max(t)}]
        BY <4>3
      <4> QED
        BY <4>1, <4>2, <4>4
    <3> QED
      BY <3>1, <3>2
  <2> HIDE DEF g
  <2>3. g = [t \in Places(k + 1) |-> g[t]]
    BY DEF g
  <2>4. Folds(g, by, base, s, k + 1)
    BY <2>2, <2>3 DEF Folds
  <2> QED
    BY <2>4
<1> QED
  BY <1>1, <1>2, Induction

(* A fold begins with its base; one element more is one step more.         *)
LEMMA BaseFirst ==
  ASSUME NEW by, NEW base, NEW s, NEW m \in Nat, NEW f, Folds(f, by, base, s, m)
  PROVE  f[1..0] = base
<1>1. {} \in Places(m) /\ 1..0 = {}
  BY DEF Places
<1> QED
  BY <1>1 DEF Folds

LEMMA OneStepMore ==
  ASSUME NEW by, NEW base, NEW s, NEW m \in Nat, NEW f, Folds(f, by, base, s, m),
         NEW j \in Nat, j + 1 <= m
  PROVE  f[1..(j + 1)] = Step(by, f[1..j], s[j + 1])
<1>1. 1..(j + 1) \in Places(m)
  BY DEF Places
<1>2. 1..(j + 1) # {} /\ Max(1..(j + 1)) = j + 1 /\ (1..(j + 1)) \ {j + 1} = 1..j
  BY LastPlace
<1>3. f[1..(j + 1)] = IF 1..(j + 1) = {} THEN base
                      ELSE Step(by, f[(1..(j + 1)) \ {Max(1..(j + 1))}], s[Max(1..(j + 1))])
  BY <1>1 DEF Folds
<1> QED
  BY <1>2, <1>3

(* Folds of sequences that begin alike agree on what is alike.             *)
LEMMA FoldsAlike ==
  ASSUME NEW by, NEW base, NEW s, NEW r, NEW k \in Nat, NEW n \in Nat, k <= n,
         \A i \in 1..k : s[i] = r[i],
         NEW f, NEW g, Folds(f, by, base, s, k), Folds(g, by, base, r, n)
  PROVE  f[1..k] = g[1..k]
<1> DEFINE S == {j \in Nat : j <= k => f[1..j] = g[1..j]}
<1>1. 0 \in S
  <2>1. f[1..0] = base
    BY BaseFirst
  <2>2. g[1..0] = base
    BY BaseFirst
  <2> QED
    BY <2>1, <2>2
<1>2. ASSUME NEW j \in Nat, j \in S PROVE j + 1 \in S
  <2> SUFFICES ASSUME j + 1 <= k PROVE f[1..(j + 1)] = g[1..(j + 1)]
    OBVIOUS
  <2>1. f[1..j] = g[1..j] /\ s[j + 1] = r[j + 1] /\ j + 1 <= n
    BY <1>2
  <2>2. f[1..(j + 1)] = Step(by, f[1..j], s[j + 1])
    BY OneStepMore
  <2>3. g[1..(j + 1)] = Step(by, g[1..j], r[j + 1])
    BY <2>1, OneStepMore
  <2> QED
    BY <2>1, <2>2, <2>3
<1>3. Nat \subseteq S
  <2> HIDE DEF S
  <2> QED
    BY <1>1, <1>2, Induction
<1> QED
  BY <1>3

LEMMA FoldsOfAppend ==
  ASSUME NEW by, NEW base, NEW s, NEW r, NEW n \in Nat, \A i \in 1..n : s[i] = r[i],
         NEW f, Folds(f, by, base, s, n),
         NEW g, Folds(g, by, base, r, n + 1)
  PROVE  g[1..(n + 1)] = Step(by, f[1..n], r[n + 1])
<1>1. n + 1 \in Nat /\ n <= n + 1
  OBVIOUS
<1>2. f[1..n] = g[1..n]
  BY <1>1, FoldsAlike
<1>3. g[1..(n + 1)] = Step(by, g[1..n], r[n + 1])
  BY <1>1, OneStepMore
<1> QED
  BY <1>2, <1>3

(* FoldLeft is such a fold.                                                *)
Folded(by, base, s) ==
    CASE by = "Hear" -> FoldLeft(Hear, base, s)
      [] by = "Line" -> FoldLeft(Line, base, s)
      [] by = "Keep" -> FoldLeft(Keep, base, s)

LEMMA FoldIs ==
  ASSUME NEW by \in {"Hear", "Line", "Keep"}, NEW base, NEW E, NEW s \in Seq(E)
  PROVE  \E f : Folds(f, by, base, s, Len(s)) /\ Folded(by, base, s) = f[1..Len(s)]
<1> DEFINE n == Len(s)
<1>1. DOMAIN s = 1..n /\ n \in Nat
  OBVIOUS
<1>2. \E f : Folds(f, by, base, s, n)
  BY <1>1, SomeFolds
<1> HIDE DEF n
<1>3. CASE by = "Hear"
  <2>1. PICK f : f = CHOOSE g : g = [t \in SUBSET (DOMAIN s) |->
                   IF t = {} THEN base ELSE Hear(g[t \ {Max(t)}], s[Max(t)])]
    OBVIOUS
  <2>2. \A g : Folds(g, by, base, s, n) <=>
               g = [t \in SUBSET (DOMAIN s) |->
                      IF t = {} THEN base ELSE Hear(g[t \ {Max(t)}], s[Max(t)])]
    BY <1>1, <1>3 DEF Folds, Places, Step
  <2>3. FoldLeft(Hear, base, s) = f[DOMAIN s]
    BY <2>1 DEF FoldLeft, MapThenFoldSet
  <2>4. Folds(f, by, base, s, n) /\ Folded(by, base, s) = f[1..n]
    BY <1>1, <1>2, <1>3, <2>1, <2>2, <2>3 DEF Folded
  <2> QED
    BY <2>4 DEF n
<1>4. CASE by = "Line"
  <2>1. PICK f : f = CHOOSE g : g = [t \in SUBSET (DOMAIN s) |->
                   IF t = {} THEN base ELSE Line(g[t \ {Max(t)}], s[Max(t)])]
    OBVIOUS
  <2>2. \A g : Folds(g, by, base, s, n) <=>
               g = [t \in SUBSET (DOMAIN s) |->
                      IF t = {} THEN base ELSE Line(g[t \ {Max(t)}], s[Max(t)])]
    BY <1>1, <1>4 DEF Folds, Places, Step
  <2>3. FoldLeft(Line, base, s) = f[DOMAIN s]
    BY <2>1 DEF FoldLeft, MapThenFoldSet
  <2>4. Folds(f, by, base, s, n) /\ Folded(by, base, s) = f[1..n]
    BY <1>1, <1>2, <1>4, <2>1, <2>2, <2>3 DEF Folded
  <2> QED
    BY <2>4 DEF n
<1>5. CASE by = "Keep"
  <2>1. PICK f : f = CHOOSE g : g = [t \in SUBSET (DOMAIN s) |->
                   IF t = {} THEN base ELSE Keep(g[t \ {Max(t)}], s[Max(t)])]
    OBVIOUS
  <2>2. \A g : Folds(g, by, base, s, n) <=>
               g = [t \in SUBSET (DOMAIN s) |->
                      IF t = {} THEN base ELSE Keep(g[t \ {Max(t)}], s[Max(t)])]
    BY <1>1, <1>5 DEF Folds, Places, Step
  <2>3. FoldLeft(Keep, base, s) = f[DOMAIN s]
    BY <2>1 DEF FoldLeft, MapThenFoldSet
  <2>4. Folds(f, by, base, s, n) /\ Folded(by, base, s) = f[1..n]
    BY <1>1, <1>2, <1>5, <2>1, <2>2, <2>3 DEF Folded
  <2> QED
    BY <2>4 DEF n
<1> QED
  BY <1>3, <1>4, <1>5

(* A fold of nothing is its base; one more element is one more step.       *)
LEMMA FoldedNothing ==
  ASSUME NEW by \in {"Hear", "Line", "Keep"}, NEW base
  PROVE  Folded(by, base, <<>>) = base
<1>1. ASSUME NEW s \in Seq({}), Len(s) = 0 PROVE Folded(by, base, s) = base
  <2>1. PICK f : Folds(f, by, base, s, Len(s)) /\ Folded(by, base, s) = f[1..Len(s)]
    BY FoldIs
  <2>2. f[1..0] = base
    BY <2>1, BaseFirst
  <2> QED
    BY <1>1, <2>1, <2>2
<1>2. <<>> \in Seq({}) /\ Len(<<>>) = 0
  OBVIOUS
<1> QED
  BY <1>1, <1>2

LEMMA FoldedAppend ==
  ASSUME NEW by \in {"Hear", "Line", "Keep"}, NEW base, NEW E, NEW s \in Seq(E), NEW e \in E
  PROVE  Folded(by, base, Append(s, e)) = Step(by, Folded(by, base, s), e)
<1> DEFINE n == Len(s)
           r == Append(s, e)
<1>1. /\ n \in Nat /\ r \in Seq(E) /\ Len(r) = n + 1 /\ r[n + 1] = e
      /\ \A i \in 1..n : s[i] = r[i]
  OBVIOUS
<1>2. PICK f : Folds(f, by, base, s, n) /\ Folded(by, base, s) = f[1..n]
  BY FoldIs
<1> HIDE DEF r
<1>3. PICK g : Folds(g, by, base, r, n + 1) /\ Folded(by, base, r) = g[1..(n + 1)]
  BY <1>1, FoldIs
<1>4. g[1..(n + 1)] = Step(by, f[1..n], r[n + 1])
  BY <1>1, <1>2, <1>3, FoldsOfAppend
<1> QED
  BY <1>1, <1>2, <1>3, <1>4 DEF r

-----------------------------------------------------------------------------
(* FlattenSeq: what one sequence more adds.                                *)
Flattens(f, ss, n) == f = [i \in 1..n |-> IF i = 1 THEN ss[i] ELSE f[i - 1] \o ss[i]]

LEMMA SomeFlattens ==
  ASSUME NEW ss PROVE \A n \in Nat : \E f : Flattens(f, ss, n)
<1> DEFINE S == {n \in Nat : \E f : Flattens(f, ss, n)}
<1>1. 0 \in S
  <2>1. Flattens([i \in 1..0 |-> ss[i]], ss, 0)
    BY DEF Flattens
  <2> QED
    BY <2>1
<1>2. ASSUME NEW n \in Nat, n \in S PROVE n + 1 \in S
  <2>1. PICK f : Flattens(f, ss, n)
    BY <1>2
  <2> DEFINE g == [i \in 1..(n + 1) |->
                     IF i = n + 1 THEN IF i = 1 THEN ss[i] ELSE f[n] \o ss[i] ELSE f[i]]
  <2>2. ASSUME NEW i \in 1..(n + 1)
        PROVE  g[i] = IF i = 1 THEN ss[i] ELSE g[i - 1] \o ss[i]
    <3>1. CASE i = n + 1
      <4>1. i # 1 => g[i - 1] = f[n]
        BY <3>1
      <4> QED
        BY <3>1, <4>1
    <3>2. CASE i # n + 1
      <4>1. i \in 1..n /\ g[i] = f[i]
        BY <3>2
      <4>2. f[i] = IF i = 1 THEN ss[i] ELSE f[i - 1] \o ss[i]
        BY <2>1, <4>1 DEF Flattens
      <4>3. i # 1 => g[i - 1] = f[i - 1]
        BY <3>2, <4>1
      <4> QED
        BY <4>1, <4>2, <4>3
    <3> QED
      BY <3>1, <3>2
  <2> HIDE DEF g
  <2>3. g = [i \in 1..(n + 1) |-> g[i]]
    BY DEF g
  <2>4. Flattens(g, ss, n + 1)
    BY <2>2, <2>3 DEF Flattens
  <2> QED
    BY <2>4
<1> QED
  BY <1>1, <1>2, Induction

Alike(ss, rs, n) == \A i \in 1..n : ss[i] = rs[i]

LEMMA FlattensAlike ==
  ASSUME NEW ss, NEW rs, NEW f, NEW g, NEW n \in Nat, n # 0,
         Alike(ss, rs, n), Flattens(f, ss, n), Flattens(g, rs, n + 1)
  PROVE  f[n] = g[n]
<1> DEFINE S == {j \in Nat : j # 0 /\ j <= n => f[j] = g[j]}
<1>1. 0 \in S
  OBVIOUS
<1>2. ASSUME NEW j \in Nat, j \in S PROVE j + 1 \in S
  <2> SUFFICES ASSUME j + 1 <= n PROVE f[j + 1] = g[j + 1]
    OBVIOUS
  <2>1. j + 1 \in 1..n /\ j + 1 \in 1..(n + 1) /\ (j + 1) - 1 = j
    OBVIOUS
  <2>2. f[j + 1] = IF j + 1 = 1 THEN ss[j + 1] ELSE f[j] \o ss[j + 1]
    BY <2>1 DEF Flattens
  <2>3. g[j + 1] = IF j + 1 = 1 THEN rs[j + 1] ELSE g[j] \o rs[j + 1]
    BY <2>1 DEF Flattens
  <2>4. ss[j + 1] = rs[j + 1] /\ (j + 1 # 1 => f[j] = g[j])
    BY <1>2, <2>1 DEF Alike
  <2> QED
    BY <2>2, <2>3, <2>4
<1>3. Nat \subseteq S
  <2> HIDE DEF S
  <2> QED
    BY <1>1, <1>2, Induction
<1> QED
  BY <1>3

LEMMA FlattenIs ==
  ASSUME NEW E, NEW ss \in Seq(E), Len(ss) # 0
  PROVE  \E f : Flattens(f, ss, Len(ss)) /\ FlattenSeq(ss) = f[Len(ss)]
<1>1. \E f : Flattens(f, ss, Len(ss))
  <2>1. Len(ss) \in Nat
    OBVIOUS
  <2> QED
    BY <2>1, SomeFlattens
<1>2. PICK f : f = CHOOSE g : g = [i \in 1..Len(ss) |->
                                    IF i = 1 THEN ss[i] ELSE g[i - 1] \o ss[i]]
  OBVIOUS
<1>3. Flattens(f, ss, Len(ss))
  BY <1>1, <1>2 DEF Flattens
<1>4. FlattenSeq(ss) = f[Len(ss)]
  BY <1>2 DEF FlattenSeq
<1> QED
  BY <1>3, <1>4

LEMMA FlattenAppend ==
  ASSUME NEW E, NEW ss \in Seq(Seq(E)), NEW s \in Seq(E), FlattenSeq(ss) \in Seq(E)
  PROVE  /\ FlattenSeq(Append(ss, s)) = FlattenSeq(ss) \o s
         /\ FlattenSeq(Append(ss, s)) \in Seq(E)
<1> DEFINE n == Len(ss)
           rs == Append(ss, s)
<1>1. /\ n \in Nat /\ rs \in Seq(Seq(E)) /\ Len(rs) = n + 1 /\ Len(rs) # 0 /\ rs[n + 1] = s
      /\ \A i \in 1..n : ss[i] = rs[i]
  OBVIOUS
<1> HIDE DEF n, rs
<1>2. PICK g : Flattens(g, rs, n + 1) /\ FlattenSeq(rs) = g[n + 1]
  BY <1>1, FlattenIs
<1>3. g[n + 1] = IF n + 1 = 1 THEN s ELSE g[n] \o s
  <2>1. n + 1 \in 1..(n + 1) /\ (n + 1) - 1 = n
    BY <1>1
  <2> QED
    BY <1>1, <1>2, <2>1 DEF Flattens
<1>4. CASE n = 0
  <2>1. FlattenSeq(ss) = <<>>
    BY <1>4 DEF FlattenSeq, n
  <2> QED
    BY <1>2, <1>3, <1>4, <2>1 DEF rs
<1>5. CASE n # 0
  <2>1. PICK f : Flattens(f, ss, n) /\ FlattenSeq(ss) = f[n]
    BY <1>5, FlattenIs DEF n
  <2>2. n \in Nat /\ Alike(ss, rs, n) /\ Flattens(f, ss, n) /\ Flattens(g, rs, n + 1)
    BY <1>1, <1>2, <2>1 DEF Alike
  <2>3. f[n] = g[n]
    BY <1>5, <2>2, FlattensAlike
  <2>4. FlattenSeq(rs) = FlattenSeq(ss) \o s
    <3>1. n + 1 # 1
      BY <1>1, <1>5
    <3> QED
      BY <1>2, <1>3, <1>5, <2>1, <2>3, <3>1
  <2> QED
    BY <2>4 DEF rs
<1> QED
  BY <1>4, <1>5

-----------------------------------------------------------------------------
(* The payload of the cookies on its own.                                  *)
PayloadSpec == PayloadInit /\ [][PayloadNext]_texts

(* What the lines alone give back.                                         *)
LinesSurvive == Survive(deserialize(serialize(texts)))

(* What serialize makes of the cookies before the last and the last before *)
(* its line feed, and what deserialize has read by then.                   *)
Cookie == Seq(Characters)
SoFar(front, last) == serialize(front) \o last

(* As long as no cookie is empty or has a line feed the lines read are the *)
(* cookies; in any case they have all the characters, and no other lines.  *)
Reads(r, front, last) ==
    /\ r \in [done : Seq(Cookie), line : Cookie]
    /\ \A i \in DOMAIN r.done : Clean(r.done[i])
    /\ \A i \in DOMAIN r.line : r.line[i] # LF
    /\ FlattenSeq(r.done) \in Cookie
    /\ FlattenSeq(r.done) \o r.line = Feedless(FlattenSeq(front) \o last)
    /\ (\A i \in DOMAIN front : Clean(front[i])) /\ (\A i \in DOMAIN last : last[i] # LF)
       => r.done = front /\ r.line = last

ReadFits(front, last) ==
    /\ Reads(Read(SoFar(front, last)), front, last)
    /\ serialize(front) \in Cookie /\ FlattenSeq(front) \in Cookie

LEMMA LineRead ==
  ASSUME NEW E, NEW s \in Seq(E), NEW e \in E
  PROVE  Read(Append(s, e)) = Line(Read(s), e)
<1>1. ASSUME NEW by \in {"Hear", "Line", "Keep"}, NEW base
      PROVE  Folded(by, base, Append(s, e)) = Step(by, Folded(by, base, s), e)
  BY FoldedAppend
<1>2. FoldLeft(Line, NoLine, Append(s, e)) = Line(FoldLeft(Line, NoLine, s), e)
  BY <1>1 DEF Folded, Step
<1> QED
  BY <1>2 DEF Read

LEMMA ReadMore ==
  ASSUME NEW text \in Cookie, NEW c \in Characters
  PROVE  /\ Read(Append(text, c)) = Line(Read(text), c)
         /\ Feedless(Append(text, c)) = Keep(Feedless(text), c)
<1>1. Read(Append(text, c)) = Line(Read(text), c)
  BY LineRead DEF Cookie
<1>2. ASSUME NEW by \in {"Hear", "Line", "Keep"}, NEW base
      PROVE  Folded(by, base, Append(text, c)) = Step(by, Folded(by, base, text), c)
  BY FoldedAppend DEF Cookie
<1>3. FoldLeft(Keep, <<>>, Append(text, c)) = Keep(FoldLeft(Keep, <<>>, text), c)
  BY <1>2 DEF Folded, Step
<1> QED
  BY <1>1, <1>3 DEF Feedless

LEMMA ReadNothing == Read(<<>>) = NoLine /\ Feedless(<<>>) = <<>>
<1>1. FoldLeft(Line, NoLine, <<>>) = NoLine
  BY FoldedNothing DEF Folded
<1>2. FoldLeft(Keep, <<>>, <<>>) = <<>>
  BY FoldedNothing DEF Folded
<1> QED
  BY <1>1, <1>2 DEF Read, Feedless

LEMMA AppendLast ==
  ASSUME NEW s \in Cookie, NEW t \in Cookie, NEW e \in Characters
  PROVE  /\ s \o Append(t, e) = Append(s \o t, e)
         /\ s \o t \in Cookie /\ Append(t, e) \in Cookie
  BY DEF Cookie

(* A cookie adds itself and a line feed to the lines.                      *)
LEMMA SerializeMore ==
  ASSUME NEW front \in Seq(Cookie), NEW last \in Cookie, serialize(front) \in Cookie
  PROVE  /\ serialize(Append(front, last)) = Append(SoFar(front, last), LF)
         /\ serialize(Append(front, last)) \in Cookie
         /\ SoFar(front, last) \in Cookie
<1> DEFINE lines(cs) == [i \in DOMAIN cs |-> Append(cs[i], LF)]
<1>1. LF \in Characters /\ Append(last, LF) \in Cookie
  BY DEF Characters, Cookie
<1>2. lines(front) \in Seq(Cookie)
  <2>1. \A i \in 1..Len(front) : Append(front[i], LF) \in Cookie
    BY <1>1 DEF Cookie
  <2>2. DOMAIN front = 1..Len(front) /\ Len(front) \in Nat
    OBVIOUS
  <2>3. lines(front) \in [1..Len(front) -> Cookie]
    BY <2>1, <2>2
  <2> QED
    BY <2>2, <2>3
<1>3. lines(Append(front, last)) = Append(lines(front), Append(last, LF))
  <2>1. /\ Append(front, last) \in Seq(Cookie) /\ Len(front) \in Nat
        /\ DOMAIN Append(front, last) = 1..(Len(front) + 1)
        /\ \A i \in 1..Len(front) : Append(front, last)[i] = front[i]
        /\ Append(front, last)[Len(front) + 1] = last
        /\ DOMAIN front = 1..Len(front)
    OBVIOUS
  <2>2. Len(lines(front)) = Len(front) /\ Append(lines(front), Append(last, LF)) \in Seq(Cookie)
    BY <1>1, <1>2, <2>1
  <2>3. /\ DOMAIN Append(lines(front), Append(last, LF)) = 1..(Len(front) + 1)
        /\ \A i \in 1..Len(front) :
              Append(lines(front), Append(last, LF))[i] = Append(front[i], LF)
        /\ Append(lines(front), Append(last, LF))[Len(front) + 1] = Append(last, LF)
    BY <1>1, <1>2, <2>1, <2>2
  <2> QED
    BY <2>1, <2>3
<1>4. serialize(front) = FlattenSeq(lines(front))
      /\ serialize(Append(front, last)) = FlattenSeq(lines(Append(front, last)))
  BY DEF serialize
<1> HIDE DEF lines
<1>5. /\ FlattenSeq(Append(lines(front), Append(last, LF)))
           = FlattenSeq(lines(front)) \o Append(last, LF)
      /\ FlattenSeq(Append(lines(front), Append(last, LF))) \in Cookie
  BY <1>1, <1>2, <1>4, FlattenAppend DEF Cookie
<1>6. /\ serialize(front) \o Append(last, LF) = Append(serialize(front) \o last, LF)
      /\ serialize(front) \o last \in Cookie
  BY <1>1, AppendLast
<1> QED
  BY <1>3, <1>4, <1>5, <1>6 DEF SoFar

LEMMA SoFarMore ==
  ASSUME NEW front \in Seq(Cookie), NEW last \in Cookie, serialize(front) \in Cookie,
         NEW c \in Characters
  PROVE  SoFar(front, Append(last, c)) = Append(SoFar(front, last), c)
  BY AppendLast DEF SoFar

(* One character more.                                                     *)
LEMMA CharacterFits ==
  ASSUME NEW front \in Seq(Cookie), NEW last \in Cookie, NEW c \in Characters,
         ReadFits(front, last)
  PROVE  ReadFits(front, Append(last, c))
<1> DEFINE r == Read(SoFar(front, last))
           q == Read(SoFar(front, Append(last, c)))
<1>1. /\ r \in [done : Seq(Cookie), line : Cookie]
      /\ \A i \in DOMAIN r.done : Clean(r.done[i])
      /\ \A i \in DOMAIN r.line : r.line[i] # LF
      /\ FlattenSeq(r.done) \in Cookie
      /\ FlattenSeq(r.done) \o r.line = Feedless(FlattenSeq(front) \o last)
      /\ (\A i \in DOMAIN front : Clean(front[i])) /\ (\A i \in DOMAIN last : last[i] # LF)
           => r.done = front /\ r.line = last
      /\ serialize(front) \in Cookie /\ FlattenSeq(front) \in Cookie
  BY DEF ReadFits, Reads
<1>2. q = Line(r, c)
  BY <1>1, SoFarMore, SerializeMore, ReadMore
<1> HIDE DEF r, q
<1>3. FlattenSeq(front) \o Append(last, c) = Append(FlattenSeq(front) \o last, c)
      /\ FlattenSeq(front) \o last \in Cookie
  BY <1>1, AppendLast
<1>4. Feedless(FlattenSeq(front) \o Append(last, c)) = Keep(Feedless(FlattenSeq(front) \o last), c)
  BY <1>3, ReadMore
<1>5. CASE c # LF
  <2>1. q.done = r.done /\ q.line = Append(r.line, c) /\ q \in [done : Seq(Cookie), line : Cookie]
    <3>1. q = [r EXCEPT !.line = Append(@, c)] /\ Append(r.line, c) \in Cookie
      BY <1>1, <1>2, <1>5, AppendLast DEF Line
    <3> QED
      BY <1>1, <3>1
  <2>2. \A i \in DOMAIN q.line : q.line[i] # LF
    BY <1>1, <1>5, <2>1 DEF Cookie
  <2>3. FlattenSeq(q.done) \o q.line = Feedless(FlattenSeq(front) \o Append(last, c))
    <3>1. FlattenSeq(r.done) \o Append(r.line, c) = Append(FlattenSeq(r.done) \o r.line, c)
      BY <1>1, AppendLast
    <3> QED
      BY <1>1, <1>4, <1>5, <2>1, <3>1 DEF Keep
  <2>4. ASSUME \A i \in DOMAIN front : Clean(front[i]),
               \A i \in DOMAIN Append(last, c) : Append(last, c)[i] # LF
        PROVE  q.done = front /\ q.line = Append(last, c)
    <3>1. \A i \in DOMAIN last : last[i] # LF
      BY <2>4 DEF Cookie
    <3> QED
      BY <1>1, <2>1, <2>4, <3>1
  <2> QED
    BY <1>1, <2>1, <2>2, <2>3, <2>4 DEF ReadFits, Reads, q
<1>6. CASE c = LF
  <2>1. /\ q = [done |-> IF r.line = <<>> THEN r.done ELSE Append(r.done, r.line), line |-> <<>>]
        /\ q \in [done : Seq(Cookie), line : Cookie]
    BY <1>1, <1>2, <1>6 DEF Line, Cookie
  <2>2. /\ \A i \in DOMAIN q.done : Clean(q.done[i])
        /\ FlattenSeq(q.done) \in Cookie
        /\ FlattenSeq(q.done) = FlattenSeq(r.done) \o r.line
    <3>1. CASE r.line = <<>>
      BY <1>1, <2>1, <3>1 DEF Cookie
    <3>2. CASE r.line # <<>>
      <4>1. q.done = Append(r.done, r.line) /\ Clean(r.line)
        BY <1>1, <2>1, <3>2 DEF Clean
      <4>2. \A i \in DOMAIN q.done : Clean(q.done[i])
        BY <1>1, <4>1
      <4>3. /\ FlattenSeq(Append(r.done, r.line)) = FlattenSeq(r.done) \o r.line
            /\ FlattenSeq(Append(r.done, r.line)) \in Cookie
        BY <1>1, FlattenAppend DEF Cookie
      <4> QED
        BY <4>1, <4>2, <4>3
    <3> QED
      BY <3>1, <3>2
  <2>3. FlattenSeq(q.done) \o q.line = Feedless(FlattenSeq(front) \o Append(last, c))
    BY <1>1, <1>4, <1>6, <2>1, <2>2 DEF Keep, Cookie
  <2>4. ~ \A i \in DOMAIN Append(last, c) : Append(last, c)[i] # LF
    <3>1. Len(last) + 1 \in DOMAIN Append(last, c) /\ Append(last, c)[Len(last) + 1] = c
      BY DEF Cookie
    <3> QED
      BY <1>6, <3>1
  <2>5. q.line = <<>> /\ \A i \in DOMAIN q.line : q.line[i] # LF
    BY <2>1
  <2> QED
    BY <1>1, <2>1, <2>2, <2>3, <2>4, <2>5 DEF ReadFits, Reads, q
<1> QED
  BY <1>5, <1>6

(* A line feed, and a cookie of no characters yet.                         *)
LEMMA CookieFits ==
  ASSUME NEW front \in Seq(Cookie), NEW last \in Cookie, ReadFits(front, last)
  PROVE  ReadFits(Append(front, last), <<>>)
<1> DEFINE r == Read(SoFar(front, last))
           all == Append(front, last)
           q == Read(SoFar(all, <<>>))
<1>1. /\ r \in [done : Seq(Cookie), line : Cookie]
      /\ \A i \in DOMAIN r.done : Clean(r.done[i])
      /\ \A i \in DOMAIN r.line : r.line[i] # LF
      /\ FlattenSeq(r.done) \in Cookie
      /\ FlattenSeq(r.done) \o r.line = Feedless(FlattenSeq(front) \o last)
      /\ (\A i \in DOMAIN front : Clean(front[i])) /\ (\A i \in DOMAIN last : last[i] # LF)
           => r.done = front /\ r.line = last
      /\ serialize(front) \in Cookie /\ FlattenSeq(front) \in Cookie
  BY DEF ReadFits, Reads
<1>2. LF \in Characters /\ <<>> \in Cookie /\ \A s \in Cookie : s \o <<>> = s
  BY DEF Characters, Cookie
<1>3. /\ SoFar(all, <<>>) = Append(SoFar(front, last), LF)
      /\ SoFar(front, last) \in Cookie /\ serialize(all) \in Cookie
  BY <1>1, <1>2, SerializeMore DEF SoFar
<1>4. q = [done |-> IF r.line = <<>> THEN r.done ELSE Append(r.done, r.line), line |-> <<>>]
  <2>1. q = Line(r, LF)
    BY <1>2, <1>3, ReadMore
  <2> QED
    BY <2>1 DEF Line
<1>5. FlattenSeq(all) = FlattenSeq(front) \o last /\ FlattenSeq(all) \in Cookie
  BY <1>1, FlattenAppend DEF Cookie
<1> HIDE DEF r, q
<1>6. /\ q \in [done : Seq(Cookie), line : Cookie]
      /\ \A i \in DOMAIN q.done : Clean(q.done[i])
      /\ FlattenSeq(q.done) \in Cookie
      /\ FlattenSeq(q.done) = FlattenSeq(r.done) \o r.line
  <2>1. CASE r.line = <<>>
    BY <1>1, <1>2, <1>4, <2>1
  <2>2. CASE r.line # <<>>
    <3>1. q.done = Append(r.done, r.line) /\ q.line = <<>> /\ Clean(r.line)
      BY <1>1, <1>4, <2>2 DEF Clean
    <3>2. q.done \in Seq(Cookie) /\ \A i \in DOMAIN q.done : Clean(q.done[i])
      BY <1>1, <3>1
    <3>3. /\ FlattenSeq(Append(r.done, r.line)) = FlattenSeq(r.done) \o r.line
          /\ FlattenSeq(Append(r.done, r.line)) \in Cookie
      BY <1>1, FlattenAppend DEF Cookie
    <3> QED
      BY <1>2, <1>4, <3>1, <3>2, <3>3
  <2> QED
    BY <2>1, <2>2
<1>7. FlattenSeq(q.done) \o q.line = Feedless(FlattenSeq(all) \o <<>>)
  BY <1>1, <1>2, <1>4, <1>5, <1>6
<1>8. q.line = <<>> /\ \A i \in DOMAIN q.line : q.line[i] # LF
  BY <1>4
<1>9. ASSUME \A i \in DOMAIN all : Clean(all[i]) PROVE q.done = all
  <2>1. /\ \A i \in DOMAIN front : i \in DOMAIN all /\ all[i] = front[i]
        /\ Len(front) + 1 \in DOMAIN all /\ all[Len(front) + 1] = last
    OBVIOUS
  <2>2. (\A i \in DOMAIN front : Clean(front[i])) /\ Clean(last)
    BY <1>9, <2>1
  <2>3. last # <<>> /\ \A i \in DOMAIN last : last[i] # LF
    BY <2>2 DEF Clean
  <2> QED
    BY <1>1, <1>4, <2>2, <2>3
<1> HIDE DEF all
<1> QED
  <2>1. q.line = <<>>
    BY <1>4
  <2>2. (\A i \in DOMAIN all : Clean(all[i])) => q.done = all /\ q.line = <<>>
    BY <1>9, <2>1
  <2>3. ASSUME NEW e, e = <<>> PROVE Reads(q, all, e)
    <3>1. FlattenSeq(q.done) \o q.line = Feedless(FlattenSeq(all) \o e)
      BY <1>7, <2>3
    <3>2. (\A i \in DOMAIN all : Clean(all[i])) /\ (\A i \in DOMAIN e : e[i] # LF)
          => q.done = all /\ q.line = e
      BY <2>2, <2>3
    <3>3. \A i \in DOMAIN q.line : q.line[i] # LF
      BY <1>8
    <3> QED
      BY <1>6, <3>1, <3>2, <3>3 DEF Reads
  <2>4. Reads(q, all, <<>>)
    BY <2>3, Zenon
  <2>5. Reads(Read(SoFar(all, <<>>)), all, <<>>)
    BY <2>4 DEF q
  <2> QED
    BY <1>3, <1>5, <2>5 DEF ReadFits, all

LEMMA NothingFits == ReadFits(<<>>, <<>>)
<1>1. serialize(<<>>) = <<>> /\ FlattenSeq(<<>>) = <<>>
  BY DEF serialize, FlattenSeq
<1>2. SoFar(<<>>, <<>>) = <<>> /\ <<>> \o <<>> = <<>> /\ <<>> \in Cookie /\ <<>> \in Seq(Cookie)
  BY <1>1 DEF SoFar, Cookie
<1>3. Read(SoFar(<<>>, <<>>)) = NoLine /\ Feedless(<<>>) = <<>>
  BY <1>2, ReadNothing
<1>4. DOMAIN <<>> = {}
  OBVIOUS
<1>5. Reads(NoLine, <<>>, <<>>)
  BY <1>1, <1>2, <1>3, <1>4 DEF Reads, NoLine
<1> QED
  BY <1>1, <1>2, <1>3, <1>5 DEF ReadFits

(* What ReadFits says of complete lines.                                   *)
LEMMA LinesFit == texts \in Seq(Cookie) /\ ReadFits(texts, <<>>) => LinesSurvive
<1> SUFFICES ASSUME texts \in Seq(Cookie), ReadFits(texts, <<>>) PROVE LinesSurvive
  OBVIOUS
<1> DEFINE r == Read(SoFar(texts, <<>>))
           back == deserialize(serialize(texts))
<1>0. \A i \in DOMAIN <<>> : <<>>[i] # LF
  OBVIOUS
<1>1. /\ r \in [done : Seq(Cookie), line : Cookie]
      /\ \A i \in DOMAIN r.done : Clean(r.done[i])
      /\ \A i \in DOMAIN r.line : r.line[i] # LF
      /\ FlattenSeq(r.done) \in Cookie
      /\ FlattenSeq(r.done) \o r.line = Feedless(FlattenSeq(texts) \o <<>>)
      /\ (\A i \in DOMAIN texts : Clean(texts[i])) => r.done = texts /\ r.line = <<>>
      /\ serialize(texts) \in Cookie /\ FlattenSeq(texts) \in Cookie
  BY <1>0 DEF ReadFits, Reads
<1>2. \A s \in Cookie : s \o <<>> = s
  BY DEF Cookie
<1>3. SoFar(texts, <<>>) = serialize(texts)
  BY <1>1, <1>2 DEF SoFar
<1>4. back = IF r.line = <<>> THEN r.done ELSE Append(r.done, r.line)
  BY <1>3 DEF deserialize
<1> HIDE DEF r, back
<1>5. (\A i \in DOMAIN texts : Clean(texts[i])) => back = texts
  BY <1>1, <1>4
<1>6. \A i \in DOMAIN back : Clean(back[i])
  <2>1. CASE r.line = <<>>
    BY <1>1, <1>4, <2>1
  <2>2. CASE r.line # <<>>
    <3>1. Clean(r.line) /\ back = Append(r.done, r.line)
      BY <1>1, <1>4, <2>2 DEF Clean
    <3> QED
      BY <1>1, <3>1
  <2> QED
    BY <2>1, <2>2
<1>7. FlattenSeq(back) = FlattenSeq(r.done) \o r.line
  <2>1. FlattenSeq(Append(r.done, r.line)) = FlattenSeq(r.done) \o r.line
    BY <1>1, FlattenAppend DEF Cookie
  <2> QED
    BY <1>1, <1>2, <1>4, <2>1
<1>8. FlattenSeq(back) = Feedless(FlattenSeq(texts))
  BY <1>1, <1>2, <1>7
<1> QED
  BY <1>5, <1>6, <1>8 DEF LinesSurvive, Survive, back

-----------------------------------------------------------------------------
(* Every vector of cookies is its last cookie after the others.            *)
LinesInv ==
    \/ texts = <<>>
    \/ \E front \in Seq(Cookie), last \in Cookie :
          texts = Append(front, last) /\ ReadFits(front, last)

(* They are complete lines as well.                                        *)
LEMMA LinesComplete ==
  LinesInv => /\ texts \in Seq(Cookie) /\ ReadFits(texts, <<>>)
              /\ serialize(texts) \in Cookie
<1>1. <<>> \in Seq(Cookie)
  OBVIOUS
<1>2. ASSUME NEW front \in Seq(Cookie), NEW last \in Cookie
      PROVE  Append(front, last) \in Seq(Cookie)
  OBVIOUS
<1>3. LinesInv => texts \in Seq(Cookie) /\ ReadFits(texts, <<>>)
  BY <1>1, <1>2, NothingFits, CookieFits DEF LinesInv
<1> QED
  BY <1>3 DEF ReadFits

(* The last cookie grows where it is.                                      *)
LEMMA LastGrows ==
  ASSUME NEW front \in Seq(Cookie), NEW last \in Cookie, NEW c \in Characters
  PROVE  LET cs == Append(front, last)
         IN  [cs EXCEPT ![Len(cs)] = Append(@, c)] = Append(front, Append(last, c))
<1>1. Append(last, c) \in Cookie
  BY AppendLast
<1>2. PICK cs : cs = Append(front, last)
  OBVIOUS
<1> DEFINE more == [cs EXCEPT ![Len(cs)] = Append(@, c)]
<1>3. /\ cs \in Seq(Cookie) /\ Len(front) \in Nat /\ Len(cs) = Len(front) + 1
      /\ cs[Len(cs)] = last /\ DOMAIN cs = 1..(Len(front) + 1)
      /\ \A i \in 1..Len(front) : cs[i] = front[i]
  BY <1>2
<1>4. more = [cs EXCEPT ![Len(front) + 1] = Append(last, c)]
  BY <1>3
<1> HIDE DEF more
<1>5. /\ DOMAIN more = 1..(Len(front) + 1) /\ more[Len(front) + 1] = Append(last, c)
      /\ \A i \in 1..Len(front) : more[i] = front[i]
  BY <1>3, <1>4
<1>6. more \in Seq(Cookie) /\ Len(more) = Len(front) + 1
  BY <1>1, <1>3, <1>4, ExceptSeq
<1>7. more = Append(front, Append(last, c))
  BY <1>1, <1>3, <1>5, <1>6
<1> QED
  BY <1>2, <1>7 DEF more

LEMMA LinesKept == LinesInv /\ [PayloadNext]_texts => LinesInv'
<1> SUFFICES ASSUME LinesInv, [PayloadNext]_texts PROVE LinesInv'
  OBVIOUS
<1>1. <<>> \in Cookie
  BY DEF Cookie
<1>2. CASE NewCookie
  BY <1>1, <1>2, LinesComplete DEF NewCookie, LinesInv
<1>3. CASE Character
  <2>1. PICK c \in Characters : texts' = [texts EXCEPT ![Len(texts)] = Append(@, c)]
    BY <1>3 DEF Character
  <2>2. PICK front \in Seq(Cookie), last \in Cookie :
           texts = Append(front, last) /\ ReadFits(front, last)
    BY <1>3 DEF Character, LinesInv
  <2>3. Append(last, c) \in Cookie
    BY AppendLast
  <2>4. texts' = Append(front, Append(last, c))
    BY <2>1, <2>2, LastGrows
  <2> QED
    BY <2>2, <2>3, <2>4, CharacterFits DEF LinesInv
<1>4. CASE UNCHANGED texts
  BY <1>4 DEF LinesInv
<1> QED
  BY <1>2, <1>3, <1>4 DEF PayloadNext

(* Whatever the cookies a page has, of however many characters: clean ones *)
(* come out of their lines as they went in, and no character but a line    *)
(* feed is lost, added or moved.                                           *)
THEOREM CookiesSurvive == PayloadSpec => []LinesSurvive
<1>1. PayloadInit => LinesInv
  BY DEF PayloadInit, LinesInv
<1>2. LinesInv => LinesSurvive
  BY LinesComplete, LinesFit
<1> QED
  BY <1>1, <1>2, LinesKept, PTL DEF PayloadSpec

-----------------------------------------------------------------------------
(* The four bytes of a size give the size.                                 *)
LEMMA SizeArithmetic ==
  ASSUME NEW n \in Nat, n <= 2147483647
  PROVE  ((n \div 16777216) % 256) * 16777216 + ((n \div 65536) % 256) * 65536
           + ((n \div 256) % 256) * 256 + (n % 256) = n
<1> DEFINE a == n \div 256
           b == n \div 65536
           d == n \div 16777216
<1>1. a \in Nat /\ n = (256 * a) + (n % 256) /\ n % 256 \in 0..255
  BY SMT
<1>2. b \in Nat /\ a = (256 * b) + (a % 256)
  BY SMT
<1>3. d \in Nat /\ b = (256 * d) + (b % 256) /\ d <= 127
  BY SMT
<1>4. d % 256 = d
  BY <1>3, SMT
<1> QED
  BY <1>1, <1>2, <1>3, <1>4, SMT

(* What uncompress finds before and behind them.                           *)
LEMMA SizeFound ==
  ASSUME NEW n \in Nat, n <= 2 * MaxText, NEW packed
  PROVE  LET data == Header(n) \o <<packed>>
         IN  Len(data) = 5 /\ data[5] = packed /\ expectedSize(data) = n
<1>1. ASSUME NEW w, NEW x, NEW y, NEW z
      PROVE  LET data == <<w, x, y, z>> \o <<packed>>
             IN  /\ Len(data) = 5 /\ data[1] = w /\ data[2] = x
                 /\ data[3] = y /\ data[4] = z /\ data[5] = packed
  OBVIOUS
<1> DEFINE w == (n \div 16777216) % 256
           x == (n \div 65536) % 256
           y == (n \div 256) % 256
           z == n % 256
           data == Header(n) \o <<packed>>
<1>2. w * 16777216 + x * 65536 + y * 256 + z = n
  <2>1. n <= 2147483647
    BY PayloadAssumption, SMT
  <2> QED
    BY <2>1, SizeArithmetic, SMT
<1>3. Header(n) = <<w, x, y, z>>
  BY SMT DEF Header
<1> HIDE DEF w, x, y, z
<1>4. /\ Len(data) = 5 /\ data[1] = w /\ data[2] = x
      /\ data[3] = y /\ data[4] = z /\ data[5] = packed
  BY <1>1, <1>3
<1> HIDE DEF data
<1>5. expectedSize(data) = n
  BY <1>2, <1>4, SMT DEF expectedSize
<1> QED
  BY <1>4, <1>5 DEF data

LEMMA LargestIsIn ==
  ASSUME NEW b \in Nat, NEW T \in SUBSET (0..b), T # {}
  PROVE  Max(T) \in T
<1> DEFINE D == {d \in Nat : d <= b /\ b - d \in T}
<1>1. PICK x \in T : TRUE
  OBVIOUS
<1>2. x \in Nat /\ b - x \in Nat /\ b - x <= b /\ b - (b - x) = x
  BY <1>1
<1>3. D # {} /\ D \in SUBSET Nat
  BY <1>1, <1>2
<1>4. PICK d \in D : \A e \in D : d <= e
  BY <1>3, Least
<1>5. d \in Nat /\ b - d \in T
  BY <1>4
<1>6. ASSUME NEW y \in T PROVE b - d >= y
  <2>1. y \in Nat /\ b - y \in Nat /\ b - y <= b /\ b - (b - y) = y
    OBVIOUS
  <2>2. b - y \in D
    BY <2>1
  <2>3. d <= b - y
    BY <1>4, <2>2
  <2> QED
    BY <1>5, <2>1, <2>3
<1> QED
  BY <1>5, <1>6 DEF Max

(* There is room for at least as much as was announced, and for less than  *)
(* twice as much as is needed if that was more.                            *)
LEMMA RoomFits ==
  ASSUME NEW first \in Nat, NEW n \in Nat
  PROVE  /\ Room(first, n) \in Nat
         /\ Room(first, n) <= first \/ Room(first, n) < 2 * n
         /\ first >= n => Room(first, n) = first
<1>1. CASE first >= n
  BY <1>1 DEF Room
<1>2. CASE ~(first >= n)
  <2> DEFINE T == {first} \cup {m \in n..(2 * n - 1) : \E k \in 1..n : m = first * 2^k}
  <2>1. Room(first, n) = Max(T)
    BY <1>2 DEF Room
  <2>2. /\ T \in SUBSET (0..(first + 2 * n)) /\ T # {} /\ first + 2 * n \in Nat
        /\ \A m \in T : m = first \/ m < 2 * n
    <3>1. \A m \in n..(2 * n - 1) : m \in 0..(first + 2 * n) /\ m < 2 * n
      OBVIOUS
    <3>2. first \in 0..(first + 2 * n) /\ first + 2 * n \in Nat
      OBVIOUS
    <3> QED
      BY <3>1, <3>2
  <2> HIDE DEF T
  <2>3. PICK m : m = Max(T)
    OBVIOUS
  <2>4. m \in T
    BY <2>2, <2>3, LargestIsIn
  <2>5. m \in Nat /\ (m <= first \/ m < 2 * n)
    BY <2>2, <2>4
  <2> QED
    BY <1>2, <2>1, <2>3, <2>5
<1> QED
  BY <1>1, <1>2

(* The text that was packed comes first, and zeros fill the room.          *)
LEMMA TextThenZeros ==
  ASSUME NEW text \in Cookie, text # <<>>, Len(text) <= MaxText,
         NEW n \in Nat, n <= 2 * MaxText
  PROVE  \E k \in 0..(2 * MaxText) :
            /\ uncompress(Header(n) \o deflate(text)) = text \o Zeros(k)
            /\ n = Len(text) => k = 0
<1> DEFINE data == Header(n) \o deflate(text)
           first == Max({n, 1})
           room == Room(first, Len(text))
<1>1. Len(text) \in Nat /\ Len(text) >= 1 /\ MaxText \in Nat
  BY PayloadAssumption DEF Cookie
<1>2. Len(data) = 5 /\ data[5] = [deflated |-> text] /\ expectedSize(data) = n
  BY SizeFound DEF deflate
<1> HIDE DEF data
<1>3. uncompress(data) = text \o Zeros(room - Len(text))
  BY <1>2 DEF uncompress, Inflated
<1>4. first \in Nat /\ first <= 2 * MaxText /\ (n = Len(text) => first = n)
  <2>1. first = IF n >= 1 THEN n ELSE 1
    BY DEF Max
  <2> QED
    BY <1>1, <2>1
<1> HIDE DEF first
<1>5. /\ room \in Nat /\ (room <= first \/ room < 2 * Len(text))
      /\ (first >= Len(text) => room = first)
  BY <1>1, <1>4, RoomFits
<1> HIDE DEF room
<1> DEFINE k == IF room >= Len(text) THEN room - Len(text) ELSE 0
<1>6. k \in 0..(2 * MaxText) /\ (n = Len(text) => k = 0)
  BY <1>1, <1>4, <1>5
<1>7. Zeros(room - Len(text)) = Zeros(k)
  <2>1. 1..(room - Len(text)) = 1..k
    BY <1>1, <1>5
  <2> QED
    BY <2>1 DEF Zeros
<1> QED
  BY <1>3, <1>6, <1>7 DEF data

LEMMA NoZeros == Zeros(0) = <<>> /\ \A text \in Cookie : text \o Zeros(0) = text
<1>1. Zeros(0) = <<>>
  BY DEF Zeros
<1>2. \A text \in Cookie : text \o <<>> = text
  BY DEF Cookie
<1> QED
  BY <1>1, <1>2

LEMMA Uncompressed ==
  ASSUME NEW text \in Cookie, Len(text) <= MaxText
  PROVE  uncompress(compress(text)) = text
<1>1. CASE text = <<>>
  <2>1. Len(Header(0)) = 4
    BY DEF Header
  <2> QED
    BY <1>1, <2>1 DEF compress, uncompress
<1>2. CASE text # <<>>
  <2>1. Len(text) \in Nat /\ Len(text) <= 2 * MaxText
    BY PayloadAssumption DEF Cookie
  <2>2. uncompress(Header(Len(text)) \o deflate(text)) = text \o Zeros(0)
    BY <1>2, <2>1, TextThenZeros
  <2> QED
    BY <1>2, <2>2, NoZeros DEF compress
<1> QED
  BY <1>1, <1>2

-----------------------------------------------------------------------------
(* Complete lines leave no line begun.                                     *)
LEMMA LinesEnd ==
  LinesInv => LET r == Read(serialize(texts))
              IN  r.done \in Seq(Cookie) /\ r = [done |-> r.done, line |-> <<>>]
<1>1. CASE texts = <<>>
  <2>1. serialize(<<>>) = <<>>
    BY DEF serialize, FlattenSeq
  <2>2. <<>> \in Seq(Cookie)
    OBVIOUS
  <2> QED
    <3>1. Read(serialize(texts)) = [done |-> <<>>, line |-> <<>>]
      BY <1>1, <2>1, ReadNothing DEF NoLine
    <3>2. PICK e : e = <<>>
      OBVIOUS
    <3>3. e \in Seq(Cookie) /\ Read(serialize(texts)) = [done |-> e, line |-> e]
      BY <2>2, <3>1, <3>2
    <3>4. Read(serialize(texts)) = [done |-> Read(serialize(texts)).done, line |-> e]
          /\ Read(serialize(texts)).done \in Seq(Cookie)
      BY <3>3
    <3> QED
      BY <3>2, <3>4
<1>2. ASSUME NEW front \in Seq(Cookie), NEW last \in Cookie,
             texts = Append(front, last), ReadFits(front, last)
      PROVE  LET r == Read(serialize(texts))
             IN  r.done \in Seq(Cookie) /\ r = [done |-> r.done, line |-> <<>>]
  <2> DEFINE q == Read(SoFar(front, last))
             r == Read(serialize(texts))
  <2>1. /\ q \in [done : Seq(Cookie), line : Cookie] /\ serialize(front) \in Cookie
        /\ LF \in Characters
    BY <1>2 DEF ReadFits, Reads, Characters
  <2>2. /\ serialize(texts) = Append(SoFar(front, last), LF)
        /\ SoFar(front, last) \in Cookie
    BY <1>2, <2>1, SerializeMore
  <2>3. r = Line(q, LF)
    BY <2>1, <2>2, ReadMore
  <2> HIDE DEF q, r
  <2>4. r = [done |-> IF q.line = <<>> THEN q.done ELSE Append(q.done, q.line), line |-> <<>>]
    BY <2>3 DEF Line
  <2> QED
    BY <2>1, <2>4 DEF r
<1> QED
  BY <1>1, <1>2 DEF LinesInv

(* Zeros behind them are a line begun.                                     *)
LEMMA ZerosRead ==
  ASSUME NEW text \in Cookie, NEW done, Read(text) = [done |-> done, line |-> <<>>],
         NEW k \in Nat
  PROVE  Read(text \o Zeros(k)) = [done |-> done, line |-> Zeros(k)]
<1> DEFINE Bytes == Characters \cup {0}
           S == {j \in Nat : Read(text \o Zeros(j)) = [done |-> done, line |-> Zeros(j)]}
<1>1. 0 \in S
  BY NoZeros
<1>2. ASSUME NEW j \in Nat, j \in S PROVE j + 1 \in S
  <2>1. /\ text \in Seq(Bytes) /\ Zeros(j) \in Seq(Bytes) /\ 0 \in Bytes
        /\ text \o Zeros(j) \in Seq(Bytes)
        /\ text \o Append(Zeros(j), 0) = Append(text \o Zeros(j), 0)
    <3>1. text \in Seq(Bytes) /\ 0 \in Bytes
      BY DEF Cookie
    <3>2. Zeros(j) \in Seq(Bytes)
      BY DEF Zeros
    <3> HIDE DEF Bytes
    <3> QED
      BY <3>1, <3>2
  <2>2. Append(Zeros(j), 0) = Zeros(j + 1)
    BY DEF Zeros
  <2>3. Read(Append(text \o Zeros(j), 0)) = Line(Read(text \o Zeros(j)), 0)
    <3> HIDE DEF Bytes
    <3> QED
      BY <2>1, LineRead
  <2>4. Read(text \o Zeros(j)) = [done |-> done, line |-> Zeros(j)]
    BY <1>2
  <2>5. Line([done |-> done, line |-> Zeros(j)], 0) = [done |-> done, line |-> Append(Zeros(j), 0)]
    <3>1. 0 # LF
      BY DEF LF
    <3>2. ASSUME NEW l, NEW d
          PROVE  Line([done |-> d, line |-> l], 0) = [done |-> d, line |-> Append(l, 0)]
      BY <3>1 DEF Line
    <3> QED
      BY <3>2
  <2>6. Read(text \o Zeros(j + 1)) = [done |-> done, line |-> Zeros(j + 1)]
    <3>1. Read(text \o Append(Zeros(j), 0)) = [done |-> done, line |-> Append(Zeros(j), 0)]
      BY <2>1, <2>3, <2>4, <2>5
    <3> QED
      BY <2>2, <3>1
  <2> QED
    BY <2>6
<1>3. Nat \subseteq S
  BY <1>1, <1>2, Induction
<1> QED
  BY <1>3

-----------------------------------------------------------------------------
(* What Unpack makes of any bytes that come with the checksum Pack gave.   *)
LEMMA Unpacks ==
  ASSUME NEW bytes
  PROVE  Unpack(Pack(texts).checksum, toBase64(Encrypt(bytes)))
           = IF checksum(uncompress(bytes)) = checksum(serialize(texts))
             THEN deserialize(uncompress(bytes)) ELSE Refused
<1>1. Decrypt(fromBase64(toBase64(Encrypt(bytes)))) = bytes
  BY DEF Decrypt, fromBase64, toBase64, Encrypt
<1>2. Pack(texts).checksum = checksum(serialize(texts))
  BY DEF Pack
<1> QED
  BY <1>1, <1>2 DEF Unpack

(* What was packed is unpacked, whatever the checksum.                     *)
LEMMA ComesThrough ==
  ASSUME serialize(texts) \in Cookie, Len(serialize(texts)) <= MaxText
  PROVE  Unpack(Pack(texts).checksum, Pack(texts).payload) = deserialize(serialize(texts))
<1>1. uncompress(compress(serialize(texts))) = serialize(texts)
  BY Uncompressed
<1>2. Pack(texts).payload = toBase64(Encrypt(compress(serialize(texts))))
  BY DEF Pack
<1> QED
  BY <1>1, <1>2, Unpacks

(* A changed character changes the checksum.                               *)
LEMMA ChangeRefused ==
  ASSUME serialize(texts) \in Cookie, Len(serialize(texts)) <= MaxText,
         NEW i \in DOMAIN serialize(texts), NEW c \in Characters \ {serialize(texts)[i]}
  PROVE  Unpack(Pack(texts).checksum,
                toBase64(Encrypt(compress([serialize(texts) EXCEPT ![i] = c])))) = Refused
<1>1. PICK text : text = serialize(texts)
  OBVIOUS
<1> DEFINE changed == [text EXCEPT ![i] = c]
<1>2. /\ text \in Cookie /\ Len(text) \in 0..MaxText /\ i \in 1..Len(text)
      /\ c \in Characters \ {text[i]} /\ text \in [1..Len(text) -> Characters]
  BY <1>1, PayloadAssumption DEF Cookie
<1>3. changed \in Cookie /\ Len(changed) = Len(text)
  BY <1>2, ExceptSeq DEF Cookie
<1>4. checksum(changed) # checksum(text)
  BY <1>2, ChecksumAssumption
<1> HIDE DEF changed
<1>5. uncompress(compress(changed)) = changed
  BY <1>2, <1>3, Uncompressed
<1> QED
  BY <1>1, <1>4, <1>5, Unpacks DEF changed

(* A changed size adds zeros, if anything.                                 *)
LEMMA SizeHarmless ==
  ASSUME LinesInv, serialize(texts) \in Cookie, Len(serialize(texts)) <= MaxText,
         serialize(texts) # <<>>, NEW n \in 0..(2 * MaxText)
  PROVE  LET got == Unpack(Pack(texts).checksum,
                           toBase64(Encrypt(Header(n) \o deflate(serialize(texts)))))
             back == deserialize(serialize(texts))
         IN  got \in {back, Refused} \/ \E m \in 1..(2 * MaxText) : got = Append(back, Zeros(m))
<1>1. PICK text : text = serialize(texts)
  OBVIOUS
<1> DEFINE bytes == Header(n) \o deflate(text)
           got == Unpack(Pack(texts).checksum, toBase64(Encrypt(bytes)))
<1>2. text \in Cookie /\ text # <<>> /\ Len(text) <= MaxText
  BY <1>1
<1>3. n \in Nat /\ n <= 2 * MaxText /\ 2 * MaxText \in Nat
  BY PayloadAssumption
<1>4. PICK k \in 0..(2 * MaxText) : uncompress(bytes) = text \o Zeros(k)
  BY <1>2, <1>3, TextThenZeros
<1> HIDE DEF bytes
<1>5. got \in {deserialize(text \o Zeros(k)), Refused}
  BY <1>4, Unpacks
<1>6. PICK done : Read(text) = [done |-> done, line |-> <<>>]
  BY <1>1, LinesEnd
<1>7. Read(text \o Zeros(k)) = [done |-> done, line |-> Zeros(k)]
  BY <1>2, <1>3, <1>6, ZerosRead
<1>8. deserialize(text) = done
  BY <1>6 DEF deserialize
<1>9. deserialize(text \o Zeros(k)) = IF Zeros(k) = <<>> THEN done ELSE Append(done, Zeros(k))
  BY <1>7 DEF deserialize
<1>10. k = 0 \/ k \in 1..(2 * MaxText)
  BY <1>3
<1> HIDE DEF got
<1>11. \/ got \in {deserialize(text), Refused}
       \/ \E m \in 1..(2 * MaxText) : got = Append(deserialize(text), Zeros(m))
  BY <1>5, <1>8, <1>9, <1>10, NoZeros
<1> QED
  BY <1>1, <1>11 DEF got, bytes

(* The lines stay as short as their size can tell.                         *)
PackedInv == LinesInv /\ Len(serialize(texts)) <= MaxText

LEMMA PackedKept == PackedInv /\ [PayloadNext]_texts => PackedInv'
<1> SUFFICES ASSUME PackedInv, [PayloadNext]_texts PROVE PackedInv'
  OBVIOUS
<1>1. LinesInv'
  BY LinesKept DEF PackedInv
<1>2. /\ texts \in Seq(Cookie) /\ serialize(texts) \in Cookie /\ Len(serialize(texts)) \in Nat
      /\ <<>> \in Cookie /\ LF \in Characters
  BY LinesComplete DEF PackedInv, Cookie, Characters
<1>3. ASSUME NEW text \in Cookie, NEW c \in Characters
      PROVE  Len(Append(text, c)) = Len(text) + 1
  BY DEF Cookie
<1>4. CASE NewCookie
  <2>1. texts' = Append(texts, <<>>) /\ Len(serialize(texts)) < MaxText
    BY <1>4 DEF NewCookie
  <2>2. /\ serialize(Append(texts, <<>>)) = Append(SoFar(texts, <<>>), LF)
        /\ SoFar(texts, <<>>) = serialize(texts)
    <3>1. \A s \in Cookie : s \o <<>> = s
      BY DEF Cookie
    <3> QED
      BY <1>2, <3>1, SerializeMore DEF SoFar
  <2>3. Len(serialize(texts')) = Len(serialize(texts)) + 1
    BY <1>2, <1>3, <2>1, <2>2
  <2> QED
    BY <1>1, <1>2, <2>1, <2>3, PayloadAssumption DEF PackedInv
<1>5. CASE Character
  <2>1. PICK c \in Characters : texts' = [texts EXCEPT ![Len(texts)] = Append(@, c)]
    BY <1>5 DEF Character
  <2>2. PICK front \in Seq(Cookie), last \in Cookie :
           texts = Append(front, last) /\ ReadFits(front, last)
    BY <1>5 DEF Character, PackedInv, LinesInv
  <2>3. texts' = Append(front, Append(last, c)) /\ Append(last, c) \in Cookie
    BY <2>1, <2>2, LastGrows, AppendLast
  <2>4. /\ serialize(texts) = Append(SoFar(front, last), LF) /\ SoFar(front, last) \in Cookie
        /\ serialize(texts') = Append(Append(SoFar(front, last), c), LF)
    BY <2>2, <2>3, SerializeMore, SoFarMore DEF ReadFits
  <2>5. Append(SoFar(front, last), c) \in Cookie
    BY <2>4, AppendLast
  <2>6. Len(serialize(texts')) = Len(serialize(texts)) + 1
    <3>1. Len(SoFar(front, last)) \in Nat
      BY <2>4 DEF Cookie
    <3> QED
      BY <1>2, <1>3, <2>4, <2>5, <3>1
  <2>7. Len(serialize(texts)) < MaxText
    BY <1>5 DEF Character
  <2> QED
    BY <1>1, <1>2, <2>6, <2>7, PayloadAssumption DEF PackedInv
<1>6. CASE UNCHANGED texts
  BY <1>1, <1>6 DEF PackedInv
<1> QED
  BY <1>4, <1>5, <1>6 DEF PayloadNext

(* Cookies without line feeds survive packing, of others no character is   *)
(* lost but line feeds; a changed character is refused, a changed size     *)
(* changes no cookie: for every checksum that tells single changes, any    *)
(* number of cookies and any length that fits in an int.                   *)
THEOREM CookiesUnpacked == PayloadSpec => []RoundTrip
<1>1. PayloadInit => PackedInv
  <2>1. serialize(<<>>) = <<>>
    BY DEF serialize, FlattenSeq
  <2>2. Len(<<>>) = 0
    OBVIOUS
  <2> QED
    BY <2>1, <2>2, PayloadAssumption DEF PayloadInit, PackedInv, LinesInv
<1>2. PackedInv => RoundTrip
  <2> SUFFICES ASSUME PackedInv PROVE RoundTrip
    OBVIOUS
  <2>1. /\ LinesInv /\ LinesSurvive /\ serialize(texts) \in Cookie
        /\ Len(serialize(texts)) <= MaxText
    BY LinesComplete, LinesFit DEF PackedInv
  <2>2. Unpack(Pack(texts).checksum, Pack(texts).payload) = deserialize(serialize(texts))
    BY <2>1, ComesThrough
  <2>3. Survive(Unpack(Pack(texts).checksum, Pack(texts).payload))
    BY <2>1, <2>2 DEF LinesSurvive
  <2>4. ASSUME NEW i \in DOMAIN serialize(texts), NEW c \in Characters \ {serialize(texts)[i]}
        PROVE  Unpack(Pack(texts).checksum,
                      toBase64(Encrypt(compress([serialize(texts) EXCEPT ![i] = c])))) = Refused
    BY <2>1, ChangeRefused
  <2>5. ASSUME serialize(texts) # <<>>, NEW n \in 0..(2 * MaxText)
        PROVE  LET got == Unpack(Pack(texts).checksum,
                                 toBase64(Encrypt(Header(n) \o deflate(serialize(texts)))))
                   back == Unpack(Pack(texts).checksum, Pack(texts).payload)
               IN  \/ got \in {back, Refused}
                   \/ \E m \in 1..(2 * MaxText) : got = Append(back, Zeros(m))
    BY <2>1, <2>2, <2>5, SizeHarmless
  <2> QED
    BY <2>3, <2>4, <2>5 DEF RoundTrip
<1> QED
  BY <1>1, <1>2, PackedKept, PTL DEF PayloadSpec

-----------------------------------------------------------------------------
(* The load signals and the logger that hears them.                        *)
MetricsSpec == MetricsInit /\ [][MetricsNext]_metricsVars

IsLogger(l) ==
    DOMAIN l = {"sample", "didLog", "lastApp", "good", "bad", "report"}

(* The last sample is of the page the view shows, except that none is      *)
(* taken of the page the browser begins with; the report fits its sample.  *)
Sampled(l, uri) ==
    /\ IsLogger(l)
    /\ uri # StartPage => l.sample = uri
    /\ l.report.app # NoPage /\ l.report.success => HostOf(l.report.sample) = l.report.app

SamplesInv == Sampled(logger, view.uri)

LEMMA HearsUrl ==
  ASSUME NEW l, NEW uri, NEW p, Sampled(l, uri)
  PROVE  Sampled(Hear(l, Told("URLChange", p)), p)
<1>1. Hear(l, Told("URLChange", p)) = URLChange(l, p)
  BY DEF Hear, Told
<1> QED
  BY <1>1 DEF Sampled, IsLogger, URLChange

LEMMA HearsFinish ==
  ASSUME NEW l, NEW uri, Sampled(l, uri)
  PROVE  Sampled(Hear(l, Told("LoadFinished", uri)), uri)
<1> DEFINE counted == [l EXCEPT !.good = Count(@, uri)]
<1>1. Hear(l, Told("LoadFinished", uri)) = LogEnd(counted, uri, TRUE)
  BY DEF Hear, Told
<1>2. Sampled(counted, uri)
  BY DEF Sampled, IsLogger
<1> HIDE DEF counted
<1>3. Sampled(LogEnd(counted, uri, TRUE), uri)
  BY <1>2 DEF Sampled, IsLogger, LogEnd, Output
<1> QED
  BY <1>1, <1>3

LEMMA HearsFailure ==
  ASSUME NEW l, NEW uri, NEW p, Sampled(l, uri)
  PROVE  Sampled(Hear(l, Told("LoadFailed", p)), uri)
<1> DEFINE counted == [l EXCEPT !.bad = Count(@, p)]
<1>1. Hear(l, Told("LoadFailed", p)) = LogEnd(counted, p, FALSE)
  BY DEF Hear, Told
<1>2. Sampled(counted, uri)
  BY DEF Sampled, IsLogger
<1> HIDE DEF counted
<1>3. Sampled(LogEnd(counted, p, FALSE), uri)
  BY <1>2 DEF Sampled, IsLogger, LogEnd, Output
<1> QED
  BY <1>1, <1>3

(* What is told in one step is nothing, one thing, or a failure and the    *)
(* finish WebKit emits after it.                                           *)
LEMMA HearsMore ==
  ASSUME NEW l, NEW E, NEW s \in Seq(E), NEW x \in E
  PROVE  FoldLeft(Hear, l, Append(s, x)) = Hear(FoldLeft(Hear, l, s), x)
<1>1. ASSUME NEW by \in {"Hear", "Line", "Keep"}
      PROVE  Folded(by, l, Append(s, x)) = Step(by, Folded(by, l, s), x)
  BY FoldedAppend
<1> QED
  BY <1>1 DEF Folded, Step

LEMMA HearsNothing ==
  ASSUME NEW l PROVE FoldLeft(Hear, l, <<>>) = l
  BY FoldedNothing DEF Folded

LEMMA HearsOne ==
  ASSUME NEW l, NEW e PROVE FoldLeft(Hear, l, <<e>>) = Hear(l, e)
<1>1. PICK E : e \in E
  <2>1. e \in {e}
    OBVIOUS
  <2> QED
    BY <2>1
<1>2. ASSUME NEW s, s = <<>> PROVE FoldLeft(Hear, l, Append(s, e)) = Hear(FoldLeft(Hear, l, s), e)
  <2>1. s \in Seq(E)
    BY <1>2
  <2> QED
    BY <1>1, <2>1, HearsMore
<1>3. Append(<<>>, e) = <<e>>
  OBVIOUS
<1> QED
  BY <1>2, <1>3, HearsNothing

LEMMA SamplesKept == SamplesInv /\ [MetricsNext]_metricsVars => SamplesInv'
<1> SUFFICES ASSUME SamplesInv, [MetricsNext]_metricsVars PROVE SamplesInv'
  OBVIOUS
<1>0. CASE UNCHANGED metricsVars
  BY <1>0 DEF SamplesInv, metricsVars, loadVars
<1> SUFFICES ASSUME LoadNext, logger' = FoldLeft(Hear, logger, told') PROVE SamplesInv'
  BY <1>0 DEF MetricsNext
<1>1. Sampled(logger, view.uri)
  BY DEF SamplesInv
<1>2. ASSUME told' = <<>>, view'.uri = view.uri PROVE SamplesInv'
  <2>1. logger' = logger
    BY <1>2, HearsNothing
  <2> QED
    BY <1>1, <1>2, <2>1 DEF SamplesInv
<1>3. ASSUME NEW p, told' = uriChanged(p), view'.uri = p PROVE SamplesInv'
  <2>1. CASE p = view.uri
    BY <1>2, <1>3, <2>1 DEF uriChanged
  <2>2. CASE p # view.uri
    <3>1. logger' = Hear(logger, Told("URLChange", p))
      BY <1>3, <2>2, HearsOne DEF uriChanged
    <3> QED
      BY <1>1, <1>3, <3>1, HearsUrl DEF SamplesInv
  <2> QED
    BY <2>1, <2>2
<1>4. ASSUME told' = <<Told("LoadFinished", view.uri)>>, view' = view PROVE SamplesInv'
  <2>1. logger' = Hear(logger, Told("LoadFinished", view.uri))
    BY <1>4, HearsOne
  <2> QED
    BY <1>1, <1>4, <2>1, HearsFinish DEF SamplesInv
<1>5. ASSUME NEW p, told' = <<Told("LoadFailed", p)>>, view' = view PROVE SamplesInv'
  <2>1. logger' = Hear(logger, Told("LoadFailed", p))
    BY <1>5, HearsOne
  <2> QED
    BY <1>1, <1>5, <2>1, HearsFailure DEF SamplesInv
<1>6. ASSUME NEW p, NEW e, NEW d, view' = view, told' = Append(<<e>>, d),
             e = Told("LoadFailed", p), d = Told("LoadFinished", view.uri)
      PROVE  SamplesInv'
  <2>1. logger' = Hear(Hear(logger, e), d)
    <3>1. PICK E : e \in E /\ d \in E
      <4>1. e \in {e, d} /\ d \in {e, d}
        OBVIOUS
      <4> QED
        BY <4>1
    <3>2. ASSUME NEW s \in Seq(E)
          PROVE  FoldLeft(Hear, logger, Append(s, d)) = Hear(FoldLeft(Hear, logger, s), d)
      BY <3>1, HearsMore
    <3>3. <<e>> \in Seq(E)
      BY <3>1
    <3>4. FoldLeft(Hear, logger, Append(<<e>>, d)) = Hear(FoldLeft(Hear, logger, <<e>>), d)
      BY <3>2, <3>3, Zenon
    <3>5. FoldLeft(Hear, logger, <<e>>) = Hear(logger, e)
      BY HearsOne
    <3> QED
      BY <1>6, <3>4, <3>5
  <2>2. Sampled(Hear(logger, e), view.uri)
    BY <1>1, <1>6, HearsFailure
  <2>3. Sampled(Hear(Hear(logger, e), d), view.uri)
    BY <1>6, <2>2, HearsFinish
  <2> QED
    BY <1>6, <2>1, <2>3 DEF SamplesInv
<1>7. ASSUME NEW p \in Pages, SetURL(p) PROVE SamplesInv'
  BY <1>3, <1>7 DEF SetURL
<1>8. CASE (\E p \in HttpPages : Navigate(p)) \/ Engine \/ Fail
  BY <1>2, <1>8 DEF Navigate, Engine, TakeLoad, TakeUse, Respond, Finish, Fail, Sends, Quiet
<1>9. CASE Started
  BY <1>2, <1>3, <1>9 DEF Started
<1>10. CASE decidePolicy
  BY <1>2, <1>10 DEF decidePolicy
<1>11. CASE Finished \/ Cancelled
  <2>1. view' = view /\ told' \in {<<>>, <<Told("LoadFinished", view.uri)>>}
    BY <1>11 DEF Finished, Cancelled, loadChanged, UnchangedByEnd
  <2> QED
    BY <1>2, <1>4, <2>1
<1>12. CASE Failed
  <2>1. PICK p, e, d : /\ p = pages[Head(wire).load]
                      /\ e = Told("LoadFailed", p) /\ d = Told("LoadFinished", view.uri)
    OBVIOUS
  <2>2. view' = view
    BY <1>12 DEF Failed, UnchangedByEnd
  <2>3. told' = <<e>> \/ told' = Append(<<e>>, d)
    BY <1>12, <2>1 DEF Failed, loadChanged
  <2>4. CASE told' = <<e>>
    BY <1>5, <2>1, <2>2, <2>4
  <2>5. CASE told' = Append(<<e>>, d)
    BY <1>6, <2>1, <2>2, <2>5
  <2> QED
    BY <2>3, <2>4, <2>5
<1> QED
  BY <1>7, <1>8, <1>9, <1>10, <1>11, <1>12 DEF LoadNext, Signals

(* Whatever loads begin, end, fail or cancel one another: the metrics      *)
(* logged of a page that finished were sampled when the browser went to    *)
(* that page.                                                              *)
THEOREM SamplesFit == MetricsSpec => []SampledForItsPage
<1>1. MetricsInit => SamplesInv
  BY DEF MetricsInit, LoadInit, SamplesInv, Sampled, IsLogger
<1>2. SamplesInv => SampledForItsPage
  BY DEF SamplesInv, Sampled, SampledForItsPage
<1> QED
  BY <1>1, <1>2, SamplesKept, PTL DEF MetricsSpec

-----------------------------------------------------------------------------
(* A step of the run is a step of one part and leaves the others alone.    *)
LEMMA PartsMove ==
  [Next]_vars => /\ [MetricsNext]_metricsVars /\ [LoadNext]_loadVars /\ [ShellNext]_shellVars
                 /\ [SettingsNext]_settingsVars /\ [ListenersNext]_listenerVars
                 /\ [JarNext]_cookieVars /\ [ObserverNext]_memoryVars /\ [PayloadNext]_texts
<1>1. [Next]_vars => [MetricsNext]_metricsVars
  BY DEF Next, vars
<1>2. [MetricsNext]_metricsVars => [LoadNext]_loadVars
  BY DEF MetricsNext, metricsVars
<1>3. [Next]_vars => [ShellNext]_shellVars
  BY DEF Next, vars
<1>4. [Next]_vars => [SettingsNext]_settingsVars
  BY DEF Next, vars
<1>5. [Next]_vars => [ListenersNext]_listenerVars
  BY DEF Next, vars
<1>6. [Next]_vars => [JarNext]_cookieVars
  BY DEF Next, vars
<1>7. [Next]_vars => [ObserverNext]_memoryVars
  BY DEF Next, vars
<1>8. [Next]_vars => [PayloadNext]_texts
  BY DEF Next, vars
<1> QED
  BY <1>1, <1>2, <1>3, <1>4, <1>5, <1>6, <1>7, <1>8

(* What is proved of the parts on their own holds of the system the run    *)
(* checks, in which they are side by side: the browser is as safe as its   *)
(* parts, with the exceptions their properties name, for any number of     *)
(* clients, calls, loads, starts and processes.                            *)
THEOREM BrowserIsSafe ==
  Spec => /\ []NoEarlyFinish /\ []SampledForItsPage
          /\ []CallbacksFindTheirTarget /\ []LastReference /\ OperationalIsJustified
          /\ []SettingsAgree /\ []RequestsCarryHeaders
          /\ []CalledWhileHeld /\ []AnswerIsNewEnough /\ []SetReachesStore /\ []RoundTrip
<1>1. Init => /\ MetricsInit /\ LoadInit /\ ShellInit /\ SettingsInit /\ ListenersInit
              /\ JarInit /\ ObserverInit /\ PayloadInit
  BY DEF Init, MetricsInit
<1>2. Spec => /\ MetricsSpec /\ LoadSpec /\ ShellSpec /\ SettingsSpec /\ ListenersSpec
              /\ JarSpec /\ MemorySpec /\ PayloadSpec
  BY <1>1, PartsMove, PTL DEF Spec, MetricsSpec, LoadSpec, ShellSpec, SettingsSpec,
     ListenersSpec, JarSpec, MemorySpec, PayloadSpec
<1> QED
  BY <1>2, FinishIsNotEarly, SamplesFit, CallbacksAreSafe, NothingIsLeftBehind,
     MonitorIsToldTheTruth, SettingsWillAgree, HeadersGetThere, SinksAreHeld,
     AnswersAreNewEnough, SetIsStored, CookiesUnpacked, PTL
=============================================================================
