----------------------------- MODULE CookieJar ------------------------------
(***************************************************************************)
(* The cookie jar of WebKitImplementation: a copy of the cookies that the  *)
(* network process of WebKit stores, marked stale when the store changes   *)
(* and refreshed when a client asks for it.  A client may also replace the *)
(* cookies.  Clients call on threads of their own; the web thread talks to *)
(* the network process by messages, which keep their order (external).     *)
(* The lock _adminLock makes an access to the jar one step; what a client  *)
(* queues for the web thread it queues after its unlock, in another.       *)
(*                                                                         *)
(* A set of cookies is a number: who wrote it, and when, matter, not what  *)
(* is in it.  Version 0 is what the store has at first.                    *)
(***************************************************************************)
EXTENDS Integers, Sequences, SequencesExt

CONSTANTS
    Getters,       \* threads in the getter CookieJar(version, checksum, payload)
    MaxWrites,     \* bound: changes by pages, and calls of the setter
    MaxGets        \* bound: calls of the getter

ASSUME MaxWritesAssumption == MaxWrites \in Nat
ASSUME MaxGetsAssumption == MaxGets \in Nat

VARIABLES
    cookies,      \* _cookieJar._cookies, with the version of the store they show
    refreshed,    \* _cookieJar._refreshed
    tasks,        \* functions queued on _context
    toNetwork,    \* messages to the network process
    toWeb,        \* messages from it
    store,        \* the cookies in the network process
    version,      \* their version: the number of writes to the store
    written,      \* sets of cookies invented so far
    notified,     \* history: the version of the last change notified
    gets,         \* calls of the getter so far
    getter,       \* where each getter is: "idle", "stale" (it found the jar so),
                  \* "waiting", "refreshed", "done", "timedOut"
    since,        \* history: the last change notified when each getter began
    answer,       \* what each getter was given
    setters,      \* sets of cookies unpacked, but not yet queued to be stored
    lastSet,      \* history: the last set of cookies accepted by the setter ...
    raced         \* ... and whether a refresh was under way when it was, or
                  \* queued before it was queued to be stored

jarVars == <<cookies, refreshed>>
webVars == <<tasks, toNetwork, toWeb>>
storeVars == <<store, version, written>>
getVars == <<gets, getter, since, answer>>
setVars == <<setters, lastSet, raced>>
cookieVars == <<jarVars, webVars, storeVars, notified, getVars, setVars>>

(* Cookies unpacked from a client show no version of the store: they are   *)
(* newer than all that it had by then.                                     *)
Unpacked == -1

JarInit ==
    /\ cookies = [set |-> 0, version |-> 0] /\ refreshed = FALSE
    /\ tasks = <<>> /\ toNetwork = <<>> /\ toWeb = <<>>
    /\ store = 0 /\ version = 0 /\ written = 0
    /\ notified = 0
    /\ gets = 0 /\ getter = [g \in Getters |-> "idle"]
    /\ since = [g \in Getters |-> 0] /\ answer = [g \in Getters |-> 0]
    /\ setters = {} /\ lastSet = 0 /\ raced = FALSE

-----------------------------------------------------------------------------
(* The getter.  Under the lock it packs a fresh jar, or finds it stale.    *)
Answer(g) == answer' = [answer EXCEPT ![g] = cookies.version]

Get(g) ==
    /\ gets < MaxGets /\ gets' = gets + 1
    /\ getter[g] \in {"idle", "done", "timedOut"}
    /\ since' = [since EXCEPT ![g] = notified]
    /\ \/ /\ refreshed
          /\ getter' = [getter EXCEPT ![g] = "done"]
          /\ Answer(g)
       \/ /\ ~refreshed
          /\ getter' = [getter EXCEPT ![g] = "stale"]
          /\ UNCHANGED answer
    /\ UNCHANGED <<jarVars, webVars, storeVars, notified, setVars>>

(* Then, without the lock, it asks the web thread for a refresh, and waits. *)
AskForRefresh(g) ==
    /\ getter[g] = "stale"
    /\ getter' = [getter EXCEPT ![g] = "waiting"]
    /\ tasks' = Append(tasks, "refresh")
    /\ raced' = (raced \/ lastSet \in setters)
    /\ UNCHANGED <<jarVars, toNetwork, toWeb, storeVars, notified, gets, since, answer,
                   setters, lastSet>>

(* WaitForRefresh returns when it sees the jar refreshed.  The lock is     *)
(* taken again only then, and the jar packed as it is by that time.        *)
Refreshed(g) ==
    /\ getter[g] = "waiting" /\ refreshed
    /\ getter' = [getter EXCEPT ![g] = "refreshed"]
    /\ UNCHANGED <<jarVars, webVars, storeVars, notified, gets, since, answer, setVars>>

PackRefreshed(g) ==
    /\ getter[g] = "refreshed"
    /\ getter' = [getter EXCEPT ![g] = "done"]
    /\ Answer(g)
    /\ UNCHANGED <<jarVars, webVars, storeVars, notified, gets, since, setVars>>

(* ... or after a second: ERROR_TIMEDOUT.                                  *)
TimedOut(g) ==
    /\ getter[g] = "waiting" /\ ~refreshed
    /\ getter' = [getter EXCEPT ![g] = "timedOut"]
    /\ UNCHANGED <<jarVars, webVars, storeVars, notified, gets, since, answer, setVars>>

(* The setter: under the lock, Unpack replaces the cookies and marks them  *)
(* stale.                                                                  *)
RefreshUnderWay ==
    \/ "refresh" \in Range(tasks)
    \/ \E m \in Range(toNetwork) \cup Range(toWeb) : m.kind \in {"get", "cookies"}

Replace(v, fresh) ==
    /\ cookies' = [set |-> v, version |-> Unpacked]
    /\ refreshed' = fresh

Set ==
    /\ written < MaxWrites /\ written' = written + 1
    /\ Replace(written', FALSE)
    /\ setters' = setters \cup {written'}
    /\ lastSet' = written' /\ raced' = RefreshUnderWay
    /\ UNCHANGED <<webVars, store, version, notified, getVars>>

(* Then, without the lock, it asks the web thread to store whatever the    *)
(* jar has by the time it gets there.                                      *)
AskToStore(v) ==
    /\ setters' = setters \ {v}
    /\ tasks' = Append(tasks, "store")
    /\ UNCHANGED <<jarVars, toNetwork, toWeb, storeVars, notified, getVars, lastSet, raced>>

-----------------------------------------------------------------------------
(* The web thread runs RefreshCookieJar or SetCookies from its queue.      *)
RefreshCookieJar ==
    /\ tasks # <<>> /\ Head(tasks) = "refresh"
    /\ tasks' = Tail(tasks)
    /\ toNetwork' = Append(toNetwork, [kind |-> "get", set |-> 0])
    /\ UNCHANGED <<jarVars, toWeb, storeVars, notified, getVars, setVars>>

(* Faulty form: a stale jar is not stored.                                 *)
SetFreshCookies ==
    /\ tasks # <<>> /\ Head(tasks) = "store"
    /\ tasks' = Tail(tasks)
    /\ toNetwork' = IF refreshed
                    THEN Append(toNetwork, [kind |-> "set", set |-> cookies.set])
                    ELSE toNetwork
    /\ UNCHANGED <<jarVars, toWeb, storeVars, notified, getVars, setVars>>

SetCookies ==
    /\ tasks # <<>> /\ Head(tasks) = "store"
    /\ tasks' = Tail(tasks)
    /\ toNetwork' = Append(toNetwork, [kind |-> "set", set |-> cookies.set])
    /\ UNCHANGED <<jarVars, toWeb, storeVars, notified, getVars, setVars>>

Arrives(kind) == toWeb # <<>> /\ Head(toWeb).kind = kind /\ toWeb' = Tail(toWeb)

(* Faulty form: the clients are told, the jar is not.                      *)
NotifyClientsOnly ==
    /\ Arrives("changed")
    /\ notified' = Head(toWeb).version
    /\ UNCHANGED <<jarVars, tasks, toNetwork, storeVars, getVars, setVars>>

NotifyCookieJarChanged ==
    /\ Arrives("changed")
    /\ refreshed' = FALSE
    /\ notified' = Head(toWeb).version
    /\ UNCHANGED <<cookies, tasks, toNetwork, storeVars, getVars, setVars>>

(* The callback of RefreshCookieJar.                                       *)
CookiesReceived ==
    /\ Arrives("cookies")
    /\ cookies' = [set |-> Head(toWeb).set, version |-> Head(toWeb).version]
    /\ refreshed' = TRUE
    /\ UNCHANGED <<tasks, toNetwork, storeVars, notified, getVars, setVars>>

-----------------------------------------------------------------------------
(* The network process answers messages and lets pages change cookies.     *)
message(kind, v, n) == [kind |-> kind, set |-> v, version |-> n]

NetworkAnswers ==
    /\ toNetwork # <<>>
    /\ toNetwork' = Tail(toNetwork)
    /\ LET m == Head(toNetwork) IN
         \/ /\ m.kind = "get"
            /\ toWeb' = Append(toWeb, message("cookies", store, version))
            /\ UNCHANGED <<store, version>>
         \/ /\ m.kind = "set"
            /\ store' = m.set /\ version' = version + 1
            /\ toWeb' = Append(toWeb, message("changed", 0, version'))
    /\ UNCHANGED <<jarVars, tasks, written, notified, getVars, setVars>>

PageSetsCookie ==
    /\ written < MaxWrites /\ written' = written + 1
    /\ store' = written' /\ version' = version + 1
    /\ toWeb' = Append(toWeb, message("changed", 0, version'))
    /\ UNCHANGED <<jarVars, tasks, toNetwork, notified, getVars, setVars>>

-----------------------------------------------------------------------------
JarNext ==
    \/ \E g \in Getters :
          Get(g) \/ AskForRefresh(g) \/ Refreshed(g) \/ PackRefreshed(g) \/ TimedOut(g)
    \/ Set
    \/ \E v \in setters : AskToStore(v)
    \/ RefreshCookieJar \/ SetCookies \/ NotifyCookieJarChanged \/ CookiesReceived
    \/ NetworkAnswers \/ PageSetsCookie

-----------------------------------------------------------------------------
(* A client that is notified of a change and then asks never gets cookies  *)
(* from before that change, although its refresh may be answered by one    *)
(* that another client started (the getter CookieJar): it gets a version   *)
(* of the store that is new enough, or what a client has set meanwhile.    *)
NewEnough(v, n) == v = Unpacked \/ v >= n
AnswerIsNewEnough ==
    \A g \in Getters : getter[g] = "done" => NewEnough(answer[g], since[g])

(* When nothing is left to do, the cookies a client has set were stored:   *)
(* the store has them, or newer ones (the setter CookieJar, SetCookies).   *)
(* It is not so if a refresh was under way when they were unpacked, or was *)
(* queued between that and the task that stores them, since the setter has *)
(* no lock then: the answer puts old cookies in the jar, and those are     *)
(* stored.  A refresh asked for later is behind, and loses nothing.        *)
NothingLeft == setters = {} /\ tasks = <<>> /\ toNetwork = <<>> /\ toWeb = <<>>
SetReachesStore == (NothingLeft /\ lastSet > 0 /\ ~raced) => store >= lastSet
=============================================================================
