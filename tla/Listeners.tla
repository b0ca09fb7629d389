------------------------------ MODULE Listeners ------------------------------
(***************************************************************************)
(* The client lists of WebKitImplementation: sinks are registered and      *)
(* unregistered on the threads of clients while the web thread walks a     *)
(* list and calls, one after the other, the sinks it finds.  Every list    *)
(* holds a reference of its own; a sink may be on several.                 *)
(***************************************************************************)
EXTENDS Naturals, FiniteSets

CONSTANTS
    Sinks,       \* the clients' notification objects
    JarSinks     \* those of clients of the cookie jar

Lists == {"webBrowser", "browser", "application", "cookieJar"}

VARIABLES
    registered,  \* entries <<list, sink>> of the lists: the references held
    calling,     \* entries the web thread has still to call, under _adminLock
    leaving      \* entries whose client is inside Unregister

listenerVars == <<registered, calling, leaving>>

ListenersInit == registered = {} /\ calling = {} /\ leaving = {}

Locked == calling # {}

Register(entry) ==
    /\ ~Locked
    /\ entry \notin registered
    /\ registered' = registered \cup {entry}
    /\ UNCHANGED <<calling, leaving>>

(* The client asks, with the list walked or not.                           *)
Leave(entry) ==
    /\ entry \in registered \ leaving
    /\ leaving' = leaving \cup {entry}
    /\ UNCHANGED <<registered, calling>>

(* Faulty form: the list is changed without the lock.                      *)
UnregisterUnlocked(entry) ==
    /\ entry \in leaving
    /\ registered' = registered \ {entry}
    /\ leaving' = leaving \ {entry}
    /\ UNCHANGED calling

(* Unregister has the lock: the reference is released and the call returns.*)
Unregister(entry) ==
    /\ ~Locked
    /\ entry \in leaving
    /\ registered' = registered \ {entry}
    /\ leaving' = leaving \ {entry}
    /\ UNCHANGED calling

(* One pair of calls for each interface.                                   *)
RegisterWebBrowser(sink) == Register(<<"webBrowser", sink>>)
RegisterBrowser(sink) == Register(<<"browser", sink>>)
RegisterApplication(sink) == Register(<<"application", sink>>)
RegisterCookieJar(sink) == Register(<<"cookieJar", sink>>)
UnregisterWebBrowser(sink) == Unregister(<<"webBrowser", sink>>)
UnregisterBrowser(sink) == Unregister(<<"browser", sink>>)
UnregisterApplication(sink) == Unregister(<<"application", sink>>)
UnregisterCookieJar(sink) == Unregister(<<"cookieJar", sink>>)

(* The web thread has something to tell: the lists that are walked.        *)
Notify(lists) ==
    /\ ~Locked
    /\ calling' = {e \in registered : e[1] \in lists}
    /\ UNCHANGED <<registered, leaving>>

Hidden == Notify({"webBrowser", "browser", "application"})
NotifyClosure == Notify({"webBrowser", "browser"})
OnBridgeQuery == Notify({"webBrowser"})
NotifyCookieJarClients == Notify({"cookieJar"})

(* The next of them is called; the lock is given up after the last.        *)
CallSink ==
    /\ \E e \in calling : calling' = calling \ {e}
    /\ UNCHANGED <<registered, leaving>>

ListenersNext ==
    \/ \E sink \in JarSinks : RegisterCookieJar(sink) \/ UnregisterCookieJar(sink)
    \/ \E sink \in Sinks \cup JarSinks, list \in Lists : Leave(<<list, sink>>)
    \/ \E sink \in Sinks :
          \/ RegisterWebBrowser(sink) \/ RegisterBrowser(sink) \/ RegisterApplication(sink)
          \/ UnregisterWebBrowser(sink) \/ UnregisterBrowser(sink) \/ UnregisterApplication(sink)
    \/ Hidden \/ NotifyClosure \/ OnBridgeQuery \/ NotifyCookieJarClients
    \/ CallSink

(* The web thread calls a sink only while its list holds a reference: a    *)
(* client that leaves in the middle of a walk returns after it.  Clients   *)
(* are on other threads here: the lock is recursive and would let a sink   *)
(* leave in the middle of its own call.                                    *)
CalledWhileHeld == calling \subseteq registered
=============================================================================
