----------------------------- MODULE FrontPanel -----------------------------
(***************************************************************************)
(* The helper CFrontPanel: the lights of the device and the pattern that   *)
(* one of them blinks in.  A timer of Thunder goes through the pattern on  *)
(* its own thread, without a lock, while a plugin calls; what the two      *)
(* share is read and written here in the order and the pieces of the code. *)
(*                                                                         *)
(* Of a light the model keeps whether it is on, of the one that blinks     *)
(* which element of a pattern (colour and brightness) was last asked of    *)
(* the device, which may refuse it.                                        *)
(***************************************************************************)
EXTENDS Integers, Sequences, FiniteSets, SequencesExt

CONSTANTS
    Elements,     \* what a pattern is made of
    MaxPattern,   \* bound: length of a pattern
    MaxBlinks,    \* bound: iterations of a pattern
    MaxPanelCalls \* bound: calls of plugins

ASSUME PanelAssumption == MaxPattern \in Nat /\ MaxBlinks \in Nat /\ MaxPanelCalls \in Nat

VARIABLES
    panelCalls,
    powerStatus, started,
    lit,          \* lights that are on
    kept,         \* isMessageLedOn, isRecordLedOn
    shown,        \* what the light that blinks was last asked to show
    blink,        \* m_blinkList, its index, m_numberOfBlinks, the maximum, m_isBlinking
    pending,      \* entries of the timer: one, or more by a race
    callback,     \* where onBlinkTimer is
    plugin        \* where setBlink is

lightVars == <<powerStatus, started, lit, kept>>
panelVars == <<panelCalls, lightVars, shown, blink, pending, callback, plugin>>

Lights == {"Power", "Message", "Record", "Remote"}
Resting == [at |-> "idle"]

(* CFrontPanel::instance, its first call: the lights of the device are put *)
(* out, and that of the power is lit if the device is on.                  *)
instance ==
    /\ panelCalls = 0 /\ started = FALSE
    /\ powerStatus \in BOOLEAN
    /\ lit = IF powerStatus THEN {"Power"} ELSE {}
    /\ kept = {} /\ shown = "unset"
    /\ blink = [list |-> <<>>, index |-> 0, number |-> 0, max |-> 0, on |-> FALSE]
    /\ pending = 0 /\ callback = Resting /\ plugin = Resting

-----------------------------------------------------------------------------
(* A call of a plugin.  Most stop the timer first: stopBlinkTimer, whose   *)
(* Revoke takes entries away and then waits for a callback under way, which*)
(* may schedule another one if it found the flag still set.                *)
PanelCall ==
    /\ plugin = Resting /\ panelCalls < MaxPanelCalls
    /\ panelCalls' = panelCalls + 1

stopBlinkTimer ==
    /\ blink' = [blink EXCEPT !.on = FALSE]
    /\ pending' = 0

Stopping(call) ==
    /\ PanelCall /\ stopBlinkTimer
    /\ plugin' = [at |-> "revokes", call |-> call]
    /\ UNCHANGED <<lightVars, shown, callback>>

Stopped(name) ==
    /\ plugin.at = "revokes" /\ callback = Resting
    /\ plugin.call.name = name
    /\ UNCHANGED <<panelCalls, callback>>

Calls ==
    [name : {"stop", "setLED", "setBrightness"}]
        \cup [name : {"powerOnLed", "powerOffLed"}, light : Lights \cup {"all"}]
        \cup [name : {"setBlink"}, pattern : SeqOf(Elements, MaxPattern),
              iterations : -1..MaxBlinks]

Returns == plugin' = Resting /\ UNCHANGED <<blink, pending>>

start ==
    /\ PanelCall
    /\ lit' = lit \cup (IF powerStatus THEN {"Power"} ELSE {})
    /\ started' = TRUE
    /\ blink' = IF started THEN blink ELSE [blink EXCEPT !.number = 0, !.max = 0, !.index = 0]
    /\ UNCHANGED <<powerStatus, kept, shown, pending, callback, plugin>>

setPowerStatus(on) ==
    /\ PanelCall /\ powerStatus' = on
    /\ UNCHANGED <<started, lit, kept, shown, blink, pending, callback, plugin>>

stop == Stopped("stop") /\ Returns /\ UNCHANGED <<lightVars, shown>>

(* Which lights "all" lights, and what is remembered of the others.        *)
Lighted(light) == IF light = "all" THEN kept \cup {"Power"} ELSE {light}

powerOnLed ==
    /\ Stopped("powerOnLed") /\ Returns
    /\ LET light == plugin.call.light IN
        /\ lit' = lit \cup (IF powerStatus THEN Lighted(light) ELSE {})
        /\ kept' = kept \cup (IF powerStatus THEN {light} \cap {"Message", "Record"} ELSE {})
    /\ UNCHANGED <<powerStatus, started, shown>>

(* Putting out all lights forgets of none that it was on.                  *)
powerOffLed ==
    /\ Stopped("powerOffLed") /\ Returns
    /\ LET light == plugin.call.light IN
        /\ lit' = IF light = "all" THEN {} ELSE lit \ {light}
        /\ kept' = kept \ {light}
    /\ UNCHANGED <<powerStatus, started, shown>>

(* The brightness of all lights; then powerOnLed, which stops again.       *)
setBrightness ==
    /\ Stopped("setBrightness") /\ stopBlinkTimer
    /\ shown' = "brightness"
    /\ plugin' = [plugin EXCEPT !.call = [name |-> "powerOnLed", light |-> "all"]]
    /\ UNCHANGED lightVars

setLED == Stopped("setLED") /\ Returns /\ shown' = "colour" /\ UNCHANGED lightVars

-----------------------------------------------------------------------------
(* setBlink: the pattern is cleared, then filled in element by element.    *)
setBlink ==
    /\ Stopped("setBlink")
    /\ blink' = [blink EXCEPT !.list = <<>>]
    /\ plugin' = [at |-> "fills", rest |-> plugin.call.pattern, max |-> plugin.call.iterations]
    /\ UNCHANGED <<lightVars, shown, pending>>

Fills ==
    /\ plugin.at = "fills" /\ plugin.rest # <<>>
    /\ blink' = [blink EXCEPT !.list = Append(@, Head(plugin.rest))]
    /\ plugin' = [plugin EXCEPT !.rest = Tail(@)]
    /\ UNCHANGED <<panelCalls, lightVars, shown, pending, callback>>

(* startBlinkTimer: stops again, and goes on as soon as nothing runs.      *)
StopsAgain ==
    /\ plugin.at = "fills" /\ plugin.rest = <<>> /\ stopBlinkTimer
    /\ plugin' = [at |-> "starts", max |-> plugin.max]
    /\ UNCHANGED <<panelCalls, lightVars, shown, callback>>

startBlinkTimer ==
    /\ plugin.at = "starts" /\ callback = Resting
    /\ blink' = [blink EXCEPT !.number = 0, !.on = TRUE, !.max = plugin.max, !.index = 0]
    /\ plugin' = IF blink.list = <<>> THEN Resting ELSE [at |-> "shows"]
    /\ UNCHANGED <<panelCalls, lightVars, shown, pending, callback>>

ShowsFirst ==
    /\ plugin.at = "shows"
    /\ shown' = blink.list[1]
    /\ pending' = pending + (IF blink.on THEN 1 ELSE 0)
    /\ plugin' = Resting
    /\ UNCHANGED <<panelCalls, lightVars, blink, callback>>

-----------------------------------------------------------------------------
(* The timer's thread.  BlinkInfo::Timed: what is incremented was read     *)
(* before it is written, and may have been written in between.  Of the     *)
(* number the model tells apart what the bound on iterations tells apart.  *)
Counted(number) == IF number > MaxBlinks THEN number ELSE number + 1

Timed ==
    /\ callback = Resting /\ pending > 0
    /\ pending' = pending - 1
    /\ callback' = [at |-> "advances", index |-> blink.index + 1, number |-> Counted(blink.number)]
    /\ UNCHANGED <<panelCalls, lightVars, shown, blink, plugin>>

(* Faulty form: the iterations are counted for every element.              *)
blinkAgainCounted(over, number) == blink.max < 0 \/ number <= blink.max

blinkAgain(over, number) == ~over \/ blink.max < 0 \/ number <= blink.max

(* at() throws on the timer's thread, and the process ends, if the list    *)
(* was cleared under way and there are iterations left.                    *)
onBlinkTimer ==
    /\ callback.at = "advances"
    /\ LET over == callback.index >= Len(blink.list)
           index == IF over THEN 0 ELSE callback.index
       IN  /\ blink' = [blink EXCEPT !.index = index,
                                     !.number = IF over THEN callback.number ELSE @]
           /\ callback' = CASE ~blinkAgain(over, callback.number) -> Resting
                            [] blinkAgain(over, callback.number) /\ index < Len(blink.list) ->
                                 [at |-> "shows", element |-> blink.list[index + 1]]
                            [] OTHER -> [at |-> "thrown"]
    /\ UNCHANGED <<panelCalls, lightVars, shown, pending, plugin>>

(* The flag is read before the timer is set, and may be gone by then.      *)
setBlinkLed ==
    /\ callback.at = "shows"
    /\ shown' = callback.element
    /\ callback' = IF blink.on THEN [at |-> "schedules"] ELSE Resting
    /\ UNCHANGED <<panelCalls, lightVars, blink, pending, plugin>>

Schedule ==
    /\ callback.at = "schedules"
    /\ pending' = pending + 1
    /\ callback' = Resting
    /\ UNCHANGED <<panelCalls, lightVars, shown, blink, plugin>>

-----------------------------------------------------------------------------
PanelNext ==
    /\ callback.at # "thrown"
    /\ \/ \E call \in Calls : Stopping(call)
       \/ start \/ \E on \in BOOLEAN : setPowerStatus(on)
       \/ stop \/ setBrightness \/ setLED \/ powerOnLed \/ powerOffLed \/ setBlink
       \/ Fills \/ StopsAgain \/ startBlinkTimer \/ ShowsFirst
       \/ Timed \/ onBlinkTimer \/ setBlinkLed \/ Schedule

-----------------------------------------------------------------------------
(* "if not blink again then the led color should stay on the LAST element  *)
(* in the array as stated in the spec" (onBlinkTimer): of a blink that     *)
(* nobody stopped and that no timer continues, the light shows the last    *)
(* element, even if a timer of the blink before went on beside it.         *)
StaysOnLast ==
    (blink.on /\ blink.list # <<>> /\ pending = 0 /\ callback = Resting /\ plugin = Resting)
        => shown = Last(blink.list)
=============================================================================
