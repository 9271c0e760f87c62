------------------------------ MODULE HidBridge ------------------------------
(***************************************************************************)
(* The HID side of the composite device (hid_bridge.c, usb_composite.c).    *)
(* Four tasks share it: whoever holds the key engine's lock dispatches      *)
(* actions, the release task retries reports the endpoint refused, the      *)
(* TinyUSB task runs the bus event callback, and the recovery task forces a *)
(* re-enumeration after a resume.  Every critical section of the HID mutex  *)
(* is one step; what a task does between two of them is a list of the calls *)
(* it still has to make.                                                    *)
(*                                                                          *)
(* The host, the bus and TinyUSB are external: one report at a time waits   *)
(* in the IN endpoint until the host fetches it, and TinyUSB updates its    *)
(* flags just before it runs the callback.                                  *)
(***************************************************************************)
EXTENDS Naturals, Sequences

CONSTANTS
    Codes,      \* key codes, usages and mouse buttons in use
    MaxOps,     \* bound: actions dispatched
    MaxEvents   \* bound: bus events raised by the host

ASSUME CodesAssumption == Codes # {}
ASSUME BoundsAssumption == MaxOps \in Nat /\ MaxEvents \in Nat

Collections == {"keyboard", "consumer", "mouse"}
Report      == [id : Collections, down : SUBSET Codes]
NoReport    == [id |-> "none", down |-> {}]

VARIABLES
    enabled,    \* s_transport_enabled
    held,       \* s_keyboard_pressed, s_consumer_pressed, s_mouse_buttons
    pending,    \* s_keyboard_, s_consumer_, s_mouse_release_pending
    op,         \* calls left of the action being dispatched
    retry,      \* the release hid_release_retry_task has decided to send
    usb,        \* calls left of usb_event_cb
    rec,        \* calls left of usb_recovery_task
    recovering, \* s_usb_recovering
    notified,   \* the notification count of the recovery task
    mounted, suspended,     \* tud_mounted, tud_suspended
    pullup,     \* D+ of tud_connect and tud_disconnect
    known,      \* the host has enumerated the device and polls it
    endpoint,   \* the report in the IN endpoint
    host,       \* what the host believes to be held
    ops, events \* used of MaxOps and MaxEvents

deviceVars == <<enabled, held, pending>>
taskVars   == <<op, retry, usb, rec, recovering, notified>>
busVars    == <<mounted, suspended, pullup, known>>
vars == <<deviceVars, taskVars, busVars, endpoint, host, ops, events>>

----------------------------------------------------------------------------
(* Reports *)

\* hid_prepare_report: tud_hid_ready needs a mounted device and a free endpoint
Ready == enabled /\ ~suspended /\ mounted /\ endpoint = NoReport

\* tud_hid_n_report claims the endpoint; it does not look at the suspend flag
Claimable == mounted /\ endpoint = NoReport

\* Mutant: a release the endpoint refuses is forgotten
ReleaseForgotten(c) ==
    /\ held' = [held EXCEPT ![c] = {}]
    /\ pending' = [pending EXCEPT ![c] = FALSE]
    /\ endpoint' = IF Ready THEN [id |-> c, down |-> {}] ELSE endpoint

\* usb_hid_keyboard_release, _consumer_release, _mouse_buttons_release
Release(c) ==
    /\ held' = [held EXCEPT ![c] = {}]
    /\ pending' = [pending EXCEPT ![c] = ~Ready]
    /\ endpoint' = IF Ready THEN [id |-> c, down |-> {}] ELSE endpoint

\* The locked part of usb_hid_keyboard_press and _consumer_press
Press(c, k) ==
    /\ held' = [held EXCEPT ![c] = {k}]
    /\ pending' = [pending EXCEPT ![c] = @ /\ ~Claimable]
    /\ endpoint' = IF Claimable THEN [id |-> c, down |-> {k}] ELSE endpoint

\* mouse_report_locked with the new button mask; a refused release stays pending
MouseReport(buttons, releases) ==
    /\ held' = [held EXCEPT !["mouse"] = buttons]
    /\ pending' = [pending EXCEPT !["mouse"] = IF Ready THEN FALSE ELSE @ \/ releases]
    /\ endpoint' = IF Ready THEN [id |-> "mouse", down |-> buttons] ELSE endpoint

\* hid_bridge_set_transport_enabled
SetTransport(on) ==
    /\ enabled' = on
    /\ held' = IF on THEN held ELSE [c \in Collections |-> {}]
    /\ UNCHANGED <<pending, endpoint>>

----------------------------------------------------------------------------
(* Dispatched actions.  The key engine's lock admits one at a time; taps wait *)
(* 15 ms between their two reports.                                          *)

Call(what, c, k) == [what |-> what, id |-> c, key |-> k]

KeyActions(c, k) ==
    { <<Call("check", c, k), Call("press", c, k)>>,
      <<Call("check", c, k), Call("press", c, k), Call("release", c, k)>>,
      <<Call("release", c, k)>> }

MouseActions(k) ==
    { <<Call("button down", "mouse", k)>>,
      <<Call("button down", "mouse", k), Call("button up", "mouse", k)>>,
      <<Call("button up", "mouse", k)>>,
      <<Call("move", "mouse", k)>> }

Operations ==
    (UNION { KeyActions(c, k) : c \in {"keyboard", "consumer"}, k \in Codes })
    \cup (UNION { MouseActions(k) : k \in Codes })

Begin == /\ op = <<>> /\ ops < MaxOps
         /\ ops' = ops + 1
         /\ op' \in Operations

\* usb_hid_dispatch_action, from the bridge or the Bluetooth task
Dispatch ==
    /\ Begin
    /\ UNCHANGED <<deviceVars, retry, usb, rec, recovering, notified, busVars,
                   endpoint, host, events>>

DispatchStep ==
    LET call == Head(op) IN
    /\ op # <<>>
    /\ CASE call.what = "check" ->
              /\ op' = IF Ready THEN Tail(op) ELSE <<>>
              /\ UNCHANGED <<held, pending, endpoint>>
         [] call.what = "press" ->
              /\ Press(call.id, call.key)
              /\ op' = IF Claimable THEN Tail(op) ELSE <<>>
         [] call.what = "release" ->
              Release(call.id) /\ op' = Tail(op)
         [] call.what = "button down" ->
              MouseReport(held["mouse"] \cup {call.key}, FALSE) /\ op' = Tail(op)
         [] call.what = "button up" ->
              MouseReport(held["mouse"] \ {call.key}, TRUE) /\ op' = Tail(op)
         [] OTHER ->
              MouseReport(held["mouse"], FALSE) /\ op' = Tail(op)
    /\ UNCHANGED <<enabled, retry, usb, rec, recovering, notified, busVars, host, ops, events>>

----------------------------------------------------------------------------
(* hid_release_retry_task: the flag is read without the mutex *)

RetryPick(c) ==
    /\ retry = "none" /\ enabled /\ ~suspended
    /\ pending[c]
    /\ c = "consumer" => ~pending["keyboard"]
    /\ c = "mouse" => ~pending["keyboard"] /\ ~pending["consumer"]
    /\ retry' = c
    /\ UNCHANGED <<deviceVars, op, usb, rec, recovering, notified, busVars, endpoint, host,
                   ops, events>>

RetrySend ==
    /\ retry # "none"
    /\ Release(retry)
    /\ retry' = "none"
    /\ UNCHANGED <<enabled, op, usb, rec, recovering, notified, busVars, host, ops, events>>

----------------------------------------------------------------------------
(* usb_event_cb and usb_recovery_task *)

\* usb_restore_hid_transport
Restore == <<"enable", "keyboard", "consumer", "mouse">>

Attached  == Restore
Detached  == <<"disable">>
Suspended == <<"release all", "released", "keyboard", "consumer", "mouse", "disable">>
Resumed   == <<"disable", "notify">>

\* Mutant: disabling falls through to the code that sends a report
TransportFallThrough(call) ==
    CASE call = "enable"  -> SetTransport(TRUE)
      [] OTHER -> Release(call) /\ UNCHANGED enabled

\* One call of the transport, by either task
Transport(call) ==
    CASE call = "enable"  -> SetTransport(TRUE)
      [] call = "disable" -> SetTransport(FALSE)
      [] OTHER -> Release(call) /\ UNCHANGED enabled

TransportCalls == {"enable", "disable"} \cup Collections

UsbStep ==
    LET call == Head(usb) IN
    /\ usb # <<>>
    /\ usb' = Tail(usb)
    /\ \/ /\ call \in TransportCalls
          /\ Transport(call)
          /\ UNCHANGED <<op, ops, notified>>
       \* key_engine_release_all may emit any action while it holds the engine's lock
       \/ /\ call = "release all"
          /\ Begin \/ (op = <<>> /\ UNCHANGED <<op, ops>>)
          /\ UNCHANGED <<deviceVars, endpoint, notified>>
       \/ /\ call = "released" /\ op = <<>>
          /\ UNCHANGED <<deviceVars, endpoint, op, ops, notified>>
       \/ /\ call = "notify"
          /\ notified' = (notified \/ ~recovering)
          /\ UNCHANGED <<deviceVars, endpoint, op, ops>>
    /\ UNCHANGED <<retry, rec, recovering, busVars, host, events>>

Recovery == <<"begin", "settle", "disconnect", "connect", "await">>

\* The notification is taken before s_usb_recovering is set
RecoveryTake ==
    /\ rec = <<>> /\ notified
    /\ notified' = FALSE
    /\ rec' = Recovery
    /\ UNCHANGED <<deviceVars, op, retry, usb, recovering, busVars, endpoint, host, ops, events>>

RecoveryTransport ==
    /\ rec # <<>> /\ Head(rec) \in TransportCalls
    /\ Transport(Head(rec))
    /\ rec' = Tail(rec)
    /\ UNCHANGED <<op, retry, usb, recovering, notified, busVars, host, ops, events>>

\* The bounded waits of the loop may end either way, except that the second one
\* sees a device that is already up
RecoveryStep ==
    LET call == Head(rec) IN
    /\ rec # <<>>
    /\ \/ /\ call = "begin"
          /\ recovering' = TRUE /\ rec' = Tail(rec)
          /\ UNCHANGED <<notified, pullup, known, host>>
       \/ /\ call = "settle"
          /\ rec' = Tail(rec)
          /\ UNCHANGED <<recovering, notified, pullup, known, host>>
       \/ /\ call = "disconnect"
          /\ pullup' = FALSE /\ known' = FALSE
          /\ host' = [c \in Collections |-> {}]
          /\ rec' = Tail(rec)
          /\ UNCHANGED <<recovering, notified>>
       \/ /\ call = "connect"
          /\ pullup' = TRUE /\ rec' = Tail(rec)
          /\ UNCHANGED <<recovering, notified, known, host>>
       \/ /\ call = "await"
          /\ rec' = (IF mounted /\ ~suspended THEN Restore ELSE <<>>) \o <<"take", "end">>
          /\ UNCHANGED <<recovering, notified, pullup, known, host>>
       \/ /\ call = "take"
          /\ notified' = FALSE /\ rec' = Tail(rec)
          /\ UNCHANGED <<recovering, pullup, known, host>>
       \/ /\ call = "end"
          /\ recovering' = FALSE /\ rec' = Tail(rec)
          /\ UNCHANGED <<notified, pullup, known, host>>
    /\ UNCHANGED <<deviceVars, op, retry, usb, mounted, suspended, endpoint, ops, events>>

----------------------------------------------------------------------------
(* The host.  TinyUSB handles a bus event, callback included, before the next *)

HostEvent(callback) ==
    /\ usb = <<>> /\ usb' = callback
    /\ events < MaxEvents /\ events' = events + 1
    /\ UNCHANGED <<deviceVars, op, retry, rec, recovering, notified, pullup, ops>>

\* A bus reset, then the configuration request
Enumerate ==
    /\ pullup /\ ~known
    /\ usb = <<>> /\ usb' = Attached
    /\ mounted' = TRUE /\ known' = TRUE /\ suspended' = FALSE
    /\ endpoint' = NoReport
    /\ host' = [c \in Collections |-> {}]
    /\ UNCHANGED <<deviceVars, op, retry, rec, recovering, notified, pullup, ops, events>>

Unplug ==
    /\ mounted
    /\ HostEvent(Detached)
    /\ mounted' = FALSE /\ known' = FALSE /\ suspended' = FALSE
    /\ endpoint' = NoReport
    /\ host' = [c \in Collections |-> {}]

Suspend ==
    /\ mounted /\ ~suspended
    /\ HostEvent(Suspended)
    /\ suspended' = TRUE
    /\ UNCHANGED <<mounted, known, endpoint, host>>

Resume ==
    /\ mounted /\ suspended
    /\ usb = <<>> /\ usb' = Resumed
    /\ suspended' = FALSE
    /\ UNCHANGED <<deviceVars, op, retry, rec, recovering, notified, mounted, pullup, known,
                   endpoint, host, ops, events>>

\* The host fetches the report
Poll ==
    /\ known /\ ~suspended /\ endpoint # NoReport
    /\ host' = [host EXCEPT ![endpoint.id] = endpoint.down]
    /\ endpoint' = NoReport
    /\ UNCHANGED <<deviceVars, taskVars, busVars, ops, events>>

Init ==
    /\ enabled = FALSE
    /\ held = [c \in Collections |-> {}]
    /\ pending = [c \in Collections |-> FALSE]
    /\ op = <<>> /\ retry = "none" /\ usb = <<>> /\ rec = <<>>
    /\ recovering = FALSE /\ notified = FALSE
    /\ mounted = FALSE /\ suspended = FALSE /\ pullup = TRUE /\ known = FALSE
    /\ endpoint = NoReport
    /\ host = [c \in Collections |-> {}]
    /\ ops = 0 /\ events = 0

Next ==
    \/ Dispatch \/ DispatchStep
    \/ \E c \in Collections : RetryPick(c)
    \/ RetrySend
    \/ UsbStep \/ RecoveryTake \/ RecoveryTransport \/ RecoveryStep
    \/ Enumerate \/ Unplug \/ Suspend \/ Resume \/ Poll

Spec == Init /\ [][Next]_vars

\* Every task runs and the host polls, enumerates and wakes up; nobody is obliged
\* to press a key or to disturb the bus
Fairness ==
    /\ WF_vars(DispatchStep) /\ WF_vars(RetrySend)
    /\ \A c \in Collections : WF_vars(RetryPick(c))
    /\ WF_vars(UsbStep)
    /\ WF_vars(RecoveryTake) /\ WF_vars(RecoveryTransport) /\ WF_vars(RecoveryStep)
    /\ WF_vars(Enumerate) /\ WF_vars(Resume) /\ WF_vars(Poll)

FairSpec == Spec /\ Fairness

----------------------------------------------------------------------------
(* Properties *)

Calls == TransportCalls \cup
         {"release all", "released", "notify", "begin", "settle", "disconnect", "connect",
          "await", "take", "end"}

\* Every variable stays within its type.
TypeOK ==
    /\ enabled \in BOOLEAN /\ recovering \in BOOLEAN /\ notified \in BOOLEAN
    /\ mounted \in BOOLEAN /\ suspended \in BOOLEAN /\ pullup \in BOOLEAN /\ known \in BOOLEAN
    /\ held \in [Collections -> SUBSET Codes] /\ host \in [Collections -> SUBSET Codes]
    /\ pending \in [Collections -> BOOLEAN]
    /\ retry \in Collections \cup {"none"}
    /\ endpoint \in Report \cup {NoReport}
    /\ usb \in Seq(Calls) /\ rec \in Seq(Calls)
    /\ ops \in 0..MaxOps /\ events \in 0..MaxEvents

\* What the host will hold once it has fetched the waiting report
Seen(c) == IF endpoint.id = c THEN endpoint.down ELSE host[c]

\* The host holds more of a collection than the firmware still knows of
Forgotten(c) == IF c = "mouse" THEN ~(Seen(c) \subseteq held[c])
                ELSE Seen(c) # {} /\ held[c] = {}

\* While the transport is enabled no key, usage or button stays down on the host
\* without the firmware knowing of it or having its release on the way: taken as
\* pending, chosen by the release task, or among the calls of a running callback.
NothingForgotten ==
    \A c \in Collections :
        enabled /\ Forgotten(c) =>
            \/ pending[c] \/ retry = c
            \/ \E i \in 1..Len(usb) : usb[i] \in {c, "disable"}
            \/ \E i \in 1..Len(rec) : rec[i] = c

\* A released key, usage or button does come up on the host, unless it is pressed
\* again or the bus goes away first.
ReleaseReachesHost ==
    \A c \in Collections :
        (enabled /\ held[c] = {}) ~> (host[c] = {} \/ held[c] # {} \/ ~enabled)

\* Once the host has the device configured and awake, and no callback or recovery
\* is under way, HID reports flow: resume never leaves the transport disabled.
TransportComesBack ==
    known /\ mounted /\ ~suspended /\ usb = <<>> /\ rec = <<>> /\ ~notified => enabled
==============================================================================
