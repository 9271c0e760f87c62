----------------------------- MODULE BleClient -----------------------------
(***************************************************************************)
(* The Bluetooth client (ble/ble_remote_client.c).  The NimBLE host task    *)
(* runs the GAP and GATT callbacks; the bridge task runs ble_remote_task    *)
(* every 5 ms; the TinyUSB task leaves requests in flags.  No lock protects *)
(* what they share.  The sections of ble_remote_task each read their        *)
(* conditions afresh, so each is an action; a callback is an action; the    *)
(* flash writes in ble_remote_unpair leave a gap that is a step.            *)
(*                                                                          *)
(* Of the key engine only two things matter here: which keys are down for   *)
(* it, and whether it may still write the LED.  Which edge begins or ends a *)
(* voice session depends on the keymap and the switch mode, so an edge fed  *)
(* or a later tick may light the LED or not.                                *)
(*                                                                          *)
(* The controller, the remotes and NimBLE are external: there is room for   *)
(* one connection, a scan and a connection attempt exclude each other, and  *)
(* when a link breaks the pending GATT procedures fail first and the        *)
(* disconnect callback runs after.  Batteries, the MTU, the model string    *)
(* and names and types of devices are left out.                             *)
(***************************************************************************)
EXTENDS Naturals, FiniteSets

CONSTANTS
    Remotes,        \* remotes by address
    NameOf,         \* their advertised names
    None,           \* no address
    Malformed,      \* an address that sscanf does not parse
    Targets,        \* addresses the page asks to connect to
    Usages,         \* key usages a remote reports
    VOICE,          \* the voice key among them, also fed by the voice service
    MaxCommands,    \* bound: requests of the page
    MaxEvents       \* bound: link losses, GATT errors, key changes, sleeps

ASSUME AddressAssumption == None \notin Remotes /\ Malformed \notin Remotes \cup {None}
                            /\ Targets \subseteq Remotes \cup {Malformed}
ASSUME VoiceAssumption == VOICE \in Usages
ASSUME BoundAssumption == MaxCommands \in Nat /\ MaxEvents \in Nat

VARIABLES
    state,      \* s_state
    peer,       \* the remote of s_conn_handle, None for BLE_HS_CONN_HANDLE_NONE
    started,    \* s_discovery_started
    stage,      \* what the GATT procedure under way is for
    known,      \* the handles of the characteristics are those of a remote
    pressed,    \* s_pressed
    connected,  \* s_connected_mac
    bound,      \* s_bound_mac
    pending, doConnect,     \* s_pending_mac, s_do_connect
    requests,   \* which of s_req_unpair and s_req_reconnect are set
    serving,    \* what ble_remote_task has read of them and not cleared yet
    unpairing,  \* the TinyUSB task is inside ble_remote_unpair
    down,       \* keys down for the key engine
    busy,       \* slots of the key engine may not be at rest
    led,        \* s_current_base_state: "wait", or CONNECTED and MIC_STREAMING as "remote"
    \* external
    scan, attempt,      \* discovery and connection attempt of the controller
    linkUp, closing,    \* the link of peer exists, and is to be terminated
    awake, held, talk,  \* remotes awake, keys held and voice session of the peer
    commands, events,   \* used of the bounds
    \* history, read by the properties only
    hijacked,   \* connected was overwritten while another link or attempt lived
    unpaired,   \* an unpair request was served and no connection asked for since
    dropped     \* the TALKING state was overwritten before the voice stop

flagVars    == <<pending, doConnect, requests, serving, unpairing>>
gattVars    == <<started, stage, known>>
keyVars     == <<pressed, down, busy, held, talk>>
radioVars   == <<scan, attempt, linkUp, closing, awake>>
historyVars == <<hijacked, unpaired, dropped>>
vars == <<state, peer, gattVars, connected, bound, led, flagVars, keyVars, radioVars,
          commands, events, historyVars>>

States == {"DISCONNECTED", "SCANNING", "CONNECTING", "CONNECTED", "TALKING"}
Up     == {"CONNECTED", "TALKING"}
Lookup == {"services", "chars", "descs"}            \* discovery
Setup  == {"init", "subscribe", "handshake"}        \* phases of the write queue
After  == [services |-> "chars", chars |-> "descs", descs |-> "init", init |-> "subscribe",
           subscribe |-> "handshake", handshake |-> "none"]

----------------------------------------------------------------------------
(* Helpers *)

\* Mutant: the attempt under way does not matter
ScanAnyway(scanning, attempting) == scan' = TRUE /\ state' = "SCANNING"

\* start_scan, in a state that permits it: refused during an attempt, and a
\* scan that runs already leaves the state alone
StartScan(scanning, attempting) ==
    /\ scan' = ~attempting
    /\ state' = IF scanning \/ attempting THEN "DISCONNECTED" ELSE "SCANNING"

\* The LED of a scan that was begun
Waits == led' = IF state' = "SCANNING" THEN "wait" ELSE led

\* Edges fed to the key engine: the actions VOICE_HOLD and VOICE_RELEASE, if they
\* emit one, write the LED
Fed == busy' = TRUE /\ led' \in {led, "remote"}

\* start_discovery; nothing is asked of a link that is gone
StartDiscovery(up) ==
    /\ started' = TRUE
    /\ stage' = IF up THEN "services" ELSE "none"
    /\ known' = FALSE

\* adv_is_target: the bound remote, one of its name, or any remote when unbound
IsTarget(r) == bound # None => NameOf[r] = NameOf[bound]

Overwritten == dropped' = (dropped \/ state = "TALKING")

Command == commands < MaxCommands /\ commands' = commands + 1 /\ UNCHANGED events
Event   == events < MaxEvents /\ events' = events + 1 /\ UNCHANGED commands
Free    == UNCHANGED <<commands, events>>

----------------------------------------------------------------------------
(* gap_event_cb and the GATT callbacks, in the NimBLE host task *)

\* BLE_GAP_EVENT_DISC
Discovered(r) ==
    /\ scan /\ r \in awake /\ r # peer
    /\ ~doConnect /\ state \in {"DISCONNECTED", "SCANNING"} /\ IsTarget(r)
    /\ scan' = FALSE
    /\ pending' = r
    /\ doConnect' = TRUE
    /\ UNCHANGED <<state, peer, gattVars, connected, bound, led, requests, serving, unpairing, keyVars,
                   attempt, linkUp, closing, awake, historyVars>>
    /\ Free

\* BLE_GAP_EVENT_CONNECT; where security cannot start, discovery does at once
Connected ==
    /\ attempt # None /\ peer = None
    /\ attempt \in awake
    /\ peer' = attempt
    /\ attempt' = None
    /\ linkUp' = TRUE
    /\ state' = "CONNECTING"
    /\ \/ started' = FALSE /\ stage' = "none" /\ UNCHANGED known
       \/ StartDiscovery(TRUE)
    /\ UNCHANGED <<connected, bound, led, flagVars, keyVars, scan, closing, awake, historyVars>>
    /\ Free

\* Mutant: a failed attempt neither scans again nor leaves CONNECTING
ForgetAttempt == UNCHANGED <<state, scan>>

Rescan == StartScan(scan, FALSE)

\* ... with an error status, after 10 s at the latest
ConnectFailed ==
    /\ attempt # None
    /\ attempt' = None
    /\ Rescan
    /\ Waits
    /\ UNCHANGED <<peer, gattVars, connected, bound, flagVars, keyVars, linkUp, closing, awake, historyVars>>
    /\ Free

\* BLE_GAP_EVENT_ENC_CHANGE, whatever its status
EncChange ==
    /\ linkUp /\ ~started
    /\ StartDiscovery(TRUE)
    /\ UNCHANGED <<state, peer, connected, bound, led, flagVars, keyVars, radioVars, historyVars>>
    /\ Free

\* svc_disc_cb, chr_disc_cb, dsc_all_cb and write_cb go on to the next procedure;
\* a failed write goes on too.  The last one makes the remote ready
GattDone ==
    /\ linkUp /\ stage # "none"
    /\ stage' = After[stage]
    /\ known' = (known \/ stage = "chars")
    /\ IF stage = "handshake" THEN state' = "CONNECTED" /\ led' = "remote" /\ Overwritten
                              ELSE UNCHANGED <<state, led, dropped>>
    /\ UNCHANGED <<peer, started, connected, bound, flagVars, keyVars, radioVars,
                   hijacked, unpaired>>
    /\ Free

\* A discovery that ends with another status than BLE_HS_EDONE goes nowhere
GattFails ==
    /\ Event
    /\ linkUp /\ stage \in Lookup
    /\ stage' = "none"
    /\ UNCHANGED <<state, peer, started, known, connected, bound, led, flagVars, keyVars, radioVars,
                   historyVars>>

\* The link is gone.  The write under way fails, and so may all the later ones,
\* which makes the remote "ready" before the disconnect callback runs
LinkLost ==
    /\ linkUp' = FALSE
    /\ held' = {} /\ talk' = FALSE
    /\ stage' = "none"
    /\ \/ UNCHANGED <<state, led, dropped>>
       \/ stage \in Setup /\ state' = "CONNECTED" /\ led' = "remote" /\ Overwritten
    /\ UNCHANGED <<peer, started, known, connected, bound, flagVars, pressed, down, busy, scan, attempt,
                   closing, hijacked, unpaired>>

\* Out of range, or put to sleep
LinkDrops ==
    /\ Event /\ linkUp
    /\ LinkLost
    /\ awake' \in {awake, awake \ {peer}}

\* Mutant: the pressed usages are kept for the next connection
ForgetNothing == UNCHANGED pressed

ForgetPressed == pressed' = {}

\* Mutant: the LED is set before the keys are released
LedOffFirst == led' = IF busy THEN "remote" ELSE "wait"

LedOff == led' = "wait"

\* BLE_GAP_EVENT_DISCONNECT, with key_engine_release_all
Disconnected ==
    /\ peer # None /\ ~linkUp
    /\ peer' = None
    /\ state' = "DISCONNECTED"
    /\ started' = FALSE
    /\ ForgetPressed
    /\ down' = {}
    /\ busy' = FALSE
    /\ LedOff
    /\ dropped' = FALSE
    /\ closing' = FALSE
    /\ UNCHANGED <<stage, known, connected, bound, flagVars, held, talk, scan, attempt, linkUp,
                   awake, hijacked, unpaired>>
    /\ Free

\* Notifications reach their handlers when the handles are the remote's; a
\* bonded remote sends them as soon as it is connected
Heard == linkUp /\ known

\* Mutant: the voice stop does not release the key
StopSession == UNCHANGED down

StopVoice == down' = down \ {VOICE}

\* handle_hid_report: the differences from the last report are fed
KeyChange(now) ==
    /\ Event /\ linkUp
    /\ held # now
    /\ held' = now
    /\ IF Heard
       THEN /\ pressed' = now
            /\ down' = (down \ (pressed \ now)) \cup (now \ pressed)
            /\ dropped' = (dropped /\ VOICE \notin pressed \ now)
            /\ Fed
       ELSE UNCHANGED <<pressed, down, dropped, busy, led>>
    /\ UNCHANGED <<state, peer, gattVars, connected, bound, flagVars, talk, radioVars,
                   hijacked, unpaired>>

\* handle_atvv_ctl, start
VoiceStart ==
    /\ Event /\ linkUp /\ ~talk
    /\ talk' = TRUE
    /\ IF Heard THEN state' = "TALKING" /\ down' = down \cup {VOICE} /\ dropped' = FALSE /\ Fed
                ELSE UNCHANGED <<state, down, dropped, busy, led>>
    /\ UNCHANGED <<peer, gattVars, connected, bound, flagVars, pressed, held, radioVars,
                   hijacked, unpaired>>

\* handle_atvv_ctl, stop: ignored in any other state
VoiceStop ==
    /\ linkUp /\ talk
    /\ talk' = FALSE
    /\ IF Heard /\ state = "TALKING" THEN state' = "CONNECTED" /\ StopVoice /\ Fed
                                    ELSE UNCHANGED <<state, down, busy, led>>
    /\ UNCHANGED <<peer, gattVars, connected, bound, flagVars, pressed, held, radioVars,
                   historyVars>>
    /\ Free

----------------------------------------------------------------------------
(* ble_remote_task, in the bridge task *)

\* Requests of the page: first the flags are read ...
ReadRequests ==
    /\ serving = "none" /\ requests # {}
    /\ serving' = IF "unpair" \in requests THEN "unpair" ELSE "reconnect"
    /\ UNCHANGED <<state, peer, gattVars, connected, bound, led, pending, doConnect, requests,
                   unpairing, keyVars, radioVars, historyVars>>
    /\ Free

\* ... then both are cleared, an unpair that came in between with them; the link
\* is asked to end and scanning resumes at once
ServeRequests ==
    /\ serving # "none"
    /\ serving' = "none"
    /\ requests' = {}
    /\ connected' = IF serving = "unpair" THEN None ELSE connected
    /\ unpaired' = (unpaired \/ serving = "unpair")
    /\ closing' = linkUp
    /\ StartScan(scan, attempt # None) /\ Waits
    /\ Overwritten
    /\ UNCHANGED <<peer, gattVars, bound, pending, doConnect, unpairing, keyVars,
                   attempt, linkUp, awake, hijacked>>
    /\ Free

\* ble_gap_terminate takes effect some time later
Terminated ==
    /\ linkUp /\ closing
    /\ LinkLost /\ UNCHANGED awake
    /\ Free

Connect ==
    LET refused == attempt # None \/ linkUp
        other   == IF attempt # None THEN attempt ELSE peer
    IN
    /\ serving = "none" /\ doConnect
    /\ doConnect' = FALSE
    /\ IF pending = Malformed
       THEN /\ scan' = FALSE
            /\ UNCHANGED <<state, connected, led, attempt, hijacked, unpaired, dropped>>
       ELSE /\ connected' = pending
            /\ led' = "wait"
            /\ unpaired' = FALSE
            /\ Overwritten
            /\ \/ /\ refused \/ peer # None     \* the connection may not be freed yet
                  /\ hijacked' = (hijacked \/ other # pending)
                  /\ StartScan(FALSE, attempt # None)
                  /\ UNCHANGED attempt
               \/ /\ ~refused
                  /\ attempt' = pending
                  /\ state' = "CONNECTING"
                  /\ hijacked' = FALSE
                  /\ scan' = FALSE
    /\ UNCHANGED <<peer, gattVars, bound, pending, requests, serving, unpairing, keyVars, linkUp,
                   closing, awake>>
    /\ Free

\* Security has not finished within 3 s
Fallback ==
    /\ serving = "none"
    /\ state = "CONNECTING" /\ peer # None /\ ~started
    /\ StartDiscovery(linkUp)
    /\ UNCHANGED <<state, peer, connected, bound, led, flagVars, keyVars, radioVars, historyVars>>
    /\ Free

ScanAgain ==
    /\ serving = "none" /\ state = "DISCONNECTED"
    /\ StartScan(scan, attempt # None) /\ Waits
    /\ UNCHANGED <<peer, gattVars, connected, bound, flagVars, keyVars, attempt, linkUp, closing,
                   awake, historyVars>>
    /\ Free

\* Mutant: the address asked for last is taken for the connected one
Asked == pending

Remembered == connected

Persist ==
    /\ serving = "none" /\ state \in Up
    /\ Remembered # None /\ bound # Remembered
    /\ bound' = Remembered
    /\ UNCHANGED <<state, peer, gattVars, connected, led, flagVars, keyVars, radioVars, historyVars>>
    /\ Free

----------------------------------------------------------------------------
(* Requests of the page, in the TinyUSB task *)

\* ble_remote_connect_target
ConnectTarget(m) ==
    /\ Command
    /\ ~unpairing
    /\ pending' = m
    /\ doConnect' = TRUE
    /\ UNCHANGED <<state, peer, gattVars, connected, bound, led, requests, serving, unpairing,
                   keyVars, radioVars, historyVars>>

\* ble_remote_trigger_reconnect
Reconnect ==
    /\ Command
    /\ ~unpairing
    /\ requests' = requests \cup {"reconnect"}
    /\ UNCHANGED <<state, peer, gattVars, connected, bound, led, pending, doConnect, serving, unpairing,
                   keyVars, radioVars, historyVars>>

\* ble_remote_unpair forgets the remote, erases three keys of flash ...
Unpair ==
    /\ Command
    /\ ~unpairing
    /\ bound' = None
    /\ unpairing' = TRUE
    /\ UNCHANGED <<state, peer, gattVars, connected, led, pending, doConnect, requests, serving, keyVars,
                   radioVars, historyVars>>

\* ... and then tells the bridge task
UnpairRequest ==
    /\ unpairing
    /\ unpairing' = FALSE
    /\ requests' = requests \cup {"unpair"}
    /\ UNCHANGED <<state, peer, gattVars, connected, bound, led, pending, doConnect, serving, keyVars,
                   radioVars, historyVars>>
    /\ Free

----------------------------------------------------------------------------

\* A remote is switched on, or falls asleep while it is not connected
Wakes(r) ==
    /\ Event
    /\ r # peer
    /\ awake' = IF r \in awake THEN awake \ {r} ELSE awake \cup {r}
    /\ UNCHANGED <<state, peer, gattVars, connected, bound, led, flagVars, keyVars, scan, attempt,
                   linkUp, closing, historyVars>>

\* key_engine_tick, and release_all or a layer change by another task: slots that
\* are not at rest may emit actions of their own
EngineActs ==
    /\ busy
    /\ led' = "remote"
    /\ UNCHANGED <<state, peer, gattVars, connected, bound, flagVars, keyVars, radioVars,
                   historyVars>>
    /\ Free

HostTask == Connected \/ ConnectFailed \/ EncChange \/ GattDone \/ GattFails \/ Disconnected
Radio    == LinkDrops \/ Terminated \/ VoiceStart \/ VoiceStop
Bridge   == ReadRequests \/ ServeRequests \/ Connect \/ Fallback \/ ScanAgain \/ Persist
Page     == Reconnect \/ Unpair \/ UnpairRequest

Next ==
    \/ HostTask \/ Radio \/ Bridge \/ EngineActs \/ Page
    \/ \E r \in Remotes : Discovered(r) \/ Wakes(r)
    \/ \E m \in Targets : ConnectTarget(m)
    \/ \E now \in SUBSET Usages : KeyChange(now)

\* After ble_remote_init and on_sync
Init ==
    /\ state = "SCANNING" /\ scan = TRUE
    /\ peer = None /\ attempt = None /\ linkUp = FALSE /\ closing = FALSE
    /\ started = FALSE /\ stage = "none" /\ known = FALSE
    /\ led = "wait"
    /\ pressed = {} /\ down = {} /\ busy = FALSE /\ held = {} /\ talk = FALSE
    /\ connected = None
    /\ bound \in Remotes \cup {None}
    /\ pending = None /\ doConnect = FALSE /\ requests = {}
    /\ serving = "none" /\ unpairing = FALSE
    /\ awake = Remotes
    /\ commands = 0 /\ events = 0
    /\ hijacked = FALSE /\ unpaired = FALSE /\ dropped = FALSE

Spec == Init /\ [][Next]_vars

\* The tasks run, procedures on a link end and a link asked to end ends.  Radio: a
\* remote that keeps advertising is heard, and attempts to reach it do not fail for ever
FairSpec ==
    /\ Spec
    /\ WF_vars(ReadRequests) /\ WF_vars(ServeRequests) /\ WF_vars(Connect) /\ WF_vars(Fallback)
    /\ WF_vars(ScanAgain) /\ WF_vars(Persist)
    /\ WF_vars(GattDone) /\ WF_vars(Disconnected) /\ WF_vars(Terminated)
    /\ \A r \in Remotes : SF_vars(Discovered(r))
    /\ SF_vars(Connected) /\ WF_vars(ConnectFailed)

----------------------------------------------------------------------------
(* Properties *)

\* Type invariant; the controller does one thing at a time
TypeOK ==
    /\ state \in States
    /\ {peer, attempt, connected, bound} \subseteq Remotes \cup {None}
    /\ pending \in Remotes \cup {None, Malformed}
    /\ stage \in Lookup \cup Setup \cup {"none"}
    /\ {started, known, doConnect, unpairing, busy, scan, linkUp, closing, talk} \subseteq BOOLEAN
    /\ {hijacked, unpaired, dropped} \subseteq BOOLEAN
    /\ {pressed, down, held} \subseteq SUBSET Usages
    /\ led \in {"wait", "remote"}
    /\ requests \subseteq {"unpair", "reconnect"} /\ serving \in {"none", "unpair", "reconnect"}
    /\ awake \subseteq Remotes
    /\ commands \in 0..MaxCommands /\ events \in 0..MaxEvents
    /\ linkUp => peer # None
    /\ ~(scan /\ attempt # None)

\* The key engine holds exactly the keys of the last report of this connection:
\* none is left over from a lost link, none is thought to be down already.
\* (handle_hid_report 498-532 and the disconnect handler 773-790)
KeysFollowReports == down \ {VOICE} = pressed \ {VOICE}

\* The voice key stays down only while the remote reports it or a voice session
\* is on record; the one way to lose the record is to leave TALKING for another
\* reason than the voice stop.  (handle_atvv_ctl 448-459)
VoiceIsReleasable == VOICE \in down => VOICE \in pressed \/ state = "TALKING" \/ dropped

\* The LED shows a remote only while one is connected, although the actions of keys
\* that are released with the link, later ticks of the key engine in another task,
\* a failing handshake and a refused attempt all write it.  (led_indicator_set in
\* gap_event_cb 789, ready 237, start_scan 893, dispatch 305-309)
LedTellsTruth == led # "wait" => peer # None

\* The remote saved as bound is one the bridge was connected to, unless its
\* address was overwritten by an attempt that could not be made.
\* (ble_remote_task 1012-1023, 988-991)
BoundWasConnected == [][bound' \in {bound, None, peer} \/ hijacked]_vars

\* The scan was cancelled for an address that does not parse
Deaf == pending = Malformed /\ state = "SCANNING" /\ ~scan /\ ~doConnect

\* The one connection is that of another remote and nothing of the program ends it:
\* its discovery failed, its address was overwritten by a refused attempt or cleared
\* by an unpair served during the attempt, so that it does not become the bound one
Occupied(r) ==
    /\ peer \notin {r, None}
    /\ hijacked \/ connected = None \/ (state = "CONNECTING" /\ started /\ stage = "none")

\* As long as the bound remote is awake it is connected again and again, whatever
\* was lost, refused or asked for: a scan is resumed, and another remote's link gives
\* way or makes that remote the bound one.  (ble_remote_task 959-1023, failed
\* attempts 766-770)
BoundComesBack ==
    \A r \in Remotes :
        <>[](bound = r /\ r \in awake) => []<>(peer = r \/ Occupied(r) \/ Deaf)

\* Unpairing deletes the saved remote: until a connection is asked for, no remote
\* is bound once the request has been served.  (ble_remote_client.h 39)
UnpairForgets == unpaired => bound = None
============================================================================
