-------------------------- MODULE BleClientProofs --------------------------
(***************************************************************************)
(* The safety properties of BleClient and its types, for every set of       *)
(* remotes and key usages and any number of requests, losses and keys.      *)
(***************************************************************************)
EXTENDS BleClient, TLAPS

----------------------------------------------------------------------------
(* The link *)

\* There is one link or one attempt; a remote is ready only while it has the
\* connection, and keys are down only then
LinkOK ==
    /\ linkUp => peer # None /\ attempt = None
    /\ attempt # None => state \notin Up
    /\ peer = None => state \notin Up /\ down = {} /\ pressed = {} /\ ~busy

LEMMA InitLink == Init => LinkOK
BY DEF Init, LinkOK, Up

LEMMA HostTaskLink ==
    ASSUME LinkOK, HostTask
    PROVE  LinkOK'
<1> USE DEF LinkOK, Up, flagVars, gattVars, keyVars, radioVars, historyVars
<1>1. CASE Connected
  BY <1>1 DEF Connected
<1>2. CASE ConnectFailed
  BY <1>2 DEF ConnectFailed, Rescan, StartScan
<1>3. CASE EncChange
  BY <1>3 DEF EncChange
<1>4. CASE GattDone
  BY <1>4 DEF GattDone
<1>5. CASE GattFails
  BY <1>5 DEF GattFails
<1>6. CASE Disconnected
  BY <1>6 DEF Disconnected, ForgetPressed
<1> QED
  BY <1>1, <1>2, <1>3, <1>4, <1>5, <1>6 DEF HostTask

LEMMA RadioLink ==
    ASSUME LinkOK, Radio
    PROVE  LinkOK'
<1> USE DEF LinkOK, Up, flagVars, gattVars, keyVars, radioVars, historyVars
<1>1. CASE LinkDrops
  BY <1>1 DEF LinkDrops, LinkLost
<1>2. CASE Terminated
  BY <1>2 DEF Terminated, LinkLost
<1>3. CASE VoiceStart
  BY <1>3 DEF VoiceStart
<1>4. CASE VoiceStop
  BY <1>4 DEF VoiceStop
<1> QED
  BY <1>1, <1>2, <1>3, <1>4 DEF Radio

LEMMA BridgeLink ==
    ASSUME LinkOK, Bridge
    PROVE  LinkOK'
<1> USE DEF LinkOK, Up, flagVars, gattVars, keyVars, radioVars, historyVars
<1>0. CASE ReadRequests
  BY <1>0 DEF ReadRequests
<1>1. CASE ServeRequests
  BY <1>1 DEF ServeRequests, StartScan
<1>2. CASE Connect
  <2>1. CASE attempt' = attempt
    BY <1>2, <2>1 DEF Connect, StartScan
  <2>2. CASE attempt' # attempt
    <3>1. ~linkUp /\ state' = "CONNECTING"
      BY <1>2, <2>2 DEF Connect
    <3> QED
      BY <1>2, <3>1 DEF Connect
  <2> QED
    BY <2>1, <2>2
<1>3. CASE Fallback
  BY <1>3 DEF Fallback
<1>4. CASE ScanAgain
  BY <1>4 DEF ScanAgain, StartScan
<1>5. CASE Persist
  BY <1>5 DEF Persist
<1> QED
  BY <1>0, <1>1, <1>2, <1>3, <1>4, <1>5 DEF Bridge

\* The steps that leave the link, the keys and the client's state alone
LinkVars == <<state, peer, attempt, linkUp, down, pressed, busy, dropped>>

LEMMA PageLeavesLink ==
    ASSUME \/ Page \/ EngineActs
           \/ \E m \in Targets : ConnectTarget(m)
           \/ \E r \in Remotes : Discovered(r) \/ Wakes(r)
           \/ UNCHANGED vars
    PROVE  UNCHANGED LinkVars
BY DEF LinkVars, Page, EngineActs, ConnectTarget, Reconnect, Unpair, UnpairRequest, Discovered, Wakes,
       flagVars, gattVars, keyVars, radioVars, historyVars, vars

LEMMA StepLink == LinkOK /\ [Next]_vars => LinkOK'
<1> SUFFICES ASSUME LinkOK, [Next]_vars PROVE LinkOK'
  OBVIOUS
<1>1. CASE UNCHANGED LinkVars
  BY <1>1 DEF LinkVars, LinkOK, Up
<1>2. CASE \E now \in SUBSET Usages : KeyChange(now)
  BY <1>2 DEF KeyChange, LinkOK, Up, radioVars
<1> QED
  BY <1>1, <1>2, PageLeavesLink, HostTaskLink, RadioLink, BridgeLink DEF Next

----------------------------------------------------------------------------
(* The keys *)

\* Only a report moves a key other than the voice key, and only a disconnection
\* forgets them all
LEMMA StepKeys == KeysFollowReports /\ [Next]_vars => KeysFollowReports'
<1> SUFFICES ASSUME KeysFollowReports, [Next]_vars PROVE KeysFollowReports'
  OBVIOUS
<1> USE DEF KeysFollowReports, keyVars
<1>1. CASE UNCHANGED LinkVars
  BY <1>1 DEF LinkVars
<1>2. CASE \E now \in SUBSET Usages : KeyChange(now)
  BY <1>2 DEF KeyChange
<1>3. CASE HostTask
  BY <1>3 DEF HostTask, Connected, ConnectFailed, EncChange, GattDone, GattFails, Disconnected,
              ForgetPressed
<1>4. CASE Radio
  BY <1>4 DEF Radio, LinkDrops, Terminated, LinkLost, VoiceStart, VoiceStop, StopVoice
<1>5. CASE Bridge
  BY <1>5 DEF Bridge, ReadRequests, ServeRequests, Connect, Fallback, ScanAgain, Persist
<1> QED
  BY <1>1, <1>2, <1>3, <1>4, <1>5, PageLeavesLink DEF Next

\* The key engine holds exactly the keys of the last report of this connection
\* (handle_hid_report and the disconnect handler).
THEOREM KeysCorrect == Spec => []KeysFollowReports
<1>1. Init => KeysFollowReports
  BY DEF Init, KeysFollowReports
<1> QED
  BY <1>1, StepKeys, PTL DEF Spec

----------------------------------------------------------------------------
(* The voice key *)

LEMMA HostTaskVoice ==
    ASSUME LinkOK, VoiceIsReleasable, HostTask
    PROVE  VoiceIsReleasable'
<1> USE DEF VoiceIsReleasable, keyVars, historyVars
<1>1. CASE Connected
  BY <1>1 DEF Connected, LinkOK
<1>2. CASE ConnectFailed
  BY <1>2 DEF ConnectFailed, LinkOK, Up
<1>3. CASE EncChange
  BY <1>3 DEF EncChange
<1>4. CASE GattDone
  BY <1>4 DEF GattDone, Overwritten
<1>5. CASE GattFails
  BY <1>5 DEF GattFails
<1>6. CASE Disconnected
  BY <1>6 DEF Disconnected
<1> QED
  BY <1>1, <1>2, <1>3, <1>4, <1>5, <1>6 DEF HostTask

LEMMA LinkLostVoice ==
    ASSUME VoiceIsReleasable, LinkLost
    PROVE  VoiceIsReleasable'
<1> USE DEF VoiceIsReleasable, LinkLost
<1>1. CASE Overwritten
  BY <1>1 DEF Overwritten
<1>2. CASE UNCHANGED <<state, dropped>>
  BY <1>2
<1> QED
  BY <1>1, <1>2

LEMMA RadioVoice ==
    ASSUME VoiceIsReleasable, Radio
    PROVE  VoiceIsReleasable'
<1> USE DEF VoiceIsReleasable, keyVars, historyVars
<1>1. CASE LinkDrops
  BY <1>1, LinkLostVoice DEF LinkDrops
<1>2. CASE Terminated
  BY <1>2, LinkLostVoice DEF Terminated
<1>3. CASE VoiceStart
  BY <1>3 DEF VoiceStart
<1>4. CASE VoiceStop
  BY <1>4 DEF VoiceStop, StopVoice
<1> QED
  BY <1>1, <1>2, <1>3, <1>4 DEF Radio

LEMMA BridgeVoice ==
    ASSUME VoiceIsReleasable, Bridge
    PROVE  VoiceIsReleasable'
<1> USE DEF VoiceIsReleasable, keyVars, historyVars
<1>0. CASE ReadRequests
  BY <1>0 DEF ReadRequests
<1>1. CASE ServeRequests
  BY <1>1 DEF ServeRequests, Overwritten
<1>2. CASE Connect
  BY <1>2 DEF Connect, Overwritten
<1>3. CASE Fallback
  BY <1>3 DEF Fallback
<1>4. CASE ScanAgain
  BY <1>4 DEF ScanAgain
<1>5. CASE Persist
  BY <1>5 DEF Persist
<1> QED
  BY <1>0, <1>1, <1>2, <1>3, <1>4, <1>5 DEF Bridge

LEMMA StepVoice == LinkOK /\ VoiceIsReleasable /\ [Next]_vars => VoiceIsReleasable'
<1> SUFFICES ASSUME LinkOK, VoiceIsReleasable, [Next]_vars PROVE VoiceIsReleasable'
  OBVIOUS
<1>1. CASE UNCHANGED LinkVars
  BY <1>1 DEF LinkVars, VoiceIsReleasable
<1>2. CASE \E now \in SUBSET Usages : KeyChange(now)
  BY <1>2 DEF KeyChange, VoiceIsReleasable
<1> QED
  BY <1>1, <1>2, PageLeavesLink, HostTaskVoice, RadioVoice, BridgeVoice DEF Next

\* The voice key stays down only while the remote reports it or a voice session
\* is on record, or was until something else than the voice stop ended TALKING
\* (handle_atvv_ctl).
THEOREM VoiceCorrect == Spec => []VoiceIsReleasable
<1>1. Init => VoiceIsReleasable
  BY DEF Init, VoiceIsReleasable
<1> QED
  BY <1>1, InitLink, StepLink, StepVoice, PTL DEF Spec

----------------------------------------------------------------------------
(* The remote saved *)

\* s_connected_mac is the remote that is connected or being connected to, unless
\* an attempt that could not be made has overwritten it
AddressOK ==
    /\ attempt # None => hijacked \/ connected \in {None, attempt}
    /\ linkUp \/ state \in Up => attempt = None /\ (hijacked \/ connected \in {None, peer})

LEMMA InitAddress == Init => AddressOK
BY DEF Init, AddressOK, Up

LEMMA HostTaskAddress ==
    ASSUME AddressOK, HostTask
    PROVE  AddressOK'
<1> USE DEF AddressOK, Up, flagVars, gattVars, keyVars, radioVars, historyVars
<1>1. CASE Connected
  BY <1>1 DEF Connected
<1>2. CASE ConnectFailed
  BY <1>2 DEF ConnectFailed, Rescan, StartScan
<1>3. CASE EncChange
  BY <1>3 DEF EncChange
<1>4. CASE GattDone
  BY <1>4 DEF GattDone
<1>5. CASE GattFails
  BY <1>5 DEF GattFails
<1>6. CASE Disconnected
  BY <1>6 DEF Disconnected
<1> QED
  BY <1>1, <1>2, <1>3, <1>4, <1>5, <1>6 DEF HostTask

LEMMA RadioAddress ==
    ASSUME AddressOK, Radio
    PROVE  AddressOK'
<1> USE DEF AddressOK, Up, flagVars, gattVars, keyVars, radioVars, historyVars
<1>1. CASE LinkDrops
  BY <1>1 DEF LinkDrops, LinkLost
<1>2. CASE Terminated
  BY <1>2 DEF Terminated, LinkLost
<1>3. CASE VoiceStart
  BY <1>3 DEF VoiceStart
<1>4. CASE VoiceStop
  BY <1>4 DEF VoiceStop
<1> QED
  BY <1>1, <1>2, <1>3, <1>4 DEF Radio

LEMMA BridgeAddress ==
    ASSUME AddressOK, Bridge
    PROVE  AddressOK'
<1> USE DEF AddressOK, Up, flagVars, gattVars, keyVars, radioVars, historyVars
<1>0. CASE ReadRequests
  BY <1>0 DEF ReadRequests
<1>1. CASE ServeRequests
  BY <1>1 DEF ServeRequests, StartScan
<1>2. CASE Connect
  <2>1. CASE pending = Malformed
    BY <1>2, <2>1 DEF Connect
  <2>2. CASE pending # Malformed
    BY <1>2, <2>2 DEF Connect, StartScan
  <2> QED
    BY <2>1, <2>2
<1>3. CASE Fallback
  BY <1>3 DEF Fallback
<1>4. CASE ScanAgain
  BY <1>4 DEF ScanAgain, StartScan
<1>5. CASE Persist
  BY <1>5 DEF Persist
<1> QED
  BY <1>0, <1>1, <1>2, <1>3, <1>4, <1>5 DEF Bridge

LEMMA StepAddress == AddressOK /\ [Next]_vars => AddressOK'
<1> SUFFICES ASSUME AddressOK, [Next]_vars PROVE AddressOK'
  OBVIOUS
<1>1. CASE Page \/ UNCHANGED vars
  BY <1>1 DEF Page, Reconnect, Unpair, UnpairRequest, AddressOK, Up, radioVars, historyVars, vars
<1>2. CASE \E m \in Targets : ConnectTarget(m)
  BY <1>2 DEF ConnectTarget, AddressOK, Up, radioVars, historyVars
<1>3. CASE EngineActs \/ \E r \in Remotes : Discovered(r) \/ Wakes(r)
  BY <1>3 DEF EngineActs, Discovered, Wakes, AddressOK, Up, radioVars, historyVars
<1>4. CASE \E now \in SUBSET Usages : KeyChange(now)
  BY <1>4 DEF KeyChange, AddressOK, Up, radioVars
<1> QED
  BY <1>1, <1>2, <1>3, <1>4, HostTaskAddress, RadioAddress, BridgeAddress DEF Next

\* Only ble_remote_task and ble_remote_unpair write s_bound_mac
LEMMA StepBound ==
    AddressOK /\ [Next]_vars => [bound' \in {bound, None, peer} \/ hijacked]_vars
<1> SUFFICES ASSUME AddressOK, [Next]_vars PROVE bound' \in {bound, None, peer} \/ hijacked
  OBVIOUS
<1>1. CASE Persist
  BY <1>1 DEF Persist, Remembered, AddressOK
<1>2. CASE Unpair
  BY <1>2 DEF Unpair
<1>3. CASE UNCHANGED bound
  BY <1>3
<1>4. CASE HostTask \/ Radio
  BY <1>4 DEF HostTask, Radio, Connected, ConnectFailed, EncChange, GattDone, GattFails, Disconnected,
              LinkDrops, Terminated, LinkLost, VoiceStart, VoiceStop
<1>5. CASE ReadRequests \/ ServeRequests \/ Connect \/ Fallback \/ ScanAgain
  BY <1>5 DEF ReadRequests, ServeRequests, Connect, Fallback, ScanAgain
<1>6. CASE \/ Reconnect \/ UnpairRequest \/ EngineActs
           \/ \E r \in Remotes : Discovered(r) \/ Wakes(r)
           \/ \E m \in Targets : ConnectTarget(m)
           \/ \E now \in SUBSET Usages : KeyChange(now)
  BY <1>6 DEF Reconnect, UnpairRequest, EngineActs, Discovered, Wakes, ConnectTarget, KeyChange
<1> QED
  BY <1>1, <1>2, <1>3, <1>4, <1>5, <1>6 DEF Next, Bridge, Page, vars

\* The remote saved as bound is the connected one, unless its address was
\* overwritten by an attempt that could not be made (ble_remote_task).
THEOREM BoundCorrect == Spec => BoundWasConnected
BY InitAddress, StepAddress, StepBound, PTL DEF Spec, BoundWasConnected

----------------------------------------------------------------------------
(* The LED *)

\* Whatever lights the LED has a connection, the key engine included: its slots come
\* to rest with the connection, before the LED is turned off
LEMMA StepLed == LinkOK /\ LedTellsTruth /\ [Next]_vars => LedTellsTruth'
<1> SUFFICES ASSUME LinkOK, LedTellsTruth, [Next]_vars PROVE LedTellsTruth'
  OBVIOUS
<1> USE DEF LedTellsTruth, LinkOK, gattVars, keyVars, flagVars, radioVars, historyVars
<1>1. CASE HostTask
  BY <1>1 DEF HostTask, Connected, ConnectFailed, EncChange, GattDone, GattFails, Disconnected,
              Rescan, StartScan, Waits, LedOff
<1>2. CASE Radio
  BY <1>2 DEF Radio, LinkDrops, Terminated, LinkLost, VoiceStart, VoiceStop, StopVoice, Fed
<1>3. CASE Bridge
  BY <1>3 DEF Bridge, ReadRequests, ServeRequests, Connect, Fallback, ScanAgain, Persist, StartScan, Waits
<1>4. CASE \E now \in SUBSET Usages : KeyChange(now)
  BY <1>4 DEF KeyChange, Fed
<1>5. CASE \/ Page \/ EngineActs
           \/ \E m \in Targets : ConnectTarget(m)
           \/ \E r \in Remotes : Discovered(r) \/ Wakes(r)
           \/ UNCHANGED vars
  BY <1>5 DEF Page, EngineActs, ConnectTarget, Reconnect, Unpair, UnpairRequest, Discovered, Wakes, vars
<1> QED
  BY <1>1, <1>2, <1>3, <1>4, <1>5 DEF Next

\* The LED shows a remote only while one is connected, whatever the key engine emits
\* and whenever its ticks do (gap_event_cb, run_next_op, usb_hid_dispatch_action).
THEOREM LedTruthful == Spec => []LedTellsTruth
<1>1. Init => LedTellsTruth
  BY DEF Init, LedTellsTruth
<1> QED
  BY <1>1, InitLink, StepLink, StepLed, PTL DEF Spec

----------------------------------------------------------------------------
(* Types *)

Stages == Lookup \cup Setup \cup {"none"}

PhasesOK == state \in States /\ stage \in Stages /\ led \in {"wait", "remote"}

AddressesOK ==
    /\ peer \in Remotes \cup {None} /\ attempt \in Remotes \cup {None}
    /\ connected \in Remotes \cup {None} /\ bound \in Remotes \cup {None}
    /\ pending \in Remotes \cup {None, Malformed}
    /\ doConnect => pending # None

TaskFlagsOK ==
    /\ started \in BOOLEAN /\ known \in BOOLEAN
    /\ doConnect \in BOOLEAN /\ unpairing \in BOOLEAN /\ busy \in BOOLEAN

LinkFlagsOK ==
    /\ scan \in BOOLEAN /\ linkUp \in BOOLEAN /\ closing \in BOOLEAN /\ talk \in BOOLEAN

HistoryOK == hijacked \in BOOLEAN /\ unpaired \in BOOLEAN /\ dropped \in BOOLEAN

KeySetsOK ==
    /\ pressed \subseteq Usages /\ down \subseteq Usages /\ held \subseteq Usages
    /\ requests \subseteq {"unpair", "reconnect"} /\ serving \in {"none", "unpair", "reconnect"}
    /\ awake \subseteq Remotes

CountsOK == commands \in 0..MaxCommands /\ events \in 0..MaxEvents

\* The controller does one thing at a time
RadioOK == (linkUp => peer # None) /\ ~(scan /\ attempt # None)

LEMMA StepPhases == PhasesOK /\ [Next]_vars => PhasesOK'
<1> SUFFICES ASSUME PhasesOK, [Next]_vars PROVE PhasesOK'
  OBVIOUS
<1> USE DEF PhasesOK, States, Stages, Lookup, Setup, flagVars, gattVars, keyVars, radioVars, historyVars
<1>1. CASE HostTask
  BY <1>1
     DEF HostTask, Connected, ConnectFailed, EncChange, GattDone, GattFails, Disconnected,
         Rescan, StartScan, Waits, StartDiscovery, After, Overwritten, ForgetPressed, LedOff
<1>2. CASE Radio
  BY <1>2
     DEF Radio, LinkDrops, Terminated, LinkLost, VoiceStart, VoiceStop, StopVoice, Fed, Overwritten
<1>3. CASE Bridge
  BY <1>3
     DEF Bridge, ReadRequests, ServeRequests, Connect, Fallback, ScanAgain, Persist,
         StartScan, Waits, StartDiscovery, Remembered, Overwritten
<1>4. CASE Page \/ \E m \in Targets : ConnectTarget(m)
  BY <1>4 DEF Page, Reconnect, Unpair, UnpairRequest, ConnectTarget
<1>5. CASE EngineActs \/ \E r \in Remotes : Discovered(r) \/ Wakes(r)
  BY <1>5 DEF EngineActs, Discovered, Wakes
<1>6. CASE \E now \in SUBSET Usages : KeyChange(now)
  BY <1>6 DEF KeyChange, Fed
<1>7. CASE UNCHANGED vars
  BY <1>7 DEF vars
<1> QED
  BY <1>1, <1>2, <1>3, <1>4, <1>5, <1>6, <1>7 DEF Next

LEMMA StepAddresses == AddressesOK /\ [Next]_vars => AddressesOK'
<1> SUFFICES ASSUME AddressesOK, [Next]_vars PROVE AddressesOK'
  OBVIOUS
<1> USE DEF AddressesOK, flagVars, gattVars, keyVars, radioVars, historyVars
<1>1. CASE HostTask
  BY AddressAssumption, <1>1
     DEF HostTask, Connected, ConnectFailed, EncChange, GattDone, GattFails, Disconnected,
         Rescan, StartScan, Waits, StartDiscovery, After, Overwritten, ForgetPressed, LedOff
<1>2. CASE Radio
  BY AddressAssumption, <1>2
     DEF Radio, LinkDrops, Terminated, LinkLost, VoiceStart, VoiceStop, StopVoice, Fed, Overwritten
<1>3. CASE Bridge
  BY AddressAssumption, <1>3
     DEF Bridge, ReadRequests, ServeRequests, Connect, Fallback, ScanAgain, Persist,
         StartScan, Waits, StartDiscovery, Remembered, Overwritten
<1>4. CASE Page \/ \E m \in Targets : ConnectTarget(m)
  BY AddressAssumption, <1>4 DEF Page, Reconnect, Unpair, UnpairRequest, ConnectTarget
<1>5. CASE EngineActs \/ \E r \in Remotes : Discovered(r) \/ Wakes(r)
  BY AddressAssumption, <1>5 DEF EngineActs, Discovered, Wakes
<1>6. CASE \E now \in SUBSET Usages : KeyChange(now)
  BY AddressAssumption, <1>6 DEF KeyChange, Fed
<1>7. CASE UNCHANGED vars
  BY <1>7 DEF vars
<1> QED
  BY <1>1, <1>2, <1>3, <1>4, <1>5, <1>6, <1>7 DEF Next

LEMMA StepTaskFlags == TaskFlagsOK /\ [Next]_vars => TaskFlagsOK'
<1> SUFFICES ASSUME TaskFlagsOK, [Next]_vars PROVE TaskFlagsOK'
  OBVIOUS
<1> USE DEF TaskFlagsOK, flagVars, gattVars, keyVars, radioVars, historyVars
<1>1. CASE HostTask
  BY <1>1
     DEF HostTask, Connected, ConnectFailed, EncChange, GattDone, GattFails, Disconnected,
         Rescan, StartScan, Waits, StartDiscovery, After, Overwritten, ForgetPressed, LedOff
<1>2. CASE Radio
  BY <1>2
     DEF Radio, LinkDrops, Terminated, LinkLost, VoiceStart, VoiceStop, StopVoice, Fed, Overwritten
<1>3. CASE Bridge
  BY <1>3
     DEF Bridge, ReadRequests, ServeRequests, Connect, Fallback, ScanAgain, Persist,
         StartScan, Waits, StartDiscovery, Remembered, Overwritten
<1>4. CASE Page \/ \E m \in Targets : ConnectTarget(m)
  BY <1>4 DEF Page, Reconnect, Unpair, UnpairRequest, ConnectTarget
<1>5. CASE EngineActs \/ \E r \in Remotes : Discovered(r) \/ Wakes(r)
  BY <1>5 DEF EngineActs, Discovered, Wakes
<1>6. CASE \E now \in SUBSET Usages : KeyChange(now)
  BY <1>6 DEF KeyChange, Fed
<1>7. CASE UNCHANGED vars
  BY <1>7 DEF vars
<1> QED
  BY <1>1, <1>2, <1>3, <1>4, <1>5, <1>6, <1>7 DEF Next

LEMMA StepLinkFlags == LinkFlagsOK /\ [Next]_vars => LinkFlagsOK'
<1> SUFFICES ASSUME LinkFlagsOK, [Next]_vars PROVE LinkFlagsOK'
  OBVIOUS
<1> USE DEF LinkFlagsOK, flagVars, gattVars, keyVars, radioVars, historyVars
<1>1. CASE HostTask
  BY <1>1
     DEF HostTask, Connected, ConnectFailed, EncChange, GattDone, GattFails, Disconnected,
         Rescan, StartScan, Waits, StartDiscovery, After, Overwritten, ForgetPressed, LedOff
<1>2. CASE Radio
  BY <1>2
     DEF Radio, LinkDrops, Terminated, LinkLost, VoiceStart, VoiceStop, StopVoice, Fed, Overwritten
<1>3. CASE Bridge
  BY <1>3
     DEF Bridge, ReadRequests, ServeRequests, Connect, Fallback, ScanAgain, Persist,
         StartScan, Waits, StartDiscovery, Remembered, Overwritten
<1>4. CASE Page \/ \E m \in Targets : ConnectTarget(m)
  BY <1>4 DEF Page, Reconnect, Unpair, UnpairRequest, ConnectTarget
<1>5. CASE EngineActs \/ \E r \in Remotes : Discovered(r) \/ Wakes(r)
  BY <1>5 DEF EngineActs, Discovered, Wakes
<1>6. CASE \E now \in SUBSET Usages : KeyChange(now)
  BY <1>6 DEF KeyChange, Fed
<1>7. CASE UNCHANGED vars
  BY <1>7 DEF vars
<1> QED
  BY <1>1, <1>2, <1>3, <1>4, <1>5, <1>6, <1>7 DEF Next

LEMMA StepHistory == HistoryOK /\ [Next]_vars => HistoryOK'
<1> SUFFICES ASSUME HistoryOK, [Next]_vars PROVE HistoryOK'
  OBVIOUS
<1> USE DEF HistoryOK, flagVars, gattVars, keyVars, radioVars, historyVars
<1>1. CASE HostTask
  BY <1>1
     DEF HostTask, Connected, ConnectFailed, EncChange, GattDone, GattFails, Disconnected,
         Rescan, StartScan, Waits, StartDiscovery, After, Overwritten, ForgetPressed, LedOff
<1>2. CASE Radio
  BY <1>2
     DEF Radio, LinkDrops, Terminated, LinkLost, VoiceStart, VoiceStop, StopVoice, Fed, Overwritten
<1>3. CASE Bridge
  BY <1>3
     DEF Bridge, ReadRequests, ServeRequests, Connect, Fallback, ScanAgain, Persist,
         StartScan, Waits, StartDiscovery, Remembered, Overwritten
<1>4. CASE Page \/ \E m \in Targets : ConnectTarget(m)
  BY <1>4 DEF Page, Reconnect, Unpair, UnpairRequest, ConnectTarget
<1>5. CASE EngineActs \/ \E r \in Remotes : Discovered(r) \/ Wakes(r)
  BY <1>5 DEF EngineActs, Discovered, Wakes
<1>6. CASE \E now \in SUBSET Usages : KeyChange(now)
  BY <1>6 DEF KeyChange, Fed
<1>7. CASE UNCHANGED vars
  BY <1>7 DEF vars
<1> QED
  BY <1>1, <1>2, <1>3, <1>4, <1>5, <1>6, <1>7 DEF Next

LEMMA StepKeySets == KeySetsOK /\ [Next]_vars => KeySetsOK'
<1> SUFFICES ASSUME KeySetsOK, [Next]_vars PROVE KeySetsOK'
  OBVIOUS
<1> USE DEF KeySetsOK, flagVars, gattVars, keyVars, radioVars, historyVars
<1>1. CASE HostTask
  BY VoiceAssumption, <1>1
     DEF HostTask, Connected, ConnectFailed, EncChange, GattDone, GattFails, Disconnected,
         Rescan, StartScan, Waits, StartDiscovery, After, Overwritten, ForgetPressed, LedOff
<1>2. CASE Radio
  BY VoiceAssumption, <1>2
     DEF Radio, LinkDrops, Terminated, LinkLost, VoiceStart, VoiceStop, StopVoice, Fed, Overwritten
<1>3. CASE Bridge
  BY VoiceAssumption, <1>3
     DEF Bridge, ReadRequests, ServeRequests, Connect, Fallback, ScanAgain, Persist,
         StartScan, Waits, StartDiscovery, Remembered, Overwritten
<1>4. CASE Page \/ \E m \in Targets : ConnectTarget(m)
  BY VoiceAssumption, <1>4 DEF Page, Reconnect, Unpair, UnpairRequest, ConnectTarget
<1>5. CASE EngineActs \/ \E r \in Remotes : Discovered(r) \/ Wakes(r)
  BY VoiceAssumption, <1>5 DEF EngineActs, Discovered, Wakes
<1>6. CASE \E now \in SUBSET Usages : KeyChange(now)
  BY VoiceAssumption, <1>6 DEF KeyChange, Fed
<1>7. CASE UNCHANGED vars
  BY <1>7 DEF vars
<1> QED
  BY <1>1, <1>2, <1>3, <1>4, <1>5, <1>6, <1>7 DEF Next

LEMMA StepRadio == RadioOK /\ LinkFlagsOK /\ [Next]_vars => RadioOK'
<1> SUFFICES ASSUME RadioOK /\ LinkFlagsOK, [Next]_vars PROVE RadioOK'
  OBVIOUS
<1> USE DEF LinkFlagsOK, RadioOK, flagVars, gattVars, keyVars, radioVars, historyVars
<1>1. CASE HostTask
  BY <1>1
     DEF HostTask, Connected, ConnectFailed, EncChange, GattDone, GattFails, Disconnected,
         Rescan, StartScan, Waits, StartDiscovery, After, Overwritten, ForgetPressed, LedOff
<1>2. CASE Radio
  BY <1>2
     DEF Radio, LinkDrops, Terminated, LinkLost, VoiceStart, VoiceStop, StopVoice, Fed, Overwritten
<1>3. CASE Bridge
  BY <1>3
     DEF Bridge, ReadRequests, ServeRequests, Connect, Fallback, ScanAgain, Persist,
         StartScan, Waits, StartDiscovery, Remembered, Overwritten
<1>4. CASE Page \/ \E m \in Targets : ConnectTarget(m)
  BY <1>4 DEF Page, Reconnect, Unpair, UnpairRequest, ConnectTarget
<1>5. CASE EngineActs \/ \E r \in Remotes : Discovered(r) \/ Wakes(r)
  BY <1>5 DEF EngineActs, Discovered, Wakes
<1>6. CASE \E now \in SUBSET Usages : KeyChange(now)
  BY <1>6 DEF KeyChange, Fed
<1>7. CASE UNCHANGED vars
  BY <1>7 DEF vars
<1> QED
  BY <1>1, <1>2, <1>3, <1>4, <1>5, <1>6, <1>7 DEF Next

\* Every step counts at most one command or event, within its bound
LEMMA StepCounts == CountsOK /\ [Next]_vars => CountsOK'
<1> SUFFICES ASSUME CountsOK, [Next]_vars PROVE CountsOK'
  OBVIOUS
<1>1. CASE Command \/ Event
  BY BoundAssumption, <1>1 DEF CountsOK, Command, Event
<1>2. CASE UNCHANGED <<commands, events>>
  BY <1>2 DEF CountsOK
<1>3. ASSUME HostTask \/ Radio PROVE Command \/ Event \/ Free
  BY <1>3 DEF HostTask, Connected, ConnectFailed, EncChange, GattDone, GattFails, Disconnected,
              Radio, LinkDrops, Terminated, VoiceStart, VoiceStop
<1>4. ASSUME Bridge \/ Page PROVE Command \/ Event \/ Free
  BY <1>4 DEF Bridge, ReadRequests, ServeRequests, Connect, Fallback, ScanAgain, Persist,
              Page, Reconnect, Unpair, UnpairRequest
<1>5. ASSUME \/ EngineActs
             \/ \E r \in Remotes : Discovered(r) \/ Wakes(r)
             \/ \E m \in Targets : ConnectTarget(m)
             \/ \E now \in SUBSET Usages : KeyChange(now)
      PROVE  Command \/ Event \/ Free
  BY <1>5 DEF EngineActs, Discovered, Wakes, ConnectTarget, KeyChange
<1> QED
  BY <1>1, <1>2, <1>3, <1>4, <1>5 DEF Next, Free, vars

TypesOK ==
    /\ PhasesOK /\ AddressesOK /\ TaskFlagsOK /\ LinkFlagsOK /\ HistoryOK /\ KeySetsOK
    /\ CountsOK /\ RadioOK

\* Every variable keeps its type and the controller does one thing at a time.
THEOREM BleTypeCorrect == Spec => []TypeOK
<1>1. Init => TypesOK
  <2> SUFFICES ASSUME Init PROVE TypesOK
    OBVIOUS
  <2> USE DEF Init
  <2>1. PhasesOK
    BY DEF PhasesOK, States, Stages
  <2>2. AddressesOK
    BY DEF AddressesOK
  <2>3. TaskFlagsOK /\ LinkFlagsOK /\ HistoryOK
    BY DEF TaskFlagsOK, LinkFlagsOK, HistoryOK
  <2>4. KeySetsOK /\ RadioOK
    BY DEF KeySetsOK, RadioOK
  <2>5. CountsOK
    BY BoundAssumption DEF CountsOK
  <2> QED
    BY <2>1, <2>2, <2>3, <2>4, <2>5 DEF TypesOK
<1>2. TypesOK /\ [Next]_vars => TypesOK'
  BY StepPhases, StepAddresses, StepTaskFlags, StepLinkFlags, StepHistory, StepKeySets,
     StepCounts, StepRadio DEF TypesOK
<1>3. TypesOK => TypeOK
  BY DEF TypesOK, TypeOK, PhasesOK, AddressesOK, TaskFlagsOK, LinkFlagsOK, HistoryOK, KeySetsOK,
         CountsOK, RadioOK, Stages
<1> QED
  BY <1>1, <1>2, <1>3, PTL DEF Spec
============================================================================
