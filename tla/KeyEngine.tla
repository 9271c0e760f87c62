----------------------------- MODULE KeyEngine -----------------------------
(***************************************************************************)
(* The multi-layer key state machine of the bridge (key_state_machine.c):  *)
(* remote key edges in, HID actions out.  All of it runs under one          *)
(* recursive mutex.  Two loops of the code emit actions while they hold it  *)
(* and are modelled slot by slot, so that every emission is a step of its   *)
(* own: the scan of key_engine_tick (variable tick) and the release loop of *)
(* key_engine_release_all (variable sweep).  While one of them runs the     *)
(* mutex is taken and no other handler can start.                           *)
(*                                                                          *)
(* feed_key, emit_action, switch_layer and release_all call each other.     *)
(* The calls nest but never re-enter a slot: a slot is marked released      *)
(* before its action is emitted, and the active layer is assigned only      *)
(* after every slot has been released.  A nested release loop is therefore  *)
(* the continuation of the outer one, and the outermost layer change, the   *)
(* last to be assigned, wins.                                               *)
(*                                                                          *)
(* Time is kept as ages and countdowns in abstract units, saturated at the  *)
(* largest value the code compares them with; a handler takes no time.      *)
(***************************************************************************)
EXTENDS Integers

CONSTANTS
    Keys,           \* physical slots in use, get_physical_key_slot numbers
    Layers,         \* layer numbers 0..MAX_LAYERS-1
    Keymaps,        \* keymaps a client may upload
    Defaults,       \* the keymap of key_engine_load_defaults
    LongMs, DoubleMs, RepeatDelay, RepeatInterval, MoveInterval,
    ModeTimeout, TvLockout, TvWindow, TvPressCount,
    LayerTimeout,   \* the longest timeout a TIMEOUT layer may have
    UsbCommands     \* the WebUSB commands the environment issues

VOICE == 1
OK    == 6
BACK  == 7
TV    == 12
End   == 13         \* the slot loops run over 0..12

ActionTypes == {"NONE", "KEYBOARD_TAP", "KEYBOARD_HOLD", "KEYBOARD_RELEASE",
    "CONSUMER_TAP", "CONSUMER_HOLD", "CONSUMER_RELEASE", "VOICE_HOLD",
    "VOICE_RELEASE", "SWITCH_LAYER", "TRANSPARENT", "MOUSE_BUTTON_TAP",
    "MOUSE_BUTTON_HOLD", "MOUSE_BUTTON_RELEASE", "MOUSE_MOVE", "MOUSE_WHEEL",
    "ENTER_SWITCH_MODE"}

\* arg stands for the modifier and key code, the usage, the button or the layer
Action   == [type : ActionTypes, arg : Nat]
Gestures == {"click", "long", "double", "repeat"}
Binding  == [Gestures -> Action]
NoLayer  == -1
LayerType == {"PERSISTENT", "ONESHOT", "TIMEOUT"}

\* A layer binds some of the keys; a switch action names a layer
WellFormed(km) ==
    /\ \A l \in Layers :
          /\ DOMAIN km.bind[l] \subseteq Keys
          /\ km.type[l] \in LayerType
          /\ km.timeout[l] \in 0..LayerTimeout
          /\ \A k \in DOMAIN km.bind[l] :
                /\ km.bind[l][k] \in Binding
                /\ \A g \in Gestures : km.bind[l][k][g].type = "SWITCH_LAYER"
                                      => km.bind[l][k][g].arg \in Layers
    /\ km.map \in [Keys -> Layers \cup {NoLayer}]

ASSUME KeysAssumption == Keys \subseteq 0..12
ASSUME LayersAssumption == Layers \subseteq 0..4 /\ 0 \in Layers
ASSUME KeymapAssumption ==
    /\ Defaults \in Keymaps
    /\ \A km \in Keymaps : WellFormed(km)
ASSUME TimingAssumption ==
    /\ {LongMs, DoubleMs, RepeatDelay, RepeatInterval, MoveInterval,
        ModeTimeout, TvLockout, TvWindow, LayerTimeout} \subseteq Nat
    /\ TvPressCount \in Nat \ {0}
ASSUME CommandAssumption == UsbCommands \subseteq {"set_layer", "apply", "reset"}

VARIABLES
    keymap,     \* engine->layers and engine->switch_map
    st,         \* engine->states
    active,     \* engine->active_layer
    mode,       \* engine->switch_mode_*; read only while on
    tv,         \* s_tv_rapid_count and the age of s_tv_rapid_first_ms
    idle,       \* age of engine->last_activity_time
    tele,       \* age of engine->last_telemetry.timestamp
    sweep,      \* key_engine_release_all in progress
    tick,       \* the slot loop of key_engine_tick in progress
    led,        \* the flag of led_indicator_set_switch_mode
    saveReq,    \* key_config_storage_request_save's semaphore
    host,       \* what the outputs so far leave held on the host
    phys,       \* buttons the remote last reported as down
    out,        \* history: the action handed to output_cb in the last step
    credit,     \* history: presses of a key that no gesture has used up yet
    born,       \* history: the layer a key's current gesture started in
    orphan      \* history: slots were cleared under an output still held

engineVars == <<keymap, st, active, mode, tv, idle, tele, sweep, tick>>
effectVars == <<led, saveReq, host, out>>
ghostVars  == <<credit, born, orphan>>
vars == <<engineVars, effectVars, phys, ghostVars>>

----------------------------------------------------------------------------
(* Slots, modes and the resolution of bindings *)

RepeatMax == IF RepeatDelay > RepeatInterval THEN RepeatDelay ELSE RepeatInterval
Slot == [pressed : BOOLEAN, longFired : BOOLEAN, waiting : BOOLEAN, moving : BOOLEAN,
         count : 0..1, held : 0..LongMs, since : 0..DoubleMs,
         repeatIn : 0..RepeatMax, moveIn : 0..MoveInterval]

Cleared == [pressed |-> FALSE, longFired |-> FALSE, waiting |-> FALSE, moving |-> FALSE,
            count |-> 0, held |-> 0, since |-> 0, repeatIn |-> 0, moveIn |-> 0]
AllCleared == [k \in Keys |-> Cleared]

NoMode  == [on |-> FALSE, via |-> FALSE, age |-> 0, idle |-> 0]
NoSweep == [on |-> FALSE, at |-> 0, to |-> NoLayer, age |-> 0, keep |-> End]
NoTick  == [on |-> FALSE, at |-> 0, again |-> FALSE, layer |-> 0]
NoOut   == [key |-> End, gesture |-> "none", type |-> "NONE"]
NoAct   == [type |-> "NONE", arg |-> 0]
Unbound == [g \in Gestures |-> NoAct]
Nothing == [kb |-> 0, consumer |-> 0, mouse |-> {}, mic |-> FALSE]

Unlocked == ~sweep.on /\ ~tick.on

Own(l, k) == IF k \in DOMAIN keymap.bind[l] THEN keymap.bind[l][k] ELSE Unbound

Effective(l, k) ==
    IF l = 0 \/ k \notin DOMAIN keymap.bind[0]
    THEN Own(l, k)
    ELSE [g \in Gestures |-> IF Own(l, k)[g].type = "TRANSPARENT"
                             THEN keymap.bind[0][k][g]
                             ELSE Own(l, k)[g]]

\* The flags has_click to has_repeat: the page sets them exactly for the actions
\* it writes, and a flag with an action NONE emits what TRANSPARENT emits, nothing
Has(b, g) == b[g].type # "NONE"
Plain(b)  == ~Has(b, "long") /\ ~Has(b, "double")

AsTap(a) ==
    CASE a.type = "KEYBOARD_HOLD"     -> [a EXCEPT !.type = "KEYBOARD_TAP"]
      [] a.type = "CONSUMER_HOLD"     -> [a EXCEPT !.type = "CONSUMER_TAP"]
      [] a.type = "MOUSE_BUTTON_HOLD" -> [a EXCEPT !.type = "MOUSE_BUTTON_TAP"]
      [] OTHER -> a

\* The action that undoes a held click on key-up (the release branch, plain keys)
ReleaseOf(a) ==
    CASE a.type = "KEYBOARD_HOLD"     -> [type |-> "KEYBOARD_RELEASE", arg |-> 0]
      [] a.type = "CONSUMER_HOLD"     -> [type |-> "CONSUMER_RELEASE", arg |-> 0]
      [] a.type = "VOICE_HOLD"        -> [type |-> "VOICE_RELEASE", arg |-> 0]
      [] a.type = "MOUSE_BUTTON_HOLD" -> [type |-> "MOUSE_BUTTON_RELEASE", arg |-> a.arg]
      [] a.type \in {"KEYBOARD_RELEASE", "CONSUMER_RELEASE"} -> a
      [] OTHER -> NoAct

\* The action that undoes a held long press: the code has no voice case here
LongReleaseOf(a) == IF a.type \in {"KEYBOARD_HOLD", "CONSUMER_HOLD", "MOUSE_BUTTON_HOLD"}
                    THEN ReleaseOf(a) ELSE NoAct

FiresOnPress == {"MOUSE_MOVE", "KEYBOARD_HOLD", "CONSUMER_HOLD", "VOICE_HOLD",
                 "SWITCH_LAYER", "MOUSE_BUTTON_HOLD", "MOUSE_WHEEL", "KEYBOARD_TAP",
                 "CONSUMER_TAP", "MOUSE_BUTTON_TAP", "ENTER_SWITCH_MODE"}

EndsOneshot == {"KEYBOARD_TAP", "CONSUMER_TAP", "KEYBOARD_RELEASE", "CONSUMER_RELEASE",
                "VOICE_RELEASE", "MOUSE_BUTTON_TAP", "MOUSE_BUTTON_RELEASE",
                "MOUSE_MOVE", "MOUSE_WHEEL"}

\* usb_hid_dispatch_action on an ideal endpoint: one keyboard report, one
\* consumer report, a mask of mouse buttons, and the voice session
Dispatch(a) ==
    CASE a.type = "KEYBOARD_HOLD" -> [host EXCEPT !.kb = a.arg]
      [] a.type \in {"KEYBOARD_TAP", "KEYBOARD_RELEASE"} -> [host EXCEPT !.kb = 0]
      [] a.type = "CONSUMER_HOLD" -> [host EXCEPT !.consumer = a.arg]
      [] a.type \in {"CONSUMER_TAP", "CONSUMER_RELEASE"} -> [host EXCEPT !.consumer = 0]
      [] a.type = "VOICE_HOLD" -> [host EXCEPT !.mic = TRUE,
                                     !.kb = IF a.arg # 0 THEN a.arg ELSE @]
      [] a.type = "VOICE_RELEASE" -> [host EXCEPT !.mic = FALSE, !.kb = 0]
      [] a.type = "MOUSE_BUTTON_HOLD" -> [host EXCEPT !.mouse = @ \cup {a.arg}]
      [] a.type \in {"MOUSE_BUTTON_TAP", "MOUSE_BUTTON_RELEASE"} ->
            [host EXCEPT !.mouse = @ \ {a.arg}]
      [] OTHER -> host

----------------------------------------------------------------------------
(* Emission, layer changes and the switch mode.  st1 and sw are the slots    *)
(* and the sweep as the calling handler leaves them.                         *)

Orphaning(cleared) == orphan' = (host' # Nothing /\ (orphan \/ cleared))

\* Mutant: the mode ends without telling the LED
ModeOffDark(was) == mode' = NoMode /\ (was \in BOOLEAN) /\ UNCHANGED led

ModeOff(was) == mode' = NoMode /\ led' = IF was THEN FALSE ELSE led

\* Mutant: the layer moves while keys are still down
SwitchLayerHolding(t, st1, sw, age, keep) ==
    /\ ModeOff(mode.on)
    /\ st' = st1
    /\ sweep' = IF active = t THEN sw
                ELSE [on |-> TRUE, at |-> End, to |-> t, age |-> age, keep |-> keep]

\* key_engine_switch_layer: leave the mode, then release everything and move,
\* unless the layer is already active
SwitchLayer(t, st1, sw, age, keep) ==
    /\ ModeOff(mode.on)
    /\ st' = st1
    /\ sweep' = IF active = t THEN sw
                ELSE IF sw.on THEN [sw EXCEPT !.to = IF @ = NoLayer THEN t ELSE @]
                ELSE [on |-> TRUE, at |-> 0, to |-> t, age |-> age, keep |-> keep]

EnterSwitchMode(via, sw) ==
    /\ mode' = [on |-> TRUE, via |-> via, age |-> 0, idle |-> 0]
    /\ led' = TRUE
    /\ st' = AllCleared
    /\ sweep' = sw

\* emit_action for gesture g of key k.  age is how old the telemetry time is
\* that a layer change takes for the present; keep is the key whose
\* move_active the caller sets after the call.
Emit(k, g, a, st1, sw, age, keep) ==
    /\ IF a.type \in {"NONE", "TRANSPARENT", "SWITCH_LAYER", "ENTER_SWITCH_MODE"}
       THEN out' = NoOut /\ UNCHANGED host
       ELSE out' = [key |-> k, gesture |-> g, type |-> a.type] /\ host' = Dispatch(a)
    /\ CASE a.type = "SWITCH_LAYER" ->
              SwitchLayer(IF active = a.arg THEN 0 ELSE a.arg, st1, sw, age, keep)
         [] a.type = "ENTER_SWITCH_MODE" -> EnterSwitchMode(FALSE, sw)
         [] a.type \in EndsOneshot /\ active # 0 /\ keymap.type[active] = "ONESHOT" ->
              SwitchLayer(0, st1, sw, age, keep)
         [] OTHER -> st' = st1 /\ sweep' = sw /\ UNCHANGED <<mode, led>>
    /\ Orphaning(a.type = "ENTER_SWITCH_MODE")

NoEmit(st1) ==
    /\ st' = st1
    /\ out' = NoOut
    /\ UNCHANGED <<host, mode, led, sweep, orphan>>

Spend(k, g) ==
    credit' = [credit EXCEPT ![k] = @ - (CASE g \in {"click", "long"} -> 1
                                            [] g = "double" -> 2
                                            [] OTHER -> 0)]

----------------------------------------------------------------------------
(* key_engine_feed_key *)

\* Mutant: a key-up after a fired long action counts as a click as well
CompletedAfterLong(b, s) ==
    IF Plain(b) THEN [g |-> "release", act |-> ReleaseOf(b["click"])]
    ELSE IF ~Has(b, "double") THEN [g |-> "click", act |-> AsTap(b["click"])]
    ELSE IF s.count = 1 THEN [g |-> "double", act |-> AsTap(b["double"])]
    ELSE [g |-> "none", act |-> NoAct]

\* The release branch for a pressed slot: the gesture it completes and the
\* action that stands for it
Completed(b, s) ==
    IF Plain(b) THEN [g |-> "release", act |-> ReleaseOf(b["click"])]
    ELSE IF s.longFired THEN [g |-> "release", act |-> LongReleaseOf(b["long"])]
    ELSE IF ~Has(b, "double") THEN [g |-> "click", act |-> AsTap(b["click"])]
    ELSE IF s.count = 1 THEN [g |-> "double", act |-> AsTap(b["double"])]
    ELSE [g |-> "none", act |-> NoAct]

\* A first short press of a key with a double action opens the double window
ReleasedSlot(b, s) ==
    LET c == Completed(b, s) IN
    [s EXCEPT !.pressed = FALSE, !.moving = FALSE, !.held = 0, !.since = 0,
              !.waiting = IF c.g = "none" THEN TRUE ELSE IF c.g = "double" THEN FALSE ELSE @,
              !.count   = IF c.g = "none" THEN 1 ELSE IF c.g = "double" THEN 0 ELSE @]

FeedPress(k) ==
    LET b   == Effective(active, k)
        s   == st[k]
        st1 == [st EXCEPT ![k] = [s EXCEPT !.pressed = TRUE, !.held = 0, !.longFired = FALSE,
                    !.repeatIn = IF Has(b, "repeat") THEN RepeatDelay ELSE @,
                    !.moving   = IF Plain(b) /\ b["click"].type = "MOUSE_MOVE" THEN TRUE ELSE @,
                    !.moveIn   = IF Plain(b) /\ b["click"].type = "MOUSE_MOVE"
                                 THEN MoveInterval ELSE @]]
    IN
    /\ tele' = 0
    /\ IF s.pressed
       THEN NoEmit(st) /\ UNCHANGED <<credit, born>>
       ELSE /\ born' = [born EXCEPT ![k] = active]
            /\ LET fires == Plain(b) /\ b["click"].type \in FiresOnPress IN
               /\ credit' = [credit EXCEPT ![k] = (IF s.waiting THEN @ ELSE 0)
                                                   + (IF fires THEN 0 ELSE 1)]
               /\ IF fires
                  THEN Emit(k, "click", b["click"], st1, NoSweep, 0,
                            IF b["click"].type = "MOUSE_MOVE" THEN k ELSE End)
                  ELSE NoEmit(st1)

FeedRelease(k) ==
    LET b == Effective(active, k)
        c == Completed(b, st[k])
    IN
    /\ tele' = 0
    /\ IF st[k].pressed
       THEN /\ Spend(k, c.g)
            /\ Emit(k, c.g, c.act, [st EXCEPT ![k] = ReleasedSlot(b, st[k])], NoSweep, 0, End)
       ELSE NoEmit(st) /\ UNCHANGED credit
    /\ UNCHANGED born

\* Mutant: the press counter is not reset when it fires
TvRapidSticky(k) ==
    LET n == IF tv.count = 0 \/ tv.age > TvWindow THEN 1 ELSE tv.count + 1 IN
    IF k # TV THEN [count |-> tv.count, age |-> tv.age, fires |-> FALSE]
    ELSE [count |-> n, age |-> IF n = 1 THEN 0 ELSE tv.age, fires |-> n >= TvPressCount]

\* Five TV presses within the window force the switch mode
TvRapid(k) ==
    LET n == IF tv.count = 0 \/ tv.age > TvWindow THEN 1 ELSE tv.count + 1 IN
    IF k # TV THEN [count |-> tv.count, age |-> tv.age, fires |-> FALSE]
    ELSE [count |-> IF n >= TvPressCount THEN 0 ELSE n,
          age   |-> IF n = 1 \/ n >= TvPressCount THEN 0 ELSE tv.age,
          fires |-> n >= TvPressCount]

EnterByTv ==
    /\ EnterSwitchMode(TRUE, NoSweep)
    /\ out' = NoOut
    /\ UNCHANGED <<host, tele, credit, born>>
    /\ Orphaning(TRUE)

\* Mutant: TV may leave the mode at once
TvFree(k) == k = TV /\ FALSE

TvLocked(k) == k = TV /\ mode.age < TvLockout

\* A press in the switch mode: BACK, the trigger key or TV leave it, OK and
\* the keys of the switch map select a layer, every other key is only marked
ModePress(k) ==
    LET b        == Effective(active, k)
        trigger  == \E g \in {"click", "long", "double"} : b[g].type = "ENTER_SWITCH_MODE"
        exits    == k = BACK \/ (~TvLocked(k) /\ (trigger \/ (k = TV /\ mode.via)))
        target   == IF k = OK THEN 0 ELSE keymap.map[k]
    IN
    /\ out' = NoOut
    /\ UNCHANGED host
    /\ IF st[k].pressed
       THEN UNCHANGED <<st, mode, led, sweep, credit, born, orphan>>
       ELSE /\ credit' = [credit EXCEPT ![k] = 1]
            /\ born' = [born EXCEPT ![k] = active]
            /\ IF exits
               THEN /\ ModeOff(TRUE)
                    /\ st' = AllCleared
                    /\ Orphaning(TRUE)
                    /\ UNCHANGED sweep
               ELSE IF target # NoLayer
               THEN /\ ModeOff(TRUE)
                    /\ st' = [st EXCEPT ![k].pressed = FALSE, ![k].held = 0]
                    /\ sweep' = IF active = target THEN NoSweep
                                ELSE [NoSweep EXCEPT !.on = TRUE, !.to = target]
                    /\ UNCHANGED orphan
               ELSE /\ st' = [st EXCEPT ![k].pressed = TRUE, ![k].held = 0]
                    /\ mode' = [mode EXCEPT !.idle = 0]
                    /\ UNCHANGED <<led, sweep, orphan>>

ModeRelease(k) ==
    /\ NoEmit([st EXCEPT ![k].pressed = FALSE, ![k].held = 0])
    /\ UNCHANGED <<credit, born>>

\* The voice key is reported twice, by the HID report and by the voice
\* service, so its edges may repeat
FeedKey(k, down) ==
    /\ Unlocked
    /\ phys[k] # down \/ k = VOICE
    /\ phys' = [phys EXCEPT ![k] = down]
    /\ idle' = 0
    /\ IF mode.on
       THEN /\ IF down THEN ModePress(k) ELSE ModeRelease(k)
            /\ UNCHANGED <<tele, tv>>
       ELSE IF down
       THEN LET r == TvRapid(k) IN
            /\ tv' = [count |-> r.count, age |-> r.age]
            /\ IF r.fires THEN EnterByTv ELSE FeedPress(k)
       ELSE FeedRelease(k) /\ UNCHANGED tv
    /\ UNCHANGED <<keymap, active, tick, saveReq>>

\* A raw key code without a slot only counts as activity
FeedOther ==
    /\ Unlocked
    /\ idle' = 0
    /\ out' = NoOut
    /\ UNCHANGED <<keymap, st, active, mode, tv, tele, sweep, tick, led, saveReq, host, phys,
                   ghostVars>>

----------------------------------------------------------------------------
(* key_engine_release_all, one slot at a time, and the end of switch_layer *)

ReleaseAll ==
    /\ Unlocked
    /\ phys' \in {phys, [k \in Keys |-> FALSE]}    \* USB suspend, BLE disconnect
    /\ sweep' = [NoSweep EXCEPT !.on = TRUE]
    /\ out' = NoOut
    /\ UNCHANGED <<keymap, st, active, mode, tv, idle, tele, tick, led, saveReq, host, ghostVars>>

SweepSlot(k) ==
    LET b      == Effective(active, k)
        c      == Completed(b, st[k])
        next   == [sweep EXCEPT !.at = k + 1]
        Rest(s) == [s EXCEPT !.waiting = FALSE, !.count = 0, !.moving = FALSE, !.since = 0,
                             !.pressed = FALSE, !.held = 0]
    IN
    /\ sweep.on /\ sweep.at <= k
    /\ \A j \in Keys : ~(sweep.at <= j /\ j < k)
    /\ IF st[k].pressed /\ ~mode.on
       THEN /\ Emit(k, c.g, c.act, [st EXCEPT ![k] = Rest(@)], next, sweep.age, End)
            /\ Spend(k, c.g)
            /\ tele' = sweep.age
       ELSE /\ st' = [st EXCEPT ![k] = Rest(@)]
            /\ sweep' = next
            /\ out' = NoOut
            /\ UNCHANGED <<host, mode, led, orphan, credit, tele>>
    /\ idle' = IF st[k].pressed THEN sweep.age ELSE idle
    /\ UNCHANGED <<keymap, active, tv, tick, saveReq, phys, born>>

SweepEnd ==
    /\ sweep.on
    /\ \A j \in Keys : j < sweep.at
    /\ sweep' = NoSweep
    /\ ModeOff(mode.on)
    /\ st' = IF sweep.keep = End THEN st ELSE [st EXCEPT ![sweep.keep].moving = TRUE,
                                                         ![sweep.keep].moveIn = MoveInterval]
    /\ IF sweep.to = NoLayer
       THEN UNCHANGED <<active, idle, saveReq>>
       ELSE active' = sweep.to /\ idle' = sweep.age /\ saveReq' = TRUE
    /\ out' = NoOut
    /\ UNCHANGED <<keymap, tv, tele, tick, host, phys, ghostVars>>

----------------------------------------------------------------------------
(* key_engine_tick *)

\* Mutant: only a rapid-TV entry times out
ModeExpiredByTv == mode.on /\ mode.via /\ mode.idle >= ModeTimeout

ModeExpired == mode.on /\ mode.idle >= ModeTimeout

\* Mode timeout, then the revert of a TIMEOUT layer, then the slot loop
TickBegin ==
    LET reverts == /\ active # 0 /\ keymap.type[active] = "TIMEOUT"
                   /\ keymap.timeout[active] > 0 /\ idle >= keymap.timeout[active]
    IN
    /\ Unlocked
    /\ tick' = [NoTick EXCEPT !.on = TRUE]
    /\ st' = IF ModeExpired THEN AllCleared ELSE st
    /\ IF ModeExpired \/ (reverts /\ mode.on)
       THEN ModeOff(TRUE) ELSE UNCHANGED <<mode, led>>
    /\ sweep' = IF reverts THEN [NoSweep EXCEPT !.on = TRUE, !.to = 0] ELSE sweep
    /\ out' = NoOut
    /\ UNCHANGED host
    /\ Orphaning(ModeExpired)
    /\ UNCHANGED <<keymap, active, tv, idle, tele, saveReq, phys, credit, born>>

Busy(k) == st[k].pressed \/ st[k].waiting

\* The loop stands at slot k: every slot before it is done or has nothing to do
TickAt(k) ==
    /\ tick.on /\ ~sweep.on
    /\ tick.at <= k
    /\ \A j \in Keys : tick.at <= j /\ j < k => ~Busy(j)

TickUnchanged == UNCHANGED <<keymap, active, tv, idle, tele, saveReq, phys, born>>
Advance(k)    == tick' = [NoTick EXCEPT !.on = TRUE, !.at = k + 1]

LongDue(k) == /\ st[k].pressed /\ ~st[k].longFired
              /\ Has(Effective(active, k), "long")
              /\ st[k].held >= LongMs

TickLong(k) ==
    /\ TickAt(k) /\ ~tick.again
    /\ LongDue(k)
    /\ Emit(k, "long", Effective(active, k)["long"],
            [st EXCEPT ![k].longFired = TRUE], NoSweep, tele, End)
    /\ Spend(k, "long")
    /\ tick' = [on |-> TRUE, at |-> k, again |-> TRUE, layer |-> active]
    /\ TickUnchanged

\* The rest of a pressed slot's turn, with the binding read at its start
\* even when the long action has since changed the layer or cleared the slot
TickHeld(k) ==
    LET b == Effective(IF tick.again THEN tick.layer ELSE active, k)
        s == st[k]
        moves == s.moving /\ b["click"].type = "MOUSE_MOVE"
    IN
    /\ IF tick.again THEN tick.on /\ ~sweep.on /\ tick.at = k
       ELSE TickAt(k) /\ s.pressed /\ ~LongDue(k)
    /\ IF moves /\ s.moveIn = 0
       THEN Emit(k, "move", b["click"],
                 [st EXCEPT ![k].moveIn = MoveInterval], NoSweep, tele, End)
       ELSE IF ~moves /\ Has(b, "repeat") /\ s.repeatIn = 0
       THEN Emit(k, "repeat", b["repeat"],
                 [st EXCEPT ![k].repeatIn = RepeatInterval], NoSweep, tele, End)
       ELSE NoEmit(st)
    /\ Advance(k)
    /\ TickUnchanged /\ UNCHANGED credit

\* The double window closes: the single press was a click after all
TickDouble(k) ==
    /\ TickAt(k) /\ ~tick.again
    /\ st[k].waiting /\ ~st[k].pressed
    /\ IF st[k].since >= DoubleMs
       THEN /\ Emit(k, "click", AsTap(Effective(active, k)["click"]),
                    [st EXCEPT ![k].waiting = FALSE, ![k].count = 0, ![k].since = 0],
                    NoSweep, tele, End)
            /\ Spend(k, "click")
       ELSE NoEmit(st) /\ UNCHANGED credit
    /\ Advance(k)
    /\ TickUnchanged

TickEnd ==
    /\ tick.on /\ ~sweep.on /\ ~tick.again
    /\ \A j \in Keys : tick.at <= j => ~Busy(j)
    /\ tick' = NoTick
    /\ NoEmit(st)
    /\ TickUnchanged /\ UNCHANGED credit

----------------------------------------------------------------------------
(* Commands of the WebUSB task, the storage task, and time *)

\* CMD_SET_LAYER
SetLayer(l) ==
    /\ Unlocked /\ "set_layer" \in UsbCommands
    /\ SwitchLayer(l, st, NoSweep, 0, End)
    /\ out' = NoOut
    /\ UNCHANGED <<keymap, active, tv, idle, tele, tick, saveReq, host, phys, ghostVars>>

\* The last critical section of key_config_from_json
ApplyConfig(km) ==
    /\ Unlocked /\ "apply" \in UsbCommands
    /\ keymap' = km
    /\ st' = AllCleared
    /\ out' = NoOut
    /\ UNCHANGED host
    /\ Orphaning(TRUE)
    /\ UNCHANGED <<active, mode, tv, idle, tele, sweep, tick, led, saveReq, phys, credit, born>>

\* Mutant: the reset also clears the slots
LoadDefaultsClearing ==
    /\ Unlocked /\ "reset" \in UsbCommands
    /\ keymap' = Defaults
    /\ active' = 0
    /\ idle' = LayerTimeout
    /\ mode' = NoMode
    /\ st' = AllCleared
    /\ out' = NoOut
    /\ UNCHANGED <<tv, tele, sweep, tick, led, saveReq, host, phys, ghostVars>>

\* key_engine_load_defaults under the lock of key_config_storage_reset_defaults
LoadDefaults ==
    /\ Unlocked /\ "reset" \in UsbCommands
    /\ keymap' = Defaults
    /\ active' = 0
    /\ idle' = LayerTimeout
    /\ mode' = NoMode
    /\ out' = NoOut
    /\ UNCHANGED <<st, tv, tele, sweep, tick, led, saveReq, host, phys, ghostVars>>

\* The storage task takes the save semaphore
TakeSaveRequest ==
    /\ saveReq
    /\ saveReq' = FALSE
    /\ out' = NoOut
    /\ UNCHANGED <<engineVars, led, host, phys, ghostVars>>

Older(n, cap)   == IF n < cap THEN n + 1 ELSE n
Sooner(n)       == IF n > 0 THEN n - 1 ELSE 0

\* One unit of time.  An age nobody can read before it is set again stands still.
Elapse ==
    /\ Unlocked
    /\ st' = [k \in Keys |-> [st[k] EXCEPT
                !.held     = IF st[k].pressed THEN Older(@, LongMs) ELSE @,
                !.since    = IF st[k].waiting THEN Older(@, DoubleMs) ELSE @,
                !.repeatIn = Sooner(@),
                !.moveIn   = Sooner(@)]]
    /\ mode' = IF mode.on THEN [mode EXCEPT !.age  = Older(@, TvLockout),
                                            !.idle = Older(@, ModeTimeout)]
               ELSE mode
    /\ tv' = IF tv.count > 0 THEN [tv EXCEPT !.age = Older(@, TvWindow + 1)] ELSE tv
    /\ idle' = Older(idle, LayerTimeout)
    /\ tele' = Older(tele, LayerTimeout)
    /\ out' = NoOut
    /\ UNCHANGED <<keymap, active, sweep, tick, led, saveReq, host, phys, ghostVars>>

----------------------------------------------------------------------------
Init ==
    /\ keymap \in Keymaps
    /\ st = AllCleared
    /\ active \in Layers
    /\ mode = NoMode
    /\ tv = [count |-> 0, age |-> 0]
    /\ idle = LayerTimeout
    /\ tele = LayerTimeout
    /\ sweep = NoSweep
    /\ tick = NoTick
    /\ led = FALSE
    /\ saveReq = FALSE
    /\ host = Nothing
    /\ phys = [k \in Keys |-> FALSE]
    /\ out = NoOut
    /\ credit = [k \in Keys |-> 0]
    /\ born = [k \in Keys |-> 0]
    /\ orphan = FALSE

Next ==
    \/ \E k \in Keys, down \in BOOLEAN : FeedKey(k, down)
    \/ FeedOther
    \/ ReleaseAll
    \/ \E k \in Keys : SweepSlot(k)
    \/ SweepEnd
    \/ TickBegin
    \/ \E k \in Keys : TickLong(k)
    \/ \E k \in Keys : TickHeld(k)
    \/ \E k \in Keys : TickDouble(k)
    \/ TickEnd
    \/ \E l \in Layers : SetLayer(l)
    \/ \E km \in Keymaps : ApplyConfig(km)
    \/ LoadDefaults
    \/ TakeSaveRequest
    \/ Elapse

Spec == Init /\ [][Next]_vars
----------------------------------------------------------------------------
(* Properties *)

\* Every variable stays within its type.
TypeOK ==
    /\ keymap \in Keymaps
    /\ st \in [Keys -> Slot]
    /\ active \in Layers
    /\ mode \in [on : BOOLEAN, via : BOOLEAN, age : 0..TvLockout, idle : 0..ModeTimeout]
    /\ tv \in [count : 0..(TvPressCount - 1), age : 0..(TvWindow + 1)]
    /\ idle \in 0..LayerTimeout
    /\ tele \in 0..LayerTimeout
    /\ sweep \in [on : BOOLEAN, at : 0..End, to : Layers \cup {NoLayer},
                  age : 0..LayerTimeout, keep : Keys \cup {End}]
    /\ tick \in [on : BOOLEAN, at : 0..End, again : BOOLEAN, layer : Layers]
    /\ led \in BOOLEAN /\ saveReq \in BOOLEAN /\ orphan \in BOOLEAN
    /\ phys \in [Keys -> BOOLEAN]
    /\ born \in [Keys -> Layers]
    /\ credit \in [Keys -> Int]

\* A press and a double-click window are resolved by the bindings of the layer
\* they began in: switch_layer releases every slot before it moves, so that a
\* key-up never meets the bindings of another layer (release_all, 833-859).
GestureLayerStable ==
    \A k \in Keys : Busy(k) /\ ~sweep.on => born[k] = active

\* No press is answered twice: a press yields a click or a long action but not
\* both, and a double action uses up two presses of its own (687-742, 787-808).
NoPressServedTwice == \A k \in Keys : credit[k] >= 0

\* Once the engine sees no key down, nothing stays held on the host, save for
\* outputs whose slot was cleared under them (687-715, 833-859).
ReleasedMeansIdle ==
    Unlocked /\ ~orphan /\ (\A k \in Keys : ~st[k].pressed) => host = Nothing

\* The LED breathes exactly while the switch mode is on (251-284, 754-762).
LedShowsMode == led = mode.on

\* After a rapid-TV entry the tail of the same TV presses cannot leave the mode
\* before the lockout has passed (585-594).
TvTailCannotExit ==
    [][ mode.on /\ mode.via /\ mode.age < TvLockout /\ phys'[TV] # phys[TV] => mode'.on ]_vars

\* While the switch mode is on the engine emits no action at all (563-564).
ModeIsSilent == [][ mode.on => out' = NoOut ]_vars

\* A mouse button is down on the host only while some key of the remote is down.
ButtonsFollowKeys == Unlocked /\ (\A k \in Keys : ~phys[k]) => host.mouse = {}

----------------------------------------------------------------------------
(* Fairness: loops that hold the mutex run on; the bridge task, whose 5 ms   *)
(* tick competes with other tasks for the mutex, gets it; and time passes,   *)
(* if not during a handler then between two of them (both are therefore      *)
(* strong: each is disabled while another handler holds the mutex).          *)

Fairness ==
    /\ SF_vars(Elapse) /\ SF_vars(TickBegin)
    /\ WF_vars(SweepEnd) /\ WF_vars(TickEnd)
    /\ \A k \in Keys : /\ WF_vars(SweepSlot(k)) /\ WF_vars(TickLong(k))
                        /\ WF_vars(TickHeld(k)) /\ WF_vars(TickDouble(k))

FairSpec == Spec /\ Fairness

\* The switch mode is left unless presses keep restarting its inactivity
\* timeout: it cannot trap a user who lets go of the remote (755-762).
ModeIsLeft == []<>(~mode.on \/ mode.idle = 0)

\* The action handed over in the last step is the click of key k
Clicked(k) == out.key = k /\ out.gesture = "click"

\* A single press of a key with a double action is handed over as a click once
\* its window closes, a keymap reset in between included (802-807 and 301-322).
\* It is not if the key goes down again, if a release_all takes the slot (sweep)
\* or if the switch mode is entered (261).
ClickNotLost ==
    \A k \in Keys : (st[k].waiting /\ ~st[k].pressed)
                      ~> (Clicked(k) \/ st[k].pressed \/ sweep.on \/ mode.on)
============================================================================
