-------------------------- MODULE KeyEngineSafety --------------------------
(***************************************************************************)
(* Two invariants of KeyEngine, for every set of keys, layers, keymaps and  *)
(* time constants, as long as no client resets the keymap: the LED shows    *)
(* the switch mode, and a gesture is resolved in the layer it began in.     *)
(* key_engine_load_defaults keeps the slots and leaves the LED alone, so    *)
(* neither holds across CMD_RESET.                                          *)
(***************************************************************************)
EXTENDS KeyEngineProofs

----------------------------------------------------------------------------
(* The LED and the switch mode *)

LEMMA ModeOffLed ==
    ASSUME LedShowsMode, NEW was \in BOOLEAN, ModeOff(was), was = mode.on \/ was
    PROVE  LedShowsMode'
BY DEF ModeOff, LedShowsMode, NoMode

LEMMA EmitLed ==
    ASSUME TypeOK, LedShowsMode, NEW k, NEW g, NEW a, NEW st1, NEW sw, NEW age, NEW keep,
           Emit(k, g, a, st1, sw, age, keep)
    PROVE  LedShowsMode'
<1>0. mode.on \in BOOLEAN
  BY DEF TypeOK
<1>1. CASE a.type = "SWITCH_LAYER"
  <2>1. ModeOff(mode.on)
    BY <1>1 DEF Emit, SwitchLayer
  <2> QED
    BY <1>0, <2>1, ModeOffLed
<1>2. CASE a.type = "ENTER_SWITCH_MODE"
  <2>1. mode' = [on |-> TRUE, via |-> FALSE, age |-> 0, idle |-> 0] /\ led' = TRUE
    BY <1>2 DEF Emit, EnterSwitchMode, EndsOneshot
  <2> QED
    BY <2>1 DEF LedShowsMode
<1>3. CASE a.type \notin {"SWITCH_LAYER", "ENTER_SWITCH_MODE"}
  <2>1. SwitchLayer(0, st1, sw, age, keep) \/ UNCHANGED <<mode, led>>
    BY <1>3 DEF Emit
  <2>2. CASE SwitchLayer(0, st1, sw, age, keep)
    BY <1>0, <2>2, ModeOffLed DEF SwitchLayer
  <2>3. CASE UNCHANGED <<mode, led>>
    BY <2>3 DEF LedShowsMode
  <2> QED
    BY <2>1, <2>2, <2>3
<1> QED
  BY <1>1, <1>2, <1>3

LEMMA FeedKeyLed ==
    ASSUME TypeOK, LedShowsMode, NEW k \in Keys, NEW down \in BOOLEAN, FeedKey(k, down)
    PROVE  LedShowsMode'
<1>1. \/ ModePress(k) \/ ModeRelease(k) \/ EnterByTv \/ FeedPress(k) \/ FeedRelease(k)
  BY DEF FeedKey
<1>2. CASE ModePress(k)
  <2>1. \/ UNCHANGED <<mode, led>>
        \/ ModeOff(TRUE)
        \/ mode' = [mode EXCEPT !.idle = 0] /\ UNCHANGED led
    BY <1>2, Zenon DEF ModePress
  <2>2. CASE mode' = [mode EXCEPT !.idle = 0] /\ UNCHANGED led
    <3>1. mode'.on = mode.on
      BY <2>2 DEF TypeOK
    <3> QED
      BY <2>2, <3>1 DEF LedShowsMode
  <2> QED
    BY <2>1, <2>2, ModeOffLed DEF LedShowsMode
<1>3. CASE ModeRelease(k)
  BY <1>3 DEF ModeRelease, NoEmit, LedShowsMode
<1>4. CASE EnterByTv
  BY <1>4 DEF EnterByTv, EnterSwitchMode, LedShowsMode
<1>5. CASE FeedPress(k)
  <2>1. UNCHANGED <<mode, led>> \/ \E g, a, s, sw, t, n : Emit(k, g, a, s, sw, t, n)
    BY <1>5, Zenon DEF FeedPress, NoEmit
  <2> QED
    BY <2>1, EmitLed DEF LedShowsMode
<1>6. CASE FeedRelease(k)
  <2>1. UNCHANGED <<mode, led>> \/ \E g, a, s, sw, t, n : Emit(k, g, a, s, sw, t, n)
    BY <1>6, Zenon DEF FeedRelease, NoEmit
  <2> QED
    BY <2>1, EmitLed DEF LedShowsMode
<1> QED
  BY <1>1, <1>2, <1>3, <1>4, <1>5, <1>6

LEMMA StepLed ==
    ASSUME "reset" \notin UsbCommands, TypeOK, LedShowsMode, [Next]_vars
    PROVE  LedShowsMode'
<1>0. mode.on \in BOOLEAN
  BY DEF TypeOK
<1>1. CASE \E k \in Keys, down \in BOOLEAN : FeedKey(k, down)
  BY <1>1, FeedKeyLed
<1>2. CASE \E k \in Keys : SweepSlot(k)
  <2>1. PICK k \in Keys : SweepSlot(k)
    BY <1>2
  <2>2. UNCHANGED <<mode, led>> \/ \E g, a, s, sw, t, n : Emit(k, g, a, s, sw, t, n)
    BY <2>1, Zenon DEF SweepSlot
  <2> QED
    BY <2>2, EmitLed DEF LedShowsMode
<1>3. CASE SweepEnd
  BY <1>0, <1>3, ModeOffLed DEF SweepEnd
<1>4. CASE TickBegin
  <2>1. ModeOff(TRUE) \/ UNCHANGED <<mode, led>>
    BY <1>4 DEF TickBegin
  <2> QED
    BY <2>1, ModeOffLed DEF LedShowsMode
<1>5. CASE \E k \in Keys : TickLong(k) \/ TickHeld(k) \/ TickDouble(k)
  <2>1. PICK k \in Keys : TickLong(k) \/ TickHeld(k) \/ TickDouble(k)
    BY <1>5
  <2>2. UNCHANGED <<mode, led>> \/ \E g, a, s, sw, t, n : Emit(k, g, a, s, sw, t, n)
    BY <2>1, Zenon DEF TickLong, TickHeld, TickDouble, NoEmit
  <2> QED
    BY <2>2, EmitLed DEF LedShowsMode
<1>6. CASE \E l \in Layers : SetLayer(l)
  BY <1>0, <1>6, ModeOffLed DEF SetLayer, SwitchLayer
<1>7. CASE Elapse
  <2>1. mode'.on = mode.on /\ led' = led
    BY <1>7 DEF Elapse, TypeOK
  <2> QED
    BY <2>1 DEF LedShowsMode
<1>8. CASE \/ FeedOther \/ ReleaseAll \/ TickEnd \/ TakeSaveRequest \/ UNCHANGED vars
           \/ \E km \in Keymaps : ApplyConfig(km)
  BY <1>8 DEF FeedOther, ReleaseAll, TickEnd, NoEmit, TakeSaveRequest, ApplyConfig, LedShowsMode,
              vars, engineVars, effectVars
<1>9. ~LoadDefaults
  BY DEF LoadDefaults
<1> QED
  BY <1>1, <1>2, <1>3, <1>4, <1>5, <1>6, <1>7, <1>8, <1>9 DEF Next

\* The LED breathes exactly while the switch mode is on, whatever the keymap, the
\* order of key edges, ticks, releases and client commands, short of a reset.
THEOREM LedCorrect ==
    ASSUME "reset" \notin UsbCommands
    PROVE  Spec => []LedShowsMode
<1>1. Init => LedShowsMode
  <2>1. NoMode.on = FALSE
    BY DEF NoMode
  <2> QED
    BY <2>1, Zenon DEF Init, LedShowsMode
<1>2. TypeOK /\ LedShowsMode /\ [Next]_vars => LedShowsMode'
  BY StepLed
<1> QED
  BY <1>1, <1>2, TypeCorrect, PTL DEF Spec

----------------------------------------------------------------------------
(* Gestures and layers *)

\* Neither pressed nor in a double window, in the slots s
Idle(s, j) == ~s[j].pressed /\ ~s[j].waiting

\* While no release loop runs, busy slots belong to layer l; a release loop leaves
\* nothing busy behind it
Stable(s, sw, b, l) ==
    /\ ~sw.on => \A j \in Keys : Idle(s, j) \/ b[j] = l
    /\ sw.on => \A j \in Keys : j < sw.at => Idle(s, j)

\* The release loop never overlooks a slot: what GestureLayerStable needs when the
\* loop ends and the layer moves.
GestureInv == TypeOK /\ Stable(st, sweep, born, active)

LEMMA ClearedStable ==
    ASSUME NEW sw, NEW b, NEW l
    PROVE  Stable(AllCleared, sw, b, l)
BY DEF Stable, Idle, AllCleared, Cleared

\* A release loop that has not begun has left nothing behind.
LEMMA FreshStable ==
    ASSUME NEW s, NEW sw, sw.on, sw.at = 0, NEW b, NEW l
    PROVE  Stable(s, sw, b, l)
BY KeysAssumption DEF Stable

LEMMA NoSweepOff == ~NoSweep.on /\ NoSweep.at = 0
BY DEF NoSweep

\* An emission keeps a stable state stable: it clears the slots, starts a release
\* loop at slot 0, or leaves slots and loop to the caller.
LEMMA EmitStable ==
    ASSUME NEW b, NEW l, NEW k, NEW g, NEW a, NEW st1, NEW sw, NEW age, NEW keep,
           sw \in SweepType, Stable(st1, sw, b, l), Emit(k, g, a, st1, sw, age, keep)
    PROVE  Stable(st', sweep', b, l)
<1>1. ASSUME NEW t, SwitchLayer(t, st1, sw, age, keep)
      PROVE  Stable(st', sweep', b, l)
  <2>1. CASE active = t
    BY <1>1, <2>1 DEF SwitchLayer
  <2>2. CASE active # t /\ sw.on
    <3> DEFINE u == IF sw.to = NoLayer THEN t ELSE sw.to
    <3>1. st' = st1 /\ sweep' = [sw EXCEPT !.to = u]
      BY <1>1, <2>2 DEF SwitchLayer
    <3> HIDE DEF u
    <3>2. sweep'.on = sw.on /\ sweep'.at = sw.at
      BY <3>1 DEF SweepType
    <3> QED
      BY <3>1, <3>2 DEF Stable
  <2>3. CASE active # t /\ ~sw.on
    <3>1. sweep' = [on |-> TRUE, at |-> 0, to |-> t, age |-> age, keep |-> keep]
      BY <1>1, <2>3 DEF SwitchLayer
    <3> QED
      BY <3>1, FreshStable
  <2> QED
    BY <2>1, <2>2, <2>3
<1>2. CASE a.type = "SWITCH_LAYER"
  <2>1. \E t : SwitchLayer(t, st1, sw, age, keep)
    BY <1>2 DEF Emit
  <2> QED
    BY <1>1, <2>1
<1>3. CASE a.type = "ENTER_SWITCH_MODE"
  <2>1. st' = AllCleared
    BY <1>3 DEF Emit, EnterSwitchMode, EndsOneshot
  <2> QED
    BY <2>1, ClearedStable
<1>4. CASE a.type \notin {"SWITCH_LAYER", "ENTER_SWITCH_MODE"}
  <2>1. \/ SwitchLayer(0, st1, sw, age, keep)
        \/ st' = st1 /\ sweep' = sw
    BY <1>4 DEF Emit
  <2> QED
    BY <1>1, <2>1
<1> QED
  BY <1>2, <1>3, <1>4

\* Slots that only become less busy stay stable.
LEMMA QuieterStable ==
    ASSUME NEW s, NEW s1, NEW sw, NEW b, NEW l, Stable(s, sw, b, l),
           \A j \in Keys : Idle(s, j) => Idle(s1, j)
    PROVE  Stable(s1, sw, b, l)
BY DEF Stable

\* What the handlers do to one slot, as far as being idle goes.
LEMMA EditedSlot ==
    ASSUME st \in [Keys -> Slot], NEW k \in Keys, NEW s1 \in [Keys -> Slot],
           \A j \in Keys : j # k => s1[j] = st[j], NEW b, NEW l, NEW sw, ~sw.on,
           \A j \in Keys : Idle(st, j) \/ b[j] = l, Idle(s1, k) \/ b[k] = l
    PROVE  Stable(s1, sw, b, l)
BY DEF Stable, Idle

LEMMA SameFlags ==
    ASSUME st \in [Keys -> Slot], NEW k \in Keys, NEW j \in Keys
    PROVE  /\ Idle([st EXCEPT ![k].longFired = TRUE], j) <=> Idle(st, j)
           /\ Idle([st EXCEPT ![k].moveIn = MoveInterval], j) <=> Idle(st, j)
           /\ Idle([st EXCEPT ![k].repeatIn = RepeatInterval], j) <=> Idle(st, j)
           /\ Idle([st EXCEPT ![k].moving = TRUE, ![k].moveIn = MoveInterval], j) <=> Idle(st, j)
           /\ Idle(st, j) => Idle([st EXCEPT ![k].pressed = FALSE, ![k].held = 0], j)
           /\ Idle(st, j) =>
                Idle([st EXCEPT ![k].waiting = FALSE, ![k].count = 0, ![k].since = 0], j)
<1>1. /\ Idle([st EXCEPT ![k].longFired = TRUE], j) <=> Idle(st, j)
      /\ Idle([st EXCEPT ![k].moveIn = MoveInterval], j) <=> Idle(st, j)
      /\ Idle([st EXCEPT ![k].repeatIn = RepeatInterval], j) <=> Idle(st, j)
  BY DEF Idle, Slot
<1>2. Idle([st EXCEPT ![k].moving = TRUE, ![k].moveIn = MoveInterval], j) <=> Idle(st, j)
  BY DEF Idle, Slot
<1>3. Idle(st, j) => Idle([st EXCEPT ![k].pressed = FALSE, ![k].held = 0], j)
  BY DEF Idle, Slot
<1>4. Idle(st, j) =>
        Idle([st EXCEPT ![k].waiting = FALSE, ![k].count = 0, ![k].since = 0], j)
  BY DEF Idle, Slot
<1> QED
  BY <1>1, <1>2, <1>3, <1>4

LEMMA FeedKeyStable ==
    ASSUME GestureInv, NEW k \in Keys, NEW down \in BOOLEAN, FeedKey(k, down)
    PROVE  Stable(st', sweep', born', active')
<1>0. /\ st \in [Keys -> Slot] /\ born \in [Keys -> Layers] /\ active' = active
      /\ ~sweep.on /\ Stable(st, sweep, born, active)
      /\ \A j \in Keys : Idle(st, j) \/ born[j] = active
  BY DEF GestureInv, TypeOK, FeedKey, Unlocked, Stable
<1>1. \/ ModePress(k) \/ ModeRelease(k) \/ EnterByTv \/ FeedPress(k) \/ FeedRelease(k)
  BY DEF FeedKey
<1>2. CASE ModePress(k)
  <2> DEFINE target == IF k = OK THEN 0 ELSE keymap.map[k]
  <2>1. CASE st[k].pressed
    BY <1>0, <1>2, <2>1 DEF ModePress
  <2>2. CASE ~st[k].pressed
    <3>1. born' = [born EXCEPT ![k] = active]
      BY <1>2, <2>2 DEF ModePress
    <3>2. \/ st' = AllCleared
          \/ /\ st' = [st EXCEPT ![k].pressed = FALSE, ![k].held = 0]
             /\ sweep' = NoSweep \/ sweep' = [NoSweep EXCEPT !.on = TRUE, !.to = target]
          \/ /\ st' = [st EXCEPT ![k].pressed = TRUE, ![k].held = 0]
             /\ sweep' = sweep
      BY <1>2, <2>2, Zenon DEF ModePress
    <3> HIDE DEF target
    <3>3. \A j \in Keys : Idle(st, j) \/ born'[j] = active
      BY <1>0, <3>1
    <3>4. born'[k] = active
      BY <1>0, <3>1
    <3>5. CASE st' = AllCleared
      BY <3>5, ClearedStable
    <3>6. CASE /\ st' = [st EXCEPT ![k].pressed = FALSE, ![k].held = 0]
               /\ sweep' = NoSweep \/ sweep' = [NoSweep EXCEPT !.on = TRUE, !.to = target]
      <4>1. CASE sweep' = NoSweep
        <5>1. st' \in [Keys -> Slot] /\ (\A j \in Keys : j # k => st'[j] = st[j])
          BY <1>0, <3>6, SlotEdits
        <5> QED
          BY <1>0, <3>3, <3>4, <4>1, <5>1, EditedSlot, NoSweepOff
      <4>2. CASE sweep' = [NoSweep EXCEPT !.on = TRUE, !.to = target]
        BY <4>2, FreshStable DEF NoSweep
      <4> QED
        BY <3>6, <4>1, <4>2
    <3>7. CASE st' = [st EXCEPT ![k].pressed = TRUE, ![k].held = 0] /\ sweep' = sweep
      <4>1. st' \in [Keys -> Slot] /\ (\A j \in Keys : j # k => st'[j] = st[j])
        BY <1>0, <3>7, SlotEdits
      <4> QED
        BY <1>0, <3>3, <3>4, <3>7, <4>1, EditedSlot
    <3> QED
      BY <3>2, <3>5, <3>6, <3>7
  <2> QED
    BY <2>1, <2>2
<1>3. CASE ModeRelease(k)
  <2>1. /\ st' = [st EXCEPT ![k].pressed = FALSE, ![k].held = 0]
        /\ sweep' = sweep /\ born' = born
    BY <1>3 DEF ModeRelease, NoEmit
  <2> QED
    BY <1>0, <2>1, SameFlags, QuieterStable
<1>4. CASE EnterByTv
  BY <1>4, ClearedStable DEF EnterByTv, EnterSwitchMode
<1>5. CASE FeedPress(k)
  <2>1. CASE st[k].pressed
    BY <1>0, <1>5, <2>1 DEF FeedPress, NoEmit
  <2>2. CASE ~st[k].pressed
    <3>1. \E s, g, a, t, n :
             /\ s \in Slot
             /\ born' = [born EXCEPT ![k] = active]
             /\ \/ Emit(k, g, a, [st EXCEPT ![k] = s], NoSweep, t, n)
                \/ NoEmit([st EXCEPT ![k] = s])
      <4>1. PressedSlot(k) \in Slot
        BY PressedSlotType DEF GestureInv
      <4>2. \E s, g, a, t, n :
             /\ s = PressedSlot(k)
             /\ born' = [born EXCEPT ![k] = active]
             /\ \/ Emit(k, g, a, [st EXCEPT ![k] = s], NoSweep, t, n)
                \/ NoEmit([st EXCEPT ![k] = s])
        BY <1>5, <2>2, Zenon DEF FeedPress, PressedSlot
      <4> QED
        BY <4>1, <4>2, Zenon
    <3>2. PICK s, g, a, t, n :
             /\ s \in Slot
             /\ born' = [born EXCEPT ![k] = active]
             /\ \/ Emit(k, g, a, [st EXCEPT ![k] = s], NoSweep, t, n)
                \/ NoEmit([st EXCEPT ![k] = s])
      BY <3>1
    <3> DEFINE st1 == [st EXCEPT ![k] = s]
    <3>3. st1 \in [Keys -> Slot] /\ (\A j \in Keys : j # k => st1[j] = st[j])
      BY <1>0, <3>2
    <3>4. /\ \A j \in Keys : Idle(st, j) \/ born'[j] = active
          /\ born'[k] = active
      BY <1>0, <3>2
    <3> HIDE DEF st1
    <3>5. Stable(st1, NoSweep, born', active) /\ Stable(st1, sweep, born', active)
      BY <1>0, <3>3, <3>4, EditedSlot, NoSweepOff
    <3>6. CASE Emit(k, g, a, st1, NoSweep, t, n)
      BY <1>0, <3>5, <3>6, EmitStable, ConstantTypes
    <3>7. CASE NoEmit(st1)
      BY <1>0, <3>5, <3>7 DEF NoEmit
    <3> QED
      BY <3>2, <3>6, <3>7 DEF st1
  <2> QED
    BY <2>1, <2>2
<1>6. CASE FeedRelease(k)
  <2>1. CASE ~st[k].pressed
    BY <1>0, <1>6, <2>1 DEF FeedRelease, NoEmit
  <2>2. CASE st[k].pressed
    <3> DEFINE b == Effective(active, k)
               c == Completed(b, st[k])
               st1 == [st EXCEPT ![k] = ReleasedSlot(b, st[k])]
    <3>1. Emit(k, c.g, c.act, st1, NoSweep, 0, End) /\ born' = born
      BY <1>6, <2>2 DEF FeedRelease
    <3>2. ReleasedSlot(b, st[k]) \in Slot
      <4>1. b \in Binding /\ \A g \in Gestures : Legal(b[g])
        BY EffectiveLegal DEF GestureInv, TypeOK
      <4> QED
        BY <1>0, <4>1, CompletedLegal
    <3> HIDE DEF b
    <3>3. st1 \in [Keys -> Slot] /\ (\A j \in Keys : j # k => st1[j] = st[j])
      BY <1>0, <3>2
    <3>4. born[k] = active
      BY <1>0, <2>2 DEF Idle
    <3> HIDE DEF st1, c
    <3>5. Stable(st1, NoSweep, born, active)
      BY <1>0, <3>3, <3>4, EditedSlot, NoSweepOff
    <3> QED
      BY <1>0, <3>1, <3>5, EmitStable, ConstantTypes
  <2> QED
    BY <2>1, <2>2
<1> QED
  BY <1>1, <1>2, <1>3, <1>4, <1>5, <1>6

LEMMA SweepSlotStable ==
    ASSUME GestureInv, NEW k \in Keys, SweepSlot(k)
    PROVE  Stable(st', sweep', born', active')
<1> DEFINE rest == [st[k] EXCEPT !.waiting = FALSE, !.count = 0, !.moving = FALSE,
                                 !.since = 0, !.pressed = FALSE, !.held = 0]
           st1  == [st EXCEPT ![k] = rest]
           next == [sweep EXCEPT !.at = k + 1]
<1>0. /\ st \in [Keys -> Slot] /\ sweep \in SweepType /\ Keys \subseteq Int
      /\ Stable(st, sweep, born, active)
      /\ sweep.on /\ active' = active /\ born' = born
      /\ \A j \in Keys : ~(sweep.at <= j /\ j < k)
  BY KeysAssumption DEF GestureInv, TypeOK, SweepType, SweepSlot
<1>1. ~rest.pressed /\ ~rest.waiting
  <2>1. st[k] \in Slot
    BY <1>0
  <2> QED
    BY <2>1 DEF Slot
<1>2. Idle(st1, k) /\ (\A j \in Keys : j # k => st1[j] = st[j])
  BY <1>0, <1>1 DEF Idle
<1>3. next.on /\ next.at = k + 1 /\ next \in SweepType
  <2>1. k + 1 \in 0..End
    BY KeysAssumption DEF End
  <2> QED
    BY <1>0, <2>1 DEF SweepType
<1>4. \E g, a, s, t, n :
        \/ Emit(k, g, a, st1, next, t, n)
        \/ st' = st1 /\ sweep' = next
  BY Zenon DEF SweepSlot
<1> HIDE DEF st1, next
<1>5. Stable(st1, next, born, active)
  <2>1. ASSUME NEW j \in Keys, j < k + 1
        PROVE  Idle(st1, j)
    <3>1. CASE j = k
      BY <1>2, <3>1
    <3>2. CASE j # k
      <4>1. j < k
        BY <1>0, <2>1, <3>2
      <4>2. sweep.at \in Int
        BY <1>0 DEF SweepType
      <4>3. j < sweep.at
        BY <1>0, <4>1, <4>2
      <4>4. Idle(st, j)
        BY <1>0, <4>3 DEF Stable
      <4> QED
        BY <1>2, <3>2, <4>4 DEF Idle
    <3> QED
      BY <3>1, <3>2
  <2> QED
    BY <1>3, <2>1 DEF Stable
<1> QED
  BY <1>0, <1>3, <1>4, <1>5, EmitStable

LEMMA SweepEndStable ==
    ASSUME GestureInv, SweepEnd
    PROVE  Stable(st', sweep', born', active')
<1>1. /\ st \in [Keys -> Slot] /\ sweep.keep \in Keys \cup {End}
      /\ \A j \in Keys : Idle(st, j)
  BY DEF GestureInv, TypeOK, Stable, SweepEnd
<1>2. \A j \in Keys : Idle(st', j)
  <2>1. CASE sweep.keep = End
    BY <1>1, <2>1 DEF SweepEnd
  <2>2. CASE sweep.keep # End
    <3>1. sweep.keep \in Keys
      BY <1>1, <2>2
    <3>2. st' = [st EXCEPT ![sweep.keep].moving = TRUE, ![sweep.keep].moveIn = MoveInterval]
      BY <2>2 DEF SweepEnd
    <3> QED
      BY <1>1, <3>1, <3>2, SameFlags
  <2> QED
    BY <2>1, <2>2
<1> QED
  BY <1>2 DEF Stable

LEMMA TickStable ==
    ASSUME GestureInv, NEW k \in Keys, TickLong(k) \/ TickHeld(k) \/ TickDouble(k)
    PROVE  Stable(st', sweep', born', active')
<1>0. /\ st \in [Keys -> Slot] /\ active' = active /\ born' = born
      /\ Stable(st, sweep, born, active)
  BY DEF GestureInv, TypeOK, TickLong, TickHeld, TickDouble, TickUnchanged
<1>1. ~sweep.on
  BY DEF TickLong, TickHeld, TickDouble, TickAt
<1>2. \A j \in Keys : Idle(st, j) \/ born[j] = active
  BY <1>0, <1>1 DEF Stable
<1>3. ASSUME NEW st1, NEW g, NEW a, NEW t, NEW n, Emit(k, g, a, st1, NoSweep, t, n),
             \A j \in Keys : Idle(st, j) => Idle(st1, j)
      PROVE  Stable(st', sweep', born', active')
  <2>1. Stable(st1, NoSweep, born, active)
    BY <1>2, <1>3, NoSweepOff DEF Stable
  <2> QED
    BY <1>0, <1>3, <2>1, EmitStable, ConstantTypes
<1>4. CASE TickLong(k)
  <2>1. \E g, a, t, n : Emit(k, g, a, [st EXCEPT ![k].longFired = TRUE], NoSweep, t, n)
    BY <1>4, Zenon DEF TickLong
  <2> QED
    BY <1>0, <1>3, <2>1, SameFlags
<1>5. CASE TickHeld(k)
  <2>1. \E g, a, t, n :
          \/ Emit(k, g, a, [st EXCEPT ![k].moveIn = MoveInterval], NoSweep, t, n)
          \/ Emit(k, g, a, [st EXCEPT ![k].repeatIn = RepeatInterval], NoSweep, t, n)
          \/ NoEmit(st)
    BY <1>5, Zenon DEF TickHeld
  <2>2. CASE NoEmit(st)
    BY <1>0, <2>2 DEF NoEmit
  <2> QED
    BY <1>0, <1>3, <2>1, <2>2, SameFlags
<1>6. CASE TickDouble(k)
  <2>1. \E g, a, t, n :
          \/ Emit(k, g, a, [st EXCEPT ![k].waiting = FALSE, ![k].count = 0, ![k].since = 0],
                  NoSweep, t, n)
          \/ NoEmit(st)
    BY <1>6, Zenon DEF TickDouble
  <2>2. CASE NoEmit(st)
    BY <1>0, <2>2 DEF NoEmit
  <2> QED
    BY <1>0, <1>3, <2>1, <2>2, SameFlags
<1> QED
  BY <1>4, <1>5, <1>6

LEMMA TickBeginStable ==
    ASSUME GestureInv, TickBegin
    PROVE  Stable(st', sweep', born', active')
<1>0. Stable(st, sweep, born, active) /\ active' = active /\ born' = born
  BY DEF GestureInv, TickBegin
<1>1. /\ st' = AllCleared \/ st' = st
      /\ sweep' = [NoSweep EXCEPT !.on = TRUE, !.to = 0] \/ sweep' = sweep
  BY DEF TickBegin
<1>2. CASE sweep' = [NoSweep EXCEPT !.on = TRUE, !.to = 0]
  BY <1>2, FreshStable DEF NoSweep
<1>3. CASE sweep' = sweep
  BY <1>0, <1>1, <1>3, ClearedStable
<1> QED
  BY <1>1, <1>2, <1>3

LEMMA SetLayerStable ==
    ASSUME GestureInv, NEW l \in Layers, SetLayer(l)
    PROVE  Stable(st', sweep', born', active')
<1>0. /\ Stable(st, sweep, born, active) /\ ~sweep.on /\ st' = st
      /\ active' = active /\ born' = born
  BY DEF GestureInv, SetLayer, Unlocked, SwitchLayer, ghostVars
<1>1. sweep' = NoSweep \/ sweep' = [on |-> TRUE, at |-> 0, to |-> l, age |-> 0, keep |-> End]
  BY NoSweepOff DEF SetLayer, SwitchLayer
<1>2. CASE sweep' = NoSweep
  BY <1>0, <1>2, NoSweepOff DEF Stable
<1>3. CASE sweep' = [on |-> TRUE, at |-> 0, to |-> l, age |-> 0, keep |-> End]
  BY <1>3, FreshStable
<1> QED
  BY <1>1, <1>2, <1>3

LEMMA ElapseStable ==
    ASSUME GestureInv, Elapse
    PROVE  Stable(st', sweep', born', active')
<1>0. /\ Stable(st, sweep, born, active) /\ st \in [Keys -> Slot]
      /\ sweep' = sweep /\ active' = active /\ born' = born
  BY DEF GestureInv, TypeOK, Elapse, ghostVars
<1>1. ASSUME NEW j \in Keys, Idle(st, j)
      PROVE  Idle(st', j)
  <2>1. ASSUME NEW s \in Slot, NEW h, NEW t, NEW r, NEW m
        PROVE  LET s1 == [s EXCEPT !.held = h, !.since = t, !.repeatIn = r, !.moveIn = m]
               IN  s1.pressed = s.pressed /\ s1.waiting = s.waiting
    BY DEF Slot
  <2>2. \E h, t, r, m :
          st'[j] = [st[j] EXCEPT !.held = h, !.since = t, !.repeatIn = r, !.moveIn = m]
    BY Zenon DEF Elapse
  <2>3. st'[j].pressed = st[j].pressed /\ st'[j].waiting = st[j].waiting
    BY <1>0, <2>1, <2>2
  <2> QED
    BY <1>1, <2>3 DEF Idle
<1> QED
  BY <1>0, <1>1, QuieterStable

LEMMA GestureStep ==
    ASSUME "reset" \notin UsbCommands, GestureInv, [Next]_vars
    PROVE  GestureInv'
<1>0. TypeOK'
  BY StepTypes DEF GestureInv
<1> SUFFICES Stable(st', sweep', born', active')
  BY <1>0 DEF GestureInv
<1>1. CASE \E k \in Keys, down \in BOOLEAN : FeedKey(k, down)
  BY <1>1, FeedKeyStable
<1>2. CASE ReleaseAll
  BY <1>2, FreshStable DEF ReleaseAll, NoSweep
<1>3. CASE \E k \in Keys : SweepSlot(k)
  BY <1>3, SweepSlotStable
<1>4. CASE SweepEnd
  BY <1>4, SweepEndStable
<1>5. CASE TickBegin
  BY <1>5, TickBeginStable
<1>6. CASE \E k \in Keys : TickLong(k) \/ TickHeld(k) \/ TickDouble(k)
  BY <1>6, TickStable
<1>7. CASE \E l \in Layers : SetLayer(l)
  BY <1>7, SetLayerStable
<1>8. CASE \E km \in Keymaps : ApplyConfig(km)
  BY <1>8, ClearedStable DEF ApplyConfig
<1>9. CASE Elapse
  BY <1>9, ElapseStable
<1>10. CASE FeedOther \/ TickEnd \/ TakeSaveRequest \/ UNCHANGED vars
  BY <1>10 DEF GestureInv, FeedOther, TickEnd, NoEmit, TickUnchanged, TakeSaveRequest, vars, engineVars,
               ghostVars
<1>11. ~LoadDefaults
  BY DEF LoadDefaults
<1> QED
  BY <1>1, <1>2, <1>3, <1>4, <1>5, <1>6, <1>7, <1>8, <1>9, <1>10, <1>11 DEF Next

\* A key-up and a double click always meet the bindings of the layer their press
\* began in, whatever handler interrupts the gesture to change the layer: the
\* release loop has passed every slot when the layer moves.
THEOREM GestureCorrect ==
    ASSUME "reset" \notin UsbCommands
    PROVE  Spec => []GestureLayerStable
<1>1. Init => GestureInv
  <2>1. Init => Stable(st, sweep, born, active)
    BY NoSweepOff, ClearedStable DEF Init
  <2> QED
    BY <2>1, InitTypes DEF GestureInv
<1>2. GestureInv /\ [Next]_vars => GestureInv'
  BY GestureStep
<1>3. GestureInv => GestureLayerStable
  BY DEF GestureInv, Stable, Idle, GestureLayerStable, Busy
<1> QED
  BY <1>1, <1>2, <1>3, PTL DEF Spec
============================================================================
