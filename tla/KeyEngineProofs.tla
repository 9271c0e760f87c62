-------------------------- MODULE KeyEngineProofs --------------------------
(***************************************************************************)
(* Proofs about KeyEngine for every set of keys, layers and keymaps and     *)
(* every choice of the time constants.                                      *)
(***************************************************************************)
EXTENDS KeyEngine, TLAPS

\* An action the engine may be asked to emit
Legal(a) == a \in Action /\ (a.type = "SWITCH_LAYER" => a.arg \in Layers)

SweepType == [on : BOOLEAN, at : 0..End, to : Layers \cup {NoLayer},
              age : 0..LayerTimeout, keep : Keys \cup {End}]
ModeType  == [on : BOOLEAN, via : BOOLEAN, age : 0..TvLockout, idle : 0..ModeTimeout]

LoopType  == [on : BOOLEAN, at : 0..End, again : BOOLEAN, layer : Layers]

LEMMA TimingNat ==
    /\ LongMs \in Nat /\ DoubleMs \in Nat /\ RepeatDelay \in Nat /\ RepeatInterval \in Nat
    /\ MoveInterval \in Nat /\ ModeTimeout \in Nat /\ TvLockout \in Nat
    /\ TvWindow \in Nat /\ LayerTimeout \in Nat
    /\ TvPressCount \in Nat /\ TvPressCount >= 1
BY TimingAssumption

----------------------------------------------------------------------------
(* What the operators return *)

\* A key resolves, in every layer, to a binding of legal actions.
LEMMA EffectiveLegal ==
    ASSUME keymap \in Keymaps, NEW l \in Layers, NEW k \in Keys
    PROVE  /\ Effective(l, k) \in Binding
           /\ \A g \in Gestures : Legal(Effective(l, k)[g])
<1>1. WellFormed(keymap)
  BY KeymapAssumption
<1>2. NoAct \in Action /\ NoAct.type # "SWITCH_LAYER"
  BY DEF NoAct, Action, ActionTypes
<1>3. ASSUME NEW m \in Layers
      PROVE  Own(m, k) \in Binding /\ \A g \in Gestures : Legal(Own(m, k)[g])
  <2>1. CASE k \in DOMAIN keymap.bind[m]
    BY <1>1, <2>1 DEF Own, WellFormed, Legal, Binding
  <2>2. CASE k \notin DOMAIN keymap.bind[m]
    BY <1>2, <2>2 DEF Own, Unbound, Legal, Binding
  <2> QED
    BY <2>1, <2>2
<1>4. CASE l = 0 \/ k \notin DOMAIN keymap.bind[0]
  BY <1>3, <1>4 DEF Effective
<1>5. CASE ~(l = 0 \/ k \notin DOMAIN keymap.bind[0])
  <2>1. keymap.bind[0][k] = Own(0, k)
    BY <1>5 DEF Own
  <2>2. 0 \in Layers
    BY LayersAssumption
  <2>3. \A g \in Gestures : Legal(Own(0, k)[g]) /\ Legal(Own(l, k)[g])
    BY <1>3, <2>2
  <2>4. \A g \in Gestures : Effective(l, k)[g] = Own(0, k)[g] \/ Effective(l, k)[g] = Own(l, k)[g]
    BY <1>5, <2>1 DEF Effective
  <2>5. \A g \in Gestures : Legal(Effective(l, k)[g])
    BY <2>3, <2>4
  <2>6. Effective(l, k) = [g \in Gestures |-> Effective(l, k)[g]]
    BY <1>5 DEF Effective
  <2>7. Effective(l, k) \in Binding
    BY <2>5, <2>6 DEF Binding, Legal
  <2> QED
    BY <2>5, <2>7
<1> QED
  BY <1>4, <1>5

\* The actions derived from a legal one are legal.
LEMMA DerivedLegal ==
    ASSUME NEW a, Legal(a)
    PROVE  Legal(AsTap(a)) /\ Legal(ReleaseOf(a)) /\ Legal(LongReleaseOf(a))
<1>1. Legal(NoAct)
  BY DEF Legal, NoAct, Action, ActionTypes
<1>2. Legal(AsTap(a))
  BY DEF Legal, AsTap, Action, ActionTypes
<1>3. Legal(ReleaseOf(a))
  BY <1>1 DEF Legal, ReleaseOf, Action, ActionTypes
<1> QED
  BY <1>1, <1>2, <1>3 DEF LongReleaseOf

\* So is the action of a completed gesture.
LEMMA CompletedLegal ==
    ASSUME NEW b \in Binding, \A g \in Gestures : Legal(b[g]), NEW s \in Slot
    PROVE  /\ Legal(Completed(b, s).act)
           /\ Completed(b, s).g \in {"release", "click", "double", "none"}
           /\ ReleasedSlot(b, s) \in Slot
<1>1. Legal(NoAct)
  BY DEF Legal, NoAct, Action, ActionTypes
<1>2. \A g \in Gestures : Legal(AsTap(b[g])) /\ Legal(ReleaseOf(b[g])) /\ Legal(LongReleaseOf(b[g]))
  BY DerivedLegal
<1>3. {"click", "long", "double"} \subseteq Gestures
  BY DEF Gestures
<1>4. Legal(Completed(b, s).act)
  BY <1>1, <1>2, <1>3 DEF Completed
<1>5. Completed(b, s).g \in {"release", "click", "double", "none"}
  BY DEF Completed
<1>6. ReleasedSlot(b, s) \in Slot
  <2> DEFINE c == Completed(b, s)
             w == IF c.g = "none" THEN TRUE ELSE IF c.g = "double" THEN FALSE ELSE s.waiting
             n == IF c.g = "none" THEN 1 ELSE IF c.g = "double" THEN 0 ELSE s.count
  <2>0. s.waiting \in BOOLEAN /\ s.count \in 0..1
    BY DEF Slot
  <2>1. w \in BOOLEAN /\ n \in 0..1
    <3>1. w \in BOOLEAN
      BY <2>0, Zenon
    <3>2. n \in 0..1
      BY <2>0
    <3> QED
      BY <3>1, <3>2
  <2>2. 0 \in 0..LongMs /\ 0 \in 0..DoubleMs
    BY TimingNat
  <2>3. ReleasedSlot(b, s) = [s EXCEPT !.pressed = FALSE, !.moving = FALSE, !.held = 0,
                                       !.since = 0, !.waiting = w, !.count = n]
    BY DEF ReleasedSlot, Slot
  <2> HIDE DEF w, n
  <2> QED
    BY <2>1, <2>2, <2>3 DEF Slot
<1> QED
  BY <1>4, <1>5, <1>6

LEMMA ConstantTypes ==
    /\ Cleared \in Slot
    /\ AllCleared \in [Keys -> Slot]
    /\ NoMode \in ModeType
    /\ NoSweep \in SweepType
    /\ RepeatMax \in Nat /\ RepeatDelay \in 0..RepeatMax /\ RepeatInterval \in 0..RepeatMax
<1>1. RepeatMax \in Nat /\ RepeatDelay \in 0..RepeatMax /\ RepeatInterval \in 0..RepeatMax
  BY TimingAssumption DEF RepeatMax
<1>2. Cleared \in Slot
  BY <1>1, TimingAssumption DEF Cleared, Slot
<1>3. NoMode \in ModeType /\ NoSweep \in SweepType
  BY TimingAssumption DEF NoMode, NoSweep, ModeType, SweepType, End
<1> QED
  BY <1>1, <1>2, <1>3 DEF AllCleared
----------------------------------------------------------------------------
(* Type correctness *)

\* The part of the state that an emission may change
CoreOK == /\ st \in [Keys -> Slot]
          /\ mode \in ModeType
          /\ sweep \in SweepType
          /\ led \in BOOLEAN
          /\ orphan \in BOOLEAN

RestOK == /\ keymap \in Keymaps
          /\ active \in Layers
          /\ tv \in [count : 0..(TvPressCount - 1), age : 0..(TvWindow + 1)]
          /\ idle \in 0..LayerTimeout
          /\ tele \in 0..LayerTimeout
          /\ tick \in LoopType
          /\ saveReq \in BOOLEAN
          /\ phys \in [Keys -> BOOLEAN]
          /\ born \in [Keys -> Layers]
          /\ credit \in [Keys -> Int]

LEMMA TypeParts == (TypeOK <=> CoreOK /\ RestOK) /\ (TypeOK' <=> CoreOK' /\ RestOK')
BY DEF TypeOK, CoreOK, RestOK, ModeType, SweepType, LoopType

LEMMA OrphaningType ==
    ASSUME orphan \in BOOLEAN, NEW cleared \in BOOLEAN, Orphaning(cleared)
    PROVE  orphan' \in BOOLEAN
BY DEF Orphaning

LEMMA ModeOffType ==
    ASSUME CoreOK, NEW was \in BOOLEAN, ModeOff(was)
    PROVE  mode' \in ModeType /\ led' \in BOOLEAN
BY ConstantTypes DEF ModeOff, CoreOK

LEMMA SwitchLayerTypes ==
    ASSUME CoreOK, NEW t \in Layers, NEW st1 \in [Keys -> Slot], NEW sw \in SweepType,
           NEW age \in 0..LayerTimeout, NEW keep \in Keys \cup {End},
           SwitchLayer(t, st1, sw, age, keep)
    PROVE  /\ st' \in [Keys -> Slot] /\ mode' \in ModeType
           /\ sweep' \in SweepType /\ led' \in BOOLEAN
<1>1. mode.on \in BOOLEAN
  BY DEF CoreOK, ModeType
<1>2. mode' \in ModeType /\ led' \in BOOLEAN
  BY <1>1, ModeOffType DEF SwitchLayer
<1>3. sweep' \in SweepType
  BY DEF SwitchLayer, SweepType, End
<1> QED
  BY <1>2, <1>3 DEF SwitchLayer

LEMMA EmitTypes ==
    ASSUME CoreOK, NEW k, NEW g, NEW a, Legal(a), NEW st1 \in [Keys -> Slot],
           NEW sw \in SweepType, NEW age \in 0..LayerTimeout, NEW keep \in Keys \cup {End},
           Emit(k, g, a, st1, sw, age, keep)
    PROVE  CoreOK'
<1>1. orphan' \in BOOLEAN
  BY OrphaningType DEF Emit, CoreOK
<1>2. CASE a.type = "SWITCH_LAYER"
  <2>1. PICK t \in Layers : SwitchLayer(t, st1, sw, age, keep)
    BY <1>2, LayersAssumption DEF Emit, Legal
  <2> QED
    BY <1>1, <2>1, SwitchLayerTypes DEF CoreOK
<1>3. CASE a.type = "ENTER_SWITCH_MODE"
  <2>1. /\ mode' = [on |-> TRUE, via |-> FALSE, age |-> 0, idle |-> 0]
        /\ led' = TRUE /\ st' = AllCleared /\ sweep' = sw
    BY <1>3, SMTT(20) DEF Emit, EnterSwitchMode, EndsOneshot
  <2>2. mode' \in ModeType
    BY <2>1, TimingNat DEF ModeType
  <2> QED
    BY <1>1, <2>1, <2>2, ConstantTypes DEF CoreOK
<1>4. CASE a.type \notin {"SWITCH_LAYER", "ENTER_SWITCH_MODE"}
  <2>1. \/ SwitchLayer(0, st1, sw, age, keep)
        \/ st' = st1 /\ sweep' = sw /\ UNCHANGED <<mode, led>>
    BY <1>4 DEF Emit
  <2> QED
    BY <1>1, <2>1, SwitchLayerTypes, LayersAssumption DEF CoreOK
<1> QED
  BY <1>2, <1>3, <1>4

LEMMA NoEmitTypes ==
    ASSUME CoreOK, NEW st1 \in [Keys -> Slot], NoEmit(st1)
    PROVE  CoreOK'
BY DEF NoEmit, CoreOK

\* Putting a well-typed slot in place of one keeps the slots well typed.
LEMMA SlotUpdate ==
    ASSUME st \in [Keys -> Slot], NEW k \in Keys, NEW s \in Slot
    PROVE  [st EXCEPT ![k] = s] \in [Keys -> Slot]
OBVIOUS

LEMMA SlotEdits ==
    ASSUME st \in [Keys -> Slot], NEW k \in Keys
    PROVE  /\ \A p \in BOOLEAN :
                [st EXCEPT ![k].pressed = p, ![k].held = 0] \in [Keys -> Slot]
           /\ [st EXCEPT ![k].longFired = TRUE] \in [Keys -> Slot]
           /\ [st EXCEPT ![k].moveIn = MoveInterval] \in [Keys -> Slot]
           /\ [st EXCEPT ![k].moving = TRUE, ![k].moveIn = MoveInterval] \in [Keys -> Slot]
           /\ [st EXCEPT ![k].repeatIn = RepeatInterval] \in [Keys -> Slot]
           /\ [st EXCEPT ![k].waiting = FALSE, ![k].count = 0, ![k].since = 0]
                \in [Keys -> Slot]
<1>1. RepeatInterval \in 0..RepeatMax /\ MoveInterval \in 0..MoveInterval
      /\ 0 \in 0..LongMs /\ 0 \in 0..DoubleMs
  BY TimingNat, ConstantTypes
<1>2. ASSUME NEW p \in BOOLEAN
      PROVE  [st EXCEPT ![k].pressed = p, ![k].held = 0] \in [Keys -> Slot]
  <2>1. [st[k] EXCEPT !.pressed = p, !.held = 0] \in Slot
    BY <1>1, <1>2 DEF Slot
  <2>2. [st EXCEPT ![k] = [st[k] EXCEPT !.pressed = p, !.held = 0]] \in [Keys -> Slot]
    BY <2>1
  <2> QED
    BY <2>2, Zenon
<1>3. [st EXCEPT ![k].longFired = TRUE] \in [Keys -> Slot]
  BY DEF Slot
<1>4. [st EXCEPT ![k].moveIn = MoveInterval] \in [Keys -> Slot]
  BY <1>1 DEF Slot
<1>5. [st EXCEPT ![k].moving = TRUE, ![k].moveIn = MoveInterval] \in [Keys -> Slot]
  <2>1. [st[k] EXCEPT !.moving = TRUE, !.moveIn = MoveInterval] \in Slot
    BY <1>1 DEF Slot
  <2>2. [st EXCEPT ![k] = [st[k] EXCEPT !.moving = TRUE, !.moveIn = MoveInterval]]
          \in [Keys -> Slot]
    BY <2>1
  <2> QED
    BY <2>2, Zenon
<1>6. [st EXCEPT ![k].repeatIn = RepeatInterval] \in [Keys -> Slot]
  BY <1>1 DEF Slot
<1>7. [st EXCEPT ![k].waiting = FALSE, ![k].count = 0, ![k].since = 0] \in [Keys -> Slot]
  <2>0. st[k] \in Slot
    OBVIOUS
  <2>1. ASSUME NEW s \in Slot
        PROVE  [s EXCEPT !.waiting = FALSE, !.count = 0, !.since = 0] \in Slot
    <3>1. ASSUME NEW w \in BOOLEAN, NEW c \in 0..1, NEW t \in 0..DoubleMs
          PROVE  [s EXCEPT !.waiting = w, !.count = c, !.since = t] \in Slot
      BY DEF Slot
    <3>2. 0 \in 0..1 /\ FALSE \in BOOLEAN
      OBVIOUS
    <3> QED
      BY <1>1, <3>1, <3>2, Zenon
  <2>2. [st EXCEPT ![k] = [st[k] EXCEPT !.waiting = FALSE, !.count = 0, !.since = 0]]
          \in [Keys -> Slot]
    BY <2>0, <2>1
  <2> QED
    BY <2>2, Zenon
<1> QED
  BY <1>2, <1>3, <1>4, <1>5, <1>6, <1>7

LEMMA SpendType ==
    ASSUME credit \in [Keys -> Int], NEW k \in Keys, NEW g, Spend(k, g)
    PROVE  credit' \in [Keys -> Int]
<1> DEFINE n == CASE g \in {"click", "long"} -> 1 [] g = "double" -> 2 [] OTHER -> 0
<1>1. n \in Int
  OBVIOUS
<1>2. credit' = [credit EXCEPT ![k] = @ - n]
  BY DEF Spend
<1> HIDE DEF n
<1> QED
  BY <1>1, <1>2

LEMMA FeedReleaseTypes ==
    ASSUME TypeOK, NEW k \in Keys, FeedRelease(k)
    PROVE  CoreOK' /\ tele' = 0 /\ credit' \in [Keys -> Int] /\ born' = born
<1> DEFINE b == Effective(active, k)
           c == Completed(b, st[k])
<1>0. CoreOK /\ RestOK
  BY TypeParts
<1>1. st \in [Keys -> Slot] /\ st[k] \in Slot /\ 0 \in 0..LayerTimeout
  BY <1>0, TimingNat DEF CoreOK
<1>2. b \in Binding /\ \A g \in Gestures : Legal(b[g])
  BY <1>0, EffectiveLegal DEF RestOK
<1>3. Legal(c.act) /\ ReleasedSlot(b, st[k]) \in Slot
  BY <1>1, <1>2, CompletedLegal
<1>4. [st EXCEPT ![k] = ReleasedSlot(b, st[k])] \in [Keys -> Slot]
  BY <1>1, <1>3
<1>5. CASE st[k].pressed
  <2>1. /\ Spend(k, c.g)
        /\ Emit(k, c.g, c.act, [st EXCEPT ![k] = ReleasedSlot(b, st[k])], NoSweep, 0, End)
    BY <1>5 DEF FeedRelease
  <2> HIDE DEF b, c
  <2>2. CoreOK'
    BY <1>0, <1>1, <1>3, <1>4, <2>1, EmitTypes, ConstantTypes
  <2>3. credit' \in [Keys -> Int]
    BY <1>0, <2>1, SpendType DEF RestOK
  <2> QED
    BY <2>2, <2>3 DEF FeedRelease
<1>6. CASE ~st[k].pressed
  <2>1. NoEmit(st) /\ UNCHANGED credit
    BY <1>6 DEF FeedRelease
  <2> QED
    BY <1>0, <1>1, <2>1, NoEmitTypes DEF FeedRelease, RestOK
<1> QED
  BY <1>5, <1>6

\* The slot of a key that goes down, as FeedPress sets it
PressedSlot(k) ==
    LET b == Effective(active, k) IN
    [st[k] EXCEPT !.pressed = TRUE, !.held = 0, !.longFired = FALSE,
        !.repeatIn = IF Has(b, "repeat") THEN RepeatDelay ELSE @,
        !.moving   = IF Plain(b) /\ b["click"].type = "MOUSE_MOVE" THEN TRUE ELSE @,
        !.moveIn   = IF Plain(b) /\ b["click"].type = "MOUSE_MOVE" THEN MoveInterval ELSE @]

LEMMA PressedSlotType ==
    ASSUME TypeOK, NEW k \in Keys
    PROVE  PressedSlot(k) \in Slot
<1> DEFINE b     == Effective(active, k)
           s     == st[k]
           moves == Plain(b) /\ b["click"].type = "MOUSE_MOVE"
<1>1. s \in Slot
  BY DEF TypeOK
<1>2. ASSUME NEW r \in 0..RepeatMax, NEW m \in BOOLEAN, NEW i \in 0..MoveInterval,
             NEW z \in 0..LongMs
      PROVE  [s EXCEPT !.pressed = TRUE, !.held = z, !.longFired = FALSE,
                       !.repeatIn = r, !.moving = m, !.moveIn = i] \in Slot
  <2> HIDE DEF s
  <2> QED
    BY <1>1 DEF Slot
<1>3. /\ 0 \in 0..LongMs
      /\ RepeatDelay \in 0..RepeatMax /\ s.repeatIn \in 0..RepeatMax
      /\ MoveInterval \in 0..MoveInterval /\ s.moveIn \in 0..MoveInterval
  BY <1>1, TimingNat, ConstantTypes DEF Slot
<1>4. s.moving \in BOOLEAN
  BY <1>1 DEF Slot
<1>5. (IF moves THEN TRUE ELSE s.moving) \in BOOLEAN
  <2> HIDE DEF moves, s
  <2> QED
    BY <1>4, Zenon
<1>6. /\ (IF Has(b, "repeat") THEN RepeatDelay ELSE s.repeatIn) \in 0..RepeatMax
      /\ (IF moves THEN MoveInterval ELSE s.moveIn) \in 0..MoveInterval
  BY <1>3
<1> QED
  BY <1>2, <1>3, <1>5, <1>6, Zenon DEF PressedSlot

LEMMA FeedPressTypes ==
    ASSUME TypeOK, NEW k \in Keys, FeedPress(k)
    PROVE  CoreOK' /\ tele' = 0 /\ credit' \in [Keys -> Int] /\ born' \in [Keys -> Layers]
<1> DEFINE b     == Effective(active, k)
           s     == st[k]
           st1   == [st EXCEPT ![k] = PressedSlot(k)]
           fires == Plain(b) /\ b["click"].type \in FiresOnPress
           keep  == IF b["click"].type = "MOUSE_MOVE" THEN k ELSE End
<1>0. CoreOK /\ RestOK
  BY TypeParts
<1>1. st \in [Keys -> Slot] /\ 0 \in 0..LayerTimeout
  BY <1>0, TimingNat DEF CoreOK
<1>2. Legal(b["click"]) /\ keep \in Keys \cup {End}
  <2>1. \A g \in Gestures : Legal(b[g])
    BY <1>0, EffectiveLegal DEF RestOK
  <2> QED
    BY <2>1 DEF Gestures
<1>3. st1 \in [Keys -> Slot]
  BY <1>1, PressedSlotType
<1>4. CASE s.pressed
  <2>1. NoEmit(st) /\ UNCHANGED <<credit, born>> /\ tele' = 0
    BY <1>4 DEF FeedPress
  <2> QED
    BY <1>0, <1>1, <2>1, NoEmitTypes DEF RestOK
<1>5. CASE ~s.pressed
  <2>1. /\ tele' = 0
        /\ born' = [born EXCEPT ![k] = active]
        /\ credit' = [credit EXCEPT ![k] = (IF s.waiting THEN @ ELSE 0)
                                           + (IF fires THEN 0 ELSE 1)]
        /\ \/ Emit(k, "click", b["click"], st1, NoSweep, 0, keep)
           \/ NoEmit(st1)
    BY <1>5, Zenon DEF FeedPress, PressedSlot
  <2> HIDE DEF b, s, st1, keep, fires
  <2>2. CoreOK'
    BY <1>0, <1>1, <1>2, <1>3, <2>1, EmitTypes, NoEmitTypes, ConstantTypes
  <2>3. born' \in [Keys -> Layers] /\ credit' \in [Keys -> Int]
    BY <1>0, <2>1 DEF RestOK
  <2> QED
    BY <2>1, <2>2, <2>3
<1> QED
  BY <1>4, <1>5

LEMMA TvRapidType ==
    ASSUME TypeOK, NEW k \in Keys
    PROVE  /\ TvRapid(k).count \in 0..(TvPressCount - 1)
           /\ TvRapid(k).age \in 0..(TvWindow + 1)
<1> DEFINE n == IF tv.count = 0 \/ tv.age > TvWindow THEN 1 ELSE tv.count + 1
<1>1. tv.count \in 0..(TvPressCount - 1) /\ tv.age \in 0..(TvWindow + 1)
  BY DEF TypeOK
<1>2. n \in Nat /\ n >= 1
  BY <1>1, TimingNat
<1> HIDE DEF n
<1>3. TvRapid(k) = IF k # TV THEN [count |-> tv.count, age |-> tv.age, fires |-> FALSE]
                   ELSE [count |-> IF n >= TvPressCount THEN 0 ELSE n,
                         age   |-> IF n = 1 \/ n >= TvPressCount THEN 0 ELSE tv.age,
                         fires |-> n >= TvPressCount]
  BY DEF TvRapid, n
<1>4. /\ (IF n >= TvPressCount THEN 0 ELSE n) \in 0..(TvPressCount - 1)
      /\ (IF n = 1 \/ n >= TvPressCount THEN 0 ELSE tv.age) \in 0..(TvWindow + 1)
  BY <1>1, <1>2, TimingNat
<1> QED
  BY <1>1, <1>3, <1>4

\* Where a release loop starts.
LEMMA SweepToType ==
    ASSUME NEW t \in Layers \cup {NoLayer}
    PROVE  /\ [NoSweep EXCEPT !.on = TRUE, !.to = t] \in SweepType
           /\ [NoSweep EXCEPT !.on = TRUE] \in SweepType
<1>1. ASSUME NEW s \in SweepType, NEW u \in Layers \cup {NoLayer}
      PROVE  [s EXCEPT !.on = TRUE, !.to = u] \in SweepType /\ [s EXCEPT !.on = TRUE] \in SweepType
  BY DEF SweepType
<1> QED
  BY <1>1, ConstantTypes, Zenon

LEMMA EnterTypes ==
    ASSUME CoreOK, NEW via \in BOOLEAN, NEW sw \in SweepType, EnterSwitchMode(via, sw),
           orphan' \in BOOLEAN
    PROVE  CoreOK'
<1>1. mode' \in ModeType
  BY TimingNat DEF EnterSwitchMode, ModeType
<1> QED
  BY <1>1, ConstantTypes DEF EnterSwitchMode, CoreOK

LEMMA ModePressTypes ==
    ASSUME TypeOK, NEW k \in Keys, ModePress(k)
    PROVE  CoreOK' /\ credit' \in [Keys -> Int] /\ born' \in [Keys -> Layers]
<1> DEFINE target == IF k = OK THEN 0 ELSE keymap.map[k]
<1>0. CoreOK /\ RestOK
  BY TypeParts
<1>1. WellFormed(keymap)
  BY <1>0, KeymapAssumption DEF RestOK
<1>2. target \in Layers \cup {NoLayer}
  BY <1>1, LayersAssumption DEF WellFormed
<1>3. st \in [Keys -> Slot] /\ orphan \in BOOLEAN /\ mode \in ModeType
  BY <1>0 DEF CoreOK
<1>4. CASE st[k].pressed
  <2>1. UNCHANGED <<st, mode, led, sweep, credit, born, orphan>>
    BY <1>4 DEF ModePress
  <2> QED
    BY <1>0, <2>1 DEF CoreOK, RestOK
<1>5. CASE ~st[k].pressed
  <2>1. credit' = [credit EXCEPT ![k] = 1] /\ born' = [born EXCEPT ![k] = active]
    BY <1>5 DEF ModePress
  <2>2. credit' \in [Keys -> Int] /\ born' \in [Keys -> Layers]
    BY <1>0, <2>1 DEF RestOK
  <2>3. \/ ModeOff(TRUE) /\ st' = AllCleared /\ Orphaning(TRUE) /\ UNCHANGED sweep
        \/ /\ target # NoLayer
           /\ ModeOff(TRUE)
           /\ st' = [st EXCEPT ![k].pressed = FALSE, ![k].held = 0]
           /\ sweep' = IF active = target THEN NoSweep
                       ELSE [NoSweep EXCEPT !.on = TRUE, !.to = target]
           /\ UNCHANGED orphan
        \/ /\ st' = [st EXCEPT ![k].pressed = TRUE, ![k].held = 0]
           /\ mode' = [mode EXCEPT !.idle = 0]
           /\ UNCHANGED <<led, sweep, orphan>>
    BY <1>5, Zenon DEF ModePress
  <2>4. CASE ModeOff(TRUE) /\ st' = AllCleared /\ Orphaning(TRUE) /\ UNCHANGED sweep
    <3>1. orphan' \in BOOLEAN
      BY <1>3, <2>4, OrphaningType
    <3> QED
      BY <1>0, <2>2, <2>4, <3>1, ModeOffType, ConstantTypes DEF CoreOK
  <2>5. CASE /\ target # NoLayer
             /\ ModeOff(TRUE)
             /\ st' = [st EXCEPT ![k].pressed = FALSE, ![k].held = 0]
             /\ sweep' = IF active = target THEN NoSweep
                         ELSE [NoSweep EXCEPT !.on = TRUE, !.to = target]
             /\ UNCHANGED orphan
    <3> HIDE DEF target
    <3>1. st' \in [Keys -> Slot]
      BY <1>3, <2>5, SlotEdits
    <3>2. sweep' \in SweepType
      BY <1>2, <2>5, SweepToType, ConstantTypes
    <3> QED
      BY <1>0, <1>3, <2>2, <2>5, <3>1, <3>2, ModeOffType DEF CoreOK
  <2>6. CASE /\ st' = [st EXCEPT ![k].pressed = TRUE, ![k].held = 0]
             /\ mode' = [mode EXCEPT !.idle = 0]
             /\ UNCHANGED <<led, sweep, orphan>>
    <3>1. st' \in [Keys -> Slot]
      BY <1>3, <2>6, SlotEdits
    <3>2. mode' \in ModeType
      BY <1>3, <2>6, TimingNat DEF ModeType
    <3> QED
      BY <1>0, <2>2, <2>6, <3>1, <3>2 DEF CoreOK
  <2> QED
    BY <2>3, <2>4, <2>5, <2>6
<1> QED
  BY <1>4, <1>5

LEMMA FeedKeyTypes ==
    ASSUME TypeOK, NEW k \in Keys, NEW down \in BOOLEAN, FeedKey(k, down)
    PROVE  TypeOK'
<1>0. CoreOK /\ RestOK
  BY TypeParts
<1>1. /\ phys' = [phys EXCEPT ![k] = down]
      /\ idle' = 0
      /\ UNCHANGED <<keymap, active, tick, saveReq>>
  BY DEF FeedKey
<1>2. phys' \in [Keys -> BOOLEAN] /\ idle' \in 0..LayerTimeout /\ 0 \in 0..LayerTimeout
  BY <1>0, <1>1, TimingNat DEF RestOK
<1>3. SUFFICES /\ CoreOK' /\ credit' \in [Keys -> Int] /\ born' \in [Keys -> Layers]
               /\ tele' \in 0..LayerTimeout
               /\ tv' \in [count : 0..(TvPressCount - 1), age : 0..(TvWindow + 1)]
  BY <1>0, <1>1, <1>2, TypeParts DEF RestOK
<1>4. CASE mode.on /\ down
  <2>1. ModePress(k) /\ UNCHANGED <<tele, tv>>
    BY <1>4 DEF FeedKey
  <2> QED
    BY <1>0, <2>1, ModePressTypes DEF RestOK
<1>5. CASE mode.on /\ ~down
  <2>1. ModeRelease(k) /\ UNCHANGED <<tele, tv>>
    BY <1>5 DEF FeedKey
  <2>2. [st EXCEPT ![k].pressed = FALSE, ![k].held = 0] \in [Keys -> Slot]
    BY <1>0, SlotEdits DEF CoreOK
  <2> QED
    BY <1>0, <2>1, <2>2, NoEmitTypes DEF ModeRelease, RestOK
<1>6. CASE ~mode.on /\ down
  <2>1. /\ tv' = [count |-> TvRapid(k).count, age |-> TvRapid(k).age]
        /\ EnterByTv \/ FeedPress(k)
    BY <1>6 DEF FeedKey
  <2>2. tv' \in [count : 0..(TvPressCount - 1), age : 0..(TvWindow + 1)]
    BY <2>1, TvRapidType
  <2>3. CASE EnterByTv
    <3>1. orphan' \in BOOLEAN
      BY <1>0, <2>3, OrphaningType DEF EnterByTv, CoreOK
    <3>2. CoreOK'
      BY <1>0, <2>3, <3>1, EnterTypes, ConstantTypes DEF EnterByTv
    <3> QED
      BY <1>0, <2>2, <2>3, <3>2 DEF EnterByTv, RestOK
  <2>4. CASE FeedPress(k)
    BY <1>2, <2>2, <2>4, FeedPressTypes
  <2> QED
    BY <2>1, <2>3, <2>4
<1>7. CASE ~mode.on /\ ~down
  <2>1. FeedRelease(k) /\ UNCHANGED tv
    BY <1>7 DEF FeedKey
  <2> QED
    BY <1>0, <1>2, <2>1, FeedReleaseTypes DEF RestOK
<1> QED
  BY <1>4, <1>5, <1>6, <1>7

LEMMA ReleaseAllTypes ==
    ASSUME TypeOK, ReleaseAll
    PROVE  TypeOK'
<1>1. phys' \in [Keys -> BOOLEAN]
  BY DEF ReleaseAll, TypeOK
<1>2. sweep' \in SweepType
  BY SweepToType DEF ReleaseAll
<1> QED
  BY <1>1, <1>2 DEF ReleaseAll, TypeOK, SweepType, ghostVars

LEMMA SweepSlotTypes ==
    ASSUME TypeOK, NEW k \in Keys, SweepSlot(k)
    PROVE  TypeOK'
<1> DEFINE b == Effective(active, k)
           c == Completed(b, st[k])
           next == [sweep EXCEPT !.at = k + 1]
           rest == [st[k] EXCEPT !.waiting = FALSE, !.count = 0, !.moving = FALSE,
                                 !.since = 0, !.pressed = FALSE, !.held = 0]
           st1  == [st EXCEPT ![k] = rest]
<1>0. CoreOK /\ RestOK
  BY TypeParts
<1>1. /\ st \in [Keys -> Slot] /\ st[k] \in Slot /\ sweep \in SweepType
      /\ sweep.age \in 0..LayerTimeout
  BY <1>0 DEF CoreOK, SweepType
<1>2. Legal(c.act)
  <2>1. b \in Binding /\ \A g \in Gestures : Legal(b[g])
    BY <1>0, EffectiveLegal DEF RestOK
  <2> QED
    BY <1>1, <2>1, CompletedLegal
<1>3. next \in SweepType
  <2>1. k + 1 \in 0..End
    BY KeysAssumption DEF End
  <2> QED
    BY <1>1, <2>1 DEF SweepType
<1>4. rest \in Slot
  <2>1. ASSUME NEW s \in Slot, NEW f \in BOOLEAN, NEW n \in 0..1, NEW t \in 0..DoubleMs,
               NEW h \in 0..LongMs
        PROVE  [s EXCEPT !.waiting = f, !.count = n, !.moving = f,
                         !.since = t, !.pressed = f, !.held = h] \in Slot
    BY DEF Slot
  <2>2. 0 \in 0..1 /\ 0 \in 0..DoubleMs /\ 0 \in 0..LongMs /\ FALSE \in BOOLEAN
    BY TimingNat
  <2> QED
    BY <1>1, <2>1, <2>2, Zenon
<1>5. st1 \in [Keys -> Slot]
  <2> HIDE DEF rest
  <2> QED
    BY <1>1, <1>4
<1>6. /\ idle' = IF st[k].pressed THEN sweep.age ELSE idle
      /\ UNCHANGED <<keymap, active, tv, tick, saveReq, phys, born>>
  BY DEF SweepSlot
<1>7. CASE st[k].pressed /\ ~mode.on
  <2>1. Emit(k, c.g, c.act, st1, next, sweep.age, End) /\ Spend(k, c.g) /\ tele' = sweep.age
    BY <1>7, Zenon DEF SweepSlot
  <2> HIDE DEF b, c, next, st1
  <2>2. CoreOK'
    BY <1>0, <1>1, <1>2, <1>3, <1>5, <2>1, EmitTypes
  <2>3. credit' \in [Keys -> Int]
    BY <1>0, <2>1, SpendType DEF RestOK
  <2> QED
    BY <1>0, <1>1, <1>6, <2>1, <2>2, <2>3, TypeParts DEF RestOK
<1>8. CASE ~(st[k].pressed /\ ~mode.on)
  <2>1. st' = st1 /\ sweep' = next /\ UNCHANGED <<mode, led, orphan, credit, tele>>
    BY <1>8, Zenon DEF SweepSlot
  <2> HIDE DEF next, st1
  <2>2. CoreOK'
    BY <1>0, <1>3, <1>5, <2>1 DEF CoreOK
  <2> QED
    BY <1>0, <1>1, <1>6, <2>1, <2>2, TypeParts DEF RestOK
<1> QED
  BY <1>7, <1>8

LEMMA SweepEndTypes ==
    ASSUME TypeOK, SweepEnd
    PROVE  TypeOK'
<1>0. CoreOK /\ RestOK
  BY TypeParts
<1>1. st \in [Keys -> Slot] /\ sweep \in SweepType /\ mode.on \in BOOLEAN
  BY <1>0 DEF CoreOK, ModeType
<1>2. sweep.to \in Layers \cup {NoLayer} /\ sweep.age \in 0..LayerTimeout
      /\ sweep.keep \in Keys \cup {End}
  BY <1>1 DEF SweepType
<1>3. st' \in [Keys -> Slot]
  <2>1. CASE sweep.keep = End
    BY <1>1, <2>1 DEF SweepEnd
  <2>2. CASE sweep.keep # End
    <3>1. sweep.keep \in Keys
      BY <1>2, <2>2
    <3>2. st' = [st EXCEPT ![sweep.keep].moving = TRUE, ![sweep.keep].moveIn = MoveInterval]
      BY <2>2 DEF SweepEnd
    <3> QED
      BY <1>1, <3>1, <3>2, SlotEdits
  <2> QED
    BY <2>1, <2>2
<1>4. sweep' \in SweepType /\ mode' \in ModeType /\ led' \in BOOLEAN
  BY <1>0, <1>1, ModeOffType, ConstantTypes DEF SweepEnd
<1>5. active' \in Layers /\ idle' \in 0..LayerTimeout /\ saveReq' \in BOOLEAN
  BY <1>0, <1>2 DEF SweepEnd, RestOK
<1>6. UNCHANGED <<keymap, tv, tele, tick, phys, ghostVars>>
  BY DEF SweepEnd
<1> QED
  BY <1>0, <1>3, <1>4, <1>5, <1>6, TypeParts DEF CoreOK, RestOK, ghostVars

\* Where the slot loop stands.
LEMMA LoopTypes ==
    /\ NoTick \in LoopType
    /\ [NoTick EXCEPT !.on = TRUE] \in LoopType
    /\ \A k \in Keys : Advance(k) => tick' \in LoopType
    /\ \A k \in Keys, l \in Layers :
          [on |-> TRUE, at |-> k, again |-> TRUE, layer |-> l] \in LoopType
<1>1. NoTick \in LoopType
  BY LayersAssumption DEF NoTick, LoopType, End
<1>2. ASSUME NEW t \in LoopType, NEW i \in 0..End
      PROVE  [t EXCEPT !.on = TRUE] \in LoopType /\ [t EXCEPT !.on = TRUE, !.at = i] \in LoopType
  BY DEF LoopType
<1>3. \A k \in Keys : k \in 0..End /\ k + 1 \in 0..End
  BY KeysAssumption DEF End
<1>4. ASSUME NEW k \in Keys, Advance(k)
      PROVE  tick' \in LoopType
  <2>1. [NoTick EXCEPT !.on = TRUE, !.at = k + 1] \in LoopType
    BY <1>1, <1>2, <1>3, Zenon
  <2> QED
    BY <1>4, <2>1, Zenon DEF Advance
<1>5. \A k \in Keys, l \in Layers :
          [on |-> TRUE, at |-> k, again |-> TRUE, layer |-> l] \in LoopType
  BY <1>3 DEF LoopType
<1>6. 0 \in 0..End
  BY DEF End
<1> QED
  BY <1>1, <1>2, <1>4, <1>5, <1>6, Zenon

LEMMA TickBeginTypes ==
    ASSUME TypeOK, TickBegin
    PROVE  TypeOK'
<1>0. CoreOK /\ RestOK
  BY TypeParts
<1>1. /\ st' = IF ModeExpired THEN AllCleared ELSE st
      /\ ModeOff(TRUE) \/ UNCHANGED <<mode, led>>
      /\ sweep' = [NoSweep EXCEPT !.on = TRUE, !.to = 0] \/ sweep' = sweep
      /\ tick' = [NoTick EXCEPT !.on = TRUE]
      /\ Orphaning(ModeExpired)
  BY DEF TickBegin
<1>2. st' \in [Keys -> Slot]
  BY <1>0, <1>1, ConstantTypes DEF CoreOK
<1>3. mode' \in ModeType /\ led' \in BOOLEAN
  BY <1>0, <1>1, ModeOffType DEF CoreOK
<1>4. sweep' \in SweepType
  BY <1>0, <1>1, SweepToType, LayersAssumption DEF CoreOK
<1>5. tick' \in LoopType
  BY <1>1, LoopTypes
<1>6. orphan' \in BOOLEAN
  BY <1>0, <1>1 DEF Orphaning, CoreOK
<1>7. UNCHANGED <<keymap, active, tv, idle, tele, saveReq, phys, credit, born>>
  BY DEF TickBegin
<1> QED
  BY <1>0, <1>2, <1>3, <1>4, <1>5, <1>6, <1>7, TypeParts DEF CoreOK, RestOK

LEMMA TickLongTypes ==
    ASSUME TypeOK, NEW k \in Keys, TickLong(k)
    PROVE  TypeOK'
<1> DEFINE a == Effective(active, k)["long"]
<1>0. CoreOK /\ RestOK
  BY TypeParts
<1>1. /\ Emit(k, "long", a, [st EXCEPT ![k].longFired = TRUE], NoSweep, tele, End)
      /\ Spend(k, "long")
      /\ tick' = [on |-> TRUE, at |-> k, again |-> TRUE, layer |-> active]
      /\ TickUnchanged
  BY DEF TickLong
<1>2. Legal(a)
  BY <1>0, EffectiveLegal DEF RestOK, Gestures
<1>3. [st EXCEPT ![k].longFired = TRUE] \in [Keys -> Slot]
  BY <1>0, SlotEdits DEF CoreOK
<1> HIDE DEF a
<1>4. CoreOK'
  <2>1. tele \in 0..LayerTimeout
    BY <1>0 DEF RestOK
  <2> QED
    BY <1>0, <1>1, <1>2, <1>3, <2>1, EmitTypes, ConstantTypes
<1>5. credit' \in [Keys -> Int]
  BY <1>0, <1>1, SpendType DEF RestOK
<1>6. tick' \in LoopType
  BY <1>0, <1>1, LoopTypes DEF RestOK
<1> QED
  BY <1>0, <1>1, <1>4, <1>5, <1>6, TypeParts DEF RestOK, TickUnchanged

LEMMA TickHeldTypes ==
    ASSUME TypeOK, NEW k \in Keys, TickHeld(k)
    PROVE  TypeOK'
<1> DEFINE l == IF tick.again THEN tick.layer ELSE active
           b == Effective(l, k)
<1>0. CoreOK /\ RestOK
  BY TypeParts
<1>1. l \in Layers /\ tele \in 0..LayerTimeout
  BY <1>0 DEF RestOK, LoopType
<1>2. Legal(b["click"]) /\ Legal(b["repeat"])
  <2> HIDE DEF l
  <2>1. \A g \in Gestures : Legal(b[g])
    BY <1>0, <1>1, EffectiveLegal DEF RestOK
  <2> QED
    BY <2>1 DEF Gestures
<1>3. /\ \/ Emit(k, "move", b["click"], [st EXCEPT ![k].moveIn = MoveInterval],
                 NoSweep, tele, End)
         \/ Emit(k, "repeat", b["repeat"], [st EXCEPT ![k].repeatIn = RepeatInterval],
                 NoSweep, tele, End)
         \/ NoEmit(st)
      /\ Advance(k)
      /\ TickUnchanged /\ UNCHANGED credit
  BY Zenon DEF TickHeld
<1>4. /\ [st EXCEPT ![k].moveIn = MoveInterval] \in [Keys -> Slot]
      /\ [st EXCEPT ![k].repeatIn = RepeatInterval] \in [Keys -> Slot]
      /\ st \in [Keys -> Slot]
  BY <1>0, SlotEdits DEF CoreOK
<1> HIDE DEF b
<1>5. CoreOK'
  BY <1>0, <1>1, <1>2, <1>3, <1>4, EmitTypes, NoEmitTypes, ConstantTypes
<1>6. tick' \in LoopType
  BY <1>3, LoopTypes, LayersAssumption
<1> QED
  BY <1>0, <1>3, <1>5, <1>6, TypeParts DEF RestOK, TickUnchanged

LEMMA TickDoubleTypes ==
    ASSUME TypeOK, NEW k \in Keys, TickDouble(k)
    PROVE  TypeOK'
<1> DEFINE a == AsTap(Effective(active, k)["click"])
           st1 == [st EXCEPT ![k].waiting = FALSE, ![k].count = 0, ![k].since = 0]
<1>0. CoreOK /\ RestOK
  BY TypeParts
<1>1. Legal(a)
  <2>1. Legal(Effective(active, k)["click"])
    BY <1>0, EffectiveLegal DEF RestOK, Gestures
  <2> QED
    BY <2>1, DerivedLegal
<1>2. /\ \/ Emit(k, "click", a, st1, NoSweep, tele, End) /\ Spend(k, "click")
         \/ NoEmit(st) /\ UNCHANGED credit
      /\ Advance(k)
      /\ TickUnchanged
  BY Zenon DEF TickDouble
<1>3. st1 \in [Keys -> Slot] /\ st \in [Keys -> Slot] /\ tele \in 0..LayerTimeout
  BY <1>0, SlotEdits DEF CoreOK, RestOK
<1> HIDE DEF a, st1
<1>4. CoreOK'
  BY <1>0, <1>1, <1>2, <1>3, EmitTypes, NoEmitTypes, ConstantTypes
<1>5. credit' \in [Keys -> Int]
  BY <1>0, <1>2, SpendType DEF RestOK
<1>6. tick' \in LoopType
  BY <1>2, LoopTypes, LayersAssumption
<1> QED
  BY <1>0, <1>2, <1>4, <1>5, <1>6, TypeParts DEF RestOK, TickUnchanged

LEMMA TickEndTypes ==
    ASSUME TypeOK, TickEnd
    PROVE  TypeOK'
<1>0. CoreOK /\ RestOK
  BY TypeParts
<1>1. tick' \in LoopType
  BY LoopTypes DEF TickEnd
<1>2. CoreOK'
  BY <1>0, NoEmitTypes DEF TickEnd, CoreOK
<1> QED
  BY <1>0, <1>1, <1>2, TypeParts DEF RestOK, TickEnd, TickUnchanged

LEMMA CommandTypes ==
    ASSUME TypeOK,
           \/ \E l \in Layers : SetLayer(l)
           \/ \E km \in Keymaps : ApplyConfig(km)
           \/ LoadDefaults
           \/ TakeSaveRequest
           \/ FeedOther
    PROVE  TypeOK'
<1>0. CoreOK /\ RestOK
  BY TypeParts
<1>1. ASSUME NEW l \in Layers, SetLayer(l)
      PROVE  TypeOK'
  <2>1. st \in [Keys -> Slot] /\ 0 \in 0..LayerTimeout /\ End \in Keys \cup {End}
    BY <1>0, TimingNat DEF CoreOK
  <2>2. st' \in [Keys -> Slot] /\ mode' \in ModeType /\ sweep' \in SweepType /\ led' \in BOOLEAN
    BY <1>0, <1>1, <2>1, SwitchLayerTypes, ConstantTypes DEF SetLayer
  <2> QED
    BY <1>0, <1>1, <2>2, TypeParts DEF SetLayer, CoreOK, RestOK, ghostVars
<1>2. ASSUME NEW km \in Keymaps, ApplyConfig(km)
      PROVE  TypeOK'
  <2>1. orphan' \in BOOLEAN
    BY <1>0, <1>2 DEF ApplyConfig, Orphaning, CoreOK
  <2> QED
    BY <1>0, <1>2, <2>1, TypeParts, ConstantTypes DEF ApplyConfig, CoreOK, RestOK
<1>3. CASE LoadDefaults
  BY <1>0, <1>3, TypeParts, ConstantTypes, KeymapAssumption, LayersAssumption, TimingNat
  DEF LoadDefaults, CoreOK, RestOK, ghostVars
<1>4. CASE TakeSaveRequest
  BY <1>0, <1>4, TypeParts DEF TakeSaveRequest, CoreOK, RestOK, engineVars, ghostVars
<1>5. CASE FeedOther
  BY <1>0, <1>5, TypeParts, TimingNat DEF FeedOther, CoreOK, RestOK, ghostVars
<1> QED
  BY <1>1, <1>2, <1>3, <1>4, <1>5

\* Ages and countdowns stay within their caps.
LEMMA AgeType ==
    ASSUME NEW cap \in Nat, NEW n \in 0..cap
    PROVE  Older(n, cap) \in 0..cap /\ Sooner(n) \in 0..cap
BY DEF Older, Sooner

LEMMA ElapseTypes ==
    ASSUME TypeOK, Elapse
    PROVE  TypeOK'
<1>0. CoreOK /\ RestOK
  BY TypeParts
<1> DEFINE aged(k) == [st[k] EXCEPT
                !.held     = IF st[k].pressed THEN Older(@, LongMs) ELSE @,
                !.since    = IF st[k].waiting THEN Older(@, DoubleMs) ELSE @,
                !.repeatIn = Sooner(@),
                !.moveIn   = Sooner(@)]
<1>1. ASSUME NEW k \in Keys
      PROVE  aged(k) \in Slot
  <2>1. st[k] \in Slot
    BY <1>0 DEF CoreOK
  <2>2. ASSUME NEW s \in Slot, NEW h \in 0..LongMs, NEW t \in 0..DoubleMs,
               NEW r \in 0..RepeatMax, NEW m \in 0..MoveInterval
        PROVE  [s EXCEPT !.held = h, !.since = t, !.repeatIn = r, !.moveIn = m] \in Slot
    BY DEF Slot
  <2>3. /\ st[k].held \in 0..LongMs /\ st[k].since \in 0..DoubleMs
        /\ st[k].repeatIn \in 0..RepeatMax /\ st[k].moveIn \in 0..MoveInterval
    BY <2>1 DEF Slot
  <2>4. /\ Older(st[k].held, LongMs) \in 0..LongMs
        /\ Older(st[k].since, DoubleMs) \in 0..DoubleMs
        /\ Sooner(st[k].repeatIn) \in 0..RepeatMax
        /\ Sooner(st[k].moveIn) \in 0..MoveInterval
    BY <2>3, AgeType, TimingNat, ConstantTypes
  <2>5. /\ (IF st[k].pressed THEN Older(st[k].held, LongMs) ELSE st[k].held) \in 0..LongMs
        /\ (IF st[k].waiting THEN Older(st[k].since, DoubleMs) ELSE st[k].since)
              \in 0..DoubleMs
    BY <2>3, <2>4
  <2> QED
    BY <2>1, <2>2, <2>4, <2>5, Zenon
<1>2. st' = [k \in Keys |-> aged(k)]
  BY DEF Elapse
<1> HIDE DEF aged
<1>3. st' \in [Keys -> Slot]
  BY <1>1, <1>2
<1>4. mode' \in ModeType
  <2>1. mode \in ModeType
    BY <1>0 DEF CoreOK
  <2>2. mode.age \in 0..TvLockout /\ mode.idle \in 0..ModeTimeout
    BY <2>1 DEF ModeType
  <2>3. Older(mode.age, TvLockout) \in 0..TvLockout /\ Older(mode.idle, ModeTimeout) \in 0..ModeTimeout
    BY <2>2, AgeType, TimingNat
  <2>4. [mode EXCEPT !.age = Older(mode.age, TvLockout),
                     !.idle = Older(mode.idle, ModeTimeout)] \in ModeType
    BY <2>1, <2>3 DEF ModeType
  <2> QED
    BY <2>1, <2>4 DEF Elapse
<1>5. tv' \in [count : 0..(TvPressCount - 1), age : 0..(TvWindow + 1)]
  <2>1. tv.age \in 0..(TvWindow + 1) /\ TvWindow + 1 \in Nat
    BY <1>0, TimingNat DEF RestOK
  <2>2. Older(tv.age, TvWindow + 1) \in 0..(TvWindow + 1)
    BY <2>1, AgeType
  <2> QED
    BY <1>0, <2>2 DEF Elapse, RestOK
<1>6. idle' \in 0..LayerTimeout /\ tele' \in 0..LayerTimeout
  BY <1>0, AgeType, TimingNat DEF Elapse, RestOK
<1> QED
  BY <1>0, <1>3, <1>4, <1>5, <1>6, TypeParts DEF Elapse, CoreOK, RestOK, ghostVars

LEMMA InitTypes == Init => TypeOK
<1> SUFFICES ASSUME Init PROVE TypeOK
  OBVIOUS
<1>1. CoreOK
  BY ConstantTypes DEF Init, CoreOK
<1>2. RestOK
  <2>1. tv \in [count : 0..(TvPressCount - 1), age : 0..(TvWindow + 1)]
    BY TimingNat DEF Init
  <2>2. tick \in LoopType
    BY LoopTypes DEF Init
  <2>3. /\ keymap \in Keymaps /\ active \in Layers
        /\ idle \in 0..LayerTimeout /\ tele \in 0..LayerTimeout
    BY TimingNat DEF Init
  <2>4. saveReq \in BOOLEAN /\ phys \in [Keys -> BOOLEAN]
    BY DEF Init
  <2>5. born \in [Keys -> Layers] /\ credit \in [Keys -> Int]
    BY LayersAssumption DEF Init
  <2> QED
    BY <2>1, <2>2, <2>3, <2>4, <2>5 DEF RestOK
<1> QED
  BY <1>1, <1>2, TypeParts

LEMMA StepTypes == TypeOK /\ [Next]_vars => TypeOK'
<1> SUFFICES ASSUME TypeOK, [Next]_vars PROVE TypeOK'
  OBVIOUS
<1>1. CASE \E k \in Keys, down \in BOOLEAN : FeedKey(k, down)
  BY <1>1, FeedKeyTypes
<1>2. CASE ReleaseAll
  BY <1>2, ReleaseAllTypes
<1>3. CASE \E k \in Keys : SweepSlot(k)
  BY <1>3, SweepSlotTypes
<1>4. CASE SweepEnd
  BY <1>4, SweepEndTypes
<1>5. CASE TickBegin
  BY <1>5, TickBeginTypes
<1>6. CASE \E k \in Keys : TickLong(k)
  BY <1>6, TickLongTypes
<1>7. CASE \E k \in Keys : TickHeld(k)
  BY <1>7, TickHeldTypes
<1>8. CASE \E k \in Keys : TickDouble(k)
  BY <1>8, TickDoubleTypes
<1>9. CASE TickEnd
  BY <1>9, TickEndTypes
<1>10. CASE \/ \E l \in Layers : SetLayer(l)
            \/ \E km \in Keymaps : ApplyConfig(km)
            \/ LoadDefaults
            \/ TakeSaveRequest
            \/ FeedOther
  BY <1>10, CommandTypes
<1>11. CASE Elapse
  BY <1>11, ElapseTypes
<1>12. CASE UNCHANGED vars
  BY <1>12 DEF TypeOK, vars, engineVars, effectVars, ghostVars
<1> QED
  BY <1>1, <1>2, <1>3, <1>4, <1>5, <1>6, <1>7, <1>8, <1>9, <1>10, <1>11, <1>12 DEF Next

\* The slots, the mode, the layer and the loops stay within their types for every
\* keymap: in particular every layer a binding can switch to exists, and the slot
\* loops never leave the thirteen slots.
THEOREM TypeCorrect == Spec => []TypeOK
  BY InitTypes, StepTypes, PTL DEF Spec
============================================================================
