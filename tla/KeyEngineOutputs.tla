-------------------------- MODULE KeyEngineOutputs --------------------------
(***************************************************************************)
(* What the outputs of KeyEngine owe to the presses of its keys, for every  *)
(* set of keys, layers and keymaps, and every choice of the time constants: *)
(* no press is answered twice, nothing stays held once no key is down, and  *)
(* the presses that opened the switch mode do not close it.                 *)
(***************************************************************************)
EXTENDS KeyEngineSafety

----------------------------------------------------------------------------
(* The invariants *)

\* The presses that slot s, with binding b, may still turn into gestures
Owed(s, b) == (IF s.waiting THEN 1 ELSE 0)
              + (IF s.pressed /\ ~s.longFired /\ ~Plain(b) THEN 1 ELSE 0)

\* c presses are enough for slot s, and its double window is one
Covered(s, b, c) ==
    /\ c >= Owed(s, b)
    /\ s.count = 1 => s.waiting
    /\ s.waiting => Has(b, "double")

Settled(s, c) == \A j \in Keys : Covered(s[j], Effective(active, j), c[j])

\* No double window is open in the switch mode
Quiet(m, s) == m.on => \A j \in Keys : ~s[j].waiting

PaidInv == GestureInv /\ Settled(st, credit) /\ Quiet(mode, st)

Holds == {"KEYBOARD_HOLD", "CONSUMER_HOLD", "VOICE_HOLD", "MOUSE_BUTTON_HOLD"}

\* The holds of the keymap in use are undone when their key goes up: a repeat is
\* no hold, a voice session hangs on a plain click, and in the switch mode, where
\* nothing is emitted for a key-up, no long press holds an output
HoldsAreUndone ==
    \A l \in Layers, k \in Keys :
        LET b == Effective(l, k) IN
        /\ b["repeat"].type \notin Holds
        /\ "VOICE_HOLD" \notin {b["long"].type, b["double"].type}
        /\ b["click"].type = "VOICE_HOLD" => Plain(b)
        /\ mode.on => b["long"].type \notin Holds

\* The action whose output key k of the slots s holds while it is down
Holding(s, k) == LET b == Effective(active, k) IN
                 IF Plain(b) THEN b["click"] ELSE IF s[k].longFired THEN b["long"] ELSE NoAct

Holder(s, T) == {k \in Keys : s[k].pressed /\ Holding(s, k).type \in T}

\* What is held on host h is held by a key of the slots s
HeldBy(s, h) ==
    /\ h.kb # 0 => Holder(s, {"KEYBOARD_HOLD", "VOICE_HOLD"}) # {}
    /\ h.consumer # 0 => Holder(s, {"CONSUMER_HOLD"}) # {}
    /\ h.mic => Holder(s, {"VOICE_HOLD"}) # {}
    /\ \A m \in h.mouse : \E k \in Holder(s, {"MOUSE_BUTTON_HOLD"}) : Holding(s, k).arg = m

HostType == [kb : Nat, consumer : Nat, mouse : SUBSET Nat, mic : BOOLEAN]

\* What is held is held by a key that is down, unless a slot was cleared under it
HeldIn(s, h, m, o) ==
    /\ h \in HostType
    /\ o \/ HeldBy(s, h)
    /\ m.on => o \/ h = Nothing

HoldInv == HeldIn(st, host, mode, orphan)


----------------------------------------------------------------------------
(* One slot *)

\* The presses a gesture uses up
Price(g) == CASE g \in {"click", "long"} -> 1 [] g = "double" -> 2 [] OTHER -> 0

LEMMA Prices ==
    /\ Price("click") = 1 /\ Price("long") = 1 /\ Price("double") = 2
    /\ Price("release") = 0 /\ Price("none") = 0
BY DEF Price

LEMMA Spent ==
    ASSUME credit \in [Keys -> Int], NEW k \in Keys, NEW g, Spend(k, g)
    PROVE  /\ credit' \in [Keys -> Int]
           /\ credit'[k] = credit[k] - Price(g)
           /\ \A j \in Keys : j # k => credit'[j] = credit[j]
<1>1. credit' = [credit EXCEPT ![k] = @ - Price(g)]
  BY DEF Spend, Price
<1>2. Price(g) \in Int
  BY DEF Price
<1> QED
  BY <1>1, <1>2

LEMMA OwedRange ==
    ASSUME NEW s, NEW b
    PROVE  Owed(s, b) \in 0..2
BY DEF Owed

\* A slot neither down nor in a double window asks for nothing
LEMMA RestCovered ==
    ASSUME NEW s, NEW b, NEW c \in Int, c >= 0, ~s.pressed, ~s.waiting, s.count # 1
    PROVE  Covered(s, b, c)
BY DEF Covered, Owed

LEMMA ClearedCovered ==
    ASSUME NEW b, NEW c \in Int, c >= 0
    PROVE  Covered(Cleared, b, c)
BY RestCovered DEF Cleared

\* A key-up pays for the gesture it completes
LEMMA ReleaseCovered ==
    ASSUME NEW s \in Slot, NEW b, NEW c \in Int, Covered(s, b, c), s.pressed
    PROVE  /\ c - Price(Completed(b, s).g) >= 0
           /\ Covered(ReleasedSlot(b, s), b, c - Price(Completed(b, s).g))
<1> DEFINE g == Completed(b, s).g
           r == ReleasedSlot(b, s)
<1>1. /\ ~r.pressed
      /\ r.waiting <=> g = "none" \/ (g # "double" /\ s.waiting)
      /\ r.count = (IF g = "none" THEN 1 ELSE IF g = "double" THEN 0 ELSE s.count)
  BY DEF ReleasedSlot, Slot
<1>2. \/ Plain(b) /\ g = "release"
      \/ s.longFired /\ g = "release"
      \/ ~Plain(b) /\ ~s.longFired /\ ~Has(b, "double") /\ g = "click"
      \/ ~Plain(b) /\ ~s.longFired /\ Has(b, "double") /\ s.count = 1 /\ g = "double"
      \/ ~Plain(b) /\ ~s.longFired /\ Has(b, "double") /\ s.count # 1 /\ g = "none"
  BY DEF Completed
<1> HIDE DEF g, r
<1>3. s.waiting \in BOOLEAN /\ s.count \in 0..1
  BY DEF Slot
<1>4. c >= Owed(s, b) /\ (s.count = 1 => s.waiting) /\ (s.waiting => Has(b, "double"))
  BY DEF Covered
<1>5. /\ c - Price(g) >= IF r.waiting THEN 1 ELSE 0
      /\ r.count = 1 => r.waiting
      /\ r.waiting => Has(b, "double")
  <2>1. CASE g = "release"
    BY <1>1, <1>3, <1>4, <2>1, Prices DEF Owed
  <2>2. CASE ~Plain(b) /\ ~s.longFired /\ ~Has(b, "double") /\ g = "click"
    BY <1>1, <1>3, <1>4, <2>2, Prices DEF Owed
  <2>3. CASE ~Plain(b) /\ ~s.longFired /\ Has(b, "double") /\ s.count = 1 /\ g = "double"
    BY <1>1, <1>3, <1>4, <2>3, Prices DEF Owed
  <2>4. CASE ~Plain(b) /\ ~s.longFired /\ Has(b, "double") /\ s.count # 1 /\ g = "none"
    BY <1>1, <1>3, <1>4, <2>4, Prices DEF Owed
  <2> QED
    BY <1>2, <2>1, <2>2, <2>3, <2>4
<1>6. c - Price(g) \in Int
  BY DEF Price
<1>7. c - Price(g) >= 0
  BY <1>5, <1>6
<1>8. Covered(r, b, c - Price(g))
  BY <1>1, <1>5, <1>6 DEF Covered, Owed
<1> QED
  BY <1>7, <1>8 DEF g, r

\* A slot whose flags are the same, or that has become less busy
LEMMA SameCovered ==
    ASSUME NEW s, NEW r, NEW b, NEW c \in Int, Covered(s, b, c),
           r.waiting = s.waiting, r.count = s.count,
           r.pressed = s.pressed \/ ~r.pressed, r.longFired = s.longFired
    PROVE  Covered(r, b, c)
BY DEF Covered, Owed

----------------------------------------------------------------------------
(* Presses and gestures *)

LEMMA CreditNat ==
    ASSUME PaidInv, NEW j \in Keys
    PROVE  credit[j] \in Int /\ credit[j] >= 0 /\ st[j] \in Slot
           /\ Covered(st[j], Effective(active, j), credit[j])
<1>1. Covered(st[j], Effective(active, j), credit[j])
  BY DEF PaidInv, Settled
<1>2. credit[j] \in Int /\ st[j] \in Slot
  BY DEF PaidInv, GestureInv, TypeOK
<1> QED
  BY <1>1, <1>2, OwedRange DEF Covered

\* An emission leaves the slots to the caller or clears them
LEMMA EmitSlots ==
    ASSUME NEW k, NEW g, NEW a, NEW st1, NEW sw, NEW age, NEW keep,
           Emit(k, g, a, st1, sw, age, keep)
    PROVE  \/ a.type = "ENTER_SWITCH_MODE" /\ st' = AllCleared
           \/ a.type # "ENTER_SWITCH_MODE" /\ st' = st1 /\ (mode' = NoMode \/ mode' = mode)
<1>1. ASSUME NEW t, SwitchLayer(t, st1, sw, age, keep)
      PROVE  st' = st1 /\ mode' = NoMode
  BY <1>1 DEF SwitchLayer, ModeOff
<1>2. CASE a.type = "SWITCH_LAYER"
  <2>1. \E t : SwitchLayer(t, st1, sw, age, keep)
    BY <1>2 DEF Emit
  <2> QED
    BY <1>1, <1>2, <2>1
<1>3. CASE a.type = "ENTER_SWITCH_MODE"
  BY <1>3 DEF Emit, EnterSwitchMode, EndsOneshot
<1>4. CASE a.type \notin {"SWITCH_LAYER", "ENTER_SWITCH_MODE"}
  <2>1. \/ SwitchLayer(0, st1, sw, age, keep)
        \/ st' = st1 /\ UNCHANGED <<mode, led>>
    BY <1>4 DEF Emit
  <2> QED
    BY <1>1, <1>4, <2>1
<1> QED
  BY <1>2, <1>3, <1>4

\* What an emission leaves is paid for when its caller's slots are
LEMMA EmitPaid ==
    ASSUME NEW c \in [Keys -> Int], NEW k, NEW g, NEW a, NEW st1, NEW sw, NEW age, NEW keep,
           Emit(k, g, a, st1, sw, age, keep), Settled(st1, c), Quiet(mode, st1)
    PROVE  Settled(st', c) /\ Quiet(mode', st')
<1>1. CASE st' = AllCleared
  <2>1. ASSUME NEW j \in Keys PROVE st'[j] = Cleared /\ c[j] \in Int /\ c[j] >= 0
    BY <1>1, OwedRange DEF AllCleared, Settled, Covered
  <2>2. Settled(st', c)
    BY <2>1, ClearedCovered DEF Settled
  <2>3. Quiet(mode', st')
    BY <2>1 DEF Quiet, Cleared
  <2> QED
    BY <2>2, <2>3
<1>2. CASE st' = st1 /\ (mode' = NoMode \/ mode' = mode)
  BY <1>2 DEF Quiet, NoMode
<1> QED
  BY <1>1, <1>2, EmitSlots

\* The step changes the slot of one key
LEMMA OneSettled ==
    ASSUME Settled(st, credit), NEW k \in Keys, NEW st1, NEW c,
           \A j \in Keys : j # k => st1[j] = st[j] /\ c[j] = credit[j],
           Covered(st1[k], Effective(active, k), c[k])
    PROVE  Settled(st1, c)
BY DEF Settled

LEMMA OneQuiet ==
    ASSUME Quiet(mode, st), NEW k \in Keys, NEW st1, \A j \in Keys : j # k => st1[j] = st[j],
           mode.on => ~st1[k].waiting
    PROVE  Quiet(mode, st1)
BY DEF Quiet

\* The bindings do not move
LEMMA SameBindings ==
    ASSUME active' = active, keymap' = keymap, NEW s, NEW c, Settled(s, c)
    PROVE  \A j \in Keys : Covered(s[j], Effective(active, j)', c[j])
BY DEF Settled, Effective, Own

\* A plain key whose click is emitted when it goes down
Fires(b) == Plain(b) /\ b["click"].type \in FiresOnPress

PressedSlots(k) == [st EXCEPT ![k] = PressedSlot(k)]

LEMMA PressFlags ==
    ASSUME TypeOK, NEW k \in Keys
    PROVE  /\ PressedSlot(k).pressed /\ ~PressedSlot(k).longFired
           /\ PressedSlot(k).waiting = st[k].waiting /\ PressedSlot(k).count = st[k].count
           /\ PressedSlots(k)[k] = PressedSlot(k)
           /\ \A j \in Keys : j # k => PressedSlots(k)[j] = st[j]
<1>1. st \in [Keys -> Slot] /\ st[k] \in Slot
  BY DEF TypeOK
<1>2. ASSUME NEW s \in Slot, NEW h, NEW r, NEW m, NEW i
      PROVE  LET p == [s EXCEPT !.pressed = TRUE, !.held = h, !.longFired = FALSE,
                                !.repeatIn = r, !.moving = m, !.moveIn = i]
             IN  p.pressed /\ ~p.longFired /\ p.waiting = s.waiting /\ p.count = s.count
  BY DEF Slot
<1>3. \E h, r, m, i : PressedSlot(k) = [st[k] EXCEPT !.pressed = TRUE, !.held = h, !.longFired = FALSE,
                                                     !.repeatIn = r, !.moving = m, !.moveIn = i]
  BY Zenon DEF PressedSlot
<1>4. /\ PressedSlot(k).pressed /\ ~PressedSlot(k).longFired
      /\ PressedSlot(k).waiting = st[k].waiting /\ PressedSlot(k).count = st[k].count
  BY <1>1, <1>2, <1>3
<1> QED
  BY <1>1, <1>4 DEF PressedSlots

LEMMA PressIs ==
    ASSUME NEW k \in Keys, FeedPress(k), ~st[k].pressed
    PROVE  LET b == Effective(active, k) IN
           /\ \/ Fires(b) /\ \E keep : Emit(k, "click", b["click"], PressedSlots(k), NoSweep, 0, keep)
              \/ ~Fires(b) /\ NoEmit(PressedSlots(k))
           /\ credit' = [credit EXCEPT ![k] = (IF st[k].waiting THEN @ ELSE 0)
                                              + (IF Fires(b) THEN 0 ELSE 1)]
BY Zenon DEF FeedPress, PressedSlots, PressedSlot, Fires

LEMMA FeedPressPaid ==
    ASSUME PaidInv, NEW k \in Keys, FeedPress(k), ~mode.on
    PROVE  Settled(st', credit') /\ Quiet(mode', st')
<1> DEFINE b == Effective(active, k)
<1>1. CASE st[k].pressed
  BY <1>1 DEF FeedPress, NoEmit, PaidInv
<1>2. CASE ~st[k].pressed
  <2>0. credit \in [Keys -> Int] /\ TypeOK
    BY DEF PaidInv, GestureInv, TypeOK
  <2>1. PICK n \in Int : /\ n = (IF st[k].waiting THEN credit[k] ELSE 0) + (IF Fires(b) THEN 0 ELSE 1)
                         /\ credit' = [credit EXCEPT ![k] = n]
    <3>1. (IF st[k].waiting THEN credit[k] ELSE 0) + (IF Fires(b) THEN 0 ELSE 1) \in Int
      BY CreditNat
    <3> QED
      BY <1>2, <3>1, PressIs
  <2>2. credit' \in [Keys -> Int] /\ credit'[k] = n /\ \A j \in Keys : j # k => credit'[j] = credit[j]
    BY <2>0, <2>1
  <2>3. Covered(PressedSlot(k), b, n)
    <3>1. /\ PressedSlot(k).pressed /\ ~PressedSlot(k).longFired
          /\ PressedSlot(k).waiting = st[k].waiting /\ PressedSlot(k).count = st[k].count
      BY <2>0, PressFlags
    <3>2. credit[k] \in Int /\ Covered(st[k], b, credit[k])
      BY CreditNat
    <3>3. ~Plain(b) => ~Fires(b)
      BY DEF Fires
    <3> HIDE DEF b
    <3>4. n >= Owed(PressedSlot(k), b)
      <4>1. CASE st[k].waiting
        BY <1>2, <2>1, <3>1, <3>2, <3>3, <4>1 DEF Covered, Owed
      <4>2. CASE ~st[k].waiting
        BY <1>2, <2>1, <3>1, <3>2, <3>3, <4>2 DEF Owed
      <4> QED
        BY <4>1, <4>2
    <3> QED
      BY <3>1, <3>2, <3>4 DEF Covered
  <2>4. Settled(PressedSlots(k), credit')
    BY <2>0, <2>2, <2>3, PressFlags, OneSettled DEF PaidInv
  <2>5. Quiet(mode, PressedSlots(k))
    BY DEF Quiet
  <2>6. \/ \E g, a, t, keep : Emit(k, g, a, PressedSlots(k), NoSweep, t, keep)
        \/ NoEmit(PressedSlots(k))
    BY <1>2, PressIs
  <2> QED
    BY <2>2, <2>4, <2>5, <2>6, EmitPaid DEF NoEmit
<1> QED
  BY <1>1, <1>2

ReleasedSlots(k) == [st EXCEPT ![k] = ReleasedSlot(Effective(active, k), st[k])]

LEMMA ReleaseFlags ==
    ASSUME TypeOK, NEW k \in Keys
    PROVE  /\ ReleasedSlots(k)[k] = ReleasedSlot(Effective(active, k), st[k])
           /\ ~ReleasedSlots(k)[k].pressed
           /\ \A j \in Keys : j # k => ReleasedSlots(k)[j] = st[j]
<1>1. st \in [Keys -> Slot] /\ st[k] \in Slot
  BY DEF TypeOK
<1>2. ~ReleasedSlot(Effective(active, k), st[k]).pressed
  BY <1>1 DEF ReleasedSlot, Slot
<1> QED
  BY <1>1, <1>2 DEF ReleasedSlots

LEMMA FeedReleasePaid ==
    ASSUME PaidInv, NEW k \in Keys, FeedRelease(k), ~mode.on
    PROVE  Settled(st', credit') /\ Quiet(mode', st')
<1> DEFINE b == Effective(active, k)
           c == Completed(b, st[k])
<1>1. CASE ~st[k].pressed
  BY <1>1 DEF FeedRelease, NoEmit, PaidInv
<1>2. CASE st[k].pressed
  <2>0. credit \in [Keys -> Int] /\ TypeOK
    BY DEF PaidInv, GestureInv, TypeOK
  <2>1. Spend(k, c.g) /\ Emit(k, c.g, c.act, ReleasedSlots(k), NoSweep, 0, End)
    BY <1>2 DEF FeedRelease, ReleasedSlots
  <2>2. credit' \in [Keys -> Int] /\ credit'[k] = credit[k] - Price(c.g)
        /\ \A j \in Keys : j # k => credit'[j] = credit[j]
    BY <2>0, <2>1, Spent
  <2>3. Covered(ReleasedSlot(b, st[k]), b, credit'[k])
    BY <1>2, <2>2, CreditNat, ReleaseCovered
  <2>4. Settled(ReleasedSlots(k), credit')
    BY <2>0, <2>2, <2>3, ReleaseFlags, OneSettled DEF PaidInv
  <2>5. Quiet(mode, ReleasedSlots(k))
    BY DEF Quiet
  <2> QED
    BY <2>1, <2>2, <2>4, <2>5, EmitPaid
<1> QED
  BY <1>1, <1>2

\* The edit of one slot by ModePress and ModeRelease
ModeSlots(k, p) == [st EXCEPT ![k].pressed = p, ![k].held = 0]

LEMMA ModeFlags ==
    ASSUME TypeOK, NEW k \in Keys, NEW p \in BOOLEAN
    PROVE  /\ ModeSlots(k, p)[k].pressed = p /\ ModeSlots(k, p)[k].waiting = st[k].waiting
           /\ ModeSlots(k, p)[k].count = st[k].count
           /\ ModeSlots(k, p)[k].longFired = st[k].longFired
           /\ \A j \in Keys : j # k => ModeSlots(k, p)[j] = st[j]
<1>1. st \in [Keys -> Slot] /\ st[k] \in Slot
  BY DEF TypeOK
<1> DEFINE r == [st[k] EXCEPT !.pressed = p, !.held = 0]
<1>2. r.pressed = p /\ r.waiting = st[k].waiting /\ r.count = st[k].count /\ r.longFired = st[k].longFired
  BY <1>1 DEF Slot
<1>3. ModeSlots(k, p) = [st EXCEPT ![k] = r]
  BY <1>1, Zenon DEF ModeSlots
<1> HIDE DEF r
<1> QED
  BY <1>1, <1>2, <1>3

\* A press in the mode buys one gesture; no double window is open there
LEMMA ModePressPaid ==
    ASSUME PaidInv, NEW k \in Keys, ModePress(k), mode.on
    PROVE  Settled(st', credit') /\ Quiet(mode', st')
<1>0. TypeOK /\ credit \in [Keys -> Int] /\ Settled(st, credit) /\ Quiet(mode, st)
  BY DEF PaidInv, GestureInv, TypeOK
<1>1. CASE st[k].pressed
  BY <1>0, <1>1, Zenon DEF ModePress
<1>2. CASE ~st[k].pressed
  <2>1. credit' = [credit EXCEPT ![k] = 1]
    BY <1>2 DEF ModePress
  <2>2. credit' \in [Keys -> Int] /\ credit'[k] = 1 /\ \A j \in Keys : j # k => credit'[j] = credit[j]
    BY <1>0, <2>1
  <2>3. \/ st' = AllCleared /\ mode' = NoMode
        \/ \E p \in BOOLEAN : /\ st' = ModeSlots(k, p)
                              /\ mode' = NoMode \/ mode' = [mode EXCEPT !.idle = 0]
    BY <1>2, Zenon DEF ModePress, ModeOff, ModeSlots
  <2>4. CASE st' = AllCleared /\ mode' = NoMode
    <3>1. \A j \in Keys : credit'[j] \in Int /\ credit'[j] >= 0
      BY <2>2, CreditNat
    <3> QED
      BY <2>4, <3>1, ClearedCovered DEF Settled, AllCleared, Quiet, NoMode
  <2>5. ASSUME NEW p \in BOOLEAN, st' = ModeSlots(k, p)
        PROVE  Settled(st', credit') /\ \A j \in Keys : ~st'[j].waiting
    <3>1. /\ st'[k].pressed = p /\ st'[k].waiting = st[k].waiting /\ st'[k].count = st[k].count
          /\ \A j \in Keys : j # k => st'[j] = st[j]
      BY <1>0, <2>5, ModeFlags
    <3>2. ~st[k].waiting /\ Covered(st[k], Effective(active, k), credit[k])
      BY <1>0 DEF Quiet, Settled
    <3>3. Covered(st'[k], Effective(active, k), 1)
      <4>1. Owed(st'[k], Effective(active, k)) <= 1
        BY <3>1, <3>2 DEF Owed
      <4> QED
        BY <3>1, <3>2, <4>1, OwedRange DEF Covered
    <3>4. Settled(st', credit')
      BY <1>0, <2>2, <3>1, <3>3, OneSettled
    <3> QED
      BY <1>0, <3>1, <3>2, <3>4 DEF Quiet
  <2> QED
    BY <2>3, <2>4, <2>5 DEF Quiet
<1> QED
  BY <1>1, <1>2

LEMMA FeedKeyPaid ==
    ASSUME PaidInv, NEW k \in Keys, NEW down \in BOOLEAN, FeedKey(k, down)
    PROVE  Settled(st', credit') /\ Quiet(mode', st')
<1>0. TypeOK /\ credit \in [Keys -> Int] /\ Settled(st, credit) /\ Quiet(mode, st)
  BY DEF PaidInv, GestureInv, TypeOK
<1>1. \/ mode.on /\ (ModePress(k) \/ ModeRelease(k))
      \/ ~mode.on /\ (EnterByTv \/ FeedPress(k) \/ FeedRelease(k))
  BY DEF FeedKey
<1>2. CASE mode.on /\ ModeRelease(k)
  <2>1. st' = ModeSlots(k, FALSE) /\ credit' = credit /\ mode' = mode
    BY <1>2 DEF ModeRelease, NoEmit, ModeSlots
  <2>2. /\ ~st'[k].pressed /\ st'[k].waiting = st[k].waiting /\ st'[k].count = st[k].count
        /\ st'[k].longFired = st[k].longFired
        /\ \A j \in Keys : j # k => st'[j] = st[j]
    BY <1>0, <2>1, ModeFlags
  <2>3. Covered(st'[k], Effective(active, k), credit[k])
    BY <2>2, CreditNat, SameCovered
  <2>4. Settled(st', credit')
    BY <1>0, <2>1, <2>2, <2>3, OneSettled
  <2> QED
    BY <1>0, <2>1, <2>2, <2>4 DEF Quiet
<1>3. CASE EnterByTv
  <2>1. st' = AllCleared /\ credit' = credit
    BY <1>3 DEF EnterByTv, EnterSwitchMode
  <2>2. \A j \in Keys : st'[j] = Cleared /\ credit'[j] \in Int /\ credit'[j] >= 0
    BY <2>1, CreditNat DEF AllCleared
  <2> QED
    BY <2>2, ClearedCovered DEF Settled, Quiet, Cleared
<1> QED
  BY <1>1, <1>2, <1>3, ModePressPaid, FeedPressPaid, FeedReleasePaid

\* A slot that the release loop has passed
RestSlots(k) == [st EXCEPT ![k] = [st[k] EXCEPT !.waiting = FALSE, !.count = 0, !.moving = FALSE,
                                                !.since = 0, !.pressed = FALSE, !.held = 0]]

LEMMA RestFlags ==
    ASSUME TypeOK, NEW k \in Keys
    PROVE  /\ ~RestSlots(k)[k].pressed /\ ~RestSlots(k)[k].waiting /\ RestSlots(k)[k].count = 0
           /\ \A j \in Keys : j # k => RestSlots(k)[j] = st[j]
<1>1. st \in [Keys -> Slot] /\ st[k] \in Slot
  BY DEF TypeOK
<1>2. ASSUME NEW s \in Slot
      PROVE  LET r == [s EXCEPT !.waiting = FALSE, !.count = 0, !.moving = FALSE,
                                !.since = 0, !.pressed = FALSE, !.held = 0]
             IN  ~r.pressed /\ ~r.waiting /\ r.count = 0
  BY DEF Slot
<1> QED
  BY <1>1, <1>2 DEF RestSlots

LEMMA SweepIs ==
    ASSUME NEW k \in Keys, SweepSlot(k)
    PROVE  LET c == Completed(Effective(active, k), st[k]) IN
           \/ /\ st[k].pressed /\ ~mode.on /\ Spend(k, c.g)
              /\ \E sw, age : Emit(k, c.g, c.act, RestSlots(k), sw, age, End)
           \/ /\ ~st[k].pressed \/ mode.on
              /\ st' = RestSlots(k) /\ UNCHANGED <<mode, credit, host, orphan>>
<1> DEFINE c == Completed(Effective(active, k), st[k])
           next == [sweep EXCEPT !.at = k + 1]
<1>1. CASE st[k].pressed /\ ~mode.on
  <2>1. Spend(k, c.g) /\ Emit(k, c.g, c.act, RestSlots(k), next, sweep.age, End)
    BY <1>1 DEF SweepSlot, RestSlots
  <2> QED
    BY <1>1, <2>1
<1>2. CASE ~(st[k].pressed /\ ~mode.on)
  BY <1>2 DEF SweepSlot, RestSlots
<1> QED
  BY <1>1, <1>2

LEMMA SweepSlotPaid ==
    ASSUME PaidInv, NEW k \in Keys, SweepSlot(k)
    PROVE  Settled(st', credit') /\ Quiet(mode', st')
<1> DEFINE c == Completed(Effective(active, k), st[k])
<1>0. TypeOK /\ credit \in [Keys -> Int] /\ Settled(st, credit) /\ Quiet(mode, st)
  BY DEF PaidInv, GestureInv, TypeOK
<1>1. /\ ~RestSlots(k)[k].pressed /\ ~RestSlots(k)[k].waiting /\ RestSlots(k)[k].count = 0
      /\ \A j \in Keys : j # k => RestSlots(k)[j] = st[j]
  BY <1>0, RestFlags
<1>2. Quiet(mode, RestSlots(k))
  BY <1>0, <1>1, OneQuiet
<1>3. CASE st[k].pressed /\ Spend(k, c.g) /\ \E sw, age : Emit(k, c.g, c.act, RestSlots(k), sw, age, End)
  <2>1. credit' \in [Keys -> Int] /\ credit'[k] = credit[k] - Price(c.g)
        /\ \A j \in Keys : j # k => credit'[j] = credit[j]
    BY <1>0, <1>3, Spent
  <2>2. credit'[k] >= 0
    BY <1>3, <2>1, CreditNat, ReleaseCovered
  <2>3. Covered(RestSlots(k)[k], Effective(active, k), credit'[k])
    BY <1>1, <2>1, <2>2, RestCovered
  <2>4. Settled(RestSlots(k), credit')
    BY <1>0, <1>1, <2>1, <2>3, OneSettled
  <2> QED
    BY <1>2, <1>3, <2>1, <2>4, EmitPaid
<1>4. CASE st' = RestSlots(k) /\ UNCHANGED <<mode, credit>>
  <2>1. Covered(RestSlots(k)[k], Effective(active, k), credit[k])
    BY <1>1, CreditNat, RestCovered
  <2>2. Settled(RestSlots(k), credit)
    BY <1>0, <1>1, <2>1, OneSettled
  <2> QED
    BY <1>2, <1>4, <2>2
<1> QED
  BY <1>3, <1>4, SweepIs

\* The layer moves when every slot is at rest
LEMMA SweepEndPaid ==
    ASSUME PaidInv, SweepEnd
    PROVE  /\ \A j \in Keys : Covered(st'[j], Effective(active, j)', credit'[j])
           /\ Quiet(mode', st')
<1>1. /\ st \in [Keys -> Slot] /\ sweep.keep \in Keys \cup {End}
      /\ \A j \in Keys : ~st[j].pressed /\ ~st[j].waiting
  BY DEF PaidInv, GestureInv, TypeOK, Stable, Idle, SweepEnd
<1>2. \A j \in Keys : st[j].count # 1 /\ credit[j] \in Int /\ credit[j] >= 0
  BY <1>1, CreditNat DEF Covered
<1>3. ASSUME NEW j \in Keys
      PROVE  ~st'[j].pressed /\ ~st'[j].waiting /\ st'[j].count # 1
  <2>1. CASE sweep.keep = End
    BY <1>1, <1>2, <2>1 DEF SweepEnd
  <2>2. CASE sweep.keep # End
    <3>1. st' = [st EXCEPT ![sweep.keep].moving = TRUE, ![sweep.keep].moveIn = MoveInterval]
      BY <2>2 DEF SweepEnd
    <3>2. ASSUME NEW s \in Slot
          PROVE  LET r == [s EXCEPT !.moving = TRUE, !.moveIn = MoveInterval]
                 IN  r.pressed = s.pressed /\ r.waiting = s.waiting /\ r.count = s.count
      BY DEF Slot
    <3>3. st'[j] = st[j] \/ st'[j] = [st[j] EXCEPT !.moving = TRUE, !.moveIn = MoveInterval]
      BY <1>1, <3>1
    <3>4. st'[j].pressed = st[j].pressed /\ st'[j].waiting = st[j].waiting /\ st'[j].count = st[j].count
      BY <1>1, <3>2, <3>3
    <3> QED
      BY <1>1, <1>2, <3>4
  <2> QED
    BY <2>1, <2>2
<1>4. credit' = credit
  BY DEF SweepEnd, ghostVars
<1>5. \A j \in Keys : Covered(st'[j], Effective(active, j)', credit'[j])
  BY <1>2, <1>3, <1>4, RestCovered
<1> QED
  BY <1>3, <1>5 DEF Quiet

----------------------------------------------------------------------------
(* The slot loop of the tick *)

FiredSlots(k) == [st EXCEPT ![k].longFired = TRUE]
ClosedSlots(k) == [st EXCEPT ![k].waiting = FALSE, ![k].count = 0, ![k].since = 0]
MovedSlots(k) == [st EXCEPT ![k].moveIn = MoveInterval]
RepeatSlots(k) == [st EXCEPT ![k].repeatIn = RepeatInterval]

LEMMA TickFlags ==
    ASSUME TypeOK, NEW k \in Keys
    PROVE  /\ FiredSlots(k)[k].longFired
           /\ FiredSlots(k)[k].pressed = st[k].pressed
           /\ FiredSlots(k)[k].waiting = st[k].waiting /\ FiredSlots(k)[k].count = st[k].count
           /\ ~ClosedSlots(k)[k].waiting /\ ClosedSlots(k)[k].count = 0
           /\ ClosedSlots(k)[k].pressed = st[k].pressed
           /\ \A j \in Keys : j # k => FiredSlots(k)[j] = st[j] /\ ClosedSlots(k)[j] = st[j]
<1>1. st \in [Keys -> Slot] /\ st[k] \in Slot
  BY DEF TypeOK
<1>2. ASSUME NEW s \in Slot
      PROVE  LET f == [s EXCEPT !.longFired = TRUE]
             IN  /\ f.longFired /\ f.pressed = s.pressed /\ f.waiting = s.waiting
                 /\ f.count = s.count
  BY DEF Slot
<1>3. ASSUME NEW s \in Slot
      PROVE  LET c == [s EXCEPT !.waiting = FALSE, !.count = 0, !.since = 0]
             IN  ~c.waiting /\ c.count = 0 /\ c.pressed = s.pressed
  BY DEF Slot
<1>4. FiredSlots(k)[k] = [st[k] EXCEPT !.longFired = TRUE]
      /\ \A j \in Keys : j # k => FiredSlots(k)[j] = st[j]
  BY <1>1 DEF FiredSlots
<1>5. ClosedSlots(k)[k] = [st[k] EXCEPT !.waiting = FALSE, !.count = 0, !.since = 0]
      /\ \A j \in Keys : j # k => ClosedSlots(k)[j] = st[j]
  BY <1>1 DEF ClosedSlots
<1> QED
  BY <1>1, <1>2, <1>3, <1>4, <1>5

\* A repeat or a move of the mouse leaves every flag alone
LEMMA HeldFlags ==
    ASSUME TypeOK, NEW k \in Keys, NEW j \in Keys, NEW s \in {st, MovedSlots(k), RepeatSlots(k)}
    PROVE  /\ s[j].pressed = st[j].pressed /\ s[j].waiting = st[j].waiting
           /\ s[j].count = st[j].count /\ s[j].longFired = st[j].longFired
<1>1. st \in [Keys -> Slot] /\ st[j] \in Slot
  BY DEF TypeOK
<1>2. ASSUME NEW r \in Slot
      PROVE  LET m == [r EXCEPT !.moveIn = MoveInterval]
             IN  /\ m.pressed = r.pressed /\ m.waiting = r.waiting
                 /\ m.count = r.count /\ m.longFired = r.longFired
  BY DEF Slot
<1>3. ASSUME NEW r \in Slot
      PROVE  LET m == [r EXCEPT !.repeatIn = RepeatInterval]
             IN  /\ m.pressed = r.pressed /\ m.waiting = r.waiting
                 /\ m.count = r.count /\ m.longFired = r.longFired
  BY DEF Slot
<1>4. \/ s[j] = st[j] \/ s[j] = [st[j] EXCEPT !.moveIn = MoveInterval]
      \/ s[j] = [st[j] EXCEPT !.repeatIn = RepeatInterval]
  BY <1>1 DEF MovedSlots, RepeatSlots
<1>5. CASE s[j] = [st[j] EXCEPT !.moveIn = MoveInterval]
  BY <1>1, <1>2, <1>5
<1>6. CASE s[j] = [st[j] EXCEPT !.repeatIn = RepeatInterval]
  BY <1>1, <1>3, <1>6
<1> QED
  BY <1>4, <1>5, <1>6

LEMMA HeldIs ==
    ASSUME NEW k \in Keys, TickHeld(k)
    PROVE  LET b == Effective(IF tick.again THEN tick.layer ELSE active, k) IN
           /\ credit' = credit
           /\ \/ /\ b["click"].type = "MOUSE_MOVE"
                 /\ Emit(k, "move", b["click"], MovedSlots(k), NoSweep, tele, End)
              \/ Emit(k, "repeat", b["repeat"], RepeatSlots(k), NoSweep, tele, End)
              \/ NoEmit(st)
BY Zenon DEF TickHeld, MovedSlots, RepeatSlots

LEMMA TickPaid ==
    ASSUME PaidInv, NEW k \in Keys, TickLong(k) \/ TickHeld(k) \/ TickDouble(k)
    PROVE  Settled(st', credit') /\ Quiet(mode', st')
<1> DEFINE b == Effective(active, k)
<1>0. TypeOK /\ credit \in [Keys -> Int] /\ Settled(st, credit) /\ Quiet(mode, st)
  BY DEF PaidInv, GestureInv, TypeOK
<1>1. credit[k] \in Int /\ credit[k] >= 0 /\ st[k] \in Slot /\ Covered(st[k], b, credit[k])
  BY CreditNat
<1>2. CASE TickLong(k)
  <2>1. /\ Spend(k, "long") /\ st[k].pressed /\ ~st[k].longFired /\ ~Plain(b)
        /\ \E g, a, sw, t : Emit(k, g, a, FiredSlots(k), sw, t, End)
    BY <1>2 DEF TickLong, LongDue, FiredSlots, Plain
  <2>2. credit' \in [Keys -> Int] /\ credit'[k] = credit[k] - 1
        /\ \A j \in Keys : j # k => credit'[j] = credit[j]
    BY <1>0, <2>1, Spent, Prices
  <2>3. Covered(FiredSlots(k)[k], b, credit'[k])
    BY <1>0, <1>1, <2>1, <2>2, TickFlags DEF Covered, Owed
  <2>4. Settled(FiredSlots(k), credit')
    BY <1>0, <2>2, <2>3, TickFlags, OneSettled
  <2>5. Quiet(mode, FiredSlots(k))
    <3>1. mode.on => ~FiredSlots(k)[k].waiting
      BY <1>0, TickFlags DEF Quiet
    <3>2. \A j \in Keys : j # k => FiredSlots(k)[j] = st[j]
      BY <1>0, TickFlags
    <3> QED
      BY <1>0, <3>1, <3>2, OneQuiet
  <2> QED
    BY <2>1, <2>2, <2>4, <2>5, EmitPaid
<1>3. CASE TickHeld(k)
  <2>1. PICK s \in {st, MovedSlots(k), RepeatSlots(k)} :
            \/ \E g, a, sw, t : Emit(k, g, a, s, sw, t, End)
            \/ NoEmit(s)
    BY <1>3, HeldIs
  <2>2. Settled(s, credit)
    <3>1. ASSUME NEW j \in Keys PROVE Covered(s[j], Effective(active, j), credit[j])
      <4>1. /\ s[j].pressed = st[j].pressed /\ s[j].waiting = st[j].waiting
            /\ s[j].count = st[j].count /\ s[j].longFired = st[j].longFired
        BY <1>0, HeldFlags
      <4> QED
        BY <4>1, CreditNat, SameCovered
    <3> QED
      BY <3>1 DEF Settled
  <2>3. Quiet(mode, s)
    BY <1>0, HeldFlags DEF Quiet
  <2>4. credit' = credit
    BY <1>3, HeldIs
  <2> QED
    BY <1>0, <2>1, <2>2, <2>3, <2>4, EmitPaid DEF NoEmit
<1>4. CASE TickDouble(k)
  <2>1. CASE NoEmit(st) /\ UNCHANGED credit
    BY <1>0, <2>1 DEF NoEmit
  <2>2. CASE Spend(k, "click") /\ \E g, a, sw, t : Emit(k, g, a, ClosedSlots(k), sw, t, End)
    <3>1. credit' \in [Keys -> Int] /\ credit'[k] = credit[k] - 1
          /\ \A j \in Keys : j # k => credit'[j] = credit[j]
      BY <1>0, <2>2, Spent, Prices
    <3>2. st[k].waiting /\ ~st[k].pressed
      BY <1>4 DEF TickDouble
    <3>3. credit[k] >= 1
      BY <1>1, <3>2 DEF Covered, Owed
    <3>4. Covered(ClosedSlots(k)[k], b, credit'[k])
      BY <1>0, <1>1, <3>1, <3>2, <3>3, TickFlags, RestCovered
    <3>5. Settled(ClosedSlots(k), credit')
      BY <1>0, <3>1, <3>4, TickFlags, OneSettled
    <3>6. Quiet(mode, ClosedSlots(k))
      <4>1. mode.on => ~ClosedSlots(k)[k].waiting
        BY <1>0, TickFlags
      <4>2. \A j \in Keys : j # k => ClosedSlots(k)[j] = st[j]
        BY <1>0, TickFlags
      <4> QED
        BY <1>0, <4>1, <4>2, OneQuiet
    <3> QED
      BY <2>2, <3>1, <3>5, <3>6, EmitPaid
  <2> QED
    BY <1>4, <2>1, <2>2 DEF TickDouble, ClosedSlots
<1> QED
  BY <1>2, <1>3, <1>4

LEMMA ElapseFlags ==
    ASSUME TypeOK, NEW j \in Keys, Elapse
    PROVE  /\ st'[j].pressed = st[j].pressed /\ st'[j].waiting = st[j].waiting
           /\ st'[j].count = st[j].count /\ st'[j].longFired = st[j].longFired
<1>1. ASSUME NEW s \in Slot, NEW h, NEW t, NEW r, NEW m
      PROVE  LET s1 == [s EXCEPT !.held = h, !.since = t, !.repeatIn = r, !.moveIn = m]
             IN  /\ s1.pressed = s.pressed /\ s1.waiting = s.waiting
                 /\ s1.count = s.count /\ s1.longFired = s.longFired
  BY DEF Slot
<1>2. \E h, t, r, m : st'[j] = [st[j] EXCEPT !.held = h, !.since = t, !.repeatIn = r, !.moveIn = m]
  BY Zenon DEF Elapse
<1> QED
  BY <1>1, <1>2 DEF TypeOK

----------------------------------------------------------------------------
(* No press is answered twice *)

\* Only the end of the release loop moves the layer, only an upload the keymap
LEMMA BindingsMove ==
    ASSUME "reset" \notin UsbCommands, [Next]_vars
    PROVE  SweepEnd \/ (\E km \in Keymaps : ApplyConfig(km)) \/ UNCHANGED <<active, keymap>>
BY DEF Next, FeedKey, FeedOther, ReleaseAll, SweepSlot, TickBegin, TickLong, TickHeld, TickDouble, TickEnd,
       TickUnchanged, SetLayer, LoadDefaults, TakeSaveRequest, Elapse, vars, engineVars

LEMMA TickBeginPaid ==
    ASSUME PaidInv, TickBegin
    PROVE  Settled(st', credit') /\ Quiet(mode', st')
<1>0. TypeOK /\ credit \in [Keys -> Int] /\ Settled(st, credit) /\ Quiet(mode, st) /\ credit' = credit
  BY DEF PaidInv, GestureInv, TypeOK, TickBegin
<1>1. \/ st' = AllCleared
      \/ st' = st /\ (mode' = mode \/ mode' = NoMode)
  BY DEF TickBegin, ModeOff
<1>2. CASE st' = AllCleared
  BY <1>0, <1>2, CreditNat, ClearedCovered DEF Settled, AllCleared, Quiet, Cleared
<1>3. CASE st' = st /\ (mode' = mode \/ mode' = NoMode)
  BY <1>0, <1>3 DEF Quiet, NoMode
<1> QED
  BY <1>1, <1>2, <1>3

LEMMA ElapsePaid ==
    ASSUME PaidInv, Elapse
    PROVE  Settled(st', credit') /\ Quiet(mode', st')
<1>0. TypeOK /\ Quiet(mode, st) /\ credit' = credit /\ mode'.on = mode.on
  BY DEF PaidInv, GestureInv, TypeOK, Elapse, ghostVars
<1>1. ASSUME NEW j \in Keys PROVE Covered(st'[j], Effective(active, j), credit'[j])
  <2>1. /\ st'[j].pressed = st[j].pressed /\ st'[j].waiting = st[j].waiting
        /\ st'[j].count = st[j].count /\ st'[j].longFired = st[j].longFired
    BY <1>0, ElapseFlags
  <2> QED
    BY <1>0, <2>1, CreditNat, SameCovered
<1>2. Quiet(mode', st')
  BY <1>0, ElapseFlags DEF Quiet
<1> QED
  BY <1>1, <1>2 DEF Settled

LEMMA PaidStep ==
    ASSUME "reset" \notin UsbCommands, PaidInv, [Next]_vars
    PROVE  PaidInv'
<1>0. GestureInv'
  BY GestureStep DEF PaidInv
<1>1. CASE SweepEnd
  BY <1>0, <1>1, SweepEndPaid DEF PaidInv, Settled
<1>2. CASE \E km \in Keymaps : ApplyConfig(km)
  <2>1. st' = AllCleared /\ credit' = credit
    BY <1>2 DEF ApplyConfig
  <2>2. \A j \in Keys : st'[j] = Cleared /\ credit'[j] \in Int /\ credit'[j] >= 0
    BY <2>1, CreditNat DEF AllCleared
  <2>3. \A j \in Keys : Covered(st'[j], Effective(active, j)', credit'[j])
    BY <2>2, ClearedCovered
  <2>4. Quiet(mode', st')
    BY <2>2 DEF Quiet, Cleared
  <2> QED
    BY <1>0, <2>3, <2>4 DEF PaidInv, Settled
<1>3. CASE UNCHANGED <<active, keymap>> /\ ~SweepEnd /\ ~(\E km \in Keymaps : ApplyConfig(km))
  <2> SUFFICES Settled(st', credit') /\ Quiet(mode', st')
    BY <1>0, <1>3 DEF PaidInv, Settled, Effective, Own
  <2>1. CASE \E k \in Keys, down \in BOOLEAN : FeedKey(k, down)
    BY <2>1, FeedKeyPaid
  <2>2. CASE \E k \in Keys : SweepSlot(k)
    BY <2>2, SweepSlotPaid
  <2>3. CASE TickBegin
    BY <2>3, TickBeginPaid
  <2>4. CASE \E k \in Keys : TickLong(k) \/ TickHeld(k) \/ TickDouble(k)
    BY <2>4, TickPaid
  <2>5. CASE \E l \in Layers : SetLayer(l)
    BY <2>5 DEF SetLayer, SwitchLayer, ModeOff, PaidInv, Quiet, NoMode, ghostVars
  <2>6. CASE Elapse
    BY <2>6, ElapsePaid
  <2>7. CASE FeedOther \/ ReleaseAll \/ TickEnd \/ TakeSaveRequest \/ UNCHANGED vars
    BY <2>7 DEF FeedOther, ReleaseAll, TickEnd, NoEmit, TickUnchanged, TakeSaveRequest, vars, engineVars, ghostVars,
                PaidInv
  <2>8. ~LoadDefaults
    BY DEF LoadDefaults
  <2> QED
    BY <1>3, <2>1, <2>2, <2>3, <2>4, <2>5, <2>6, <2>7, <2>8 DEF Next
<1> QED
  BY <1>1, <1>2, <1>3, BindingsMove

LEMMA InitPaid == Init => PaidInv
<1> SUFFICES ASSUME Init PROVE PaidInv
  OBVIOUS
<1>1. GestureInv
  BY NoSweepOff, ClearedStable, InitTypes DEF Init, GestureInv
<1>2. \A j \in Keys : st[j] = Cleared /\ credit[j] = 0
  BY DEF Init, AllCleared
<1>3. Settled(st, credit)
  <2>1. ASSUME NEW j \in Keys PROVE Covered(st[j], Effective(active, j), credit[j])
    <3>1. Covered(Cleared, Effective(active, j), 0)
      BY ClearedCovered
    <3> QED
      BY <1>2, <3>1
  <2> QED
    BY <2>1 DEF Settled
<1> QED
  BY <1>1, <1>2, <1>3 DEF PaidInv, Quiet, Cleared

\* A press yields a click or a long action but not both, and a double action
\* takes two presses of its own, whatever the keymap and whatever comes between
\* the edges, the ticks and the release loop, short of a reset of the keymap.
\* (key_engine_feed_key 687-742, key_engine_tick 771-808)
THEOREM PressesServedOnce ==
    ASSUME "reset" \notin UsbCommands
    PROVE  Spec => []NoPressServedTwice
<1>1. PaidInv => NoPressServedTwice
  BY CreditNat DEF NoPressServedTwice
<1>2. PaidInv /\ [Next]_vars => PaidInv'
  BY PaidStep
<1> QED
  BY <1>1, <1>2, InitPaid, PTL DEF Spec

----------------------------------------------------------------------------
(* What an action does to the host *)

LEMMA NothingType == Nothing \in HostType
BY DEF Nothing, HostType

\* Of g nothing is held that was not held on h
Lower(g, h) ==
    /\ g.kb = 0 \/ g.kb = h.kb
    /\ g.consumer = 0 \/ g.consumer = h.consumer
    /\ g.mic => h.mic
    /\ g.mouse \subseteq h.mouse

\* What the action a held is not held on h
Undone(a, h) ==
    /\ a.type \in {"KEYBOARD_HOLD", "VOICE_HOLD"} => h.kb = 0
    /\ a.type = "CONSUMER_HOLD" => h.consumer = 0
    /\ a.type = "VOICE_HOLD" => ~h.mic
    /\ a.type = "MOUSE_BUTTON_HOLD" => a.arg \notin h.mouse

LEMMA DispatchIs ==
    ASSUME host \in HostType, NEW a, Legal(a)
    PROVE  /\ Dispatch(a) \in HostType
           /\ a.type \notin Holds => Lower(Dispatch(a), host)
           /\ a.type \in {"KEYBOARD_TAP", "KEYBOARD_RELEASE", "VOICE_RELEASE"} => Dispatch(a).kb = 0
           /\ a.type \in {"CONSUMER_TAP", "CONSUMER_RELEASE"} => Dispatch(a).consumer = 0
           /\ a.type = "VOICE_RELEASE" => ~Dispatch(a).mic
           /\ a.type \in {"MOUSE_BUTTON_TAP", "MOUSE_BUTTON_RELEASE"} => a.arg \notin Dispatch(a).mouse
<1>0. a.arg \in Nat
  BY DEF Legal, Action
<1> USE DEF HostType, Lower, Dispatch, Holds
<1>1. CASE a.type = "KEYBOARD_HOLD"
  BY <1>0, <1>1
<1>2. CASE a.type \in {"KEYBOARD_TAP", "KEYBOARD_RELEASE"}
  BY <1>0, <1>2
<1>3. CASE a.type = "CONSUMER_HOLD"
  BY <1>0, <1>3
<1>4. CASE a.type \in {"CONSUMER_TAP", "CONSUMER_RELEASE"}
  BY <1>0, <1>4
<1>5. CASE a.type = "VOICE_HOLD"
  BY <1>0, <1>5
<1>6. CASE a.type = "VOICE_RELEASE"
  BY <1>0, <1>6
<1>7. CASE a.type = "MOUSE_BUTTON_HOLD"
  BY <1>0, <1>7
<1>8. CASE a.type \in {"MOUSE_BUTTON_TAP", "MOUSE_BUTTON_RELEASE"}
  BY <1>0, <1>8
<1>9. CASE a.type \notin {"KEYBOARD_HOLD", "KEYBOARD_TAP", "KEYBOARD_RELEASE", "CONSUMER_HOLD",
                          "CONSUMER_TAP", "CONSUMER_RELEASE", "VOICE_HOLD", "VOICE_RELEASE",
                          "MOUSE_BUTTON_HOLD", "MOUSE_BUTTON_TAP", "MOUSE_BUTTON_RELEASE"}
  BY <1>9
<1> QED
  BY <1>1, <1>2, <1>3, <1>4, <1>5, <1>6, <1>7, <1>8, <1>9

LEMMA LowerNothing ==
    ASSUME NEW h \in HostType, Lower(h, Nothing)
    PROVE  h = Nothing
<1>1. h.kb = 0 /\ h.consumer = 0 /\ h.mouse = {} /\ h.mic = FALSE
  BY DEF Lower, Nothing, HostType
<1> QED
  BY <1>1 DEF HostType, Nothing

LEMMA LowerSame == ASSUME NEW h PROVE Lower(h, h)
BY DEF Lower

\* With no key down nothing is held
LEMMA NoHolder ==
    ASSUME host \in HostType, HeldBy(st, host), \A k \in Keys : ~st[k].pressed
    PROVE  host = Nothing
<1>1. \A T : Holder(st, T) = {}
  BY DEF Holder
<1>2. host.kb = 0 /\ host.consumer = 0 /\ host.mouse = {} /\ host.mic = FALSE
  BY <1>1 DEF HeldBy, HostType
<1> QED
  BY <1>2 DEF HostType, Nothing

LEMMA NothingHeld == ASSUME NEW s PROVE HeldBy(s, Nothing)
BY DEF HeldBy, Nothing

\* A key of the slots s is down with the same output in s1, or its output is gone
LEMMA StillHeld ==
    ASSUME NEW s, NEW s1, NEW h, NEW g, HeldBy(s, h), Lower(g, h),
           \A j \in Keys : s[j].pressed => \/ s1[j].pressed /\ Holding(s1, j) = Holding(s, j)
                                           \/ Undone(Holding(s, j), g)
    PROVE  HeldBy(s1, g)
<1>1. ASSUME NEW T, NEW j \in Holder(s, T), ~Undone(Holding(s, j), g)
      PROVE  j \in Holder(s1, T) /\ Holding(s1, j) = Holding(s, j)
  BY <1>1 DEF Holder
<1>2. g.kb # 0 => Holder(s1, {"KEYBOARD_HOLD", "VOICE_HOLD"}) # {}
  <2> SUFFICES ASSUME g.kb # 0 PROVE \E j : j \in Holder(s1, {"KEYBOARD_HOLD", "VOICE_HOLD"})
    OBVIOUS
  <2>1. PICK j : j \in Holder(s, {"KEYBOARD_HOLD", "VOICE_HOLD"})
    BY DEF HeldBy, Lower
  <2>2. ~Undone(Holding(s, j), g)
    BY <2>1 DEF Undone, Holder
  <2> QED
    BY <1>1, <2>1, <2>2
<1>3. g.consumer # 0 => Holder(s1, {"CONSUMER_HOLD"}) # {}
  <2> SUFFICES ASSUME g.consumer # 0 PROVE \E j : j \in Holder(s1, {"CONSUMER_HOLD"})
    OBVIOUS
  <2>1. PICK j : j \in Holder(s, {"CONSUMER_HOLD"})
    BY DEF HeldBy, Lower
  <2>2. ~Undone(Holding(s, j), g)
    BY <2>1 DEF Undone, Holder
  <2> QED
    BY <1>1, <2>1, <2>2
<1>4. g.mic => Holder(s1, {"VOICE_HOLD"}) # {}
  <2> SUFFICES ASSUME g.mic PROVE \E j : j \in Holder(s1, {"VOICE_HOLD"})
    OBVIOUS
  <2>1. PICK j : j \in Holder(s, {"VOICE_HOLD"})
    BY DEF HeldBy, Lower
  <2>2. ~Undone(Holding(s, j), g)
    BY <2>1 DEF Undone, Holder
  <2> QED
    BY <1>1, <2>1, <2>2
<1>5. ASSUME NEW m \in g.mouse
      PROVE  \E j \in Holder(s1, {"MOUSE_BUTTON_HOLD"}) : Holding(s1, j).arg = m
  <2>1. PICK j \in Holder(s, {"MOUSE_BUTTON_HOLD"}) : Holding(s, j).arg = m
    BY DEF HeldBy, Lower
  <2>2. ~Undone(Holding(s, j), g)
    BY <2>1 DEF Undone, Holder
  <2> QED
    BY <1>1, <2>1, <2>2
<1> QED
  BY <1>2, <1>3, <1>4, <1>5 DEF HeldBy

\* A key that is down holds what its action adds
LEMMA NewHeld ==
    ASSUME host \in HostType, NEW s, HeldBy(s, host), NEW k \in Keys, NEW a, Legal(a), a.type \in Holds,
           s[k].pressed, Holding(s, k) = a
    PROVE  HeldBy(s, Dispatch(a))
<1>1. k \in Holder(s, {a.type}) /\ (a.type \in {"KEYBOARD_HOLD", "VOICE_HOLD"} =>
                                      k \in Holder(s, {"KEYBOARD_HOLD", "VOICE_HOLD"}))
  BY DEF Holder
<1>2. CASE a.type = "KEYBOARD_HOLD"
  <2>1. LET h == Dispatch(a) IN
        h.consumer = host.consumer /\ h.mic = host.mic /\ h.mouse = host.mouse
    BY <1>2 DEF Dispatch, HostType
  <2> QED
    BY <1>1, <1>2, <2>1 DEF HeldBy
<1>3. CASE a.type = "CONSUMER_HOLD"
  <2>1. LET h == Dispatch(a) IN
        h.kb = host.kb /\ h.mic = host.mic /\ h.mouse = host.mouse
    BY <1>3 DEF Dispatch, HostType
  <2> QED
    BY <1>1, <1>3, <2>1 DEF HeldBy
<1>4. CASE a.type = "VOICE_HOLD"
  <2>1. LET h == Dispatch(a) IN
        h.consumer = host.consumer /\ h.mouse = host.mouse
    BY <1>4 DEF Dispatch, HostType
  <2> QED
    BY <1>1, <1>4, <2>1 DEF HeldBy
<1>5. CASE a.type = "MOUSE_BUTTON_HOLD"
  <2>1. LET h == Dispatch(a) IN
        h.kb = host.kb /\ h.consumer = host.consumer /\ h.mic = host.mic
        /\ h.mouse = host.mouse \cup {a.arg}
    BY <1>5 DEF Dispatch, HostType
  <2> QED
    BY <1>1, <1>5, <2>1 DEF HeldBy
<1> QED
  BY <1>2, <1>3, <1>4, <1>5 DEF Holds

----------------------------------------------------------------------------
(* Every step *)

LEMMA EmitHeld ==
    ASSUME host \in HostType, orphan \in BOOLEAN,
           NEW k, NEW g, NEW a, NEW st1, NEW sw, NEW age, NEW keep, Legal(a),
           Emit(k, g, a, st1, sw, age, keep),
           orphan \/ HeldBy(st1, Dispatch(a)), mode.on => orphan \/ Dispatch(a) = Nothing
    PROVE  HeldIn(st', host', mode', orphan')
<1>1. host' = Dispatch(a)
  <2>1. CASE a.type \in {"NONE", "TRANSPARENT", "SWITCH_LAYER", "ENTER_SWITCH_MODE"}
    BY <2>1 DEF Emit, Dispatch
  <2>2. CASE a.type \notin {"NONE", "TRANSPARENT", "SWITCH_LAYER", "ENTER_SWITCH_MODE"}
    BY <2>2 DEF Emit
  <2> QED
    BY <2>1, <2>2
<1>2. host' \in HostType
  BY <1>1, DispatchIs
<1>3. orphan' <=> host' # Nothing /\ (orphan \/ a.type = "ENTER_SWITCH_MODE")
  BY DEF Emit, Orphaning
<1>4. CASE a.type = "ENTER_SWITCH_MODE"
  BY <1>2, <1>3, <1>4, NothingHeld DEF HeldIn
<1>5. CASE a.type # "ENTER_SWITCH_MODE"
  <2>1. st' = st1 /\ (mode' = NoMode \/ mode' = mode)
    BY <1>5, EmitSlots
  <2> QED
    BY <1>1, <1>2, <1>3, <2>1, NothingHeld DEF HeldIn, NoMode
<1> QED
  BY <1>4, <1>5

\* An emission of no hold: a key that is down stays so, or its output is undone
LEMMA LowerHeld ==
    ASSUME HoldInv, orphan \in BOOLEAN,
           NEW k, NEW g, NEW a, NEW st1, NEW sw, NEW age, NEW keep, Legal(a), a.type \notin Holds,
           Emit(k, g, a, st1, sw, age, keep),
           \A j \in Keys : st[j].pressed => \/ st1[j].pressed /\ Holding(st1, j) = Holding(st, j)
                                            \/ Undone(Holding(st, j), Dispatch(a))
    PROVE  HeldIn(st', host', mode', orphan')
<1>1. host \in HostType /\ Lower(Dispatch(a), host) /\ Dispatch(a) \in HostType
  BY DispatchIs DEF HoldInv, HeldIn
<1>2. orphan \/ HeldBy(st1, Dispatch(a))
  <2>1. CASE HeldBy(st, host)
    BY <1>1, <2>1, StillHeld
  <2> QED
    BY <2>1 DEF HoldInv, HeldIn
<1>3. mode.on => orphan \/ Dispatch(a) = Nothing
  BY <1>1, LowerNothing DEF HoldInv, HeldIn
<1> QED
  BY <1>1, <1>2, <1>3, EmitHeld

\* An emission of a hold by key k, outside the switch mode
LEMMA HigherHeld ==
    ASSUME HoldInv, orphan \in BOOLEAN, ~mode.on, NEW i \in Keys,
           NEW k, NEW g, NEW a, NEW st1, NEW sw, NEW age, NEW keep, Legal(a), a.type \in Holds,
           Emit(k, g, a, st1, sw, age, keep), st1[i].pressed, Holding(st1, i) = a,
           \A j \in Keys : st[j].pressed => \/ st1[j].pressed /\ Holding(st1, j) = Holding(st, j)
                                            \/ Holding(st, j) = NoAct
    PROVE  HeldIn(st', host', mode', orphan')
<1>1. host \in HostType
  BY DEF HoldInv, HeldIn
<1>2. Undone(NoAct, host)
  BY DEF Undone, NoAct
<1>3. orphan \/ HeldBy(st1, Dispatch(a))
  <2>1. CASE HeldBy(st, host)
    <3>1. HeldBy(st1, host)
      BY <1>2, <2>1, LowerSame, StillHeld
    <3> QED
      BY <1>1, <3>1, NewHeld
  <2> QED
    BY <2>1 DEF HoldInv, HeldIn
<1> QED
  BY <1>1, <1>3, EmitHeld

\* A step that leaves host and orphan alone and keeps the keys that hold down
LEMMA QuietHeld ==
    ASSUME HoldInv, UNCHANGED <<host, orphan>>, mode'.on => mode.on,
           \A j \in Keys : st[j].pressed =>
                \/ orphan \/ host = Nothing
                \/ st'[j].pressed /\ Holding(st', j) = Holding(st, j)
    PROVE  HeldIn(st', host', mode', orphan')
<1>1. CASE orphan \/ host = Nothing
  BY <1>1, NothingHeld DEF HoldInv, HeldIn
<1>2. CASE ~orphan /\ host # Nothing
  <2>1. HeldBy(st, host)
    BY <1>2 DEF HoldInv, HeldIn
  <2>2. HeldBy(st', host)
    BY <1>2, <2>1, LowerSame, StillHeld
  <2> QED
    BY <1>2, <2>2 DEF HoldInv, HeldIn
<1> QED
  BY <1>1, <1>2

\* A step that clears every slot
LEMMA ClearedHeld ==
    ASSUME HoldInv, host' = host, Orphaning(TRUE)
    PROVE  HeldIn(st', host', mode', orphan')
<1>1. host' \in HostType /\ (orphan' <=> host' # Nothing)
  BY DEF HoldInv, HeldIn, Orphaning
<1> QED
  BY <1>1, NothingHeld DEF HeldIn

LEMMA SameHolding ==
    ASSUME NEW s, NEW r, NEW j, s[j].longFired = r[j].longFired
    PROVE  Holding(s, j) = Holding(r, j)
BY DEF Holding

\* A key-up undoes what its key held
LEMMA CompletedUndone ==
    ASSUME HoldsAreUndone, TypeOK, host \in HostType, NEW k \in Keys
    PROVE  LET a == Completed(Effective(active, k), st[k]).act IN
           /\ Legal(a) /\ a.type \notin Holds
           /\ Undone(Holding(st, k), Dispatch(a))
<1> DEFINE b == Effective(active, k)
           a == Completed(b, st[k]).act
<1>0. active \in Layers /\ b \in Binding /\ (\A g \in Gestures : Legal(b[g])) /\ st[k] \in Slot
  BY EffectiveLegal DEF TypeOK
<1>1. /\ "VOICE_HOLD" \notin {b["long"].type, b["double"].type}
      /\ b["click"].type = "VOICE_HOLD" => Plain(b)
  BY <1>0 DEF HoldsAreUndone
<1>2. Legal(a)
  BY <1>0, CompletedLegal
<1>3. Holding(st, k) = IF Plain(b) THEN b["click"] ELSE IF st[k].longFired THEN b["long"] ELSE NoAct
  BY DEF Holding
<1>4. b["click"] \in Action /\ b["double"] \in Action /\ b["long"] \in Action
  BY <1>0 DEF Legal, Gestures
<1>5. \/ Plain(b) /\ a = ReleaseOf(b["click"])
      \/ ~Plain(b) /\ st[k].longFired /\ a = LongReleaseOf(b["long"])
      \/ ~Plain(b) /\ ~st[k].longFired /\ (a = AsTap(b["click"]) \/ a = AsTap(b["double"]) \/ a = NoAct)
  BY DEF Completed
<1> HIDE DEF a, b
<1>6. ASSUME NEW x \in Action
      PROVE  /\ ReleaseOf(x).type \notin Holds
             /\ x.type = "KEYBOARD_HOLD" => ReleaseOf(x).type = "KEYBOARD_RELEASE"
             /\ x.type = "CONSUMER_HOLD" => ReleaseOf(x).type = "CONSUMER_RELEASE"
             /\ x.type = "VOICE_HOLD" => ReleaseOf(x).type = "VOICE_RELEASE"
             /\ x.type = "MOUSE_BUTTON_HOLD" => /\ ReleaseOf(x).type = "MOUSE_BUTTON_RELEASE"
                                                /\ ReleaseOf(x).arg = x.arg
  BY DEF ReleaseOf, Holds, NoAct, Action
<1>7. ASSUME NEW x \in Action, x.type # "VOICE_HOLD"
      PROVE  AsTap(x).type \notin Holds
  BY <1>7 DEF AsTap, Holds, Action
<1>8. ASSUME NEW x \in Action, a = ReleaseOf(x)
      PROVE  a.type \notin Holds /\ Undone(x, Dispatch(a))
  <2>1. /\ a.type = "KEYBOARD_RELEASE" => Dispatch(a).kb = 0
        /\ a.type = "CONSUMER_RELEASE" => Dispatch(a).consumer = 0
        /\ a.type = "VOICE_RELEASE" => ~Dispatch(a).mic /\ Dispatch(a).kb = 0
        /\ a.type = "MOUSE_BUTTON_RELEASE" => a.arg \notin Dispatch(a).mouse
    BY <1>2, DispatchIs
  <2> QED
    BY <1>6, <1>8, <2>1 DEF Undone
<1>9. CASE Plain(b) /\ a = ReleaseOf(b["click"])
  BY <1>2, <1>3, <1>4, <1>8, <1>9 DEF a, b
<1>10. CASE ~Plain(b) /\ st[k].longFired /\ a = LongReleaseOf(b["long"])
  <2>1. CASE b["long"].type \in {"KEYBOARD_HOLD", "CONSUMER_HOLD", "MOUSE_BUTTON_HOLD"}
    <3>1. a = ReleaseOf(b["long"])
      BY <1>10, <2>1 DEF LongReleaseOf
    <3> QED
      BY <1>2, <1>3, <1>4, <1>8, <1>10, <3>1 DEF a, b
  <2>2. CASE b["long"].type \notin {"KEYBOARD_HOLD", "CONSUMER_HOLD", "MOUSE_BUTTON_HOLD"}
    <3>1. a = NoAct
      BY <1>10, <2>2 DEF LongReleaseOf
    <3>2. a.type \notin Holds /\ Undone(b["long"], Dispatch(a))
      BY <1>1, <2>2, <3>1 DEF Undone, Holds, NoAct
    <3> QED
      BY <1>2, <1>3, <1>10, <3>2 DEF a, b
  <2> QED
    BY <2>1, <2>2
<1>11. CASE /\ ~Plain(b) /\ ~st[k].longFired
            /\ a = AsTap(b["click"]) \/ a = AsTap(b["double"]) \/ a = NoAct
  <2>1. a.type \notin Holds
    BY <1>1, <1>4, <1>7, <1>11 DEF NoAct, Holds
  <2>2. Holding(st, k) = NoAct
    BY <1>3, <1>11
  <2>3. Undone(NoAct, Dispatch(a))
    BY DEF Undone, NoAct
  <2> QED
    BY <1>2, <2>1, <2>2, <2>3 DEF a, b
<1> QED
  BY <1>5, <1>9, <1>10, <1>11

\* What every step may rely on
HeldPre == HoldsAreUndone /\ PaidInv /\ HoldInv

LEMMA HeldPreIs ==
    ASSUME HeldPre
    PROVE  /\ HoldsAreUndone /\ HoldInv /\ TypeOK /\ orphan \in BOOLEAN /\ active \in Layers
           /\ host \in HostType
           /\ mode.on => orphan \/ host = Nothing
           /\ \A l \in Layers, k \in Keys, g \in Gestures : Legal(Effective(l, k)[g])
<1>1. TypeOK /\ keymap \in Keymaps
  BY DEF HeldPre, PaidInv, GestureInv, TypeOK
<1>2. \A l \in Layers, k \in Keys, g \in Gestures : Legal(Effective(l, k)[g])
  BY <1>1, EffectiveLegal
<1>3. orphan \in BOOLEAN /\ active \in Layers
  BY <1>1 DEF TypeOK
<1> QED
  BY <1>1, <1>2, <1>3 DEF HeldPre, HoldInv, HeldIn

LEMMA PlainClick ==
    ASSUME NEW s, NEW k, Plain(Effective(active, k))
    PROVE  Holding(s, k) = Effective(active, k)["click"]
BY DEF Holding

LEMMA FeedPressHeld ==
    ASSUME HeldPre, NEW k \in Keys, FeedPress(k), ~mode.on
    PROVE  HeldIn(st', host', mode', orphan')
<1> DEFINE b == Effective(active, k)
           a == b["click"]
<1>0. HoldInv /\ TypeOK /\ orphan \in BOOLEAN /\ Legal(a)
  BY HeldPreIs DEF Gestures
<1>1. CASE st[k].pressed
  BY <1>0, <1>1, QuietHeld DEF FeedPress, NoEmit
<1>2. CASE ~st[k].pressed
  <2>1. PressedSlots(k)[k].pressed /\ \A j \in Keys : j # k => PressedSlots(k)[j] = st[j]
    BY <1>0, PressFlags
  <2>2. \A j \in Keys : st[j].pressed => /\ PressedSlots(k)[j].pressed
                                         /\ Holding(PressedSlots(k), j) = Holding(st, j)
    BY <1>2, <2>1, SameHolding
  <2>3. CASE Fires(b) /\ \E keep : Emit(k, "click", a, PressedSlots(k), NoSweep, 0, keep)
    <3>1. Holding(PressedSlots(k), k) = a
      BY <2>3, PlainClick DEF Fires
    <3>2. PICK keep : Emit(k, "click", a, PressedSlots(k), NoSweep, 0, keep)
      BY <2>3
    <3> HIDE DEF a, b
    <3>3. CASE a.type \in Holds
      BY <1>0, <2>1, <2>2, <3>1, <3>2, <3>3, HigherHeld
    <3>4. CASE a.type \notin Holds
      BY <1>0, <2>2, <3>2, <3>4, LowerHeld
    <3> QED
      BY <3>3, <3>4
  <2>4. CASE NoEmit(PressedSlots(k))
    BY <1>0, <2>2, <2>4, QuietHeld DEF NoEmit
  <2> QED
    BY <1>2, <2>3, <2>4, PressIs
<1> QED
  BY <1>1, <1>2

LEMMA FeedReleaseHeld ==
    ASSUME HeldPre, NEW k \in Keys, FeedRelease(k), ~mode.on
    PROVE  HeldIn(st', host', mode', orphan')
<1> DEFINE c == Completed(Effective(active, k), st[k])
<1>0. HoldsAreUndone /\ HoldInv /\ TypeOK /\ orphan \in BOOLEAN /\ host \in HostType
  BY HeldPreIs
<1>1. CASE ~st[k].pressed
  BY <1>0, <1>1, QuietHeld DEF FeedRelease, NoEmit
<1>2. CASE st[k].pressed
  <2>1. Emit(k, c.g, c.act, ReleasedSlots(k), NoSweep, 0, End)
    BY <1>2 DEF FeedRelease, ReleasedSlots
  <2>2. Legal(c.act) /\ c.act.type \notin Holds /\ Undone(Holding(st, k), Dispatch(c.act))
    BY <1>0, CompletedUndone
  <2>3. \A j \in Keys : j # k => ReleasedSlots(k)[j] = st[j]
    BY <1>0, ReleaseFlags
  <2> HIDE DEF c
  <2>4. \A j \in Keys : st[j].pressed =>
            \/ ReleasedSlots(k)[j].pressed /\ Holding(ReleasedSlots(k), j) = Holding(st, j)
            \/ Undone(Holding(st, j), Dispatch(c.act))
    BY <2>2, <2>3, SameHolding
  <2> QED
    BY <1>0, <2>1, <2>2, <2>4, LowerHeld
<1> QED
  BY <1>1, <1>2

\* In the switch mode nothing is held that is not orphaned
LEMMA ModePressHeld ==
    ASSUME HeldPre, NEW k \in Keys, ModePress(k), mode.on
    PROVE  HeldIn(st', host', mode', orphan')
<1>0. HoldInv /\ (orphan \/ host = Nothing)
  BY HeldPreIs
<1>1. host' = host /\ (Orphaning(TRUE) \/ orphan' = orphan)
  BY Zenon DEF ModePress
<1> QED
  BY <1>0, <1>1, ClearedHeld, QuietHeld

LEMMA FeedKeyHeld ==
    ASSUME HeldPre, NEW k \in Keys, NEW down \in BOOLEAN, FeedKey(k, down)
    PROVE  HeldIn(st', host', mode', orphan')
<1>0. HoldInv /\ (mode.on => orphan \/ host = Nothing)
  BY HeldPreIs
<1>1. \/ mode.on /\ (ModePress(k) \/ ModeRelease(k))
      \/ ~mode.on /\ (EnterByTv \/ FeedPress(k) \/ FeedRelease(k))
  BY DEF FeedKey
<1>2. CASE mode.on /\ ModeRelease(k)
  BY <1>0, <1>2, QuietHeld DEF ModeRelease, NoEmit
<1>3. CASE EnterByTv
  BY <1>0, <1>3, ClearedHeld DEF EnterByTv
<1> QED
  BY <1>1, <1>2, <1>3, ModePressHeld, FeedPressHeld, FeedReleaseHeld

LEMMA SweepSlotHeld ==
    ASSUME HeldPre, NEW k \in Keys, SweepSlot(k)
    PROVE  HeldIn(st', host', mode', orphan')
<1> DEFINE c == Completed(Effective(active, k), st[k])
<1>0. /\ HoldsAreUndone /\ HoldInv /\ TypeOK /\ orphan \in BOOLEAN /\ host \in HostType
      /\ mode.on => orphan \/ host = Nothing
  BY HeldPreIs
<1>1. \A j \in Keys : j # k => RestSlots(k)[j] = st[j]
  BY <1>0, RestFlags
<1>2. CASE st[k].pressed /\ ~mode.on /\ \E sw, age : Emit(k, c.g, c.act, RestSlots(k), sw, age, End)
  <2>1. PICK sw, age : Emit(k, c.g, c.act, RestSlots(k), sw, age, End)
    BY <1>2
  <2>2. Legal(c.act) /\ c.act.type \notin Holds /\ Undone(Holding(st, k), Dispatch(c.act))
    BY <1>0, CompletedUndone
  <2> HIDE DEF c
  <2>3. \A j \in Keys : st[j].pressed =>
            \/ RestSlots(k)[j].pressed /\ Holding(RestSlots(k), j) = Holding(st, j)
            \/ Undone(Holding(st, j), Dispatch(c.act))
    BY <1>1, <2>2, SameHolding
  <2> QED
    BY <1>0, <2>1, <2>2, <2>3, LowerHeld
<1>3. CASE (~st[k].pressed \/ mode.on) /\ st' = RestSlots(k) /\ UNCHANGED <<mode, host, orphan>>
  <2>1. \A j \in Keys : st[j].pressed => \/ orphan \/ host = Nothing
                                         \/ st'[j].pressed /\ Holding(st', j) = Holding(st, j)
    BY <1>0, <1>1, <1>3, SameHolding
  <2> QED
    BY <1>0, <1>3, <2>1, QuietHeld
<1> QED
  BY <1>2, <1>3, SweepIs

LEMMA TickLongHeld ==
    ASSUME HeldPre, NEW k \in Keys, TickLong(k)
    PROVE  HeldIn(st', host', mode', orphan')
<1> DEFINE b == Effective(active, k)
           a == b["long"]
<1>0. /\ HoldsAreUndone /\ HoldInv /\ TypeOK /\ orphan \in BOOLEAN /\ active \in Layers
      /\ Legal(a)
  BY HeldPreIs DEF Gestures
<1>1. /\ st[k].pressed /\ ~st[k].longFired /\ ~Plain(b)
      /\ Emit(k, "long", a, FiredSlots(k), NoSweep, tele, End)
  BY DEF TickLong, LongDue, FiredSlots, Plain
<1>2. mode.on => a.type \notin Holds
  BY <1>0 DEF HoldsAreUndone
<1>3. Holding(st, k) = NoAct
  BY <1>1 DEF Holding
<1>4. /\ FiredSlots(k)[k].longFired /\ FiredSlots(k)[k].pressed
      /\ \A j \in Keys : j # k => FiredSlots(k)[j] = st[j]
  BY <1>0, <1>1, TickFlags
<1>5. Holding(FiredSlots(k), k) = a
  BY <1>1, <1>4 DEF Holding
<1> HIDE DEF a, b
<1>6. \A j \in Keys : st[j].pressed =>
          \/ FiredSlots(k)[j].pressed /\ Holding(FiredSlots(k), j) = Holding(st, j)
          \/ Holding(st, j) = NoAct
  BY <1>3, <1>4, SameHolding
<1>7. Undone(NoAct, Dispatch(a))
  BY DEF Undone, NoAct
<1>8. CASE a.type \in Holds
  BY <1>0, <1>1, <1>2, <1>4, <1>5, <1>6, <1>8, HigherHeld
<1>9. CASE a.type \notin Holds
  BY <1>0, <1>1, <1>6, <1>7, <1>9, LowerHeld
<1> QED
  BY <1>8, <1>9

LEMMA TickHeldHeld ==
    ASSUME HeldPre, NEW k \in Keys, TickHeld(k)
    PROVE  HeldIn(st', host', mode', orphan')
<1> DEFINE l == IF tick.again THEN tick.layer ELSE active
           b == Effective(l, k)
<1>0. HoldsAreUndone /\ HoldInv /\ TypeOK /\ orphan \in BOOLEAN /\ l \in Layers
  BY HeldPreIs DEF TypeOK
<1>1. /\ Legal(b["click"]) /\ Legal(b["repeat"]) /\ b["repeat"].type \notin Holds
  BY <1>0, HeldPreIs DEF Gestures, HoldsAreUndone
<1>2. \/ b["click"].type = "MOUSE_MOVE" /\ Emit(k, "move", b["click"], MovedSlots(k), NoSweep, tele, End)
      \/ Emit(k, "repeat", b["repeat"], RepeatSlots(k), NoSweep, tele, End)
      \/ NoEmit(st)
  BY HeldIs
<1> HIDE DEF l, b
<1>3. ASSUME NEW s \in {MovedSlots(k), RepeatSlots(k)}
      PROVE  \A j \in Keys : st[j].pressed => s[j].pressed /\ Holding(s, j) = Holding(st, j)
  BY <1>0, <1>3, HeldFlags, SameHolding
<1>4. CASE b["click"].type = "MOUSE_MOVE" /\ Emit(k, "move", b["click"], MovedSlots(k), NoSweep, tele, End)
  <2>1. b["click"].type \notin Holds
    BY <1>4 DEF Holds
  <2> QED
    BY <1>0, <1>1, <1>3, <1>4, <2>1, LowerHeld
<1>5. CASE Emit(k, "repeat", b["repeat"], RepeatSlots(k), NoSweep, tele, End)
  BY <1>0, <1>1, <1>3, <1>5, LowerHeld
<1>6. CASE NoEmit(st)
  BY <1>0, <1>6, QuietHeld DEF NoEmit
<1> QED
  BY <1>2, <1>4, <1>5, <1>6

LEMMA TickDoubleHeld ==
    ASSUME HeldPre, NEW k \in Keys, TickDouble(k)
    PROVE  HeldIn(st', host', mode', orphan')
<1> DEFINE b == Effective(active, k)
           a == AsTap(b["click"])
<1>0. HoldsAreUndone /\ HoldInv /\ TypeOK /\ orphan \in BOOLEAN /\ active \in Layers /\ Legal(b["click"])
  BY HeldPreIs DEF Gestures
<1>1. Legal(a)
  BY <1>0, DerivedLegal
<1>2. st[k].waiting /\ ~st[k].pressed
  BY DEF TickDouble
<1>3. ~Plain(b)
  BY <1>2, CreditNat DEF HeldPre, Covered, Plain
<1>4. b["click"].type # "VOICE_HOLD"
  BY <1>0, <1>3 DEF HoldsAreUndone
<1>5. a.type \notin Holds
  BY <1>0, <1>4 DEF AsTap, Holds, Legal, Action
<1>6. \/ NoEmit(st)
      \/ Emit(k, "click", a, ClosedSlots(k), NoSweep, tele, End)
  BY DEF TickDouble, ClosedSlots
<1> HIDE DEF a, b
<1>7. \A j \in Keys : st[j].pressed => /\ ClosedSlots(k)[j].pressed
                                       /\ Holding(ClosedSlots(k), j) = Holding(st, j)
  BY <1>0, <1>2, TickFlags, SameHolding
<1>8. CASE NoEmit(st)
  BY <1>0, <1>8, QuietHeld DEF NoEmit
<1> QED
  BY <1>0, <1>1, <1>5, <1>6, <1>7, <1>8, LowerHeld

LEMMA TickBeginHeld ==
    ASSUME HeldPre, TickBegin
    PROVE  HeldIn(st', host', mode', orphan')
<1>0. HoldInv /\ (mode.on => orphan \/ host = Nothing)
  BY HeldPreIs
<1>1. host' = host /\ (orphan' <=> host # Nothing /\ (orphan \/ ModeExpired))
  BY DEF TickBegin, Orphaning
<1>2. CASE ModeExpired \/ orphan
  BY <1>0, <1>1, <1>2, NothingHeld DEF HeldIn, HoldInv
<1>3. CASE ~ModeExpired /\ ~orphan
  <2>1. st' = st /\ (mode' = mode \/ mode' = NoMode)
    BY <1>3 DEF TickBegin, ModeOff
  <2> QED
    BY <1>0, <1>1, <1>3, <2>1 DEF HeldIn, HoldInv, NoMode
<1> QED
  BY <1>2, <1>3

LEMMA ElapseHeld ==
    ASSUME HeldPre, Elapse
    PROVE  HeldIn(st', host', mode', orphan')
<1>0. HoldInv /\ TypeOK
  BY HeldPreIs
<1>1. UNCHANGED <<host, orphan>> /\ (mode'.on => mode.on)
  BY <1>0 DEF Elapse, ghostVars, TypeOK
<1>2. \A j \in Keys : st[j].pressed => st'[j].pressed /\ Holding(st', j) = Holding(st, j)
  BY <1>0, ElapseFlags, SameHolding
<1> QED
  BY <1>0, <1>1, <1>2, QuietHeld

LEMMA SweepEndHeld ==
    ASSUME HeldPre, SweepEnd
    PROVE  HoldInv'
<1>0. /\ host \in HostType /\ (orphan \/ HeldBy(st, host))
      /\ \A j \in Keys : ~st[j].pressed
  BY DEF HeldPre, HoldInv, HeldIn, PaidInv, GestureInv, Stable, Idle, SweepEnd
<1>1. orphan \/ host = Nothing
  BY <1>0, NoHolder
<1>2. host' = host /\ orphan' = orphan /\ ~mode'.on
  BY DEF SweepEnd, ModeOff, NoMode, ghostVars
<1>3. host = Nothing => HeldBy(st, host)'
  BY <1>2 DEF HeldBy, Nothing
<1> QED
  BY <1>0, <1>1, <1>2, <1>3 DEF HoldInv, HeldIn

LEMMA ApplyHeld ==
    ASSUME HeldPre, NEW km \in Keymaps, ApplyConfig(km)
    PROVE  HoldInv'
<1>1. host \in HostType /\ host' = host /\ (orphan' <=> host' # Nothing)
  BY DEF HeldPre, HoldInv, HeldIn, ApplyConfig, Orphaning
<1>2. host' = Nothing => HeldBy(st, host)'
  BY DEF HeldBy, Nothing
<1> QED
  BY <1>1, <1>2 DEF HoldInv, HeldIn

LEMMA HeldStep ==
    ASSUME "reset" \notin UsbCommands, HeldPre, [Next]_vars
    PROVE  HoldInv'
<1>0. HoldInv
  BY HeldPreIs
<1>1. CASE SweepEnd
  BY <1>1, SweepEndHeld
<1>2. CASE \E km \in Keymaps : ApplyConfig(km)
  BY <1>2, ApplyHeld
<1>3. CASE UNCHANGED <<active, keymap>> /\ ~SweepEnd /\ ~(\E km \in Keymaps : ApplyConfig(km))
  <2> SUFFICES HeldIn(st', host', mode', orphan')
    <3>1. \A k : Holding(st, k)' = Holding(st', k)
      BY <1>3 DEF Holding, Effective, Own
    <3>2. \A T : Holder(st, T)' = Holder(st', T)
      BY <3>1 DEF Holder
    <3>3. HeldBy(st, host)' <=> HeldBy(st', host')
      BY <3>1, <3>2 DEF HeldBy
    <3> QED
      BY <3>3 DEF HoldInv, HeldIn
  <2>1. CASE \E k \in Keys, down \in BOOLEAN : FeedKey(k, down)
    BY <2>1, FeedKeyHeld
  <2>2. CASE \E k \in Keys : SweepSlot(k)
    BY <2>2, SweepSlotHeld
  <2>3. CASE TickBegin
    BY <2>3, TickBeginHeld
  <2>4. CASE \E k \in Keys : TickLong(k) \/ TickHeld(k) \/ TickDouble(k)
    BY <2>4, TickLongHeld, TickHeldHeld, TickDoubleHeld
  <2>5. CASE \E l \in Layers : SetLayer(l)
    BY <1>0, <2>5, QuietHeld DEF SetLayer, SwitchLayer, ModeOff, NoMode, ghostVars
  <2>6. CASE Elapse
    BY <2>6, ElapseHeld
  <2>7. CASE FeedOther \/ ReleaseAll \/ TickEnd \/ TakeSaveRequest \/ UNCHANGED vars
    BY <1>0, <2>7 DEF HoldInv, FeedOther, ReleaseAll, TickEnd, NoEmit, TakeSaveRequest, vars, engineVars, effectVars, ghostVars
  <2>8. ~LoadDefaults
    BY DEF LoadDefaults
  <2> QED
    BY <1>3, <2>1, <2>2, <2>3, <2>4, <2>5, <2>6, <2>7, <2>8 DEF Next
<1> QED
  BY <1>1, <1>2, <1>3, BindingsMove

LEMMA InitHeld == Init => HoldInv
BY NothingType, NothingHeld DEF Init, HoldInv, HeldIn, NoMode

\* Once the engine sees no key down nothing stays held on the host, save for
\* outputs whose slot was cleared under them, as long as the keymap is not reset
\* and the holds of the keymaps in use are undone.  The release branch has no
\* voice case for a long press and the switch mode emits nothing for a key-up:
\* without HoldsAreUndone the property is false.
\* (key_engine_feed_key 687-742, key_engine_release_all 833-859)
THEOREM HoldsAreReleased ==
    ASSUME "reset" \notin UsbCommands
    PROVE  Spec /\ []HoldsAreUndone => []ReleasedMeansIdle
<1>1. HoldInv => ReleasedMeansIdle
  BY NoHolder DEF HoldInv, HeldIn, ReleasedMeansIdle
<1>2. HoldsAreUndone /\ PaidInv /\ HoldInv /\ [Next]_vars => HoldInv'
  BY HeldStep DEF HeldPre
<1>3. PaidInv /\ [Next]_vars => PaidInv'
  BY PaidStep
<1> QED
  BY <1>1, <1>2, <1>3, InitPaid, InitHeld, PTL DEF Spec

\* The TV presses that opened the switch mode do not leave it before the lockout
\* has passed, as long as no keymap gives TV a layer of its own: the lookup in the
\* switch map comes after the lockout and does not ask for it.
\* (key_engine_feed_key 585-607)
THEOREM TvTailStays ==
    ASSUME TV \in Keys, \A km \in Keymaps : km.map[TV] = NoLayer
    PROVE  Spec => TvTailCannotExit
<1>1. ASSUME TypeOK, [Next]_vars, mode.on, mode.age < TvLockout, phys'[TV] # phys[TV]
      PROVE  mode'.on
  <2>1. phys \in [Keys -> BOOLEAN] /\ keymap.map[TV] = NoLayer /\ TV # BACK /\ TV # OK
    BY <1>1 DEF TypeOK, TV, BACK, OK
  <2>2. CASE ReleaseAll
    BY <1>1, <2>2 DEF ReleaseAll
  <2>3. CASE \E k \in Keys, down \in BOOLEAN : FeedKey(k, down)
    <3>1. ModePress(TV) \/ ModeRelease(TV)
      BY <1>1, <2>1, <2>3 DEF FeedKey
    <3>2. CASE ModePress(TV)
      <4>1. TvLocked(TV)
        BY <1>1 DEF TvLocked
      <4>2. UNCHANGED mode \/ mode' = [mode EXCEPT !.idle = 0]
        BY <2>1, <3>2, <4>1, Zenon DEF ModePress
      <4> QED
        BY <1>1, <4>2 DEF TypeOK
    <3>3. CASE ModeRelease(TV)
      BY <1>1, <3>3 DEF ModeRelease, NoEmit
    <3> QED
      BY <3>1, <3>2, <3>3
  <2>4. \/ phys' = phys \/ ReleaseAll \/ \E k \in Keys, down \in BOOLEAN : FeedKey(k, down)
    BY <1>1 DEF Next, FeedOther, SweepSlot, SweepEnd, TickBegin, TickLong, TickHeld, TickDouble, TickEnd,
                TickUnchanged, SetLayer, ApplyConfig, LoadDefaults, TakeSaveRequest, Elapse, vars
  <2> QED
    BY <1>1, <2>2, <2>3, <2>4
<1>2. TypeOK /\ [Next]_vars => [mode.on /\ mode.via /\ mode.age < TvLockout /\ phys'[TV] # phys[TV] => mode'.on]_vars
  BY <1>1
<1> QED
  BY <1>2, TypeCorrect, PTL DEF Spec, TvTailCannotExit
============================================================================
