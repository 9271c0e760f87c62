---------------------------- MODULE MCKeyEngine ----------------------------
(* Keymaps and key sets for model-checking KeyEngine *)
EXTENDS KeyEngine

POWER == 0
UP    == 2
VOLUP == 10

Act(t, a) == [type |-> t, arg |-> a]
None      == Act("NONE", 0)
Bind(click, long, double, repeat) ==
    [g \in {"click", "long", "double", "repeat"} |->
        CASE g = "click" -> click [] g = "long" -> long
          [] g = "double" -> double [] OTHER -> repeat]
Empty     == [k \in {} |-> Bind(None, None, None, None)]
Persistent(ls) == [l \in ls |-> "PERSISTENT"]
Untimed(ls)    == [l \in ls |-> 0]

\* Factory bindings, by slot (load_defaults 334-461)
FactoryKeys ==
    [k \in 0..12 |->
       CASE k = POWER -> Bind(Act("KEYBOARD_TAP", 1), Act("CONSUMER_TAP", 1), None, None)
         [] k = VOICE -> Bind(Act("VOICE_HOLD", 2), None, None, None)
         [] k = UP    -> Bind(Act("KEYBOARD_HOLD", 3), None, None, None)
         [] k = VOLUP -> Bind(Act("CONSUMER_TAP", 4), None, None, Act("CONSUMER_TAP", 4))
         [] k = TV    -> Bind(Act("KEYBOARD_TAP", 5), Act("ENTER_SWITCH_MODE", 0), None, None)
         [] OTHER     -> Bind(Act("KEYBOARD_TAP", 6), None, None, None)]

Factory(ks, ls) ==
    [bind |-> [l \in ls |-> IF l = 0 THEN [k \in ks |-> FactoryKeys[k]] ELSE Empty],
     type |-> Persistent(ls),
     timeout |-> Untimed(ls),
     map  |-> [k \in ks |-> IF k = UP /\ 1 \in ls THEN 1 ELSE NoLayer]]

\* Run KeyEngineMode: the factory keymap, POWER held long in or out of the mode
ModeKeys == {POWER, UP, TV}
TwoLayers == {0, 1}
ModeFactory == Factory(ModeKeys, TwoLayers)
ModeKeymaps == {ModeFactory}

\* Run KeyEngineGesture: every gesture, a layer key, a one-shot and a timed layer
GestureKeys == {2, 4, 6}
ThreeLayers == {0, 1, 2}
GestureMap ==
    [bind |-> [l \in ThreeLayers |->
        CASE l = 0 -> [k \in GestureKeys |->
               CASE k = 2 -> Bind(Act("KEYBOARD_HOLD", 1), Act("CONSUMER_HOLD", 2),
                                  Act("SWITCH_LAYER", 2), None)
                 [] k = 4 -> Bind(Act("SWITCH_LAYER", 1), None, None, None)
                 [] OTHER -> Bind(Act("MOUSE_BUTTON_HOLD", 3), None, None, None)]
          [] l = 1 -> [k \in {2, 6} |->
               CASE k = 2 -> Bind(Act("TRANSPARENT", 0), Act("SWITCH_LAYER", 2), None, None)
                 [] OTHER -> Bind(Act("MOUSE_MOVE", 4), None, None, None)]
          [] OTHER -> [k \in {4, 6} |->
               CASE k = 4 -> Bind(Act("KEYBOARD_TAP", 5), None, Act("CONSUMER_TAP", 6), None)
                 [] OTHER -> Bind(Act("MOUSE_BUTTON_HOLD", 7), None, None, None)]],
     type |-> [l \in ThreeLayers |-> CASE l = 1 -> "ONESHOT" [] l = 2 -> "TIMEOUT"
                                        [] OTHER -> "PERSISTENT"],
     timeout |-> [l \in ThreeLayers |-> IF l = 2 THEN LayerTimeout ELSE 0],
     map  |-> [k \in GestureKeys |-> NoLayer]]
GestureMaps == {GestureMap}

\* Run KeyEngineLive: a double-click key and the factory TV key; a reset takes
\* the double action from under an open window
LiveKeys == {UP, TV}
OneLayer == {0}
LiveMap ==
    [bind |-> [l \in OneLayer |-> [k \in LiveKeys |->
        IF k = TV THEN FactoryKeys[TV]
        ELSE Bind(Act("KEYBOARD_TAP", 1), None, Act("CONSUMER_TAP", 2), None)]],
     type |-> Persistent(OneLayer),
     timeout |-> Untimed(OneLayer),
     map  |-> [k \in LiveKeys |-> NoLayer]]
LiveFactory == Factory(LiveKeys, OneLayer)
LiveMaps == {LiveMap, LiveFactory}

\* Violation runs: the factory keymap with the volume key, a mouse button on UP
SilenceKeys == {POWER, VOLUP, TV}
SilenceMap  == Factory(SilenceKeys, OneLayer)
SilenceMaps == {SilenceMap}

WithLayer0(km, k, b) == [km EXCEPT !.bind[0][k] = b]
ButtonKeys == {UP, TV}
ButtonMap  == WithLayer0(Factory(ButtonKeys, OneLayer), UP,
                         Bind(Act("MOUSE_BUTTON_HOLD", 1), None, None, None))
ButtonMaps == {ButtonMap}
==============================================================================
