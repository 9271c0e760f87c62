--------------------------- MODULE KeymapStorage ---------------------------
(***************************************************************************)
(* The keymap in RAM and in flash (key_config_storage.cpp, config_store.c   *)
(* and the commands of webusb_protocol.cpp that reach them).  The TinyUSB   *)
(* task applies, resets and erases; a layer switch may come from any task;  *)
(* the save task copies the RAM keymap to flash, blob by blob, 150 ms after *)
(* a request; a restart command waits 600 ms.  Power may fail at any step.  *)
(*                                                                          *)
(* What a layer holds is the number of the edit that wrote it (0: factory)  *)
(* and whether its type is one that loading migrates.  NVS is external:     *)
(* each blob is written or erased at once, durably, and none can be opened  *)
(* between nvs_flash_erase and the restart.                                 *)
(***************************************************************************)
EXTENDS Integers

CONSTANTS
    LayerCount,     \* MAX_LAYERS
    SaveDelay,      \* ticks of 150 ms before the save task writes
    RestartDelay,   \* ticks before a commanded restart
    MaxEdits,       \* bound: keymaps sent by the page
    MaxOps,         \* bound: switches, commands and power failures
    MaxFaults       \* bound: NVS calls that fail

ASSUME LayerAssumption == LayerCount \in Nat \ {0}
ASSUME DelayAssumption == SaveDelay \in Nat /\ RestartDelay \in Nat
\* 150 and 600 ms: two save requests are served before a restart
ASSUME RestartAssumption == 2 * SaveDelay < RestartDelay
ASSUME BoundAssumption == MaxEdits \in Nat /\ MaxOps \in Nat /\ MaxFaults \in Nat

Layers == 0..LayerCount - 1
Gone   == -1                    \* a blob that is not in flash
Off    == -1                    \* a timer that does not run

Layer(edits) == [edit : edits, legacy : BOOLEAN]
Keymap       == [layer : [Layers -> Layer(0..MaxEdits)], switch : 0..MaxEdits, active : Layers]
Stored       == [layer : [Layers -> Layer(Gone..MaxEdits)], switch : Gone..MaxEdits,
                 active : Layers \cup {Gone}]

Filled(edit, l) == [layer  |-> [i \in Layers |-> [edit |-> edit, legacy |-> FALSE]],
                    switch |-> edit, active |-> l]
\* key_engine_load_defaults
Factory == Filled(0, 0)
Blank   == Filled(Gone, Gone)

VARIABLES
    ram,        \* the key engine's layers, switch map and active layer
    flash,      \* the blobs of the keymap_conf namespace
    schema,     \* the schema string of sys_conf is the current one
    erased,     \* nvs_flash_erase has shut NVS down
    sem,        \* s_save_sem
    saver,      \* keymap_save_task: what it does, its delay, the next blob
    usb,        \* the TinyUSB task: the command it executes
    restart,    \* ticks until esp_restart, Off if none is scheduled
    edits, ops, faults,     \* used of the bounds
    \* history, read by the properties only
    late,       \* the keymap has changed since the restart was scheduled
    raced,      \* the last save overlapped a reset
    faulted,    \* an NVS call has failed since the last save opened
    wiped       \* CMD_NVS_RESET has run since the start

historyVars == <<late, raced, faulted, wiped>>
flashVars   == <<flash, schema, erased>>
vars == <<ram, flashVars, sem, saver, usb, restart, edits, ops, faults, historyVars>>

Waiting == [pc |-> "wait", delay |-> 0, at |-> 0]
NoUsb   == [pc |-> "idle", at |-> 0, layer |-> Factory.layer, switch |-> Gone]

\* The save task holds the key engine's lock while it writes
Unlocked  == saver.pc # "write"
Resetting == usb.pc \in {"erase", "defaults"}

----------------------------------------------------------------------------
(* Flash *)

Last == LayerCount + 1

\* The blobs in the order key_config_storage_save writes them
Put(f, i, r) == IF i \in Layers THEN [f EXCEPT !.layer[i] = r.layer[i]]
                ELSE IF i = LayerCount THEN [f EXCEPT !.switch = r.switch]
                ELSE [f EXCEPT !.active = r.active]

\* ... and in the order key_config_storage_reset_defaults erases them
EraseOrder(i) == IF i = LayerCount THEN Last ELSE IF i = Last THEN LayerCount ELSE i

\* Layers other than 0 lose a one-shot or 15 s type when they are loaded
Migrated(layer) == [i \in Layers |-> [layer[i] EXCEPT !.legacy = @ /\ i = 0]]

\* Mutant: a missing active layer is not replaced
LoadUnchecked(f) ==
    IF \E i \in Layers : f.layer[i].edit = Gone THEN Factory
    ELSE [layer  |-> Migrated(f.layer),
          switch |-> IF f.switch = Gone THEN Factory.switch ELSE f.switch,
          active |-> f.active]

\* key_config_storage_load, on an engine that holds the defaults
Load(f) ==
    IF \E i \in Layers : f.layer[i].edit = Gone THEN Factory
    ELSE [layer  |-> Migrated(f.layer),
          switch |-> IF f.switch = Gone THEN Factory.switch ELSE f.switch,
          active |-> IF f.active = Gone THEN 0 ELSE f.active]

\* app_main: config_store_init wipes a flash of another schema, or one that NVS
\* cannot start from; then the keymap loads
Boot ==
    /\ \E recovery \in BOOLEAN : flash' = IF schema /\ ~recovery THEN flash ELSE Blank
    /\ schema' = TRUE
    /\ erased' = FALSE
    /\ ram' = Load(flash')
    /\ sem' = FALSE
    /\ saver' = Waiting
    /\ usb' = NoUsb
    /\ restart' = Off
    /\ late' = FALSE /\ raced' = FALSE /\ faulted' = FALSE /\ wiped' = FALSE
    /\ UNCHANGED <<edits, faults>>

----------------------------------------------------------------------------
(* Commands *)

Spend1 == ops < MaxOps /\ ops' = ops + 1

\* key_engine_switch_layer, on a key's behalf or for CMD_SET_LAYER
SwitchLayer(l) ==
    /\ Unlocked /\ Spend1
    /\ ram.active # l
    /\ ram' = [ram EXCEPT !.active = l]
    /\ sem' = TRUE
    /\ late' = TRUE
    /\ UNCHANGED <<flashVars, saver, usb, restart, edits, faults, raced, faulted, wiped>>

\* CMD_KEYMAP_SAVE or _COMMIT: key_config_from_json parses into a copy of the
\* layers; layers and a switch map that the document does not name are kept
Parse(ls, sw, legacy) ==
    /\ usb.pc = "idle" /\ Unlocked
    /\ edits < MaxEdits
    /\ edits' = edits + 1
    /\ usb' = [pc |-> "apply", at |-> 0,
               layer  |-> [i \in Layers |-> IF i \in ls THEN [edit |-> edits', legacy |-> legacy]
                                            ELSE ram.layer[i]],
               switch |-> IF sw THEN edits' ELSE Gone]
    /\ UNCHANGED <<ram, flashVars, sem, saver, restart, ops, faults, historyVars>>

\* ... which replaces them under the lock
Apply ==
    /\ usb.pc = "apply" /\ Unlocked
    /\ ram' = [ram EXCEPT !.layer = usb.layer,
                          !.switch = IF usb.switch = Gone THEN @ ELSE usb.switch]
    /\ usb' = [NoUsb EXCEPT !.pc = "request"]
    /\ late' = TRUE
    /\ UNCHANGED <<flashVars, sem, saver, restart, edits, ops, faults, raced, faulted, wiped>>

RequestSave ==
    /\ usb.pc = "request"
    /\ sem' = TRUE
    /\ usb' = NoUsb
    /\ UNCHANGED <<ram, flashVars, saver, restart, edits, ops, faults, historyVars>>

\* CMD_KEYMAP_RESET: one NVS call per blob, without the lock
Reset ==
    /\ usb.pc = "idle" /\ Spend1
    /\ usb' = [NoUsb EXCEPT !.pc = "erase"]
    /\ raced' = (raced \/ ~Unlocked)
    /\ late' = TRUE
    /\ UNCHANGED <<ram, flashVars, sem, saver, restart, edits, faults, faulted, wiped>>

\* A call that NVS refuses
NvsFails ==
    /\ \/ erased /\ UNCHANGED faults
       \/ faults < MaxFaults /\ faults' = faults + 1
    /\ faulted' = TRUE
    /\ UNCHANGED flash

\* config_store_erase_key, whose result nobody looks at
EraseBlob ==
    /\ usb.pc = "erase"
    /\ \/ /\ ~erased
          /\ flash' = Put(flash, EraseOrder(usb.at), Blank)
          /\ UNCHANGED <<faults, faulted>>
       \/ NvsFails
    /\ usb' = IF usb.at = Last THEN [NoUsb EXCEPT !.pc = "defaults"] ELSE [usb EXCEPT !.at = @ + 1]
    /\ UNCHANGED <<ram, schema, erased, sem, saver, restart, edits, ops, late, raced, wiped>>

Defaults ==
    /\ usb.pc = "defaults" /\ Unlocked
    /\ ram' = Factory
    /\ usb' = NoUsb
    /\ UNCHANGED <<flashVars, sem, saver, restart, edits, ops, faults, historyVars>>

\* Mutant: the namespace is emptied and NVS stays open
EraseNamespace ==
    /\ flash' = Blank
    /\ UNCHANGED <<schema, erased>>

\* config_store_erase_all
EraseAll ==
    /\ flash' = Blank
    /\ schema' = FALSE
    /\ erased' = TRUE

\* Mutant: the restart does not wait
RestartAtOnce == restart' = 0 /\ late' = FALSE

\* schedule_restart; of two tasks the first one restarts
ScheduleRestart == IF restart = Off THEN restart' = RestartDelay /\ late' = FALSE
                                    ELSE UNCHANGED <<restart, late>>

\* CMD_NVS_RESET
NvsReset ==
    /\ usb.pc = "idle" /\ Spend1
    /\ EraseAll
    /\ ScheduleRestart
    /\ wiped' = TRUE
    /\ UNCHANGED <<ram, sem, saver, usb, edits, faults, raced, faulted>>

\* CMD_SYSTEM_RESTART
RestartCommand ==
    /\ usb.pc = "idle" /\ Spend1
    /\ ScheduleRestart
    /\ UNCHANGED <<ram, flashVars, sem, saver, usb, edits, faults, raced, faulted, wiped>>

----------------------------------------------------------------------------
(* keymap_save_task *)

Take ==
    /\ saver.pc = "wait" /\ sem
    /\ sem' = FALSE
    /\ saver' = [Waiting EXCEPT !.pc = "delay", !.delay = SaveDelay]
    /\ UNCHANGED <<ram, flashVars, usb, restart, edits, ops, faults, historyVars>>

\* nvs_open or the buffer fails: the request is forgotten
OpenFails ==
    /\ saver.pc = "delay" /\ saver.delay = 0
    /\ NvsFails
    /\ saver' = Waiting
    /\ UNCHANGED <<ram, schema, erased, sem, usb, restart, edits, ops, late, raced, wiped>>

Open ==
    /\ saver.pc = "delay" /\ saver.delay = 0
    /\ ~erased
    /\ saver' = [Waiting EXCEPT !.pc = "write"]
    /\ raced' = Resetting
    /\ faulted' = FALSE
    /\ UNCHANGED <<ram, flashVars, sem, usb, restart, edits, ops, faults, late, wiped>>

\* nvs_set_blob; a failed one is not tried again and the others are still written
WriteBlob ==
    /\ saver.pc = "write" /\ saver.at <= Last
    /\ saver' = [saver EXCEPT !.at = @ + 1]
    /\ \/ /\ ~erased
          /\ flash' = Put(flash, saver.at, ram)
          /\ UNCHANGED <<faults, faulted>>
       \/ NvsFails
    /\ UNCHANGED <<ram, schema, erased, sem, usb, restart, edits, ops, late, raced, wiped>>

\* Mutant: a request made during the save is taken for the one just served
DrainSem == sem' = FALSE

KeepSem == UNCHANGED sem

\* The lock is released, then nvs_commit and nvs_close
Close ==
    /\ saver.pc = "write" /\ saver.at > Last
    /\ saver' = [Waiting EXCEPT !.pc = "commit"]
    /\ UNCHANGED <<ram, flashVars, sem, usb, restart, edits, ops, faults, historyVars>>

Commit ==
    /\ saver.pc = "commit"
    /\ saver' = Waiting
    /\ KeepSem
    /\ UNCHANGED <<ram, flashVars, usb, restart, edits, ops, faults, historyVars>>

Save == Take \/ OpenFails \/ Open \/ WriteBlob \/ Close \/ Commit

----------------------------------------------------------------------------
(* Time, restart and power *)

Runnable == \/ saver.pc \in {"write", "commit"}
            \/ saver.pc = "wait" /\ sem
            \/ saver.pc = "delay" /\ saver.delay = 0
            \/ usb.pc # "idle"

\* 150 ms; whatever is ready to run has run by then
Tick ==
    /\ ~Runnable /\ restart # 0
    /\ saver.delay > 0 \/ restart > 0
    /\ saver' = IF saver.delay > 0 THEN [saver EXCEPT !.delay = @ - 1] ELSE saver
    /\ restart' = IF restart > 0 THEN restart - 1 ELSE restart
    /\ UNCHANGED <<ram, flashVars, sem, usb, edits, ops, faults, historyVars>>

Restart == restart = 0 /\ Boot /\ UNCHANGED ops

PowerLoss == Spend1 /\ Boot

UsbTask == Apply \/ RequestSave \/ EraseBlob \/ Defaults

Next ==
    \/ \E l \in Layers : SwitchLayer(l)
    \/ \E ls \in SUBSET Layers, sw, legacy \in BOOLEAN : Parse(ls, sw, legacy)
    \/ UsbTask \/ Reset \/ NvsReset \/ RestartCommand
    \/ Save \/ Tick \/ Restart \/ PowerLoss

Init ==
    /\ ram = Factory
    /\ flash = Blank
    /\ schema = TRUE /\ erased = FALSE
    /\ sem = FALSE
    /\ saver = Waiting
    /\ usb = NoUsb
    /\ restart = Off
    /\ edits = 0 /\ ops = 0 /\ faults = 0
    /\ late = FALSE /\ raced = FALSE /\ faulted = FALSE /\ wiped = FALSE

Spec == Init /\ [][Next]_vars

\* The scheduler runs the save task and the TinyUSB task; timers expire
FairSpec == Spec /\ WF_vars(Save) /\ WF_vars(UsbTask) /\ WF_vars(Tick) /\ WF_vars(Restart)

----------------------------------------------------------------------------
(* Properties *)

\* Type invariant
TypeOK ==
    /\ ram \in Keymap
    /\ flash \in Stored
    /\ schema \in BOOLEAN /\ erased \in BOOLEAN /\ sem \in BOOLEAN
    /\ saver \in [pc : {"wait", "delay", "write", "commit"}, delay : 0..SaveDelay, at : 0..Last + 1]
    /\ usb \in [pc : {"idle", "apply", "request", "erase", "defaults"}, at : 0..Last,
                layer : [Layers -> Layer(0..MaxEdits)], switch : Gone..MaxEdits]
    /\ restart \in Off..RestartDelay
    /\ edits \in 0..MaxEdits /\ ops \in 0..MaxOps /\ faults \in 0..MaxFaults
    /\ late \in BOOLEAN /\ raced \in BOOLEAN /\ faulted \in BOOLEAN /\ wiped \in BOOLEAN

\* The next boot would load what the engine holds now
UpToDate == Load(flash) = [ram EXCEPT !.layer = Migrated(@)]

\* Nothing stands between the engine and its copy in flash but a failed call,
\* a save that overlapped a reset, or an erased flash
Excused == raced \/ faulted \/ erased

Quiet == saver.pc = "wait" /\ ~sem /\ usb.pc = "idle"

\* When no task has anything left to do for the keymap, the next boot loads the
\* keymap in use: no edit, layer switch or reset was left out of the last save,
\* however they fell together with it, and whatever a power failure left behind.
\* (key_config_storage_save 378-408, the binary semaphore 536-552)
NothingUnsaved == Quiet => Excused \/ UpToDate

\* A keymap that differs from its copy in flash is saved in the end: the request
\* that follows every change is not lost.  (key_config_storage.cpp 536-552)
SavedInTheEnd == []<>(Excused \/ UpToDate)

\* A restart sent after an edit does not lose it: the 600 ms of
\* schedule_restart leave the save task time to finish.
\* (webusb_protocol.cpp 47-53, key_config_storage.cpp 541)
RestartKeepsEdits == [][Restart => late \/ Excused \/ UpToDate]_vars

\* After CMD_NVS_RESET the device starts with the factory keymap, even if a save
\* was under way or an edit was acknowledged before the restart.
\* (webusb_protocol.cpp 256-260, config_store.c 124-127)
FactoryAfterErase == [][wiped /\ ~wiped' => ram' = Factory]_vars
==============================================================================
