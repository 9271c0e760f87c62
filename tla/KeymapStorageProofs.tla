------------------------- MODULE KeymapStorageProofs -------------------------
(***************************************************************************)
(* Type correctness of KeymapStorage, and that flash follows the keymap in  *)
(* use, for any number of layers, edits, commands, failures and power       *)
(* losses, and that a commanded restart waits for what is being saved.      *)
(***************************************************************************)
EXTENDS KeymapStorage, TLAPS

----------------------------------------------------------------------------
(* Keymaps *)

LEMMA LayerNumbers ==
    /\ 0 \in Layers /\ LayerCount \in Nat \ {0} /\ Last \in Nat /\ Last = LayerCount + 1
    /\ Layers \subseteq Nat /\ Gone \notin Layers /\ Gone = -1
    /\ \A i : i \in Layers <=> i \in Nat /\ i < LayerCount
BY LayerAssumption DEF Layers, Last, Gone

LEMMA EditNumbers ==
    /\ 0 \in 0..MaxEdits /\ Gone \in Gone..MaxEdits /\ Gone \notin 0..MaxEdits
    /\ 0..MaxEdits \subseteq Gone..MaxEdits
    /\ \A e \in Gone..MaxEdits : e # Gone => e \in 0..MaxEdits
BY BoundAssumption DEF Gone

LEMMA FactoryType == Factory \in Keymap
BY LayerNumbers, EditNumbers DEF Factory, Filled, Keymap, Layer

LEMMA BlankType == Blank \in Stored
BY LayerNumbers, EditNumbers DEF Blank, Filled, Stored, Layer

LEMMA KeymapStored == Keymap \subseteq Stored
BY LayerNumbers, EditNumbers DEF Keymap, Stored, Layer

LEMMA PutType ==
    ASSUME NEW f \in Stored, NEW r \in Stored, NEW i
    PROVE  Put(f, i, r) \in Stored
<1>1. CASE i \in Layers
  <2>1. [f.layer EXCEPT ![i] = r.layer[i]] \in [Layers -> Layer(Gone..MaxEdits)]
    BY <1>1 DEF Stored
  <2>2. [f EXCEPT !.layer = [f.layer EXCEPT ![i] = r.layer[i]]] \in Stored
    BY <2>1 DEF Stored
  <2> QED
    BY <1>1, <2>2, Zenon DEF Put
<1>2. CASE i \notin Layers
  BY <1>2 DEF Put, Stored
<1> QED
  BY <1>1, <1>2

LEMMA MigratedType ==
    ASSUME NEW S, NEW l \in [Layers -> Layer(S)]
    PROVE  /\ Migrated(l) \in [Layers -> Layer(S)]
           /\ \A i \in Layers : Migrated(l)[i].edit = l[i].edit
BY DEF Migrated, Layer

LEMMA MigratedTwice ==
    ASSUME NEW S, NEW l \in [Layers -> Layer(S)]
    PROVE  Migrated(Migrated(l)) = Migrated(l)
BY DEF Migrated, Layer

\* Loading repairs whatever a torn save or erasure has left
LEMMA LoadType ==
    ASSUME NEW f \in Stored
    PROVE  Load(f) \in Keymap
<1>1. CASE \E i \in Layers : f.layer[i].edit = Gone
  BY <1>1, FactoryType DEF Load
<1>2. CASE ~\E i \in Layers : f.layer[i].edit = Gone
  <2>1. f.layer \in [Layers -> Layer(0..MaxEdits)]
    BY <1>2, EditNumbers DEF Stored, Layer
  <2>2. Migrated(f.layer) \in [Layers -> Layer(0..MaxEdits)]
    BY <2>1, MigratedType
  <2>3. Factory.switch = 0
    BY DEF Factory, Filled
  <2> QED
    BY <1>2, <2>2, <2>3, LayerNumbers, EditNumbers DEF Load, Stored, Keymap
<1> QED
  BY <1>1, <1>2

\* What has been loaded loads as itself
LEMMA LoadTwice ==
    ASSUME NEW f \in Stored
    PROVE  Load(f) = [Load(f) EXCEPT !.layer = Migrated(@)]
<1> DEFINE l == Load(f)
<1>1. Migrated(l.layer) = l.layer
  <2>1. CASE \E i \in Layers : f.layer[i].edit = Gone
    <3>1. l = Factory
      BY <2>1 DEF Load
    <3>2. Factory.layer = [i \in Layers |-> [edit |-> 0, legacy |-> FALSE]]
      BY DEF Factory, Filled
    <3>3. Factory.layer \in [Layers -> Layer(0..MaxEdits)] /\ \A i \in Layers : Factory.layer[i].legacy = FALSE
      <4>1. Factory.layer \in [Layers -> Layer(0..MaxEdits)]
        BY FactoryType DEF Keymap
      <4> QED
        BY <3>2, <4>1
    <3>4. Migrated(Factory.layer) = Factory.layer
      BY <3>3 DEF Migrated, Layer
    <3> QED
      BY <3>1, <3>4
  <2>2. CASE ~\E i \in Layers : f.layer[i].edit = Gone
    <3>1. l.layer = Migrated(f.layer)
      BY <2>2 DEF Load
    <3> QED
      BY <3>1, MigratedTwice DEF Stored
  <2> QED
    BY <2>1, <2>2
<1>2. l \in Keymap
  BY LoadType
<1> HIDE DEF l
<1>3. l = [l EXCEPT !.layer = Migrated(@)]
  BY <1>1, <1>2 DEF Keymap
<1> QED
  BY <1>3 DEF l

----------------------------------------------------------------------------
(* Types *)

SaverType == [pc : {"wait", "delay", "write", "commit"}, delay : 0..SaveDelay, at : 0..Last + 1]
UsbType   == [pc : {"idle", "apply", "request", "erase", "defaults"}, at : 0..Last,
              layer : [Layers -> Layer(0..MaxEdits)], switch : Gone..MaxEdits]

\* The type invariant with these two sets for names
Types ==
    /\ ram \in Keymap
    /\ flash \in Stored
    /\ schema \in BOOLEAN /\ erased \in BOOLEAN /\ sem \in BOOLEAN
    /\ saver \in SaverType
    /\ usb \in UsbType
    /\ restart \in Off..RestartDelay
    /\ edits \in 0..MaxEdits /\ ops \in 0..MaxOps /\ faults \in 0..MaxFaults
    /\ late \in BOOLEAN /\ raced \in BOOLEAN /\ faulted \in BOOLEAN /\ wiped \in BOOLEAN

LEMMA TypesOK == TypeOK <=> Types
BY DEF TypeOK, Types, SaverType, UsbType

LEMMA UsbTypes ==
    /\ NoUsb \in UsbType
    /\ \A pc \in {"idle", "apply", "request", "erase", "defaults"} : [NoUsb EXCEPT !.pc = pc] \in UsbType
<1>1. NoUsb \in UsbType
  BY FactoryType, LayerNumbers, EditNumbers DEF NoUsb, UsbType, Keymap
<1> QED
  BY <1>1 DEF UsbType

LEMMA SaverTypes ==
    /\ Waiting \in SaverType
    /\ \A pc \in {"wait", "delay", "write", "commit"} : [Waiting EXCEPT !.pc = pc] \in SaverType
<1>1. Waiting \in SaverType
  BY DelayAssumption, LayerNumbers DEF Waiting, SaverType
<1> QED
  BY <1>1 DEF SaverType

LEMMA Counted ==
    /\ \A n \in 0..MaxOps : n < MaxOps => n + 1 \in 0..MaxOps
    /\ \A n \in 0..MaxFaults : n < MaxFaults => n + 1 \in 0..MaxFaults
    /\ \A n \in 0..MaxEdits : n < MaxEdits => n + 1 \in 0..MaxEdits
    /\ 0 \in 0..MaxOps /\ 0 \in 0..MaxFaults /\ 0 \in 0..MaxEdits
    /\ Off \in Off..RestartDelay /\ RestartDelay \in Off..RestartDelay
    /\ \A t \in Off..RestartDelay : t > 0 => t - 1 \in Off..RestartDelay
BY BoundAssumption, DelayAssumption DEF Off

LEMMA BootTypes ==
    ASSUME Types, Boot, ops' \in 0..MaxOps
    PROVE  Types'
<1>1. flash' \in Stored
  BY BlankType DEF Types, Boot
<1>2. ram' \in Keymap
  BY <1>1, LoadType DEF Boot
<1> QED
  BY <1>1, <1>2, SaverTypes, UsbTypes, Counted DEF Types, Boot

LEMMA FailTypes ==
    ASSUME Types, NvsFails
    PROVE  flash' \in Stored /\ faults' \in 0..MaxFaults /\ faulted' \in BOOLEAN
BY Counted DEF NvsFails, Types

LEMMA CommandTypes ==
    ASSUME Types,
           \/ \E l \in Layers : SwitchLayer(l)
           \/ \E ls \in SUBSET Layers, sw, legacy \in BOOLEAN : Parse(ls, sw, legacy)
           \/ UsbTask \/ Reset \/ NvsReset \/ RestartCommand
    PROVE  Types'
<1>1. CASE \E l \in Layers : SwitchLayer(l)
  <2>1. PICK l \in Layers : SwitchLayer(l)
    BY <1>1
  <2>2. ram' \in Keymap
    BY <2>1 DEF SwitchLayer, Types, Keymap
  <2> QED
    BY <2>1, <2>2, Counted DEF SwitchLayer, Spend1, Types, flashVars
<1>2. CASE \E ls \in SUBSET Layers, sw, legacy \in BOOLEAN : Parse(ls, sw, legacy)
  <2>1. PICK ls \in SUBSET Layers, sw \in BOOLEAN, legacy \in BOOLEAN : Parse(ls, sw, legacy)
    BY <1>2
  <2>2. edits' \in 0..MaxEdits
    BY <2>1, Counted DEF Parse, Types
  <2> DEFINE layer == [i \in Layers |-> IF i \in ls THEN [edit |-> edits', legacy |-> legacy]
                                        ELSE ram.layer[i]]
  <2>3. layer \in [Layers -> Layer(0..MaxEdits)]
    BY <2>2 DEF Types, Keymap, Layer
  <2>4. (IF sw THEN edits' ELSE Gone) \in Gone..MaxEdits
    BY <2>2, EditNumbers
  <2>5. usb' = [pc |-> "apply", at |-> 0, layer |-> layer, switch |-> IF sw THEN edits' ELSE Gone]
    BY <2>1 DEF Parse
  <2> HIDE DEF layer
  <2>6. usb' \in UsbType
    BY <2>3, <2>4, <2>5, LayerNumbers DEF UsbType
  <2> QED
    BY <2>1, <2>2, <2>6 DEF Parse, Types, flashVars, historyVars
<1>3. CASE Apply
  <2>1. usb.layer \in [Layers -> Layer(0..MaxEdits)] /\ usb.switch \in Gone..MaxEdits
    BY DEF Types, UsbType
  <2>2. ram' \in Keymap
    BY <1>3, <2>1, EditNumbers DEF Apply, Types, Keymap
  <2> QED
    BY <1>3, <2>2, UsbTypes DEF Apply, Types, flashVars
<1>4. CASE RequestSave
  BY <1>4, UsbTypes DEF RequestSave, Types, flashVars, historyVars
<1>5. CASE EraseBlob
  <2>1. Put(flash, EraseOrder(usb.at), Blank) \in Stored
    BY PutType, BlankType DEF Types
  <2>2. usb.at # Last => [usb EXCEPT !.at = @ + 1] \in UsbType
    <3>1. usb.at \in 0..Last /\ (usb.at # Last => usb.at + 1 \in 0..Last)
      BY LayerNumbers DEF Types, UsbType
    <3> QED
      BY <3>1 DEF Types, UsbType
  <2>3. flash' \in Stored /\ faults' \in 0..MaxFaults /\ faulted' \in BOOLEAN
    BY <1>5, <2>1, FailTypes DEF EraseBlob, Types
  <2> QED
    BY <1>5, <2>2, <2>3, UsbTypes DEF EraseBlob, Types
<1>6. CASE Defaults
  BY <1>6, UsbTypes, FactoryType DEF Defaults, Types, flashVars, historyVars
<1>7. CASE Reset
  BY <1>7, UsbTypes, Counted DEF Reset, Spend1, Unlocked, Types, flashVars
<1>8. ASSUME ScheduleRestart PROVE restart' \in Off..RestartDelay /\ late' \in BOOLEAN
  BY <1>8, Counted DEF ScheduleRestart, Types
<1>9. CASE NvsReset
  BY <1>9, <1>8, BlankType, Counted DEF NvsReset, EraseAll, Spend1, Types
<1>10. CASE RestartCommand
  BY <1>10, <1>8, Counted DEF RestartCommand, Spend1, Types, flashVars
<1> QED
  BY <1>1, <1>2, <1>3, <1>4, <1>5, <1>6, <1>7, <1>9, <1>10 DEF UsbTask

LEMMA SaveTypes ==
    ASSUME Types, Save
    PROVE  Types'
<1>1. CASE Take
  <2>1. saver' = [pc |-> "delay", delay |-> SaveDelay, at |-> 0]
    BY <1>1 DEF Take, Waiting
  <2>2. saver' \in SaverType
    BY <2>1, DelayAssumption, LayerNumbers DEF SaverType
  <2> QED
    BY <1>1, <2>2 DEF Take, Types, flashVars, historyVars
<1>2. CASE OpenFails
  BY <1>2, SaverTypes, FailTypes DEF OpenFails, Types
<1>3. CASE Open
  <2>1. Resetting \in BOOLEAN
    BY DEF Resetting
  <2> QED
    BY <1>3, <2>1, SaverTypes DEF Open, Types, flashVars
<1>4. CASE WriteBlob
  <2>1. Put(flash, saver.at, ram) \in Stored
    BY PutType, KeymapStored DEF Types
  <2>2. saver' \in SaverType
    BY <1>4, LayerNumbers DEF WriteBlob, Types, SaverType
  <2> QED
    BY <1>4, <2>1, <2>2, FailTypes DEF WriteBlob, Types
<1>5. CASE Close
  BY <1>5, SaverTypes DEF Close, Types, flashVars, historyVars
<1>6. CASE Commit
  BY <1>6, SaverTypes DEF Commit, KeepSem, Types, flashVars, historyVars
<1> QED
  BY <1>1, <1>2, <1>3, <1>4, <1>5, <1>6 DEF Save

LEMMA TickTypes ==
    ASSUME Types, Tick
    PROVE  Types'
<1>1. saver' \in SaverType
  BY DelayAssumption DEF Tick, Types, SaverType
<1>2. restart' \in Off..RestartDelay
  BY Counted DEF Tick, Types
<1> QED
  BY <1>1, <1>2 DEF Tick, Types, flashVars, historyVars

LEMMA InitTypes == Init => Types
BY SaverTypes, UsbTypes, FactoryType, BlankType, Counted DEF Init, Types

LEMMA StepTypes ==
    ASSUME Types, [Next]_vars
    PROVE  Types'
<1>1. CASE Restart
  BY <1>1, BootTypes DEF Restart, Types
<1>2. CASE PowerLoss
  <2>1. ops' \in 0..MaxOps
    BY <1>2, Counted DEF PowerLoss, Spend1, Types
  <2> QED
    BY <1>2, <2>1, BootTypes DEF PowerLoss
<1>3. CASE UNCHANGED vars
  BY <1>3 DEF vars, flashVars, historyVars, Types
<1> QED
  BY <1>1, <1>2, <1>3, CommandTypes, SaveTypes, TickTypes DEF Next

\* TypeOK is inductive: whatever a torn save, an erasure or a power failure
\* leaves in flash, the engine loads an existing active layer and existing
\* bindings from it.  (key_config_storage_load)
THEOREM StorageTypeCorrect == Spec => []TypeOK
<1>1. Init => Types
  BY InitTypes
<1>2. Types /\ [Next]_vars => Types'
  BY StepTypes
<1> QED
  BY <1>1, <1>2, TypesOK, PTL DEF Spec

----------------------------------------------------------------------------
(* Nothing is left unsaved *)

\* Blob i is what a save that writes it now would leave
InFlash(i) == IF i \in Layers THEN flash.layer[i] = ram.layer[i]
              ELSE IF i = LayerCount THEN flash.switch = ram.switch
              ELSE flash.active = ram.active

\* A save and a reset that overlap have been noticed
Marked == Resetting /\ saver.pc = "write" => raced

\* A save that is under way has copied the blobs it has passed
Copied == saver.pc = "write" => Excused \/ \A i \in 0..saver.at - 1 : InFlash(i)

\* A reset that is under way has taken layer 0 away, without which nothing loads
Emptied == Resetting /\ (usb.pc = "defaults" \/ usb.at > 0)
               => Excused \/ flash.layer[0].edit = Gone

\* Some task has yet to look at the keymap, or flash follows it
AtWork == sem \/ saver.pc \in {"delay", "write"} \/ usb.pc = "request" \/ Resetting
Served == AtWork \/ Excused \/ UpToDate

StorageInv == Types /\ Marked /\ Copied /\ Emptied /\ Served

LEMMA PutPuts ==
    ASSUME NEW f \in Stored, NEW r \in Stored, NEW i \in 0..Last
    PROVE  LET p == Put(f, i, r) IN
           /\ \A j \in Layers : p.layer[j] = IF j = i THEN r.layer[j] ELSE f.layer[j]
           /\ p.switch = IF i = LayerCount THEN r.switch ELSE f.switch
           /\ p.active = IF i = Last THEN r.active ELSE f.active
<1>1. CASE i \in Layers
  <2> DEFINE l == [f.layer EXCEPT ![i] = r.layer[i]]
  <2>1. Put(f, i, r) = [f EXCEPT !.layer = l]
    BY <1>1, Zenon DEF Put
  <2>2. \A j \in Layers : l[j] = IF j = i THEN r.layer[j] ELSE f.layer[j]
    BY DEF Stored
  <2>3. i # LayerCount /\ i # Last
    BY <1>1, LayerNumbers
  <2> HIDE DEF l
  <2> QED
    BY <2>1, <2>2, <2>3 DEF Stored
<1>2. CASE i \notin Layers
  <2>1. i = LayerCount \/ i = Last
    BY <1>2, LayerNumbers
  <2> QED
    BY <1>2, <2>1, LayerNumbers DEF Put, Stored
<1> QED
  BY <1>1, <1>2

LEMMA AllCopied ==
    ASSUME Types, \A i \in 0..Last : InFlash(i)
    PROVE  UpToDate
<1>1. \A i \in Layers : flash.layer[i] = ram.layer[i]
  BY LayerNumbers DEF InFlash
<1>2. flash.switch = ram.switch /\ flash.active = ram.active
  BY LayerNumbers DEF InFlash
<1>3. \A i \in Layers : ram.layer[i].edit # Gone
  BY EditNumbers DEF Types, Keymap, Layer
<1>4. ram.switch # Gone /\ ram.active # Gone
  BY EditNumbers, LayerNumbers DEF Types, Keymap
<1>5. Migrated(flash.layer) = Migrated(ram.layer)
  BY <1>1 DEF Migrated
<1>6. Load(flash) = [layer |-> Migrated(ram.layer), switch |-> ram.switch, active |-> ram.active]
  BY <1>1, <1>2, <1>3, <1>4, <1>5 DEF Load
<1> QED
  BY <1>6 DEF UpToDate, Types, Keymap

LEMMA FactoryStays ==
    ASSUME flash.layer[0].edit = Gone
    PROVE  Load(flash) = Factory /\ Load(flash) = [Factory EXCEPT !.layer = Migrated(@)]
<1>1. Load(flash) = Factory
  BY LayerNumbers DEF Load
<1>2. Load(Blank) = Factory
  BY LayerNumbers DEF Load, Blank, Filled
<1> QED
  BY <1>1, <1>2, LoadTwice, BlankType

\* The commands and the tasks, and a start of the device
Command == \/ \E l \in Layers : SwitchLayer(l)
           \/ \E ls \in SUBSET Layers, sw, legacy \in BOOLEAN : Parse(ls, sw, legacy)
           \/ UsbTask \/ Reset \/ NvsReset \/ RestartCommand
Start   == Restart \/ PowerLoss

LEMMA StepKinds == [Next]_vars => Command \/ Save \/ Tick \/ Start \/ UNCHANGED vars
BY DEF Next, Command, Start

LEMMA StartInv ==
    ASSUME Types, Start
    PROVE  Marked' /\ Copied' /\ Emptied' /\ Served'
<1>1. Boot
  BY DEF Start, Restart, PowerLoss
<1>2. saver'.pc = "wait" /\ usb'.pc = "idle"
  BY <1>1 DEF Boot, Waiting, NoUsb
<1>3. flash' \in Stored /\ ram' = Load(flash')
  BY <1>1, BlankType DEF Boot, Types
<1>4. UpToDate'
  BY <1>3, LoadTwice DEF UpToDate
<1> QED
  BY <1>2, <1>4 DEF Marked, Copied, Emptied, Served, Resetting

LEMMA CommandInv ==
    ASSUME StorageInv, Command
    PROVE  Marked' /\ Copied' /\ Emptied' /\ Served'
<1> USE DEF StorageInv
<1>1. CASE \E l \in Layers : SwitchLayer(l)
  <2>1. PICK l \in Layers : SwitchLayer(l)
    BY <1>1
  <2>2. /\ saver'.pc # "write" /\ sem' /\ flash' = flash /\ usb' = usb
        /\ raced' = raced /\ faulted' = faulted /\ erased' = erased
    BY <2>1 DEF SwitchLayer, Unlocked, flashVars
  <2> QED
    BY <2>2 DEF Marked, Copied, Emptied, Served, AtWork, Resetting, Excused
<1>2. CASE \E ls \in SUBSET Layers, sw, legacy \in BOOLEAN : Parse(ls, sw, legacy)
  <2>1. PICK ls \in SUBSET Layers, sw \in BOOLEAN, legacy \in BOOLEAN : Parse(ls, sw, legacy)
    BY <1>2
  <2>2. /\ saver.pc # "write" /\ saver' = saver /\ sem' = sem /\ usb.pc = "idle" /\ usb'.pc = "apply"
        /\ raced' = raced /\ faulted' = faulted /\ erased' = erased /\ ram' = ram /\ flash' = flash
    BY <2>1 DEF Parse, Unlocked, flashVars, historyVars
  <2>3. UpToDate' <=> UpToDate
    BY <2>2 DEF UpToDate
  <2> QED
    BY <2>2, <2>3 DEF Marked, Copied, Emptied, Served, AtWork, Resetting, Excused
<1>3. CASE Apply
  <2>1. saver'.pc # "write" /\ usb'.pc = "request"
    BY <1>3 DEF Apply, Unlocked, NoUsb
  <2> QED
    BY <2>1 DEF Marked, Copied, Emptied, Served, AtWork, Resetting
<1>4. CASE RequestSave
  <2>1. /\ sem' /\ usb'.pc = "idle" /\ saver' = saver
        /\ raced' = raced /\ faulted' = faulted /\ erased' = erased /\ ram' = ram /\ flash' = flash
    BY <1>4 DEF RequestSave, NoUsb, flashVars, historyVars
  <2> QED
    BY <2>1 DEF Marked, Copied, Emptied, Served, AtWork, Resetting, Excused, InFlash
<1>5. CASE EraseBlob
  <2>1. /\ usb.pc = "erase" /\ usb'.pc \in {"erase", "defaults"} /\ saver' = saver
        /\ raced' = raced /\ (faulted' \/ faulted' = faulted) /\ erased' = erased /\ ram' = ram
    BY <1>5 DEF EraseBlob, NvsFails, NoUsb, Types, UsbType
  <2>2. Resetting /\ Resetting'
    BY <2>1 DEF Resetting
  <2>3. Excused' \/ flash'.layer[0].edit = Gone
    <3>1. SUFFICES ASSUME ~Excused' PROVE flash'.layer[0].edit = Gone
      OBVIOUS
    <3>2. ~Excused /\ flash' = Put(flash, EraseOrder(usb.at), Blank)
      BY <1>5, <2>1, <3>1 DEF EraseBlob, NvsFails, Excused
    <3>3. usb.at \in 0..Last /\ EraseOrder(usb.at) \in 0..Last
      BY LayerNumbers DEF Types, UsbType, EraseOrder
    <3>4. flash'.layer[0] = IF 0 = EraseOrder(usb.at) THEN Blank.layer[0] ELSE flash.layer[0]
      BY <3>2, <3>3, PutPuts, BlankType, LayerNumbers DEF Types
    <3>5. Blank.layer[0].edit = Gone
      BY LayerNumbers DEF Blank, Filled
    <3>6. usb.at = 0 => EraseOrder(usb.at) = 0
      BY LayerNumbers DEF EraseOrder
    <3>7. usb.at # 0 => flash.layer[0].edit = Gone
      BY <2>2, <3>2, <3>3, LayerNumbers DEF Emptied
    <3> QED
      BY <3>4, <3>5, <3>6, <3>7
  <2>4. Marked'
    BY <2>1, <2>2 DEF Marked
  <2>5. saver'.pc = "write" => Excused'
    BY <2>1, <2>2, <2>4 DEF Marked, Excused
  <2> QED
    BY <2>2, <2>3, <2>4, <2>5 DEF Copied, Emptied, Served, AtWork
<1>6. CASE Defaults
  <2>1. /\ usb.pc = "defaults" /\ usb'.pc = "idle" /\ saver.pc # "write" /\ saver' = saver
        /\ raced' = raced /\ faulted' = faulted /\ erased' = erased /\ flash' = flash /\ ram' = Factory
    BY <1>6 DEF Defaults, Unlocked, NoUsb, flashVars, historyVars
  <2>2. Excused \/ flash.layer[0].edit = Gone
    BY <2>1 DEF Emptied, Resetting
  <2>3. flash.layer[0].edit = Gone => UpToDate'
    BY <2>1, FactoryStays DEF UpToDate
  <2> QED
    BY <2>1, <2>2, <2>3 DEF Marked, Copied, Emptied, Served, Resetting, Excused
<1>7. CASE Reset
  <2>1. usb'.pc = "erase" /\ usb'.at = 0 /\ saver' = saver
    BY <1>7 DEF Reset, NoUsb
  <2>2. saver.pc = "write" => raced'
    BY <1>7 DEF Reset, Unlocked
  <2>3. Marked' /\ Copied'
    BY <2>1, <2>2 DEF Marked, Copied, Excused
  <2>4. Emptied' /\ Served'
    BY <2>1 DEF Emptied, Served, AtWork, Resetting
  <2> QED
    BY <2>3, <2>4
<1>8. CASE NvsReset
  <2>1. usb.pc = "idle" /\ usb' = usb /\ erased'
    BY <1>8 DEF NvsReset, EraseAll
  <2> QED
    BY <2>1 DEF Marked, Copied, Emptied, Served, Resetting, Excused
<1>9. CASE RestartCommand
  <2>1. /\ saver' = saver /\ sem' = sem /\ usb' = usb
        /\ raced' = raced /\ faulted' = faulted /\ erased' = erased /\ ram' = ram /\ flash' = flash
    BY <1>9 DEF RestartCommand, flashVars
  <2>2. UpToDate' <=> UpToDate
    BY <2>1 DEF UpToDate
  <2> QED
    BY <2>1, <2>2 DEF Marked, Copied, Emptied, Served, AtWork, Resetting, Excused, InFlash
<1> QED
  BY <1>1, <1>2, <1>3, <1>4, <1>5, <1>6, <1>7, <1>8, <1>9 DEF Command, UsbTask

LEMMA SaveInv ==
    ASSUME StorageInv, Save
    PROVE  Marked' /\ Copied' /\ Emptied' /\ Served'
<1> USE DEF StorageInv
<1>1. CASE Take
  <2>1. /\ saver'.pc = "delay" /\ usb' = usb /\ flash' = flash
        /\ raced' = raced /\ faulted' = faulted /\ erased' = erased
    BY <1>1 DEF Take, Waiting, flashVars, historyVars
  <2> QED
    BY <2>1 DEF Marked, Copied, Emptied, Served, AtWork, Resetting, Excused
<1>2. CASE OpenFails
  <2>1. saver'.pc = "wait" /\ usb' = usb /\ raced' = raced /\ faulted' /\ erased' = erased /\ flash' = flash
    BY <1>2 DEF OpenFails, NvsFails, Waiting
  <2> QED
    BY <2>1 DEF Marked, Copied, Emptied, Served, Resetting, Excused
<1>3. CASE Open
  <2>1. saver'.pc = "write" /\ saver'.at = 0 /\ usb' = usb
    BY <1>3 DEF Open, Waiting
  <2>2. Resetting' => raced'
    BY <1>3 DEF Open, Resetting
  <2>3. Copied'
    BY <2>1 DEF Copied
  <2> QED
    BY <2>1, <2>2, <2>3 DEF Marked, Emptied, Served, AtWork, Resetting, Excused
<1>4. CASE WriteBlob
  <2>1. /\ saver.pc = "write" /\ saver'.pc = "write" /\ saver'.at = saver.at + 1
        /\ saver.at \in 0..Last
        /\ usb' = usb /\ raced' = raced /\ erased' = erased /\ ram' = ram
    BY <1>4, LayerNumbers DEF WriteBlob, Types, SaverType
  <2>2. faulted' \/ (flash' = Put(flash, saver.at, ram) /\ faulted' = faulted)
    BY <1>4 DEF WriteBlob, NvsFails
  <2>3. Copied'
    <3>1. SUFFICES ASSUME ~Excused', NEW i \in 0..saver.at PROVE InFlash(i)'
      BY <2>1 DEF Copied
    <3>2. ~Excused /\ flash' = Put(flash, saver.at, ram)
      BY <2>1, <2>2, <3>1 DEF Excused
    <3>3. i # saver.at => InFlash(i)
      BY <2>1, <3>2 DEF Copied
    <3>4. i \in 0..Last
      BY <2>1, LayerNumbers
    <3>5. /\ \A j \in Layers : flash'.layer[j] = IF j = saver.at THEN ram.layer[j] ELSE flash.layer[j]
          /\ flash'.switch = IF saver.at = LayerCount THEN ram.switch ELSE flash.switch
          /\ flash'.active = IF saver.at = Last THEN ram.active ELSE flash.active
      BY <2>1, <3>2, PutPuts, KeymapStored DEF Types
    <3>6. i \in Layers \/ i = LayerCount \/ i = Last
      BY <3>4, LayerNumbers
    <3> QED
      BY <2>1, <3>3, <3>5, <3>6, LayerNumbers DEF InFlash
  <2> QED
    BY <2>1, <2>3 DEF Marked, Emptied, Served, AtWork, Resetting, Excused
<1>5. CASE Close
  <2>1. /\ saver.pc = "write" /\ saver.at > Last /\ saver'.pc = "commit" /\ usb' = usb /\ sem' = sem
        /\ raced' = raced /\ faulted' = faulted /\ erased' = erased /\ ram' = ram /\ flash' = flash
    BY <1>5 DEF Close, Waiting, flashVars, historyVars
  <2>2. saver.at - 1 = Last
    BY <2>1, LayerNumbers DEF Types, SaverType
  <2>3. Excused \/ UpToDate
    BY <2>1, <2>2, AllCopied DEF Copied
  <2>4. Excused' \/ UpToDate'
    BY <2>1, <2>3 DEF Excused, UpToDate
  <2> QED
    BY <2>1, <2>4 DEF Marked, Copied, Emptied, Served, Resetting, Excused
<1>6. CASE Commit
  <2>1. /\ saver.pc = "commit" /\ saver'.pc = "wait" /\ usb' = usb /\ sem' = sem
        /\ raced' = raced /\ faulted' = faulted /\ erased' = erased /\ ram' = ram /\ flash' = flash
    BY <1>6 DEF Commit, KeepSem, Waiting, flashVars, historyVars
  <2>2. UpToDate' <=> UpToDate
    BY <2>1 DEF UpToDate
  <2> QED
    BY <2>1, <2>2 DEF Marked, Copied, Emptied, Served, AtWork, Resetting, Excused
<1> QED
  BY <1>1, <1>2, <1>3, <1>4, <1>5, <1>6 DEF Save

LEMMA StayInv ==
    ASSUME StorageInv, Tick \/ UNCHANGED vars
    PROVE  Marked' /\ Copied' /\ Emptied' /\ Served'
<1>1. saver'.pc = saver.pc /\ (saver'.at = saver.at \/ saver.pc # "write")
  <2>1. CASE Tick
    BY <2>1 DEF Tick, Runnable, StorageInv, Types, SaverType
  <2> QED
    BY <2>1 DEF vars
<1>2. /\ usb' = usb /\ sem' = sem
      /\ raced' = raced /\ faulted' = faulted /\ erased' = erased /\ ram' = ram /\ flash' = flash
  BY DEF Tick, vars, flashVars, historyVars
<1>3. UpToDate' <=> UpToDate
  BY <1>2 DEF UpToDate
<1>4. \A i : InFlash(i)' <=> InFlash(i)
  BY <1>2 DEF InFlash
<1> QED
  BY <1>1, <1>2, <1>3, <1>4
     DEF StorageInv, Marked, Copied, Emptied, Served, AtWork, Resetting, Excused

\* The inductive invariant of the storage
LEMMA StorageInvariant == Spec => []StorageInv
<1>1. Init => StorageInv
  <2> SUFFICES ASSUME Init PROVE StorageInv
    OBVIOUS
  <2>1. UpToDate
    <3>1. Load(Blank) = Factory
      BY LayerNumbers DEF Load, Blank, Filled
    <3> QED
      BY <3>1, LoadTwice, BlankType DEF Init, UpToDate
  <2> QED
    BY <2>1, InitTypes DEF Init, StorageInv, Marked, Copied, Emptied, Served, Resetting, Waiting, NoUsb
<1>2. StorageInv /\ [Next]_vars => StorageInv'
  BY StepKinds, StepTypes, StartInv, CommandInv, SaveInv, StayInv DEF StorageInv
<1> QED
  BY <1>1, <1>2, PTL DEF Spec

\* When no task has anything left to do for the keymap, the next boot loads the
\* keymap in use, but for a failed NVS call, a save that overlapped a reset and
\* an erased flash.  (key_config_storage_save 378-408, the save task 536-552)
THEOREM NothingIsUnsaved == Spec => []NothingUnsaved
<1>1. StorageInv => NothingUnsaved
  BY DEF StorageInv, Served, AtWork, NothingUnsaved, Quiet, Resetting
<1> QED
  BY <1>1, StorageInvariant, PTL

\* An erased flash is of another schema until the restart
Unschemed == wiped => ~schema

\* After CMD_NVS_RESET the device starts with the factory keymap, whatever was
\* being saved or had been acknowledged.  (config_store.c 124-127)
THEOREM FactoryIsLoaded == Spec => FactoryAfterErase
<1>1. Init => Unschemed
  BY DEF Init, Unschemed
<1>2. Unschemed /\ [Next]_vars => Unschemed'
  <2> SUFFICES ASSUME Unschemed, [Next]_vars PROVE Unschemed'
    OBVIOUS
  <2> USE DEF Unschemed
  <2>1. CASE Command
    BY <2>1 DEF Command, SwitchLayer, Parse, UsbTask, Apply, RequestSave, EraseBlob, Defaults, Reset,
                NvsReset, EraseAll, RestartCommand, flashVars, historyVars
  <2>2. CASE Save
    BY <2>2 DEF Save, Take, OpenFails, Open, WriteBlob, Close, Commit, flashVars, historyVars
  <2>3. CASE Start
    BY <2>3 DEF Start, Restart, PowerLoss, Boot
  <2>4. CASE Tick \/ UNCHANGED vars
    BY <2>4 DEF Tick, vars, flashVars, historyVars
  <2> QED
    BY <2>1, <2>2, <2>3, <2>4, StepKinds
<1>3. Unschemed /\ [Next]_vars => (wiped /\ ~wiped' => ram' = Factory)
  <2> SUFFICES ASSUME Unschemed, [Next]_vars, wiped, ~wiped' PROVE ram' = Factory
    OBVIOUS
  <2>1. ~Command
    BY DEF Command, SwitchLayer, Parse, UsbTask, Apply, RequestSave, EraseBlob, Defaults, Reset,
           NvsReset, RestartCommand, flashVars, historyVars
  <2>2. ~Save
    BY DEF Save, Take, OpenFails, Open, WriteBlob, Close, Commit, flashVars, historyVars
  <2>3. ~Tick /\ ~UNCHANGED vars
    BY DEF Tick, vars, flashVars, historyVars
  <2>4. Boot
    BY <2>1, <2>2, <2>3, StepKinds DEF Start, Restart, PowerLoss
  <2>5. ram' = Load(Blank)
    BY <2>4 DEF Boot, Unschemed
  <2> QED
    BY <2>5, LayerNumbers DEF Load, Blank, Filled
<1> QED
  BY <1>1, <1>2, <1>3, PTL DEF Spec, FactoryAfterErase

----------------------------------------------------------------------------
(* The restart waits for the save task *)

\* A save is under way or requested
Unfinished == sem \/ saver.pc # "wait"

\* The ticks until the save task has served every request
TicksLeft == saver.delay + IF sem THEN SaveDelay ELSE 0

\* The save task is done before a restart after which nothing was changed
InTime ==
    /\ saver.pc # "delay" => saver.delay = 0
    /\ restart # Off /\ ~late =>
          /\ usb.pc \in {"idle", "apply"}
          /\ Unfinished => TicksLeft < restart

LEMMA Delays ==
    /\ SaveDelay \in Nat /\ RestartDelay \in Nat /\ Off = -1 /\ 0 < RestartDelay
    /\ \A d \in 0..SaveDelay : d + SaveDelay < RestartDelay /\ d + 0 < RestartDelay
BY DelayAssumption, RestartAssumption DEF Off

\* A scheduled restart leaves time for the save under way and for one more
LEMMA ScheduledInTime ==
    ASSUME Types, InTime, ScheduleRestart, usb.pc = "idle", UNCHANGED <<sem, saver, usb>>
    PROVE  InTime'
<1>1. saver.delay \in 0..SaveDelay
  BY DEF Types, SaverType
<1>2. TicksLeft < RestartDelay /\ TicksLeft' = TicksLeft
  BY <1>1, Delays DEF TicksLeft
<1>3. CASE restart = Off
  BY <1>2, <1>3 DEF ScheduleRestart, InTime
<1>4. CASE restart # Off
  BY <1>2, <1>4 DEF ScheduleRestart, InTime, Unfinished
<1> QED
  BY <1>3, <1>4

LEMMA CommandInTime ==
    ASSUME Types, InTime, Command
    PROVE  InTime'
<1>1. CASE \E l \in Layers : SwitchLayer(l)
  <2>1. late' /\ saver' = saver
    BY <1>1 DEF SwitchLayer
  <2> QED
    BY <2>1 DEF InTime
<1>2. CASE \E ls \in SUBSET Layers, sw, legacy \in BOOLEAN : Parse(ls, sw, legacy)
  <2>1. usb'.pc = "apply" /\ UNCHANGED <<sem, saver, restart, late>>
    BY <1>2 DEF Parse, historyVars
  <2> QED
    BY <2>1 DEF InTime, Unfinished, TicksLeft
<1>3. CASE Apply \/ Reset
  <2>1. late' /\ saver' = saver
    BY <1>3 DEF Apply, Reset
  <2> QED
    BY <2>1 DEF InTime
<1>4. CASE RequestSave \/ EraseBlob \/ Defaults
  <2>1. usb.pc \notin {"idle", "apply"} /\ UNCHANGED <<saver, restart, late>>
    BY <1>4 DEF RequestSave, EraseBlob, Defaults, historyVars
  <2> QED
    BY <2>1 DEF InTime
<1>5. CASE NvsReset \/ RestartCommand
  <2>1. ScheduleRestart /\ usb.pc = "idle" /\ UNCHANGED <<sem, saver, usb>>
    BY <1>5 DEF NvsReset, RestartCommand
  <2> QED
    BY <2>1, ScheduledInTime
<1> QED
  BY <1>1, <1>2, <1>3, <1>4, <1>5 DEF Command, UsbTask

LEMMA SaveInTime ==
    ASSUME Types, InTime, Save
    PROVE  InTime'
<1>1. UNCHANGED <<usb, restart, late>>
  BY DEF Save, Take, OpenFails, Open, WriteBlob, Close, Commit, historyVars
<1>2. CASE Take
  <2>1. sem /\ ~sem' /\ saver.pc = "wait" /\ saver'.pc = "delay" /\ saver'.delay = SaveDelay
    BY <1>2 DEF Take, Waiting
  <2>2. TicksLeft' = TicksLeft
    BY <2>1, Delays DEF TicksLeft, InTime
  <2> QED
    BY <1>1, <2>1, <2>2 DEF InTime, Unfinished
<1>3. CASE OpenFails \/ Open
  <2>1. /\ saver.pc = "delay" /\ saver.delay = 0 /\ saver'.delay = 0 /\ sem' = sem
    BY <1>3 DEF OpenFails, Open, Waiting
  <2>2. TicksLeft' = TicksLeft /\ Unfinished
    BY <2>1 DEF TicksLeft, Unfinished
  <2> QED
    BY <1>1, <2>1, <2>2 DEF InTime
<1>4. CASE WriteBlob \/ Close \/ Commit
  <2>1. saver.pc \in {"write", "commit"} /\ saver'.delay = 0 /\ sem' = sem
    BY <1>4 DEF WriteBlob, Close, Commit, KeepSem, Waiting, InTime, Types, SaverType
  <2>2. TicksLeft' = TicksLeft /\ Unfinished
    BY <2>1 DEF TicksLeft, Unfinished, InTime
  <2> QED
    BY <1>1, <2>1, <2>2 DEF InTime
<1> QED
  BY <1>2, <1>3, <1>4 DEF Save

LEMMA TickInTime ==
    ASSUME Types, InTime, Tick
    PROVE  InTime'
<1>1. PICK d \in 0..SaveDelay : d = saver.delay
  BY DEF Types, SaverType
<1>2. PICK r \in Off..RestartDelay : r = restart
  BY DEF Types
<1>3. UNCHANGED <<sem, usb, late>> /\ saver'.pc = saver.pc
  BY DEF Tick, historyVars, Types, SaverType
<1>4. saver'.delay = IF d > 0 THEN d - 1 ELSE d
  BY <1>1 DEF Tick, Types, SaverType
<1>5. restart' = IF r > 0 THEN r - 1 ELSE r
  BY <1>2 DEF Tick
<1>6. Unfinished => saver.pc = "delay" /\ d > 0
  BY <1>1, Delays DEF Tick, Runnable, Unfinished, Types, SaverType
<1>7. restart' # Off => restart # Off
  BY <1>2, <1>5, Delays
<1>8. Unfinished /\ TicksLeft < r => TicksLeft' < restart'
  BY <1>1, <1>2, <1>3, <1>4, <1>5, <1>6, Delays DEF TicksLeft
<1> QED
  BY <1>1, <1>2, <1>3, <1>4, <1>7, <1>8, Delays DEF InTime, Unfinished

LEMMA InTimeStep ==
    ASSUME Types, InTime, [Next]_vars
    PROVE  InTime'
<1>1. CASE Start
  <2>1. restart' = Off /\ saver'.delay = 0
    BY <1>1 DEF Start, Restart, PowerLoss, Boot, Waiting
  <2> QED
    BY <2>1 DEF InTime
<1>2. CASE UNCHANGED vars
  BY <1>2 DEF vars, historyVars, InTime, Unfinished, TicksLeft
<1> QED
  BY <1>1, <1>2, StepKinds, CommandInTime, SaveInTime, TickInTime

\* A restart that was commanded after an edit does not lose it: the 600 ms outlast
\* the saves that may still be under way or requested, even if the first one fails.
\* (webusb_protocol.cpp 47-53, key_config_storage.cpp 541)
THEOREM RestartWaits == Spec => RestartKeepsEdits
<1>1. Init => InTime
  BY DEF Init, InTime, Waiting
<1>2. Spec => []InTime
  <2>1. StorageInv => Types
    BY DEF StorageInv
  <2> QED
    BY <1>1, <2>1, StorageInvariant, InTimeStep, PTL DEF Spec
<1>3. StorageInv /\ InTime => (Restart => late \/ Excused \/ UpToDate)
  <2> SUFFICES ASSUME StorageInv, InTime, Restart, ~late PROVE Excused \/ UpToDate
    OBVIOUS
  <2>1. restart = 0 /\ restart # Off
    BY Delays DEF Restart
  <2>2. TicksLeft >= 0
    BY Delays DEF TicksLeft, StorageInv, Types, SaverType
  <2>3. ~Unfinished /\ usb.pc \in {"idle", "apply"}
    BY <2>1, <2>2, Delays DEF InTime, TicksLeft, StorageInv, Types, SaverType
  <2> QED
    BY <2>3 DEF StorageInv, Served, AtWork, Resetting, Unfinished
<1> QED
  BY <1>2, <1>3, StorageInvariant, PTL DEF RestartKeepsEdits

============================================================================
