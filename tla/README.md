# Verification of the MI-RC003 ESP32 bridge

TLA+ models of the firmware in `src/main`: an ESP32-S3 that connects to a Xiaomi
voice remote over Bluetooth LE and appears to a PC as a composite USB device
(keyboard, consumer keys, mouse, microphone, and a WebUSB configuration channel).
Line numbers below are of the files under `src/`.

## 1. The system

### Components, their state and their operations

| Component | Source | State | Operations |
|---|---|---|---|
| Key state machine | `main/keymap/key_state_machine.c` | layers and switch map, 13 slots, active layer, switch mode, rapid-TV counter, telemetry time | `feed_key`, `tick`, `switch_layer`, `enter_switch_mode`, `release_all`, `load_defaults` |
| Keymap storage | `main/keymap/key_config_storage.cpp`, `main/storage/config_store.c` | blobs in NVS, a binary semaphore, the save task | `save`, `load`, `from_json`, `reset_defaults`, NVS erase |
| HID bridge | `main/usb/hid_bridge.c` | transport flag, pressed flags, mouse buttons, pending releases | press, release and mouse reports, dispatch of an action, the retry task |
| USB events | `main/usb/usb_composite.c` | `s_usb_mounted`, `s_usb_recovering`, a task notification | attach, detach, suspend, resume, recovery |
| BLE client | `main/ble/ble_remote_client.c` | connection state, handles, pressed usages, connected, bound and pending addresses, request flags | GAP and GATT callbacks, the bridge loop, connect, reconnect, unpair |
| Voice path | `main/audio/audio_pipeline.c`, `audio_ring_buffer.c`, `main/usb/uac_microphone.c` | ring, session flags, endpoint, watchdog count | start, stop, feed, read, control requests, watchdog |
| WebUSB commands | `main/webusb/webusb_protocol.cpp` | upload buffer | one handler per command |
| WebUSB bytes | `main/usb/webusb_transport.c`, `webusb-config/assets/mi-rc003.js` | accumulators on both sides, the request chain of the page | frame, reassemble, answer |
| Configuration page | `webusb-config/assets/app.js` | keymap on screen, dirty flag, last `config_rev`, timers | connect, poll, load, save, reset, edit, raw JSON upload |
| LED | `main/led/led_indicator.c` | base state, flags, animation | set state, set flag |

### Tasks and how they interact

* The **NimBLE host task** runs the GAP and GATT callbacks, feeds key edges to the key
  engine and decodes audio into the ring.
* The **bridge task** runs `ble_remote_task` and `key_engine_tick` every 5 ms.
* The **TinyUSB task** runs the bus event callback and executes the page's commands.
* The **recovery**, **HID retry**, **UAC stream**, **UAC watchdog**, **keymap save** and
  **restart** tasks each do one thing.

The key engine's recursive mutex is held by every handler of the engine and through
each action it emits, the HID mutex by every report; nothing else is locked. The
Bluetooth client shares plain flags and strings between three tasks, the ring is
lock-free, and the transport flag is written by two tasks. The page is single-threaded,
but each of its async functions is interrupted at every call to the device.

### What is hard here, and what makes each part correct

* *Key engine*: the loops emit actions that change layers under the loop; gestures span
  several edges and ticks. Correct: a gesture is resolved in the layer it began in, no
  press is answered twice, what was held is released, the mode cannot trap its user.
* *HID and USB*: one endpoint of depth one for three collections, refused reports,
  suspend and resume from other tasks. Correct: the host never holds a key that the
  firmware has forgotten, releases arrive, the transport comes back after resume.
* *Storage*: a delayed save that requests, restarts, erasures and power failures cross.
  Correct: the next boot loads the keymap in use.
* *Bluetooth*: callbacks, loop and page requests in any order over a link that may
  vanish. Correct: keys follow the reports of this connection, voice ends, the bound
  remote is the one connected and is found again, unpair forgets it.
* *Audio*: a lock-free ring that a third task clears. Correct: order, no sample of an
  older session, no stranded samples, no stream that stays silent.
* *Configuration*: a byte stream in which nothing names the request it answers, one upload
  buffer, functions that all await the same link. Correct: an answer is that of its
  request, an upload is taken over whole or not at all, the screen follows the device
  and does not drop edits.
* *LED*: written by five handlers of three kinds. Correct: it shows no remote that is gone.

The complete list, with lines, is under `hazards` in `PROJECT.json`.

## 2. Modules

Each module models one component with its environment. Time is in abstract units or
left out; payloads are numbers or model values.

**`KeyEngine.tla`** (checked through `MCKeyEngine.tla`). `st` is `engine->states`,
`keymap` the layers and the switch map, `mode` the switch mode, `tv` the rapid-TV
counter, `host` what the actions so far leave held. `FeedKey` is `key_engine_feed_key`
with its press, release and switch-mode branches, `FeedOther` a raw code without a slot, which only
restarts the inactivity timeout of a timed layer; `Emit` is `emit_action` with its
layer changes; `Effective` is the resolution of transparent bindings. The slot loops of
`key_engine_tick` (`TickLong`, `TickHeld`, `TickDouble`) and of
`key_engine_release_all` (`SweepSlot`, `SweepEnd`) take a step per slot, so every
emission is a state. Nested release loops continue the outer one: a slot is marked
released before its action is emitted, so they never answer a slot twice.
`SetLayer`, `ApplyConfig`, `LoadDefaults` are the page's commands, and `UsbCommands`
says which of them a run allows. A binding has an action when its type is not NONE (`Has`): the
parser and the factory keymap set `has_click` and its kin that way. A layer has its own timeout. `credit`, `born` and `orphan` are history: presses
not yet answered, the layer a gesture began in, and whether slots were wiped under
an output that was held.

**`HidBridge.tla`** (`MCHidBridge.tla`). `enabled`, `held` and `pending` are the
static flags of `hid_bridge.c`; `op`, `usb`, `rec` are the calls each task still has to
make, so that another task may come between two critical sections. `Dispatch` puts
the calls of `usb_hid_dispatch_action` there, `RetryPick` reads a pending flag without
the mutex and `RetrySend` acts on it, `UsbStep` and `RecoveryStep` execute the
callback and the recovery task. The host (`Enumerate`, `Unplug`, `Suspend`, `Resume`,
`Poll`) is the environment.

**`KeymapStorage.tla`**. A keymap is the number of the edit that wrote each layer.
`ram` is the engine, `flash` the blobs. The save task is `Take`, `Open`, one
`WriteBlob` per NVS call, `Close` and `Commit`; `Parse`, `Apply`, `RequestSave`,
`Reset`, `EraseBlob`, `Defaults`, `NvsReset`, `RestartCommand` are the commands.
Any NVS call, an erasure included, may fail (`NvsFails`).
`PowerLoss` may come at any step, and `Boot` is `app_main` up to the loaded keymap, which may find the
partition unusable and erase it (`config_store.c` 18-22).

**`BleClient.tla`** (`MCBleClient.tla`). `state`, `peer`, `started`, `pressed`,
`connected`, `bound`, `pending` are the static variables of the client, `stage` the
GATT procedure under way. Each section of `ble_remote_task` is an action
(`Connect`, `Fallback`, `ScanAgain`, `Persist`; the requests in two, `ReadRequests` and
`ServeRequests`, because a request that another task raises in between is cleared unserved), each callback
another; `Unpair` and `UnpairRequest` are the two ends of `ble_remote_unpair` around its
flash writes. `led` is the base state of the LED: waiting for a remote, or one of the
two states, connected and streaming, that speak of a remote. The client writes it itself (`Waits`, `LedOff`),
and so do the voice actions that the key engine may or may not emit for an edge it is fed (`Fed`) or, as
long as it may hold keys (`busy`), at any later moment (`EngineActs`). Which of the two it is
depends on the engine's slots and is left out. The remotes and the controller are the environment.

**`AudioPipeline.tla`**. Every access to a variable that two tasks share is a step:
start and stop are lists of assignments (`StartSteps`, `StopSteps`) run by
`ControlStep`; feeding is room, store, publish, and the test of the prefill in three
(`FeedCheck`, `FeedMeasure`, `FeedPrefilled`), after which the next frame of the same notification
may follow without another look at `active` (a session that is stopped and started in between may have its prefill
ended by what was measured before); reading is active, buffering, available, the two
loads of the snapshot (`LoadHead`, `LoadTail`, and `Resync` when they do not fit), copy, publish,
queue. `available_read` is two loads too, but its result only limits how much is read, and is what an
atomic one could have given at the first load or after the clear. A sample is its number and its session. `Look` and `Recover` are
the watchdog. Its guard carries one fact about time: a recovery comes 50 ms after the
last completed transfer, while the stream task and a host that fetches take 2 ms.

**`SampleQueue.tla`** is what the ring promises its users, a bounded queue that takes the
beginning of a frame and can be cleared. `AudioPipeline` states that it implements it,
`IsQueue`, with `INSTANCE SampleQueue` where the queue is the part of the ring between tail
and head. Nothing locks the ring: after a `clear` in the middle of a read or write
(`overlap`) the content is `open` until a clear that is not interrupted. A read is in the middle from
the load of the head on: a clear between the two loads makes the tail look ahead of the head, and
`Resync` puts it back behind the clear, so that samples of the last session are heard in the
next. The comment at `audio_ring_buffer.c` 59-60 takes the two loads for a snapshot, which they are not.

**`WebUsbLink.tla`** is the byte link, both ends: the request chain and `_send` of the
page (`Begin`, `Refuse`, `Fail`), its frame reader (`Fetch`, `Answer`), the packets of the
device (`Collect`, `Execute`, from `tud_vendor_rx_cb`), an answer that the FIFO takes or
cuts off (`WriteAll`), and `Connect`, `Close`, `BusReset`, `Restart`. A frame is a header
and the units that it announces, a unit what one USB packet carries; neither end knows
which request a unit belongs to.

**`RequestAnswer.tla`** is what the page's author relies on: calls are served one at a
time in order, each is run at most once, and an answer is the answer of that run.
`ConfigPage` implements it (`KeepsPromise`) under the mapping
`waiting <- chain, current <- flight`.

**`ConfigPage.tla`** (`MCConfigPage.tla`) composes that link with the functions of the page
and the commands that they send. Each async function is a script of calls (`Script`);
`Continue` is what happens when one of them is answered or rejected, so between two calls
every other function, the poll timer (`Poll`) and the user (`Edit`, `Save`, `Reset`, `Reload`,
`Apply`, `PageConnect`, `PageClose`) go on. Functions of one call (`Singles`: the poll and the read of the
keymap) may be open any number of times, as nothing in the page keeps them from it. `Apply` is the JSON dialog: the text may be a keymap,
none (`Garbage`), or too long for the device (`Long`), and is on screen before the device has seen
it. A restarted device finds any keymap in flash that was ever saved (`kept`), and may find no heap for its buffer
(`room`). `Handle` is the command handler, with the one buffer of
BEGIN, DATA and COMMIT. A document is the number of the edit that made it.

The components meet in the outputs of one and the inputs of the next: key edges
(`BleClient.down`, `KeyEngine.phys`), actions (`KeyEngine.out`, `HidBridge` operations,
`AudioPipeline.Start` and `Stop`), save requests (`KeyEngine.saveReq`,
`KeymapStorage.SwitchLayer`). `ConfigPage.Handle` applies a keymap in one step, which
`KeyEngine.ApplyConfig` and `KeymapStorage.Parse` detail. Each model lets its environment do everything the
neighbour may do.

## 3. Runs

Counts are distinct states.

| Run | Instance | Checks |
|---|---|---|
| `KeyEngineMode` | factory bindings of POWER, UP, TV; 2 layers; set layer, apply; 749k | `TypeOK`, `GestureLayerStable`, `ReleasedMeansIdle`, `LedShowsMode`, `TvTailCannotExit` |
| `KeyEngineGesture` | 3 keys, 3 layers (persistent, one-shot, timed), every gesture; 216k | `GestureLayerStable`, `NoPressServedTwice`, `ReleasedMeansIdle` |
| `KeyEngineLive` | a double-click key and TV, a reset that takes the double action away; fair; 22k | `ModeIsLeft`, `ClickNotLost` |
| `KeyEngineSilence` | factory volume key with repeat | `ModeIsSilent` is violated |
| `KeyEngineButton` | a mouse button on UP | `ButtonsFollowKeys` is violated |
| `HidBridge` | 2 codes, 1 operation, 1 bus event; fair; 183k | `TypeOK`, `NothingForgotten`, `ReleaseReachesHost` |
| `HidResume` | 2 bus events, no operation | `TransportComesBack` is violated |
| `KeymapStorage` | 2 layers, 1 edit, 3 commands or power failures, 1 NVS fault; fair; 690k | `TypeOK`, `NothingUnsaved`, `SavedInTheEnd`, `RestartKeepsEdits`, `FactoryAfterErase` |
| `BleClient` | 2 remotes, 2 keys, 2 page requests, 2 radio events; fair; 604k | `TypeOK`, `KeysFollowReports`, `VoiceIsReleasable`, `LedTellsTruth`, `BoundWasConnected`, `BoundComesBack` |
| `BleUnpair` | 1 remote, 1 page request | `UnpairForgets` is violated |
| `AudioPipeline` | ring of 4, indices mod 16 from 14 on, frames of 3, transfers of 2, 2 sessions, 2 frames, 1 stall; fair; 629k | `TypeOK`, `InOrder`, `OwnSession`, `IsQueue`, `PlayedOut`, `StreamGoesOn` |
| `ConfigPage` | documents of 2 chunks, one too long for the FIFO; 2 edits, 2 clicks or ends of a connection; fair; 477k | `TypeOK`, `CommitIsOwn`, `EditsKept`, `KeepsPromise`, `CallsEnd`, `ScreenCatchesUp` |

### Bounds

* *Key engine*: ages saturate at the largest value the code compares them with, so
  time is unbounded. Three rapid presses stand for five (`TvPressCount`) and the
  intervals are one to three units: only their order matters, and every order of an
  edge, a tick and a deadline occurs.
* *HID*: the operation is any action on any collection, and the bus event comes at any of
  its steps and of the recovery that follows. Enumeration, resume and polling are not
  counted. Longer sequences of operations and events are left to the proofs of
  `HidTypeCorrect` and `NothingLost`, which have no such bound.
* *Storage*: one edit before, during and after the save, with three further commands,
  is enough to overlap a save with a second request, a reset and a restart. Two
  layers, the switch map and the active layer make a save of four writes to be torn.
  The ratio of 150 ms to 600 ms is kept (`SaveDelay` 1, `RestartDelay` 4).
* *Bluetooth*: two requests and two events cover a loss during a requested reconnect
  or connect; two remotes are what a wrong binding needs.
* *Audio*: a frame longer than the free part of the ring, a ring that fills, indices
  that wrap (`Origins`: they stand at 14 of 16, as after many earlier sessions, and six samples come), a last transfer that is not full, two sessions for the leftovers of one to
  reach the other, and one stall at any point of it.

* *Configuration*: a request of one or two units and an answer of one to four over a FIFO of
  three (`FifoSize`) and an accumulator of two (`AccSize`) make a request in two packets, an
  answer fetched in parts, and one that is cut off (`BigDocs`). `BufSize` 4 holds two uploads
  of two chunks each. Two clicks or ends of a connection are a save that overlaps an upload, a
  restart inside an upload, or a connection that is closed and opened again with something left in
  it. Connecting and polling are not counted. The code starts a poll every second, answered or not, and
  they queue without end while a call hangs; a poll is added only while fewer than `MaxWaiting` calls wait (1 in the run,
  besides the one in flight, so that two polls may be under way), a bound of the state space and of nothing else: the
  theorems hold for any.

`CHECK_DEADLOCK FALSE` is set where the bounds end the behaviour: a device nobody
touches any more may rest.

### Fairness

* `KeyEngine.FairSpec`: the loops run on (weak); the tick of the bridge task and the
  passing of time are strong, for each is disabled while another handler holds the
  mutex. A FreeRTOS mutex queues its waiters by priority and the handlers are short,
  so the tick gets it.
* `HidBridge.FairSpec`: weak for each task's next call, the retry task (a 5 ms loop) and
  the host's polling.
* `KeymapStorage.FairSpec`: the save and TinyUSB tasks run and time passes.
* `BleClient.FairSpec`: weak for the sections of the 5 ms loop, the disconnect callback
  and a failing attempt (NimBLE gives up after 10 s); strong for hearing a remote
  that keeps advertising and for connecting to it: radio reception that fails for
  ever is not the program's doing.
* `AudioPipeline.FairSpec`: weak for each task, and for the host's fetches while it
  streams.
* `ConfigPage.FairSpec`: weak for the page's next step, its poll timer or the device's next packet,
  whichever is there. Nobody is obliged to click or to connect.

### What the violated properties show

* `ModeIsSilent`: `feed_key` marks keys pressed in the switch mode
  (`key_state_machine.c` 569-570), and the slot loop of `key_engine_tick` does not look at
  the mode, so a repeat or long action is emitted. The comment at 563-564 and
  `README.md` 189 say that nothing is.
* `ButtonsFollowKeys`: `enter_switch_mode` wipes the slots (261) and releases nothing;
  with the rapid-TV entry a mouse button that another key holds stays down after the
  key is let go. `README.md` 215-216 says it is released.
* `TransportComesBack`: a resume callback between the recovery's restore and line 79 of
  `usb_composite.c` disables the transport and does not notify the task. The comment at
  47-49 names this outcome as the one to avoid.
* `UnpairForgets`: `ble_remote_unpair` clears the bound address first and raises
  `s_req_unpair` last; the persist section of the loop runs in between
  (`ble_remote_client.c` 1013) and saves the address again. `ble_remote_client.h` 39
  says the saved remote is deleted.

### What the passing properties excuse

Where the code gives up a guarantee, the property says when: `ReleasedMeansIdle` sets
aside outputs whose slots were wiped under them (`orphan`), `VoiceIsReleasable` a TALKING
state overwritten for another reason, `BoundWasConnected` an address overwritten by a refused
attempt (`hijacked`), `NothingUnsaved` a failed NVS call and a save that overlapped a reset,
`InOrder` and `OwnSession` a `clear` in the middle of a read or write (`overlap`). Each
of these is reachable, and listed as a hazard.

`ClickNotLost` says that a press that waits for a second one is handed over as a click. The code drops it
when a `release_all` takes the slot (849-850: suspend, disconnection, layer change) and when the
switch mode is entered (261), and the property excepts these; pressing the key again is the double. A keymap
that is uploaded clears the slots too (`key_config_from_json`) and is not issued in that run; a reset does not, and is.

`BoundComesBack` says of the bound remote, while it is awake, that it is connected again and again, except

* while a scan was cancelled for an address that does not parse (`Deaf`): nothing starts one again;
* while the one connection belongs to another remote and the program does not end it (`Occupied`): its
  discovery failed, or its address was overwritten by a refused attempt or cleared by an unpair
  served during the attempt, so that the persist section does not make it the bound one.

Without any one of these four TLC finds the bound remote left out for ever.

`LedTellsTruth` does not say that the LED shows the microphone only while the voice key is down, because the code
does not keep that: after `enter_switch_mode` has wiped the slots (261) the voice key's release is
swallowed by the mode (609-613), and the LED keeps streaming until the next voice action or disconnection.

For the configuration page the excuses are what the code really does:

* `fresh`: `connect` empties the reader of the page but not the device. An answer that was not
  fetched before `disconnect` is taken for the answer of the next connection's first call, and
  every later answer is one late. A request cut short by `disconnect` stays in `s_rx_acc`, and
  the next request counts as the rest of it. `KeepsPromise` and `CommitIsOwn` hold
  for connections that begin with nothing left.
* `cut`: an answer longer than the vendor FIFO is cut off, the page waits for the rest
  without a timeout, and all later calls wait behind it. `CallsEnd` and `ScreenCatchesUp`
  except such a connection from then on (`Stuck`).
* `torn`: `btn-json-apply` does not look at `savingKeymap`, so its upload may come between
  the chunks of a save. Both are refused, and the page goes on showing a document
  that the device does not have. An upload that continues after a restart is refused
  too, with an empty buffer.
* `refused`: a typed text is on screen before the device has seen it. When the device refuses it, `dirty` and
  `config_rev` stay as they were, so the page goes on showing it as if it were saved until
  something else is read.
* `mine`: an edit made while a load or save awaits its answer is overwritten by that answer,
  also when the load was begun by a poll, and connecting again reloads over unsaved edits. `EditsKept` is about edits made while
  nothing but polls is under way, until a COMMIT succeeds or the user connects, reloads, resets or applies a text.

`NothingForgotten` is about the host; the LED is not in it: a tap whose report was rejected
(`hid_bridge.c` 131) leaves `s_keyboard_pressed` set without a key down, which the next
keyboard action corrects.

## 4. Proofs

`KeyEngineProofs.tla`, `KeyEngineSafety.tla` and `KeyEngineOutputs.tla`, for every finite or infinite set of
keymaps, every set of keys within 0..12, layers within 0..4 and time constants in `Nat`
(the assumptions named in `KeyEngine.tla`):

* `TypeCorrect`: `Spec => []TypeOK`. `TypeOK` is inductive. It is split into the part
  that emission can disturb (`CoreOK`) and the rest; one lemma per action, and one for
  each shared operator: `EffectiveLegal` (a resolved binding names existing layers,
  transparent or not), `CompletedLegal`, `SwitchLayerTypes`, `EmitTypes`.
* `GestureCorrect`: `Spec => []GestureLayerStable`. The property excuses a running release
  loop, so it is not inductive: when the loop ends, nothing known of it says that the
  slots are idle. `GestureInv` adds that every slot the loop has passed is idle
  (`Stable`), and that a loop that restarts from a layer change continues at its place.
* `LedCorrect`: `Spec => []LedShowsMode`, inductive with `TypeOK`.
* `PressesServedOnce`: `Spec => []NoPressServedTwice`. The property is about `credit`, which
  falls with an answer and rises with a press; that it never goes below zero needs what every
  state of a slot still has to come. `PaidInv` says it slot by slot (`Owed`, `Covered`, `Settled`): a slot that may
  still answer is backed by a credit, one whose long or held action is out has spent it, and a
  release loop backs no answer of a slot that it has passed. It stands on `GestureInv`, for a slot
  that changed its layer could be answered by two bindings.
* `HoldsAreReleased`: `Spec /\ []HoldsAreUndone => []ReleasedMeansIdle`. `HoldInv` says for each output
  the host holds which slot holds it (`HeldBy`): a slot whose held or long action emitted it, in the
  layer the slot remembers, not yet passed by a release loop; otherwise it is an orphan. The hypothesis says that every hold
  that a binding begins is undone by the release of the same binding, and that none is begun in the
  switch mode. The
  factory keymap and every keymap of `KeyEngineMode` and `KeyEngineGesture` satisfy it;
  a keymap that gives a key both a voice click and a long or double action does not. The short action is then
  emitted on key-up as a press and a release in one step for every kind but voice, for which
  `emit_action_as_tap_if_hold` (210-222) has no case: the session starts when the key goes up and nothing ends it.
  `app.js` 918 offers voice for every gesture.
* `TvTailStays`: `Spec => TvTailCannotExit` when no keymap's switch map names TV, which is the case the
  comment at 585 thinks of. The lockout guards only the exit by the entry key: with TV in the map, which the page does not
  offer but the parser takes, `find_switch_target` (600) ends the mode on the tail of the presses that opened it.

`GestureCorrect`, `LedCorrect`, `PressesServedOnce` and `HoldsAreReleased` assume `"reset" \notin UsbCommands`: `key_engine_load_defaults` (309-312)
ends the switch mode without telling the LED and replaces the keymap while keys are
held, so neither holds across a reset by the page.

`BleClientProofs.tla`, for any set of remotes, names, targets and key usages and any
bounds that satisfy the assumptions named in `BleClient.tla`:

* `KeysCorrect`: `Spec => []KeysFollowReports`, inductive as it stands.
* `VoiceCorrect`: `Spec => []VoiceIsReleasable`. A failed attempt and a new connection
  change `state` without looking whether it is TALKING; `LinkOK` says why that loses no
  session: there is one link or one attempt, an attempt excludes a ready remote, and
  without a connection no key is down.
* `BoundCorrect`: `Spec => BoundWasConnected`. `AddressOK` says what `s_connected_mac`
  means: the remote being connected to while there is an attempt, the connected one
  while there is a link, or the record of an overwritten address (`hijacked`).

* `LedTruthful`: `Spec => []LedTellsTruth`, with `LinkOK`: a lit LED needs a peer, and without one the key engine
  is at rest (`busy`), for the disconnect callback releases all keys before it puts the LED to waiting, so
  that no action comes after it.
* `BleTypeCorrect`: `Spec => []TypeOK`, which includes that the controller does not scan while it
  connects.

`HidBridgeProofs.tla`, for any codes and any number of operations and bus events:

* `HidTypeCorrect`: `Spec => []TypeOK`; the lists of calls of the tasks are tails of the
  lists the handlers put there.
* `NothingLost`: `Spec => []NothingForgotten`. While the transport is on, a code that the
  firmware has forgotten is in a pending flag, in the hands of the retry task, or in a list
  that still releases its collection (`Covered`). While it is off the property says nothing,
  so it is not inductive: `ListsOK` adds that every list that enables the transport releases
  all collections after that (`Whole`), also when the recovery task still waits.

`KeymapStorageProofs.tla`, for any number of layers, edits, commands, power failures and
NVS faults, and any delays that satisfy `RestartAssumption`, which only the last theorem uses:

* `StorageTypeCorrect`: `Spec => []TypeOK`. Whatever a torn save leaves in flash, the active
  layer and the bindings that are loaded exist.
* `NothingIsUnsaved`: `Spec => []NothingUnsaved`. The property speaks of quiet states, so it
  says nothing before one. `StorageInv` adds what a save has achieved half-way: the blobs it
  has passed equal the keymap in use (`Copied`), for an edit in between would have raised the
  semaphore; a reset has taken layer 0 out of flash before it goes on (`Emptied`); and unless
  the next boot would load the keymap in use, some task has yet to look at it (`Served`).
* `FactoryIsLoaded`: `Spec => FactoryAfterErase`. Until the restart flash has no schema,
  and without one nothing of it is loaded.
* `RestartWaits`: `Spec => RestartKeepsEdits`. `InTime` counts the ticks until the save task has served every
  request (`TicksLeft`: what is left of the delay, and another delay if the semaphore is raised) and keeps them below
  those until the restart. It needs `RestartAssumption`, `2 * SaveDelay < RestartDelay` (2 * 150 ms < 600 ms in the
  code), and not merely `SaveDelay < RestartDelay`: the save that is under way when the command comes may fail, and the request
  that waits behind it is then the one that matters.

`AudioPipelineProofs.tla`, for any capacity, frame and transfer sizes, sessions, frames and stalls, with indices
modulo a multiple of the capacity, as 32-bit indices are of the power of two that the code has:

* `AudioTypeCorrect`: `Spec => []TypeOK`.
* `SamplesInOrder`, `SessionsApart`: `Spec => InOrder`, `Spec => OwnSession`.
* `RingIsQueue`: `Spec => IsQueue`, the refinement of `SampleQueue`: the store of samples and the move of
  the tail are stutters, the move of the head is `Put`, the copy is `Take`.

All rest on `RingInv`: unless a `clear` came in the middle of a read or write (`overlap`),
`Current` - what producer and consumer hold of the indices is still true where they rely on it: the
producer's head and the consumer's tail are the ring's, the head of a snapshot lies between tail and
head, and nothing is put back (`Resync`) -, `Ordered` - from tail to head the samples are in order, of the
session that is on, and those not yet copied were not heard - and `Stored` - the cells behind the head hold
what the write under way has stored. Indices modulo `Modulus` keep their distance at most the capacity, which
is what makes differences of wrapped indices lengths and the cells distinct. `Origins` is any set of
indices. The exception is no convenience: with it dropped, TLC finds `OwnSession` violated by a clear in
either window, after the first load or after the copy.

`ConfigPageProofs.tla`, for any number of parts from one, documents, edits and events, a vendor FIFO of any
size from one, buffers of any size, and an accumulator that holds every request (`FitAssumption` of `WebUsbLink`):

* `ConfigTypeCorrect`: `Spec => []TypeOK`, with the bounds that `TypeOK` contains; none is on the calls that
  wait. Each function of several calls has one of them at a time, in the chain or in flight
  (`CallsInv`). `runs` stays below three and the FIFO within its size by `LinkSizes`: the accumulator holds the
  head of the frame in flight and `wire` its end, so a packet completes one frame at most. `config_rev`
  is at most the number of events by `RevInv`: a writing function owes one change from the click that started it
  until its last writing command has run, and `config_rev` plus what is owed never exceeds the clicks.
* `CommitsOwnUpload`: `Spec => []CommitIsOwn`. Save and import share one buffer in the device and one chain in the
  page, so their commands may alternate. `Turn(t)` is the command at which an upload arrives
  next, `Recent(t)` says that it was the last to arrive, `Before(t, u)` that its next comes first in the
  chain. Over a connection that began empty (`UploadInv`): the last chunk in the buffer is that of the
  upload that ran last (`LastOwn`); an upload during which no other ran finds exactly what it
  sent (`Prefix`); and when the buffer holds the whole document of the other upload, that one is at
  its COMMIT and comes first (`NotForeign`), which empties the buffer; a text that is too long never comes to its
  COMMIT (`NotTooLong`).
* `EditsSurvive`: `Spec => EditsKept`. While there is an unsaved edit that was made when nothing but polls was under way (`mine`), the page is
  dirty, and no function runs that replaces the screen, but for the poll, which leaves a dirty page alone, and a save
  that has not been told that its COMMIT was done (`Unsaved`).
* `PromiseKept`: `Spec => KeepsPromise`, the refinement of `RequestAnswer`. Neither end
  identifies an answer, so the argument is about everything the link contains
  (`Own`): over a connection that began empty it is nothing while no call is served;
  otherwise it is the units of that call's request in order, not yet run (`Going`), or
  the units of its one answer, some of them perhaps cut off (`Coming`). A connection that
  did not begin empty keeps the order of calls only.

Every property proved was an invariant or property of a TLC run first. Proved facts about sequences are taken from
the library (`SequenceTheorems`); no fact is assumed.

Only model-checked: every liveness property
(fairness and `ENABLED` are outside the prover).

## 5. Not modelled

The page's rendering, dialogs, log, telemetry and Bluetooth panels, whose calls do not
touch the keymap; the static flash page; USB descriptors, which are constant data; the
ADPCM decoder, filters and gain, which compute sample values and do not influence control;
the log ring, which only the page's log command reads; the animation, priorities and driver
of the LED, which nothing in the program reads; battery, model number and device list of the
Bluetooth client; the text of JSON documents; the wrap of the millisecond clock (times are
ages); build scripts.

Modelled without a property, because the code has no rule to compare with: the release that the
HID retry task decides on while a press comes in (`RetryPick`, `RetrySend`).

## 6. Plan

1. Done: all components with control state, six specifications checked on twelve
   instances, two refinements, and theorems about every one of the six.
2. Done: a theorem for every invariant, action property and refinement of the passing runs.
3. A composition of `BleClient`'s key edges with `KeyEngine` for a lost link in the middle of a
   gesture; today each model lets its environment do what the other may do.
