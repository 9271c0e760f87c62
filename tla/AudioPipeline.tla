--------------------------- MODULE AudioPipeline ---------------------------
(***************************************************************************)
(* The voice path: audio_pipeline.c and audio_ring_buffer.c between the     *)
(* Bluetooth host task, which decodes frames into the ring, and the stream  *)
(* task of usb/uac_microphone.c, which fills isochronous transfers from it. *)
(* Sessions are started and stopped by actions of the key engine, under its  *)
(* lock, in the task that decodes or in another one (the TinyUSB task on     *)
(* suspend, the bridge task on a long press); a lost link also stops the     *)
(* session, without the lock.  The pipeline itself has none: every access   *)
(* to a shared variable that another task may come between is a step.  A     *)
(* sample is its number and its session; filters, gain, the mute and fade   *)
(* at the start change its value only and are left out.                     *)
(*                                                                          *)
(* The host and the DWC2 endpoint are external: a queued transfer is        *)
(* fetched, or the endpoint stalls until it is disabled and cleared.        *)
(***************************************************************************)
EXTENDS Naturals, Sequences

CONSTANTS
    Capacity,   \* AUDIO_RING_BUFFER_SIZE, a power of two
    Modulus,    \* range of the indices (2^32), a multiple of Capacity
    Origins,    \* where the indices may stand in an empty ring: 0 at boot, anywhere later
    FrameSize,  \* samples of a decoded frame
    ReadSize,   \* samples of a transfer
    Prefill,    \* AUDIO_JITTER_PREFILL_SAMPLES
    StuckLimit, \* looks of the watchdog before it recovers the endpoint
    MaxFrames, MaxSessions, MaxStalls,  \* bounds
    MaxHost     \* bound: requests of the USB host, session ends, starts by another task

ASSUME RingAssumption == /\ Capacity \in Nat \ {0}
                         /\ Modulus \in Nat \ {0} /\ Modulus % Capacity = 0
                         /\ Modulus > Capacity
                         /\ Origins \subseteq 0..Modulus - 1
ASSUME SizeAssumption == {FrameSize, ReadSize, Prefill, StuckLimit} \subseteq Nat \ {0}
ASSUME BoundAssumption == {MaxFrames, MaxSessions, MaxStalls, MaxHost} \subseteq Nat

VARIABLES
    buffer, head, tail,     \* the ring
    active, buffering,      \* flags of the pipeline
    control,    \* per task, the steps left of start_session or stop_session
    locker,     \* the task whose start or stop holds the key engine's lock
    loaded,     \* per task, the head that clear() has read
    feed,       \* audio_pipeline_feed_adpcm
    reader,     \* audio_pipeline_read_for_usb in the stream task
    streaming, endpoint,    \* s_uac_streaming and the state of the endpoint
    muted,      \* s_mic_mute
    counted,    \* s_xfer_cb_count differs from the watchdog's last_count
    watchdog,   \* its ticks and whether it is recovering
    frames, stalls, wishes, \* used of the bounds
    \* history, read by the properties only
    session,    \* sessions begun
    last,       \* the number of the last sample handed to USB
    overlap     \* the last clear() came into a read or a write

ringVars    == <<buffer, head, tail>>
flagVars    == <<active, buffering>>
controlVars == <<control, locker, loaded>>
usbVars     == <<streaming, endpoint, muted, counted, watchdog>>
vars == <<ringVars, flagVars, controlVars, feed, reader, usbVars, frames, stalls, wishes,
          session, last, overlap>>

Tasks  == {"host", "other"}
Nobody == "nobody"
Sample == [number : 0..MaxFrames * FrameSize, session : 0..MaxSessions]
Silent == [number |-> 0, session |-> 0]

Least(a, b) == IF a < b THEN a ELSE b
Slot(i)     == i % Capacity

----------------------------------------------------------------------------
(* audio_ring_buffer.c *)

Distance(h, t) == (h + Modulus - t) % Modulus

\* available_read: indices further apart than the ring is long count as empty
Available == IF Distance(head, tail) > Capacity THEN 0 ELSE Distance(head, tail)

----------------------------------------------------------------------------
(* start_session and stop_session *)

StartSteps == <<"load", "begin", "activate", "buffer">>
StopSteps  == <<"deactivate", "unbuffer", "load", "clear">>

Idle(t) == control[t] = <<>>

\* A task is in one function at a time, and feed is called by the host task
Free(t) == Idle(t) /\ (t = "host" => feed.pc = "idle")

\* VOICE_HOLD
Start(t) ==
    /\ Free(t) /\ locker = Nobody
    /\ session < MaxSessions
    /\ wishes' = IF t = "host" THEN wishes ELSE wishes + 1
    /\ wishes' <= MaxHost
    /\ locker' = t
    /\ control' = [control EXCEPT ![t] = StartSteps]
    /\ UNCHANGED <<ringVars, flagVars, loaded, feed, reader, usbVars, frames, stalls,
                   session, last, overlap>>

\* VOICE_RELEASE, in a session or not
Stop(t) ==
    /\ Free(t) /\ locker = Nobody
    /\ wishes < MaxHost
    /\ wishes' = wishes + 1
    /\ locker' = t
    /\ control' = [control EXCEPT ![t] = StopSteps]
    /\ UNCHANGED <<ringVars, flagVars, loaded, feed, reader, usbVars, frames, stalls,
                   session, last, overlap>>

\* The remote disconnects; key_engine_release_all has run before
Disconnect ==
    /\ Free("host")
    /\ wishes < MaxHost
    /\ wishes' = wishes + 1
    /\ control' = [control EXCEPT !["host"] = StopSteps]
    /\ UNCHANGED <<ringVars, flagVars, locker, loaded, feed, reader, usbVars, frames, stalls,
                   session, last, overlap>>

\* Mutant: the ring keeps what the last session left
KeepRing(t) == UNCHANGED tail

\* The store of audio_ring_buffer_clear
StoreTail(t) == tail' = loaded[t]

\* The reader holds an index, or is about to put the tail back on the head it has read
Reading == reader.pc \in {"tail", "resync", "copy", "publish"}

ControlStep(t) ==
    /\ ~Idle(t)
    /\ LET step == Head(control[t]) IN
       /\ loaded' = [loaded EXCEPT ![t] = CASE step = "load" -> head
                                            [] step \in {"begin", "clear"} -> 0
                                            [] OTHER -> @]
       /\ IF step \in {"begin", "clear"}
          THEN /\ StoreTail(t)
               /\ overlap' = (Reading \/ feed.pc # "idle" \/ loaded[t] # head)
          ELSE UNCHANGED <<tail, overlap>>
       /\ session' = IF step = "begin" THEN session + 1 ELSE session
       /\ active' = IF step \in {"activate", "deactivate"} THEN step = "activate" ELSE active
       /\ buffering' = IF step \in {"buffer", "unbuffer"} THEN step = "buffer" ELSE buffering
    /\ control' = [control EXCEPT ![t] = Tail(@)]
    /\ locker' = IF locker = t /\ Idle(t)' THEN Nobody ELSE locker
    /\ UNCHANGED <<buffer, head, feed, reader, usbVars, frames, stalls, wishes, last>>

----------------------------------------------------------------------------
(* audio_pipeline_feed_adpcm, in the Bluetooth host task *)

NoFeed == [pc |-> "idle", h |-> 0, n |-> 0, session |-> 0]

\* A notification; in no session it is dropped
Frame ==
    /\ Free("host") /\ active
    /\ frames < MaxFrames
    /\ frames' = frames + 1
    /\ feed' = [NoFeed EXCEPT !.pc = "free", !.session = session]
    /\ UNCHANGED <<ringVars, flagVars, controlVars, reader, usbVars, stalls, wishes,
                   session, last, overlap>>

\* Mutant: the head moves before the samples are in place
PublishFirst == <<"publish", "store", "check">>

\* audio_ring_buffer_write, then the end of the prefill
WriteSteps == <<"store", "publish", "check">>

After(pc) == WriteSteps[CHOOSE i \in 2..3 : WriteSteps[i - 1] = pc]

\* Mutant: a full ring is written over
Overwrite == FrameSize

\* What fits is written, the rest of the frame is dropped
Room == Least(FrameSize, Capacity - Available)

FeedFree ==
    /\ feed.pc = "free"
    /\ feed' = [feed EXCEPT !.pc = WriteSteps[1], !.h = head, !.n = Room]
    /\ UNCHANGED <<ringVars, flagVars, controlVars, reader, usbVars, frames, stalls, wishes,
                   session, last, overlap>>

StoreSamples ==
    /\ buffer' = [i \in 0..Capacity - 1 |->
                    LET d == (i + Capacity - Slot(feed.h)) % Capacity IN
                    IF d < feed.n
                    THEN [number |-> (frames - 1) * FrameSize + d + 1, session |-> feed.session]
                    ELSE buffer[i]]

FeedStore ==
    /\ feed.pc = "store"
    /\ StoreSamples
    /\ feed' = [feed EXCEPT !.pc = After("store")]
    /\ UNCHANGED <<head, tail, flagVars, controlVars, reader, usbVars, frames, stalls, wishes,
                   session, last, overlap>>

FeedPublish ==
    /\ feed.pc = "publish"
    /\ head' = (feed.h + feed.n) % Modulus
    /\ feed' = [feed EXCEPT !.pc = After("publish")]
    /\ UNCHANGED <<buffer, tail, flagVars, controlVars, reader, usbVars, frames, stalls, wishes,
                   session, last, overlap>>

\* The notification ends, or the next frame in it is decoded: active is not read again
NextFrame ==
    \/ feed' = NoFeed /\ UNCHANGED frames
    \/ /\ frames < MaxFrames
       /\ frames' = frames + 1
       /\ feed' = [NoFeed EXCEPT !.pc = "free", !.session = feed.session]

\* Is the prefill still waited for?
FeedCheck ==
    /\ feed.pc = "check"
    /\ IF buffering THEN feed' = [feed EXCEPT !.pc = "measure"] /\ UNCHANGED frames ELSE NextFrame
    /\ UNCHANGED <<ringVars, flagVars, controlVars, reader, usbVars, stalls, wishes,
                   session, last, overlap>>

\* Is it in the ring?
FeedMeasure ==
    /\ feed.pc = "measure"
    /\ IF Available >= Prefill
       THEN feed' = [feed EXCEPT !.pc = "prefilled"] /\ UNCHANGED frames
       ELSE NextFrame
    /\ UNCHANGED <<ringVars, flagVars, controlVars, reader, usbVars, stalls, wishes,
                   session, last, overlap>>

\* The store, whatever a session begun since waits for
FeedPrefilled ==
    /\ feed.pc = "prefilled"
    /\ buffering' = FALSE
    /\ NextFrame
    /\ UNCHANGED <<ringVars, active, controlVars, reader, usbVars, stalls, wishes,
                   session, last, overlap>>

----------------------------------------------------------------------------
(* audio_pipeline_read_for_usb and uac_stream_task *)

NoRead == [pc |-> "idle", h |-> 0, t |-> 0, n |-> 0]

\* The endpoint is free: a transfer is filled, with silence when muted
Fill ==
    /\ reader.pc = "idle" /\ streaming /\ endpoint = "free"
    /\ reader' = [NoRead EXCEPT !.pc = IF muted THEN "queue" ELSE "active"]
    /\ UNCHANGED <<ringVars, flagVars, controlVars, feed, usbVars, frames, stalls, wishes,
                   session, last, overlap>>

\* Silence too outside a session ...
ReadActive ==
    /\ reader.pc = "active"
    /\ reader' = [reader EXCEPT !.pc = IF active THEN "buffering" ELSE "queue"]
    /\ UNCHANGED <<ringVars, flagVars, controlVars, feed, usbVars, frames, stalls, wishes,
                   session, last, overlap>>

\* ... and during the prefill
ReadBuffering ==
    /\ reader.pc = "buffering"
    /\ reader' = [reader EXCEPT !.pc = IF buffering THEN "queue" ELSE "available"]
    /\ UNCHANGED <<ringVars, flagVars, controlVars, feed, usbVars, frames, stalls, wishes,
                   session, last, overlap>>

\* Mutant: a transfer that cannot be filled whole is all silence
WholeOnly == IF Available < ReadSize THEN 0 ELSE ReadSize

\* What there is; the rest of the transfer decays to silence
Wanted == Least(ReadSize, Available)

\* One step for two loads: with a publish or a clear between them the difference
\* is still what was there at the first load, or 0 as after the clear
ReadAvailable ==
    /\ reader.pc = "available"
    /\ reader' = [reader EXCEPT !.pc = IF Wanted = 0 THEN "queue" ELSE "head", !.n = Wanted]
    /\ UNCHANGED <<ringVars, flagVars, controlVars, feed, usbVars, frames, stalls, wishes,
                   session, last, overlap>>

\* The snapshot is two loads as well, and both of them are used
LoadHead ==
    /\ reader.pc = "head"
    /\ reader' = [reader EXCEPT !.pc = "tail", !.h = head]
    /\ UNCHANGED <<ringVars, flagVars, controlVars, feed, usbVars, frames, stalls, wishes,
                   session, last, overlap>>

LoadTail ==
    LET used == Distance(reader.h, tail) IN
    /\ reader.pc = "tail"
    /\ reader' = IF used > Capacity THEN [reader EXCEPT !.pc = "resync"]
                 ELSE [reader EXCEPT !.pc = "copy", !.t = tail, !.n = Least(@, used)]
    /\ UNCHANGED <<ringVars, flagVars, controlVars, feed, usbVars, frames, stalls, wishes,
                   session, last, overlap>>

\* A tail ahead of the head of the snapshot is put back on it, behind a clear that
\* came between the loads
Resync ==
    /\ reader.pc = "resync"
    /\ tail' = reader.h
    /\ reader' = [NoRead EXCEPT !.pc = "queue"]
    /\ UNCHANGED <<buffer, head, flagVars, controlVars, feed, usbVars, frames, stalls, wishes,
                   session, last, overlap>>

\* The samples of the transfer, oldest first
Copied == [i \in 1..reader.n |-> buffer[Slot(reader.t + i - 1)]]

ReadCopy ==
    /\ reader.pc = "copy"
    /\ last' = IF reader.n = 0 THEN last ELSE Copied[reader.n].number
    /\ reader' = [reader EXCEPT !.pc = "publish"]
    /\ UNCHANGED <<ringVars, flagVars, controlVars, feed, usbVars, frames, stalls, wishes,
                   session, overlap>>

\* Mutant: the tail moves by a whole transfer, whatever was in the ring
TakenWhole == ReadSize

Taken == reader.n

ReadPublish ==
    /\ reader.pc = "publish"
    /\ tail' = (reader.t + Taken) % Modulus
    /\ reader' = [NoRead EXCEPT !.pc = "queue"]
    /\ UNCHANGED <<buffer, head, flagVars, controlVars, feed, usbVars, frames, stalls, wishes,
                   session, last, overlap>>

\* usbd_edpt_xfer, refused while a transfer is queued
Queue == endpoint' = IF endpoint = "free" THEN "busy" ELSE endpoint

Submit ==
    /\ reader.pc = "queue"
    /\ Queue
    /\ reader' = NoRead
    /\ UNCHANGED <<ringVars, flagVars, controlVars, feed, streaming, muted, counted, watchdog,
                   frames, stalls, wishes, session, last, overlap>>

----------------------------------------------------------------------------
(* The endpoint, its watchdog and the control requests *)

\* The host fetches the transfer and uac_driver_xfer_cb counts it
Fetched ==
    /\ endpoint = "busy"
    /\ endpoint' = "free"
    /\ counted' = TRUE
    /\ UNCHANGED <<ringVars, flagVars, controlVars, feed, reader, streaming, muted, watchdog,
                   frames, stalls, wishes, session, last, overlap>>

\* The controller never completes the transfer
Stalls ==
    /\ endpoint = "busy"
    /\ stalls < MaxStalls
    /\ stalls' = stalls + 1
    /\ endpoint' = "stuck"
    /\ UNCHANGED <<ringVars, flagVars, controlVars, feed, reader, streaming, muted, counted, watchdog,
                   frames, wishes, session, last, overlap>>

\* Mutant: the watchdog starts counting again at every look
CountAfresh == 1

Stuck == watchdog.ticks + 1

\* A look of uac_watchdog_task.  A recovery is 50 ms after the last transfer, the
\* stream task and a host that fetches take 2 ms each: by then they have moved,
\* unless the endpoint is stuck.
Look ==
    /\ ~watchdog.recovering
    /\ streaming /\ ~counted /\ Stuck >= StuckLimit => endpoint = "stuck"
    /\ counted' = FALSE
    /\ watchdog' = IF ~streaming \/ counted THEN [ticks |-> 0, recovering |-> FALSE]
                   ELSE IF Stuck >= StuckLimit THEN [ticks |-> 0, recovering |-> TRUE]
                   ELSE [watchdog EXCEPT !.ticks = Stuck]
    /\ endpoint' = IF watchdog'.recovering THEN "free" ELSE endpoint    \* clear_stall
    /\ UNCHANGED <<ringVars, flagVars, controlVars, feed, reader, streaming, muted,
                   frames, stalls, wishes, session, last, overlap>>

Recover ==
    /\ watchdog.recovering
    /\ Queue
    /\ watchdog' = [ticks |-> 0, recovering |-> FALSE]
    /\ UNCHANGED <<ringVars, flagVars, controlVars, feed, reader, streaming, muted, counted,
                   frames, stalls, wishes, session, last, overlap>>

\* SET_INTERFACE: the alternate setting 1 streams and queues a first transfer
SetInterface(on) ==
    /\ wishes < MaxHost
    /\ wishes' = wishes + 1
    /\ streaming' = on
    /\ IF on THEN Queue ELSE UNCHANGED endpoint
    /\ UNCHANGED <<ringVars, flagVars, controlVars, feed, reader, muted, counted, watchdog,
                   frames, stalls, session, last, overlap>>

\* SET_CUR of the mute control
SetMute ==
    /\ wishes < MaxHost
    /\ wishes' = wishes + 1
    /\ muted' = ~muted
    /\ UNCHANGED <<ringVars, flagVars, controlVars, feed, reader, streaming, endpoint, counted,
                   watchdog, frames, stalls, session, last, overlap>>

\* A bus reset; suspend and detach stop the stream and keep the endpoint
BusReset ==
    /\ wishes < MaxHost
    /\ wishes' = wishes + 1
    /\ streaming' = FALSE
    /\ endpoint' \in {"free", endpoint}
    /\ counted' \in BOOLEAN     \* the count is zeroed, last_count is not
    /\ UNCHANGED <<ringVars, flagVars, controlVars, feed, reader, muted, watchdog,
                   frames, stalls, session, last, overlap>>

----------------------------------------------------------------------------
Feed     == FeedFree \/ FeedStore \/ FeedPublish \/ FeedCheck \/ FeedMeasure \/ FeedPrefilled
Read     == ReadActive \/ ReadBuffering \/ ReadAvailable \/ LoadHead \/ LoadTail \/ Resync
            \/ ReadCopy \/ ReadPublish \/ Submit
Watchdog == Look \/ Recover

Next ==
    \/ (\E t \in Tasks : Start(t) \/ Stop(t) \/ ControlStep(t)) \/ Disconnect
    \/ Frame \/ Feed
    \/ Fill \/ Read
    \/ Fetched \/ Stalls \/ Watchdog
    \/ (\E on \in BOOLEAN : SetInterface(on)) \/ SetMute \/ BusReset

Init ==
    /\ buffer = [i \in 0..Capacity - 1 |-> Silent]
    /\ head \in Origins /\ tail = head
    /\ active = FALSE /\ buffering = FALSE
    /\ control = [t \in Tasks |-> <<>>]
    /\ locker = Nobody
    /\ loaded = [t \in Tasks |-> 0]
    /\ feed = NoFeed /\ reader = NoRead
    /\ streaming = FALSE /\ endpoint = "free" /\ muted = FALSE /\ counted = FALSE
    /\ watchdog = [ticks |-> 0, recovering |-> FALSE]
    /\ frames = 0 /\ stalls = 0 /\ wishes = 0
    /\ session = 0 /\ last = 0 /\ overlap = FALSE

Spec == Init /\ [][Next]_vars

\* The tasks run, and the host fetches what is queued while it streams
FairSpec ==
    /\ Spec
    /\ WF_vars(\E t \in Tasks : ControlStep(t)) /\ WF_vars(Feed)
    /\ WF_vars(Fill) /\ WF_vars(Read) /\ WF_vars(Watchdog)
    /\ WF_vars(streaming /\ Fetched)

----------------------------------------------------------------------------
(* Properties *)

FeedSteps == {"idle", "free", "store", "publish", "check", "measure", "prefilled"}
ReadSteps == {"idle", "active", "buffering", "available", "head", "tail", "resync", "copy",
              "publish", "queue"}

\* Type invariant.  Unless a clear came into a read or a write, the ring holds no
\* more than it has room for (the guards of available_read and available_write).
TypeOK ==
    /\ buffer \in [0..Capacity - 1 -> Sample]
    /\ {head, tail, loaded["host"], loaded["other"]} \subseteq 0..Modulus - 1
    /\ {active, buffering, streaming, muted, counted, overlap} \subseteq BOOLEAN
    /\ control \in [Tasks -> Seq({"load", "begin", "clear", "activate", "deactivate",
                                   "buffer", "unbuffer"})]
    /\ locker \in Tasks \cup {Nobody}
    /\ feed.pc \in FeedSteps /\ feed.n \in 0..FrameSize
    /\ reader.pc \in ReadSteps /\ reader.n \in 0..ReadSize
    /\ endpoint \in {"free", "busy", "stuck"}
    /\ overlap \/ Distance(head, tail) <= Capacity
    /\ watchdog \in [ticks : 0..StuckLimit, recovering : BOOLEAN]
    /\ last \in 0..MaxFrames * FrameSize /\ session \in 0..MaxSessions

\* Samples reach the host in the order they were decoded and none twice, unless
\* the ring was cleared in the middle of a read or a write.
\* (audio_ring_buffer_read and _write, the guards at 27 and 65)
InOrder ==
    [][ReadCopy => overlap \/ \A i \in 1..reader.n :
          Copied[i].number > IF i = 1 THEN last ELSE Copied[i - 1].number]_vars

\* What is heard in a session was decoded in it, with the same exception: nothing
\* of an earlier session is left in the ring.  The exception is needed: a clear
\* between the two loads of a read is undone by Resync, and a read that has its
\* samples puts the tail back too.  (start_session 29, stop_session 173)
OwnSession ==
    [][ReadCopy => overlap \/ \A i \in 1..reader.n : Copied[i].session = session]_vars

\* The samples in the ring, without those a read has copied
Unread ==
    LET done == IF reader.pc = "publish" THEN reader.n ELSE 0 IN
    [i \in 1..Distance(head, tail) - done |-> buffer[Slot(tail + done + i - 1)]]

Ring == INSTANCE SampleQueue
          WITH queue <- IF overlap THEN <<>> ELSE Unread, last <- last, open <- overlap,
               Room <- Capacity, Longest <- ReadSize

\* The ring is the bounded queue its users take it for: no sample is skipped,
\* taken twice or overwritten, and of a frame only the end is dropped.
\* (audio_ring_buffer_read, _write and _clear)
IsQueue == Ring!Spec

\* A prefilled ring is played to the end: as long as the session and the stream
\* go on unmuted, what was decoded is not left behind.  (read_for_usb 148-160)
PlayedOut ==
    (active /\ ~buffering /\ Available > 0) ~>
        (Available = 0 \/ ~active \/ buffering \/ ~streaming \/ muted)

\* The microphone does not go silent for good: while the host streams,
\* transfers complete again and again although the endpoint may stall.
\* (uac_watchdog_task 34-65)
StreamGoesOn == <>[]streaming => []<>(endpoint = "busy") /\ []<>(endpoint = "free")
============================================================================
