------------------------ MODULE AudioPipelineProofs ------------------------
(***************************************************************************)
(* The types of AudioPipeline, the order and the session of what is heard,  *)
(* and the refinement of SampleQueue, for any size of ring, frame and       *)
(* transfer, any number of frames and sessions, and indices that wrap.      *)
(***************************************************************************)
EXTENDS AudioPipeline, TLAPS

----------------------------------------------------------------------------
(* Indices that wrap *)

Indices == 0..Modulus - 1
Slots   == 0..Capacity - 1

LEMMA Sizes ==
    /\ Capacity \in Nat /\ Capacity > 0 /\ Modulus \in Nat /\ Modulus > Capacity
    /\ FrameSize \in Nat /\ FrameSize > 0 /\ ReadSize \in Nat /\ ReadSize > 0
    /\ StuckLimit \in Nat /\ StuckLimit > 0
    /\ MaxFrames \in Nat /\ MaxSessions \in Nat
BY RingAssumption, SizeAssumption, BoundAssumption

LEMMA ModRange ==
    ASSUME NEW m \in Nat, m > 0, NEW a \in Nat
    PROVE  a % m \in 0..m - 1
OBVIOUS

LEMMA ModSmall ==
    ASSUME NEW m \in Nat, m > 0, NEW a \in Nat, a < m
    PROVE  a % m = a
OBVIOUS

LEMMA ModOnce ==
    ASSUME NEW m \in Nat, m > 0, NEW a \in Nat, m <= a, a < 2 * m
    PROVE  a % m = a - m
OBVIOUS

\* Division with remainder
LEMMA ModSplit ==
    ASSUME NEW m \in Nat, m > 0, NEW a \in Nat
    PROVE  \E q \in Nat, r \in 0..m - 1 : a = q * m + r /\ a % m = r
<1> DEFINE q == a \div m
           r == a - m * q
<1>1. q \in Nat
  OBVIOUS
<1>2. r \in 0..m - 1
  OBVIOUS
<1>3. a = q * m + r
  BY <1>1, <1>2
<1>4. a % m = r
  BY <1>1, <1>2, <1>3
<1> QED
  BY <1>1, <1>2, <1>3, <1>4

LEMMA ModUnique ==
    ASSUME NEW m \in Nat, m > 0, NEW q \in Nat, NEW r \in 0..m - 1
    PROVE  (q * m + r) % m = r
OBVIOUS

LEMMA ModPlus ==
    ASSUME NEW m \in Nat, m > 0, NEW a \in Nat, NEW p \in Nat
    PROVE  (a + p * m) % m = a % m
<1>1. PICK q \in Nat, r \in 0..m - 1 : a = q * m + r /\ a % m = r
  BY ModSplit
<1>2. a + p * m = (q + p) * m + r
  BY <1>1
<1>3. q + p \in Nat
  OBVIOUS
<1>4. ((q + p) * m + r) % m = r
  BY <1>3, ModUnique
<1> QED
  BY <1>1, <1>2, <1>4

LEMMA SlotRange == ASSUME NEW x \in Nat PROVE Slot(x) \in Slots
BY Sizes, ModRange DEF Slot, Slots

\* A whole turn of the indices is a number of turns of the ring
LEMMA SlotTurn == ASSUME NEW x \in Nat PROVE Slot(x + Modulus) = Slot(x)
<1>1. PICK q \in Nat, r \in 0..Capacity - 1 : Modulus = q * Capacity + r /\ Modulus % Capacity = r
  BY Sizes, ModSplit
<1>2. Modulus = q * Capacity
  BY <1>1, RingAssumption, Sizes
<1> QED
  BY <1>2, Sizes, ModPlus DEF Slot

\* Samples less than a ring apart have slots of their own
LEMMA SlotApart ==
    ASSUME NEW x \in Nat, NEW d \in Slots, NEW e \in Slots, Slot(x + d) = Slot(x + e)
    PROVE  d = e
<1>1. PICK q \in Nat, r \in 0..Capacity - 1 : x + d = q * Capacity + r /\ Slot(x + d) = r
  BY Sizes, ModSplit DEF Slot, Slots
<1>2. PICK p \in Nat, s \in 0..Capacity - 1 : x + e = p * Capacity + s /\ Slot(x + e) = s
  BY Sizes, ModSplit DEF Slot, Slots
<1>3. d - e = q * Capacity - p * Capacity
  BY <1>1, <1>2, Sizes DEF Slots
<1>4. ~(q < p)
  <2>1. q < p => q * Capacity + Capacity <= p * Capacity
    BY Sizes
  <2> QED
    BY <1>3, <2>1, Sizes DEF Slots
<1>5. ~(p < q)
  <2>1. p < q => p * Capacity + Capacity <= q * Capacity
    BY Sizes
  <2> QED
    BY <1>3, <2>1, Sizes DEF Slots
<1>6. p = q
  BY <1>4, <1>5
<1> QED
  BY <1>3, <1>6, Sizes DEF Slots

\* How far a slot is ahead of an index, as StoreSamples computes it
Ahead(i, h) == (i + Capacity - Slot(h)) % Capacity

LEMMA AheadRange ==
    ASSUME NEW i \in Slots, NEW h \in Nat
    PROVE  Ahead(i, h) \in Slots
<1>1. Slot(h) \in Slots
  BY SlotRange
<1>2. i + Capacity - Slot(h) \in Nat
  BY <1>1, Sizes DEF Slots
<1> QED
  BY <1>2, Sizes, ModRange DEF Ahead, Slots

LEMMA AheadSlot ==
    ASSUME NEW i \in Slots, NEW h \in Nat
    PROVE  Slot(h + Ahead(i, h)) = i
<1> DEFINE s == Slot(h)
<1>1. PICK q \in Nat, r \in 0..Capacity - 1 : h = q * Capacity + r /\ s = r
  BY Sizes, ModSplit DEF Slot
<1>2. CASE i < s
  <2>1. Ahead(i, h) = i + Capacity - s
    BY <1>1, <1>2, Sizes, ModSmall DEF Ahead, Slots
  <2>2. h + Ahead(i, h) = (q + 1) * Capacity + i
    BY <1>1, <2>1, Sizes DEF Slots
  <2>3. q + 1 \in Nat
    OBVIOUS
  <2> QED
    BY <2>2, <2>3, Sizes, ModUnique DEF Slot, Slots
<1>3. CASE s <= i
  <2>1. Ahead(i, h) = i - s
    <3>1. i + Capacity - s \in Nat /\ Capacity <= i + Capacity - s /\ i + Capacity - s < 2 * Capacity
      BY <1>1, <1>3, Sizes DEF Slots
    <3> QED
      BY <3>1, <1>1, Sizes, ModOnce DEF Ahead, Slots
  <2>2. h + Ahead(i, h) = q * Capacity + i
    BY <1>1, <2>1, Sizes DEF Slots
  <2> QED
    BY <2>2, Sizes, ModUnique DEF Slot, Slots
<1> QED
  BY <1>1, <1>2, <1>3, Sizes DEF Slots

LEMMA SlotAhead ==
    ASSUME NEW h \in Nat, NEW d \in Slots
    PROVE  Ahead(Slot(h + d), h) = d
<1>1. Slot(h + d) \in Slots
  BY SlotRange DEF Slots
<1>2. Ahead(Slot(h + d), h) \in Slots
  BY <1>1, AheadRange
<1>3. Slot(h + Ahead(Slot(h + d), h)) = Slot(h + d)
  BY <1>1, AheadSlot
<1> QED
  BY <1>2, <1>3, SlotApart

LEMMA DistanceIs ==
    ASSUME NEW h \in Indices, NEW t \in Indices
    PROVE  Distance(h, t) = IF h >= t THEN h - t ELSE h + Modulus - t
<1>1. CASE h >= t
  <2>1. h + Modulus - t \in Nat /\ Modulus <= h + Modulus - t /\ h + Modulus - t < 2 * Modulus
    BY <1>1, Sizes DEF Indices
  <2> QED
    BY <1>1, <2>1, Sizes, ModOnce DEF Distance, Indices
<1>2. CASE h < t
  <2>1. h + Modulus - t \in Nat /\ h + Modulus - t < Modulus
    BY <1>2, Sizes DEF Indices
  <2> QED
    BY <1>2, <2>1, Sizes, ModSmall DEF Distance, Indices
<1> QED
  BY <1>1, <1>2 DEF Indices

\* An index n samples on
Moved(i, n) == (i + n) % Modulus

LEMMA StepIs ==
    ASSUME NEW h \in Indices, NEW n \in 0..Capacity
    PROVE  /\ Moved(h, n) \in Indices
           /\ Moved(h, n) = IF h + n < Modulus THEN h + n ELSE h + n - Modulus
<1>1. CASE h + n < Modulus
  BY <1>1, Sizes, ModSmall DEF Indices, Moved
<1>2. CASE h + n >= Modulus
  <2>1. h + n < 2 * Modulus
    BY Sizes DEF Indices, Moved
  <2> QED
    BY <1>2, <2>1, Sizes, ModOnce DEF Indices, Moved
<1> QED
  BY <1>1, <1>2, Sizes DEF Indices

\* The head moves on
LEMMA DistanceGrows ==
    ASSUME NEW h \in Indices, NEW t \in Indices, NEW n \in 0..Capacity,
           Distance(h, t) + n <= Capacity
    PROVE  Distance(Moved(h, n), t) = Distance(h, t) + n
<1> DEFINE k == Moved(h, n)
<1>1. k \in Indices /\ k = IF h + n < Modulus THEN h + n ELSE h + n - Modulus
  BY StepIs
<1>2. Distance(h, t) = IF h >= t THEN h - t ELSE h + Modulus - t
  BY DistanceIs
<1>3. Distance(k, t) = IF k >= t THEN k - t ELSE k + Modulus - t
  BY <1>1, DistanceIs
<1> HIDE DEF k
<1> QED
  <2>1. Distance(k, t) = Distance(h, t) + n
    BY <1>1, <1>2, <1>3, Sizes DEF Indices
  <2> QED
    BY <2>1 DEF k

\* The tail follows
LEMMA DistanceShrinks ==
    ASSUME NEW h \in Indices, NEW t \in Indices, NEW n \in 0..Capacity, n <= Distance(h, t)
    PROVE  Distance(h, Moved(t, n)) = Distance(h, t) - n
<1> DEFINE k == Moved(t, n)
<1>1. k \in Indices /\ k = IF t + n < Modulus THEN t + n ELSE t + n - Modulus
  BY StepIs
<1>2. Distance(h, t) = IF h >= t THEN h - t ELSE h + Modulus - t
  BY DistanceIs
<1>3. Distance(h, k) = IF h >= k THEN h - k ELSE h + Modulus - k
  BY <1>1, DistanceIs
<1> HIDE DEF k
<1> QED
  <2>1. Distance(h, k) = Distance(h, t) - n
    BY <1>1, <1>2, <1>3, Sizes DEF Indices
  <2> QED
    BY <2>1 DEF k

\* The samples behind the head follow those from the tail on
LEMMA SlotBehind ==
    ASSUME NEW h \in Indices, NEW t \in Indices, NEW d \in Nat
    PROVE  Slot(h + d) = Slot(t + Distance(h, t) + d)
<1>1. Distance(h, t) = IF h >= t THEN h - t ELSE h + Modulus - t
  BY DistanceIs
<1>2. CASE h >= t
  BY <1>1, <1>2, Sizes DEF Indices
<1>3. CASE h < t
  <2>1. t + Distance(h, t) + d = h + d + Modulus
    BY <1>1, <1>3, Sizes DEF Indices
  <2>2. h + d \in Nat
    BY DEF Indices
  <2> QED
    BY <2>1, <2>2, SlotTurn
<1> QED
  BY <1>2, <1>3 DEF Indices

\* A tail that has moved on looks at the same slots
LEMMA SlotStep ==
    ASSUME NEW t \in Indices, NEW n \in 0..Capacity, NEW d \in Nat
    PROVE  Slot(Moved(t, n) + d) = Slot(t + n + d)
<1> DEFINE k == Moved(t, n)
<1>1. k \in Indices /\ k = IF t + n < Modulus THEN t + n ELSE t + n - Modulus
  BY StepIs
<1> HIDE DEF k
<1>2. CASE t + n < Modulus
  BY <1>1, <1>2 DEF k
<1>3. CASE t + n >= Modulus
  <2>1. t + n + d = k + d + Modulus /\ k + d \in Nat
    BY <1>1, <1>3, Sizes DEF Indices
  <2>2. Slot(k + d + Modulus) = Slot(k + d)
    BY <2>1, SlotTurn
  <2> QED
    BY <2>1, <2>2 DEF k
<1> QED
  BY <1>2, <1>3, Sizes DEF Indices

----------------------------------------------------------------------------
(* The invariant *)

\* What is left of start_session and stop_session
Lists == {<<>>, StartSteps, <<"begin", "activate", "buffer">>, <<"activate", "buffer">>, <<"buffer">>,
          StopSteps, <<"unbuffer", "load", "clear">>, <<"load", "clear">>, <<"clear">>}

\* A session that has yet to begin
Begins(s) == s \in {StartSteps, <<"begin", "activate", "buffer">>}

ControlOK ==
    /\ control \in [Tasks -> Lists]
    /\ loaded \in [Tasks -> Indices]
    /\ locker \in Tasks \cup {Nobody}
    /\ locker # Nobody => control[locker] # <<>>
    /\ session \in 0..MaxSessions
    /\ \A t \in Tasks : Begins(control[t]) => locker = t /\ session < MaxSessions

\* A decoded frame is numbered when it arrives
FramesOK ==
    /\ frames \in 0..MaxFrames
    /\ feed.pc # "idle" => frames > 0

RingOK ==
    /\ buffer \in [Slots -> Sample]
    /\ \A i \in Slots : buffer[i].number <= frames * FrameSize
    /\ last \in 0..frames * FrameSize
    /\ head \in Indices /\ tail \in Indices
    /\ feed \in [pc : FeedSteps, h : Indices,
                 n : 0..FrameSize, session : 0..MaxSessions]
    /\ reader \in [pc : ReadSteps,
                   h : Indices, t : Indices, n : 0..ReadSize]

UsbOK ==
    /\ active \in BOOLEAN /\ buffering \in BOOLEAN /\ streaming \in BOOLEAN
    /\ muted \in BOOLEAN /\ counted \in BOOLEAN /\ overlap \in BOOLEAN
    /\ endpoint \in {"free", "busy", "stuck"}
    /\ watchdog \in [ticks : 0..StuckLimit, recovering : BOOLEAN]

Types == ControlOK /\ FramesOK /\ RingOK /\ UsbOK

Size    == Distance(head, tail)
Cell(d) == buffer[Slot(tail + d)]

\* The number of the last sample that may be in the ring
Known == IF feed.pc \in {"free", "store", "publish"} THEN frames * FrameSize - FrameSize
         ELSE frames * FrameSize

\* The samples at the tail that the read under way has copied
Gone == IF reader.pc = "publish" THEN reader.n ELSE 0

\* What the two sides hold of the indices is still true
Current ==
    /\ Size <= Capacity
    /\ reader.pc = "tail" => Distance(reader.h, tail) <= Size
    /\ reader.pc # "resync"
    /\ reader.pc \in {"copy", "publish"} => reader.t = tail /\ reader.n <= Size
    /\ feed.pc \in {"store", "publish"} => feed.h = head /\ Size + feed.n <= Capacity

\* The ring holds samples of this session, in order, which have not been heard
Ordered ==
    /\ \A i, j \in Slots : i < j /\ j < Size => Cell(i).number < Cell(j).number
    /\ \A i \in Slots : i < Size => Cell(i).number <= Known /\ Cell(i).session = session
    /\ \A i \in Slots : Gone <= i /\ i < Size => last < Cell(i).number
    /\ last <= Known

\* What the write under way adds
Stored ==
    /\ feed.pc # "idle" => feed.session = session
    /\ feed.pc = "publish" =>
          \A d \in 0..feed.n - 1 :
              buffer[Slot(head + d)] = [number |-> Known + d + 1, session |-> session]

RingInv == Types /\ (overlap \/ (Current /\ Ordered /\ Stored))

----------------------------------------------------------------------------
(* Types *)

LEMMA ListSteps ==
    ASSUME NEW s \in Lists, s # <<>>
    PROVE  /\ Tail(s) \in Lists
           /\ Head(s) \in {"load", "begin", "clear", "activate", "deactivate", "buffer", "unbuffer"}
           /\ Begins(Tail(s)) => Begins(s)
           /\ Head(s) = "begin" => Begins(s) /\ ~Begins(Tail(s))
<1> USE DEF Begins, StartSteps, StopSteps
<1>1. CASE s = StartSteps
  BY <1>1 DEF Lists
<1>2. CASE s = <<"begin", "activate", "buffer">>
  BY <1>2 DEF Lists
<1>3. CASE s = <<"activate", "buffer">>
  BY <1>3 DEF Lists
<1>4. CASE s = <<"buffer">>
  BY <1>4 DEF Lists
<1>5. CASE s = StopSteps
  BY <1>5 DEF Lists
<1>6. CASE s = <<"unbuffer", "load", "clear">>
  BY <1>6 DEF Lists
<1>7. CASE s = <<"load", "clear">>
  BY <1>7 DEF Lists
<1>8. CASE s = <<"clear">>
  BY <1>8 DEF Lists
<1> QED
  BY <1>1, <1>2, <1>3, <1>4, <1>5, <1>6, <1>7, <1>8 DEF Lists

LEMMA BeginsLater == ~Begins(<<>>)
BY DEF Begins, StartSteps

LEMMA ListTypes ==
    Lists \subseteq Seq({"load", "begin", "clear", "activate", "deactivate", "buffer", "unbuffer"})
BY DEF Lists, StartSteps, StopSteps

\* The steps of the stream task, of the host and of the watchdog
StreamStep == Fill \/ Read \/ Fetched \/ Stalls \/ Watchdog
              \/ (\E on \in BOOLEAN : SetInterface(on)) \/ SetMute \/ BusReset

LEMMA StepKinds ==
    ASSUME Next
    PROVE  \/ \E t \in Tasks : Start(t) \/ Stop(t) \/ ControlStep(t)
           \/ Disconnect \/ Frame \/ Feed \/ StreamStep
BY DEF Next, StreamStep

LEMMA StreamKeeps ==
    ASSUME StreamStep
    PROVE  UNCHANGED <<buffer, head, flagVars, controlVars, feed, frames, session, overlap>>
BY DEF StreamStep, Fill, Read, ReadActive, ReadBuffering, ReadAvailable, LoadHead,
       LoadTail, Resync, ReadCopy, ReadPublish, Submit, Fetched,
       Stalls, Watchdog, Look, Recover, SetInterface, SetMute, BusReset, ringVars

LEMMA FeedKeeps ==
    ASSUME Frame \/ Feed
    PROVE  UNCHANGED <<tail, active, controlVars, reader, usbVars, session, last, overlap>>
BY DEF Frame, Feed, FeedFree, FeedStore, FeedPublish, FeedCheck, FeedMeasure, FeedPrefilled, NextFrame, ringVars, flagVars

LEMMA InitTypes == Init => Types
<1> SUFFICES ASSUME Init PROVE Types
  OBVIOUS
<1>1. Silent \in Sample /\ Silent.number = 0
  BY Sizes DEF Silent, Sample
<1>2. frames * FrameSize = 0
  BY Sizes DEF Init
<1>3. ControlOK
  BY Sizes DEF Init, ControlOK, Lists, Begins, StartSteps, Indices, Tasks, Nobody
<1>4. RingOK
  BY <1>1, <1>2, RingAssumption, Sizes
     DEF Init, RingOK, NoFeed, NoRead, Indices, Slots, FeedSteps, ReadSteps
<1>5. FramesOK
  BY Sizes DEF Init, FramesOK, NoFeed
<1>6. UsbOK
  <2>1. watchdog \in [ticks : 0..StuckLimit, recovering : BOOLEAN]
    BY Sizes DEF Init
  <2> QED
    BY <2>1, Zenon DEF Init, UsbOK
<1> QED
  BY <1>3, <1>4, <1>5, <1>6 DEF Types

\* The functions of the pipeline a task is called into
LEMMA CallTypes ==
    ASSUME Types, NEW t \in Tasks, Start(t) \/ Stop(t) \/ (t = "host" /\ Disconnect)
    PROVE  ControlOK'
<1> USE DEF Types, ControlOK
<1>1. StartSteps \in Lists /\ StartSteps # <<>> /\ Begins(StartSteps)
  BY DEF Lists, StartSteps, Begins
<1>2. StopSteps \in Lists /\ StopSteps # <<>> /\ ~Begins(StopSteps)
  BY DEF Lists, StopSteps, StartSteps, Begins
<1>3. Nobody \notin Tasks
  BY DEF Nobody, Tasks
<1>4. control[t] = <<>> /\ loaded' = loaded /\ session' = session
  BY DEF Start, Stop, Disconnect, Free, Idle
<1>5. CASE Start(t)
  BY <1>1, <1>3, <1>4, <1>5, Sizes DEF Start
<1>6. CASE Stop(t)
  BY <1>2, <1>3, <1>4, <1>6, Sizes DEF Stop
<1>7. CASE t = "host" /\ Disconnect
  BY <1>2, <1>3, <1>4, <1>7, Sizes DEF Disconnect
<1> QED
  BY <1>5, <1>6, <1>7

LEMMA ControlStepTypes ==
    ASSUME Types, NEW t \in Tasks, ControlStep(t)
    PROVE  ControlOK' /\ tail' \in Indices /\ active' \in BOOLEAN /\ buffering' \in BOOLEAN
           /\ overlap' \in BOOLEAN
<1> DEFINE s == control[t]
<1> USE DEF Types, ControlOK
<1>1. s \in Lists /\ s # <<>>
  BY DEF ControlStep, Idle
<1>2. control' = [control EXCEPT ![t] = Tail(s)] /\ Tail(s) \in Lists
  BY <1>1, ListSteps DEF ControlStep
<1>3. Head(s) = "begin" => Begins(s) /\ ~Begins(Tail(s))
  BY <1>1, ListSteps
<1>4. Begins(Tail(s)) => Begins(s)
  BY <1>1, ListSteps
<1>5. session' = (IF Head(s) = "begin" THEN session + 1 ELSE session)
  BY DEF ControlStep
<1>6. loaded' \in [Tasks -> Indices]
  <2>1. head \in Indices /\ 0 \in Indices
    BY Sizes DEF RingOK, Indices
  <2> QED
    BY <2>1 DEF ControlStep
<1>7. session' \in 0..MaxSessions
  BY <1>3, <1>5, Sizes
<1>8. locker' = IF locker = t /\ Tail(s) = <<>> THEN Nobody ELSE locker
  BY <1>2 DEF ControlStep, Idle
<1>9. locker' \in Tasks \cup {Nobody} /\ (locker' # Nobody => control'[locker'] # <<>>)
  BY <1>2, <1>8
<1>10. ASSUME NEW u \in Tasks, Begins(control'[u])
       PROVE  locker' = u /\ session' < MaxSessions
  <2>1. CASE u = t
    <3>1. Begins(Tail(s))
      BY <1>2, <1>10, <2>1
    <3>2. Tail(s) # <<>>
      BY <3>1, BeginsLater
    <3> QED
      BY <1>3, <1>4, <1>5, <1>8, <2>1, <3>1, <3>2
  <2>2. CASE u # t
    <3>1. control'[u] = control[u]
      BY <1>2, <2>2
    <3>2. locker = u /\ session < MaxSessions
      BY <1>10, <3>1
    <3>3. Head(s) # "begin"
      BY <1>1, <1>3, <2>2, <3>2
    <3> QED
      BY <1>5, <1>8, <2>2, <3>2, <3>3
  <2> QED
    BY <2>1, <2>2
<1>11. ControlOK'
  BY <1>2, <1>6, <1>7, <1>9, <1>10
<1>12. tail' \in Indices
  <2>1. tail' = tail \/ tail' = loaded[t]
    BY DEF ControlStep, StoreTail
  <2> QED
    BY <2>1 DEF RingOK
<1>13. active' \in BOOLEAN /\ buffering' \in BOOLEAN /\ overlap' \in BOOLEAN
  BY DEF ControlStep, UsbOK
<1> QED
  BY <1>11, <1>12, <1>13

LEMMA ControlTypes ==
    ASSUME Types, [Next]_vars
    PROVE  ControlOK'
<1>1. CASE UNCHANGED <<controlVars, session>>
  BY <1>1 DEF controlVars, Types, ControlOK
<1>2. CASE \E t \in Tasks : Start(t) \/ Stop(t) \/ ControlStep(t)
  BY <1>2, CallTypes, ControlStepTypes
<1>3. CASE Disconnect
  BY <1>3, CallTypes DEF Tasks
<1>4. CASE Frame \/ Feed
  BY <1>1, <1>4, FeedKeeps
<1>5. CASE StreamStep
  BY <1>1, <1>5, StreamKeeps
<1>6. CASE UNCHANGED vars
  BY <1>1, <1>6 DEF vars
<1> QED
  BY <1>2, <1>3, <1>4, <1>5, <1>6, StepKinds

\* Numbers of samples
LEMMA Numbers ==
    ASSUME NEW f \in 0..MaxFrames
    PROVE  /\ f * FrameSize \in Nat
           /\ f * FrameSize <= MaxFrames * FrameSize
           /\ (f + 1) * FrameSize = f * FrameSize + FrameSize
           /\ f > 0 => f * FrameSize - FrameSize \in Nat
           /\ f > 0 => (f - 1) * FrameSize = f * FrameSize - FrameSize
<1>1. f \in Nat /\ f <= MaxFrames
  BY Sizes
<1>2. f * FrameSize \in Nat
  BY <1>1, Sizes
<1>3. f * FrameSize <= MaxFrames * FrameSize
  BY <1>1, Sizes
<1>4. (f + 1) * FrameSize = f * FrameSize + FrameSize
  BY <1>1, Sizes
<1>5. ASSUME f > 0
      PROVE  f * FrameSize - FrameSize \in Nat /\ (f - 1) * FrameSize = f * FrameSize - FrameSize
  <2>1. (f - 1) * FrameSize = f * FrameSize - FrameSize
    BY <1>1, <1>5, Sizes
  <2>2. f - 1 \in Nat
    BY <1>1, <1>5
  <2>3. (f - 1) * FrameSize \in Nat
    BY <2>2, Sizes
  <2> QED
    BY <2>1, <2>3
<1> QED
  BY <1>2, <1>3, <1>4, <1>5

LEMMA DistanceRange ==
    ASSUME NEW h \in Indices, NEW t \in Indices
    PROVE  Distance(h, t) \in Nat
BY DistanceIs, Sizes DEF Indices

LEMMA AvailableRange ==
    ASSUME RingOK
    PROVE  /\ Available \in 0..Capacity
           /\ Size <= Capacity => Available = Size
           /\ Room \in 0..FrameSize /\ Room <= Capacity - Available
           /\ Wanted \in 0..ReadSize
<1>1. Size \in Nat
  BY DistanceRange DEF RingOK, Size
<1>2. Available \in 0..Capacity /\ (Size <= Capacity => Available = Size)
  BY <1>1, Sizes DEF Available, Size
<1> QED
  BY <1>2, Sizes DEF Room, Wanted, Least

LEMMA AfterIs == After("store") = "publish" /\ After("publish") = "check" /\ WriteSteps[1] = "store"
<1> DEFINE P(i, pc) == i \in 2..3 /\ WriteSteps[i - 1] = pc
<1>1. \A i : P(i, "store") <=> i = 2
  BY DEF WriteSteps
<1>2. \A i : P(i, "publish") <=> i = 3
  BY DEF WriteSteps
<1>3. (CHOOSE i \in 2..3 : WriteSteps[i - 1] = "store") = 2
  BY <1>1
<1>4. (CHOOSE i \in 2..3 : WriteSteps[i - 1] = "publish") = 3
  BY <1>2
<1> QED
  BY <1>3, <1>4 DEF After, WriteSteps

\* What a write leaves in each slot
LEMMA Stores ==
    ASSUME Types, FeedStore
    PROVE  \A i \in Slots :
              buffer'[i] = IF Ahead(i, feed.h) < feed.n
                           THEN [number |-> Known + Ahead(i, feed.h) + 1, session |-> feed.session]
                           ELSE buffer[i]
<1>1. Known = (frames - 1) * FrameSize
  BY Numbers DEF FeedStore, Types, FramesOK, Known
<1> QED
  BY <1>1 DEF FeedStore, StoreSamples, Ahead, Slots

LEMMA StoreTypes ==
    ASSUME Types, FeedStore
    PROVE  RingOK'
<1> USE DEF Types
<1>1. DOMAIN buffer' = Slots /\ buffer' = [i \in Slots |-> buffer'[i]]
  BY DEF FeedStore, StoreSamples, Slots
<1>2. frames * FrameSize \in Nat /\ frames * FrameSize <= MaxFrames * FrameSize
      /\ Known \in Nat /\ Known = frames * FrameSize - FrameSize
  BY Numbers DEF FeedStore, FramesOK, Known
<1>3. ASSUME NEW i \in Slots
      PROVE  buffer'[i] \in Sample /\ buffer'[i].number <= frames * FrameSize
  <2> DEFINE d == Ahead(i, feed.h)
  <2>1. buffer'[i] = IF d < feed.n THEN [number |-> Known + d + 1, session |-> feed.session]
                     ELSE buffer[i]
    BY Stores
  <2>2. feed.h \in Nat /\ feed.n \in 0..FrameSize /\ feed.session \in 0..MaxSessions
    BY DEF RingOK, Indices
  <2>3. d \in Slots
    BY <2>2, AheadRange
  <2> HIDE DEF d
  <2>4. CASE d < feed.n
    <3>1. Known + d + 1 \in 0..MaxFrames * FrameSize /\ Known + d + 1 <= frames * FrameSize
      BY <1>2, <2>2, <2>3, <2>4, Sizes DEF Slots
    <3> QED
      BY <2>1, <2>2, <2>4, <3>1 DEF Sample
  <2>5. CASE ~(d < feed.n)
    BY <2>1, <2>5 DEF RingOK
  <2> QED
    BY <2>4, <2>5
<1>4. buffer' \in [Slots -> Sample]
  BY <1>1, <1>3
<1>5. feed' = [feed EXCEPT !.pc = "publish"]
  BY AfterIs DEF FeedStore
<1> QED
  BY <1>3, <1>4, <1>5 DEF FeedStore, RingOK, FeedSteps

\* A frame is decoded: the first of a notification or a further one
LEMMA FrameTypes ==
    ASSUME Types, UNCHANGED <<buffer, head, tail, last, reader>>, NEW u \in 0..MaxSessions,
           frames < MaxFrames, frames' = frames + 1,
           feed' = [NoFeed EXCEPT !.pc = "free", !.session = u]
    PROVE  FramesOK' /\ RingOK'
<1> USE DEF Types
<1>1. frames' \in 0..MaxFrames /\ frames' > 0
  BY Sizes DEF FramesOK
<1>2. frames * FrameSize \in Nat /\ frames * FrameSize <= frames' * FrameSize
  BY Numbers, Sizes DEF FramesOK
<1>3. feed' = [pc |-> "free", h |-> 0, n |-> 0, session |-> u]
  BY DEF NoFeed
<1>4. feed' \in [pc : FeedSteps, h : Indices, n : 0..FrameSize, session : 0..MaxSessions]
  BY <1>3, Sizes DEF Indices, FeedSteps
<1>5. \A i \in Slots : buffer[i].number \in Nat
  BY DEF RingOK, Sample
<1>6. \A i \in Slots : buffer[i].number <= frames' * FrameSize
  BY <1>1, <1>2, <1>5, Numbers DEF RingOK
<1>7. last \in 0..frames' * FrameSize
  BY <1>1, <1>2, Numbers DEF RingOK
<1> QED
  BY <1>1, <1>4, <1>6, <1>7 DEF RingOK, FramesOK

LEMMA NextFrameTypes ==
    ASSUME Types, UNCHANGED <<buffer, head, tail, last, reader>>, NextFrame
    PROVE  FramesOK' /\ RingOK'
<1> USE DEF Types
<1>1. CASE feed' = NoFeed /\ UNCHANGED frames
  <2>1. NoFeed \in [pc : FeedSteps, h : Indices, n : 0..FrameSize, session : 0..MaxSessions]
    BY Sizes DEF NoFeed, Indices, FeedSteps
  <2> QED
    BY <1>1, <2>1 DEF FramesOK, RingOK, NoFeed
<1>2. CASE ~(feed' = NoFeed /\ UNCHANGED frames)
  <2>1. feed.session \in 0..MaxSessions
    BY DEF RingOK
  <2> QED
    BY <1>2, <2>1, FrameTypes DEF NextFrame
<1> QED
  BY <1>1, <1>2

LEMMA FeedTypes ==
    ASSUME Types, Frame \/ Feed
    PROVE  FramesOK' /\ RingOK' /\ UsbOK'
<1> USE DEF Types
<1>1. UsbOK'
  BY FeedKeeps DEF Frame, Feed, FeedFree, FeedStore, FeedPublish, FeedCheck, FeedMeasure, FeedPrefilled, NextFrame, UsbOK, flagVars, usbVars
<1>2. CASE Frame
  <2>1. session \in 0..MaxSessions
    BY DEF ControlOK
  <2> QED
    BY <1>1, <1>2, <2>1, FrameTypes DEF Frame, ringVars
<1>3. CASE FeedFree
  <2>1. feed' = [feed EXCEPT !.pc = "store", !.h = head, !.n = Room]
    BY <1>3, AfterIs DEF FeedFree
  <2> QED
    BY <1>1, <1>3, <2>1, AvailableRange DEF FeedFree, FramesOK, RingOK, ringVars, FeedSteps
<1>4. CASE FeedStore
  <2>1. FramesOK'
    BY <1>4 DEF FeedStore, FramesOK
  <2> QED
    BY <1>1, <1>4, <2>1, StoreTypes
<1>5. CASE FeedPublish
  <2>1. feed' = [feed EXCEPT !.pc = "check"]
    BY <1>5, AfterIs DEF FeedPublish
  <2>2. feed.h + feed.n \in Nat
    BY Sizes DEF RingOK, Indices
  <2>3. head' \in Indices
    BY <1>5, <2>2, Sizes, ModRange DEF FeedPublish, Indices
  <2> QED
    BY <1>1, <1>5, <2>1, <2>3 DEF FeedPublish, FramesOK, RingOK, FeedSteps
<1>6. CASE FeedCheck \/ FeedMeasure \/ FeedPrefilled
  <2>1. UNCHANGED <<buffer, head, tail, last, reader>>
    BY <1>6 DEF FeedCheck, FeedMeasure, FeedPrefilled, ringVars
  <2>2. CASE NextFrame
    BY <1>1, <2>1, <2>2, NextFrameTypes
  <2>3. CASE ~NextFrame
    <3>1. frames' = frames /\ \E pc \in {"measure", "prefilled"} : feed' = [feed EXCEPT !.pc = pc]
      BY <1>6, <2>3 DEF FeedCheck, FeedMeasure, FeedPrefilled
    <3>2. feed.pc # "idle"
      BY <1>6 DEF FeedCheck, FeedMeasure, FeedPrefilled
    <3> QED
      BY <1>1, <2>1, <3>1, <3>2 DEF FramesOK, RingOK, FeedSteps
  <2> QED
    BY <2>2, <2>3
<1> QED
  BY <1>2, <1>3, <1>4, <1>5, <1>6 DEF Feed

\* The samples of a transfer come from the ring
LEMMA CopiedIs ==
    ASSUME Types, NEW i \in 1..reader.n
    PROVE  /\ Slot(reader.t + i - 1) \in Slots
           /\ Copied[i] = buffer[Slot(reader.t + i - 1)]
<1>1. reader.t \in Nat /\ reader.n \in Nat
  BY Sizes DEF Types, RingOK, Indices
<1>2. reader.t + i - 1 \in Nat
  BY <1>1
<1> QED
  BY <1>1, <1>2, SlotRange DEF Copied

Readers == [pc : ReadSteps,
            h : Indices, t : Indices, n : 0..ReadSize]

LEMMA ReaderTypes ==
    ASSUME Types, Fill \/ Read
    PROVE  reader' \in Readers /\ tail' \in Indices /\ last' \in 0..frames * FrameSize
<1> USE DEF Types, Readers
<1>1. NoRead \in Readers
  BY Sizes DEF NoRead, Indices, ReadSteps
<1>2. \A pc \in ReadSteps : [NoRead EXCEPT !.pc = pc] \in Readers
  BY <1>1
<1>3. reader \in Readers /\ tail \in Indices /\ head \in Indices /\ last \in 0..frames * FrameSize
  BY DEF RingOK
<1>4. CASE Fill
  BY <1>2, <1>3, <1>4 DEF Fill, ringVars, ReadSteps
<1>5. CASE ReadActive \/ ReadBuffering \/ ReadAvailable \/ LoadHead
  BY <1>3, <1>5, AvailableRange DEF ReadActive, ReadBuffering, ReadAvailable, LoadHead, ringVars, ReadSteps
<1>6. CASE LoadTail
  <2>1. Distance(reader.h, tail) \in Nat
    BY <1>3, DistanceRange
  <2>2. Least(reader.n, Distance(reader.h, tail)) \in 0..ReadSize
    BY <1>3, <2>1, Sizes DEF Least
  <2> QED
    BY <1>3, <1>6, <2>2 DEF LoadTail, ringVars, ReadSteps
<1>10. CASE Resync
  BY <1>2, <1>3, <1>10 DEF Resync, ReadSteps
<1>7. CASE ReadCopy
  <2>1. reader' \in Readers /\ tail' = tail
    BY <1>3, <1>7 DEF ReadCopy, ringVars, ReadSteps
  <2>2. CASE reader.n = 0
    BY <1>3, <1>7, <2>1, <2>2 DEF ReadCopy
  <2>3. CASE reader.n # 0
    <3>1. reader.n \in 1..reader.n
      BY <1>3, <2>3, Sizes
    <3>2. PICK s \in Slots : Copied[reader.n] = buffer[s]
      BY <3>1, CopiedIs
    <3>3. buffer[s].number \in Nat /\ buffer[s].number <= frames * FrameSize
      BY DEF RingOK, Sample
    <3>4. last' = buffer[s].number
      BY <1>7, <2>3, <3>2 DEF ReadCopy
    <3> QED
      BY <1>3, <2>1, <3>3, <3>4, Numbers DEF FramesOK
  <2> QED
    BY <2>2, <2>3
<1>8. CASE ReadPublish
  <2>1. reader.t + reader.n \in Nat
    BY <1>3, Sizes DEF Indices
  <2>2. tail' \in Indices
    BY <1>8, <2>1, Sizes, ModRange DEF ReadPublish, Taken, Indices
  <2> QED
    BY <1>2, <1>3, <1>8, <2>2 DEF ReadPublish, ReadSteps
<1>9. CASE Submit
  BY <1>1, <1>3, <1>9 DEF Submit, ringVars
<1> QED
  BY <1>4, <1>5, <1>6, <1>7, <1>8, <1>9, <1>10 DEF Read

LEMMA StreamTypes ==
    ASSUME Types, StreamStep
    PROVE  RingOK' /\ FramesOK' /\ UsbOK'
<1> USE DEF Types
<1>1. buffer' = buffer /\ head' = head /\ feed' = feed /\ frames' = frames
  BY StreamKeeps
<1>2. FramesOK'
  BY <1>1 DEF FramesOK
<1>3. reader' \in Readers /\ tail' \in Indices /\ last' \in 0..frames * FrameSize
  <2>1. CASE Fill \/ Read
    BY <2>1, ReaderTypes
  <2>2. CASE ~(Fill \/ Read)
    <3>1. UNCHANGED <<reader, tail, last>>
      BY <2>2 DEF StreamStep, Fetched, Stalls, Watchdog, Look, Recover, SetInterface, SetMute, BusReset,
                  ringVars
    <3> QED
      BY <3>1 DEF RingOK, Readers
  <2> QED
    BY <2>1, <2>2
<1>4. RingOK'
  BY <1>1, <1>3 DEF RingOK, Readers
<1>5. active' \in BOOLEAN /\ buffering' \in BOOLEAN /\ overlap' \in BOOLEAN
  BY StreamKeeps DEF UsbOK, flagVars
<1>6. streaming' \in BOOLEAN /\ muted' \in BOOLEAN /\ counted' \in BOOLEAN
  BY DEF StreamStep, Fill, Read, ReadActive, ReadBuffering, ReadAvailable, LoadHead,
       LoadTail, Resync, ReadCopy, ReadPublish, Submit, Fetched,
         Stalls, Watchdog, Look, Recover, SetInterface, SetMute, BusReset, usbVars, UsbOK
<1>7. endpoint' \in {"free", "busy", "stuck"}
  BY DEF StreamStep, Fill, Read, ReadActive, ReadBuffering, ReadAvailable, LoadHead,
       LoadTail, Resync, ReadCopy, ReadPublish, Submit, Fetched,
         Stalls, Watchdog, Look, Recover, SetInterface, SetMute, BusReset, usbVars, UsbOK, Queue
<1>8. watchdog' \in [ticks : 0..StuckLimit, recovering : BOOLEAN]
  <2>1. CASE Look
    <3>1. watchdog.ticks \in 0..StuckLimit
      BY DEF UsbOK
    <3>2. CASE Stuck >= StuckLimit
      BY <2>1, <3>1, <3>2, Sizes DEF Look, UsbOK
    <3>3. CASE ~(Stuck >= StuckLimit)
      <4>1. Stuck \in 0..StuckLimit
        BY <3>1, <3>3, Sizes DEF Stuck
      <4> QED
        BY <2>1, <3>3, <4>1, Sizes DEF Look, UsbOK
    <3> QED
      BY <3>2, <3>3
  <2>2. CASE Recover
    BY <2>2, Sizes DEF Recover
  <2>3. CASE ~Look /\ ~Recover
    <3>1. watchdog' = watchdog
      BY <2>3 DEF StreamStep, Fill, Read, ReadActive, ReadBuffering, ReadAvailable, LoadHead,
       LoadTail, Resync, ReadCopy, ReadPublish, Submit,
                  Fetched, Stalls, Watchdog, SetInterface, SetMute, BusReset, usbVars
    <3> QED
      BY <3>1 DEF UsbOK
  <2> QED
    BY <2>1, <2>2, <2>3
<1> QED
  BY <1>2, <1>4, <1>5, <1>6, <1>7, <1>8 DEF UsbOK

LEMMA StepTypes ==
    ASSUME Types, [Next]_vars
    PROVE  Types'
<1>1. ControlOK'
  BY ControlTypes
<1>2. CASE Frame \/ Feed
  BY <1>1, <1>2, FeedTypes DEF Types
<1>3. CASE StreamStep
  BY <1>1, <1>3, StreamTypes DEF Types
<1>4. CASE (\E t \in Tasks : Start(t) \/ Stop(t)) \/ Disconnect \/ UNCHANGED vars
  <2>1. UNCHANGED <<ringVars, flagVars, feed, reader, usbVars, frames, last, overlap>>
    BY <1>4 DEF Start, Stop, Disconnect, vars
  <2> QED
    BY <1>1, <2>1 DEF Types, FramesOK, RingOK, UsbOK, ringVars, flagVars, usbVars
<1>5. CASE \E t \in Tasks : ControlStep(t)
  <2>1. PICK t \in Tasks : ControlStep(t)
    BY <1>5
  <2>2. tail' \in Indices /\ active' \in BOOLEAN /\ buffering' \in BOOLEAN /\ overlap' \in BOOLEAN
    BY <2>1, ControlStepTypes
  <2>3. UNCHANGED <<buffer, head, feed, reader, usbVars, frames, last>>
    BY <2>1 DEF ControlStep
  <2> QED
    BY <1>1, <2>2, <2>3 DEF Types, FramesOK, RingOK, UsbOK, usbVars
<1> QED
  BY <1>2, <1>3, <1>4, <1>5, StepKinds

----------------------------------------------------------------------------
(* The ring *)

LEMMA SizeRange == ASSUME Types PROVE Size \in Nat
BY DistanceRange DEF Types, RingOK, Size

LEMMA Positions ==
    ASSUME Types
    PROVE  /\ head \in Nat /\ tail \in Nat
           /\ reader.n \in Nat /\ reader.n <= ReadSize
           /\ feed.n \in Nat /\ feed.n <= FrameSize
BY Sizes DEF Types, RingOK, Indices

LEMMA CellTypes ==
    ASSUME Types, NEW i \in Nat
    PROVE  Cell(i) \in Sample /\ Cell(i).number \in Nat
<1>1. tail + i \in Nat
  BY Positions
<1>2. Slot(tail + i) \in Slots
  BY <1>1, SlotRange
<1> QED
  BY <1>2 DEF Cell, Types, RingOK, Sample

LEMMA KnownTypes == ASSUME Types PROVE Known \in Nat
BY Numbers DEF Known, Types, FramesOK

LEMMA InitRing == Init => RingInv
<1> SUFFICES ASSUME Init PROVE RingInv
  OBVIOUS
<1>1. Types
  BY InitTypes
<1>2. Size = 0
  BY RingAssumption, DistanceIs, Sizes DEF Init, Size, Indices
<1>3. Current
  BY <1>2, Sizes DEF Init, Current, NoFeed, NoRead
<1>4. Ordered
  <2>1. last <= Known
    BY <1>1, KnownTypes DEF Init
  <2> QED
    BY <1>2, <2>1 DEF Ordered, Slots
<1>5. Stored
  BY DEF Init, Stored, NoFeed
<1> QED
  BY <1>1, <1>3, <1>4, <1>5 DEF RingInv

\* The read under way, if any, holds no index
Apart(r) == r.pc \notin {"tail", "resync", "copy", "publish"}

\* Steps that neither move an index nor end a step of a read or write
LEMMA StillRing ==
    ASSUME Current, Ordered, Stored,
           UNCHANGED <<ringVars, feed, frames, session, last>>,
           reader' = reader \/ (Apart(reader) /\ Apart(reader'))
    PROVE  Current' /\ Ordered' /\ Stored'
<1>1. Size' = Size /\ Known' = Known /\ \A i : Cell(i)' = Cell(i)
  BY DEF Size, Known, Cell, ringVars
<1>2. Gone' = Gone
  BY DEF Gone, Apart
<1>3. Current'
  BY <1>1 DEF Current, Apart, ringVars
<1>4. Ordered'
  BY <1>1, <1>2 DEF Ordered
<1>5. Stored'
  BY <1>1 DEF Stored, ringVars
<1> QED
  BY <1>3, <1>4, <1>5

LEMMA ControlRing ==
    ASSUME RingInv, NEW t \in Tasks, ControlStep(t), ~overlap'
    PROVE  Current' /\ Ordered' /\ Stored'
<1>1. CASE Head(control[t]) \notin {"begin", "clear"}
  <2>1. UNCHANGED <<ringVars, feed, frames, session, last, overlap, reader>>
    BY <1>1 DEF ControlStep, ringVars
  <2> QED
    BY <2>1, StillRing DEF RingInv
<1>2. CASE Head(control[t]) \in {"begin", "clear"}
  <2>1. tail' = loaded[t] /\ loaded[t] = head /\ Apart(reader) /\ feed.pc = "idle"
    BY <1>2 DEF ControlStep, StoreTail, Apart, Reading
  <2>2. UNCHANGED <<buffer, head, feed, reader, frames, last>>
    BY DEF ControlStep
  <2>3. Size' = 0
    <3>1. head \in Indices
      BY DEF RingInv, Types, RingOK
    <3> QED
      BY <2>1, <2>2, <3>1, DistanceIs, Sizes DEF Size, Indices
  <2>4. Current'
    BY <2>1, <2>2, <2>3, Sizes DEF Current, Apart
  <2>5. last' <= Known'
    BY <2>1, <2>2 DEF Known, RingInv, Types, RingOK
  <2>6. Ordered'
    BY <2>3, <2>5 DEF Ordered, Slots
  <2>7. Stored'
    BY <2>1, <2>2 DEF Stored
  <2> QED
    BY <2>4, <2>6, <2>7
<1> QED
  BY <1>1, <1>2

\* A write does not touch what has not been read
LEMMA StoreApart ==
    ASSUME Types, Current, FeedStore, NEW i \in Slots, i < Size
    PROVE  Cell(i)' = Cell(i)
<1> DEFINE s == Slot(tail + i)
           a == Ahead(s, head)
<1>1. tail + i \in Nat /\ head \in Nat /\ feed.n \in Nat /\ Size \in Nat
  BY Positions, SizeRange DEF Slots
<1>2. s \in Slots
  BY <1>1, SlotRange
<1>3. a \in Slots /\ Slot(head + a) = s
  BY <1>1, <1>2, AheadRange, AheadSlot
<1>4. feed.h = head /\ Size + feed.n <= Capacity
  BY DEF FeedStore, Current
<1>5. ~(a < feed.n)
  <2> SUFFICES ASSUME a < feed.n PROVE FALSE
    OBVIOUS
  <2>1. Slot(head + a) = Slot(tail + Size + a)
    <3>1. a \in Nat /\ head \in Indices /\ tail \in Indices
      BY <1>3 DEF Slots, Types, RingOK
    <3> HIDE DEF a
    <3> QED
      BY <3>1, SlotBehind DEF Size
  <2>2. Size + a \in Slots
    BY <1>1, <1>3, <1>4, Sizes DEF Slots
  <2>3. Slot(tail + (Size + a)) = Slot(tail + i)
    <3>1. tail + Size + a = tail + (Size + a)
      BY <1>1, <1>3, Positions, Sizes DEF Slots
    <3> QED
      BY <1>3, <2>1, <3>1
  <2>4. Size + a = i
    BY <1>1, <2>2, <2>3, Positions, SlotApart
  <2> QED
    BY <1>1, <1>3, <2>4 DEF Slots
<1>6. buffer'[s] = buffer[s]
  BY <1>2, <1>4, <1>5, Stores
<1> QED
  BY <1>6 DEF Cell, FeedStore

LEMMA StoreRing ==
    ASSUME Types, Current, Ordered, Stored, FeedStore
    PROVE  Current' /\ Ordered' /\ Stored'
<1>1. feed' = [feed EXCEPT !.pc = "publish"]
  BY AfterIs DEF FeedStore
<1>2. feed'.pc = "publish" /\ feed'.h = feed.h /\ feed'.n = feed.n /\ feed'.session = feed.session
  BY <1>1 DEF Types, RingOK
<1>3. UNCHANGED <<head, tail, reader, frames, session, last>> /\ feed.pc = "store"
  BY DEF FeedStore
<1>4. Size' = Size /\ Known' = Known /\ Gone' = Gone
  BY <1>2, <1>3 DEF Size, Known, Gone
<1>5. Current'
  BY <1>2, <1>3, <1>4 DEF Current
<1>6. \A i \in Slots : i < Size => Cell(i)' = Cell(i)
  BY StoreApart
<1>7. Ordered'
  <2>1. \A i, j \in Slots : i < j /\ j < Size => i < Size
    BY SizeRange DEF Slots
  <2> QED
    BY <1>3, <1>4, <1>6, <2>1 DEF Ordered
<1>8. Stored'
  <2>1. feed'.session = session'
    BY <1>2, <1>3 DEF Stored
  <2>2. ASSUME NEW d \in 0..feed.n - 1
        PROVE  buffer'[Slot(head + d)] = [number |-> Known + d + 1, session |-> session]
    <3>1. feed.h = head /\ feed.n <= Capacity
      BY <1>3, Positions, SizeRange, Sizes DEF Current
    <3>2. d \in Slots /\ d < feed.n
      BY <3>1, Positions, Sizes DEF Slots
    <3>3. head + d \in Nat /\ head \in Nat
      BY <3>2, Positions
    <3>4. Slot(head + d) \in Slots /\ Ahead(Slot(head + d), head) = d
      BY <3>2, <3>3, SlotRange, SlotAhead
    <3>5. feed.session = session
      BY <1>3 DEF Stored
    <3> QED
      BY <3>1, <3>2, <3>4, <3>5, Stores
  <2> QED
    BY <1>2, <1>3, <1>4, <2>1, <2>2 DEF Stored
<1> QED
  BY <1>5, <1>7, <1>8

\* What the head makes visible when it moves on
LEMMA PublishCells ==
    ASSUME Types, Current, Ordered, Stored, FeedPublish
    PROVE  /\ Size' = Size + feed.n /\ Size' <= Capacity
           /\ Known' = Known + FrameSize
           /\ \A i \in Nat : Cell(i)' = Cell(i)
           /\ \A i \in Nat : Size <= i /\ i < Size' =>
                 Cell(i) = [number |-> Known + (i - Size) + 1, session |-> session]
<1>1. feed.h = head /\ Size + feed.n <= Capacity
  BY DEF Current, FeedPublish
<1>2. head' = Moved(head, feed.n)
  BY <1>1 DEF FeedPublish, Moved
<1>3. feed.n \in 0..Capacity
  BY <1>1, Positions, SizeRange, Sizes
<1>4. Size' = Size + feed.n
  BY <1>1, <1>2, <1>3, DistanceGrows DEF Size, Types, RingOK, FeedPublish
<1>5. Known' = Known + FrameSize
  <2>1. feed'.pc = "check" /\ frames' = frames
    BY AfterIs DEF FeedPublish, Types, RingOK
  <2> QED
    BY <2>1, Numbers, Sizes DEF Known, FeedPublish, Types, FramesOK
<1>6. \A i : Cell(i)' = Cell(i)
  BY DEF Cell, FeedPublish
<1>7. ASSUME NEW i \in Nat, Size <= i, i < Size'
      PROVE  Cell(i) = [number |-> Known + (i - Size) + 1, session |-> session]
  <2>1. i - Size \in 0..feed.n - 1 /\ i - Size \in Nat
    BY <1>4, <1>7, Positions, SizeRange
  <2>2. Slot(head + (i - Size)) = Slot(tail + Size + (i - Size))
    BY <2>1, SlotBehind DEF Size, Types, RingOK
  <2>3. tail + Size + (i - Size) = tail + i
    BY <1>7, Positions, SizeRange
  <2>4. buffer[Slot(head + (i - Size))] = [number |-> Known + (i - Size) + 1, session |-> session]
    BY <2>1 DEF Stored, FeedPublish
  <2> QED
    BY <2>2, <2>3, <2>4 DEF Cell
<1> QED
  BY <1>1, <1>4, <1>5, <1>6, <1>7

LEMMA PublishRing ==
    ASSUME Types, Current, Ordered, Stored, FeedPublish
    PROVE  Current' /\ Ordered' /\ Stored'
<1>1. /\ Size' = Size + feed.n /\ Size' <= Capacity
      /\ Known' = Known + FrameSize
      /\ \A i \in Nat : Cell(i)' = Cell(i)
      /\ \A i \in Nat : Size <= i /\ i < Size' =>
            Cell(i) = [number |-> Known + (i - Size) + 1, session |-> session]
  BY PublishCells
<1>2. UNCHANGED <<tail, reader, session, last>>
  BY DEF FeedPublish
<1>3. feed'.pc = "check" /\ feed'.session = feed.session /\ feed.pc = "publish"
  BY AfterIs DEF FeedPublish, Types, RingOK
<1>4. Size \in Nat /\ feed.n \in Nat /\ feed.n <= FrameSize /\ Known \in Nat /\ reader.n \in Nat
      /\ FrameSize \in Nat
  BY Positions, SizeRange, KnownTypes, Sizes
<1>5. Current'
  <2>1. reader.pc = "tail" => Distance(reader.h, tail) <= Size'
    <3>1. Distance(reader.h, tail) \in Nat
      BY DistanceRange DEF Types, RingOK
    <3> QED
      BY <1>1, <1>4, <3>1 DEF Current
  <2> QED
    BY <1>1, <1>2, <1>3, <1>4, <2>1 DEF Current
<1>6. Gone' = Gone
  BY <1>2 DEF Gone
<1>7. \A i \in Slots : i \in Nat
  BY DEF Slots
<1>8. last' <= Known' /\ last \in Nat /\ last <= Known
  BY <1>1, <1>2, <1>4, Numbers DEF Ordered, Types, RingOK, FramesOK
<1>9. \A i \in Nat : Size <= i /\ i < Size' =>
         Cell(i).number = Known + (i - Size) + 1 /\ Cell(i).session = session
  BY <1>1
<1>10. ASSUME NEW i \in Slots, i < Size'
       PROVE  Cell(i)'.number <= Known' /\ Cell(i)'.session = session'
  <2>1. Cell(i)' = Cell(i) /\ i \in Nat /\ Cell(i).number \in Nat
    BY <1>1, <1>7, CellTypes
  <2>2. CASE i < Size
    BY <1>1, <1>2, <1>4, <2>1, <2>2 DEF Ordered
  <2>3. CASE Size <= i
    BY <1>1, <1>2, <1>4, <1>9, <1>10, <2>1, <2>3
  <2> QED
    BY <1>4, <2>1, <2>2, <2>3
<1>11. ASSUME NEW i \in Slots, NEW j \in Slots, i < j, j < Size'
       PROVE  Cell(i)'.number < Cell(j)'.number
  <2>1. Cell(i)' = Cell(i) /\ Cell(j)' = Cell(j) /\ i \in Nat /\ j \in Nat
        /\ Cell(i).number \in Nat /\ Cell(j).number \in Nat
    BY <1>1, <1>7, CellTypes
  <2>2. CASE j < Size
    BY <1>11, <2>1, <2>2 DEF Ordered
  <2>3. CASE Size <= j /\ i < Size
    <3>1. Cell(i).number <= Known
      BY <2>3 DEF Ordered
    <3>2. Cell(j).number = Known + (j - Size) + 1
      BY <1>9, <1>11, <2>1, <2>3
    <3> QED
      BY <1>4, <2>1, <2>3, <3>1, <3>2
  <2>4. CASE Size <= i
    <3>1. i < Size' /\ Size <= j
      BY <1>1, <1>4, <1>11, <2>1, <2>4
    <3>2. Cell(i).number = Known + (i - Size) + 1 /\ Cell(j).number = Known + (j - Size) + 1
      BY <1>9, <1>11, <2>1, <2>4, <3>1
    <3> QED
      BY <1>4, <1>11, <2>1, <3>2
  <2> QED
    BY <1>4, <2>1, <2>2, <2>3, <2>4
<1>12. ASSUME NEW i \in Slots, Gone <= i, i < Size'
       PROVE  last < Cell(i)'.number
  <2>1. Cell(i)' = Cell(i) /\ i \in Nat /\ Cell(i).number \in Nat
    BY <1>1, <1>7, CellTypes
  <2>2. CASE i < Size
    BY <1>12, <2>1, <2>2 DEF Ordered
  <2>3. CASE Size <= i
    BY <1>4, <1>8, <1>9, <1>12, <2>1, <2>3
  <2> QED
    BY <1>4, <2>1, <2>2, <2>3
<1>13. Ordered'
  BY <1>2, <1>6, <1>8, <1>10, <1>11, <1>12 DEF Ordered
<1>14. Stored'
  BY <1>2, <1>3 DEF Stored
<1> QED
  BY <1>5, <1>13, <1>14

\* The reader's snapshot: while no clear comes, the head it has is between the
\* tail and the head
LEMMA LoadHeadRing ==
    ASSUME Types, Current, Ordered, Stored, LoadHead
    PROVE  Current' /\ Ordered' /\ Stored'
<1>1. reader' = [reader EXCEPT !.pc = "tail", !.h = head] /\ reader.pc = "head"
      /\ UNCHANGED <<buffer, head, tail, feed, frames, session, last>>
  BY DEF LoadHead, ringVars
<1>2. reader'.pc = "tail" /\ reader'.h = head
  BY <1>1 DEF Types, RingOK
<1>3. Size' = Size /\ Known' = Known /\ Gone' = Gone /\ \A i : Cell(i)' = Cell(i)
  BY <1>1, <1>2 DEF Size, Known, Gone, Cell
<1>4. Distance(reader'.h, tail') <= Size'
  BY <1>1, <1>2, <1>3, SizeRange DEF Size
<1>5. Current'
  BY <1>1, <1>2, <1>3, <1>4 DEF Current
<1>6. Ordered'
  BY <1>1, <1>3 DEF Ordered
<1>7. Stored'
  BY <1>1, <1>3 DEF Stored
<1> QED
  BY <1>5, <1>6, <1>7

LEMMA LoadTailRing ==
    ASSUME Types, Current, Ordered, Stored, LoadTail
    PROVE  Current' /\ Ordered' /\ Stored'
<1> DEFINE used == Distance(reader.h, tail)
<1>1. Size <= Capacity /\ Size \in Nat /\ used \in Nat /\ used <= Size
  BY SizeRange, DistanceRange DEF Current, LoadTail, Types, RingOK
<1>2. /\ UNCHANGED <<buffer, head, tail, feed, frames, session, last>>
      /\ reader.pc = "tail"
      /\ reader' = [reader EXCEPT !.pc = "copy", !.t = tail, !.n = Least(@, used)]
  BY <1>1, Sizes DEF LoadTail, ringVars
<1>3. reader'.pc = "copy" /\ reader'.t = tail /\ reader'.n <= Size
  BY <1>1, <1>2, Positions DEF Types, RingOK, Least
<1>4. Size' = Size /\ Known' = Known /\ Gone' = Gone /\ \A i : Cell(i)' = Cell(i)
  BY <1>2, <1>3 DEF Size, Known, Gone, Cell
<1>5. Current'
  BY <1>2, <1>3, <1>4 DEF Current
<1>6. Ordered'
  BY <1>2, <1>4 DEF Ordered
<1>7. Stored'
  BY <1>2, <1>4 DEF Stored
<1> QED
  BY <1>5, <1>6, <1>7

\* What a read copies are the samples at the tail
LEMMA CopiedCells ==
    ASSUME Types, Current, reader.pc \in {"copy", "publish"}, NEW i \in 1..reader.n
    PROVE  Copied[i] = Cell(i - 1) /\ i - 1 \in Slots /\ i - 1 < Size
<1>1. reader.t = tail /\ reader.n <= Size /\ Size <= Capacity
  BY DEF Current
<1>2. Copied[i] = buffer[Slot(reader.t + i - 1)]
  BY CopiedIs
<1>3. reader.t + i - 1 = tail + (i - 1)
  BY <1>1, Positions
<1>4. i - 1 \in Slots /\ i - 1 < Size
  BY <1>1, Positions, SizeRange, Sizes DEF Slots
<1> QED
  BY <1>2, <1>3, <1>4 DEF Cell

LEMMA CopyRing ==
    ASSUME Types, Current, Ordered, Stored, ReadCopy
    PROVE  Current' /\ Ordered' /\ Stored'
<1>1. /\ UNCHANGED <<ringVars, feed, frames, session>> /\ reader.pc = "copy"
      /\ reader' = [reader EXCEPT !.pc = "publish"]
  BY DEF ReadCopy
<1>2. reader'.pc = "publish" /\ reader'.t = reader.t /\ reader'.n = reader.n
  BY <1>1 DEF Types, RingOK
<1>3. Size' = Size /\ Known' = Known /\ (\A i : Cell(i)' = Cell(i)) /\ Gone' = reader.n /\ Gone = 0
  BY <1>1, <1>2 DEF Size, Known, Cell, Gone, ringVars
<1>4. Current'
  BY <1>1, <1>2, <1>3 DEF Current, ringVars
<1>5. Stored'
  BY <1>1, <1>3 DEF Stored, ringVars
<1>6. CASE reader.n = 0
  <2>1. last' = last
    BY <1>6 DEF ReadCopy
  <2>2. Ordered'
    BY <1>1, <1>3, <1>6, <2>1 DEF Ordered
  <2> QED
    BY <1>4, <1>5, <2>2
<1>7. CASE reader.n # 0
  <2> DEFINE e == reader.n - 1
  <2>1. reader.n \in 1..reader.n /\ reader.n \in Nat
    BY <1>7, Positions
  <2>2. Copied[reader.n] = Cell(e) /\ e \in Slots /\ e < Size
    BY <1>1, <2>1, CopiedCells
  <2>3. last' = Cell(e).number
    BY <1>7, <2>2 DEF ReadCopy
  <2>4. last' <= Known'
    BY <1>3, <2>2, <2>3 DEF Ordered
  <2>5. ASSUME NEW i \in Slots, reader.n <= i, i < Size
        PROVE  last' < Cell(i).number
    <3>1. e < i
      BY <2>1, <2>5 DEF Slots
    <3> QED
      BY <2>2, <2>3, <2>5, <3>1 DEF Ordered
  <2>6. Ordered'
    BY <1>1, <1>3, <2>4, <2>5 DEF Ordered
  <2> QED
    BY <1>4, <1>5, <2>6
<1> QED
  BY <1>6, <1>7

LEMMA TakenCells ==
    ASSUME Types, Current, ReadPublish
    PROVE  /\ Size' = Size - reader.n /\ reader.n <= Size
           /\ \A i \in Nat : Cell(i)' = Cell(i + reader.n)
<1>1. reader.t = tail /\ reader.n <= Size /\ Size <= Capacity
  BY DEF Current, ReadPublish
<1>2. tail' = Moved(tail, reader.n)
  BY <1>1 DEF ReadPublish, Taken, Moved
<1>3. reader.n \in 0..Capacity
  BY <1>1, Positions, SizeRange, Sizes
<1>4. Size' = Size - reader.n
  BY <1>1, <1>2, <1>3, DistanceShrinks DEF Size, Types, RingOK, ReadPublish
<1>5. ASSUME NEW i \in Nat
      PROVE  Cell(i)' = Cell(i + reader.n)
  <2>1. Slot(Moved(tail, reader.n) + i) = Slot(tail + reader.n + i)
    BY <1>3, SlotStep DEF Types, RingOK
  <2>2. tail + reader.n + i = tail + (i + reader.n)
    BY Positions
  <2> QED
    BY <1>2, <2>1, <2>2 DEF Cell, ReadPublish
<1> QED
  BY <1>1, <1>4, <1>5

LEMMA TakeRing ==
    ASSUME Types, Current, Ordered, Stored, ReadPublish
    PROVE  Current' /\ Ordered' /\ Stored'
<1>1. /\ Size' = Size - reader.n /\ reader.n <= Size
      /\ \A i \in Nat : Cell(i)' = Cell(i + reader.n)
  BY TakenCells
<1>2. UNCHANGED <<buffer, head, feed, frames, session, last>> /\ reader.pc = "publish"
  BY DEF ReadPublish
<1>3. reader'.pc = "queue"
  BY DEF ReadPublish, NoRead
<1>4. Known' = Known /\ Gone' = 0 /\ Gone = reader.n
  BY <1>2, <1>3 DEF Known, Gone
<1>5. Size \in Nat /\ reader.n \in Nat /\ feed.n \in Nat /\ Size <= Capacity
  BY Positions, SizeRange DEF Current
<1>6. Current'
  <2>1. Size' <= Capacity
    BY <1>1, <1>5, Sizes
  <2>2. feed.pc \in {"store", "publish"} => feed'.h = head' /\ Size' + feed'.n <= Capacity
    BY <1>1, <1>2, <1>5, Sizes DEF Current
  <2> QED
    BY <1>2, <1>3, <2>1, <2>2 DEF Current
<1>7. ASSUME NEW i \in Slots, i < Size'
      PROVE  /\ Cell(i)' = Cell(i + reader.n)
             /\ i + reader.n \in Slots /\ i + reader.n < Size /\ Gone <= i + reader.n
  BY <1>1, <1>4, <1>5, <1>7, Sizes DEF Slots
<1>8. ASSUME NEW i \in Slots, NEW j \in Slots, i < j, j < Size'
      PROVE  Cell(i)'.number < Cell(j)'.number
  <2>1. i < Size' /\ i + reader.n < j + reader.n
    BY <1>1, <1>5, <1>8 DEF Slots
  <2> QED
    BY <1>7, <1>8, <2>1 DEF Ordered
<1>9. ASSUME NEW i \in Slots, i < Size'
      PROVE  Cell(i)'.number <= Known' /\ Cell(i)'.session = session' /\ last' < Cell(i)'.number
  BY <1>2, <1>4, <1>7, <1>9 DEF Ordered
<1>10. Ordered'
  BY <1>2, <1>4, <1>8, <1>9 DEF Ordered
<1>11. Stored'
  BY <1>2, <1>4 DEF Stored
<1> QED
  BY <1>6, <1>10, <1>11

LEMMA StreamRing ==
    ASSUME Types, Current, Ordered, Stored, StreamStep
    PROVE  Current' /\ Ordered' /\ Stored'
<1>1. CASE LoadHead \/ LoadTail
  BY <1>1, LoadHeadRing, LoadTailRing
<1>2. CASE ReadCopy
  BY <1>2, CopyRing
<1>3. CASE ReadPublish
  BY <1>3, TakeRing
<1>4. CASE ~(LoadHead \/ LoadTail) /\ ~ReadCopy /\ ~ReadPublish
  <2>1. UNCHANGED <<buffer, head, feed, frames, session>>
    BY StreamKeeps
  <2>2. ~Resync
    BY DEF Resync, Current
  <2>3. tail' = tail /\ last' = last
    BY <1>4, <2>2 DEF StreamStep, Fill, Read, ReadActive, ReadBuffering, ReadAvailable, Submit, Fetched,
                Stalls, Watchdog, Look, Recover, SetInterface, SetMute, BusReset, ringVars
  <2>4. reader' = reader \/ (Apart(reader) /\ Apart(reader'))
    <3>1. CASE Fill
      BY <3>1 DEF Fill, Apart, NoRead
    <3>2. CASE ReadActive \/ ReadBuffering \/ ReadAvailable
      <4>1. reader'.pc \in {"queue", "buffering", "available", "head"}
        BY <3>2 DEF ReadActive, ReadBuffering, ReadAvailable, Types, RingOK
      <4> QED
        BY <3>2, <4>1 DEF ReadActive, ReadBuffering, ReadAvailable, Apart
    <3>3. CASE Submit
      BY <3>3 DEF Submit, Apart, NoRead
    <3>4. CASE ~Fill /\ ~(ReadActive \/ ReadBuffering \/ ReadAvailable) /\ ~Submit
      BY <1>4, <2>2, <3>4 DEF StreamStep, Read, Fetched, Stalls, Watchdog, Look, Recover, SetInterface,
                        SetMute, BusReset
    <3> QED
      BY <3>1, <3>2, <3>3, <3>4
  <2> QED
    BY <2>1, <2>3, <2>4, StillRing DEF ringVars
<1> QED
  BY <1>1, <1>2, <1>3, <1>4

\* The test of the prefill, and what comes after it
FeedEnd == FeedCheck \/ FeedMeasure \/ FeedPrefilled

LEMMA FeedEnds ==
    ASSUME Types, FeedEnd
    PROVE  /\ feed.pc \notin {"idle", "free", "store", "publish"}
           /\ \/ frames' = frames /\ feed'.pc = "idle"
              \/ frames' = frames /\ feed'.pc \in {"measure", "prefilled"} /\ feed'.session = feed.session
              \/ frames' = frames + 1 /\ feed'.pc = "free" /\ feed'.session = feed.session
<1>1. feed.pc \in {"check", "measure", "prefilled"}
  BY DEF FeedEnd, FeedCheck, FeedMeasure, FeedPrefilled
<1>2. CASE NextFrame
  <2>1. CASE feed' = NoFeed /\ frames' = frames
    BY <1>1, <2>1 DEF NoFeed
  <2>2. CASE frames' = frames + 1 /\ feed' = [NoFeed EXCEPT !.pc = "free", !.session = feed.session]
    BY <1>1, <2>2 DEF NoFeed
  <2> QED
    BY <1>2, <2>1, <2>2 DEF NextFrame
<1>3. CASE ~NextFrame
  <2>1. frames' = frames /\ \E pc \in {"measure", "prefilled"} : feed' = [feed EXCEPT !.pc = pc]
    BY <1>3 DEF FeedEnd, FeedCheck, FeedMeasure, FeedPrefilled
  <2> QED
    BY <1>1, <2>1 DEF Types, RingOK
<1> QED
  BY <1>2, <1>3

LEMMA FeedRing ==
    ASSUME Types, Current, Ordered, Stored, Frame \/ Feed
    PROVE  Current' /\ Ordered' /\ Stored'
<1>1. CASE FeedStore
  BY <1>1, StoreRing
<1>2. CASE FeedPublish
  BY <1>2, PublishRing
<1>3. CASE Frame \/ FeedFree \/ FeedEnd
  <2>1. UNCHANGED <<ringVars, reader, session, last>>
    BY <1>3 DEF Frame, FeedFree, FeedEnd, FeedCheck, FeedMeasure, FeedPrefilled
  <2>2. Size' = Size /\ Gone' = Gone /\ \A i : Cell(i)' = Cell(i)
    BY <2>1 DEF Size, Gone, Cell, ringVars
  <2>3. Known' = Known
    <3>1. CASE Frame
      <4>1. feed.pc = "idle" /\ feed'.pc = "free" /\ frames' = frames + 1
        BY <3>1 DEF Frame, Free, NoFeed, Tasks
      <4> QED
        BY <4>1, Numbers, Sizes DEF Known, Types, FramesOK
    <3>2. CASE FeedFree
      BY <3>2, AfterIs DEF FeedFree, Known, Types, RingOK
    <3>3. CASE FeedEnd
      <4>1. /\ feed.pc \notin {"free", "store", "publish"}
            /\ \/ frames' = frames /\ feed'.pc \in {"idle", "measure", "prefilled"}
               \/ frames' = frames + 1 /\ feed'.pc = "free"
        BY <3>3, FeedEnds
      <4> QED
        BY <4>1, Numbers, Sizes DEF Known, Types, FramesOK
    <3> QED
      BY <1>3, <3>1, <3>2, <3>3
  <2>4. Ordered'
    BY <2>1, <2>2, <2>3 DEF Ordered
  <2>5. feed'.pc # "idle" => feed'.session = session /\ feed'.pc # "publish"
    <3>1. CASE Frame
      BY <3>1 DEF Frame, NoFeed
    <3>2. CASE FeedFree
      BY <3>2, AfterIs DEF FeedFree, Stored, Types, RingOK
    <3>3. CASE FeedEnd
      BY <3>3, FeedEnds DEF Stored
    <3> QED
      BY <1>3, <3>1, <3>2, <3>3
  <2>6. Stored'
    BY <2>1, <2>5 DEF Stored
  <2>7. feed'.pc \in {"store", "publish"} => feed'.h = head /\ Size + feed'.n <= Capacity
    <3>1. CASE Frame
      BY <3>1 DEF Frame, NoFeed
    <3>2. CASE FeedFree
      <4>1. feed'.h = head /\ feed'.n = Room
        BY <3>2 DEF FeedFree, Types, RingOK
      <4>2. Room <= Capacity - Size /\ Room \in 0..FrameSize
        BY AvailableRange DEF Types, Current
      <4> QED
        BY <4>1, <4>2, SizeRange, Sizes
    <3>3. CASE FeedEnd
      BY <3>3, FeedEnds DEF Stored
    <3> QED
      BY <1>3, <3>1, <3>2, <3>3
  <2>8. Current'
    BY <2>1, <2>2, <2>7 DEF Current, ringVars
  <2> QED
    BY <2>4, <2>6, <2>8
<1> QED
  BY <1>1, <1>2, <1>3 DEF Feed, FeedEnd

LEMMA StepRing ==
    ASSUME RingInv, [Next]_vars
    PROVE  RingInv'
<1>1. Types /\ Types'
  BY StepTypes DEF RingInv
<1>2. CASE overlap'
  BY <1>1, <1>2 DEF RingInv
<1>3. CASE ~overlap'
  <2>1. CASE \E t \in Tasks : ControlStep(t)
    BY <1>1, <1>3, <2>1, ControlRing DEF RingInv
  <2>2. CASE StreamStep
    <3>1. ~overlap
      BY <1>3, <2>2, StreamKeeps
    <3> QED
      BY <1>1, <2>2, <3>1, StreamRing DEF RingInv
  <2>3. CASE Frame \/ Feed
    <3>1. ~overlap
      BY <1>3, <2>3, FeedKeeps
    <3> QED
      BY <1>1, <2>3, <3>1, FeedRing DEF RingInv
  <2>4. CASE (\E t \in Tasks : Start(t) \/ Stop(t)) \/ Disconnect \/ UNCHANGED vars
    <3>1. UNCHANGED <<ringVars, feed, frames, session, last, reader, overlap>>
      BY <2>4 DEF Start, Stop, Disconnect, vars
    <3> QED
      BY <1>1, <1>3, <3>1, StillRing DEF RingInv
  <2> QED
    BY <2>1, <2>2, <2>3, <2>4, StepKinds
<1> QED
  BY <1>2, <1>3

----------------------------------------------------------------------------
(* Theorems *)

LEMMA Invariance == Spec => []RingInv
BY InitRing, StepRing, PTL DEF Spec

\* Every variable keeps its type, and the ring never holds more than it has room
\* for unless a clear came into a read or a write.
\* (audio_ring_buffer_available_read and _write, the assignments of the pipeline)
THEOREM AudioTypeCorrect == Spec => []TypeOK
<1>1. RingInv => TypeOK
  <2> SUFFICES ASSUME RingInv PROVE TypeOK
    OBVIOUS
  <2> USE DEF RingInv, Types
  <2>1. buffer \in [0..Capacity - 1 -> Sample]
    BY DEF RingOK, Slots
  <2>2. {head, tail, loaded["host"], loaded["other"]} \subseteq 0..Modulus - 1
    BY DEF RingOK, ControlOK, Indices, Tasks
  <2>3. {active, buffering, streaming, muted, counted, overlap} \subseteq BOOLEAN
    BY Zenon DEF UsbOK
  <2>4. control \in [Tasks -> Seq({"load", "begin", "clear", "activate", "deactivate",
                                   "buffer", "unbuffer"})]
    BY ListTypes DEF ControlOK
  <2>5. /\ feed.pc \in FeedSteps /\ feed.n \in 0..FrameSize
        /\ reader.pc \in ReadSteps
        /\ reader.n \in 0..ReadSize
    BY DEF RingOK
  <2>6. overlap \/ Distance(head, tail) <= Capacity
    BY DEF Current, Size
  <2>7. last \in 0..MaxFrames * FrameSize
    BY Numbers, Sizes DEF RingOK, FramesOK
  <2>8. locker \in Tasks \cup {Nobody} /\ session \in 0..MaxSessions
    BY DEF ControlOK
  <2>9. endpoint \in {"free", "busy", "stuck"}
        /\ watchdog \in [ticks : 0..StuckLimit, recovering : BOOLEAN]
    BY DEF UsbOK
  <2> QED
    BY <2>1, <2>2, <2>3, <2>4, <2>5, <2>6, <2>7, <2>8, <2>9 DEF TypeOK
<1> QED
  BY <1>1, Invariance, PTL

\* Samples reach the host in the order they were decoded and none twice, for any
\* ring, frame and transfer, while indices wrap.  (audio_ring_buffer_read, _write)
THEOREM SamplesInOrder == Spec => InOrder
<1>1. RingInv /\ ReadCopy => overlap \/ \A i \in 1..reader.n :
          Copied[i].number > IF i = 1 THEN last ELSE Copied[i - 1].number
  <2> SUFFICES ASSUME RingInv, ReadCopy, ~overlap, NEW i \in 1..reader.n
               PROVE  Copied[i].number > IF i = 1 THEN last ELSE Copied[i - 1].number
    OBVIOUS
  <2> USE DEF RingInv
  <2>1. reader.pc = "copy" /\ Gone = 0 /\ last \in Nat /\ reader.n \in Nat
    BY Positions, Numbers DEF ReadCopy, Gone, Types, RingOK, FramesOK
  <2>2. Copied[i] = Cell(i - 1) /\ i - 1 \in Slots /\ i - 1 < Size /\ Cell(i - 1).number \in Nat
    BY <2>1, CopiedCells, CellTypes DEF Slots
  <2>3. CASE i = 1
    BY <2>1, <2>2, <2>3 DEF Ordered
  <2>4. CASE i # 1
    <3>1. i - 1 \in 1..reader.n
      BY <2>1, <2>4
    <3>2. Copied[i - 1] = Cell(i - 1 - 1) /\ i - 1 - 1 \in Slots /\ i - 1 - 1 < i - 1
          /\ Cell(i - 1 - 1).number \in Nat
      BY <2>1, <3>1, CopiedCells, CellTypes DEF Slots
    <3> QED
      BY <2>2, <2>4, <3>2 DEF Ordered
  <2> QED
    BY <2>3, <2>4
<1>2. RingInv /\ [Next]_vars => [ReadCopy => overlap \/ \A i \in 1..reader.n :
          Copied[i].number > IF i = 1 THEN last ELSE Copied[i - 1].number]_vars
  BY <1>1
<1> QED
  BY <1>2, Invariance, PTL DEF Spec, InOrder

\* What is heard in a session was decoded in it: a clear that no read or write
\* overlaps leaves nothing of an earlier one.  (start_session, stop_session)
THEOREM SessionsApart == Spec => OwnSession
<1>1. RingInv /\ ReadCopy => overlap \/ \A i \in 1..reader.n : Copied[i].session = session
  <2> SUFFICES ASSUME RingInv, ReadCopy, ~overlap, NEW i \in 1..reader.n
               PROVE  Copied[i].session = session
    OBVIOUS
  <2> USE DEF RingInv
  <2>1. Copied[i] = Cell(i - 1) /\ i - 1 \in Slots /\ i - 1 < Size
    BY CopiedCells DEF ReadCopy
  <2> QED
    BY <2>1 DEF Ordered
<1>2. RingInv /\ [Next]_vars =>
        [ReadCopy => overlap \/ \A i \in 1..reader.n : Copied[i].session = session]_vars
  BY <1>1
<1> QED
  BY <1>2, Invariance, PTL DEF Spec, OwnSession

----------------------------------------------------------------------------
(* The ring is a queue *)

\* What the ring has for the next reads
Left == Size - Gone

UnreadCells ==
    /\ Left \in Nat /\ Gone \in Nat
    /\ Unread \in Seq(Sample) /\ Len(Unread) = Left
    /\ \A i \in 1..Left : Unread[i] = Cell(Gone + i - 1)

LEMMA UnreadIs == RingInv /\ ~overlap => UnreadCells
<1> SUFFICES ASSUME RingInv, ~overlap PROVE UnreadCells
  OBVIOUS
<1> USE DEF RingInv
<1>1. Size \in Nat /\ Gone \in Nat /\ Gone <= Size
  BY Positions, SizeRange DEF Gone, Current
<1>2. Left \in Nat
  BY <1>1 DEF Left
<1>3. ASSUME NEW i \in 1..Left
      PROVE  buffer[Slot(tail + Gone + i - 1)] = Cell(Gone + i - 1) /\ Cell(Gone + i - 1) \in Sample
  <2>1. tail + Gone + i - 1 = tail + (Gone + i - 1) /\ Gone + i - 1 \in Nat
    BY <1>1, <1>2, Positions
  <2> QED
    BY <2>1, CellTypes DEF Cell
<1>4. Unread = [i \in 1..Left |-> buffer[Slot(tail + Gone + i - 1)]]
  BY DEF Unread, Left, Size, Gone
<1> DEFINE f(i) == buffer[Slot(tail + Gone + i - 1)]
<1>5. \A i \in 1..Left : f(i) = Cell(Gone + i - 1) /\ f(i) \in Sample
  BY <1>3
<1>6. Unread = [i \in 1..Left |-> f(i)]
  BY <1>4
<1> HIDE DEF f
<1>7. Unread \in Seq(Sample)
  BY <1>2, <1>5, <1>6
<1>8. Len(Unread) = Left
  BY <1>2, <1>6
<1>9. \A i \in 1..Left : Unread[i] = Cell(Gone + i - 1)
  BY <1>5, <1>6
<1> QED
  BY <1>1, <1>2, <1>7, <1>8, <1>9 DEF UnreadCells

LEMMA UnreadIsNext == (RingInv /\ ~overlap => UnreadCells)'
BY UnreadIs, PTL

LEMMA SequencesEqual ==
    ASSUME NEW S, NEW a \in Seq(S), NEW b \in Seq(S), Len(a) = Len(b),
           \A i \in 1..Len(a) : a[i] = b[i]
    PROVE  a = b
OBVIOUS

\* The samples n moved on are the same
LEMMA SameQueue ==
    ASSUME RingInv, RingInv', ~overlap, ~overlap', Left' = Left,
           \A i \in 1..Left : Cell(Gone + i - 1) = Cell(Gone + i - 1)'
    PROVE  Unread' = Unread
<1>1. UnreadCells /\ UnreadCells'
  BY UnreadIs, UnreadIsNext
<1> QED
  BY <1>1, SequencesEqual DEF UnreadCells

RingQueue == IF overlap THEN <<>> ELSE Unread

\* Steps at which nothing enters or leaves the ring
LEMMA StillQueue ==
    ASSUME RingInv, RingInv', UNCHANGED <<head, tail, last, overlap>>, Gone' = Gone,
           \A i \in Nat : i < Size => Cell(i)' = Cell(i)
    PROVE  UNCHANGED <<RingQueue, last, overlap>>
<1>1. CASE overlap
  BY <1>1 DEF RingQueue
<1>2. CASE ~overlap
  <2>1. Left' = Left
    BY DEF Left, Size
  <2>2. Left \in Nat /\ Gone \in Nat /\ Size \in Nat /\ Left = Size - Gone
    BY <1>2, UnreadIs, SizeRange DEF UnreadCells, RingInv, Left
  <2>3. ASSUME NEW i \in 1..Left
        PROVE  Cell(Gone + i - 1) = Cell(Gone + i - 1)'
    <3>1. Gone + i - 1 \in Nat /\ Gone + i - 1 < Size
      BY <2>2
    <3> QED
      BY <3>1
  <2>4. Unread' = Unread
    BY <1>2, <2>1, <2>3, SameQueue
  <2> QED
    BY <2>4 DEF RingQueue
<1> QED
  BY <1>1, <1>2

\* The head makes room for the first samples of a frame
LEMMA PublishPuts ==
    ASSUME RingInv, RingInv', FeedPublish, ~overlap
    PROVE  Ring!Put
<1> USE DEF RingInv
<1>1. UNCHANGED <<last, overlap, reader>>
  BY DEF FeedPublish
<1>2. UnreadCells /\ UnreadCells'
  BY <1>1, UnreadIs, UnreadIsNext
<1>3. /\ Size' = Size + feed.n /\ Size' <= Capacity
      /\ \A i \in Nat : Cell(i)' = Cell(i)
      /\ \A i \in Nat : Size <= i /\ i < Size' =>
            Cell(i) = [number |-> Known + (i - Size) + 1, session |-> session]
  BY PublishCells
<1>4. Gone' = Gone /\ Left = Size - Gone /\ Left' = Size' - Gone'
  BY <1>1 DEF Gone, Left
<1>5. Size \in Nat /\ feed.n \in Nat /\ Gone \in Nat /\ Left \in Nat /\ Known \in Nat /\ Capacity \in Nat
      /\ Left' = Left + feed.n /\ Left' <= Capacity
  <2>1. Gone \in Nat /\ Left \in Nat
    BY <1>2 DEF UnreadCells
  <2>2. Size \in Nat /\ feed.n \in Nat /\ Known \in Nat /\ Capacity \in Nat
    BY Positions, SizeRange, KnownTypes, Sizes
  <2> QED
    BY <1>3, <1>4, <2>1, <2>2
<1> DEFINE q == Unread
           p == Unread'
<1>6. /\ q \in Seq(Sample) /\ p \in Seq(Sample) /\ Len(q) = Left /\ Len(p) = Left + feed.n
      /\ \A i \in 1..Left : q[i] = Cell(Gone + i - 1)
  BY <1>2, <1>5 DEF UnreadCells
<1>7. ASSUME NEW i \in 1..Left + feed.n
      PROVE  p[i] = Cell(Gone + i - 1) /\ Gone + i - 1 \in Nat /\ Gone + i - 1 < Size'
  <2>1. p[i] = Cell(Gone + i - 1)'
    BY <1>2, <1>5 DEF UnreadCells
  <2>2. Cell(Gone + i - 1)' = Cell(Gone + i - 1)
    BY <1>1, <1>4 DEF Cell, FeedPublish
  <2>3. i \in Nat /\ 1 <= i /\ i <= Size' - Gone
    BY <1>4, <1>5
  <2>4. Gone + i - 1 \in Nat /\ Gone + i - 1 < Size'
    BY <1>3, <1>5, <2>3
  <2> QED
    BY <2>1, <2>2, <2>4
<1>8. ASSUME NEW i \in Left + 1..Left + feed.n
      PROVE  p[i].number = Known + (Gone + i - 1 - Size) + 1
  <2>1. i \in 1..Left + feed.n /\ Size <= Gone + i - 1
    BY <1>4, <1>5
  <2>2. p[i] = Cell(Gone + i - 1) /\ Gone + i - 1 \in Nat /\ Gone + i - 1 < Size'
    BY <1>7, <2>1
  <2>3. Cell(Gone + i - 1) = [number |-> Known + (Gone + i - 1 - Size) + 1, session |-> session]
    <3> DEFINE c == Gone + i - 1
    <3>1. c \in Nat /\ Size <= c /\ c < Size'
      BY <2>1, <2>2
    <3> HIDE DEF c
    <3>2. Cell(c) = [number |-> Known + (c - Size) + 1, session |-> session]
      BY <1>3, <3>1
    <3>3. c - Size = Gone + i - 1 - Size
      BY <1>5 DEF c
    <3> QED
      BY <3>2, <3>3 DEF c
  <2> QED
    BY <2>2, <2>3
<1>9. last \in Nat /\ last <= Known
  BY <1>1, Numbers DEF Ordered, Types, RingOK, FramesOK
<1>10. ASSUME NEW i \in 1..Left
       PROVE  q[i].number <= Known /\ q[i].number \in Nat
  <2>1. q[i] = Cell(Gone + i - 1) /\ Gone + i - 1 \in Nat /\ Gone + i - 1 < Size
    BY <1>4, <1>5, <1>6
  <2>2. Gone + i - 1 \in Slots
    BY <1>3, <1>5, <2>1 DEF Slots, Current
  <2> QED
    BY <2>1, <2>2, CellTypes DEF Ordered
<1>11. SubSeq(p, 1, Left) = q
  <2>1. ASSUME NEW i \in 1..Left
        PROVE  p[i] = q[i]
    <3>1. i \in 1..Left + feed.n
      BY <1>5
    <3> QED
      BY <1>6, <1>7, <3>1
  <2>2. SubSeq(p, 1, Left) \in Seq(Sample) /\ Len(SubSeq(p, 1, Left)) = Left
        /\ \A i \in 1..Left : SubSeq(p, 1, Left)[i] = p[i]
    BY <1>5, <1>6
  <2> QED
    BY <1>6, <2>1, <2>2, SequencesEqual
<1>12. ASSUME NEW i \in Left + 1..Left + feed.n
       PROVE  /\ p[i].number > last
              /\ i > 1 => p[i].number > p[i - 1].number
              /\ i > Left + 1 => p[i].number = p[i - 1].number + 1
  <2>1. p[i].number = Known + (Gone + i - 1 - Size) + 1 /\ p[i].number \in Nat /\ Known < p[i].number
    BY <1>4, <1>5, <1>8
  <2>2. CASE i = Left + 1 /\ Left > 0
    <3>1. i - 1 \in 1..Left /\ i - 1 \in 1..Left + feed.n
      BY <1>5, <2>2
    <3>2. p[i - 1] = q[i - 1]
      BY <1>6, <1>7, <3>1
    <3>3. p[i - 1].number <= Known /\ p[i - 1].number \in Nat
      BY <1>10, <3>1, <3>2
    <3> QED
      BY <1>5, <1>9, <2>1, <2>2, <3>3
  <2>3. CASE i > Left + 1
    <3>1. i - 1 \in Left + 1..Left + feed.n
      BY <1>5, <2>3
    <3>2. p[i - 1].number = Known + (Gone + (i - 1) - 1 - Size) + 1
      BY <1>8, <3>1
    <3> QED
      BY <1>5, <1>9, <2>1, <2>3, <3>2
  <2>4. CASE i = Left + 1 /\ Left = 0
    BY <1>5, <1>9, <2>1, <2>4
  <2> QED
    BY <1>5, <2>2, <2>3, <2>4
<1> HIDE DEF q, p
<1>13. /\ Len(q) <= Len(p) /\ Len(p) <= Capacity
       /\ SubSeq(p, 1, Len(q)) = q
       /\ \A i \in Len(q) + 1..Len(p) :
             /\ p[i].number > last
             /\ i > 1 => p[i].number > p[i - 1].number
             /\ i > Len(q) + 1 => p[i].number = p[i - 1].number + 1
  BY <1>5, <1>6, <1>11, <1>12
<1> QED
  BY <1>1, <1>13 DEF Ring!Put, q, p

\* A read takes what it has copied from the front
LEMMA CopyTakes ==
    ASSUME RingInv, RingInv', ReadCopy, ~overlap, reader.n # 0
    PROVE  Ring!Take
<1> USE DEF RingInv
<1>1. UNCHANGED <<ringVars, overlap>> /\ reader.pc = "copy" /\ reader' = [reader EXCEPT !.pc = "publish"]
  BY DEF ReadCopy
<1>2. UnreadCells /\ UnreadCells'
  BY <1>1, UnreadIs, UnreadIsNext
<1>3. Gone = 0 /\ Gone' = reader.n /\ Size' = Size /\ Left = Size - Gone /\ Left' = Size' - Gone'
      /\ \A i : Cell(i)' = Cell(i)
  BY <1>1 DEF Gone, Left, Size, Cell, ringVars, Types, RingOK
<1> DEFINE q == Unread
           p == Unread'
           n == reader.n
<1>4. n \in 1..ReadSize /\ n <= Size /\ Size \in Nat /\ Left = Size /\ Left' = Size - n
  BY <1>1, <1>3, Positions, SizeRange, Sizes DEF Current
<1>5. q \in Seq(Sample) /\ p \in Seq(Sample) /\ Len(q) = Size /\ Len(p) = Size - n
  BY <1>2, <1>4 DEF UnreadCells
<1>6. \A i \in 1..Size : q[i] = Cell(i - 1)
  BY <1>2, <1>3, <1>4 DEF UnreadCells
<1>7. ASSUME NEW i \in 1..Size - n
      PROVE  p[i] = Cell(n + i - 1)
  <2>1. p[i] = Cell(Gone + i - 1)'
    BY <1>2, <1>4 DEF UnreadCells
  <2>2. Cell(Gone + i - 1)' = Cell(n + i - 1)
    BY <1>1, <1>3 DEF Cell, ringVars
  <2> QED
    BY <2>1, <2>2
<1>8. last' = q[n].number
  <2>1. n \in 1..n /\ n \in 1..Size
    BY <1>4
  <2>2. Copied[n] = Cell(n - 1)
    BY <1>1, <2>1, CopiedCells
  <2> QED
    BY <1>6, <2>1, <2>2 DEF ReadCopy
<1>9. p = SubSeq(q, n + 1, Size)
  <2> DEFINE r == SubSeq(q, n + 1, Size)
  <2>1. r \in Seq(Sample) /\ Len(r) = Size - n
    BY <1>4, <1>5
  <2>4. \A i \in 1..Size - n : r[i] = q[n + i]
    BY <1>4, <1>5
  <2>2. \A i \in 1..Size - n : q[n + i] = Cell(n + i - 1)
    BY <1>4, <1>6
  <2> HIDE DEF r
  <2>3. \A i \in 1..Len(p) : p[i] = r[i]
    BY <1>5, <1>7, <2>2, <2>4
  <2> QED
    BY <1>5, <2>1, <2>3, SequencesEqual DEF r
<1> HIDE DEF q, p, n
<1>10. \E k \in 1..ReadSize :
          /\ k <= Len(q)
          /\ last' = q[k].number
          /\ p = SubSeq(q, k + 1, Len(q))
  BY <1>4, <1>5, <1>8, <1>9
<1> QED
  BY <1>1, <1>10 DEF Ring!Take, q, p

\* The tail follows: what was copied is gone already
LEMMA PublishTaken ==
    ASSUME RingInv, RingInv', ReadPublish, ~overlap
    PROVE  Unread' = Unread
<1> USE DEF RingInv
<1>1. /\ Size' = Size - reader.n /\ reader.n <= Size
      /\ \A i \in Nat : Cell(i)' = Cell(i + reader.n)
  BY TakenCells
<1>2. Gone = reader.n /\ Gone' = 0 /\ overlap' = overlap
  BY DEF ReadPublish, Gone, NoRead
<1>3. Left' = Left /\ Left \in Nat /\ Gone \in Nat
  <2>1. Left = Size - Gone /\ Left' = Size' - Gone'
    BY DEF Left
  <2> QED
    BY <1>1, <1>2, <2>1, UnreadIs, SizeRange, Positions DEF UnreadCells
<1>4. ASSUME NEW i \in 1..Left
      PROVE  Cell(Gone + i - 1) = Cell(Gone + i - 1)'
  <2>1. i - 1 \in Nat /\ Gone + i - 1 = (i - 1) + reader.n
    BY <1>2, <1>3
  <2>2. Cell(i - 1)' = Cell(Gone + i - 1)
    BY <1>1, <2>1
  <2>3. Cell(Gone + i - 1)' = Cell(i - 1)'
    BY <1>2 DEF Cell
  <2> QED
    BY <2>2, <2>3
<1> QED
  BY <1>2, <1>3, <1>4, SameQueue

LEMMA InitQueue == Init => Ring!Init
<1> SUFFICES ASSUME Init PROVE Ring!Init
  OBVIOUS
<1>1. RingInv /\ ~overlap /\ last = 0
  BY InitRing DEF Init
<1>2. Size = 0 /\ Gone = 0
  <2>1. tail = head /\ head \in Indices /\ reader.pc # "publish"
    BY RingAssumption, Sizes DEF Init, NoRead, Indices
  <2> QED
    BY <2>1, DistanceIs, Sizes DEF Size, Gone, Indices
<1>3. Unread \in Seq(Sample) /\ Len(Unread) = 0
  BY <1>1, <1>2, UnreadIs DEF UnreadCells, Left
<1>4. Unread = <<>>
  BY <1>3
<1> QED
  BY <1>1, <1>4 DEF Ring!Init

\* start_session and stop_session: a clear leaves nothing, the other steps do
\* not touch the ring
LEMMA ControlQueue ==
    ASSUME RingInv, RingInv', NEW t \in Tasks, ControlStep(t)
    PROVE  Ring!Clear \/ UNCHANGED <<RingQueue, last, overlap>>
<1>1. CASE Head(control[t]) \notin {"begin", "clear"}
  <2>1. UNCHANGED <<buffer, head, tail, reader, last, overlap>>
    BY <1>1 DEF ControlStep
  <2> QED
    BY <2>1, StillQueue DEF Gone, Cell
<1>2. CASE Head(control[t]) \in {"begin", "clear"} /\ ~overlap'
  <2>1. tail' = loaded[t] /\ loaded[t] = head /\ reader.pc # "publish" /\ overlap' \in BOOLEAN
        /\ UNCHANGED <<head, reader, last>>
    BY <1>2 DEF ControlStep, StoreTail, Reading
  <2>2. Size' = 0 /\ Gone' = 0
    <3>1. head \in Indices
      BY DEF RingInv, Types, RingOK
    <3> QED
      BY <2>1, <3>1, DistanceIs, Sizes DEF Size, Gone, Indices
  <2>3. Unread' \in Seq(Sample) /\ Len(Unread') = 0
    BY <1>2, <2>2, UnreadIsNext DEF UnreadCells, Left
  <2>4. Unread' = <<>>
    BY <2>3
  <2> QED
    BY <1>2, <2>1, <2>4 DEF Ring!Clear
<1>3. CASE Head(control[t]) \in {"begin", "clear"} /\ overlap'
  <2>1. overlap' \in BOOLEAN /\ last' = last
    BY DEF ControlStep, RingInv, Types, UsbOK
  <2> QED
    BY <1>3, <2>1 DEF Ring!Clear
<1> QED
  BY <1>1, <1>2, <1>3

\* A frame comes, and the steps of its write
LEMMA FeedQueue ==
    ASSUME RingInv, RingInv', Frame \/ Feed
    PROVE  Ring!Put \/ UNCHANGED <<RingQueue, last, overlap>>
<1>1. UNCHANGED <<tail, reader, last, overlap>> /\ Gone' = Gone
  BY FeedKeeps DEF Gone
<1>2. CASE overlap
  BY <1>1, <1>2 DEF RingQueue
<1>3. CASE ~overlap /\ FeedPublish
  BY <1>3, PublishPuts
<1>4. CASE ~overlap /\ FeedStore
  <2>1. head' = head
    BY <1>4 DEF FeedStore
  <2>2. ASSUME NEW i \in Nat, i < Size
        PROVE  Cell(i)' = Cell(i)
    <3>1. i \in Slots
      BY <1>4, <2>2, SizeRange, Sizes DEF RingInv, Current, Slots
    <3> QED
      BY <1>4, <2>2, <3>1, StoreApart DEF RingInv
  <2> QED
    BY <1>1, <2>1, <2>2, StillQueue
<1>5. CASE Frame \/ FeedFree \/ FeedEnd
  <2>1. UNCHANGED <<buffer, head>>
    BY <1>5 DEF Frame, FeedFree, FeedEnd, FeedCheck, FeedMeasure, FeedPrefilled, ringVars
  <2> QED
    BY <1>1, <2>1, StillQueue DEF Cell
<1> QED
  BY <1>2, <1>3, <1>4, <1>5 DEF Feed, FeedEnd

\* The steps of a read, and what happens on the bus
LEMMA StreamQueue ==
    ASSUME RingInv, RingInv', StreamStep
    PROVE  Ring!Take \/ Ring!Garbled \/ UNCHANGED <<RingQueue, last, overlap>>
<1>1. UNCHANGED <<buffer, head, overlap>>
  BY StreamKeeps
<1>2. CASE overlap
  BY <1>1, <1>2 DEF Ring!Garbled
<1>3. CASE ~overlap /\ ReadCopy /\ reader.n # 0
  BY <1>3, CopyTakes
<1>4. CASE ~overlap /\ ReadPublish
  <2>1. last' = last
    BY <1>4 DEF ReadPublish
  <2> QED
    BY <1>1, <1>4, <2>1, PublishTaken DEF RingQueue
<1>5. CASE ~overlap /\ ~ReadPublish /\ ~(ReadCopy /\ reader.n # 0)
  <2>1. tail' = tail /\ last' = last
    <3>1. ~Resync
      BY <1>5 DEF Resync, RingInv, Current
    <3> QED
      BY <1>5, <3>1 DEF StreamStep, Fill, Read, ReadActive, ReadBuffering, ReadAvailable, LoadHead, LoadTail,
                ReadCopy, Submit, Fetched, Stalls, Watchdog, Look, Recover, SetInterface, SetMute, BusReset,
                ringVars
  <2>2. Gone' = Gone
    <3>1. CASE ReadCopy
      BY <1>5, <3>1 DEF ReadCopy, Gone, RingInv, Types, RingOK
    <3>2. CASE ReadActive \/ ReadBuffering \/ ReadAvailable \/ LoadHead \/ LoadTail
      BY <3>2 DEF ReadActive, ReadBuffering, ReadAvailable, LoadHead, LoadTail, Gone, RingInv, Types, RingOK
    <3>3. CASE Fill \/ Submit
      BY <3>3 DEF Fill, Submit, Gone, NoRead
    <3>4. CASE Fetched \/ Stalls \/ Watchdog \/ (\E on \in BOOLEAN : SetInterface(on)) \/ SetMute \/ BusReset
      BY <3>4 DEF Fetched, Stalls, Watchdog, Look, Recover, SetInterface, SetMute, BusReset, Gone
    <3>5. ~Resync
      BY <1>5 DEF Resync, RingInv, Current
    <3> QED
      BY <1>5, <3>1, <3>2, <3>3, <3>4, <3>5 DEF StreamStep, Read
  <2> QED
    BY <1>1, <2>1, <2>2, StillQueue DEF Cell
<1> QED
  BY <1>2, <1>3, <1>4, <1>5

\* The ring is a bounded queue: nothing is skipped, taken twice or overwritten,
\* although the tail moves after the samples were copied and the head after they
\* were stored.  (audio_ring_buffer_read, _write and _clear)
THEOREM RingIsQueue == Spec => IsQueue
<1>1. RingInv /\ RingInv' /\ [Next]_vars => Ring!Next \/ UNCHANGED <<RingQueue, last, overlap>>
  <2> SUFFICES ASSUME RingInv, RingInv', [Next]_vars
               PROVE  Ring!Next \/ UNCHANGED <<RingQueue, last, overlap>>
    OBVIOUS
  <2> USE DEF Ring!Next
  <2>1. CASE \E t \in Tasks : ControlStep(t)
    BY <2>1, ControlQueue
  <2>2. CASE Frame \/ Feed
    BY <2>2, FeedQueue
  <2>3. CASE StreamStep
    BY <2>3, StreamQueue
  <2>4. CASE (\E t \in Tasks : Start(t) \/ Stop(t)) \/ Disconnect \/ UNCHANGED vars
    <3>1. UNCHANGED <<ringVars, reader, last, overlap>>
      BY <2>4 DEF Start, Stop, Disconnect, vars
    <3> QED
      BY <3>1, StillQueue DEF Gone, Cell, ringVars
  <2> QED
    BY <2>1, <2>2, <2>3, <2>4, StepKinds
<1>2. RingInv /\ RingInv' /\ [Next]_vars => [Ring!Next]_Ring!vars
  BY <1>1 DEF Ring!vars, RingQueue
<1> QED
  BY <1>2, InitQueue, Invariance, PTL DEF Spec, IsQueue, Ring!Spec
============================================================================
