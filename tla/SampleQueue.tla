----------------------------- MODULE SampleQueue -----------------------------
(***************************************************************************)
(* What the ring of audio_ring_buffer.c promises to its two users: a        *)
(* bounded queue.  As much of a frame as there is room for goes in at the   *)
(* end, a transfer takes from the front, and clearing leaves nothing.       *)
(*                                                                          *)
(* Nothing locks the ring: after a clear() that came into a read or a write *)
(* the content is open, until a clear() that did not.                       *)
(***************************************************************************)
EXTENDS Naturals, Sequences

CONSTANTS
    Room,       \* the samples it holds
    Longest     \* the samples of a transfer

VARIABLES
    queue,      \* the samples, oldest first
    last,       \* the number of the last sample taken
    open        \* the content is not known

vars == <<queue, last, open>>

Init == queue = <<>> /\ last = 0 /\ open = FALSE

\* The first samples of a frame; they follow each other and whatever came before
Put ==
    /\ Len(queue) <= Len(queue') /\ Len(queue') <= Room
    /\ SubSeq(queue', 1, Len(queue)) = queue
    /\ \A i \in Len(queue) + 1 .. Len(queue') :
          /\ queue'[i].number > last
          /\ i > 1 => queue'[i].number > queue'[i - 1].number
          /\ i > Len(queue) + 1 => queue'[i].number = queue'[i - 1].number + 1
    /\ UNCHANGED <<last, open>>

Take ==
    /\ \E n \in 1..Longest :
          /\ n <= Len(queue)
          /\ last' = queue[n].number
          /\ queue' = SubSeq(queue, n + 1, Len(queue))
    /\ UNCHANGED open

Clear == queue' = <<>> /\ open' \in BOOLEAN /\ UNCHANGED last

\* Anything may be heard
Garbled == open /\ UNCHANGED <<queue, open>>

Next == Put \/ Take \/ Clear \/ Garbled

Spec == Init /\ [][Next]_vars
==============================================================================
