----------------------------- MODULE WebUsbLink -----------------------------
(***************************************************************************)
(* The configuration link: the request chain and frame reader of the page   *)
(* (mi-rc003.js) and the reassembly of frames in the firmware               *)
(* (webusb_transport.c).  A frame is its header followed by as many units   *)
(* as the header announces; a unit is whatever part of a frame one USB      *)
(* packet carries.  Neither side knows a unit's origin: a header is told by *)
(* its two marker bytes, and what follows it is counted.                    *)
(*                                                                          *)
(* The bus and the browser are external: a transfer delivers its packets in *)
(* order until the device is closed, and closing it ends the transfers      *)
(* under way.  Answers the page has not fetched stay in the device.         *)
(***************************************************************************)
EXTENDS Naturals, Sequences

CONSTANTS
    Requests,       \* what the page may send
    NoRequest,
    Extra,          \* units of a request beyond its header
    FifoSize,       \* CFG_TUD_VENDOR_TX_BUFSIZE, in units
    AccSize         \* the accumulator: header and WEBUSB_MAX_PAYLOAD, in units

ASSUME RequestAssumption == NoRequest \notin Requests /\ Extra \in [Requests -> Nat]
ASSUME SizeAssumption == FifoSize \in Nat \ {0} /\ AccSize \in Nat
\* A chunk is 64 bytes, the accumulator takes 32768 after a header
ASSUME FitAssumption == \A r \in Requests : Extra[r] < AccSize

VARIABLES
    open,       \* _device is set
    chain,      \* calls that wait in _chain
    flight,     \* the call _send is serving
    rx,         \* _rx
    wire,       \* units of the transferOut that the device has not taken
    acc,        \* s_rx_acc
    fifo,       \* answer units the page has not fetched
    \* history, read by the properties and by the comparison with RequestAnswer only
    runs,       \* executions since flight was sent; 2 for one of any other request
    fresh,      \* nothing of an older connection was in the link when this one began
    cut,        \* an answer of this connection was cut off
    last        \* how the last call ended

pageVars    == <<open, chain, flight, rx>>
busVars     == <<wire, acc, fifo>>
historyVars == <<runs, fresh, cut, last>>
linkVars    == <<pageVars, busVars, historyVars>>

\* of and old are history: the request a unit belongs to, and whether the
\* connection it was sent over has ended
Unit(h, r, n, v) == [head |-> h, of |-> r, more |-> n, answer |-> v, old |-> FALSE]
Frame(r, n, v)   == <<Unit(TRUE, r, n, v)>> \o [i \in 1..n |-> Unit(FALSE, r, 0, v)]

\* What is left of a connection that has ended
Aged(s) == [i \in DOMAIN s |-> [s[i] EXCEPT !.old = TRUE]]

\* All bytes before a header are dropped, on both sides
Synced(s) ==
    LET heads == { i \in DOMAIN s : s[i].head } IN
    IF heads = {} THEN <<>>
    ELSE SubSeq(s, CHOOSE i \in heads : \A j \in heads : i <= j, Len(s))

\* Mutant: the last unit of a frame is waited for twice
CompleteLate(s) == s # <<>> /\ Len(s) > s[1].more + 1

Complete(s) == s # <<>> /\ Len(s) > s[1].more

Rest(s) == SubSeq(s, s[1].more + 2, Len(s))

LinkInit ==
    /\ open = FALSE /\ chain = <<>> /\ flight = NoRequest /\ rx = <<>>
    /\ wire = <<>> /\ acc = <<>> /\ fifo = <<>>
    /\ runs = 0 /\ fresh = TRUE /\ cut = FALSE
    /\ last = "none"

----------------------------------------------------------------------------
(* The page.  calls are those the page's code makes as the action lets it go on *)

\* send
Call(calls) ==
    /\ chain' = chain \o calls
    /\ UNCHANGED <<open, flight, rx, busVars, historyVars>>

\* _send on an open device
Begin ==
    /\ flight = NoRequest /\ chain # <<>> /\ open
    /\ flight' = Head(chain) /\ chain' = Tail(chain)
    /\ wire' = Frame(flight', Extra[flight'], NoRequest)
    /\ last' = "none"
    /\ UNCHANGED <<open, rx, acc, fifo, runs, fresh, cut>>

\* _send on a closed one
Refuse(calls) ==
    /\ flight = NoRequest /\ chain # <<>> /\ ~open
    /\ chain' = Tail(chain) \o calls
    /\ last' = "failed"
    /\ UNCHANGED <<open, flight, rx, busVars, runs, fresh, cut>>

Reading == open /\ flight # NoRequest /\ wire = <<>>

\* transferIn, for as long as _rx holds no whole frame
Fetch(n) ==
    /\ Reading /\ ~Complete(Synced(rx))
    /\ n \in 1..Len(fifo)
    /\ rx' = Synced(rx) \o SubSeq(fifo, 1, n)
    /\ fifo' = SubSeq(fifo, n + 1, Len(fifo))
    /\ UNCHANGED <<open, chain, flight, wire, acc, historyVars>>

Answered == Reading /\ Complete(Synced(rx))

\* _readFrame gives _send its frame; it is not compared with the request
Answer(calls) ==
    /\ Answered
    /\ rx' = Rest(Synced(rx))
    /\ last' = IF runs = 1 /\ Synced(rx)[1].of = flight /\ ~Synced(rx)[1].old
               THEN "answered" ELSE "mixed up"
    /\ runs' = 0
    /\ flight' = NoRequest
    /\ chain' = chain \o calls
    /\ UNCHANGED <<open, busVars, fresh, cut>>

\* Mutant: the reader goes on with what an older connection left
ReaderKept == UNCHANGED rx

ReaderEmptied == rx' = <<>>

\* connect.  The user picks a device in a dialog; the calls that were made without one
\* have been rejected by then, for that takes the browser no event
Connect(calls) ==
    /\ ~open /\ flight = NoRequest /\ chain = <<>>
    /\ open' = TRUE
    /\ ReaderEmptied
    /\ chain' = calls
    /\ fresh' = (acc = <<>> /\ fifo = <<>>)
    /\ cut' = FALSE
    /\ UNCHANGED <<flight, busVars, runs, last>>

----------------------------------------------------------------------------
(* The device *)

\* process_rx_bytes up to the loop: bytes that do not fit replace what is there
Collected ==
    Synced((IF Len(acc) < AccSize THEN acc ELSE <<>>) \o <<Head(wire)>>)

Arriving  == wire # <<>>
Completes == Arriving /\ Complete(Collected)
Received  == Collected[1].of

\* A frame may have been completed by units of a later request
Foreign == \E i \in 1..Len(Collected) : Collected[i].of # Received

Collect ==
    /\ Arriving /\ ~Completes
    /\ acc' = Collected /\ wire' = Tail(wire)
    /\ UNCHANGED <<pageVars, fifo, historyVars>>

\* Mutant: the return value of tud_vendor_write is not looked at
WriteWhole(answer) ==
    /\ fifo' = fifo \o answer
    /\ UNCHANGED cut

\* write_all: what the FIFO does not take at once is lost
WriteAll(answer) ==
    LET room == FifoSize - Len(fifo) IN
    /\ fifo' = fifo \o SubSeq(answer, 1, IF Len(answer) < room THEN Len(answer) ELSE room)
    /\ cut' = (cut \/ Len(answer) > room)

\* handle_request and webusb_transport_send; v is the answer, n its units beyond the header
Execute(n, v) ==
    LET answer == Frame(Received, n, v) IN
    /\ Completes
    /\ acc' = Rest(Collected) /\ wire' = Tail(wire)
    /\ WriteAll(IF Collected[1].old THEN Aged(answer) ELSE answer)
    /\ runs' = IF Received = flight /\ ~Collected[1].old /\ ~Foreign /\ runs = 0 THEN 1 ELSE 2
    /\ UNCHANGED <<pageVars, fresh, last>>

----------------------------------------------------------------------------
(* The end of a connection *)

Lose ==
    /\ open /\ open' = FALSE
    /\ wire' = <<>>
    /\ UNCHANGED <<chain, flight, historyVars>>

\* disconnect, by the page
Close ==
    /\ Lose
    /\ rx' = <<>>
    /\ acc' = Aged(acc) /\ fifo' = Aged(fifo)

\* The bus is reset under the page, by the host or by the firmware's recovery
\* from a resume: TinyUSB empties its FIFO, the accumulator keeps what it has
BusReset ==
    /\ Lose
    /\ acc' = Aged(acc) /\ fifo' = <<>>
    /\ UNCHANGED rx

\* The device restarts or loses power
Restart ==
    /\ Lose
    /\ acc' = <<>> /\ fifo' = <<>>
    /\ UNCHANGED rx

\* The transfer under way is rejected
Fail(calls) ==
    /\ flight # NoRequest /\ ~open
    /\ flight' = NoRequest
    /\ last' = "failed"
    /\ runs' = 0
    /\ chain' = chain \o calls
    /\ UNCHANGED <<open, rx, busVars, fresh, cut>>

----------------------------------------------------------------------------
\* The calls as RequestAnswer sees them
Promise == INSTANCE RequestAnswer WITH waiting <- chain, current <- flight
============================================================================
