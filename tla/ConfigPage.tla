----------------------------- MODULE ConfigPage -----------------------------
(***************************************************************************)
(* The configuration page (app.js) over the link of WebUsbLink, and the     *)
(* commands of webusb_protocol.cpp it sends.  Each async function of the    *)
(* page is a script of calls; between two of them the others, the poll      *)
(* timer and the user go on.  A document is the number of the edit that     *)
(* made it (0: factory); it is uploaded in parts.                           *)
(***************************************************************************)
EXTENDS WebUsbLink

CONSTANTS
    Parts,      \* KEYMAP_DATA chunks of a document
    BufSize,    \* s_save_buf, in chunks
    BigDocs,    \* documents whose KEYMAP_GET answer is longer than the FIFO
    MaxEdits,   \* bound: edits, typed documents included
    MaxEvents,  \* bound: saves, resets, reloads and connections that end
    MaxWaiting  \* bound: calls that wait when a poll is added to them

\* A document has a chunk at least: its text is not empty
ASSUME BoundAssumption == Parts \in Nat \ {0} /\ {BufSize, MaxEdits, MaxEvents} \subseteq Nat

Docs    == 0..MaxEdits
Garbage == MaxEdits + 1         \* what is not a keymap
Long    == MaxEdits + 2         \* a text whose last chunk s_save_buf refuses
Shown   == 0..Long
Unknown == MaxEdits + MaxEvents + 1   \* config_rev of an answer that has none
Nil     == Unknown + 1              \* null

\* Functions of one call, of which any number may be open; the others make several
Singles == {"poll", "load"}
Scripts == {"connect", "save", "reset", "apply"}
Tasks   == Singles \cup Scripts
Uploads == {"save", "apply"}
Upload == <<"BEGIN">> \o [i \in 1..Parts |-> "DATA"] \o <<"COMMIT">>

\* Mutant: the keymap is not read back after a reset
ResetOnly == <<"RESET">>

Restore == <<"RESET", "GET">>

Script(t) ==
    CASE t = "connect" -> <<"INFO", "STATUS", "GET", "INFO">>
      [] t = "poll"    -> <<"STATUS">>
      [] t = "load"    -> <<"GET">>
      [] t = "save"    -> Upload \o <<"LAYER", "GET">>
      [] t = "reset"   -> Restore
      [] t = "apply"   -> Upload \o <<"GET">>

\* Call number i of a script
Request(t, i, d) == [task |-> t, at |-> i, cmd |-> Script(t)[i], doc |-> d]

PageRequests ==
    UNION { { Request(t, i, d) : i \in DOMAIN Script(t), d \in Shown } : t \in Tasks }
DataUnits == [r \in PageRequests |-> IF r.cmd = "DATA" THEN 1 ELSE 0]

ASSUME PageAssumption == Requests = PageRequests /\ Extra = DataUnits

VARIABLES
    engine,     \* the keymap in the engine, those flash may hold, config_rev, s_save_buf,
                \* whether it exists and whether the heap has room for it
    page,       \* keymap, dirty, lastConfigRev, savingKeymap, the timers
    task,       \* where the functions of several calls stand, and their document
    edits, events,  \* used of the bounds
    \* history, read by the properties only
    mine,       \* an unsaved edit is on screen, made while nothing was under way
    torn,       \* an upload has overlapped with another one or with a restart
    refused     \* the text on screen was typed, and could not be written

vars == <<linkVars, engine, page, task, edits, events, mine, torn, refused>>

Idle == [at |-> 0, doc |-> 0]

\* A function that is open waits for one call
Waits(t) == \/ flight # NoRequest /\ flight.task = t
            \/ \E i \in 1..Len(chain) : chain[i].task = t
Busy(t)  == IF t \in Singles THEN Waits(t) ELSE task[t].at # 0

----------------------------------------------------------------------------
(* webusb_protocol_handle *)

Booted(d, room) ==
    [doc |-> d, kept |-> {0, d}, rev |-> 0, room |-> room, begun |-> FALSE, buf |-> <<>>]

\* The chunks of a document that s_save_buf takes
Taken == IF Parts < BufSize THEN Parts ELSE BufSize

\* An earlier visitor of the page left before its COMMIT
AfterUpload ==
    [Booted(0, TRUE) EXCEPT !.begun = TRUE, !.buf = [i \in 1..Taken |-> [doc |-> 0, part |-> i]]]

Chunk(r)      == [doc |-> r.doc, part |-> r.at - 1]
StrangeChunk  == [doc |-> Garbage, part |-> 1]

\* key_config_from_json takes the first document of the text and ignores the rest
Parsed(buf) ==
    LET whole == { d \in Docs : /\ Len(buf) >= Parts
                                /\ \A i \in 1..Parts : buf[i] = [doc |-> d, part |-> i] }
    IN IF whole = {} THEN Garbage ELSE CHOOSE d \in whole : TRUE

\* Mutant: BEGIN keeps what an upload has left
BeganOver(e) == [e EXCEPT !.begun = TRUE]

Began(e) == [e EXCEPT !.begun = TRUE, !.buf = <<>>]

Done(e)   == [engine |-> e, ok |-> TRUE]
Failed(e) == [engine |-> e, ok |-> FALSE]

TooLong(r, e) == Len(e.buf) = BufSize \/ (r.doc = Long /\ r.at = Parts + 1)

\* The engine after a command, and whether it reports success
Handle(r, e) ==
    CASE r.cmd = "BEGIN"  -> IF e.begun \/ e.room THEN Done(Began(e)) ELSE Failed(e)
      [] r.cmd = "DATA"   ->
            IF ~e.begun \/ TooLong(r, e) THEN Failed(e)
            ELSE Done([e EXCEPT !.buf = Append(@, IF Foreign THEN StrangeChunk ELSE Chunk(r))])
      [] r.cmd = "COMMIT" ->
            IF Parsed(e.buf) \in Docs
            THEN Done([e EXCEPT !.doc = Parsed(e.buf), !.kept = @ \cup {Parsed(e.buf)},
                                !.rev = @ + 1, !.buf = <<>>])
            ELSE Failed([e EXCEPT !.buf = <<>>])
      [] r.cmd = "RESET"  -> Done([e EXCEPT !.doc = 0, !.rev = @ + 1])
      [] OTHER            -> Done(e)

\* The fields of an answer that the page may look for
AnswerTo(r) ==
    [ok  |-> Handle(r, engine).ok,
     doc |-> IF r.cmd = "GET" THEN engine.doc ELSE Garbage,
     rev |-> IF r.cmd = "STATUS" THEN engine.rev ELSE Unknown]

AnswerUnits(r) == IF r.cmd # "GET" THEN 0 ELSE IF engine.doc \in BigDocs THEN FifoSize ELSE 1

\* tud_vendor_rx_cb with one packet
Deliver ==
    /\ \/ Collect /\ UNCHANGED engine
       \/ /\ Execute(AnswerUnits(Received), AnswerTo(Received))
          /\ engine' = Handle(Received, engine).engine
    /\ UNCHANGED <<page, task, edits, events, mine, torn, refused>>

----------------------------------------------------------------------------
(* The async functions *)

\* Functions whose first failing call ends them
Fatal(r) == r.cmd \in {"BEGIN", "DATA", "COMMIT", "RESET"}

Starting(ts, t, d) == [ts EXCEPT ![t] = [at |-> 1, doc |-> d]]

\* Mutant: ... whether the user has edits or not
ReloadsAnyway(r, ok, v) ==
    /\ ok /\ r.cmd = "STATUS"
    /\ page.rev # Nil /\ v.rev # page.rev

\* refreshStatus: a new config_rev reloads the keymap unless the user has edits
Reloads(r, ok, v) ==
    /\ ok /\ r.cmd = "STATUS"
    /\ page.rev # Nil /\ v.rev # page.rev
    /\ ~page.dirty

IsLast(r)   == r.at = Len(Script(r.task))
Ends(r, ok) == IsLast(r) \/ (~ok /\ Fatal(r))

\* A call of script r.task ends with answer v; ok is FALSE if it was rejected
Continue(r, ok, v) ==
    LET t     == r.task
        stops == Ends(r, ok)
    IN
    /\ task' = IF t \in Singles THEN task
               ELSE [task EXCEPT ![t] = IF stops THEN Idle ELSE [at |-> @.at + 1, doc |-> @.doc]]
    /\ page' = [page EXCEPT
         !.shown  = IF ok /\ r.cmd = "GET" THEN v.doc ELSE @,
         !.dirty  = @ /\ ~(ok /\ (r.cmd = "GET" \/ (r.cmd = "COMMIT" /\ t = "save"))),
         !.rev    = IF ok /\ r.cmd = "STATUS" THEN v.rev
                    ELSE IF IsLast(r) /\ t \in {"save", "reset"} THEN Nil ELSE @,
         !.saving = @ /\ ~(t = "save" /\ stops),
         !.timers = @ \/ (t = "connect" /\ stops)]
    /\ mine' = (mine /\ ~(ok /\ r.cmd = "COMMIT"))
    /\ refused' = IF ok THEN refused /\ r.cmd # "GET" ELSE refused \/ (t = "apply" /\ Fatal(r))

\* The calls that the functions then make
NextCalls(r, ok, v) ==
    (IF Ends(r, ok) THEN <<>> ELSE <<Request(r.task, r.at + 1, r.doc)>>)
    \o (IF Reloads(r, ok, v) THEN <<Request("load", 1, 0)>> ELSE <<>>)

NoAnswer == [ok |-> FALSE, doc |-> Garbage, rev |-> Unknown]

PageRefuse ==
    /\ Refuse(NextCalls(Head(chain), FALSE, NoAnswer))
    /\ Continue(Head(chain), FALSE, NoAnswer)
    /\ UNCHANGED <<engine, edits, events, torn>>

PageAnswer ==
    LET v == Synced(rx)[1].answer IN
    /\ Answer(NextCalls(flight, v.ok, v))
    /\ Continue(flight, v.ok, v)
    /\ UNCHANGED <<engine, edits, events, torn>>

PageBegin == Begin /\ UNCHANGED <<engine, page, task, edits, events, mine, torn, refused>>

PageFetch == /\ \E n \in 1..FifoSize : Fetch(n)
             /\ UNCHANGED <<engine, page, task, edits, events, mine, torn, refused>>

\* setInterval(refreshStatus), whether or not an earlier poll has been answered, and
\* the return of the focus to an open page
Poll ==
    /\ page.timers \/ open
    /\ Len(chain) < MaxWaiting
    /\ Call(<<Request("poll", 1, 0)>>)
    /\ UNCHANGED <<engine, page, task, edits, events, mine, torn, refused>>

----------------------------------------------------------------------------
(* The user.  A button of several calls is not pressed while they go on (bound) *)

Press(t, d) ==
    /\ events < MaxEvents /\ events' = events + 1
    /\ ~Busy(t)
    /\ task' = Starting(task, t, d)
    /\ Call(<<Request(t, 1, d)>>)
    /\ torn' = (torn \/ (t \in Uploads /\ \E u \in Uploads : Busy(u)))
    /\ UNCHANGED engine

\* btn-connect
PageConnect ==
    /\ ~Busy("connect")
    /\ Connect(<<Request("connect", 1, 0)>>)
    /\ task' = Starting(task, "connect", 0)
    /\ page' = [page EXCEPT !.rev = Nil]
    /\ mine' = FALSE
    /\ UNCHANGED <<engine, edits, events, torn, refused>>

\* applyEditor; a keymap that is too long may remain so
Edit ==
    /\ page.shown # Garbage
    /\ edits < MaxEdits /\ edits' = edits + 1
    /\ \E d \in {edits'} \cup ({page.shown} \cap {Long}) :
          page' = [page EXCEPT !.shown = d, !.dirty = TRUE]
    /\ mine' = (mine \/ \A t \in Tasks \ {"poll"} : ~Busy(t))
    /\ UNCHANGED <<linkVars, engine, task, events, torn, refused>>

\* btn-keymap-save
Save ==
    /\ ~page.saving
    /\ Press("save", page.shown)
    /\ page' = [page EXCEPT !.saving = TRUE]
    /\ UNCHANGED <<edits, mine, refused>>

\* btn-keymap-reset
Reset ==
    /\ Press("reset", 0)
    /\ mine' = FALSE
    /\ UNCHANGED <<page, edits, refused>>

\* btn-keymap-refresh (confirmed when there are edits) and btn-json-load
Reload ==
    /\ events < MaxEvents /\ events' = events + 1
    /\ Call(<<Request("load", 1, 0)>>)
    /\ mine' = FALSE
    /\ UNCHANGED <<engine, page, task, edits, torn, refused>>

\* btn-json-apply with a text the user has typed: any JSON, on screen before the
\* device has seen it; savingKeymap is not looked at
Apply ==
    /\ edits < MaxEdits /\ edits' = edits + 1
    /\ \E d \in {edits', Garbage, Long} :
          /\ Press("apply", d)
          /\ page' = [page EXCEPT !.shown = d]
    /\ mine' = FALSE /\ refused' = FALSE

----------------------------------------------------------------------------
(* The end of a connection *)

Break ==
    /\ events < MaxEvents /\ events' = events + 1
    /\ page' = [page EXCEPT !.timers = FALSE]
    /\ UNCHANGED <<task, edits, mine, refused>>

\* btn-disconnect
PageClose == Close /\ Break /\ UNCHANGED <<engine, torn>>

BusLost == BusReset /\ Break /\ UNCHANGED <<engine, torn>>

\* Saves are late and may fail: the next boot finds any keymap of this run in flash,
\* or none
DeviceLost ==
    /\ Restart /\ Break
    /\ \E d \in engine.kept, room \in BOOLEAN : engine' = Booted(d, room)
    /\ torn' = (torn \/ \E u \in Uploads : Busy(u))

PageFail ==
    /\ Fail(NextCalls(flight, FALSE, NoAnswer))
    /\ Continue(flight, FALSE, NoAnswer)
    /\ UNCHANGED <<engine, edits, events, torn>>

----------------------------------------------------------------------------
Init ==
    /\ LinkInit
    /\ engine \in {Booted(0, TRUE), Booted(0, FALSE), AfterUpload}
    /\ page = [shown |-> Garbage, dirty |-> FALSE, rev |-> Nil, saving |-> FALSE, timers |-> FALSE]
    /\ task = [t \in Scripts |-> Idle]
    /\ edits = 0 /\ events = 0
    /\ mine = FALSE /\ torn = FALSE /\ refused = FALSE

PageStep == PageBegin \/ PageRefuse \/ PageFetch \/ PageAnswer \/ PageFail

Next ==
    \/ PageConnect \/ Edit \/ Save \/ Reset \/ Reload \/ Apply
    \/ PageStep \/ Poll \/ Deliver
    \/ PageClose \/ BusLost \/ DeviceLost

Spec == Init /\ [][Next]_vars

\* The page's promises and its timer run on, the device takes packets; nobody is
\* obliged to press a button
FairSpec == Spec /\ WF_vars(PageStep \/ Poll \/ Deliver)

----------------------------------------------------------------------------
(* Properties *)

Answers == [ok : BOOLEAN, doc : Shown, rev : 0..Unknown]
Units   == [head : BOOLEAN, of : PageRequests, more : 0..FifoSize,
            answer : Answers \cup {NoRequest}, old : BOOLEAN]

\* Every variable stays within its type: the accumulator and the vendor FIFO within
\* their sizes (webusb_transport.c:84-88, 21-40).  Nothing bounds the calls that wait:
\* the timer adds one a second whether or not they are answered.
TypeOK ==
    /\ {open, fresh, cut, mine, torn, refused} \subseteq BOOLEAN
    /\ chain \in Seq(PageRequests)
    /\ flight \in PageRequests \cup {NoRequest}
    /\ \A s \in {rx, wire, acc, fifo} : s \in Seq(Units)
    /\ Len(acc) <= AccSize /\ Len(fifo) <= FifoSize
    /\ runs \in 0..2
    /\ engine.doc \in Docs /\ engine.kept \subseteq Docs
    /\ engine.rev \in 0..MaxEdits + MaxEvents /\ Len(engine.buf) <= BufSize
    /\ page \in [shown : Shown, dirty : BOOLEAN, rev : 0..Nil, saving : BOOLEAN, timers : BOOLEAN]
    /\ task \in [Scripts -> [at : 0..Parts + 4, doc : Shown]]

\* The link keeps the promise of RequestAnswer: calls are served in the order they
\* were made, none is run twice, and one that is answered was answered by its own
\* execution.  send keeps one request in flight (mi-rc003.js:672-685), but neither
\* _send nor _readFrame compares an answer with its request: all of it rests on both
\* ends having dropped what an earlier connection left, which RequestAnswer excuses
\* where connect finds remains in the device (fresh).
KeepsPromise == Promise!Spec

\* A COMMIT takes over the document that was uploaded by the same call, whole, from
\* the one buffer that all uploads share (webusb_protocol.cpp:104-147).  Where
\* another upload or a restart came in between (torn), the parser refuses the mixture.
CommitIsOwn ==
    Completes /\ Received.cmd = "COMMIT" /\ fresh =>
        \/ Parsed(engine.buf) = Received.doc
        \/ Parsed(engine.buf) = Garbage /\ torn

\* An edit made while nothing but polls was under way stays on screen until another edit
\* replaces it, a COMMIT succeeds or the user reloads, resets, applies a text or
\* connects: the poll that sees a new config_rev does not reload over it
\* (app.js:149-157), however late its answer comes.  An edit made during a load or a
\* save is not covered: the code overwrites it.
EditsKept == [][mine /\ mine' => page'.shown = page.shown \/ edits' # edits]_vars

\* An answer was cut off (write_all gives up), or remains of an older connection
\* shift the answers of this one: the page then waits for an answer without a timeout
Stuck == cut \/ ~fresh

\* Every async function of the page comes to its end, whatever is pressed, closed,
\* unplugged or restarted while it waits; a rejected call must not leave the chain
\* blocked (mi-rc003.js:679-685).
CallsEnd ==
    /\ []<>(Stuck \/ flight = NoRequest)
    /\ \A t \in Scripts \cup {"load"} : []<>(Stuck \/ ~Busy(t))

\* While the page is connected it comes to show the keymap in the device, or says that
\* it has unsaved edits: uploads, resets and restarts are read back or noticed by the
\* poll through config_rev (app.js:149-157, 289-290, 307-308).  Excepted are a typed
\* text that the device refused, which stays on screen as if it were saved
\* (app.js:1258-1261), and uploads that overlap, which both fail.
ScreenCatchesUp ==
    []<>(page.shown = engine.doc \/ page.dirty \/ refused \/ torn \/ ~open \/ Stuck)
=============================================================================
