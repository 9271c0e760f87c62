-------------------------- MODULE ConfigPageProofs --------------------------
(***************************************************************************)
(* The configuration page, the link and the device, for any number of       *)
(* parts, buffers, documents, edits and events:                             *)
(*   ConfigTypeCorrect   every variable has its type                        *)
(*   CommitsOwnUpload    a COMMIT takes over the document of its own upload *)
(*   EditsSurvive        no poll replaces an edit it might have overtaken   *)
(*   PromiseKept         the link refines RequestAnswer                     *)
(* The inductive invariant is ConfigInv, and ConfigStep its preservation.   *)
(***************************************************************************)
EXTENDS ConfigPage, SequenceTheorems, FiniteSetTheorems, WellFoundedInduction, TLAPS

----------------------------------------------------------------------------
(* Sequences *)

\* A nonempty set of numbers has a least one
LEMMA LeastNumber ==
    ASSUME NEW T \in SUBSET Nat, T # {}
    PROVE  \E i \in T : \A j \in T : i <= j
<1> DEFINE R == OpToRel(<, Nat)
<1>1. IsWellFoundedOn(R, Nat)
  BY NatLessThanWellFounded
<1>2. \A x, y \in Nat : <<x, y>> \in R <=> x < y
  BY DEF OpToRel
<1> HIDE DEF R
<1>3. PICK i \in T : \A j \in T : ~(<<j, i>> \in R)
  BY <1>1, WFMin
<1>4. \A j \in T : ~(j < i)
  <2> SUFFICES ASSUME NEW j \in T PROVE ~(j < i)
    OBVIOUS
  <2>1. j \in Nat /\ i \in Nat
    OBVIOUS
  <2> QED
    BY <1>2, <1>3, <2>1, Zenon
<1> QED
  BY <1>4

\* A function on 1..n is a sequence of length n
LEMMA FunctionIsSeq ==
    ASSUME NEW S, NEW n \in Nat, NEW f \in [1..n -> S]
    PROVE  f \in Seq(S) /\ Len(f) = n
<1>1. f \in Seq(S)
  BY SeqDef
<1>2. DOMAIN f = 1..n /\ DOMAIN f = 1..Len(f) /\ Len(f) \in Nat
  BY <1>1, LenProperties
<1> QED
  BY <1>1, <1>2

LEMMA ShortSeqs ==
    ASSUME NEW S, NEW a \in S, NEW b \in S, NEW c \in S, NEW d \in S
    PROVE  /\ <<a>> \in Seq(S) /\ Len(<<a>>) = 1
           /\ <<a, b>> \in Seq(S) /\ Len(<<a, b>>) = 2
           /\ <<a, b, c, d>> \in Seq(S) /\ Len(<<a, b, c, d>>) = 4
OBVIOUS

LEMMA EmptyByLength ==
    ASSUME NEW S, NEW s \in Seq(S)
    PROVE  s = <<>> <=> Len(s) = 0
BY EmptySeq

----------------------------------------------------------------------------
(* Constants *)

\* The assumptions of the modules, in the form the leaves cite
LEMMA Bounds == /\ Parts \in Nat \ {0} /\ BufSize \in Nat /\ MaxEdits \in Nat /\ MaxEvents \in Nat
                /\ FifoSize \in Nat \ {0} /\ AccSize \in Nat
                /\ Docs \subseteq Shown /\ 0 \in Docs /\ 0 \in Shown
                /\ Garbage \in Shown /\ Long \in Shown
                /\ Unknown \in Nat /\ Nil \in Nat
BY BoundAssumption, SizeAssumption DEF Docs, Shown, Garbage, Long, Unknown, Nil

----------------------------------------------------------------------------
(* Units and frames *)

UnitsOf(V) == [head : BOOLEAN, of : PageRequests, more : 0..FifoSize, answer : V, old : BOOLEAN]

\* What travels to the device, and what travels back
Sent == UnitsOf({NoRequest})
Back == UnitsOf(Answers)

\* Unit i of Frame(r, n, v)
Nth(i, r, n, v) == IF i = 1 THEN Unit(TRUE, r, n, v) ELSE Unit(FALSE, r, 0, v)

\* A frame has a head and n payload units
LEMMA FrameUnits ==
    ASSUME NEW V, NEW v \in V, NEW r \in PageRequests, NEW n \in 0..FifoSize
    PROVE  /\ Frame(r, n, v) \in Seq(UnitsOf(V))
           /\ Len(Frame(r, n, v)) = n + 1
           /\ \A i \in 1..n + 1 : Frame(r, n, v)[i] = Nth(i, r, n, v)
<1> DEFINE U == UnitsOf(V)
<1> DEFINE first == <<Unit(TRUE, r, n, v)>>
<1> DEFINE others == [i \in 1..n |-> Unit(FALSE, r, 0, v)]
<1> n \in Nat /\ 0 \in 0..FifoSize
  BY Bounds
<1>1. Unit(TRUE, r, n, v) \in U /\ Unit(FALSE, r, 0, v) \in U
  BY DEF UnitsOf, Unit
<1> HIDE DEF U
<1>2. first \in Seq(U) /\ Len(first) = 1 /\ first[1] = Unit(TRUE, r, n, v)
  <2> DEFINE u == Unit(TRUE, r, n, v)
  <2>1. u \in U
    BY <1>1
  <2> HIDE DEF u
  <2>2. <<u>> \in Seq(U) /\ Len(<<u>>) = 1 /\ <<u>>[1] = u
    BY <2>1
  <2> QED
    BY <2>2 DEF u
<1>3. others \in Seq(U) /\ Len(others) = n /\ \A i \in 1..n : others[i] = Unit(FALSE, r, 0, v)
  BY <1>1, FunctionIsSeq
<1>4. Frame(r, n, v) = first \o others
  BY DEF Frame
<1> HIDE DEF first, others
<1>5. /\ first \o others \in Seq(U)
      /\ Len(first \o others) = Len(first) + Len(others)
      /\ \A i \in 1..Len(first) + Len(others) :
            (first \o others)[i] = IF i <= Len(first) THEN first[i] ELSE others[i - Len(first)]
  <2>1. first \in Seq(U) /\ others \in Seq(U)
    BY <1>2, <1>3
  <2> QED
    BY <2>1, ConcatProperties
<1>6. ASSUME NEW i \in 1..n + 1 PROVE (first \o others)[i] = Nth(i, r, n, v)
  <2>1. (first \o others)[i] = IF i <= 1 THEN first[i] ELSE others[i - 1]
    BY <1>2, <1>3, <1>5
  <2>2. CASE i = 1
    <3>1. (first \o others)[i] = first[1]
      BY <2>1, <2>2
    <3>2. Nth(i, r, n, v) = Unit(TRUE, r, n, v)
      BY <2>2 DEF Nth
    <3> QED
      BY <1>2, <3>1, <3>2
  <2>3. CASE i # 1
    <3>1. i - 1 \in 1..n /\ ~(i <= 1)
      BY <2>3
    <3> QED
      BY <1>3, <2>1, <2>3, <3>1 DEF Nth
  <2> QED
    BY <2>2, <2>3
<1>7. Len(first \o others) = n + 1
  BY <1>2, <1>3, <1>5
<1> QED
  BY <1>4, <1>5, <1>6, <1>7 DEF U

\* Synced drops units up to the next head
LEMMA SyncedUnits ==
    ASSUME NEW V, NEW s \in Seq(UnitsOf(V))
    PROVE  /\ Synced(s) \in Seq(UnitsOf(V))
           /\ s # <<>> /\ s[1].head => Synced(s) = s
           /\ s = <<>> => Synced(s) = <<>>
<1> DEFINE U == UnitsOf(V)
<1> DEFINE heads == { i \in DOMAIN s : s[i].head }
<1> DEFINE m == CHOOSE i \in heads : \A j \in heads : i <= j
<1>1. DOMAIN s = 1..Len(s) /\ Len(s) \in Nat
  BY LenProperties
<1>2. CASE heads = {}
  <2>1. Synced(s) = <<>>
    BY <1>2 DEF Synced
  <2>2. s # <<>> => 1 \in DOMAIN s
    BY <1>1, EmptyByLength
  <2> QED
    BY <1>2, <2>1, <2>2
<1>3. CASE heads # {}
  <2>1. heads \in SUBSET Nat
    BY <1>1
  <2>2. m \in heads /\ \A j \in heads : m <= j
    BY <1>3, <2>1, LeastNumber
  <2>3. m \in 1..Len(s)
    BY <1>1, <2>2
  <2>4. Synced(s) = SubSeq(s, m, Len(s))
    BY <1>3 DEF Synced
  <2>5. s # <<>> /\ s[1].head => m = 1
    <3>1. s # <<>> /\ s[1].head => 1 \in heads
      BY <1>1, EmptyByLength
    <3> QED
      BY <2>2, <2>3, <3>1
  <2> HIDE DEF m
  <2>6. SubSeq(s, m, Len(s)) \in Seq(U)
    <3>1. \A i \in m..Len(s) : s[i] \in U
      BY <1>1, <2>3, ElementOfSeq
    <3> QED
      BY <1>1, <2>3, <3>1, SubSeqProperties
  <2>7. s # <<>>
    BY <1>1, <2>3, EmptyByLength
  <2> QED
    BY <2>4, <2>5, <2>6, <2>7, SubSeqFull
<1> QED
  BY <1>2, <1>3

\* Rest takes one whole frame off a stream
LEMMA RestUnits ==
    ASSUME NEW V, NEW s \in Seq(UnitsOf(V)), Complete(s)
    PROVE  /\ Rest(s) \in Seq(UnitsOf(V))
           /\ s[1].more \in Nat /\ Len(s) \in Nat \ {0}
           /\ Len(s) = s[1].more + 1 => Rest(s) = <<>>
<1>1. Len(s) \in Nat \ {0}
  BY EmptyByLength, LenProperties DEF Complete
<1>2. \A i \in 1..Len(s) : s[i] \in UnitsOf(V)
  BY ElementOfSeq
<1>3. s[1].more \in Nat
  BY <1>1, <1>2, Bounds DEF UnitsOf
<1>4. SubSeq(s, s[1].more + 2, Len(s)) \in Seq(UnitsOf(V))
  BY <1>1, <1>2, <1>3, SubSeqProperties
<1>5. Len(s) = s[1].more + 1 => Rest(s) = <<>>
  <2>1. Len(s) = s[1].more + 1 => Len(s) < s[1].more + 2 /\ s[1].more + 2 \in Int /\ Len(s) \in Int
    BY <1>1, <1>3
  <2> QED
    BY <2>1, SubSeqEmpty DEF Rest
<1> QED
  BY <1>1, <1>3, <1>4, <1>5 DEF Rest

----------------------------------------------------------------------------
(* What the page may call *)

\* The functions, one by one
LEMMA AllTasks ==
    /\ Tasks = {"connect", "poll", "load", "save", "reset", "apply"}
    /\ Scripts = Tasks \ Singles /\ Uploads \subseteq Scripts
BY DEF Tasks, Singles, Scripts, Uploads

LEMMA PageCalls ==
    ASSUME NEW t \in Tasks, NEW i \in DOMAIN Script(t), NEW d \in Shown
    PROVE  Request(t, i, d) \in PageRequests
BY DEF PageRequests

\* A request of the page is a call of its function's script
LEMMA CallsOf ==
    ASSUME NEW r \in PageRequests
    PROVE  /\ r.task \in Tasks /\ r.at \in DOMAIN Script(r.task) /\ r.doc \in Shown
           /\ r.cmd = Script(r.task)[r.at]
<1>1. PICK t \in Tasks : \E i \in DOMAIN Script(t), d \in Shown : r = Request(t, i, d)
  BY DEF PageRequests
<1>2. PICK i \in DOMAIN Script(t), d \in Shown : r = Request(t, i, d)
  BY <1>1
<1> QED
  BY <1>2 DEF Request

Commands == {"BEGIN", "DATA", "COMMIT", "RESET", "GET", "INFO", "STATUS", "LAYER"}

\* An upload is BEGIN, one DATA for each part, COMMIT
LEMMA UploadCalls == Upload \in Seq(Commands) /\ Len(Upload) = Parts + 2
<1> DEFINE data == [i \in 1..Parts |-> "DATA"]
<1>1. data \in Seq(Commands) /\ Len(data) = Parts
  <2>1. data \in [1..Parts -> Commands]
    BY DEF Commands
  <2> HIDE DEF data
  <2> QED
    BY <2>1, Bounds, FunctionIsSeq
<1> HIDE DEF data
<1>2. <<"BEGIN">> \in Seq(Commands) /\ Len(<<"BEGIN">>) = 1 /\ <<"COMMIT">> \in Seq(Commands) /\ Len(<<"COMMIT">>) = 1
  <2>1. "BEGIN" \in Commands /\ "COMMIT" \in Commands
    BY DEF Commands
  <2> QED
    BY <2>1, ShortSeqs, Zenon
<1>3. <<"BEGIN">> \o data \in Seq(Commands) /\ Len(<<"BEGIN">> \o data) = Parts + 1
  BY <1>1, <1>2, ConcatProperties, Bounds
<1>4. /\ <<"BEGIN">> \o data \o <<"COMMIT">> \in Seq(Commands)
      /\ Len(<<"BEGIN">> \o data \o <<"COMMIT">>) = Parts + 2
  BY <1>2, <1>3, ConcatProperties, Bounds
<1> QED
  BY <1>4 DEF Upload, data

\* Every function makes at least one call
LEMMA ScriptCalls ==
    ASSUME NEW t \in Tasks
    PROVE  /\ Script(t) \in Seq(Commands) /\ Len(Script(t)) \in Nat \ {0}
           /\ DOMAIN Script(t) = 1..Len(Script(t)) /\ 1 \in DOMAIN Script(t)
<1>1. Script(t) \in Seq(Commands) /\ Len(Script(t)) \in Nat \ {0}
  <2>1. CASE t \in {"connect", "poll", "load", "reset"}
    <3>1. "INFO" \in Commands /\ "STATUS" \in Commands /\ "GET" \in Commands /\ "RESET" \in Commands
      BY DEF Commands
    <3>2. Script(t) \in {<<"INFO", "STATUS", "GET", "INFO">>, <<"STATUS">>, <<"GET">>, <<"RESET", "GET">>}
      BY <2>1 DEF Script, Restore
    <3>3. \A s \in {<<"INFO", "STATUS", "GET", "INFO">>, <<"STATUS">>, <<"GET">>, <<"RESET", "GET">>} :
             s \in Seq(Commands) /\ Len(s) \in {1, 2, 4}
      <4> SUFFICES ASSUME NEW s \in {<<"INFO", "STATUS", "GET", "INFO">>, <<"STATUS">>, <<"GET">>, <<"RESET", "GET">>}
                   PROVE  s \in Seq(Commands) /\ Len(s) \in {1, 2, 4}
        OBVIOUS
      <4>1. CASE s = <<"INFO", "STATUS", "GET", "INFO">>
        BY <3>1, <4>1, ShortSeqs, Zenon
      <4>2. CASE s = <<"STATUS">>
        BY <3>1, <4>2, ShortSeqs, Zenon
      <4>3. CASE s = <<"GET">>
        BY <3>1, <4>3, ShortSeqs, Zenon
      <4>4. CASE s = <<"RESET", "GET">>
        BY <3>1, <4>4, ShortSeqs, Zenon
      <4> QED
        BY <4>1, <4>2, <4>3, <4>4
    <3>4. {1, 2, 4} \subseteq Nat \ {0}
      OBVIOUS
    <3> QED
      BY <3>2, <3>3, <3>4, Zenon
  <2>2. CASE t = "save"
    <3>1. Script(t) = Upload \o <<"LAYER", "GET">>
      BY <2>2 DEF Script
    <3>2. <<"LAYER", "GET">> \in Seq(Commands) /\ Len(<<"LAYER", "GET">>) = 2
      <4>1. "LAYER" \in Commands /\ "GET" \in Commands
        BY DEF Commands
      <4> QED
        BY <4>1, ShortSeqs, Zenon
    <3> QED
      BY <3>1, <3>2, UploadCalls, ConcatProperties, Bounds
  <2>3. CASE t = "apply"
    <3>1. Script(t) = Upload \o <<"GET">>
      BY <2>3 DEF Script
    <3>2. <<"GET">> \in Seq(Commands) /\ Len(<<"GET">>) = 1
      <4>1. "GET" \in Commands
        BY DEF Commands
      <4> QED
        BY <4>1, ShortSeqs, Zenon
    <3> QED
      BY <3>1, <3>2, UploadCalls, ConcatProperties, Bounds
  <2> QED
    BY <2>1, <2>2, <2>3, AllTasks
<1>2. DOMAIN Script(t) = 1..Len(Script(t))
  BY <1>1, LenProperties
<1> QED
  BY <1>1, <1>2

\* What a function calls next is a call of the page
LEMMA NextCallsType ==
    ASSUME NEW r \in PageRequests, NEW ok, NEW v
    PROVE  NextCalls(r, ok, v) \in Seq(PageRequests)
<1> DEFINE own  == IF Ends(r, ok) THEN <<>> ELSE <<Request(r.task, r.at + 1, r.doc)>>
<1> DEFINE load == IF Reloads(r, ok, v) THEN <<Request("load", 1, 0)>> ELSE <<>>
<1>1. own \in Seq(PageRequests)
  <2>1. CASE Ends(r, ok)
    BY <2>1
  <2>2. CASE ~Ends(r, ok)
    <3>1. r.at + 1 \in DOMAIN Script(r.task)
      <4>1. r.at # Len(Script(r.task))
        BY <2>2 DEF Ends, IsLast
      <4> QED
        BY <4>1, CallsOf, ScriptCalls
    <3>2. Request(r.task, r.at + 1, r.doc) \in PageRequests
      BY <3>1, CallsOf, PageCalls
    <3> QED
      BY <2>2, <3>2
  <2> QED
    BY <2>1, <2>2
<1>2. load \in Seq(PageRequests)
  <2>1. Request("load", 1, 0) \in PageRequests
    <3>1. "load" \in Tasks
      BY AllTasks
    <3> QED
      BY <3>1, ScriptCalls, PageCalls, Bounds
  <2> QED
    BY <2>1
<1>3. NextCalls(r, ok, v) = own \o load
  BY DEF NextCalls
<1> HIDE DEF own, load
<1> QED
  BY <1>1, <1>2, <1>3, ConcatProperties

\* Calls are added at the end
LEMMA ChainGrows ==
    ASSUME NEW s \in Seq(PageRequests), NEW calls \in Seq(PageRequests)
    PROVE  /\ s \o calls \in Seq(PageRequests)
           /\ Len(s \o calls) >= Len(s)
           /\ \A i \in 1..Len(s) : (s \o calls)[i] = s[i]
<1>1. Len(s) \in Nat /\ Len(calls) \in Nat
  BY LenProperties
<1>2. /\ s \o calls \in Seq(PageRequests)
      /\ Len(s \o calls) = Len(s) + Len(calls)
      /\ \A i \in 1..Len(s) + Len(calls) : (s \o calls)[i] = IF i <= Len(s) THEN s[i] ELSE calls[i - Len(s)]
  BY ConcatProperties
<1> QED
  BY <1>1, <1>2

----------------------------------------------------------------------------
(* The link *)

LinkTypes ==
    /\ open \in BOOLEAN /\ fresh \in BOOLEAN
    /\ chain \in Seq(PageRequests) /\ flight \in PageRequests \cup {NoRequest}
    /\ wire \in Seq(Sent) /\ acc \in Seq(Sent)
    /\ rx \in Seq(Back) /\ fifo \in Seq(Back)

\* Nothing is being sent without a call or without a connection
Resting ==
    /\ flight = NoRequest => wire = <<>> /\ runs = 0
    /\ ~open => wire = <<>>

\* s is the frame from unit k + 1 on, or the beginning of that
Part(s, k, r, n, v) == \A i \in 1..Len(s) : s[i] = Nth(k + i, r, n, v)

Empty == wire = <<>> /\ acc = <<>> /\ rx = <<>> /\ fifo = <<>>

\* The request has not been run: all of it is in the device or on its way
Going ==
    /\ runs = 0 /\ wire # <<>> /\ rx = <<>> /\ fifo = <<>>
    /\ Len(acc) + Len(wire) = Extra[flight] + 1
    /\ Part(acc, 0, flight, Extra[flight], NoRequest)
    /\ Part(wire, Len(acc), flight, Extra[flight], NoRequest)

\* It has been run once: what there is is its answer, cut off or not
Coming ==
    /\ runs = 1 /\ wire = <<>> /\ acc = <<>>
    /\ \E n \in Nat, v \in Answers :
          /\ Len(rx) + Len(fifo) <= n + 1
          /\ Part(rx, 0, flight, n, v)
          /\ Part(fifo, Len(rx), flight, n, v)

\* A connection that began with an empty link holds nothing but the call it serves
Own == open /\ fresh => IF flight = NoRequest THEN Empty ELSE Going \/ Coming

LinkInv == LinkTypes /\ Resting /\ Own

promiseVars == <<chain, flight, runs, fresh, last>>

\* The lengths of the link's sequences are numbers
LEMMA Lengths ==
    ASSUME LinkTypes
    PROVE  /\ Len(chain) \in Nat /\ Len(wire) \in Nat /\ Len(acc) \in Nat
           /\ Len(rx) \in Nat /\ Len(fifo) \in Nat
           /\ chain = <<>> <=> Len(chain) = 0
           /\ wire = <<>> <=> Len(wire) = 0
           /\ acc = <<>> <=> Len(acc) = 0
           /\ rx = <<>> <=> Len(rx) = 0
           /\ fifo = <<>> <=> Len(fifo) = 0
BY LenProperties, EmptyByLength DEF LinkTypes

\* Only DATA has a payload, and it fits the accumulator
LEMMA ExtraUnits ==
    ASSUME NEW r \in PageRequests
    PROVE  /\ Extra[r] = IF r.cmd = "DATA" THEN 1 ELSE 0
           /\ Extra[r] \in Nat /\ Extra[r] \in 0..FifoSize /\ Extra[r] < AccSize /\ r # NoRequest
<1>1. Extra[r] = IF r.cmd = "DATA" THEN 1 ELSE 0
  BY PageAssumption DEF DataUnits
<1> QED
  BY <1>1, RequestAssumption, PageAssumption, FitAssumption, Bounds

LEMMA RequestFrame ==
    ASSUME NEW r \in PageRequests
    PROVE  /\ Frame(r, Extra[r], NoRequest) \in Seq(Sent)
           /\ Len(Frame(r, Extra[r], NoRequest)) = Extra[r] + 1
           /\ \A i \in 1..Extra[r] + 1 : Frame(r, Extra[r], NoRequest)[i] = Nth(i, r, Extra[r], NoRequest)
<1>1. Extra[r] \in 0..FifoSize /\ NoRequest \in {NoRequest}
  BY ExtraUnits
<1> DEFINE n == Extra[r]
<1> HIDE DEF n
<1>2. /\ Frame(r, n, NoRequest) \in Seq(UnitsOf({NoRequest}))
      /\ Len(Frame(r, n, NoRequest)) = n + 1
      /\ \A i \in 1..n + 1 : Frame(r, n, NoRequest)[i] = Nth(i, r, n, NoRequest)
  BY <1>1, FrameUnits DEF n
<1> QED
  BY <1>2 DEF Sent, n

\* One lemma for each operation of the link: it keeps LinkInv, and is the step
\* of RequestAnswer named in its conclusion or changes nothing that one sees
LEMMA CallLink ==
    ASSUME LinkInv, NEW calls \in Seq(PageRequests), Call(calls)
    PROVE  LinkInv' /\ Promise!Call
<1>1. chain' \in Seq(PageRequests) /\ Promise!Grows(chain)
  BY ChainGrows DEF Call, Promise!Grows, LinkInv, LinkTypes
<1>2. UNCHANGED <<open, flight, rx, busVars, historyVars>>
  BY DEF Call
<1> QED
  BY <1>1, <1>2 DEF Promise!Call, LinkInv, LinkTypes, Resting, Own, Empty, Going, Coming, busVars, historyVars

LEMMA BeginLink ==
    ASSUME LinkInv, Begin
    PROVE  LinkInv' /\ Promise!Begin
<1>1. chain # <<>> /\ flight = NoRequest /\ open
  BY DEF Begin
<1>2. flight' \in PageRequests /\ flight' = Head(chain) /\ chain' = Tail(chain) /\ chain' \in Seq(PageRequests)
  BY <1>1, HeadTailProperties DEF Begin, LinkInv, LinkTypes
<1>3. UNCHANGED <<open, rx, acc, fifo, runs, fresh>> /\ last' = "none"
  BY DEF Begin
<1>4. wire' = Frame(flight', Extra[flight'], NoRequest)
  BY DEF Begin
<1>5. /\ wire' \in Seq(Sent) /\ Len(wire') = Extra[flight'] + 1
      /\ \A i \in 1..Extra[flight'] + 1 : wire'[i] = Nth(i, flight', Extra[flight'], NoRequest)
  BY <1>2, <1>4, RequestFrame
<1>6. LinkTypes' /\ Resting'
  BY <1>1, <1>2, <1>3, <1>5, ExtraUnits DEF LinkInv, LinkTypes, Resting
<1>7. ASSUME fresh PROVE Going'
  <2>1. acc' = <<>> /\ rx' = <<>> /\ fifo' = <<>> /\ runs' = 0
    BY <1>1, <1>3, <1>7 DEF LinkInv, Own, Empty, Resting
  <2>2. Len(acc') = 0
    BY <2>1
  <2>3. Extra[flight'] \in Nat
    BY <1>2, ExtraUnits
  <2>4. wire' # <<>>
    BY <1>5, <2>3, EmptyByLength
  <2>5. Part(wire', 0, flight', Extra[flight'], NoRequest)
    BY <1>5, <2>3 DEF Part
  <2>6. Part(acc', 0, flight', Extra[flight'], NoRequest)
    BY <2>2 DEF Part
  <2> QED
    BY <1>5, <2>1, <2>2, <2>3, <2>4, <2>5, <2>6 DEF Going
<1>8. Own'
  BY <1>2, <1>3, <1>7, ExtraUnits DEF Own
<1> QED
  BY <1>1, <1>2, <1>3, <1>6, <1>8 DEF LinkInv, Promise!Begin

LEMMA RefuseLink ==
    ASSUME LinkInv, NEW calls \in Seq(PageRequests), Refuse(calls)
    PROVE  LinkInv' /\ Promise!Refuse
<1>1. chain # <<>> /\ Tail(chain) \in Seq(PageRequests)
  BY HeadTailProperties DEF Refuse, LinkInv, LinkTypes
<1>2. chain' \in Seq(PageRequests) /\ Promise!Grows(Tail(chain))
  BY <1>1, ChainGrows DEF Refuse, Promise!Grows
<1>3. flight = NoRequest /\ last' = "failed" /\ UNCHANGED <<open, flight, rx, busVars, runs, fresh>>
  BY DEF Refuse
<1> QED
  BY <1>1, <1>2, <1>3 DEF Promise!Refuse, LinkInv, LinkTypes, Resting, Own, Empty, Going, Coming, busVars

LEMMA ConnectLink ==
    ASSUME LinkInv, NEW calls \in Seq(PageRequests), Connect(calls)
    PROVE  LinkInv' /\ Promise!Reconnect
<1>1. chain' \in Seq(PageRequests) /\ Promise!Grows(chain)
  <2>1. chain = <<>> /\ chain' = calls /\ Len(chain) = 0
    BY DEF Connect
  <2>2. Len(calls) \in Nat
    BY LenProperties
  <2> QED
    BY <2>1, <2>2 DEF Promise!Grows
<1>2. /\ flight = NoRequest /\ flight' = NoRequest /\ open' = TRUE /\ rx' = <<>>
      /\ wire' = wire /\ acc' = acc /\ fifo' = fifo /\ runs' = runs /\ last' = last
      /\ fresh' = (acc = <<>> /\ fifo = <<>>)
  BY DEF Connect, ReaderEmptied, busVars
<1>3. rx' \in Seq(Back)
  BY <1>2, EmptySeq
<1> QED
  BY <1>1, <1>2, <1>3 DEF Promise!Reconnect, LinkInv, LinkTypes, Resting, Own, Empty

LEMMA FailLink ==
    ASSUME LinkInv, NEW calls \in Seq(PageRequests), Fail(calls)
    PROVE  LinkInv' /\ Promise!Fail
<1>1. chain' \in Seq(PageRequests) /\ Promise!Grows(chain)
  BY ChainGrows DEF Fail, Promise!Grows, LinkInv, LinkTypes
<1>2. /\ flight # NoRequest /\ flight' = NoRequest /\ ~open /\ open' = open /\ rx' = rx
      /\ wire' = wire /\ acc' = acc /\ fifo' = fifo /\ runs' = 0 /\ last' = "failed" /\ fresh' = fresh
  BY DEF Fail, busVars
<1> QED
  BY <1>1, <1>2 DEF Promise!Fail, LinkInv, LinkTypes, Resting, Own

\* Aged only marks units
LEMMA AgedUnits ==
    ASSUME NEW V, NEW s \in Seq(UnitsOf(V))
    PROVE  Aged(s) \in Seq(UnitsOf(V))
<1>1. DOMAIN s = 1..Len(s) /\ Len(s) \in Nat /\ \A i \in 1..Len(s) : s[i] \in UnitsOf(V)
  BY LenProperties, ElementOfSeq
<1>2. \A i \in 1..Len(s) : [s[i] EXCEPT !.old = TRUE] \in UnitsOf(V)
  BY <1>1 DEF UnitsOf
<1>3. Aged(s) \in [1..Len(s) -> UnitsOf(V)]
  BY <1>1, <1>2 DEF Aged
<1> QED
  BY <1>1, <1>3, FunctionIsSeq

LEMMA LoseLink ==
    ASSUME LinkInv, Close \/ BusReset \/ Restart
    PROVE  LinkInv' /\ UNCHANGED promiseVars
<1>1. open' = FALSE /\ wire' = <<>> /\ UNCHANGED promiseVars
  BY DEF Close, BusReset, Restart, Lose, historyVars, promiseVars
<1>2. acc' \in Seq(Sent) /\ fifo' \in Seq(Back) /\ rx' \in Seq(Back) /\ wire' \in Seq(Sent)
  BY <1>1, AgedUnits, EmptySeq DEF Close, BusReset, Restart, LinkInv, LinkTypes, Sent, Back
<1> QED
  BY <1>1, <1>2 DEF promiseVars, LinkInv, LinkTypes, Resting, Own

\* The reader
LEMMA FetchLink ==
    ASSUME LinkInv, NEW m, Fetch(m)
    PROVE  LinkInv' /\ UNCHANGED promiseVars
<1> DEFINE kept == Synced(rx)
<1> DEFINE got == SubSeq(fifo, 1, m)
<1> DEFINE left == SubSeq(fifo, m + 1, Len(fifo))
<1>1. /\ open /\ flight # NoRequest /\ wire = <<>> /\ m \in 1..Len(fifo)
      /\ rx' = kept \o got /\ fifo' = left
      /\ UNCHANGED <<open, chain, flight, wire, acc, runs, fresh, last>>
  BY DEF Fetch, Reading, historyVars
<1>2. Len(fifo) \in Nat /\ \A i \in 1..Len(fifo) : fifo[i] \in Back
  BY Lengths, ElementOfSeq DEF LinkInv, LinkTypes
<1>3. kept \in Seq(Back) /\ (rx # <<>> /\ rx[1].head => kept = rx) /\ (rx = <<>> => kept = <<>>)
  BY SyncedUnits DEF LinkInv, LinkTypes, Back
<1>4. got \in Seq(Back) /\ Len(got) = m /\ \A i \in 1..m : got[i] = fifo[i]
  BY <1>1, <1>2, SubSeqProperties
<1>5. left \in Seq(Back) /\ Len(left) = Len(fifo) - m /\ \A i \in 1..Len(fifo) - m : left[i] = fifo[m + i]
  <2>1. /\ m + 1 \in Int /\ Len(fifo) \in Int /\ \A i \in m + 1..Len(fifo) : fifo[i] \in Back
        /\ Len(fifo) - (m + 1) + 1 = Len(fifo) - m
    BY <1>1, <1>2
  <2>2. /\ left \in Seq(Back)
        /\ Len(left) = IF m + 1 <= Len(fifo) THEN Len(fifo) - (m + 1) + 1 ELSE 0
        /\ \A i \in 1..Len(fifo) - (m + 1) + 1 : left[i] = fifo[m + 1 + i - 1]
    BY <2>1, SubSeqProperties
  <2> HIDE DEF left
  <2> QED
    <3>1. Len(left) = Len(fifo) - m
      BY <1>1, <1>2, <2>2
    <3>2. ASSUME NEW i \in 1..Len(fifo) - m PROVE left[i] = fifo[m + i]
      <4>1. m + 1 + i - 1 = m + i /\ i \in 1..Len(fifo) - (m + 1) + 1
        BY <1>1, <1>2
      <4> QED
        BY <2>2, <4>1
    <3> QED
      BY <2>2, <3>1, <3>2
<1> HIDE DEF got, left
<1>6. /\ kept \o got \in Seq(Back) /\ Len(kept) \in Nat
      /\ Len(kept \o got) = Len(kept) + m
      /\ \A i \in 1..Len(kept) + m : (kept \o got)[i] = IF i <= Len(kept) THEN kept[i] ELSE got[i - Len(kept)]
  <2>1. /\ kept \o got \in Seq(Back)
        /\ Len(kept \o got) = Len(kept) + Len(got)
        /\ \A i \in 1..Len(kept) + Len(got) :
              (kept \o got)[i] = IF i <= Len(kept) THEN kept[i] ELSE got[i - Len(kept)]
    <3>1. kept \in Seq(Back) /\ got \in Seq(Back)
      BY <1>3, <1>4
    <3> HIDE DEF kept
    <3> QED
      BY <3>1, ConcatProperties
  <2>2. Len(kept) \in Nat
    BY <1>3, LenProperties
  <2> QED
    BY <1>4, <2>1, <2>2
<1>7. LinkTypes' /\ Resting'
  BY <1>1, <1>5, <1>6 DEF LinkInv, LinkTypes, Resting
<1>8. ASSUME fresh PROVE Coming'
  <2>1. Coming
    BY <1>1, <1>8 DEF LinkInv, Own, Going
  <2>2. PICK n \in Nat, v \in Answers :
          /\ Len(rx) + Len(fifo) <= n + 1
          /\ Part(rx, 0, flight, n, v)
          /\ Part(fifo, Len(rx), flight, n, v)
    BY <2>1 DEF Coming
  <2>3. Len(rx) \in Nat /\ (rx = <<>> <=> Len(rx) = 0)
    BY Lengths DEF LinkInv
  <2>4. kept = rx
    <3>1. rx # <<>> => rx[1] = Nth(1, flight, n, v)
      BY <2>2, <2>3 DEF Part
    <3> QED
      BY <1>3, <3>1 DEF Nth, Unit
  <2>5. Len(rx') = Len(rx) + m /\ Len(fifo') = Len(fifo) - m
    BY <1>1, <1>5, <1>6, <2>4
  <2>6. Part(rx', 0, flight, n, v)
    <3> SUFFICES ASSUME NEW i \in 1..Len(rx) + m PROVE rx'[i] = Nth(i, flight, n, v)
      BY <2>5 DEF Part
    <3>1. CASE i <= Len(rx)
      BY <1>1, <1>6, <2>2, <2>3, <2>4, <3>1 DEF Part
    <3>2. CASE ~(i <= Len(rx))
      <4>1. i - Len(rx) \in 1..m /\ i - Len(rx) \in 1..Len(fifo) /\ Len(rx) + (i - Len(rx)) = i
        BY <1>1, <1>2, <2>3, <3>2
      <4>2. rx'[i] = got[i - Len(rx)]
        BY <1>1, <1>6, <2>4, <3>2
      <4>3. got[i - Len(rx)] = fifo[i - Len(rx)]
        BY <1>4, <4>1
      <4> QED
        BY <2>2, <4>1, <4>2, <4>3 DEF Part
    <3> QED
      BY <3>1, <3>2
  <2>7. Part(fifo', Len(rx) + m, flight, n, v)
    <3> SUFFICES ASSUME NEW i \in 1..Len(fifo) - m PROVE fifo'[i] = Nth(Len(rx) + m + i, flight, n, v)
      BY <2>5 DEF Part
    <3>1. m + i \in 1..Len(fifo) /\ Len(rx) + (m + i) = Len(rx) + m + i
      BY <1>1, <1>2, <2>3
    <3> QED
      BY <1>1, <1>5, <2>2, <3>1 DEF Part
  <2>8. Len(rx') + Len(fifo') <= n + 1
    BY <1>1, <1>2, <2>2, <2>3, <2>5
  <2>9. runs' = 1 /\ wire' = <<>> /\ acc' = <<>> /\ flight' = flight
    BY <1>1, <2>1 DEF Coming
  <2> QED
    BY <2>2, <2>5, <2>6, <2>7, <2>8, <2>9 DEF Coming
<1> QED
  BY <1>1, <1>7, <1>8 DEF LinkInv, Own, promiseVars

\* The page takes answers off the stream of the device
LEMMA AnswerType ==
    ASSUME LinkInv, Answered
    PROVE  Synced(rx) \in Seq(Back) /\ Synced(rx)[1].answer \in Answers
<1>1. Synced(rx) \in Seq(Back)
  BY SyncedUnits DEF LinkInv, LinkTypes, Back
<1>2. Len(Synced(rx)) \in Nat \ {0}
  BY <1>1, EmptyByLength, LenProperties DEF Answered, Complete
<1>3. Synced(rx)[1] \in Back
  BY <1>1, <1>2, ElementOfSeq
<1> QED
  BY <1>1, <1>3 DEF Back, UnitsOf

LEMMA AnswerLink ==
    ASSUME LinkInv, NEW calls \in Seq(PageRequests), Answer(calls)
    PROVE  LinkInv' /\ Promise!Answer
<1>1. /\ open /\ flight # NoRequest /\ wire = <<>> /\ Complete(Synced(rx))
      /\ rx' = Rest(Synced(rx)) /\ runs' = 0 /\ flight' = NoRequest
      /\ UNCHANGED <<open, wire, acc, fifo, fresh>>
  BY DEF Answer, Answered, Reading, busVars
<1>2. chain' \in Seq(PageRequests) /\ Promise!Grows(chain)
  BY ChainGrows DEF Answer, Promise!Grows, LinkInv, LinkTypes
<1>3. /\ Synced(rx) \in Seq(Back) /\ (rx # <<>> /\ rx[1].head => Synced(rx) = rx)
      /\ (rx = <<>> => Synced(rx) = <<>>)
  BY SyncedUnits DEF LinkInv, LinkTypes, Back
<1>4. /\ Len(Synced(rx)) = Synced(rx)[1].more + 1 => rx' = <<>>
      /\ Synced(rx)[1].more \in Nat /\ Len(Synced(rx)) \in Nat
      /\ rx' \in Seq(Back)
  BY <1>1, <1>3, RestUnits DEF Back
<1>5. LinkTypes' /\ Resting'
  BY <1>1, <1>2, <1>4 DEF LinkInv, LinkTypes, Resting
<1>6. ASSUME fresh
      PROVE  /\ runs = 1 /\ rx' = <<>> /\ fifo = <<>> /\ acc = <<>>
             /\ Synced(rx)[1].of = flight /\ ~Synced(rx)[1].old
  <2>1. Coming
    BY <1>1, <1>6 DEF LinkInv, Own, Going
  <2>2. PICK n \in Nat, v \in Answers :
          /\ Len(rx) + Len(fifo) <= n + 1
          /\ Part(rx, 0, flight, n, v)
    BY <2>1 DEF Coming
  <2>3. /\ Len(rx) \in Nat /\ (rx = <<>> <=> Len(rx) = 0)
        /\ Len(fifo) \in Nat /\ (fifo = <<>> <=> Len(fifo) = 0)
    BY Lengths DEF LinkInv
  <2>4. rx # <<>>
    BY <1>1, <1>3 DEF Complete
  <2>5. rx[1] = Unit(TRUE, flight, n, v)
    <3>1. 1 \in 1..Len(rx) /\ 0 + 1 = 1
      BY <2>3, <2>4
    <3>2. rx[1] = Nth(1, flight, n, v)
      BY <2>2, <3>1 DEF Part
    <3> QED
      BY <3>2 DEF Nth
  <2>6. rx[1].head /\ rx[1].more = n /\ rx[1].of = flight /\ ~rx[1].old
    BY <2>5 DEF Unit
  <2>7. Synced(rx) = rx
    BY <1>3, <2>4, <2>6
  <2>8. Len(rx) = n + 1 /\ fifo = <<>>
    BY <1>1, <2>2, <2>3, <2>6, <2>7 DEF Complete
  <2>9. rx' = <<>>
    BY <1>4, <2>6, <2>7, <2>8
  <2> QED
    BY <2>1, <2>6, <2>7, <2>8, <2>9 DEF Coming
<1>7. Own'
  BY <1>1, <1>6 DEF Own, Empty
<1>8. last' = "answered" \/ last' = "mixed up"
  BY DEF Answer
<1>9. fresh => last' = "answered"
  BY <1>6 DEF Answer
<1> QED
  BY <1>1, <1>2, <1>5, <1>6, <1>7, <1>8, <1>9 DEF LinkInv, LinkTypes, Promise!Answer

\* The device
LEMMA CollectedUnits ==
    ASSUME LinkInv, Arriving
    PROVE  /\ Collected \in Seq(Sent) /\ Tail(wire) \in Seq(Sent) /\ Len(Tail(wire)) = Len(wire) - 1
           /\ \A i \in 1..Len(Tail(wire)) : Tail(wire)[i] = wire[i + 1]
           /\ open /\ flight # NoRequest
           /\ Complete(Collected) => Received \in PageRequests
<1>1. wire \in Seq(Sent) /\ wire # <<>> /\ acc \in Seq(Sent)
  BY DEF LinkInv, LinkTypes, Arriving
<1>2. /\ Head(wire) \in Sent /\ Tail(wire) \in Seq(Sent) /\ Len(Tail(wire)) = Len(wire) - 1
      /\ \A i \in 1..Len(Tail(wire)) : Tail(wire)[i] = wire[i + 1]
  BY <1>1, HeadTailProperties
<1> DEFINE room == IF Len(acc) < AccSize THEN acc ELSE <<>>
<1>3. room \in Seq(Sent) /\ <<Head(wire)>> \in Seq(Sent)
  BY <1>1, <1>2, EmptySeq, ShortSeqs
<1> HIDE DEF room
<1>4. room \o <<Head(wire)>> \in Seq(Sent)
  BY <1>3, ConcatProperties
<1>5. Collected \in Seq(Sent)
  BY <1>4, SyncedUnits DEF Collected, Sent, room
<1>6. Complete(Collected) => Received \in PageRequests
  <2> SUFFICES ASSUME Complete(Collected) PROVE Received \in PageRequests
    OBVIOUS
  <2>1. 1 \in 1..Len(Collected)
    BY <1>5, EmptyByLength, LenProperties DEF Complete
  <2>2. Collected[1] \in Sent
    BY <1>5, <2>1, ElementOfSeq
  <2> QED
    BY <2>2 DEF Received, Sent, UnitsOf
<1>7. open /\ flight # NoRequest
  BY <1>1 DEF LinkInv, LinkTypes, Resting
<1> QED
  BY <1>2, <1>5, <1>6, <1>7

LEMMA LastUnit ==
    ASSUME NEW a \in Nat, NEW w \in Nat \ {0}, NEW m \in Nat, a + w = m + 1
    PROVE  a + 1 > m <=> w = 1
OBVIOUS

\* Over an own connection the accumulator grows by the units of the request, and
\* only the last of them completes it
LEMMA CollectedOwn ==
    ASSUME LinkInv, Arriving, fresh
    PROVE  /\ Going /\ flight \in PageRequests
           /\ Len(Collected) = Len(acc) + 1 /\ Len(wire) \in Nat \ {0} /\ Len(acc) \in Nat
           /\ Part(Collected, 0, flight, Extra[flight], NoRequest)
           /\ Collected # <<>>
           /\ Collected[1] = Unit(TRUE, flight, Extra[flight], NoRequest)
           /\ Complete(Collected) <=> Len(wire) = 1
<1>1. open /\ flight # NoRequest /\ wire # <<>>
  BY CollectedUnits DEF Arriving
<1>2. Going /\ flight \in PageRequests
  BY <1>1 DEF LinkInv, LinkTypes, Own, Coming
<1> DEFINE more == Extra[flight]
<1>3. more \in Nat /\ more < AccSize /\ AccSize \in Nat
  BY <1>2, ExtraUnits, Bounds
<1>4. Len(wire) \in Nat \ {0} /\ Len(acc) \in Nat /\ Len(acc) + Len(wire) = more + 1
  BY <1>1, <1>2, Lengths DEF LinkInv, Going
<1> DEFINE c == acc \o <<Head(wire)>>
<1>5. acc \in Seq(Sent) /\ wire \in Seq(Sent) /\ Head(wire) \in Sent /\ Head(wire) = wire[1]
  <2>1. acc \in Seq(Sent) /\ wire \in Seq(Sent)
    BY DEF LinkInv, LinkTypes
  <2> QED
    BY <1>1, <2>1, HeadTailProperties
<1>6. /\ c \in Seq(Sent) /\ Len(c) = Len(acc) + 1
      /\ \A i \in 1..Len(acc) + 1 : c[i] = IF i <= Len(acc) THEN acc[i] ELSE wire[1]
  <2> DEFINE u == Head(wire)
  <2>1. u \in Sent /\ u = wire[1]
    BY <1>5
  <2> HIDE DEF u
  <2>2. <<u>> \in Seq(Sent) /\ Len(<<u>>) = 1 /\ <<u>>[1] = u
    BY <2>1, ShortSeqs
  <2>3. /\ acc \o <<u>> \in Seq(Sent)
        /\ Len(acc \o <<u>>) = Len(acc) + Len(<<u>>)
        /\ \A i \in 1..Len(acc) + Len(<<u>>) :
              (acc \o <<u>>)[i] = IF i <= Len(acc) THEN acc[i] ELSE <<u>>[i - Len(acc)]
    BY <1>5, <2>2, ConcatProperties
  <2>4. ASSUME NEW i \in 1..Len(acc) + 1
        PROVE  (acc \o <<u>>)[i] = IF i <= Len(acc) THEN acc[i] ELSE wire[1]
    <3>1. CASE i <= Len(acc)
      BY <2>2, <2>3, <3>1
    <3>2. CASE ~(i <= Len(acc))
      <4>1. i - Len(acc) = 1
        BY <1>4, <3>2
      <4> QED
        BY <2>1, <2>2, <2>3, <3>2, <4>1
    <3> QED
      BY <3>1, <3>2
  <2> QED
    BY <2>2, <2>3, <2>4 DEF u
<1> HIDE DEF c
<1>7. Part(c, 0, flight, more, NoRequest)
  <2> SUFFICES ASSUME NEW i \in 1..Len(acc) + 1 PROVE c[i] = Nth(0 + i, flight, more, NoRequest)
    BY <1>6 DEF Part
  <2>1. CASE i <= Len(acc)
    BY <1>2, <1>4, <1>6, <2>1 DEF Going, Part
  <2>2. CASE ~(i <= Len(acc))
    <3>1. c[i] = wire[1] /\ 0 + i = Len(acc) + 1 /\ 1 \in 1..Len(wire)
      BY <1>4, <1>6, <2>2
    <3>2. wire[1] = Nth(Len(acc) + 1, flight, more, NoRequest)
      BY <1>2, <3>1 DEF Going, Part
    <3> QED
      BY <3>1, <3>2
  <2> QED
    BY <2>1, <2>2
<1>8. c[1] = Unit(TRUE, flight, more, NoRequest) /\ c # <<>>
  <2>1. 1 \in 1..Len(c) /\ 0 + 1 = 1
    BY <1>4, <1>6
  <2>2. c[1] = Nth(1, flight, more, NoRequest)
    BY <1>7, <2>1 DEF Part
  <2> QED
    BY <1>6, <2>1, <2>2, EmptyByLength DEF Nth
<1>9. Collected = c
  <2>1. Len(acc) < AccSize
    BY <1>3, <1>4
  <2>2. Collected = Synced(c)
    BY <2>1 DEF Collected, c
  <2>3. c[1].head
    BY <1>8 DEF Unit
  <2> QED
    BY <1>6, <1>8, <2>2, <2>3, SyncedUnits DEF Sent
<1>10. Complete(c) <=> Len(wire) = 1
  <2>1. c[1].more = more
    BY <1>8 DEF Unit
  <2> QED
    <3>1. Complete(c) <=> Len(acc) + 1 > more
      BY <1>6, <1>8, <2>1 DEF Complete
    <3> QED
      BY <1>3, <1>4, <3>1, LastUnit
<1> QED
  BY <1>2, <1>4, <1>6, <1>7, <1>8, <1>9, <1>10

LEMMA CollectLink ==
    ASSUME LinkInv, Collect
    PROVE  LinkInv' /\ UNCHANGED promiseVars
<1>1. /\ Arriving /\ ~Complete(Collected) /\ acc' = Collected /\ wire' = Tail(wire)
      /\ UNCHANGED <<open, chain, flight, rx, fifo, runs, fresh, last>>
  BY DEF Collect, Completes, pageVars, historyVars
<1>2. LinkTypes' /\ Resting'
  BY <1>1, CollectedUnits DEF LinkInv, LinkTypes, Resting
<1>3. ASSUME fresh PROVE Going'
  <2>1. /\ Going /\ Len(acc') = Len(acc) + 1 /\ Len(wire) \in Nat \ {0} /\ Len(acc) \in Nat
        /\ Part(acc', 0, flight, Extra[flight], NoRequest) /\ Len(wire) # 1
    BY <1>1, <1>3, CollectedOwn
  <2>2. Len(wire') = Len(wire) - 1 /\ \A i \in 1..Len(wire') : wire'[i] = wire[i + 1]
    BY <1>1, CollectedUnits
  <2>3. wire' # <<>>
    BY <1>2, <2>1, <2>2, EmptyByLength DEF LinkTypes
  <2>4. Part(wire', Len(acc'), flight, Extra[flight], NoRequest)
    <3> SUFFICES ASSUME NEW i \in 1..Len(wire') PROVE wire'[i] = Nth(Len(acc') + i, flight, Extra[flight], NoRequest)
      BY DEF Part
    <3>1. i + 1 \in 1..Len(wire) /\ Len(acc) + (i + 1) = Len(acc') + i
      <4>1. /\ Len(wire) \in Nat \ {0} /\ Len(wire') = Len(wire) - 1
            /\ Len(acc) \in Nat /\ Len(acc') = Len(acc) + 1
        BY <2>1, <2>2
      <4> QED
        BY <4>1
    <3> QED
      BY <2>1, <2>2, <3>1 DEF Going, Part
  <2>5. Len(acc') + Len(wire') = Extra[flight] + 1
    BY <2>1, <2>2 DEF Going
  <2> QED
    BY <1>1, <2>1, <2>3, <2>4, <2>5 DEF Going
<1>4. Own'
  BY <1>1, <1>3, CollectedUnits DEF Own
<1> QED
  BY <1>1, <1>2, <1>4 DEF LinkInv, promiseVars

LEMMA ExecuteLink ==
    ASSUME LinkInv, NEW n \in 0..FifoSize, NEW v \in Answers, Execute(n, v)
    PROVE  LinkInv' /\ Promise!Execute
<1> DEFINE frame == Frame(Received, n, v)
<1> DEFINE answer == IF Collected[1].old THEN Aged(frame) ELSE frame
<1> DEFINE room == FifoSize - Len(fifo)
<1> DEFINE fits == IF Len(answer) < room THEN Len(answer) ELSE room
<1> DEFINE sent == SubSeq(answer, 1, fits)
<1> n \in Nat
  BY Bounds
<1>1. /\ Arriving /\ Complete(Collected) /\ acc' = Rest(Collected) /\ wire' = Tail(wire)
      /\ fifo' = fifo \o sent
      /\ runs' = IF Received = flight /\ ~Collected[1].old /\ ~Foreign /\ runs = 0 THEN 1 ELSE 2
      /\ UNCHANGED <<open, chain, flight, rx, fresh, last>>
  BY DEF Execute, Completes, WriteAll, pageVars
<1>2. /\ Received \in PageRequests /\ flight # NoRequest /\ open
      /\ wire' \in Seq(Sent) /\ acc' \in Seq(Sent)
  BY <1>1, CollectedUnits, RestUnits DEF Sent
<1>3. frame \in Seq(Back) /\ Len(frame) = n + 1 /\ \A i \in 1..n + 1 : frame[i] = Nth(i, Received, n, v)
  BY <1>2, FrameUnits DEF Back
<1> HIDE DEF frame
<1>4. answer \in Seq(Back)
  BY <1>3, AgedUnits DEF Back
<1> HIDE DEF answer
<1>5. room \in Int /\ Len(answer) \in Nat /\ fits \in Int /\ fits <= Len(answer)
  <2>1. Len(fifo) \in Nat /\ Len(answer) \in Nat
    BY <1>4, Lengths, LenProperties DEF LinkInv
  <2> QED
    BY <2>1, Bounds
<1> HIDE DEF room, fits
<1>6. /\ sent \in Seq(Back) /\ Len(sent) \in Nat /\ Len(sent) <= Len(answer)
      /\ \A i \in 1..Len(sent) : sent[i] = answer[i]
  <2>1. \A i \in 1..fits : answer[i] \in Back
    BY <1>4, <1>5, ElementOfSeq
  <2>2. /\ sent \in Seq(Back)
        /\ Len(sent) = IF 1 <= fits THEN fits - 1 + 1 ELSE 0
        /\ \A i \in 1..fits - 1 + 1 : sent[i] = answer[1 + i - 1]
    BY <1>5, <2>1, SubSeqProperties
  <2> HIDE DEF sent
  <2>3. Len(sent) \in Nat /\ Len(sent) <= Len(answer)
    BY <1>5, <2>2
  <2>4. ASSUME NEW i \in 1..Len(sent) PROVE sent[i] = answer[i]
    <3>1. i \in 1..fits - 1 + 1 /\ 1 + i - 1 = i
      BY <1>5, <2>2, <2>3
    <3> QED
      BY <2>2, <3>1
  <2> QED
    BY <2>2, <2>3, <2>4
<1> HIDE DEF sent
<1>7. fifo' \in Seq(Back)
  BY <1>1, <1>6, ConcatProperties DEF LinkInv, LinkTypes
<1>8. LinkTypes' /\ Resting'
  BY <1>1, <1>2, <1>7 DEF LinkInv, LinkTypes, Resting
<1>9. ASSUME fresh PROVE runs = 0 /\ Coming'
  <2>1. /\ Going /\ flight \in PageRequests
        /\ Len(Collected) = Len(acc) + 1 /\ Len(wire) = 1 /\ Len(acc) \in Nat
        /\ Part(Collected, 0, flight, Extra[flight], NoRequest)
        /\ Collected[1] = Unit(TRUE, flight, Extra[flight], NoRequest)
    BY <1>1, <1>9, CollectedOwn
  <2>2. Len(Collected) = Extra[flight] + 1
    BY <2>1, ExtraUnits DEF Going
  <2>3. Received = flight /\ ~Collected[1].old /\ Collected[1].more = Extra[flight]
    BY <2>1 DEF Received, Unit
  <2>4. ~Foreign
    <3>1. \A i \in 1..Len(Collected) : Collected[i].of = flight
      BY <2>1 DEF Part, Nth, Unit
    <3> QED
      BY <2>3, <3>1 DEF Foreign
  <2>5. runs = 0 /\ rx = <<>> /\ fifo = <<>>
    BY <2>1 DEF Going
  <2>6. runs' = 1
    BY <1>1, <2>3, <2>4, <2>5
  <2>7. wire' = <<>>
    <3>1. Len(wire') = 0
      BY <1>1, <2>1, CollectedUnits
    <3> QED
      BY <1>2, <3>1, EmptyByLength
  <2>8. acc' = <<>>
    BY <1>1, <2>2, <2>3, CollectedUnits, RestUnits DEF Sent
  <2>9. answer = frame
    BY <2>3 DEF answer
  <2>10. fifo' = sent
    BY <1>1, <1>6, <2>5, ConcatEmptySeq
  <2>11. rx' = <<>> /\ Len(rx') = 0
    BY <1>1, <2>5
  <2>12. Part(rx', 0, flight, n, v)
    BY <2>11 DEF Part
  <2>13. Part(fifo', 0, flight, n, v)
    <3> SUFFICES ASSUME NEW i \in 1..Len(sent) PROVE sent[i] = Nth(0 + i, flight, n, v)
      BY <2>10 DEF Part
    <3>1. i \in 1..n + 1 /\ 0 + i = i
      BY <1>3, <1>6, <2>9
    <3> QED
      BY <1>3, <1>6, <2>3, <2>9, <3>1
  <2>14. Len(rx') + Len(fifo') <= n + 1
    BY <1>3, <1>6, <2>9, <2>10, <2>11
  <2> QED
    BY <1>1, <2>5, <2>6, <2>7, <2>8, <2>11, <2>12, <2>13, <2>14 DEF Coming
<1>10. Own'
  BY <1>1, <1>9, <1>2 DEF Own
<1>11. fresh => runs = 0 /\ runs' = 1
  BY <1>9 DEF Coming
<1> QED
  BY <1>1, <1>2, <1>8, <1>10, <1>11 DEF LinkInv, Promise!Execute

----------------------------------------------------------------------------
(* The page and the device *)

Chunks  == [doc : Shown, part : Nat]
Buffers == {b \in Seq(Chunks) : Len(b) <= BufSize}

\* The engine, with a buffer in B
Engines(B) ==
    [doc : Docs, kept : SUBSET Docs, rev : Nat, room : BOOLEAN, begun : BOOLEAN, buf : B]

PageTypes ==
    /\ engine \in Engines(Buffers)
    /\ page \in [shown : Shown, dirty : BOOLEAN, rev : 0..Nil, saving : BOOLEAN, timers : BOOLEAN]
    /\ edits \in 0..MaxEdits

PageInv == LinkInv /\ PageTypes

\* An edit that is within the bound is a document
LEMMA EditIsDoc ==
    ASSUME PageTypes, edits < MaxEdits
    PROVE  edits + 1 \in 0..MaxEdits /\ edits + 1 \in Shown
BY Bounds DEF PageTypes, Shown, Garbage, Long

LEMMA EngineTypes ==
    ASSUME NEW B, NEW e \in Engines(B), NEW d \in Docs, NEW b \in B
    PROVE  /\ [e EXCEPT !.buf = b] \in Engines(B)
           /\ [e EXCEPT !.doc = d, !.kept = e.kept \cup {d}, !.rev = e.rev + 1, !.buf = b] \in Engines(B)
           /\ [e EXCEPT !.doc = d, !.rev = e.rev + 1] \in Engines(B)
<1>1. e.rev + 1 \in Nat /\ e.kept \cup {d} \in SUBSET Docs
  BY DEF Engines
<1> QED
  BY <1>1 DEF Engines

\* What a command leaves in the engine has the engine's type
LEMMA HandleTypes ==
    ASSUME PageTypes, NEW r \in PageRequests
    PROVE  /\ Handle(r, engine).engine \in Engines(Buffers)
           /\ Handle(r, engine).ok \in BOOLEAN
<1> DEFINE E == Engines(Buffers)
<1>1. engine \in E /\ <<>> \in Buffers
  <2>1. <<>> \in Seq(Chunks) /\ Len(<<>>) = 0
    BY EmptySeq
  <2> QED
    BY <2>1, Bounds DEF PageTypes, Buffers
<1>2. CASE r.cmd = "BEGIN"
  <2>1. Began(engine) \in E
    BY <1>1 DEF Began, Engines
  <2>2. Handle(r, engine) = IF engine.begun \/ engine.room THEN Done(Began(engine)) ELSE Failed(engine)
    BY <1>2 DEF Handle
  <2> QED
    BY <1>1, <2>1, <2>2 DEF Done, Failed
<1>3. CASE r.cmd = "DATA"
  <2>1. Chunk(r) \in Chunks /\ StrangeChunk \in Chunks
    BY CallsOf, ScriptCalls, Bounds DEF Chunk, StrangeChunk, Chunks
  <2> DEFINE c == IF Foreign THEN StrangeChunk ELSE Chunk(r)
  <2>2. c \in Chunks
    BY <2>1
  <2> HIDE DEF c
  <2>3. Len(engine.buf) # BufSize => Append(engine.buf, c) \in Buffers
    <3>1. engine.buf \in Seq(Chunks) /\ Len(engine.buf) <= BufSize /\ Len(engine.buf) \in Nat
      BY <1>1, LenProperties DEF Buffers, Engines
    <3>2. Append(engine.buf, c) \in Seq(Chunks) /\ Len(Append(engine.buf, c)) = Len(engine.buf) + 1
      BY <2>2, <3>1, AppendProperties
    <3> QED
      BY <3>1, <3>2, Bounds DEF Buffers
  <2>4. Len(engine.buf) # BufSize => [engine EXCEPT !.buf = Append(engine.buf, c)] \in E
    BY <1>1, <2>3 DEF Engines
  <2>5. Handle(r, engine) = IF ~engine.begun \/ TooLong(r, engine) THEN Failed(engine)
                            ELSE Done([engine EXCEPT !.buf = Append(engine.buf, c)])
    BY <1>3 DEF Handle, c
  <2>6. Len(engine.buf) = BufSize => TooLong(r, engine)
    BY DEF TooLong
  <2> QED
    BY <1>1, <2>4, <2>5, <2>6 DEF Done, Failed
<1>4. CASE r.cmd = "COMMIT"
  <2> DEFINE d == Parsed(engine.buf)
  <2>1. Handle(r, engine) = IF d \in Docs
                            THEN Done([engine EXCEPT !.doc = d, !.kept = engine.kept \cup {d},
                                                     !.rev = engine.rev + 1, !.buf = <<>>])
                            ELSE Failed([engine EXCEPT !.buf = <<>>])
    BY <1>4 DEF Handle
  <2> HIDE DEF d
  <2>2. [engine EXCEPT !.buf = <<>>] \in E
    BY <1>1, EngineTypes, Bounds
  <2>3. d \in Docs => [engine EXCEPT !.doc = d, !.kept = engine.kept \cup {d},
                                    !.rev = engine.rev + 1, !.buf = <<>>] \in E
    BY <1>1, EngineTypes
  <2> QED
    BY <2>1, <2>2, <2>3 DEF Done, Failed
<1>5. CASE r.cmd = "RESET"
  <2>1. [engine EXCEPT !.doc = 0, !.rev = engine.rev + 1] \in E
    BY <1>1, EngineTypes, Bounds
  <2>2. Handle(r, engine) = Done([engine EXCEPT !.doc = 0, !.rev = engine.rev + 1])
    BY <1>5 DEF Handle
  <2> QED
    BY <2>1, <2>2 DEF Done
<1>6. CASE r.cmd \notin {"BEGIN", "DATA", "COMMIT", "RESET"}
  BY <1>1, <1>6 DEF Handle, Done
<1> QED
  BY <1>2, <1>3, <1>4, <1>5, <1>6

\* An answer has its type and fits the vendor FIFO
LEMMA ReplyTypes ==
    ASSUME PageTypes, NEW r \in PageRequests, engine.rev <= MaxEvents
    PROVE  AnswerTo(r) \in Answers /\ AnswerUnits(r) \in 0..FifoSize
<1>1. AnswerTo(r) \in Answers
  <2>1. engine.rev \in 0..Unknown /\ Unknown \in 0..Unknown
    BY Bounds, BoundAssumption DEF PageTypes, Engines, Unknown
  <2>2. Handle(r, engine).ok \in BOOLEAN /\ engine.doc \in Shown /\ Garbage \in Shown
    BY HandleTypes, Bounds DEF PageTypes, Engines
  <2> QED
    BY <2>1, <2>2 DEF AnswerTo, Answers
<1>2. AnswerUnits(r) \in 0..FifoSize
  BY Bounds DEF AnswerUnits
<1> QED
  BY <1>1, <1>2

\* A function that goes on leaves the page and the tasks typed
LEMMA ContinueTypes ==
    ASSUME PageTypes, NEW r \in PageRequests, NEW ok \in BOOLEAN, NEW v \in Answers, Continue(r, ok, v)
    PROVE  page' \in [shown : Shown, dirty : BOOLEAN, rev : 0..Nil, saving : BOOLEAN, timers : BOOLEAN]
<1> DEFINE shown == IF ok /\ r.cmd = "GET" THEN v.doc ELSE page.shown
<1> DEFINE stops == Ends(r, ok)
<1> DEFINE dirty == page.dirty /\ ~(ok /\ (r.cmd = "GET" \/ (r.cmd = "COMMIT" /\ r.task = "save")))
<1> DEFINE rev == IF ok /\ r.cmd = "STATUS" THEN v.rev
                  ELSE IF IsLast(r) /\ r.task \in {"save", "reset"} THEN Nil ELSE page.rev
<1> DEFINE saving == page.saving /\ ~(r.task = "save" /\ stops)
<1> DEFINE timers == page.timers \/ (r.task = "connect" /\ stops)
<1>1. page' = [page EXCEPT !.shown = shown, !.dirty = dirty, !.rev = rev, !.saving = saving, !.timers = timers]
  BY DEF Continue
<1>2. shown \in Shown /\ rev \in 0..Nil
  BY Bounds DEF PageTypes, Answers, Nil
<1>3. dirty \in BOOLEAN /\ saving \in BOOLEAN /\ timers \in BOOLEAN
  BY DEF PageTypes
<1> HIDE DEF shown, dirty, rev, saving, timers
<1> QED
  BY <1>1, <1>2, <1>3 DEF PageTypes

LEMMA NoAnswerType == NoAnswer \in Answers
BY Bounds DEF NoAnswer, Answers

----------------------------------------------------------------------------
(* The steps *)

\* What the user and the timers start
LEMMA UserStep ==
    ASSUME PageInv, PageConnect \/ Edit \/ Save \/ Reset \/ Reload \/ Apply \/ Poll
    PROVE  PageInv' /\ (Promise!Call \/ Promise!Reconnect \/ UNCHANGED promiseVars)
<1> USE DEF PageInv
<1>1. /\ \A t \in Tasks, d \in Shown : <<Request(t, 1, d)>> \in Seq(PageRequests)
      /\ {"connect", "poll", "load", "save", "reset", "apply"} = Tasks
  <2>1. \A t \in Tasks, d \in Shown : Request(t, 1, d) \in PageRequests
    BY ScriptCalls, PageCalls
  <2> QED
    BY <2>1, ShortSeqs, AllTasks
<1>2. 0 \in Shown /\ page.shown \in Shown
  BY Bounds DEF PageTypes
<1>3. CASE PageConnect
  <2>1. LinkInv' /\ Promise!Reconnect
    BY <1>1, <1>2, <1>3, ConnectLink DEF PageConnect
  <2>2. PageTypes'
    BY <1>3, Bounds DEF PageConnect, PageTypes, Nil
  <2> QED
    BY <2>1, <2>2
<1>4. CASE Edit
  <2>1. LinkInv' /\ UNCHANGED promiseVars
    BY <1>4 DEF Edit, linkVars, pageVars, busVars, historyVars, promiseVars,
               LinkInv, LinkTypes, Resting, Own, Empty, Going, Coming
  <2>2. PICK d \in Shown : page' = [page EXCEPT !.shown = d, !.dirty = TRUE]
    BY <1>4, EditIsDoc, Bounds DEF Edit
  <2>3. PageTypes'
    BY <1>4, <2>2, EditIsDoc DEF Edit, PageTypes
  <2> QED
    BY <2>1, <2>3
<1>5. CASE Save
  <2>1. Call(<<Request("save", 1, page.shown)>>) /\ UNCHANGED <<engine, edits>>
    BY <1>5 DEF Save, Press
  <2>2. PageTypes'
    BY <1>5, <2>1 DEF Save, PageTypes
  <2> QED
    BY <1>1, <1>2, <2>1, <2>2, CallLink
<1>6. CASE Reset
  <2>1. Call(<<Request("reset", 1, 0)>>) /\ UNCHANGED <<engine, page, edits>>
    BY <1>6 DEF Reset, Press
  <2> QED
    BY <1>1, <1>2, <2>1, CallLink DEF PageTypes
<1>7. CASE Reload
  <2>1. Call(<<Request("load", 1, 0)>>) /\ UNCHANGED <<engine, page, edits>>
    BY <1>7 DEF Reload
  <2> QED
    BY <1>1, <1>2, <2>1, CallLink DEF PageTypes
<1>8. CASE Apply
  <2>1. PICK d \in {edits', Garbage, Long} : Press("apply", d) /\ page' = [page EXCEPT !.shown = d]
    BY <1>8 DEF Apply
  <2>2. Call(<<Request("apply", 1, d)>>) /\ UNCHANGED engine /\ edits' = edits + 1 /\ edits < MaxEdits
    BY <1>8, <2>1 DEF Apply, Press
  <2>3. d \in Shown /\ edits' \in 0..MaxEdits
    BY <2>2, EditIsDoc, Bounds
  <2>4. PageTypes'
    BY <2>1, <2>2, <2>3 DEF PageTypes
  <2> QED
    BY <1>1, <2>2, <2>3, <2>4, CallLink
<1>9. CASE Poll
  <2>1. Call(<<Request("poll", 1, 0)>>) /\ UNCHANGED <<engine, page, edits>>
    BY <1>9 DEF Poll
  <2> QED
    BY <1>1, <1>2, <2>1, CallLink DEF PageTypes
<1> QED
  BY <1>3, <1>4, <1>5, <1>6, <1>7, <1>8, <1>9

\* What send and its promises do
LEMMA PromiseStep ==
    ASSUME PageInv, PageStep
    PROVE  PageInv' /\ (Promise!Next \/ UNCHANGED promiseVars)
<1> USE DEF PageInv, Promise!Next
<1>1. CASE PageBegin
  <2>1. PageTypes'
    BY <1>1 DEF PageBegin, PageTypes
  <2> QED
    BY <1>1, <2>1, BeginLink DEF PageBegin
<1>2. CASE PageRefuse
  <2>1. Head(chain) \in PageRequests
    BY <1>2, HeadTailProperties DEF PageRefuse, Refuse, LinkInv, LinkTypes
  <2>2. PageTypes'
    BY <1>2, <2>1, ContinueTypes, NoAnswerType DEF PageRefuse, PageTypes
  <2> QED
    BY <1>2, <2>1, <2>2, NextCallsType, RefuseLink DEF PageRefuse
<1>3. CASE PageFetch
  <2>1. PageTypes'
    BY <1>3 DEF PageFetch, PageTypes
  <2> QED
    BY <1>3, <2>1, FetchLink DEF PageFetch
<1>4. CASE PageAnswer
  <2> DEFINE v == Synced(rx)[1].answer
  <2>1. /\ Answer(NextCalls(flight, v.ok, v)) /\ Continue(flight, v.ok, v)
        /\ UNCHANGED <<engine, edits>>
    BY <1>4 DEF PageAnswer
  <2>2. flight \in PageRequests /\ v \in Answers
    BY <2>1, AnswerType DEF Answer, Answered, Reading, LinkInv, LinkTypes
  <2> HIDE DEF v
  <2>3. v.ok \in BOOLEAN
    BY <2>2 DEF Answers
  <2>4. PageTypes'
    BY <2>1, <2>2, <2>3, ContinueTypes DEF PageTypes
  <2> QED
    BY <2>1, <2>2, <2>4, NextCallsType, AnswerLink
<1>5. CASE PageFail
  <2>1. flight \in PageRequests
    BY <1>5 DEF PageFail, Fail, LinkInv, LinkTypes
  <2>2. PageTypes'
    BY <1>5, <2>1, ContinueTypes, NoAnswerType DEF PageFail, PageTypes
  <2> QED
    BY <1>5, <2>1, <2>2, NextCallsType, FailLink DEF PageFail
<1> QED
  BY <1>1, <1>2, <1>3, <1>4, <1>5 DEF PageStep

\* What the device does with a report
LEMMA DeviceStep ==
    ASSUME PageInv, Deliver, engine.rev <= MaxEvents
    PROVE  PageInv' /\ (Promise!Execute \/ UNCHANGED promiseVars)
<1> USE DEF PageInv
<1>1. CASE Collect /\ UNCHANGED engine
  <2>1. PageTypes'
    BY <1>1 DEF Deliver, PageTypes
  <2> QED
    BY <1>1, <2>1, CollectLink
<1>2. CASE Execute(AnswerUnits(Received), AnswerTo(Received)) /\ engine' = Handle(Received, engine).engine
  <2>1. Received \in PageRequests
    BY <1>2, CollectedUnits DEF Execute, Completes
  <2>2. PageTypes'
    BY <1>2, <2>1, HandleTypes DEF Deliver, PageTypes
  <2>3. AnswerTo(Received) \in Answers /\ AnswerUnits(Received) \in 0..FifoSize
    BY <2>1, ReplyTypes
  <2> QED
    BY <1>2, <2>2, <2>3, ExecuteLink
<1> QED
  BY <1>1, <1>2 DEF Deliver

\* Lost connections
LEMMA BreakStep ==
    ASSUME PageInv, PageClose \/ BusLost \/ DeviceLost
    PROVE  PageInv' /\ UNCHANGED promiseVars
<1> USE DEF PageInv
<1>1. LinkInv' /\ UNCHANGED promiseVars
  BY LoseLink DEF PageClose, BusLost, DeviceLost
<1>2. page' = [page EXCEPT !.timers = FALSE] /\ edits' = edits
  BY DEF PageClose, BusLost, DeviceLost, Break
<1>3. engine' \in Engines(Buffers)
  <2>1. CASE PageClose \/ BusLost
    BY <2>1 DEF PageClose, BusLost, PageTypes
  <2>2. CASE DeviceLost
    <3>1. <<>> \in Buffers
      BY Bounds, EmptySeq DEF Buffers
    <3>2. PICK d \in engine.kept, room \in BOOLEAN : engine' = Booted(d, room)
      BY <2>2 DEF DeviceLost
    <3>3. d \in Docs /\ {0, d} \in SUBSET Docs
      BY Bounds DEF PageTypes, Engines
    <3> QED
      BY <3>1, <3>2, <3>3 DEF Booted, Engines
  <2> QED
    BY <2>1, <2>2
<1> QED
  BY <1>1, <1>2, <1>3 DEF PageTypes

\* The initial states
LEMMA InitPage == Init => PageInv /\ Promise!Init
<1> SUFFICES ASSUME Init PROVE PageInv /\ Promise!Init
  OBVIOUS
<1>1. Promise!Init
  BY DEF Init, LinkInit, Promise!Init
<1>2. LinkInv
  BY EmptySeq DEF Init, LinkInit, LinkInv, LinkTypes, Resting, Own
<1>3. engine \in Engines(Buffers)
  <2> DEFINE whole == [i \in 1..Taken |-> [doc |-> 0, part |-> i]]
  <2> Taken \in Nat
    BY Bounds DEF Taken
  <2>1. whole \in [1..Taken -> Chunks]
    BY Bounds DEF Chunks
  <2> HIDE DEF whole
  <2>2. whole \in Buffers /\ <<>> \in Buffers
    <3>1. whole \in Seq(Chunks) /\ Len(whole) = Taken /\ <<>> \in Seq(Chunks) /\ Len(<<>>) = 0
      BY <2>1, FunctionIsSeq, EmptySeq
    <3> QED
      BY <3>1, Bounds DEF Buffers, Taken
  <2>3. engine \in {Booted(0, TRUE), Booted(0, FALSE),
                    [Booted(0, TRUE) EXCEPT !.begun = TRUE, !.buf = whole]}
    BY DEF Init, AfterUpload, whole
  <2>4. \A room \in BOOLEAN : Booted(0, room) \in Engines(Buffers)
    BY <2>2, Bounds DEF Booted, Engines
  <2>5. [Booted(0, TRUE) EXCEPT !.begun = TRUE, !.buf = whole] \in Engines(Buffers)
    BY <2>2, <2>4 DEF Engines
  <2> QED
    BY <2>3, <2>4, <2>5
<1>4. PageTypes
  BY <1>3, Bounds DEF Init, PageTypes, Nil
<1> QED
  BY <1>1, <1>2, <1>4 DEF PageInv

----------------------------------------------------------------------------
(* One call for each function of several calls *)

\* r is the call its function waits for
Listed(ts, r) == ts[r.task] = [at |-> r.at, doc |-> r.doc]

\* A call of function t is in the list q
Queued(q, t) == \E i \in 1..Len(q) : q[i].task = t

TaskTypes(ts) == ts \in [Scripts -> [at : Nat, doc : Shown]]

\* Every such function that runs has made one call, which waits in q or is the call f
OneCall(q, f, ts) ==
    /\ TaskTypes(ts)
    /\ \A i \in 1..Len(q) : q[i].task \in Scripts => Listed(ts, q[i])
    /\ \A i, j \in 1..Len(q) : q[i].task = q[j].task /\ q[i].task \in Scripts => i = j
    /\ f # NoRequest /\ f.task \in Scripts => Listed(ts, f) /\ ~Queued(q, f.task)
    /\ \A t \in Scripts : ts[t].at # 0 => (f # NoRequest /\ f.task = t) \/ Queued(q, t)

CallsInv == OneCall(chain, flight, task)

\* The function of a listed call is running, at that call
LEMMA ListedRuns ==
    ASSUME NEW ts, NEW r \in PageRequests, Listed(ts, r)
    PROVE  ts[r.task].at = r.at /\ ts[r.task].doc = r.doc /\ ts[r.task].at # 0
<1>1. r.at \in DOMAIN Script(r.task) /\ r.task \in Tasks
  BY CallsOf
<1>2. r.at # 0
  BY <1>1, ScriptCalls
<1> QED
  BY <1>2 DEF Listed

LEMMA NotARequest ==
    ASSUME NEW r \in PageRequests
    PROVE  r # NoRequest
BY RequestAssumption, PageAssumption

LEMMA RequestFields ==
    ASSUME NEW t, NEW i, NEW d
    PROVE  Request(t, i, d).task = t /\ Request(t, i, d).at = i /\ Request(t, i, d).doc = d
BY DEF Request

\* A call appended to the chain comes last
LEMMA AppendedCall ==
    ASSUME NEW q \in Seq(PageRequests), NEW r \in PageRequests
    PROVE  /\ q \o <<r>> \in Seq(PageRequests) /\ Len(q \o <<r>>) = Len(q) + 1 /\ Len(q) \in Nat
           /\ \A i \in 1..Len(q) : (q \o <<r>>)[i] = q[i]
           /\ (q \o <<r>>)[Len(q) + 1] = r
<1>1. <<r>> \in Seq(PageRequests) /\ Len(<<r>>) = 1 /\ <<r>>[1] = r
  BY ShortSeqs
<1>2. Len(q) \in Nat
  BY LenProperties
<1>3. /\ q \o <<r>> \in Seq(PageRequests)
      /\ Len(q \o <<r>>) = Len(q) + Len(<<r>>)
      /\ \A i \in 1..Len(q) + Len(<<r>>) : (q \o <<r>>)[i] = IF i <= Len(q) THEN q[i] ELSE <<r>>[i - Len(q)]
  BY <1>1, ConcatProperties
<1>4. (q \o <<r>>)[Len(q) + 1] = r
  <2>1. Len(q) + 1 \in 1..Len(q) + Len(<<r>>) /\ ~(Len(q) + 1 <= Len(q)) /\ (Len(q) + 1) - Len(q) = 1
    BY <1>1, <1>2
  <2> QED
    BY <1>1, <1>3, <2>1
<1> QED
  BY <1>1, <1>2, <1>3, <1>4

\* A function starts
LEMMA AddCall ==
    ASSUME NEW q \in Seq(PageRequests), NEW f \in PageRequests \cup {NoRequest}, NEW ts, OneCall(q, f, ts),
           NEW t \in Scripts, NEW d \in Shown, ts[t].at = 0
    PROVE  OneCall(q \o <<Request(t, 1, d)>>, f, Starting(ts, t, d))
<1> DEFINE r == Request(t, 1, d)
<1> DEFINE Q == q \o <<r>>
<1> DEFINE T == Starting(ts, t, d)
<1>1. r \in PageRequests /\ r.task = t /\ r.at = 1 /\ r.doc = d
  BY AllTasks, ScriptCalls, PageCalls, RequestFields
<1>2. /\ TaskTypes(T) /\ T[t] = [at |-> 1, doc |-> d]
      /\ \A u \in Scripts : u # t => T[u] = ts[u]
  BY DEF OneCall, TaskTypes, Starting
<1> HIDE DEF r, T
<1>3. /\ Q \in Seq(PageRequests) /\ Len(Q) = Len(q) + 1 /\ Len(q) \in Nat
      /\ \A i \in 1..Len(q) : Q[i] = q[i]
      /\ Q[Len(q) + 1] = r
  BY <1>1, AppendedCall
<1> HIDE DEF Q
<1>4. \A i \in 1..Len(q) : q[i].task # t /\ (q[i].task \in Scripts => Listed(ts, q[i]))
  <2> TAKE i \in 1..Len(q)
  <2>1. q[i] \in PageRequests /\ (q[i].task \in Scripts => Listed(ts, q[i]))
    BY ElementOfSeq DEF OneCall
  <2> QED
    BY <2>1, ListedRuns
<1>5. \A i \in 1..Len(Q) : Q[i].task \in Scripts => Listed(T, Q[i])
  <2> TAKE i \in 1..Len(Q)
  <2>1. CASE i = Len(q) + 1
    BY <1>1, <1>2, <1>3, <2>1 DEF Listed
  <2>2. CASE i \in 1..Len(q)
    BY <1>2, <1>3, <1>4, <2>2 DEF Listed
  <2> QED
    BY <1>3, <2>1, <2>2
<1>6. \A i, j \in 1..Len(Q) : Q[i].task = Q[j].task /\ Q[i].task \in Scripts => i = j
  <2> SUFFICES ASSUME NEW i \in 1..Len(Q), NEW j \in 1..Len(Q), Q[i].task = Q[j].task, Q[i].task \in Scripts PROVE i = j
    OBVIOUS
  <2>1. CASE i \in 1..Len(q) /\ j \in 1..Len(q)
    BY <1>3, <2>1 DEF OneCall
  <2>2. CASE i = Len(q) + 1 \/ j = Len(q) + 1
    BY <1>1, <1>3, <1>4, <2>2
  <2> QED
    BY <1>3, <2>1, <2>2
<1>7. \A u : Queued(Q, u) <=> Queued(q, u) \/ u = t
  <2> TAKE u
  <2>1. ASSUME Queued(Q, u), u # t PROVE Queued(q, u)
    <3>1. PICK i \in 1..Len(Q) : Q[i].task = u
      BY <2>1 DEF Queued
    <3>2. i \in 1..Len(q) /\ q[i].task = u
      BY <1>1, <1>3, <2>1, <3>1
    <3> QED
      BY <3>2 DEF Queued
  <2>2. ASSUME Queued(q, u) PROVE Queued(Q, u)
    <3>1. PICK i \in 1..Len(q) : q[i].task = u
      BY <2>2 DEF Queued
    <3>2. i \in 1..Len(Q) /\ Q[i].task = u
      BY <1>3, <3>1
    <3> QED
      BY <3>2 DEF Queued
  <2>3. Queued(Q, t)
    <3>1. Len(q) + 1 \in 1..Len(Q)
      BY <1>3
    <3> QED
      BY <1>1, <1>3, <3>1 DEF Queued
  <2> QED
    BY <2>1, <2>2, <2>3
<1>8. ASSUME f # NoRequest, f.task \in Scripts PROVE Listed(T, f) /\ ~Queued(Q, f.task)
  <2>1. Listed(ts, f) /\ ~Queued(q, f.task) /\ f \in PageRequests
    BY <1>8 DEF OneCall
  <2>2. f.task # t
    BY <2>1, ListedRuns
  <2> QED
    BY <1>2, <1>7, <1>8, <2>1, <2>2 DEF Listed
<1>9. \A u \in Scripts : T[u].at # 0 => (f # NoRequest /\ f.task = u) \/ Queued(Q, u)
  BY <1>2, <1>7 DEF OneCall
<1> QED
  BY <1>2, <1>5, <1>6, <1>8, <1>9 DEF OneCall, Q, T, r

\* A function of one call starts: it has no place among the others
LEMMA AddSingle ==
    ASSUME NEW q \in Seq(PageRequests), NEW f, NEW ts, OneCall(q, f, ts), NEW t \in Singles
    PROVE  OneCall(q \o <<Request(t, 1, 0)>>, f, ts)
<1> DEFINE r == Request(t, 1, 0)
<1> DEFINE Q == q \o <<r>>
<1>1. r \in PageRequests /\ r.task = t /\ t \notin Scripts
  BY AllTasks, ScriptCalls, PageCalls, RequestFields, Bounds DEF Tasks
<1> HIDE DEF r
<1>2. /\ Q \in Seq(PageRequests) /\ Len(Q) = Len(q) + 1 /\ Len(q) \in Nat
      /\ \A i \in 1..Len(q) : Q[i] = q[i]
      /\ Q[Len(q) + 1] = r
  BY <1>1, AppendedCall
<1> HIDE DEF Q
<1>3. \A i \in 1..Len(Q) : Q[i].task \in Scripts => i \in 1..Len(q) /\ Q[i] = q[i]
  BY <1>1, <1>2
<1>4. \A u \in Scripts : Queued(Q, u) <=> Queued(q, u)
  <2> TAKE u \in Scripts
  <2>1. ASSUME Queued(Q, u) PROVE Queued(q, u)
    BY <1>3, <2>1 DEF Queued
  <2>2. ASSUME Queued(q, u) PROVE Queued(Q, u)
    <3>1. PICK i \in 1..Len(q) : q[i].task = u
      BY <2>2 DEF Queued
    <3>2. i \in 1..Len(Q) /\ Q[i].task = u
      BY <1>2, <3>1
    <3> QED
      BY <3>2 DEF Queued
  <2> QED
    BY <2>1, <2>2
<1>5. \A i \in 1..Len(Q) : Q[i].task \in Scripts => Listed(ts, Q[i])
  BY <1>3 DEF OneCall
<1>6. \A i, j \in 1..Len(Q) : Q[i].task = Q[j].task /\ Q[i].task \in Scripts => i = j
  BY <1>3 DEF OneCall
<1> QED
  BY <1>4, <1>5, <1>6 DEF OneCall, Q, r

\* The first waiting call is served
LEMMA TakeCall ==
    ASSUME NEW q \in Seq(PageRequests), NEW ts, OneCall(q, NoRequest, ts), q # <<>>
    PROVE  /\ OneCall(Tail(q), Head(q), ts)
           /\ Tail(q) \in Seq(PageRequests) /\ Head(q) \in PageRequests
<1>1. /\ Head(q) \in PageRequests /\ Tail(q) \in Seq(PageRequests) /\ Len(Tail(q)) = Len(q) - 1
      /\ Head(q) = q[1] /\ \A i \in 1..Len(Tail(q)) : Tail(q)[i] = q[i + 1]
  BY HeadTailProperties
<1>2. Len(q) \in Nat \ {0}
  BY LenProperties, EmptyByLength
<1> DEFINE T == Tail(q)
<1> HIDE DEF T
<1>3. /\ Len(T) = Len(q) - 1 /\ \A i \in 1..Len(T) : i + 1 \in 1..Len(q) /\ T[i] = q[i + 1]
  BY <1>1, <1>2 DEF T
<1>4. \A i \in 1..Len(T) : T[i].task \in Scripts => Listed(ts, T[i])
  BY <1>3 DEF OneCall
<1>5. \A i, j \in 1..Len(T) : T[i].task = T[j].task /\ T[i].task \in Scripts => i = j
  <2> SUFFICES ASSUME NEW i \in 1..Len(T), NEW j \in 1..Len(T), T[i].task = T[j].task, T[i].task \in Scripts PROVE i = j
    OBVIOUS
  <2>1. i + 1 = j + 1
    BY <1>3 DEF OneCall
  <2> QED
    BY <2>1
<1>6. 1 \in 1..Len(q)
  BY <1>2
<1>7. Head(q).task \in Scripts => Listed(ts, Head(q))
  BY <1>1, <1>6 DEF OneCall
<1>8. Head(q).task \in Scripts => ~Queued(T, Head(q).task)
  <2> SUFFICES ASSUME Head(q).task \in Scripts, NEW i \in 1..Len(T), T[i].task = Head(q).task PROVE FALSE
    BY DEF Queued
  <2>1. q[i + 1].task = q[1].task /\ i + 1 \in 1..Len(q)
    BY <1>1, <1>3
  <2>2. i + 1 = 1
    BY <1>6, <2>1 DEF OneCall
  <2> QED
    BY <2>2
<1>9. ASSUME NEW t \in Scripts, ts[t].at # 0 PROVE Head(q).task = t \/ Queued(T, t)
  <2>1. PICK i \in 1..Len(q) : q[i].task = t
    BY <1>9 DEF OneCall, Queued
  <2>2. CASE i = 1
    BY <1>1, <2>1, <2>2
  <2>3. CASE i # 1
    <3>1. i - 1 \in 1..Len(T) /\ (i - 1) + 1 = i
      BY <1>2, <1>3, <2>3
    <3>2. T[i - 1].task = t
      BY <1>3, <2>1, <3>1
    <3> QED
      BY <3>1, <3>2 DEF Queued
  <2> QED
    BY <2>2, <2>3
<1>10. Head(q) # NoRequest /\ TaskTypes(ts)
  BY <1>1, NotARequest DEF OneCall
<1>11. OneCall(T, Head(q), ts)
  BY <1>4, <1>5, <1>7, <1>8, <1>9, <1>10 DEF OneCall
<1> QED
  BY <1>1, <1>11 DEF T

\* The call of a function ends, and the function with it
LEMMA StopCall ==
    ASSUME NEW q \in Seq(PageRequests), NEW r \in PageRequests, NEW ts, OneCall(q, r, ts), r.task \in Scripts
    PROVE  OneCall(q, NoRequest, [ts EXCEPT ![r.task] = Idle])
<1> DEFINE T == [ts EXCEPT ![r.task] = Idle]
<1>1. r # NoRequest
  BY NotARequest
<1>2. /\ TaskTypes(T) /\ T[r.task].at = 0 /\ \A u \in Scripts : u # r.task => T[u] = ts[u]
  BY <1>1, Bounds DEF OneCall, TaskTypes, Idle
<1> HIDE DEF T
<1>3. \A i \in 1..Len(q) : q[i].task # r.task /\ (q[i].task \in Scripts => Listed(ts, q[i]))
  BY <1>1 DEF OneCall, Queued
<1>4. \A i \in 1..Len(q) : q[i].task \in Scripts => Listed(T, q[i])
  BY <1>2, <1>3 DEF Listed
<1>5. \A u \in Scripts : T[u].at # 0 => Queued(q, u)
  BY <1>2 DEF OneCall
<1>6. OneCall(q, NoRequest, T)
  BY <1>2, <1>4, <1>5 DEF OneCall
<1> QED
  BY <1>6 DEF T

\* The call of a function of one call ends
LEMMA EndSingle ==
    ASSUME NEW q, NEW r, NEW ts, OneCall(q, r, ts), r.task \in Singles
    PROVE  OneCall(q, NoRequest, ts)
BY DEF OneCall, Singles, Scripts

\* The call of a function ends, and the function makes its next one
LEMMA NextCall ==
    ASSUME NEW q \in Seq(PageRequests), NEW r \in PageRequests, NEW ts, OneCall(q, r, ts),
           r.task \in Scripts, r.at + 1 \in DOMAIN Script(r.task)
    PROVE  OneCall(q \o <<Request(r.task, r.at + 1, r.doc)>>, NoRequest,
                   [ts EXCEPT ![r.task] = [at |-> @.at + 1, doc |-> @.doc]])
<1> DEFINE n == Request(r.task, r.at + 1, r.doc)
<1> DEFINE Q == q \o <<n>>
<1> DEFINE T == [ts EXCEPT ![r.task] = [at |-> @.at + 1, doc |-> @.doc]]
<1>1. /\ r # NoRequest /\ r.task \in Tasks /\ r.doc \in Shown
      /\ r.at \in Nat /\ r.at + 1 # 0
  BY NotARequest, CallsOf, ScriptCalls
<1>2. n \in PageRequests /\ n.task = r.task /\ n.at = r.at + 1 /\ n.doc = r.doc
  BY <1>1, PageCalls, RequestFields
<1>3. /\ TaskTypes(T) /\ T[r.task] = [at |-> r.at + 1, doc |-> r.doc]
      /\ \A u \in Scripts : u # r.task => T[u] = ts[u]
  <2>1. ts[r.task] = [at |-> r.at, doc |-> r.doc]
    BY <1>1 DEF OneCall, Listed
  <2> DEFINE e == [at |-> ts[r.task].at + 1, doc |-> ts[r.task].doc]
  <2>2. e = [at |-> r.at + 1, doc |-> r.doc]
    BY <2>1
  <2>3. e \in [at : Nat, doc : Shown]
    BY <1>1, <2>2
  <2>4. T = [ts EXCEPT ![r.task] = e]
    OBVIOUS
  <2> HIDE DEF e, T
  <2> QED
    BY <1>1, <2>2, <2>3, <2>4 DEF OneCall, TaskTypes
<1> HIDE DEF n, T
<1>4. /\ Q \in Seq(PageRequests) /\ Len(Q) = Len(q) + 1 /\ Len(q) \in Nat
      /\ \A i \in 1..Len(q) : Q[i] = q[i]
      /\ Q[Len(q) + 1] = n
  BY <1>2, AppendedCall
<1> HIDE DEF Q
<1>5. \A i \in 1..Len(q) : q[i].task # r.task /\ (q[i].task \in Scripts => Listed(ts, q[i]))
  BY <1>1 DEF OneCall, Queued
<1>6. \A i \in 1..Len(Q) : Q[i].task \in Scripts => Listed(T, Q[i])
  <2> TAKE i \in 1..Len(Q)
  <2>1. CASE i = Len(q) + 1
    BY <1>2, <1>3, <1>4, <2>1 DEF Listed
  <2>2. CASE i \in 1..Len(q)
    BY <1>3, <1>4, <1>5, <2>2 DEF Listed
  <2> QED
    BY <1>4, <2>1, <2>2
<1>7. \A i, j \in 1..Len(Q) : Q[i].task = Q[j].task /\ Q[i].task \in Scripts => i = j
  <2> SUFFICES ASSUME NEW i \in 1..Len(Q), NEW j \in 1..Len(Q), Q[i].task = Q[j].task, Q[i].task \in Scripts PROVE i = j
    OBVIOUS
  <2>1. CASE i \in 1..Len(q) /\ j \in 1..Len(q)
    BY <1>4, <2>1 DEF OneCall
  <2>2. CASE i = Len(q) + 1 \/ j = Len(q) + 1
    BY <1>2, <1>4, <1>5, <2>2
  <2> QED
    BY <1>4, <2>1, <2>2
<1>8. ASSUME NEW u \in Scripts, T[u].at # 0 PROVE Queued(Q, u)
  <2>1. CASE u = r.task
    <3>1. Len(q) + 1 \in 1..Len(Q)
      BY <1>4
    <3> QED
      BY <1>2, <1>4, <2>1, <3>1 DEF Queued
  <2>2. CASE u # r.task
    <3>1. Queued(q, u)
      BY <1>3, <1>8, <2>2 DEF OneCall
    <3> QED
      BY <1>4, <3>1 DEF Queued
  <2> QED
    BY <2>1, <2>2
<1>9. OneCall(Q, NoRequest, T)
  BY <1>3, <1>6, <1>7, <1>8 DEF OneCall
<1> QED
  BY <1>9 DEF Q, T, n

\* A function of one call ends with it
LEMMA SingleEnds ==
    ASSUME NEW r \in PageRequests, NEW ok, r.task \in Singles
    PROVE  Ends(r, ok)
<1>1. Script(r.task) \in {<<"STATUS">>, <<"GET">>} /\ Script(r.task) \in Seq(Commands)
  BY CallsOf, ScriptCalls DEF Singles, Script
<1>2. Len(Script(r.task)) = 1
  BY <1>1
<1>3. r.at \in 1..Len(Script(r.task))
  BY CallsOf, ScriptCalls
<1> QED
  BY <1>2, <1>3 DEF Ends, IsLast

\* What a function does when its call has ended
LEMMA ContinueCalls ==
    ASSUME NEW q \in Seq(PageRequests), NEW r \in PageRequests, OneCall(q, r, task),
           NEW ok, NEW v, Continue(r, ok, v)
    PROVE  OneCall(q \o NextCalls(r, ok, v), NoRequest, task')
<1> DEFINE own   == IF Ends(r, ok) THEN <<>> ELSE <<Request(r.task, r.at + 1, r.doc)>>
<1> DEFINE load  == IF Reloads(r, ok, v) THEN <<Request("load", 1, 0)>> ELSE <<>>
<1>1. own \in Seq(PageRequests) /\ OneCall(q \o own, NoRequest, task')
  <2>1. CASE r.task \in Singles
    <3>1. Ends(r, ok)
      BY <2>1, SingleEnds
    <3>2. task' = task
      BY <2>1 DEF Continue
    <3> QED
      BY <2>1, <3>1, <3>2, EndSingle, ConcatEmptySeq, EmptySeq
  <2>2. CASE r.task \in Scripts /\ Ends(r, ok)
    <3>1. task' = [task EXCEPT ![r.task] = Idle]
      BY <2>2 DEF Continue, Singles, Scripts
    <3> QED
      BY <2>2, <3>1, StopCall, ConcatEmptySeq, EmptySeq
  <2>3. CASE r.task \in Scripts /\ ~Ends(r, ok)
    <3>1. r.at + 1 \in DOMAIN Script(r.task)
      <4>1. r.at # Len(Script(r.task))
        BY <2>3 DEF Ends, IsLast
      <4> QED
        BY <4>1, CallsOf, ScriptCalls
    <3>2. Request(r.task, r.at + 1, r.doc) \in PageRequests
      BY <3>1, CallsOf, PageCalls
    <3>3. own = <<Request(r.task, r.at + 1, r.doc)>> /\ task' = [task EXCEPT ![r.task] = [at |-> @.at + 1, doc |-> @.doc]]
      BY <2>3 DEF Continue, Singles, Scripts
    <3>4. <<Request(r.task, r.at + 1, r.doc)>> \in Seq(PageRequests)
      BY <3>2, ShortSeqs
    <3>5. OneCall(q \o <<Request(r.task, r.at + 1, r.doc)>>, NoRequest,
                  [task EXCEPT ![r.task] = [at |-> @.at + 1, doc |-> @.doc]])
      BY <2>3, <3>1, NextCall
    <3> QED
      BY <3>3, <3>4, <3>5
  <2>4. r.task \in Singles \cup Scripts
    BY CallsOf DEF Tasks
  <2> QED
    BY <2>1, <2>2, <2>3, <2>4
<1>2. "load" \in Singles /\ Request("load", 1, 0) \in PageRequests
  <2>1. "load" \in Singles /\ "load" \in Tasks
    BY DEF Singles, Tasks
  <2> QED
    BY <2>1, ScriptCalls, PageCalls, Bounds
<1>3. load \in Seq(PageRequests)
  BY <1>2, EmptySeq, ShortSeqs
<1>4. q \o NextCalls(r, ok, v) = (q \o own) \o load
  <2>1. NextCalls(r, ok, v) = own \o load
    BY DEF NextCalls
  <2> HIDE DEF own, load
  <2> QED
    BY <1>1, <1>3, <2>1, ConcatAssociative
<1> DEFINE Q == q \o own
<1>5. Q \in Seq(PageRequests) /\ OneCall(Q, NoRequest, task')
  <2> HIDE DEF own
  <2> QED
    BY <1>1, ConcatProperties
<1> HIDE DEF own, Q
<1>6. OneCall(Q \o load, NoRequest, task')
  <2>1. CASE Reloads(r, ok, v)
    BY <1>2, <1>5, <2>1, AddSingle
  <2>2. CASE ~Reloads(r, ok, v)
    BY <1>5, <2>2, ConcatEmptySeq
  <2> QED
    BY <2>1, <2>2
<1> QED
  BY <1>4, <1>6 DEF Q

----------------------------------------------------------------------------
(* The scripts *)

\* The calls of an upload, by their number
LEMMA UploadSteps ==
    ASSUME NEW i \in 1..Parts + 2
    PROVE  Upload[i] = IF i = 1 THEN "BEGIN" ELSE IF i = Parts + 2 THEN "COMMIT" ELSE "DATA"
<1> DEFINE S == {"BEGIN", "DATA", "COMMIT"}
<1> DEFINE data == [j \in 1..Parts |-> "DATA"]
<1>1. data \in Seq(S) /\ Len(data) = Parts /\ \A j \in 1..Parts : data[j] = "DATA"
  <2>1. data \in [1..Parts -> S]
    OBVIOUS
  <2>2. \A j \in 1..Parts : data[j] = "DATA"
    OBVIOUS
  <2> HIDE DEF data
  <2> QED
    BY <2>1, <2>2, Bounds, FunctionIsSeq
<1> HIDE DEF data
<1> DEFINE first == <<"BEGIN">>
<1> DEFINE final == <<"COMMIT">>
<1>2. first \in Seq(S) /\ Len(first) = 1 /\ first[1] = "BEGIN" /\ final \in Seq(S) /\ Len(final) = 1 /\ final[1] = "COMMIT"
  OBVIOUS
<1> HIDE DEF first, final
<1>3. /\ first \o data \in Seq(S) /\ Len(first \o data) = Len(first) + Len(data)
      /\ \A j \in 1..Len(first) + Len(data) : (first \o data)[j] = IF j <= Len(first) THEN first[j] ELSE data[j - Len(first)]
  <2>1. first \in Seq(S) /\ data \in Seq(S)
    BY <1>1, <1>2
  <2> QED
    BY <2>1, ConcatProperties
<1> DEFINE most == first \o data
<1>4. /\ most \in Seq(S) /\ Len(most) = Parts + 1
      /\ \A j \in 1..Parts + 1 : most[j] = IF j = 1 THEN "BEGIN" ELSE "DATA"
  <2>1. most \in Seq(S) /\ Len(most) = Parts + 1
    BY <1>1, <1>2, <1>3, Bounds
  <2>2. ASSUME NEW j \in 1..Parts + 1 PROVE most[j] = IF j = 1 THEN "BEGIN" ELSE "DATA"
    <3>1. CASE j = 1
      BY <1>1, <1>2, <1>3, <3>1, Bounds
    <3>2. CASE j # 1
      <4>1. j \in 1..Len(first) + Len(data) /\ ~(j <= Len(first)) /\ j - Len(first) \in 1..Parts
        BY <1>1, <1>2, <3>2, Bounds
      <4>2. most[j] = data[j - Len(first)]
        BY <1>3, <4>1
      <4> QED
        BY <1>1, <3>2, <4>1, <4>2
    <3> QED
      BY <3>1, <3>2
  <2> QED
    BY <2>1, <2>2
<1> HIDE DEF most
<1>5. /\ \A j \in 1..Len(most) + Len(final) : (most \o final)[j] = IF j <= Len(most) THEN most[j] ELSE final[j - Len(most)]
      /\ Upload = most \o final
  <2>1. Upload = most \o final
    BY DEF Upload, most, first, final, data
  <2> QED
    BY <1>2, <1>4, <2>1, ConcatProperties
<1>6. CASE i = Parts + 2
  <2>1. i \in 1..Len(most) + Len(final) /\ ~(i <= Len(most)) /\ i - Len(most) = 1 /\ i # 1
    BY <1>2, <1>4, <1>6, Bounds
  <2>2. (most \o final)[i] = final[i - Len(most)]
    BY <1>5, <2>1
  <2> QED
    BY <1>2, <1>5, <1>6, <2>1, <2>2
<1>7. CASE i # Parts + 2
  <2>1. i \in 1..Len(most) + Len(final) /\ i <= Len(most) /\ i \in 1..Parts + 1
    BY <1>2, <1>4, <1>7, Bounds
  <2>2. (most \o final)[i] = most[i]
    BY <1>5, <2>1
  <2> QED
    BY <1>4, <1>5, <1>7, <2>1, <2>2
<1> QED
  BY <1>6, <1>7

\* What the calls of a script are
LEMMA ScriptSteps ==
    ASSUME NEW r \in PageRequests
    PROVE  /\ r.at \in 1..Parts + 4
           /\ r.task \in Uploads /\ r.at <= Parts + 2 =>
                 r.cmd = IF r.at = 1 THEN "BEGIN" ELSE IF r.at = Parts + 2 THEN "COMMIT" ELSE "DATA"
           /\ r.task \in Uploads /\ ~(r.at <= Parts + 2) => r.cmd \in {"LAYER", "GET"}
           /\ r.task \notin Uploads => r.cmd \in {"INFO", "STATUS", "GET"} \/ (r.cmd = "RESET" /\ r.task = "reset" /\ r.at = 1)
           /\ r.task = "poll" => r.cmd = "STATUS"
<1>1. r.task \in Tasks /\ r.at \in 1..Len(Script(r.task)) /\ r.cmd = Script(r.task)[r.at] /\ Parts \in Nat \ {0}
  BY CallsOf, ScriptCalls, Bounds
<1>2. Upload \in Seq(Commands) /\ Len(Upload) = Parts + 2
  BY UploadCalls
<1>3. ASSUME NEW s \in Seq(Commands)
      PROVE  /\ Len(Upload \o s) = Parts + 2 + Len(s) /\ Len(s) \in Nat
             /\ \A i \in 1..Parts + 2 + Len(s) : (Upload \o s)[i] = IF i <= Parts + 2 THEN Upload[i] ELSE s[i - (Parts + 2)]
  <2>1. Len(s) \in Nat
    BY LenProperties
  <2>2. /\ Len(Upload \o s) = Len(Upload) + Len(s)
        /\ \A i \in 1..Len(Upload) + Len(s) :
              (Upload \o s)[i] = IF i <= Len(Upload) THEN Upload[i] ELSE s[i - Len(Upload)]
    BY <1>2, ConcatProperties
  <2> QED
    BY <1>2, <2>1, <2>2
<1>4. CASE r.task = "save"
  <2> DEFINE s == <<"LAYER", "GET">>
  <2>1. s \in Seq(Commands) /\ Len(s) = 2 /\ \A i \in 1..2 : s[i] \in {"LAYER", "GET"}
    BY DEF Commands
  <2>2. Script(r.task) = Upload \o s
    BY <1>4 DEF Script
  <2> HIDE DEF s
  <2>3. r.at \in 1..Parts + 4
    BY <1>1, <1>3, <2>1, <2>2
  <2>4. r.at <= Parts + 2 => r.at \in 1..Parts + 2 /\ r.cmd = Upload[r.at]
    BY <1>1, <1>3, <2>1, <2>2
  <2>5. ~(r.at <= Parts + 2) => r.cmd \in {"LAYER", "GET"}
    <3>1. ~(r.at <= Parts + 2) => r.cmd = s[r.at - (Parts + 2)] /\ r.at - (Parts + 2) \in 1..2
      BY <1>1, <1>3, <2>1, <2>2, <2>3
    <3> QED
      BY <2>1, <3>1
  <2> QED
    BY <1>4, <2>3, <2>4, <2>5, UploadSteps DEF Uploads
<1>5. CASE r.task = "apply"
  <2> DEFINE s == <<"GET">>
  <2>1. s \in Seq(Commands) /\ Len(s) = 1 /\ s[1] = "GET"
    BY DEF Commands
  <2>2. Script(r.task) = Upload \o s
    BY <1>5 DEF Script
  <2> HIDE DEF s
  <2>3. r.at \in 1..Parts + 3
    BY <1>1, <1>3, <2>1, <2>2
  <2>4. r.at <= Parts + 2 => r.at \in 1..Parts + 2 /\ r.cmd = Upload[r.at]
    BY <1>1, <1>3, <2>1, <2>2
  <2>5. ~(r.at <= Parts + 2) => r.cmd = "GET"
    <3>1. ~(r.at <= Parts + 2) => r.cmd = s[r.at - (Parts + 2)] /\ r.at - (Parts + 2) = 1
      BY <1>1, <1>3, <2>1, <2>2, <2>3
    <3> QED
      BY <2>1, <3>1
  <2>6. r.at \in 1..Parts + 4
    BY <1>1, <2>3
  <2> QED
    BY <1>5, <2>4, <2>5, <2>6, UploadSteps DEF Uploads
<1>6. CASE r.task \notin Uploads
  <2>1. CASE r.task = "connect"
    <3>1. Script(r.task) = <<"INFO", "STATUS", "GET", "INFO">>
      BY <2>1 DEF Script
    <3>2. r.at \in {1, 2, 3, 4}
      BY <1>1, <3>1
    <3> QED
      BY <1>1, <1>6, <2>1, <3>1, <3>2
  <2>2. CASE r.task = "poll"
    <3>1. Script(r.task) = <<"STATUS">>
      BY <2>2 DEF Script
    <3> QED
      BY <1>1, <1>6, <2>2, <3>1
  <2>3. CASE r.task = "load"
    <3>1. Script(r.task) = <<"GET">>
      BY <2>3 DEF Script
    <3> QED
      BY <1>1, <1>6, <2>3, <3>1
  <2>4. CASE r.task = "reset"
    <3>1. Script(r.task) = <<"RESET", "GET">>
      BY <2>4 DEF Script, Restore
    <3>2. r.at \in {1, 2}
      BY <1>1, <3>1
    <3> QED
      BY <1>1, <1>6, <2>4, <3>1, <3>2
  <2> QED
    BY <1>1, <1>6, <2>1, <2>2, <2>3, <2>4, AllTasks DEF Uploads
<1> QED
  BY <1>4, <1>5, <1>6 DEF Uploads

----------------------------------------------------------------------------
(* The calls of a step *)

\* What a step does to the calls: functions start, and a call begins or ends
LEMMA CallsStep ==
    ASSUME PageInv, CallsInv, [Next]_vars
    PROVE  CallsInv'
<1> USE DEF CallsInv
<1>1. chain \in Seq(PageRequests) /\ flight \in PageRequests \cup {NoRequest} /\ page.shown \in Shown /\ 0 \in Shown
  BY Bounds DEF PageInv, LinkInv, LinkTypes, PageTypes
<1>2. ASSUME NEW t \in Scripts, NEW d \in Shown, ~Busy(t), Call(<<Request(t, 1, d)>>), task' = Starting(task, t, d)
      PROVE  CallsInv'
  <2>1. chain' = chain \o <<Request(t, 1, d)>> /\ flight' = flight /\ task[t].at = 0
    BY <1>2, AllTasks DEF Call, Busy
  <2> QED
    BY <1>1, <1>2, <2>1, AddCall
<1>3. /\ {"connect", "save", "reset", "apply"} = Scripts /\ {"poll", "load"} = Singles
      /\ "connect" \in Tasks /\ "connect" \notin Singles
  BY DEF Tasks, Singles, Scripts
<1>4. CASE PageConnect
  <2>1. /\ chain = <<>> /\ chain' = <<Request("connect", 1, 0)>> /\ flight' = flight
        /\ task' = Starting(task, "connect", 0) /\ task["connect"].at = 0
    BY <1>3, <1>4 DEF PageConnect, Connect, Busy
  <2>2. Request("connect", 1, 0) \in PageRequests
    BY <1>1, <1>3, ScriptCalls, PageCalls
  <2>3. <<Request("connect", 1, 0)>> \in Seq(PageRequests)
    BY <2>2, ShortSeqs
  <2>4. chain' = chain \o <<Request("connect", 1, 0)>>
    BY <2>1, <2>3, ConcatEmptySeq
  <2> QED
    BY <1>1, <1>3, <2>1, <2>4, AddCall
<1>5. CASE Edit
  BY <1>5 DEF Edit, linkVars, pageVars
<1>6. CASE Save
  BY <1>1, <1>2, <1>3, <1>6 DEF Save, Press
<1>7. CASE Reset
  BY <1>1, <1>2, <1>3, <1>7 DEF Reset, Press
<1>8. CASE Reload
  <2>1. chain' = chain \o <<Request("load", 1, 0)>> /\ flight' = flight /\ task' = task
    BY <1>8 DEF Reload, Call
  <2> QED
    BY <1>1, <1>3, <2>1, AddSingle
<1>9. CASE Apply
  <2>1. PICK d \in {edits', Garbage, Long} : Press("apply", d)
    BY <1>9 DEF Apply
  <2>2. d \in Shown
    BY <1>9, <2>1, EditIsDoc, Bounds DEF Apply, PageInv
  <2> QED
    BY <1>2, <1>3, <2>1, <2>2 DEF Press
<1>10. CASE Poll
  <2>1. chain' = chain \o <<Request("poll", 1, 0)>> /\ flight' = flight /\ task' = task
    BY <1>10 DEF Poll, Call
  <2> QED
    BY <1>1, <1>3, <2>1, AddSingle
<1>11. CASE PageBegin
  <2>1. /\ flight = NoRequest /\ chain # <<>> /\ flight' = Head(chain) /\ chain' = Tail(chain)
        /\ task' = task
    BY <1>11 DEF PageBegin, Begin
  <2> QED
    BY <1>1, <2>1, TakeCall
<1>12. CASE PageRefuse
  <2> DEFINE r == Head(chain)
  <2> DEFINE calls == NextCalls(r, FALSE, NoAnswer)
  <2>1. /\ flight = NoRequest /\ chain # <<>> /\ flight' = NoRequest /\ chain' = Tail(chain) \o calls
        /\ Continue(r, FALSE, NoAnswer)
    BY <1>12 DEF PageRefuse, Refuse
  <2>2. OneCall(Tail(chain), r, task) /\ Tail(chain) \in Seq(PageRequests) /\ r \in PageRequests
    BY <1>1, <2>1, TakeCall
  <2> HIDE DEF r
  <2>3. OneCall(Tail(chain) \o calls, NoRequest, task')
    BY <2>1, <2>2, ContinueCalls
  <2> QED
    BY <2>1, <2>3
<1>13. CASE PageFetch
  <2>1. chain' = chain /\ flight' = flight /\ task' = task
    BY <1>13 DEF PageFetch, Fetch
  <2> QED
    BY <2>1
<1>14. CASE PageAnswer
  <2> DEFINE v == Synced(rx)[1].answer
  <2>1. /\ flight # NoRequest /\ flight' = NoRequest /\ chain' = chain \o NextCalls(flight, v.ok, v)
        /\ Continue(flight, v.ok, v)
    BY <1>14 DEF PageAnswer, Answer, Answered, Reading
  <2> HIDE DEF v
  <2>2. OneCall(chain \o NextCalls(flight, v.ok, v), NoRequest, task')
    BY <1>1, <2>1, ContinueCalls
  <2> QED
    BY <2>1, <2>2
<1>15. CASE PageFail
  <2>1. /\ flight # NoRequest /\ flight' = NoRequest /\ chain' = chain \o NextCalls(flight, FALSE, NoAnswer)
        /\ Continue(flight, FALSE, NoAnswer)
    BY <1>15 DEF PageFail, Fail
  <2>2. OneCall(chain \o NextCalls(flight, FALSE, NoAnswer), NoRequest, task')
    BY <1>1, <2>1, ContinueCalls
  <2> QED
    BY <2>1, <2>2
<1>16. CASE Deliver
  <2>1. chain' = chain /\ flight' = flight /\ task' = task
    BY <1>16 DEF Deliver, Collect, Execute, pageVars
  <2> QED
    BY <2>1
<1>17. CASE PageClose \/ BusLost \/ DeviceLost
  <2>1. chain' = chain /\ flight' = flight /\ task' = task
    BY <1>17 DEF PageClose, BusLost, DeviceLost, Close, BusReset, Restart, Lose, Break
  <2> QED
    BY <2>1
<1>18. CASE UNCHANGED vars
  BY <1>18 DEF vars, linkVars, pageVars
<1> QED
  BY <1>4, <1>5, <1>6, <1>7, <1>8, <1>9, <1>10, <1>11, <1>12, <1>13, <1>14, <1>15, <1>16, <1>17, <1>18
     DEF Next, PageStep

----------------------------------------------------------------------------
(* What the link may hold *)

\* The accumulator holds the header of a chunk, or nothing
Partial ==
    acc # <<>> => Len(acc) = 1 /\ acc[1].head /\ acc[1].more = 1 /\ acc[1].of.cmd = "DATA"

\* What is on its way is the end of the frame of the call being served
Sending ==
    wire # <<>> =>
        \E k \in Nat : /\ k + Len(wire) = Extra[flight] + 1
                       /\ Part(wire, k, flight, Extra[flight], NoRequest)

LinkSizes ==
    /\ cut \in BOOLEAN /\ runs \in 0..2
    /\ Len(fifo) <= FifoSize
    /\ Partial /\ Sending

\* The accumulator holds the front of one frame, and that frame is the one in flight
LEMMA CollectedShape ==
    ASSUME LinkInv, LinkSizes, Arriving
    PROVE  /\ Complete(Collected) => Rest(Collected) = <<>>
           /\ ~Complete(Collected) =>
                 \/ Collected = <<>>
                 \/ /\ Len(Collected) = 1 /\ Collected[1].head /\ Collected[1].more = 1
                    /\ Collected[1].of.cmd = "DATA"
           /\ Complete(Collected) /\ Received.cmd # "DATA" => Received = flight /\ Tail(wire) = <<>>
<1> DEFINE u == Head(wire)
<1>1. wire \in Seq(Sent) /\ acc \in Seq(Sent) /\ wire # <<>> /\ flight \in PageRequests
  BY CollectedUnits DEF LinkInv, LinkTypes, Arriving
<1>2. /\ u \in Sent /\ u = wire[1] /\ Tail(wire) \in Seq(Sent) /\ Len(Tail(wire)) = Len(wire) - 1
      /\ Len(wire) \in Nat \ {0}
  BY <1>1, HeadTailProperties, EmptyByLength, LenProperties
<1> DEFINE n == Extra[flight]
<1>3. n \in Nat /\ n < AccSize /\ AccSize \in Nat /\ n = IF flight.cmd = "DATA" THEN 1 ELSE 0
  BY <1>1, ExtraUnits, Bounds
<1> HIDE DEF n
<1>4. PICK k \in Nat : k + Len(wire) = n + 1 /\ Part(wire, k, flight, n, NoRequest)
  BY <1>1 DEF LinkSizes, Sending, n
<1>5. u = Nth(k + 1, flight, n, NoRequest)
  BY <1>2, <1>4 DEF Part
<1>6. u.head => k = 0 /\ u = Unit(TRUE, flight, n, NoRequest) /\ u.more = n /\ u.of = flight
  BY <1>5 DEF Nth, Unit
<1> HIDE DEF u
<1>7. <<u>> \in Seq(Sent) /\ Len(<<u>>) = 1 /\ <<u>>[1] = u
  BY <1>2, ShortSeqs
<1>8. CASE acc = <<>>
  <2>1. Collected = Synced(<<u>>)
    <3>1. Len(acc) < AccSize
      BY <1>3, <1>8
    <3>2. acc \o <<u>> = <<u>>
      BY <1>7, <1>8, ConcatEmptySeq
    <3> QED
      BY <3>1, <3>2 DEF Collected, u
  <2>2. CASE u.head
    <3>1. Collected = <<u>>
      BY <1>7, <2>1, <2>2, SyncedUnits, EmptyByLength DEF Sent
    <3> DEFINE c == Collected
    <3>0. c \in Seq(Sent) /\ Len(c) = 1 /\ c[1] = u /\ c[1].more = n /\ c # <<>>
      BY <1>6, <1>7, <2>2, <3>1, EmptyByLength
    <3> HIDE DEF c
    <3>2. Complete(c) <=> n = 0
      BY <1>3, <3>0 DEF Complete
    <3>3. Complete(c) => Rest(c) = <<>>
      <4>1. n = 0 => Len(c) = c[1].more + 1
        BY <3>0
      <4>2. c \in Seq(UnitsOf({NoRequest}))
        BY <3>0 DEF Sent
      <4> QED
        BY <3>2, <4>1, <4>2, RestUnits
    <3> USE DEF c
    <3>4. ~Complete(Collected) => Collected[1].head /\ Collected[1].more = 1 /\ Collected[1].of.cmd = "DATA"
      BY <1>3, <1>6, <1>7, <2>2, <3>1, <3>2
    <3>5. Complete(Collected) => Received = flight /\ Tail(wire) = <<>>
      <4>1. n = 0 => Len(Tail(wire)) = 0
        <5>1. k = 0
          BY <1>6, <2>2
        <5> QED
          BY <1>2, <1>3, <1>4, <5>1
      <4> QED
        BY <1>2, <1>6, <1>7, <2>2, <3>1, <3>2, <4>1, EmptyByLength DEF Received
    <3> QED
      BY <1>7, <3>1, <3>3, <3>4, <3>5
  <2>3. CASE ~u.head
    <3>1. DOMAIN <<u>> = {1}
      OBVIOUS
    <3>2. { i \in DOMAIN <<u>> : <<u>>[i].head } = {}
      BY <1>7, <2>3, <3>1
    <3>3. Collected = <<>>
      BY <2>1, <3>2 DEF Synced
    <3> QED
      BY <3>3 DEF Complete
  <2> QED
    BY <2>2, <2>3
<1>9. CASE acc # <<>>
  <2>1. Len(acc) = 1 /\ acc[1].head /\ acc[1].more = 1 /\ acc[1].of.cmd = "DATA"
    BY <1>9 DEF LinkSizes, Partial
  <2>2. acc[1].of \in PageRequests
    <3>1. acc[1] \in Sent
      <4>1. 1 \in 1..Len(acc)
        BY <2>1
      <4> QED
        BY <1>1, <4>1, ElementOfSeq
    <3> QED
      BY <3>1 DEF Sent, UnitsOf
  <2>3. Len(acc) < AccSize
    <3>1. Extra[acc[1].of] = 1 /\ 1 < AccSize
      BY <2>1, <2>2, ExtraUnits
    <3> QED
      BY <2>1, <3>1
  <2> DEFINE c == acc \o <<u>>
  <2>4. c \in Seq(Sent) /\ Len(c) = 2 /\ c[1] = acc[1]
    <3>1. /\ acc \o <<u>> \in Seq(Sent)
          /\ Len(acc \o <<u>>) = Len(acc) + Len(<<u>>)
          /\ \A i \in 1..Len(acc) + Len(<<u>>) :
                (acc \o <<u>>)[i] = IF i <= Len(acc) THEN acc[i] ELSE <<u>>[i - Len(acc)]
      BY <1>1, <1>7, ConcatProperties
    <3>2. 1 \in 1..Len(acc) + Len(<<u>>) /\ 1 <= Len(acc)
      BY <1>7, <2>1
    <3> QED
      BY <1>7, <2>1, <3>1, <3>2
  <2>5. Collected = Synced(c)
    BY <2>3 DEF Collected, c, u
  <2> HIDE DEF c
  <2>6. Collected = c
    BY <2>1, <2>4, <2>5, SyncedUnits, EmptyByLength DEF Sent
  <2>7. Complete(c)
    <3>1. c # <<>>
      <4>1. c = <<>> <=> Len(c) = 0
        BY <2>4, EmptyByLength
      <4> QED
        BY <2>4, <4>1
    <3>2. Len(c) > c[1].more
      BY <2>1, <2>4
    <3> QED
      BY <3>1, <3>2 DEF Complete
  <2>8. Rest(c) = <<>>
    <3>1. Len(c) = c[1].more + 1
      BY <2>1, <2>4
    <3>2. c \in Seq(UnitsOf({NoRequest}))
      BY <2>4 DEF Sent
    <3> QED
      BY <2>7, <3>1, <3>2, RestUnits
  <2>9. Received.cmd = "DATA"
    BY <2>1, <2>4, <2>6 DEF Received
  <2> QED
    BY <2>6, <2>7, <2>8, <2>9
<1> QED
  BY <1>8, <1>9

LEMMA SizesUnchanged ==
    ASSUME LinkSizes, UNCHANGED <<cut, runs, fifo, acc, wire, flight>>
    PROVE  LinkSizes'
BY DEF LinkSizes, Partial, Sending

\* Aged keeps lengths, heads and announced sizes
LEMMA AgedSizes ==
    ASSUME NEW V, NEW s \in Seq(UnitsOf(V))
    PROVE  /\ Len(Aged(s)) = Len(s) /\ (s = <<>> <=> Aged(s) = <<>>)
           /\ \A i \in 1..Len(s) : /\ Aged(s)[i].head = s[i].head /\ Aged(s)[i].more = s[i].more
                                   /\ Aged(s)[i].of = s[i].of
<1>1. DOMAIN s = 1..Len(s) /\ Len(s) \in Nat /\ \A i \in 1..Len(s) : s[i] \in UnitsOf(V)
  BY LenProperties, ElementOfSeq
<1>2. Aged(s) \in Seq(UnitsOf(V))
  BY AgedUnits
<1>3. DOMAIN Aged(s) = 1..Len(s) /\ \A i \in 1..Len(s) : Aged(s)[i] = [s[i] EXCEPT !.old = TRUE]
  BY <1>1 DEF Aged
<1>4. DOMAIN Aged(s) = 1..Len(Aged(s)) /\ Len(Aged(s)) \in Nat
  BY <1>2, LenProperties
<1>5. Len(Aged(s)) = Len(s)
  BY <1>1, <1>3, <1>4
<1>6. ASSUME NEW i \in 1..Len(s)
      PROVE  /\ Aged(s)[i].head = s[i].head /\ Aged(s)[i].more = s[i].more /\ Aged(s)[i].of = s[i].of
  BY <1>1, <1>3 DEF UnitsOf
<1> QED
  BY <1>2, <1>5, <1>6, EmptyByLength

\* Every step keeps LinkSizes
LEMMA SizesStep ==
    ASSUME PageInv, LinkSizes, [Next]_vars, engine.rev <= MaxEvents
    PROVE  LinkSizes'
<1>1. LinkInv
  BY DEF PageInv
<1>2. CASE Edit \/ Save \/ Reset \/ Reload \/ Apply \/ Poll \/ PageRefuse \/ UNCHANGED vars
  <2>1. UNCHANGED <<cut, runs, fifo, acc, wire, flight>>
    BY <1>2 DEF Edit, Save, Reset, Reload, Apply, Press, Poll, Call, PageRefuse, Refuse, vars,
               linkVars, pageVars, busVars, historyVars
  <2> QED
    BY <2>1, SizesUnchanged
<1>3. CASE PageConnect
  <2>1. UNCHANGED <<runs, fifo, acc, wire, flight>> /\ cut' = FALSE
    BY <1>3 DEF PageConnect, Connect, busVars
  <2> QED
    BY <2>1 DEF LinkSizes, Partial, Sending
<1>4. CASE PageBegin
  <2>1. UNCHANGED <<cut, runs, fifo, acc>> /\ wire' = Frame(flight', Extra[flight'], NoRequest) /\ flight' \in PageRequests
    <3>1. Head(chain) \in PageRequests
      BY <1>1, <1>4, HeadTailProperties DEF PageBegin, Begin, LinkInv, LinkTypes
    <3> QED
      BY <1>4, <3>1 DEF PageBegin, Begin
  <2>2. /\ 0 + Len(wire') = Extra[flight'] + 1
        /\ Part(wire', 0, flight', Extra[flight'], NoRequest)
    <3>1. /\ Len(wire') = Extra[flight'] + 1 /\ Extra[flight'] \in Nat
          /\ \A i \in 1..Extra[flight'] + 1 : wire'[i] = Nth(i, flight', Extra[flight'], NoRequest)
      BY <2>1, RequestFrame, ExtraUnits
    <3> QED
      BY <3>1 DEF Part
  <2>3. Sending'
    BY <2>2 DEF Sending
  <2> QED
    BY <2>1, <2>3 DEF LinkSizes, Partial
<1>5. CASE PageFetch
  <2>1. PICK m \in 1..FifoSize : Fetch(m)
    BY <1>5 DEF PageFetch
  <2>2. /\ UNCHANGED <<cut, runs, acc, wire, flight>> /\ m \in 1..Len(fifo)
        /\ fifo' = SubSeq(fifo, m + 1, Len(fifo))
    BY <2>1 DEF Fetch, historyVars
  <2>3. Len(fifo') <= FifoSize
    <3>1. fifo \in Seq(Back) /\ Len(fifo) \in Nat /\ \A i \in m + 1..Len(fifo) : fifo[i] \in Back
      BY <1>1, <2>2, Lengths, ElementOfSeq DEF LinkInv, LinkTypes
    <3>2. Len(fifo') = IF m + 1 <= Len(fifo) THEN Len(fifo) - (m + 1) + 1 ELSE 0
      BY <2>2, <3>1, SubSeqProperties
    <3> QED
      BY <2>2, <3>1, <3>2, Bounds DEF LinkSizes
  <2> QED
    BY <2>2, <2>3 DEF LinkSizes, Partial, Sending
<1>6. CASE PageAnswer \/ PageFail
  <2>1. UNCHANGED <<cut, fifo, acc, wire>> /\ runs' = 0 /\ wire = <<>>
    <3>1. CASE PageAnswer
      BY <3>1 DEF PageAnswer, Answer, Answered, Reading, busVars
    <3>2. CASE PageFail
      BY <1>1, <3>2 DEF PageFail, Fail, busVars, LinkInv, Resting
    <3> QED
      BY <1>6, <3>1, <3>2
  <2> QED
    BY <2>1 DEF LinkSizes, Partial, Sending
<1>7. CASE PageClose \/ BusLost \/ DeviceLost
  <2>1. /\ wire' = <<>> /\ UNCHANGED <<cut, runs>>
        /\ acc' = <<>> \/ acc' = Aged(acc)
        /\ fifo' = <<>> \/ fifo' = Aged(fifo)
    BY <1>7 DEF PageClose, BusLost, DeviceLost, Close, BusReset, Restart, Lose, historyVars
  <2>2. /\ acc \in Seq(Sent) /\ fifo \in Seq(Back)
        /\ Len(Aged(fifo)) = Len(fifo) /\ Len(Aged(acc)) = Len(acc) /\ (acc = <<>> <=> Aged(acc) = <<>>)
        /\ \A i \in 1..Len(acc) : /\ Aged(acc)[i].head = acc[i].head /\ Aged(acc)[i].more = acc[i].more
                                  /\ Aged(acc)[i].of = acc[i].of
    BY <1>1, AgedSizes DEF LinkInv, LinkTypes, Sent, Back
  <2>3. Len(fifo') <= FifoSize
    <3>1. Len(<<>>) = 0
      OBVIOUS
    <3> QED
      BY <2>1, <2>2, <3>1, Bounds DEF LinkSizes
  <2>4. Partial'
    <3>1. CASE acc' = <<>>
      BY <3>1 DEF Partial
    <3>2. CASE acc' # <<>>
      <4>1. acc' = Aged(acc) /\ acc # <<>>
        BY <2>1, <2>2, <3>2
      <4>2. Len(acc) = 1 /\ acc[1].head /\ acc[1].more = 1 /\ acc[1].of.cmd = "DATA"
        BY <4>1 DEF LinkSizes, Partial
      <4>3. /\ Aged(acc)[1].head = acc[1].head /\ Aged(acc)[1].more = acc[1].more
            /\ Aged(acc)[1].of = acc[1].of
        <5>1. 1 \in 1..Len(acc)
          BY <4>2
        <5> QED
          BY <2>2, <5>1
      <4>4. acc'[1].head /\ acc'[1].more = 1 /\ acc'[1].of.cmd = "DATA"
        BY <4>1, <4>2, <4>3
      <4> QED
        BY <2>2, <4>1, <4>2, <4>4 DEF Partial
    <3> QED
      BY <3>1, <3>2
  <2> QED
    BY <2>1, <2>3, <2>4 DEF LinkSizes, Sending
<1>8. CASE Deliver
  <2>1. Arriving /\ wire' = Tail(wire) /\ flight' = flight
    BY <1>8 DEF Deliver, Collect, Execute, Completes, pageVars
  <2>2. Sending'
    <3> SUFFICES ASSUME wire' # <<>> PROVE Sending'
      BY DEF Sending
    <3>1. PICK k \in Nat : k + Len(wire) = Extra[flight] + 1 /\ Part(wire, k, flight, Extra[flight], NoRequest)
      BY <2>1 DEF LinkSizes, Sending, Arriving
    <3>2. /\ Len(wire') = Len(wire) - 1 /\ \A i \in 1..Len(wire') : wire'[i] = wire[i + 1]
          /\ Len(wire) \in Nat \ {0}
      BY <1>1, <2>1, CollectedUnits, Lengths DEF Arriving, LinkInv
    <3>3. k + 1 \in Nat /\ (k + 1) + Len(wire') = Extra[flight'] + 1
      BY <2>1, <3>1, <3>2
    <3>4. Part(wire', k + 1, flight', Extra[flight'], NoRequest)
      <4> SUFFICES ASSUME NEW i \in 1..Len(wire') PROVE wire'[i] = Nth(k + 1 + i, flight, Extra[flight], NoRequest)
        BY <2>1 DEF Part
      <4>1. i + 1 \in 1..Len(wire) /\ k + (i + 1) = k + 1 + i
        BY <3>2
      <4> QED
        BY <3>1, <3>2, <4>1 DEF Part
    <3> QED
      BY <3>3, <3>4 DEF Sending
  <2>3. CASE Collect
    <3>1. UNCHANGED <<cut, runs, fifo>> /\ acc' = Collected /\ ~Complete(Collected)
      BY <2>3 DEF Collect, Completes, historyVars
    <3>2. Partial'
      BY <1>1, <2>1, <3>1, CollectedShape DEF Partial
    <3> QED
      BY <2>2, <3>1, <3>2 DEF LinkSizes
  <2>4. CASE Execute(AnswerUnits(Received), AnswerTo(Received))
    <3> DEFINE frame == Frame(Received, AnswerUnits(Received), AnswerTo(Received))
    <3> DEFINE answer == IF Collected[1].old THEN Aged(frame) ELSE frame
    <3>1. /\ Complete(Collected) /\ acc' = Rest(Collected) /\ runs' \in {1, 2} /\ WriteAll(answer)
      BY <2>4 DEF Execute, Completes
    <3>2. acc' = <<>>
      BY <1>1, <2>1, <3>1, CollectedShape
    <3>3. frame \in Seq(Back)
      <4>1. Received \in PageRequests
        BY <1>1, <2>1, <3>1, CollectedUnits
      <4>2. AnswerTo(Received) \in Answers /\ AnswerUnits(Received) \in 0..FifoSize
        BY <4>1, ReplyTypes DEF PageInv
      <4> QED
        BY <4>1, <4>2, FrameUnits DEF Back
    <3> HIDE DEF frame
    <3>4. answer \in Seq(Back)
      BY <3>3, AgedUnits DEF Back
    <3> HIDE DEF answer
    <3> DEFINE room == FifoSize - Len(fifo)
    <3> DEFINE fits == IF Len(answer) < room THEN Len(answer) ELSE room
    <3>5. fifo' = fifo \o SubSeq(answer, 1, fits) /\ cut' = (cut \/ Len(answer) > room)
      BY <3>1 DEF WriteAll
    <3>6. fits \in Nat /\ fits <= Len(answer) /\ Len(fifo) + fits <= FifoSize /\ Len(fifo) \in Nat
      <4>1. Len(fifo) \in Nat /\ Len(answer) \in Nat /\ Len(fifo) <= FifoSize /\ FifoSize \in Nat
        BY <1>1, <3>4, Lengths, LenProperties, Bounds DEF LinkInv, LinkSizes
      <4> QED
        BY <4>1
    <3>7. cut' \in BOOLEAN
      BY <3>5 DEF LinkSizes
    <3> HIDE DEF fits, room
    <3>8. Len(fifo') <= FifoSize
      <4>1. \A i \in 1..fits : answer[i] \in Back
        BY <3>4, <3>6, ElementOfSeq, LenProperties
      <4>2. /\ SubSeq(answer, 1, fits) \in Seq(Back)
            /\ Len(SubSeq(answer, 1, fits)) = IF 1 <= fits THEN fits - 1 + 1 ELSE 0
        BY <3>4, <3>6, <4>1, SubSeqProperties
      <4>3. Len(fifo') = Len(fifo) + Len(SubSeq(answer, 1, fits))
        BY <1>1, <3>5, <4>2, ConcatProperties DEF LinkInv, LinkTypes
      <4> QED
        BY <3>6, <4>2, <4>3
    <3> QED
      BY <2>2, <3>1, <3>2, <3>7, <3>8 DEF LinkSizes, Partial
  <2> QED
    BY <1>8, <2>3, <2>4 DEF Deliver
<1> QED
  BY <1>2, <1>3, <1>4, <1>5, <1>6, <1>7, <1>8 DEF Next, PageStep

----------------------------------------------------------------------------
(* The counters *)

Counters == events \in 0..MaxEvents /\ {mine, torn, refused} \subseteq BOOLEAN

\* Every step keeps Counters; events never fall and torn stays
LEMMA CountersStep ==
    ASSUME Counters, [Next]_vars
    PROVE  Counters' /\ events <= events' /\ (torn => torn')
<1>1. /\ events \in Nat /\ MaxEvents \in Nat /\ (events < MaxEvents => events + 1 \in 0..MaxEvents)
      /\ events <= events /\ mine \in BOOLEAN /\ torn \in BOOLEAN /\ refused \in BOOLEAN
  BY Bounds DEF Counters
<1>2. CASE Save \/ Reset \/ Apply
  <2>1. /\ events < MaxEvents /\ events' = events + 1
        /\ \E t \in Tasks : torn' = (torn \/ (t \in Uploads /\ \E u \in Uploads : Busy(u)))
        /\ mine' \in {mine, FALSE} /\ refused' \in {refused, FALSE}
    BY <1>2, AllTasks DEF Save, Reset, Apply, Press
  <2>2. torn' \in BOOLEAN /\ (torn => torn')
    BY <1>1, <2>1, Zenon
  <2>3. mine' \in BOOLEAN /\ refused' \in BOOLEAN
    BY <1>1, <2>1
  <2> QED
    BY <1>1, <2>1, <2>2, <2>3 DEF Counters
<1>3. CASE PageClose \/ BusLost \/ DeviceLost
  <2>1. /\ events < MaxEvents /\ events' = events + 1 /\ mine' = mine /\ refused' = refused
        /\ torn' = torn \/ torn' = (torn \/ \E u \in Uploads : Busy(u))
    BY <1>3 DEF PageClose, BusLost, DeviceLost, Break
  <2>2. torn' \in BOOLEAN /\ (torn => torn')
    <3>1. CASE torn' = torn
      BY <1>1, <3>1
    <3>2. CASE torn' = (torn \/ \E u \in Uploads : Busy(u))
      BY <1>1, <3>2, Zenon
    <3> QED
      BY <2>1, <3>1, <3>2
  <2> QED
    BY <1>1, <2>1, <2>2 DEF Counters
<1>4. CASE Edit
  <2>1. /\ events' = events /\ torn' = torn /\ refused' = refused
        /\ mine' = (mine \/ \A t \in Tasks \ {"poll"} : ~Busy(t))
    BY <1>4 DEF Edit
  <2>2. mine' \in BOOLEAN
    BY <1>1, <2>1, Zenon
  <2> QED
    BY <1>1, <2>1, <2>2 DEF Counters
<1>5. CASE Reload
  <2>1. events < MaxEvents /\ events' = events + 1 /\ torn' = torn /\ mine' = FALSE /\ refused' = refused
    BY <1>5 DEF Reload
  <2>2. {mine', torn', refused'} \subseteq BOOLEAN
    BY <1>1, <2>1
  <2> QED
    BY <1>1, <2>1, <2>2 DEF Counters
<1>6. CASE PageConnect \/ Poll \/ PageBegin \/ PageFetch \/ Deliver \/ UNCHANGED vars
  <2>1. events' = events /\ torn' = torn /\ mine' \in {mine, FALSE} /\ refused' = refused
    BY <1>6 DEF PageConnect, Poll, PageBegin, PageFetch, Deliver, vars
  <2>2. mine' \in BOOLEAN /\ refused' \in BOOLEAN
    BY <1>1, <2>1
  <2> QED
    BY <1>1, <2>1, <2>2 DEF Counters
<1>7. CASE PageRefuse \/ PageAnswer \/ PageFail
  <2>1. events' = events /\ torn' = torn /\ \E r, ok, v : Continue(r, ok, v)
    BY <1>7 DEF PageRefuse, PageAnswer, PageFail
  <2>2. PICK r, ok, v : Continue(r, ok, v)
    BY <2>1
  <2>3. /\ mine' = (mine /\ ~(ok /\ r.cmd = "COMMIT"))
        /\ refused' = IF ok THEN refused /\ r.cmd # "GET" ELSE refused \/ (r.task = "apply" /\ Fatal(r))
    BY <2>2 DEF Continue
  <2>4. mine' \in BOOLEAN
    BY <1>1, <2>3, Zenon
  <2>5. refused' \in BOOLEAN
    <3>1. CASE ok
      BY <1>1, <2>3, <3>1, Zenon
    <3>2. CASE ~ok
      BY <1>1, <2>3, <3>2, Zenon
    <3> QED
      BY <3>1, <3>2
  <2> QED
    BY <1>1, <2>1, <2>4, <2>5 DEF Counters
<1> QED
  BY <1>2, <1>3, <1>4, <1>5, <1>6, <1>7 DEF Next, PageStep

----------------------------------------------------------------------------
(* The revision of the keymap *)

Serving(t) == flight # NoRequest /\ flight.task = t

\* The functions that change the keymap in the device, and the call that does
Writers  == {"save", "apply", "reset"}
Final(t) == IF t = "reset" THEN 1 ELSE Parts + 2

\* The function may still change it
Owes(t) ==
    /\ task[t].at \in 1..Final(t)
    /\ ~(Serving(t) /\ task[t].at = Final(t) /\ wire = <<>>)

Owing(t) == IF Owes(t) THEN 1 ELSE 0

\* Every change of the keymap was begun by the user
RevInv == engine.rev + Owing("save") + Owing("apply") + Owing("reset") <= events

\* A command raises config_rev by one at most, and only COMMIT and RESET do
LEMMA Changes ==
    ASSUME PageTypes, NEW r \in PageRequests
    PROVE  /\ Handle(r, engine).engine.rev \in Nat
           /\ Handle(r, engine).engine.rev <= engine.rev + 1
           /\ r.cmd \notin {"COMMIT", "RESET"} => Handle(r, engine).engine.rev = engine.rev
<1>1. engine \in Engines(Buffers) /\ engine.rev \in Nat /\ engine.rev <= engine.rev + 1
  BY DEF PageTypes, Engines
<1>2. CASE r.cmd \in {"BEGIN", "DATA"}
  <2>1. \/ Handle(r, engine).engine = engine
        \/ Handle(r, engine).engine = Began(engine)
        \/ \E b : Handle(r, engine).engine = [engine EXCEPT !.buf = b]
    BY <1>2 DEF Handle, Done, Failed
  <2>2. Handle(r, engine).engine.rev = engine.rev
    BY <1>1, <2>1 DEF Began, Engines
  <2> QED
    BY <1>1, <2>2
<1>3. CASE r.cmd = "COMMIT"
  <2> DEFINE d == Parsed(engine.buf)
  <2>1. Handle(r, engine) = IF d \in Docs
                            THEN Done([engine EXCEPT !.doc = d, !.kept = engine.kept \cup {d},
                                                     !.rev = engine.rev + 1, !.buf = <<>>])
                            ELSE Failed([engine EXCEPT !.buf = <<>>])
    BY <1>3 DEF Handle
  <2> HIDE DEF d
  <2>2. Handle(r, engine).engine.rev \in {engine.rev, engine.rev + 1}
    BY <1>1, <2>1 DEF Done, Failed, Engines
  <2> QED
    BY <1>1, <1>3, <2>2
<1>4. CASE r.cmd = "RESET"
  <2>1. Handle(r, engine) = Done([engine EXCEPT !.doc = 0, !.rev = engine.rev + 1])
    BY <1>4 DEF Handle
  <2>2. Handle(r, engine).engine.rev = engine.rev + 1
    <3> DEFINE e == [engine EXCEPT !.doc = 0, !.rev = engine.rev + 1]
    <3>1. e.rev = engine.rev + 1
      BY <1>1 DEF Engines
    <3> HIDE DEF e
    <3>2. Done(e).engine = e
      BY DEF Done
    <3> QED
      BY <2>1, <3>1, <3>2 DEF e
  <2> QED
    BY <1>1, <1>4, <2>2
<1>5. CASE r.cmd \notin {"BEGIN", "DATA", "COMMIT", "RESET"}
  BY <1>1, <1>5 DEF Handle, Done
<1> QED
  BY <1>2, <1>3, <1>4, <1>5

\* The call that changes the keymap is the last that its function owes
LEMMA ChangingCall ==
    ASSUME NEW r \in PageRequests, r.cmd \in {"COMMIT", "RESET"}
    PROVE  r.task \in Writers /\ r.at = Final(r.task)
<1>1. Parts \in Nat \ {0} /\ r.at \in 1..Parts + 4
  BY ScriptSteps, Bounds
<1>2. CASE r.task \in Uploads
  <2>1. r.at <= Parts + 2
    BY <1>2, ScriptSteps
  <2>2. r.cmd = IF r.at = 1 THEN "BEGIN" ELSE IF r.at = Parts + 2 THEN "COMMIT" ELSE "DATA"
    BY <1>2, <2>1, ScriptSteps
  <2> QED
    BY <1>2, <2>2 DEF Uploads, Writers, Final
<1>3. CASE r.task \notin Uploads
  BY <1>3, ScriptSteps DEF Writers, Final
<1> QED
  BY <1>2, <1>3

\* A step that changes nothing and adds no debt keeps RevInv
LEMMA NothingOwed ==
    ASSUME RevInv, PageTypes, Counters, engine'.rev \in Nat, engine'.rev <= engine.rev, events' \in Nat, events <= events',
           \A t \in Writers : Owes(t)' => Owes(t)
    PROVE  RevInv'
<1>1. engine.rev \in Nat /\ events \in Nat
  BY DEF PageTypes, Engines, Counters
<1>2. /\ Owing("save")' \in {0, 1} /\ Owing("save") \in {0, 1} /\ Owing("save")' <= Owing("save")
      /\ Owing("apply")' \in {0, 1} /\ Owing("apply") \in {0, 1} /\ Owing("apply")' <= Owing("apply")
      /\ Owing("reset")' \in {0, 1} /\ Owing("reset") \in {0, 1} /\ Owing("reset")' <= Owing("reset")
  BY DEF Owing, Writers
<1> QED
  BY <1>1, <1>2 DEF RevInv

\* A function begins to owe a change when the user has pressed its button
LEMMA PressOwes ==
    ASSUME RevInv, PageTypes, Counters, NEW t \in Writers, engine' = engine, events' = events + 1,
           \A u \in Writers \ {t} : Owes(u)' => Owes(u), ~Owes(t)
    PROVE  RevInv'
<1>1. engine.rev \in Nat /\ events \in Nat
  BY DEF PageTypes, Engines, Counters
<1>2. \A u \in Writers : /\ Owing(u)' \in {0, 1} /\ Owing(u) \in {0, 1}
                         /\ u # t => Owing(u)' <= Owing(u)
                         /\ u = t => Owing(u) = 0
  BY DEF Owing
<1>3. "save" \in Writers /\ "apply" \in Writers /\ "reset" \in Writers
  BY DEF Writers
<1> HIDE DEF Owing
<1> DEFINE s == Owing("save")
<1> DEFINE a == Owing("apply")
<1> DEFINE r == Owing("reset")
<1>4. /\ s \in {0, 1} /\ s' \in {0, 1} /\ a \in {0, 1} /\ a' \in {0, 1} /\ r \in {0, 1} /\ r' \in {0, 1}
      /\ \/ s = 0 /\ a' <= a /\ r' <= r
         \/ a = 0 /\ s' <= s /\ r' <= r
         \/ r = 0 /\ s' <= s /\ a' <= a
  <2>1. t = "save" \/ t = "apply" \/ t = "reset"
    BY DEF Writers
  <2> QED
    BY <1>2, <1>3, <2>1
<1>5. engine.rev + s + a + r <= events
  BY DEF RevInv
<1> HIDE DEF s, a, r
<1>6. engine.rev + s' + a' + r' <= events + 1
  BY <1>1, <1>4, <1>5
<1> QED
  BY <1>6 DEF RevInv, s, a, r

\* When a call ends its function owes no more than before
LEMMA ContinueOwes ==
    ASSUME NEW r \in PageRequests, r.task \in Scripts => Listed(task, r), TaskTypes(task),
           NEW ok, NEW v, Continue(r, ok, v), flight' = NoRequest,
           flight \in {r, NoRequest}, NEW t \in Writers, Owes(t)'
    PROVE  Owes(t)
<1>1. t \in Scripts /\ r.task \in Singles \cup Scripts /\ task \in [Scripts -> [at : Nat, doc : Shown]]
  BY CallsOf DEF Writers, Scripts, Tasks, TaskTypes
<1>2. task' = IF r.task \in Singles THEN task
              ELSE [task EXCEPT ![r.task] = IF Ends(r, ok) THEN Idle ELSE [at |-> @.at + 1, doc |-> @.doc]]
  BY DEF Continue
<1>3. task'[t].at \in 1..Final(t) /\ Final(t) \in Nat
  BY Bounds DEF Owes, Final
<1>4. CASE t # r.task
  <2>1. task'[t] = task[t]
    BY <1>1, <1>2, <1>4
  <2>2. ~Serving(t)
    BY <1>4 DEF Serving
  <2> QED
    BY <1>3, <2>1, <2>2 DEF Owes
<1>5. CASE t = r.task
  <2>1. task[t].at = r.at /\ r.at \in Nat
    BY <1>1, <1>5, ListedRuns, ScriptSteps
  <2>2. ~Ends(r, ok) => task'[t].at = r.at + 1
    BY <1>1, <1>2, <1>5, <2>1 DEF Singles, Scripts
  <2>3. Ends(r, ok) => task'[t].at = 0
    BY <1>1, <1>2, <1>5 DEF Idle, Singles, Scripts
  <2>4. r.at + 1 <= Final(t) /\ r.at \in 1..Final(t)
    BY <1>3, <2>1, <2>2, <2>3, ScriptSteps
  <2> QED
    BY <1>3, <2>1, <2>4 DEF Owes
<1> QED
  BY <1>4, <1>5

\* Every step keeps RevInv: who changes the engine pays with what its function owed
LEMMA RevStep ==
    ASSUME PageInv, CallsInv, LinkSizes, Counters, RevInv, [Next]_vars
    PROVE  RevInv'
<1>1. PageTypes /\ LinkInv
  BY DEF PageInv
<1>2. events' \in Nat /\ events <= events' /\ engine.rev \in Nat /\ engine.rev <= engine.rev
  BY <1>1, CountersStep DEF Counters, PageTypes, Engines
<1>3. TaskTypes(task) /\ task \in [Scripts -> [at : Nat, doc : Shown]] /\ Writers \subseteq Scripts /\ Scripts \cap Singles = {}
  BY DEF CallsInv, OneCall, TaskTypes, Writers, Scripts, Singles
<1>4. ASSUME task' = task, flight' = flight, engine' = engine, wire = <<>> => wire' = <<>>
      PROVE  RevInv'
  <2>1. \A t \in Writers : Owes(t)' => Owes(t)
    BY <1>4 DEF Owes, Serving
  <2> QED
    BY <1>1, <1>2, <1>4, <2>1, NothingOwed
<1>5. ASSUME NEW t \in Scripts \ Writers, NEW d, task' = Starting(task, t, d),
             flight' = flight, engine' = engine, wire' = wire
      PROVE  RevInv'
  <2>1. \A u \in Writers : task'[u] = task[u]
    BY <1>3, <1>5 DEF Starting
  <2>2. \A u \in Writers : Owes(u)' => Owes(u)
    BY <1>5, <2>1 DEF Owes, Serving
  <2> QED
    BY <1>1, <1>2, <1>5, <2>2, NothingOwed
<1>6. ASSUME NEW t \in Writers, NEW d, ~Busy(t), task' = Starting(task, t, d), events' = events + 1,
             flight' = flight, engine' = engine, wire' = wire
      PROVE  RevInv'
  <2>1. \A u \in Writers \ {t} : task'[u] = task[u]
    BY <1>3, <1>6 DEF Starting
  <2>2. \A u \in Writers \ {t} : Owes(u)' => Owes(u)
    BY <1>6, <2>1 DEF Owes, Serving
  <2>3. ~Owes(t)
    <3>1. task[t].at = 0 /\ 0 \notin 1..Final(t)
      BY <1>3, <1>6, Bounds DEF Busy, Final
    <3> QED
      BY <3>1 DEF Owes
  <2> QED
    BY <1>1, <1>6, <2>2, <2>3, PressOwes
<1>7. /\ {"connect"} = Scripts \ Writers
      /\ "save" \in Writers /\ "apply" \in Writers /\ "reset" \in Writers
  BY DEF Scripts, Writers
<1>8. CASE Edit \/ UNCHANGED vars
  BY <1>4, <1>8 DEF Edit, vars, linkVars, pageVars, busVars
<1>9. CASE PageConnect
  BY <1>5, <1>7, <1>9 DEF PageConnect, Connect, busVars
<1>10. CASE Poll
  BY <1>4, <1>10 DEF Poll, Call, busVars
<1>11. CASE Reload
  BY <1>4, <1>11 DEF Reload, Call, busVars
<1>12. CASE Save
  BY <1>6, <1>7, <1>12 DEF Save, Press, Call, busVars
<1>13. CASE Reset
  BY <1>6, <1>7, <1>13 DEF Reset, Press, Call, busVars
<1>14. CASE Apply
  BY <1>6, <1>7, <1>14 DEF Apply, Press, Call, busVars
<1>15. CASE PageBegin
  <2>1. flight = NoRequest /\ task' = task /\ engine' = engine
    BY <1>15 DEF PageBegin, Begin
  <2>2. \A t \in Writers : Owes(t)' => Owes(t)
    BY <2>1 DEF Owes, Serving
  <2> QED
    BY <1>1, <1>2, <2>1, <2>2, NothingOwed
<1>16. CASE PageFetch
  BY <1>4, <1>16 DEF PageFetch, Fetch
<1>17. ASSUME NEW r \in PageRequests, r.task \in Scripts => Listed(task, r), NEW ok, NEW v, Continue(r, ok, v),
              flight' = NoRequest, flight \in {r, NoRequest}, engine' = engine
       PROVE  RevInv'
  <2>1. \A t \in Writers : Owes(t)' => Owes(t)
    BY <1>3, <1>17, ContinueOwes
  <2> QED
    BY <1>1, <1>2, <1>17, <2>1, NothingOwed
<1>18. CASE PageRefuse
  <2> DEFINE r == Head(chain)
  <2>1. /\ flight = NoRequest /\ chain # <<>> /\ flight' = NoRequest /\ engine' = engine
        /\ Continue(r, FALSE, NoAnswer)
    BY <1>18 DEF PageRefuse, Refuse
  <2>2. OneCall(Tail(chain), r, task) /\ r \in PageRequests
    BY <1>1, <2>1, TakeCall DEF CallsInv, LinkInv, LinkTypes
  <2> HIDE DEF r
  <2>3. r.task \in Scripts => Listed(task, r)
    BY <2>2, NotARequest DEF OneCall
  <2> QED
    BY <1>17, <2>1, <2>2, <2>3
<1>19. CASE PageAnswer
  <2> DEFINE v == Synced(rx)[1].answer
  <2>1. flight # NoRequest /\ flight' = NoRequest /\ engine' = engine /\ Continue(flight, v.ok, v)
    BY <1>19 DEF PageAnswer, Answer, Answered, Reading
  <2> HIDE DEF v
  <2>2. flight \in PageRequests /\ (flight.task \in Scripts => Listed(task, flight))
    BY <1>1, <2>1 DEF CallsInv, OneCall, LinkInv, LinkTypes
  <2> QED
    BY <1>17, <2>1, <2>2
<1>20. CASE PageFail
  <2>1. /\ flight # NoRequest /\ flight' = NoRequest /\ engine' = engine
        /\ Continue(flight, FALSE, NoAnswer)
    BY <1>20 DEF PageFail, Fail
  <2>2. flight \in PageRequests /\ (flight.task \in Scripts => Listed(task, flight))
    BY <1>1, <2>1 DEF CallsInv, OneCall, LinkInv, LinkTypes
  <2> QED
    BY <1>17, <2>1, <2>2
<1>21. CASE PageClose \/ BusLost
  BY <1>4, <1>21 DEF PageClose, BusLost, Close, BusReset, Lose, Break
<1>22. CASE DeviceLost
  <2>1. /\ task' = task /\ flight' = flight /\ wire' = <<>> /\ engine'.rev = 0
    BY <1>22 DEF DeviceLost, Restart, Lose, Break, Booted
  <2>2. \A t \in Writers : Owes(t)' => Owes(t)
    BY <2>1 DEF Owes, Serving
  <2>3. engine'.rev \in Nat /\ engine'.rev <= engine.rev
    BY <1>2, <2>1
  <2> QED
    BY <1>1, <1>2, <2>2, <2>3, NothingOwed
<1>23. CASE Deliver
  <2>1. Arriving /\ wire' = Tail(wire) /\ wire # <<>> /\ flight' = flight /\ task' = task /\ events' = events
    BY <1>23 DEF Deliver, Collect, Execute, Completes, Arriving, pageVars
  <2>2. \A t \in Writers : Owes(t)' => Owes(t)
    BY <2>1 DEF Owes, Serving
  <2>3. CASE Collect /\ UNCHANGED engine
    BY <1>1, <1>2, <2>2, <2>3, NothingOwed
  <2>4. CASE Execute(AnswerUnits(Received), AnswerTo(Received)) /\ engine' = Handle(Received, engine).engine
    <3>1. Complete(Collected)
      BY <2>4 DEF Execute, Completes
    <3>2. Received \in PageRequests
      BY <1>1, <2>1, <3>1, CollectedUnits
    <3>3. /\ engine'.rev \in Nat /\ engine'.rev <= engine.rev + 1
          /\ Received.cmd \notin {"COMMIT", "RESET"} => engine'.rev = engine.rev
      BY <1>1, <2>4, <3>2, Changes
    <3>4. CASE Received.cmd \notin {"COMMIT", "RESET"}
      BY <1>1, <1>2, <2>2, <3>3, <3>4, NothingOwed
    <3>5. CASE Received.cmd \in {"COMMIT", "RESET"}
      <4>1. Received = flight /\ wire' = <<>>
        BY <1>1, <2>1, <3>1, <3>5, CollectedShape
      <4>2. PICK t \in Writers : t = flight.task /\ flight.at = Final(t) /\ flight \in PageRequests
        BY <3>2, <3>5, <4>1, ChangingCall
      <4>3. task[t].at = flight.at /\ Serving(t)
        <5>1. flight # NoRequest
          BY <4>2, NotARequest
        <5> QED
          BY <1>3, <4>2, <5>1, ListedRuns DEF CallsInv, OneCall, Serving
      <4>4. Owes(t) /\ ~Owes(t)'
        <5>1. Final(t) \in 1..Final(t)
          BY Bounds DEF Final
        <5>2. Owes(t)
          BY <2>1, <4>2, <4>3, <5>1 DEF Owes
        <5>3. ~Owes(t)'
          BY <2>1, <4>1, <4>2, <4>3 DEF Owes, Serving
        <5> QED
          BY <5>2, <5>3
      <4>5. \A u \in Writers : /\ Owing(u)' \in {0, 1} /\ Owing(u) \in {0, 1}
                               /\ Owing(u)' <= Owing(u)
                               /\ u = t => Owing(u) = 1 /\ Owing(u)' = 0
        <5>1. \A u \in Writers : (Owes(u)' => Owes(u)) /\ (u = t => Owes(u) /\ ~Owes(u)')
          BY <2>2, <4>4
        <5> TAKE u \in Writers
        <5>2. Owing(u)' = IF Owes(u)' THEN 1 ELSE 0
          BY DEF Owing
        <5>3. Owing(u) = IF Owes(u) THEN 1 ELSE 0
          BY DEF Owing
        <5>4. CASE Owes(u)'
          BY <5>1, <5>2, <5>3, <5>4
        <5>5. CASE ~Owes(u)'
          BY <5>1, <5>2, <5>3, <5>5
        <5> QED
          BY <5>4, <5>5
      <4> DEFINE s == Owing("save")
      <4> DEFINE a == Owing("apply")
      <4> DEFINE r == Owing("reset")
      <4>6. /\ s \in {0, 1} /\ s' \in {0, 1} /\ a \in {0, 1} /\ a' \in {0, 1} /\ r \in {0, 1} /\ r' \in {0, 1}
            /\ s' <= s /\ a' <= a /\ r' <= r
            /\ (s = 1 /\ s' = 0) \/ (a = 1 /\ a' = 0) \/ (r = 1 /\ r' = 0)
        <5>1. t = "save" \/ t = "apply" \/ t = "reset"
          BY <4>2 DEF Writers
        <5> QED
          BY <1>7, <4>5, <5>1
      <4>7. engine.rev + s + a + r <= events
        BY DEF RevInv
      <4> HIDE DEF s, a, r
      <4>8. engine'.rev + s' + a' + r' <= events'
        <5>1. events \in Nat /\ events' = events
          BY <2>1 DEF Counters
        <5>2. s' + a' + r' + 1 <= s + a + r /\ s' + a' + r' \in Nat /\ s + a + r \in Nat
          <6>1. PICK s2 \in {0, 1}, a2 \in {0, 1}, r2 \in {0, 1} : s' = s2 /\ a' = a2 /\ r' = r2
            BY <4>6
          <6>2. /\ s2 <= s /\ a2 <= a /\ r2 <= r
                /\ (s = 1 /\ s2 = 0) \/ (a = 1 /\ a2 = 0) \/ (r = 1 /\ r2 = 0)
            BY <4>6, <6>1
          <6>3. s2 + a2 + r2 + 1 <= s + a + r /\ s2 + a2 + r2 \in Nat /\ s + a + r \in Nat
            BY <4>6, <6>2
          <6> QED
            BY <6>1, <6>3, Zenon
        <5>3. /\ engine.rev + s + a + r = engine.rev + (s + a + r)
              /\ engine'.rev + s' + a' + r' = engine'.rev + (s' + a' + r')
          BY <1>2, <3>3, <4>6
        <5> DEFINE x == s + a + r
        <5> DEFINE y == s' + a' + r'
        <5> HIDE DEF x, y
        <5>4. engine'.rev + y <= events
          <6>1. y + 1 <= x /\ x \in Nat /\ y \in Nat /\ engine.rev + x <= events
            BY <4>7, <5>2, <5>3 DEF x, y
          <6> QED
            BY <1>2, <3>3, <5>1, <6>1
        <5> QED
          BY <5>1, <5>3, <5>4 DEF y
      <4> QED
        BY <4>8 DEF RevInv, s, a, r
    <3> QED
      BY <3>4, <3>5
  <2> QED
    BY <1>23, <2>3, <2>4 DEF Deliver
<1> QED
  BY <1>8, <1>9, <1>10, <1>11, <1>12, <1>13, <1>14, <1>15, <1>16, <1>18, <1>19, <1>20, <1>21, <1>22, <1>23
     DEF Next, PageStep

----------------------------------------------------------------------------
(* Which of two functions is served first *)

Ahead(q, x, y) == \E i, j \in 1..Len(q) : i < j /\ q[i].task = x /\ q[j].task = y

\* The calls of two chains put together
LEMMA ConcatCalls ==
    ASSUME NEW q \in Seq(PageRequests), NEW c \in Seq(PageRequests)
    PROVE  /\ Len(q) \in Nat /\ Len(c) \in Nat
           /\ \A i \in 1..Len(q) : i \in 1..Len(q \o c) /\ (q \o c)[i] = q[i]
           /\ \A i \in 1..Len(c) : Len(q) + i \in 1..Len(q \o c) /\ (q \o c)[Len(q) + i] = c[i]
           /\ \A i \in 1..Len(q \o c) : i \in 1..Len(q) \/ \E k \in 1..Len(c) : i = Len(q) + k
<1> DEFINE Q == q \o c
<1>1. /\ Len(Q) = Len(q) + Len(c) /\ Len(q) \in Nat /\ Len(c) \in Nat
      /\ \A i \in 1..Len(q) + Len(c) : Q[i] = IF i <= Len(q) THEN q[i] ELSE c[i - Len(q)]
  BY ConcatProperties, LenProperties
<1> HIDE DEF Q
<1>2. \A i \in 1..Len(q) : i \in 1..Len(Q) /\ Q[i] = q[i]
  BY <1>1
<1>3. \A i \in 1..Len(c) : Len(q) + i \in 1..Len(Q) /\ Q[Len(q) + i] = c[i]
  <2> TAKE i \in 1..Len(c)
  <2>1. Len(q) + i \in 1..Len(q) + Len(c) /\ ~(Len(q) + i <= Len(q)) /\ (Len(q) + i) - Len(q) = i
    BY <1>1
  <2> QED
    BY <1>1, <2>1
<1>4. \A i \in 1..Len(Q) : i \in 1..Len(q) \/ \E k \in 1..Len(c) : i = Len(q) + k
  <2> TAKE i \in 1..Len(Q)
  <2>1. i \in 1..Len(q) \/ (i - Len(q) \in 1..Len(c) /\ i = Len(q) + (i - Len(q)))
    BY <1>1
  <2> QED
    BY <2>1
<1> QED
  BY <1>1, <1>2, <1>3, <1>4 DEF Q

\* Ahead and Queued over the chains that the steps build
LEMMA AheadConcat ==
    ASSUME NEW q \in Seq(PageRequests), NEW c \in Seq(PageRequests), NEW x, NEW y
    PROVE  Ahead(q \o c, x, y) <=> \/ Ahead(q, x, y)
                                   \/ Queued(q, x) /\ Queued(c, y)
                                   \/ Ahead(c, x, y)
<1> DEFINE Q == q \o c
<1>1. Len(q) \in Nat /\ Len(c) \in Nat
  BY LenProperties
<1>2. \A i \in 1..Len(q) : i \in 1..Len(Q) /\ Q[i] = q[i]
  BY ConcatCalls
<1>3. \A i \in 1..Len(c) : Len(q) + i \in 1..Len(Q) /\ Q[Len(q) + i] = c[i]
  BY ConcatCalls
<1>4. \A i \in 1..Len(Q) : i \in 1..Len(q) \/ \E k \in 1..Len(c) : i = Len(q) + k
  BY ConcatCalls
<1> HIDE DEF Q
<1>5. ASSUME Ahead(q, x, y) PROVE Ahead(Q, x, y)
  <2>1. PICK i \in 1..Len(q), j \in 1..Len(q) : i < j /\ q[i].task = x /\ q[j].task = y
    BY <1>5 DEF Ahead
  <2> QED
    BY <1>2, <2>1 DEF Ahead
<1>6. ASSUME Queued(q, x), Queued(c, y) PROVE Ahead(Q, x, y)
  <2>1. PICK i \in 1..Len(q), k \in 1..Len(c) : q[i].task = x /\ c[k].task = y
    BY <1>6 DEF Queued
  <2>2. i < Len(q) + k
    BY <1>1
  <2> QED
    BY <1>2, <1>3, <2>1, <2>2 DEF Ahead
<1>7. ASSUME Ahead(c, x, y) PROVE Ahead(Q, x, y)
  <2>1. PICK i \in 1..Len(c), j \in 1..Len(c) : i < j /\ c[i].task = x /\ c[j].task = y
    BY <1>7 DEF Ahead
  <2>2. Len(q) + i < Len(q) + j
    BY <1>1, <2>1
  <2> QED
    BY <1>3, <2>1, <2>2 DEF Ahead
<1>8. ASSUME Ahead(Q, x, y) PROVE Ahead(q, x, y) \/ (Queued(q, x) /\ Queued(c, y)) \/ Ahead(c, x, y)
  <2>1. PICK i \in 1..Len(Q), j \in 1..Len(Q) : i < j /\ Q[i].task = x /\ Q[j].task = y
    BY <1>8 DEF Ahead
  <2>2. CASE i \in 1..Len(q) /\ j \in 1..Len(q)
    BY <1>2, <2>1, <2>2 DEF Ahead
  <2>3. ASSUME i \in 1..Len(q), NEW k \in 1..Len(c), j = Len(q) + k PROVE Queued(q, x) /\ Queued(c, y)
    BY <1>2, <1>3, <2>1, <2>3 DEF Queued
  <2>4. ASSUME NEW h \in 1..Len(c), i = Len(q) + h, NEW k \in 1..Len(c), j = Len(q) + k PROVE Ahead(c, x, y)
    <3>1. h < k
      BY <1>1, <2>1, <2>4
    <3> QED
      BY <1>3, <2>1, <2>4, <3>1 DEF Ahead
  <2>5. ASSUME NEW h \in 1..Len(c), i = Len(q) + h, j \in 1..Len(q) PROVE FALSE
    BY <1>1, <2>1, <2>5
  <2> QED
    BY <1>4, <2>2, <2>3, <2>4, <2>5
<1> QED
  BY <1>5, <1>6, <1>7, <1>8 DEF Q

LEMMA QueuedConcat ==
    ASSUME NEW q \in Seq(PageRequests), NEW c \in Seq(PageRequests), NEW y
    PROVE  Queued(q \o c, y) <=> Queued(q, y) \/ Queued(c, y)
<1> DEFINE Q == q \o c
<1>1. \A i \in 1..Len(q) : i \in 1..Len(Q) /\ Q[i] = q[i]
  BY ConcatCalls
<1>2. \A i \in 1..Len(c) : Len(q) + i \in 1..Len(Q) /\ Q[Len(q) + i] = c[i]
  BY ConcatCalls
<1>3. \A i \in 1..Len(Q) : i \in 1..Len(q) \/ \E k \in 1..Len(c) : i = Len(q) + k
  BY ConcatCalls
<1> HIDE DEF Q
<1>4. ASSUME Queued(q, y) PROVE Queued(Q, y)
  BY <1>1, <1>4 DEF Queued
<1>5. ASSUME Queued(c, y) PROVE Queued(Q, y)
  <2>1. PICK k \in 1..Len(c) : c[k].task = y
    BY <1>5 DEF Queued
  <2>2. Q[Len(q) + k].task = y /\ Len(q) + k \in 1..Len(Q)
    BY <1>2, <2>1
  <2> QED
    BY <2>2 DEF Queued
<1>6. ASSUME Queued(Q, y) PROVE Queued(q, y) \/ Queued(c, y)
  <2>1. PICK i \in 1..Len(Q) : Q[i].task = y
    BY <1>6 DEF Queued
  <2>2. CASE i \in 1..Len(q)
    BY <1>1, <2>1, <2>2 DEF Queued
  <2>3. ASSUME NEW k \in 1..Len(c), i = Len(q) + k PROVE Queued(c, y)
    BY <1>2, <2>1, <2>3 DEF Queued
  <2> QED
    BY <1>3, <2>2, <2>3
<1> QED
  BY <1>4, <1>5, <1>6 DEF Q

LEMMA OneAhead ==
    ASSUME NEW r \in PageRequests, NEW x, NEW y
    PROVE  (Queued(<<r>>, y) <=> y = r.task) /\ ~Ahead(<<r>>, x, y)
<1> DEFINE s == <<r>>
<1>1. Len(s) = 1 /\ s[1] = r
  OBVIOUS
<1> HIDE DEF s
<1>2. 1..Len(s) = {1}
  BY <1>1
<1>3. (Queued(s, y) <=> y = r.task) /\ ~Ahead(s, x, y)
  BY <1>1, <1>2 DEF Queued, Ahead
<1> QED
  BY <1>3 DEF s

LEMMA NoneAhead ==
    ASSUME NEW x, NEW y
    PROVE  ~Queued(<<>>, y) /\ ~Ahead(<<>>, x, y)
<1>1. 1..Len(<<>>) = {}
  BY EmptySeq
<1> QED
  BY <1>1 DEF Queued, Ahead

LEMMA AheadTail ==
    ASSUME NEW q \in Seq(PageRequests), q # <<>>, NEW x, NEW y
    PROVE  /\ Ahead(q, x, y) <=> Ahead(Tail(q), x, y) \/ (Head(q).task = x /\ Queued(Tail(q), y))
           /\ Queued(q, y) <=> Head(q).task = y \/ Queued(Tail(q), y)
<1> DEFINE T == Tail(q)
<1> DEFINE h == Head(q)
<1>1. T \in Seq(PageRequests) /\ h \in PageRequests /\ <<h>> \in Seq(PageRequests)
  BY HeadTailProperties, ShortSeqs
<1>2. q = <<h>> \o T
  <2>1. /\ Len(T) = Len(q) - 1 /\ Len(q) \in Nat \ {0} /\ h = q[1]
        /\ \A i \in 1..Len(T) : T[i] = q[i + 1]
    BY HeadTailProperties, LenProperties, EmptyByLength
  <2> DEFINE s == <<h>>
  <2>2. Len(s) = 1 /\ s[1] = h /\ s \in Seq(PageRequests)
    BY <1>1
  <2> HIDE DEF s, T, h
  <2>3. /\ s \o T \in Seq(PageRequests) /\ Len(s \o T) = Len(s) + Len(T)
        /\ \A i \in 1..Len(s) + Len(T) : (s \o T)[i] = IF i <= Len(s) THEN s[i] ELSE T[i - Len(s)]
    BY <1>1, <2>2, ConcatProperties
  <2>4. Len(s \o T) = Len(q)
    BY <2>1, <2>2, <2>3
  <2>5. ASSUME NEW i \in 1..Len(q) PROVE q[i] = (s \o T)[i]
    <3>1. CASE i = 1
      <4>1. (s \o T)[i] = s[i]
        BY <2>1, <2>2, <2>3, <3>1
      <4> QED
        BY <2>1, <2>2, <3>1, <4>1
    <3>2. CASE i # 1
      <4>1. i - 1 \in 1..Len(T) /\ (i - 1) + 1 = i /\ i \in 1..Len(s) + Len(T) /\ ~(i <= Len(s))
        BY <2>1, <2>2, <3>2
      <4>2. (s \o T)[i] = T[i - 1] /\ T[i - 1] = q[(i - 1) + 1]
        BY <2>1, <2>2, <2>3, <4>1
      <4> QED
        BY <4>1, <4>2
    <3> QED
      BY <3>1, <3>2
  <2>6. q = s \o T
    BY <2>3, <2>4, <2>5, SeqEqual
  <2> QED
    BY <2>6 DEF s
<1> HIDE DEF T, h
<1>3. Ahead(<<h>> \o T, x, y) <=> Ahead(T, x, y) \/ (h.task = x /\ Queued(T, y))
  BY <1>1, AheadConcat, OneAhead
<1>4. Queued(<<h>> \o T, y) <=> h.task = y \/ Queued(T, y)
  BY <1>1, QueuedConcat, OneAhead
<1> QED
  BY <1>2, <1>3, <1>4 DEF T, h

----------------------------------------------------------------------------
(* The unsaved edit *)

\* The functions that replace the screen, but for a save that has not been told that
\* its COMMIT was done
Replacing == {"connect", "load", "reset", "apply"}

\* While there is one, none of them runs
Unsaved ==
    mine => /\ page.dirty
            /\ \A t \in Replacing : ~Busy(t)
            /\ task["save"].at <= Parts + 2

Kept == mine /\ mine' => page'.shown = page.shown \/ edits' # edits

\* The functions that run, by what waits and is served
LEMMA BusyFunctions ==
    /\ Replacing \cap Scripts = {"connect", "reset", "apply"} /\ Replacing \subseteq Tasks
    /\ \A t \in Scripts : Busy(t) <=> task[t].at # 0
    /\ Busy("load") <=> Serving("load") \/ Queued(chain, "load")
    /\ Tasks \ {"poll"} = Replacing \cup {"save"}
BY DEF Replacing, Busy, Waits, Serving, Queued, Tasks, Scripts, Singles

\* A function that goes on never shows its document over an unsaved edit
LEMMA UnsavedContinues ==
    ASSUME PageTypes, TaskTypes(task), Unsaved, NEW r \in PageRequests,
           r.task \in Scripts => Listed(task, r),
           NEW ok, NEW v, Continue(r, ok, v),
           NEW q \in Seq(PageRequests), mine => r.task # "load" /\ ~Queued(q, "load"),
           flight' = NoRequest, chain' = q \o NextCalls(r, ok, v)
    PROVE  Unsaved' /\ Kept
<1> SUFFICES ASSUME mine'
             PROVE  /\ page'.dirty /\ task'["save"].at <= Parts + 2 /\ page'.shown = page.shown
                    /\ \A t \in {"connect", "reset", "apply"} : task'[t].at = 0
                    /\ ~Queued(chain', "load")
  BY BusyFunctions DEF Unsaved, Kept, Busy, Waits, Queued, Replacing, Singles
<1>1. mine /\ ~(ok /\ r.cmd = "COMMIT")
  BY DEF Continue
<1>2. /\ page.dirty /\ (\A t \in {"connect", "reset", "apply"} : task[t].at = 0)
      /\ task["save"].at <= Parts + 2
  BY <1>1, BusyFunctions DEF Unsaved
<1>3. r.task \in {"poll", "save"} /\ Parts \in Nat
  <2>1. r.task \in Scripts => task[r.task].at # 0
    BY ListedRuns
  <2>2. r.task \in Tasks /\ r.task # "load"
    BY <1>1, CallsOf
  <2> QED
    BY <1>2, <2>1, <2>2, Bounds, AllTasks DEF Singles
<1>4. r.task = "save" => task["save"] = [at |-> r.at, doc |-> r.doc] /\ r.at \in Nat /\ r.at <= Parts + 2
  <2> SUFFICES ASSUME r.task = "save" PROVE task["save"] = [at |-> r.at, doc |-> r.doc] /\ r.at \in Nat /\ r.at <= Parts + 2
    OBVIOUS
  <2>1. task["save"] = [at |-> r.at, doc |-> r.doc]
    BY DEF Listed, Scripts
  <2>2. r.at \in Nat
    BY ScriptSteps
  <2> QED
    BY <1>2, <2>1, <2>2
<1>5. r.cmd # "GET"
  <2>1. CASE r.task = "poll"
    BY <2>1, ScriptSteps
  <2>2. CASE r.task = "save"
    BY <1>4, <2>2, ScriptSteps DEF Uploads
  <2> QED
    BY <1>3, <2>1, <2>2
<1>6. page'.shown = page.shown /\ page'.dirty
  <2> DEFINE dirty == page.dirty /\ ~(ok /\ (r.cmd = "GET" \/ (r.cmd = "COMMIT" /\ r.task = "save")))
  <2>1. dirty
    BY <1>1, <1>2, <1>5
  <2>2. page'.shown = page.shown /\ page'.dirty = dirty
    BY <1>5 DEF Continue, PageTypes
  <2> QED
    BY <2>1, <2>2
<1>7. task' = IF r.task = "save"
              THEN [task EXCEPT !["save"] = IF Ends(r, ok) THEN Idle ELSE [at |-> @.at + 1, doc |-> @.doc]]
              ELSE task
  BY <1>3 DEF Continue, Singles
<1>8. \A t \in {"connect", "reset", "apply"} : task'[t].at = 0
  BY <1>2, <1>7 DEF TaskTypes
<1>9. task'["save"].at <= Parts + 2
  <2>1. CASE r.task # "save"
    BY <1>2, <1>7, <2>1
  <2>2. CASE r.task = "save" /\ Ends(r, ok)
    <3>1. task'["save"].at = 0
      BY <1>7, <2>2 DEF TaskTypes, Scripts, Idle
    <3> QED
      BY <1>3, <3>1
  <2>3. CASE r.task = "save" /\ ~Ends(r, ok)
    <3>1. task'["save"].at = r.at + 1
      BY <1>4, <1>7, <2>3 DEF TaskTypes, Scripts
    <3>2. r.at # Parts + 2
      <4>1. r.at = Parts + 2 => r.cmd = "COMMIT"
        BY <1>3, <2>3, ScriptSteps, Bounds DEF Uploads
      <4> QED
        BY <1>1, <2>3, <4>1 DEF Ends, Fatal
    <3> QED
      BY <1>3, <1>4, <2>3, <3>1, <3>2
  <2> QED
    BY <2>1, <2>2, <2>3
<1>10. ~Queued(chain', "load")
  <2>1. NextCalls(r, ok, v) \in Seq(PageRequests)
    BY NextCallsType
  <2>2. ~Queued(NextCalls(r, ok, v), "load")
    <3> DEFINE own == IF Ends(r, ok) THEN <<>> ELSE <<Request(r.task, r.at + 1, r.doc)>>
    <3>1. NextCalls(r, ok, v) = own \o <<>>
      <4>1. ~Reloads(r, ok, v)
        BY <1>2 DEF Reloads
      <4> QED
        BY <4>1 DEF NextCalls
    <3>2. CASE Ends(r, ok)
      <4>1. NextCalls(r, ok, v) = <<>>
        BY <3>1, <3>2, EmptySeq, ConcatEmptySeq
      <4> QED
        BY <4>1, EmptySeq DEF Queued
    <3>3. CASE ~Ends(r, ok)
      <4> DEFINE n == Request(r.task, r.at + 1, r.doc)
      <4>1. r.at + 1 \in DOMAIN Script(r.task)
        <5>1. r.at # Len(Script(r.task))
          BY <3>3 DEF Ends, IsLast
        <5> QED
          BY <5>1, CallsOf, ScriptCalls
      <4>2. n \in PageRequests /\ n.task # "load"
        BY <1>3, <4>1, CallsOf, PageCalls, RequestFields
      <4> HIDE DEF n
      <4>3. <<n>> \in Seq(PageRequests)
        BY <4>2, ShortSeqs
      <4>4. own = <<n>>
        BY <3>3 DEF n
      <4>5. NextCalls(r, ok, v) = <<n>>
        BY <3>1, <4>3, <4>4, ConcatEmptySeq
      <4> QED
        BY <4>2, <4>5, OneAhead
    <3> QED
      BY <3>2, <3>3
  <2> QED
    BY <1>1, <2>1, <2>2, QueuedConcat
<1> QED
  BY <1>6, <1>8, <1>9, <1>10

\* Every step keeps Unsaved and is one that EditsKept allows
LEMMA UnsavedStep ==
    ASSUME PageInv, CallsInv, Unsaved, [Next]_vars
    PROVE  Unsaved' /\ Kept
<1>1. /\ PageTypes /\ LinkTypes /\ TaskTypes(task) /\ Parts \in Nat
      /\ chain \in Seq(PageRequests) /\ flight \in PageRequests \cup {NoRequest}
  BY Bounds DEF PageInv, LinkInv, LinkTypes, CallsInv, OneCall
<1>2. ASSUME UNCHANGED <<task, mine>>, page'.shown = page.shown, page'.dirty = page.dirty,
             Busy("load")' => Busy("load")
      PROVE  Unsaved' /\ Kept
  <2>1. \A t \in Replacing : Busy(t)' => Busy(t)
    BY <1>2 DEF Busy, Replacing, Singles
  <2> QED
    BY <1>2, <2>1 DEF Unsaved, Kept
<1>3. CASE PageFetch \/ Deliver \/ PageClose \/ BusLost \/ DeviceLost \/ UNCHANGED vars
  <2>1. UNCHANGED <<task, mine, chain, flight>> /\ page'.shown = page.shown /\ page'.dirty = page.dirty
    BY <1>1, <1>3 DEF PageFetch, Fetch, Deliver, Collect, Execute, PageClose, BusLost, DeviceLost, Close, BusReset,
               Restart, Lose, Break, vars, linkVars, pageVars, PageTypes
  <2> QED
    BY <1>2, <2>1 DEF Busy, Waits
<1>4. CASE PageConnect \/ Reset \/ Reload \/ Apply
  <2>1. mine' = FALSE
    BY <1>4 DEF PageConnect, Reset, Reload, Apply
  <2> QED
    BY <2>1 DEF Unsaved, Kept
<1>5. CASE Edit
  <2>1. /\ edits' = edits + 1 /\ edits \in Nat /\ page'.dirty /\ UNCHANGED <<task, chain, flight>>
        /\ mine' = (mine \/ \A t \in Tasks \ {"poll"} : ~Busy(t))
    <3>1. PICK d : page' = [page EXCEPT !.shown = d, !.dirty = TRUE]
      BY <1>5 DEF Edit
    <3> QED
      BY <1>1, <1>5, <3>1 DEF Edit, PageTypes, linkVars, pageVars
  <2>2. \A t \in Tasks : Busy(t)' <=> Busy(t)
    BY <2>1 DEF Busy, Waits
  <2>3. mine' => /\ \A t \in Replacing : ~Busy(t)
                 /\ task["save"].at <= Parts + 2
    <3>1. CASE mine
      BY <3>1 DEF Unsaved
    <3>2. CASE \A t \in Tasks \ {"poll"} : ~Busy(t)
      <4>1. task["save"].at = 0
        BY <3>2, BusyFunctions DEF Scripts
      <4> QED
        BY <1>1, <3>2, <4>1, BusyFunctions
    <3> QED
      BY <2>1, <3>1, <3>2
  <2>4. edits' # edits
    BY <2>1
  <2> QED
    BY <2>1, <2>2, <2>3, <2>4, BusyFunctions DEF Unsaved, Kept
<1>6. ASSUME NEW r \in PageRequests, r.task # "load", chain' = chain \o <<r>>, flight' = flight
      PROVE  Busy("load")' => Busy("load")
  <2>1. <<r>> \in Seq(PageRequests)
    BY <1>6, ShortSeqs
  <2>2. Queued(chain', "load") => Queued(chain, "load")
    BY <1>1, <1>6, <2>1, QueuedConcat, OneAhead
  <2> QED
    BY <1>6, <2>2 DEF Busy, Waits, Queued, Singles
<1>7. CASE Poll
  <2>1. Request("poll", 1, 0) \in PageRequests /\ Request("poll", 1, 0).task # "load"
    BY AllTasks, ScriptCalls, PageCalls, RequestFields, Bounds
  <2>2. chain' = chain \o <<Request("poll", 1, 0)>> /\ flight' = flight /\ UNCHANGED <<task, mine, page>>
    BY <1>7 DEF Poll, Call
  <2> QED
    BY <1>2, <1>6, <2>1, <2>2
<1>8. CASE Save
  <2>1. PICK d \in Shown : d = page.shown
    BY <1>1 DEF PageTypes
  <2>2. Request("save", 1, d) \in PageRequests /\ Request("save", 1, d).task # "load"
    BY AllTasks, ScriptCalls, PageCalls, RequestFields
  <2>3. /\ chain' = chain \o <<Request("save", 1, d)>> /\ flight' = flight
        /\ task' = [task EXCEPT !["save"] = [at |-> 1, doc |-> d]]
        /\ mine' = mine /\ page'.shown = page.shown /\ page'.dirty = page.dirty
    BY <1>1, <1>8, <2>1 DEF Save, Press, Call, Starting, PageTypes
  <2>4. Busy("load")' => Busy("load")
    BY <1>6, <2>2, <2>3
  <2>5. task'["save"].at = 1 /\ \A t \in {"connect", "reset", "apply"} : task'[t] = task[t]
    BY <1>1, <2>3 DEF TaskTypes, Scripts
  <2>6. \A t \in Replacing : Busy(t)' => Busy(t)
    BY <2>4, <2>5 DEF Busy, Replacing, Singles
  <2>7. 1 <= Parts + 2
    BY <1>1
  <2> QED
    BY <2>3, <2>5, <2>6, <2>7 DEF Unsaved, Kept
<1>9. CASE PageBegin
  <2>1. /\ flight = NoRequest /\ chain # <<>> /\ flight' = Head(chain) /\ chain' = Tail(chain)
        /\ UNCHANGED <<task, mine, page>>
    BY <1>9 DEF PageBegin, Begin
  <2>2. Queued(chain, "load") <=> Head(chain).task = "load" \/ Queued(Tail(chain), "load")
    BY <1>1, <2>1, AheadTail
  <2>3. Busy("load")' => Busy("load")
    BY <2>1, <2>2 DEF Busy, Waits, Queued, Singles
  <2> QED
    BY <1>2, <2>1, <2>3
<1>10. CASE PageRefuse
  <2> DEFINE r == Head(chain)
  <2>1. /\ flight = NoRequest /\ chain # <<>> /\ Continue(r, FALSE, NoAnswer) /\ flight' = NoRequest
        /\ chain' = Tail(chain) \o NextCalls(r, FALSE, NoAnswer)
    BY <1>10 DEF PageRefuse, Refuse
  <2>2. OneCall(Tail(chain), r, task) /\ r \in PageRequests /\ Tail(chain) \in Seq(PageRequests)
    BY <1>1, <2>1, TakeCall DEF CallsInv
  <2>3. Queued(chain, "load") <=> r.task = "load" \/ Queued(Tail(chain), "load")
    BY <1>1, <2>1, AheadTail
  <2>4. mine => r.task # "load" /\ ~Queued(Tail(chain), "load")
    BY <2>3, BusyFunctions DEF Unsaved, Replacing
  <2> HIDE DEF r
  <2>5. r.task \in Scripts => Listed(task, r)
    BY <2>2, NotARequest DEF OneCall
  <2> QED
    BY <1>1, <2>1, <2>2, <2>4, <2>5, UnsavedContinues
<1>11. CASE PageAnswer \/ PageFail
  <2>1. PICK ok, v : /\ flight # NoRequest /\ Continue(flight, ok, v) /\ flight' = NoRequest
                     /\ chain' = chain \o NextCalls(flight, ok, v)
    <3>1. CASE PageAnswer
      BY <3>1 DEF PageAnswer, Answer, Answered, Reading
    <3>2. CASE PageFail
      BY <3>2 DEF PageFail, Fail
    <3> QED
      BY <1>11, <3>1, <3>2
  <2>2. flight \in PageRequests /\ (flight.task \in Scripts => Listed(task, flight))
    BY <1>1, <2>1 DEF CallsInv, OneCall
  <2>3. mine => flight.task # "load" /\ ~Queued(chain, "load")
    BY <2>1, BusyFunctions DEF Unsaved, Replacing, Serving
  <2> QED
    BY <1>1, <2>1, <2>2, <2>3, UnsavedContinues
<1> QED
  BY <1>3, <1>4, <1>5, <1>7, <1>8, <1>9, <1>10, <1>11 DEF Next, PageStep

----------------------------------------------------------------------------
(* What the parser makes of a buffer *)

\* The first parts of b are those of document d
WholeOf(b, d) == Len(b) >= Parts /\ \A i \in 1..Parts : b[i] = [doc |-> d, part |-> i]

\* What the parser takes is one whole document
LEMMA ParsedDoc ==
    ASSUME NEW b
    PROVE  /\ Garbage \notin Docs
           /\ Parsed(b) # Garbage => Parsed(b) \in Docs /\ WholeOf(b, Parsed(b))
           /\ \A d \in Docs : WholeOf(b, d) => Parsed(b) = d
<1> DEFINE whole == {d \in Docs : WholeOf(b, d)}
<1>1. Garbage \notin Docs /\ 1 \in 1..Parts
  BY Bounds DEF Garbage, Docs
<1>2. Parsed(b) = IF whole = {} THEN Garbage ELSE CHOOSE d \in whole : TRUE
  BY DEF Parsed, WholeOf
<1>3. ASSUME NEW c \in whole, NEW d \in whole PROVE c = d
  <2>1. b[1] = [doc |-> c, part |-> 1] /\ b[1] = [doc |-> d, part |-> 1]
    BY <1>1 DEF WholeOf
  <2>2. [doc |-> c, part |-> 1].doc = c /\ [doc |-> d, part |-> 1].doc = d
    OBVIOUS
  <2> QED
    BY <2>1, <2>2
<1>4. whole # {} => (CHOOSE d \in whole : TRUE) \in whole
  OBVIOUS
<1>5. \A d \in whole : d \in Docs /\ WholeOf(b, d)
  OBVIOUS
<1>6. \A d \in Docs : WholeOf(b, d) => d \in whole
  OBVIOUS
<1> HIDE DEF whole
<1>7. Parsed(b) # Garbage => Parsed(b) \in whole
  BY <1>2, <1>4
<1>8. \A d \in whole : Parsed(b) = d
  <2> TAKE d \in whole
  <2>1. Parsed(b) \in whole
    BY <1>2, <1>4
  <2> QED
    BY <1>3, <2>1
<1> QED
  BY <1>1, <1>5, <1>6, <1>7, <1>8

LEMMA ParsedEmpty == Parsed(<<>>) = Garbage
<1>1. ~(Len(<<>>) >= Parts)
  BY Bounds, EmptySeq
<1> QED
  BY <1>1, ParsedDoc DEF WholeOf

\* A chunk that is added matters only if it is the last part of a document
LEMMA ParsedAppend ==
    ASSUME NEW b \in Seq(Chunks), NEW c \in Chunks, Parsed(Append(b, c)) # Garbage
    PROVE  \/ Len(b) >= Parts /\ Parsed(b) = Parsed(Append(b, c))
           \/ /\ Len(b) = Parts - 1 /\ c = [doc |-> Parsed(Append(b, c)), part |-> Parts]
              /\ \A i \in 1..Len(b) : b[i] = [doc |-> Parsed(Append(b, c)), part |-> i]
<1> DEFINE B == Append(b, c)
<1> DEFINE d == Parsed(B)
<1>1. d \in Docs /\ WholeOf(B, d)
  BY ParsedDoc
<1>2. /\ Len(B) = Len(b) + 1 /\ Len(b) \in Nat /\ Parts \in Nat \ {0}
      /\ \A i \in 1..Len(b) : B[i] = b[i]
      /\ B[Len(b) + 1] = c
  BY AppendProperties, LenProperties, Bounds
<1> HIDE DEF B, d
<1>3. CASE Len(b) >= Parts
  <2>1. WholeOf(b, d)
    <3>1. \A i \in 1..Parts : i \in 1..Len(b)
      BY <1>2, <1>3
    <3> QED
      BY <1>1, <1>2, <1>3, <3>1 DEF WholeOf
  <2>2. Parsed(b) = d
    BY <1>1, <2>1, ParsedDoc
  <2> QED
    BY <1>3, <2>2 DEF B, d
<1>4. CASE ~(Len(b) >= Parts)
  <2>1. Len(b) = Parts - 1 /\ Len(b) + 1 = Parts /\ Parts \in 1..Parts
    BY <1>1, <1>2, <1>4 DEF WholeOf
  <2>2. c = [doc |-> d, part |-> Parts]
    BY <1>1, <1>2, <2>1 DEF WholeOf
  <2>3. \A i \in 1..Len(b) : b[i] = [doc |-> d, part |-> i]
    <3>1. \A i \in 1..Len(b) : i \in 1..Parts
      BY <1>2, <2>1
    <3> QED
      BY <1>1, <1>2, <3>1 DEF WholeOf
  <2> QED
    BY <2>1, <2>2, <2>3 DEF B, d
<1> QED
  BY <1>3, <1>4

----------------------------------------------------------------------------
(* The uploads *)

\* The answer on its way reports success
Good == IF rx # <<>> THEN rx[1].answer.ok ELSE fifo # <<>> /\ fifo[1].answer.ok

\* The call that function t has the device run next; 0 if there is none
Turn(t) ==
    IF Serving(t) /\ runs = 1 THEN IF Good THEN task[t].at + 1 ELSE 0
    ELSE task[t].at

On(t) == Turn(t) \in 1..Parts + 2

\* The device runs the next call of x before that of y
Before(x, y) ==
    \/ Serving(x) /\ runs = 0
    \/ Serving(y) /\ runs = 1
    \/ Ahead(chain, x, y)

Other(t) == IF t = "save" THEN "apply" ELSE "save"

\* No call of the other upload has been run since the last one of t
Recent(t) ==
    \/ Serving(t) /\ runs = 1
    \/ On(Other(t)) /\ Before(Other(t), t)

\* Uploads do not overlap, or have been noticed to
Alone == torn \/ \A t \in Uploads : ~Busy(t) \/ ~Busy(Other(t))

\* The last chunk in the buffer is that of the upload that ran last
LastOwn ==
    \A t \in Uploads : Turn(t) \in 3..Parts + 2 /\ Recent(t) =>
        engine.buf # <<>> /\ engine.buf[Len(engine.buf)].doc = task[t].doc

\* An upload that is alone finds in the buffer what it has put there
Prefix ==
    torn \/ \A t \in Uploads : Turn(t) \in 2..Parts + 2 =>
                /\ Len(engine.buf) = Turn(t) - 2
                /\ \A i \in 1..Len(engine.buf) : engine.buf[i] = [doc |-> task[t].doc, part |-> i]

\* If it finds the whole document of the other one instead, that one commits first
NotForeign ==
    \A t \in Uploads :
        Turn(t) \in 2..Parts + 2 /\ Parsed(engine.buf) # Garbage /\ Parsed(engine.buf) # task[t].doc =>
            /\ Parsed(engine.buf) = task[Other(t)].doc
            /\ Turn(Other(t)) = Parts + 2
            /\ Turn(t) <= Parts + 1 \/ Before(Other(t), t)

\* The last chunk of a text that is too long has been refused
NotTooLong == \A t \in Uploads : task[t].doc = Long => Turn(t) # Parts + 2

Apart == LastOwn /\ Prefix /\ NotForeign /\ NotTooLong

UploadInv == open /\ fresh => Apart

\* There are two uploads
LEMMA Others ==
    ASSUME NEW t \in Uploads
    PROVE  /\ Other(t) \in Uploads /\ Other(t) # t /\ Other(Other(t)) = t
           /\ t \in Tasks /\ t # "load" /\ t \in Scripts /\ t \notin Singles
           /\ \A u \in Uploads : u = t \/ u = Other(t)
BY DEF Uploads, Other, Tasks, Scripts, Singles

\* A step that leaves the buffer and the order of the uploads as they are
LEMMA Steady ==
    ASSUME Apart, engine'.buf = engine.buf, torn => torn',
           \A t \in Uploads : On(t) \/ Turn(t)' \in 2..Parts + 2 =>
               Turn(t)' = Turn(t) /\ task'[t].doc = task[t].doc,
           \A t \in Uploads : Turn(t)' \in 2..Parts + 2 /\ Recent(t)' => Recent(t),
           \A t \in Uploads : On(t) /\ On(Other(t)) /\ Before(Other(t), t) => Before(Other(t), t)'
    PROVE  Apart'
<1>1. 3..Parts + 2 \subseteq 2..Parts + 2 /\ 2..Parts + 2 \subseteq 1..Parts + 2 /\ Parts + 2 \in 1..Parts + 2
  BY Bounds
<1>2. LastOwn'
  <2> SUFFICES ASSUME NEW t \in Uploads, Turn(t)' \in 3..Parts + 2, Recent(t)'
               PROVE  engine'.buf # <<>> /\ engine'.buf[Len(engine'.buf)].doc = task'[t].doc
    BY DEF LastOwn
  <2>1. Turn(t)' = Turn(t) /\ task'[t].doc = task[t].doc /\ Recent(t)
    BY <1>1
  <2> QED
    BY <2>1 DEF Apart, LastOwn
<1>3. Prefix'
  <2> SUFFICES ASSUME ~torn', NEW t \in Uploads, Turn(t)' \in 2..Parts + 2
               PROVE  /\ Len(engine'.buf) = Turn(t)' - 2
                      /\ \A i \in 1..Len(engine'.buf) : engine'.buf[i] = [doc |-> task'[t].doc, part |-> i]
    BY DEF Prefix
  <2>1. Turn(t)' = Turn(t) /\ task'[t].doc = task[t].doc /\ ~torn
    BY <1>1
  <2>2. /\ Len(engine.buf) = Turn(t) - 2
        /\ \A i \in 1..Len(engine.buf) : engine.buf[i] = [doc |-> task[t].doc, part |-> i]
    BY <2>1 DEF Apart, Prefix
  <2> QED
    BY <2>1, <2>2
<1>4. NotForeign'
  <2> SUFFICES ASSUME NEW t \in Uploads, Turn(t)' \in 2..Parts + 2,
                      Parsed(engine'.buf) # Garbage, Parsed(engine'.buf) # task'[t].doc
               PROVE  /\ Parsed(engine'.buf) = task'[Other(t)].doc
                      /\ Turn(Other(t))' = Parts + 2
                      /\ Turn(t)' <= Parts + 1 \/ Before(Other(t), t)'
    BY DEF NotForeign
  <2>1. Turn(t)' = Turn(t) /\ task'[t].doc = task[t].doc
    BY <1>1
  <2>2. /\ Parsed(engine.buf) = task[Other(t)].doc
        /\ Turn(Other(t)) = Parts + 2
        /\ Turn(t) <= Parts + 1 \/ Before(Other(t), t)
    BY <2>1 DEF Apart, NotForeign
  <2>3. On(t) /\ On(Other(t)) /\ Other(t) \in Uploads
    BY <1>1, <2>1, <2>2, Others DEF On
  <2>4. Turn(Other(t))' = Turn(Other(t)) /\ task'[Other(t)].doc = task[Other(t)].doc
    BY <2>3
  <2> QED
    BY <2>1, <2>2, <2>3, <2>4
<1>5. NotTooLong'
  <2> SUFFICES ASSUME NEW t \in Uploads, task'[t].doc = Long, Turn(t)' = Parts + 2 PROVE FALSE
    BY DEF NotTooLong
  <2>1. Turn(t)' \in 2..Parts + 2
    BY Bounds
  <2>2. Turn(t) = Parts + 2 /\ task[t].doc = Long
    BY <2>1
  <2> QED
    BY <2>2 DEF Apart, NotTooLong
<1> QED
  BY <1>2, <1>3, <1>4, <1>5 DEF Apart

\* Nothing that tells the uploads apart changes
LEMMA Untouched ==
    ASSUME Apart, engine'.buf = engine.buf, torn => torn', UNCHANGED <<chain, flight, runs, task>>, Good' <=> Good
    PROVE  Apart'
<1>1. \A t : Turn(t)' = Turn(t)
  BY DEF Turn, Serving
<1>2. \A x, y : Before(x, y)' <=> Before(x, y)
  BY DEF Before, Serving, Ahead
<1>3. \A t : Recent(t)' <=> Recent(t)
  BY <1>1, <1>2 DEF Recent, On, Serving
<1> QED
  BY <1>1, <1>2, <1>3, Steady

\* A function is started
LEMMA CallApart ==
    ASSUME Apart, CallsInv, chain \in Seq(PageRequests), engine' = engine, torn => torn',
           NEW t \in Scripts, NEW d \in Shown, ~Busy(t), flight \in PageRequests \cup {NoRequest},
           Call(<<Request(t, 1, d)>>), task' = Starting(task, t, d)
    PROVE  Apart'
<1> DEFINE r == Request(t, 1, d)
<1>1. r \in PageRequests /\ r.task = t
  BY AllTasks, ScriptCalls, PageCalls, RequestFields
<1>2. chain' = chain \o <<r>> /\ flight' = flight /\ runs' = runs /\ rx' = rx /\ fifo' = fifo
  BY DEF Call, busVars, historyVars
<1> HIDE DEF r
<1>3. <<r>> \in Seq(PageRequests)
  BY <1>1, ShortSeqs
<1>4. \A x, y : Ahead(chain, x, y)' <=> Ahead(chain, x, y) \/ (Queued(chain, x) /\ y = t)
  <2>1. \A x, y : Ahead(chain \o <<r>>, x, y) <=> Ahead(chain, x, y) \/ (Queued(chain, x) /\ y = t)
    BY <1>1, <1>3, AheadConcat, OneAhead
  <2>2. \A x, y : Ahead(chain, x, y)' <=> Ahead(chain', x, y)
    BY DEF Ahead
  <2> QED
    BY <1>2, <2>1, <2>2
<1>5. /\ TaskTypes(task) /\ task[t].at = 0
      /\ task'[t].at = 1 /\ \A u \in Scripts : u # t => task'[u] = task[u]
  BY BusyFunctions DEF CallsInv, OneCall, TaskTypes, Starting
<1>6. ~Serving(t) /\ ~Queued(chain, t)
  <2>1. flight # NoRequest => flight.task # t
    BY <1>5, ListedRuns DEF CallsInv, OneCall
  <2>2. ~Queued(chain, t)
    <3> SUFFICES ASSUME NEW i \in 1..Len(chain), chain[i].task = t PROVE FALSE
      BY DEF Queued
    <3>1. chain[i] \in PageRequests /\ Listed(task, chain[i])
      BY ElementOfSeq DEF CallsInv, OneCall
    <3> QED
      BY <1>5, <3>1, ListedRuns
  <2> QED
    BY <2>1, <2>2 DEF Serving
<1>7. (\A u : Serving(u)' <=> Serving(u)) /\ (Good' <=> Good)
  BY <1>2 DEF Serving, Good
<1>8. \A u \in Uploads : u # t => Turn(u)' = Turn(u) /\ task'[u] = task[u]
  BY <1>2, <1>5, <1>7, Others DEF Turn
<1>9. Turn(t)' = 1 /\ Turn(t) = 0 /\ ~On(t)
  <2>1. Turn(t)' = 1 /\ Turn(t) = 0
    BY <1>5, <1>6, <1>7 DEF Turn
  <2> QED
    BY <2>1 DEF On
<1>10. \A u \in Uploads : On(u) \/ Turn(u)' \in 2..Parts + 2 => u # t
  BY <1>9
<1>11. \A u \in Uploads : u # t => (Before(Other(u), u)' <=> Before(Other(u), u))
  BY <1>2, <1>4, <1>7 DEF Before
<1>12. ASSUME NEW u \in Uploads, Turn(u)' \in 2..Parts + 2, Recent(u)' PROVE Recent(u)
  <2>1. u # t /\ (Before(Other(u), u)' => Before(Other(u), u))
    BY <1>10, <1>11, <1>12
  <2>2. CASE Other(u) = t
    <3>1. ~Serving(t) /\ ~Ahead(chain, t, u)
      BY <1>6 DEF Ahead, Queued
    <3>2. Before(t, u) => Serving(u) /\ runs = 1
      BY <3>1 DEF Before
    <3> QED
      BY <1>2, <1>7, <1>12, <2>1, <2>2, <3>2 DEF Recent
  <2>3. CASE Other(u) # t
    <3>1. On(Other(u))' <=> On(Other(u))
      BY <1>8, <2>3, Others DEF On
    <3> QED
      BY <1>2, <1>7, <1>12, <2>1, <3>1 DEF Recent
  <2> QED
    BY <2>2, <2>3
<1> QED
  BY <1>8, <1>10, <1>11, <1>12, Steady

\* A function of one call is started
LEMMA SingleApart ==
    ASSUME Apart, chain \in Seq(PageRequests), engine' = engine, torn => torn',
           NEW t \in Singles, Call(<<Request(t, 1, 0)>>), task' = task
    PROVE  Apart'
<1> DEFINE r == Request(t, 1, 0)
<1>1. r \in PageRequests /\ r.task = t /\ t \notin Uploads
  BY AllTasks, ScriptCalls, PageCalls, RequestFields, Bounds DEF Singles, Uploads
<1>2. chain' = chain \o <<r>> /\ flight' = flight /\ runs' = runs /\ rx' = rx /\ fifo' = fifo
  BY DEF Call, busVars, historyVars
<1> HIDE DEF r
<1>3. <<r>> \in Seq(PageRequests)
  BY <1>1, ShortSeqs
<1>4. \A x : \A y \in Uploads : Ahead(chain, x, y)' <=> Ahead(chain, x, y)
  <2>1. \A x, y : Ahead(chain \o <<r>>, x, y) <=> Ahead(chain, x, y) \/ (Queued(chain, x) /\ y = t)
    BY <1>1, <1>3, AheadConcat, OneAhead
  <2>2. \A x, y : Ahead(chain, x, y)' <=> Ahead(chain', x, y)
    BY DEF Ahead
  <2> QED
    BY <1>1, <1>2, <2>1, <2>2
<1>5. (\A u : Serving(u)' <=> Serving(u)) /\ (Good' <=> Good)
  BY <1>2 DEF Serving, Good
<1>6. \A u : Turn(u)' = Turn(u)
  BY <1>2, <1>5 DEF Turn
<1>7. \A u : On(u)' <=> On(u)
  BY <1>6 DEF On
<1>8. \A x : \A y \in Uploads : Before(x, y)' <=> Before(x, y)
  BY <1>2, <1>4, <1>5 DEF Before
<1>9. \A u \in Uploads : Recent(u)' <=> Recent(u)
  BY <1>2, <1>5, <1>7, <1>8 DEF Recent
<1> QED
  BY <1>6, <1>8, <1>9, Steady

\* One lemma for each kind of step that reaches the calls of an upload: it keeps Apart
LEMMA ConnectApart ==
    ASSUME CallsInv, LinkInv, PageConnect
    PROVE  Apart'
<1>1. /\ chain = <<>> /\ flight = NoRequest /\ flight' = NoRequest
      /\ task' = Starting(task, "connect", 0) /\ TaskTypes(task)
  BY DEF PageConnect, Connect, CallsInv, OneCall
<1>2. \A t \in Uploads : task[t].at = 0
  <2> TAKE t \in Uploads
  <2>1. ~Queued(chain, t)
    BY <1>1, NoneAhead
  <2> QED
    BY <1>1, <2>1, Others DEF CallsInv, OneCall
<1>3. \A t \in Uploads : task'[t].at = 0
  <2> TAKE t \in Uploads
  <2>1. t # "connect" /\ t \in Scripts
    BY DEF Uploads, Scripts
  <2> QED
    BY <1>1, <1>2, <2>1 DEF Starting, TaskTypes
<1>4. \A t \in Uploads : Turn(t)' = 0
  BY <1>1, <1>3 DEF Turn, Serving
<1>5. 0 \notin 2..Parts + 2 /\ 0 \notin 3..Parts + 2 /\ 0 # Parts + 2
  BY Bounds
<1> QED
  BY <1>4, <1>5 DEF Apart, LastOwn, Prefix, NotForeign, NotTooLong

\* The first waiting call is sent
LEMMA BeginApart ==
    ASSUME Apart, CallsInv, LinkInv, PageBegin
    PROVE  Apart'
<1>1. /\ flight = NoRequest /\ chain # <<>> /\ runs = 0 /\ runs' = 0
      /\ flight' = Head(chain) /\ chain' = Tail(chain) /\ task' = task /\ engine' = engine /\ torn' = torn
      /\ chain \in Seq(PageRequests)
  BY DEF PageBegin, Begin, LinkInv, LinkTypes, Resting
<1> DEFINE h == Head(chain).task
<1>2. \A t : ~Serving(t) /\ Turn(t)' = Turn(t)
  BY <1>1 DEF Turn, Serving
<1>3. \A t : On(t)' <=> On(t)
  BY <1>2 DEF On
<1>4. flight' # NoRequest
  BY <1>1, HeadTailProperties, NotARequest
<1>5. \A x, y : Before(x, y)' <=> x = h \/ Ahead(Tail(chain), x, y)
  <2>1. \A x, y : Ahead(chain, x, y)' <=> Ahead(chain', x, y)
    BY DEF Ahead
  <2> QED
    BY <1>1, <1>4, <2>1 DEF Before, Serving
<1>6. \A x, y : Before(x, y) <=> Ahead(Tail(chain), x, y) \/ (x = h /\ Queued(Tail(chain), y))
  BY <1>1, <1>2, AheadTail DEF Before
<1>7. ASSUME NEW t \in Uploads, Turn(t)' \in 2..Parts + 2, Recent(t)' PROVE Recent(t)
  <2>1. On(Other(t))' /\ Before(Other(t), t)'
    BY <1>1, <1>7 DEF Recent
  <2>2. task[t].at # 0
    <3>1. Turn(t) = task[t].at /\ Turn(t) # 0
      BY <1>1, <1>2, <1>7 DEF Turn
    <3> QED
      BY <3>1
  <2>3. Queued(chain, t)
    BY <1>1, <2>2, Others DEF CallsInv, OneCall
  <2>4. h = t \/ Queued(Tail(chain), t)
    BY <1>1, <2>3, AheadTail
  <2>5. Other(t) # t
    BY Others
  <2>6. Before(Other(t), t)
    BY <1>5, <1>6, <2>1, <2>4, <2>5
  <2> QED
    BY <1>3, <2>1, <2>6 DEF Recent
<1>8. \A t \in Uploads : Before(Other(t), t) => Before(Other(t), t)'
  BY <1>5, <1>6
<1> HIDE DEF h
<1> QED
  BY <1>1, <1>2, <1>7, <1>8, Steady

----------------------------------------------------------------------------
(* The answer to a call *)

\* What is left of the answer begins with its header
LEMMA AnswerComing ==
    ASSUME LinkInv, open, fresh, flight # NoRequest, wire = <<>>
    PROVE  /\ runs = 1 /\ Synced(rx) = rx
           /\ rx # <<>> => rx[1].head
<1>1. Coming
  BY DEF LinkInv, Own, Going
<1>2. PICK n \in Nat, v \in Answers : Part(rx, 0, flight, n, v)
  BY <1>1 DEF Coming
<1>3. rx # <<>> => rx[1].head
  <2>1. rx # <<>> => 1 \in 1..Len(rx)
    BY Lengths DEF LinkInv
  <2>2. rx # <<>> => rx[1] = Nth(0 + 1, flight, n, v)
    BY <1>2, <2>1 DEF Part
  <2> QED
    BY <2>2 DEF Nth, Unit
<1>4. Synced(rx) = rx
  BY <1>3, SyncedUnits DEF LinkInv, LinkTypes, Back
<1> QED
  BY <1>1, <1>3, <1>4 DEF Coming

\* Fetching a report of the device takes no turn
LEMMA FetchApart ==
    ASSUME Apart, LinkInv, open, fresh, PageFetch
    PROVE  Apart'
<1>1. PICK m \in 1..FifoSize : Fetch(m)
  BY DEF PageFetch
<1>2. /\ flight # NoRequest /\ wire = <<>> /\ m \in 1..Len(fifo)
      /\ rx' = Synced(rx) \o SubSeq(fifo, 1, m)
      /\ UNCHANGED <<chain, flight, runs, task, engine, torn>>
  BY <1>1 DEF PageFetch, Fetch, Reading, historyVars
<1>3. Synced(rx) = rx
  BY <1>2, AnswerComing
<1> DEFINE s == SubSeq(fifo, 1, m)
<1>4. s \in Seq(Back) /\ Len(s) = m /\ s[1] = fifo[1] /\ rx \in Seq(Back) /\ m \in Nat \ {0} /\ fifo # <<>>
  <2>1. fifo \in Seq(Back) /\ rx \in Seq(Back) /\ Len(fifo) \in Nat /\ \A i \in 1..m : fifo[i] \in Back
    BY <1>2, Lengths, ElementOfSeq DEF LinkInv, LinkTypes
  <2>2. /\ s \in Seq(Back)
        /\ Len(s) = IF 1 <= m THEN m - 1 + 1 ELSE 0
        /\ \A i \in 1..m - 1 + 1 : s[i] = fifo[1 + i - 1]
    BY <1>2, <2>1, SubSeqProperties
  <2> HIDE DEF s
  <2>3. 1 \in 1..m - 1 + 1 /\ m - 1 + 1 = m /\ m >= 1
    BY <1>2
  <2>4. s[1] = fifo[1 + 1 - 1] /\ 1 + 1 - 1 = 1
    BY <2>2, <2>3
  <2>5. fifo # <<>>
    BY <1>2, <2>1, EmptyByLength
  <2> QED
    BY <1>2, <2>1, <2>2, <2>3, <2>4, <2>5
<1> HIDE DEF s
<1>5. rx' = rx \o s
  BY <1>2, <1>3 DEF s
<1>6. rx' # <<>> /\ rx'[1] = IF rx # <<>> THEN rx[1] ELSE fifo[1]
  <2>1. /\ rx \o s \in Seq(Back) /\ Len(rx \o s) = Len(rx) + Len(s) /\ Len(rx) \in Nat
        /\ \A i \in 1..Len(rx) + Len(s) : (rx \o s)[i] = IF i <= Len(rx) THEN rx[i] ELSE s[i - Len(rx)]
        /\ (rx = <<>> <=> Len(rx) = 0) /\ (rx \o s = <<>> <=> Len(rx \o s) = 0)
    BY <1>4, ConcatProperties, LenProperties, EmptyByLength
  <2>2. 1 \in 1..Len(rx) + Len(s)
    BY <1>4, <2>1
  <2>3. (rx \o s)[1] = IF 1 <= Len(rx) THEN rx[1] ELSE s[1 - Len(rx)]
    BY <2>1, <2>2
  <2>4. (rx \o s)[1] = IF rx # <<>> THEN rx[1] ELSE fifo[1]
    <3>1. CASE rx = <<>>
      <4>1. Len(rx) = 0 /\ ~(1 <= Len(rx)) /\ 1 - Len(rx) = 1
        BY <2>1, <3>1
      <4> QED
        BY <1>4, <2>3, <3>1, <4>1
    <3>2. CASE rx # <<>>
      <4>1. 1 <= Len(rx)
        BY <2>1, <3>2
      <4> QED
        BY <2>3, <3>2, <4>1
    <3> QED
      BY <3>1, <3>2
  <2> QED
    BY <1>4, <1>5, <2>1, <2>4
<1>7. Good' <=> Good
  BY <1>4, <1>6 DEF Good
<1> QED
  BY <1>2, <1>7, Untouched

\* An upload goes on until its COMMIT
LEMMA UploadLength ==
    ASSUME NEW t \in Uploads
    PROVE  Len(Script(t)) \in Nat /\ Len(Script(t)) > Parts + 2
<1>1. Upload \in Seq(Commands) /\ Len(Upload) = Parts + 2 /\ Parts \in Nat
  BY UploadCalls, Bounds
<1>2. ASSUME NEW s \in Seq(Commands), Len(s) \in Nat \ {0}
      PROVE  Len(Upload \o s) \in Nat /\ Len(Upload \o s) > Parts + 2
  BY <1>1, <1>2, ConcatProperties
<1>3. "LAYER" \in Commands /\ "GET" \in Commands
  BY DEF Commands
<1>4. CASE t = "save"
  <2>1. Script(t) = Upload \o <<"LAYER", "GET">>
    BY <1>4 DEF Script
  <2>2. <<"LAYER", "GET">> \in Seq(Commands) /\ Len(<<"LAYER", "GET">>) = 2
    BY <1>3, ShortSeqs, Zenon
  <2>3. 2 \in Nat \ {0}
    OBVIOUS
  <2> QED
    BY <1>2, <2>1, <2>2, <2>3, Zenon
<1>5. CASE t = "apply"
  <2>1. Script(t) = Upload \o <<"GET">>
    BY <1>5 DEF Script
  <2>2. <<"GET">> \in Seq(Commands) /\ Len(<<"GET">>) = 1
    BY <1>3, ShortSeqs, Zenon
  <2>3. 1 \in Nat \ {0}
    OBVIOUS
  <2> QED
    BY <1>2, <2>1, <2>2, <2>3, Zenon
<1> QED
  BY <1>4, <1>5 DEF Uploads

\* The call a function makes next is the last one of all uploads
LEMMA NextAhead ==
    ASSUME NEW r \in PageRequests, NEW ok, NEW v, NEW x, NEW y, y # "load"
    PROVE  /\ Queued(NextCalls(r, ok, v), y) <=> y = r.task /\ ~Ends(r, ok)
           /\ ~Ahead(NextCalls(r, ok, v), x, y)
<1> DEFINE own  == IF Ends(r, ok) THEN <<>> ELSE <<Request(r.task, r.at + 1, r.doc)>>
<1> DEFINE load == IF Reloads(r, ok, v) THEN <<Request("load", 1, 0)>> ELSE <<>>
<1>1. own \in Seq(PageRequests) /\ (Queued(own, y) <=> y = r.task /\ ~Ends(r, ok)) /\ ~Ahead(own, x, y)
  <2>1. CASE Ends(r, ok)
    BY <2>1, NoneAhead, EmptySeq
  <2>2. CASE ~Ends(r, ok)
    <3> DEFINE n == Request(r.task, r.at + 1, r.doc)
    <3>1. r.at + 1 \in DOMAIN Script(r.task)
      <4>1. r.at # Len(Script(r.task))
        BY <2>2 DEF Ends, IsLast
      <4> QED
        BY <4>1, CallsOf, ScriptCalls
    <3>2. n \in PageRequests /\ n.task = r.task
      BY <3>1, CallsOf, PageCalls, RequestFields
    <3> HIDE DEF n
    <3>3. <<n>> \in Seq(PageRequests) /\ (Queued(<<n>>, y) <=> y = r.task) /\ ~Ahead(<<n>>, x, y)
      BY <3>2, ShortSeqs, OneAhead
    <3> QED
      BY <2>2, <3>3 DEF n
  <2> QED
    BY <2>1, <2>2
<1>2. load \in Seq(PageRequests) /\ ~Queued(load, y) /\ ~Ahead(load, x, y)
  <2>1. CASE Reloads(r, ok, v)
    <3> DEFINE n == Request("load", 1, 0)
    <3>1. n \in PageRequests /\ n.task = "load"
      <4>1. "load" \in Tasks
        BY AllTasks
      <4> QED
        BY <4>1, ScriptCalls, PageCalls, RequestFields, Bounds
    <3> HIDE DEF n
    <3>2. <<n>> \in Seq(PageRequests) /\ ~Queued(<<n>>, y) /\ ~Ahead(<<n>>, x, y)
      BY <3>1, ShortSeqs, OneAhead
    <3> QED
      BY <2>1, <3>2 DEF n
  <2>2. CASE ~Reloads(r, ok, v)
    BY <2>2, NoneAhead, EmptySeq
  <2> QED
    BY <2>1, <2>2
<1>3. NextCalls(r, ok, v) = own \o load
  BY DEF NextCalls
<1> HIDE DEF own, load
<1> QED
  BY <1>1, <1>2, <1>3, QueuedConcat, AheadConcat

\* An answer gives the upload its next turn
LEMMA AnswerApart ==
    ASSUME Apart, CallsInv, LinkInv, open, fresh, PageAnswer
    PROVE  Apart'
<1> DEFINE v == Synced(rx)[1].answer
<1> DEFINE ok == v.ok
<1> DEFINE next == NextCalls(flight, ok, v)
<1>1. /\ flight # NoRequest /\ wire = <<>> /\ Synced(rx) # <<>> /\ flight' = NoRequest /\ runs' = 0
      /\ chain' = chain \o next /\ Continue(flight, ok, v) /\ engine' = engine /\ torn' = torn
  BY DEF PageAnswer, Answer, Answered, Reading, Complete
<1>2. runs = 1 /\ (Good <=> ok)
  <2>1. runs = 1 /\ Synced(rx) = rx
    BY <1>1, AnswerComing
  <2> QED
    BY <1>1, <2>1 DEF Good
<1> HIDE DEF v, ok
<1>3. flight \in PageRequests /\ chain \in Seq(PageRequests) /\ Parts \in Nat
  BY <1>1, Bounds DEF LinkInv, LinkTypes
<1>0. PICK f \in Tasks : f = flight.task
  BY <1>3, CallsOf
<1>4. /\ TaskTypes(task) /\ flight.at \in Nat \ {0}
      /\ f \in Scripts => Listed(task, flight) /\ ~Queued(chain, f) /\ task[f].at = flight.at
  BY <1>0, <1>1, <1>3, ListedRuns, ScriptSteps DEF CallsInv, OneCall
<1>5. \A t \in Scripts :
        task'[t] = IF t = f THEN (IF Ends(flight, ok) THEN Idle ELSE [at |-> task[t].at + 1, doc |-> task[t].doc])
                   ELSE task[t]
  <2>1. CASE f \in Singles
    <3>1. task' = task /\ f \notin Scripts
      BY <1>0, <1>1, <2>1 DEF Continue, Singles, Scripts
    <3> QED
      BY <3>1
  <2>2. CASE f \notin Singles
    <3>1. task' = [task EXCEPT ![f] = IF Ends(flight, ok) THEN Idle ELSE [at |-> @.at + 1, doc |-> @.doc]]
      BY <1>0, <1>1, <2>2 DEF Continue
    <3> QED
      BY <1>4, <3>1 DEF TaskTypes
  <2> QED
    BY <2>1, <2>2
<1>6. \A t \in Uploads : Turn(t)' = task'[t].at /\ ~Serving(t)'
  BY <1>1 DEF Turn, Serving
<1>7. \A t \in Uploads : t # f => Turn(t)' = Turn(t) /\ Turn(t) = task[t].at /\ task'[t] = task[t]
  BY <1>0, <1>5, <1>6, Others DEF Turn, Serving
<1>8. f \in Scripts => Turn(f) = IF ok THEN flight.at + 1 ELSE 0
  BY <1>0, <1>1, <1>2, <1>4 DEF Turn, Serving
<1>9. ASSUME f \in Uploads, On(f) \/ Turn(f)' \in 2..Parts + 2
      PROVE  Turn(f)' = Turn(f) /\ task'[f].doc = task[f].doc /\ ~Ends(flight, ok)
  <2>0. f \in Scripts
    BY <1>9, Others
  <2>1. Ends(flight, ok) => task'[f].at = 0
    BY <1>5, <2>0 DEF Idle
  <2>2. ~Ends(flight, ok) => task'[f].at = flight.at + 1 /\ task'[f].doc = task[f].doc
    <3>1. ~Ends(flight, ok) => task'[f] = [at |-> task[f].at + 1, doc |-> task[f].doc]
      BY <1>5, <2>0
    <3> QED
      BY <1>4, <2>0, <3>1
  <2>3. flight.at + 1 <= Parts + 2
    <3>1. CASE On(f)
      BY <1>3, <1>4, <1>8, <2>0, <3>1 DEF On
    <3>2. CASE Turn(f)' \in 2..Parts + 2
      <4>1. task'[f].at \in 2..Parts + 2
        BY <1>6, <1>9, <3>2
      <4> QED
        BY <1>3, <1>4, <2>0, <2>1, <2>2, <4>1
    <3> QED
      BY <1>9, <3>1, <3>2
  <2>4. ~IsLast(flight) /\ Fatal(flight)
    <3>1. flight.at <= Parts + 2
      BY <1>3, <1>4, <2>3
    <3>2. flight.cmd \in {"BEGIN", "DATA", "COMMIT"}
      BY <1>0, <1>3, <1>9, <3>1, ScriptSteps
    <3>3. flight.at # Len(Script(flight.task))
      BY <1>0, <1>3, <1>4, <1>9, <2>3, UploadLength
    <3> QED
      BY <3>2, <3>3 DEF IsLast, Fatal
  <2>5. Ends(flight, ok) <=> ~ok
    BY <2>4 DEF Ends
  <2>6. ok
    <3>1. CASE On(f)
      <4>1. Turn(f) # 0
        BY <3>1 DEF On
      <4> QED
        BY <1>8, <2>0, <4>1
    <3>2. CASE Turn(f)' \in 2..Parts + 2
      <4>1. task'[f].at # 0
        BY <1>6, <1>9, <3>2
      <4> QED
        BY <2>1, <2>5, <4>1
    <3> QED
      BY <1>9, <3>1, <3>2
  <2> QED
    BY <1>6, <1>8, <1>9, <2>0, <2>2, <2>5, <2>6
<1>10. next \in Seq(PageRequests)
  BY <1>3, NextCallsType
<1>11. \A x : \A y \in Uploads : Before(x, y)' <=> Ahead(chain, x, y) \/ (Queued(chain, x) /\ y = f /\ ~Ends(flight, ok))
  <2> TAKE x
  <2> TAKE y \in Uploads
  <2>1. Before(x, y)' <=> Ahead(chain', x, y)
    BY <1>1 DEF Before, Serving, Ahead
  <2>2. Ahead(chain \o next, x, y) <=> Ahead(chain, x, y) \/ (Queued(chain, x) /\ Queued(next, y)) \/ Ahead(next, x, y)
    BY <1>3, <1>10, AheadConcat
  <2>3. (Queued(next, y) <=> y = f /\ ~Ends(flight, ok)) /\ ~Ahead(next, x, y)
    BY <1>0, <1>3, NextAhead, Others
  <2> QED
    BY <1>1, <2>1, <2>2, <2>3
<1>12. \A x, y : Before(x, y) <=> y = f \/ Ahead(chain, x, y)
  BY <1>0, <1>1, <1>2 DEF Before, Serving
<1>13. f \in Scripts => ~\E y : Ahead(chain, f, y)
  BY <1>4 DEF Ahead, Queued
<1> HIDE DEF next
<1>14. \A t \in Uploads : On(t) \/ Turn(t)' \in 2..Parts + 2 => Turn(t)' = Turn(t) /\ task'[t].doc = task[t].doc
  BY <1>7, <1>9
<1>15. ASSUME NEW t \in Uploads, Turn(t)' \in 2..Parts + 2, Recent(t)' PROVE Recent(t)
  <2>1. CASE t = f
    BY <1>0, <1>1, <1>2, <2>1 DEF Recent, Serving
  <2>2. CASE t # f
    <3>1. On(Other(t))' /\ Before(Other(t), t)'
      BY <1>6, <1>15 DEF Recent
    <3>2. Ahead(chain, Other(t), t)
      BY <1>11, <2>2, <3>1
    <3>3. Other(t) # f
      BY <1>13, <3>2, Others
    <3>4. On(Other(t))
      BY <1>7, <3>1, <3>3, Others DEF On
    <3> QED
      BY <1>12, <3>2, <3>4 DEF Recent
  <2> QED
    BY <2>1, <2>2
<1>16. ASSUME NEW t \in Uploads, On(t), On(Other(t)), Before(Other(t), t) PROVE Before(Other(t), t)'
  <2>1. CASE Ahead(chain, Other(t), t)
    BY <1>11, <2>1
  <2>2. CASE t = f
    <3>1. Other(t) # f /\ Other(t) \in Uploads /\ Other(t) \in Scripts
      BY <2>2, Others
    <3>2. task[Other(t)].at # 0
      <4>1. Turn(Other(t)) # 0
        BY <1>16 DEF On
      <4> QED
        BY <1>7, <3>1, <4>1
    <3>3. Queued(chain, Other(t))
      BY <1>0, <3>1, <3>2 DEF CallsInv, OneCall
    <3>4. ~Ends(flight, ok)
      BY <1>9, <1>16, <2>2
    <3> QED
      BY <1>11, <2>2, <3>3, <3>4
  <2> QED
    BY <1>12, <1>16, <2>1, <2>2
<1> QED
  BY <1>1, <1>14, <1>15, <1>16, Steady

----------------------------------------------------------------------------
(* The execution of a call *)

\* Over a connection that began empty the device gets whole what the page has sent
LEMMA CompletedOwn ==
    ASSUME LinkInv, fresh, Completes
    PROVE  /\ Received = flight /\ flight \in PageRequests /\ flight # NoRequest /\ open
           /\ ~Foreign /\ ~Collected[1].old /\ runs = 0 /\ rx = <<>> /\ fifo = <<>>
<1>1. Arriving /\ Complete(Collected)
  BY DEF Completes
<1>2. /\ Going /\ flight \in PageRequests
      /\ Part(Collected, 0, flight, Extra[flight], NoRequest)
      /\ Collected[1] = Unit(TRUE, flight, Extra[flight], NoRequest)
  BY <1>1, CollectedOwn
<1>3. Received = flight /\ ~Collected[1].old
  BY <1>2 DEF Received, Unit
<1>4. \A i \in 1..Len(Collected) : Collected[i].of = flight
  BY <1>2 DEF Part, Nth, Unit
<1>5. ~Foreign
  BY <1>3, <1>4 DEF Foreign
<1>6. open /\ flight # NoRequest
  BY <1>1, CollectedUnits
<1> QED
  BY <1>2, <1>3, <1>5, <1>6 DEF Going

\* The command run is the one in flight
LEMMA ExecutedOwn ==
    ASSUME PageInv, engine.rev <= MaxEvents, fresh, Execute(AnswerUnits(Received), AnswerTo(Received))
    PROVE  /\ runs' = 1 /\ UNCHANGED <<open, chain, flight, rx, fresh>>
           /\ Good' <=> Handle(flight, engine).ok
<1> DEFINE n == AnswerUnits(Received)
<1> DEFINE v == AnswerTo(Received)
<1> DEFINE frame == Frame(Received, n, v)
<1> DEFINE answer == IF Collected[1].old THEN Aged(frame) ELSE frame
<1> DEFINE room == FifoSize - Len(fifo)
<1> DEFINE fits == IF Len(answer) < room THEN Len(answer) ELSE room
<1>1. /\ Completes /\ fifo' = fifo \o SubSeq(answer, 1, fits)
      /\ runs' = IF Received = flight /\ ~Collected[1].old /\ ~Foreign /\ runs = 0 THEN 1 ELSE 2
      /\ UNCHANGED <<open, chain, flight, rx, fresh>>
  BY DEF Execute, WriteAll, pageVars
<1>2. /\ Received = flight /\ flight \in PageRequests /\ ~Foreign /\ ~Collected[1].old /\ runs = 0
      /\ rx = <<>> /\ fifo = <<>>
  BY <1>1, CompletedOwn DEF PageInv
<1>3. n \in 0..FifoSize /\ v \in Answers /\ v.ok = Handle(flight, engine).ok /\ n \in Nat
  <2>1. n \in 0..FifoSize /\ v \in Answers
    BY <1>2, ReplyTypes DEF PageInv
  <2>2. v.ok = Handle(flight, engine).ok
    BY <1>2 DEF AnswerTo
  <2> QED
    BY <2>1, <2>2, Bounds
<1> HIDE DEF n, v
<1>4. frame \in Seq(Back) /\ Len(frame) = n + 1 /\ frame[1] = Unit(TRUE, flight, n, v)
  <2>1. /\ frame \in Seq(Back) /\ Len(frame) = n + 1
        /\ \A i \in 1..n + 1 : frame[i] = Nth(i, flight, n, v)
    BY <1>2, <1>3, FrameUnits DEF Back
  <2>2. 1 \in 1..n + 1
    BY <1>3
  <2>3. frame[1] = Nth(1, flight, n, v)
    BY <2>1, <2>2
  <2> QED
    BY <2>1, <2>3 DEF Nth
<1> HIDE DEF frame
<1>5. answer = frame
  BY <1>2
<1>6. fits \in Nat \ {0} /\ fits <= Len(frame)
  <2>1. Len(fifo) = 0
    BY <1>2, EmptySeq
  <2>2. Len(answer) = n + 1 /\ room = FifoSize
    BY <1>4, <1>5, <2>1, Bounds
  <2> HIDE DEF answer, room
  <2> QED
    BY <1>3, <1>4, <2>2, Bounds
<1> HIDE DEF answer, room, fits
<1> DEFINE s == SubSeq(frame, 1, fits)
<1>7. s \in Seq(Back) /\ s # <<>> /\ s[1] = frame[1]
  <2>1. \A i \in 1..fits : frame[i] \in Back
    BY <1>4, <1>6, ElementOfSeq, LenProperties
  <2>2. /\ s \in Seq(Back) /\ Len(s) = IF 1 <= fits THEN fits - 1 + 1 ELSE 0
        /\ \A i \in 1..fits - 1 + 1 : s[i] = frame[1 + i - 1]
    BY <1>4, <1>6, <2>1, SubSeqProperties
  <2> HIDE DEF s
  <2>3. 1 <= fits /\ fits - 1 + 1 = fits /\ 1 \in 1..fits - 1 + 1
    BY <1>6
  <2>4. Len(s) = fits
    BY <2>2, <2>3
  <2>5. s # <<>>
    <3>1. s = <<>> <=> Len(s) = 0
      BY <2>2, EmptyByLength
    <3> QED
      BY <1>6, <2>4, <3>1
  <2>6. s[1] = frame[1 + 1 - 1] /\ 1 + 1 - 1 = 1
    BY <2>2, <2>3
  <2> QED
    BY <2>2, <2>5, <2>6
<1>8. fifo' = s
  <2>1. fifo' = <<>> \o s
    BY <1>1, <1>2, <1>5
  <2> HIDE DEF s
  <2> QED
    BY <1>7, <2>1, ConcatEmptySeq
<1> HIDE DEF s
<1>9. fifo' # <<>> /\ fifo'[1].answer = v /\ rx' = <<>>
  <2>1. Unit(TRUE, flight, n, v).answer = v
    BY DEF Unit
  <2>2. fifo'[1] = Unit(TRUE, flight, n, v)
    BY <1>4, <1>7, <1>8
  <2> QED
    BY <1>1, <1>2, <1>7, <1>8, <2>1, <2>2
<1>10. Good' <=> v.ok
  BY <1>9 DEF Good
<1> QED
  BY <1>1, <1>2, <1>3, <1>10

\* What the execution of the call of function t0 changes of the order of the uploads
LEMMA ServedTurns ==
    ASSUME CallsInv, PageTypes, flight \in PageRequests, runs = 0, runs' = 1, UNCHANGED <<chain, flight, task>>,
           Good' <=> Handle(flight, engine).ok, NEW f \in Tasks, f = flight.task
    PROVE  /\ \A t \in Uploads : t # f => Turn(t)' = Turn(t) /\ ~Serving(t) /\ ~Serving(t)' /\ Turn(t) = task[t].at
           /\ f \in Scripts =>
                 /\ Turn(f) = flight.at /\ task[f].doc = flight.doc /\ Serving(f) /\ Serving(f)'
                 /\ Turn(f)' = IF Handle(flight, engine).ok THEN flight.at + 1 ELSE 0
                 /\ \A t \in Uploads : Before(t, f)' /\ (t # f => Before(f, t) /\ ~Before(f, t)' /\ ~Before(t, f))
           /\ \A t \in Uploads : \A u \in Uploads : t # f /\ u # f => (Before(t, u)' <=> Before(t, u))
<1>1. flight # NoRequest /\ (f \in Scripts => Listed(task, flight) /\ ~Queued(chain, f))
  BY NotARequest DEF CallsInv, OneCall
<1>2. f \in Scripts => task[f].at = flight.at /\ task[f].doc = flight.doc
  BY <1>1, ListedRuns
<1>3. \A t : (Serving(t) <=> t = f) /\ (Serving(t)' <=> t = f)
  BY <1>1 DEF Serving
<1>4. f \in Scripts => \A t : ~Ahead(chain, f, t) /\ ~Ahead(chain, t, f) /\ ~Ahead(chain, f, t)'
  BY <1>1 DEF Ahead, Queued
<1>5. \A t, u : Ahead(chain, t, u)' <=> Ahead(chain, t, u)
  BY DEF Ahead
<1>6. \A t \in Uploads : t # f => Turn(t)' = Turn(t) /\ Turn(t) = task[t].at
  BY <1>3 DEF Turn
<1>7. f \in Scripts => Turn(f) = flight.at /\ Turn(f)' = IF Handle(flight, engine).ok THEN flight.at + 1 ELSE 0
  BY <1>2, <1>3 DEF Turn
<1>8. f \in Scripts => \A t : Before(t, f)' /\ (t # f => Before(f, t) /\ ~Before(f, t)' /\ ~Before(t, f))
  BY <1>3, <1>4 DEF Before
<1>9. \A t, u : t # f /\ u # f => (Before(t, u)' <=> Before(t, u))
  BY <1>3, <1>5 DEF Before
<1> QED
  BY <1>2, <1>3, <1>6, <1>7, <1>8, <1>9


\* The command run is the only one that touches the buffer
LEMMA ExecuteApart ==
    ASSUME Apart, Alone, CallsInv, PageInv, engine.rev <= MaxEvents, fresh,
           Execute(AnswerUnits(Received), AnswerTo(Received)),
           engine' = Handle(Received, engine).engine, task' = task, torn' = torn
    PROVE  Apart'
<1>1. /\ runs' = 1 /\ UNCHANGED <<open, chain, flight, rx, fresh>>
      /\ Good' <=> Handle(flight, engine).ok
  BY ExecutedOwn
<1>2. /\ Received = flight /\ flight \in PageRequests /\ flight # NoRequest /\ ~Foreign /\ runs = 0
  <2>1. Completes
    BY DEF Execute
  <2> QED
    BY <2>1, CompletedOwn DEF PageInv
<1>3. PICK f \in Tasks : f = flight.task
  BY <1>2, CallsOf
<1> DEFINE done == Handle(flight, engine).ok
<1>4. /\ \A t \in Uploads : t # f => Turn(t)' = Turn(t) /\ ~Serving(t) /\ ~Serving(t)' /\ Turn(t) = task[t].at
      /\ f \in Scripts =>
            /\ Turn(f) = flight.at /\ task[f].doc = flight.doc /\ Serving(f) /\ Serving(f)'
            /\ Turn(f)' = IF done THEN flight.at + 1 ELSE 0
            /\ \A t \in Uploads : Before(t, f)' /\ (t # f => Before(f, t) /\ ~Before(f, t)' /\ ~Before(t, f))
      /\ \A t \in Uploads : \A u \in Uploads : t # f /\ u # f => (Before(t, u)' <=> Before(t, u))
  BY <1>1, <1>2, <1>3, ServedTurns DEF PageInv
<1>5. /\ engine' = Handle(flight, engine).engine /\ engine.buf \in Seq(Chunks)
      /\ engine \in Engines(Buffers)
      /\ Parts \in Nat \ {0} /\ flight.at \in Nat \ {0} /\ TaskTypes(task)
  BY <1>2, Bounds, ScriptSteps DEF PageInv, PageTypes, Engines, Buffers, CallsInv, OneCall
<1>6. 3..Parts + 2 \subseteq 2..Parts + 2 /\ 2..Parts + 2 \subseteq 1..Parts + 2 /\ Parts + 2 \in 2..Parts + 2
  BY <1>5
\* The served function is no upload: the buffer is not touched
<1>7. CASE f \notin Uploads
  <2>1. engine'.buf = engine.buf
    <3>1. flight.cmd \in {"INFO", "STATUS", "GET", "RESET"}
      BY <1>2, <1>3, <1>7, ScriptSteps
    <3>2. CASE flight.cmd = "RESET"
      <4>1. engine' = [engine EXCEPT !.doc = 0, !.rev = engine.rev + 1]
        BY <1>5, <3>2 DEF Handle, Done
      <4> QED
        BY <1>5, <4>1 DEF Engines
    <3>3. CASE flight.cmd # "RESET"
      BY <1>5, <3>1, <3>3 DEF Handle, Done
    <3> QED
      BY <3>2, <3>3
  <2>2. \A t \in Uploads : t # f /\ Other(t) # f
    BY <1>7, Others
  <2>3. \A t \in Uploads : Turn(t)' = Turn(t) /\ (On(t)' <=> On(t))
    BY <1>4, <2>2 DEF On
  <2>4. \A t \in Uploads : Before(Other(t), t)' <=> Before(Other(t), t)
    BY <1>4, <2>2, Others
  <2>5. \A t \in Uploads : Recent(t)' => Recent(t)
    BY <1>4, <2>2, <2>3, <2>4, Others DEF Recent
  <2> QED
    BY <2>1, <2>3, <2>4, <2>5, Steady
<1>8. CASE f \in Uploads
  <2>0. f \in Scripts /\ Parts + 2 \in Nat
    BY <1>5, <1>8, Others
  <2>11. /\ Turn(f) = flight.at /\ task[f].doc = flight.doc /\ Serving(f) /\ Serving(f)'
         /\ Turn(f)' = IF done THEN flight.at + 1 ELSE 0
    BY <1>4, <2>0
  <2> DEFINE u == Other(f)
  <2>1. /\ u \in Uploads /\ u # f /\ Other(u) = f /\ \A t \in Uploads : t = u \/ t = f
        /\ Turn(u)' = Turn(u) /\ ~Serving(u)' /\ Turn(u) = task[u].at
        /\ Before(u, f)' /\ Before(f, u) /\ ~Before(f, u)' /\ ~Before(u, f)
    BY <1>4, <1>8, <2>0, Others
  <2>2. ~Recent(u)'
    BY <2>1 DEF Recent
  \* If nothing overlaps, the other upload does not run
  <2>3. ~torn => Turn(u) = 0
    <3>1. task[f].at # 0
      BY <1>2, <1>3, <1>5, <2>0, ListedRuns DEF CallsInv, OneCall
    <3> QED
      BY <1>8, <2>0, <2>1, <3>1, BusyFunctions, Others DEF Alone
  <2>4. 0 \notin 2..Parts + 2
    OBVIOUS
  <2>12. Turn(f)' # Parts + 2 => NotTooLong'
    BY <2>1 DEF Apart, NotTooLong
  \* A command that fails ends its upload
  <2>13. ASSUME ~done, engine'.buf = engine.buf, flight.at <= Parts + 1 PROVE Apart'
    <3>1. Turn(f)' = 0
      BY <2>11, <2>13
    <3>2. LastOwn'
      BY <1>6, <2>1, <2>2, <2>4, <3>1 DEF LastOwn
    <3>3. Prefix'
      BY <2>1, <2>3, <2>4, <2>13, <3>1 DEF Apart, Prefix
    <3>4. NotForeign'
      <4> SUFFICES ASSUME Turn(u) \in 2..Parts + 2, Parsed(engine.buf) # Garbage, Parsed(engine.buf) # task[u].doc
                   PROVE  FALSE
        BY <2>1, <2>4, <2>13, <3>1 DEF NotForeign
      <4>1. Turn(f) = Parts + 2
        BY <2>1 DEF Apart, NotForeign
      <4> QED
        BY <1>5, <2>11, <2>13, <4>1
    <3>5. NotTooLong'
      BY <1>5, <2>12, <3>1
    <3> QED
      BY <3>2, <3>3, <3>4, <3>5 DEF Apart
  \* The parser finds what it found before, and the served upload is not the next to commit
  <2>5. CASE flight.at = 1
    <3>1. flight.cmd = "BEGIN"
      BY <1>2, <1>3, <1>5, <1>8, <2>5, ScriptSteps
    <3>8. Handle(flight, engine) = IF engine.begun \/ engine.room THEN Done(Began(engine)) ELSE Failed(engine)
      BY <3>1 DEF Handle
    <3>9. CASE ~(engine.begun \/ engine.room)
      <4>1. ~done /\ engine'.buf = engine.buf
        BY <1>5, <3>8, <3>9 DEF Failed
      <4> QED
        BY <1>5, <2>5, <2>13, <4>1
    <3> SUFFICES ASSUME engine.begun \/ engine.room PROVE Apart'
      BY <3>9
    <3>2. engine'.buf = <<>> /\ done
      <4>1. [engine EXCEPT !.begun = TRUE, !.buf = <<>>].buf = <<>>
        BY <1>5 DEF Engines
      <4> QED
        BY <1>5, <3>8, <4>1 DEF Done, Began
    <3>3. Turn(f)' = 2 /\ 2 # Parts + 2
      BY <1>5, <2>5, <2>11, <3>2
    <3>4. LastOwn'
      BY <2>1, <2>2, <3>3, <1>5 DEF LastOwn
    <3>5. Len(engine'.buf) = 0 /\ 1..Len(engine'.buf) = {}
      BY <3>2, EmptySeq
    <3>6. Prefix'
      BY <2>1, <2>3, <2>4, <3>3, <3>5 DEF Prefix
    <3>7. NotForeign'
      BY <3>2, ParsedEmpty DEF NotForeign
    <3> QED
      BY <2>12, <3>3, <3>4, <3>6, <3>7 DEF Apart
  <2>6. CASE flight.at \in 2..Parts + 1
    <3>1. flight.cmd = "DATA"
      BY <1>2, <1>3, <1>5, <1>8, <2>6, ScriptSteps
    <3> DEFINE c == Chunk(flight)
    <3>2. \/ ~done /\ engine'.buf = engine.buf
          \/ done /\ engine'.buf = Append(engine.buf, c)
      <4>1. Handle(flight, engine) = IF ~engine.begun \/ TooLong(flight, engine) THEN Failed(engine)
                                     ELSE Done([engine EXCEPT !.buf = Append(engine.buf, c)])
        BY <1>2, <3>1 DEF Handle
      <4> HIDE DEF c
      <4>2. [engine EXCEPT !.buf = Append(engine.buf, c)].buf = Append(engine.buf, c)
        BY <1>5 DEF Engines
      <4> QED
        BY <1>5, <4>1, <4>2 DEF Done, Failed
    <3>3. c = [doc |-> task[f].doc, part |-> flight.at - 1] /\ c \in Chunks
      <4>1. c = [doc |-> task[f].doc, part |-> flight.at - 1]
        BY <2>11 DEF Chunk
      <4>2. task[f].doc \in Shown /\ flight.at - 1 \in Nat
        BY <1>5, <2>0 DEF TaskTypes
      <4> QED
        BY <4>1, <4>2 DEF Chunks
    <3> HIDE DEF c
    <3>4. On(f) /\ Recent(u) /\ Turn(f) = flight.at /\ Turn(f) \in 2..Parts + 2
      <4>1. On(f) /\ Turn(f) \in 2..Parts + 2
        BY <1>5, <2>6, <2>11 DEF On
      <4> QED
        BY <2>1, <2>11, <4>1 DEF Recent
    <3>5. CASE ~done /\ engine'.buf = engine.buf
      <4>1. flight.at <= Parts + 1
        BY <1>5, <2>6
      <4> QED
        BY <2>13, <3>5, <4>1
    <3>6. CASE done /\ engine'.buf = Append(engine.buf, c)
      <4> DEFINE b == engine.buf
      <4> DEFINE B == Append(engine.buf, c)
      <4>1. /\ Len(B) = Len(b) + 1 /\ Len(b) \in Nat /\ B \in Seq(Chunks)
            /\ (\A i \in 1..Len(b) : B[i] = b[i]) /\ B[Len(b) + 1] = c /\ B[Len(B)] = c /\ B # <<>>
        BY <1>5, <3>3, AppendProperties, LenProperties, EmptyByLength
      <4>2. Turn(f)' = flight.at + 1 /\ flight.at + 1 \in 3..Parts + 2
        BY <1>5, <2>6, <2>11, <3>6
      <4>3. LastOwn'
        <5>1. B # <<>> /\ B[Len(B)].doc = task[f].doc
          BY <3>3, <4>1
        <5> HIDE DEF B
        <5> QED
          BY <2>1, <2>2, <3>6, <5>1 DEF LastOwn, B
      <4>4. Prefix'
        <5> SUFFICES ASSUME ~torn PROVE Prefix'
          BY DEF Prefix
        <5>1. Len(b) = flight.at - 2 /\ \A i \in 1..Len(b) : b[i] = [doc |-> task[f].doc, part |-> i]
          BY <1>8, <3>4 DEF Apart, Prefix
        <5>2. Len(B) = (flight.at + 1) - 2 /\ Len(b) + 1 = flight.at - 1
          BY <1>5, <4>1, <5>1
        <5>3. \A i \in 1..Len(B) : B[i] = [doc |-> task[f].doc, part |-> i]
          <6> TAKE i \in 1..Len(B)
          <6>1. CASE i \in 1..Len(b)
            BY <4>1, <5>1, <6>1
          <6>2. CASE i = Len(b) + 1
            BY <3>3, <4>1, <5>2, <6>2
          <6> QED
            BY <4>1, <6>1, <6>2
        <5> HIDE DEF B
        <5>4. engine'.buf = B
          BY <3>6 DEF B
        <5> QED
          BY <2>1, <2>3, <2>4, <4>2, <5>2, <5>3, <5>4 DEF Prefix
      <4> DEFINE d == Parsed(B)
      <4>5. d # Garbage => \/ Len(b) >= Parts /\ Parsed(b) = d
                           \/ /\ Len(b) = Parts - 1 /\ c = [doc |-> d, part |-> Parts]
                              /\ \A i \in 1..Len(b) : b[i] = [doc |-> d, part |-> i]
        BY <1>5, <3>3, ParsedAppend
      <4> HIDE DEF d
      <4>6. ASSUME d # Garbage, d # task[f].doc PROVE d = task[u].doc /\ Turn(u) = Parts + 2
        <5>1. Parsed(b) = d
          <6>1. c = [doc |-> d, part |-> Parts] => d = task[f].doc
            BY <3>3
          <6> QED
            BY <4>5, <4>6, <6>1
        <5> QED
          BY <1>8, <3>4, <4>6, <5>1 DEF Apart, NotForeign
      <4>7. ASSUME d # Garbage, d # task[u].doc, Turn(u) \in 2..Parts + 2
            PROVE  d = task[f].doc /\ Turn(f)' = Parts + 2 /\ Turn(u) <= Parts + 1
        <5>1. ~(Len(b) >= Parts /\ Parsed(b) = d)
          <6> SUFFICES ASSUME Parsed(b) = d PROVE FALSE
            OBVIOUS
          <6>1. Turn(f) = Parts + 2
            BY <2>1, <4>7 DEF Apart, NotForeign
          <6> QED
            BY <1>5, <2>6, <3>4, <6>1
        <5>2. /\ Len(b) = Parts - 1 /\ c = [doc |-> d, part |-> Parts]
              /\ \A i \in 1..Len(b) : b[i] = [doc |-> d, part |-> i]
          BY <4>5, <4>7, <5>1
        <5>3. d = task[f].doc /\ flight.at - 1 = Parts
          BY <3>3, <5>2
        <5>4. Turn(u) # Parts + 2
          <6> SUFFICES ASSUME Turn(u) = Parts + 2 PROVE FALSE
            OBVIOUS
          <6>1. Turn(u) \in 3..Parts + 2
            BY <1>5
          <6>2. b # <<>> /\ b[Len(b)].doc = task[u].doc
            BY <2>1, <3>4, <6>1 DEF Apart, LastOwn
          <6>3. Len(b) \in 1..Len(b)
            <7>1. Len(b) # 0
              BY <1>5, <6>2, EmptyByLength
            <7> QED
              BY <4>1, <7>1
          <6>4. b[Len(b)].doc = d
            <7>1. b[Len(b)] = [doc |-> d, part |-> Len(b)]
              BY <5>2, <6>3
            <7> QED
              BY <7>1
          <6> QED
            BY <4>7, <6>2, <6>4
        <5> QED
          BY <1>5, <4>2, <4>7, <5>3, <5>4
      <4>8. NotForeign'
        <5>1. Parsed(engine'.buf) = d
          BY <3>6 DEF d
        <5> SUFFICES ASSUME NEW t \in Uploads, Turn(t)' \in 2..Parts + 2, d # Garbage, d # task[t].doc
                     PROVE  /\ d = task[Other(t)].doc
                            /\ Turn(Other(t))' = Parts + 2
                            /\ Turn(t)' <= Parts + 1 \/ Before(Other(t), t)'
          BY <5>1 DEF NotForeign
        <5>2. CASE t = f
          BY <2>1, <4>6, <5>2
        <5>3. CASE t = u
          BY <2>1, <4>7, <5>3
        <5> QED
          BY <2>1, <5>2, <5>3
      <4>9. NotTooLong'
        <5> SUFFICES ASSUME Turn(f)' = Parts + 2, task[f].doc = Long PROVE FALSE
          BY <2>1 DEF Apart, NotTooLong
        <5>1. flight.at = Parts + 1
          BY <1>5, <4>2
        <5>2. Handle(flight, engine).ok = FALSE
          BY <2>11, <3>1, <5>1 DEF Handle, TooLong, Failed
        <5> QED
          BY <3>6, <5>2
      <4> QED
        BY <4>3, <4>4, <4>8, <4>9 DEF Apart
    <3> QED
      BY <3>2, <3>5, <3>6
  <2>7. CASE flight.at = Parts + 2
    <3>1. flight.cmd = "COMMIT"
      BY <1>2, <1>3, <1>5, <1>8, <2>7, ScriptSteps
    <3>2. engine'.buf = <<>>
      <4> DEFINE d == Parsed(engine.buf)
      <4>1. Handle(flight, engine) = IF d \in Docs
                                     THEN Done([engine EXCEPT !.doc = d, !.kept = engine.kept \cup {d},
                                                              !.rev = engine.rev + 1, !.buf = <<>>])
                                     ELSE Failed([engine EXCEPT !.buf = <<>>])
        BY <3>1 DEF Handle
      <4> HIDE DEF d
      <4> QED
        BY <1>5, <4>1 DEF Done, Failed, Engines
    <3>3. Turn(f)' \notin 2..Parts + 2 /\ Turn(f)' # Parts + 2
      BY <1>5, <2>7, <2>11
    <3>4. LastOwn'
      BY <1>6, <2>1, <2>2, <3>3 DEF LastOwn
    <3>5. Prefix'
      BY <2>1, <2>3, <2>4, <3>3 DEF Prefix
    <3>6. NotForeign'
      BY <3>2, ParsedEmpty DEF NotForeign
    <3> QED
      BY <2>12, <3>3, <3>4, <3>5, <3>6 DEF Apart
  \* After its COMMIT an upload only reads
  <2>8. CASE flight.at > Parts + 2
    <3>1. flight.cmd \in {"LAYER", "GET"}
      BY <1>2, <1>3, <1>5, <1>8, <2>8, ScriptSteps
    <3>2. engine'.buf = engine.buf
      BY <1>5, <3>1 DEF Handle, Done
    <3>3. ~On(f) /\ Turn(f)' \notin 2..Parts + 2
      BY <1>5, <2>8, <2>11 DEF On
    <3>4. \A t \in Uploads : On(t) \/ Turn(t)' \in 2..Parts + 2 => t = u
      BY <2>1, <3>3
    <3> QED
      BY <2>1, <2>2, <3>2, <3>3, <3>4, Steady
  <2> QED
    BY <1>5, <2>5, <2>6, <2>7, <2>8
<1> QED
  BY <1>7, <1>8

\* ... and after a step
LEMMA BusyLater == \A t \in Scripts : Busy(t)' <=> task'[t].at # 0
BY DEF Busy, Scripts, Singles

\* While nothing is torn, one upload at most runs
LEMMA AloneStep ==
    ASSUME PageInv, CallsInv, Counters, Alone, [Next]_vars
    PROVE  Alone'
<1> SUFFICES ASSUME ~torn' PROVE \A t \in Uploads : ~(task'[t].at # 0 /\ task'[Other(t)].at # 0)
  BY BusyFunctions, Others, BusyLater DEF Alone
<1>1. ~torn /\ \A t \in Uploads : ~(task[t].at # 0 /\ task[Other(t)].at # 0)
  BY CountersStep, BusyFunctions, Others DEF Alone
<1>2. TaskTypes(task) /\ LinkTypes
  BY DEF CallsInv, OneCall, PageInv, LinkInv
<1>3. ASSUME \A t \in Uploads : task'[t].at # 0 => task[t].at # 0
      PROVE  \A t \in Uploads : ~(task'[t].at # 0 /\ task'[Other(t)].at # 0)
  BY <1>1, <1>3, Others
<1>4. ASSUME NEW r \in PageRequests, r.task \in Scripts => Listed(task, r), NEW ok, NEW v, Continue(r, ok, v)
      PROVE  \A t \in Uploads : task'[t].at # 0 => task[t].at # 0
  <2>1. CASE r.task \in Singles
    <3>1. task' = task
      BY <1>4, <2>1 DEF Continue
    <3> QED
      BY <3>1
  <2>2. CASE r.task \notin Singles
    <3>1. r.task \in Scripts
      BY <2>2, CallsOf DEF Tasks
    <3>2. task[r.task].at # 0
      BY <1>4, <3>1, ListedRuns
    <3>3. task' = [task EXCEPT ![r.task] = IF Ends(r, ok) THEN Idle ELSE [at |-> @.at + 1, doc |-> @.doc]]
      BY <1>4, <2>2 DEF Continue
    <3>4. \A t \in Scripts : t # r.task => task'[t] = task[t]
      BY <1>2, <3>3 DEF TaskTypes
    <3> QED
      BY <3>2, <3>4, Others
  <2> QED
    BY <2>1, <2>2
<1>5. CASE PageConnect \/ Reset
  <2>1. PICK t \in {"connect", "reset"} : task' = Starting(task, t, 0)
    BY <1>5 DEF PageConnect, Reset, Press
  <2>2. \A u \in Uploads : u # t /\ u \in Scripts
    BY DEF Uploads, Scripts
  <2>3. \A u \in Uploads : task'[u] = task[u]
    BY <1>2, <2>1, <2>2 DEF Starting, TaskTypes
  <2> QED
    BY <1>3, <2>3
<1>6. CASE Save \/ Apply
  <2>1. PICK t \in Uploads : \E d :
            task' = Starting(task, t, d) /\ torn' = (torn \/ \E u \in Uploads : Busy(u))
    BY <1>6 DEF Save, Apply, Press, Uploads
  <2>2. \A u \in Uploads : task[u].at = 0
    BY <2>1, BusyFunctions, Others
  <2>3. \A u \in Uploads : u # t => task'[u] = task[u]
    BY <1>2, <2>1, Others DEF Starting, TaskTypes
  <2> QED
    BY <2>2, <2>3, Others
<1>7. CASE PageRefuse
  <2> DEFINE r == Head(chain)
  <2>1. flight = NoRequest /\ chain # <<>> /\ Continue(r, FALSE, NoAnswer)
    BY <1>7 DEF PageRefuse, Refuse
  <2>2. OneCall(Tail(chain), r, task) /\ r \in PageRequests
    BY <1>2, <2>1, TakeCall DEF CallsInv, LinkTypes
  <2> HIDE DEF r
  <2>3. r.task \in Scripts => Listed(task, r)
    BY <2>2, NotARequest DEF OneCall
  <2> QED
    BY <1>3, <1>4, <2>1, <2>2, <2>3
<1>8. CASE PageAnswer
  <2> DEFINE v == Synced(rx)[1].answer
  <2>1. flight # NoRequest /\ Continue(flight, v.ok, v)
    BY <1>8 DEF PageAnswer, Answer, Answered, Reading
  <2> HIDE DEF v
  <2>2. flight \in PageRequests /\ (flight.task \in Scripts => Listed(task, flight))
    BY <1>2, <2>1 DEF CallsInv, OneCall, LinkTypes
  <2> QED
    BY <1>3, <1>4, <2>1, <2>2
<1>9. CASE PageFail
  <2>1. flight # NoRequest /\ Continue(flight, FALSE, NoAnswer)
    BY <1>9 DEF PageFail, Fail
  <2>2. flight \in PageRequests /\ (flight.task \in Scripts => Listed(task, flight))
    BY <1>2, <2>1 DEF CallsInv, OneCall, LinkTypes
  <2> QED
    BY <1>3, <1>4, <2>1, <2>2
<1>10. CASE Edit \/ Reload \/ Poll \/ PageBegin \/ PageFetch \/ Deliver \/ PageClose \/ BusLost \/ DeviceLost \/ UNCHANGED vars
  <2>1. task' = task
    BY <1>10 DEF Edit, Reload, Poll, PageBegin, PageFetch, Deliver, PageClose, BusLost, DeviceLost, Break, vars
  <2> QED
    BY <1>3, <2>1
<1> QED
  BY <1>5, <1>6, <1>7, <1>8, <1>9, <1>10 DEF Next, PageStep

\* Every step keeps the invariant of the uploads
LEMMA UploadStep ==
    ASSUME PageInv, CallsInv, Counters, Alone, UploadInv, engine.rev <= MaxEvents, [Next]_vars
    PROVE  UploadInv'
<1> SUFFICES ASSUME open', fresh' PROVE Apart'
  BY DEF UploadInv
<1>1. /\ torn => torn'
      /\ LinkInv /\ chain \in Seq(PageRequests) /\ flight \in PageRequests \cup {NoRequest}
      /\ page.shown \in Shown /\ 0 \in Shown
  BY CountersStep, Bounds DEF PageInv, LinkInv, LinkTypes, PageTypes
<1>2. CASE PageConnect
  BY <1>1, <1>2, ConnectApart
<1>3. ASSUME open' = open, fresh' = fresh PROVE Apart /\ open /\ fresh
  BY <1>3 DEF UploadInv
<1>4. ASSUME NEW t \in Scripts, NEW d \in Shown, ~Busy(t), Call(<<Request(t, 1, d)>>), task' = Starting(task, t, d),
             engine' = engine
      PROVE  Apart'
  <2>1. Apart
    BY <1>3, <1>4 DEF Call, historyVars
  <2> QED
    BY <1>1, <1>4, <2>1, CallApart
<1>17. ASSUME NEW t \in Singles, Call(<<Request(t, 1, 0)>>), task' = task, engine' = engine PROVE Apart'
  <2>1. Apart
    BY <1>3, <1>17 DEF Call, historyVars
  <2> QED
    BY <1>1, <1>17, <2>1, SingleApart
<1>5. {"save", "reset", "apply"} \subseteq Scripts /\ {"poll", "load"} \subseteq Singles
  BY DEF Scripts, Singles
<1>6. CASE Save
  BY <1>1, <1>4, <1>5, <1>6 DEF Save, Press
<1>7. CASE Reset
  BY <1>1, <1>4, <1>5, <1>7 DEF Reset, Press
<1>8. CASE Reload
  BY <1>5, <1>8, <1>17 DEF Reload
<1>9. CASE Apply
  <2>1. PICK d \in {edits + 1, Garbage, Long} : Press("apply", d)
    BY <1>9 DEF Apply
  <2>2. edits + 1 \in Shown
    BY <1>9, EditIsDoc DEF Apply, PageInv
  <2>3. d \in Shown
    BY <2>2, Bounds DEF Shown, Garbage, Long
  <2> QED
    BY <1>4, <1>5, <2>1, <2>3 DEF Press
<1>10. CASE Poll
  BY <1>5, <1>10, <1>17 DEF Poll
<1>11. CASE Edit \/ UNCHANGED vars
  <2>1. UNCHANGED <<engine, open, fresh, chain, flight, runs, task, rx, fifo>>
    BY <1>11 DEF Edit, vars, linkVars, pageVars, busVars, historyVars
  <2>2. Good' <=> Good
    BY <2>1 DEF Good
  <2> QED
    BY <1>1, <1>3, <2>1, <2>2, Untouched
<1>12. CASE PageBegin
  <2>1. Apart
    BY <1>3, <1>12 DEF PageBegin, Begin
  <2> QED
    BY <1>1, <1>12, <2>1, BeginApart
<1>13. CASE PageFetch
  <2>1. Apart /\ open /\ fresh
    BY <1>3, <1>13 DEF PageFetch, Fetch, historyVars
  <2> QED
    BY <1>1, <1>13, <2>1, FetchApart
<1>14. CASE PageAnswer
  <2>1. Apart /\ open /\ fresh
    BY <1>3, <1>14 DEF PageAnswer, Answer
  <2> QED
    BY <1>1, <1>14, <2>1, AnswerApart
<1>15. CASE PageRefuse \/ PageFail \/ PageClose \/ BusLost \/ DeviceLost
  <2>1. ~open'
    BY <1>15 DEF PageRefuse, Refuse, PageFail, Fail, PageClose, BusLost, DeviceLost, Close, BusReset, Restart, Lose
  <2> QED
    BY <2>1
<1>16. CASE Deliver
  <2>1. task' = task /\ torn' = torn
    BY <1>16 DEF Deliver
  <2>2. CASE Collect /\ UNCHANGED engine
    <3>1. UNCHANGED <<engine, open, fresh, chain, flight, runs, task, rx, fifo>>
      BY <2>1, <2>2 DEF Collect, pageVars, historyVars
    <3>2. Good' <=> Good
      BY <3>1 DEF Good
    <3> QED
      BY <1>1, <1>3, <3>1, <3>2, Untouched
  <2>3. CASE Execute(AnswerUnits(Received), AnswerTo(Received)) /\ engine' = Handle(Received, engine).engine
    <3>1. Apart /\ fresh
      BY <1>3, <2>3 DEF Execute, pageVars
    <3> QED
      BY <2>1, <2>3, <3>1, ExecuteApart
  <2> QED
    BY <1>16, <2>2, <2>3 DEF Deliver
<1> QED
  BY <1>2, <1>6, <1>7, <1>8, <1>9, <1>10, <1>11, <1>12, <1>13, <1>14, <1>15, <1>16 DEF Next, PageStep

----------------------------------------------------------------------------
(* The inductive invariant *)

ConfigInv ==
    /\ PageInv          \* types, and that a link which was empty holds one call only
    /\ CallsInv         \* each function that runs waits for one call
    /\ LinkSizes        \* what the accumulator and the transfer may hold
    /\ Counters
    /\ RevInv           \* config_rev counts changes the user has begun
    /\ Unsaved          \* what may run while there is an unsaved edit
    /\ Alone            \* whether uploads overlap
    /\ UploadInv        \* what an upload finds in the buffer

\* config_rev is at most the number of events
LEMMA RevBound ==
    ASSUME PageTypes, Counters, RevInv
    PROVE  engine.rev <= MaxEvents
<1>1. engine.rev \in Nat /\ events \in 0..MaxEvents /\ MaxEvents \in Nat
  BY Bounds DEF PageTypes, Engines, Counters
<1>2. Owing("save") \in {0, 1} /\ Owing("apply") \in {0, 1} /\ Owing("reset") \in {0, 1}
  BY DEF Owing
<1> QED
  BY <1>1, <1>2 DEF RevInv

\* The initial states satisfy the inductive invariant
LEMMA InitConfig ==
    ASSUME Init
    PROVE  ConfigInv
<1>1. PageInv
  BY InitPage
<1>2. /\ chain = <<>> /\ flight = NoRequest /\ ~open /\ acc = <<>> /\ wire = <<>> /\ fifo = <<>>
      /\ cut = FALSE /\ runs = 0 /\ events = 0 /\ mine = FALSE /\ torn = FALSE
      /\ task = [t \in Scripts |-> Idle]
  BY DEF Init, LinkInit
<1>3. \A t \in Scripts : task[t].at = 0
  BY <1>2 DEF Idle
<1>4. CallsInv
  <2>1. 1..Len(chain) = {}
    BY <1>2, EmptySeq
  <2>2. TaskTypes(task)
    BY <1>2, Bounds DEF TaskTypes, Idle
  <2> QED
    BY <1>2, <1>3, <2>1, <2>2 DEF CallsInv, OneCall
<1>5. LinkSizes
  <2>1. Len(fifo) = 0 /\ runs = 0
    BY <1>2, EmptySeq
  <2>2. Len(fifo) <= FifoSize /\ runs \in 0..2
    BY <2>1, Bounds
  <2>3. cut \in BOOLEAN
    BY Zenon DEF Init, LinkInit
  <2>4. Partial /\ Sending
    BY <1>2, Zenon DEF Partial, Sending
  <2> QED
    BY <2>2, <2>3, <2>4, Zenon DEF LinkSizes
<1>6. Counters
  <2>1. events \in 0..MaxEvents
    BY <1>2, Bounds
  <2>2. mine = FALSE /\ torn = FALSE /\ refused = FALSE
    BY DEF Init
  <2> QED
    BY <2>1, <2>2 DEF Counters
<1>7. RevInv
  <2>1. engine.rev = 0
    <3> DEFINE whole == [i \in 1..Taken |-> [doc |-> 0, part |-> i]]
    <3> HIDE DEF whole
    <3> DEFINE E == [doc : {0}, kept : {{0}}, rev : {0}, room : BOOLEAN, begun : BOOLEAN, buf : {<<>>, whole}]
    <3>1. engine \in {Booted(0, TRUE), Booted(0, FALSE),
                     [Booted(0, TRUE) EXCEPT !.begun = TRUE, !.buf = whole]}
      BY DEF Init, AfterUpload, whole
    <3>2. \A room \in BOOLEAN : Booted(0, room) \in E
      BY DEF Booted
    <3>3. [Booted(0, TRUE) EXCEPT !.begun = TRUE, !.buf = whole] \in E
      BY <3>2
    <3>4. engine \in E
      BY <3>1, <3>2, <3>3
    <3> QED
      BY <3>4
  <2>2. Owing("save") = 0 /\ Owing("apply") = 0 /\ Owing("reset") = 0
    <3>1. \A t \in Scripts : ~Owes(t)
      BY <1>3, Bounds DEF Owes, Final
    <3> QED
      BY <3>1 DEF Owing, Scripts
  <2> QED
    BY <1>2, <2>1, <2>2 DEF RevInv
<1>8. Unsaved /\ UploadInv
  BY <1>2 DEF Unsaved, UploadInv
<1>9. Alone
  BY <1>3, Others DEF Alone, Busy
<1> QED
  BY <1>1, <1>4, <1>5, <1>6, <1>7, <1>8, <1>9 DEF ConfigInv

\* Every step keeps the inductive invariant, and does what the action properties allow
LEMMA ConfigStep ==
    ASSUME ConfigInv, [Next]_vars
    PROVE  ConfigInv' /\ [Promise!Next]_promiseVars /\ Kept
<1> USE DEF ConfigInv
<1>1. engine.rev <= MaxEvents
  BY RevBound DEF PageInv
<1>2. PageInv' /\ [Promise!Next]_promiseVars
  <2>1. CASE UNCHANGED vars
    <3>1. LinkInv'
      BY <2>1 DEF vars, linkVars, pageVars, busVars, historyVars, PageInv,
                  LinkInv, LinkTypes, Resting, Own, Empty, Going, Coming
    <3>2. PageTypes' /\ UNCHANGED promiseVars
      BY <2>1 DEF vars, linkVars, pageVars, busVars, historyVars, PageInv, PageTypes, promiseVars
    <3> QED
      BY <3>1, <3>2 DEF PageInv
  <2> QED
    BY <1>1, <2>1, UserStep, PromiseStep, DeviceStep, BreakStep DEF Next, Promise!Next
<1>3. CallsInv'
  BY CallsStep
<1>4. LinkSizes'
  BY <1>1, SizesStep
<1>5. Counters'
  BY CountersStep
<1>6. RevInv'
  BY RevStep
<1>7. Unsaved' /\ Kept
  BY UnsavedStep
<1>8. Alone'
  BY AloneStep
<1>9. UploadInv'
  BY <1>1, UploadStep
<1> QED
  BY <1>2, <1>3, <1>4, <1>5, <1>6, <1>7, <1>8, <1>9

----------------------------------------------------------------------------
(* What the invariant says of the properties *)

\* The inductive invariant gives every variable its type
LEMMA TypeFacts ==
    ASSUME ConfigInv
    PROVE  TypeOK
<1>1. PageInv /\ LinkInv /\ LinkTypes /\ PageTypes /\ CallsInv /\ LinkSizes /\ Counters /\ RevInv
  BY DEF ConfigInv, PageInv, LinkInv
<1>2. \A s \in {rx, wire, acc, fifo} : s \in Seq(Units)
  <2>1. Sent \subseteq Units /\ Back \subseteq Units
    BY DEF Sent, Back, UnitsOf, Units
  <2>2. Seq(Sent) \subseteq Seq(Units) /\ Seq(Back) \subseteq Seq(Units)
    BY <2>1, SeqMonotonic
  <2> QED
    BY <1>1, <2>2 DEF LinkTypes
<1>3. Len(acc) <= AccSize
  <2>1. CASE acc = <<>>
    BY <2>1, EmptySeq, Bounds
  <2>2. CASE acc # <<>>
    <3>1. Len(acc) = 1 /\ acc[1].of.cmd = "DATA"
      BY <1>1, <2>2 DEF LinkSizes, Partial
    <3>2. acc[1] \in Sent
      <4>1. 1 \in 1..Len(acc)
        BY <3>1
      <4> QED
        BY <1>1, <4>1, ElementOfSeq DEF LinkTypes
    <3>3. acc[1].of \in PageRequests
      BY <3>2 DEF Sent, UnitsOf
    <3>4. 1 < AccSize
      BY <3>1, <3>3, ExtraUnits
    <3> QED
      BY <3>1, <3>4, Bounds
  <2> QED
    BY <2>1, <2>2
<1>4. engine.doc \in Docs /\ engine.kept \subseteq Docs /\ engine.rev \in 0..MaxEdits + MaxEvents /\ Len(engine.buf) <= BufSize
  <2>1. engine.rev <= MaxEvents /\ engine.rev \in Nat
    BY <1>1, RevBound DEF PageTypes, Engines
  <2> QED
    BY <1>1, <2>1, Bounds DEF PageTypes, Engines, Buffers
<1>5. task \in [Scripts -> [at : 0..Parts + 4, doc : Shown]]
  <2>1. TaskTypes(task) /\ chain \in Seq(PageRequests) /\ flight \in PageRequests \cup {NoRequest}
    BY <1>1 DEF CallsInv, OneCall, LinkTypes
  <2>2. ASSUME NEW t \in Scripts PROVE task[t].at \in 0..Parts + 4
    <3>1. CASE task[t].at = 0
      BY <3>1, Bounds
    <3>2. ASSUME NEW r \in PageRequests, Listed(task, r), r.task = t PROVE task[t].at \in 0..Parts + 4
      <4>1. task[t].at = r.at /\ r.at \in 1..Parts + 4
        BY <3>2, ListedRuns, ScriptSteps
      <4> QED
        BY <4>1, Bounds
    <3>3. CASE flight # NoRequest /\ flight.task = t
      BY <1>1, <2>1, <3>2, <3>3 DEF CallsInv, OneCall
    <3>4. CASE Queued(chain, t)
      <4>1. PICK i \in 1..Len(chain) : chain[i].task = t
        BY <3>4 DEF Queued
      <4>2. chain[i] \in PageRequests /\ Listed(task, chain[i])
        BY <1>1, <2>1, <4>1, ElementOfSeq DEF CallsInv, OneCall
      <4> QED
        BY <3>2, <4>1, <4>2
    <3> QED
      BY <1>1, <3>1, <3>3, <3>4 DEF CallsInv, OneCall
  <2>3. \A t \in Scripts : task[t] \in [at : Nat, doc : Shown] /\ task[t].at \in 0..Parts + 4
    BY <2>1, <2>2 DEF TaskTypes
  <2>4. \A t \in Scripts : task[t] \in [at : 0..Parts + 4, doc : Shown]
    BY <2>3
  <2> QED
    BY <2>1, <2>4 DEF TaskTypes
<1> QED
  BY <1>1, <1>2, <1>3, <1>4, <1>5 DEF TypeOK, LinkTypes, PageTypes, LinkSizes, Counters

\* The inductive invariant shows a COMMIT its own document
LEMMA CommitFacts ==
    ASSUME ConfigInv
    PROVE  CommitIsOwn
<1> SUFFICES ASSUME Completes, Received.cmd = "COMMIT", fresh
             PROVE  Parsed(engine.buf) = Received.doc \/ (Parsed(engine.buf) = Garbage /\ torn)
  BY DEF CommitIsOwn
<1>1. PageInv /\ LinkInv /\ PageTypes /\ CallsInv /\ UploadInv /\ Parts \in Nat \ {0}
  BY Bounds DEF ConfigInv, PageInv
<1>2. Received = flight /\ flight \in PageRequests /\ flight # NoRequest /\ open /\ runs = 0
  BY <1>1, CompletedOwn
<1>3. Apart
  BY <1>1, <1>2 DEF UploadInv
<1> DEFINE f == flight.task
<1>4. f \in Uploads /\ flight.at = Parts + 2
  <2>1. f \in Writers /\ flight.at = Final(f)
    BY <1>2, ChangingCall
  <2>2. f \in Uploads
    <3>1. f # "reset"
      <4>1. f = "reset" => f \notin Uploads
        BY DEF Uploads
      <4>2. f = "reset" => flight.at = 1
        BY <2>1 DEF Final
      <4> QED
        BY <1>2, <4>1, <4>2, ScriptSteps
    <3> QED
      BY <2>1, <3>1 DEF Writers, Uploads
  <2> QED
    BY <2>1, <2>2 DEF Uploads, Final
<1>5. /\ Listed(task, flight) /\ ~Queued(chain, f) /\ task[f].at = flight.at /\ task[f].doc = flight.doc
      /\ Serving(f) /\ task[f].doc \in Shown
  <2>1. Listed(task, flight) /\ ~Queued(chain, f) /\ f \in Scripts /\ TaskTypes(task)
    BY <1>1, <1>2, <1>4, Others DEF CallsInv, OneCall
  <2> QED
    BY <1>2, <2>1, ListedRuns DEF Serving, TaskTypes
<1>6. Turn(f) = Parts + 2 /\ Turn(f) \in 2..Parts + 2 /\ ~(Turn(f) <= Parts + 1)
  BY <1>1, <1>2, <1>4, <1>5 DEF Turn
<1>7. ~Before(Other(f), f)
  <2>1. Other(f) # f
    BY <1>4, Others
  <2>2. ~Ahead(chain, Other(f), f)
    BY <1>5 DEF Ahead, Queued
  <2> QED
    BY <1>2, <2>1, <2>2 DEF Before, Serving
<1>8. Parsed(engine.buf) # Garbage => Parsed(engine.buf) = task[f].doc
  BY <1>3, <1>4, <1>6, <1>7 DEF Apart, NotForeign
<1>9. ASSUME ~torn, task[f].doc # Garbage PROVE Parsed(engine.buf) = task[f].doc
  <2>1. /\ Len(engine.buf) = Parts
        /\ \A i \in 1..Len(engine.buf) : engine.buf[i] = [doc |-> task[f].doc, part |-> i]
    <3>1. /\ Len(engine.buf) = Turn(f) - 2
          /\ \A i \in 1..Len(engine.buf) : engine.buf[i] = [doc |-> task[f].doc, part |-> i]
      BY <1>3, <1>4, <1>6, <1>9 DEF Apart, Prefix
    <3> QED
      BY <1>1, <1>6, <3>1
  <2>2. task[f].doc \in Docs
    <3>1. task[f].doc # Long
      BY <1>3, <1>4, <1>6 DEF Apart, NotTooLong
    <3> QED
      BY <1>5, <1>9, <3>1, Bounds DEF Shown, Garbage, Long, Docs
  <2> QED
    BY <1>1, <2>1, <2>2, ParsedDoc DEF WholeOf
<1> QED
  BY <1>2, <1>5, <1>8, <1>9

----------------------------------------------------------------------------
(* The theorems *)

\* Every variable keeps its type: the accumulator and the vendor FIFO never hold more
\* than their sizes (webusb_transport.c 84-88, 21-40), config_rev is at most the number
\* of events, and no function of several calls goes past its last one.
THEOREM ConfigTypeCorrect == Spec => []TypeOK
<1>1. Init => ConfigInv
  BY InitConfig
<1>2. ConfigInv /\ [Next]_vars => ConfigInv'
  BY ConfigStep
<1>3. ConfigInv => TypeOK
  BY TypeFacts
<1> QED
  BY <1>1, <1>2, <1>3, PTL DEF Spec

\* A COMMIT takes over the document that its own call uploaded, or the parser refuses
\* what it finds where another upload or a restart came in between.
\* (webusb_protocol.cpp 104-147)
THEOREM CommitsOwnUpload == Spec => []CommitIsOwn
<1>1. Init => ConfigInv
  BY InitConfig
<1>2. ConfigInv /\ [Next]_vars => ConfigInv'
  BY ConfigStep
<1>3. ConfigInv => CommitIsOwn
  BY CommitFacts
<1> QED
  BY <1>1, <1>2, <1>3, PTL DEF Spec

\* An edit made while at most polls are under way stays on screen until another edit
\* replaces it, a COMMIT succeeds or the user reloads, resets, applies a text or
\* connects, however late the answers of the polls come.  (app.js 149-157)
THEOREM EditsSurvive == Spec => EditsKept
<1>1. Init => ConfigInv
  BY InitConfig
<1>2. ConfigInv /\ [Next]_vars => ConfigInv' /\ [mine /\ mine' => page'.shown = page.shown \/ edits' # edits]_vars
  BY ConfigStep DEF Kept
<1> QED
  BY <1>1, <1>2, PTL DEF Spec, EditsKept

\* The link keeps the promise of RequestAnswer: calls are served in order, none is
\* run twice, and one that is answered was answered by its own execution, but for
\* connections opened over the remains of an earlier one.
\* (mi-rc003.js 650-720, webusb_transport.c 21-115)
THEOREM PromiseKept == Spec => KeepsPromise
<1>1. Init => ConfigInv /\ Promise!Init
  BY InitConfig, InitPage
<1>2. ConfigInv /\ [Next]_vars => ConfigInv' /\ [Promise!Next]_(Promise!vars)
  BY ConfigStep DEF promiseVars, Promise!vars
<1> QED
  BY <1>1, <1>2, PTL DEF Spec, KeepsPromise, Promise!Spec

=============================================================================
