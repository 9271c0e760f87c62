-------------------------- MODULE HidBridgeProofs --------------------------
(***************************************************************************)
(* The types of HidBridge and NothingForgotten, for any set of codes and    *)
(* any number of dispatched actions and bus events.                         *)
(***************************************************************************)
EXTENDS HidBridge, TLAPS

----------------------------------------------------------------------------
(* Lists of calls *)

Has(s, x) == \E i \in 1..Len(s) : s[i] = x

\* Whoever enables the transport releases every collection after that
Whole(s) == \A i \in 1..Len(s) : s[i] = "enable" =>
                \A c \in Collections : \E j \in (i + 1)..Len(s) : s[j] = c

\* What usb_recovery_task does after its last wait is put in the place of the wait
AwaitLast(s) == \A i \in 1..Len(s) : s[i] = "await" => i = Len(s)

LEMMA TailType ==
    ASSUME NEW S, NEW s \in Seq(S), s # <<>>
    PROVE  /\ Head(s) \in S /\ Tail(s) \in Seq(S)
           /\ Len(s) \in Nat /\ Len(s) > 0 /\ Len(Tail(s)) = Len(s) - 1
           /\ Head(s) = s[1]
           /\ \A i \in 1..Len(Tail(s)) : Tail(s)[i] = s[i + 1]
OBVIOUS

LEMMA TailHas ==
    ASSUME NEW S, NEW s \in Seq(S), s # <<>>, NEW x, Has(s, x)
    PROVE  Head(s) = x \/ Has(Tail(s), x)
<1>1. PICK i \in 1..Len(s) : s[i] = x
  BY DEF Has
<1>2. CASE i = 1
  BY <1>1, <1>2, TailType
<1>3. CASE i # 1
  <2>1. i - 1 \in 1..Len(Tail(s)) /\ Tail(s)[i - 1] = x
    BY <1>1, <1>3, TailType
  <2> QED
    BY <2>1 DEF Has
<1> QED
  BY <1>2, <1>3

LEMMA TailWhole ==
    ASSUME NEW S, NEW s \in Seq(S), s # <<>>, Whole(s)
    PROVE  /\ Whole(Tail(s))
           /\ Head(s) = "enable" => \A c \in Collections : Has(Tail(s), c)
<1>1. Whole(Tail(s))
  <2> SUFFICES ASSUME NEW i \in 1..Len(Tail(s)), Tail(s)[i] = "enable", NEW c \in Collections
               PROVE  \E j \in (i + 1)..Len(Tail(s)) : Tail(s)[j] = c
    BY DEF Whole
  <2>1. i + 1 \in 1..Len(s) /\ s[i + 1] = "enable"
    BY TailType
  <2>2. PICK j \in (i + 1 + 1)..Len(s) : s[j] = c
    BY <2>1 DEF Whole
  <2>3. j - 1 \in (i + 1)..Len(Tail(s)) /\ Tail(s)[j - 1] = c
    BY <2>2, TailType
  <2> QED
    BY <2>3
<1>2. ASSUME Head(s) = "enable", NEW c \in Collections PROVE Has(Tail(s), c)
  <2>1. 1 \in 1..Len(s) /\ s[1] = "enable"
    BY <1>2, TailType
  <2>2. PICK j \in 2..Len(s) : s[j] = c
    BY <2>1 DEF Whole
  <2>3. j - 1 \in 1..Len(Tail(s)) /\ Tail(s)[j - 1] = c
    BY <2>2, TailType
  <2> QED
    BY <2>3 DEF Has
<1> QED
  BY <1>1, <1>2

LEMMA TailAwait ==
    ASSUME NEW S, NEW s \in Seq(S), s # <<>>, AwaitLast(s)
    PROVE  AwaitLast(Tail(s))
<1> SUFFICES ASSUME NEW i \in 1..Len(Tail(s)), Tail(s)[i] = "await" PROVE i = Len(Tail(s))
  BY DEF AwaitLast
<1>1. i + 1 \in 1..Len(s) /\ s[i + 1] = "await"
  BY TailType
<1> QED
  BY <1>1, TailType DEF AwaitLast

LEMMA Joined ==
    ASSUME NEW S, NEW s \in Seq(S), NEW t \in Seq(S)
    PROVE  /\ s \o t \in Seq(S) /\ Len(s \o t) = Len(s) + Len(t)
           /\ \A i \in 1..Len(s) : (s \o t)[i] = s[i]
           /\ \A i \in 1..Len(t) : (s \o t)[Len(s) + i] = t[i]
OBVIOUS

LEMMA RestoreFirst ==
    ASSUME NEW t \in Seq(Calls), \A i \in 1..Len(t) : t[i] # "enable"
    PROVE  Restore \o t \in Seq(Calls) /\ Whole(Restore \o t)
<1> DEFINE s == Restore \o t
<1>0. Restore \in Seq(Calls)
  <2>1. {"enable", "keyboard", "consumer", "mouse"} \subseteq Calls
    BY DEF Calls, TransportCalls, Collections
  <2> QED
    BY <2>1 DEF Restore
<1>1. Len(Restore) = 4
  BY DEF Restore
<1>2. Restore[2] = "keyboard" /\ Restore[3] = "consumer" /\ Restore[4] = "mouse"
  BY DEF Restore
<1> HIDE DEF Restore
<1>3. /\ s \in Seq(Calls) /\ Len(s) = 4 + Len(t) /\ Len(t) \in Nat
      /\ s[2] = "keyboard" /\ s[3] = "consumer" /\ s[4] = "mouse"
      /\ \A i \in 1..Len(t) : s[4 + i] = t[i]
  <2>1. /\ s \in Seq(Calls) /\ Len(s) = Len(Restore) + Len(t)
        /\ \A i \in 1..Len(Restore) : s[i] = Restore[i]
        /\ \A i \in 1..Len(t) : s[Len(Restore) + i] = t[i]
    BY <1>0, Joined
  <2>2. Len(t) \in Nat
    OBVIOUS
  <2> HIDE DEF s
  <2> QED
    BY <2>1, <2>2, <1>1, <1>2
<1> HIDE DEF s
<1>4. ASSUME NEW i \in 1..Len(s), s[i] = "enable" PROVE i = 1
  <2>1. CASE i > 4
    <3>1. i - 4 \in 1..Len(t) /\ s[4 + (i - 4)] = t[i - 4]
      BY <2>1, <1>3
    <3> QED
      BY <3>1, <1>3, <1>4, <2>1
  <2>2. CASE i \in {2, 3, 4}
    BY <2>2, <1>3, <1>4
  <2> QED
    BY <2>1, <2>2, <1>3
<1>5. {2, 3, 4} \subseteq 2..Len(s)
  BY <1>3
<1>6. Whole(s)
  BY <1>3, <1>4, <1>5 DEF Whole, Collections
<1> QED
  BY <1>3, <1>6 DEF s

LEMMA NoEnable ==
    ASSUME NEW s, \A i \in 1..Len(s) : s[i] # "enable"
    PROVE  Whole(s)
BY DEF Whole

\* The lists that are put in front
Lists == {<<>>, Attached, Detached, Suspended, Resumed, Recovery,
          Restore \o <<"take", "end">>, <<>> \o <<"take", "end">>}

LEMMA UpToSix == \A i \in 1..6 : i = 1 \/ i = 2 \/ i = 3 \/ i = 4 \/ i = 5 \/ i = 6
OBVIOUS

LEMMA ListsWhole ==
    ASSUME NEW s \in Lists
    PROVE  s \in Seq(Calls) /\ Whole(s)
<1>1. CASE s = <<>>
  BY <1>1, NoEnable
<1>2. CASE s = Restore
  <2>1. <<>> \in Seq(Calls) /\ \A i \in 1..Len(<<>>) : <<>>[i] # "enable"
    OBVIOUS
  <2>2. Restore \o <<>> = Restore
    BY DEF Restore
  <2>3. Restore \o <<>> \in Seq(Calls) /\ Whole(Restore \o <<>>)
    BY <2>1, RestoreFirst
  <2> QED
    BY <1>2, <2>2, <2>3
<1>3. CASE s = Detached
  BY <1>3, NoEnable DEF Detached, Calls, TransportCalls
<1>4. CASE s = Suspended
  <2>1. Suspended \in Seq(Calls) /\ Len(Suspended) = 6
    BY DEF Suspended, Calls, TransportCalls, Collections
  <2>2. /\ Suspended[1] # "enable" /\ Suspended[2] # "enable" /\ Suspended[3] # "enable"
        /\ Suspended[4] # "enable" /\ Suspended[5] # "enable" /\ Suspended[6] # "enable"
    BY DEF Suspended
  <2> QED
    BY <1>4, <2>1, <2>2, UpToSix, NoEnable
<1>5. CASE s = Resumed
  BY <1>5, NoEnable DEF Resumed, Calls, TransportCalls
<1>6. CASE s = Recovery
  <2>1. s \in Seq(Calls)
    BY <1>6 DEF Recovery, Calls
  <2>2. \A i \in 1..Len(s) : s[i] # "enable"
    BY <1>6 DEF Recovery
  <2> QED
    BY <2>1, <2>2, NoEnable
<1> DEFINE rest == <<"take", "end">>
<1>7. rest \in Seq(Calls) /\ \A i \in 1..Len(rest) : rest[i] # "enable"
  BY DEF Calls
<1>8. CASE s = Restore \o <<"take", "end">>
  BY <1>7, <1>8, RestoreFirst
<1>9. CASE s = <<>> \o <<"take", "end">>
  <2>1. s = rest
    BY <1>9
  <2> QED
    BY <1>7, <2>1, NoEnable
<1> QED
  BY <1>1, <1>2, <1>3, <1>4, <1>5, <1>6, <1>8, <1>9 DEF Lists, Attached

----------------------------------------------------------------------------
(* Types *)

OpCalls ==
    [what : {"check", "press", "release"}, id : {"keyboard", "consumer"}, key : Codes]
    \cup [what : {"button down", "button up", "move"}, id : {"mouse"}, key : Codes]

ListsOK ==
    /\ usb \in Seq(Calls) /\ Whole(usb)
    /\ rec \in Seq(Calls) /\ Whole(rec) /\ AwaitLast(rec)

OpOK == op \in Seq(OpCalls)

HostOK ==
    /\ host \in [Collections -> SUBSET Codes]
    /\ retry \in Collections \cup {"none"}

FlagsOK ==
    /\ enabled \in BOOLEAN /\ recovering \in BOOLEAN /\ notified \in BOOLEAN
    /\ mounted \in BOOLEAN /\ suspended \in BOOLEAN /\ pullup \in BOOLEAN /\ known \in BOOLEAN

CountsOK == ops \in 0..MaxOps /\ events \in 0..MaxEvents

LEMMA CallType ==
    /\ \A w \in {"check", "press", "release"}, c \in {"keyboard", "consumer"}, k \in Codes :
          Call(w, c, k) \in OpCalls
    /\ \A w \in {"button down", "button up", "move"}, k \in Codes : Call(w, "mouse", k) \in OpCalls
BY DEF Call, OpCalls

LEMMA ShortLists ==
    ASSUME NEW S, NEW a \in S, NEW b \in S, NEW c \in S
    PROVE  <<a>> \in Seq(S) /\ <<a, b>> \in Seq(S) /\ <<a, b, c>> \in Seq(S)
OBVIOUS

LEMMA OperationsType == Operations \subseteq Seq(OpCalls)
<1>1. ASSUME NEW c \in {"keyboard", "consumer"}, NEW k \in Codes
      PROVE  KeyActions(c, k) \subseteq Seq(OpCalls)
  <2>1. {Call("check", c, k), Call("press", c, k), Call("release", c, k)} \subseteq OpCalls
    BY <1>1, CallType
  <2>2. /\ <<Call("check", c, k), Call("press", c, k)>> \in Seq(OpCalls)
        /\ <<Call("check", c, k), Call("press", c, k), Call("release", c, k)>> \in Seq(OpCalls)
        /\ <<Call("release", c, k)>> \in Seq(OpCalls)
    BY <2>1, ShortLists
  <2> QED
    BY <2>2, Zenon DEF KeyActions
<1>2. ASSUME NEW k \in Codes PROVE MouseActions(k) \subseteq Seq(OpCalls)
  <2>1. {Call("button down", "mouse", k), Call("button up", "mouse", k), Call("move", "mouse", k)}
          \subseteq OpCalls
    BY <1>2, CallType
  <2>2. /\ <<Call("button down", "mouse", k)>> \in Seq(OpCalls)
        /\ <<Call("button down", "mouse", k), Call("button up", "mouse", k)>> \in Seq(OpCalls)
        /\ <<Call("button up", "mouse", k)>> \in Seq(OpCalls)
        /\ <<Call("move", "mouse", k)>> \in Seq(OpCalls)
    BY <2>1, ShortLists
  <2> QED
    BY <2>2, Zenon DEF MouseActions
<1> SUFFICES ASSUME NEW s \in Operations PROVE s \in Seq(OpCalls)
  OBVIOUS
<1>3. CASE s \in UNION { KeyActions(c, k) : c \in {"keyboard", "consumer"}, k \in Codes }
  BY <1>1, <1>3
<1>4. CASE s \in UNION { MouseActions(k) : k \in Codes }
  BY <1>2, <1>4
<1>5. \/ s \in UNION { KeyActions(c, k) : c \in {"keyboard", "consumer"}, k \in Codes }
      \/ s \in UNION { MouseActions(k) : k \in Codes }
  BY DEF Operations
<1> QED
  BY <1>3, <1>4, <1>5

LEMMA StepOp == OpOK /\ [Next]_vars => OpOK'
<1> SUFFICES ASSUME OpOK, [Next]_vars PROVE OpOK'
  OBVIOUS
<1>1. ASSUME Begin PROVE OpOK'
  BY <1>1, OperationsType DEF OpOK, Begin
<1>2. ASSUME DispatchStep PROVE OpOK'
  <2>1. op # <<>> /\ (op' = Tail(op) \/ op' = <<>>)
    BY <1>2 DEF DispatchStep
  <2>2. Tail(op) \in Seq(OpCalls)
    BY <2>1, TailType DEF OpOK
  <2>3. <<>> \in Seq(OpCalls)
    OBVIOUS
  <2>4. CASE op' = Tail(op)
    BY <2>2, <2>4 DEF OpOK
  <2>5. CASE op' = <<>>
    BY <2>3, <2>5 DEF OpOK
  <2> QED
    BY <2>1, <2>4, <2>5
<1>3. ASSUME UNCHANGED op PROVE OpOK'
  BY <1>3 DEF OpOK
<1>4. ASSUME UsbStep PROVE Begin \/ UNCHANGED op
  BY <1>4 DEF UsbStep
<1>5. ASSUME Dispatch PROVE Begin
  BY <1>5 DEF Dispatch
<1>6. ASSUME \/ \E c \in Collections : RetryPick(c)
             \/ RetrySend \/ RecoveryTake \/ RecoveryTransport \/ RecoveryStep
             \/ Enumerate \/ Unplug \/ Suspend \/ Resume \/ Poll \/ UNCHANGED vars
      PROVE  UNCHANGED op
  BY <1>6 DEF RetryPick, RetrySend, RecoveryTake, RecoveryTransport, RecoveryStep, Enumerate,
              Unplug, Suspend, Resume, Poll, HostEvent, taskVars, vars
<1> QED
  BY <1>1, <1>2, <1>3, <1>4, <1>5, <1>6 DEF Next

LEMMA RecoveryAwait ==
    AwaitLast(Recovery) /\ AwaitLast(Restore \o <<"take", "end">>)
                        /\ AwaitLast(<<>> \o <<"take", "end">>)
<1>1. AwaitLast(Recovery)
  <2>1. Len(Recovery) = 5
    BY DEF Recovery
  <2>2. /\ Recovery[1] # "await" /\ Recovery[2] # "await" /\ Recovery[3] # "await"
        /\ Recovery[4] # "await"
    BY DEF Recovery
  <2> QED
    BY <2>1, <2>2, UpToSix DEF AwaitLast
<1>2. AwaitLast(Restore \o <<"take", "end">>)
  <2> DEFINE t == <<"take", "end">>
  <2>1. t \in Seq(Calls) /\ \A i \in 1..Len(t) : t[i] # "await"
    BY DEF Calls
  <2>2. Restore \in Seq(Calls) /\ \A i \in 1..Len(Restore) : Restore[i] # "await"
    <3>1. {"enable", "keyboard", "consumer", "mouse"} \subseteq Calls
      BY DEF Calls, TransportCalls, Collections
    <3> QED
      BY <3>1 DEF Restore
  <2> HIDE DEF t, Restore
  <2>3. ASSUME NEW i \in 1..Len(Restore \o t) PROVE (Restore \o t)[i] # "await"
    <3>1. CASE i <= Len(Restore)
      BY <2>1, <2>2, <3>1, Joined
    <3>2. CASE i > Len(Restore)
      <4>1. i - Len(Restore) \in 1..Len(t) /\ Len(Restore) + (i - Len(Restore)) = i
        BY <2>1, <2>2, <3>2, Joined
      <4> QED
        BY <4>1, <2>1, <2>2, Joined
    <3> QED
      BY <3>1, <3>2, <2>1, <2>2
  <2> QED
    BY <2>3 DEF AwaitLast, t
<1>3. AwaitLast(<<>> \o <<"take", "end">>)
  <2>1. <<>> \o <<"take", "end">> = <<"take", "end">>
    OBVIOUS
  <2> QED
    BY <2>1 DEF AwaitLast
<1> QED
  BY <1>1, <1>2, <1>3

LEMMA StepLists == ListsOK /\ [Next]_vars => ListsOK'
<1> SUFFICES ASSUME ListsOK, [Next]_vars PROVE ListsOK'
  OBVIOUS
<1>1. ASSUME NEW s \in Lists PROVE s \in Seq(Calls) /\ Whole(s)
  BY <1>1, ListsWhole
<1>2. ASSUME UsbStep PROVE ListsOK'
  <2>1. usb # <<>> /\ usb' = Tail(usb) /\ rec' = rec
    BY <1>2 DEF UsbStep
  <2> QED
    BY <2>1, TailType, TailWhole DEF ListsOK
<1>3. ASSUME RecoveryTake PROVE ListsOK'
  BY <1>3, <1>1, RecoveryAwait DEF RecoveryTake, ListsOK, Lists
<1>4. ASSUME RecoveryTransport PROVE ListsOK'
  <2>1. rec # <<>> /\ rec' = Tail(rec) /\ usb' = usb
    BY <1>4 DEF RecoveryTransport
  <2> QED
    BY <2>1, TailType, TailWhole, TailAwait DEF ListsOK
<1>5. ASSUME RecoveryStep PROVE ListsOK'
  <2>1. /\ rec # <<>> /\ usb' = usb
        /\ \/ rec' = Tail(rec)
           \/ rec' \in {Restore \o <<"take", "end">>, <<>> \o <<"take", "end">>}
    BY <1>5 DEF RecoveryStep
  <2>2. CASE rec' = Tail(rec)
    BY <2>1, <2>2, TailType, TailWhole, TailAwait DEF ListsOK
  <2>3. CASE rec' \in {Restore \o <<"take", "end">>, <<>> \o <<"take", "end">>}
    BY <2>1, <2>3, <1>1, RecoveryAwait DEF ListsOK, Lists
  <2> QED
    BY <2>1, <2>2, <2>3
<1>6. ASSUME Enumerate \/ Unplug \/ Suspend \/ Resume PROVE ListsOK'
  <2>1. usb' \in Lists /\ rec' = rec
    BY <1>6 DEF Enumerate, Unplug, Suspend, Resume, HostEvent, Lists
  <2> QED
    BY <2>1, <1>1 DEF ListsOK
<1>7. ASSUME \/ Dispatch \/ DispatchStep \/ RetrySend \/ Poll \/ UNCHANGED vars
             \/ \E c \in Collections : RetryPick(c)
      PROVE  ListsOK'
  <2>1. UNCHANGED <<usb, rec>>
    BY <1>7 DEF Dispatch, DispatchStep, RetrySend, Poll, RetryPick, taskVars, vars
  <2> QED
    BY <2>1 DEF ListsOK
<1> QED
  BY <1>2, <1>3, <1>4, <1>5, <1>6, <1>7 DEF Next

\* What a report changes
ReportOK ==
    /\ held \in [Collections -> SUBSET Codes]
    /\ pending \in [Collections -> BOOLEAN]
    /\ endpoint \in Report \cup {NoReport}

LEMMA ReleaseType ==
    ASSUME ReportOK, NEW c \in Collections, Release(c)
    PROVE  ReportOK'
<1>1. [id |-> c, down |-> {}] \in Report
  BY DEF Report
<1>2. endpoint' = [id |-> c, down |-> {}] \/ endpoint' = endpoint
  BY DEF Release
<1>3. (~Ready) \in BOOLEAN
  BY DEF Ready
<1> QED
  BY <1>1, <1>2, <1>3 DEF ReportOK, Release

LEMMA PressType ==
    ASSUME ReportOK, NEW c \in Collections, NEW k \in Codes, Press(c, k)
    PROVE  ReportOK'
<1>1. [id |-> c, down |-> {k}] \in Report
  BY DEF Report
<1>2. endpoint' = [id |-> c, down |-> {k}] \/ endpoint' = endpoint
  BY DEF Press
<1>3. (pending[c] /\ ~Claimable) \in BOOLEAN
  OBVIOUS
<1> QED
  BY <1>1, <1>2, <1>3 DEF ReportOK, Press

LEMMA MouseType ==
    ASSUME ReportOK, NEW b \in SUBSET Codes, NEW r \in BOOLEAN, MouseReport(b, r)
    PROVE  ReportOK'
<1>0. "mouse" \in Collections
  BY DEF Collections
<1>1. [id |-> "mouse", down |-> b] \in Report
  BY <1>0 DEF Report
<1>2. endpoint' = [id |-> "mouse", down |-> b] \/ endpoint' = endpoint
  BY DEF MouseReport
<1>3. (IF Ready THEN FALSE ELSE pending["mouse"] \/ r) \in BOOLEAN
  OBVIOUS
<1> QED
  BY <1>0, <1>1, <1>2, <1>3 DEF ReportOK, MouseReport

LEMMA TransportType ==
    ASSUME ReportOK, NEW call \in TransportCalls, Transport(call)
    PROVE  ReportOK'
<1>1. CASE call \in {"enable", "disable"}
  BY <1>1 DEF Transport, SetTransport, ReportOK
<1>2. CASE call \in Collections
  BY <1>2, ReleaseType DEF Transport, Collections
<1> QED
  BY <1>1, <1>2 DEF TransportCalls

LEMMA DispatchStepReports ==
    ASSUME OpOK, DispatchStep
    PROVE  \/ \E c \in {"keyboard", "consumer"}, k \in Codes : Press(c, k)
           \/ \E c \in {"keyboard", "consumer"} : Release(c)
           \/ \E k \in Codes : MouseReport(held["mouse"] \cup {k}, FALSE)
           \/ \E k \in Codes : MouseReport(held["mouse"] \ {k}, TRUE)
           \/ MouseReport(held["mouse"], FALSE)
           \/ UNCHANGED <<held, pending, endpoint>>
<1>1. op # <<>> /\ Head(op) \in OpCalls
  BY TailType DEF OpOK, DispatchStep
<1>2. CASE Head(op).what = "check"
  BY <1>2 DEF DispatchStep
<1>3. CASE Head(op).what = "press"
  BY <1>1, <1>3 DEF DispatchStep, OpCalls
<1>4. CASE Head(op).what = "release"
  BY <1>1, <1>4 DEF DispatchStep, OpCalls
<1>5. CASE Head(op).what = "button down"
  BY <1>1, <1>5 DEF DispatchStep, OpCalls
<1>6. CASE Head(op).what = "button up"
  BY <1>1, <1>6 DEF DispatchStep, OpCalls
<1>7. CASE Head(op).what = "move"
  BY <1>1, <1>7 DEF DispatchStep, OpCalls
<1> QED
  BY <1>1, <1>2, <1>3, <1>4, <1>5, <1>6, <1>7 DEF OpCalls

\* The steps that send no report and leave the transport as it is
Elsewhere ==
    \/ Dispatch \/ RecoveryTake \/ RecoveryStep \/ Resume \/ Suspend
    \/ \E c \in Collections : RetryPick(c)
    \/ UNCHANGED vars

LEMMA ElsewhereReports == Elsewhere => UNCHANGED <<held, pending, endpoint, enabled>>
BY DEF Elsewhere, Dispatch, RecoveryTake, RecoveryStep, Resume, Suspend, RetryPick, HostEvent,
       deviceVars, vars

LEMMA StepReport ==
    ASSUME ReportOK, OpOK, retry \in Collections \cup {"none"}, [Next]_vars
    PROVE  ReportOK'
<1>1. CASE Elsewhere
  BY <1>1, ElsewhereReports DEF ReportOK
<1>2. CASE DispatchStep
  <2>1. held["mouse"] \in SUBSET Codes
    BY DEF ReportOK, Collections
  <2>2. {"keyboard", "consumer"} \subseteq Collections
    BY DEF Collections
  <2>3. CASE \E c \in {"keyboard", "consumer"}, k \in Codes : Press(c, k)
    BY <2>2, <2>3, PressType
  <2>4. CASE \E c \in {"keyboard", "consumer"} : Release(c)
    BY <2>2, <2>4, ReleaseType
  <2>5. CASE \E b \in SUBSET Codes, r \in BOOLEAN : MouseReport(b, r)
    BY <2>5, MouseType
  <2>6. CASE UNCHANGED <<held, pending, endpoint>>
    BY <2>6 DEF ReportOK
  <2> QED
    BY <1>2, <2>1, <2>3, <2>4, <2>5, <2>6, DispatchStepReports
<1>3. CASE RetrySend
  BY <1>3, ReleaseType DEF RetrySend
<1>4. CASE UsbStep
  BY <1>4, TransportType DEF UsbStep, ReportOK, deviceVars
<1>5. CASE RecoveryTransport
  BY <1>5, TransportType DEF RecoveryTransport
<1>6. CASE Enumerate \/ Unplug \/ Poll
  BY <1>6 DEF Enumerate, Unplug, Poll, HostEvent, deviceVars, ReportOK
<1> QED
  BY <1>1, <1>2, <1>3, <1>4, <1>5, <1>6 DEF Next, Elsewhere

LEMMA StepHost ==
    ASSUME HostOK, ReportOK, [Next]_vars
    PROVE  HostOK'
<1> USE DEF HostOK
<1>1. ASSUME Poll PROVE HostOK'
  <2>1. endpoint \in Report
    BY <1>1 DEF Poll, ReportOK
  <2> QED
    BY <1>1, <2>1 DEF Poll, Report, taskVars
<1>2. ASSUME Enumerate \/ Unplug \/ Suspend \/ Resume PROVE HostOK'
  BY <1>2 DEF Enumerate, Unplug, Suspend, Resume, HostEvent
<1>3. ASSUME RecoveryStep \/ RecoveryTake \/ RecoveryTransport PROVE HostOK'
  BY <1>3 DEF RecoveryStep, RecoveryTake, RecoveryTransport
<1>4. ASSUME Dispatch \/ DispatchStep \/ RetrySend \/ \E c \in Collections : RetryPick(c)
      PROVE  HostOK'
  BY <1>4 DEF Dispatch, DispatchStep, RetrySend, RetryPick
<1>5. ASSUME UsbStep \/ UNCHANGED vars PROVE HostOK'
  BY <1>5 DEF UsbStep, vars, taskVars
<1> QED
  BY <1>1, <1>2, <1>3, <1>4, <1>5 DEF Next

LEMMA StepFlags == FlagsOK /\ [Next]_vars => FlagsOK'
<1> SUFFICES ASSUME FlagsOK, [Next]_vars PROVE FlagsOK'
  OBVIOUS
<1> USE DEF FlagsOK, busVars, deviceVars, taskVars
<1>1. ASSUME UsbStep PROVE FlagsOK'
  BY <1>1 DEF UsbStep, Transport, SetTransport
<1>2. ASSUME RecoveryTransport PROVE FlagsOK'
  BY <1>2 DEF RecoveryTransport, Transport, SetTransport
<1>3. ASSUME RecoveryStep PROVE FlagsOK'
  BY <1>3 DEF RecoveryStep
<1>4. ASSUME RecoveryTake PROVE FlagsOK'
  BY <1>4 DEF RecoveryTake
<1>5. ASSUME Enumerate \/ Unplug \/ Suspend \/ Resume PROVE FlagsOK'
  BY <1>5 DEF Enumerate, Unplug, Suspend, Resume, HostEvent
<1>6. ASSUME \/ Dispatch \/ DispatchStep \/ RetrySend \/ Poll \/ UNCHANGED vars
             \/ \E c \in Collections : RetryPick(c)
      PROVE  FlagsOK'
  BY <1>6 DEF Dispatch, DispatchStep, RetrySend, RetryPick, Poll, vars
<1> QED
  BY <1>1, <1>2, <1>3, <1>4, <1>5, <1>6 DEF Next

LEMMA StepCounts == CountsOK /\ [Next]_vars => CountsOK'
<1> SUFFICES ASSUME CountsOK, [Next]_vars PROVE CountsOK'
  OBVIOUS
<1> USE BoundsAssumption DEF CountsOK
<1>1. ASSUME Begin PROVE ops' \in 0..MaxOps
  BY <1>1 DEF Begin
<1>2. ASSUME NEW callback, HostEvent(callback) PROVE CountsOK'
  BY <1>2 DEF HostEvent
<1>3. ASSUME UsbStep \/ Dispatch PROVE CountsOK'
  BY <1>1, <1>3 DEF UsbStep, Dispatch
<1>4. ASSUME Unplug \/ Suspend PROVE CountsOK'
  BY <1>2, <1>4 DEF Unplug, Suspend
<1>5. ASSUME \/ Enumerate \/ Resume \/ Poll \/ DispatchStep \/ RetrySend
             \/ RecoveryStep \/ RecoveryTake \/ RecoveryTransport \/ UNCHANGED vars
             \/ \E c \in Collections : RetryPick(c)
      PROVE  CountsOK'
  BY <1>5 DEF Enumerate, Resume, Poll, DispatchStep, RetrySend, RecoveryStep, RecoveryTake,
              RecoveryTransport, RetryPick, vars
<1> QED
  BY <1>3, <1>4, <1>5 DEF Next

\* The types, with the shapes of the lists that they rest on
Typed == ListsOK /\ OpOK /\ ReportOK /\ HostOK /\ FlagsOK /\ CountsOK

LEMMA InitTyped == Init => Typed
<1> SUFFICES ASSUME Init PROVE Typed
  OBVIOUS
<1>1. ListsOK /\ OpOK
  BY NoEnable DEF Init, ListsOK, OpOK, AwaitLast
<1>2. ReportOK /\ HostOK
  BY DEF Init, ReportOK, HostOK
<1>3. FlagsOK
  BY DEF Init, FlagsOK
<1>4. CountsOK
  BY BoundsAssumption DEF Init, CountsOK
<1> QED
  BY <1>1, <1>2, <1>3, <1>4 DEF Typed

LEMMA StepTyped == Typed /\ [Next]_vars => Typed'
BY StepLists, StepOp, StepReport, StepHost, StepFlags, StepCounts DEF Typed, HostOK

\* Every variable keeps its type, and a list of calls that enables the transport
\* goes on to release every collection (usb_restore_hid_transport).
THEOREM HidTypeCorrect == Spec => []TypeOK
<1>1. Typed => TypeOK
  BY DEF Typed, ListsOK, ReportOK, HostOK, FlagsOK, CountsOK, TypeOK
<1> QED
  BY <1>1, InitTyped, StepTyped, PTL DEF Spec

----------------------------------------------------------------------------
(* Nothing is forgotten *)

\* Somebody has yet to release c, or to disable the transport
Covered(c) == pending[c] \/ retry = c \/ Has(usb, c) \/ Has(usb, "disable") \/ Has(rec, c)

Safe(c) == enabled /\ Forgotten(c) => Covered(c)

LEMMA SafeMeans ==
    /\ NothingForgotten <=> \A c \in Collections : Safe(c)
    /\ NothingForgotten' <=> \A c \in Collections : Safe(c)'
<1>1. \A c \in Collections : (\E i \in 1..Len(usb) : usb[i] \in {c, "disable"})
                               <=> Has(usb, c) \/ Has(usb, "disable")
  BY DEF Has
<1>2. \A c \in Collections : (\E i \in 1..Len(rec) : rec[i] = c) <=> Has(rec, c)
  BY DEF Has
<1>3. \A c \in Collections : (\E i \in 1..Len(usb') : usb'[i] \in {c, "disable"})
                               <=> Has(usb', c) \/ Has(usb', "disable")
  BY DEF Has
<1>4. \A c \in Collections : (\E i \in 1..Len(rec') : rec'[i] = c) <=> Has(rec', c)
  BY DEF Has
<1> QED
  BY <1>1, <1>2, <1>3, <1>4 DEF NothingForgotten, Safe, Covered

\* A release settles its collection and leaves the others alone
LEMMA ReleaseSettles ==
    ASSUME ReportOK, NEW c \in Collections, Release(c), UNCHANGED host,
           NEW d \in Collections
    PROVE  IF d = c THEN Forgotten(d)' => pending'[d]
                    ELSE /\ Forgotten(d)' => Forgotten(d)
                         /\ pending'[d] = pending[d]
<1> USE DEF Collections, Forgotten, Seen, NoReport
<1>1. CASE Ready
  BY <1>1 DEF Release, ReportOK, Ready
<1>2. CASE ~Ready
  BY <1>2 DEF Release, ReportOK
<1> QED
  BY <1>1, <1>2

LEMMA PressKeeps ==
    ASSUME ReportOK, NEW c \in {"keyboard", "consumer"}, NEW k \in Codes, Press(c, k),
           UNCHANGED host, NEW d \in Collections
    PROVE  IF d = c THEN ~Forgotten(d)'
                    ELSE (Forgotten(d)' => Forgotten(d)) /\ pending'[d] = pending[d]
<1> USE DEF Collections, Forgotten, Seen, NoReport
<1>1. CASE Claimable
  BY <1>1 DEF Press, ReportOK, Claimable
<1>2. CASE ~Claimable
  BY <1>2 DEF Press, ReportOK
<1> QED
  BY <1>1, <1>2

\* The mouse buttons: b is the new mask, and where it drops a button, r is TRUE
LEMMA MouseKeeps ==
    ASSUME ReportOK, NEW b \in SUBSET Codes, NEW r \in BOOLEAN, MouseReport(b, r),
           r \/ held["mouse"] \subseteq b, UNCHANGED host, NEW d \in Collections
    PROVE  Forgotten(d)' => pending'[d] \/ (Forgotten(d) /\ (pending[d] => pending'[d]))
<1> USE DEF Collections, Forgotten, Seen, NoReport
<1>1. CASE Ready
  BY <1>1 DEF MouseReport, ReportOK, Ready
<1>2. CASE ~Ready
  <2>1. CASE r
    BY <1>2, <2>1 DEF MouseReport, ReportOK
  <2>2. CASE ~r
    BY <1>2, <2>2 DEF MouseReport, ReportOK
  <2> QED
    BY <2>1, <2>2
<1> QED
  BY <1>1, <1>2

LEMMA DispatchSafe ==
    ASSUME ReportOK, OpOK, DispatchStep, NEW d \in Collections, Safe(d)
    PROVE  Safe(d)'
<1>1. UNCHANGED <<enabled, retry, usb, rec, host>>
  BY DEF DispatchStep
<1>2. ASSUME Forgotten(d)' => pending'[d] \/ (Forgotten(d) /\ (pending[d] => pending'[d]))
      PROVE  Safe(d)'
  BY <1>1, <1>2 DEF Safe, Covered, Has
<1>3. held["mouse"] \in SUBSET Codes
  BY DEF ReportOK, Collections
<1>4. CASE \E c \in {"keyboard", "consumer"}, k \in Codes : Press(c, k)
  BY <1>1, <1>2, <1>4, PressKeeps
<1>5. CASE \E c \in {"keyboard", "consumer"} : Release(c)
  <2>1. {"keyboard", "consumer"} \subseteq Collections
    BY DEF Collections
  <2> QED
    BY <2>1, <1>1, <1>2, <1>5, ReleaseSettles
<1>6. CASE \E k \in Codes : MouseReport(held["mouse"] \cup {k}, FALSE)
  BY <1>1, <1>2, <1>3, <1>6, MouseKeeps
<1>7. CASE \E k \in Codes : MouseReport(held["mouse"] \ {k}, TRUE)
  BY <1>1, <1>2, <1>3, <1>7, MouseKeeps
<1>8. CASE MouseReport(held["mouse"], FALSE)
  BY <1>1, <1>2, <1>3, <1>8, MouseKeeps
<1>9. CASE UNCHANGED <<held, pending, endpoint>>
  BY <1>1, <1>2, <1>9 DEF Forgotten, Seen
<1> QED
  BY <1>4, <1>5, <1>6, <1>7, <1>8, <1>9, DispatchStepReports

LEMMA RetrySafe ==
    ASSUME ReportOK, HostOK, RetrySend, NEW d \in Collections, Safe(d)
    PROVE  Safe(d)'
<1>1. UNCHANGED <<enabled, usb, rec, host>> /\ retry \in Collections /\ Release(retry)
  BY DEF RetrySend, HostOK, busVars
<1>2. IF d = retry THEN Forgotten(d)' => pending'[d]
                   ELSE (Forgotten(d)' => Forgotten(d)) /\ pending'[d] = pending[d]
  BY <1>1, ReleaseSettles
<1> QED
  BY <1>1, <1>2 DEF Safe, Covered, Has

LEMMA UsbSafe ==
    ASSUME Typed, UsbStep, NEW d \in Collections, Safe(d)
    PROVE  Safe(d)'
<1>1. /\ usb # <<>> /\ usb' = Tail(usb)
      /\ UNCHANGED <<retry, rec, host>>
  BY DEF UsbStep
<1>2. \A x : Has(usb, x) => Head(usb) = x \/ Has(usb', x)
  BY <1>1, TailHas DEF Typed, ListsOK
<1>3. CASE Head(usb) \in TransportCalls
  <2>1. Transport(Head(usb))
    BY <1>3 DEF UsbStep, TransportCalls, Collections
  <2>2. CASE Head(usb) = "enable"
    BY <1>1, <2>2, TailWhole DEF Typed, ListsOK, Safe, Covered
  <2>3. CASE Head(usb) = "disable"
    BY <2>1, <2>3 DEF Transport, SetTransport, Safe
  <2>4. CASE Head(usb) \in Collections
    <3>1. Release(Head(usb)) /\ UNCHANGED enabled
      BY <2>1, <2>4 DEF Transport, Collections
    <3>2. IF d = Head(usb) THEN Forgotten(d)' => pending'[d]
                           ELSE (Forgotten(d)' => Forgotten(d)) /\ pending'[d] = pending[d]
      BY <3>1, <2>4, <1>1, ReleaseSettles DEF Typed
    <3>3. Head(usb) # "disable"
      BY <2>4 DEF Collections
    <3> QED
      BY <1>1, <1>2, <3>1, <3>2, <3>3 DEF Safe, Covered, Has
  <2> QED
    BY <1>3, <2>2, <2>3, <2>4 DEF TransportCalls
<1>4. CASE Head(usb) \notin TransportCalls
  <2>1. UNCHANGED <<enabled, held, pending, endpoint>>
    BY <1>4 DEF UsbStep, deviceVars
  <2>2. Head(usb) # d /\ Head(usb) # "disable"
    BY <1>4 DEF TransportCalls
  <2> QED
    BY <1>1, <1>2, <2>1, <2>2 DEF Safe, Covered, Forgotten, Seen, Has
<1> QED
  BY <1>3, <1>4

LEMMA RecoverySafe ==
    ASSUME Typed, RecoveryTransport, NEW d \in Collections, Safe(d)
    PROVE  Safe(d)'
<1>1. /\ rec # <<>> /\ rec' = Tail(rec) /\ Head(rec) \in TransportCalls
      /\ Transport(Head(rec))
      /\ UNCHANGED <<retry, usb, host>>
  BY DEF RecoveryTransport
<1>2. \A x : Has(rec, x) => Head(rec) = x \/ Has(rec', x)
  BY <1>1, TailHas DEF Typed, ListsOK
<1>3. CASE Head(rec) = "enable"
  BY <1>1, <1>3, TailWhole DEF Typed, ListsOK, Safe, Covered
<1>4. CASE Head(rec) = "disable"
  BY <1>1, <1>4 DEF Transport, SetTransport, Safe
<1>5. CASE Head(rec) \in Collections
  <2>1. Release(Head(rec)) /\ UNCHANGED enabled
    BY <1>1, <1>5 DEF Transport, Collections
  <2>2. IF d = Head(rec) THEN Forgotten(d)' => pending'[d]
                         ELSE (Forgotten(d)' => Forgotten(d)) /\ pending'[d] = pending[d]
    BY <2>1, <1>5, <1>1, ReleaseSettles DEF Typed
  <2> QED
    BY <1>1, <1>2, <2>1, <2>2 DEF Safe, Covered, Has
<1> QED
  BY <1>1, <1>3, <1>4, <1>5 DEF TransportCalls

LEMMA RecoveryStepSafe ==
    ASSUME Typed, RecoveryStep, NEW d \in Collections, Safe(d)
    PROVE  Safe(d)'
<1>1. /\ rec # <<>>
      /\ UNCHANGED <<enabled, held, pending, endpoint, retry, usb>>
      /\ UNCHANGED host \/ host' = [c \in Collections |-> {}]
  BY DEF RecoveryStep, deviceVars
<1>2. Forgotten(d)' => Forgotten(d)
  BY <1>1 DEF Forgotten, Seen
<1>3. Has(rec, d) => Has(rec', d)
  <2>1. CASE Head(rec) = "await"
    <3>1. 1 \in 1..Len(rec) /\ rec[1] = "await" /\ Len(rec) \in Nat
      BY <1>1, <2>1, TailType DEF Typed, ListsOK
    <3>2. Len(rec) = 1
      BY <3>1 DEF Typed, ListsOK, AwaitLast
    <3>3. ~Has(rec, d)
      BY <3>1, <3>2 DEF Has, Collections
    <3> QED
      BY <3>3
  <2>2. CASE Head(rec) # "await"
    <3>1. rec' = Tail(rec) /\ Head(rec) \notin Collections
      BY <2>2 DEF RecoveryStep, Collections
    <3> QED
      BY <3>1, <1>1, TailHas DEF Typed, ListsOK
  <2> QED
    BY <2>1, <2>2
<1> QED
  BY <1>1, <1>2, <1>3 DEF Safe, Covered, Has

LEMMA OtherSafe ==
    ASSUME Typed, NEW d \in Collections, Safe(d),
           \/ Dispatch \/ RecoveryTake \/ Resume \/ Suspend \/ Enumerate \/ Unplug \/ Poll
           \/ \E c \in Collections : RetryPick(c)
           \/ UNCHANGED vars
    PROVE  Safe(d)'
<1>1. CASE Dispatch \/ UNCHANGED vars
  BY <1>1 DEF Dispatch, vars, deviceVars, taskVars, Safe, Covered, Forgotten, Seen, Has
<1>2. CASE RecoveryTake
  <2>1. ~Has(rec, d)
    BY <1>2 DEF RecoveryTake, Has
  <2> QED
    BY <1>2, <2>1 DEF RecoveryTake, deviceVars, Safe, Covered, Forgotten, Seen, Has
<1>3. CASE Resume \/ Suspend
  <2>1. ~Has(usb, d) /\ ~Has(usb, "disable")
    BY <1>3 DEF Resume, Suspend, HostEvent, Has
  <2> QED
    BY <1>3, <2>1 DEF Resume, Suspend, HostEvent, deviceVars, Safe, Covered, Forgotten, Seen, Has
<1>4. CASE Enumerate \/ Unplug
  BY <1>4 DEF Enumerate, Unplug, Safe, Forgotten, Seen, NoReport
<1>5. CASE Poll
  <2>1. endpoint \in Report
    BY <1>5 DEF Poll, Typed, ReportOK
  <2>2. Forgotten(d)' <=> Forgotten(d)
    BY <1>5, <2>1 DEF Poll, Typed, HostOK, Forgotten, Seen, NoReport, Report, deviceVars, Collections
  <2> QED
    BY <1>5, <2>2 DEF Poll, deviceVars, taskVars, Safe, Covered, Has
<1>6. CASE \E c \in Collections : RetryPick(c)
  BY <1>6 DEF RetryPick, deviceVars, Safe, Covered, Forgotten, Seen, Has, Collections
<1> QED
  BY <1>1, <1>2, <1>3, <1>4, <1>5, <1>6

LEMMA StepSafe == Typed /\ NothingForgotten /\ [Next]_vars => NothingForgotten'
<1> SUFFICES ASSUME Typed, NothingForgotten, [Next]_vars, NEW d \in Collections
             PROVE  Safe(d)'
  BY SafeMeans
<1>1. Safe(d)
  BY SafeMeans
<1> QED
  BY <1>1, DispatchSafe, RetrySafe, UsbSafe, RecoverySafe, RecoveryStepSafe, OtherSafe
     DEF Next, Typed

\* While the transport is enabled, a key, usage or button that is down on the host is
\* known or has its release on the way, for any codes, operations and bus events
\* (usb_hid_keyboard_release and its like, hid_release_retry_task, usb_event_cb,
\* usb_recovery_task).
THEOREM NothingLost == Spec => []NothingForgotten
<1>1. Init => NothingForgotten
  BY DEF Init, NothingForgotten
<1> QED
  BY <1>1, InitTyped, StepTyped, StepSafe, PTL DEF Spec
============================================================================
