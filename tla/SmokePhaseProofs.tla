--------------------------- MODULE SmokePhaseProofs ---------------------------
(***************************************************************************)
(* What the smoke phase guarantees for any scenario, however many          *)
(* listeners, vectors and connections there are and however they fall.     *)
(***************************************************************************)
EXTENDS SmokePhase, TLAPS, SequenceTheorems, WellFoundedInduction

----------------------------------------------------------------------------
(* Windows.  Only the network check touches the listeners and their logs;  *)
(* what it reads is a stretch of each log that ends at the cursor.         *)
Conns ==
    [id : Nat, path : {"/control", "other"}, at : Nat,
     during : {"start", "call", "grace", "between"}]

LogsAndCursors ==
    /\ backlog \in [Network!Listeners -> Seq(Conns)]
    /\ log \in [Network!Listeners -> Seq(Conns)]
    /\ taken \in [Network!Listeners -> Seq(Conns)]
    /\ cursor \in [Network!Listeners -> Nat]
    /\ \A l \in Network!Listeners : cursor[l] <= Len(log[l])
    /\ made \in Nat /\ netAt \in Nat

(* The listeners are marked before anything is read.                       *)
MarkedFirst ==
    /\ left \in Seq(Network!Listeners)
    /\ netStep = "look" => left = Network!Order
    /\ netStep = "mark" => left # <<>>
    /\ netStep \in {"look", "mark"} => \A l \in Network!Listeners : taken[l] = <<>>

WindowsInv == LogsAndCursors /\ MarkedFirst /\ OneWindowEach

Window(l, first) == taken[l] = SubSeq(log[l], first + 1, cursor[l])

(* A sequence is one of its own elements.                                  *)
LEMMA OwnElements ==
    ASSUME NEW S, NEW s \in Seq(S)
    PROVE  s \in Seq(ToSet(s))
BY SeqOfRange DEF ToSet, Range

LEMMA OrderOfListeners ==
    /\ Network!Order \in Seq(Network!Listeners)
    /\ Network!Order # <<>>
<1> DEFINE S == STRING \cup {"allowed"}
<1>1. Denied \in Seq(S) /\ Len(Denied) \in Nat
  BY ConstantsAssumption, SeqMonotonic, LenProperties
<1>2. /\ <<"allowed">> \o Denied \in Seq(S)
      /\ Len(<<"allowed">> \o Denied) = 1 + Len(Denied)
  <2>1. <<"allowed">> \in Seq(S) /\ Len(<<"allowed">>) = 1
    OBVIOUS
  <2> QED
    BY <1>1, <2>1, ConcatProperties
<1>3. <<"allowed">> \o Denied # <<>>
  BY <1>1, <1>2
<1>4. <<"allowed">> \o Denied \in Seq(ToSet(<<"allowed">> \o Denied))
  BY <1>2, OwnElements, Zenon
<1> QED
  BY <1>3, <1>4 DEF Network!Order, Network!Listeners, Network!ToSet, ToSet

LEMMA WindowsInit == PhaseInit => WindowsInv
<1> SUFFICES ASSUME PhaseInit PROVE WindowsInv
  OBVIOUS
<1>1. LogsAndCursors
  BY DEF PhaseInit, Network!Init, LogsAndCursors, Network!Control
<1>2. MarkedFirst
  BY OrderOfListeners DEF PhaseInit, Network!Init, MarkedFirst
<1>3. OneWindowEach
  <2> SUFFICES ASSUME NEW l \in Network!Listeners
               PROVE  \E first \in 0 .. cursor[l] : Window(l, first)
    BY DEF OneWindowEach, Network!OneWindowEach, Window
  <2>1. cursor[l] = 0 /\ taken[l] = <<>>
    BY DEF PhaseInit, Network!Init
  <2>2. SubSeq(log[l], 0 + 1, cursor[l]) = <<>>
    BY <2>1, SubSeqEmpty
  <2> QED
    BY <2>1, <2>2 DEF Window
<1> QED
  BY <1>1, <1>2, <1>3 DEF WindowsInv

(* Where neither logs nor cursors change, neither do the windows.          *)
LEMMA WindowsKept ==
    ASSUME WindowsInv, UNCHANGED <<log, cursor, taken>>
    PROVE  OneWindowEach'
BY DEF WindowsInv, OneWindowEach, Network!OneWindowEach

(* A connection is accepted, or made, without effect on what was read.     *)
LEMMA AcceptKeepsWindows ==
    ASSUME WindowsInv, NEW l \in Network!Listeners, Network!Accept(l)
    PROVE  WindowsInv'
<1>1. PICK c \in Conns : log' = [log EXCEPT ![l] = Append(@, c)]
  <2>1. backlog[l] \in Seq(Conns) /\ backlog[l] # <<>>
    BY DEF WindowsInv, LogsAndCursors, Network!Accept
  <2>2. Head(backlog[l]) \in Conns
    BY <2>1, HeadTailProperties
  <2> QED
    BY <2>2 DEF Network!Accept
<1>2. /\ log'[l] = Append(log[l], c)
      /\ log[l] \in Seq(Conns) /\ Len(log[l]) \in Nat
      /\ \A k \in Network!Listeners \ {l} : log'[k] = log[k]
  BY <1>1 DEF WindowsInv, LogsAndCursors
<1>3. /\ Len(log'[l]) = Len(log[l]) + 1 /\ log'[l] \in Seq(Conns)
      /\ \A i \in 1 .. Len(log[l]) : log'[l][i] = log[l][i]
  BY <1>2, AppendProperties
<1>4. UNCHANGED <<cursor, taken, made, netAt, left, netStep>>
  BY DEF Network!Accept, Network!taskVars
<1>5. LogsAndCursors'
  <2>1. backlog' \in [Network!Listeners -> Seq(Conns)]
    <3>1. Tail(backlog[l]) \in Seq(Conns)
      BY HeadTailProperties DEF WindowsInv, LogsAndCursors, Network!Accept
    <3> QED
      BY <3>1 DEF WindowsInv, LogsAndCursors, Network!Accept
  <2>2. log' \in [Network!Listeners -> Seq(Conns)]
    BY <1>1, <1>2, <1>3 DEF WindowsInv, LogsAndCursors
  <2>3. ASSUME NEW k \in Network!Listeners PROVE cursor[k] <= Len(log'[k])
    <3>1. cursor[k] \in Nat /\ cursor[k] <= Len(log[k])
      BY DEF WindowsInv, LogsAndCursors
    <3> QED
      BY <1>2, <1>3, <3>1
  <2> QED
    BY <2>1, <2>2, <2>3, <1>4 DEF WindowsInv, LogsAndCursors, Network!Listeners, Network!Order
<1>6. OneWindowEach'
  <2> SUFFICES ASSUME NEW k \in Network!Listeners
               PROVE  \E first \in 0 .. cursor[k] :
                          taken[k] = SubSeq(log'[k], first + 1, cursor[k])
    BY <1>4 DEF OneWindowEach, Network!OneWindowEach, Network!Listeners, Network!Order
  <2>1. PICK first \in 0 .. cursor[k] : taken[k] = SubSeq(log[k], first + 1, cursor[k])
    BY DEF WindowsInv, OneWindowEach, Network!OneWindowEach
  <2>2. cursor[k] \in Nat /\ cursor[k] <= Len(log[k])
    BY DEF WindowsInv, LogsAndCursors
  <2>3. CASE k = l
    <3>1. SubSeq(log'[l], first + 1, cursor[l]) = SubSeq(log[l], first + 1, cursor[l])
      BY <1>2, <1>3, <2>1, <2>2, <2>3
    <3> QED
      BY <2>1, <2>3, <3>1
  <2>4. CASE k # l
    BY <1>2, <2>1, <2>4
  <2> QED
    BY <2>3, <2>4
<1>7. MarkedFirst'
  BY <1>4 DEF WindowsInv, MarkedFirst, Network!Listeners, Network!Order
<1> QED
  BY <1>5, <1>6, <1>7 DEF WindowsInv

(* A connection that waits, or is named, is not in what was read.          *)
LEMMA ConnectKeepsWindows ==
    ASSUME WindowsInv, NEW l \in Network!Listeners, Network!Connect(l)
    PROVE  WindowsInv'
<1>1. PICK path \in {"/control", "other"} :
          backlog' = [backlog EXCEPT ![l] =
              Append(@, [id |-> made', path |-> path, at |-> netAt, during |-> Network!During])]
  BY DEF Network!Connect
<1>2. made' \in Nat /\ UNCHANGED <<log, taken, cursor, netAt, left, netStep>>
  BY DEF Network!Connect, WindowsInv, LogsAndCursors, Network!taskVars
<1>3. [id |-> made', path |-> path, at |-> netAt, during |-> Network!During] \in Conns
  BY <1>2 DEF Conns, WindowsInv, LogsAndCursors, Network!During
<1>4. backlog' \in [Network!Listeners -> Seq(Conns)]
  BY <1>1, <1>3, AppendProperties DEF WindowsInv, LogsAndCursors
<1>5. LogsAndCursors'
  BY <1>2, <1>4 DEF WindowsInv, LogsAndCursors, Network!Listeners, Network!Order
<1>6. MarkedFirst'
  BY <1>2 DEF WindowsInv, MarkedFirst, Network!Listeners, Network!Order
<1> QED
  BY <1>2, <1>5, <1>6, WindowsKept DEF WindowsInv

(* The first window begins where its listener was marked.                  *)
LEMMA MarkKeepsWindows ==
    ASSUME WindowsInv, Network!Mark
    PROVE  WindowsInv'
<1>1. PICK l \in Network!Listeners :
          /\ cursor' = [cursor EXCEPT ![l] = Len(log[l])]
          /\ left' = Tail(left) /\ left' \in Seq(Network!Listeners)
  BY HeadTailProperties DEF WindowsInv, MarkedFirst, Network!Mark
<1>2. /\ UNCHANGED <<backlog, log, made, netAt, taken>>
      /\ netStep = "mark" /\ (netStep' = "mark" => left' # <<>>) /\ netStep' # "look"
  BY DEF Network!Mark, Network!netVars
<1>3. Len(log[l]) \in Nat
  BY LenProperties DEF WindowsInv, LogsAndCursors
<1>4. LogsAndCursors'
  <2>1. cursor' \in [Network!Listeners -> Nat]
    BY <1>1, <1>3 DEF WindowsInv, LogsAndCursors
  <2>2. \A k \in Network!Listeners : cursor'[k] <= Len(log[k])
    BY <1>1, <1>3 DEF WindowsInv, LogsAndCursors
  <2> QED
    BY <1>2, <2>1, <2>2 DEF WindowsInv, LogsAndCursors, Network!Listeners, Network!Order
<1>5. MarkedFirst'
  BY <1>1, <1>2 DEF WindowsInv, MarkedFirst, Network!Listeners, Network!Order
<1>6. OneWindowEach'
  <2> SUFFICES ASSUME NEW k \in Network!Listeners
               PROVE  \E first \in 0 .. cursor'[k] :
                          taken[k] = SubSeq(log[k], first + 1, cursor'[k])
    BY <1>2 DEF OneWindowEach, Network!OneWindowEach, Network!Listeners, Network!Order
  <2>1. CASE k = l
    <3>1. cursor'[l] = Len(log[l]) /\ taken[l] = <<>>
      BY <1>1, <1>2 DEF WindowsInv, LogsAndCursors, MarkedFirst
    <3>2. SubSeq(log[l], Len(log[l]) + 1, Len(log[l])) = <<>>
      BY <1>3, SubSeqEmpty
    <3> QED
      BY <1>3, <2>1, <3>1, <3>2
  <2>2. CASE k # l
    BY <1>1, <2>2 DEF WindowsInv, LogsAndCursors, OneWindowEach, Network!OneWindowEach
  <2> QED
    BY <2>1, <2>2
<1> QED
  BY <1>4, <1>5, <1>6 DEF WindowsInv

(* A further window begins where the one before it ended.                  *)
LEMMA ReadKeepsWindows ==
    ASSUME WindowsInv, Network!Read
    PROVE  WindowsInv'
<1>1. PICK l \in Network!Listeners :
          /\ cursor' = [cursor EXCEPT ![l] = Len(log[l])]
          /\ taken' = [taken EXCEPT ![l] = @ \o SubSeq(log[l], cursor[l] + 1, Len(log[l]))]
          /\ left' \in Seq(Network!Listeners)
  BY HeadTailProperties DEF WindowsInv, MarkedFirst, Network!Read, Network!ReadFrom
<1>2. /\ UNCHANGED <<backlog, log, made, netAt, netStep>>
      /\ netStep \notin {"look", "mark"}
  BY DEF Network!Read, Network!netVars
<1>3. /\ log[l] \in Seq(Conns) /\ Len(log[l]) \in Nat
      /\ cursor[l] \in Nat /\ cursor[l] <= Len(log[l])
      /\ cursor'[l] = Len(log[l])
      /\ taken'[l] = taken[l] \o SubSeq(log[l], cursor[l] + 1, Len(log[l]))
  BY <1>1, LenProperties DEF WindowsInv, LogsAndCursors
<1>4. PICK first \in 0 .. cursor[l] : taken[l] = SubSeq(log[l], first + 1, cursor[l])
  BY DEF WindowsInv, OneWindowEach, Network!OneWindowEach
<1>5. taken'[l] = SubSeq(log[l], first + 1, Len(log[l]))
  <2>1. /\ first + 1 \in 1 .. Len(log[l]) + 1
        /\ cursor[l] \in (first + 1) - 1 .. Len(log[l])
        /\ Len(log[l]) \in cursor[l] .. Len(log[l])
    BY <1>3, <1>4
  <2> QED
    BY <1>3, <1>4, <2>1, ConcatAdjacentSubSeq
<1>6. LogsAndCursors'
  <2>1. taken'[l] \in Seq(Conns)
    <3>1. \A i \in first + 1 .. Len(log[l]) : log[l][i] \in Conns
      BY <1>3, <1>4, ElementOfSeq
    <3> QED
      BY <1>3, <1>4, <1>5, <3>1, SubSeqProperties
  <2>2. taken' \in [Network!Listeners -> Seq(Conns)]
    BY <1>1, <2>1 DEF WindowsInv, LogsAndCursors
  <2> QED
    BY <1>1, <1>2, <1>3, <2>2 DEF WindowsInv, LogsAndCursors, Network!Listeners, Network!Order
<1>7. MarkedFirst'
  BY <1>1, <1>2 DEF WindowsInv, MarkedFirst, Network!Listeners, Network!Order
<1>8. OneWindowEach'
  <2> SUFFICES ASSUME NEW k \in Network!Listeners
               PROVE  \E f \in 0 .. cursor'[k] : taken'[k] = SubSeq(log[k], f + 1, cursor'[k])
    BY <1>2 DEF OneWindowEach, Network!OneWindowEach, Network!Listeners, Network!Order
  <2>1. CASE k = l
    <3>1. first \in 0 .. cursor'[l]
      BY <1>3, <1>4
    <3>2. taken'[l] = SubSeq(log[l], first + 1, cursor'[l])
      BY <1>3, <1>5, Zenon
    <3> QED
      BY <2>1, <3>1, <3>2, Zenon
  <2>2. CASE k # l
    BY <1>1, <2>2 DEF WindowsInv, LogsAndCursors, OneWindowEach, Network!OneWindowEach
  <2> QED
    BY <2>1, <2>2
<1> QED
  BY <1>6, <1>7, <1>8 DEF WindowsInv

(* The other steps of the task neither read nor mark.                      *)
LEMMA TaskKeepsWindows ==
    ASSUME WindowsInv, Network!Task
    PROVE  WindowsInv'
<1>1. CASE Network!Mark
  BY <1>1, MarkKeepsWindows
<1>2. CASE Network!Read
  BY <1>2, ReadKeepsWindows
<1>3. CASE ~Network!Mark /\ ~Network!Read
  <2>1. UNCHANGED <<backlog, log, made, cursor, taken>>
    BY <1>3 DEF Network!Task, Network!LookUpTool, Network!BeginControl, Network!NextVector,
       Network!Call, Network!Grace, Network!Settle, Network!SettleTimesOut, Network!JudgeControl,
       Network!ReportControl, Network!ReportVector, Network!ReportLate, Network!netVars
  <2>2. netAt' \in Nat
    <3>1. netAt' \in {netAt, netAt + 1, Network!Late}
      BY <1>3 DEF Network!Task, Network!LookUpTool, Network!BeginControl, Network!NextVector,
         Network!Call, Network!Grace, Network!Settle, Network!SettleTimesOut,
         Network!JudgeControl, Network!ReportControl, Network!ReportVector, Network!ReportLate
    <3>2. Network!Late \in Nat
      BY ConstantsAssumption, LenProperties DEF Network!Late
    <3> QED
      BY <3>1, <3>2 DEF WindowsInv, LogsAndCursors
  <2>3. LogsAndCursors'
    BY <2>1, <2>2 DEF WindowsInv, LogsAndCursors, Network!Listeners, Network!Order
  <2>4. /\ left' \in {left, Network!Order} \/ (Len(left) > 1 /\ left' = Tail(left))
        /\ netStep' # "look"
        /\ netStep' = "mark" => netStep = "look" /\ left' = left
    BY <1>3 DEF Network!Task, Network!LookUpTool, Network!BeginControl, Network!NextVector,
       Network!Call, Network!Grace, Network!Settle, Network!SettleTimesOut, Network!SettledAll,
       Network!JudgeControl, Network!ReportControl, Network!ReportVector, Network!ReportLate
  <2>5. left' \in Seq(Network!Listeners)
    BY <2>4, OrderOfListeners, EmptySeq, HeadTailProperties DEF WindowsInv, MarkedFirst
  <2>6. MarkedFirst'
    BY <2>1, <2>4, <2>5, OrderOfListeners
    DEF WindowsInv, MarkedFirst, Network!Listeners, Network!Order
  <2> QED
    BY <2>1, <2>3, <2>6, WindowsKept DEF WindowsInv
<1> QED
  BY <1>1, <1>2, <1>3

LEMMA WindowsStep == WindowsInv /\ [Next]_phaseVars => WindowsInv'
<1> SUFFICES ASSUME WindowsInv, [Next]_phaseVars PROVE WindowsInv'
  OBVIOUS
<1>1. CASE NetworkTask
  BY <1>1, TaskKeepsWindows DEF NetworkTask
<1>2. CASE NetworkSurroundings
  <2>1. CASE Network!Describe
    <3>1. UNCHANGED <<backlog, log, made, netAt, cursor, taken, left, netStep>>
      BY <2>1 DEF Network!Describe, Network!taskVars
    <3>2. LogsAndCursors' /\ MarkedFirst'
      BY <3>1 DEF WindowsInv, LogsAndCursors, MarkedFirst, Network!Listeners, Network!Order
    <3> QED
      BY <3>1, <3>2, WindowsKept DEF WindowsInv
  <2> QED
    BY <1>2, <2>1, ConnectKeepsWindows, AcceptKeepsWindows
    DEF NetworkSurroundings, Network!Surroundings
<1>3. CASE UNCHANGED networkVars
  <2>1. UNCHANGED <<backlog, log, made, netAt, cursor, taken, left, netStep>>
    BY <1>3 DEF networkVars
  <2>2. LogsAndCursors' /\ MarkedFirst'
    BY <2>1 DEF WindowsInv, LogsAndCursors, MarkedFirst, Network!Listeners, Network!Order
  <2> QED
    BY <2>1, <2>2, WindowsKept DEF WindowsInv
<1> QED
  BY <1>1, <1>2, <1>3 DEF Next, phaseVars

(* However the connections fall among the calls, the windows read of a     *)
(* listener's log are the log, without a gap or an overlap.                *)
THEOREM WindowsTile == Spec => []OneWindowEach
<1>1. WindowsInv => OneWindowEach
  BY DEF WindowsInv
<1> QED
  BY <1>1, WindowsInit, WindowsStep, PTL DEF Spec

----------------------------------------------------------------------------
(* Consent.  A name may be called if no tool that the session offers by it *)
(* runs without consent.                                                   *)
MayBeCalled(name) ==
    \A tool \in scenario.offered :
        tool.name = name =>
            \/ tool.readOnly \/ scenario.callAll
            \/ tool.name \in {scenario.fs.read, scenario.fs.write, scenario.network}

(* Only tools of the audited catalog are at hand, and only on a session    *)
(* that served it; the filesystem check calls for an operation that it has.*)
CallsFromCatalog ==
    /\ scenario \in Scenarios
    /\ at \in Seq(ToSet(scenario.catalog))
    /\ step \notin {"start", "not_executed"} => ServedBySession
    /\ operation \in {"read", "write", "done"}
    /\ step \in {"control", "before", "calling", "after", "next"} => operation # "done"

ConsentInv == CallsFromCatalog /\ NoUnconsentedCall

(* A smallest number exists in a set that is not empty.                    *)
LEMMA SmallestInSet ==
    ASSUME NEW S \in SUBSET Nat, S # {}
    PROVE  \E i \in S : \A j \in S : i <= j
<1>1. \E i \in S : \A j \in S : <<j, i>> \notin OpToRel(<, Nat)
  BY NatLessThanWellFounded, WFMin
<1>2. ASSUME NEW i \in S, NEW j \in S, j < i PROVE <<j, i>> \in OpToRel(<, Nat)
  <2>1. <<j, i>> \in Nat \X Nat /\ <<j, i>>[1] < <<j, i>>[2]
    BY <1>2
  <2> QED
    BY <2>1, Zenon DEF OpToRel
<1>3. \A i, j \in S : ~(j < i) => i <= j
  OBVIOUS
<1> QED
  BY <1>1, <1>2, <1>3

(* The nonexistent name is the name of no tool that was listed.            *)
LEMMA UnknownNameIsFree ==
    ASSUME scenario \in Scenarios
    PROVE  \A tool \in ToSet(scenario.catalog) : tool.name # UnknownName
<1> DEFINE names == { tool.name : tool \in ToSet(scenario.catalog) }
           free == { i \in 1 .. Len(UnknownNames) : UnknownNames[i] \notin names }
<1>1. free # {} /\ free \subseteq Nat
  BY ScenarioAssumption
<1>2. PICK i \in free : \A j \in free : i <= j
  BY <1>1, SmallestInSet
<1>3. Min(free) \in free
  BY <1>2 DEF Min
<1>4. UnknownName = UnknownNames[Min(free)]
  BY <1>1 DEF UnknownName, SelectInSeq
<1> QED
  BY <1>3, <1>4

(* A tool at hand is one that the session offers by its name.              *)
LEMMA AtHandIsOffered ==
    ASSUME ConsentInv, step \notin {"start", "not_executed"}, at # <<>>,
           Callable(Head(at))
    PROVE  MayBeCalled(Head(at).name)
<1>1. Head(at) \in ToSet(scenario.catalog)
  BY HeadTailProperties DEF ConsentInv, CallsFromCatalog
<1>2. scenario.listing \in {"none", "partial", "whole"} /\ scenario \in Scenarios
  BY ScenarioAssumption DEF ConsentInv, CallsFromCatalog, ServedBySession, ScenarioSet
<1>3. Head(at) \in scenario.offered
  BY <1>1, <1>2, ScenarioAssumption DEF ToSet
<1> QED
  BY <1>2, <1>3, ScenarioAssumption DEF MayBeCalled, Callable

(* A call by a name that may be called keeps the consent.                  *)
LEMMA CallKeepsConsent ==
    ASSUME NoUnconsentedCall, NEW name, MayBeCalled(name), UNCHANGED scenario,
           called' = called \cup {name}
    PROVE  NoUnconsentedCall'
BY DEF NoUnconsentedCall, MayBeCalled

(* Without a call the consent stands.                                      *)
LEMMA NoCallKeepsConsent ==
    ASSUME NoUnconsentedCall, UNCHANGED <<scenario, called>>
    PROVE  NoUnconsentedCall'
BY DEF NoUnconsentedCall

LEMMA ConsentInit == PhaseInit => ConsentInv
<1> SUFFICES ASSUME PhaseInit PROVE ConsentInv
  OBVIOUS
<1>1. scenario \in Scenarios /\ step = "start" /\ at = <<>> /\ operation = "read" /\ called = {}
  BY DEF PhaseInit, FsInit, Init
<1> QED
  BY <1>1 DEF ConsentInv, CallsFromCatalog, NoUnconsentedCall

(* The loops and what is around them.                                      *)
LEMMA SmokeKeepsConsent ==
    ASSUME ConsentInv, SmokeStep, UNCHANGED operation
    PROVE  ConsentInv'
<1> USE DEF ConsentInv, CallsFromCatalog
<1>1. CASE NotExecuted \/ NextLoop
  <2>1. scenario.catalog \in Seq(ToSet(scenario.catalog))
    BY ScenarioAssumption, OwnElements DEF ScenarioSet
  <2> QED
    BY <1>1, <2>1, NoCallKeepsConsent DEF NotExecuted, NextLoop, NoRequest, sessionVars,
       ServedBySession
<1>2. CASE Begin
  <2>1. scenario.catalog \in Seq(ToSet(scenario.catalog))
    BY ScenarioAssumption, OwnElements DEF ScenarioSet
  <2> QED
    BY <1>2, <2>1, NoCallKeepsConsent DEF Begin, sessionVars, ServedBySession
<1>3. CASE StructuredContent
  <2>1. UNCHANGED <<scenario, step>> /\ step = "structured" /\ at # <<>> /\ at' = Tail(at)
    BY <1>3 DEF StructuredContent, Report
  <2>2. called' = called \/ (Callable(Head(at)) /\ called' = called \cup {Head(at).name})
    BY <1>3 DEF StructuredContent, Request, NoRequest, sessionVars
  <2>3. NoUnconsentedCall'
    BY <2>1, <2>2, AtHandIsOffered, CallKeepsConsent, NoCallKeepsConsent
  <2> QED
    BY <2>1, <2>3, HeadTailProperties DEF ServedBySession
<1>4. CASE InvalidArguments
  <2>1. UNCHANGED <<scenario, step>> /\ step = "invalid" /\ at # <<>> /\ at' = Tail(at)
    BY <1>4 DEF InvalidArguments, Report
  <2>2. called' = called \/ (Callable(Head(at)) /\ called' = called \cup {Head(at).name})
    BY <1>4 DEF InvalidArguments, Request, NoRequest, sessionVars
  <2>3. NoUnconsentedCall'
    BY <2>1, <2>2, AtHandIsOffered, CallKeepsConsent, NoCallKeepsConsent
  <2> QED
    BY <2>1, <2>3, HeadTailProperties DEF ServedBySession
<1>5. CASE UnknownTool
  <2>1. UNCHANGED <<scenario, at>> /\ step = "unknown" /\ step' = "filesystem"
    BY <1>5 DEF UnknownTool
  <2>2. called' = called \/ (CatalogComplete /\ called' = called \cup {UnknownName})
    BY <1>5 DEF UnknownTool, Request, NoRequest, sessionVars
  <2>3. CatalogComplete => MayBeCalled(UnknownName)
    <3>1. CatalogComplete => ToSet(scenario.catalog) = scenario.offered
      BY ScenarioAssumption DEF CatalogComplete
    <3> QED
      BY <3>1, UnknownNameIsFree DEF MayBeCalled
  <2>4. NoUnconsentedCall'
    BY <2>1, <2>2, <2>3, CallKeepsConsent, NoCallKeepsConsent
  <2> QED
    BY <2>1, <2>4 DEF ServedBySession
<1> QED
  BY <1>1, <1>2, <1>3, <1>4, <1>5 DEF SmokeStep

(* The filesystem check calls the tool that the user named for it.         *)
LEMMA FilesystemKeepsConsent ==
    ASSUME ConsentInv, FsStep
    PROVE  ConsentInv'
<1> USE DEF ConsentInv, CallsFromCatalog
<1>1. UNCHANGED <<scenario, at>> /\ step \notin {"start", "not_executed"}
  BY DEF FsStep, StartFilesystem, StartOperation, Control, NextVector, SnapshotRaises,
         SnapshotBefore, CallToRead, CallToWrite, SnapshotAfter, GoTo
<1>2. /\ operation' \in {"read", "write", "done"}
      /\ step' \in {"control", "before", "calling", "after", "next"} => operation' # "done"
  BY DEF FsStep, StartFilesystem, StartOperation, Control, NextVector, SnapshotRaises,
         SnapshotBefore, CallToRead, CallToWrite, SnapshotAfter, GoTo, NextOperation, fsVars
<1>3. called' = called \/ (operation # "done" /\ called' = called \cup {Tool})
  BY DEF FsStep, StartFilesystem, StartOperation, Control, NextVector, SnapshotRaises,
         SnapshotBefore, CallToRead, CallToWrite, SnapshotAfter, RequestRaw, Request, sessionVars
<1>4. operation # "done" => MayBeCalled(Tool)
  BY DEF MayBeCalled, Tool
<1>5. NoUnconsentedCall'
  BY <1>1, <1>3, <1>4, CallKeepsConsent, NoCallKeepsConsent
<1> QED
  BY <1>1, <1>2, <1>5 DEF ServedBySession

LEMMA ConsentStep == ConsentInv /\ [Next]_phaseVars => ConsentInv'
<1> SUFFICES ASSUME ConsentInv, [Next]_phaseVars PROVE ConsentInv'
  OBVIOUS
<1>1. CASE SmokeStep /\ UNCHANGED fsVars
  BY <1>1, SmokeKeepsConsent DEF fsVars
<1>2. CASE FsStep
  BY <1>2, FilesystemKeepsConsent
<1>3. CASE NetworkTask
  <2>1. UNCHANGED <<scenario, step, at, operation>>
    BY <1>3 DEF NetworkTask, fsVars
  <2>2. called' = called \/ called' = called \cup {scenario.network}
    BY <1>3 DEF NetworkTask, CallOnSession
  <2>3. MayBeCalled(scenario.network)
    BY DEF MayBeCalled
  <2>4. NoUnconsentedCall'
    BY <2>1, <2>2, <2>3, CallKeepsConsent, NoCallKeepsConsent DEF ConsentInv
  <2> QED
    BY <2>1, <2>4 DEF ConsentInv, CallsFromCatalog, ServedBySession
<1>4. CASE UNCHANGED <<scenario, step, at, operation, called>>
  BY <1>4, NoCallKeepsConsent DEF ConsentInv, CallsFromCatalog, ServedBySession
<1> QED
  BY <1>1, <1>2, <1>3, <1>4
  DEF Next, Surroundings, WriteOutside, RemoveOutside, Leave, NetworkSurroundings,
      phaseVars, vars, smokeVars, sessionVars, fsVars

(* No tool runs that its session does not annotate as read-only, unless    *)
(* the user consented, whatever was listed and whichever check it was.     *)
THEOREM ConsentKept == Spec => []NoUnconsentedCall
<1>1. ConsentInv => NoUnconsentedCall
  BY DEF ConsentInv
<1> QED
  BY <1>1, ConsentInit, ConsentStep, PTL DEF Spec

----------------------------------------------------------------------------
(* What the network check reports.  Everything a listener met, waiting to  *)
(* be accepted or logged, was made at a time that tells whether it is due: *)
(* caused by an earlier window, or by the call of this one.                *)
Results ==
    [window : Nat, verdict : {"PASS", "FAIL", "SKIP"}, reached : Seq(Conns),
     outcome : Network!Outcomes \cup {"none"}, control : BOOLEAN]

Met(l) == ToSet(backlog[l]) \cup ToSet(log[l])

Due(c) == c.during # "start" /\ (c.at < netAt \/ c.during \in {"call", "grace"})

Reading == {"read", "read_failed"}

TaskTypes ==
    /\ policy \in Network!Policies
    /\ netOutcome \in Network!Outcomes \cup {"none"}
    /\ reached \in Seq(Conns) /\ results \in Seq(Results) /\ netBefore \in Nat
    /\ netStep = "grace" => netAt = Network!Late
    /\ netStep = "settle" => left # <<>>
    /\ netStep = "control" => left = Network!Order
    /\ netStep \in {"settle", "control"} \cup Reading /\ netAt # Network!Late =>
           netOutcome \in Network!Outcomes

(* Only a request for /control is named one: no two connections share an   *)
(* id.                                                                     *)
ControlNamed ==
    /\ named \subseteq 1 .. made
    /\ \A c \in Met("allowed") :
           /\ c.id \in 1 .. made
           /\ c.id \in named => c.path = "/control"
           /\ \A d \in Met("allowed") : c.id = d.id => c.path = d.path

(* Under an allowlist, no vector is asked before the allowed origin could  *)
(* be reached.                                                             *)
Reachable == \E c \in ToSet(log["allowed"]) : c.path = "/control" /\ c.id \in named

ControlProven ==
    (policy = "allowlist" /\ (\/ netStep = "next" \/ netAt \in DOMAIN NetworkVectors
                              \/ (netStep = "read" /\ netAt = Network!Control)))
    => Reachable

(* Nothing is read before the listeners are marked, and what was read that *)
(* counts is reported, or about to be.                                     *)
StartedClean ==
    netStep \in {"look", "mark"} =>
        /\ reached = <<>> /\ results = <<>>
        /\ \A l \in Network!Listeners : \A c \in Met(l) : c.during = "start"

ReadIsKept ==
    /\ \A l \in Network!Listeners : Network!Counts(l) =>
           \A i \in 1 .. cursor[l] :
               log[l][i].during # "start" => log[l][i] \in ToSet(reached) \cup Network!Reported
    /\ netStep \notin Reading => ToSet(reached) \subseteq Network!Reported

(* Once a listener has settled nothing due waits at it, and once its log   *)
(* was read nothing due is left in it.                                     *)
SettledHere(l) ==
    \/ netStep = "settle" /\ l \notin ToSet(left)
    \/ netStep \in {"control"} \cup Reading

ReadHere(l) == netStep \in Reading /\ l \notin ToSet(left)

NothingDueLeft ==
    netAt \notin timedOut =>
        \A l \in Network!Listeners :
            /\ SettledHere(l) => \A c \in ToSet(backlog[l]) : ~Due(c)
            /\ ReadHere(l) => \A i \in cursor[l] + 1 .. Len(log[l]) : ~Due(log[l][i])

(* A pass is reported when the call of its window is over.                 *)
PassesArePast ==
    \A r \in ToSet(results) : r.verdict = "PASS" =>
        r.window < netAt \/ (r.window = netAt /\ netStep = "next")

(* What sequences hold.                                                    *)
LEMMA HeldByAppend ==
    ASSUME NEW S, NEW s \in Seq(S), NEW e \in S
    PROVE  ToSet(Append(s, e)) = ToSet(s) \cup {e}
BY AppendProperties, LenProperties DEF ToSet

LEMMA HeldByConcat ==
    ASSUME NEW S, NEW s \in Seq(S), NEW t \in Seq(S)
    PROVE  ToSet(s \o t) = ToSet(s) \cup ToSet(t)
<1>1. /\ s \o t \in Seq(S) /\ Len(s \o t) = Len(s) + Len(t) /\ Len(s) \in Nat /\ Len(t) \in Nat
      /\ DOMAIN s = 1 .. Len(s) /\ DOMAIN t = 1 .. Len(t) /\ DOMAIN (s \o t) = 1 .. Len(s) + Len(t)
      /\ \A i \in 1 .. Len(s) + Len(t) :
             (s \o t)[i] = IF i <= Len(s) THEN s[i] ELSE t[i - Len(s)]
  BY ConcatProperties, LenProperties
<1>2. ASSUME NEW x \in ToSet(s \o t) PROVE x \in ToSet(s) \cup ToSet(t)
  <2>1. PICK i \in 1 .. Len(s) + Len(t) : x = (s \o t)[i]
    BY <1>1, <1>2 DEF ToSet
  <2>2. IF i <= Len(s) THEN i \in DOMAIN s /\ x = s[i]
        ELSE i - Len(s) \in DOMAIN t /\ x = t[i - Len(s)]
    BY <1>1, <2>1
  <2> QED
    BY <2>2, Zenon DEF ToSet
<1>3. ASSUME NEW i \in DOMAIN s PROVE s[i] \in ToSet(s \o t)
  <2>1. i \in DOMAIN (s \o t) /\ (s \o t)[i] = s[i]
    BY <1>1
  <2> QED
    BY <2>1, Zenon DEF ToSet
<1>4. ASSUME NEW i \in DOMAIN t PROVE t[i] \in ToSet(s \o t)
  <2>1. i + Len(s) \in DOMAIN (s \o t) /\ (s \o t)[i + Len(s)] = t[i]
    BY <1>1
  <2> QED
    BY <2>1, Zenon DEF ToSet
<1> QED
  BY <1>2, <1>3, <1>4 DEF ToSet

LEMMA HeldByTail ==
    ASSUME NEW S, NEW s \in Seq(S), s # <<>>
    PROVE  ToSet(s) = {Head(s)} \cup ToSet(Tail(s)) /\ Tail(s) \in Seq(S) /\ Head(s) \in S
<1>1. /\ Tail(s) \in Seq(S) /\ Head(s) = s[1] /\ Len(s) \in Nat \ {0} /\ DOMAIN s = 1 .. Len(s)
      /\ Len(Tail(s)) = Len(s) - 1 /\ DOMAIN Tail(s) = 1 .. Len(s) - 1 /\ Head(s) \in S
      /\ \A i \in 1 .. Len(s) - 1 : Tail(s)[i] = s[i + 1]
  BY HeadTailProperties, LenProperties
<1>2. ASSUME NEW x \in ToSet(s) PROVE x \in {Head(s)} \cup ToSet(Tail(s))
  <2>1. PICK i \in 1 .. Len(s) : x = s[i]
    BY <1>1, <1>2 DEF ToSet
  <2>2. CASE i = 1
    BY <1>1, <2>1, <2>2
  <2>3. CASE i # 1
    <3>1. i - 1 \in DOMAIN Tail(s) /\ Tail(s)[i - 1] = x
      BY <1>1, <2>1, <2>3
    <3> QED
      BY <3>1, Zenon DEF ToSet
  <2> QED
    BY <2>2, <2>3
<1>3. Head(s) \in ToSet(s)
  BY <1>1 DEF ToSet
<1>4. ASSUME NEW i \in DOMAIN Tail(s) PROVE Tail(s)[i] \in ToSet(s)
  <2>1. i + 1 \in DOMAIN s /\ s[i + 1] = Tail(s)[i]
    BY <1>1
  <2> QED
    BY <2>1, Zenon DEF ToSet
<1> QED
  BY <1>1, <1>2, <1>3, <1>4 DEF ToSet

(* What Connect and Accept do to the connections a listener met.           *)
LEMMA MetByConnect ==
    ASSUME WindowsInv, NEW l \in Network!Listeners, Network!Connect(l)
    PROVE  \E c \in Conns :
               /\ c.id = made + 1 /\ made' = made + 1 /\ c.at = netAt /\ c.during = Network!During
               /\ ToSet(backlog'[l]) = ToSet(backlog[l]) \cup {c}
               /\ Met(l)' = Met(l) \cup {c}
               /\ \A k \in Network!Listeners \ {l} : backlog'[k] = backlog[k]
               /\ UNCHANGED <<log, named, Network!taskVars>> /\ netStep # "done"
<1>1. PICK path \in {"/control", "other"} :
          backlog' = [backlog EXCEPT ![l] =
              Append(@, [id |-> made', path |-> path, at |-> netAt, during |-> Network!During])]
  BY DEF Network!Connect
<1> DEFINE c == [id |-> made', path |-> path, at |-> netAt, during |-> Network!During]
<1>2. /\ made' = made + 1 /\ made' \in Nat /\ UNCHANGED <<log, named, Network!taskVars>>
      /\ netStep # "done"
  BY DEF Network!Connect, WindowsInv, LogsAndCursors
<1>3. c \in Conns
  BY <1>2 DEF Conns, WindowsInv, LogsAndCursors, Network!During
<1>4. /\ backlog[l] \in Seq(Conns) /\ backlog'[l] = Append(backlog[l], c)
      /\ \A k \in Network!Listeners \ {l} : backlog'[k] = backlog[k]
  BY <1>1 DEF WindowsInv, LogsAndCursors
<1>5. ToSet(backlog'[l]) = ToSet(backlog[l]) \cup {c}
  BY <1>3, <1>4, HeldByAppend
<1>6. Met(l)' = Met(l) \cup {c}
  <2>1. log' = log
    BY <1>2
  <2> QED
    BY <1>5, <2>1 DEF Met
<1>7. c.id = made + 1 /\ c.at = netAt /\ c.during = Network!During
  BY <1>2
<1> HIDE DEF c
<1> QED
  BY <1>2, <1>3, <1>4, <1>5, <1>6, <1>7

LEMMA MetByAccept ==
    ASSUME WindowsInv, NEW l \in Network!Listeners, Network!Accept(l)
    PROVE  \E c \in ToSet(backlog[l]) :
               /\ log' = [log EXCEPT ![l] = Append(@, c)] /\ c \in Conns
               /\ ToSet(backlog'[l]) \subseteq ToSet(backlog[l])
               /\ ToSet(log'[l]) = ToSet(log[l]) \cup {c}
               /\ \A k \in Network!Listeners \ {l} : backlog'[k] = backlog[k] /\ log'[k] = log[k]
               /\ \A k \in Network!Listeners : Met(k)' = Met(k)
               /\ UNCHANGED <<named, made, Network!taskVars>>
<1> DEFINE c == Head(backlog[l])
<1>1. /\ backlog[l] \in Seq(Conns) /\ backlog[l] # <<>> /\ log[l] \in Seq(Conns)
      /\ backlog'[l] = Tail(backlog[l]) /\ log'[l] = Append(log[l], c)
      /\ \A k \in Network!Listeners \ {l} : backlog'[k] = backlog[k] /\ log'[k] = log[k]
      /\ log' = [log EXCEPT ![l] = Append(@, c)]
      /\ UNCHANGED <<named, made, Network!taskVars>>
  BY DEF Network!Accept, WindowsInv, LogsAndCursors
<1>2. ToSet(backlog[l]) = {c} \cup ToSet(backlog'[l]) /\ c \in Conns
  BY <1>1, HeldByTail
<1>3. ToSet(log'[l]) = ToSet(log[l]) \cup {c}
  BY <1>1, <1>2, HeldByAppend
<1>4. \A k \in Network!Listeners : Met(k)' = Met(k)
  BY <1>1, <1>2, <1>3 DEF Met, Network!Listeners, Network!Order
<1> HIDE DEF c
<1> QED
  BY <1>1, <1>2, <1>3, <1>4

LEMMA ListenersAre == Network!Listeners = {"allowed"} \cup ToSet(Denied)
<1> DEFINE S == STRING \cup {"allowed"}
<1>1. Denied \in Seq(S) /\ <<"allowed">> \in Seq(S)
  BY ConstantsAssumption, SeqMonotonic
<1>2. ToSet(<<"allowed">> \o Denied) = ToSet(<<"allowed">>) \cup ToSet(Denied)
  BY <1>1, HeldByConcat
<1>3. ToSet(<<"allowed">>) = {"allowed"}
  BY DEF ToSet
<1> QED
  BY <1>2, <1>3 DEF Network!Listeners, Network!Order, Network!ToSet, ToSet

(* The connections a policy denies are what the listeners it is about met. *)
Policed(c) == \E l \in Network!Listeners : Network!Counts(l) /\ c \in Met(l)

LEMMA ContactsAreMet ==
    WindowsInv /\ TaskTypes => \A c : c \in Network!Contacts <=> Policed(c)
<1> SUFFICES ASSUME WindowsInv, TaskTypes PROVE \A c : c \in Network!Contacts <=> Policed(c)
  OBVIOUS
<1>1. Network!Listeners = {"allowed"} \cup ToSet(Denied)
  BY ListenersAre
<1> DEFINE denied == IF policy = "allowlist" THEN ToSet(Denied) ELSE Network!Listeners
<1>2. \A l : l \in denied <=> l \in Network!Listeners /\ Network!Counts(l)
  BY <1>1, ConstantsAssumption DEF TaskTypes, Network!Policies, Network!Counts
<1>3. \A l \in Network!Listeners : ToSet(backlog[l] \o log[l]) = Met(l)
  BY HeldByConcat DEF WindowsInv, LogsAndCursors, Met
<1>4. Network!Contacts = UNION { ToSet(backlog[l] \o log[l]) : l \in denied }
  BY DEF Network!Contacts, Network!ToSet, ToSet
<1> HIDE DEF denied
<1> QED
  BY <1>2, <1>3, <1>4 DEF Policed

(* Who takes a step of the network check.                                  *)
LEMMA NetworkSteps ==
    ASSUME [Next]_phaseVars
    PROVE  \/ \E l \in Network!Listeners : Network!Connect(l)
           \/ \E l \in Network!Listeners : Network!Accept(l)
           \/ Network!Describe
           \/ Network!Task
           \/ UNCHANGED networkVars
BY DEF Next, NetworkTask, NetworkSurroundings, Network!Surroundings, phaseVars

LEMMA TaskKeepsConnections ==
    ASSUME Network!Task
    PROVE  UNCHANGED <<backlog, log, named, made, policy>>
BY DEF Network!Task, Network!LookUpTool, Network!Mark, Network!BeginControl, Network!NextVector,
       Network!Call, Network!Grace, Network!Settle, Network!SettleTimesOut, Network!JudgeControl,
       Network!Read, Network!ReportControl, Network!ReportVector, Network!ReportLate, Network!netVars

LEMMA ControlNamedStep ==
    ASSUME WindowsInv, ControlNamed, [Next]_phaseVars
    PROVE  ControlNamed'
<1> USE DEF ControlNamed
<1>1. "allowed" \in Network!Listeners /\ made \in Nat
  BY ListenersAre DEF WindowsInv, LogsAndCursors
<1>2. ASSUME NEW l \in Network!Listeners, Network!Connect(l) PROVE ControlNamed'
  <2>1. PICK c \in Conns : /\ c.id = made + 1 /\ made' = made + 1 /\ Met(l)' = Met(l) \cup {c}
                           /\ \A k \in Network!Listeners \ {l} : backlog'[k] = backlog[k]
                           /\ UNCHANGED <<log, named>>
    BY <1>2, MetByConnect
  <2>2. CASE l = "allowed"
    <3>1. named' \subseteq 1 .. made'
      BY <1>1, <2>1
    <3>2. \A d \in Met("allowed") : d.id \in 1 .. made' /\ d.id # c.id
      BY <1>1, <2>1
    <3>3. c.id \in 1 .. made' /\ c.id \notin named
      BY <1>1, <2>1
    <3>4. Met("allowed")' = Met("allowed") \cup {c}
      BY <2>1, <2>2
    <3> QED
      BY <2>1, <3>1, <3>2, <3>3, <3>4
  <2>3. CASE l # "allowed"
    <3>1. Met("allowed")' = Met("allowed")
      BY <1>1, <2>1, <2>3 DEF Met
    <3> QED
      BY <1>1, <2>1, <3>1
  <2> QED
    BY <2>2, <2>3
<1>3. ASSUME NEW l \in Network!Listeners, Network!Accept(l) PROVE ControlNamed'
  <2>1. Met("allowed")' = Met("allowed") /\ UNCHANGED <<named, made>>
    BY <1>1, <1>3, MetByAccept
  <2> QED
    BY <2>1
<1>4. CASE Network!Describe
  <2>1. PICK c \in ToSet(log["allowed"]) : c.path = "/control" /\ named' = named \cup {c.id}
    BY <1>4 DEF Network!Describe, Network!ToSet, ToSet
  <2>2. c \in Met("allowed") /\ Met("allowed")' = Met("allowed") /\ made' = made
    BY <1>4, <2>1 DEF Network!Describe, Met
  <2> QED
    BY <2>1, <2>2
<1>5. CASE UNCHANGED <<backlog, log, named, made>>
  BY <1>5 DEF Met
<1> QED
  BY <1>2, <1>3, <1>4, <1>5, NetworkSteps, TaskKeepsConnections DEF networkVars

(* What is reachable stays so.                                             *)
LEMMA ReachableStays ==
    ASSUME WindowsInv, Reachable, [Next]_phaseVars
    PROVE  Reachable'
<1> USE DEF Reachable
<1>1. "allowed" \in Network!Listeners
  BY ListenersAre
<1>2. ASSUME NEW l \in Network!Listeners, Network!Connect(l) PROVE Reachable'
  BY <1>2, MetByConnect
<1>3. ASSUME NEW l \in Network!Listeners, Network!Accept(l) PROVE Reachable'
  <2>1. ToSet(log["allowed"]) \subseteq ToSet(log'["allowed"]) /\ named' = named
    BY <1>1, <1>3, MetByAccept
  <2> QED
    BY <2>1
<1>4. CASE Network!Describe
  BY <1>4 DEF Network!Describe
<1>5. CASE UNCHANGED <<log, named>>
  BY <1>5
<1> QED
  BY <1>2, <1>3, <1>4, <1>5, NetworkSteps, TaskKeepsConnections DEF networkVars

LEMMA ControlProvenStep ==
    ASSUME WindowsInv, TaskTypes, ControlNamed, ControlProven, [Next]_phaseVars
    PROVE  ControlProven'
<1>1. CASE UNCHANGED <<policy, netStep, netAt>>
  BY <1>1, ReachableStays DEF ControlProven
<1>2. CASE Network!Task
  <2>1. UNCHANGED <<log, named, policy>>
    BY <1>2, TaskKeepsConnections
  <2>2. Reachable => Reachable'
    BY <2>1 DEF Reachable
  <2>3. CASE Network!JudgeControl
    <3>1. UNCHANGED netAt /\ netStep' \in {"read", "read_failed"}
          /\ (netStep' = "read" => Network!ControlReached)
      BY <2>3 DEF Network!JudgeControl
    <3>2. Network!ControlReached => Reachable
      <4> SUFFICES ASSUME NEW i \in netBefore + 1 .. Len(log["allowed"]), log["allowed"][i].id \in named,
                          i \in DOMAIN log["allowed"]
                   PROVE  Reachable
        BY ListenersAre, LenProperties DEF Network!ControlReached, WindowsInv, LogsAndCursors, TaskTypes
      <4>1. log["allowed"][i] \in ToSet(log["allowed"])
        BY DEF ToSet
      <4> QED
        BY <4>1 DEF Reachable, ControlNamed, Met
    <3> QED
      BY <2>1, <2>2, <3>1, <3>2 DEF ControlProven
  <2>4. CASE Network!NextVector
    BY <2>1, <2>2, <2>4 DEF Network!NextVector, ControlProven
  <2>5. CASE Network!ReportControl
    <3>1. Network!Late \notin DOMAIN NetworkVectors
      BY ConstantsAssumption, LenProperties DEF Network!Late
    <3> QED
      BY <2>1, <2>2, <2>5, <3>1 DEF Network!ReportControl, ControlProven
  <2>6. CASE \/ Network!LookUpTool \/ Network!Mark \/ Network!BeginControl \/ Network!Call
             \/ Network!Grace \/ Network!Settle \/ Network!SettleTimesOut \/ Network!Read
             \/ Network!ReportVector \/ Network!ReportLate
    <3>1. /\ UNCHANGED netAt
          /\ (netStep' = "next" => netAt \in DOMAIN NetworkVectors \/ policy # "allowlist")
          /\ (netStep' = "read" => netStep = "read" \/ netAt # Network!Control)
      BY <2>6 DEF Network!LookUpTool, Network!Mark, Network!BeginControl,
       Network!Call, Network!Grace, Network!Settle, Network!SettleTimesOut, Network!SettledAll,
       Network!Read, Network!ReportVector, Network!ReportLate
    <3> QED
      BY <2>1, <2>2, <3>1 DEF ControlProven
  <2> QED
    BY <1>2, <2>3, <2>4, <2>5, <2>6 DEF Network!Task
<1> QED
  BY <1>1, <1>2, NetworkSteps
  DEF networkVars, Network!Connect, Network!Accept, Network!Describe, Network!taskVars

(* What a step of the task adds to the results: one of them, or the        *)
(* skipped vectors and what was reached.                                   *)
LEMMA FailsAreResults ==
    ASSUME WindowsInv, TaskTypes
    PROVE  /\ Network!Fails \in Seq(Results)
           /\ \A r \in ToSet(Network!Fails) : r.verdict = "FAIL"
           /\ \A r \in ToSet(Network!Fails) : r.reached = reached
           /\ reached # <<>> => ToSet(Network!Fails) # {}
<1> DEFINE r == Network!Result(netAt, "FAIL")
<1>1. r \in Results /\ r.verdict = "FAIL" /\ r.reached = reached
  BY DEF Network!Result, Network!ControlSeen, Results, TaskTypes, WindowsInv, LogsAndCursors
<1>2. Network!Fails = IF reached = <<>> THEN <<>> ELSE <<r>>
  BY DEF Network!Fails
<1> HIDE DEF r
<1>3. <<r>> \in Seq(Results) /\ ToSet(<<r>>) = {r} /\ <<>> \in Seq(Results)
  BY <1>1 DEF ToSet
<1>4. ToSet(<<>>) = {}
  BY DEF ToSet
<1> QED
  BY <1>1, <1>2, <1>3, <1>4

LEMMA SkipsAreResults ==
    ASSUME WindowsInv, TaskTypes
    PROVE  /\ Network!SkippedVectors \in Seq(Results)
           /\ \A r \in ToSet(Network!SkippedVectors) : r.verdict = "SKIP"
<1>1. NetworkVectors \in Seq(BOOLEAN) /\ DOMAIN NetworkVectors = 1 .. Len(NetworkVectors)
      /\ Len(NetworkVectors) \in Nat
  BY ConstantsAssumption, LenProperties
<1>2. \A i \in 1 .. Len(NetworkVectors) : Network!Skip(i, netOutcome, FALSE) \in Results
  BY <1>1 DEF Network!Skip, Results, TaskTypes
<1>3. Network!SkippedVectors = [i \in 1 .. Len(NetworkVectors) |-> Network!Skip(i, netOutcome, FALSE)]
  BY <1>1 DEF Network!SkippedVectors
<1>4. Network!SkippedVectors \in Seq(Results)
  <2>1. Network!SkippedVectors \in [1 .. Len(NetworkVectors) -> Results]
    BY <1>2, <1>3
  <2>2. \A n \in Nat : \A s \in [1 .. n -> Results] : s \in Seq(Results)
    OBVIOUS
  <2> QED
    BY <1>1, <2>1, <2>2
<1>5. \A i \in 1 .. Len(NetworkVectors) : Network!SkippedVectors[i].verdict = "SKIP"
  BY <1>3 DEF Network!Skip
<1>6. DOMAIN Network!SkippedVectors = 1 .. Len(NetworkVectors)
  BY <1>3
<1> QED
  BY <1>4, <1>5, <1>6 DEF ToSet

LEMMA TaskReports ==
    ASSUME WindowsInv, TaskTypes, StartedClean, Network!Task
    PROVE  /\ results' \in Seq(Results)
           /\ ToSet(results) \subseteq ToSet(results')
           /\ \A r \in ToSet(results') :
                  \/ r \in ToSet(results) \/ r.verdict # "PASS"
                  \/ /\ Network!ReportVector /\ Network!Verdict = "PASS"
                     /\ r = Network!Result(netAt, "PASS")
           /\ (Network!ReportControl \/ Network!ReportVector \/ Network!ReportLate) =>
                  reached = <<>> \/ \E r \in ToSet(results') : r.verdict = "FAIL" /\ r.reached = reached
<1> DEFINE Reports ==
       /\ results' \in Seq(Results)
       /\ ToSet(results) \subseteq ToSet(results')
       /\ \A r \in ToSet(results') :
              \/ r \in ToSet(results) \/ r.verdict # "PASS"
              \/ /\ Network!ReportVector /\ Network!Verdict = "PASS"
                 /\ r = Network!Result(netAt, "PASS")
       /\ (Network!ReportControl \/ Network!ReportVector \/ Network!ReportLate) =>
              reached = <<>> \/ \E r \in ToSet(results') : r.verdict = "FAIL" /\ r.reached = reached
<1> SUFFICES Reports
  OBVIOUS
<1>1. results \in Seq(Results) /\ netAt \in Nat
  BY DEF TaskTypes, WindowsInv, LogsAndCursors
<1>2. CASE Network!LookUpTool
  <2>1. results = <<>> /\ netStep = "look"
    BY <1>2 DEF Network!LookUpTool, StartedClean
  <2>2. CASE results' = results
    BY <1>1, <1>2, <2>1, <2>2 DEF Network!ReportControl, Network!ReportVector, Network!ReportLate
  <2>3. CASE results' = <<Network!Skip(Network!Control, "none", FALSE)>>
    <3> DEFINE r == Network!Skip(Network!Control, "none", FALSE)
    <3>1. r \in Results /\ r.verdict = "SKIP"
      BY DEF Network!Skip, Network!Control, Results
    <3>2. results' = <<r>>
      BY <2>3
    <3> HIDE DEF r
    <3>3. ToSet(results') = {r} /\ results' \in Seq(Results) /\ ToSet(<<>>) = {}
      BY <3>1, <3>2 DEF ToSet
    <3> QED
      BY <2>1, <3>1, <3>3 DEF Network!ReportControl, Network!ReportVector, Network!ReportLate
  <2> QED
    BY <1>2, <2>2, <2>3 DEF Network!LookUpTool
<1>3. CASE Network!NextVector /\ results' # results
  <2>1. PICK r : /\ results' = Append(results, r)
                /\ r = Network!Skip(netAt + 1, "none", Network!ControlSeen(netAt + 1))
                /\ netStep = "next"
    BY <1>3 DEF Network!NextVector
  <2>2. r \in Results /\ r.verdict = "SKIP"
    BY <1>1, <2>1 DEF Network!Skip, Network!ControlSeen, Results
  <2>3. ToSet(results') = ToSet(results) \cup {r} /\ results' \in Seq(Results)
    BY <1>1, <2>1, <2>2, HeldByAppend, AppendProperties
  <2> QED
    BY <2>1, <2>2, <2>3 DEF Network!ReportControl, Network!ReportVector, Network!ReportLate
<1>4. CASE Network!ReportControl
  <2>1. /\ Network!Fails \in Seq(Results) /\ Network!SkippedVectors \in Seq(Results)
        /\ results' \in {results \o Network!Fails, results \o Network!Fails \o Network!SkippedVectors}
    BY <1>4, FailsAreResults, SkipsAreResults DEF Network!ReportControl
  <2>2. /\ ToSet(results \o Network!Fails) = ToSet(results) \cup ToSet(Network!Fails)
        /\ results \o Network!Fails \in Seq(Results)
    BY <1>1, <2>1, HeldByConcat, ConcatProperties
  <2>3. /\ ToSet(results \o Network!Fails \o Network!SkippedVectors)
              = ToSet(results) \cup ToSet(Network!Fails) \cup ToSet(Network!SkippedVectors)
        /\ results \o Network!Fails \o Network!SkippedVectors \in Seq(Results)
    <3> DEFINE s == results \o Network!Fails
               t == Network!SkippedVectors
    <3>1. s \in Seq(Results) /\ t \in Seq(Results)
      BY <2>1, <2>2
    <3>2. ToSet(s \o t) = ToSet(s) \cup ToSet(t) /\ s \o t \in Seq(Results)
      <4> HIDE DEF s, t
      <4> QED
        BY <3>1, HeldByConcat, ConcatProperties
    <3> QED
      BY <2>2, <3>2
  <2> QED
    BY <2>1, <2>2, <2>3, FailsAreResults, SkipsAreResults
<1>5. CASE Network!ReportVector
  <2> DEFINE r == Network!Result(netAt, Network!Verdict)
  <2>1. results' = Append(results, r) /\ netAt \in DOMAIN NetworkVectors
    BY <1>5 DEF Network!ReportVector
  <2>2. /\ Network!Verdict \in {"PASS", "FAIL", "SKIP"}
        /\ r \in Results /\ r.verdict = Network!Verdict /\ r.reached = reached
        /\ reached # <<>> => Network!Verdict = "FAIL"
    BY <1>1 DEF Network!Verdict, Network!Result, Network!ControlSeen, Results, TaskTypes
  <2>3. Network!Verdict = "PASS" => r = Network!Result(netAt, "PASS")
    OBVIOUS
  <2> HIDE DEF r
  <2>4. ToSet(results') = ToSet(results) \cup {r} /\ results' \in Seq(Results)
    BY <1>1, <2>1, <2>2, HeldByAppend, AppendProperties
  <2> QED
    BY <1>5, <2>2, <2>3, <2>4
<1>6. CASE Network!ReportLate
  <2>1. Network!Fails \in Seq(Results) /\ results' = results \o Network!Fails
    BY <1>6, FailsAreResults DEF Network!ReportLate
  <2>2. ToSet(results') = ToSet(results) \cup ToSet(Network!Fails) /\ results' \in Seq(Results)
    BY <1>1, <2>1, HeldByConcat, ConcatProperties
  <2> QED
    BY <2>2, FailsAreResults
<1>7. CASE results' = results /\ ~(Network!ReportControl \/ Network!ReportVector \/ Network!ReportLate)
  BY <1>1, <1>7
<1> QED
  BY <1>2, <1>3, <1>4, <1>5, <1>6, <1>7
  DEF Network!Task, Network!Mark, Network!BeginControl, Network!NextVector, Network!Call,
      Network!Grace, Network!Settle, Network!SettleTimesOut, Network!JudgeControl, Network!Read

LEMMA TaskTypesStep ==
    ASSUME WindowsInv, TaskTypes, StartedClean, [Next]_phaseVars
    PROVE  TaskTypes'
<1>1. CASE UNCHANGED Network!taskVars
  BY <1>1 DEF TaskTypes, Network!taskVars, Network!Order, Network!Late
<1>2. CASE Network!Task
  <2>1. policy' \in Network!Policies /\ results' \in Seq(Results)
    BY <1>2, TaskKeepsConnections, TaskReports DEF TaskTypes
  <2>2. netOutcome' \in Network!Outcomes \cup {"none"}
    BY <1>2 DEF TaskTypes, Network!Task, Network!LookUpTool, Network!Mark, Network!BeginControl,
       Network!NextVector, Network!Call, Network!Grace, Network!Settle, Network!SettleTimesOut,
       Network!JudgeControl, Network!Read, Network!ReportControl, Network!ReportVector,
       Network!ReportLate
  <2>3. reached' \in Seq(Conns)
    <3>1. CASE Network!Read
      <4>1. PICK l \in Network!Listeners :
                reached' \in {reached, reached \o SubSeq(log[l], cursor[l] + 1, Len(log[l]))}
        BY <3>1, HeadTailProperties
        DEF Network!Read, Network!ReadFrom, WindowsInv, MarkedFirst
      <4>2. SubSeq(log[l], cursor[l] + 1, Len(log[l])) \in Seq(Conns)
        <5>1. /\ log[l] \in Seq(Conns) /\ Len(log[l]) \in Nat /\ cursor[l] \in Nat
              /\ DOMAIN log[l] = 1 .. Len(log[l])
          BY LenProperties DEF WindowsInv, LogsAndCursors
        <5>2. \A i \in cursor[l] + 1 .. Len(log[l]) : log[l][i] \in Conns
          BY <5>1, ElementOfSeq
        <5> QED
          BY <5>1, <5>2, SubSeqProperties
      <4> QED
        BY <4>1, <4>2, ConcatProperties DEF TaskTypes
    <3>2. CASE ~Network!Read
      <4>1. reached' \in {reached, <<>>}
        BY <1>2, <3>2 DEF Network!Task, Network!LookUpTool, Network!Mark, Network!BeginControl,
           Network!NextVector, Network!Call, Network!Grace, Network!Settle, Network!SettleTimesOut,
           Network!JudgeControl, Network!ReportControl, Network!ReportVector, Network!ReportLate
      <4> QED
        BY <4>1, EmptySeq DEF TaskTypes
    <3> QED
      BY <3>1, <3>2
  <2>4. netBefore' \in Nat
    <3>1. netBefore' = netBefore \/ netBefore' = Len(log["allowed"])
      BY <1>2 DEF Network!Task, Network!LookUpTool, Network!Mark, Network!BeginControl,
         Network!NextVector, Network!Call, Network!Grace, Network!Settle, Network!SettleTimesOut,
         Network!JudgeControl, Network!Read, Network!ReportControl, Network!ReportVector,
         Network!ReportLate
    <3> QED
      BY <3>1, ListenersAre, LenProperties DEF TaskTypes, WindowsInv, LogsAndCursors
  <2>5. netStep' = "grace" => netAt' = Network!Late
    BY <1>2 DEF Network!Task, Network!LookUpTool, Network!Mark, Network!BeginControl,
       Network!NextVector, Network!Call, Network!Grace, Network!Settle, Network!SettleTimesOut,
       Network!SettledAll, Network!JudgeControl, Network!Read, Network!ReportControl,
       Network!ReportVector, Network!ReportLate
  <2>6. (netStep' = "settle" => left' # <<>>) /\ (netStep' = "control" => left' = Network!Order)
    <3>1. ASSUME Len(left) > 1 PROVE Tail(left) # <<>>
      <4>1. left \in Seq(Network!Listeners) /\ left # <<>>
        BY <3>1 DEF WindowsInv, MarkedFirst
      <4>2. Len(Tail(left)) = Len(left) - 1 /\ Len(left) \in Nat
        BY <4>1, HeadTailProperties, LenProperties
      <4> QED
        BY <3>1, <4>2
    <3> QED
      BY <1>2, <3>1, OrderOfListeners
      DEF Network!Task, Network!LookUpTool, Network!Mark, Network!BeginControl,
       Network!NextVector, Network!Call, Network!Grace, Network!Settle, Network!SettleTimesOut,
       Network!SettledAll, Network!JudgeControl, Network!Read, Network!ReportControl,
       Network!ReportVector, Network!ReportLate
  <2>7. netStep' \in {"settle", "control"} \cup Reading /\ netAt' # Network!Late =>
            netOutcome' \in Network!Outcomes
    BY <1>2 DEF TaskTypes, Reading, Network!Task, Network!LookUpTool, Network!Mark,
       Network!BeginControl, Network!NextVector, Network!Call, Network!Grace, Network!Settle,
       Network!SettleTimesOut, Network!SettledAll, Network!JudgeControl, Network!Read,
       Network!ReportControl, Network!ReportVector, Network!ReportLate
  <2> QED
    BY <2>1, <2>2, <2>3, <2>4, <2>5, <2>6, <2>7 DEF TaskTypes, Network!Order, Network!Late
<1> QED
  BY <1>1, <1>2, NetworkSteps
  DEF networkVars, Network!Connect, Network!Accept, Network!Describe, Network!taskVars

LEMMA StartedCleanStep ==
    ASSUME WindowsInv, StartedClean, [Next]_phaseVars
    PROVE  StartedClean'
<1> USE DEF StartedClean
<1>1. ASSUME NEW l \in Network!Listeners, Network!Connect(l) PROVE StartedClean'
  <2>1. PICK c : /\ c.during = Network!During /\ Met(l)' = Met(l) \cup {c}
                /\ \A k \in Network!Listeners \ {l} : backlog'[k] = backlog[k]
                /\ UNCHANGED <<log, netStep, reached, results>>
    BY <1>1, MetByConnect DEF Network!taskVars
  <2>2. \A k \in Network!Listeners \ {l} : Met(k)' = Met(k)
    BY <2>1 DEF Met, Network!Listeners, Network!Order
  <2>3. netStep \in {"look", "mark"} => c.during = "start"
    BY <2>1 DEF Network!During
  <2>4. netStep \in {"look", "mark"} =>
            \A k \in Network!Listeners : \A d \in Met(k)' : d.during = "start"
    BY <2>1, <2>2, <2>3
  <2>5. UNCHANGED <<netStep, reached, results>>
    BY <1>1 DEF Network!Connect, Network!taskVars
  <2> QED
    BY <2>4, <2>5 DEF Network!Listeners, Network!Order
<1>2. ASSUME NEW l \in Network!Listeners, Network!Accept(l) PROVE StartedClean'
  <2>1. /\ \A k \in Network!Listeners : Met(k)' = Met(k)
        /\ UNCHANGED <<netStep, reached, results>>
    BY <1>2, MetByAccept DEF Network!taskVars
  <2>2. netStep \in {"look", "mark"} =>
            \A k \in Network!Listeners : \A d \in Met(k)' : d.during = "start"
    BY <2>1
  <2> QED
    BY <2>1, <2>2 DEF Network!Listeners, Network!Order
<1>3. CASE UNCHANGED <<backlog, log, netStep, reached, results>>
  BY <1>3 DEF Met, Network!Listeners, Network!Order
<1>4. CASE Network!Task
  <2>1. UNCHANGED <<backlog, log>>
    BY <1>4, TaskKeepsConnections
  <2>2. netStep' \in {"look", "mark"} => netStep \in {"look", "mark"} /\ UNCHANGED <<reached, results>>
    BY <1>4 DEF Network!Task, Network!LookUpTool, Network!Mark, Network!BeginControl,
       Network!NextVector, Network!Call, Network!Grace, Network!Settle, Network!SettleTimesOut,
       Network!SettledAll, Network!JudgeControl, Network!Read, Network!ReportControl,
       Network!ReportVector, Network!ReportLate
  <2> QED
    BY <2>1, <2>2 DEF Met, Network!Listeners, Network!Order
<1> QED
  BY <1>1, <1>2, <1>3, <1>4, NetworkSteps DEF networkVars, Network!Describe, Network!taskVars

(* What was reported stays reported, and a report holds what was reached.  *)
LEMMA ReportedGrows ==
    ASSUME WindowsInv, TaskTypes, StartedClean, Network!Task
    PROVE  /\ Network!Reported \subseteq Network!Reported'
           /\ (Network!ReportControl \/ Network!ReportVector \/ Network!ReportLate) =>
                  ToSet(reached) \subseteq Network!Reported'
<1> USE DEF Network!Reported, Network!ToSet, ToSet
<1>1. ToSet(results) \subseteq ToSet(results')
  BY TaskReports
<1>2. Network!Reported \subseteq Network!Reported'
  BY <1>1
<1>3. ASSUME Network!ReportControl \/ Network!ReportVector \/ Network!ReportLate
      PROVE  ToSet(reached) \subseteq Network!Reported'
  <2>1. CASE reached = <<>>
    BY <2>1
  <2>2. CASE \E r \in ToSet(results') : r.verdict = "FAIL" /\ r.reached = reached
    BY <2>2
  <2> QED
    BY <1>3, <2>1, <2>2, TaskReports
<1> QED
  BY <1>2, <1>3

LEMMA ReadIsKeptStep ==
    ASSUME WindowsInv, TaskTypes, StartedClean, ReadIsKept, [Next]_phaseVars
    PROVE  ReadIsKept'
<1>1. ASSUME NEW l \in Network!Listeners, NEW c, log' = [log EXCEPT ![l] = Append(@, c)], c \in Conns,
             UNCHANGED <<cursor, reached, results, netStep, policy>>
      PROVE  ReadIsKept'
  <2>1. ASSUME NEW k \in Network!Listeners, NEW i \in 1 .. cursor[k] PROVE log'[k][i] = log[k][i]
    <3>1. log[k] \in Seq(Conns) /\ Len(log[k]) \in Nat /\ cursor[k] <= Len(log[k]) /\ cursor[k] \in Nat
      BY LenProperties DEF WindowsInv, LogsAndCursors
    <3>2. i \in 1 .. Len(log[k])
      BY <3>1
    <3>3. log'[k] = log[k] \/ log'[k] = Append(log[k], c)
      BY <1>1 DEF WindowsInv, LogsAndCursors
    <3> QED
      BY <1>1, <3>1, <3>2, <3>3, AppendProperties
  <2> QED
    BY <1>1, <2>1 DEF ReadIsKept, Network!Counts, Network!Reported, Network!Listeners, Network!Order
<1>2. CASE UNCHANGED <<log, cursor, reached, results, netStep, policy>>
  BY <1>2 DEF ReadIsKept, Network!Counts, Network!Reported, Network!Listeners, Network!Order
<1>3. CASE Network!Task
  <2>1. UNCHANGED <<log, policy>>
    BY <1>3, TaskKeepsConnections
  <2>2. Network!Reported \subseteq Network!Reported'
    BY <1>3, ReportedGrows
  <2> DEFINE Kept(l, i) ==
          log[l][i].during # "start" => log[l][i] \in ToSet(reached) \cup Network!Reported
  <2>3. /\ \A l \in Network!Listeners : Network!Counts(l) => \A i \in 1 .. cursor[l] : Kept(l, i)
        /\ netStep \notin Reading => ToSet(reached) \subseteq Network!Reported
    BY DEF ReadIsKept
  <2>4. SUFFICES /\ \A l \in Network!Listeners :
                        Network!Counts(l) => \A i \in 1 .. cursor'[l] : Kept(l, i)'
                 /\ netStep' \notin Reading => ToSet(reached') \subseteq Network!Reported'
    BY <2>1 DEF ReadIsKept, Network!Counts, Network!Listeners, Network!Order, Reading
  <2>5. CASE Network!LookUpTool \/ Network!Mark
    <3>1. netStep \in {"look", "mark"} /\ reached' = reached
      BY <2>5 DEF Network!LookUpTool, Network!Mark
    <3>2. \A l \in Network!Listeners : \A i \in 1 .. cursor'[l] : log[l][i].during = "start"
      <4> SUFFICES ASSUME NEW l \in Network!Listeners, NEW i \in 1 .. cursor'[l]
                   PROVE  log[l][i] \in Met(l)
        BY <3>1 DEF StartedClean
      <4>1. /\ cursor'[l] \in {cursor[l], Len(log[l])} /\ cursor[l] <= Len(log[l]) /\ cursor[l] \in Nat
            /\ log[l] \in Seq(Conns) /\ Len(log[l]) \in Nat /\ DOMAIN log[l] = 1 .. Len(log[l])
        BY <2>5, LenProperties DEF WindowsInv, LogsAndCursors, Network!LookUpTool, Network!Mark
      <4>2. i \in DOMAIN log[l]
        BY <4>1
      <4> QED
        BY <4>2 DEF Met, ToSet
    <3>3. reached' = <<>>
      BY <3>1 DEF StartedClean
    <3> QED
      BY <2>1, <3>2, <3>3 DEF ToSet
  <2>6. CASE Network!Read
    <3>1. PICK l \in Network!Listeners :
              /\ cursor' = [cursor EXCEPT ![l] = Len(log[l])]
              /\ reached' = IF Network!Counts(l)
                             THEN reached \o SubSeq(log[l], cursor[l] + 1, Len(log[l])) ELSE reached
      BY <2>6, HeadTailProperties DEF Network!Read, Network!ReadFrom, WindowsInv, MarkedFirst
    <3>2. netStep' \in Reading /\ UNCHANGED results
      BY <2>6 DEF Network!Read, Reading
    <3> DEFINE window == SubSeq(log[l], cursor[l] + 1, Len(log[l]))
    <3>3. /\ log[l] \in Seq(Conns) /\ Len(log[l]) \in Nat /\ cursor[l] \in Nat
          /\ cursor[l] <= Len(log[l])
          /\ DOMAIN log[l] = 1 .. Len(log[l])
      BY LenProperties DEF WindowsInv, LogsAndCursors
    <3>4. /\ window \in Seq(Conns)
          /\ \A i \in cursor[l] + 1 .. Len(log[l]) : log[l][i] \in ToSet(window)
      <4>1. \A i \in cursor[l] + 1 .. Len(log[l]) : log[l][i] \in Conns
        BY <3>3, ElementOfSeq
      <4>2. /\ window \in Seq(Conns) /\ DOMAIN window = 1 .. Len(log[l]) - cursor[l]
            /\ \A i \in 1 .. Len(log[l]) - cursor[l] : window[i] = log[l][cursor[l] + i]
        BY <3>3, <4>1, SubSeqProperties
      <4>3. ASSUME NEW i \in cursor[l] + 1 .. Len(log[l]) PROVE log[l][i] \in ToSet(window)
        <5>1. i - cursor[l] \in 1 .. Len(log[l]) - cursor[l] /\ cursor[l] + (i - cursor[l]) = i
          BY <3>3
        <5>2. i - cursor[l] \in DOMAIN window /\ window[i - cursor[l]] = log[l][i]
          <6> HIDE DEF window
          <6> QED
            BY <4>2, <5>1
        <5> QED
          BY <5>2, Zenon DEF ToSet
      <4> QED
        BY <4>2, <4>3
    <3> HIDE DEF window
    <3>5. /\ ToSet(reached) \subseteq ToSet(reached')
          /\ Network!Counts(l) => ToSet(window) \subseteq ToSet(reached')
      <4>1. reached' = IF Network!Counts(l) THEN reached \o window ELSE reached
        BY <3>1 DEF window
      <4>2. ToSet(reached \o window) = ToSet(reached) \cup ToSet(window)
        BY <3>4, HeldByConcat DEF TaskTypes
      <4> QED
        BY <4>1, <4>2
    <3>6. ASSUME NEW k \in Network!Listeners, Network!Counts(k), NEW i \in 1 .. cursor'[k]
          PROVE  Kept(k, i)'
      <4>1. CASE i \in 1 .. cursor[k]
        BY <2>1, <2>2, <2>3, <3>5, <3>6, <4>1
      <4>2. CASE i \notin 1 .. cursor[k]
        <5>1. k = l /\ cursor'[l] = Len(log[l])
          BY <3>1, <3>6, <4>2 DEF WindowsInv, LogsAndCursors
        <5>2. i \in cursor[l] + 1 .. Len(log[l])
          BY <3>3, <3>6, <4>2, <5>1
        <5> QED
          BY <2>1, <3>4, <3>5, <3>6, <5>1, <5>2
      <4> QED
        BY <4>1, <4>2
    <3> QED
      BY <3>2, <3>6
  <2>7. CASE Network!NextVector
    BY <2>1, <2>2, <2>3, <2>7 DEF Network!NextVector, Reading, ToSet
  <2>8. CASE Network!ReportControl \/ Network!ReportVector \/ Network!ReportLate
    <3>1. cursor' = cursor /\ reached' \in {reached, <<>>}
      BY <2>8 DEF Network!ReportControl, Network!ReportVector, Network!ReportLate
    <3>2. ToSet(reached) \subseteq Network!Reported' /\ ToSet(reached') \subseteq Network!Reported'
      BY <1>3, <2>8, <3>1, ReportedGrows DEF ToSet
    <3> QED
      BY <2>1, <2>2, <2>3, <3>1, <3>2
  <2>9. CASE \/ Network!BeginControl \/ Network!Call \/ Network!Grace \/ Network!Settle
             \/ Network!SettleTimesOut \/ Network!JudgeControl
    <3>1. UNCHANGED <<cursor, reached>> /\ netStep \notin Reading
      BY <2>9 DEF Network!BeginControl, Network!Call, Network!Grace, Network!Settle,
         Network!SettleTimesOut, Network!JudgeControl, Reading
    <3> QED
      BY <2>1, <2>2, <2>3, <3>1
  <2> QED
    BY <1>3, <2>5, <2>6, <2>7, <2>8, <2>9 DEF Network!Task
<1>4. ASSUME NEW l \in Network!Listeners, Network!Accept(l) PROVE ReadIsKept'
  <2>1. PICK c \in Conns : log' = [log EXCEPT ![l] = Append(@, c)]
    BY <1>4, MetByAccept
  <2> QED
    BY <1>1, <1>4, <2>1 DEF Network!Accept, Network!taskVars
<1> QED
  BY <1>2, <1>3, <1>4, NetworkSteps
  DEF networkVars, Network!Connect, Network!Describe, Network!taskVars

(* A listener settles with nothing waiting, or its window is marked; what  *)
(* comes while it settles, or later, is not of this window's call.         *)
LEMMA NothingDueLeftStep ==
    ASSUME WindowsInv, TaskTypes, NothingDueLeft, [Next]_phaseVars
    PROVE  NothingDueLeft'
<1> DEFINE Left(l) ==
       /\ SettledHere(l) => \A c \in ToSet(backlog[l]) : ~Due(c)
       /\ ReadHere(l) => \A i \in cursor[l] + 1 .. Len(log[l]) : ~Due(log[l][i])
<1>1. netAt \notin timedOut => \A l \in Network!Listeners : Left(l)
  BY DEF NothingDueLeft
<1>2. SUFFICES ASSUME netAt' \notin timedOut', NEW l \in Network!Listeners PROVE Left(l)'
  BY DEF NothingDueLeft, Network!Listeners, Network!Order
<1>3. ReadHere(l) => SettledHere(l)
  BY DEF ReadHere, SettledHere
<1>4. ASSUME NEW k \in Network!Listeners, Network!Connect(k) PROVE Left(l)'
  <2>1. PICK c \in Conns : /\ c.at = netAt /\ c.during = Network!During
                           /\ ToSet(backlog'[k]) = ToSet(backlog[k]) \cup {c}
                           /\ \A m \in Network!Listeners \ {k} : backlog'[m] = backlog[m]
    BY <1>4, MetByConnect
  <2>2. UNCHANGED <<netAt, netStep, left, timedOut, log, cursor>>
    BY <1>4 DEF Network!Connect, Network!taskVars
  <2>3. Left(l)
    BY <1>1, <1>2, <2>2
  <2>4. SettledHere(l) => ~Due(c)
    BY <2>1 DEF SettledHere, Due, Network!During, Reading, WindowsInv, LogsAndCursors
  <2>5. ToSet(backlog'[l]) \subseteq ToSet(backlog[l]) \cup {c}
    BY <2>1
  <2>6. /\ (SettledHere(l)' <=> SettledHere(l)) /\ (ReadHere(l)' <=> ReadHere(l))
        /\ \A d : Due(d)' <=> Due(d)
    BY <2>2 DEF SettledHere, ReadHere, Due
  <2> QED
    BY <2>2, <2>3, <2>4, <2>5, <2>6
<1>5. ASSUME NEW k \in Network!Listeners, Network!Accept(k) PROVE Left(l)'
  <2>1. PICK c \in ToSet(backlog[k]) :
            /\ log' = [log EXCEPT ![k] = Append(@, c)] /\ c \in Conns
            /\ ToSet(backlog'[k]) \subseteq ToSet(backlog[k])
            /\ \A m \in Network!Listeners \ {k} : backlog'[m] = backlog[m] /\ log'[m] = log[m]
    BY <1>5, MetByAccept
  <2>2. UNCHANGED <<netAt, netStep, left, timedOut, cursor>>
    BY <1>5 DEF Network!Accept, Network!taskVars
  <2>3. Left(l)
    BY <1>1, <1>2, <2>2
  <2>4. /\ (SettledHere(l)' <=> SettledHere(l)) /\ (ReadHere(l)' <=> ReadHere(l))
        /\ \A d : Due(d)' <=> Due(d)
    BY <2>2 DEF SettledHere, ReadHere, Due
  <2>5. ToSet(backlog'[l]) \subseteq ToSet(backlog[l])
    BY <2>1
  <2>6. ASSUME ReadHere(l), NEW i \in cursor[l] + 1 .. Len(log'[l]) PROVE ~Due(log'[l][i])
    <3>1. /\ log[l] \in Seq(Conns) /\ Len(log[l]) \in Nat /\ cursor[l] \in Nat
      BY LenProperties DEF WindowsInv, LogsAndCursors
    <3>2. CASE l # k
      BY <2>1, <2>3, <2>6, <3>2
    <3>3. CASE l = k
      <4>1. /\ log'[l] = Append(log[l], c) /\ Len(log'[l]) = Len(log[l]) + 1
            /\ \A j \in 1 .. Len(log[l]) : log'[l][j] = log[l][j]
            /\ log'[l][Len(log[l]) + 1] = c
        BY <2>1, <3>1, <3>3, AppendProperties DEF WindowsInv, LogsAndCursors
      <4>2. CASE i = Len(log[l]) + 1
        BY <1>3, <2>3, <2>6, <3>3, <4>1, <4>2
      <4>3. CASE i # Len(log[l]) + 1
        BY <2>3, <2>6, <3>1, <4>1, <4>3
      <4> QED
        BY <4>2, <4>3
    <3> QED
      BY <3>2, <3>3
  <2> QED
    BY <2>2, <2>3, <2>4, <2>5, <2>6
<1>6. CASE UNCHANGED <<backlog, log, cursor, netAt, netStep, left, timedOut>>
  BY <1>1, <1>2, <1>6 DEF SettledHere, ReadHere, Due
<1>7. CASE Network!Task
  <2>1. UNCHANGED <<backlog, log>>
    BY <1>7, TaskKeepsConnections
  <2>2. CASE netStep' \notin {"settle", "control"} \cup Reading
    BY <2>2 DEF SettledHere, ReadHere
  <2>3. CASE Network!Call \/ Network!Grace
    <3>1. netStep' = "settle" /\ left' = Network!Order
      BY <2>3 DEF Network!Call, Network!Grace
    <3> QED
      BY <3>1 DEF SettledHere, ReadHere, Reading, Network!Listeners, Network!ToSet, ToSet
  <2>4. CASE Network!Settle
    <3>1. /\ netStep = "settle" /\ backlog[Head(left)] = <<>> /\ UNCHANGED <<netAt, timedOut, cursor>>
          /\ Network!SettledAll
      BY <2>4 DEF Network!Settle, Network!Settled
    <3>2. left # <<>> /\ left \in Seq(Network!Listeners)
      BY <3>1 DEF TaskTypes, WindowsInv, MarkedFirst
    <3>3. ToSet(left) = {Head(left)} \cup ToSet(Tail(left))
      BY <3>2, HeldByTail
    <3>4. Left(l)
      BY <1>1, <1>2, <3>1
    <3>5. ~ReadHere(l)'
      <4>1. netStep' \in Reading => left' = Network!Order
        BY <3>1 DEF Network!SettledAll, Reading
      <4> QED
        BY <4>1 DEF ReadHere, Network!Listeners, Network!ToSet, ToSet
    <3>6. l \in ToSet(left) /\ SettledHere(l)' => l = Head(left)
      <4>1. CASE Len(left) > 1
        <5>1. netStep' = "settle" /\ left' = Tail(left)
          BY <3>1, <4>1 DEF Network!SettledAll
        <5> QED
          BY <3>3, <5>1 DEF SettledHere, Reading
      <4>2. CASE ~(Len(left) > 1)
        <5>1. Tail(left) = <<>>
          BY <3>2, <4>2, HeadTailProperties, LenProperties, EmptySeq
        <5>2. ToSet(Tail(left)) = {}
          BY <5>1 DEF ToSet
        <5> QED
          BY <3>3, <5>2
      <4> QED
        BY <4>1, <4>2
    <3>7. ASSUME SettledHere(l)' PROVE \A c \in ToSet(backlog[l]) : ~Due(c)
      <4>1. CASE l \in ToSet(left)
        BY <3>1, <3>6, <3>7, <4>1 DEF ToSet
      <4>2. CASE l \notin ToSet(left)
        BY <3>1, <3>4, <4>2 DEF SettledHere
      <4> QED
        BY <4>1, <4>2
    <3>8. \A c : Due(c)' <=> Due(c)
      BY <3>1 DEF Due
    <3> QED
      BY <2>1, <3>5, <3>7, <3>8
  <2>5. CASE Network!SettleTimesOut
    BY <1>2, <2>5 DEF Network!SettleTimesOut
  <2>6. CASE Network!JudgeControl
    <3>1. UNCHANGED <<netAt, timedOut, left>> /\ left = Network!Order /\ netStep = "control"
      BY <2>6 DEF Network!JudgeControl, TaskTypes
    <3>2. Left(l) /\ SettledHere(l)
      BY <1>1, <1>2, <3>1 DEF SettledHere
    <3>3. ~ReadHere(l)'
      BY <3>1 DEF ReadHere, Network!Listeners, Network!ToSet, ToSet
    <3>4. \A c : Due(c)' <=> Due(c)
      BY <3>1 DEF Due
    <3> QED
      BY <2>1, <3>2, <3>3, <3>4
  <2>7. CASE Network!Read
    <3>1. /\ UNCHANGED <<netAt, timedOut, netStep>> /\ netStep \in Reading /\ left # <<>>
          /\ left' = Tail(left) /\ left \in Seq(Network!Listeners)
          /\ cursor' = [cursor EXCEPT ![Head(left)] = Len(log[Head(left)])]
      BY <2>7 DEF Network!Read, Network!ReadFrom, Reading, WindowsInv, MarkedFirst
    <3>2. ToSet(left) = {Head(left)} \cup ToSet(Tail(left))
      BY <3>1, HeldByTail
    <3>3. Left(l) /\ SettledHere(l)
      BY <1>1, <1>2, <3>1 DEF SettledHere
    <3>4. \A c : Due(c)' <=> Due(c)
      BY <3>1 DEF Due
    <3>5. ASSUME ReadHere(l)', NEW i \in cursor'[l] + 1 .. Len(log[l]) PROVE ~Due(log[l][i])
      <4>1. CASE l = Head(left)
        <5>1. cursor'[l] = Len(log[l]) /\ Len(log[l]) \in Nat
          BY <3>1, <4>1, LenProperties DEF WindowsInv, LogsAndCursors
        <5> QED
          BY <3>5, <5>1
      <4>2. CASE l # Head(left)
        <5>1. cursor'[l] = cursor[l] /\ ReadHere(l)
          BY <3>1, <3>2, <3>5, <4>2 DEF ReadHere, WindowsInv, LogsAndCursors
        <5> QED
          BY <3>3, <3>5, <5>1
      <4> QED
        BY <4>1, <4>2
    <3> QED
      BY <2>1, <3>3, <3>4, <3>5
  <2> QED
    BY <1>7, <2>2, <2>3, <2>4, <2>5, <2>6, <2>7
    DEF Network!Task, Network!LookUpTool, Network!Mark, Network!BeginControl, Network!NextVector,
       Network!ReportControl, Network!ReportVector, Network!ReportLate, Reading
<1> QED
  BY <1>4, <1>5, <1>6, <1>7, NetworkSteps
  DEF networkVars, Network!Describe, Network!taskVars

(* Once every log of a window was read, what is due is reported, or about  *)
(* to be.                                                                  *)
LEMMA AllDueIsKept ==
    ASSUME WindowsInv, TaskTypes, ReadIsKept, NothingDueLeft,
           netStep \in Reading, left = <<>>, netAt \notin timedOut
    PROVE  \A c \in Network!Contacts : Due(c) => c \in ToSet(reached) \cup Network!Reported
<1> SUFFICES ASSUME NEW l \in Network!Listeners, Network!Counts(l), NEW c \in Met(l), Due(c)
             PROVE  c \in ToSet(reached) \cup Network!Reported
  BY ContactsAreMet DEF Policed
<1>1. SettledHere(l) /\ ReadHere(l)
  BY DEF SettledHere, ReadHere, ToSet
<1>2. c \notin ToSet(backlog[l]) /\ \A i \in cursor[l] + 1 .. Len(log[l]) : ~Due(log[l][i])
  BY <1>1 DEF NothingDueLeft
<1>3. PICK i \in DOMAIN log[l] : c = log[l][i]
  BY <1>2 DEF Met, ToSet
<1>4. DOMAIN log[l] = 1 .. Len(log[l]) /\ Len(log[l]) \in Nat /\ cursor[l] \in Nat
  BY LenProperties DEF WindowsInv, LogsAndCursors
<1>5. i \in 1 .. cursor[l]
  BY <1>2, <1>3, <1>4
<1> QED
  BY <1>3, <1>5 DEF ReadIsKept, Due

(* What the server makes later was not caused by a window that passed.     *)
Caused(c, window) ==
    \/ c.at < window /\ c.during # "start"
    \/ c.at = window /\ c.during = "call"

Earned(r) ==
    /\ policy = "allowlist"
    /\ Reachable
    /\ r.outcome = "judged"
    /\ r.window \notin timedOut =>
           \A c \in Network!Contacts : Caused(c, r.window) => c \in Network!Reported

PassesEarned == \A r \in ToSet(results) : r.verdict = "PASS" => Earned(r)

NetworkInv ==
    /\ WindowsInv /\ TaskTypes /\ ControlNamed /\ ControlProven /\ StartedClean
    /\ ReadIsKept /\ NothingDueLeft /\ PassesArePast /\ PassesEarned /\ NoContactMissed

LEMMA HeldIsMember ==
    ASSUME NEW S, NEW s \in Seq(S), NEW e \in ToSet(s)
    PROVE  e \in S
BY LenProperties, ElementOfSeq DEF ToSet

LEMMA WindowsAreNumbers ==
    ASSUME TaskTypes
    PROVE  \A r \in ToSet(results) : r.window \in Nat
<1>1. \A r \in ToSet(results) : r \in Results
  BY HeldIsMember DEF TaskTypes
<1> QED
  BY <1>1 DEF Results

LEMMA PassesArePastStep ==
    ASSUME NetworkInv, [Next]_phaseVars
    PROVE  PassesArePast'
<1> USE DEF PassesArePast
<1>1. CASE UNCHANGED <<results, netAt, netStep>>
  BY <1>1 DEF NetworkInv
<1>2. CASE Network!Task
  <2>1. \A r \in ToSet(results) : r.window \in Nat
    BY WindowsAreNumbers DEF NetworkInv
  <2>2. ASSUME NEW r \in ToSet(results'), r.verdict = "PASS"
        PROVE  r.window < netAt' \/ (r.window = netAt' /\ netStep' = "next")
    <3>1. CASE r \in ToSet(results)
      <4>1. r.window < netAt \/ (r.window = netAt /\ netStep = "next")
        BY <2>2, <3>1 DEF NetworkInv
      <4>2. netAt \in Nat /\ r.window \in Nat
        BY <2>1, <3>1 DEF NetworkInv, WindowsInv, LogsAndCursors
      <4>3. CASE Network!NextVector
        BY <4>1, <4>2, <4>3 DEF Network!NextVector
      <4>4. CASE Network!ReportControl
        BY <4>1, <4>2, <4>4 DEF Network!ReportControl, Network!Control
      <4>5. CASE ~Network!NextVector /\ ~Network!ReportControl
        <5>1. netAt' = netAt /\ netStep # "next"
          BY <1>2, <4>5 DEF Network!Task, Network!LookUpTool, Network!Mark, Network!BeginControl,
             Network!Call, Network!Grace, Network!Settle, Network!SettleTimesOut,
             Network!JudgeControl, Network!Read, Network!ReportVector, Network!ReportLate
        <5> QED
          BY <4>1, <5>1
      <4> QED
        BY <4>3, <4>4, <4>5
    <3>2. CASE r \notin ToSet(results)
      <4>1. Network!ReportVector /\ r = Network!Result(netAt, "PASS")
        BY <1>2, <2>2, <3>2, TaskReports DEF NetworkInv
      <4> QED
        BY <4>1 DEF Network!ReportVector, Network!Result
    <3> QED
      BY <3>1, <3>2
  <2> QED
    BY <2>2
<1> QED
  BY <1>1, <1>2, NetworkSteps
  DEF networkVars, Network!Connect, Network!Accept, Network!Describe, Network!taskVars

(* A connection made now is of no window that passed before.               *)
LEMMA PassesEarnedStep ==
    ASSUME NetworkInv, WindowsInv', TaskTypes', [Next]_phaseVars
    PROVE  PassesEarned'
<1>1. \A c : c \in Network!Contacts <=> Policed(c)
  BY ContactsAreMet DEF NetworkInv
<1>2. \A c : c \in Network!Contacts' <=> Policed(c)'
  <2>1. (WindowsInv /\ TaskTypes => \A c : c \in Network!Contacts <=> Policed(c))'
    BY ContactsAreMet, PTL
  <2> QED
    BY <2>1
<1>3. Reachable => Reachable'
  BY ReachableStays DEF NetworkInv
<1>4. ASSUME NEW l \in Network!Listeners, Network!Connect(l) PROVE PassesEarned'
  <2>1. PICK c : /\ c.at = netAt /\ c.during = Network!During
                /\ Met(l)' = Met(l) \cup {c}
                /\ \A k \in Network!Listeners \ {l} : backlog'[k] = backlog[k]
    BY <1>4, MetByConnect DEF NetworkInv
  <2>2. UNCHANGED <<log, results, policy, timedOut>>
    BY <1>4 DEF Network!Connect, Network!taskVars
  <2>3. \A k \in Network!Listeners : Met(k)' \subseteq Met(k) \cup {c}
    BY <2>1, <2>2 DEF Met
  <2>4. \A d \in Network!Contacts' : d \in Network!Contacts \/ d = c
    BY <1>1, <1>2, <2>2, <2>3 DEF Policed, Network!Counts, Network!Listeners, Network!Order
  <2>5. ASSUME NEW r \in ToSet(results), r.verdict = "PASS" PROVE ~Caused(c, r.window)
    <3>1. r.window < netAt \/ (r.window = netAt /\ netStep = "next")
      BY <2>5 DEF NetworkInv, PassesArePast
    <3>2. r.window \in Nat /\ netAt \in Nat
      BY WindowsAreNumbers DEF NetworkInv, WindowsInv, LogsAndCursors
    <3> QED
      BY <2>1, <3>1, <3>2 DEF Caused, Network!During
  <2>6. ASSUME NEW r \in ToSet(results), r.verdict = "PASS" PROVE Earned(r)'
    <3>1. Earned(r)
      BY <2>6 DEF NetworkInv, PassesEarned
    <3>2. Network!Reported' = Network!Reported
      BY <2>2 DEF Network!Reported
    <3> QED
      BY <1>3, <2>2, <2>4, <2>5, <2>6, <3>1, <3>2 DEF Earned
  <2> QED
    BY <2>2, <2>6 DEF PassesEarned
<1>5. ASSUME \A l \in Network!Listeners : Met(l)' = Met(l), UNCHANGED <<results, policy, timedOut>>
      PROVE  PassesEarned'
  <2>1. \A c : Policed(c)' <=> Policed(c)
    BY <1>5 DEF Policed, Network!Counts, Network!Listeners, Network!Order
  <2>2. \A c : c \in Network!Contacts' <=> c \in Network!Contacts
    BY <1>1, <1>2, <2>1
  <2>3. Network!Reported' = Network!Reported
    BY <1>5 DEF Network!Reported
  <2> QED
    BY <1>3, <1>5, <2>2, <2>3 DEF NetworkInv, PassesEarned, Earned
<1>6. CASE Network!Task
  <2>1. UNCHANGED <<backlog, log, named, policy>>
    BY <1>6, TaskKeepsConnections
  <2>2. Network!Contacts' = Network!Contacts
    BY <2>1 DEF Network!Contacts, Network!Listeners, Network!Order
  <2>3. Network!Reported \subseteq Network!Reported'
    BY <1>6, ReportedGrows DEF NetworkInv
  <2>4. ASSUME NEW r \in ToSet(results), r.verdict = "PASS" PROVE Earned(r)'
    <3>1. Earned(r)
      BY <2>4 DEF NetworkInv, PassesEarned
    <3>2. timedOut \subseteq timedOut'
      BY <1>6 DEF Network!Task, Network!LookUpTool, Network!Mark, Network!BeginControl,
         Network!NextVector, Network!Call, Network!Grace, Network!Settle, Network!SettleTimesOut,
         Network!JudgeControl, Network!Read, Network!ReportControl, Network!ReportVector,
         Network!ReportLate
    <3> QED
      BY <1>3, <2>1, <2>2, <2>3, <3>1, <3>2 DEF Earned
  <2>5. ASSUME Network!ReportVector, Network!Verdict = "PASS", NEW r, r = Network!Result(netAt, "PASS")
        PROVE  Earned(r)'
    <3>1. /\ netStep = "read" /\ netAt \in DOMAIN NetworkVectors /\ left = <<>> /\ UNCHANGED timedOut
          /\ reached = <<>> /\ ~Network!Unjudged(netOutcome) /\ policy # "deny-private"
      BY <2>5 DEF Network!ReportVector, Network!Verdict
    <3>2. policy = "allowlist"
      BY <3>1 DEF NetworkInv, TaskTypes, Network!Policies
    <3>3. Reachable
      BY <3>1, <3>2 DEF NetworkInv, ControlProven
    <3>4. netAt # Network!Late
      BY <3>1, ConstantsAssumption, LenProperties DEF Network!Late
    <3>5. r.outcome = "judged" /\ r.window = netAt
      BY <2>5, <3>1, <3>4
      DEF NetworkInv, TaskTypes, Reading, Network!Outcomes, Network!Unjudged, Network!Result
    <3>6. ASSUME netAt \notin timedOut, NEW c \in Network!Contacts, Caused(c, netAt)
          PROVE  c \in Network!Reported
      <4>1. Due(c)
        BY <3>6 DEF Caused, Due
      <4>2. c \in ToSet(reached) \cup Network!Reported
        BY <3>1, <3>6, <4>1, AllDueIsKept DEF NetworkInv, Reading
      <4> QED
        BY <3>1, <4>2 DEF ToSet
    <3> QED
      BY <1>3, <2>1, <2>2, <2>3, <3>1, <3>2, <3>3, <3>5, <3>6 DEF Earned
  <2>6. ASSUME NEW r \in ToSet(results'), r.verdict = "PASS" PROVE Earned(r)'
    <3>1. \/ r \in ToSet(results)
          \/ /\ Network!ReportVector /\ Network!Verdict = "PASS"
             /\ r = Network!Result(netAt, "PASS")
      BY <1>6, <2>6, TaskReports DEF NetworkInv
    <3> QED
      BY <2>4, <2>5, <2>6, <3>1
  <2> QED
    BY <2>6 DEF PassesEarned
<1>7. ASSUME NEW l \in Network!Listeners, Network!Accept(l) PROVE PassesEarned'
  <2>1. \A k \in Network!Listeners : Met(k)' = Met(k)
    BY <1>7, MetByAccept DEF NetworkInv
  <2> QED
    BY <1>5, <1>7, <2>1 DEF Network!Accept, Network!taskVars
<1>8. CASE UNCHANGED <<backlog, log, results, policy, timedOut>>
  BY <1>5, <1>8 DEF Met
<1> QED
  BY <1>4, <1>6, <1>7, <1>8, NetworkSteps DEF networkVars, Network!Describe, Network!taskVars

LEMMA NoContactMissedStep ==
    ASSUME NetworkInv, WindowsInv', TaskTypes', [Next]_phaseVars
    PROVE  NoContactMissed'
<1> USE DEF NoContactMissed, Network!NoContactMissed
<1>1. CASE Network!Task
  <2>1. UNCHANGED <<backlog, log, policy>>
    BY <1>1, TaskKeepsConnections
  <2>2. Network!Contacts' = Network!Contacts
    BY <2>1 DEF Network!Contacts, Network!Listeners, Network!Order
  <2>3. CASE Network!LookUpTool
    <3>1. \A c \in Network!Contacts : c.during = "start"
      BY <2>3, ContactsAreMet DEF Policed, NetworkInv, StartedClean, Network!LookUpTool
    <3> QED
      BY <2>2, <3>1
  <2>4. CASE Network!ReportLate
    <3>1. /\ netStep = "read" /\ netAt = Network!Late /\ left = <<>> /\ UNCHANGED <<netAt, timedOut>>
      BY <2>4 DEF Network!ReportLate
    <3>2. ASSUME Network!Late \notin timedOut, NEW c \in Network!Contacts, c.during # "start",
                 c.at < Network!Late \/ c.during = "grace"
          PROVE  c \in Network!Reported'
      <4>1. Due(c)
        BY <3>1, <3>2 DEF Due
      <4>2. c \in ToSet(reached) \cup Network!Reported
        BY <3>1, <3>2, <4>1, AllDueIsKept DEF NetworkInv, Reading
      <4> QED
        BY <1>1, <2>4, <4>2, ReportedGrows DEF NetworkInv
    <3> QED
      BY <2>2, <3>1, <3>2 DEF Network!Late
  <2>5. CASE ~Network!LookUpTool /\ ~Network!ReportLate
    <3>1. netStep' # "done"
      BY <1>1, <2>5 DEF Network!Task, Network!Mark, Network!BeginControl,
         Network!NextVector, Network!Call, Network!Grace, Network!Settle, Network!SettleTimesOut,
         Network!SettledAll, Network!JudgeControl, Network!Read, Network!ReportControl,
         Network!ReportVector
    <3> QED
      BY <3>1
  <2> QED
    BY <2>3, <2>4, <2>5
<1>2. ASSUME NEW l \in Network!Listeners, Network!Connect(l) PROVE NoContactMissed'
  BY <1>2 DEF Network!Connect, Network!taskVars
<1>3. ASSUME NEW l \in Network!Listeners, Network!Accept(l) PROVE NoContactMissed'
  <2>1. \A k \in Network!Listeners : Met(k)' = Met(k)
    BY <1>3, MetByAccept DEF NetworkInv
  <2>2. UNCHANGED <<policy, results, timedOut, netStep>>
    BY <1>3 DEF Network!Accept, Network!taskVars
  <2>3. (WindowsInv /\ TaskTypes => \A c : c \in Network!Contacts <=> Policed(c))'
    BY ContactsAreMet, PTL
  <2>4. \A c : c \in Network!Contacts' <=> c \in Network!Contacts
    BY <2>1, <2>2, <2>3, ContactsAreMet
    DEF NetworkInv, Policed, Network!Counts, Network!Listeners, Network!Order
  <2>5. Network!Reported' = Network!Reported
    BY <2>2 DEF Network!Reported
  <2> QED
    BY <2>2, <2>4, <2>5 DEF NetworkInv, Network!Late
<1>4. CASE UNCHANGED <<backlog, log, policy, results, timedOut, netStep>>
  BY <1>4 DEF NetworkInv, Network!Contacts, Network!Reported, Network!Late, Network!Listeners,
     Network!Order
<1> QED
  BY <1>1, <1>2, <1>3, <1>4, NetworkSteps DEF networkVars, Network!Describe, Network!taskVars

LEMMA NetworkInit == PhaseInit => NetworkInv
<1> SUFFICES ASSUME PhaseInit PROVE NetworkInv
  OBVIOUS
<1> USE DEF PhaseInit, Network!Init
<1>1. WindowsInv
  BY WindowsInit
<1>2. \A l \in Network!Listeners : backlog[l] = <<>> /\ log[l] = <<>>
  OBVIOUS
<1>3. \A l \in Network!Listeners : Met(l) = {}
  BY <1>2 DEF Met, ToSet
<1>4. results = <<>> /\ ToSet(results) = {} /\ reached = <<>> /\ ToSet(reached) = {} /\ netStep = "look"
      /\ named = {} /\ netAt = 0
  BY DEF ToSet, Network!Control
<1>5. TaskTypes
  BY <1>4, EmptySeq DEF TaskTypes, Reading
<1>6. ControlNamed
  BY <1>3, <1>4, ListenersAre DEF ControlNamed
<1>7. ControlProven
  <2>1. 0 \notin DOMAIN NetworkVectors
    BY ConstantsAssumption, LenProperties
  <2> QED
    BY <1>4, <2>1 DEF ControlProven
<1>8. StartedClean /\ NothingDueLeft /\ PassesArePast /\ PassesEarned /\ NoContactMissed
  BY <1>3, <1>4 DEF StartedClean, NothingDueLeft, PassesArePast, PassesEarned, NoContactMissed,
     Network!NoContactMissed, SettledHere, ReadHere, Reading
<1>9. ReadIsKept
  BY <1>4 DEF ReadIsKept
<1> QED
  BY <1>1, <1>5, <1>6, <1>7, <1>8, <1>9 DEF NetworkInv

LEMMA NetworkStep == NetworkInv /\ [Next]_phaseVars => NetworkInv'
<1> SUFFICES ASSUME NetworkInv, [Next]_phaseVars PROVE NetworkInv'
  OBVIOUS
<1>1. WindowsInv' /\ TaskTypes'
  BY WindowsStep, TaskTypesStep DEF NetworkInv
<1> QED
  BY <1>1, ControlNamedStep, ControlProvenStep, StartedCleanStep, ReadIsKeptStep,
     NothingDueLeftStep, PassesArePastStep, PassesEarnedStep, NoContactMissedStep DEF NetworkInv

(* Once the phase is over, each denied connection that its calls caused is *)
(* in a failed result, unless a listener did not settle.                   *)
THEOREM ContactsAreReported == Spec => []NoContactMissed
<1>1. NetworkInv => NoContactMissed
  BY DEF NetworkInv
<1> QED
  BY <1>1, NetworkInit, NetworkStep, PTL DEF Spec

----------------------------------------------------------------------------
(* What is done outside.  An act belongs to no vector, to one that has its *)
(* result, or to the write vector whose call is in progress.               *)
Contents == Bytes \cup {Absent}

ActsTypes ==
    /\ checks \in Seq(ToSet(checks))
    /\ acts \in Seq([file : Files, during : Nat, from : Contents, to : Contents])
    /\ outside \in [Files -> Contents]

Calling == step \in {"calling", "after", "raised"} /\ operation = "write"

ActTimes ==
    \A n \in DOMAIN acts :
        /\ acts[n].during <= Len(checks) + 1
        /\ ~Calling => acts[n].during <= Len(checks)

(* The acts on a file during a vector lead from what it was to what it is. *)
Spans(f, i, first, last) ==
    /\ first \in ActsOn(f, i) /\ last \in ActsOn(f, i)
    /\ \A n \in ActsOn(f, i) : first <= n /\ n <= last

Leads(f, i, was, is) ==
    \/ ActsOn(f, i) = {} /\ was = is
    \/ \E first, last \in DOMAIN acts :
           Spans(f, i, first, last) /\ acts[first].from = was /\ acts[last].to = is

SnapshotIsOlder ==
    step \in {"calling", "after"} /\ operation = "write" =>
        \A f \in Files : Leads(f, Len(checks) + 1, before[f], outside[f])

(* A verdict stays what the acts during its vector make it.                *)
Judged(check, i) ==
    check.check = "write" =>
        /\ check.verdict = "FAIL" <=> \E f \in Files : LeftChanged(f, i)
        /\ check.verdict = "PASS" => check.called

AllJudged == \A i \in DOMAIN checks : Judged(checks[i], i)

ActsInv == ActsTypes /\ ActTimes /\ SnapshotIsOlder /\ AllJudged

LEMMA ActNumbers ==
    ASSUME ActsTypes
    PROVE  /\ DOMAIN acts = 1 .. Len(acts) /\ Len(acts) \in Nat /\ Len(checks) \in Nat
           /\ \A n \in DOMAIN acts : acts[n] \in [file : Files, during : Nat, from : Contents, to : Contents]
<1>1. DOMAIN acts = 1 .. Len(acts) /\ Len(acts) \in Nat /\ Len(checks) \in Nat
  BY LenProperties DEF ActsTypes
<1>2. \A n \in 1 .. Len(acts) : acts[n] \in [file : Files, during : Nat, from : Contents, to : Contents]
  BY ElementOfSeq DEF ActsTypes
<1> QED
  BY <1>1, <1>2

(* Where the acts lead decides whether a file was left changed.            *)
LEMMA LeadsToChange ==
    ASSUME ActsTypes, NEW f, NEW i, NEW was, NEW is, Leads(f, i, was, is)
    PROVE  LeftChanged(f, i) <=> is \notin {Absent, was}
<1>1. DOMAIN acts \subseteq Nat /\ ActsOn(f, i) \subseteq DOMAIN acts
  BY ActNumbers DEF ActsOn
<1>2. CASE ActsOn(f, i) = {} /\ was = is
  BY <1>2 DEF LeftChanged
<1>3. ASSUME NEW first \in DOMAIN acts, NEW last \in DOMAIN acts, Spans(f, i, first, last),
             acts[first].from = was, acts[last].to = is
      PROVE  LeftChanged(f, i) <=> is \notin {Absent, was}
  <2>1. \A x, y \in ActsOn(f, i) :
            (\A n \in ActsOn(f, i) : x <= n /\ n <= y) => x = first /\ y = last
    BY <1>1, <1>3 DEF Spans
  <2> QED
    BY <1>3, <2>1 DEF LeftChanged, Spans
<1> QED
  BY <1>2, <1>3 DEF Leads

(* As long as the server does nothing, nothing is left changed by it.      *)
LEMMA NoActsNoChange ==
    ASSUME UNCHANGED acts, NEW f, NEW i
    PROVE  /\ LeftChanged(f, i)' <=> LeftChanged(f, i)
           /\ \A was, is : Leads(f, i, was, is)' <=> Leads(f, i, was, is)
<1>1. ActsOn(f, i)' = ActsOn(f, i)
  BY DEF ActsOn
<1> QED
  BY <1>1 DEF LeftChanged, Leads, Spans

(* A longer sequence.                                                      *)
LEMMA LongerSequence ==
    ASSUME NEW S, NEW s \in Seq(S), NEW t \in Seq(S)
    PROVE  /\ s \o t \in Seq(S) /\ Len(s \o t) = Len(s) + Len(t) /\ Len(s) \in Nat /\ Len(t) \in Nat
           /\ DOMAIN (s \o t) = 1 .. Len(s) + Len(t) /\ DOMAIN s = 1 .. Len(s)
           /\ \A i \in DOMAIN s : (s \o t)[i] = s[i]
           /\ \A i \in DOMAIN (s \o t) : i \notin DOMAIN s =>
                  i > Len(s) /\ (s \o t)[i] \in ToSet(t)
<1>1. /\ s \o t \in Seq(S) /\ Len(s \o t) = Len(s) + Len(t) /\ Len(s) \in Nat /\ Len(t) \in Nat
      /\ DOMAIN (s \o t) = 1 .. Len(s) + Len(t) /\ DOMAIN s = 1 .. Len(s) /\ DOMAIN t = 1 .. Len(t)
      /\ \A i \in 1 .. Len(s) + Len(t) : (s \o t)[i] = IF i <= Len(s) THEN s[i] ELSE t[i - Len(s)]
  BY ConcatProperties, LenProperties
<1>2. ASSUME NEW i \in DOMAIN (s \o t), i \notin DOMAIN s
      PROVE  i > Len(s) /\ (s \o t)[i] \in ToSet(t)
  <2>1. i > Len(s) /\ i - Len(s) \in DOMAIN t /\ (s \o t)[i] = t[i - Len(s)]
    BY <1>1, <1>2
  <2> QED
    BY <2>1, Zenon DEF ToSet
<1> QED
  BY <1>1, <1>2

(* The checks that a step adds; a step that adds no verdict on a write.    *)
Undecided(check) == check.check = "write" => check.verdict = "SKIP"

Adds(new) == new \in Seq(ToSet(new)) /\ checks' = checks \o new

AddsNoVerdict == \E new : Adds(new) /\ \A c \in ToSet(new) : Undecided(c)

LEMMA AddsOne ==
    ASSUME ActsTypes, NEW c, checks' = Append(checks, c)
    PROVE  Adds(<<c>>) /\ ToSet(<<c>>) = {c}
<1>1. ToSet(<<c>>) = {c} /\ <<c>> \in Seq({c})
  BY DEF ToSet
<1> DEFINE S == ToSet(checks) \cup {c}
<1>2. checks \in Seq(S) /\ <<c>> \in Seq(S) /\ Len(checks) \in Nat
  BY SeqMonotonic, LenProperties DEF ActsTypes
<1>3. Append(checks, c) = checks \o <<c>>
  BY <1>2
<1> QED
  BY <1>1, <1>3 DEF Adds

LEMMA AddsOneThatSkips ==
    ASSUME ActsTypes, NEW c, checks' = Append(checks, c), Undecided(c)
    PROVE  AddsNoVerdict
<1>1. Adds(<<c>>) /\ \A d \in ToSet(<<c>>) : Undecided(d)
  BY AddsOne
<1> QED
  BY <1>1, Zenon DEF AddsNoVerdict

LEMMA AddsNothing ==
    ASSUME ActsTypes, UNCHANGED checks
    PROVE  AddsNoVerdict
<1>1. <<>> \in Seq(ToSet(<<>>)) /\ ToSet(<<>>) = {}
  BY DEF ToSet
<1>2. checks = checks \o <<>>
  BY ConcatEmptySeq DEF ActsTypes
<1> QED
  BY <1>1, <1>2 DEF Adds, AddsNoVerdict

LEMMA SmokeAdds ==
    ASSUME ActsTypes, SmokeStep
    PROVE  AddsNoVerdict
<1>1. CASE StructuredContent
  <2> DEFINE result(verdict, was) == Check("structured_content", Head(at).name, verdict, was)
  <2>1. \E verdict, was : checks' = Append(checks, result(verdict, was))
    BY <1>1, Zenon DEF StructuredContent, Report
  <2>2. \A verdict, was : Undecided(result(verdict, was))
    BY DEF Check, Undecided
  <2> QED
    BY <2>1, <2>2, AddsOneThatSkips
<1>2. CASE InvalidArguments
  <2> DEFINE result(verdict, was) == Check("invalid_arguments", Head(at).name, verdict, was)
             crashed(verdict, was, crash) == [result(verdict, was) EXCEPT !.crash = crash]
  <2>1. \E verdict, was, crash :
            checks' \in {Append(checks, result(verdict, was)),
                         Append(checks, crashed(verdict, was, crash))}
    BY <1>2, Zenon DEF InvalidArguments, Report
  <2>2. \A verdict, was, crash :
            Undecided(result(verdict, was)) /\ Undecided(crashed(verdict, was, crash))
    BY DEF Check, Undecided
  <2> QED
    BY <2>1, <2>2, AddsOneThatSkips
<1>3. CASE UnknownTool
  <2> DEFINE result(verdict) == Check("unknown_tool", NotNamed, verdict, FALSE)
             crashed(verdict, crash) == [result(verdict) EXCEPT !.crash = crash]
  <2>1. \E verdict, crash :
            checks' \in {Append(checks, result(verdict)), Append(checks, crashed(verdict, crash))}
    BY <1>3, Zenon DEF UnknownTool
  <2>2. \A verdict, crash : Undecided(result(verdict)) /\ Undecided(crashed(verdict, crash))
    BY DEF Check, Undecided
  <2> QED
    BY <2>1, <2>2, AddsOneThatSkips
<1>4. CASE UNCHANGED checks
  BY <1>4, AddsNothing
<1> QED
  BY <1>1, <1>2, <1>3, <1>4 DEF SmokeStep, NotExecuted, Begin, NextLoop

(* The steps of the filesystem check but for the last snapshot.            *)
LEMMA FilesystemAdds ==
    ASSUME ActsTypes, FsStep, ~SnapshotAfter
    PROVE  AddsNoVerdict
<1>1. CASE UNCHANGED checks
  BY <1>1, AddsNothing
<1>2. CASE StartFilesystem
  <2>1. UNCHANGED checks \/ \E c : checks' = Append(checks, c) /\ c.verdict = "SKIP"
    BY <1>2 DEF StartFilesystem, Check
  <2> QED
    BY <1>1, <2>1, AddsOneThatSkips DEF Undecided
<1>3. CASE StartOperation
  <2>1. UNCHANGED checks \/ \E c : checks' = Append(checks, c) /\ c.verdict = "SKIP"
    BY <1>3 DEF StartOperation, Check
  <2> QED
    BY <1>1, <2>1, AddsOneThatSkips DEF Undecided
<1>4. CASE NextVector
  <2>1. UNCHANGED checks \/ \E c : checks' = Append(checks, c) /\ c.verdict = "SKIP"
    BY <1>4 DEF NextVector, FsCheck
  <2> QED
    BY <1>1, <2>1, AddsOneThatSkips DEF Undecided
<1>5. CASE CallToRead
  <2>1. \E c : checks' = Append(checks, c) /\ c.check = "read"
    BY <1>5 DEF CallToRead, FsCheck
  <2> QED
    BY <2>1, AddsOneThatSkips DEF Undecided
<1>6. CASE Control
  <2>1. UNCHANGED checks \/ \E o \in RawOutcomes : checks' = checks \o SkippedVectors(RawAnswered(o))
    BY <1>6 DEF Control
  <2>2. ASSUME NEW o \in RawOutcomes, checks' = checks \o SkippedVectors(RawAnswered(o))
        PROVE  AddsNoVerdict
    <3> DEFINE new == SkippedVectors(RawAnswered(o))
               skip == FsCheck("SKIP", RawAnswered(o), FALSE)
    <3>1. DOMAIN Vectors = 1 .. Len(Vectors) /\ Len(Vectors) \in Nat
      BY BoundAssumption, LenProperties
    <3>2. new = [i \in 1 .. Len(Vectors) |-> skip]
      BY <3>1 DEF SkippedVectors
    <3>3. new \in Seq({skip})
      BY <3>1, <3>2
    <3>4. new \in Seq(ToSet(new)) /\ ToSet(new) \subseteq {skip}
      BY <3>3, OwnElements, HeldIsMember
    <3>5. Undecided(skip)
      BY DEF Undecided, FsCheck
    <3> QED
      BY <2>2, <3>4, <3>5 DEF Adds, AddsNoVerdict
  <2> QED
    BY <1>1, <2>1, <2>2
<1> QED
  BY <1>1, <1>2, <1>3, <1>4, <1>5, <1>6 DEF FsStep, SnapshotRaises, SnapshotBefore, CallToWrite

(* A report that grows keeps what it has.                                  *)
LEMMA ReportGrows ==
    ASSUME ActsTypes, NEW new, Adds(new)
    PROVE  /\ checks' \in Seq(ToSet(checks'))
           /\ Len(checks) \in Nat /\ Len(checks') \in Nat /\ Len(checks) <= Len(checks')
           /\ DOMAIN checks = 1 .. Len(checks) /\ DOMAIN checks' = 1 .. Len(checks')
           /\ \A i \in DOMAIN checks : checks'[i] = checks[i]
           /\ \A i \in DOMAIN checks' : i \notin DOMAIN checks =>
                  i > Len(checks) /\ checks'[i] \in ToSet(new)
<1>1. PICK S : checks \in Seq(S) /\ new \in Seq(S)
  <2>1. checks \in Seq(ToSet(checks) \cup ToSet(new)) /\ new \in Seq(ToSet(checks) \cup ToSet(new))
    BY SeqMonotonic DEF ActsTypes, Adds
  <2> QED
    BY <2>1, Zenon
<1>2. /\ checks' \in Seq(S) /\ Len(checks') = Len(checks) + Len(new) /\ Len(new) \in Nat
      /\ Len(checks) \in Nat
      /\ DOMAIN checks' = 1 .. Len(checks) + Len(new) /\ DOMAIN checks = 1 .. Len(checks)
      /\ \A i \in DOMAIN checks : checks'[i] = checks[i]
      /\ \A i \in DOMAIN checks' : i \notin DOMAIN checks =>
             i > Len(checks) /\ checks'[i] \in ToSet(new)
  BY <1>1, LongerSequence DEF Adds
<1>3. checks' \in Seq(ToSet(checks'))
  BY <1>2, OwnElements, Zenon
<1> QED
  BY <1>2, <1>3

LEMMA VerdictsStay ==
    ASSUME ActsInv, AddsNoVerdict, ~Calling, UNCHANGED acts
    PROVE  AllJudged'
<1>1. PICK new : Adds(new) /\ \A c \in ToSet(new) : Undecided(c)
  BY DEF AddsNoVerdict
<1> SUFFICES ASSUME NEW i \in DOMAIN checks' PROVE Judged(checks[i], i)'
  BY DEF AllJudged
<1>2. CASE i \in DOMAIN checks
  <2>1. checks'[i] = checks[i]
    BY <1>1, <1>2, ReportGrows DEF ActsInv
  <2>2. Judged(checks[i], i)
    BY <1>2 DEF ActsInv, AllJudged
  <2> QED
    BY <2>1, <2>2, NoActsNoChange DEF Judged
<1>3. CASE i \notin DOMAIN checks
  <2>1. i > Len(checks) /\ Undecided(checks'[i]) /\ i \in Nat /\ Len(checks) \in Nat
    BY <1>1, <1>3, ReportGrows DEF ActsInv
  <2>2. \A n \in DOMAIN acts : acts[n].during # i
    BY <2>1, ActNumbers DEF ActsInv, ActTimes
  <2>3. \A f \in Files : ~LeftChanged(f, i)'
    BY <2>2, NoActsNoChange DEF LeftChanged, ActsOn
  <2> QED
    BY <2>1, <2>3 DEF Judged, Undecided
<1> QED
  BY <1>2, <1>3

LEMMA ActsInit == PhaseInit => ActsInv
<1> SUFFICES ASSUME PhaseInit PROVE ActsInv
  OBVIOUS
<1>1. checks = <<>> /\ acts = <<>> /\ step = "start"
      /\ outside \in [Files -> Contents]
  BY DEF PhaseInit, FsInit, Init, Contents
<1>2. <<>> \in Seq(ToSet(<<>>))
  BY DEF ToSet
<1> QED
  BY <1>1, <1>2, EmptySeq
  DEF ActsInv, ActsTypes, ActTimes, SnapshotIsOlder, AllJudged

(* An act is the last one on its file, and the first that follows the      *)
(* snapshot if there was none.                                             *)
LEMMA ActExtends ==
    ASSUME ActsTypes, NEW f \in Files, NEW content \in Contents, Leave(f, content)
    PROVE  /\ ActsTypes' /\ During \in Nat
           /\ DOMAIN acts' = DOMAIN acts \cup {Len(acts) + 1} /\ Len(acts) + 1 \notin DOMAIN acts
           /\ \A n \in DOMAIN acts : acts'[n] = acts[n]
           /\ acts'[Len(acts) + 1] =
                  [file |-> f, during |-> During, from |-> outside[f], to |-> content]
           /\ outside' = [outside EXCEPT ![f] = content]
           /\ UNCHANGED <<checks, step, operation, before>>
<1> DEFINE Acts == [file : Files, during : Nat, from : Contents, to : Contents]
           act == [file |-> f, during |-> During, from |-> outside[f], to |-> content]
<1>1. /\ acts' = Append(acts, act) /\ outside' = [outside EXCEPT ![f] = content]
      /\ UNCHANGED <<checks, step, operation, before>>
  BY DEF Leave, smokeVars, fsVars
<1>2. During \in Nat
  BY ActNumbers DEF During
<1>3. outside[f] \in Contents
  BY DEF ActsTypes
<1>4. act \in Acts
  BY <1>2, <1>3
<1>5. acts \in Seq(Acts) /\ Len(acts) \in Nat /\ DOMAIN acts = 1 .. Len(acts)
  BY ActNumbers DEF ActsTypes
<1> HIDE DEF act, Acts
<1>6. /\ acts' \in Seq(Acts) /\ Len(acts') = Len(acts) + 1
      /\ \A n \in 1 .. Len(acts) : acts'[n] = acts[n]
      /\ acts'[Len(acts) + 1] = act
  BY <1>1, <1>4, <1>5, AppendProperties
<1>7. DOMAIN acts' = 1 .. Len(acts) + 1
  BY <1>5, <1>6, LenProperties
<1>8. DOMAIN acts' = DOMAIN acts \cup {Len(acts) + 1} /\ Len(acts) + 1 \notin DOMAIN acts
  BY <1>5, <1>7
<1>9. ActsTypes'
  BY <1>1, <1>6 DEF ActsTypes, Acts, Contents
<1> QED
  BY <1>1, <1>2, <1>5, <1>6, <1>8, <1>9 DEF act

LEMMA SurroundingsKeepActs ==
    ASSUME ActsInv, Surroundings
    PROVE  ActsInv'
<1>1. PICK f \in Files, content \in Contents : Leave(f, content)
  BY DEF Surroundings, WriteOutside, RemoveOutside, Contents
<1>2. PICK new, now, during : new = Len(acts) + 1 /\ now = Len(checks) + 1 /\ during = During
  OBVIOUS
<1>3. /\ ActsTypes' /\ during \in Nat
      /\ DOMAIN acts' = DOMAIN acts \cup {new} /\ new \notin DOMAIN acts
      /\ \A n \in DOMAIN acts : acts'[n] = acts[n]
      /\ acts'[new].file = f /\ acts'[new].during = during
      /\ acts'[new].from = outside[f] /\ acts'[new].to = content
      /\ outside' = [outside EXCEPT ![f] = content]
      /\ UNCHANGED <<checks, step, operation, before>>
  <2>1. ActsTypes
    BY DEF ActsInv
  <2>2. /\ ActsTypes' /\ During \in Nat
        /\ DOMAIN acts' = DOMAIN acts \cup {new} /\ new \notin DOMAIN acts
        /\ \A n \in DOMAIN acts : acts'[n] = acts[n]
        /\ acts'[new] = [file |-> f, during |-> During, from |-> outside[f], to |-> content]
        /\ outside' = [outside EXCEPT ![f] = content]
        /\ UNCHANGED <<checks, step, operation, before>>
    BY <1>1, <1>2, <2>1, ActExtends, Zenon
  <2> QED
    BY <1>2, <2>2
<1>4. /\ DOMAIN acts = 1 .. Len(acts) /\ Len(acts) \in Nat /\ Len(checks) \in Nat
      /\ outside \in [Files -> Contents]
  BY ActNumbers DEF ActsInv, ActsTypes
<1>5. during \in {0, now} /\ (during # 0 => step \in {"calling", "after"}) /\ operation = "write"
  BY <1>1, <1>2 DEF Leave, During, Busy
<1>6. step \in {"calling", "after"} => during = now
  BY <1>2 DEF During
<1>7. ActTimes'
  <2> SUFFICES ASSUME NEW n \in DOMAIN acts'
               PROVE  /\ acts'[n].during <= Len(checks) + 1
                      /\ ~Calling => acts'[n].during <= Len(checks)
    BY <1>3 DEF ActTimes, Calling
  <2>1. CASE n \in DOMAIN acts
    BY <1>3, <2>1 DEF ActsInv, ActTimes
  <2>2. CASE n = new
    BY <1>2, <1>3, <1>4, <1>5, <2>2 DEF Calling
  <2> QED
    BY <1>3, <2>1, <2>2
<1>8. ASSUME NEW g, NEW i, g # f \/ i # during
      PROVE  ActsOn(g, i)' = ActsOn(g, i)
  BY <1>3, <1>8 DEF ActsOn
<1>9. ActsOn(f, during)' = ActsOn(f, during) \cup {new}
  BY <1>3 DEF ActsOn
<1>10. \A g, i : ActsOn(g, i) \subseteq DOMAIN acts
  BY DEF ActsOn
<1>11. SnapshotIsOlder'
  <2> SUFFICES ASSUME step \in {"calling", "after"}, NEW g \in Files
               PROVE  Leads(g, now, before[g], outside[g])'
    BY <1>2, <1>3 DEF SnapshotIsOlder
  <2>1. Leads(g, now, before[g], outside[g])
    BY <1>2, <1>5 DEF ActsInv, SnapshotIsOlder
  <2>2. CASE g # f
    <3>1. ActsOn(g, now)' = ActsOn(g, now) /\ outside'[g] = outside[g]
      BY <1>3, <1>4, <1>8, <2>2
    <3>2. CASE ActsOn(g, now) = {} /\ before[g] = outside[g]
      BY <1>3, <3>1, <3>2 DEF Leads
    <3>3. ASSUME NEW first \in DOMAIN acts, NEW last \in DOMAIN acts, Spans(g, now, first, last),
                 acts[first].from = before[g], acts[last].to = outside[g]
          PROVE  Leads(g, now, before[g], outside[g])'
      <4>1. Spans(g, now, first, last)'
        BY <3>1, <3>3 DEF Spans
      <4>2. first \in DOMAIN acts' /\ last \in DOMAIN acts'
            /\ acts'[first].from = before'[g] /\ acts'[last].to = outside'[g]
        BY <1>3, <3>1, <3>3
      <4> QED
        BY <4>1, <4>2 DEF Leads
    <3> QED
      BY <2>1, <3>2, <3>3 DEF Leads
  <2>3. CASE g = f
    <3>1. /\ ActsOn(f, now)' = ActsOn(f, now) \cup {new}
          /\ outside'[f] = content /\ ActsOn(f, now) \subseteq DOMAIN acts
      BY <1>3, <1>4, <1>6, <1>9, <1>10
    <3>2. new \in Nat /\ \A n \in ActsOn(f, now) : n <= new /\ n \in Nat
      BY <1>2, <1>4, <3>1
    <3>3. CASE ActsOn(f, now) = {} /\ before[f] = outside[f]
      <4>1. Spans(f, now, new, new)'
        BY <3>1, <3>2, <3>3 DEF Spans
      <4>2. new \in DOMAIN acts' /\ acts'[new].from = before'[f] /\ acts'[new].to = outside'[f]
        BY <1>3, <3>1, <3>3
      <4> QED
        BY <2>3, <4>1, <4>2 DEF Leads
    <3>4. ASSUME NEW first \in DOMAIN acts, NEW last \in DOMAIN acts, Spans(f, now, first, last),
                 acts[first].from = before[f], acts[last].to = outside[f]
          PROVE  Leads(f, now, before[f], outside[f])'
      <4>1. Spans(f, now, first, new)'
        BY <3>1, <3>2, <3>4 DEF Spans
      <4>2. first \in DOMAIN acts' /\ new \in DOMAIN acts'
            /\ acts'[first].from = before'[f] /\ acts'[new].to = outside'[f]
        BY <1>3, <3>1, <3>4
      <4> QED
        BY <4>1, <4>2 DEF Leads
    <3> QED
      BY <2>1, <2>3, <3>3, <3>4 DEF Leads
  <2> QED
    BY <2>2, <2>3
<1>12. AllJudged'
  <2> SUFFICES ASSUME NEW i \in DOMAIN checks PROVE Judged(checks[i], i)'
    BY <1>3 DEF AllJudged
  <2>1. i # during
    <3>1. DOMAIN checks = 1 .. Len(checks)
      BY LenProperties DEF ActsInv, ActsTypes
    <3> QED
      BY <1>2, <1>4, <1>5, <3>1
  <2>2. ASSUME NEW g \in Files PROVE LeftChanged(g, i)' <=> LeftChanged(g, i)
    <3>1. ActsOn(g, i)' = ActsOn(g, i) /\ \A n \in ActsOn(g, i) : acts'[n] = acts[n]
      BY <1>3, <1>8, <1>10, <2>1
    <3> QED
      BY <3>1 DEF LeftChanged
  <2>3. Judged(checks[i], i) /\ checks' = checks
    BY <1>3 DEF ActsInv, AllJudged
  <2> QED
    BY <2>2, <2>3 DEF Judged
<1> QED
  BY <1>3, <1>7, <1>11, <1>12 DEF ActsInv

(* The last snapshot of a vector judges what was done since the first.     *)
LEMMA SnapshotKeepsActs ==
    ASSUME ActsInv, SnapshotAfter
    PROVE  ActsInv'
<1> DEFINE c == FsCheck(WriteVerdict, RawAnswered(outcome), controlSeen)
<1>1. /\ checks' = Append(checks, c) /\ step = "after" /\ step' = "next"
      /\ UNCHANGED <<operation, before, outside, acts>>
  BY DEF SnapshotAfter, GoTo, fsVars, treeVars
<1>2. Adds(<<c>>) /\ ToSet(<<c>>) = {c}
  <2> HIDE DEF c
  <2> QED
    BY <1>1, AddsOne DEF ActsInv
<1>3. /\ checks' \in Seq(ToSet(checks')) /\ Len(checks) \in Nat
      /\ DOMAIN checks = 1 .. Len(checks)
      /\ \A i \in DOMAIN checks : checks'[i] = checks[i]
      /\ \A i \in DOMAIN checks' : i \notin DOMAIN checks => checks'[i] \in {c}
  <2> HIDE DEF c
  <2> QED
    BY <1>2, ReportGrows DEF ActsInv
<1>4. Len(checks') = Len(checks) + 1 /\ DOMAIN checks' = 1 .. Len(checks) + 1
  <2> HIDE DEF c
  <2> QED
    BY <1>1, <1>3, AppendProperties DEF ActsInv, ActsTypes
<1>5. ActsTypes'
  BY <1>1, <1>3 DEF ActsInv, ActsTypes, Contents
<1>6. ActTimes'
  BY <1>1, <1>3, <1>4, ActNumbers DEF ActsInv, ActTimes
<1>7. SnapshotIsOlder'
  BY <1>1 DEF SnapshotIsOlder
<1>8. Judged(c, Len(checks) + 1)
  <2> SUFFICES ASSUME operation = "write" PROVE Judged(c, Len(checks) + 1)
    BY DEF Judged, FsCheck
  <2>1. c.verdict = WriteVerdict /\ c.called = RawAnswered(outcome)
    BY DEF FsCheck
  <2>2. \A f \in Files :
            LeftChanged(f, Len(checks) + 1) <=> outside[f] \notin {Absent, before[f]}
    BY <1>1, LeadsToChange DEF ActsInv, SnapshotIsOlder
  <2>3. (\E f \in Files : LeftChanged(f, Len(checks) + 1)) <=> Changed # {}
    BY <2>2 DEF Changed
  <2>4. WriteVerdict = "FAIL" <=> Changed # {}
    BY DEF WriteVerdict
  <2>5. WriteVerdict = "PASS" => RawAnswered(outcome)
    BY DEF WriteVerdict, RawAnswered
  <2> HIDE DEF c
  <2> QED
    BY <2>1, <2>3, <2>4, <2>5 DEF Judged
<1>9. AllJudged'
  <2> HIDE DEF c
  <2> SUFFICES ASSUME NEW i \in DOMAIN checks' PROVE Judged(checks[i], i)'
    BY DEF AllJudged
  <2>1. Judged(checks'[i], i)
    <3>1. CASE i \in DOMAIN checks
      BY <1>3, <3>1 DEF ActsInv, AllJudged
    <3>2. CASE i \notin DOMAIN checks
      <4>1. checks'[i] = c /\ i = Len(checks) + 1
        BY <1>3, <1>4, <3>2
      <4> QED
        BY <1>8, <4>1
    <3> QED
      BY <3>1, <3>2
  <2> QED
    BY <1>1, <2>1, NoActsNoChange DEF Judged
<1> QED
  BY <1>5, <1>6, <1>7, <1>9 DEF ActsInv

(* The steps that reach no verdict on a write.                             *)
LEMMA OthersKeepActs ==
    ASSUME ActsInv,
           (SmokeStep /\ UNCHANGED <<fsVars, treeVars>>) \/ (FsStep /\ ~SnapshotAfter)
    PROVE  ActsInv'
<1>1. AddsNoVerdict
  BY SmokeAdds, FilesystemAdds DEF ActsInv
<1>2. UNCHANGED acts
  BY DEF FsStep, StartFilesystem, StartOperation, Control, NextVector, SnapshotRaises,
     SnapshotBefore, CallToRead, CallToWrite, treeVars
<1>3. /\ checks' \in Seq(ToSet(checks')) /\ Len(checks) \in Nat /\ Len(checks') \in Nat
      /\ Len(checks) <= Len(checks')
  BY <1>1, ReportGrows DEF ActsInv, AddsNoVerdict
<1>4. ActsTypes'
  <2>1. outside' \in [Files -> Contents]
    BY DEF ActsInv, ActsTypes, Contents, FsStep, StartFilesystem, StartOperation, Control,
       NextVector, SnapshotRaises, SnapshotBefore, CallToRead, CallToWrite, treeVars
  <2> QED
    BY <1>2, <1>3, <2>1 DEF ActsInv, ActsTypes, Contents
<1>5. CASE ~Calling
  <2>1. ActTimes'
    BY <1>2, <1>3, <1>5, ActNumbers DEF ActsInv, ActTimes
  <2>2. AllJudged'
    BY <1>1, <1>2, <1>5, VerdictsStay
  <2>3. step' \in {"calling", "after"} /\ operation' = "write" => SnapshotBefore
    BY <1>5 DEF Calling, FsStep, StartFilesystem, StartOperation, Control, NextVector, SnapshotRaises,
       CallToRead, CallToWrite, GoTo, SmokeStep, NotExecuted, Begin, StructuredContent,
       InvalidArguments, NextLoop, UnknownTool, Report, fsVars
  <2>4. ASSUME SnapshotBefore, NEW f \in Files
        PROVE  Leads(f, Len(checks) + 1, before[f], outside[f])'
    <3>1. before' = outside /\ UNCHANGED <<checks, outside>>
      BY <2>4 DEF SnapshotBefore, OutsideState, treeVars
    <3>2. \A n \in DOMAIN acts : acts[n].during # Len(checks) + 1
      BY <1>5, ActNumbers DEF ActsInv, ActTimes
    <3> QED
      BY <1>2, <3>1, <3>2 DEF Leads, ActsOn
  <2> QED
    BY <1>4, <2>1, <2>2, <2>3, <2>4 DEF ActsInv, SnapshotIsOlder
<1>6. CASE Calling
  <2>1. SnapshotRaises \/ CallToWrite
    BY <1>6 DEF Calling, FsStep, StartFilesystem, StartOperation, Control, NextVector,
       SnapshotBefore, CallToRead, SmokeStep, NotExecuted, Begin, StructuredContent,
       InvalidArguments, NextLoop, UnknownTool
  <2>2. /\ UNCHANGED <<checks, operation, before, acts>> /\ step' \in {"after", "raised"}
        /\ step' = "after" => step = "calling" /\ UNCHANGED outside
    BY <1>2, <2>1 DEF SnapshotRaises, CallToWrite, GoTo, fsVars, treeVars
  <2>3. ActTimes'
    BY <1>6, <2>2 DEF ActsInv, ActTimes, Calling
  <2>4. SnapshotIsOlder'
    <3> SUFFICES ASSUME step' = "after", operation = "write", NEW f \in Files
                 PROVE  Leads(f, Len(checks) + 1, before[f], outside[f])'
      BY <2>2 DEF SnapshotIsOlder
    <3>1. Leads(f, Len(checks) + 1, before[f], outside[f])
      BY <2>2 DEF ActsInv, SnapshotIsOlder
    <3> QED
      BY <2>2, <3>1 DEF Leads, Spans, ActsOn
  <2>5. AllJudged'
    BY <2>2, NoActsNoChange DEF ActsInv, AllJudged, Judged
  <2> QED
    BY <1>4, <2>3, <2>4, <2>5 DEF ActsInv
<1> QED
  BY <1>5, <1>6

LEMMA ActsStep == ActsInv /\ [Next]_phaseVars => ActsInv'
<1> SUFFICES ASSUME ActsInv, [Next]_phaseVars PROVE ActsInv'
  OBVIOUS
<1>1. CASE NetworkTask \/ NetworkSurroundings \/ UNCHANGED phaseVars
  <2>1. UNCHANGED <<step, operation, checks, acts, outside, before>>
    BY <1>1 DEF NetworkTask, NetworkSurroundings, phaseVars, vars, smokeVars, fsVars, treeVars
  <2>2. ActsTypes' /\ ActTimes'
    BY <2>1 DEF ActsInv, ActsTypes, ActTimes, Calling, Contents
  <2>3. SnapshotIsOlder' /\ AllJudged'
    BY <2>1 DEF ActsInv, SnapshotIsOlder, AllJudged, Judged, Leads, Spans, ActsOn, LeftChanged
  <2> QED
    BY <2>2, <2>3 DEF ActsInv
<1>2. CASE Surroundings
  BY <1>2, SurroundingsKeepActs
<1>3. CASE SnapshotAfter
  BY <1>3, SnapshotKeepsActs
<1>4. CASE (SmokeStep /\ UNCHANGED <<fsVars, treeVars>>) \/ (FsStep /\ ~SnapshotAfter)
  BY <1>4, OthersKeepActs
<1> QED
  BY <1>1, <1>2, <1>3, <1>4 DEF Next, PhaseOver

(* The verdict on a write is what the server did outside during it, and a  *)
(* vector of the network check passes only if it was exercised and the     *)
(* logs hold nothing it caused.                                            *)
THEOREM PassesAreEarned == Spec => []PassIsEarned
<1>1. ActsInv => WriteVerdictIsEarned
  BY DEF ActsInv, AllJudged, Judged, WriteVerdictIsEarned
<1>2. NetworkInv => Network!PassIsEarned
  BY DEF NetworkInv, PassesEarned, Earned, Caused, Reachable, Network!PassIsEarned,
     Network!ToSet, ToSet
<1>3. ActsInv /\ NetworkInv => PassIsEarned
  BY <1>1, <1>2 DEF PassIsEarned
<1> QED
  BY <1>3, ActsInit, ActsStep, NetworkInit, NetworkStep, PTL DEF Spec

----------------------------------------------------------------------------
(* Coverage.  A tool whose call was answered is counted by a result, or    *)
(* will be by one that its check still owes: of the filesystem check, the  *)
(* next vector after an answered control, or the vector at hand; of the    *)
(* network check, the window at hand or the next one.                      *)
Names == { tool.name : tool \in ToSet(scenario.catalog) }

InVectors == {"next", "before", "calling", "after"}

FsOwed ==
    IF \/ controlSeen /\ step \in InVectors
       \/ step = "after" /\ RawAnswered(outcome)
    THEN {Tool} ELSE {}

NetSeen == \E r \in ToSet(results) : r.control \/ Network!Answered(r.outcome)

NetOwed ==
    \/ /\ netStep \in {"settle", "control"} \cup Reading
       /\ netAt # Network!Late /\ Network!Answered(netOutcome)
    \/ policy = "allowlist" /\ (netStep = "next" \/ netAt \in DOMAIN NetworkVectors)

NetCounted == IF NetSeen \/ NetOwed THEN {scenario.network} ELSE {}

Accounted ==
    step # "raised" => ToolsCalled \cup FsOwed \cup NetCounted = answered \cap Names

(* Where the two checks stand, as far as the count depends on it.          *)
FsPlace ==
    /\ vector \in Nat /\ controlSeen \in BOOLEAN
    /\ step \in {"control"} \cup InVectors => Listed /\ vector <= Len(Vectors)
    /\ step = "control" => vector = 0
    /\ step = "next" /\ vector > 0 /\ controlSeen => Tool \in ToolsCalled

NetPlace ==
    /\ step # "done" \/ ~Configured => netStep = "look"
    /\ netStep \in {"look", "mark", "begin"} => netAt = 0
    /\ netStep \notin {"look", "done"} => Lists
    /\ netStep \notin {"look", "mark", "next", "done"} /\ netAt = 0 => policy = "allowlist"
    /\ netAt <= Network!Late
    /\ netStep \in {"call", "next"} => netAt # Network!Late
    /\ netAt = Network!Late => netOutcome = "none"
    /\ netStep = "read" /\ netAt = 0 => Network!Answered(netOutcome)
    /\ netStep = "next" /\ policy = "allowlist" /\ netAt # 0 => NetSeen
    /\ netStep = "done" => netAt \in {0, Network!Late}

CoverageInv == FsPlace /\ NetPlace /\ Accounted

(* What the checks added to the report count.                              *)
Counted(new) ==
    { c.tool : c \in { x \in ToSet(new) : x.tool # NotNamed /\ (x.called \/ x.control) } }

LEMMA ReportCounts ==
    ASSUME ActsTypes, NEW new, Adds(new)
    PROVE  ToolsCalled' = ToolsCalled \cup Counted(new)
<1>1. PICK S : checks \in Seq(S) /\ new \in Seq(S)
  <2>1. checks \in Seq(ToSet(checks) \cup ToSet(new)) /\ new \in Seq(ToSet(checks) \cup ToSet(new))
    BY SeqMonotonic DEF ActsTypes, Adds
  <2> QED
    BY <2>1, Zenon
<1>2. ToSet(checks') = ToSet(checks) \cup ToSet(new)
  BY <1>1, HeldByConcat DEF Adds
<1> QED
  BY <1>2 DEF ToolsCalled, Counted

LEMMA OneCheckCounts ==
    ASSUME ActsTypes, NEW c, checks' = Append(checks, c)
    PROVE  ToolsCalled' = ToolsCalled \cup
               (IF c.tool # NotNamed /\ (c.called \/ c.control) THEN {c.tool} ELSE {})
<1>1. Adds(<<c>>) /\ ToSet(<<c>>) = {c}
  BY AddsOne
<1>2. ToolsCalled' = ToolsCalled \cup Counted(<<c>>)
  BY <1>1, ReportCounts
<1> QED
  BY <1>1, <1>2 DEF Counted

LEMMA SkipCounts ==
    ASSUME ActsTypes, NEW id, NEW tool,
           UNCHANGED checks \/ checks' = Append(checks, Check(id, tool, "SKIP", FALSE))
    PROVE  ToolsCalled' = ToolsCalled
<1> DEFINE c == Check(id, tool, "SKIP", FALSE)
<1>1. c.called = FALSE /\ c.control = FALSE
  BY DEF Check
<1>2. ASSUME checks' = Append(checks, c) PROVE ToolsCalled' = ToolsCalled
  <2> HIDE DEF c
  <2> QED
    BY <1>1, <1>2, OneCheckCounts
<1> QED
  BY <1>2 DEF ToolsCalled

LEMMA SameChecksCount ==
    ASSUME UNCHANGED checks
    PROVE  ToolsCalled' = ToolsCalled
BY DEF ToolsCalled

(* An answered call of a listed tool.                                      *)
LEMMA RequestCounts ==
    ASSUME NEW name, NEW o, Request(name, o)
    PROVE  /\ name \in Names =>
                  answered' \cap Names
                      = (answered \cap Names) \cup (IF o \in Answers THEN {name} ELSE {})
           /\ name \notin Names => answered' \cap Names = answered \cap Names
BY DEF Request

LEMMA CatalogNames ==
    ASSUME CallsFromCatalog
    PROVE  /\ \A name \in Names : name # NotNamed
           /\ at # <<>> => Head(at).name \in Names
           /\ UnknownName \notin Names
           /\ Listed => Tool \in Names
           /\ Lists => scenario.network \in Names
<1>1. \A name \in Names : name # NotNamed
  BY ScenarioAssumption DEF CallsFromCatalog, Names
<1>2. at # <<>> => Head(at).name \in Names
  BY HeadTailProperties DEF CallsFromCatalog, Names
<1>3. UnknownName \notin Names
  BY UnknownNameIsFree DEF CallsFromCatalog, Names
<1> QED
  BY <1>1, <1>2, <1>3 DEF Listed, Lists, Names

(* A step that counts the tool of an answered call, or owes its count.     *)
LEMMA CountsStay ==
    ASSUME Accounted, step # "raised",
           NEW more,
           ToolsCalled' \cup FsOwed' \cup NetCounted'
               = ToolsCalled \cup FsOwed \cup NetCounted \cup more,
           answered' \cap Names = (answered \cap Names) \cup more, UNCHANGED scenario
    PROVE  Accounted'
BY DEF Accounted, Names

LEMMA NothingCounts ==
    ASSUME Accounted, step # "raised", UNCHANGED <<scenario, answered>>,
           ToolsCalled' \cup FsOwed' \cup NetCounted' = ToolsCalled \cup FsOwed \cup NetCounted
    PROVE  Accounted'
BY DEF Accounted, Names

LEMMA SmokeKeepsCoverage ==
    ASSUME CoverageInv, CallsFromCatalog, ActsTypes, SmokeStep, UNCHANGED <<fsVars, networkVars>>
    PROVE  CoverageInv'
<1>1. /\ step \notin {"control", "raised", "done"} \cup InVectors
      /\ step' \notin {"control", "raised", "done"} \cup InVectors
      /\ UNCHANGED scenario
  BY DEF InVectors, SmokeStep, NotExecuted, Begin, StructuredContent, InvalidArguments, NextLoop,
         UnknownTool, Report
<1>2. FsPlace' /\ FsOwed = {} /\ FsOwed' = {}
  BY <1>1 DEF CoverageInv, FsPlace, FsOwed, fsVars, InVectors
<1>3. NetPlace' /\ NetCounted' = NetCounted
  BY <1>1 DEF CoverageInv, NetPlace, NetCounted, NetSeen, NetOwed, networkVars, Configured, Lists,
              Network!Answered, Network!Late, Reading
<1> SUFFICES Accounted'
  BY <1>2, <1>3 DEF CoverageInv
<1>4. ASSUME NEW name \in Names, NEW o, Request(name, o), NEW c, checks' = Append(checks, c),
             c.tool = name, c.called = (o \in Answers), c.control = FALSE
      PROVE  Accounted'
  <2>1. ToolsCalled' = ToolsCalled \cup (IF o \in Answers THEN {name} ELSE {})
    BY <1>4, OneCheckCounts, CatalogNames
  <2>2. answered' \cap Names = (answered \cap Names) \cup (IF o \in Answers THEN {name} ELSE {})
    BY <1>4, RequestCounts
  <2> QED
    BY <1>1, <1>2, <1>3, <2>1, <2>2, CountsStay DEF CoverageInv
<1>5. ASSUME answered' \cap Names = answered \cap Names, ToolsCalled' = ToolsCalled
      PROVE  Accounted'
  BY <1>1, <1>2, <1>3, <1>5, CountsStay DEF CoverageInv
<1>6. ASSUME NoRequest, NEW c, checks' = Append(checks, c), c.called = FALSE, c.control = FALSE
      PROVE  Accounted'
  <2>1. ToolsCalled' = ToolsCalled
    BY <1>6, OneCheckCounts
  <2> QED
    BY <1>5, <1>6, <2>1 DEF NoRequest, sessionVars
<1>7. CASE StructuredContent
  <2> DEFINE result(verdict, was) == Check("structured_content", Head(at).name, verdict, was)
  <2>1. at # <<>>
    BY <1>7 DEF StructuredContent
  <2>2. CASE NoRequest /\ checks' = Append(checks, result("SKIP", FALSE))
    <3>1. result("SKIP", FALSE).called = FALSE /\ result("SKIP", FALSE).control = FALSE
      BY DEF Check
    <3> HIDE DEF result
    <3> QED
      BY <1>6, <2>2, <3>1
  <2>3. ASSUME NEW o, Request(Head(at).name, o),
               checks' = Append(checks, result(StructuredVerdict(o), o \in Answers))
        PROVE  Accounted'
    <3> DEFINE c == result(StructuredVerdict(o), o \in Answers)
    <3>1. c.tool = Head(at).name /\ c.called = (o \in Answers) /\ c.control = FALSE
      BY DEF Check
    <3>2. checks' = Append(checks, c)
      BY <2>3
    <3> HIDE DEF c, result
    <3> QED
      BY <1>4, <2>1, <2>3, <3>1, <3>2, CatalogNames
  <2> QED
    BY <1>7, <2>2, <2>3, Zenon DEF StructuredContent, Report
<1>8. CASE InvalidArguments
  <2> DEFINE result(verdict, was) == Check("invalid_arguments", Head(at).name, verdict, was)
             crashed(o) == [result(InvalidVerdict(o), o \in Answers)
                            EXCEPT !.crash = o \in {"closed", "exception"}]
  <2>1. at # <<>>
    BY <1>8 DEF InvalidArguments
  <2>2. CASE NoRequest /\ checks' = Append(checks, result("SKIP", FALSE))
    <3>1. result("SKIP", FALSE).called = FALSE /\ result("SKIP", FALSE).control = FALSE
      BY DEF Check
    <3> HIDE DEF result
    <3> QED
      BY <1>6, <2>2, <3>1
  <2>3. ASSUME NEW o, Request(Head(at).name, o), checks' = Append(checks, crashed(o))
        PROVE  Accounted'
    <3> DEFINE c == crashed(o)
    <3>1. c.tool = Head(at).name /\ c.called = (o \in Answers) /\ c.control = FALSE
      BY DEF Check
    <3>2. checks' = Append(checks, c)
      BY <2>3
    <3> HIDE DEF c, crashed, result
    <3> QED
      BY <1>4, <2>1, <2>3, <3>1, <3>2, CatalogNames
  <2> QED
    BY <1>8, <2>2, <2>3, Zenon DEF InvalidArguments, Report
<1>9. CASE UnknownTool
  <2> DEFINE result(verdict) == Check("unknown_tool", NotNamed, verdict, FALSE)
             crashed(o) == [result(IF o = "rejected" THEN "PASS" ELSE "FAIL")
                            EXCEPT !.crash = o \in {"closed", "exception"}]
  <2>1. CASE NoRequest /\ checks' = Append(checks, result("SKIP"))
    <3>1. result("SKIP").called = FALSE /\ result("SKIP").control = FALSE
      BY DEF Check
    <3> HIDE DEF result
    <3> QED
      BY <1>6, <2>1, <3>1
  <2>2. ASSUME NEW o, Request(UnknownName, o), checks' = Append(checks, crashed(o))
        PROVE  Accounted'
    <3> DEFINE c == crashed(o)
    <3>1. c.called = FALSE /\ c.control = FALSE
      BY DEF Check
    <3>2. checks' = Append(checks, c)
      BY <2>2
    <3> HIDE DEF c, crashed, result
    <3>3. ToolsCalled' = ToolsCalled
      BY <3>1, <3>2, OneCheckCounts
    <3> QED
      BY <1>5, <2>2, <3>3, RequestCounts, CatalogNames
  <2> QED
    BY <1>9, <2>1, <2>2, Zenon DEF UnknownTool
<1>10. CASE UNCHANGED <<checks, answered>>
  BY <1>5, <1>10, SameChecksCount
<1> QED
  BY <1>7, <1>8, <1>9, <1>10 DEF SmokeStep, NotExecuted, Begin, NextLoop, sessionVars

(* A raw call of the tool at hand.                                         *)
LEMMA RawCounts ==
    ASSUME CallsFromCatalog, Listed, NEW o \in RawOutcomes, RequestRaw(Tool, o)
    PROVE  /\ answered' \cap Names
                  = (answered \cap Names) \cup (IF RawAnswered(o) THEN {Tool} ELSE {})
           /\ Tool \in Names /\ Tool # NotNamed
<1> DEFINE how == IF RawAnswered(o) THEN "conforms"
                  ELSE IF o.kind = "closed" THEN "closed" ELSE "timeout"
<1>1. Request(Tool, how) /\ (how \in Answers <=> RawAnswered(o))
  BY DEF RequestRaw, Answers
<1>2. Tool \in Names /\ Tool # NotNamed
  BY CatalogNames
<1> HIDE DEF how
<1> QED
  BY <1>1, <1>2, RequestCounts

LEMMA FilesystemKeepsCoverage ==
    ASSUME CoverageInv, CallsFromCatalog, ActsTypes, FsStep, UNCHANGED networkVars
    PROVE  CoverageInv'
<1>1. step \in {"filesystem", "operation", "control"} \cup InVectors /\ UNCHANGED scenario
  BY DEF InVectors, FsStep, StartFilesystem, StartOperation, Control, NextVector, SnapshotRaises,
         SnapshotBefore, CallToRead, CallToWrite, SnapshotAfter, GoTo
<1>2. NetPlace' /\ NetCounted' = NetCounted
  BY <1>1 DEF CoverageInv, NetPlace, NetCounted, NetSeen, NetOwed, networkVars, Configured, Lists,
              Network!Answered, Network!Late, Reading, InVectors
<1>3. vector \in Nat /\ controlSeen \in BOOLEAN /\ Len(Vectors) \in Nat \ {0} /\ step # "raised"
      /\ DOMAIN Vectors = 1 .. Len(Vectors)
  BY <1>1, BoundAssumption, LenProperties, EmptySeq DEF CoverageInv, FsPlace, InVectors
<1>4. CASE StartFilesystem
  <2>1. /\ step = "filesystem" /\ step' \in {"done", "operation"}
        /\ UNCHANGED <<answered, vector, controlSeen>>
        /\ UNCHANGED checks \/ checks' = Append(checks, Check("filesystem", NotNamed, "SKIP", FALSE))
    BY <1>4 DEF StartFilesystem, GoTo, sessionVars, fsVars
  <2>2. ToolsCalled' = ToolsCalled
    BY <2>1, SkipCounts
  <2>3. FsPlace' /\ FsOwed' = {} /\ FsOwed = {}
    BY <1>3, <2>1 DEF FsPlace, FsOwed, InVectors
  <2> QED
    BY <1>1, <1>2, <1>3, <2>1, <2>2, <2>3, NothingCounts DEF CoverageInv
<1>5. CASE StartOperation
  <2>1. /\ step = "operation" /\ step' \in {"done", "operation", "control"}
        /\ (step' = "control" => Listed /\ UNCHANGED operation)
        /\ vector' = 0 /\ controlSeen' = FALSE /\ UNCHANGED answered
        /\ UNCHANGED checks \/ checks' = Append(checks, Check(operation, Tool, "SKIP", FALSE))
    BY <1>5 DEF StartOperation, GoTo, sessionVars, fsVars
  <2>2. ToolsCalled' = ToolsCalled
    BY <2>1, SkipCounts
  <2>3. step' = "control" => Listed'
    BY <1>1, <2>1 DEF Listed, Tool
  <2>4. FsPlace' /\ FsOwed' = {} /\ FsOwed = {}
    <3>1. vector' \in Nat /\ vector' <= Len(Vectors) /\ controlSeen' \in BOOLEAN /\ step' \notin InVectors
      <4>1. (\A n \in Nat : 0 <= n) /\ Len(Vectors) \in Nat
        BY <1>3
      <4> QED
        BY <2>1, <4>1 DEF InVectors
    <3>2. step \notin InVectors
      BY <2>1 DEF InVectors
    <3> QED
      BY <2>1, <2>3, <3>1, <3>2 DEF FsPlace, FsOwed, InVectors
  <2> QED
    BY <1>1, <1>2, <1>3, <2>1, <2>2, <2>4, NothingCounts DEF CoverageInv
<1>6. CASE Control
  <2>1. PICK o \in RawOutcomes, written \in BOOLEAN :
            /\ RequestRaw(Tool, o)
            /\ IF ControlWorked(o, written)
               THEN /\ step' = "next" /\ controlSeen' = RawAnswered(o) /\ UNCHANGED <<operation, checks>>
               ELSE /\ step' = "operation" /\ checks' = checks \o SkippedVectors(RawAnswered(o))
                    /\ UNCHANGED controlSeen
    BY <1>6 DEF Control, GoTo
  <2>2. step = "control" /\ Listed /\ vector <= Len(Vectors) /\ UNCHANGED vector
    BY <1>6 DEF Control, CoverageInv, FsPlace
  <2>3. /\ answered' \cap Names = (answered \cap Names) \cup (IF RawAnswered(o) THEN {Tool} ELSE {})
        /\ Tool # NotNamed
    BY <2>1, <2>2, RawCounts
  <2>4. FsOwed = {}
    BY <2>2 DEF FsOwed, InVectors
  <2>5. CASE ControlWorked(o, written)
    <3>1. ToolsCalled' = ToolsCalled /\ Tool' = Tool /\ Listed'
      BY <1>1, <2>1, <2>2, <2>5, SameChecksCount DEF Tool, Listed
    <3>2. RawAnswered(o) \in BOOLEAN
      BY DEF RawAnswered
    <3>3. FsOwed' = IF RawAnswered(o) THEN {Tool} ELSE {}
      BY <2>1, <2>5, <3>1 DEF FsOwed, InVectors
    <3>4. vector = 0
      BY <2>2 DEF CoverageInv, FsPlace
    <3>5. FsPlace'
      BY <1>3, <2>1, <2>2, <2>5, <3>1, <3>2, <3>4 DEF FsPlace, InVectors
    <3> QED
      BY <1>1, <1>2, <1>3, <2>3, <2>4, <3>1, <3>3, <3>5, CountsStay DEF CoverageInv
  <2>6. CASE ~ControlWorked(o, written)
    <3> DEFINE new == SkippedVectors(RawAnswered(o))
               skip == FsCheck("SKIP", RawAnswered(o), FALSE)
    <3>1. new = [i \in 1 .. Len(Vectors) |-> skip]
      BY <1>3 DEF SkippedVectors
    <3>2. new \in Seq({skip}) /\ ToSet(new) = {skip}
      <4>1. Len(Vectors) \in Nat \ {0}
        BY <1>3
      <4> HIDE DEF new, skip
      <4> QED
        <5>1. new \in [1 .. Len(Vectors) -> {skip}]
          BY <3>1
        <5>2. /\ DOMAIN new = 1 .. Len(Vectors) /\ 1 \in 1 .. Len(Vectors)
              /\ \A i \in 1 .. Len(Vectors) : new[i] = skip
          BY <3>1, <4>1
        <5>3. \A n \in Nat : \A t \in [1 .. n -> {skip}] : t \in Seq({skip})
          OBVIOUS
        <5> QED
          BY <4>1, <5>1, <5>2, <5>3 DEF ToSet
    <3>3. skip.tool = Tool /\ skip.called = RawAnswered(o) /\ skip.control = FALSE
      BY DEF FsCheck
    <3>4. Adds(new)
      BY <2>1, <2>6, <3>2 DEF Adds
    <3>5. Counted(new) = IF RawAnswered(o) THEN {Tool} ELSE {}
      <4> HIDE DEF new, skip
      <4> QED
        BY <2>3, <3>2, <3>3 DEF Counted
    <3>6. ToolsCalled' = ToolsCalled \cup (IF RawAnswered(o) THEN {Tool} ELSE {})
      <4> HIDE DEF new, skip
      <4> QED
        BY <3>4, <3>5, ReportCounts
    <3>7. FsPlace' /\ FsOwed' = {}
      BY <1>3, <2>1, <2>2, <2>6 DEF FsPlace, FsOwed, InVectors
    <3> HIDE DEF new, skip
    <3> QED
      BY <1>1, <1>2, <1>3, <2>3, <2>4, <3>6, <3>7, CountsStay DEF CoverageInv
  <2> QED
    BY <2>5, <2>6
<1>7. CASE NextVector
  <2>1. /\ step = "next" /\ Listed /\ vector <= Len(Vectors)
        /\ vector > 0 /\ controlSeen => Tool \in ToolsCalled
        /\ UNCHANGED <<answered, controlSeen>>
    BY <1>7 DEF NextVector, CoverageInv, FsPlace, sessionVars, InVectors
  <2>2. FsOwed = IF controlSeen THEN {Tool} ELSE {}
    BY <2>1 DEF FsOwed, InVectors
  <2>3. CASE vector = Len(Vectors)
    <3>1. step' = "operation" /\ UNCHANGED <<vector, checks>>
      BY <1>7, <2>3 DEF NextVector, GoTo
    <3>2. ToolsCalled' = ToolsCalled /\ FsOwed' = {} /\ FsPlace'
      BY <1>3, <2>1, <3>1, SameChecksCount DEF FsOwed, FsPlace, InVectors
    <3>3. controlSeen => Tool \in ToolsCalled
      BY <1>3, <2>1, <2>3
    <3>4. ToolsCalled' \cup FsOwed' \cup NetCounted' = ToolsCalled \cup FsOwed \cup NetCounted
      BY <1>2, <2>2, <3>2, <3>3
    <3> QED
      BY <1>1, <1>2, <1>3, <2>1, <3>2, <3>4, NothingCounts DEF CoverageInv
  <2>4. CASE vector # Len(Vectors)
    <3>0. vector' = vector + 1 /\ UNCHANGED operation
      BY <1>7, <2>4 DEF NextVector
    <3>1. vector' = vector + 1 /\ vector' \in Nat /\ vector' <= Len(Vectors) /\ UNCHANGED operation
      <4>1. \A v, n \in Nat : v <= n /\ v # n => v + 1 \in Nat /\ v + 1 <= n
        OBVIOUS
      <4>2. vector \in Nat /\ Len(Vectors) \in Nat /\ vector <= Len(Vectors)
        BY <1>3, <2>1
      <4> QED
        BY <2>4, <3>0, <4>1, <4>2
    <3>2. Tool' = Tool /\ Listed'
      BY <1>1, <2>1, <3>1 DEF Tool, Listed
    <3>3. CASE Vectors[vector + 1]
      <4>1. step' \in {"before", "calling"} /\ UNCHANGED checks
        BY <1>7, <2>4, <3>1, <3>3 DEF NextVector, GoTo
      <4>2. ToolsCalled' = ToolsCalled /\ FsOwed' = FsOwed /\ FsPlace'
        BY <1>3, <2>1, <2>2, <3>1, <3>2, <4>1, SameChecksCount DEF FsOwed, FsPlace, InVectors
      <4> QED
        BY <1>1, <1>2, <1>3, <2>1, <4>2, NothingCounts DEF CoverageInv
    <3>4. CASE ~Vectors[vector + 1]
      <4> DEFINE c == FsCheck("SKIP", FALSE, controlSeen)
      <4>1. step' = "next" /\ checks' = Append(checks, c)
        BY <1>7, <2>4, <3>1, <3>4 DEF NextVector, GoTo
      <4>2. c.tool = Tool /\ c.called = FALSE /\ c.control = controlSeen
        BY DEF FsCheck
      <4> HIDE DEF c
      <4>3. Tool # NotNamed
        BY <2>1, CatalogNames
      <4>4. ToolsCalled' = ToolsCalled \cup (IF controlSeen THEN {Tool} ELSE {})
        BY <4>1, <4>2, <4>3, OneCheckCounts
      <4>5. FsOwed' = FsOwed /\ FsPlace'
        BY <1>3, <2>1, <2>2, <3>1, <3>2, <4>1, <4>4 DEF FsOwed, FsPlace, InVectors
      <4> QED
        BY <1>1, <1>2, <1>3, <2>1, <2>2, <4>4, <4>5, CountsStay DEF CoverageInv
    <3> QED
      BY <3>3, <3>4
  <2> QED
    BY <2>3, <2>4
<1>8. CASE SnapshotRaises
  <2>1. step' = "raised" /\ UNCHANGED <<vector, controlSeen>>
    BY <1>8 DEF SnapshotRaises, GoTo, fsVars
  <2> QED
    BY <1>2, <1>3, <2>1 DEF CoverageInv, FsPlace, Accounted, InVectors
<1>9. CASE SnapshotBefore
  <2>1. /\ step = "before" /\ step' = "calling"
        /\ UNCHANGED <<operation, vector, controlSeen, checks, answered>>
    BY <1>9 DEF SnapshotBefore, GoTo, sessionVars
  <2>2. ToolsCalled' = ToolsCalled /\ FsOwed' = FsOwed /\ FsPlace'
    BY <1>1, <1>3, <2>1, SameChecksCount DEF CoverageInv, FsOwed, FsPlace, InVectors, Listed, Tool
  <2> QED
    BY <1>1, <1>2, <1>3, <2>1, <2>2, CountsStay DEF CoverageInv
<1>10. CASE CallToRead
  <2> DEFINE c(o) == FsCheck(ReadVerdict(o), RawAnswered(o), controlSeen)
  <2>1. PICK o \in RawOutcomes : RequestRaw(Tool, o) /\ checks' = Append(checks, c(o))
    BY <1>10 DEF CallToRead
  <2>2. /\ step = "calling" /\ step' = "next" /\ Listed /\ vector <= Len(Vectors)
        /\ UNCHANGED <<operation, vector, controlSeen>>
    BY <1>10 DEF CallToRead, GoTo, fsVars, CoverageInv, FsPlace, InVectors
  <2>3. c(o).tool = Tool /\ c(o).called = RawAnswered(o) /\ c(o).control = controlSeen
    BY DEF FsCheck
  <2>4. /\ answered' \cap Names = (answered \cap Names) \cup (IF RawAnswered(o) THEN {Tool} ELSE {})
        /\ Tool # NotNamed
    BY <2>1, <2>2, RawCounts
  <2>5. ToolsCalled' = ToolsCalled \cup (IF RawAnswered(o) \/ controlSeen THEN {Tool} ELSE {})
    <3> HIDE DEF c
    <3> QED
      BY <2>1, <2>3, <2>4, OneCheckCounts
  <2>6. /\ Tool' = Tool /\ Listed'
        /\ FsOwed = IF controlSeen THEN {Tool} ELSE {}
        /\ FsOwed' = IF controlSeen THEN {Tool} ELSE {}
    BY <1>1, <2>2 DEF FsOwed, InVectors, Listed, Tool
  <2>7. FsPlace'
    BY <1>3, <2>2, <2>5, <2>6 DEF FsPlace
  <2> QED
    BY <1>1, <1>2, <1>3, <2>4, <2>5, <2>6, <2>7, CountsStay DEF CoverageInv
<1>11. CASE CallToWrite
  <2>1. PICK o \in RawOutcomes : RequestRaw(Tool, o) /\ outcome' = o
    BY <1>11 DEF CallToWrite
  <2>2. /\ step = "calling" /\ step' = "after" /\ Listed /\ vector <= Len(Vectors)
        /\ UNCHANGED <<operation, vector, controlSeen, checks>>
    BY <1>11 DEF CallToWrite, GoTo, CoverageInv, FsPlace, InVectors
  <2>3. answered' \cap Names = (answered \cap Names) \cup (IF RawAnswered(o) THEN {Tool} ELSE {})
    BY <2>1, <2>2, RawCounts
  <2>4. /\ Tool' = Tool /\ Listed' /\ ToolsCalled' = ToolsCalled
        /\ FsOwed = IF controlSeen THEN {Tool} ELSE {}
        /\ FsOwed' = IF controlSeen \/ RawAnswered(o) THEN {Tool} ELSE {}
    BY <1>1, <2>1, <2>2, SameChecksCount DEF FsOwed, InVectors, Listed, Tool, RawAnswered
  <2>5. FsPlace'
    BY <1>3, <2>2, <2>4 DEF FsPlace
  <2> QED
    BY <1>1, <1>2, <1>3, <2>3, <2>4, <2>5, CountsStay DEF CoverageInv
<1>12. CASE SnapshotAfter
  <2> DEFINE c == FsCheck(WriteVerdict, RawAnswered(outcome), controlSeen)
  <2>1. checks' = Append(checks, c)
    BY <1>12 DEF SnapshotAfter
  <2>2. /\ step = "after" /\ step' = "next" /\ Listed /\ vector <= Len(Vectors)
        /\ UNCHANGED <<operation, vector, controlSeen, answered>>
    BY <1>12 DEF SnapshotAfter, GoTo, fsVars, sessionVars, CoverageInv, FsPlace, InVectors
  <2>3. c.tool = Tool /\ c.called = RawAnswered(outcome) /\ c.control = controlSeen
    BY DEF FsCheck
  <2>4. Tool # NotNamed
    BY <2>2, CatalogNames
  <2>5. ToolsCalled' = ToolsCalled \cup (IF RawAnswered(outcome) \/ controlSeen THEN {Tool} ELSE {})
    <3> HIDE DEF c
    <3> QED
      BY <2>1, <2>3, <2>4, OneCheckCounts
  <2>6. /\ Tool' = Tool /\ Listed'
        /\ FsOwed = IF controlSeen \/ RawAnswered(outcome) THEN {Tool} ELSE {}
        /\ FsOwed' = IF controlSeen THEN {Tool} ELSE {}
    BY <1>1, <2>2 DEF FsOwed, InVectors, Listed, Tool
  <2>7. FsPlace'
    BY <1>3, <2>2, <2>5, <2>6 DEF FsPlace
  <2>8. ToolsCalled' \cup FsOwed' \cup NetCounted' = ToolsCalled \cup FsOwed \cup NetCounted
    BY <1>2, <2>5, <2>6
  <2> QED
    BY <1>1, <1>2, <1>3, <2>2, <2>7, <2>8, NothingCounts DEF CoverageInv
<1> QED
  BY <1>4, <1>5, <1>6, <1>7, <1>8, <1>9, <1>10, <1>11, <1>12 DEF FsStep

(* What is seen of the results that a step of the network check adds.      *)
SeenIn(new) == \E r \in ToSet(new) : r.control \/ Network!Answered(r.outcome)

LEMMA SeenWithOne ==
    ASSUME TaskTypes, NEW r \in Results, results' = Append(results, r)
    PROVE  NetSeen' <=> NetSeen \/ r.control \/ Network!Answered(r.outcome)
<1>1. ToSet(results') = ToSet(results) \cup {r}
  BY HeldByAppend DEF TaskTypes
<1> QED
  BY <1>1 DEF NetSeen, Network!Answered

LEMMA SeenWith ==
    ASSUME NEW s \in Seq(Results), NEW t \in Seq(Results)
    PROVE  SeenIn(s \o t) <=> SeenIn(s) \/ SeenIn(t)
<1>1. ToSet(s \o t) = ToSet(s) \cup ToSet(t)
  BY HeldByConcat
<1> QED
  BY <1>1 DEF SeenIn

LEMMA SeenInFails ==
    ASSUME WindowsInv, TaskTypes, netAt \notin DOMAIN NetworkVectors
    PROVE  SeenIn(Network!Fails) => Network!Answered(netOutcome)
<1> DEFINE r == Network!Result(netAt, "FAIL")
<1>1. r.control = FALSE /\ r.outcome = netOutcome
  BY DEF Network!Result, Network!ControlSeen
<1>2. Network!Fails = IF reached = <<>> THEN <<>> ELSE <<r>>
  BY DEF Network!Fails
<1> HIDE DEF r
<1>3. ToSet(<<r>>) = {r} /\ ToSet(<<>>) = {}
  BY DEF ToSet
<1> QED
  BY <1>1, <1>2, <1>3 DEF SeenIn

LEMMA SeenInSkips == SeenIn(Network!SkippedVectors) <=> Network!Answered(netOutcome)
<1> DEFINE skip(i) == Network!Skip(i, netOutcome, FALSE)
<1>1. NetworkVectors \in Seq(BOOLEAN) /\ DOMAIN NetworkVectors = 1 .. Len(NetworkVectors)
      /\ Len(NetworkVectors) \in Nat \ {0}
  BY ConstantsAssumption, LenProperties, EmptySeq
<1>2. Network!SkippedVectors = [i \in 1 .. Len(NetworkVectors) |-> skip(i)]
  BY <1>1 DEF Network!SkippedVectors
<1>3. \A i : skip(i).control = FALSE /\ skip(i).outcome = netOutcome
  BY DEF Network!Skip
<1>4. 1 \in 1 .. Len(NetworkVectors)
  BY <1>1
<1> HIDE DEF skip
<1>5. ToSet(Network!SkippedVectors) = { skip(i) : i \in 1 .. Len(NetworkVectors) }
  BY <1>2 DEF ToSet
<1> QED
  BY <1>3, <1>4, <1>5 DEF SeenIn

LEMMA VectorsAre ==
    /\ Len(NetworkVectors) \in Nat /\ Len(NetworkVectors) >= 1
    /\ DOMAIN NetworkVectors = 1 .. Len(NetworkVectors)
    /\ Network!Late = Len(NetworkVectors) + 1
BY ConstantsAssumption, LenProperties, EmptySeq DEF Network!Late

(* The steps of the check, but for those that report.                      *)
Quiet ==
    \/ Network!Mark \/ Network!BeginControl \/ Network!Call \/ Network!Grace
    \/ Network!Settle \/ Network!SettleTimesOut \/ Network!JudgeControl \/ Network!Read

(* A call of the check that is answered in this step.                     *)
AnsweredNow(o) == netStep = "call" /\ Network!Answered(o)

LEMMA QuietKeepsPlace ==
    ASSUME WindowsInv, TaskTypes, NetPlace, NetworkTask, Quiet
    PROVE  NetPlace' /\ (NetSeen' \/ NetOwed' <=> NetSeen \/ NetOwed \/ AnsweredNow(netOutcome'))
<1>1. UNCHANGED <<scenario, step, results, policy, netAt>>
  BY TaskKeepsConnections
  DEF NetworkTask, Quiet, Network!Mark, Network!BeginControl, Network!Call, Network!Grace,
      Network!Settle, Network!SettleTimesOut, Network!JudgeControl, Network!Read
<1>2. NetSeen' = NetSeen /\ netAt \in Nat
  BY <1>1 DEF NetSeen, Network!Answered, WindowsInv, LogsAndCursors
<1>3. CASE Network!Mark
  <2>1. netStep = "mark" /\ netStep' \in {"mark", "begin", "next"} /\ UNCHANGED netOutcome
        /\ (netStep' = "next" => policy # "allowlist") /\ (netStep' = "begin" => policy = "allowlist")
    BY <1>3 DEF Network!Mark
  <2> QED
    BY <1>1, <1>2, <2>1, VectorsAre
    DEF NetPlace, NetOwed, AnsweredNow, Network!Answered, Reading, Lists, Configured, Network!Late
<1>4. CASE Network!BeginControl
  <2>1. netStep = "begin" /\ netStep' = "call" /\ UNCHANGED netOutcome
    BY <1>4 DEF Network!BeginControl
  <2> QED
    BY <1>1, <1>2, <2>1, VectorsAre
    DEF NetPlace, NetOwed, AnsweredNow, Network!Answered, Reading, Lists, Configured, Network!Late
<1>5. CASE Network!Call
  <2>1. netStep = "call" /\ netStep' = "settle"
    BY <1>5 DEF Network!Call
  <2> QED
    BY <1>1, <1>2, <2>1, VectorsAre
    DEF NetPlace, NetOwed, AnsweredNow, Network!Answered, Reading, Lists, Configured, Network!Late
<1>6. CASE Network!Grace
  <2>1. netStep = "grace" /\ netStep' = "settle" /\ UNCHANGED netOutcome /\ netAt = Network!Late
    BY <1>6 DEF Network!Grace, TaskTypes
  <2> QED
    BY <1>1, <1>2, <2>1, VectorsAre
    DEF NetPlace, NetOwed, AnsweredNow, Network!Answered, Reading, Lists, Configured, Network!Late
<1>7. CASE Network!Settle \/ Network!SettleTimesOut
  <2>1. netStep = "settle" /\ netStep' \in {"settle", "control", "read"} /\ UNCHANGED netOutcome
        /\ (netStep' = "read" => netAt # 0)
    BY <1>7 DEF Network!Settle, Network!SettleTimesOut, Network!SettledAll, Network!Control
  <2> QED
    BY <1>1, <1>2, <2>1, VectorsAre
    DEF NetPlace, NetOwed, AnsweredNow, Network!Answered, Reading, Lists, Configured, Network!Late
<1>8. CASE Network!JudgeControl
  <2>1. netStep = "control" /\ netStep' \in {"read", "read_failed"} /\ UNCHANGED netOutcome
        /\ (netStep' = "read" => Network!Answered(netOutcome))
    BY <1>8 DEF Network!JudgeControl
  <2> QED
    BY <1>1, <1>2, <2>1, VectorsAre
    DEF NetPlace, NetOwed, AnsweredNow, Network!Answered, Reading, Lists, Configured, Network!Late
<1>9. CASE Network!Read
  <2>1. netStep \in {"read", "read_failed"} /\ UNCHANGED <<netStep, netOutcome>>
    BY <1>9 DEF Network!Read
  <2> QED
    BY <1>1, <1>2, <2>1, VectorsAre
    DEF NetPlace, NetOwed, AnsweredNow, Network!Answered, Reading, Lists, Configured, Network!Late
<1> QED
  BY <1>3, <1>4, <1>5, <1>6, <1>7, <1>8, <1>9 DEF Quiet

(* The steps that report.                                                  *)
LEMMA ReportsKeepPlace ==
    ASSUME WindowsInv, TaskTypes, StartedClean, NetPlace, NetworkTask, ~Quiet
    PROVE  NetPlace' /\ (NetSeen' \/ NetOwed' <=> NetSeen \/ NetOwed \/ AnsweredNow(netOutcome'))
<1>1. UNCHANGED <<scenario, step, policy>> /\ AtNetwork /\ netAt \in Nat
  BY TaskKeepsConnections DEF NetworkTask, WindowsInv, LogsAndCursors
<1>2. /\ results \in Seq(Results) /\ Network!Fails \in Seq(Results)
      /\ Network!SkippedVectors \in Seq(Results)
  BY FailsAreResults, SkipsAreResults DEF TaskTypes
<1>3. CASE Network!LookUpTool
  <2>1. /\ netStep = "look" /\ netStep' \in {"mark", "done"} /\ UNCHANGED <<netAt, netOutcome>>
        /\ (netStep' = "mark" => UNCHANGED results /\ Lists)
        /\ results' \in {results, <<Network!Skip(Network!Control, "none", FALSE)>>}
    BY <1>3 DEF Network!LookUpTool, NetworkTask
  <2>2. netAt = 0
    BY <2>1 DEF NetPlace
  <2>3. ~NetSeen
    BY <2>1 DEF StartedClean, NetSeen, ToSet
  <2>4. ~NetSeen'
    <3> DEFINE r == Network!Skip(Network!Control, "none", FALSE)
    <3>1. r.control = FALSE /\ r.outcome = "none"
      BY DEF Network!Skip
    <3> HIDE DEF r
    <3>2. ToSet(<<r>>) = {r}
      BY DEF ToSet
    <3>3. CASE results' = results
      BY <2>3, <3>3 DEF NetSeen, Network!Answered
    <3>4. CASE results' = <<r>>
      BY <3>1, <3>2, <3>4 DEF NetSeen, Network!Answered
    <3> QED
      BY <2>1, <3>3, <3>4 DEF r
  <2> QED
    BY <1>1, <2>1, <2>2, <2>3, <2>4, VectorsAre
    DEF NetPlace, NetOwed, AnsweredNow, Network!Answered, Reading, Lists, Configured, Network!Late,
        AtNetwork
<1>4. CASE Network!NextVector
  <2>1. /\ netStep = "next" /\ netAt' = netAt + 1 /\ netOutcome' = "none" /\ netAt # Network!Late
        /\ netAt < Network!Late
    <3>1. netAt <= Network!Late /\ netAt # Network!Late /\ Network!Late \in Nat
      BY <1>4, VectorsAre DEF Network!NextVector, NetPlace
    <3> QED
      BY <1>1, <1>4, <3>1 DEF Network!NextVector
  <2>2. CASE netAt' = Network!Late
    <3>1. netStep' = "grace" /\ UNCHANGED results
      BY <1>4, <2>2 DEF Network!NextVector
    <3>2. NetSeen' = NetSeen
      BY <3>1 DEF NetSeen, Network!Answered
    <3>3. netAt # 0
      BY <1>1, <2>1, <2>2, VectorsAre
    <3> QED
      BY <1>1, <2>1, <2>2, <3>1, <3>2, <3>3, VectorsAre
      DEF NetPlace, NetOwed, AnsweredNow, Network!Answered, Reading, Lists, Configured, Network!Late
  <2>3. CASE netAt' # Network!Late
    <3>1. netAt' \in DOMAIN NetworkVectors /\ netAt' # 0 /\ netAt' <= Network!Late
      BY <1>1, <2>1, <2>3, VectorsAre
    <3>2. CASE NetworkVectors[netAt + 1]
      <4>1. netStep' = "call" /\ UNCHANGED results
        BY <1>4, <2>1, <2>3, <3>2 DEF Network!NextVector
      <4>2. NetSeen' = NetSeen
        BY <4>1 DEF NetSeen, Network!Answered
      <4> QED
        BY <1>1, <2>1, <2>3, <3>1, <4>1, <4>2
        DEF NetPlace, NetOwed, AnsweredNow, Network!Answered, Reading, Lists, Configured, Network!Late
    <3>3. CASE ~NetworkVectors[netAt + 1]
      <4> DEFINE r == Network!Skip(netAt + 1, "none", Network!ControlSeen(netAt + 1))
      <4>1. netStep' = "next" /\ results' = Append(results, r)
        BY <1>4, <2>1, <2>3, <3>3 DEF Network!NextVector
      <4>2. r \in Results /\ r.outcome = "none" /\ r.control = (policy = "allowlist")
        BY <1>1, <2>1, <3>1 DEF Network!Skip, Network!ControlSeen, Results
      <4> HIDE DEF r
      <4>3. NetSeen' <=> NetSeen \/ policy = "allowlist"
        BY <4>1, <4>2, SeenWithOne DEF Network!Answered
      <4> QED
        BY <1>1, <2>1, <2>3, <3>1, <4>1, <4>3
        DEF NetPlace, NetOwed, AnsweredNow, Network!Answered, Reading, Lists, Configured, Network!Late
    <3> QED
      BY <3>2, <3>3
  <2> QED
    BY <2>2, <2>3
<1>5. CASE Network!ReportControl
  <2>1. netAt = 0 /\ netAt \notin DOMAIN NetworkVectors /\ netAt # Network!Late
    BY <1>5, VectorsAre DEF Network!ReportControl, Network!Control
  <2>2. SeenIn(Network!Fails) => Network!Answered(netOutcome)
    BY <2>1, SeenInFails
  <2>3. NetSeen <=> SeenIn(results)
    BY DEF NetSeen, SeenIn
  <2>4. SeenIn(results \o Network!Fails) <=> NetSeen \/ SeenIn(Network!Fails)
    BY <1>2, <2>3, SeenWith
  <2>5. CASE netStep = "read"
    <3>1. netStep' = "next" /\ UNCHANGED <<netAt, netOutcome>>
      BY <1>5, <2>5 DEF Network!ReportControl
    <3>2. policy = "allowlist" /\ Network!Answered(netOutcome)
      BY <2>1, <2>5 DEF NetPlace
    <3> QED
      BY <1>1, <2>1, <2>5, <3>1, <3>2
      DEF NetPlace, NetOwed, AnsweredNow, Network!Answered, Reading, Lists, Configured, Network!Late
  <2>6. CASE netStep = "read_failed"
    <3>1. /\ netStep' = "grace" /\ netAt' = Network!Late /\ netOutcome' = "none"
          /\ results' = (results \o Network!Fails) \o Network!SkippedVectors
      BY <1>5, <2>6 DEF Network!ReportControl
    <3>2. results \o Network!Fails \in Seq(Results)
      BY <1>2, ConcatProperties
    <3>3. SeenIn((results \o Network!Fails) \o Network!SkippedVectors)
              <=> SeenIn(results \o Network!Fails) \/ SeenIn(Network!SkippedVectors)
      BY <1>2, <3>2, SeenWith
    <3>4. NetSeen' <=> SeenIn(results')
      BY DEF NetSeen, SeenIn, Network!Answered
    <3>5. NetSeen' <=> NetSeen \/ Network!Answered(netOutcome)
      BY <2>2, <2>4, <3>1, <3>3, <3>4, SeenInSkips
    <3> QED
      BY <1>1, <2>1, <2>6, <3>1, <3>5, VectorsAre
      DEF NetPlace, NetOwed, AnsweredNow, Network!Answered, Reading, Lists, Configured, Network!Late
  <2> QED
    BY <1>5, <2>5, <2>6 DEF Network!ReportControl
<1>6. CASE Network!ReportVector
  <2> DEFINE r == Network!Result(netAt, Network!Verdict)
  <2>1. /\ netStep = "read" /\ netStep' = "next" /\ UNCHANGED <<netAt, netOutcome>>
        /\ netAt \in DOMAIN NetworkVectors /\ results' = Append(results, r)
    BY <1>6 DEF Network!ReportVector
  <2>2. netAt # 0 /\ netAt # Network!Late
    BY <1>1, <2>1, VectorsAre
  <2>3. r \in Results /\ r.outcome = netOutcome /\ r.control = (policy = "allowlist")
    BY <1>1, <2>1 DEF Network!Verdict, Network!Result, Network!ControlSeen, Results, TaskTypes
  <2> HIDE DEF r
  <2>4. NetSeen' <=> NetSeen \/ policy = "allowlist" \/ Network!Answered(netOutcome)
    BY <2>1, <2>3, SeenWithOne
  <2> QED
    BY <1>1, <2>1, <2>2, <2>4
    DEF NetPlace, NetOwed, AnsweredNow, Network!Answered, Reading, Lists, Configured, Network!Late
<1>7. CASE Network!ReportLate
  <2>1. /\ netStep = "read" /\ netStep' = "done" /\ UNCHANGED <<netAt, netOutcome>>
        /\ netAt = Network!Late /\ results' = results \o Network!Fails
    BY <1>7 DEF Network!ReportLate
  <2>2. netAt \notin DOMAIN NetworkVectors /\ netAt # 0 /\ netOutcome = "none"
    BY <2>1, VectorsAre DEF NetPlace
  <2>3. ~SeenIn(Network!Fails)
    BY <2>2, SeenInFails DEF Network!Answered
  <2>4. SeenIn(results') <=> SeenIn(results) \/ SeenIn(Network!Fails)
    BY <1>2, <2>1, SeenWith
  <2>5. NetSeen' <=> NetSeen
    BY <2>3, <2>4 DEF NetSeen, SeenIn, Network!Answered
  <2> QED
    BY <1>1, <2>1, <2>2, <2>5
    DEF NetPlace, NetOwed, AnsweredNow, Network!Answered, Reading, Lists, Configured, Network!Late
<1> QED
  BY <1>3, <1>4, <1>5, <1>6, <1>7 DEF NetworkTask, Network!Task, Quiet

LEMMA NetworkKeepsCoverage ==
    ASSUME CoverageInv, CallsFromCatalog, WindowsInv, TaskTypes, StartedClean, NetworkTask
    PROVE  CoverageInv'
<1>1. /\ step = "done" /\ UNCHANGED <<scenario, step, checks, vector, controlSeen, operation, outcome>>
  BY DEF NetworkTask, AtNetwork, fsVars
<1>2. NetPlace' /\ (NetSeen' \/ NetOwed' <=> NetSeen \/ NetOwed \/ AnsweredNow(netOutcome'))
  BY QuietKeepsPlace, ReportsKeepPlace DEF CoverageInv
<1>3. FsPlace' /\ FsOwed = {} /\ FsOwed' = {} /\ ToolsCalled' = ToolsCalled
  BY <1>1, SameChecksCount DEF CoverageInv, FsPlace, FsOwed, InVectors
<1>4. answered' \cap Names =
          (answered \cap Names) \cup (IF AnsweredNow(netOutcome') THEN {scenario.network} ELSE {})
  <2>1. netStep = "call" => Lists
    BY DEF CoverageInv, NetPlace
  <2>2. Lists => scenario.network \in Names
    BY CatalogNames
  <2> QED
    BY <2>1, <2>2 DEF NetworkTask, CallOnSession, AnsweredNow
<1>5. NetCounted' = NetCounted \cup (IF AnsweredNow(netOutcome') THEN {scenario.network} ELSE {})
  BY <1>1, <1>2 DEF NetCounted
<1>6. Accounted'
  BY <1>1, <1>3, <1>4, <1>5, CountsStay DEF CoverageInv
<1> QED
  BY <1>2, <1>3, <1>6 DEF CoverageInv

LEMMA CoverageInit == PhaseInit => CoverageInv
<1> SUFFICES ASSUME PhaseInit PROVE CoverageInv
  OBVIOUS
<1>1. /\ step = "start" /\ checks = <<>> /\ answered = {} /\ vector = 0 /\ controlSeen = FALSE
      /\ netStep = "look" /\ netAt = 0 /\ results = <<>> /\ netOutcome = "none"
  BY DEF PhaseInit, FsInit, Init, Network!Init, Network!Control
<1>2. ToSet(checks) = {} /\ ToSet(results) = {}
  BY <1>1 DEF ToSet
<1>3. FsPlace /\ FsOwed = {} /\ ToolsCalled = {}
  BY <1>1, <1>2 DEF FsPlace, FsOwed, InVectors, ToolsCalled
<1>4. NetPlace /\ ~NetSeen /\ ~NetOwed
  BY <1>1, <1>2, VectorsAre DEF NetPlace, NetSeen, NetOwed, Reading
<1> QED
  BY <1>1, <1>3, <1>4 DEF CoverageInv, Accounted, NetCounted

LEMMA CoverageStep ==
    ConsentInv /\ NetworkInv /\ ActsInv /\ CoverageInv /\ [Next]_phaseVars => CoverageInv'
<1> SUFFICES ASSUME ConsentInv, NetworkInv, ActsInv, CoverageInv, [Next]_phaseVars
             PROVE  CoverageInv'
  OBVIOUS
<1>1. CallsFromCatalog /\ ActsTypes /\ WindowsInv /\ TaskTypes /\ StartedClean
  BY DEF ConsentInv, ActsInv, NetworkInv
<1>2. CASE SmokeStep /\ UNCHANGED <<fsVars, treeVars, networkVars>>
  BY <1>1, <1>2, SmokeKeepsCoverage
<1>3. CASE FsStep /\ UNCHANGED networkVars
  BY <1>1, <1>3, FilesystemKeepsCoverage
<1>4. CASE NetworkTask
  BY <1>1, <1>4, NetworkKeepsCoverage
<1>5. CASE UNCHANGED <<smokeVars, fsVars, Network!taskVars>>
  <2>1. UNCHANGED <<scenario, step, checks, answered, operation, vector, controlSeen, outcome,
                    policy, netStep, netAt, netOutcome, results>>
    BY <1>5 DEF smokeVars, sessionVars, fsVars, Network!taskVars
  <2>2. FsPlace' /\ FsOwed' = FsOwed /\ ToolsCalled' = ToolsCalled
    BY <2>1 DEF CoverageInv, FsPlace, FsOwed, InVectors, Listed, Tool, ToolsCalled, RawAnswered
  <2>3. NetPlace' /\ NetCounted' = NetCounted
    BY <2>1 DEF CoverageInv, NetPlace, NetCounted, NetSeen, NetOwed, Reading, Lists, Configured,
                Network!Answered, Network!Late
  <2> QED
    BY <2>1, <2>2, <2>3 DEF CoverageInv, Accounted, Names
<1>6. CASE Surroundings /\ UNCHANGED networkVars
  <2>1. UNCHANGED <<smokeVars, fsVars>>
    BY <1>6 DEF Surroundings, WriteOutside, RemoveOutside, Leave
  <2> QED
    BY <1>5, <1>6, <2>1 DEF networkVars, Network!taskVars
<1>7. CASE NetworkSurroundings
  BY <1>5, <1>7 DEF NetworkSurroundings, Network!Surroundings, Network!Connect, Network!Accept,
     Network!Describe, vars
<1>8. CASE UNCHANGED phaseVars
  BY <1>5, <1>8 DEF phaseVars, vars, networkVars, Network!taskVars
<1> QED
  BY <1>2, <1>3, <1>4, <1>6, <1>7, <1>8 DEF Next

(* What the report counts as called is what was answered, of the tools it  *)
(* audited, be it only a positive control or the last vector, and whatever *)
(* closed the connection afterwards.                                       *)
THEOREM CoverageIsCounted == Spec => []CoverageIsTrue
<1>1. CoverageInv => CoverageIsTrue
  <2> SUFFICES ASSUME CoverageInv, step = "operation" \/ (PhaseOver /\ step # "raised")
               PROVE  ToolsCalled \cup NetworkTool = answered \cap Names
    BY DEF CoverageIsTrue, Names
  <2>1. step \notin {"raised"} \cup InVectors
    BY DEF PhaseOver, InVectors
  <2>2. FsOwed = {}
    BY <2>1 DEF FsOwed, InVectors
  <2>3. netStep = "look" \/ netStep = "done"
    BY DEF CoverageInv, NetPlace, PhaseOver
  <2>4. netAt \notin DOMAIN NetworkVectors
    BY <2>3, VectorsAre DEF CoverageInv, NetPlace
  <2>5. ~NetOwed
    BY <2>3, <2>4 DEF NetOwed, Reading
  <2>6. NetCounted = NetworkTool
    BY <2>5 DEF NetCounted, NetSeen, NetworkTool
  <2> QED
    BY <2>1, <2>2, <2>6 DEF CoverageInv, Accounted
<1> QED
  BY <1>1, ConsentInit, ConsentStep, NetworkInit, NetworkStep, ActsInit, ActsStep,
     CoverageInit, CoverageStep, PTL DEF Spec

===============================================================================
