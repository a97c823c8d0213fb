------------------------- MODULE StdioLaunchProofs -------------------------
(***************************************************************************)
(* What a stdio launch guarantees for every capacity of the relay and      *)
(* every number of lines.                                                  *)
(***************************************************************************)
EXTENDS StdioLaunch, TLAPS

(* The held lines are consecutive and come right after what the log        *)
(* accounts for and the lines already given up.                            *)
HeldConsecutive ==
    \A i \in 1 .. Len(held) :
        held[i] = logged + (IF phase = "flushing" THEN 0 ELSE dropped) + i - flushed

(* The lock is taken exactly during a flush; only a flush stops holding.   *)
RelayControl ==
    /\ lockFree <=> phase # "flushing"
    /\ phase # "flushing" => flushed = 0
    /\ ~holding => held = <<>> /\ dropped = 0
    /\ NothingHeldAfterReturn

LogChain ==
    /\ IF log = <<>> THEN logged = 0 ELSE log[1].at = 0
    /\ \A i \in 1 .. Len(log) :
           /\ log[i].kind = "line" => log[i].line = log[i].at + 1
           /\ log[i].at + log[i].count =
                  IF i = Len(log) THEN logged ELSE log[i + 1].at

Accounts == logged + Owed = pumped

IInv ==
    /\ TypeOK
    /\ Accounts
    /\ HeldConsecutive
    /\ RelayControl
    /\ LogChain

----------------------------------------------------------------------------
(* A record whose line comes next extends the log.                         *)
LEMMA WriteExtends ==
    ASSUME IInv, NEW rec \in Records, Write(rec), rec.at = logged,
           rec.kind = "line" => rec.line = logged + 1
    PROVE  /\ log' \in Seq(Records)
           /\ logged' = logged + rec.count
           /\ LogChain'
<1>1. /\ log \in Seq(Records)
      /\ log' = Append(log, rec)
      /\ logged' = logged + rec.count
      /\ logged \in Nat
      /\ Len(log) \in Nat
      /\ Len(log') = Len(log) + 1
      /\ log'[Len(log) + 1] = rec
      /\ \A i \in 1 .. Len(log) : log'[i] = log[i]
      /\ rec.count \in Nat
  BY BoundAssumption DEF IInv, TypeOK, Write, Records
<1>2. \A i \in 1 .. Len(log) :
          /\ log'[i].kind = "line" => log'[i].line = log'[i].at + 1
          /\ log'[i].at + log'[i].count = log'[i + 1].at
  BY <1>1 DEF IInv, LogChain
<1>3. log' # <<>> /\ log'[1].at = 0
  BY <1>1 DEF IInv, LogChain
<1> QED
  BY <1>1, <1>2, <1>3 DEF LogChain

LEMMA InitIInv == Init => IInv
<1> SUFFICES ASSUME Init PROVE IInv
  OBVIOUS
<1>1. held \in Seq(1 .. MaxLines) /\ Len(held) = 0 /\ log \in Seq(Records)
  BY DEF Init
<1>2. TypeOK
  <2> USE BoundAssumption DEF Init
  <2>1. importLines \subseteq 1 .. MaxLines /\ written \in 0 .. MaxLines
    OBVIOUS
  <2>2. pumped \in 0 .. written /\ Len(held) <= HeldLines /\ flushed \in 0 .. Len(held)
    OBVIOUS
  <2>3. /\ serverOpen \in BOOLEAN /\ errlogOpen \in BOOLEAN /\ pumpDone \in BOOLEAN
        /\ holding \in BOOLEAN /\ lockFree \in BOOLEAN /\ explained \in BOOLEAN
    OBVIOUS
  <2>4. phase \in Phases /\ outcome \in Outcomes
    BY DEF Phases, Outcomes
  <2> QED
    BY <1>1, <2>1, <2>2, <2>3, <2>4 DEF TypeOK
<1>3. Accounts /\ HeldConsecutive /\ RelayControl /\ LogChain
  BY <1>1 DEF Init, Accounts, Owed, HeldConsecutive, RelayControl,
              NothingHeldAfterReturn, LogChain
<1> QED
  BY <1>2, <1>3 DEF IInv

----------------------------------------------------------------------------
LEMMA EmitIInv == IInv /\ Emit => IInv'
<1> SUFFICES ASSUME IInv, Emit PROVE IInv'
  OBVIOUS
<1> USE BoundAssumption DEF Emit, server, task, relay, logVars
<1>1. /\ phase # "flushing" /\ flushed = 0
      /\ logged \in Nat /\ dropped \in Nat /\ pumped \in Nat /\ Len(held) \in Nat
      /\ held \in Seq(1 .. MaxLines)
      /\ logged + Len(held) + dropped = pumped
      /\ pumped + 1 \in 1 .. MaxLines
  BY DEF IInv, TypeOK, RelayControl, Accounts, Owed
<1>a. \A i \in 1 .. Len(held) : held[i] = logged + dropped + i
  BY <1>1 DEF IInv, HeldConsecutive
<1>b. /\ phase' = phase /\ flushed' = 0 /\ outcome' = outcome /\ level' = level
      /\ explained' = explained /\ python' = python /\ written' = written
      /\ importLines' = importLines /\ pumped' = pumped + 1
  BY <1>1
<1>2. CASE EmitLive
  <2> DEFINE rec == Line(pumped + 1, "info")
  <2> USE <1>2 DEF EmitLive
  <2>1. held = <<>> /\ dropped = 0 /\ logged = pumped
    BY <1>1 DEF IInv, RelayControl
  <2>2. /\ rec \in Records /\ rec.at = logged /\ rec.count = 1
        /\ rec.line = logged + 1
    BY <1>1, <2>1 DEF Line, Records
  <2>3. log' \in Seq(Records) /\ logged' = logged + 1 /\ LogChain'
    BY <2>2, WriteExtends
  <2>4. TypeOK'
    BY <1>1, <2>1, <2>3 DEF IInv, TypeOK
  <2>5. RelayControl' /\ HeldConsecutive' /\ Accounts'
    BY <1>1, <2>1, <2>3
    DEF IInv, RelayControl, NothingHeldAfterReturn, HeldConsecutive, Accounts, Owed
  <2> QED
    BY <2>3, <2>4, <2>5 DEF IInv
<1>3. CASE EmitHeld
  <2> USE <1>3 DEF EmitHeld
  <2>0. log' = log /\ logged' = logged
    OBVIOUS
  <2>1. CASE Len(held) = HeldLines
    <3>1. /\ held' = Append(Tail(held), pumped + 1)
          /\ dropped' = dropped + 1
          /\ Len(held') = Len(held)
          /\ \A i \in 1 .. Len(held) - 1 : held'[i] = held[i + 1]
          /\ held'[Len(held)] = pumped + 1
          /\ held' \in Seq(1 .. MaxLines)
      BY <1>1, <2>1
    <3>2. TypeOK'
      BY <1>1, <2>1, <3>1 DEF IInv, TypeOK
    <3>3. HeldConsecutive'
      <4>1. \A i \in 1 .. Len(held') : held'[i] = logged' + dropped' + i
        <5> HIDE DEF EmitHeld, Emit
        <5> SUFFICES ASSUME NEW i \in 1 .. Len(held)
                     PROVE  held'[i] = logged' + dropped' + i
          BY <3>1
        <5>1. CASE i = Len(held)
          BY <1>1, <2>0, <3>1, <5>1
        <5>2. CASE i # Len(held)
          <6>1. i \in 1 .. Len(held) - 1 /\ i + 1 \in 1 .. Len(held)
            BY <1>1, <5>2
          <6>2. held'[i] = held[i + 1] /\ held[i + 1] = logged + dropped + (i + 1)
            BY <1>a, <3>1, <6>1
          <6>3. i \in Nat /\ logged \in Nat /\ dropped \in Nat
            BY <1>1, <5>2
          <6>4. logged' = logged /\ dropped' = dropped + 1
            BY <2>0, <3>1
          <6>5. logged + dropped + (i + 1) = logged + (dropped + 1) + i
            BY <6>3
          <6> QED
            BY <6>2, <6>4, <6>5
        <5> QED
          BY <5>1, <5>2
      <4> QED
        BY <1>1, <1>b, <3>1, <4>1 DEF HeldConsecutive
    <3>4. Accounts'
      <4> HIDE DEF EmitHeld, Emit
      <4> QED
        BY <1>1, <1>b, <2>0, <3>1 DEF Accounts, Owed
    <3>5. RelayControl' /\ LogChain'
      BY <1>1, <1>b DEF IInv, RelayControl, NothingHeldAfterReturn, LogChain
    <3> QED
      BY <3>2, <3>3, <3>4, <3>5 DEF IInv
  <2>2. CASE Len(held) # HeldLines
    <3>1. /\ held' = Append(held, pumped + 1)
          /\ dropped' = dropped
          /\ Len(held') = Len(held) + 1
          /\ \A i \in 1 .. Len(held) : held'[i] = held[i]
          /\ held'[Len(held) + 1] = pumped + 1
          /\ held' \in Seq(1 .. MaxLines)
      BY <1>1, <2>2
    <3>2. TypeOK'
      BY <1>1, <2>2, <3>1 DEF IInv, TypeOK
    <3>3. HeldConsecutive'
      <4>1. \A i \in 1 .. Len(held') : held'[i] = logged' + dropped' + i
        <5> HIDE DEF EmitHeld, Emit
        <5> SUFFICES ASSUME NEW i \in 1 .. Len(held) + 1
                     PROVE  held'[i] = logged' + dropped' + i
          BY <3>1
        <5>1. CASE i = Len(held) + 1
          BY <1>1, <2>0, <3>1, <5>1
        <5>2. CASE i # Len(held) + 1
          <6>1. i \in 1 .. Len(held)
            BY <1>1, <5>2
          <6> QED
            BY <1>a, <2>0, <3>1, <6>1
        <5> QED
          BY <5>1, <5>2
      <4> QED
        BY <1>1, <1>b, <3>1, <4>1 DEF HeldConsecutive
    <3>4. Accounts'
      <4> HIDE DEF EmitHeld, Emit
      <4> QED
        BY <1>1, <1>b, <2>0, <3>1 DEF Accounts, Owed
    <3>5. RelayControl' /\ LogChain'
      BY <1>1, <1>b DEF IInv, RelayControl, NothingHeldAfterReturn, LogChain
    <3> QED
      BY <3>2, <3>3, <3>4, <3>5 DEF IInv
  <2> QED
    BY <2>1, <2>2
<1> QED
  BY <1>2, <1>3

LEMMA BeginFlushIInv == IInv /\ BeginFlush => IInv'
<1> SUFFICES ASSUME IInv, BeginFlush PROVE IInv'
  OBVIOUS
<1> USE BoundAssumption DEF BeginFlush, TakeLock, pipe, server, logVars
<1>1. /\ phase = "flush" /\ flushed = 0 /\ phase' = "flushing"
      /\ logged \in Nat /\ dropped \in Nat /\ pumped \in Nat /\ Len(held) \in Nat
      /\ logged + Len(held) + dropped = pumped
      /\ pumped <= MaxLines
  BY DEF IInv, TypeOK, RelayControl, Accounts, Owed
<1>2. /\ log' \in Seq(Records)
      /\ logged' = logged + dropped
      /\ LogChain'
  <2>1. CASE dropped > 0
    <3>1. /\ Omitted(dropped, level) \in Records
          /\ Omitted(dropped, level).at = logged
          /\ Omitted(dropped, level).kind = "omitted"
          /\ Omitted(dropped, level).count = dropped
      BY <1>1 DEF Omitted, Records, IInv, TypeOK
    <3> QED
      BY <2>1, <3>1, WriteExtends
  <2>2. CASE dropped = 0
    BY <1>1, <2>2 DEF IInv, TypeOK, LogChain
  <2> QED
    BY <1>1, <2>1, <2>2
<1>3. TypeOK'
  <2>1. logged' \in 0 .. MaxLines /\ phase' \in Phases
    BY <1>1, <1>2 DEF Phases
  <2>2. lockFree' \in BOOLEAN
    OBVIOUS
  <2> QED
    BY <1>2, <2>1, <2>2 DEF IInv, TypeOK
<1>4. HeldConsecutive'
  BY <1>1, <1>2 DEF IInv, HeldConsecutive
<1>5. RelayControl' /\ Accounts'
  BY <1>1, <1>2
  DEF IInv, RelayControl, NothingHeldAfterReturn, Accounts, Owed
<1> QED
  BY <1>2, <1>3, <1>4, <1>5 DEF IInv

LEMMA FlushLineIInv == IInv /\ FlushLine => IInv'
<1> SUFFICES ASSUME IInv, FlushLine PROVE IInv'
  OBVIOUS
<1> USE BoundAssumption DEF FlushLine, pipe, server, relay
<1> DEFINE rec == Line(held[flushed + 1], level)
<1>1. /\ phase = "flushing" /\ flushed \in Nat /\ flushed < Len(held)
      /\ logged \in Nat /\ pumped \in Nat /\ Len(held) \in Nat
      /\ logged + Len(held) - flushed = pumped
      /\ pumped <= MaxLines
      /\ held \in Seq(1 .. MaxLines)
  BY DEF IInv, TypeOK, Accounts, Owed
<1>2. held[flushed + 1] = logged + 1
  BY <1>1 DEF IInv, HeldConsecutive
<1>3. /\ rec \in Records /\ rec.at = logged /\ rec.count = 1
      /\ rec.line = logged + 1
  BY <1>1, <1>2 DEF Line, Records, IInv, TypeOK
<1>4. log' \in Seq(Records) /\ logged' = logged + 1 /\ LogChain'
  BY <1>3, WriteExtends
<1>5. TypeOK'
  BY <1>1, <1>4 DEF IInv, TypeOK
<1>6. HeldConsecutive'
  BY <1>1, <1>4 DEF IInv, HeldConsecutive
<1>7. RelayControl' /\ Accounts'
  BY <1>1, <1>4
  DEF IInv, RelayControl, NothingHeldAfterReturn, Accounts, Owed
<1> QED
  BY <1>4, <1>5, <1>6, <1>7 DEF IInv

LEMMA EndFlushIInv == IInv /\ EndFlush => IInv'
<1> SUFFICES ASSUME IInv, EndFlush PROVE IInv'
  OBVIOUS
<1> USE DEF EndFlush, StopHolding, pipe, server, logVars
<1>1. TypeOK'
  <2>1. /\ held' \in Seq(1 .. MaxLines) /\ Len(held') = 0
        /\ dropped' \in 0 .. MaxLines /\ flushed' \in 0 .. 0
        /\ phase' \in Phases
    BY BoundAssumption DEF Phases
  <2>2. holding' \in BOOLEAN /\ lockFree' \in BOOLEAN
    OBVIOUS
  <2> QED
    BY <2>1, <2>2, BoundAssumption DEF IInv, TypeOK
<1>2. HeldConsecutive' /\ LogChain' /\ RelayControl'
  BY DEF IInv, HeldConsecutive, LogChain, RelayControl, NothingHeldAfterReturn
<1>3. Accounts'
  BY DEF IInv, TypeOK, Accounts, Owed
<1> QED
  BY <1>1, <1>2, <1>3 DEF IInv

LEMMA ReportIInv == IInv /\ Report => IInv'
<1> SUFFICES ASSUME IInv, Report PROVE IInv'
  OBVIOUS
<1> USE BoundAssumption DEF Report, pipe, server, relay, logVars
<1>1. phase = "report" /\ phase' = "returned" /\ logged \in Nat
  BY DEF IInv, TypeOK
<1>2. log' \in Seq(Records) /\ logged' = logged /\ LogChain'
  <2>1. CASE explained
    <3>1. /\ Hint \in Records /\ Hint.at = logged /\ Hint.count = 0
          /\ Hint.kind = "hint"
      BY DEF Hint, Records, IInv, TypeOK
    <3> QED
      BY <1>1, <2>1, <3>1, WriteExtends
  <2>2. CASE ~explained
    BY <2>2 DEF IInv, TypeOK, LogChain
  <2> QED
    BY <2>1, <2>2
<1>3. TypeOK'
  BY <1>1, <1>2 DEF IInv, TypeOK, Phases
<1>4. HeldConsecutive' /\ RelayControl' /\ Accounts'
  BY <1>1, <1>2
  DEF IInv, HeldConsecutive, RelayControl, NothingHeldAfterReturn, Accounts, Owed
<1> QED
  BY <1>2, <1>3, <1>4 DEF IInv

(* Steps that touch neither the relay nor the log keep the invariant when  *)
(* they stay outside a flush.                                              *)
LEMMA OutsideFlushIInv ==
    ASSUME IInv, TypeOK', UNCHANGED <<relay, flushed, log, logged, pumped>>,
           \/ phase' = phase
           \/ /\ phase \in {"spawning", "handshake", "joining", "caught"}
              /\ phase' \in {"handshake", "joining", "caught", "flush", "cancelled"}
           \/ /\ phase \in {"returned", "cleaning"}
              /\ phase' \in {"cleaning", "closed"}
    PROVE  IInv'
  BY DEF IInv, relay, Accounts, Owed, HeldConsecutive, RelayControl,
         NothingHeldAfterReturn, LogChain

LEMMA GotoIInv ==
    ASSUME IInv, NEW next \in Phases, Goto(next),
           \/ /\ phase \in {"joining", "caught"}
              /\ next \in {"caught", "flush", "cancelled"}
           \/ phase = "cleaning" /\ next = "closed"
    PROVE  IInv'
<1>1. TypeOK'
  BY DEF IInv, TypeOK, Goto, pipe, server, relay, logVars
<1> QED
  BY <1>1, OutsideFlushIInv DEF Goto, pipe, server, relay, logVars

LEMMA NextIInv == IInv /\ [Next]_vars => IInv'
<1> SUFFICES ASSUME IInv, [Next]_vars PROVE IInv'
  OBVIOUS
<1> USE DEF pipe, server, relay, logVars, task
<1>1. CASE ServerWrites
  <2>1. TypeOK'
    BY <1>1, BoundAssumption DEF IInv, TypeOK, ServerWrites
  <2> QED
    BY <1>1, <2>1, OutsideFlushIInv DEF ServerWrites
<1>2. CASE ServerEnds
  <2>1. TypeOK'
    BY <1>2 DEF IInv, TypeOK, ServerEnds
  <2> QED
    BY <1>2, <2>1, OutsideFlushIInv DEF ServerEnds
<1>3. CASE Emit
  BY <1>3, EmitIInv
<1>4. CASE PumpEnds
  <2>1. TypeOK'
    BY <1>4 DEF IInv, TypeOK, PumpEnds
  <2> QED
    BY <1>4, <2>1, OutsideFlushIInv DEF PumpEnds
<1>5. CASE Spawn
  <2>1. TypeOK'
    BY <1>5 DEF IInv, TypeOK, Spawn, Phases
  <2> QED
    BY <1>5, <2>1, OutsideFlushIInv DEF Spawn
<1>6. CASE HandshakeSucceeds
  <2>1. TypeOK'
    BY <1>6 DEF IInv, TypeOK, HandshakeSucceeds, Phases, Outcomes
  <2> QED
    BY <1>6, <2>1, OutsideFlushIInv DEF HandshakeSucceeds
<1>7. CASE AttemptFails
  <2>1. TypeOK'
    BY <1>7 DEF IInv, TypeOK, AttemptFails, Phases, Outcomes
  <2> QED
    BY <1>7, <2>1, OutsideFlushIInv DEF AttemptFails
<1>8. CASE Join
  BY <1>8, GotoIInv DEF Join, Phases
<1>9. CASE CatchPlain \/ Reraise
  BY <1>9, GotoIInv DEF CatchPlain, Reraise, Phases
<1>10. CASE Diagnose
  <2>1. TypeOK'
    <3>1. NamesMissingModule \in BOOLEAN
      BY DEF NamesMissingModule, IInv, TypeOK
    <3>2. /\ explained' \in BOOLEAN /\ level' \in {"info", "debug"}
          /\ phase' \in Phases
      BY <1>10, <3>1 DEF Diagnose, HeldLevel, Phases
    <3> QED
      BY <1>10, <3>2 DEF IInv, TypeOK, Diagnose
  <2> QED
    BY <1>10, <2>1, OutsideFlushIInv DEF Diagnose
<1>11. CASE BeginFlush \/ FlushLine \/ EndFlush \/ Report
  BY <1>11, BeginFlushIInv, FlushLineIInv, EndFlushIInv, ReportIInv
<1>12. CASE Cleanup
  <2>1. TypeOK'
    BY <1>12 DEF IInv, TypeOK, Cleanup, Phases
  <2> QED
    BY <1>12, <2>1, OutsideFlushIInv DEF Cleanup
<1>13. CASE UNCHANGED vars
  <2>1. TypeOK'
    BY <1>13 DEF IInv, TypeOK, vars
  <2> QED
    BY <1>13, <2>1, OutsideFlushIInv DEF vars
<1> QED
  BY <1>1, <1>2, <1>3, <1>4, <1>5, <1>6, <1>7, <1>8, <1>9, <1>10, <1>11,
     <1>12, <1>13 DEF Next, TaskStep, Done

LEMMA Invariance == Spec => []IInv
  BY InitIInv, NextIInv, PTL DEF Spec

(* Type correctness; in particular the relay's memory stays bounded.       *)
THEOREM TypeCorrect == Spec => []TypeOK
<1>1. IInv => TypeOK
  BY DEF IInv
<1> QED
  BY <1>1, Invariance, PTL

(* The log shows the server's stderr in order, without loss or repetition, *)
(* for every capacity of the relay and every interleaving of the pump with *)
(* the launching task.                                                     *)
THEOREM OrderKept == Spec => []StderrInOrder
<1>1. IInv => StderrInOrder
  BY DEF IInv, TypeOK, Accounts, LogChain, StderrInOrder
<1> QED
  BY <1>1, Invariance, PTL

(* Nothing is held back once the launch has reported.                      *)
THEOREM HoldingEnds == Spec => []NothingHeldAfterReturn
<1>1. IInv => NothingHeldAfterReturn
  BY DEF IInv, RelayControl
<1> QED
  BY <1>1, Invariance, PTL

----------------------------------------------------------------------------
(* The hint and the traceback it explains.                                 *)

(* Of a Python command nothing is logged before the flush; the line that   *)
(* named the module was pumped before the diagnosis, and all that is held  *)
(* then goes to the debug log.                                             *)
BeforeFlush == {"spawning", "handshake", "joining", "caught", "flush"}

HintControl ==
    /\ python /\ phase \in BeforeFlush => holding /\ log = <<>>
    /\ explained => python /\ level = "debug"
                    /\ phase \in {"flush", "flushing", "report", "returned", "cleaning", "closed"}
    /\ ~explained => \A i \in 1 .. Len(log) : log[i].kind # "hint"

LineNamed(n) ==
    /\ n <= pumped
    /\ \A i \in 1 .. Len(log) :
           /\ log[i].kind = "hint" => n <= log[i].at
           /\ log[i].level = "info" => log[i].line > n

NamingLine == explained => \E n \in importLines : LineNamed(n)

HintInv == HintControl /\ NamingLine

LEMMA InitHintInv == Init => HintInv
  BY DEF Init, HintInv, HintControl, NamingLine, BeforeFlush

(* A record that is written keeps the naming line, if it is none of the    *)
(* lines up to it.                                                         *)
LEMMA WriteKeepsNamed ==
    ASSUME IInv, NEW rec \in Records, Write(rec), NEW n \in Nat, LineNamed(n),
           pumped <= pumped', pumped' \in Nat,
           rec.kind = "hint" => n <= rec.at,
           rec.level = "info" => rec.line > n
    PROVE  LineNamed(n)'
<1>1. /\ log \in Seq(Records)
      /\ log' = Append(log, rec)
      /\ Len(log') = Len(log) + 1
      /\ log'[Len(log) + 1] = rec
      /\ \A i \in 1 .. Len(log) : log'[i] = log[i]
      /\ Len(log) \in Nat /\ pumped \in Nat
  BY BoundAssumption DEF IInv, TypeOK, Write
<1> QED
  BY <1>1 DEF LineNamed

(* The same of a record that is no hint, while nothing was explained.      *)
LEMMA WriteKeepsUnexplained ==
    ASSUME IInv, NEW rec \in Records, Write(rec), rec.kind # "hint",
           \A i \in 1 .. Len(log) : log[i].kind # "hint"
    PROVE  \A i \in 1 .. Len(log') : log'[i].kind # "hint"
<1>1. /\ log \in Seq(Records) /\ Len(log) \in Nat
      /\ log' = Append(log, rec)
  BY DEF IInv, TypeOK, Write
<1> QED
  BY <1>1

LEMMA EmitHintInv == IInv /\ HintInv /\ Emit => HintInv'
<1> SUFFICES ASSUME IInv, HintInv, Emit PROVE HintInv'
  OBVIOUS
<1> USE DEF Emit, server, task, relay, logVars
<1>1. /\ pumped \in Nat /\ pumped + 1 \in 1 .. MaxLines /\ logged \in 0 .. MaxLines
      /\ pumped' = pumped + 1 /\ phase' = phase /\ explained' = explained
      /\ python' = python /\ level' = level /\ importLines' = importLines
      /\ importLines \subseteq Nat
  BY BoundAssumption DEF IInv, TypeOK
<1>2. CASE EmitHeld
  <2>1. log' = log /\ holding' = holding
    BY <1>2 DEF EmitHeld
  <2> HIDE DEF Emit
  <2>2. HintControl'
    BY <1>1, <2>1 DEF HintInv, HintControl
  <2>3. NamingLine'
    <3> SUFFICES ASSUME explained PROVE \E n \in importLines : LineNamed(n)'
      BY <1>1 DEF NamingLine
    <3>1. PICK n \in importLines : LineNamed(n)
      BY DEF HintInv, NamingLine
    <3>2. LineNamed(n)'
      BY <1>1, <2>1, <3>1 DEF LineNamed
    <3> QED
      BY <3>2
  <2> QED
    BY <2>2, <2>3 DEF HintInv
<1>3. CASE EmitLive
  <2> DEFINE rec == Line(pumped + 1, "info")
  <2>1. /\ rec \in Records /\ rec.kind = "line" /\ rec.line = pumped + 1
        /\ Write(rec) /\ ~holding /\ holding' = holding
    BY <1>1, <1>3, BoundAssumption DEF EmitLive, Line, Records
  <2> HIDE DEF Emit, rec
  <2>2. HintControl'
    <3>1. ~(python /\ phase \in BeforeFlush)
      BY <2>1 DEF HintInv, HintControl
    <3>2. ~explained => \A i \in 1 .. Len(log') : log'[i].kind # "hint"
      BY <2>1, WriteKeepsUnexplained DEF HintInv, HintControl
    <3> QED
      BY <1>1, <3>1, <3>2 DEF HintInv, HintControl
  <2>3. NamingLine'
    <3> SUFFICES ASSUME explained PROVE \E n \in importLines : LineNamed(n)'
      BY <1>1 DEF NamingLine
    <3>1. PICK n \in importLines : LineNamed(n)
      BY DEF HintInv, NamingLine
    <3>2. rec.line > n /\ n \in Nat
      BY <1>1, <2>1, <3>1 DEF LineNamed
    <3>3. LineNamed(n)'
      BY <1>1, <2>1, <3>1, <3>2, WriteKeepsNamed
    <3> QED
      BY <3>3
  <2> QED
    BY <2>2, <2>3 DEF HintInv
<1> QED
  BY <1>2, <1>3

LEMMA DiagnoseHintInv == IInv /\ HintInv /\ Diagnose => HintInv'
<1> SUFFICES ASSUME IInv, HintInv, Diagnose PROVE HintInv'
  OBVIOUS
<1> USE DEF pipe, server, relay, logVars
<1>1. /\ phase = "caught" /\ phase' = "flush" /\ explained' = NamesMissingModule
      /\ level' = HeldLevel /\ python' = python /\ holding' = holding
      /\ log' = log /\ importLines' = importLines /\ pumped' = pumped
  BY DEF Diagnose
<1>2. ~explained
  BY <1>1 DEF HintInv, HintControl
<1>3. HintControl'
  BY <1>1, <1>2 DEF HintInv, HintControl, BeforeFlush, NamesMissingModule, HeldLevel
<1>4. NamingLine'
  <2> SUFFICES ASSUME NamesMissingModule PROVE \E n \in importLines : LineNamed(n)'
    BY <1>1 DEF NamingLine
  <2>1. PICK n \in importLines : \E i \in 1 .. Len(held) : held[i] = n
    BY DEF NamesMissingModule
  <2>2. log = <<>>
    BY <1>1 DEF HintInv, HintControl, BeforeFlush, NamesMissingModule
  <2>3. n <= pumped
    <3>1. PICK i \in 1 .. Len(held) : held[i] = n
      BY <2>1
    <3>2. /\ n = logged + dropped + i - flushed /\ flushed = 0
          /\ logged + (Len(held) - flushed + dropped) = pumped
      BY <1>1, <3>1 DEF IInv, HeldConsecutive, RelayControl, Accounts, Owed
    <3>3. logged \in Nat /\ dropped \in Nat /\ Len(held) \in Nat /\ pumped \in Nat
      BY BoundAssumption DEF IInv, TypeOK
    <3> QED
      BY <3>1, <3>2, <3>3
  <2>4. LineNamed(n)'
    BY <1>1, <2>2, <2>3 DEF LineNamed
  <2> QED
    BY <2>1, <2>4
<1> QED
  BY <1>3, <1>4 DEF HintInv

(* What the flush writes is for the debug log once a module was named.     *)
LEMMA FlushHintInv == IInv /\ HintInv /\ (BeginFlush \/ FlushLine) => HintInv'
<1> SUFFICES ASSUME IInv, HintInv, BeginFlush \/ FlushLine PROVE HintInv'
  OBVIOUS
<1> USE DEF BeginFlush, FlushLine, pipe, server, relay, logVars
<1>1. /\ phase' = "flushing" /\ phase \in {"flush", "flushing"}
      /\ explained' = explained /\ level' = level /\ python' = python
      /\ importLines' = importLines /\ pumped' = pumped /\ pumped \in Nat
      /\ importLines \subseteq Nat /\ logged \in 0 .. MaxLines
      /\ holding' = holding
  BY BoundAssumption DEF IInv, TypeOK
<1>2. \/ log' = log
      \/ \E rec \in Records : Write(rec) /\ rec.kind # "hint" /\ rec.level = level
  <2>1. CASE FlushLine
    <3>1. held[flushed + 1] \in 1 .. MaxLines
      <4>1. held \in Seq(1 .. MaxLines) /\ \A i \in 1 .. Len(held) : held[i] \in 1 .. MaxLines
        BY BoundAssumption DEF IInv, TypeOK
      <4>2. flushed + 1 \in 1 .. Len(held)
        BY <2>1 DEF IInv, TypeOK
      <4> QED
        BY <4>1, <4>2
    <3>2. /\ Line(held[flushed + 1], level) \in Records
          /\ Line(held[flushed + 1], level).kind # "hint"
          /\ Line(held[flushed + 1], level).level = level
      BY <1>1, <3>1, BoundAssumption DEF Line, Records, IInv, TypeOK
    <3> QED
      BY <2>1, <3>2
  <2>2. CASE BeginFlush /\ dropped > 0
    <3>1. /\ Omitted(dropped, level) \in Records
          /\ Omitted(dropped, level).kind # "hint"
          /\ Omitted(dropped, level).level = level
      BY <1>1, BoundAssumption DEF Omitted, Records, IInv, TypeOK
    <3> QED
      BY <2>2, <3>1
  <2>3. CASE BeginFlush /\ ~(dropped > 0)
    BY <2>3
  <2> QED
    BY <2>1, <2>2, <2>3
<1> HIDE DEF BeginFlush, FlushLine
<1>3. HintControl'
  <2>1. ~explained => \A i \in 1 .. Len(log') : log'[i].kind # "hint"
    BY <1>2, WriteKeepsUnexplained DEF HintInv, HintControl
  <2> QED
    BY <1>1, <2>1 DEF HintInv, HintControl, BeforeFlush
<1>4. NamingLine'
  <2> SUFFICES ASSUME explained PROVE \E n \in importLines : LineNamed(n)'
    BY <1>1 DEF NamingLine
  <2>1. PICK n \in importLines : LineNamed(n)
    BY DEF HintInv, NamingLine
  <2>2. level = "debug"
    BY DEF HintInv, HintControl
  <2>3. CASE log' = log
    BY <1>1, <2>1, <2>3 DEF LineNamed
  <2>4. ASSUME NEW rec \in Records, Write(rec), rec.kind # "hint", rec.level = level
        PROVE  LineNamed(n)'
    BY <1>1, <2>1, <2>2, <2>4, WriteKeepsNamed
  <2> QED
    BY <1>2, <2>1, <2>3, <2>4
<1> QED
  BY <1>3, <1>4 DEF HintInv

LEMMA ReportHintInv == IInv /\ HintInv /\ Report => HintInv'
<1> SUFFICES ASSUME IInv, HintInv, Report PROVE HintInv'
  OBVIOUS
<1> USE DEF Report, pipe, server, relay, logVars
<1>1. /\ phase = "report" /\ phase' = "returned" /\ explained' = explained
      /\ level' = level /\ python' = python /\ importLines' = importLines
      /\ pumped' = pumped /\ pumped \in Nat /\ importLines \subseteq Nat
      /\ holding' = holding
  BY BoundAssumption DEF IInv, TypeOK
<1>2. CASE ~explained
  <2>1. log' = log
    BY <1>2
  <2> HIDE DEF Report
  <2> QED
    BY <1>1, <1>2, <2>1 DEF HintInv, HintControl, NamingLine, BeforeFlush
<1>3. CASE explained
  <2>1. Hint \in Records /\ Hint.kind = "hint" /\ Hint.at = logged /\ Hint.level # "info"
        /\ Write(Hint)
    BY <1>3, BoundAssumption DEF Hint, Records, IInv, TypeOK
  <2> HIDE DEF Report
  <2>2. logged = pumped
    <3>1. held = <<>> /\ dropped = 0 /\ flushed = 0 /\ logged \in Nat
      BY <1>1, BoundAssumption DEF IInv, TypeOK, RelayControl, NothingHeldAfterReturn
    <3> QED
      BY <1>1, <3>1 DEF IInv, Accounts, Owed
  <2>3. HintControl'
    BY <1>1, <1>3 DEF HintInv, HintControl, BeforeFlush
  <2>4. NamingLine'
    <3>1. PICK n \in importLines : LineNamed(n)
      BY <1>3 DEF HintInv, NamingLine
    <3>2. n <= Hint.at /\ n \in Nat
      BY <1>1, <2>1, <2>2, <3>1 DEF LineNamed
    <3>3. LineNamed(n)'
      BY <1>1, <2>1, <3>1, <3>2, WriteKeepsNamed
    <3> QED
      BY <1>1, <3>3 DEF NamingLine
  <2> QED
    BY <2>3, <2>4 DEF HintInv
<1> QED
  BY <1>2, <1>3

(* The other steps write nothing and explain nothing.                      *)
LEMMA QuietHintInv ==
    ASSUME IInv, HintInv,
           UNCHANGED <<python, importLines, pumped, level, explained, log>>,
           \/ UNCHANGED <<phase, holding>>
           \/ /\ phase \in {"spawning", "handshake", "joining"} /\ phase' \in BeforeFlush
              /\ UNCHANGED holding /\ ~explained
           \/ /\ phase = "caught" /\ phase' \in {"flush", "cancelled"} /\ UNCHANGED holding
           \/ /\ phase \in {"flushing", "returned", "cleaning"}
              /\ phase' \in {"report", "cleaning", "closed"}
    PROVE  HintInv'
<1>1. HintControl'
  BY DEF HintInv, HintControl, BeforeFlush
<1>2. NamingLine'
  <2> SUFFICES ASSUME explained PROVE \E n \in importLines : LineNamed(n)'
    BY DEF NamingLine
  <2>1. PICK n \in importLines : LineNamed(n)
    BY DEF HintInv, NamingLine
  <2> QED
    BY <2>1 DEF LineNamed
<1> QED
  BY <1>1, <1>2 DEF HintInv

LEMMA NextHintInv == IInv /\ HintInv /\ [Next]_vars => HintInv'
<1> SUFFICES ASSUME IInv, HintInv, [Next]_vars PROVE HintInv'
  OBVIOUS
<1>0. explained => phase \notin {"spawning", "handshake", "joining", "caught"}
  BY DEF HintInv, HintControl
<1> USE DEF pipe, server, relay, logVars, task, BeforeFlush
<1>1. CASE ServerWrites \/ ServerEnds \/ PumpEnds
  BY <1>1, QuietHintInv DEF ServerWrites, ServerEnds, PumpEnds
<1>2. CASE Emit
  BY <1>2, EmitHintInv
<1>3. CASE Spawn \/ AttemptFails
  BY <1>0, <1>3, QuietHintInv DEF Spawn, AttemptFails
<1>4. CASE HandshakeSucceeds
  BY <1>0, <1>4, QuietHintInv DEF HandshakeSucceeds
<1>5. CASE Join
  BY <1>0, <1>5, QuietHintInv DEF Join, Goto
<1>6. CASE CatchPlain \/ Reraise
  BY <1>6, QuietHintInv DEF CatchPlain, Reraise, Goto
<1>7. CASE Diagnose
  BY <1>7, DiagnoseHintInv
<1>8. CASE BeginFlush \/ FlushLine
  BY <1>8, FlushHintInv
<1>9. CASE EndFlush
  BY <1>9, QuietHintInv DEF EndFlush
<1>10. CASE Report
  BY <1>10, ReportHintInv
<1>11. CASE Cleanup
  BY <1>11, QuietHintInv DEF Cleanup
<1>12. CASE UNCHANGED vars
  BY <1>12, QuietHintInv DEF vars
<1> QED
  BY <1>1, <1>2, <1>3, <1>4, <1>5, <1>6, <1>7, <1>8, <1>9, <1>10, <1>11, <1>12
  DEF Next, TaskStep, Done

(* What explains a launch that failed is not preceded by the traceback it  *)
(* explains, however many lines the pump adds between diagnosis and flush, *)
(* and even if they push the naming line out of what is held.              *)
THEOREM HintFirst == Spec => []TracebackNotBeforeHint
<1>1. IInv /\ HintInv => TracebackNotBeforeHint
  <2> SUFFICES ASSUME IInv, HintInv, NEW h \in 1 .. Len(log), log[h].kind = "hint"
               PROVE  \E n \in importLines :
                          /\ n <= log[h].at
                          /\ \A i \in 1 .. h : log[i].level = "info" => log[i].line > n
    BY DEF TracebackNotBeforeHint
  <2>1. PICK n \in importLines : LineNamed(n)
    BY DEF HintInv, HintControl, NamingLine
  <2>2. \A i \in 1 .. h : i \in 1 .. Len(log)
    BY DEF IInv, TypeOK
  <2> QED
    BY <2>1, <2>2 DEF LineNamed
<1> QED
  BY <1>1, Invariance, InitHintInv, NextHintInv, PTL DEF Spec

============================================================================
