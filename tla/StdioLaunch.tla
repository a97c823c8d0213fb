---------------------------- MODULE StdioLaunch ----------------------------
(***************************************************************************)
(* Launching a local server over stdio: MCPClient._launch_stdio and the    *)
(* ServerStderrRelay that carries the server's stderr into the log.  Three *)
(* actors run concurrently: the server (and any child that inherited its   *)
(* stderr), the relay's pump thread, and the task that performs the        *)
(* handshake, holds the lines of a .py server back until it knows how the  *)
(* launch ended, and then releases or discards them.                       *)
(*                                                                         *)
(* Abstractions: a stderr line is its number; importLines are those that   *)
(* match _MISSING_MODULE; a log record is a line, a count of omitted       *)
(* lines, or the hint that names the missing dependency.  `logged' counts  *)
(* the lines the log accounts for; it and the field `at' of a record are   *)
(* history the code does not keep.                                         *)
(*                                                                         *)
(* A definition whose name ends in _<Fault> is a faulty variant of the one *)
(* that follows it, kept to show that the properties notice the fault.     *)
(***************************************************************************)
EXTENDS Naturals, Sequences

CONSTANTS
    HeldLines,    \* SERVER_STDERR_HELD_LINES
    MaxLines      \* model bound: lines the server writes

ASSUME BoundAssumption == HeldLines \in Nat \ {0} /\ MaxLines \in Nat

VARIABLES
    python,       \* the target is a .py script mcpscore picked the interpreter for
    importLines,  \* the lines that name a missing module
    written,      \* lines written to the pipe
    serverOpen,   \* some process still has the pipe's write end
    errlogOpen,   \* this process still has it
    pumped,       \* lines the pump has taken out of the pipe
    pumpDone,     \* the pump thread has ended
    holding, held, dropped, lockFree,      \* the relay
    phase,        \* where the launching task stands
    outcome,      \* how the handshake ended
    level,        \* the level _flush logs at
    flushed,      \* held lines the running _flush has logged
    explained,    \* the failure was explained by a missing module
    log,          \* what was logged
    logged        \* history: lines the log accounts for

server == <<python, importLines, written, serverOpen>>
pipe == <<server, errlogOpen, pumped, pumpDone>>
relay == <<holding, held, dropped, lockFree>>
task == <<phase, outcome, level, flushed, explained>>
logVars == <<log, logged>>
vars == <<pipe, relay, task, logVars>>

Line(n, lv) == [kind |-> "line", line |-> n, level |-> lv, count |-> 1, at |-> logged]
Omitted(n, lv) == [kind |-> "omitted", line |-> 0, level |-> lv, count |-> n, at |-> logged]
Hint == [kind |-> "hint", line |-> 0, level |-> "error", count |-> 0, at |-> logged]

Write(record) ==
    /\ log' = Append(log, record)
    /\ logged' = logged + record.count

SpawnFailures == {"file_not_found", "permission", "exec_format"}
HandshakeFailures == {"timeout", "leaked_cancel", "cancelled", "exception"}

Init ==
    /\ python \in BOOLEAN
    /\ importLines \in SUBSET (1 .. MaxLines)
    /\ written = 0 /\ serverOpen = FALSE /\ errlogOpen = TRUE
    /\ pumped = 0 /\ pumpDone = FALSE
    /\ holding = python /\ held = <<>> /\ dropped = 0 /\ lockFree = TRUE
    /\ phase = "spawning" /\ outcome = "none" /\ level = "info" /\ flushed = 0
    /\ explained = FALSE
    /\ log = <<>> /\ logged = 0

----------------------------------------------------------------------------
(* The server process and its children.                                    *)
ServerWrites ==
    /\ serverOpen
    /\ written < MaxLines
    /\ written' = written + 1
    /\ UNCHANGED <<python, importLines, serverOpen, errlogOpen, pumped, pumpDone,
                   relay, task, logVars>>

ServerEnds ==
    /\ serverOpen
    /\ serverOpen' = FALSE
    /\ UNCHANGED <<python, importLines, written, errlogOpen, pumped, pumpDone,
                   relay, task, logVars>>

----------------------------------------------------------------------------
(* _pump: _emit, under the lock, for every line; EOF once both ends close. *)
EmitLive ==
    /\ ~holding
    /\ Write(Line(pumped + 1, "info"))
    /\ UNCHANGED relay

EmitHeld_Unbounded ==
    /\ holding
    /\ held' = Append(held, pumped + 1)
    /\ UNCHANGED <<dropped, holding, lockFree, logVars>>

EmitHeld_Uncounted ==
    /\ holding
    /\ held' = Append(IF Len(held) = HeldLines THEN Tail(held) ELSE held, pumped + 1)
    /\ UNCHANGED <<dropped, holding, lockFree, logVars>>

EmitHeld ==
    /\ holding
    /\ held' = Append(IF Len(held) = HeldLines THEN Tail(held) ELSE held, pumped + 1)
    /\ dropped' = IF Len(held) = HeldLines THEN dropped + 1 ELSE dropped
    /\ UNCHANGED <<holding, lockFree, logVars>>

Emit ==
    /\ lockFree
    /\ pumped < written
    /\ pumped' = pumped + 1
    /\ EmitLive \/ EmitHeld
    /\ UNCHANGED <<server, errlogOpen, pumpDone, task>>

PumpEnds ==
    /\ ~pumpDone
    /\ pumped = written /\ ~serverOpen /\ ~errlogOpen
    /\ pumpDone' = TRUE
    /\ UNCHANGED <<server, errlogOpen, pumped, relay, task, logVars>>

----------------------------------------------------------------------------
(* _establish_session over relayed_stdio_client.                           *)
Goto(next) ==
    /\ phase' = next
    /\ UNCHANGED <<pipe, relay, outcome, level, flushed, explained, logVars>>

Spawn ==
    /\ phase = "spawning"
    /\ phase' = "handshake"
    /\ serverOpen' = TRUE
    /\ UNCHANGED <<python, importLines, written, errlogOpen, pumped, pumpDone,
                   relay, outcome, level, flushed, explained, logVars>>

HandshakeSucceeds ==
    /\ phase = "handshake"
    /\ outcome' = "ok"
    /\ phase' = "flush"
    /\ UNCHANGED <<pipe, relay, level, flushed, explained, logVars>>

(* A failed attempt is torn down first: aclose() closes this side and      *)
(* joins the pump.                                                         *)
AttemptFails ==
    /\ \/ phase = "spawning" /\ outcome' \in SpawnFailures
       \/ phase = "handshake" /\ outcome' \in HandshakeFailures
    /\ phase' = "joining"
    /\ errlogOpen' = FALSE
    /\ UNCHANGED <<server, pumped, pumpDone, relay, level, flushed, explained, logVars>>

(* The join returns when the pump has ended, or after JOIN_TIMEOUT_S.      *)
Join_WaitsForever ==
    /\ phase \in {"joining", "cleaning"}
    /\ pumpDone
    /\ Goto(IF phase = "joining" THEN "caught" ELSE "closed")

Join ==
    /\ phase \in {"joining", "cleaning"}
    /\ Goto(IF phase = "joining" THEN "caught" ELSE "closed")

----------------------------------------------------------------------------
(* The except branches of _launch_stdio.                                   *)
NeverDiagnosed == {"file_not_found", "permission", "timeout"}

CatchPlain ==
    /\ phase = "caught"
    /\ outcome \in NeverDiagnosed
    /\ Goto("flush")

(* This task itself is being cancelled: _reraise_if_cancelled.             *)
Reraise ==
    /\ phase = "caught"
    /\ outcome = "cancelled"
    /\ Goto("cancelled")

(* missing_module reads the held lines under the lock; what it finds sends *)
(* them to the debug log.                                                  *)
NamesMissingModule == python /\ \E i \in 1 .. Len(held) : held[i] \in importLines

HeldLevel_Info == "info"

HeldLevel == IF NamesMissingModule THEN "debug" ELSE "info"

Diagnose ==
    /\ phase = "caught"
    /\ outcome \notin NeverDiagnosed \cup {"cancelled"}
    /\ lockFree
    /\ explained' = NamesMissingModule
    /\ level' = HeldLevel
    /\ phase' = "flush"
    /\ UNCHANGED <<pipe, relay, outcome, flushed, logVars>>

----------------------------------------------------------------------------
(* _flush, line by line, with the lock held.                               *)
TakeLock_Not == UNCHANGED lockFree

TakeLock == lockFree /\ lockFree' = FALSE

BeginFlush ==
    /\ phase = "flush"
    /\ TakeLock
    /\ phase' = "flushing"
    /\ IF dropped > 0 THEN Write(Omitted(dropped, level)) ELSE UNCHANGED logVars
    /\ UNCHANGED <<pipe, holding, held, dropped, outcome, level, flushed, explained>>

FlushLine ==
    /\ phase = "flushing"
    /\ flushed < Len(held)
    /\ Write(Line(held[flushed + 1], level))
    /\ flushed' = flushed + 1
    /\ UNCHANGED <<pipe, relay, phase, outcome, level, explained>>

StopHolding_ClearsOnly ==
    held' = <<>> /\ dropped' = 0 /\ lockFree' = TRUE /\ UNCHANGED holding

StopHolding ==
    held' = <<>> /\ dropped' = 0 /\ lockFree' = TRUE /\ holding' = FALSE

EndFlush ==
    /\ phase = "flushing"
    /\ flushed = Len(held)
    /\ StopHolding
    /\ flushed' = 0
    /\ phase' = "report"
    /\ UNCHANGED <<pipe, outcome, level, explained, logVars>>

(* The branch logs its own message and returns.                            *)
Report ==
    /\ phase = "report"
    /\ phase' = "returned"
    /\ IF explained THEN Write(Hint) ELSE UNCHANGED logVars
    /\ UNCHANGED <<pipe, relay, outcome, level, flushed, explained>>

(* MCPClient.cleanup, when a session was established.                      *)
Cleanup ==
    /\ phase = "returned"
    /\ outcome = "ok"
    /\ phase' = "cleaning"
    /\ errlogOpen' = FALSE
    /\ UNCHANGED <<server, pumped, pumpDone, relay, outcome, level, flushed,
                   explained, logVars>>

Over == \/ phase \in {"closed", "cancelled"}
        \/ phase = "returned" /\ outcome # "ok"

Done == Over /\ UNCHANGED vars

TaskStep ==
    \/ Spawn \/ HandshakeSucceeds \/ AttemptFails
    \/ Join
    \/ CatchPlain \/ Reraise \/ Diagnose
    \/ BeginFlush \/ FlushLine \/ EndFlush \/ Report

Next == ServerWrites \/ ServerEnds \/ Emit \/ PumpEnds \/ TaskStep \/ Cleanup \/ Done

Spec == Init /\ [][Next]_vars

(* The event loop runs the launching task, and the handshake and the join  *)
(* have timeouts.  Nothing is assumed of the server or of the pump.        *)
FairSpec == Spec /\ WF_vars(TaskStep)

----------------------------------------------------------------------------
Records ==
    [kind : {"line", "omitted", "hint"}, line : 0 .. MaxLines,
     level : {"info", "debug", "error"}, count : 0 .. MaxLines, at : 0 .. MaxLines]

Phases == {"spawning", "handshake", "joining", "caught", "flush", "flushing",
           "report", "returned", "cleaning", "closed", "cancelled"}

Outcomes == {"none", "ok"} \cup SpawnFailures \cup HandshakeFailures

(* Every variable stays in its range; in particular the relay never holds  *)
(* more than SERVER_STDERR_HELD_LINES lines.                               *)
TypeOK ==
    /\ python \in BOOLEAN
    /\ importLines \subseteq 1 .. MaxLines
    /\ written \in 0 .. MaxLines
    /\ serverOpen \in BOOLEAN /\ errlogOpen \in BOOLEAN /\ pumpDone \in BOOLEAN
    /\ pumped \in 0 .. written
    /\ holding \in BOOLEAN /\ lockFree \in BOOLEAN /\ explained \in BOOLEAN
    /\ held \in Seq(1 .. MaxLines) /\ Len(held) <= HeldLines
    /\ dropped \in 0 .. MaxLines
    /\ phase \in Phases
    /\ outcome \in Outcomes
    /\ level \in {"info", "debug"}
    /\ flushed \in 0 .. Len(held)
    /\ log \in Seq(Records)
    /\ logged \in 0 .. MaxLines

(* Lines the relay still owes the log; _flush logs the omitted count first *)
(* and clears it last.                                                     *)
Owed == Len(held) - flushed + (IF phase = "flushing" THEN 0 ELSE dropped)

(* However the pump, the handshake and the flush interleave, the log shows *)
(* the server's stderr in the order it was written: a line is never lost,  *)
(* repeated or overtaken by a later one, and a gap is announced by a       *)
(* record with its exact length; and the relay holds no more than its      *)
(* bound, of any stderr.                                                   *)
StderrInOrder ==
    /\ Len(held) <= HeldLines
    /\ logged + Owed = pumped
    /\ IF log = <<>> THEN logged = 0 ELSE log[1].at = 0
    /\ \A i \in 1 .. Len(log) :
           /\ log[i].kind = "line" => log[i].line = log[i].at + 1
           /\ log[i].at + log[i].count =
                  IF i = Len(log) THEN logged ELSE log[i + 1].at

(* A launch failure explained by a missing module is not preceded by the   *)
(* traceback it explains (docstring of ServerStderrRelay): before the hint *)
(* the user sees no stderr line up to the one that named the module.  The  *)
(* pump may outlive the join, so later lines may come between discard and  *)
(* hint, and may push the naming line itself out of the held ones.         *)
TracebackNotBeforeHint ==
    \A h \in 1 .. Len(log) : log[h].kind = "hint" =>
        \E n \in importLines :
            /\ n <= log[h].at
            /\ \A i \in 1 .. h : log[i].level = "info" => log[i].line > n

(* A launch that returned holds nothing back any more: later stderr, such  *)
(* as a prompt the server waits on, reaches the log as it arrives.         *)
NothingHeldAfterReturn ==
    phase \in {"report", "returned", "cleaning", "closed"} =>
        held = <<>> /\ dropped = 0 /\ ~holding /\ lockFree

(* The launch ends even if a child of the server keeps the stderr pipe     *)
(* open for ever and the pump never sees its end.                          *)
LaunchEnds == <>(phase \in {"returned", "cleaning", "closed", "cancelled"})

============================================================================
