---------------------------- MODULE NetworkBoundary ----------------------------
(***************************************************************************)
(* The network boundary check of smoke_network.py: a tool under test is    *)
(* asked for one denied destination after another, local listeners log     *)
(* every connection they accept, and the check decides from their logs.    *)
(*                                                                         *)
(* Three kinds of process interleave: the server under test, which may     *)
(* connect to any listener whenever it likes, also between two calls and   *)
(* in the background of one that timed out; the accept and handler threads *)
(* of each listener; and the task that makes the calls, settles the        *)
(* listeners and reads their logs one after the other.  An action of the   *)
(* task is what it does under one lock, or between two awaits.             *)
(*                                                                         *)
(* A component: SmokePhase starts it, joins its calls to the session, and  *)
(* takes the steps Task of the check beside Surroundings.                  *)
(*                                                                         *)
(* Abstractions.  Window 0 is the positive control, window i the i-th      *)
(* vector, the last one the late check.  A log entry is the connection it  *)
(* stands for; the one wording that decides anything is whether a handler  *)
(* has named it a request for /control yet.                                *)
(*                                                                         *)
(* A definition whose name ends in _<Fault> is a faulty variant of the one *)
(* that follows it, kept to show that the properties notice the fault.     *)
(***************************************************************************)
EXTENDS Naturals, Sequences, FiniteSets, SequencesExt

CONSTANTS
    Denied,          \* the denied listeners, in order
    Vectors,         \* for each vector, whether it can run on this machine
    MaxConnections   \* bound: connections the server makes

Order == <<"allowed">> \o Denied
Listeners == ToSet(Order)

Control == 0
Late == Len(Vectors) + 1

VARIABLES
    backlog,   \* completed connections no listener has accepted yet
    log,       \* each listener's requests
    named,     \* connections the handler has named a request for /control
    made,      \* number of connections the server has made
    policy,    \* the declared policy
    step,      \* where the task stands
    at,        \* the window it is in
    left,      \* listeners still to mark, settle or read in this step
    before,    \* allowed requests there were when the control began
    cursor,    \* the task's position in each log
    taken,     \* history: what was read of each log, window after window
    reached,   \* connections read in this window that count
    outcome,   \* the outcome of the call of this window
    timedOut,  \* windows in which a listener did not settle in time
    results    \* the results reported, in order

netVars == <<backlog, log, named, made>>
taskVars == <<policy, step, at, left, before, cursor, taken, reached, outcome,
              timedOut, results>>
vars == <<netVars, taskVars>>

Policies == {"allowlist", "deny-private"}

(* The ways a tools/call ends: with a result or a rejection, which judge   *)
(* the boundary alike, with an answer that is neither, or without one.     *)
Outcomes == {"judged", "malformed", "unanswered"}
Answered(o) == o \in {"judged", "malformed"}
Unjudged(o) == o \in {"malformed", "unanswered"}

Init ==
    /\ backlog = [l \in Listeners |-> <<>>]
    /\ log = [l \in Listeners |-> <<>>]
    /\ named = {} /\ made = 0
    /\ policy \in Policies
    /\ step = "look" /\ at = Control /\ left = Order
    /\ before = 0
    /\ cursor = [l \in Listeners |-> 0]
    /\ taken = [l \in Listeners |-> <<>>]
    /\ reached = <<>> /\ outcome = "none" /\ timedOut = {} /\ results = <<>>

----------------------------------------------------------------------------
(* The server under test.  The connection remembers what the check was     *)
(* doing when it was made; path tells a fetch of /control from others.     *)
(* What the server does once the check is over concerns it no more.        *)
During ==
    CASE step \in {"look", "mark"} -> "start"
      [] step \in {"call", "grace"} -> step
      [] OTHER -> "between"

Connect(l) ==
    /\ made < MaxConnections
    /\ step # "done"
    /\ made' = made + 1
    /\ \E path \in IF l = "allowed" THEN {"/control", "other"} ELSE {"other"} :
           backlog' = [backlog EXCEPT ![l] =
               Append(@, [id |-> made', path |-> path, at |-> at, during |-> During])]
    /\ UNCHANGED <<log, named, taskVars>>

(* get_request: the accept thread takes a connection and logs it, in one   *)
(* step under the lock.                                                    *)
Accept(l) ==
    /\ backlog[l] # <<>>
    /\ backlog' = [backlog EXCEPT ![l] = Tail(@)]
    /\ log' = [log EXCEPT ![l] = Append(@, Head(backlog[l]))]
    /\ UNCHANGED <<named, made, taskVars>>

(* describe, from the handler thread of a connection to /control.          *)
Describe ==
    /\ \E c \in ToSet(log["allowed"]) :
           /\ c.path = "/control" /\ c.id \notin named
           /\ named' = named \cup {c.id}
    /\ UNCHANGED <<backlog, log, made, taskVars>>

----------------------------------------------------------------------------
(* Whether a connection to l is one the policy denies.                     *)
Counts_DeniedOnly(l) == l # "allowed"

Counts(l) == l # "allowed" \/ policy = "deny-private"

(* read_from: the entries after a position and the position after them.    *)
ReadFrom_CountsTheSlice(l, from) ==
    [entries |-> SubSeq(log[l], from + 1, Len(log[l])), end |-> Len(log[l]) - from]

ReadFrom(l, from) ==
    [entries |-> SubSeq(log[l], from + 1, Len(log[l])), end |-> Len(log[l])]

(* The results count their tool as called by the outcome of their call, or *)
(* by that of the control: of every vector that follows one that was       *)
(* answered, and of those that a failed one skips, by their outcome.       *)
ControlSeen(window) == policy = "allowlist" /\ window \in DOMAIN Vectors

Result(window, verdict) ==
    [window |-> window, verdict |-> verdict, reached |-> reached, outcome |-> outcome,
     control |-> ControlSeen(window)]

Skip(window, o, seen) ==
    [window |-> window, verdict |-> "SKIP", reached |-> <<>>, outcome |-> o, control |-> seen]

(* A tool the server does not list is not called, and nothing is checked.  *)
LookUpTool ==
    /\ step = "look"
    /\ \/ step' = "mark" /\ UNCHANGED results
       \/ /\ step' = "done"
          /\ results' = <<Skip(Control, "none", FALSE)>>
    /\ UNCHANGED <<netVars, policy, at, left, before, cursor, taken, reached, outcome,
                   timedOut>>

(* mark, one listener at a time; then the control, or the first vector.    *)
Mark ==
    /\ step = "mark"
    /\ cursor' = [cursor EXCEPT ![Head(left)] = Len(log[Head(left)])]
    /\ left' = Tail(left)
    /\ step' = IF left' # <<>> THEN step ELSE IF policy = "allowlist" THEN "begin" ELSE "next"
    /\ UNCHANGED <<netVars, policy, at, before, taken, reached, outcome, timedOut, results>>

(* _control, up to its call.                                               *)
BeginControl ==
    /\ step = "begin"
    /\ before' = Len(log["allowed"])
    /\ step' = "call"
    /\ UNCHANGED <<netVars, policy, at, left, cursor, taken, reached, outcome,
                   timedOut, results>>

(* The next vector: skipped where it cannot run here; the late check       *)
(* follows the last.                                                       *)
NextVector ==
    /\ step = "next"
    /\ at' = at + 1
    /\ reached' = <<>> /\ outcome' = "none"
    /\ IF at' = Late THEN step' = "grace" /\ UNCHANGED results
       ELSE IF Vectors[at'] THEN step' = "call" /\ UNCHANGED results
       ELSE /\ results' = Append(results, Skip(at', "none", ControlSeen(at')))
            /\ UNCHANGED step
    /\ UNCHANGED <<netVars, policy, left, before, cursor, taken, timedOut>>

(* call_tool_raw, which ends by its own timeout at the latest.             *)
Call ==
    /\ step = "call"
    /\ outcome' \in Outcomes
    /\ step' = "settle" /\ left' = Order
    /\ UNCHANGED <<netVars, policy, at, before, cursor, taken, reached, timedOut, results>>

(* _late_requests: the grace period.                                       *)
Grace ==
    /\ step = "grace"
    /\ step' = "settle" /\ left' = Order
    /\ UNCHANGED <<netVars, policy, at, before, cursor, taken, reached, outcome,
                   timedOut, results>>

(* After settling: _control decides before the logs are read.              *)
SettledAll ==
    /\ left' = IF Len(left) > 1 THEN Tail(left) ELSE Order
    /\ step' = IF Len(left) > 1 THEN step
               ELSE IF at = Control THEN "control" ELSE "read"

(* settle: no connection waits for l, or its time is up.                   *)
Settled(l) == backlog[l] = <<>>

GivesUp_Never(l) == FALSE

GivesUp(l) == ~Settled(l)

Settle ==
    /\ step = "settle"
    /\ Settled(Head(left))
    /\ SettledAll
    /\ UNCHANGED <<netVars, policy, at, before, cursor, taken, reached, outcome,
                   timedOut, results>>

SettleTimesOut ==
    /\ step = "settle"
    /\ GivesUp(Head(left))
    /\ timedOut' = timedOut \cup {at}
    /\ SettledAll
    /\ UNCHANGED <<netVars, policy, at, before, cursor, taken, reached, outcome, results>>

(* Whether the control reached the allowed origin.                         *)
ControlReached ==
    \E i \in before + 1 .. Len(log["allowed"]) : log["allowed"][i].id \in named

JudgeControl ==
    /\ step = "control"
    /\ step' = IF ControlReached /\ Answered(outcome) THEN "read" ELSE "read_failed"
    /\ UNCHANGED <<netVars, policy, at, left, before, cursor, taken, reached, outcome,
                   timedOut, results>>

(* reached_since, one listener at a time.                                  *)
Read ==
    /\ step \in {"read", "read_failed"}
    /\ left # <<>>
    /\ LET l == Head(left)
           window == ReadFrom(l, cursor[l])
       IN  /\ cursor' = [cursor EXCEPT ![l] = window.end]
           /\ taken' = [taken EXCEPT ![l] = @ \o window.entries]
           /\ reached' = IF Counts(l) THEN reached \o window.entries ELSE reached
    /\ left' = Tail(left)
    /\ UNCHANGED <<netVars, policy, step, at, before, outcome, timedOut, results>>

(* A control that failed skips every vector, and goes on to the late check *)
SkippedVectors == [i \in DOMAIN Vectors |-> Skip(i, outcome, FALSE)]

Fails == IF reached = <<>> THEN <<>> ELSE <<Result(at, "FAIL")>>

ReportControl ==
    /\ at = Control /\ left = <<>>
    /\ \/ step = "read" /\ step' = "next" /\ results' = results \o Fails
          /\ UNCHANGED <<at, reached, outcome>>
       \/ step = "read_failed" /\ step' = "grace"
          /\ results' = results \o Fails \o SkippedVectors
          /\ at' = Late /\ reached' = <<>> /\ outcome' = "none"
    /\ UNCHANGED <<netVars, policy, left, before, cursor, taken, timedOut>>

Verdict_PassesRefusals ==
    IF reached # <<>> THEN "FAIL"
    ELSE IF Unjudged(outcome) THEN "SKIP"
    ELSE "PASS"

Verdict ==
    IF reached # <<>> THEN "FAIL"
    ELSE IF Unjudged(outcome) \/ policy = "deny-private" THEN "SKIP"
    ELSE "PASS"

ReportVector ==
    /\ step = "read" /\ at \in DOMAIN Vectors /\ left = <<>>
    /\ results' = Append(results, Result(at, Verdict))
    /\ step' = "next"
    /\ UNCHANGED <<netVars, policy, at, left, before, cursor, taken, reached, outcome,
                   timedOut>>

ReportLate ==
    /\ step = "read" /\ at = Late /\ left = <<>>
    /\ results' = results \o Fails
    /\ step' = "done"
    /\ UNCHANGED <<netVars, policy, at, left, before, cursor, taken, reached, outcome,
                   timedOut>>

Task ==
    \/ LookUpTool \/ Mark \/ BeginControl \/ NextVector \/ Call \/ Grace
    \/ Settle \/ SettleTimesOut \/ JudgeControl \/ Read
    \/ ReportControl \/ ReportVector \/ ReportLate

(* The server under test, and the threads of its listeners.                *)
Surroundings ==
    \/ \E l \in Listeners : Connect(l) \/ Accept(l)
    \/ Describe

----------------------------------------------------------------------------
(* The windows read of a log follow each other without a gap or an         *)
(* overlap, whenever its connections came: laid end to end they are the    *)
(* log up to the cursor, but for what preceded the first mark.             *)
OneWindowEach ==
    \A l \in Listeners :
        \E first \in 0 .. cursor[l] : taken[l] = SubSeq(log[l], first + 1, cursor[l])

Reported == UNION { ToSet(r.reached) : r \in { x \in ToSet(results) : x.verdict = "FAIL" } }

(* What the server made to a destination its policy denies: the denied     *)
(* listeners, and the allowed one too where every loopback is denied.      *)
Contacts ==
    LET denied == IF policy = "allowlist" THEN ToSet(Denied) ELSE Listeners
    IN  UNION { ToSet(backlog[l] \o log[l]) : l \in denied }

(* A vector passes only where a refusal means something: the allowed       *)
(* origin could be reached, the call was judged, and every denied          *)
(* connection made before its call returned is reported as the failure of  *)
(* an earlier window, unless a listener did not settle.                    *)
PassIsEarned ==
    \A r \in ToSet(results) : r.verdict = "PASS" =>
        /\ policy = "allowlist"
        /\ \E c \in ToSet(log["allowed"]) : c.path = "/control" /\ c.id \in named
        /\ r.outcome = "judged"
        /\ r.window \notin timedOut =>
               \A c \in Contacts :
                   (\/ c.at < r.window /\ c.during # "start"
                    \/ c.at = r.window /\ c.during = "call")
                   => c \in Reported

(* Nothing the server did is lost: once the check is over, a connection    *)
(* the policy denies, made by any call or after it and before the grace    *)
(* period ended, is in a failed result, also where the control failed and  *)
(* also where it fell between two windows.                                 *)
NoContactMissed ==
    step = "done" =>
        \A c \in Contacts :
            (c.during # "start" /\ (c.at < Late \/ c.during = "grace") /\ Late \notin timedOut)
            => c \in Reported

================================================================================
