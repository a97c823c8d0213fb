----------------------------- MODULE StdioProbing -----------------------------
(***************************************************************************)
(* run_stdio_probes of probes.py, beside the HTTP probes of Probing: all   *)
(* the probes that do not need HTTP, one after the other, over the pipes   *)
(* of one launched process, and a second process to compare catalogues     *)
(* with.  The probes share the pipe, so that here their order matters: an  *)
(* answer that comes after its request has timed out is read by a later    *)
(* probe, which skips it unless its id is the one it waits for             *)
(* (_StdioTarget._exchange).                                               *)
(*                                                                         *)
(* Abstractions.  The second process answers at once; the probes that do   *)
(* not gate, page or compare are represented by "removedMethod", and the   *)
(* three comparisons by that of the tools.                                 *)
(***************************************************************************)
EXTENDS Probing

CONSTANTS
    StdioQueues,        \* the sequences of probes to consider over stdio
    PageSpan,           \* PAGINATION_PROBE_MAX_PAGES where it spaces the ids of requests
    MaxLate             \* bound: answers that are due, or not read, at any one time

VARIABLES
    transport,          \* "http", or "stdio"
    require,            \* require_modern_support
    conduct,            \* of the server: "right" if it answers each request as it should and
                        \* has none of its own, or else "wrong", or "asked" once it had one
    process,            \* of the first process: "none", "running" or "dead"
    waiting,            \* the id that the current probe waits for, or NoId
    pending,            \* requests the server has not answered
    pipe                \* its answers that are not read yet, in order

stdioVars == <<transport, require, conduct, process, waiting, pending, pipe>>
vars == <<queue, log, live, results, seen, stdioVars>>

NoId == 0

\* GATEWAY_PROBE_IDS, then the rest of STDIO_PROBE_IDS, then the comparison.
GatewayOrder == <<"discover", "list">>
StdioOrder   == GatewayOrder \o <<"removedMethod", "pagination", "comparison">>

Turn(id)     == CHOOSE n \in DOMAIN StdioOrder : StdioOrder[n] = id

\* The queues keep the order of the ids.  The tools are the first surface of a walk (1475),
\* and the spacing of its pages (100) leaves those of the tools below 2200, where the
\* comparison begins.
ASSUME StdioAssumption ==
  /\ \A q \in StdioQueues :
       /\ q \in Seq(ToSet(StdioOrder)) \ {<<>>}
       /\ \A i, j \in DOMAIN q : i < j => Turn(q[i]) < Turn(q[j])
       /\ "discover" \in ToSet(q) <=> "list" \in ToSet(q)
  /\ PageSpan \in 1..300 /\ MaxPages \in 1..PageSpan /\ MaxLate \in Nat
  /\ \A i \in DOMAIN Surfaces : Surfaces[i] = "tools" => i = 1

\* The requests for the second process.
OnSecond(request) == request \in {"discoverSecond", "second"}

\* The number of a request of the first process.
SurfaceIndex(surface) ==
  Cardinality({i \in DOMAIN Surfaces : /\ Surfaces[i] \in Declared(log)
                                      /\ \E j \in DOMAIN Surfaces : i < j /\ Surfaces[j] = surface})
Number(request) ==
  CASE request = "discover"         -> 1
    [] request = "list"             -> 2
    [] request = "removedMethod"    -> 9
    [] request = "discoverSurfaces" -> 18
    [] request \in Lists            ->
         1900 + PageSpan * SurfaceIndex(request) + Pages(log, request)
    [] request = "discoverFirst"    -> 2100
    [] request = "first"            -> 2200 + Pages(log, "first")

-----------------------------------------------------------------------------
(* The server.                                                             *)

\* Without HTTP there is no status.
OverStdio(answer) == [answer EXCEPT !.status = NoStatus]
StdioAnswers(request) ==
  {OverStdio(a) : a \in Right(request)} \cup
    (CASE request = "discover" -> {Error(NoStatus, "method_not_found")}
       [] request = "list" -> {Error(NoStatus, "method_not_found"), Result(NoStatus, {"tools"})}
       [] OTHER -> {}) \cup
    (IF conduct # "right" THEN {Error(NoStatus, "internal")} ELSE {})

\* Answers come in any order, some never; a server may also send requests of
\* its own, under the ids it likes, or die.  What it does while no probe waits is
\* seen by the next that does, and considered only then.
ServerAnswers ==
  /\ process = "running" /\ waiting # NoId
  /\ \E p \in pending : \E answer \in StdioAnswers(p.req) :
       /\ pending' = pending \ {p}
       /\ pipe' = Append(pipe, [id |-> p.id, ans |-> answer])
  /\ UNCHANGED <<queue, log, live, results, seen, transport, require, conduct, process, waiting>>

ServerAsks ==
  /\ process = "running" /\ conduct = "wrong" /\ waiting # NoId /\ pipe = <<>>
  /\ pipe' = Append(pipe, [id |-> waiting, ans |-> Blank])
  /\ conduct' = "asked"
  /\ UNCHANGED <<queue, log, live, results, seen, transport, require, process, waiting, pending>>

ServerDies ==
  /\ process = "running" /\ waiting # NoId
  /\ process' = "dead" /\ pending' = {}
  /\ UNCHANGED <<queue, log, live, results, seen, transport, require, conduct, waiting, pipe>>

-----------------------------------------------------------------------------
(* A probe on the pipe (_StdioTarget).                                     *)

Failure      == [outcome |-> "error", log |-> <<>>]
Inapplicable == [outcome |-> "not_applicable", log |-> <<>>]
Left == ToSet(queue)

\* The results so far, and what these probes come to.
Reporting(reported, ids, result) ==
  [id \in DOMAIN reported \cup ids |-> IF id \in ids THEN result ELSE reported[id]]

Launch ==
  /\ transport = "stdio" /\ process = "none" /\ queue # <<>>
  /\ \/ process' = "running" /\ UNCHANGED <<queue, results>>
     \/ process' = "dead" /\ queue' = <<>> /\ results' = Reporting(results, Left, Failure)
  /\ UNCHANGED <<log, live, seen, transport, require, conduct, waiting, pending, pipe>>

Probes == transport = "stdio" /\ process # "none" /\ queue # <<>> /\ waiting = NoId

\* The second process is started for the comparison, and may not come up.
NoSecondProcess_Unreported ==
  /\ Probes /\ Head(queue) = "comparison" /\ log = <<>>
  /\ queue' = <<>>
  /\ UNCHANGED <<log, live, results, seen, stdioVars>>

NoSecondProcess ==
  /\ Probes /\ Head(queue) = "comparison" /\ log = <<>>
  /\ queue' = <<>> /\ results' = Reporting(results, Left, Failure)
  /\ UNCHANGED <<log, live, seen, stdioVars>>

AskSecond ==
  /\ Probes /\ OnSecond(Step.ask)
  /\ \E answer \in StdioAnswers(Step.ask) \cup {Raises("timeout")} : log' = Exchange(Step.ask, answer)
  /\ UNCHANGED <<queue, live, results, seen, stdioVars>>

Send ==
  /\ Probes /\ Step.ask # "" /\ ~OnSecond(Step.ask)
  /\ IF process = "dead"
     THEN log' = Exchange(Step.ask, Raises("broken")) /\ UNCHANGED <<waiting, pending>>
     ELSE /\ waiting' = Number(Step.ask)
          /\ pending' = pending \cup {[id |-> Number(Step.ask), req |-> Step.ask]}
          /\ UNCHANGED log
  /\ UNCHANGED <<queue, live, results, seen, transport, require, conduct, process, pipe>>

\* The next message is the answer if it has the id, and is skipped otherwise.
Read ==
  /\ waiting # NoId /\ pipe # <<>>
  /\ pipe' = Tail(pipe)
  /\ IF Head(pipe).id = waiting
     THEN log' = Exchange(Step.ask, Head(pipe).ans) /\ waiting' = NoId
     ELSE UNCHANGED <<log, waiting>>
  /\ UNCHANGED <<queue, live, results, seen, transport, require, conduct, process, pending>>

\* The request may still be answered later, or never.
GivesUp(why) == waiting' = NoId /\ log' = Exchange(Step.ask, Raises(why))

TimeOut ==
  /\ waiting # NoId /\ GivesUp("timeout")
  /\ \/ pending' = {p \in pending : p.id # waiting}
     \/ Cardinality(pending) + Len(pipe) <= MaxLate /\ UNCHANGED pending
  /\ UNCHANGED <<queue, live, results, seen, transport, require, conduct, process, pipe>>

EndOfOutput ==
  /\ waiting # NoId /\ process = "dead" /\ pipe = <<>> /\ GivesUp("broken")
  /\ UNCHANGED <<queue, live, results, seen, transport, require, conduct, process, pending, pipe>>

\* A result is kept, with what is read of it later; after the gateways a server
\* without modern support is left alone (StopsHere).  Ending the process may fail,
\* which counts for what was not probed.
StopsHere_SupportedOnly(done) ==
  /\ require /\ Head(queue) = Last(GatewayOrder)
  /\ "supported" \notin {done["discover"].outcome, done["list"].outcome}

StopsHere(done) ==
  /\ require /\ Head(queue) = Last(GatewayOrder)
  /\ ~HasModernSupport(done["discover"], done["list"])

Record ==
  /\ Probes /\ Step.ask = ""
  /\ LET id   == Head(queue)
         kept == IF id = "list" /\ Step.outcome = "supported" THEN log ELSE <<>>
         done == Reporting(results, {id}, [outcome |-> Step.outcome, log |-> kept])
         rest == ToSet(Tail(queue))
     IN  IF StopsHere(done)
         THEN queue' = <<>> /\ \E other \in {Failure, Inapplicable} : results' = Reporting(done, rest, other)
         ELSE queue' = Tail(queue) /\ results' = done
  /\ log' = <<>>
  /\ UNCHANGED <<live, seen, stdioVars>>

-----------------------------------------------------------------------------
Init ==
  /\ \/ transport = "http" /\ require = FALSE /\ conduct = "wrong" /\ \E id \in Subjects : queue = <<id>>
     \/ /\ transport = "stdio" /\ queue \in StdioQueues
        /\ require \in {FALSE, Head(queue) = "discover"} /\ conduct \in {"right", "wrong"}
  /\ log = <<>> /\ live = {} /\ seen = Unjudged
  /\ results = [id \in {} |-> NotRun]
  /\ process = "none" /\ waiting = NoId /\ pending = {} /\ pipe = <<>>

OverHttp(action) == transport = "http" /\ action /\ UNCHANGED stdioVars

StdioProber ==
  \/ Launch \/ NoSecondProcess \/ AskSecond \/ Send \/ Read \/ TimeOut \/ EndOfOutput \/ Record
Server == ServerAnswers \/ ServerAsks \/ ServerDies
Next == OverHttp(Request) \/ OverHttp(Conclude) \/ StdioProber \/ Server

\* Every request ends by an answer, a failure or its time-out (PROBE_TIMEOUT_S),
\* and the event loop runs what is ready; of the server nothing is assumed.
Spec == Init /\ [][Next]_vars /\ WF_vars(StdioProber)

-----------------------------------------------------------------------------
\* A server that answers each request as it should, however late and in whatever
\* order, or dies at any time, is failed by no probe over stdio: an answer that is
\* taken for that of another request costs evidence at most.
LateAnswersDoNoHarm ==
  transport = "stdio" /\ conduct = "right" =>
    \A id \in DOMAIN results \ ToSet(GatewayOrder) : results[id].outcome # "unsupported"

\* Where modern support is required, a server that shows none is sent nothing
\* beyond the two requests that look for it (require_modern_support of
\* run_stdio_probes, for a legacy server that must not be disturbed).
LegacyServerLeftAlone ==
  [][(transport = "stdio" /\ require /\ pending' # pending /\ Head(queue) \notin ToSet(GatewayOrder)) =>
       HasModernSupport(results["discover"], results["list"])]_vars

\* Every run over stdio ends, and with a result for each of its probes, whatever did
\* not start, was not answered or was not asked.
EveryProbeReported ==
  <>[](transport = "stdio" => queue = <<>> /\ DOMAIN results \in {ToSet(q) : q \in StdioQueues})
=============================================================================
