---------------------------- MODULE MCSmokePhase ----------------------------
(***************************************************************************)
(* The smoke phase for model checking: scenarios in which the session may  *)
(* offer more than was listed, a tool by the nonexistent name among them,  *)
(* scenarios for the filesystem check with one tool or two, and scenarios  *)
(* for the network check, with a denied listener on each address family    *)
(* and two vectors, of which one cannot run.                               *)
(***************************************************************************)
EXTENDS SmokePhase

Tl(name, readOnly, schema, invalid) ==
    [name |-> name, readOnly |-> readOnly, schema |-> schema, invalid |-> invalid]

Reader == Tl("reader", TRUE, TRUE, "violable")
Writer == Tl("writer", FALSE, FALSE, "violable")
Plain == Tl("plain", TRUE, FALSE, "none")
Named == Tl("nonexistent_tool", FALSE, TRUE, "raises")

NoFs == [read |-> NotNamed, write |-> NotNamed]

Given(catalog, listing, offered, callAll, fs, rooted) ==
    [catalog |-> catalog, listing |-> listing, offered |-> offered, callAll |-> callAll,
     fs |-> fs, rooted |-> rooted, network |-> NotNamed]

Networked(given, tool) == [given EXCEPT !.network = tool]

ScenarioList ==
    { Given(<<Reader, Writer>>, "whole", {Reader, Writer}, callAll, NoFs, FALSE) : callAll \in BOOLEAN }
    \cup { Given(<<Plain, Named>>, "whole", {Plain, Named}, callAll, NoFs, FALSE) : callAll \in BOOLEAN }
    \cup { Given(<<Reader>>, "partial", {Reader, Named}, FALSE, NoFs, TRUE),
           Given(<<>>, "none", {Named}, FALSE, NoFs, TRUE),
           Given(<<Reader>>, "stateless", {[Reader EXCEPT !.readOnly = FALSE]}, FALSE, NoFs, TRUE),
           Given(<<Writer>>, "whole", {Writer}, FALSE, [read |-> "writer", write |-> "writer"], FALSE),
           Given(<<Writer>>, "partial", {Writer, Named}, FALSE,
                 [read |-> "writer", write |-> "missing"], TRUE),
           Given(<<Writer>>, "partial", {Writer, Named}, FALSE,
                 [read |-> NotNamed, write |-> "writer"], TRUE),
           Networked(Given(<<Writer>>, "partial", {Writer}, FALSE, NoFs, FALSE), "writer"),
           Networked(Given(<<Reader, Writer>>, "partial", {Reader, Writer}, FALSE, NoFs, FALSE), "missing") }

UnknownNameList == <<"nonexistent_tool", "nonexistent_tool_2", "nonexistent_tool_3">>

VectorList == <<TRUE, FALSE, TRUE>>

DeniedListeners == <<"ipv4", "ipv6">>
NetworkVectorList == <<FALSE, TRUE>>
=============================================================================
