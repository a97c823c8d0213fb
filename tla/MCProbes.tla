------------------------------ MODULE MCProbes ------------------------------
(***************************************************************************)
(* The probes for model checking: every probe over HTTP, with two other    *)
(* addresses, two well-known locations and two documents of an issuer, and *)
(* all of a run over stdio.                                                *)
(***************************************************************************)
EXTENDS StdioProbing

SurfaceList == <<"tools", "resources", "templates", "prompts">>
AddressList == <<"lan", "wan">>
WellKnownList == <<"wellKnownPath", "wellKnownRoot">>
IssuerLocationList == <<"oauthServer", "openidServer">>

HttpSubjects == ProbeIds

Queues == {<<"discover", "list", "removedMethod">>, <<"pagination", "comparison">>}
=============================================================================
