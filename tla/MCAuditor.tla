------------------------------ MODULE MCAuditor ------------------------------
(***************************************************************************)
(* A small set of rules, one of each sort the auditor tells apart, for     *)
(* model checking module Auditor.                                          *)
(***************************************************************************)
EXTENDS Auditor

Rule(id, group, needs, catalog, unique, min, max) ==
    [id |-> id, group |-> group, needs |-> needs, catalog |-> catalog,
     unique |-> unique, min |-> min, max |-> max,
     modernEvidence |-> group = "readiness", hook |-> group = "readiness",
     weight |-> IF unique THEN 3 ELSE 1]

MCRules ==
    <<Rule("capabilities_match", "main", {"capabilities", "tools"}, "none", FALSE, 1, 2),
      Rule("session_roots", "main", {"tools"}, "tools", FALSE, 1, 1),
      Rule("tools_unique", "main", {"tools"}, "tools", TRUE, 1, 2),
      Rule("readiness", "readiness", {}, "none", FALSE, 2, 2),
      Rule("package_license", "packaging", {}, "none", FALSE, 1, 2)>>

NoConfig == <<>>
MCConfigs ==
    {NoConfig, [id \in {"tools_unique", "readiness"} |-> IF id = "readiness" THEN 2 ELSE 0]}

Seen(discover, page, malformed, whole) ==
    [discover |-> discover, code |-> FALSE, page |-> page,
     malformed |-> malformed, whole |-> whole]

MCObservations ==
    {Seen(FALSE, "none", FALSE, FALSE), Seen(TRUE, "refused", FALSE, FALSE),
     Seen(FALSE, "plain", FALSE, TRUE), Seen(FALSE, "unproven", FALSE, FALSE),
     Seen(FALSE, "complete", FALSE, TRUE), Seen(TRUE, "complete", FALSE, FALSE),
     Seen(TRUE, "complete", TRUE, TRUE),
     [NotProbed EXCEPT !.code = TRUE]}
==============================================================================
