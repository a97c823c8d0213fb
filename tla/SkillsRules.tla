----------------------------- MODULE SkillsRules -----------------------------
(***************************************************************************)
(* The rules of rules/skills.py that judge how the calls of module Skills  *)
(* were answered.  A verdict is a function of the evidence, whatever came  *)
(* of the collection: all of it, what had arrived when a call failed, or   *)
(* what had arrived at the deadline.                                       *)
(***************************************************************************)
EXTENDS Skills

Rules == {"list", "get", "unknown", "directory", "digest"}

Observed(error) == error # "unobserved"

(* skip_reason of SkillsBaseRule, for a rule that needs the listing.       *)
ListingJudged == pagesRead > 0 /\ entries # <<>>

ListVerdict ==
    IF ~Observed(listError) THEN "skip"
    ELSE IF listError = "none" /\ ~listMalformed THEN "pass" ELSE "fail"

GetVerdict ==
    LET answered == { u \in DOMAIN gets : Observed(gets[u]) }
    IN  IF ~ListingJudged \/ answered = {} THEN "skip"
        ELSE IF \A u \in answered : gets[u] = "complete" THEN "pass" ELSE "fail"

UnknownGetVerdict ==
    CASE unknownGet \in {"not_made", "unobserved", "complete"} -> "skip"
      [] unknownGet = "refused" -> "pass"
      [] unknownGet = "wrong" -> "fail"

(* _root_listing_problem: SKILL.md may be on a page that was not read.     *)
RootProblem(read) ==
    \/ read.error = "wrong"
    \/ BadChild \in read.children
    \/ SkillMd \notin read.children /\ ~read.incomplete

AnsweredReads == { k \in DirKinds : dirReads[k].error \notin {"not_made", "unobserved"} }

DirectoryIssue(kind) ==
    IF kind = "skill_root" THEN RootProblem(dirReads[kind]) ELSE dirReads[kind].error # "refused"

DirectoryVerdict ==
    IF ~ListingJudged \/ ~server.directoryRead THEN "skip"
    ELSE IF \E k \in AnsweredReads : DirectoryIssue(k) THEN "fail"
    ELSE IF AnsweredReads = DirKinds THEN "pass" ELSE "skip"

(* _listed_files and the check of skills_digest_integrity.                 *)
JudgedFiles ==
    { f \in DOMAIN files : server.declared[f] # Undeclared /\ files[f].error \in {"none", "too_large"} }

Mismatch(f) ==
    \/ files[f].size # server.declared[f]
    \/ files[f].error = "none" /\ ~files[f].matches

DigestVerdict ==
    IF ~ListingJudged \/ JudgedFiles = {} THEN "skip"
    ELSE IF \E f \in JudgedFiles : Mismatch(f) THEN "fail" ELSE "pass"

Verdict ==
    [list |-> ListVerdict, get |-> GetVerdict, unknown |-> UnknownGetVerdict,
     directory |-> DirectoryVerdict, digest |-> DigestVerdict]

----------------------------------------------------------------------------
(* A rule fails only a server that answered wrongly: a call that timed     *)
(* out, was refused for want of a credential or was cut off by the         *)
(* deadline, a page that was not read and a name that turns out to be      *)
(* served are never held against it, in whatever order they come.          *)
FailureNeedsAFault ==
    phase = "over" => \A r \in Rules : Verdict[r] = "fail" => r \in faulty

(* A wrong answer that was received is reported, however the collection    *)
(* ended: "a collection timeout keeps the answers already received".       *)
FaultIsFailed ==
    phase = "over" => \A r \in faulty : Verdict[r] = "fail"

(* What each read leaves: the content of a file that is not too large.     *)
KeptSizes == [f \in DOMAIN files |-> IF files[f].error = "none" THEN files[f].size ELSE 0]

(* What the audit keeps of the files: the budget is checked before a read  *)
(* is awaited and spent after it, so that it may be exceeded by the reads  *)
(* in flight, and by no more than these can bring.                         *)
KeptWithinBudget == SumFunction(KeptSizes) < MaxTotalBytes + ReadConcurrency * MaxFileBytes

===============================================================================
