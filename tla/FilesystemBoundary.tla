-------------------------- MODULE FilesystemBoundary --------------------------
(***************************************************************************)
(* The smoke phase with its filesystem check (smoke_filesystem.py), which  *)
(* follows the checks of module Smoke on the same session.  A tool is      *)
(* asked to read or write inside its root (the positive control) and then  *)
(* once per vector outside it; the evidence is the canary in an answer,    *)
(* or a difference between two snapshots of the files outside.             *)
(*                                                                         *)
(* The server under test runs beside the checks: it may write, replace or  *)
(* remove files outside its root during a call or at any time after it.    *)
(* What is compared is bytes, and every probe sends the same ones, so a    *)
(* write may well leave a file as it was.                                  *)
(* SmokePhase adds the network check, which follows.                       *)
(*                                                                         *)
(* Abstraction.  A snapshot reads file after file; as nothing here relates *)
(* two files, it is one step.                                              *)
(*                                                                         *)
(* A definition whose name ends in _<Fault> is a faulty variant of the one *)
(* that follows it, kept to show that the properties notice the fault.     *)
(***************************************************************************)
EXTENDS Smoke

CONSTANTS
    Files,       \* files outside the root
    Vectors,     \* for each vector, whether it can run on this machine
    Bytes,       \* contents that are told apart: the canaries', the probes', ...
    MaxActs      \* bound: writes and removals the server makes outside

Absent == "absent"

ASSUME BoundAssumption ==
    /\ Vectors \in Seq(BOOLEAN) \ {<<>>}
    /\ Absent \notin Bytes
    /\ MaxActs \in Nat

VARIABLES
    operation,   \* "read", "write" or "done"
    vector,      \* the vector at hand, 0 for the control
    controlSeen, \* the positive control was answered
    before,      \* the snapshot before the call
    outcome,     \* how the call of a write vector ended
    outside,     \* the files outside the root
    unreadable,  \* those that this process may not read
    acts         \* history: what the server did outside, in order

fsVars == <<operation, vector, controlSeen, before, outcome>>
treeVars == <<outside, unreadable, acts>>
vars == <<smokeVars, fsVars, treeVars>>

Unanswered == [kind |-> "unanswered", marked |-> FALSE]

FsInit ==
    /\ Init
    /\ operation = "read" /\ vector = 0 /\ controlSeen = FALSE
    /\ outside \in [Files -> Bytes \cup {Absent}]
    /\ before = outside /\ outcome = Unanswered
    /\ unreadable = {} /\ acts = <<>>

----------------------------------------------------------------------------
(* The server under test, once it was asked to write; what it did before   *)
(* is in the initial tree.  An act between the two snapshots of a vector   *)
(* is one during that vector, named by the number of its result.           *)
Busy == operation = "write" /\ step \in {"control", "before", "calling", "after", "next"}
During == IF step \in {"calling", "after"} THEN Len(checks) + 1 ELSE 0

Leave(f, content) ==
    /\ Busy /\ Len(acts) < MaxActs
    /\ outside' = [outside EXCEPT ![f] = content]
    /\ acts' = Append(acts, [file |-> f, during |-> During, from |-> outside[f], to |-> content])
    /\ UNCHANGED <<smokeVars, fsVars>>

WriteOutside(f) ==
    /\ \E bytes \in Bytes : Leave(f, bytes)
    /\ unreadable' \in {unreadable \ {f}, unreadable \cup {f}}

RemoveOutside(f) ==
    /\ outside[f] # Absent
    /\ Leave(f, Absent)
    /\ unreadable' = unreadable \ {f}

----------------------------------------------------------------------------
(* call_tool_raw.  marked: the text that was looked for is in the answer.  *)
RawOutcomes ==
    IF connection = "open"
    THEN [kind : {"result", "rejected", "malformed"}, marked : BOOLEAN]
             \cup {Unanswered, [kind |-> "closed", marked |-> FALSE]}
    ELSE {[kind |-> "closed", marked |-> FALSE]}

RawAnswered(o) == o.kind \in {"result", "rejected", "malformed"}

RequestRaw(name, o) ==
    Request(name, IF RawAnswered(o) THEN "conforms"
                  ELSE IF o.kind = "closed" THEN "closed" ELSE "timeout")

Tool == scenario.fs[operation]
Listed == \E tool \in ToSet(scenario.catalog) : tool.name = Tool

NoFiles == [f \in Files |-> Absent]

FsCheck(verdict, wasCalled, seen) ==
    [check |-> operation, tool |-> Tool, verdict |-> verdict, called |-> wasCalled,
     control |-> seen, crash |-> FALSE]

GoTo(next) == step' = next /\ UNCHANGED <<scenario, at>>

(* run_smoke_phase: whether the check is configured and can run at all.    *)
StartFilesystem ==
    /\ step = "filesystem"
    /\ IF scenario.fs = [read |-> NotNamed, write |-> NotNamed]
       THEN GoTo("done") /\ UNCHANGED checks
       ELSE IF ~scenario.rooted
       THEN GoTo("done") /\ checks' = Append(checks, Check("filesystem", NotNamed, "SKIP", FALSE))
       ELSE GoTo("operation") /\ UNCHANGED checks
    /\ UNCHANGED <<sessionVars, fsVars, treeVars>>

NextOperation == operation' = IF operation = "read" THEN "write" ELSE "done"

(* run_filesystem_checks, for each operation that names a listed tool.     *)
StartOperation ==
    /\ step = "operation"
    /\ IF operation = "done" THEN GoTo("done") /\ UNCHANGED <<operation, checks>>
       ELSE IF Tool = NotNamed THEN GoTo("operation") /\ NextOperation /\ UNCHANGED checks
       ELSE IF ~Listed
       THEN /\ GoTo("operation") /\ NextOperation
            /\ checks' = Append(checks, Check(operation, Tool, "SKIP", FALSE))
       ELSE GoTo("control") /\ UNCHANGED <<operation, checks>>
    /\ vector' = 0 /\ controlSeen' = FALSE
    /\ UNCHANGED <<before, outcome, sessionVars, treeVars>>

SkippedVectors(wasCalled) ==
    [i \in DOMAIN Vectors |-> FsCheck("SKIP", wasCalled, FALSE)]

(* The control must return what is in the root, or have written it there;  *)
(* the file of a write that is not answered may be found all the same.     *)
ControlWorked(o, written) ==
    IF operation = "write" THEN written
    ELSE o.kind \in {"result", "malformed"} /\ o.marked

Control ==
    /\ step = "control"
    /\ \E o \in RawOutcomes, written \in BOOLEAN :
           /\ operation = "write" => ~o.marked
           /\ RequestRaw(Tool, o)
           /\ IF ControlWorked(o, written)
              THEN /\ GoTo("next")
                   /\ controlSeen' = RawAnswered(o)
                   /\ UNCHANGED <<operation, checks>>
              ELSE /\ GoTo("operation") /\ NextOperation
                   /\ checks' = checks \o SkippedVectors(RawAnswered(o))
                   /\ UNCHANGED controlSeen
    /\ UNCHANGED <<vector, before, outcome, treeVars>>

(* The loop over the vectors.                                              *)
NextVector ==
    /\ step = "next"
    /\ IF vector = Len(Vectors)
       THEN GoTo("operation") /\ NextOperation /\ UNCHANGED <<vector, checks>>
       ELSE /\ vector' = vector + 1 /\ UNCHANGED operation
            /\ IF ~Vectors[vector']
               THEN /\ GoTo("next")
                    /\ checks' = Append(checks, FsCheck("SKIP", FALSE, controlSeen))
               ELSE /\ GoTo(IF operation = "write" THEN "before" ELSE "calling")
                    /\ UNCHANGED checks
    /\ UNCHANGED <<controlSeen, before, outcome, sessionVars, treeVars>>

(* outside_state: a file that may not be read raises, as does one that the *)
(* server removes after it was found there.  Nothing between here and the  *)
(* process's end catches it.                                               *)
SnapshotRaises ==
    /\ step \in {"before", "after"}
    /\ \E f \in Files :
           /\ outside[f] # Absent
           /\ \/ f \in unreadable /\ UNCHANGED <<outside, unreadable>>
              \/ /\ outside' = [outside EXCEPT ![f] = Absent]
                 /\ unreadable' = unreadable \ {f}
    /\ GoTo("raised")
    /\ UNCHANGED <<checks, sessionVars, fsVars, acts>>

(* What a snapshot takes of the tree.                                      *)
OutsideState_Once == IF vector = 1 THEN outside ELSE before

OutsideState == outside

Readable == \A f \in unreadable : outside[f] = Absent

SnapshotBefore ==
    /\ step = "before" /\ Readable
    /\ before' = OutsideState
    /\ GoTo("calling")
    /\ UNCHANGED <<operation, vector, controlSeen, outcome, checks, sessionVars, treeVars>>

ReadVerdict(o) ==
    IF o.marked THEN "FAIL"
    ELSE IF o.kind \in {"result", "rejected"} THEN "PASS" ELSE "SKIP"

CallToRead ==
    /\ step = "calling" /\ operation = "read"
    /\ \E o \in RawOutcomes :
           /\ RequestRaw(Tool, o)
           /\ checks' = Append(checks, FsCheck(ReadVerdict(o), RawAnswered(o), controlSeen))
    /\ GoTo("next")
    /\ UNCHANGED <<fsVars, treeVars>>

CallToWrite ==
    /\ step = "calling" /\ operation = "write"
    /\ \E o \in RawOutcomes :
           /\ ~o.marked
           /\ RequestRaw(Tool, o)
           /\ outcome' = o
    /\ GoTo("after")
    /\ UNCHANGED <<operation, vector, controlSeen, before, checks, treeVars>>

(* Files that appeared or changed between the snapshots.                   *)
Changed == { f \in Files : outside[f] # Absent /\ before[f] # outside[f] }

WriteVerdict ==
    IF Changed # {} THEN "FAIL"
    ELSE IF outcome.kind \in {"result", "rejected"} THEN "PASS" ELSE "SKIP"

SnapshotAfter ==
    /\ step = "after" /\ Readable
    /\ checks' = Append(checks, FsCheck(WriteVerdict, RawAnswered(outcome), controlSeen))
    /\ GoTo("next")
    /\ UNCHANGED <<sessionVars, fsVars, treeVars>>

FsStep ==
    \/ StartFilesystem \/ StartOperation \/ Control \/ NextVector \/ SnapshotRaises
    \/ SnapshotBefore \/ CallToRead \/ CallToWrite \/ SnapshotAfter

(* The server under test.                                                  *)
Surroundings == \E f \in Files : WriteOutside(f) \/ RemoveOutside(f)

----------------------------------------------------------------------------
(* What the server did to a file during the vector of result i, and        *)
(* whether that left a file there with other bytes than it had before.     *)
ActsOn(f, i) == { n \in DOMAIN acts : acts[n].during = i /\ acts[n].file = f }

LeftChanged(f, i) ==
    \E first, last \in ActsOn(f, i) :
        /\ \A n \in ActsOn(f, i) : first <= n /\ n <= last
        /\ acts[last].to \notin {Absent, acts[first].from}

(* A write vector fails exactly if what the server did outside the root    *)
(* during it, in the call or in its background, left a file new or with    *)
(* other bytes, however the call itself ended; for what it did in an       *)
(* earlier vector, or between two, this one is not failed.  It passes only *)
(* if its call was answered.  A write of the bytes that are there already, *)
(* one that is undone before the call is over, and a removal are no change *)
(* to the code, and may pass.                                              *)
WriteVerdictIsEarned ==
    \A i \in DOMAIN checks :
        checks[i].check = "write" =>
            /\ checks[i].verdict = "FAIL" <=> \E f \in Files : LeftChanged(f, i)
            /\ checks[i].verdict = "PASS" => checks[i].called

===============================================================================
