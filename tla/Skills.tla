-------------------------------- MODULE Skills --------------------------------
(***************************************************************************)
(* collect_skills of skills.py: the skills are listed page by page, then   *)
(* three jobs run side by side on one session: skills/get for every listed *)
(* skill and for one that does not exist, directory reads of the first     *)
(* skill, and reads of a sample of the files under a budget of bytes.  One *)
(* deadline ends whatever is still going on.                               *)
(*                                                                         *)
(* Any call may be answered as it should be, answered wrongly, or not be   *)
(* observed at all: a timeout, a lost connection, or an HTTP refusal for   *)
(* want of a credential or of quota (UNOBSERVED_OUTCOMES).  What the       *)
(* answers mean is judged in module SkillsRules; the history faulty says   *)
(* which rule a wrong answer that was received is for.                     *)
(*                                                                         *)
(* Abstractions.  A skill is the file that describes it.  An answer is     *)
(* right or wrong; a file is its size and whether its digest matches.      *)
(* URIs are in their normal form.  The calls of one job are answered in    *)
(* any order its semaphore allows; the order of gets, which is sorted back *)
(* into that of the listing, is left out.                                  *)
(*                                                                         *)
(* A definition whose name ends in _<Fault> is a faulty variant of the one *)
(* that follows it, kept to show that the properties notice the fault.     *)
(***************************************************************************)
EXTENDS Integers, Sequences, FiniteSets, SequencesExt

CONSTANTS
    Servers,        \* what a server serves; see ServerSet
    MaxListPages, MaxSkillFiles, MaxSupportingFiles, ReadConcurrency,
    MaxFileBytes, MaxTotalBytes,
    FileSizes,      \* sizes of the files that are served
    UnknownNames    \* UNKNOWN_DIRECTORY_NAME and its suffixed forms, in order

ASSUME BoundAssumption ==
    /\ {MaxListPages, MaxSkillFiles, MaxSupportingFiles, ReadConcurrency} \subseteq Nat \ {0}
    /\ MaxFileBytes \in Nat /\ MaxTotalBytes \in Nat \ {0}
    /\ FileSizes \subseteq Nat
    /\ UnknownNames \in Seq(STRING)

NoFile == "-"
Undeclared == -1
SkillMd == "SKILL.md"
BadChild == "?"

(* pages: the skills of each page of the listing; extra: the supporting    *)
(* file chosen of each skill; declared: the sizes the manifests give;      *)
(* directory: the children of the first skill's root, page by page;        *)
(* manifest: the children its manifest names.  A cursor is what follows    *)
(* the last page.  finished: the listing says resultType "complete", or    *)
(* belongs to a session, where it need not.                                *)
ServerSet(s) ==
    /\ DOMAIN s = {"pages", "cursor", "finished", "extra", "declared",
                   "directoryRead", "directory", "dirCursor", "manifest"}
    /\ {s.cursor, s.dirCursor} \subseteq {"none", "repeats", "bad"}
    /\ s.finished \in BOOLEAN /\ s.directoryRead \in BOOLEAN
    /\ IsFiniteSet(DOMAIN s.declared)
    /\ s.pages \in Seq(Seq(DOMAIN s.declared)) \ {<<>>}
    /\ s.extra \in [DOMAIN s.declared -> DOMAIN s.declared \cup {NoFile}]
    /\ s.directory \in Seq(SUBSET STRING) \ {<<>>}
    /\ \A f \in DOMAIN s.declared : s.declared[f] \in Nat \cup {Undeclared}
    /\ \A k \in DOMAIN s.extra :
           s.extra[k] # NoFile => s.declared[s.extra[k]] \in 0 .. MaxFileBytes

ASSUME ServerAssumption ==
    \A s \in Servers :
        /\ ServerSet(s)
        /\ BadChild \notin UNION ToSet(s.directory)
        /\ \E i \in DOMAIN UnknownNames :   \* the suffixes never run out
               UnknownNames[i] \notin (UNION ToSet(s.directory)) \cup s.manifest \cup {BadChild}

VARIABLES
    server,
    phase,           \* "list", "calls" or "over"
    entries,         \* the listed skills; none were listed unless pagesRead > 0
    pagesRead,
    listError,       \* "none", "unobserved" or "wrong"
    listMalformed,
    listIncomplete,
    gets,            \* answer of skills/get, per listed skill
    unknownGet,      \* answer for the skill that does not exist
    dirStep,         \* the directory read in progress, or "over"
    dirPage,         \* its pages so far
    dirReads,        \* the directory reads, by kind
    probed,          \* name of the child asked for as unknown
    queue,           \* files still to read, in order
    reading,         \* reads in flight
    received,        \* bytes received by them
    files,           \* the reads made
    budgetExhausted,
    faulty           \* history: rules for which a wrong answer was received

listVars == <<entries, pagesRead, listError, listMalformed, listIncomplete>>
getVars == <<gets, unknownGet>>
dirVars == <<dirStep, dirPage, dirReads, probed>>
fileVars == <<queue, reading, received, files, budgetExhausted>>
vars == <<server, phase, listVars, getVars, dirVars, fileVars, faulty>>

DirKinds == {"skill_root", "unknown", "file"}
NotMade == [error |-> "not_made", children |-> {}, incomplete |-> FALSE]
Unread == [error |-> "unread", size |-> 0, matches |-> FALSE]

Init ==
    /\ server \in Servers
    /\ phase = "list"
    /\ entries = <<>> /\ pagesRead = 0
    /\ listError = "none" /\ listMalformed = FALSE /\ listIncomplete = FALSE
    /\ gets = [u \in {} |-> "pending"] /\ unknownGet = "not_made"
    /\ dirStep = "over" /\ dirPage = 0 /\ dirReads = [k \in DirKinds |-> NotMade] /\ probed = NoFile
    /\ queue = <<>> /\ reading = {} /\ received = 0
    /\ files = [f \in DOMAIN server.declared |-> Unread] /\ budgetExhausted = FALSE
    /\ faulty = {}

(* A wrong answer, for the history.                                        *)
Blame(rule, wrong) == faulty' = IF wrong THEN faulty \cup {rule} ELSE faulty

----------------------------------------------------------------------------
(* What the three jobs start from.                                         *)
(* The elements of s at some of its positions, in their order.             *)
At(s, positions) ==
    LET at[n \in 0 .. Len(s)] ==
            IF n = 0 THEN <<>>
            ELSE IF n \in positions THEN Append(at[n - 1], s[n]) ELSE at[n - 1]
    IN  at[Len(s)]

Distinct(s) == At(s, { i \in DOMAIN s : \A j \in DOMAIN s : j < i => s[j] # s[i] })

FirstOf(s, n) == SubSeq(s, 1, IF Len(s) < n THEN Len(s) ELSE n)

(* _listed_skill_uris                                                      *)
ListedSkills(listed) == FirstOf(Distinct(listed), MaxSkillFiles)

(* _reads: the skills' own files first, then the supporting ones.          *)
FilesToRead(listed) ==
    LET extra == [i \in DOMAIN listed |-> server.extra[listed[i]]]
        extras == At(extra, { i \in DOMAIN extra : extra[i] # NoFile })
    IN  Distinct(FirstOf(listed, MaxSkillFiles) \o FirstOf(extras, MaxSupportingFiles))

(* The loop of _read_files that plans the reads within the declared sizes: *)
(* left is what they leave of the budget.                                  *)
Plan(listed) ==
    LET reads == FilesToRead(listed)
        size == [n \in DOMAIN reads |-> server.declared[reads[n]]]
        Fits(n, budget) == size[n] <= MaxFileBytes /\ size[n] <= budget
        left[n \in 0 .. Len(reads)] ==
            IF n = 0 THEN MaxTotalBytes
            ELSE LET before == left[n - 1]
                 IN  IF Fits(n, before) /\ size[n] # Undeclared THEN before - size[n] ELSE before
        planned == { n \in DOMAIN reads : Fits(n, left[n - 1]) }
    IN  [reads |-> At(reads, planned), dropped |-> planned # DOMAIN reads]

DirectoryAsked == [error |-> "unobserved", children |-> {}, incomplete |-> TRUE]

AskDirectory(kind) ==
    /\ dirStep' = kind /\ dirPage' = 0
    /\ dirReads' = [dirReads EXCEPT ![kind] = DirectoryAsked]

StartCalls ==
    LET skills == ToSet(ListedSkills(entries'))
        plan == Plan(entries')
    IN  /\ phase' = "calls"
        /\ gets' = [u \in skills |-> "pending"]
        /\ queue' = plan.reads /\ budgetExhausted' = plan.dropped
        /\ IF server.directoryRead /\ skills # {}
           THEN AskDirectory("skill_root")
           ELSE UNCHANGED <<dirStep, dirPage, dirReads>>
        /\ UNCHANGED <<server, unknownGet, probed, reading, received, files>>

----------------------------------------------------------------------------
(* _list                                                                   *)
LastPage == pagesRead + 1 = Len(server.pages)

PageArrives ==
    /\ phase = "list"
    /\ entries' = entries \o server.pages[pagesRead + 1]
    /\ pagesRead' = pagesRead + 1
    /\ listIncomplete' = (~LastPage \/ server.cursor # "none" \/ ~server.finished)
    /\ IF LastPage \/ pagesRead' = MaxListPages
       THEN StartCalls
       ELSE UNCHANGED <<server, phase, getVars, dirVars, fileVars>>
    /\ UNCHANGED <<listError, listMalformed, faulty>>

(* A later page that is refused leaves what was listed, and no error.      *)
PageFails ==
    /\ phase = "list"
    /\ \E error \in {"unobserved", "wrong"} :
           IF pagesRead = 0
           THEN listError' = error /\ Blame("list", error = "wrong") /\ UNCHANGED listIncomplete
           ELSE listIncomplete' = TRUE /\ UNCHANGED <<listError, faulty>>
    /\ UNCHANGED <<entries, pagesRead, listMalformed>>
    /\ StartCalls

PageMalformed ==
    /\ phase = "list"
    /\ listMalformed' = TRUE
    /\ Blame("list", TRUE)
    /\ UNCHANGED <<entries, pagesRead, listError, listIncomplete>>
    /\ StartCalls

----------------------------------------------------------------------------
(* _get: a semaphore admits the calls in the order of the listing.         *)
OpenGets == { u \in DOMAIN gets : gets[u] = "pending" }

Position(u) == SelectInSeq(entries, LAMBDA e : e = u)

Asked(u) == Cardinality({ v \in OpenGets : Position(v) < Position(u) }) < ReadConcurrency

GetAnswered ==
    /\ phase = "calls"
    /\ \E u \in OpenGets, answer \in {"complete", "wrong", "unobserved"} :
           /\ Asked(u)
           /\ gets' = [gets EXCEPT ![u] = answer]
           /\ Blame("get", answer = "wrong")
    /\ UNCHANGED <<server, phase, listVars, unknownGet, dirVars, fileVars>>

(* A server may serve skills it does not list, and answer with one.        *)
UnknownGetAnswered ==
    /\ phase = "calls" /\ OpenGets = {} /\ unknownGet = "not_made"
    /\ \E answer \in {"refused", "complete", "wrong", "unobserved"} :
           /\ unknownGet' = answer
           /\ Blame("unknown", answer = "wrong")
    /\ UNCHANGED <<server, phase, listVars, gets, dirVars, fileVars>>

----------------------------------------------------------------------------
(* _read_directories and _read_directory                                   *)
SetRead(read) == dirReads' = [dirReads EXCEPT ![dirStep] = read]

InDirectory(steps) == phase = "calls" /\ dirStep \in steps

DirectoryOver == dirStep' = "over" /\ UNCHANGED <<dirPage, probed>>

OnlyDirectory == UNCHANGED <<server, phase, listVars, getVars, fileVars>>

Served == (UNION ToSet(server.directory)) \cup server.manifest

UnknownChild(children) ==
    LET free == { i \in DOMAIN UnknownNames : UnknownNames[i] \notin children \cup server.manifest }
    IN  UnknownNames[CHOOSE i \in free : \A j \in free : i <= j]

LastDirPage == dirPage + 1 = Len(server.directory)

(* Whether a page ends the listing of the root, with its cursor.           *)
RootEnds == LastDirPage \/ dirPage + 1 = MaxListPages

RootWhole_EitherWay == RootEnds

RootWhole == LastDirPage /\ server.dirCursor = "none"

(* A page of the root's children, one of which may not be one.             *)
RootPageArrives ==
    /\ InDirectory({"skill_root"})
    /\ \E intruders \in {{}, {BadChild}} :
           LET children == dirReads["skill_root"].children \cup server.directory[dirPage + 1] \cup intruders
               badCursor == LastDirPage /\ server.dirCursor = "bad"
               read == [error |-> IF badCursor THEN "wrong" ELSE "none", children |-> children,
                        incomplete |-> ~(LastDirPage /\ server.dirCursor = "none")]
           IN  /\ Blame("directory", \/ intruders # {} \/ badCursor
                                     \/ ~read.incomplete /\ SkillMd \notin children)
               /\ IF ~RootEnds
                  THEN SetRead(read) /\ dirPage' = dirPage + 1 /\ UNCHANGED <<dirStep, probed>>
                  ELSE IF ~RootWhole THEN SetRead(read) /\ DirectoryOver
                  ELSE /\ dirStep' = "unknown" /\ dirPage' = 0
                       /\ dirReads' = [dirReads EXCEPT !["skill_root"] = read,
                                                       !["unknown"] = DirectoryAsked]
                       /\ probed' = UnknownChild(children)
    /\ OnlyDirectory

(* A later page that is not observed leaves the children received.         *)
RootPageFails ==
    /\ InDirectory({"skill_root"})
    /\ \E error \in {"unobserved", "wrong"} :
           /\ Blame("directory", error = "wrong")
           /\ LET read == dirReads["skill_root"]
              IN  IF dirPage = 0
                  THEN SetRead([read EXCEPT !.error = error, !.incomplete = FALSE])
                  ELSE SetRead([read EXCEPT !.error = IF error = "wrong" THEN "wrong" ELSE @])
    /\ DirectoryOver
    /\ OnlyDirectory

(* The unknown child and the skill's own file, which are to be refused.    *)
ProbeAnswered ==
    /\ InDirectory({"unknown", "file"})
    /\ \E answer \in {"refused", "wrong", "unobserved"} :
           LET isServed == dirStep = "unknown" /\ probed \in Served
               read == [dirReads[dirStep] EXCEPT !.error = answer, !.incomplete = FALSE]
           IN  /\ isServed => answer # "refused"
               /\ Blame("directory", answer = "wrong" /\ ~isServed)
               /\ IF dirStep = "unknown"
                  THEN /\ dirStep' = "file"
                       /\ dirReads' = [dirReads EXCEPT !["unknown"] = read, !["file"] = DirectoryAsked]
                       /\ UNCHANGED <<dirPage, probed>>
                  ELSE SetRead(read) /\ DirectoryOver
    /\ OnlyDirectory

----------------------------------------------------------------------------
(* _read_files: what the reads in flight bring is counted as it arrives.   *)
BudgetSpent_Never == FALSE

BudgetSpent == received >= MaxTotalBytes

Admits_Always == TRUE

Admits == Cardinality(reading) < ReadConcurrency

StartRead ==
    /\ phase = "calls" /\ queue # <<>> /\ Admits
    /\ queue' = Tail(queue)
    /\ IF BudgetSpent
       THEN budgetExhausted' = TRUE /\ UNCHANGED reading
       ELSE reading' = reading \cup {Head(queue)} /\ UNCHANGED budgetExhausted
    /\ UNCHANGED <<server, phase, listVars, getVars, dirVars, received, files, faulty>>

(* _read: a file that is too large keeps its length alone.                 *)
ReadAnswered ==
    /\ phase = "calls"
    /\ \E f \in reading, size \in FileSizes, matches \in BOOLEAN :
           LET tooLarge == size > MaxFileBytes
           IN  /\ tooLarge => ~matches
               /\ files' = [files EXCEPT ![f] = [error |-> IF tooLarge THEN "too_large" ELSE "none",
                                                 size |-> size, matches |-> matches]]
               /\ received' = received + size
               /\ reading' = reading \ {f}
               /\ Blame("digest", /\ server.declared[f] # Undeclared
                                  /\ size # server.declared[f] \/ ~matches)
    /\ UNCHANGED <<server, phase, listVars, getVars, dirVars, queue, budgetExhausted>>

ReadFails ==
    /\ phase = "calls"
    /\ \E f \in reading :
           /\ files' = [files EXCEPT ![f] = [Unread EXCEPT !.error = "failed"]]
           /\ reading' = reading \ {f}
    /\ UNCHANGED <<server, phase, listVars, getVars, dirVars, queue, received, budgetExhausted, faulty>>

----------------------------------------------------------------------------
Finish ==
    /\ phase = "calls"
    /\ OpenGets = {} /\ unknownGet # "not_made" /\ dirStep = "over"
    /\ queue = <<>> /\ reading = {}
    /\ phase' = "over"
    /\ UNCHANGED <<server, listVars, getVars, dirVars, fileVars, faulty>>

(* The handler of the deadline: what was in flight was cancelled, and did  *)
(* not record its own outcome.                                             *)
TimedOut_All == [u \in DOMAIN gets |-> "unobserved"]

TimedOut == [u \in DOMAIN gets |-> IF gets[u] = "pending" THEN "unobserved" ELSE gets[u]]

Deadline ==
    /\ phase \in {"list", "calls"}
    /\ phase' = "over"
    /\ budgetExhausted' = TRUE
    /\ IF phase = "calls"
       THEN gets' = TimedOut /\ UNCHANGED <<listError, listIncomplete>>
       ELSE /\ IF pagesRead = 0
               THEN listError' = "unobserved" /\ UNCHANGED listIncomplete
               ELSE listIncomplete' = TRUE /\ UNCHANGED listError
            /\ UNCHANGED gets
    /\ UNCHANGED <<server, entries, pagesRead, listMalformed, unknownGet, dirVars,
                   queue, reading, received, files, faulty>>

Done == phase = "over" /\ UNCHANGED vars

Next ==
    \/ PageArrives \/ PageFails \/ PageMalformed
    \/ GetAnswered \/ UnknownGetAnswered
    \/ RootPageArrives \/ RootPageFails \/ ProbeAnswered
    \/ StartRead \/ ReadAnswered \/ ReadFails
    \/ Finish \/ Deadline \/ Done

Spec == Init /\ [][Next]_vars

===============================================================================
