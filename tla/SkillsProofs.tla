---------------------------- MODULE SkillsProofs ----------------------------
(***************************************************************************)
(* Whatever a server serves and whenever calls fail, are cut off or are    *)
(* answered, no rule fails a server that did not answer wrongly.           *)
(***************************************************************************)
EXTENDS SkillsRules, TLAPS, WellFoundedInduction, FiniteSetTheorems

(* The evidence for each rule, as far as it is needed to see that a        *)
(* failing verdict rests on a wrong answer.                                *)
ListEvidence ==
    /\ listError \in {"none", "unobserved", "wrong"} /\ listMalformed \in BOOLEAN
    /\ listError = "wrong" \/ listMalformed => "list" \in faulty

GetEvidence ==
    /\ \A u \in DOMAIN gets :
           /\ gets[u] \in {"pending", "complete", "wrong", "unobserved"}
           /\ gets[u] = "wrong" => "get" \in faulty
    /\ phase # "calls" => \A u \in DOMAIN gets : gets[u] # "pending"

UnknownGetEvidence ==
    /\ unknownGet \in {"not_made", "refused", "complete", "wrong", "unobserved"}
    /\ unknownGet = "wrong" => "unknown" \in faulty

Children == (UNION ToSet(server.directory)) \cup {BadChild}

DirReadSet ==
    [error : {"not_made", "unobserved", "none", "wrong", "refused"},
     children : SUBSET Children, incomplete : BOOLEAN]

(* A root read so far holds the pages that arrived; the unknown child that *)
(* is asked for after it is not one of its children.                       *)
DirectoryShape ==
    /\ server \in Servers
    /\ dirStep \in DirKinds \cup {"over"}
    /\ dirReads \in [DirKinds -> DirReadSet]
    /\ dirStep = "skill_root" =>
           /\ dirPage \in Nat /\ dirPage < Len(server.directory)
           /\ \A i \in 1 .. dirPage : server.directory[i] \subseteq dirReads["skill_root"].children
    /\ dirStep = "unknown" => probed \notin Served

RootEvidence ==
    LET read == dirReads["skill_root"]
    IN  (/\ read.error \notin {"not_made", "unobserved"}
         /\ RootProblem(read)) => "directory" \in faulty

ChildOfRootEvidence == BadChild \in dirReads["skill_root"].children => "directory" \in faulty

ProbeEvidence ==
    \A k \in {"unknown", "file"} :
        dirReads[k].error \notin {"not_made", "unobserved", "refused"} => "directory" \in faulty

DirectoryEvidence == DirectoryShape /\ RootEvidence /\ ChildOfRootEvidence /\ ProbeEvidence

DigestEvidence ==
    \A f \in DOMAIN files :
        /\ files[f].matches \in BOOLEAN
        /\ (/\ server.declared[f] # Undeclared
            /\ files[f].error \in {"none", "too_large"}
            /\ Mismatch(f)) => "digest" \in faulty

IInv ==
    /\ ListEvidence /\ GetEvidence /\ UnknownGetEvidence
    /\ DirectoryEvidence /\ DigestEvidence

----------------------------------------------------------------------------
(* A server's directory is a sequence of pages, and the suffixed forms of  *)
(* the unknown child's name do not run out.                                *)
LEMMA DirectoryPages ==
    ASSUME server \in Servers
    PROVE  /\ Len(server.directory) \in Nat \ {0}
           /\ DOMAIN server.directory = 1 .. Len(server.directory)
           /\ \A i \in 1 .. Len(server.directory) : server.directory[i] \subseteq Children
           /\ BadChild \notin UNION ToSet(server.directory)
           /\ \E i \in DOMAIN UnknownNames : UnknownNames[i] \notin Children \cup server.manifest
<1>1. ServerSet(server)
  BY ServerAssumption
<1>2. server.directory \in Seq(SUBSET STRING) /\ server.directory # <<>>
  BY <1>1 DEF ServerSet
<1>3. \A i \in 1 .. Len(server.directory) : server.directory[i] \subseteq Children
  BY <1>2 DEF Children, ToSet
<1>4. /\ BadChild \notin UNION ToSet(server.directory)
      /\ \E i \in DOMAIN UnknownNames : UnknownNames[i] \notin Children \cup server.manifest
  BY ServerAssumption, Zenon DEF Children
<1>5. Len(server.directory) \in Nat \ {0} /\ DOMAIN server.directory = 1 .. Len(server.directory)
  BY <1>2
<1> QED
  BY <1>3, <1>4, <1>5

(* The first of the free names exists.                                     *)
LEMMA SmallestInSet ==
    ASSUME NEW S \in SUBSET Nat, S # {}
    PROVE  \E i \in S : \A j \in S : i <= j
<1>1. \E i \in S : \A j \in S : <<j, i>> \notin OpToRel(<, Nat)
  BY NatLessThanWellFounded, WFMin
<1>2. ASSUME NEW i \in S, NEW j \in S, j < i PROVE <<j, i>> \in OpToRel(<, Nat)
  <2>1. <<j, i>> \in Nat \X Nat /\ <<j, i>>[1] < <<j, i>>[2]
    BY <1>2
  <2> QED
    BY <2>1, Zenon DEF OpToRel
<1>3. \A i, j \in S : ~(j < i) => i <= j
  OBVIOUS
<1> QED
  BY <1>1, <1>2, <1>3, Zenon

(* Induction over the natural numbers, for a set of them.                  *)
LEMMA NatSetInduction ==
    ASSUME NEW G \in SUBSET Nat, 0 \in G, \A n \in Nat : n \in G => n + 1 \in G
    PROVE  G = Nat
<1> SUFFICES ASSUME Nat \ G # {} PROVE FALSE
  OBVIOUS
<1>1. PICK m \in Nat \ G : \A k \in Nat \ G : m <= k
  BY SmallestInSet
<1>2. m # 0 /\ m - 1 \in Nat
  BY <1>1
<1>3. m - 1 \in G
  BY <1>1, <1>2
<1> QED
  BY <1>2, <1>3

(* The elements of a sequence at some of its positions, up to m of them:   *)
(* such a function exists, and it is what At evaluates.                    *)
IsAt(at, s, P, m) ==
    /\ at[0] = <<>>
    /\ \A n \in 1 .. m : at[n] = IF n \in P THEN Append(at[n - 1], s[n]) ELSE at[n - 1]

LEMMA AtExists ==
    ASSUME NEW s, NEW P, NEW m \in Nat
    PROVE  \E at : IsAt(at, s, P, m)
<1> DEFINE G == { k \in Nat : \E at : IsAt(at, s, P, k) }
<1>1. 0 \in G
  <2>1. IsAt([n \in 0 .. 0 |-> <<>>], s, P, 0)
    BY DEF IsAt
  <2> QED
    BY <2>1
<1>2. ASSUME NEW k \in Nat, k \in G PROVE k + 1 \in G
  <2>1. PICK at : IsAt(at, s, P, k)
    BY <1>2
  <2> DEFINE longer == [n \in 0 .. k + 1 |->
                            IF n <= k THEN at[n]
                            ELSE IF n \in P THEN Append(at[n - 1], s[n]) ELSE at[n - 1]]
  <2>2. longer[0] = <<>>
    BY <2>1 DEF IsAt
  <2>3. ASSUME NEW n \in 1 .. k + 1
        PROVE  longer[n] = IF n \in P THEN Append(longer[n - 1], s[n]) ELSE longer[n - 1]
    <3>1. longer[n - 1] = at[n - 1]
      OBVIOUS
    <3>2. CASE n <= k
      BY <2>1, <3>1, <3>2 DEF IsAt
    <3>3. CASE n = k + 1
      BY <3>1, <3>3
    <3> QED
      BY <3>2, <3>3
  <2>4. IsAt(longer, s, P, k + 1)
    BY <2>2, <2>3 DEF IsAt
  <2> QED
    BY <2>4
<1>3. G = Nat
  BY <1>1, <1>2, NatSetInduction
<1> QED
  BY <1>3

LEMMA AtIsDefined ==
    ASSUME NEW s, Len(s) \in Nat, NEW P
    PROVE  \E at : IsAt(at, s, P, Len(s)) /\ At(s, P) = at[Len(s)]
<1> DEFINE Body(f) == [n \in 0 .. Len(s) |->
                           IF n = 0 THEN <<>>
                           ELSE IF n \in P THEN Append(f[n - 1], s[n]) ELSE f[n - 1]]
           chosen == CHOOSE f : f = Body(f)
<1>1. PICK at : IsAt(at, s, P, Len(s))
  BY AtExists
<1> DEFINE f == [n \in 0 .. Len(s) |-> at[n]]
<1>2. f = Body(f)
  BY <1>1 DEF IsAt
<1>3. chosen = Body(chosen)
  BY <1>2
<1>4. At(s, P) = chosen[Len(s)]
  BY DEF At
<1>5. \A g : g = Body(g) => IsAt(g, s, P, Len(s))
  <2> SUFFICES ASSUME NEW g, g = Body(g) PROVE IsAt(g, s, P, Len(s))
    OBVIOUS
  <2>1. \A n \in 0 .. Len(s) : g[n] = Body(g)[n]
    BY Zenon
  <2>2. /\ Body(g)[0] = <<>>
        /\ \A n \in 1 .. Len(s) :
               Body(g)[n] = IF n \in P THEN Append(g[n - 1], s[n]) ELSE g[n - 1]
    OBVIOUS
  <2> HIDE DEF Body
  <2> QED
    BY <2>1, <2>2 DEF IsAt
<1> QED
  BY <1>3, <1>4, <1>5, Zenon

(* It is a sequence, and its places are those positions in their order.    *)
Placed(t, s, P, n, place) ==
    /\ place \in [1 .. Len(t) -> P \cap (1 .. n)]
    /\ \A k \in 1 .. Len(t) : t[k] = s[place[k]]
    /\ \A k, l \in 1 .. Len(t) : k < l => place[k] < place[l]

LEMMA AtPlaces ==
    ASSUME NEW T, NEW s \in Seq(T), NEW P
    PROVE  At(s, P) \in Seq(T) /\ \E place : Placed(At(s, P), s, P, Len(s), place)
<1>1. PICK at : IsAt(at, s, P, Len(s)) /\ At(s, P) = at[Len(s)]
  BY AtIsDefined
<1>2. /\ at[0] = <<>>
      /\ \A n \in 1 .. Len(s) : at[n] = IF n \in P THEN Append(at[n - 1], s[n]) ELSE at[n - 1]
  BY <1>1 DEF IsAt
<1> DEFINE Good(n) == at[n] \in Seq(T) /\ \E place : Placed(at[n], s, P, n, place)
           G == { n \in Nat : n <= Len(s) => Good(n) }
<1>3. 0 \in G
  <2>1. Placed(<<>>, s, P, 0, [k \in {} |-> 0])
    BY DEF Placed
  <2>2. Good(0)
    BY <1>2, <2>1
  <2> QED
    BY <2>2
<1>4. ASSUME NEW m \in Nat, m \in G PROVE m + 1 \in G
  <2> SUFFICES ASSUME m + 1 <= Len(s) PROVE Good(m + 1)
    OBVIOUS
  <2>1. at[m] \in Seq(T) /\ \E place : Placed(at[m], s, P, m, place)
    BY <1>4
  <2>2. PICK place : Placed(at[m], s, P, m, place)
    BY <2>1
  <2>3. at[m + 1] = IF m + 1 \in P THEN Append(at[m], s[m + 1]) ELSE at[m]
    BY <1>2
  <2>4. CASE m + 1 \notin P
    <3>1. Placed(at[m + 1], s, P, m + 1, place)
      BY <2>2, <2>3, <2>4 DEF Placed
    <3> QED
      BY <2>1, <2>3, <2>4, <3>1
  <2>5. CASE m + 1 \in P
    <3> DEFINE further == [k \in 1 .. Len(at[m]) + 1 |->
                               IF k = Len(at[m]) + 1 THEN m + 1 ELSE place[k]]
    <3>1. at[m + 1] = Append(at[m], s[m + 1]) /\ s[m + 1] \in T /\ Len(at[m]) \in Nat
      BY <2>1, <2>3, <2>5
    <3>2. /\ at[m + 1] \in Seq(T) /\ Len(at[m + 1]) = Len(at[m]) + 1
          /\ at[m + 1][Len(at[m]) + 1] = s[m + 1]
          /\ \A k \in 1 .. Len(at[m]) : at[m + 1][k] = at[m][k]
      BY <2>1, <3>1
    <3>3. \A k \in 1 .. Len(at[m]) : place[k] \in P \cap (1 .. m)
      BY <2>2 DEF Placed
    <3>4. further \in [1 .. Len(at[m]) + 1 -> P \cap (1 .. m + 1)]
      BY <2>5, <3>1, <3>3
    <3>5. \A k \in 1 .. Len(at[m]) + 1 : at[m + 1][k] = s[further[k]]
      BY <2>2, <3>1, <3>2 DEF Placed
    <3>6. \A k, l \in 1 .. Len(at[m]) + 1 : k < l => further[k] < further[l]
      BY <2>2, <3>1, <3>3 DEF Placed
    <3>7. Placed(at[m + 1], s, P, m + 1, further)
      BY <3>2, <3>4, <3>5, <3>6 DEF Placed
    <3> QED
      BY <3>2, <3>7
  <2> QED
    BY <2>4, <2>5
<1>5. G = Nat
  BY <1>3, <1>4, NatSetInduction
<1>6. Len(s) \in G /\ Len(s) \in Nat
  BY <1>5
<1>7. Good(Len(s))
  BY <1>6
<1> QED
  BY <1>1, <1>7

(* Nothing that occurs once in a sequence occurs twice at its positions.   *)
NoRepeat(s) == \A i, j \in DOMAIN s : s[i] = s[j] => i = j

LEMMA AtRepeatsNothing ==
    ASSUME NEW T, NEW s \in Seq(T), NEW P,
           \A i, j \in P \cap DOMAIN s : s[i] = s[j] => i = j
    PROVE  NoRepeat(At(s, P))
<1>1. PICK place : Placed(At(s, P), s, P, Len(s), place)
  BY AtPlaces
<1>2. At(s, P) \in Seq(T)
  BY AtPlaces
<1>3. ASSUME NEW k \in DOMAIN At(s, P), NEW l \in DOMAIN At(s, P), At(s, P)[k] = At(s, P)[l], k < l
      PROVE  FALSE
  <2>1. k \in 1 .. Len(At(s, P)) /\ l \in 1 .. Len(At(s, P))
    BY <1>2
  <2>2. place[k] \in P \cap (1 .. Len(s)) /\ place[l] \in P \cap (1 .. Len(s)) /\ place[k] < place[l]
    BY <1>1, <1>3, <2>1 DEF Placed
  <2>3. s[place[k]] = s[place[l]]
    BY <1>1, <1>3, <2>1 DEF Placed
  <2> QED
    BY <2>2, <2>3
<1>4. \A k, l \in DOMAIN At(s, P) : k \in Int /\ l \in Int
  BY <1>2
<1> QED
  BY <1>3, <1>4 DEF NoRepeat

(* An empty sequence has nothing at any position.                          *)
LEMMA AtOfEmpty ==
    ASSUME NEW P
    PROVE  At(<<>>, P) = <<>>
<1>1. PICK at : IsAt(at, <<>>, P, Len(<<>>)) /\ At(<<>>, P) = at[Len(<<>>)]
  BY AtIsDefined
<1> QED
  BY <1>1 DEF IsAt

LEMMA DistinctRepeatsNothing ==
    ASSUME NEW T, NEW s \in Seq(T)
    PROVE  Distinct(s) \in Seq(T) /\ NoRepeat(Distinct(s))
<1> DEFINE first == { i \in DOMAIN s : \A j \in DOMAIN s : j < i => s[j] # s[i] }
<1>1. \A i, j \in first \cap DOMAIN s : s[i] = s[j] => i = j
  OBVIOUS
<1> HIDE DEF first
<1>2. NoRepeat(At(s, first))
  BY <1>1, AtRepeatsNothing
<1>3. At(s, first) \in Seq(T)
  BY AtPlaces
<1> QED
  BY <1>2, <1>3 DEF Distinct, first

LEMMA DistinctOfEmpty == Distinct(<<>>) = <<>>
  BY AtOfEmpty DEF Distinct

LEMMA FirstOfIsASequence ==
    ASSUME NEW T, NEW s \in Seq(T), NEW n \in Nat
    PROVE  FirstOf(s, n) \in Seq(T) /\ (s = <<>> => FirstOf(s, n) = <<>>)
  BY DEF FirstOf

(* No file is planned twice, and none before a skill is listed.            *)
LEMMA FilesToReadOnce ==
    ASSUME server \in Servers, NEW listed \in Seq(DOMAIN server.declared)
    PROVE  /\ FilesToRead(listed) \in Seq(DOMAIN server.declared)
           /\ NoRepeat(FilesToRead(listed))
           /\ listed = <<>> => FilesToRead(listed) = <<>>
<1> DEFINE D == DOMAIN server.declared
           extra == [i \in DOMAIN listed |-> server.extra[listed[i]]]
           named == { i \in DOMAIN extra : extra[i] # NoFile }
           extras == At(extra, named)
           all == FirstOf(listed, MaxSkillFiles) \o FirstOf(extras, MaxSupportingFiles)
<1>1. server.extra \in [D -> D \cup {NoFile}] /\ MaxSkillFiles \in Nat /\ MaxSupportingFiles \in Nat
  BY ServerAssumption, BoundAssumption DEF ServerSet
<1>2. extra \in Seq(D \cup {NoFile}) /\ Len(extra) = Len(listed) /\ (listed = <<>> => extra = <<>>)
  <2>1. DOMAIN listed = 1 .. Len(listed) /\ Len(listed) \in Nat /\ \A i \in DOMAIN listed : listed[i] \in D
    OBVIOUS
  <2> QED
    BY <1>1, <2>1
<1>3. extras \in Seq(D)
  <2> HIDE DEF extra
  <2>1. PICK place : Placed(extras, extra, named, Len(extra), place)
    BY <1>2, AtPlaces
  <2>2. extras \in Seq(D \cup {NoFile})
    BY <1>2, AtPlaces
  <2>3. ASSUME NEW k \in 1 .. Len(extras) PROVE extras[k] \in D
    <3>1. place[k] \in named /\ extras[k] = extra[place[k]]
      BY <2>1 DEF Placed
    <3> QED
      BY <1>2, <3>1
  <2> QED
    BY <2>2, <2>3
<1>4. listed = <<>> => extras = <<>>
  BY <1>2, AtOfEmpty
<1> HIDE DEF extras
<1>5. all \in Seq(D) /\ (listed = <<>> => all = <<>>)
  <2>1. FirstOf(listed, MaxSkillFiles) \in Seq(D) /\ FirstOf(extras, MaxSupportingFiles) \in Seq(D)
    BY <1>1, <1>3, FirstOfIsASequence
  <2>2. listed = <<>> => FirstOf(listed, MaxSkillFiles) = <<>> /\ FirstOf(extras, MaxSupportingFiles) = <<>>
    BY <1>1, <1>3, <1>4, FirstOfIsASequence
  <2> QED
    BY <2>1, <2>2
<1>6. FilesToRead(listed) = Distinct(all)
  BY DEF FilesToRead, extras
<1> HIDE DEF all
<1> QED
  BY <1>5, <1>6, DistinctRepeatsNothing, DistinctOfEmpty

LEMMA PlannedOnce ==
    ASSUME server \in Servers, NEW listed \in Seq(DOMAIN server.declared)
    PROVE  /\ Plan(listed).reads \in Seq(DOMAIN server.declared)
           /\ NoRepeat(Plan(listed).reads)
           /\ \A i \in DOMAIN Plan(listed).reads : server.declared[Plan(listed).reads[i]] <= MaxFileBytes
           /\ listed = <<>> => Plan(listed).reads = <<>>
<1> DEFINE wanted == FilesToRead(listed)
           Fits(P) == \A n \in P \cap DOMAIN wanted : server.declared[wanted[n]] <= MaxFileBytes
<1>1. \E P : Fits(P) /\ Plan(listed).reads = At(wanted, P)
  BY DEF Plan
<1>2. PICK P : Fits(P) /\ Plan(listed).reads = At(wanted, P)
  BY <1>1
<1>3. wanted \in Seq(DOMAIN server.declared) /\ NoRepeat(wanted) /\ (listed = <<>> => wanted = <<>>)
  BY FilesToReadOnce
<1> HIDE DEF wanted
<1>4. NoRepeat(At(wanted, P)) /\ At(wanted, P) \in Seq(DOMAIN server.declared)
  BY <1>3, AtRepeatsNothing, AtPlaces DEF NoRepeat
<1>5. ASSUME NEW i \in DOMAIN At(wanted, P) PROVE server.declared[At(wanted, P)[i]] <= MaxFileBytes
  <2>1. PICK place : Placed(At(wanted, P), wanted, P, Len(wanted), place)
    BY <1>3, AtPlaces
  <2>2. i \in 1 .. Len(At(wanted, P))
    BY <1>4
  <2>3. place[i] \in P \cap (1 .. Len(wanted)) /\ At(wanted, P)[i] = wanted[place[i]]
    BY <2>1, <2>2 DEF Placed
  <2>4. place[i] \in P \cap DOMAIN wanted
    BY <1>3, <2>3
  <2> QED
    BY <1>2, <2>3, <2>4
<1> QED
  BY <1>2, <1>3, <1>4, <1>5, AtOfEmpty

LEMMA SkillsOfNoListing == ToSet(ListedSkills(<<>>)) = {}
<1>1. MaxSkillFiles \in Nat /\ <<>> \in Seq({})
  BY BoundAssumption
<1>2. FirstOf(<<>>, MaxSkillFiles) = <<>>
  BY <1>1, FirstOfIsASequence
<1>3. ListedSkills(<<>>) = <<>>
  BY <1>2, DistinctOfEmpty DEF ListedSkills
<1> QED
  BY <1>3 DEF ToSet

(* The name asked for as unknown is no child that was read or is named by  *)
(* the manifest.                                                           *)
LEMMA UnknownChildIsFree ==
    ASSUME server \in Servers,
           NEW children, children \subseteq Children
    PROVE  UnknownChild(children) \notin children \cup server.manifest
<1> DEFINE free == { i \in DOMAIN UnknownNames : UnknownNames[i] \notin children \cup server.manifest }
<1>1. free # {} /\ free \subseteq Nat
  BY DirectoryPages, BoundAssumption
<1>2. PICK i \in free : \A j \in free : i <= j
  BY <1>1, SmallestInSet
<1> QED
  BY <1>2 DEF UnknownChild

(* Nothing is taken back from the history of wrong answers.                *)
LEMMA FaultyGrows ==
    ASSUME [Next]_vars
    PROVE  faulty \subseteq faulty'
  BY DEF Next, vars, PageArrives, PageFails, PageMalformed, GetAnswered, UnknownGetAnswered,
         RootPageArrives, RootPageFails, ProbeAnswered, StartRead, ReadAnswered, ReadFails,
         Finish, Deadline, Done, Blame, StartCalls, OnlyDirectory

----------------------------------------------------------------------------
(* Before anything is listed there is no evidence against a server.        *)
LEMMA InitIInv == Init => IInv
<1> SUFFICES ASSUME Init PROVE IInv
  OBVIOUS
<1>1. ListEvidence
  BY DEF Init, ListEvidence
<1>2. GetEvidence
  BY DEF Init, GetEvidence
<1>3. UnknownGetEvidence
  BY DEF Init, UnknownGetEvidence
<1>4. DirectoryEvidence
  BY DEF Init, DirectoryEvidence, DirectoryShape, RootEvidence, ChildOfRootEvidence,
         ProbeEvidence, DirReadSet, NotMade, DirKinds
<1>5. DigestEvidence
  BY DEF Init, DigestEvidence, Unread
<1> QED
  BY <1>1, <1>2, <1>3, <1>4, <1>5 DEF IInv

(* The listing is answered wrongly on its first page, or malformed.        *)
LEMMA ListStep ==
    ASSUME IInv, [Next]_vars
    PROVE  ListEvidence'
<1> USE FaultyGrows DEF IInv, ListEvidence
<1>1. CASE PageFails
  BY <1>1 DEF PageFails, Blame
<1>2. CASE PageMalformed
  BY <1>2 DEF PageMalformed, Blame
<1>3. CASE Deadline
  BY <1>3 DEF Deadline
<1>4. CASE UNCHANGED <<listError, listMalformed>>
  BY <1>4
<1>5. \/ PageFails \/ PageMalformed \/ Deadline
      \/ UNCHANGED <<listError, listMalformed>>
  BY DEF Next, vars, listVars, PageArrives, GetAnswered, UnknownGetAnswered, RootPageArrives,
         RootPageFails, ProbeAnswered, StartRead, ReadAnswered, ReadFails, Finish, Done, OnlyDirectory
<1> QED
  BY <1>1, <1>2, <1>3, <1>4, <1>5

(* A get is pending only while the calls are made: Finish waits for all of *)
(* them, and the deadline turns the others into ones that nobody observed. *)
LEMMA GetStep ==
    ASSUME IInv, [Next]_vars
    PROVE  GetEvidence'
<1> USE FaultyGrows DEF IInv, GetEvidence
<1>1. CASE StartCalls
  BY <1>1 DEF StartCalls
<1>2. CASE GetAnswered
  BY <1>2 DEF GetAnswered, OpenGets, Blame
<1>3. CASE Finish
  BY <1>3 DEF Finish, OpenGets, getVars
<1>4. CASE Deadline
  BY <1>4 DEF Deadline, TimedOut
<1>5. CASE UNCHANGED <<phase, gets>>
  BY <1>5
<1>6. \/ StartCalls \/ GetAnswered \/ Finish \/ Deadline
      \/ UNCHANGED <<phase, gets>>
  BY DEF Next, vars, getVars, PageArrives, PageFails, PageMalformed, UnknownGetAnswered,
         RootPageArrives, RootPageFails, ProbeAnswered, StartRead, ReadAnswered, ReadFails,
         Done, OnlyDirectory
<1> QED
  BY <1>1, <1>2, <1>3, <1>4, <1>5, <1>6

(* A skill that exists after all is no wrong answer.                       *)
LEMMA UnknownGetStep ==
    ASSUME IInv, [Next]_vars
    PROVE  UnknownGetEvidence'
<1> USE FaultyGrows DEF IInv, UnknownGetEvidence
<1>1. CASE UnknownGetAnswered
  BY <1>1 DEF UnknownGetAnswered, Blame
<1>2. CASE UNCHANGED unknownGet
  BY <1>2
<1>3. UnknownGetAnswered \/ UNCHANGED unknownGet
  BY DEF Next, vars, getVars, PageArrives, PageFails, PageMalformed, GetAnswered, StartCalls,
         RootPageArrives, RootPageFails, ProbeAnswered, StartRead, ReadAnswered, ReadFails,
         Finish, Deadline, Done, OnlyDirectory
<1> QED
  BY <1>1, <1>2, <1>3

(* Only a file whose bytes arrived is judged, and it is blamed as it comes.*)
LEMMA DigestStep ==
    ASSUME IInv, [Next]_vars
    PROVE  DigestEvidence'
<1> USE FaultyGrows DEF IInv, DigestEvidence, Mismatch
<1>1. UNCHANGED server
  BY DEF Next, vars, PageArrives, PageFails, PageMalformed, GetAnswered, UnknownGetAnswered, StartCalls,
         RootPageArrives, RootPageFails, ProbeAnswered, StartRead, ReadAnswered, ReadFails,
         Finish, Deadline, Done, OnlyDirectory
<1>2. CASE ReadAnswered
  BY <1>1, <1>2 DEF ReadAnswered, Blame
<1>3. CASE ReadFails
  BY <1>1, <1>3 DEF ReadFails, Unread
<1>4. CASE UNCHANGED files
  BY <1>1, <1>4
<1>5. ReadAnswered \/ ReadFails \/ UNCHANGED files
  BY DEF Next, vars, fileVars, PageArrives, PageFails, PageMalformed, GetAnswered, StartCalls,
         UnknownGetAnswered, RootPageArrives, RootPageFails, ProbeAnswered, StartRead,
         Finish, Deadline, Done, OnlyDirectory
<1> QED
  BY <1>2, <1>3, <1>4, <1>5

----------------------------------------------------------------------------
(* The directory reads start with the calls, if they are made at all.      *)
LEMMA DirectoryStart ==
    ASSUME IInv, StartCalls, faulty \subseteq faulty'
    PROVE  DirectoryEvidence'
<1> USE DEF IInv, DirectoryEvidence, DirectoryShape, RootEvidence, ChildOfRootEvidence, ProbeEvidence
<1>1. UNCHANGED server
  BY DEF StartCalls
<1>2. CASE AskDirectory("skill_root")
  <2>1. /\ dirStep' = "skill_root" /\ dirPage' = 0
        /\ dirReads' = [dirReads EXCEPT !["skill_root"] = DirectoryAsked]
        /\ DirectoryAsked \in DirReadSet
    BY <1>2 DEF AskDirectory, DirectoryAsked, DirReadSet
  <2>2. DirectoryShape'
    BY <1>1, <2>1, DirectoryPages DEF DirKinds, DirReadSet, Children
  <2>3. RootEvidence' /\ ChildOfRootEvidence' /\ ProbeEvidence'
    BY <2>1 DEF DirectoryAsked, DirKinds
  <2> QED
    BY <2>2, <2>3
<1>3. CASE UNCHANGED <<dirStep, dirPage, dirReads, probed>>
  BY <1>1, <1>3 DEF RootProblem, Served, DirReadSet, Children
<1> QED
  BY <1>2, <1>3 DEF StartCalls

(* A page of the root: when it was the last one, every child was read, and *)
(* the unknown child is chosen among the names that are none of them.      *)
LEMMA RootPageStep ==
    ASSUME IInv, RootPageArrives
    PROVE  DirectoryEvidence'
<1> USE DEF IInv, DirectoryEvidence
<1>1. PICK intruders \in {{}, {BadChild}} : RootPageArrives!2!(intruders)
  BY DEF RootPageArrives
<1> DEFINE children == dirReads["skill_root"].children \cup server.directory[dirPage + 1] \cup intruders
           badCursor == LastDirPage /\ server.dirCursor = "bad"
           read == [error |-> IF badCursor THEN "wrong" ELSE "none", children |-> children,
                    incomplete |-> ~(LastDirPage /\ server.dirCursor = "none")]
<1>2. /\ Blame("directory", \/ intruders # {} \/ badCursor
                            \/ ~read.incomplete /\ SkillMd \notin children)
      /\ IF ~RootEnds
         THEN SetRead(read) /\ dirPage' = dirPage + 1 /\ UNCHANGED <<dirStep, probed>>
         ELSE IF ~RootWhole THEN SetRead(read) /\ DirectoryOver
         ELSE /\ dirStep' = "unknown" /\ dirPage' = 0
              /\ dirReads' = [dirReads EXCEPT !["skill_root"] = read, !["unknown"] = DirectoryAsked]
              /\ probed' = UnknownChild(children)
  BY <1>1
<1>3. /\ UNCHANGED server /\ server \in Servers /\ dirStep = "skill_root"
      /\ dirPage \in Nat /\ dirPage < Len(server.directory)
      /\ \A i \in 1 .. dirPage : server.directory[i] \subseteq dirReads["skill_root"].children
      /\ dirReads \in [DirKinds -> DirReadSet]
  BY DEF RootPageArrives, InDirectory, OnlyDirectory, DirectoryShape
<1>4. /\ dirReads["skill_root"].children \subseteq Children
      /\ server.directory[dirPage + 1] \subseteq Children
  BY <1>3, DirectoryPages DEF DirKinds, DirReadSet
<1>5. children \subseteq Children /\ \A i \in 1 .. dirPage + 1 : server.directory[i] \subseteq children
  <2>1. children \subseteq Children
    BY <1>4 DEF Children
  <2>2. ASSUME NEW i \in 1 .. dirPage + 1 PROVE server.directory[i] \subseteq children
    <3>1. i \in 1 .. dirPage \/ i = dirPage + 1
      BY <1>3
    <3> QED
      BY <1>3, <3>1
  <2> QED
    BY <2>1, <2>2
<1>6. read \in DirReadSet /\ DirectoryAsked \in DirReadSet
  BY <1>5 DEF DirReadSet, DirectoryAsked
<1>7. faulty \subseteq faulty'
  BY <1>2 DEF Blame
<1>8. RootProblem(read) \/ BadChild \in children => "directory" \in faulty'
  <2>1. BadChild \in children => "directory" \in faulty'
    <3>1. BadChild \notin server.directory[dirPage + 1]
      BY <1>3, DirectoryPages DEF ToSet
    <3>2. intruders # {} => "directory" \in faulty'
      BY <1>2 DEF Blame
    <3> QED
      BY <1>7, <3>1, <3>2 DEF ChildOfRootEvidence
  <2>2. badCursor \/ (~read.incomplete /\ SkillMd \notin children) => "directory" \in faulty'
    BY <1>2 DEF Blame
  <2>3. RootProblem(read) => \/ badCursor \/ BadChild \in children
                             \/ ~read.incomplete /\ SkillMd \notin children
    BY DEF RootProblem
  <2> HIDE DEF children, read, badCursor
  <2> QED
    BY <2>1, <2>2, <2>3
<1> HIDE DEF children, read
<1>9. /\ dirReads'["skill_root"] = read /\ dirReads' \in [DirKinds -> DirReadSet]
      /\ dirReads'["unknown"] \in {dirReads["unknown"], DirectoryAsked}
      /\ dirReads'["file"] = dirReads["file"]
  BY <1>2, <1>3, <1>6 DEF SetRead, DirKinds
<1>10. RootEvidence' /\ ChildOfRootEvidence' /\ ProbeEvidence'
  <2>1. RootEvidence'
    BY <1>8, <1>9 DEF RootEvidence, RootProblem
  <2>2. ChildOfRootEvidence'
    BY <1>8, <1>9 DEF ChildOfRootEvidence, read
  <2>3. ProbeEvidence'
    BY <1>7, <1>9 DEF ProbeEvidence, DirectoryAsked
  <2> QED
    BY <2>1, <2>2, <2>3
<1>11. DirectoryShape'
  <2>1. CASE ~RootEnds
    <3>1. /\ dirStep' = "skill_root" /\ dirPage' = dirPage + 1 /\ dirPage + 1 < Len(server.directory)
      BY <1>2, <1>3, <2>1, DirectoryPages DEF RootEnds, LastDirPage
    <3>2. dirReads'["skill_root"].children = children
      BY <1>9 DEF read
    <3> QED
      BY <1>3, <1>5, <1>9, <3>1, <3>2 DEF DirectoryShape, DirKinds, DirReadSet, Children
  <2>2. CASE RootEnds /\ ~RootWhole
    <3>1. dirStep' = "over"
      BY <1>2, <2>2 DEF DirectoryOver
    <3> QED
      BY <1>3, <1>9, <3>1 DEF DirectoryShape, DirKinds, DirReadSet, Children
  <2>3. CASE RootEnds /\ RootWhole
    <3>1. dirStep' = "unknown" /\ probed' = UnknownChild(children)
      BY <1>2, <2>3
    <3>2. UnknownChild(children) \notin children \cup server.manifest
      BY <1>3, <1>5, UnknownChildIsFree
    <3>3. UNION ToSet(server.directory) \subseteq children
      BY <1>3, <1>5, <2>3, DirectoryPages DEF RootWhole, LastDirPage, ToSet
    <3>4. probed' \notin Served'
      BY <1>3, <3>1, <3>2, <3>3 DEF Served
    <3> QED
      BY <1>3, <1>9, <3>1, <3>4 DEF DirectoryShape, DirKinds, DirReadSet, Children
  <2> QED
    BY <2>1, <2>2, <2>3
<1> QED
  BY <1>10, <1>11

(* A page that does not come leaves those that did, and their number.      *)
LEMMA RootFailStep ==
    ASSUME IInv, RootPageFails
    PROVE  DirectoryEvidence'
<1> USE DEF IInv, DirectoryEvidence
<1>1. PICK error \in {"unobserved", "wrong"} : RootPageFails!2!(error)
  BY DEF RootPageFails
<1> DEFINE old == dirReads["skill_root"]
           read == dirReads'["skill_root"]
<1>2. /\ UNCHANGED server /\ server \in Servers /\ dirStep' = "over"
      /\ dirReads \in [DirKinds -> DirReadSet] /\ old \in DirReadSet
  BY DEF RootPageFails, OnlyDirectory, DirectoryOver, DirectoryShape, DirKinds
<1>3. faulty \subseteq faulty' /\ (error = "wrong" => "directory" \in faulty')
  BY <1>1 DEF Blame
<1>4. dirReads' = [dirReads EXCEPT !["skill_root"] = read]
  BY <1>1, <1>2 DEF SetRead, InDirectory, RootPageFails, DirKinds
<1>5. /\ read \in DirReadSet /\ read.children = old.children
      /\ error = "wrong" \/ read.error = "unobserved"
             \/ (read.error = old.error /\ read.incomplete = old.incomplete)
  <2>1. CASE dirPage = 0
    <3>1. read = [old EXCEPT !.error = error, !.incomplete = FALSE]
      BY <1>1, <1>2, <2>1 DEF SetRead, InDirectory, RootPageFails, DirKinds
    <3> QED
      BY <1>2, <3>1 DEF DirReadSet
  <2>2. CASE dirPage # 0
    <3>1. read = [old EXCEPT !.error = IF error = "wrong" THEN "wrong" ELSE @]
      BY <1>1, <1>2, <2>2 DEF SetRead, InDirectory, RootPageFails, DirKinds
    <3> QED
      BY <1>2, <3>1 DEF DirReadSet
  <2> QED
    BY <2>1, <2>2
<1> HIDE DEF read
<1>6. /\ dirReads' \in [DirKinds -> DirReadSet] /\ dirReads'["skill_root"] = read
      /\ \A k \in DirKinds \ {"skill_root"} : dirReads'[k] = dirReads[k]
  BY <1>2, <1>4, <1>5 DEF DirKinds
<1>7. DirectoryShape'
  BY <1>2, <1>6 DEF DirectoryShape, DirKinds, DirReadSet, Children
<1>8. RootEvidence' /\ ChildOfRootEvidence'
  BY <1>3, <1>5, <1>6 DEF RootEvidence, ChildOfRootEvidence, RootProblem
<1>9. ProbeEvidence'
  BY <1>3, <1>6 DEF ProbeEvidence, DirKinds
<1> QED
  BY <1>7, <1>8, <1>9

(* The unknown child is not served, so that an answer that gives it is a   *)
(* wrong one, and so is a directory read of the skill's own file.          *)
LEMMA ProbeStep ==
    ASSUME IInv, ProbeAnswered
    PROVE  DirectoryEvidence'
<1> USE DEF IInv, DirectoryEvidence
<1>1. PICK answer \in {"refused", "wrong", "unobserved"} : ProbeAnswered!2!(answer)
  BY DEF ProbeAnswered
<1> DEFINE read == [dirReads[dirStep] EXCEPT !.error = answer, !.incomplete = FALSE]
<1>2. /\ UNCHANGED server /\ server \in Servers /\ dirStep \in {"unknown", "file"}
      /\ dirReads \in [DirKinds -> DirReadSet]
  BY DEF ProbeAnswered, InDirectory, OnlyDirectory, DirectoryShape
<1>3. dirStep = "unknown" => probed \notin Served
  BY DEF DirectoryShape
<1>4. faulty \subseteq faulty' /\ (answer = "wrong" => "directory" \in faulty')
  BY <1>1, <1>3 DEF Blame
<1>5. read \in DirReadSet /\ DirectoryAsked \in DirReadSet /\ read.error = answer
  BY <1>2 DEF DirReadSet, DirectoryAsked, DirKinds, Children
<1>6. /\ dirReads' \in [DirKinds -> DirReadSet]
      /\ dirReads'["skill_root"] = dirReads["skill_root"]
      /\ dirReads'[dirStep].error = answer
      /\ \A k \in {"unknown", "file"} \ {dirStep} :
             dirReads'[k].error \in {dirReads[k].error, "unobserved"}
      /\ dirStep' \in {"file", "over"}
  <2> HIDE DEF read
  <2>1. CASE dirStep = "unknown"
    <3>1. /\ dirReads' = [dirReads EXCEPT !["unknown"] = read, !["file"] = DirectoryAsked]
          /\ dirStep' = "file" /\ DirectoryAsked.error = "unobserved"
      BY <1>1, <2>1 DEF read, DirectoryAsked
    <3> QED
      BY <1>2, <1>5, <2>1, <3>1 DEF DirKinds
  <2>2. CASE dirStep = "file"
    <3>1. dirReads' = [dirReads EXCEPT !["file"] = read] /\ dirStep' = "over"
      BY <1>1, <2>2 DEF read, SetRead, DirectoryOver
    <3> QED
      BY <1>2, <1>5, <2>2, <3>1 DEF DirKinds
  <2> QED
    BY <1>2, <2>1, <2>2
<1> HIDE DEF read
<1>7. DirectoryShape'
  BY <1>2, <1>6 DEF DirectoryShape, DirKinds, DirReadSet, Children
<1>8. RootEvidence' /\ ChildOfRootEvidence'
  BY <1>4, <1>6 DEF RootEvidence, ChildOfRootEvidence, RootProblem
<1>9. ProbeEvidence'
  BY <1>2, <1>4, <1>6 DEF ProbeEvidence
<1> QED
  BY <1>7, <1>8, <1>9

(* The directory reads change in no other step.                            *)
LEMMA DirectoryStep ==
    ASSUME IInv, [Next]_vars
    PROVE  DirectoryEvidence'
<1>1. CASE StartCalls
  BY <1>1, DirectoryStart, FaultyGrows
<1>2. CASE RootPageArrives
  BY <1>2, RootPageStep
<1>3. CASE RootPageFails
  BY <1>3, RootFailStep
<1>4. CASE ProbeAnswered
  BY <1>4, ProbeStep
<1>5. CASE UNCHANGED <<server, dirStep, dirPage, dirReads, probed>>
  BY <1>5, FaultyGrows DEF IInv, DirectoryEvidence, DirectoryShape, RootEvidence, RootProblem,
         ChildOfRootEvidence, ProbeEvidence, Served, DirReadSet, Children
<1>6. \/ StartCalls \/ RootPageArrives \/ RootPageFails \/ ProbeAnswered
      \/ UNCHANGED <<server, dirStep, dirPage, dirReads, probed>>
  BY DEF Next, vars, dirVars, PageArrives, PageFails, PageMalformed, GetAnswered, UnknownGetAnswered,
         StartRead, ReadAnswered, ReadFails, Finish, Deadline, Done
<1> QED
  BY <1>1, <1>2, <1>3, <1>4, <1>5, <1>6

----------------------------------------------------------------------------
(* A rule fails on evidence alone, and each piece of it was blamed.        *)
LEMMA Evidence == IInv => FailureNeedsAFault
<1> SUFFICES ASSUME IInv, phase = "over", NEW r \in Rules, Verdict[r] = "fail"
             PROVE  r \in faulty
  BY DEF FailureNeedsAFault
<1> USE DEF IInv, Verdict, Observed
<1>1. CASE r = "list"
  BY <1>1 DEF ListVerdict, ListEvidence
<1>2. CASE r = "get"
  BY <1>2 DEF GetVerdict, GetEvidence
<1>3. CASE r = "unknown"
  BY <1>3 DEF UnknownGetVerdict, UnknownGetEvidence
<1>4. CASE r = "directory"
  <2>1. PICK k \in AnsweredReads : DirectoryIssue(k)
    BY <1>4 DEF DirectoryVerdict
  <2> QED
    BY <1>4, <2>1 DEF AnsweredReads, DirectoryIssue, DirectoryEvidence, RootEvidence, ProbeEvidence, DirKinds
<1>5. CASE r = "digest"
  BY <1>5 DEF DigestVerdict, JudgedFiles, DigestEvidence
<1> QED
  BY <1>1, <1>2, <1>3, <1>4, <1>5 DEF Rules

(* No rule of rules/skills.py fails a server that gave no wrong answer to  *)
(* it, however many skills, pages and files there are and whatever timed   *)
(* out, was refused for want of a credential or was cut off.               *)
THEOREM NoFalseBlame == Spec => []FailureNeedsAFault
<1>1. Init => IInv
  BY InitIInv
<1>2. IInv /\ [Next]_vars => IInv'
  <2> SUFFICES ASSUME IInv, [Next]_vars PROVE IInv'
    OBVIOUS
  <2> QED
    BY ListStep, GetStep, UnknownGetStep, DirectoryStep, DigestStep DEF IInv
<1>3. IInv => FailureNeedsAFault
  BY Evidence
<1> QED
  BY <1>1, <1>2, <1>3, PTL DEF Spec

----------------------------------------------------------------------------
(* The converse: what it takes to see that a wrong answer that was         *)
(* received is still there to be judged when the collection is over.       *)
(* Nothing is asked of a skill, and no answer is wrong, before the         *)
(* listing ends.                                                           *)
ListingShape ==
    /\ phase \in {"list", "calls", "over"}
    /\ faulty \subseteq Rules
    /\ entries \in Seq(DOMAIN server.declared)
    /\ pagesRead \in Nat /\ (pagesRead = 0 => entries = <<>>)
    /\ phase = "list" => pagesRead < Len(server.pages) /\ listError = "none" /\ faulty = {}

Untouched ==
    phase = "list" =>
        /\ DOMAIN gets = {}
        /\ queue = <<>> /\ reading = {}
        /\ dirStep = "over" /\ dirReads = [k \in DirKinds |-> NotMade]
        /\ files = [f \in DOMAIN server.declared |-> Unread]

(* The rules about the calls need a skill that was listed.                 *)
CallsNeedASkill ==
    (\/ DOMAIN gets # {} \/ queue # <<>> \/ reading # {} \/ dirStep # "over"
     \/ faulty \cap {"get", "directory", "digest"} # {}) => entries # <<>>

ListKept ==
    "list" \in faulty => listError # "unobserved" /\ (listError = "wrong" \/ listMalformed)

GetKept == "get" \in faulty => \E u \in DOMAIN gets : gets[u] = "wrong"

UnknownGetKept == "unknown" \in faulty => unknownGet = "wrong"

(* A directory read starts unobserved, after the ones before it are over.  *)
ReadsInOrder ==
    /\ dirStep = "skill_root" =>
           /\ dirReads["unknown"] = NotMade /\ dirReads["file"] = NotMade
           /\ dirPage = 0 => dirReads["skill_root"].error = "unobserved"
           /\ dirPage # 0 => dirReads["skill_root"].error = "none" /\ dirReads["skill_root"].incomplete
    /\ dirStep = "unknown" => dirReads["unknown"].error = "unobserved" /\ dirReads["file"] = NotMade
    /\ dirStep = "file" => dirReads["file"].error = "unobserved"

DirectoryKept ==
    /\ dirStep # "over" \/ "directory" \in faulty => server.directoryRead
    /\ "directory" \in faulty => \E k \in AnsweredReads : DirectoryIssue(k)

(* A file is read once: what is in flight or still to read was not read,   *)
(* and it is not declared as too large.                                    *)
ReadOnce ==
    /\ DOMAIN files = DOMAIN server.declared
    /\ queue \in Seq(DOMAIN files) /\ reading \subseteq DOMAIN files
    /\ NoRepeat(queue)
    /\ \A i \in DOMAIN queue : queue[i] \notin reading
    /\ \A f \in reading \cup { queue[i] : i \in DOMAIN queue } :
           files[f] = Unread /\ server.declared[f] <= MaxFileBytes

DigestKept == "digest" \in faulty => \E f \in JudgedFiles : Mismatch(f)

KInv ==
    /\ IInv
    /\ ListingShape /\ Untouched /\ CallsNeedASkill
    /\ ListKept /\ GetKept /\ UnknownGetKept
    /\ ReadsInOrder /\ DirectoryKept /\ ReadOnce /\ DigestKept

(* Before anything is listed no answer was received.                       *)
LEMMA InitKInv == Init => KInv
<1> SUFFICES ASSUME Init PROVE KInv
  OBVIOUS
<1>1. IInv
  BY InitIInv
<1>2. ListingShape /\ Untouched
  <2>1. server.pages # <<>> /\ server.pages \in Seq(Seq(DOMAIN server.declared))
    BY ServerAssumption DEF Init, ServerSet
  <2>2. 0 < Len(server.pages)
    BY <2>1
  <2> QED
    BY <2>2 DEF Init, ListingShape, Untouched
<1>3. CallsNeedASkill /\ ListKept /\ GetKept /\ UnknownGetKept
  BY DEF Init, CallsNeedASkill, ListKept, GetKept, UnknownGetKept
<1>4. ReadsInOrder /\ DirectoryKept
  BY DEF Init, ReadsInOrder, DirectoryKept
<1>5. ReadOnce /\ DigestKept
  BY DEF Init, ReadOnce, NoRepeat, DigestKept
<1> QED
  BY <1>1, <1>2, <1>3, <1>4, <1>5 DEF KInv

(* While it lists, the collection asks for nothing else.                   *)
LEMMA Listing ==
    ASSUME KInv, Next, phase = "list"
    PROVE  /\ UNCHANGED server /\ server \in Servers
           /\ entries' \in Seq(DOMAIN server.declared)
           /\ pagesRead' \in Nat /\ (pagesRead' = 0 => entries' = <<>>)
           /\ faulty' \subseteq {"list"}
           /\ \/ StartCalls
              \/ /\ phase' = "list" /\ pagesRead' < Len(server.pages)
                 /\ UNCHANGED <<getVars, dirVars, fileVars, listError, listMalformed, faulty>>
              \/ /\ phase' = "over"
                 /\ UNCHANGED <<gets, unknownGet, dirVars, queue, reading, files, listMalformed, faulty>>
<1> USE DEF KInv, ListingShape
<1>1. server \in Servers /\ server.pages \in Seq(Seq(DOMAIN server.declared))
  BY ServerAssumption DEF IInv, DirectoryEvidence, DirectoryShape, ServerSet
<1>2. CASE PageArrives
  <2>1. server.pages[pagesRead + 1] \in Seq(DOMAIN server.declared)
    BY <1>1
  <2>2. /\ entries' = entries \o server.pages[pagesRead + 1] /\ pagesRead' = pagesRead + 1
        /\ UNCHANGED <<listError, listMalformed, faulty>>
    BY <1>2 DEF PageArrives
  <2>3. entries' \in Seq(DOMAIN server.declared)
    <3>1. entries \in Seq(DOMAIN server.declared)
      OBVIOUS
    <3>2. \A T : \A a, b \in Seq(T) : a \o b \in Seq(T)
      OBVIOUS
    <3> QED
      BY <2>1, <2>2, <3>1, <3>2, Zenon
  <2>4. CASE StartCalls
    BY <1>1, <2>2, <2>3, <2>4 DEF StartCalls
  <2>5. CASE ~LastPage /\ UNCHANGED <<server, phase, getVars, dirVars, fileVars>>
    BY <1>1, <2>2, <2>3, <2>5 DEF LastPage
  <2> QED
    BY <1>2, <2>4, <2>5 DEF PageArrives
<1>3. CASE PageFails
  BY <1>1, <1>3 DEF PageFails, StartCalls, Blame
<1>4. CASE PageMalformed
  BY <1>1, <1>4 DEF PageMalformed, StartCalls, Blame
<1>5. CASE Deadline
  BY <1>1, <1>5 DEF Deadline
<1> QED
  BY <1>2, <1>3, <1>4, <1>5
  DEF Next, GetAnswered, UnknownGetAnswered, RootPageArrives, RootPageFails, ProbeAnswered, InDirectory,
      StartRead, ReadAnswered, ReadFails, Finish, Done

(* Afterwards nothing more is listed.                                      *)
LEMMA Calling ==
    ASSUME [Next]_vars, phase # "list"
    PROVE  UNCHANGED <<server, entries, pagesRead, listError, listMalformed>> /\ phase' \in {phase, "over"}
  BY DEF Next, vars, listVars, PageArrives, PageFails, PageMalformed, GetAnswered, UnknownGetAnswered,
         RootPageArrives, RootPageFails, ProbeAnswered, StartRead, ReadAnswered, ReadFails,
         Finish, Deadline, Done, OnlyDirectory

LEMMA ListingShapeStep ==
    ASSUME KInv, [Next]_vars
    PROVE  ListingShape' /\ Untouched'
<1> USE DEF KInv, ListingShape, Untouched
<1>1. CASE Next /\ phase = "list"
  <2>1. faulty' \subseteq Rules
    BY <1>1, Listing DEF Rules
  <2>2. CASE StartCalls
    BY <1>1, <2>1, <2>2, Listing DEF StartCalls
  <2>3. CASE phase' = "list"
    BY <1>1, <2>1, <2>3, Listing DEF StartCalls, getVars, dirVars, fileVars
  <2>4. CASE phase' = "over"
    BY <1>1, <2>1, <2>4, Listing
  <2> QED
    BY <1>1, <2>2, <2>3, <2>4, Listing
<1>2. CASE phase # "list"
  <2>1. faulty' \subseteq Rules
    BY <1>2 DEF Next, vars, PageArrives, PageFails, PageMalformed, GetAnswered, UnknownGetAnswered,
         RootPageArrives, RootPageFails, ProbeAnswered, StartRead, ReadAnswered, ReadFails,
         Finish, Deadline, Done, Blame, Rules
  <2> QED
    BY <1>2, <2>1, Calling
<1>3. CASE UNCHANGED vars
  BY <1>3 DEF vars, listVars, getVars, dirVars, fileVars
<1> QED
  BY <1>1, <1>2, <1>3

(* No skill is asked for, and no file read, of a listing that has none.    *)
LEMMA CallsNeedASkillStep ==
    ASSUME KInv, [Next]_vars
    PROVE  CallsNeedASkill'
<1> USE DEF CallsNeedASkill
<1>1. CASE Next /\ phase = "list"
  <2>1. CASE StartCalls
    <3>1. entries' = <<>> => ToSet(ListedSkills(entries')) = {} /\ Plan(entries').reads = <<>>
      BY <1>1, Listing, SkillsOfNoListing, PlannedOnce
    <3>2. DOMAIN gets' = ToSet(ListedSkills(entries')) /\ queue' = Plan(entries').reads /\ reading' = reading
      BY <2>1 DEF StartCalls
    <3>3. dirStep' # "over" => dirStep # "over" \/ ToSet(ListedSkills(entries')) # {}
      BY <2>1 DEF StartCalls
    <3>4. reading = {} /\ dirStep = "over" /\ faulty' \subseteq {"list"}
      BY <1>1, Listing DEF KInv, Untouched
    <3> QED
      BY <3>1, <3>2, <3>3, <3>4
  <2>2. CASE UNCHANGED <<gets, dirStep, queue, reading>>
    BY <1>1, <2>2, Listing DEF KInv, Untouched
  <2> QED
    BY <1>1, <2>1, <2>2, Listing DEF getVars, dirVars, fileVars
<1>2. CASE Next /\ phase # "list"
  <2>1. entries' = entries
    BY <1>2, Calling
  <2>2. CASE GetAnswered
    BY <2>1, <2>2 DEF GetAnswered, OpenGets, Blame, dirVars, fileVars, KInv
  <2>3. CASE UnknownGetAnswered
    BY <2>1, <2>3 DEF UnknownGetAnswered, Blame, dirVars, fileVars, KInv
  <2>4. CASE RootPageArrives \/ RootPageFails \/ ProbeAnswered
    BY <2>1, <2>4 DEF RootPageArrives, RootPageFails, ProbeAnswered, InDirectory, OnlyDirectory,
                      Blame, getVars, fileVars, KInv
  <2>5. CASE StartRead
    BY <2>1, <2>5 DEF StartRead, getVars, dirVars, KInv
  <2>6. CASE ReadAnswered \/ ReadFails
    BY <2>1, <2>6 DEF ReadAnswered, ReadFails, Blame, getVars, dirVars, KInv
  <2>7. CASE Finish \/ Deadline \/ Done
    BY <2>1, <2>7 DEF Finish, Deadline, Done, TimedOut, vars, getVars, dirVars, fileVars, KInv
  <2> QED
    BY <1>2, <2>2, <2>3, <2>4, <2>5, <2>6, <2>7 DEF Next, PageArrives, PageFails, PageMalformed
<1>3. CASE UNCHANGED vars
  BY <1>3 DEF vars, listVars, getVars, dirVars, fileVars, KInv
<1> QED
  BY <1>1, <1>2, <1>3

(* The listing's problem is not overwritten by the deadline, which falls   *)
(* on a listing without one.                                               *)
LEMMA ListKeptStep ==
    ASSUME KInv, [Next]_vars
    PROVE  ListKept'
<1> USE DEF ListKept
<1>1. CASE PageFails
  BY <1>1 DEF PageFails, Blame, KInv, ListingShape
<1>2. CASE PageMalformed
  BY <1>2 DEF PageMalformed, Blame, KInv, ListingShape
<1>3. CASE PageArrives \/ (Deadline /\ phase = "list")
  BY <1>3 DEF PageArrives, Deadline, KInv, ListingShape
<1>4. CASE [Next]_vars /\ phase # "list"
  <2>1. UNCHANGED <<listError, listMalformed>>
    BY <1>4, Calling
  <2>2. "list" \in faulty' => "list" \in faulty
    BY <1>4 DEF Next, vars, PageArrives, PageFails, PageMalformed, GetAnswered, UnknownGetAnswered,
         RootPageArrives, RootPageFails, ProbeAnswered, StartRead, ReadAnswered, ReadFails,
         Finish, Deadline, Done, Blame, OnlyDirectory
  <2> QED
    BY <2>1, <2>2 DEF KInv
<1>5. CASE UNCHANGED vars
  BY <1>5 DEF vars, listVars, KInv
<1> QED
  BY <1>1, <1>2, <1>3, <1>4, <1>5
  DEF Next, GetAnswered, UnknownGetAnswered, RootPageArrives, RootPageFails, ProbeAnswered, InDirectory,
      StartRead, ReadAnswered, ReadFails, Finish, Done

(* An answer to a get is final, and the deadline leaves it alone.          *)
LEMMA GetsKeptStep ==
    ASSUME KInv, [Next]_vars
    PROVE  GetKept' /\ UnknownGetKept'
<1> USE DEF GetKept, UnknownGetKept
<1>1. CASE Next /\ phase = "list"
  BY <1>1, Listing
<1>2. CASE GetAnswered
  BY <1>2 DEF GetAnswered, OpenGets, Blame, KInv
<1>3. CASE UnknownGetAnswered
  BY <1>3 DEF UnknownGetAnswered, Blame, KInv
<1>4. CASE Deadline /\ phase = "calls"
  <2>1. gets' = TimedOut /\ UNCHANGED <<unknownGet, faulty>>
    BY <1>4 DEF Deadline
  <2>2. DOMAIN gets' = DOMAIN gets /\ \A u \in DOMAIN gets : gets[u] = "wrong" => gets'[u] = "wrong"
    BY <2>1 DEF TimedOut
  <2> QED
    BY <2>1, <2>2 DEF KInv
<1>5. CASE /\ UNCHANGED <<gets, unknownGet>>
           /\ faulty' \cap {"get", "unknown"} = faulty \cap {"get", "unknown"}
  BY <1>5 DEF KInv
<1>6. \/ Next /\ phase = "list"
      \/ GetAnswered \/ UnknownGetAnswered \/ (Deadline /\ phase = "calls")
      \/ /\ UNCHANGED <<gets, unknownGet>>
         /\ faulty' \cap {"get", "unknown"} = faulty \cap {"get", "unknown"}
  BY DEF Next, vars, getVars, PageArrives, PageFails, PageMalformed,
         RootPageArrives, RootPageFails, ProbeAnswered, StartRead, ReadAnswered, ReadFails,
         Finish, Deadline, Done, Blame, OnlyDirectory
<1> QED
  BY <1>1, <1>2, <1>3, <1>4, <1>5, <1>6

(* A file in flight has left the queue, where it stood once.               *)
LEMMA ReadOnceStep ==
    ASSUME KInv, [Next]_vars
    PROVE  ReadOnce'
<1> USE DEF ReadOnce
<1>1. UNCHANGED server
  BY DEF Next, vars, PageArrives, PageFails, PageMalformed, GetAnswered, UnknownGetAnswered, StartCalls,
         RootPageArrives, RootPageFails, ProbeAnswered, StartRead, ReadAnswered, ReadFails,
         Finish, Deadline, Done, OnlyDirectory
<1>2. CASE Next /\ phase = "list" /\ StartCalls
  <2>1. queue' = Plan(entries').reads /\ UNCHANGED <<reading, files>>
    BY <1>2 DEF StartCalls
  <2>2. /\ queue' \in Seq(DOMAIN files) /\ NoRepeat(queue')
        /\ \A i \in DOMAIN queue' : server.declared[queue'[i]] <= MaxFileBytes
        /\ reading = {} /\ files = [f \in DOMAIN server.declared |-> Unread]
    BY <1>2, <2>1, Listing, PlannedOnce DEF KInv, Untouched
  <2> QED
    <3> DEFINE D == DOMAIN server.declared
    <3>1. \A i \in DOMAIN queue' : queue'[i] \in D
      BY <2>2
    <3> QED
      BY <1>1, <2>1, <2>2, <3>1 DEF NoRepeat
<1>3. CASE StartRead
  <2>1. /\ queue # <<>> /\ queue' = Tail(queue) /\ files' = files
        /\ reading' = reading \/ reading' = reading \cup {Head(queue)}
    BY <1>3 DEF StartRead
  <2>2. queue \in Seq(DOMAIN files) /\ NoRepeat(queue) /\ Len(queue) \in Nat \ {0}
    BY <2>1 DEF KInv
  <2>3. /\ Head(queue) = queue[1] /\ 1 \in DOMAIN queue
        /\ \A i \in DOMAIN queue' : i + 1 \in DOMAIN queue /\ queue'[i] = queue[i + 1] /\ i \in Nat \ {0}
    BY <2>1, <2>2
  <2>4. queue' \in Seq(DOMAIN files)
    BY <2>1, <2>2
  <2>5. NoRepeat(queue') /\ \A i \in DOMAIN queue' : queue'[i] # Head(queue)
    BY <2>2, <2>3 DEF NoRepeat
  <2>6. reading' \subseteq reading \cup {queue[1]} /\ queue[1] \notin reading
    BY <2>1, <2>3 DEF KInv
  <2>7. \A i \in DOMAIN queue' : queue'[i] \notin reading'
    BY <2>3, <2>5, <2>6 DEF KInv
  <2>8. reading' \cup { queue'[i] : i \in DOMAIN queue' } \subseteq reading \cup { queue[i] : i \in DOMAIN queue }
    BY <2>3, <2>6
  <2>9. reading' \subseteq DOMAIN files
    BY <2>2, <2>3, <2>6 DEF KInv
  <2> QED
    BY <1>1, <2>1, <2>4, <2>5, <2>7, <2>8, <2>9 DEF KInv
<1>4. CASE ReadAnswered \/ ReadFails
  <2>1. PICK f \in reading : /\ reading' = reading \ {f} /\ queue' = queue
                             /\ \E value : files' = [files EXCEPT ![f] = value]
    BY <1>4 DEF ReadAnswered, ReadFails
  <2>2. DOMAIN files' = DOMAIN files /\ \A g \in DOMAIN files \ {f} : files'[g] = files[g]
    BY <2>1
  <2>3. \A i \in DOMAIN queue : queue[i] \in DOMAIN files \ {f}
    BY <2>1 DEF KInv
  <2> QED
    BY <1>1, <2>1, <2>2, <2>3 DEF KInv, NoRepeat
<1>5. CASE UNCHANGED <<queue, reading, files>>
  BY <1>1, <1>5 DEF KInv, NoRepeat
<1>6. \/ Next /\ phase = "list" /\ StartCalls
      \/ StartRead \/ ReadAnswered \/ ReadFails
      \/ UNCHANGED <<queue, reading, files>>
  BY DEF Next, vars, fileVars, PageArrives, PageFails, PageMalformed, GetAnswered, UnknownGetAnswered,
         RootPageArrives, RootPageFails, ProbeAnswered, Finish, Deadline, Done, OnlyDirectory
<1> QED
  BY <1>2, <1>3, <1>4, <1>5, <1>6

(* A file that was read is not read again, so that its mismatch stays.     *)
LEMMA DigestKeptStep ==
    ASSUME KInv, [Next]_vars
    PROVE  DigestKept'
<1> USE DEF DigestKept, JudgedFiles, Mismatch
<1>1. UNCHANGED server
  BY DEF Next, vars, PageArrives, PageFails, PageMalformed, GetAnswered, UnknownGetAnswered, StartCalls,
         RootPageArrives, RootPageFails, ProbeAnswered, StartRead, ReadAnswered, ReadFails,
         Finish, Deadline, Done, OnlyDirectory
<1>2. CASE Next /\ phase = "list"
  BY <1>2, Listing
<1>3. CASE ReadAnswered
  <2>1. PICK f \in reading, size \in FileSizes, matches \in BOOLEAN : ReadAnswered!2!(f, size, matches)
    BY <1>3 DEF ReadAnswered
  <2>2. /\ f \in DOMAIN files /\ files[f].error = "unread" /\ server.declared[f] <= MaxFileBytes
    BY <2>1 DEF KInv, ReadOnce, Unread
  <2>3. /\ DOMAIN files' = DOMAIN files /\ \A g \in DOMAIN files \ {f} : files'[g] = files[g]
        /\ files'[f] = [error |-> IF size > MaxFileBytes THEN "too_large" ELSE "none",
                        size |-> size, matches |-> matches]
        /\ Blame("digest", server.declared[f] # Undeclared /\ (size # server.declared[f] \/ ~matches))
    BY <2>1, <2>2
  <2>4. CASE server.declared[f] # Undeclared /\ (size # server.declared[f] \/ ~matches)
    <3>1. size > MaxFileBytes => size # server.declared[f]
      <4>1. size \in Nat /\ MaxFileBytes \in Nat
        BY BoundAssumption
      <4> QED
        BY <2>2, <4>1
    <3>2. f \in DOMAIN files' /\ files'[f].error \in {"none", "too_large"}
      BY <2>2, <2>3
    <3>3. files'[f].size # server.declared[f] \/ (files'[f].error = "none" /\ ~files'[f].matches)
      BY <2>3, <2>4, <3>1
    <3> QED
      BY <1>1, <2>4, <3>2, <3>3
  <2>5. CASE ~(server.declared[f] # Undeclared /\ (size # server.declared[f] \/ ~matches))
    <3>1. faulty' = faulty
      BY <2>3, <2>5 DEF Blame
    <3>2. ASSUME NEW g \in JudgedFiles, Mismatch(g) PROVE g \in JudgedFiles' /\ Mismatch(g)'
      <4>1. g # f
        BY <2>2
      <4> QED
        BY <1>1, <2>3, <3>2, <4>1
    <3> HIDE DEF JudgedFiles, Mismatch
    <3> QED
      BY <3>1, <3>2 DEF KInv
  <2> QED
    BY <2>4, <2>5
<1>4. CASE ReadFails
  <2>1. PICK f \in reading : files' = [files EXCEPT ![f] = [Unread EXCEPT !.error = "failed"]]
    BY <1>4 DEF ReadFails
  <2>2. f \in DOMAIN files /\ files[f].error = "unread" /\ faulty' = faulty
    BY <1>4, <2>1 DEF KInv, ReadOnce, Unread, ReadFails
  <2>3. DOMAIN files' = DOMAIN files /\ \A g \in DOMAIN files \ {f} : files'[g] = files[g]
    BY <2>1
  <2>4. ASSUME NEW g \in JudgedFiles, Mismatch(g) PROVE g \in JudgedFiles' /\ Mismatch(g)'
    <3>1. g # f
      BY <2>2
    <3> QED
      BY <1>1, <2>3, <2>4, <3>1
  <2> HIDE DEF JudgedFiles, Mismatch
  <2> QED
    BY <2>2, <2>4 DEF KInv
<1>5. CASE UNCHANGED files /\ ("digest" \in faulty' => "digest" \in faulty)
  <2>1. JudgedFiles' = JudgedFiles /\ \A f : Mismatch(f)' <=> Mismatch(f)
    BY <1>1, <1>5
  <2> HIDE DEF JudgedFiles, Mismatch
  <2> QED
    BY <1>5, <2>1 DEF KInv
<1>6. \/ Next /\ phase = "list"
      \/ ReadAnswered \/ ReadFails
      \/ UNCHANGED files /\ ("digest" \in faulty' => "digest" \in faulty)
  BY DEF Next, vars, fileVars, PageArrives, PageFails, PageMalformed, GetAnswered, UnknownGetAnswered,
         RootPageArrives, RootPageFails, ProbeAnswered, StartRead, Finish, Deadline, Done, Blame, OnlyDirectory
<1> QED
  BY <1>2, <1>3, <1>4, <1>5, <1>6

(* The directory reads start when the listing ends, or not at all.         *)
LEMMA DirectoryKeptStart ==
    ASSUME KInv, Next, phase = "list"
    PROVE  ReadsInOrder' /\ DirectoryKept'
<1> USE DEF ReadsInOrder, DirectoryKept
<1>1. /\ UNCHANGED server /\ faulty' \subseteq {"list"}
      /\ dirStep = "over" /\ dirReads = [k \in DirKinds |-> NotMade]
  BY Listing DEF KInv, Untouched
<1>2. CASE StartCalls /\ AskDirectory("skill_root")
  <2>1. /\ dirStep' = "skill_root" /\ dirPage' = 0 /\ server.directoryRead
        /\ dirReads' = [dirReads EXCEPT !["skill_root"] = DirectoryAsked]
    BY <1>1, <1>2 DEF StartCalls, AskDirectory
  <2> QED
    BY <1>1, <2>1 DEF DirKinds, DirectoryAsked
<1>3. CASE dirStep' = dirStep
  BY <1>1, <1>3
<1> QED
  BY <1>2, <1>3, Listing DEF StartCalls, dirVars

(* A wrong answer about the root stays in its evidence: as its error, as a *)
(* child that is none, or as SKILL.md missing from the whole listing.      *)
LEMMA RootKept ==
    ASSUME KInv, RootPageArrives
    PROVE  ReadsInOrder' /\ DirectoryKept'
<1> USE DEF KInv
<1>1. PICK intruders \in {{}, {BadChild}} : RootPageArrives!2!(intruders)
  BY DEF RootPageArrives
<1> DEFINE children == dirReads["skill_root"].children \cup server.directory[dirPage + 1] \cup intruders
           badCursor == LastDirPage /\ server.dirCursor = "bad"
           read == [error |-> IF badCursor THEN "wrong" ELSE "none", children |-> children,
                    incomplete |-> ~(LastDirPage /\ server.dirCursor = "none")]
<1>2. /\ Blame("directory", \/ intruders # {} \/ badCursor
                            \/ ~read.incomplete /\ SkillMd \notin children)
      /\ IF ~RootEnds
         THEN SetRead(read) /\ dirPage' = dirPage + 1 /\ UNCHANGED <<dirStep, probed>>
         ELSE IF ~RootWhole THEN SetRead(read) /\ DirectoryOver
         ELSE /\ dirStep' = "unknown" /\ dirPage' = 0
              /\ dirReads' = [dirReads EXCEPT !["skill_root"] = read, !["unknown"] = DirectoryAsked]
              /\ probed' = UnknownChild(children)
  BY <1>1
<1>3. /\ UNCHANGED server /\ dirStep = "skill_root" /\ dirPage \in Nat
      /\ dirReads \in [DirKinds -> DirReadSet]
      /\ dirReads["unknown"] = NotMade /\ dirReads["file"] = NotMade
  BY DEF RootPageArrives, InDirectory, OnlyDirectory, IInv, DirectoryEvidence, DirectoryShape, ReadsInOrder
<1>4. read.error \in {"none", "wrong"} /\ read.children = children
  OBVIOUS
<1>5. "directory" \in faulty' => RootProblem(read)
  <2>1. "directory" \in faulty => BadChild \in children
    <3>1. ASSUME "directory" \in faulty PROVE RootProblem(dirReads["skill_root"])
      <4>1. PICK k \in AnsweredReads : DirectoryIssue(k)
        BY <3>1 DEF DirectoryKept
      <4>2. k = "skill_root"
        BY <1>3, <4>1 DEF AnsweredReads, DirKinds, NotMade
      <4> QED
        BY <4>1, <4>2 DEF DirectoryIssue
    <3>2. "directory" \in faulty => /\ dirReads["skill_root"].error = "none"
                                    /\ dirReads["skill_root"].incomplete
      <4>1. ASSUME "directory" \in faulty PROVE dirReads["skill_root"].error # "unobserved"
        <5>1. PICK k \in AnsweredReads : DirectoryIssue(k)
          BY <4>1 DEF DirectoryKept
        <5> QED
          BY <1>3, <5>1 DEF AnsweredReads, DirKinds, NotMade
      <4> QED
        BY <1>3, <4>1 DEF ReadsInOrder
    <3> QED
      BY <3>1, <3>2 DEF RootProblem
  <2>2. "directory" \in faulty' =>
            \/ "directory" \in faulty \/ intruders # {} \/ badCursor
            \/ ~read.incomplete /\ SkillMd \notin children
    BY <1>2 DEF Blame
  <2>3. badCursor => read.error = "wrong"
    OBVIOUS
  <2>4. intruders # {} => BadChild \in children
    OBVIOUS
  <2> HIDE DEF read, badCursor, children
  <2> QED
    BY <1>4, <2>1, <2>2, <2>3, <2>4 DEF RootProblem
<1>6. ~RootEnds => read.error = "none" /\ read.incomplete
  BY DEF RootEnds
<1> HIDE DEF children, read
<1>7. /\ dirReads'["skill_root"] = read
      /\ dirStep' \in {"skill_root", "unknown", "over"}
      /\ dirStep' = "skill_root" =>
             /\ dirPage' = dirPage + 1 /\ ~RootEnds
             /\ dirReads'["unknown"] = NotMade /\ dirReads'["file"] = NotMade
      /\ dirStep' = "unknown" => dirReads'["unknown"] = DirectoryAsked /\ dirReads'["file"] = NotMade
  <2>1. CASE ~RootEnds
    BY <1>2, <1>3, <2>1 DEF SetRead, DirKinds
  <2>2. CASE RootEnds /\ ~RootWhole
    BY <1>2, <1>3, <2>2 DEF SetRead, DirectoryOver, DirKinds
  <2>3. CASE RootEnds /\ RootWhole
    BY <1>2, <1>3, <2>3 DEF DirKinds
  <2> QED
    BY <2>1, <2>2, <2>3
<1>8. ReadsInOrder'
  BY <1>3, <1>6, <1>7 DEF ReadsInOrder, DirectoryAsked
<1>9. DirectoryKept'
  <2>1. server.directoryRead
    BY <1>3 DEF DirectoryKept
  <2> QED
    BY <1>3, <1>4, <1>5, <1>7, <2>1 DEF DirectoryKept, AnsweredReads, DirectoryIssue, DirKinds
<1> QED
  BY <1>8, <1>9

(* A page that does not come leaves the problems of those that did.        *)
LEMMA RootFailKept ==
    ASSUME KInv, RootPageFails
    PROVE  ReadsInOrder' /\ DirectoryKept'
<1> USE DEF KInv
<1>1. PICK error \in {"unobserved", "wrong"} : RootPageFails!2!(error)
  BY DEF RootPageFails
<1> DEFINE old == dirReads["skill_root"]
           read == IF dirPage = 0 THEN [old EXCEPT !.error = error, !.incomplete = FALSE]
                   ELSE [old EXCEPT !.error = IF error = "wrong" THEN "wrong" ELSE @]
<1>2. /\ UNCHANGED server /\ dirStep = "skill_root" /\ dirStep' = "over"
      /\ dirReads \in [DirKinds -> DirReadSet] /\ old \in DirReadSet
      /\ dirReads["unknown"] = NotMade /\ dirReads["file"] = NotMade
      /\ dirReads' = [dirReads EXCEPT !["skill_root"] = read]
      /\ Blame("directory", error = "wrong")
      /\ dirPage = 0 => old.error = "unobserved"
  BY <1>1 DEF RootPageFails, InDirectory, OnlyDirectory, DirectoryOver, IInv, DirectoryEvidence,
         DirectoryShape, ReadsInOrder, DirKinds, SetRead
<1>3. ASSUME "directory" \in faulty
      PROVE  dirPage # 0 /\ RootProblem(old) /\ old.error # "unobserved" /\ old.error # "not_made"
  <2>1. PICK k \in AnsweredReads : DirectoryIssue(k)
    BY <1>3 DEF DirectoryKept
  <2>2. k = "skill_root"
    BY <1>2, <2>1 DEF AnsweredReads, DirKinds, NotMade
  <2> QED
    BY <1>2, <2>1, <2>2 DEF AnsweredReads, DirectoryIssue
<1>4. /\ read.children = old.children
      /\ error = "wrong" => read.error = "wrong"
      /\ dirPage # 0 /\ error # "wrong" => read.error = old.error /\ read.incomplete = old.incomplete
  BY <1>2 DEF DirReadSet
<1>5. dirReads'["skill_root"] = read
  BY <1>2 DEF DirKinds
<1> HIDE DEF read, old
<1>6. "directory" \in faulty' => RootProblem(read) /\ read.error \notin {"not_made", "unobserved"}
  <2>1. CASE error = "wrong"
    BY <1>4, <2>1 DEF RootProblem
  <2>2. CASE error # "wrong"
    <3>1. faulty' = faulty
      BY <1>2, <2>2 DEF Blame
    <3> QED
      BY <1>3, <1>4, <2>2, <3>1 DEF RootProblem
  <2> QED
    BY <2>1, <2>2
<1>7. DirectoryKept'
  <2>1. server.directoryRead
    BY <1>2 DEF DirectoryKept
  <2>2. "directory" \in faulty' => "skill_root" \in AnsweredReads' /\ DirectoryIssue("skill_root")'
    BY <1>5, <1>6 DEF AnsweredReads, DirectoryIssue, DirKinds
  <2> QED
    BY <1>2, <2>1, <2>2 DEF DirectoryKept
<1> QED
  BY <1>2, <1>7 DEF ReadsInOrder

(* The read that is answered was not observed before.                      *)
LEMMA ProbeKept ==
    ASSUME KInv, ProbeAnswered
    PROVE  ReadsInOrder' /\ DirectoryKept'
<1> USE DEF KInv
<1>1. PICK answer \in {"refused", "wrong", "unobserved"} : ProbeAnswered!2!(answer)
  BY DEF ProbeAnswered
<1> DEFINE read == [dirReads[dirStep] EXCEPT !.error = answer, !.incomplete = FALSE]
<1>2. /\ UNCHANGED server /\ dirStep \in {"unknown", "file"}
      /\ dirReads \in [DirKinds -> DirReadSet]
      /\ dirReads[dirStep].error = "unobserved"
      /\ dirStep = "unknown" => dirReads["file"] = NotMade
  BY DEF ProbeAnswered, InDirectory, OnlyDirectory, IInv, DirectoryEvidence, DirectoryShape, ReadsInOrder
<1>3. read.error = answer
  BY <1>2 DEF DirReadSet, DirKinds
<1>4. /\ dirReads'[dirStep].error = answer
      /\ dirReads'["skill_root"] = dirReads["skill_root"]
      /\ dirStep = "unknown" => dirStep' = "file" /\ dirReads'["file"] = DirectoryAsked
      /\ dirStep = "file" => dirStep' = "over" /\ dirReads'["unknown"] = dirReads["unknown"]
  <2> HIDE DEF read
  <2>1. CASE dirStep = "unknown"
    <3>1. /\ dirReads' = [dirReads EXCEPT !["unknown"] = read, !["file"] = DirectoryAsked]
          /\ dirStep' = "file"
      BY <1>1, <2>1 DEF read
    <3> QED
      BY <1>2, <1>3, <2>1, <3>1 DEF DirKinds
  <2>2. CASE dirStep = "file"
    <3>1. dirReads' = [dirReads EXCEPT !["file"] = read] /\ dirStep' = "over"
      BY <1>1, <2>2 DEF read, SetRead, DirectoryOver
    <3> QED
      BY <1>2, <1>3, <2>2, <3>1 DEF DirKinds
  <2> QED
    BY <1>2, <2>1, <2>2
<1> HIDE DEF read
<1>5. ReadsInOrder'
  BY <1>2, <1>4 DEF ReadsInOrder, DirectoryAsked
<1>6. ASSUME "directory" \in faulty' PROVE \E k \in AnsweredReads' : DirectoryIssue(k)'
  <2>1. CASE answer = "wrong"
    <3>1. dirStep \in AnsweredReads' /\ dirReads'[dirStep].error # "refused" /\ dirStep # "skill_root"
      BY <1>2, <1>4, <2>1 DEF AnsweredReads, DirKinds
    <3>3. \A k \in {"unknown", "file"} : DirectoryIssue(k)' <=> dirReads'[k].error # "refused"
      BY DEF DirectoryIssue
    <3> QED
      BY <1>2, <3>1, <3>3
  <2>2. CASE answer # "wrong"
    <3>1. "directory" \in faulty
      BY <1>1, <1>6, <2>2 DEF Blame
    <3>2. PICK k \in AnsweredReads : DirectoryIssue(k)
      BY <3>1 DEF DirectoryKept
    <3>3. k # dirStep /\ k \in DirKinds
      BY <1>2, <3>2 DEF AnsweredReads
    <3>4. dirReads'[k] = dirReads[k]
      BY <1>2, <1>4, <3>2, <3>3 DEF DirKinds, AnsweredReads, NotMade
    <3>5. k \in AnsweredReads' /\ DirectoryIssue(k)'
      BY <3>2, <3>4 DEF AnsweredReads, DirectoryIssue, RootProblem
    <3> QED
      BY <3>5
  <2> QED
    BY <2>1, <2>2
<1>7. server.directoryRead
  BY <1>2 DEF DirectoryKept
<1> QED
  BY <1>2, <1>5, <1>6, <1>7 DEF DirectoryKept

LEMMA DirectoryKeptStep ==
    ASSUME KInv, [Next]_vars
    PROVE  ReadsInOrder' /\ DirectoryKept'
<1>1. CASE Next /\ phase = "list"
  BY <1>1, DirectoryKeptStart
<1>2. CASE RootPageArrives
  BY <1>2, RootKept
<1>3. CASE RootPageFails
  BY <1>3, RootFailKept
<1>4. CASE ProbeAnswered
  BY <1>4, ProbeKept
<1>5. CASE UNCHANGED <<server, dirVars>> /\ ("directory" \in faulty' => "directory" \in faulty)
  BY <1>5 DEF KInv, ReadsInOrder, DirectoryKept, AnsweredReads, DirectoryIssue, RootProblem, dirVars
<1>6. \/ Next /\ phase = "list"
      \/ RootPageArrives \/ RootPageFails \/ ProbeAnswered
      \/ UNCHANGED <<server, dirVars>> /\ ("directory" \in faulty' => "directory" \in faulty)
  BY DEF Next, vars, dirVars, PageArrives, PageFails, PageMalformed, GetAnswered, UnknownGetAnswered,
         StartRead, ReadAnswered, ReadFails, Finish, Deadline, Done, Blame
<1> QED
  BY <1>1, <1>2, <1>3, <1>4, <1>5, <1>6

----------------------------------------------------------------------------
(* The evidence that is kept makes the rule fail.                          *)
LEMMA KeptIsFailed == KInv => FaultIsFailed
<1> SUFFICES ASSUME KInv, phase = "over", NEW r \in faulty
             PROVE  Verdict[r] = "fail"
  BY DEF FaultIsFailed
<1>1. r \in {"get", "directory", "digest"} => ListingJudged
  BY DEF KInv, CallsNeedASkill, ListingShape, ListingJudged
<1>2. CASE r = "list"
  BY <1>2 DEF KInv, ListKept, Verdict, ListVerdict, Observed
<1>3. CASE r = "get"
  <2>1. PICK u \in DOMAIN gets : gets[u] = "wrong"
    BY <1>3 DEF KInv, GetKept
  <2> QED
    BY <1>1, <1>3, <2>1 DEF Verdict, GetVerdict, Observed
<1>4. CASE r = "unknown"
  BY <1>4 DEF KInv, UnknownGetKept, Verdict, UnknownGetVerdict
<1>5. CASE r = "directory"
  BY <1>1, <1>5 DEF KInv, DirectoryKept, Verdict, DirectoryVerdict
<1>6. CASE r = "digest"
  BY <1>1, <1>6 DEF KInv, DigestKept, Verdict, DigestVerdict
<1>7. r \in Rules
  BY DEF KInv, ListingShape
<1> QED
  BY <1>2, <1>3, <1>4, <1>5, <1>6, <1>7 DEF Rules

(* The evidence is complete in every state.                                *)
LEMMA KInvStep ==
    ASSUME KInv, [Next]_vars
    PROVE  KInv'
<1>1. IInv'
  BY ListStep, GetStep, UnknownGetStep, DirectoryStep, DigestStep DEF IInv, KInv
<1> QED
  BY <1>1, ListingShapeStep, CallsNeedASkillStep, ListKeptStep, GetsKeptStep, DirectoryKeptStep,
     ReadOnceStep, DigestKeptStep DEF KInv

(* A rule of rules/skills.py fails every server whose wrong answer to it   *)
(* was received, whatever was refused, timed out or was cut off before or  *)
(* after it, and however the listing and the deadline ended.               *)
THEOREM NoFaultForgiven == Spec => []FaultIsFailed
<1>1. Init => KInv
  BY InitKInv
<1>2. KInv /\ [Next]_vars => KInv'
  BY KInvStep
<1>3. KInv => FaultIsFailed
  BY KeptIsFailed
<1> QED
  BY <1>1, <1>2, <1>3, PTL DEF Spec

----------------------------------------------------------------------------
(* A sum over a finite set is defined on all its subsets of at most n      *)
(* elements: each is an element that CHOOSE picks, and the sum of the rest.*)
Some(s) == CHOOSE x \in s : TRUE

IsSum(sum, g, n) ==
    \A s \in SUBSET DOMAIN g :
        Cardinality(s) <= n => sum[s] = IF s = {} THEN 0 ELSE g[Some(s)] + sum[s \ {Some(s)}]

LEMMA WithoutSome ==
    ASSUME NEW s, IsFiniteSet(s), s # {}
    PROVE  /\ Some(s) \in s /\ IsFiniteSet(s \ {Some(s)})
           /\ Cardinality(s \ {Some(s)}) = Cardinality(s) - 1
           /\ Cardinality(s) \in Nat \ {0}
  BY FS_RemoveElement, FS_CardinalityType, FS_EmptySet DEF Some

LEMMA SumExists ==
    ASSUME NEW g, IsFiniteSet(DOMAIN g), NEW n \in Nat
    PROVE  \E sum : IsSum(sum, g, n)
<1> DEFINE G == { k \in Nat : \E sum : IsSum(sum, g, k) }
<1>1. \A s \in SUBSET DOMAIN g : IsFiniteSet(s) /\ Cardinality(s) \in Nat /\ (Cardinality(s) = 0 <=> s = {})
  BY FS_Subset, FS_CardinalityType, FS_EmptySet
<1>2. 0 \in G
  <2>1. IsSum([s \in SUBSET DOMAIN g |-> 0], g, 0)
    BY <1>1 DEF IsSum
  <2> QED
    BY <2>1
<1>3. ASSUME NEW k \in Nat, k \in G PROVE k + 1 \in G
  <2>1. PICK sum : IsSum(sum, g, k)
    BY <1>3
  <2> DEFINE more == [s \in SUBSET DOMAIN g |->
                          IF Cardinality(s) <= k THEN sum[s] ELSE g[Some(s)] + sum[s \ {Some(s)}]]
  <2>2. ASSUME NEW s \in SUBSET DOMAIN g, Cardinality(s) <= k + 1
        PROVE  more[s] = IF s = {} THEN 0 ELSE g[Some(s)] + more[s \ {Some(s)}]
    <3>1. CASE s = {}
      BY <1>1, <2>1, <3>1 DEF IsSum
    <3>2. CASE s # {}
      <4>1. s \ {Some(s)} \in SUBSET DOMAIN g /\ Cardinality(s \ {Some(s)}) <= k
        BY <1>1, <2>2, <3>2, WithoutSome
      <4>2. more[s \ {Some(s)}] = sum[s \ {Some(s)}]
        BY <4>1
      <4>3. more[s] = g[Some(s)] + sum[s \ {Some(s)}]
        <5>1. CASE Cardinality(s) <= k
          BY <2>1, <3>2, <5>1 DEF IsSum
        <5>2. CASE ~(Cardinality(s) <= k)
          BY <5>2
        <5> QED
          BY <5>1, <5>2
      <4> QED
        BY <3>2, <4>2, <4>3
    <3> QED
      BY <3>1, <3>2
  <2>3. IsSum(more, g, k + 1)
    <3> HIDE DEF more
    <3> QED
      BY <2>2 DEF IsSum
  <2> QED
    BY <2>3
<1>4. G = Nat
  BY <1>2, <1>3, NatSetInduction
<1> QED
  BY <1>4

LEMMA SumIsDefined ==
    ASSUME NEW g, IsFiniteSet(DOMAIN g)
    PROVE  \E sum : IsSum(sum, g, Cardinality(DOMAIN g)) /\ SumFunction(g) = sum[DOMAIN g]
<1> DEFINE Body(f) == [s \in SUBSET DOMAIN g |-> IF s = {} THEN 0 ELSE
                                                LET x == Some(s) IN g[x] + f[s \ {x}]]
           chosen == CHOOSE f : f = Body(f)
<1>1. Cardinality(DOMAIN g) \in Nat /\ \A s \in SUBSET DOMAIN g : Cardinality(s) <= Cardinality(DOMAIN g)
  BY FS_Subset, FS_CardinalityType
<1>2. PICK sum : IsSum(sum, g, Cardinality(DOMAIN g))
  BY <1>1, SumExists
<1> DEFINE f == [s \in SUBSET DOMAIN g |-> sum[s]]
<1>3. f = Body(f)
  <2>1. ASSUME NEW s \in SUBSET DOMAIN g PROVE f[s] = Body(f)[s]
    <3>1. sum[s] = IF s = {} THEN 0 ELSE g[Some(s)] + sum[s \ {Some(s)}]
      BY <1>1, <1>2 DEF IsSum
    <3>2. s \ {Some(s)} \in SUBSET DOMAIN g
      OBVIOUS
    <3> QED
      BY <3>1, <3>2
  <2> QED
    BY <2>1
<1>4. chosen = Body(chosen)
  BY <1>3
<1>5. SumFunction(g) = chosen[DOMAIN g]
  BY DEF SumFunction, SumFunctionOnSet, FoldFunctionOnSet, MapThenFoldSet, Some
<1>6. \A h : h = Body(h) => IsSum(h, g, Cardinality(DOMAIN g))
  <2> SUFFICES ASSUME NEW h, h = Body(h) PROVE IsSum(h, g, Cardinality(DOMAIN g))
    OBVIOUS
  <2>1. \A s \in SUBSET DOMAIN g : h[s] = Body(h)[s]
    BY Zenon
  <2>2. \A s \in SUBSET DOMAIN g : Body(h)[s] = IF s = {} THEN 0 ELSE g[Some(s)] + h[s \ {Some(s)}]
    OBVIOUS
  <2> HIDE DEF Body
  <2> QED
    BY <2>1, <2>2 DEF IsSum
<1> QED
  BY <1>4, <1>5, <1>6, Zenon

(* Changing one of the numbers changes their sum by as much.               *)
LEMMA SumOfChange ==
    ASSUME NEW S, IsFiniteSet(S), NEW g \in [S -> Nat], NEW h \in [S -> Nat], NEW f \in S,
           \A x \in S \ {f} : h[x] = g[x]
    PROVE  /\ SumFunction(g) \in Nat /\ SumFunction(h) \in Nat
           /\ SumFunction(h) = SumFunction(g) - g[f] + h[f]
<1> DEFINE size == Cardinality(S)
<1>1. size \in Nat /\ \A s \in SUBSET S : IsFiniteSet(s) /\ Cardinality(s) \in Nat /\ Cardinality(s) <= size
  BY FS_Subset, FS_CardinalityType
<1>2. PICK a : IsSum(a, g, size) /\ SumFunction(g) = a[S]
  BY SumIsDefined
<1>3. PICK b : IsSum(b, h, size) /\ SumFunction(h) = b[S]
  BY SumIsDefined
<1> HIDE DEF size
<1> DEFINE Good(s) == a[s] \in Nat /\ b[s] \in Nat /\ b[s] = a[s] + IF f \in s THEN h[f] - g[f] ELSE 0
           G == { n \in Nat : \A s \in SUBSET S : Cardinality(s) <= n => Good(s) }
<1>4. Good({})
  <2>1. Cardinality({}) <= size /\ {} \in SUBSET S
    BY <1>1
  <2>2. a[{}] = 0 /\ b[{}] = 0
    BY <1>2, <1>3, <2>1 DEF IsSum
  <2> QED
    BY <2>2
<1> HIDE DEF Good
<1>5. 0 \in G
  BY <1>1, <1>4, FS_EmptySet
<1>6. ASSUME NEW n \in Nat, n \in G PROVE n + 1 \in G
  <2> SUFFICES ASSUME NEW s \in SUBSET S, Cardinality(s) <= n + 1, s # {} PROVE Good(s)
    BY <1>4
  <2> DEFINE rest == s \ {Some(s)}
  <2>1. rest \in SUBSET S /\ Cardinality(rest) <= n /\ Some(s) \in s
    BY <1>1, WithoutSome
  <2>2. Good(rest)
    BY <1>6, <2>1
  <2> USE DEF Good
  <2>3. a[s] = g[Some(s)] + a[rest] /\ b[s] = h[Some(s)] + b[rest]
    BY <1>1, <1>2, <1>3 DEF IsSum
  <2>4. g[Some(s)] \in Nat /\ h[Some(s)] \in Nat /\ g[f] \in Nat /\ h[f] \in Nat
    BY <2>1
  <2>5. CASE Some(s) = f
    <3>1. f \in s /\ f \notin rest
      BY <2>1, <2>5
    <3> HIDE DEF rest
    <3> QED
      BY <2>2, <2>3, <2>4, <2>5, <3>1
  <2>6. CASE Some(s) # f
    <3>1. (f \in s <=> f \in rest) /\ h[Some(s)] = g[Some(s)]
      BY <2>1, <2>6
    <3> HIDE DEF rest
    <3> QED
      BY <2>2, <2>3, <2>4, <3>1
  <2> QED
    BY <2>5, <2>6
<1>7. G = Nat
  BY <1>5, <1>6, NatSetInduction
<1>8. size \in G /\ S \in SUBSET S /\ Cardinality(S) <= size
  BY <1>1, <1>7
<1>9. Good(S)
  BY <1>8
<1> USE DEF Good
<1>10. g[f] \in Nat /\ h[f] \in Nat
  OBVIOUS
<1> QED
  BY <1>2, <1>3, <1>9, <1>10

LEMMA SumOfNothing ==
    ASSUME NEW S, IsFiniteSet(S), NEW g, g = [x \in S |-> 0]
    PROVE  SumFunction(g) = 0
<1> DEFINE size == Cardinality(S)
<1>1. size \in Nat /\ \A s \in SUBSET S : IsFiniteSet(s) /\ Cardinality(s) \in Nat /\ Cardinality(s) <= size
  BY FS_Subset, FS_CardinalityType
<1>2. PICK a : IsSum(a, g, size) /\ SumFunction(g) = a[S]
  BY SumIsDefined
<1> HIDE DEF size
<1> DEFINE G == { n \in Nat : \A s \in SUBSET S : Cardinality(s) <= n => a[s] = 0 }
<1>3. a[{}] = 0
  <2>1. Cardinality({}) <= size /\ {} \in SUBSET S
    BY <1>1
  <2> QED
    BY <1>2, <2>1 DEF IsSum
<1>4. 0 \in G
  BY <1>1, <1>3, FS_EmptySet
<1>5. ASSUME NEW n \in Nat, n \in G PROVE n + 1 \in G
  <2> SUFFICES ASSUME NEW s \in SUBSET S, Cardinality(s) <= n + 1, s # {} PROVE a[s] = 0
    BY <1>3
  <2>1. s \ {Some(s)} \in SUBSET S /\ Cardinality(s \ {Some(s)}) <= n /\ Some(s) \in s
    BY <1>1, WithoutSome
  <2>2. a[s] = g[Some(s)] + a[s \ {Some(s)}]
    BY <1>1, <1>2 DEF IsSum
  <2> QED
    BY <1>5, <2>1, <2>2
<1>6. G = Nat
  BY <1>4, <1>5, NatSetInduction
<1>7. size \in G /\ S \in SUBSET S /\ Cardinality(S) <= size
  BY <1>1, <1>6
<1> QED
  BY <1>2, <1>7

----------------------------------------------------------------------------
(* The budget: what is kept was received, and what is kept together with   *)
(* the most that the reads in flight may bring is within the bound, since  *)
(* a read only starts while less than the budget was received.             *)
Kept == SumFunction(KeptSizes)

BudgetInv ==
    /\ IsFiniteSet(DOMAIN files) /\ \A f \in DOMAIN files : files[f].size \in Nat
    /\ received \in Nat /\ Kept <= received
    /\ IsFiniteSet(reading) /\ Cardinality(reading) <= ReadConcurrency
    /\ Kept + Cardinality(reading) * MaxFileBytes < MaxTotalBytes + ReadConcurrency * MaxFileBytes

LEMMA Multiples ==
    ASSUME NEW m \in Nat, NEW a \in Nat, NEW b \in Nat
    PROVE  /\ a * m \in Nat
           /\ a <= b => a * m <= b * m
           /\ a > 0 => (a - 1) * m = a * m - m
<1>1. a <= b => a * m <= b * m
  <2>1. CASE a <= b
    <3>1. PICK d \in Nat : b = a + d
      <4>1. b - a \in Nat /\ b = a + (b - a)
        BY <2>1
      <4> QED
        BY <4>1
    <3>2. b * m = a * m + d * m /\ d * m \in Nat /\ a * m \in Nat
      BY <3>1
    <3> QED
      BY <3>2
  <2> QED
    BY <2>1
<1> QED
  BY <1>1

LEMMA InitBudget == Init => BudgetInv
<1> SUFFICES ASSUME Init PROVE BudgetInv
  OBVIOUS
<1>1. DOMAIN files = DOMAIN server.declared /\ IsFiniteSet(DOMAIN server.declared)
  BY ServerAssumption DEF Init, ServerSet
<1>2. KeptSizes = [f \in DOMAIN files |-> 0] /\ \A f \in DOMAIN files : files[f].size \in Nat
  BY DEF Init, KeptSizes, Unread
<1>3. Kept = 0
  BY <1>1, <1>2, SumOfNothing DEF Kept
<1>4. received = 0 /\ IsFiniteSet(reading) /\ Cardinality(reading) = 0
  BY FS_EmptySet DEF Init
<1>5. ReadConcurrency * MaxFileBytes \in Nat /\ 0 * MaxFileBytes = 0 /\ MaxTotalBytes \in Nat \ {0} /\ ReadConcurrency \in Nat
  BY BoundAssumption, Multiples
<1> QED
  BY <1>1, <1>2, <1>3, <1>4, <1>5 DEF BudgetInv

(* The sizes that are kept, and what a change of one of them does.         *)
LEMMA KeptOfChange ==
    ASSUME KInv, BudgetInv, NEW f \in DOMAIN files, DOMAIN files' = DOMAIN files,
           \A g \in DOMAIN files \ {f} : files'[g] = files[g], files'[f].size \in Nat
    PROVE  /\ Kept \in Nat /\ Kept' \in Nat
           /\ Kept' <= Kept + IF files'[f].error = "none" THEN files'[f].size ELSE 0
<1>1. KeptSizes \in [DOMAIN files -> Nat] /\ KeptSizes' \in [DOMAIN files -> Nat]
  BY DEF KeptSizes, BudgetInv
<1>2. \A g \in DOMAIN files \ {f} : KeptSizes'[g] = KeptSizes[g]
  BY DEF KeptSizes
<1>3. KeptSizes'[f] = (IF files'[f].error = "none" THEN files'[f].size ELSE 0) /\ KeptSizes[f] \in Nat
  BY <1>1 DEF KeptSizes
<1>4. IsFiniteSet(DOMAIN files)
  BY DEF BudgetInv
<1>5. /\ SumFunction(KeptSizes) \in Nat /\ SumFunction(KeptSizes') \in Nat
      /\ SumFunction(KeptSizes') = SumFunction(KeptSizes) - KeptSizes[f] + KeptSizes'[f]
  BY <1>1, <1>2, <1>4, SumOfChange
<1>6. Kept = SumFunction(KeptSizes) /\ Kept' = SumFunction(KeptSizes')
  BY DEF Kept
<1> QED
  BY <1>3, <1>5, <1>6

LEMMA KeptIsNat ==
    ASSUME BudgetInv
    PROVE  Kept \in Nat
<1>1. KeptSizes \in [DOMAIN files -> Nat] /\ IsFiniteSet(DOMAIN files)
  BY DEF KeptSizes, BudgetInv
<1>2. CASE DOMAIN files = {}
  <2>1. KeptSizes = [x \in {} |-> 0]
    BY <1>1, <1>2
  <2>2. SumFunction(KeptSizes) = 0
    BY <2>1, FS_EmptySet, SumOfNothing
  <2> QED
    BY <2>2 DEF Kept
<1>3. CASE DOMAIN files # {}
  <2>1. PICK f \in DOMAIN files : TRUE
    BY <1>3
  <2> QED
    BY <1>1, <2>1, SumOfChange DEF Kept
<1> QED
  BY <1>2, <1>3

(* A read starts while there is budget and a slot, whatever it will bring. *)
LEMMA StartReadBudget ==
    ASSUME KInv, BudgetInv, StartRead
    PROVE  BudgetInv'
<1>1. UNCHANGED <<files, received>>
  BY DEF StartRead
<1>2. Kept' = Kept
  BY <1>1 DEF Kept, KeptSizes
<1>3. CASE reading' = reading
  BY <1>1, <1>2, <1>3 DEF BudgetInv
<1>4. CASE ~BudgetSpent /\ reading' = reading \cup {Head(queue)}
  <2>1. IsFiniteSet(reading') /\ Cardinality(reading') \in Nat /\ Cardinality(reading') <= ReadConcurrency
    <3>1. IsFiniteSet(reading) /\ Cardinality(reading) \in Nat /\ Cardinality(reading) < ReadConcurrency
      BY FS_CardinalityType DEF BudgetInv, StartRead, Admits
    <3>2. IsFiniteSet(reading') /\ Cardinality(reading') \in {Cardinality(reading), Cardinality(reading) + 1}
      BY <1>4, <3>1, FS_AddElement
    <3>3. ReadConcurrency \in Nat
      BY BoundAssumption
    <3> QED
      BY <3>1, <3>2, <3>3
  <2>2. Cardinality(reading') * MaxFileBytes <= ReadConcurrency * MaxFileBytes
    BY <2>1, Multiples, BoundAssumption
  <2>3. Kept < MaxTotalBytes /\ Kept \in Nat
    BY <1>4, KeptIsNat, BoundAssumption DEF BudgetSpent, BudgetInv
  <2>4. Cardinality(reading') * MaxFileBytes \in Nat /\ ReadConcurrency * MaxFileBytes \in Nat /\ MaxTotalBytes \in Nat
    BY <2>1, Multiples, BoundAssumption
  <2>5. Kept + Cardinality(reading') * MaxFileBytes < MaxTotalBytes + ReadConcurrency * MaxFileBytes
    BY <2>2, <2>3, <2>4
  <2> QED
    BY <1>1, <1>2, <2>1, <2>5 DEF BudgetInv
<1> QED
  BY <1>3, <1>4 DEF StartRead

(* A read that ends brings no more than the slot it leaves was good for.   *)
LEMMA ReadEndBudget ==
    ASSUME KInv, BudgetInv, ReadAnswered \/ ReadFails
    PROVE  BudgetInv'
<1>1. PICK f \in reading :
          /\ reading' = reading \ {f} /\ f \in DOMAIN files
          /\ DOMAIN files' = DOMAIN files /\ \A g \in DOMAIN files \ {f} : files'[g] = files[g]
          /\ files'[f].size \in Nat /\ received' \in Nat /\ received' >= received
          /\ files'[f].error = "none" => /\ files'[f].size <= MaxFileBytes
                                         /\ received' = received + files'[f].size
  <2>1. CASE ReadAnswered
    <3>1. PICK f \in reading, size \in FileSizes, matches \in BOOLEAN : ReadAnswered!2!(f, size, matches)
      BY <2>1 DEF ReadAnswered
    <3>2. f \in DOMAIN files /\ received \in Nat /\ size \in Nat /\ MaxFileBytes \in Nat
      BY <3>1, BoundAssumption DEF KInv, ReadOnce, BudgetInv
    <3>3. files'[f] = [error |-> IF size > MaxFileBytes THEN "too_large" ELSE "none",
                      size |-> size, matches |-> matches]
      BY <3>1, <3>2
    <3>4. reading' = reading \ {f} /\ received' = received + size
      BY <3>1
    <3>5. DOMAIN files' = DOMAIN files /\ \A g \in DOMAIN files \ {f} : files'[g] = files[g]
      BY <3>1
    <3>6. /\ files'[f].size = size
          /\ files'[f].error = "none" => size <= MaxFileBytes
      BY <3>2, <3>3
    <3> QED
      BY <3>2, <3>4, <3>5, <3>6
  <2>2. CASE ReadFails
    <3>1. PICK f \in reading : /\ files' = [files EXCEPT ![f] = [Unread EXCEPT !.error = "failed"]]
                               /\ reading' = reading \ {f}
      BY <2>2 DEF ReadFails
    <3>2. f \in DOMAIN files /\ received \in Nat /\ received' = received
      BY <2>2, <3>1 DEF KInv, ReadOnce, BudgetInv, ReadFails
    <3>3. files'[f].size = 0 /\ files'[f].error = "failed"
      BY <3>1, <3>2 DEF Unread
    <3>4. DOMAIN files' = DOMAIN files /\ \A g \in DOMAIN files \ {f} : files'[g] = files[g]
      BY <3>1
    <3>5. files'[f].size \in Nat /\ received' \in Nat /\ received' >= received
      BY <3>2, <3>3
    <3>6. files'[f].error # "none"
      BY <3>3
    <3> QED
      BY <3>1, <3>2, <3>4, <3>5, <3>6
  <2> QED
    BY <2>1, <2>2
<1>2. /\ Kept \in Nat /\ Kept' \in Nat
      /\ Kept' <= Kept + IF files'[f].error = "none" THEN files'[f].size ELSE 0
  BY <1>1, KeptOfChange
<1>3. received \in Nat /\ MaxFileBytes \in Nat /\ ReadConcurrency \in Nat /\ MaxTotalBytes \in Nat
  BY BoundAssumption DEF BudgetInv
<1>4. Kept' <= received'
  BY <1>1, <1>2, <1>3 DEF BudgetInv
<1>5. Kept' <= Kept + MaxFileBytes
  BY <1>1, <1>2, <1>3
<1>6. /\ IsFiniteSet(reading') /\ Cardinality(reading) \in Nat \ {0}
      /\ Cardinality(reading') = Cardinality(reading) - 1
  <2>1. IsFiniteSet(reading)
    BY DEF BudgetInv
  <2>2. IsFiniteSet(reading') /\ Cardinality(reading') = Cardinality(reading) - 1
    BY <1>1, <2>1, FS_RemoveElement
  <2>3. Cardinality(reading) \in Nat /\ Cardinality(reading') \in Nat
    BY <2>1, <2>2, FS_CardinalityType
  <2> QED
    BY <2>2, <2>3
<1>7. /\ Cardinality(reading') * MaxFileBytes = Cardinality(reading) * MaxFileBytes - MaxFileBytes
      /\ Cardinality(reading) * MaxFileBytes \in Nat /\ ReadConcurrency * MaxFileBytes \in Nat
  BY <1>3, <1>6, Multiples
<1>8. Kept' + Cardinality(reading') * MaxFileBytes < MaxTotalBytes + ReadConcurrency * MaxFileBytes
  <2>1. Kept + Cardinality(reading) * MaxFileBytes < MaxTotalBytes + ReadConcurrency * MaxFileBytes
    BY DEF BudgetInv
  <2> QED
    BY <1>2, <1>3, <1>5, <1>7, <2>1
<1>9. Cardinality(reading') <= ReadConcurrency
  BY <1>3, <1>6 DEF BudgetInv
<1>10. IsFiniteSet(DOMAIN files') /\ \A g \in DOMAIN files' : files'[g].size \in Nat
  BY <1>1 DEF BudgetInv
<1> QED
  BY <1>1, <1>4, <1>6, <1>8, <1>9, <1>10 DEF BudgetInv

(* The audit keeps less than the budget and what the reads in flight may   *)
(* bring, for any number and sizes of files and any order of the answers.  *)
THEOREM BudgetHolds == Spec => []KeptWithinBudget
<1>1. Init => KInv /\ BudgetInv
  BY InitKInv, InitBudget
<1>2. KInv /\ BudgetInv /\ [Next]_vars => KInv' /\ BudgetInv'
  <2> SUFFICES ASSUME KInv, BudgetInv, [Next]_vars PROVE KInv' /\ BudgetInv'
    OBVIOUS
  <2>1. KInv'
    BY KInvStep
  <2>2. CASE StartRead
    BY <2>1, <2>2, StartReadBudget
  <2>3. CASE ReadAnswered \/ ReadFails
    BY <2>1, <2>3, ReadEndBudget
  <2>4. CASE UNCHANGED <<files, reading, received>>
    BY <2>1, <2>4 DEF BudgetInv, Kept, KeptSizes
  <2>5. StartRead \/ ReadAnswered \/ ReadFails \/ UNCHANGED <<files, reading, received>>
    BY DEF Next, vars, fileVars, PageArrives, PageFails, PageMalformed, GetAnswered, UnknownGetAnswered,
           StartCalls, RootPageArrives, RootPageFails, ProbeAnswered, Finish, Deadline, Done, OnlyDirectory
  <2> QED
    BY <2>1, <2>2, <2>3, <2>4, <2>5
<1>3. BudgetInv => KeptWithinBudget
  <2> SUFFICES ASSUME BudgetInv PROVE KeptWithinBudget
    OBVIOUS
  <2>1. /\ Kept \in Nat /\ Cardinality(reading) * MaxFileBytes \in Nat
        /\ MaxTotalBytes \in Nat /\ ReadConcurrency * MaxFileBytes \in Nat
    BY KeptIsNat, Multiples, FS_CardinalityType, BoundAssumption DEF BudgetInv
  <2>2. Kept + Cardinality(reading) * MaxFileBytes < MaxTotalBytes + ReadConcurrency * MaxFileBytes
    BY DEF BudgetInv
  <2>3. Kept < MaxTotalBytes + ReadConcurrency * MaxFileBytes
    BY <2>1, <2>2
  <2> QED
    BY <2>3 DEF KeptWithinBudget, Kept
<1> QED
  BY <1>1, <1>2, <1>3, PTL DEF Spec
=============================================================================
