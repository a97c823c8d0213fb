------------------------------ MODULE MCSkills ------------------------------
(***************************************************************************)
(* The skills collection for model checking: one server with four files to *)
(* read beside each other, and servers whose listings or directories end   *)
(* in every way, on a page that is the first, the last or beyond the       *)
(* bound.  "u" is the name the unknown child would have.                   *)
(***************************************************************************)
EXTENDS SkillsRules

Serving(pages, cursor, extra, declared) ==
    [pages |-> pages, cursor |-> cursor, finished |-> TRUE, extra |-> extra, declared |-> declared,
     directoryRead |-> FALSE, directory |-> <<{SkillMd}>>, dirCursor |-> "none", manifest |-> {}]

NoExtra == [k \in {"s", "t", "a", "b"} |-> NoFile]
Extra == [NoExtra EXCEPT !["s"] = "a", !["t"] = "b"]

Sizes(s, t, a, b) == [f \in {"s", "t", "a", "b"} |->
    CASE f = "s" -> s [] f = "t" -> t [] f = "a" -> a [] f = "b" -> b]

FileServers ==
    { Serving(<<<<"s", "t">>>>, "none", NoExtra, Sizes(Undeclared, Undeclared, 0, 0)),
      Serving(<<<<"s", "t">>>>, "none", Extra, Sizes(Undeclared, Undeclared, 0, 0)),
      Serving(<<<<"s", "t">>>>, "none", Extra, Sizes(1, 3, 1, 1)) }

OneSkill == Serving(<<<<"s">>>>, "none", NoExtra, Sizes(1, 1, 1, 1))

ListServers ==
    { [OneSkill EXCEPT !.pages = p, !.cursor = c, !.finished = f] :
        p \in {<<<<>>>>, <<<<"s">>>>, <<<<>>, <<"s">>>>, <<<<"s">>, <<"s">>>>, <<<<"s">>, <<>>, <<"t">>>>},
        c \in {"none", "repeats", "bad"}, f \in BOOLEAN }

DirectoryServers ==
    { [OneSkill EXCEPT !.directoryRead = TRUE, !.directory = d, !.dirCursor = c, !.manifest = m] :
        d \in {<<{SkillMd}>>, <<{}>>, <<{"u"}, {SkillMd}>>, <<{SkillMd}, {"u"}>>, <<{SkillMd}, {}, {"u"}>>},
        c \in {"none", "repeats", "bad"}, m \in {{}, {"u"}} }

ServerList == FileServers \cup ListServers \cup DirectoryServers

Names == <<"u", "u-2", "u-3", "u-4">>
=============================================================================
