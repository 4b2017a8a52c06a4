------------------------ MODULE MCVersionConstraints ------------------------
(***************************************************************************)
(* Values for VersionConstraints and what TLC evaluates of it: the order   *)
(* the comment of CompareVersions describes, and the parser against a      *)
(* grammar that derives the constraints instead of reading them.           *)
(***************************************************************************)
EXTENDS VersionConstraints

Number(n) == [number |-> TRUE, rank |-> n]
Text(n)   == [number |-> FALSE, rank |-> n]

Release(core, letter, prerelease, revision, bytes) ==
    [ordered |-> TRUE, core |-> core, letter |-> letter, prerelease |-> prerelease,
     revision |-> revision, tokens |-> <<>>, bytes |-> bytes]
Opaque(tokens, bytes) ==
    [ordered |-> FALSE, core |-> <<>>, letter |-> 0, prerelease |-> <<>>,
     revision |-> 0, tokens |-> tokens, bytes |-> bytes]

beta == Text(1)
rc   == Text(2)
nightly == Text(3)

(* Versions in their order; bytes are their places in the order of bytes.  *)
Spelled ==
    << <<"nightly", Opaque(<<nightly>>, 20)>>,
       <<"nightly2", Opaque(<<nightly, Number(2)>>, 22)>>,
       <<"nightly02", Opaque(<<nightly, Number(2)>>, 21)>>,
       <<"nightly10", Opaque(<<nightly, Number(10)>>, 23)>>,
       <<"1-beta2", Release(<<1>>, 0, << <<beta, Number(2)>> >>, 0, 3)>>,
       <<"1-beta10", Release(<<1>>, 0, << <<beta, Number(10)>> >>, 0, 2)>>,
       <<"1-rc", Release(<<1>>, 0, << <<rc>> >>, 0, 4)>>,
       <<"1-rc.2", Release(<<1>>, 0, << <<rc>>, <<Number(2)>> >>, 0, 6)>>,
       <<"1-rc.10", Release(<<1>>, 0, << <<rc>>, <<Number(10)>> >>, 0, 5)>>,
       <<"1", Release(<<1>>, 0, <<>>, 0, 1)>>,
       <<"01.0", Release(<<1, 0>>, 0, <<>>, 0, 0)>>,
       <<"1-ohos.2", Release(<<1>>, 0, <<>>, 2, 8)>>,
       <<"1-ohos.10", Release(<<1>>, 0, <<>>, 10, 7)>>,
       <<"1a", Release(<<1>>, 1, <<>>, 0, 10)>>,
       <<"1b", Release(<<1>>, 2, <<>>, 0, 11)>>,
       <<"1.1", Release(<<1, 1>>, 0, <<>>, 0, 9)>>,
       <<"2", Release(<<2>>, 0, <<>>, 0, 12)>> >>

MCWord == {Spelled[i][1] : i \in DOMAIN Spelled}
MCParsed ==
    [w \in MCWord |-> Spelled[CHOOSE i \in DOMAIN Spelled : Spelled[i][1] = w][2]]

(* Only 1 and 01.0 are equal, and nightly02 is before nightly2.  *)
Swapped == {<<2, 3>>}
Equal   == {<<10, 11>>}

ASSUME OrderAsDescribed ==
    \A i, j \in DOMAIN Spelled :
        i < j => CompareVersions(Spelled[i][1], Spelled[j][1]) =
                    IF <<i, j>> \in Equal THEN 0 ELSE IF <<i, j>> \in Swapped THEN 1 ELSE -1

-----------------------------------------------------------------------------
(* The grammar: predicates, with or without a space behind the operator,   *)
(* joined by separators; what they mean, beside how they are written.      *)

SomeWord == {"1", "nightly"}

Predicates ==
    LET bare    == {[text |-> <<w>>, means |-> <<<<"=">>, w>>] : w \in SomeWord \cup {Wildcard}}
        written == {[text |-> op \o gap \o <<w>>, means |-> <<op, w>>] :
                       op \in Operators, gap \in {<<>>, <<" ">>}, w \in SomeWord \cup {Wildcard}}
    IN  bare \cup {p \in written :
                     /\ isRange(p.means[1]) => p.means[2] \in SomeWord \ {"nightly"}
                     /\ p.means[1] = <<"!", "=">> => p.means[2] # Wildcard}

Separators(symbols) == {l \o s \o r : l, r \in {<<>>, <<" ">>}, s \in symbols}

Ands == Separators({<<",">>, <<"&", "&">>}) \cup {<<" ">>, <<" ", "AND", " ">>}
Ors  == Separators({<<"|", "|">>}) \cup {<<" ", "OR", " ">>}

(* The constraints of one and of two predicates. *)
One == {[text |-> p.text, means |-> <<{p.means}>>] : p \in Predicates}
Two ==
    {[text |-> p.text \o and \o q.text, means |-> <<{p.means, q.means}>>] :
        p, q \in Predicates, and \in Ands}
    \cup {[text |-> p.text \o or \o q.text, means |-> <<{p.means}, {q.means}>>] :
             p, q \in Predicates, or \in Ors}

ASSUME DerivedIsParsed ==
    \A c \in One \cup Two : parseConstraint(c.text) = c.means

(* Nothing else of a length up to four is parsed; words do not touch, and  *)
(* two spaces are like one.                                                *)
Letters == Symbol \cup Keyword \cup {Wildcard, "1", "nightly"}
Spaced(s) ==
    \A i \in 1..(Len(s) - 1) :
        /\ s[i] \in Symbol \/ s[i + 1] \in Symbol
        /\ ~(s[i] = " " /\ s[i + 1] = " ")
Stripped(s) ==
    LET inner == {i \in DOMAIN s : s[i] # " "}
    IN  IF inner = {} THEN <<>>
        ELSE SubSeq(s, CHOOSE i \in inner : \A j \in inner : i <= j,
                       CHOOSE i \in inner : \A j \in inner : j <= i)

ASSUME ParsedIsDerived ==
    LET derived == {c.text : c \in {d \in One \cup Two : Len(d.text) <= 4}}
    IN  \A n \in 0..4 : \A s \in [1..n -> Letters] :
            Spaced(s) => (parseConstraint(s) # Refused) = (Stripped(s) \in derived)

(* AND binds tighter than OR, and an opaque version is an error in ranges. *)
ASSUME Meaning ==
    /\ Satisfies("2", <<"<", "1", ",", "2", "|", "|", "2">>) = "yes"
    /\ Satisfies("2", <<"2", "|", "|", "<", "1", ",", "1">>) = "yes"
    /\ Satisfies("01.0", <<"1">>) = "yes"
    /\ Satisfies("nightly2", <<"nightly02">>) = "no"
    /\ Satisfies("nightly", <<"*", "|", "|", ">", "1">>) = "error"
    /\ HasCandidate(<<">", "=", "1">>, "package", {}, "a64",
                    {[version |-> "nightly", upstream |-> NoUpstream, platforms |-> {"a64"}],
                     [version |-> "1-ohos.2", upstream |-> NoUpstream, platforms |-> {"a64"}]})
    /\ ~HasCandidate(<<"1">>, "upstream", {}, "a64",
                     {[version |-> "1", upstream |-> NoUpstream, platforms |-> {"a64"}]})
=============================================================================
