------------------------- MODULE VersionConstraints -------------------------
(***************************************************************************)
(* The order of versions and the constraints on them, which the native     *)
(* resolver and the catalog's validation use.                              *)
(*                                                                         *)
(* A word is the spelling of a version; Parsed says what it is read as.    *)
(* An ordered version has a numeric core, a letter, prerelease identifiers *)
(* and a revision; any other is opaque, and has only its tokens.  A token  *)
(* is a run of digits or of other characters, with its rank among its      *)
(* like.  A constraint is a sequence of characters, of which a word, "*",  *)
(* "AND" and "OR" count as one; two of them never touch.                   *)
(***************************************************************************)
EXTENDS Integers, Sequences

CONSTANTS
    Word,       \* spellings of versions
    Parsed      \* what they are read as

Symbol == {">", "<", "=", "!", "|", "&", ",", " "}
Keyword == {"AND", "OR"}
Wildcard == "*"

Token == [number : BOOLEAN, rank : Nat]

comparableVersion ==
    [ordered : BOOLEAN,
     core : Seq(Nat), letter : Nat, prerelease : Seq(Seq(Token)), revision : Nat,
     tokens : Seq(Token), bytes : Nat]

ASSUME VersionsAssumption ==
    /\ Word \cap (Symbol \cup Keyword \cup {Wildcard}) = {}
    /\ Parsed \in [Word -> comparableVersion]
    /\ \A u, v \in Word : Parsed[u].bytes = Parsed[v].bytes => u = v

-----------------------------------------------------------------------------
(* Comparisons are -1, 0 or 1. *)

Sign(a, b) == IF a < b THEN -1 ELSE IF a > b THEN 1 ELSE 0

(* The first comparison of a sequence that decides. *)
Decides(c, i) == c[i] # 0 /\ \A j \in DOMAIN c : j < i => c[j] = 0

Leading(c) ==
    IF \E i \in DOMAIN c : c[i] # 0
    THEN c[CHOOSE i \in DOMAIN c : Decides(c, i)] ELSE 0

Longer(a, b) == IF Len(a) < Len(b) THEN Len(b) ELSE Len(a)

compareToken(a, b) ==
    IF a.number = b.number THEN Sign(a.rank, b.rank)
    ELSE IF a.number THEN -1 ELSE 1

(* Where one sequence has ended, the other one is greater. *)
compareNatural(a, b) ==
    Leading([i \in 1..Longer(a, b) |->
              IF i > Len(a) THEN -1 ELSE IF i > Len(b) THEN 1
              ELSE compareToken(a[i], b[i])])

compareIdentifiers(a, b) ==
    Leading([i \in 1..Longer(a, b) |->
              IF i > Len(a) THEN -1 ELSE IF i > Len(b) THEN 1
              ELSE compareNatural(a[i], b[i])])

(* A release is behind its prereleases. *)
comparePrerelease(a, b) ==
    IF a = <<>> \/ b = <<>> THEN Sign(Len(b), 0) - Sign(Len(a), 0)
    ELSE compareIdentifiers(a, b)

Part(core, i) == IF i <= Len(core) THEN core[i] ELSE 0

compareCore(a, b) ==
    Leading([i \in 1..Longer(a, b) |-> Sign(Part(a, i), Part(b, i))])

compareParsed(a, b) ==
    Leading(<<compareCore(a.core, b.core), Sign(a.letter, b.letter),
            comparePrerelease(a.prerelease, b.prerelease), Sign(a.revision, b.revision)>>)

compareOpaque(a, b) ==
    Leading(<<compareNatural(a.tokens, b.tokens), Sign(a.bytes, b.bytes)>>)

(* Opaque versions are before ordered ones. *)
compareSpelled(a, b) ==
    IF a.ordered /\ b.ordered THEN compareParsed(a, b)
    ELSE IF ~a.ordered /\ ~b.ordered THEN compareOpaque(a, b)
    ELSE IF a.ordered THEN 1 ELSE -1

CompareVersions(u, v) == compareSpelled(Parsed[u], Parsed[v])

-----------------------------------------------------------------------------
(* parseConstraint.  The result is the sequence of its alternatives, each  *)
(* a set of predicates; without any the constraint is refused.             *)

Operators == {<<">", "=">>, <<"<", "=">>, <<"=", "=">>, <<"!", "=">>, <<">">>, <<"<">>, <<"=">>}

isRange(op) == op \in {<<">", "=">>, <<"<", "=">>, <<">">>, <<"<">>}

Refused == <<>>

Admitted(op, word) ==
    \/ word = Wildcard /\ op \in {<<"=">>, <<"=", "=">>}
    \/ word \in Word /\ (isRange(op) => Parsed[word].ordered)

parseConstraint(s) ==
    LET n     == Len(s)
        At(i) == IF i <= n THEN s[i] ELSE ""
        Trimmed(i) == CHOOSE k \in i..(n + 1) :
                         At(k) # " " /\ \A j \in i..(k - 1) : At(j) = " "
        \* the operator at i, where a longer one comes first
        Op(i) == IF <<At(i), At(i + 1)>> \in Operators THEN <<At(i), At(i + 1)>>
                 ELSE IF <<At(i)>> \in Operators THEN <<At(i)>> ELSE <<>>
        IsKeyword(i, word) == At(i) = word /\ At(i + 1) \in {" ", ""}
        Pair(i, c) == At(i) = c /\ At(i + 1) = c
        And(predicate, rest) ==
            IF rest = Refused THEN Refused
            ELSE [rest EXCEPT ![1] = @ \cup {predicate}]
        Or(predicate, rest) ==
            IF rest = Refused THEN Refused ELSE <<{predicate}>> \o rest
        from[i \in 1..(n + 1)] ==
            LET given     == Op(i)
                op        == IF given = <<>> THEN <<"=">> ELSE given
                v         == IF given = <<>> THEN i ELSE Trimmed(i + Len(given))
                next      == Trimmed(v + 1)
                predicate == <<op, At(v)>>
                After(k)  == IF Trimmed(next + k) > n THEN Refused ELSE from[Trimmed(next + k)]
            IN  IF v > n THEN Refused
                ELSE IF ~Admitted(op, At(v)) THEN Refused
                ELSE IF next > n THEN <<{predicate}>>
                ELSE CASE Pair(next, "|") -> Or(predicate, After(2))
                       [] IsKeyword(next, "OR") -> Or(predicate, After(1))
                       [] Pair(next, "&") -> And(predicate, After(2))
                       [] IsKeyword(next, "AND") \/ At(next) = "," -> And(predicate, After(1))
                       [] OTHER -> IF next = v + 1 THEN Refused
                                   ELSE And(predicate, After(0))
    IN  IF Trimmed(1) > n THEN Refused ELSE from[Trimmed(1)]

-----------------------------------------------------------------------------
(* Satisfies: "yes", "no", or an error.  Between versions that are not     *)
(* both ordered only their spelling is compared.                           *)

Holds(op, c) ==
    CASE op \in {<<"=">>, <<"=", "=">>} -> c = 0
      [] op = <<"!", "=">> -> c # 0
      [] op = <<">">> -> c > 0
      [] op = <<">", "=">> -> c >= 0
      [] op = <<"<">> -> c < 0
      [] op = <<"<", "=">> -> c <= 0

Compared(word, other) ==
    IF Parsed[word].ordered /\ Parsed[other].ordered
    THEN compareParsed(Parsed[word], Parsed[other])
    ELSE Sign(Parsed[word].bytes, Parsed[other].bytes)

Matches(word, predicate) ==
    predicate[2] = Wildcard \/ Holds(predicate[1], Compared(word, predicate[2]))

Satisfies(word, s) ==
    LET clauses == parseConstraint(s)
        ranges  == \E i \in DOMAIN clauses : \E p \in clauses[i] : isRange(p[1])
    IN  IF clauses = Refused \/ (~Parsed[word].ordered /\ ranges) THEN "error"
        ELSE IF \E i \in DOMAIN clauses : \A p \in clauses[i] : Matches(word, p)
        THEN "yes" ELSE "no"

(* AppliesTo, and Matches of a dependency: what of a version is compared   *)
(* is its own spelling or that of its upstream, which is never guessed.    *)
NoUpstream == ""

AppliesTo(platforms, platform) == platforms = {} \/ platform \in platforms

DependencyMatches(constraint, basis, version, upstream) ==
    IF basis = "upstream"
    THEN IF upstream = NoUpstream THEN "error" ELSE Satisfies(upstream, constraint)
    ELSE Satisfies(version, constraint)

(* Index.validateDependencies: for every platform of a dependent, some     *)
(* candidate with an artifact matches; one that is an error is passed over.*)
HasCandidate(constraint, basis, platforms, platform, candidates) ==
    AppliesTo(platforms, platform) =>
        \E c \in candidates :
            /\ platform \in c.platforms
            /\ DependencyMatches(constraint, basis, c.version, c.upstream) = "yes"
=============================================================================
