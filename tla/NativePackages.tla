---------------------------- MODULE NativePackages ----------------------------
(***************************************************************************)
(* The native packages of a root as a set of dependencies: which versions  *)
(* are installed, which one of each package is active, and which versions  *)
(* every receipt is bound to.  The operations are those that plan: oo      *)
(* install, switch, remove and unlink; committing a plan is one step here, *)
(* and PackageTransaction's business.                                      *)
(*                                                                         *)
(* A constraint is the set of versions that satisfy it.  An index gives    *)
(* for every published version its dependencies and the content of its     *)
(* artifact, of which receipts keep a copy.                                *)
(***************************************************************************)
EXTENDS Integers, FiniteSets, Functions

CONSTANTS
    Name,       \* native packages, numbered in the order of their names
    Version,    \* versions, numbered in their order
    Commanded,  \* packages whose artifacts have commands
    Catalog,    \* the indexes a mirror may give
    MaxTargets, \* a bound: packages one operation names
    MaxInstalled \* a bound: versions that are installed

Dir == Name \X Version

(* What an index or a receipt says of a version. *)
Metadata ==
    [deps : UNION {[Used -> SUBSET Version] : Used \in SUBSET Name},
     content : Nat]

ASSUME NativeAssumption ==
    /\ Name \subseteq Nat /\ IsFiniteSet(Name)
    /\ Version \subseteq Nat \ {0} /\ IsFiniteSet(Version)
    /\ Commanded \subseteq Name
    /\ \A idx \in Catalog :
          /\ DOMAIN idx = Name
          /\ \A n \in Name :
                /\ DOMAIN idx[n] \subseteq Version
                /\ \A v \in DOMAIN idx[n] :
                      /\ idx[n][v] \in Metadata
                      /\ n \notin DOMAIN idx[n][v].deps
    /\ MaxTargets \in Nat
    /\ MaxInstalled \in Nat

NoVersion == 0

VARIABLES
    index,      \* the index an operation loads
    packages    \* State.Packages of installed.json

vars == <<index, packages>>

(* Receipts and InstalledPackage; without versions a package is absent. *)
Receipt ==
    [deps : UNION {[Used -> SUBSET Version] : Used \in SUBSET Name},
     content : Nat,
     automatic : BOOLEAN,
     bound : UNION {[Used -> Version] : Used \in SUBSET Name}]

Absent == [active |-> NoVersion, disabled |-> FALSE, versions |-> <<>>]

Installed(s, n) == DOMAIN s[n].versions
Keys(s)         == UNION {{n} \X Installed(s, n) : n \in Name}
ReceiptOf(s, k) == s[k[1]].versions[k[2]]
ActiveIn(s, names) ==
    {<<n, s[n].active>> : n \in {m \in names : s[m].active # NoVersion}}
Active(s)       == ActiveIn(s, Name)

(* Keys of s whose receipts are bound to k. *)
UsersOf(s, k) ==
    {u \in Keys(s) : /\ k[1] \in DOMAIN ReceiptOf(s, u).bound
                     /\ ReceiptOf(s, u).bound[k[1]] = k[2]}

TypeOK ==
    /\ index \in Catalog
    /\ DOMAIN packages = Name
    /\ \A n \in Name :
          /\ packages[n].disabled \in BOOLEAN
          /\ Installed(packages, n) \subseteq Version
          /\ packages[n].active \in Installed(packages, n) \cup {NoVersion}
          /\ Installed(packages, n) = {} => packages[n] = Absent
          /\ \A v \in Installed(packages, n) : packages[n].versions[v] \in Receipt

Init ==
    /\ index \in Catalog
    /\ packages = [n \in Name |-> Absent]

(* validate: every binding names an installed version that its constraint  *)
(* allows.                                                                 *)
Valid(s) ==
    \A k \in Keys(s) :
        LET r == ReceiptOf(s, k) IN
        \A d \in DOMAIN r.deps : /\ r.bound[d] \in Installed(s, d)
                                 /\ r.bound[d] \in r.deps[d]

(* Mutant: an active package keeps the binding it had. *)
ReboundNot(s) == s

(* rebindActive: active, linked packages are bound to active versions ...  *)
Rebound(s) ==
    [n \in Name |->
        IF s[n].active = NoVersion \/ s[n].disabled
        THEN s[n]
        ELSE [s[n] EXCEPT !.versions[s[n].active].bound =
                 [d \in DOMAIN @ |-> s[d].active]]]

(* ... which they must have, allow and, where they are commands, find.     *)
Rebindable(s) ==
    \A k \in Active(s) :
        ~s[k[1]].disabled =>
            \A d \in DOMAIN ReceiptOf(s, k).deps :
                /\ s[d].active # NoVersion
                /\ ~(s[d].disabled /\ d \in Commanded)
                /\ s[d].active \in ReceiptOf(s, k).deps[d]

-----------------------------------------------------------------------------
(* planNative: a request is a package and an exact version; all of one     *)
(* operation have the same noSwitch.                                       *)

(* The index comes first, a receipt where it does not list the version. *)
Listed(idx, s, n) == DOMAIN idx[n] \cup Installed(s, n)

Pooled(idx, s, k) ==
    IF k[2] \in DOMAIN idx[k[1]]
    THEN idx[k[1]][k[2]]
    ELSE [deps |-> ReceiptOf(s, k).deps, content |-> ReceiptOf(s, k).content]

(* The dependencies of every version of the packages in set. *)
UsedBy(idx, s, set) ==
    UNION {DOMAIN Pooled(idx, s, k).deps :
              k \in {j \in set \X Version : j[2] \in Listed(idx, s, j[1])}}

(* mark: what the requests may change, over every version there is. *)
Affected(idx, s, requests, noSwitch) ==
    LET first == IF noSwitch
                 THEN UNION {DOMAIN Pooled(idx, s, k).deps : k \in requests}
                 ELSE {k[1] : k \in requests}
        marked[i \in 0..Cardinality(Name)] ==
            IF i = 0 THEN first
            ELSE LET set == marked[i - 1] IN set \cup UsedBy(idx, s, set)
    IN  marked[Cardinality(Name)]

(* Active versions that stay: of packages that are not affected, and of    *)
(* those of which another version is installed beside.                     *)
Fixed(s, requests, noSwitch, affected) ==
    ActiveIn(s, (Name \ affected) \cup {k[1] : k \in {r \in requests : noSwitch}})

(* The problem that solve gets: candidates of every package with their     *)
(* dependencies, and the constraints that hold before anything is chosen.  *)
Problem(idx, s, requests, noSwitch, fixed) ==
    LET keys  == {k \in Dir : IF \E f \in fixed : f[1] = k[1]
                              THEN k \in fixed
                              ELSE k[2] \in Listed(idx, s, k[1])}
        passive == {k \in requests : noSwitch}
    IN  [needs |-> [k \in keys |-> IF k \in fixed THEN ReceiptOf(s, k).deps
                                   ELSE Pooled(idx, s, k).deps],
         base  |-> [n \in Name |->
                       {{k[2]} : k \in {r \in requests : ~noSwitch /\ r[1] = n}}
                       \cup {{k[2]} : k \in {f \in fixed : f[1] = n}}
                       \cup {Pooled(idx, s, k).deps[n] :
                                k \in {p \in passive :
                                          n \in DOMAIN Pooled(idx, s, p).deps}}],
         fixed |-> fixed,
         state |-> s]

(* The problem of a request, as a set of one: what a bound variable stands *)
(* for is computed once.                                                   *)
Problems(idx, s, requests, noSwitch) ==
    {Problem(idx, s, requests, noSwitch, fixed) :
        fixed \in {Fixed(s, requests, noSwitch, affected) :
            affected \in {Affected(idx, s, requests, noSwitch)}}}

(* The constraints on n once some versions have been selected. *)
Constraints(problem, selected, n) ==
    problem.base[n] \cup
        {problem.needs[k][n] : k \in {j \in selected : n \in DOMAIN problem.needs[j]}}

Allowed(problem, selected, n) ==
    {v \in Version : \A c \in Constraints(problem, selected, n) : v \in c}

Wanted(problem, selected) ==
    {n \in Name : Constraints(problem, selected, n) # {}}

(* nativeOrder: every dependency is selected, and there is no cycle. *)
Ordered(problem, selected) ==
    /\ \A k \in selected : DOMAIN problem.needs[k] \subseteq {j[1] : j \in selected}
    /\ \A cycle \in SUBSET selected \ {{}} :
          \E k \in cycle : DOMAIN problem.needs[k] \cap {j[1] : j \in cycle} = {}

(* The pool's order: the active version, then the installed ones, then the *)
(* newest.                                                                 *)
Preferred(problem, n, v, w) ==
    LET p == problem.state[n]
        rank(u) == IF u = p.active THEN 2 ELSE IF u \in DOMAIN p.versions THEN 1 ELSE 0
    IN  rank(v) > rank(w) \/ (rank(v) = rank(w) /\ v >= w)

First(problem, n, versions) ==
    {v \in versions : \A w \in versions : Preferred(problem, n, v, w)}

(* Mutant: the first candidate is not given up for another. *)
TriedFirst(problem, n, versions, solutions) ==
    UNION {solutions[v] : v \in First(problem, n, versions)}

(* Candidates are tried in the pool's order until one leads to a solution. *)
Tried(problem, n, versions, solutions) ==
    UNION {solutions[v] :
              v \in First(problem, n, {w \in versions : solutions[w] # {}})}

(* solve: the selection that is found, or none.  The limit of 10000        *)
(* attempts is far away.                                                   *)
Solution(problem) ==
    LET solve[selected \in SUBSET DOMAIN problem.needs] ==
            LET pending == Wanted(problem, selected) \ {k[1] : k \in selected}
                n == CHOOSE m \in pending : \A o \in pending : m <= o
                versions == {v \in Allowed(problem, selected, n) :
                                <<n, v>> \in DOMAIN problem.needs}
            IN  IF \E k \in selected : k[2] \notin Allowed(problem, selected, k[1])
                THEN {}
                ELSE IF pending = {}
                THEN {selected : i \in {j \in {1} : Ordered(problem, selected)}}
                ELSE Tried(problem, n, versions,
                           [v \in versions |-> solve[selected \cup {<<n, v>>}]])
    IN  solve[{}]

(* A new receipt, or the one of an installed version brought up to date. *)
Renewed(s, k, explicit, meta, selected) ==
    LET old == k \in Keys(s) IN
    [deps      |-> meta.deps,
     content   |-> IF old THEN ReceiptOf(s, k).content ELSE meta.content,
     automatic |-> ~explicit /\ (old => ReceiptOf(s, k).automatic),
     bound     |-> [d \in DOMAIN meta.deps |->
                       (CHOOSE j \in selected : j[1] = d)[2]]]

(* Plan.After, before its active packages are bound: the selection is      *)
(* installed and active, the packages asked for are linked, and passive    *)
(* roots are installed beside.                                             *)
After(idx, s, requests, noSwitch, problem, selected) ==
    LET passive == {k \in requests : noSwitch}
        content(k) == IF k \in problem.fixed
                      THEN ReceiptOf(s, k).content ELSE Pooled(idx, s, k).content
        receipt(k) ==
            IF k \in passive
            THEN Renewed(s, k, TRUE, Pooled(idx, s, k), selected)
            ELSE Renewed(s, k, k \in requests,
                         [deps |-> problem.needs[k], content |-> content(k)], selected)
        fresh(n)    == {v \in Version : <<n, v>> \in selected \cup passive}
        enabled(n)  == {k \in selected : k[1] = n /\ \A p \in passive : p[1] # n}
    IN  [n \in Name |->
            [active   |-> IF enabled(n) = {} THEN s[n].active
                          ELSE (CHOOSE k \in enabled(n) : TRUE)[2],
             disabled |-> s[n].disabled /\ enabled(n) \cap requests = {},
             versions |-> [v \in Installed(s, n) \cup fresh(n) |->
                              IF v \in fresh(n) THEN receipt(<<n, v>>)
                              ELSE s[n].versions[v]]]]

(* What is installed already must be what the index describes. *)
SameContents(idx, s, requests, noSwitch, problem, selected) ==
    \A k \in (selected \ problem.fixed) \cup {r \in requests : noSwitch} :
        k \in Keys(s) => ReceiptOf(s, k).content = Pooled(idx, s, k).content

(* The states a plan may lead to: one, or none. *)
Plans(idx, s, requests, noSwitch) ==
    {Rebound(after) : after \in
        {a \in UNION {{After(idx, s, requests, noSwitch, problem, selected) :
                          selected \in {c \in Solution(problem) :
                              SameContents(idx, s, requests, noSwitch, problem, c)}} :
                     problem \in Problems(idx, s, requests, noSwitch)} :
            Rebindable(a) /\ Valid(Rebound(a))}}

Requests(keys) ==
    {set \in SUBSET keys : /\ set # {}
                           /\ Cardinality(set) <= MaxTargets
                           /\ \A j, k \in set : j[1] = k[1] => j = k}

Published == {k \in Dir : k[2] \in DOMAIN index[k[1]]}

-----------------------------------------------------------------------------
(* Removal. *)

(* A set of keys, and what they lead to, until nothing is added. *)
Closure(first, leads) ==
    LET grown[i \in 0..Cardinality(Dir)] ==
            IF i = 0 THEN first
            ELSE LET set == grown[i - 1] IN set \cup UNION {leads[k] : k \in set}
    IN  grown[Cardinality(Dir)]

(* expandCascade: whatever is bound to something that is removed. *)
Cascade(s, removing) ==
    Closure(removing, [k \in Keys(s) |-> UsersOf(s, k)])

(* Mutant: a dependency is a candidate though a removed version is its     *)
(* only user's user.                                                       *)
ProtectedOnce(s, roots, reached) ==
    {k \in reached : /\ ReceiptOf(s, k).automatic
                     /\ UsersOf(s, k) \subseteq roots \cup reached}

(* Candidates that nothing asked for and nothing else needs: whatever is   *)
(* protected protects what it uses in its turn.                            *)
Protected(s, roots, reached) ==
    LET left[i \in 0..Cardinality(Dir)] ==
            IF i = 0 THEN reached
            ELSE LET set == left[i - 1] IN
                 {k \in set : /\ ReceiptOf(s, k).automatic
                              /\ UsersOf(s, k) \subseteq roots \cup set}
    IN  left[Cardinality(Dir)]

UsedKeys(s, j) == {k \in Keys(s) : j \in UsersOf(s, k)}

Reached(s, roots) == Closure(roots, [j \in Keys(s) |-> UsedKeys(s, j)]) \ roots

(* cleanupCandidates. *)
Candidates(s, roots) == Protected(s, roots, Reached(s, roots))

(* stateWithout. *)
Without(s, removing) ==
    [n \in Name |->
        LET left == {v \in Installed(s, n) : <<n, v>> \notin removing} IN
        IF left = {} THEN Absent
        ELSE [active   |-> IF s[n].active \in left THEN s[n].active ELSE NoVersion,
              disabled |-> s[n].disabled,
              versions |-> [v \in left |-> s[n].versions[v]]]]

(* removalKeys: versions by name, the active one, or all of a package. *)
Removable ==
    UNION {{{k} : k \in Keys(packages)},
           {{k \in Keys(packages) : k[1] = n} : n \in {k[1] : k \in Keys(packages)}}}

-----------------------------------------------------------------------------
(* The operations. *)

(* oo update: another index; receipts keep what they have. *)
Update ==
    /\ index' \in Catalog \ {index}
    /\ UNCHANGED packages

Install(requests, noSwitch) ==
    /\ packages' \in Plans(index, packages, requests, noSwitch)
    /\ Cardinality(Keys(packages')) <= MaxInstalled
    /\ UNCHANGED index

(* oo switch plans with the receipts for an index, and downloads nothing. *)
FromReceipts(s) ==
    [n \in Name |-> [v \in Installed(s, n) |->
        [deps |-> s[n].versions[v].deps, content |-> s[n].versions[v].content]]]

Switch(k) ==
    /\ k \in Keys(packages)
    /\ packages' \in Plans(FromReceipts(packages), packages, {k}, FALSE)
    /\ Keys(packages') = Keys(packages)
    /\ UNCHANGED index

Remove(named, cascade, cleanup) ==
    LET roots == IF cascade THEN Cascade(packages, named) ELSE named
        removing == roots \cup {k \in Candidates(packages, roots) : cleanup}
        after == Without(packages, removing)
    IN  /\ \A k \in roots : UsersOf(packages, k) \subseteq roots
        /\ Valid(after)
        /\ Rebindable(after)
        /\ packages' = Rebound(after)
        /\ UNCHANGED index

Unlink(names) ==
    /\ names # {}
    /\ \A n \in names : Installed(packages, n) # {}
    /\ packages' = [n \in Name |-> IF n \in names
                                   THEN [packages[n] EXCEPT !.disabled = TRUE]
                                   ELSE packages[n]]
    /\ UNCHANGED index

InstallAny ==
    \E requests \in Requests(Published), noSwitch \in BOOLEAN :
        Install(requests, noSwitch)

SwitchAny == \E k \in Dir : Switch(k)

RemoveAny ==
    \E named \in Removable, cascade, cleanup \in BOOLEAN :
        Remove(named, cascade, cleanup)

UnlinkAny == \E n \in Name : Unlink({n})

Next == Update \/ InstallAny \/ SwitchAny \/ RemoveAny \/ UnlinkAny

Spec == Init /\ [][Next]_vars

-----------------------------------------------------------------------------
(* The commands on PATH work: whatever sequence of operations and indexes  *)
(* led here, the record is well formed, and an active package that is      *)
(* linked finds for every dependency an active version that its constraint *)
(* allows, and is bound to it (resolver.go:294-413, 415-442).              *)
Environment ==
    /\ TypeOK
    /\ \A k \in Active(packages) :
          ~packages[k[1]].disabled =>
              LET r == ReceiptOf(packages, k) IN
              \A d \in DOMAIN r.deps :
                  /\ packages[d].active \in r.deps[d]
                  /\ r.bound[d] = packages[d].active

(* What a selection has to be, said without a search: a version of every   *)
(* package that is wanted, each allowed, and no cycle.                     *)
Solves(problem, selected) ==
    /\ \A j, k \in selected : j[1] = k[1] => j = k
    /\ {k[1] : k \in selected} = Wanted(problem, selected)
    /\ \A k \in selected : k[2] \in Allowed(problem, selected, k[1])
    /\ Ordered(problem, selected)

(* Backtracking neither misses a solution nor invents one, for whatever    *)
(* can be asked for in this state.                                         *)
SolveIsExact ==
    \A requests \in Requests(Published), noSwitch \in BOOLEAN :
        \A problem \in Problems(index, packages, requests, noSwitch) :
        LET found == Solution(problem)
        IN  /\ \A selected \in found : Solves(problem, selected)
            /\ found = {} => \A selected \in SUBSET DOMAIN problem.needs :
                                 ~Solves(problem, selected)

(* An operation that names a version cleans up exactly the largest set of  *)
(* automatic dependencies whose users all go with them.                    *)
CleanupIsExact ==
    \A named \in Removable :
        LET reached == Reached(packages, named) IN
        Candidates(packages, named) =
            UNION {set \in SUBSET reached :
                      \A k \in set :
                          /\ ReceiptOf(packages, k).automatic
                          /\ UsersOf(packages, k) \subseteq named \cup set}

(* What the solver selects fits the active packages that the request does  *)
(* not reach: they keep their version and, unless they are unlinked, find  *)
(* what they depend on, so that no plan has to be refused on their account.*)
PlansFitOthers ==
    \A requests \in Requests(Published), noSwitch \in BOOLEAN :
        \A problem \in Problems(index, packages, requests, noSwitch) :
        \A selected \in Solution(problem) :
        \A after \in {After(index, packages, requests, noSwitch, problem, selected)} :
        \A k \in ActiveIn(packages,
                          Name \ Affected(index, packages, requests, noSwitch)) :
            /\ after[k[1]].active = k[2]
            /\ LET deps == ReceiptOf(packages, k).deps IN
               ~packages[k[1]].disabled =>
                   \A d \in DOMAIN deps : after[d].active \in deps[d]

(* Planning neither misses a selection nor spoils what it does not touch   *)
(* (resolver.go:133-286, 415-442).                                         *)
PlansAreExact == SolveIsExact /\ PlansFitOthers
=============================================================================
