---------------------------- MODULE PackageState ----------------------------
(***************************************************************************)
(* The value kept in state/installed.json, what makes one valid, the       *)
(* command links it asks for, and the states one package operation may     *)
(* turn it into.  Receipts are reduced to the commands they own and to     *)
(* whether they carry launcher options; dependency bindings are left to    *)
(* the resolver's own module, so the operations below offer every choice   *)
(* a resolution could make.                                                *)
(***************************************************************************)
EXTENDS Integers

CONSTANTS
    Package,        \* names of native packages
    Version,        \* exact versions
    Command,        \* command names declared by artifacts
    Dir,            \* <<package, version>> pairs some catalog offers
    Provides,       \* the commands of each <<package, version>>
    WithLauncher,   \* those whose artifact has launcher options
    Client,         \* the package of oo itself, "oheco"
    NoVersion,      \* no active version
    Plain           \* marks the default link of a command, without @version

ASSUME CatalogAssumption ==
    /\ Dir \subseteq Package \X Version
    /\ Provides \in [Dir -> SUBSET Command]
    /\ WithLauncher \subseteq {d \in Dir : Provides[d] # {}}
    /\ Client \in Package
    /\ NoVersion \notin Version
    /\ Plain \notin Version

Schema == 1..3

State == [installed : SUBSET Dir,
          active    : [Package -> Version \cup {NoVersion}],
          unlinked  : SUBSET Package,
          schema    : Schema]

EmptyState(schema) == [installed |-> {},
                       active    |-> [p \in Package |-> NoVersion],
                       unlinked  |-> {},
                       schema    |-> schema]

VersionsOf(s, p) == {v \in Version : <<p, v>> \in s.installed}

Linked(s) == {d \in s.installed : d[1] \notin s.unlinked}

(* A command belongs to one package, over every installed version. *)
UniqueOwners(s) ==
    \A d, e \in Linked(s) : Provides[d] \cap Provides[e] # {} => d[1] = e[1]

Valid(s) ==
    /\ \A p \in Package : s.active[p] \in VersionsOf(s, p) \cup {NoVersion}
    /\ \A p \in s.unlinked : VersionsOf(s, p) # {}
    /\ s.schema < 3 => s.unlinked = {} /\ s.installed \cap WithLauncher = {}
    /\ UniqueOwners(s)

-----------------------------------------------------------------------------
(* Links in bin/.  Every linked version has its commands as c@v, pointing  *)
(* into its directory; the active one also as c, pointing to c@v.  A name  *)
(* maps to the set of its targets, which is empty when there is no link.   *)

Name   == Command \X (Version \cup {Plain})
Target == Name \cup Dir

LinksOf(s) ==
    [n \in Name |->
        IF n[2] = Plain
        THEN {<<n[1], d[2]>> : d \in {e \in Linked(s) :
                 n[1] \in Provides[e] /\ s.active[e[1]] = e[2]}}
        ELSE {d \in Linked(s) : n[1] \in Provides[d] /\ d[2] = n[2]}]

NamesOf(s) == {n \in Name : LinksOf(s)[n] # {}}

-----------------------------------------------------------------------------
(* The operations: the value of After each may compute from Before. *)

AtLeast(schema, low) == IF schema < low THEN low ELSE schema

OneVersionEach(dirs) == \A d, e \in dirs : d[1] = e[1] => d = e

(* oo install and oo switch: the resolver selects one version of each      *)
(* package and activates it; roots, the packages the user named, are       *)
(* linked again.  Under --no-switch the versions asked for are passive:    *)
(* they are installed, and their packages keep their active version.       *)
Planned(s, selected, roots, passive) ==
    LET activated == {d \in selected : \A e \in passive : e[1] # d[1]}
        touched   == selected \cup passive
    IN  [installed |-> s.installed \cup touched,
         active    |-> [p \in Package |->
                           IF \E d \in activated : d[1] = p
                           THEN (CHOOSE d \in activated : d[1] = p)[2]
                           ELSE s.active[p]],
         unlinked  |-> s.unlinked \ {d[1] : d \in roots},
         schema    |-> IF touched \cap WithLauncher # {} THEN 3
                                             ELSE AtLeast(s.schema, 2)]

OneEach == {dirs \in SUBSET Dir : OneVersionEach(dirs)}

ActivationsOf(s, selected) ==
    {Planned(s, selected, roots, {}) : roots \in SUBSET selected \ {{}}}

Activations(s) == UNION {ActivationsOf(s, selected) : selected \in OneEach}

PassiveInstalls(s) ==
    {Planned(s, selected, {}, passive) : selected \in OneEach,
                                        passive \in OneEach \ {{}}}

Plans(s) == Activations(s) \cup PassiveInstalls(s)

(* oo bootstrap: the client alone, without raising the schema. *)
Bootstrapped(s, d) ==
    [s EXCEPT !.installed = @ \cup {d},
              !.active[Client] = d[2],
              !.schema = IF d \in WithLauncher THEN 3 ELSE @]

Bootstraps(s) == {Bootstrapped(s, d) : d \in {e \in Dir : e[1] = Client}}

(* oo remove; --all, --cascade and --autoremove only choose a larger set. *)
Removed(s, removing) ==
    LET left == s.installed \ removing
    IN  [installed |-> left,
         active    |-> [p \in Package |->
                           IF <<p, s.active[p]>> \in removing
                           THEN NoVersion ELSE s.active[p]],
         unlinked  |-> {p \in s.unlinked : \E d \in left : d[1] = p},
         schema    |-> s.schema]

Removals(s) == {Removed(s, removing) : removing \in SUBSET s.installed \ {{}}}

(* oo unlink: never the client. *)
Unlinks(s) ==
    {[s EXCEPT !.unlinked = @ \cup names, !.schema = 3] :
        names \in SUBSET {p \in Package \ {Client} : VersionsOf(s, p) # {}}
                     \ {{}}}

(* Every operation refuses a result that does not validate. *)
Successors(s) ==
    {t \in Plans(s) \cup Bootstraps(s) \cup Removals(s) \cup Unlinks(s) :
        Valid(t)}
=============================================================================
