------------------------- MODULE LanguageOperations -------------------------
(***************************************************************************)
(* "oo install" and "oo remove" of npm and pip packages, alone or together *)
(* with native packages: what is checked before anything changes, the      *)
(* order of the native transaction and of the backends, the choice of the  *)
(* interpreter, the options that are forwarded, and the backend's process  *)
(* beside the temporary registry that it talks to.                         *)
(*                                                                         *)
(* One operation is followed, under the manager's lock.  The user may edit *)
(* pip's configuration meanwhile and may interrupt the operation.  How npm *)
(* and pip read their arguments and their configuration is external: it is *)
(* what the code in src/ supposes of them.                                 *)
(***************************************************************************)
EXTENDS Integers, Sequences

CONSTANTS
    Options,    \* the options a caller may pass to each backend
    MaxArgs,    \* bound on their number
    Settings,   \* what pip's configuration may say
    Systems,    \* what may be on PATH
    NpmUnlisted,    \* options that take the next argument, known to npm
    PipUnlisted,    \* and to pip, which the tables of oo do not have
    MaxEdits    \* edits of its files

ASSUME LanguageAssumption ==
    /\ MaxArgs \in Nat
    /\ MaxEdits \in Nat
    /\ Systems \subseteq [nodejs : {"none", "bad", "good"},
                          python3 : {"none", "bad", "good", "venv", "lone"}]

Backend == {"npm", "pip"}
Tool    == {"nodejs", "python3"}

ToolOf(b) == IF b = "npm" THEN "nodejs" ELSE "python3"

VARIABLES
    op,         \* the operation that was asked for
    system,     \* what is found on PATH for each tool
    installed,  \* the tools that oo has installed
    conf,       \* pip's configuration, from its files and from PIP_*
    pc,         \* what the operation does next
    todo,       \* backends that are still to be checked or run, in order
    missing,    \* toolchains the check has found to be missing
    call,       \* the run of the first backend of todo
    registry,   \* the temporary registry of this run
    child,      \* live processes of the backend
    changed,    \* the backends that have finished, and where
    started,    \* the programs the checks have run, and which were meant
    cancelled,
    edits

languageVars == <<op, system, installed, conf, pc, todo, missing, call,
                  registry, child, changed, started, cancelled, edits>>

-----------------------------------------------------------------------------
(* Arguments.  An argument is an option, with its value if it is written   *)
(* --key=value, or a word.                                                 *)

Unset == ""

Option(key, value) == [key |-> key, value |-> value]
Flag(key) == Option(key, Unset)
Bare(w) == Option(Unset, w)

IsBare(a) == a.key = Unset
IsTruth(a) == IsBare(a) /\ a.value \in {"true", "false"}

(* Options that take the next argument, as oo knows them.  The tables are  *)
(* no list of all there are: the backends have others, and abbreviations.  *)
npmLanguageValues == {"--prefix", "--loglevel"}
pipLanguageValues == {"--target", "--log"}

LanguageValues(b) == IF b = "npm" THEN npmLanguageValues ELSE pipLanguageValues

(* Options of npm that take the next argument if it is a truth value. *)
Truths == {"--global", "--no-global", "--ignore-scripts", "--audit"}

Takers(b) ==
    IF b = "npm" THEN npmLanguageValues \cup NpmUnlisted
    ELSE pipLanguageValues \cup PipUnlisted

(* What oo appends is not among them. *)
ASSUME UnlistedAssumption ==
    (NpmUnlisted \cup PipUnlisted)
        \cap (Truths \cup npmLanguageValues \cup pipLanguageValues \cup
              {Unset, "--registry", "--offline", "--no-user", "--index-url", "--only-binary",
               "--yes"}) = {}

(* blockedLanguageOption, for one option of each kind: another source, or  *)
(* code that would run, or a shorter spelling of one of them.              *)
Blocked(b) ==
    IF b = "npm" THEN {"--registry", "--regis", "--ignore-scripts", "--audit", "--loc"}
    ELSE {"--index-url", "--extra-index", "--only-binary", "--python"}

safeLanguageProtectionArg(b, key, value) ==
    IF b = "pip" THEN key = "--only-binary" /\ value = ":all:"
    ELSE \/ key = "--ignore-scripts" /\ value \in {Unset, "true"}
         \/ key = "--audit" /\ value = "false"

(* Mutant: an option at the end may lack its value. *)
validateLanguageOptionsOpenEnd(b, args) ==
    \A i \in DOMAIN args : args[i].key \notin Blocked(b) /\ ~IsBare(args[i])

AcceptsAt(b, args, accepts, i) ==
    LET n     == Len(args)
        a     == args[i]
        joins == /\ b = "npm" /\ a.value = Unset /\ a.key \in Truths
                 /\ i < n /\ IsTruth(args[i + 1])
        value == IF joins THEN args[i + 1].value ELSE a.value
        rest  == IF joins THEN i + 2 ELSE i + 1
    IN  IF i > n THEN i = n + 1
        ELSE /\ ~IsBare(a)
             /\ IF safeLanguageProtectionArg(b, a.key, value) THEN accepts[rest]
                ELSE /\ a.key \notin Blocked(b)
                     /\ IF a.key \in LanguageValues(b) /\ a.value = Unset
                        THEN rest <= n /\ IsBare(args[rest]) /\ accepts[rest + 1]
                        ELSE accepts[rest]

(* Whether the arguments from each one on are accepted. *)
validateLanguageOptions(b, args) ==
    LET accepts[i \in 1..(Len(args) + 2)] == AcceptsAt(b, args, accepts, i)
    IN  accepts[1]

(* npmScopeArgs: the options among args that say where npm works. *)
ScopeAt(args, scope, i) ==
    LET n    == Len(args)
        a    == args[i]
        next == IF i < n THEN <<args[i + 1]>> ELSE <<>>
    IN  IF i > n THEN <<>>
        ELSE IF a.key \in {"--global", "--no-global"}
        THEN IF a.value = Unset /\ i < n /\ IsTruth(args[i + 1])
             THEN <<a>> \o next \o scope[i + 2] ELSE <<a>> \o scope[i + 1]
        ELSE IF a.key = "--prefix"
        THEN IF a.value = Unset THEN <<a>> \o next \o scope[i + 2] ELSE <<a>> \o scope[i + 1]
        ELSE IF a.key \in npmLanguageValues /\ a.value = Unset THEN scope[i + 2] ELSE scope[i + 1]

npmScopeArgs(explicit, args) ==
    LET scope[i \in 1..(Len(args) + 2)] == ScopeAt(args, scope, i)
    IN  IF explicit THEN scope[1] ELSE <<Flag("--global")>>

(* languageCommand: targets, the caller's options, oo's own. *)
languageCommand(b, command, explicit, args) ==
    <<Bare("target")>> \o args \o
    CASE b = "npm" ->
             (IF explicit THEN <<>> ELSE <<Flag("--global")>>)
             \o <<Flag("--ignore-scripts")>>
             \o (IF command = "install" THEN <<Option("--registry", "oo")>>
                                        ELSE <<Flag("--offline")>>)
      [] b = "pip" /\ command = "install" ->
             (IF explicit THEN <<>> ELSE <<Flag("--no-user")>>)
             \o <<Option("--index-url", "oo"), Option("--only-binary", ":all:")>>
      [] OTHER -> <<Flag("--yes")>>

-----------------------------------------------------------------------------
(* How a backend reads its arguments: an option that needs a value takes   *)
(* the next argument whatever it is, one of npm's truth values takes it if *)
(* it is one, the last word on an option counts, and what is left is a     *)
(* target.                                                                 *)

Truth(a) == IF a.key = "--no-global" THEN IF a.value = "false" THEN "true" ELSE "false"
            ELSE IF a.value = Unset THEN "true" ELSE a.value

KeyOf(a) == IF a.key = "--no-global" THEN "--global" ELSE a.key

Unread == [words |-> <<>>, set |-> [k \in {} |-> Unset], wait |-> Bare(Unset)]

Assign(set, a, value) ==
    [k \in DOMAIN set \cup {KeyOf(a)} |-> IF k = KeyOf(a) THEN value ELSE set[k]]

Read(b, r, a) ==
    IF r.wait.key \in Takers(b)
    THEN [r EXCEPT !.set = Assign(@, r.wait, a), !.wait = Bare(Unset)]
    ELSE IF r.wait.key \in Truths /\ IsTruth(a)
    THEN [r EXCEPT !.set = Assign(@, r.wait, Bare(Truth([r.wait EXCEPT !.value = a.value]))),
                   !.wait = Bare(Unset)]
    ELSE IF IsBare(a) THEN [r EXCEPT !.words = Append(@, a.value), !.wait = Bare(Unset)]
    ELSE IF a.key \in Takers(b) /\ a.value = Unset THEN [r EXCEPT !.wait = a]
    ELSE [r EXCEPT !.set = Assign(@, a, Bare(Truth(a))),
                   !.wait = IF b = "npm" /\ a.key \in Truths /\ a.value = Unset
                            THEN a ELSE Bare(Unset)]

(* What is read of argv after r. *)
Continue(b, r, argv) ==
    LET read[i \in 0..Len(argv)] == IF i = 0 THEN r ELSE Read(b, read[i - 1], argv[i])
    IN  read[Len(argv)]

Reading(b, argv) == Continue(b, Unread, argv)

Setting(r, key) == IF key \in DOMAIN r.set THEN r.set[key].value ELSE Unset

(* Where npm works: globally, in a directory of the caller's, or in the    *)
(* project.                                                                *)
NpmScope(r) ==
    IF Setting(r, "--prefix") # Unset THEN "prefix"
    ELSE IF Setting(r, "--global") = "true" THEN "global" ELSE "project"

-----------------------------------------------------------------------------
(* pip's configuration: settings <<section, name, value>>.  The sections   *)
(* are [global] and [install] or [uninstall] of its files, and PIP_* and   *)
(* PYTHON* of the environment.                                             *)

Value(section, name) ==
    LET said == {s \in conf : s[1] = section /\ s[2] = name}
    IN  IF said = {} THEN Unset ELSE (CHOOSE s \in said : TRUE)[3]

Effective(name) ==
    IF Value("env", name) # Unset THEN Value("env", name)
    ELSE IF Value("command", name) # Unset THEN Value("command", name)
    ELSE Value("global", name)

Redirects(name, value) == value # Unset /\ ~(name = "user" /\ value = "no")

checkDefaultPipEnvironment ==
    \A name \in {"user", "target", "python", "home"} : ~Redirects(name, Value("env", name))

checkDefaultPipScope ==
    /\ checkDefaultPipEnvironment
    /\ Value("global", "python") = Unset
    /\ \A name \in {"user", "target", "python"} : ~Redirects(name, Effective(name))

(* parsePipConfig knows no section but [global]. *)
Sources(name) == {section \in {"global", "env"} : Value(section, name) # Unset}

(* Where pip's own code would run, and where it would work. *)
PipRedirected ==
    \/ Value("env", "home") # Unset
    \/ Value("global", "python") # Unset
    \/ Effective("python") # Unset

PipPlaces(command, r, noUserSite) ==
    IF PipRedirected THEN {"elsewhere"}
    ELSE IF command = "uninstall" THEN {"global"} \cup (IF noUserSite THEN {} ELSE {"user"})
    ELSE IF Setting(r, "--target") # Unset \/ Effective("target") # Unset THEN {"elsewhere"}
    ELSE IF Setting(r, "--no-user") = "true" THEN {"global"}
    ELSE IF Effective("user") = "yes" THEN {"user"} ELSE {"global", "user"}

-----------------------------------------------------------------------------
(* Operations. *)

Order(groups) ==
    (IF "npm" \in groups THEN <<"npm">> ELSE <<>>)
    \o (IF "pip" \in groups THEN <<"pip">> ELSE <<>>)

NoCall == [program |-> "none", conf |-> {}, sources |-> {}, scope |-> Unset, place |-> Unset,
           reading |-> Unread, saw |-> {}, ok |-> FALSE]

Tails == UNION {[1..n -> Options] : n \in 0..MaxArgs}

Asked ==
    LET ops == [command : {"install", "remove"}, groups : (SUBSET Backend) \ {{}},
                native : SUBSET Tool, explicit : BOOLEAN,
                chosen : {"unset", "good", "bad"}]
    IN  {o \in ops : /\ o.native \subseteq {ToolOf(b) : b \in o.groups}
                     /\ "pip" \notin o.groups => o.chosen = "unset"
                     /\ o.explicit => o.native = {} /\ o.chosen = "unset"}

(* Either the caller's options or pip's configuration vary, not both. *)
LanguageInit ==
    /\ \E o \in Asked, args \in Tails :
           /\ o.explicit \/ args = <<>>
           /\ op = [command |-> o.command, groups |-> o.groups, native |-> o.native,
                     explicit |-> o.explicit, args |-> args, chosen |-> o.chosen]
    /\ installed \in SUBSET {ToolOf(b) : b \in op.groups}
    /\ op.command = "remove" => op.native \subseteq installed
    /\ system \in IF op.args = <<>> THEN Systems ELSE {[nodejs |-> "good", python3 |-> "good"]}
    /\ conf \in {{}} \cup {{s} : s \in IF "pip" \in op.groups /\ op.args = <<>>
                                    THEN Settings ELSE {}}
    /\ pc = "resolve"
    /\ todo = <<>>
    /\ missing = {}
    /\ call = NoCall
    /\ registry = "none"
    /\ child = {}
    /\ changed = {}
    /\ started = {}
    /\ cancelled = FALSE
    /\ edits = 0

Ended == pc \in {"done", "failed"}

Fail == pc' = "failed" /\ UNCHANGED <<op, todo, missing, call, registry, child, changed>>

(* What the operation leaves alone while nothing of it runs. *)
quiet == <<op, system, conf, cancelled, edits>>

b0 == Head(todo)

Command == IF op.command = "install" THEN "install" ELSE "uninstall"

(* InstallMany and RemoveMany up to the check of the tail: unknown and     *)
(* conflicting targets, flags of native packages; options after "--" are   *)
(* for one backend.                                                        *)
Resolve ==
    /\ pc = "resolve"
    /\ op.explicit => \E b \in Backend : op.groups = {b}
    /\ pc' = "check"
    /\ todo' = Order(op.groups)
    /\ UNCHANGED <<quiet, installed, missing, call, registry, child, changed, started>>

Refuse ==
    /\ pc \in {"resolve", "plan"}
    /\ Fail
    /\ UNCHANGED <<system, conf, cancelled, edits, installed, started>>

-----------------------------------------------------------------------------
(* languageToolForOperation.  An OHECO_PYTHON comes before oo's own tool,  *)
(* and that before one on PATH.  What is found there is "good"; "bad": it  *)
(* does not run, or has no npm or pip; an activated "venv", which is left  *)
(* for its base; or a "lone" one, whose base is of no use.                 *)

Found(b) ==
    IF b = "pip" /\ op.chosen # "unset" THEN "chosen"
    ELSE IF ToolOf(b) \in installed THEN "oo"
    ELSE IF system[ToolOf(b)] # "none" THEN "path" ELSE "none"

Kind(b) ==
    IF Found(b) = "chosen" THEN op.chosen
    ELSE IF Found(b) = "oo" THEN "good" ELSE system[ToolOf(b)]

Selected(b) == IF Kind(b) \in {"venv", "lone"} THEN "base" ELSE Found(b)

defaultPip(b) == b = "pip" /\ ~op.explicit

(* The answer, which interpreters or nodes have been asked what they are,  *)
(* and on which code of pip or npm has been run or looked for.             *)
Verdict(b, result, ran) ==
    [result |-> result, ran |-> ran \ {"none"},
     asked |-> IF ran = {} THEN {} ELSE {Found(b), Selected(b)} \ {"none"}]

(* The options and the environment are looked at before anything runs. *)
RefusedUnseen(b) ==
    \/ ~validateLanguageOptions(b, op.args)
    \/ defaultPip(b) /\ ~checkDefaultPipEnvironment

ByItself(b) == IF b = "pip" /\ PipRedirected THEN "elsewhere" ELSE Selected(b)

(* Mutant: pip's version is asked for before its configuration is read. *)
ToolCheckProbesFirst(b) ==
    IF RefusedUnseen(b) THEN Verdict(b, "refused", {})
    ELSE IF Kind(b) \notin {"good", "venv"} THEN Verdict(b, "missing", {Selected(b)})
    ELSE Verdict(b, IF defaultPip(b) /\ ~checkDefaultPipScope THEN "refused" ELSE "ok",
                 {ByItself(b)})

ToolCheck(b) ==
    IF RefusedUnseen(b) THEN Verdict(b, "refused", {})
    ELSE IF Kind(b) \notin {"good", "venv"} THEN Verdict(b, "missing", {Selected(b)})
    ELSE IF defaultPip(b) /\ ~checkDefaultPipScope THEN Verdict(b, "refused", {Selected(b)})
    ELSE Verdict(b, "ok", {ByItself(b)})

(* What has run, and which interpreter was meant. *)
Run(b, program, asked) ==
    [backend |-> b, selected |-> Selected(b), program |-> program, asked |-> asked]

Ran(b) == {Run(b, p, TRUE) : p \in ToolCheck(b).asked}
          \cup {Run(b, p, FALSE) : p \in ToolCheck(b).ran}

(* CheckLanguage and CheckLanguageInstall.  An installation proposes the   *)
(* toolchain that is missing, but none beside an OHECO_PYTHON.             *)
Check ==
    /\ pc = "check" /\ todo # <<>> /\ ~cancelled
    /\ ToolCheck(b0).result = "ok"
    /\ todo' = Tail(todo)
    /\ started' = started \cup Ran(b0)
    /\ UNCHANGED <<quiet, installed, pc, missing, call, registry, child, changed>>

CheckMissing ==
    /\ pc = "check" /\ todo # <<>> /\ ~cancelled
    /\ op.command = "install"
    /\ ToolCheck(b0).result = "missing"
    /\ ~(b0 = "pip" /\ op.chosen # "unset")
    /\ todo' = Tail(todo)
    /\ missing' = missing \cup {ToolOf(b0)}
    /\ started' = started \cup Ran(b0)
    /\ UNCHANGED <<quiet, installed, pc, call, registry, child, changed>>

CheckRefuses ==
    /\ pc = "check" /\ todo # <<>>
    /\ \/ cancelled
       \/ ToolCheck(b0).result = "refused"
       \/ /\ ToolCheck(b0).result = "missing"
          /\ op.command = "remove" \/ (b0 = "pip" /\ op.chosen # "unset")
    /\ Fail
    /\ started' = started \cup Ran(b0)
    /\ UNCHANGED <<system, conf, cancelled, edits, installed>>

Checked ==
    /\ pc = "check" /\ todo = <<>>
    /\ pc' = "plan"
    /\ UNCHANGED <<quiet, installed, todo, missing, call, registry, child, changed, started>>

(* The native packages of the plan. *)
Native == op.native \cup missing

DryRun ==
    /\ pc = "plan"
    /\ pc' = "done"
    /\ UNCHANGED <<quiet, installed, todo, missing, call, registry, child, changed, started>>

Confirm ==
    /\ pc = "plan" /\ ~cancelled
    /\ todo' = Order(op.groups)
    /\ pc' = IF op.command = "install" /\ Native # {} THEN "native" ELSE "tool"
    /\ UNCHANGED <<quiet, installed, missing, call, registry, child, changed, started>>

(* Mutant: what was asked for is installed, not what was missing. *)
NativePlanForgets(old) == IF op.command = "install" THEN old \cup op.native ELSE old \ op.native

NativePlan(old) == IF op.command = "install" THEN old \cup Native ELSE old \ Native

(* executeNativePlan, before the backends, and commit, after them. *)
CommitNative ==
    /\ pc = "native" /\ ~cancelled
    /\ installed' = NativePlan(installed)
    /\ pc' = IF op.command = "install" THEN "tool" ELSE "done"
    /\ UNCHANGED <<quiet, todo, missing, call, registry, child, changed, started>>

NativeFails ==
    /\ pc = "native"
    /\ Fail
    /\ UNCHANGED <<system, conf, cancelled, edits, installed, started>>

-----------------------------------------------------------------------------
(* InstallLanguage and RemoveLanguage.  The tool is looked for again: the  *)
(* native packages may just have brought it.                               *)

Recheck ==
    /\ pc = "tool" /\ ~cancelled
    /\ ToolCheck(b0).result = "ok"
    /\ call' = [NoCall EXCEPT !.program = Selected(b0), !.conf = conf]
    /\ started' = started \cup Ran(b0)
    /\ pc' = IF op.command = "install" THEN "upstream" ELSE "spawn"
    /\ UNCHANGED <<quiet, installed, todo, missing, registry, child, changed>>

RecheckRefuses ==
    /\ pc = "tool"
    /\ cancelled \/ ToolCheck(b0).result # "ok"
    /\ Fail
    /\ started' = started \cup Ran(b0)
    /\ UNCHANGED <<system, conf, cancelled, edits, installed>>

(* npmUpstream and pipUpstream: what the registry forwards to. *)
Upstream ==
    /\ pc = "upstream" /\ ~cancelled
    /\ b0 = "pip" => Sources("find-links") = {}
    /\ call' = [call EXCEPT
           !.scope = IF b0 = "npm"
                     THEN NpmScope(Reading("npm", npmScopeArgs(op.explicit, op.args))) ELSE Unset,
           !.sources = IF b0 = "pip" THEN Sources("extra-index-url") ELSE {}]
    /\ pc' = "registry"
    /\ UNCHANGED <<quiet, installed, todo, missing, registry, child, changed, started>>

UpstreamFails ==
    /\ pc = "upstream"
    /\ Fail
    /\ UNCHANGED <<system, conf, cancelled, edits, installed, started>>

StartRegistry ==
    /\ pc = "registry"
    /\ registry' = "open"
    /\ pc' = "spawn"
    /\ UNCHANGED <<quiet, installed, todo, missing, call, child, changed, started>>

RegistryFails ==
    /\ pc = "registry"
    /\ Fail
    /\ UNCHANGED <<system, conf, cancelled, edits, installed, started>>

Argv == languageCommand(b0, Command, op.explicit, op.args)

Places(r) ==
    IF b0 = "npm" THEN {NpmScope(r)} ELSE PipPlaces(Command, r, ~op.explicit)

(* cmd.Run: a session of its own, in which the backend reads its arguments *)
(* and its configuration.                                                  *)
Spawn ==
    /\ pc = "spawn" /\ ~cancelled
    /\ \E place \in Places(Reading(b0, Argv)) :
           call' = [call EXCEPT !.place = place, !.reading = Reading(b0, Argv),
                                !.saw = conf]
    /\ child' = child \cup {<<b0, "leader">>}
    /\ pc' = "child"
    /\ UNCHANGED <<quiet, installed, todo, missing, registry, changed, started>>

SpawnFails ==
    /\ pc = "spawn"
    /\ pc' = "close"
    /\ UNCHANGED <<quiet, installed, todo, missing, call, registry, child, changed, started>>

Forks ==
    /\ pc = "child" /\ <<b0, "helper">> \notin child
    /\ child' = child \cup {<<b0, "helper">>}
    /\ UNCHANGED <<quiet, installed, pc, todo, missing, call, registry, changed, started>>

(* It ends by itself, with its work done or with an error behind what it   *)
(* has done; a helper may stay behind.                                     *)
Exits(ok) ==
    /\ pc = "child"
    /\ child' = child \ {<<b0, "leader">>}
    /\ changed' = changed \cup {<<b0, call.program, call.place>>}
    /\ call' = [call EXCEPT !.ok = ok]
    /\ pc' = "close"
    /\ UNCHANGED <<quiet, installed, todo, missing, registry, started>>

Succeeds == Exits(TRUE)
ChildFails == Exits(FALSE)

HelperEnds ==
    /\ \E b \in Backend : <<b, "helper">> \in child /\ child' = child \ {<<b, "helper">>}
    /\ UNCHANGED <<quiet, installed, pc, todo, missing, call, registry, changed, started>>

(* Mutant: the backend's process is killed without those it has started. *)
KilledAlone(procs) == procs \ {<<b0, "leader">>}

(* configureLanguageCancellation: the whole process group. *)
Killed(procs) == procs \ {<<b0, "leader">>, <<b0, "helper">>}

Kill ==
    /\ pc = "child" /\ cancelled
    /\ child' = Killed(child)
    /\ pc' = "close"
    /\ UNCHANGED <<quiet, installed, todo, missing, call, registry, changed, started>>

(* Server.Close, deferred, and the next backend, native packages or end. *)
Close ==
    /\ pc = "close"
    /\ registry' = IF registry = "open" THEN "closed" ELSE registry
    /\ call' = NoCall
    /\ IF call.ok
       THEN /\ todo' = Tail(todo)
            /\ pc' = IF Tail(todo) # <<>> THEN "tool"
                      ELSE IF op.command = "remove" /\ op.native # {} THEN "native" ELSE "done"
       ELSE todo' = todo /\ pc' = "failed"
    /\ UNCHANGED <<quiet, installed, missing, child, changed, started>>

-----------------------------------------------------------------------------
(* The user. *)

idle == <<op, system, installed, pc, todo, missing, registry, child, changed, started>>

(* A setting of a file is added or taken away; not together with options   *)
(* of the caller, a bound as in LanguageInit.                              *)
Edit ==
    /\ ~Ended /\ edits < MaxEdits
    /\ "pip" \in op.groups /\ op.args = <<>>
    /\ \E s \in {t \in Settings : t[1] # "env"} :
           \/ s \in conf /\ conf' = conf \ {s}
           \/ Value(s[1], s[2]) = Unset /\ conf' = conf \cup {s}
    /\ edits' = edits + 1
    /\ UNCHANGED <<idle, call, cancelled>>

Interrupt ==
    /\ ~Ended /\ ~cancelled
    /\ cancelled' = TRUE
    /\ UNCHANGED <<idle, conf, call, edits>>

-----------------------------------------------------------------------------

LanguageNext ==
    \/ Resolve \/ Refuse
    \/ Check \/ CheckMissing \/ CheckRefuses \/ Checked
    \/ DryRun \/ Confirm \/ CommitNative \/ NativeFails
    \/ Recheck \/ RecheckRefuses \/ Upstream \/ UpstreamFails
    \/ StartRegistry \/ RegistryFails
    \/ Spawn \/ SpawnFails \/ Forks \/ Succeeds \/ ChildFails \/ HelperEnds \/ Kill \/ Close
    \/ Edit \/ Interrupt

LanguageSpec == LanguageInit /\ [][LanguageNext]_languageVars

-----------------------------------------------------------------------------

(* Without "--", oo has checked that neither the environment nor pip's     *)
(* configuration leads somewhere else.  Nothing runs on an interpreter     *)
(* that oo has not found itself; npm's and pip's code runs on none but the *)
(* selected one, and so never on that of an activated virtualenv, which is *)
(* only asked for its base (language_unified.go:384-427); and the packages *)
(* come to the global site of the selected one, unless the user has edited *)
(* the configuration since the check.                                      *)
DefaultStaysHome ==
    ~op.explicit =>
        /\ \A s \in started :
              /\ s.program # "elsewhere"
              /\ s.asked \/ s.program = s.selected
              /\ s.asked \/ s.program # "path" \/ system[ToolOf(s.backend)] \notin {"venv", "lone"}
        /\ pc = "child" /\ call.saw = call.conf =>
              /\ call.place = "global"
              /\ call.program # "path" \/ system[ToolOf(b0)] = "good"

(* The options that take the next argument are those oo knows of. *)
AllListed(b, args) ==
    \A i \in DOMAIN args : args[i].key \in Takers(b) \ LanguageValues(b) => args[i].value # Unset

(* Whatever options are forwarded, the last of oo's own is read as oo has  *)
(* written it: npm's registry, pip's restriction to wheels.  The others are*)
(* too, the backend reads no other target than the user's, and npm has been*)
(* asked for the registry of the place it works in, if the options that    *)
(* take the next argument are those in oo's tables, or written with "="    *)
(* (language_unified.go 198-219, 280-319).                                 *)
ArgumentsHold ==
    pc = "child" =>
        /\ op.command = "install" =>
              IF b0 = "npm" THEN Setting(call.reading, "--registry") = "oo"
                            ELSE Setting(call.reading, "--only-binary") = ":all:"
        /\ AllListed(b0, op.args) =>
              /\ call.reading.words = <<"target">>
              /\ b0 = "npm" =>
                    /\ Setting(call.reading, "--ignore-scripts") = "true"
                    /\ op.command = "install" => call.scope = NpmScope(call.reading)
              /\ b0 = "pip" /\ op.command = "install" =>
                    Setting(call.reading, "--index-url") = "oo"

(* No backend changes anything before the toolchains that it needs are     *)
(* installed, nor runs on another than them; no toolchain is removed while *)
(* packages that were to be removed from it are left.  When a check could  *)
(* look at the configuration, because the tool was there, and nothing has  *)
(* been edited since, what it has let pass is not refused after native     *)
(* packages have been committed.                                           *)
BackendsFindTheirTools ==
    /\ op.command = "install" /\ pc \in {"tool", "upstream", "registry", "spawn", "child"} =>
          /\ Native \subseteq installed
          /\ edits = 0 /\ missing = {} => ToolCheck(b0).result = "ok"
    /\ op.command = "remove" /\ ~(op.native \subseteq installed) =>
          \A b \in op.groups : \E c \in changed : c[1] = b
    /\ op.command = "install" =>
          \A c \in changed : ToolOf(c[1]) \in Native /\ op.chosen = "unset" => c[2] = "oo"

(* The backend's process has its registry for as long as it runs, and a    *)
(* helper outlives the registry only if the backend has ended by itself:   *)
(* an interrupted operation leaves no process behind.  None leaves a       *)
(* registry.                                                               *)
RegistryOutlives ==
    /\ op.command = "install" /\ (\E b \in Backend : <<b, "leader">> \in child) =>
          registry = "open"
    /\ pc = "close" /\ <<b0, "helper">> \in child => \E c \in changed : c[1] = b0
    /\ Ended => registry # "open" /\ \A b \in Backend : <<b, "leader">> \notin child
=============================================================================
