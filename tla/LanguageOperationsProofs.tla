---------------------- MODULE LanguageOperationsProofs ----------------------
(***************************************************************************)
(* For any options of the caller, however many, and any configuration of   *)
(* pip: the backends run where oo has looked, read their target and oo's   *)
(* own settings and no other, are asked for the registry of the place they *)
(* work in, find their tools and have their registry for as long as they   *)
(* run.                                                                    *)
(*                                                                         *)
(* The arguments are the larger part.  What oo makes of them and what a    *)
(* backend does are recursive functions, over the arguments from each one  *)
(* on and over those before; both are shown to be functions, and an        *)
(* induction over the options that are left keeps the two readings in      *)
(* step: the backend's of all of them, and oo's of those that say where    *)
(* npm works.                                                              *)
(***************************************************************************)
EXTENDS LanguageOperations, SequenceTheorems, WellFoundedInduction, FiniteSetTheorems, TLAPS

-----------------------------------------------------------------------------
(* A set of numbers has a least member. *)
LEMMA Least ==
    ASSUME NEW T \in SUBSET Nat, T # {}
    PROVE  \E x \in T : \A y \in T : x <= y
<1> DEFINE less == {xy \in Nat \X Nat : xy[1] < xy[2]}
<1>1. IsWellFoundedOn(less, Nat)
    BY NatLessThanWellFounded, Zenon DEF OpToRel
<1>2. PICK x \in T : \A y \in T : <<y, x>> \notin less
    BY <1>1, WFMin
<1>3. \A y \in T : ~ (y < x)
    BY <1>2
<1> QED BY <1>3

(* Induction over the numbers, for a set of them. *)
LEMMA Counting ==
    ASSUME NEW T, 0 \in T, \A n \in Nat : n \in T => n + 1 \in T
    PROVE  Nat \subseteq T
<1> SUFFICES ASSUME Nat \ T # {} PROVE FALSE
    OBVIOUS
<1>1. PICK x \in Nat \ T : \A y \in Nat \ T : x <= y
    BY Least
<1>2. x # 0 /\ x - 1 \in Nat
    BY <1>1
<1> QED BY <1>1, <1>2

(* Queues of backends. *)
Queue == {<<>>, <<"npm">>, <<"pip">>, <<"npm", "pip">>}

In(b, q) == \E i \in DOMAIN q : q[i] = b

Queued(b) == In(b, todo)

Finished(b) == \E c \in changed : c[1] = b

(* The steps of the run of a backend. *)
Running == {"tool", "upstream", "registry", "spawn", "child", "close"}
Called  == {"upstream", "registry", "spawn", "child"}

OperationTypeOK ==
    /\ op \in [command : {"install", "remove"}, groups : SUBSET Backend, native : SUBSET Tool,
               explicit : BOOLEAN, args : Seq(Options), chosen : {"unset", "good", "bad"}]
    /\ ~op.explicit => op.args = <<>>
    /\ op.groups # {}

(* The fields of the run of a backend. *)
IsCall(r) ==
    r = [program |-> r.program, conf |-> r.conf, sources |-> r.sources, scope |-> r.scope,
         place |-> r.place, reading |-> r.reading, saw |-> r.saw, ok |-> r.ok]

LanguageTypeOK ==
    /\ OperationTypeOK
    /\ installed \in SUBSET Tool /\ missing \in SUBSET Tool
    /\ pc \in {"resolve", "check", "plan", "native", "done", "failed"} \cup Running
    /\ todo \in Queue /\ (\A b \in Backend : Queued(b) => b \in op.groups)
    /\ pc \in Running \/ (pc = "native" /\ op.command = "install") => todo # <<>>
    /\ registry \in {"none", "open", "closed"}
    /\ child \subseteq Backend \X {"leader", "helper"}
    /\ IsCall(call)
    /\ call.ok \in BOOLEAN
    /\ edits \in Nat

(* Before the backends run nothing of them is there. *)
Before == pc \in {"resolve", "check", "plan"} \/ (pc = "native" /\ op.command = "install")

ProcessesOK ==
    /\ Before => child = {} /\ changed = {}
    /\ \A b \in Backend : <<b, "leader">> \in child => pc = "child" /\ b = b0
    /\ \A b \in Backend : Queued(b) /\ <<b, "helper">> \in child /\ pc # "failed" =>
           b = b0 /\ (pc = "child" \/ (pc = "close" /\ Finished(b)))
    /\ registry = "open" => pc \in {"spawn", "child", "close"}
    /\ op.command = "install" /\ pc \in {"spawn", "child"} => registry = "open"

ProgressOK ==
    /\ call.ok => pc = "close" /\ Finished(b0)
    /\ pc \in Running \cup {"native"} => \A b \in op.groups : Queued(b) \/ Finished(b)
    /\ pc = "native" /\ op.command = "remove" => todo = <<>>
    /\ op.command = "remove" /\ ~(op.native \subseteq installed) =>
           \A b \in op.groups : Finished(b)

FromOwn(b) == ToolOf(b) \in Native /\ op.chosen = "unset"

ToolsOK ==
    op.command = "install" =>
        /\ pc \in Running => Native \subseteq installed
        /\ pc \in Called /\ FromOwn(b0) => call.program = "oo"
        /\ \A c \in changed : FromOwn(c[1]) => c[2] = "oo"
        /\ edits = 0 /\ missing = {} =>
               \A b \in op.groups :
                   \/ pc \in {"plan", "native"} \cup Running
                   \/ pc = "check" /\ ~Queued(b)
                   => ToolCheck(b).result = "ok"

(* The same for pip's configuration as it was. *)
ValueIn(c, section, name) ==
    LET said == {s \in c : s[1] = section /\ s[2] = name}
    IN  IF said = {} THEN Unset ELSE (CHOOSE s \in said : TRUE)[3]

EffectiveIn(c, name) ==
    IF ValueIn(c, "env", name) # Unset THEN ValueIn(c, "env", name)
    ELSE IF ValueIn(c, "command", name) # Unset THEN ValueIn(c, "command", name)
    ELSE ValueIn(c, "global", name)

HomeIn(c) ==
    /\ ~Redirects("home", ValueIn(c, "env", "home"))
    /\ ValueIn(c, "global", "python") = Unset
    /\ \A name \in {"user", "target", "python"} : ~Redirects(name, EffectiveIn(c, name))

(* What has run was meant to, and was asked only if it was not selected. *)
Meant(s) ==
    /\ s.program # "elsewhere"
    /\ s.asked \/ s.program = s.selected
    /\ s.asked \/ s.program # "path" \/ system[ToolOf(s.backend)] \notin {"venv", "lone"}

HomeOK ==
    ~op.explicit =>
        /\ \A s \in started : Meant(s)
        /\ pc \in Called => call.program # "path" \/ system[ToolOf(b0)] = "good"
        /\ pc \in Called \ {"child"} /\ b0 = "pip" => HomeIn(call.conf)
        /\ pc = "child" /\ call.saw = call.conf => call.place = "global"

ForwardOK ==
    /\ pc \in Called => validateLanguageOptions(b0, op.args)
    /\ pc \in {"registry", "spawn", "child"} /\ op.command = "install" /\ b0 = "npm" =>
           call.scope = NpmScope(Reading("npm", npmScopeArgs(op.explicit, op.args)))
    /\ pc = "child" => call.reading = Reading(b0, Argv)

OperationInv == LanguageTypeOK /\ ProcessesOK /\ ProgressOK /\ ToolsOK /\ HomeOK /\ ForwardOK
-----------------------------------------------------------------------------
(* Queues. *)

(* The head of a queue is in it, and not in what follows. *)
LEMMA QueueFacts ==
    /\ \A b : ~In(b, <<>>)
    /\ \A q \in Queue : q # <<>> =>
           /\ Head(q) \in Backend /\ Tail(q) \in Queue
           /\ \A b : In(b, q) <=> b = Head(q) \/ In(b, Tail(q))
           /\ ~In(Head(q), Tail(q))
<1>1. \A b : ~In(b, <<>>)
    BY DEF In
<1>2. \A b : In(b, <<"npm">>) <=> b = "npm"
    BY DEF In
<1>3. \A b : In(b, <<"pip">>) <=> b = "pip"
    BY DEF In
<1>4. \A b : In(b, <<"npm", "pip">>) <=> b \in {"npm", "pip"}
    BY DEF In
<1>5. /\ Head(<<"npm">>) = "npm" /\ Tail(<<"npm">>) = <<>>
      /\ Head(<<"pip">>) = "pip" /\ Tail(<<"pip">>) = <<>>
      /\ Head(<<"npm", "pip">>) = "npm" /\ Tail(<<"npm", "pip">>) = <<"pip">>
    OBVIOUS
<1> QED BY <1>1, <1>2, <1>3, <1>4, <1>5 DEF Queue, Backend

(* Two short sequences, one after the other. *)
LEMMA PairIs ==
    ASSUME NEW x, NEW y
    PROVE  <<x>> \o <<y>> = <<x, y>>
<1>1. <<x>> \in Seq({x, y}) /\ <<y>> \in Seq({x, y}) /\ <<x, y>> \in Seq({x, y})
    OBVIOUS
<1>2. Len(<<x>> \o <<y>>) = 2 /\ <<x>> \o <<y>> \in Seq({x, y}) /\ Len(<<x, y>>) = 2
    BY <1>1
<1>3. \A i \in 1..2 : (<<x>> \o <<y>>)[i] = <<x, y>>[i]
    BY <1>1
<1> QED BY <1>1, <1>2, <1>3, SeqEqual

(* The queue of a set of backends holds them all and nothing else. *)
LEMMA OrderFacts ==
    ASSUME NEW groups \in SUBSET Backend
    PROVE  /\ Order(groups) \in Queue
           /\ \A b : In(b, Order(groups)) <=> b \in groups
<1>1. Order({}) = <<>> /\ Order({"npm"}) = <<"npm">> /\ Order({"pip"}) = <<"pip">>
      /\ Order({"npm", "pip"}) = <<"npm", "pip">>
    <2>1. <<>> \o <<>> = <<>> /\ <<"npm">> \o <<>> = <<"npm">> /\ <<>> \o <<"pip">> = <<"pip">>
        OBVIOUS
    <2>2. <<"npm">> \o <<"pip">> = <<"npm", "pip">>
        BY PairIs
    <2> QED BY <2>1, <2>2 DEF Order
<1>2. \A b : ~In(b, <<>>)
    BY DEF In
<1>3. \A b : In(b, <<"npm">>) <=> b = "npm"
    BY DEF In
<1>4. \A b : In(b, <<"pip">>) <=> b = "pip"
    BY DEF In
<1>5. \A b : In(b, <<"npm", "pip">>) <=> b \in {"npm", "pip"}
    BY DEF In
<1>6. groups \in {{}, {"npm"}, {"pip"}, {"npm", "pip"}}
    BY DEF Backend
<1> QED BY <1>1, <1>2, <1>3, <1>4, <1>5, <1>6 DEF Queue

-----------------------------------------------------------------------------
(* Types. *)

(* What the first step of a run does to the queue. *)
LEMMA TailQueued ==
    ASSUME todo \in Queue, todo # <<>>, todo' = Tail(todo)
    PROVE  /\ todo' \in Queue /\ b0 \in Backend
           /\ \A b : Queued(b) <=> b = b0 \/ Queued(b)'
           /\ ~In(b0, todo')
           /\ todo' # <<>> => Queued(b0)'
<1>1. /\ todo' \in Queue /\ b0 \in Backend
      /\ \A b : In(b, todo) <=> b = b0 \/ In(b, todo')
      /\ ~In(b0, todo')
    BY QueueFacts DEF b0
<1>2. todo' # <<>> => In(Head(todo'), todo')
    BY <1>1, QueueFacts
<1>3. \A b : Queued(b) <=> b = b0 \/ Queued(b)'
    BY <1>1 DEF Queued
<1>4. todo' # <<>> => Queued(b0)'
    BY <1>2 DEF Queued, b0
<1> QED BY <1>1, <1>3, <1>4

(* The first backend of a queue is one of it. *)
LEMMA HeadQueued ==
    ASSUME todo \in Queue, todo # <<>>
    PROVE  Queued(b0) /\ b0 \in Backend
BY QueueFacts DEF Queued, b0

(* A new queue holds the backends of the operation. *)
LEMMA OrderQueued ==
    ASSUME op.groups \in SUBSET Backend, todo' = Order(op.groups)
    PROVE  /\ todo' \in Queue /\ \A b : Queued(b)' <=> b \in op.groups
           /\ op.groups # {} => todo' # <<>>
BY OrderFacts, QueueFacts DEF Queued

(* Types hold at first. *)
LEMMA TypeInit == LanguageInit => LanguageTypeOK
<1> SUFFICES ASSUME LanguageInit PROVE LanguageTypeOK
    OBVIOUS
<1>1. OperationTypeOK
    <2>1. PICK o \in Asked, args \in Tails :
              /\ o.explicit \/ args = <<>>
              /\ op = [command |-> o.command, groups |-> o.groups, native |-> o.native,
                       explicit |-> o.explicit, args |-> args, chosen |-> o.chosen]
        BY DEF LanguageInit
    <2>2. args \in Seq(Options)
        <3>1. PICK n \in 0..MaxArgs : args \in [1..n -> Options]
            BY DEF Tails
        <3>2. n \in Nat
            BY LanguageAssumption
        <3> QED BY <3>1, <3>2
    <2>3. /\ o.command \in {"install", "remove"} /\ o.groups \in SUBSET Backend
          /\ o.native \in SUBSET Tool /\ o.explicit \in BOOLEAN
          /\ o.chosen \in {"unset", "good", "bad"} /\ o.groups # {}
        BY DEF Asked
    <2> QED BY <2>1, <2>2, <2>3 DEF OperationTypeOK
<1>2. installed \in SUBSET Tool
    BY DEF LanguageInit, ToolOf, Tool
<1>3. \A b : ~Queued(b)
    BY QueueFacts DEF LanguageInit, Queued
<1> QED BY <1>1, <1>2, <1>3 DEF LanguageInit, LanguageTypeOK, NoCall, Queue, Running, IsCall

(* What a step leaves in the call that is being prepared. *)
LEMMA RecheckEffect ==
    ASSUME Recheck
    PROVE  /\ IsCall(call') /\ call'.ok = FALSE
           /\ call'.program = Selected(b0) /\ call'.conf = conf
BY DEF Recheck, NoCall, IsCall

(* Looking up the upstream registry reads the scope of npm's arguments. *)
LEMMA UpstreamEffect ==
    ASSUME Upstream, IsCall(call)
    PROVE  /\ IsCall(call') /\ call'.program = call.program /\ call'.conf = call.conf
           /\ call'.ok = call.ok
           /\ b0 = "npm" =>
                call'.scope = NpmScope(Reading("npm", npmScopeArgs(op.explicit, op.args)))
BY DEF Upstream, IsCall

(* A child that starts has read its arguments and found its place. *)
LEMMA SpawnEffect ==
    ASSUME Spawn, IsCall(call)
    PROVE  /\ IsCall(call') /\ call'.program = call.program /\ call'.conf = call.conf
           /\ call'.ok = call.ok /\ call'.scope = call.scope /\ call'.saw = conf
           /\ call'.reading = Reading(b0, Argv) /\ call'.place \in Places(Reading(b0, Argv))
           /\ child' = child \cup {<<b0, "leader">>} /\ pc' = "child"
           /\ UNCHANGED <<op, system, conf, cancelled, edits, installed, todo, missing, registry,
                          changed, started>>
<1> DEFINE R == Reading(b0, Argv)
<1>1. PICK place \in Places(R) :
          call' = [call EXCEPT !.place = place, !.reading = R, !.saw = conf]
    BY DEF Spawn
<1>2. /\ child' = child \cup {<<b0, "leader">>} /\ pc' = "child"
      /\ UNCHANGED <<op, system, conf, cancelled, edits, installed, todo, missing, registry,
                     changed, started>>
    BY DEF Spawn, quiet
<1> HIDE DEF R
<1> QED BY <1>1, <1>2 DEF IsCall, R

(* A child that ends leaves how it ended. *)
LEMMA ExitEffect ==
    ASSUME NEW ok \in BOOLEAN, Exits(ok), IsCall(call)
    PROVE  IsCall(call') /\ call'.program = call.program /\ call'.ok = ok
BY DEF Exits, IsCall

(* Every step keeps the types. *)
LEMMA TypeStep == LanguageTypeOK /\ [LanguageNext]_languageVars => LanguageTypeOK'
<1> SUFFICES ASSUME LanguageTypeOK, [LanguageNext]_languageVars PROVE LanguageTypeOK'
    OBVIOUS
<1> USE DEF LanguageTypeOK, OperationTypeOK, Running
<1>0. ASSUME todo' = todo, op' = op, LanguageTypeOK
      PROVE  todo' \in Queue /\ (\A b \in Backend : Queued(b)' => b \in op'.groups)
    BY <1>0 DEF Queued
<1>1. CASE Resolve
    BY <1>1, OrderQueued, HeadQueued DEF Resolve, quiet
<1>2. CASE Refuse \/ NativeFails \/ UpstreamFails \/ RegistryFails \/ RecheckRefuses \/ CheckRefuses
    BY <1>0, <1>2 DEF Refuse, NativeFails, UpstreamFails, RegistryFails,
       RecheckRefuses, CheckRefuses, Fail
<1>3. CASE Check
    BY <1>3, TailQueued DEF Check, quiet
<1>4. CASE CheckMissing
    <2>1. ToolOf(b0) \in Tool
        BY DEF ToolOf, Tool
    <2> QED BY <1>4, <2>1, TailQueued DEF CheckMissing, quiet
<1>5. CASE Checked \/ DryRun \/ StartRegistry \/ SpawnFails
    BY <1>0, <1>5 DEF Checked, DryRun, StartRegistry, SpawnFails, quiet
<1>6. CASE Confirm
    BY <1>6, OrderQueued, HeadQueued DEF Confirm, quiet
<1>7. CASE CommitNative
    BY <1>0, <1>7 DEF CommitNative, quiet, NativePlan, Native
<1>8. CASE Recheck
    <2>1. /\ UNCHANGED <<op, system, conf, cancelled, edits, installed, todo, missing, registry,
                         child, changed>>
          /\ pc = "tool" /\ pc' \in {"upstream", "spawn"}
        BY <1>8 DEF Recheck, quiet
    <2> QED BY <1>0, <1>8, <2>1, RecheckEffect
<1>9. CASE Upstream
    BY <1>0, <1>9, UpstreamEffect DEF Upstream, quiet
<1>10. CASE Spawn
    <2>1. b0 \in Backend
        BY <1>10, HeadQueued DEF Spawn
    <2> HIDE DEF OperationTypeOK
    <2>2. OperationTypeOK'
        BY <1>10, SpawnEffect DEF OperationTypeOK
    <2>3. IsCall(call') /\ call'.ok = call.ok
        BY <1>10, SpawnEffect
    <2>4. /\ child' = child \cup {<<b0, "leader">>} /\ pc' = "child"
          /\ UNCHANGED <<op, edits, installed, todo, missing, registry>>
        BY <1>10, SpawnEffect
    <2>5. pc = "spawn"
        BY <1>10 DEF Spawn
    <2> QED BY <1>0, <2>1, <2>2, <2>3, <2>4, <2>5
<1>11. CASE Forks
    <2>1. b0 \in Backend
        BY <1>11, HeadQueued DEF Forks
    <2> QED BY <1>0, <1>11, <2>1 DEF Forks, quiet
<1>12. CASE Succeeds \/ ChildFails
    <2>1. PICK ok \in BOOLEAN : Exits(ok)
        BY <1>12 DEF Succeeds, ChildFails
    <2> QED BY <1>0, <2>1, ExitEffect DEF Exits, quiet
<1>13. CASE HelperEnds
    BY <1>0, <1>13 DEF HelperEnds, quiet
<1>14. CASE Kill
    BY <1>0, <1>14 DEF Kill, Killed, quiet
<1>15. CASE Close
    <2>1. CASE call.ok
        BY <1>15, <2>1, TailQueued DEF Close, quiet, NoCall, IsCall
    <2>2. CASE ~call.ok
        BY <1>0, <1>15, <2>2 DEF Close, quiet, NoCall, IsCall
    <2> QED BY <2>1, <2>2
<1>16. CASE Edit
    <2>1. /\ edits' = edits + 1
          /\ UNCHANGED <<op, installed, pc, todo, missing, registry, child, call>>
        BY <1>16 DEF Edit, idle
    <2> QED BY <1>0, <2>1
<1>17. CASE Interrupt
    BY <1>0, <1>17 DEF Interrupt, idle
<1>18. CASE UNCHANGED languageVars
    BY <1>0, <1>18 DEF languageVars
<1> QED BY <1>1, <1>2, <1>3, <1>4, <1>5, <1>6, <1>7, <1>8, <1>9, <1>10, <1>11, <1>12, <1>13,
           <1>14, <1>15, <1>16, <1>17, <1>18 DEF LanguageNext

-----------------------------------------------------------------------------
(* Processes and the registry. *)

(* A queue that stays has the same backends. *)
LEMMA StillQueued ==
    ASSUME todo' = todo
    PROVE  b0' = b0 /\ \A b : Queued(b)' <=> Queued(b)
BY DEF b0, Queued

(* What has been changed stays changed. *)
LEMMA StillFinished ==
    ASSUME changed \subseteq changed'
    PROVE  \A b : Finished(b) => Finished(b)'
BY DEF Finished

(* No process runs at first. *)
LEMMA ProcessesInit == LanguageInit => ProcessesOK
BY DEF LanguageInit, ProcessesOK, Before

(* A step keeps what is known of processes and of the registry. *)
LEMMA ProcessesStep ==
    LanguageTypeOK /\ ProgressOK /\ ProcessesOK /\ [LanguageNext]_languageVars => ProcessesOK'
<1> SUFFICES ASSUME LanguageTypeOK, ProgressOK, ProcessesOK, [LanguageNext]_languageVars
             PROVE  ProcessesOK'
    OBVIOUS
<1> USE DEF ProcessesOK, Before
<1>0. /\ pc \in {"resolve", "check", "plan", "native", "done", "failed"} \cup Running
      /\ op.command \in {"install", "remove"} /\ op.groups \in SUBSET Backend /\ todo \in Queue
      /\ call.ok \in BOOLEAN /\ (pc \in Running => todo # <<>>)
    BY DEF LanguageTypeOK, OperationTypeOK
<1>1. CASE Resolve \/ Checked
    BY <1>1 DEF Resolve, Checked, quiet
<1>2. CASE Refuse \/ NativeFails \/ UpstreamFails \/ RegistryFails \/ RecheckRefuses \/ CheckRefuses
    <2>1. /\ pc' = "failed" /\ UNCHANGED <<op, registry, child, changed>>
          /\ pc \notin {"spawn", "child", "close"}
        BY <1>2 DEF Refuse, NativeFails, UpstreamFails, RegistryFails,
           RecheckRefuses, CheckRefuses, Fail
    <2> QED BY <2>1
<1>3. CASE Check \/ CheckMissing \/ DryRun
    BY <1>3 DEF Check, CheckMissing, DryRun, quiet
<1>4. CASE Confirm
    BY <1>4 DEF Confirm, quiet
<1>5. CASE CommitNative
    BY <1>0, <1>5, StillQueued DEF CommitNative, quiet
<1>6. CASE Recheck \/ Upstream \/ StartRegistry
    <2>1. /\ UNCHANGED <<op, todo, child, changed>> /\ pc \in {"tool", "upstream", "registry"}
          /\ \/ pc' \in {"upstream", "registry"} /\ registry' = registry
             \/ pc' = "spawn" /\ registry' = "open"
             \/ pc' = "spawn" /\ registry' = registry /\ op.command # "install"
        BY <1>6 DEF Recheck, Upstream, StartRegistry, quiet
    <2> QED BY <2>1, StillQueued
<1>7. CASE Spawn
    <2>1. /\ UNCHANGED <<op, todo, changed, registry>> /\ pc = "spawn" /\ pc' = "child"
          /\ child' = child \cup {<<b0, "leader">>}
        BY <1>7, SpawnEffect DEF LanguageTypeOK, Spawn
    <2> QED BY <2>1, StillQueued
<1>8. CASE SpawnFails
    BY <1>8, StillQueued DEF SpawnFails, quiet
<1>9. CASE Forks
    BY <1>9, StillQueued DEF Forks, quiet
<1>10. CASE Succeeds \/ ChildFails
    <2>1. PICK ok \in BOOLEAN : Exits(ok)
        BY <1>10 DEF Succeeds, ChildFails
    <2>2. Finished(b0)'
        <3>1. <<b0, call.program, call.place>> \in changed' /\ b0' = b0
            BY <2>1, StillQueued DEF Exits
        <3> HIDE DEF ProcessesOK
        <3> QED BY <3>1 DEF Finished
    <2> QED BY <2>1, <2>2, StillQueued DEF Exits, quiet
<1>11. CASE HelperEnds
    BY <1>11, StillQueued, StillFinished DEF HelperEnds, quiet
<1>12. CASE Kill
    BY <1>12, StillQueued DEF Kill, Killed, quiet
<1>13. CASE Close
    <2>0. /\ UNCHANGED <<op, child, changed>> /\ pc = "close" /\ registry' # "open"
          /\ pc' \in {"tool", "native", "done", "failed"}
        BY <1>13 DEF Close, quiet
    <2>1. CASE call.ok
        <3>1. /\ pc' # "failed" /\ todo' = Tail(todo)
              /\ pc' = "native" => op.command = "remove"
            BY <1>13, <2>1 DEF Close
        <3>2. \A b \in Backend : Queued(b)' => Queued(b) /\ b # b0
            BY <1>0, <2>0, <3>1, TailQueued DEF Queued, Running
        <3> QED BY <2>0, <3>1, <3>2
    <2>2. CASE ~call.ok
        <3>1. pc' = "failed"
            BY <1>13, <2>2 DEF Close
        <3> QED BY <2>0, <3>1
    <2> QED BY <2>1, <2>2
<1>14. CASE Edit \/ Interrupt \/ UNCHANGED languageVars
    <2>1. UNCHANGED <<op, pc, todo, registry, child, changed>>
        BY <1>14 DEF Edit, Interrupt, idle, languageVars
    <2> QED BY <2>1, StillQueued, StillFinished
<1> QED BY <1>1, <1>2, <1>3, <1>4, <1>5, <1>6, <1>7, <1>8, <1>9, <1>10, <1>11, <1>12, <1>13,
           <1>14 DEF LanguageNext

-----------------------------------------------------------------------------
(* Progress: which backends have been run. *)

(* Nothing has been changed at first. *)
LEMMA ProgressInit == LanguageInit => ProgressOK
<1> SUFFICES ASSUME LanguageInit PROVE ProgressOK
    OBVIOUS
<1>1. /\ pc = "resolve" /\ call = NoCall
      /\ op.command = "remove" => op.native \subseteq installed
    BY DEF LanguageInit
<1> QED BY <1>1 DEF ProgressOK, NoCall, Running

(* A step keeps what is known of the backends that have been run. *)
LEMMA ProgressStep ==
    LanguageTypeOK /\ ProgressOK /\ [LanguageNext]_languageVars => ProgressOK'
<1> SUFFICES ASSUME LanguageTypeOK, ProgressOK, [LanguageNext]_languageVars
             PROVE  ProgressOK'
    OBVIOUS
<1> USE DEF ProgressOK
<1>0. /\ pc \in {"resolve", "check", "plan", "native", "done", "failed"} \cup Running
      /\ op.command \in {"install", "remove"} /\ op.groups \in SUBSET Backend /\ todo \in Queue
      /\ call.ok \in BOOLEAN /\ (pc \in Running => todo # <<>>) /\ IsCall(call)
    BY DEF LanguageTypeOK, OperationTypeOK
<1>1. CASE Resolve
    BY <1>1 DEF Resolve, quiet, Running, Finished
<1>2. CASE Refuse \/ NativeFails \/ UpstreamFails \/ RegistryFails \/ RecheckRefuses \/ CheckRefuses
    <2>1. /\ pc' = "failed" /\ UNCHANGED <<op, installed, call, changed>> /\ pc # "close"
        BY <1>2 DEF Refuse, NativeFails, UpstreamFails, RegistryFails,
           RecheckRefuses, CheckRefuses, Fail
    <2> QED BY <2>1, StillFinished DEF Running
<1>3. CASE Check \/ CheckMissing \/ DryRun \/ Checked
    <2>1. /\ pc' \in {"check", "plan", "done"} /\ UNCHANGED <<op, installed, call, changed>>
          /\ pc # "close"
        BY <1>3 DEF Check, CheckMissing, DryRun, Checked, quiet
    <2> QED BY <2>1, StillFinished DEF Running
<1>4. CASE Confirm
    <2>1. /\ pc' \in {"native", "tool"} /\ UNCHANGED <<op, installed, call, changed>>
          /\ pc # "close"
          /\ pc' = "native" => op.command = "install"
        BY <1>4 DEF Confirm, quiet
    <2>2. \A b : Queued(b)' <=> b \in op.groups
        BY <1>0, <1>4, OrderQueued DEF Confirm
    <2> QED BY <1>0, <2>1, <2>2, StillFinished
<1>5. CASE CommitNative
    <2>1. /\ UNCHANGED <<op, todo, call, changed>> /\ pc = "native" /\ pc' \in {"tool", "done"}
          /\ op.command = "install" \/ pc' = "done"
        BY <1>5 DEF CommitNative, quiet
    <2>2. op.command = "remove" => \A b \in op.groups : Finished(b)
        <3>1. \A b : ~In(b, <<>>)
            BY QueueFacts
        <3> QED BY <2>1, <3>1 DEF Queued
    <2> QED BY <1>0, <2>1, <2>2, StillQueued, StillFinished DEF Running
<1>6. CASE StartRegistry \/ SpawnFails \/ Forks \/ Kill \/ Edit \/ Interrupt \/ HelperEnds
           \/ UNCHANGED languageVars
    <2>1. /\ UNCHANGED <<op, installed, todo, call, changed>>
          /\ pc' = pc \/ (pc \in {"registry", "spawn", "child"} /\ pc' \in {"spawn", "close"})
        BY <1>6 DEF StartRegistry, SpawnFails, Forks, Kill, Edit, Interrupt, HelperEnds, quiet,
               idle, languageVars
    <2> QED BY <1>0, <2>1, StillQueued, StillFinished DEF Running
<1>7. CASE Recheck \/ Upstream \/ Spawn
    <2>1. /\ UNCHANGED <<op, installed, todo, changed>>
          /\ pc \in Running /\ pc' \in Running
        BY <1>7 DEF Recheck, Upstream, Spawn, quiet, Running
    <2>2. call'.ok = FALSE
        <3>1. pc # "close" => call.ok = FALSE
            BY <1>0
        <3>2. pc # "close"
            BY <1>7 DEF Recheck, Upstream, Spawn
        <3> QED BY <1>0, <1>7, <3>1, <3>2, RecheckEffect, UpstreamEffect, SpawnEffect
    <2> QED BY <1>0, <2>1, <2>2, StillQueued, StillFinished DEF Running
<1>8. CASE Succeeds \/ ChildFails
    <2>1. PICK ok \in BOOLEAN : Exits(ok)
        BY <1>8 DEF Succeeds, ChildFails
    <2>2. Finished(b0)'
        <3>1. <<b0, call.program, call.place>> \in changed' /\ b0' = b0
            BY <2>1, StillQueued DEF Exits
        <3> HIDE DEF ProgressOK
        <3> QED BY <3>1 DEF Finished
    <2>3. /\ UNCHANGED <<op, installed, todo>> /\ changed \subseteq changed'
          /\ pc = "child" /\ pc' = "close"
        BY <2>1 DEF Exits, quiet
    <2> QED BY <1>0, <2>2, <2>3, StillQueued, StillFinished DEF Running
<1>9. CASE Close
    <2>0. /\ UNCHANGED <<op, installed, changed>> /\ pc = "close" /\ call'.ok = FALSE
        BY <1>9 DEF Close, quiet, NoCall
    <2>1. CASE call.ok
        <3>1. /\ pc' \in {"tool", "native", "done"} /\ todo' = Tail(todo)
              /\ pc' # "tool" => todo' = <<>>
            BY <1>9, <2>1 DEF Close
        <3>2. \A b : Queued(b) <=> b = b0 \/ Queued(b)'
            BY <1>0, <2>0, <3>1, TailQueued DEF Running
        <3>3. \A b \in op.groups : Queued(b)' \/ Finished(b)'
            BY <1>0, <2>0, <2>1, <3>2, StillFinished DEF Running
        <3> QED BY <2>0, <3>1, <3>3, StillFinished
    <2>2. CASE ~call.ok
        <3>1. pc' = "failed"
            BY <1>9, <2>2 DEF Close
        <3> QED BY <2>0, <3>1, StillFinished DEF Running
    <2> QED BY <2>1, <2>2
<1> QED BY <1>1, <1>2, <1>3, <1>4, <1>5, <1>6, <1>7, <1>8, <1>9 DEF LanguageNext

-----------------------------------------------------------------------------
(* Tools. *)

(* No tool is needed at first. *)
LEMMA ToolsInit == LanguageInit => ToolsOK
BY DEF LanguageInit, ToolsOK, Running, Called

(* What a check lets pass. *)
LEMMA CheckIs ==
    ASSUME NEW b
    PROVE  ToolCheck(b).result = "ok" <=>
               /\ validateLanguageOptions(b, op.args)
               /\ defaultPip(b) => checkDefaultPipEnvironment /\ checkDefaultPipScope
               /\ Kind(b) \in {"good", "venv"}
<1>1. \A result, ran : Verdict(b, result, ran).result = result
    BY DEF Verdict
<1>2. CASE RefusedUnseen(b)
    BY <1>1, <1>2 DEF ToolCheck, RefusedUnseen
<1>3. CASE ~RefusedUnseen(b)
    BY <1>1, <1>3 DEF ToolCheck, RefusedUnseen
<1> QED BY <1>2, <1>3

(* A check depends on nothing else. *)
LEMMA CheckStays ==
    ASSUME UNCHANGED <<op, system, conf>>, installed \subseteq installed'
    PROVE  \A b : ToolCheck(b).result = "ok" => (ToolCheck(b).result)' = "ok"
<1> SUFFICES ASSUME NEW b, ToolCheck(b).result = "ok" PROVE (ToolCheck(b).result)' = "ok"
    OBVIOUS
<1> DEFINE valid == validateLanguageOptions(b, op.args)
           home  == defaultPip(b) => checkDefaultPipEnvironment /\ checkDefaultPipScope
           sound == Kind(b) \in {"good", "venv"}
<1>1. ToolCheck(b).result = "ok" <=> valid /\ home /\ sound
    BY CheckIs
<1>2. (ToolCheck(b).result = "ok" <=> valid /\ home /\ sound)'
    BY <1>1, CheckIs, PTL
<1>3. (valid' <=> valid) /\ (home' <=> home)
    BY DEF checkDefaultPipEnvironment, checkDefaultPipScope, Effective, Value, defaultPip
<1>4. sound => sound'
    BY DEF Kind, Found
<1> QED BY <1>1, <1>2, <1>3, <1>4

(* Every step of an installation keeps what is known of its tools. *)
LEMMA ToolsStep ==
    /\ LanguageTypeOK /\ ProcessesOK /\ ProgressOK /\ ToolsOK
    /\ [LanguageNext]_languageVars
    => ToolsOK'
<1> SUFFICES ASSUME LanguageTypeOK, ProcessesOK, ProgressOK, ToolsOK, [LanguageNext]_languageVars,
                    op'.command = "install"
             PROVE  ToolsOK'
    BY DEF ToolsOK
<1>o. op' = op /\ op.command = "install"
    BY DEF LanguageNext, Resolve, Refuse, Check, CheckMissing, CheckRefuses, Checked, DryRun,
           Confirm, CommitNative, NativeFails, Recheck, RecheckRefuses, Upstream, UpstreamFails,
           StartRegistry, RegistryFails, Spawn, SpawnFails, Forks, Succeeds, ChildFails, Exits,
           HelperEnds, Kill, Close, Edit, Interrupt, Fail, quiet, idle, languageVars
<1>0. /\ pc \in {"resolve", "check", "plan", "native", "done", "failed"} \cup Running
      /\ op.groups \in SUBSET Backend /\ todo \in Queue /\ edits \in Nat
      /\ call.ok \in BOOLEAN /\ (pc \in Running => todo # <<>>) /\ IsCall(call)
    BY DEF LanguageTypeOK, OperationTypeOK
<1> DEFINE One   == pc \in Running => Native \subseteq installed
           Two   == pc \in Called /\ FromOwn(b0) => call.program = "oo"
           Three == \A c \in changed : FromOwn(c[1]) => c[2] = "oo"
           Known(b) == pc \in {"plan", "native"} \cup Running \/ (pc = "check" /\ ~Queued(b))
           Four  == edits = 0 /\ missing = {} =>
                        \A b \in op.groups : Known(b) => ToolCheck(b).result = "ok"
<1>a. One /\ Two /\ Three /\ Four
    BY <1>o DEF ToolsOK
<1>b. One' /\ Two' /\ Three' /\ Four' => ToolsOK'
    BY DEF ToolsOK
<1>c. Running = Called \cup {"tool", "close"} /\ "close" \notin Called /\ "tool" \notin Called
    BY DEF Running, Called
(* Steps that leave the tools and the configuration alone. *)
<1>d. ASSUME UNCHANGED <<op, system, conf, installed, edits>>,
             missing \subseteq missing',
             \A b \in op.groups :
                 Known(b)' => Known(b) \/ ToolCheck(b).result = "ok" \/ missing' # {}
      PROVE  Four'
    <2> SUFFICES ASSUME edits' = 0, missing' = {}, NEW b \in op.groups, Known(b)'
                 PROVE  (ToolCheck(b).result)' = "ok"
        BY <1>d
    <2>1. ToolCheck(b).result = "ok"
        BY <1>a, <1>d
    <2> QED BY <2>1, <1>d, CheckStays
<1>e. ASSUME UNCHANGED <<op, missing>> PROVE \A b : FromOwn(b)' <=> FromOwn(b)
    BY <1>e DEF FromOwn, Native, ToolOf
<1> HIDE DEF One, Two, Three, Four, Known
<1>1. CASE Resolve
    <2>1. /\ UNCHANGED <<op, system, conf, installed, edits, missing, changed>>
          /\ pc = "resolve" /\ pc' = "check"
        BY <1>1 DEF Resolve, quiet
    <2>2. \A b \in op.groups : ~(Known(b)')
        BY <1>0, <1>1, <2>1, OrderQueued DEF Resolve, Known, Running
    <2>3. Four'
        BY <1>d, <2>1, <2>2
    <2>4. One' /\ Two'
        BY <2>1 DEF One, Two, Running, Called
    <2>5. Three'
        BY <1>a, <1>e, <2>1 DEF Three
    <2> QED BY <1>b, <2>3, <2>4, <2>5
<1>2. CASE \/ Refuse \/ NativeFails \/ UpstreamFails \/ RegistryFails
           \/ RecheckRefuses \/ CheckRefuses \/ DryRun
    <2>1. /\ UNCHANGED <<op, system, conf, installed, edits, missing, changed>>
          /\ pc' \in {"failed", "done"}
        BY <1>2 DEF Refuse, NativeFails, UpstreamFails, RegistryFails, RecheckRefuses, CheckRefuses,
                    DryRun, Fail, quiet
    <2>2. \A b \in op.groups : ~(Known(b)')
        BY <2>1 DEF Known, Running
    <2>3. Four'
        BY <1>d, <2>1, <2>2
    <2>4. One' /\ Two'
        BY <2>1 DEF One, Two, Running, Called
    <2>5. Three'
        BY <1>a, <1>e, <2>1 DEF Three
    <2> QED BY <1>b, <2>3, <2>4, <2>5
<1>3. CASE Check \/ CheckMissing
    <2>1. /\ UNCHANGED <<op, system, conf, installed, edits, changed>>
          /\ pc = "check" /\ pc' = "check" /\ todo # <<>> /\ todo' = Tail(todo)
          /\ missing \subseteq missing'
          /\ ToolCheck(b0).result = "ok" \/ missing' # {}
        BY <1>3 DEF Check, CheckMissing, quiet
    <2>2. \A b : Queued(b) <=> b = b0 \/ Queued(b)'
        BY <1>0, <2>1, TailQueued
    <2>3. \A b \in op.groups : Known(b)' => Known(b) \/ ToolCheck(b).result = "ok" \/ missing' # {}
        BY <2>1, <2>2 DEF Known, Running
    <2>4. Four'
        BY <1>d, <2>1, <2>3
    <2>5. One' /\ Two'
        BY <2>1 DEF One, Two, Running, Called
    <2>6. Three'
        BY <2>1 DEF Three, ProcessesOK, Before
    <2> QED BY <1>b, <2>4, <2>5, <2>6
<1>4. CASE Checked
    <2>1. /\ UNCHANGED <<op, system, conf, installed, edits, missing, changed>>
          /\ pc = "check" /\ pc' = "plan" /\ todo = <<>>
        BY <1>4 DEF Checked, quiet
    <2>2. \A b : ~Queued(b)
        BY <2>1, QueueFacts DEF Queued
    <2>3. \A b \in op.groups : Known(b)
        BY <2>1, <2>2 DEF Known
    <2>4. Four'
        BY <1>d, <2>1, <2>3
    <2>5. One' /\ Two'
        BY <2>1 DEF One, Two, Running, Called
    <2>6. Three'
        BY <1>a, <1>e, <2>1 DEF Three
    <2> QED BY <1>b, <2>4, <2>5, <2>6
<1>5. CASE Confirm
    <2>1. /\ UNCHANGED <<op, system, conf, installed, edits, missing, changed>>
          /\ pc = "plan" /\ pc' = IF Native # {} THEN "native" ELSE "tool"
        BY <1>o, <1>5 DEF Confirm, quiet
    <2>3. \A b \in op.groups : Known(b)
        BY <2>1 DEF Known
    <2>4. Four'
        BY <1>d, <2>1, <2>3
    <2>5. One' /\ Two'
        BY <2>1 DEF One, Two, Running, Called, Native
    <2>6. Three'
        BY <1>a, <1>e, <2>1 DEF Three
    <2> QED BY <1>b, <2>4, <2>5, <2>6
<1>6. CASE CommitNative
    <2>1. /\ UNCHANGED <<op, system, conf, edits, missing, changed>>
          /\ installed' = installed \cup Native /\ pc = "native" /\ pc' = "tool"
        BY <1>o, <1>6 DEF CommitNative, NativePlan, quiet
    <2>3. \A b \in op.groups : Known(b)
        BY <2>1 DEF Known
    <2>4. Four'
        <3> SUFFICES ASSUME edits' = 0, missing' = {}, NEW b \in op.groups
                     PROVE  (ToolCheck(b).result)' = "ok"
            BY <2>1 DEF Four
        <3>1. ToolCheck(b).result = "ok"
            BY <1>a, <2>1, <2>3 DEF Four
        <3>2. installed \subseteq installed'
            BY <2>1
        <3> QED BY <3>1, <3>2, <2>1, CheckStays
    <2>5. One' /\ Two'
        BY <2>1 DEF One, Two, Running, Called, Native
    <2>6. Three'
        BY <1>a, <1>e, <2>1 DEF Three
    <2> QED BY <1>b, <2>4, <2>5, <2>6
<1>7. CASE Recheck
    <2>1. /\ UNCHANGED <<op, system, conf, installed, edits, missing, changed, todo>>
          /\ pc = "tool" /\ pc' = "upstream" /\ ToolCheck(b0).result = "ok"
        BY <1>o, <1>7 DEF Recheck, quiet
    <2>2. call'.program = Selected(b0)
        BY <1>7, RecheckEffect
    <2>3. \A b \in op.groups : Known(b)
        BY <2>1 DEF Known, Running
    <2>4. Four'
        BY <1>d, <2>1, <2>3
    <2>5. Native \subseteq installed
        BY <1>a, <2>1 DEF One, Running
    <2>6. One'
        BY <2>1, <2>5 DEF One, Native
    <2>7. Two'
        <3>1. FromOwn(b0) => Selected(b0) = "oo"
            BY <2>5 DEF FromOwn, Selected, Kind, Found
        <3> QED BY <1>e, <2>1, <2>2, <3>1, StillQueued DEF Two
    <2>8. Three'
        BY <1>a, <1>e, <2>1 DEF Three
    <2> QED BY <1>b, <2>4, <2>6, <2>7, <2>8
<1>8. CASE Upstream \/ StartRegistry \/ Spawn
    <2>1. /\ UNCHANGED <<op, system, conf, installed, edits, missing, changed, todo>>
          /\ pc \in Called /\ pc' \in Called
        BY <1>8 DEF Upstream, StartRegistry, Spawn, quiet, Called
    <2>2. call'.program = call.program
        BY <1>0, <1>8, UpstreamEffect, SpawnEffect DEF StartRegistry
    <2>3. \A b \in op.groups : Known(b)
        BY <1>c, <2>1 DEF Known
    <2>4. Four'
        BY <1>d, <2>1, <2>3
    <2>5. One'
        BY <1>a, <1>c, <2>1 DEF One, Native
    <2>6. Two'
        BY <1>a, <1>e, <2>1, <2>2, StillQueued DEF Two
    <2>7. Three'
        BY <1>a, <1>e, <2>1 DEF Three
    <2> QED BY <1>b, <2>4, <2>5, <2>6, <2>7
<1>9. CASE SpawnFails \/ Forks \/ HelperEnds \/ Kill \/ Interrupt \/ UNCHANGED languageVars
    <2>1. /\ UNCHANGED <<op, system, conf, installed, edits, missing, changed, todo, call>>
          /\ pc' = pc \/ (pc \in {"spawn", "child"} /\ pc' = "close")
        BY <1>9 DEF SpawnFails, Forks, HelperEnds, Kill, Interrupt, languageVars, quiet, idle
    <2>3. \A b \in op.groups : Known(b)' => Known(b)
        BY <2>1, StillQueued DEF Known, Running
    <2>4. Four'
        BY <1>d, <2>1, <2>3
    <2>5. One'
        BY <1>a, <2>1 DEF One, Native, Running
    <2>6. Two'
        BY <1>a, <1>e, <2>1, StillQueued DEF Two, Called
    <2>7. Three'
        BY <1>a, <1>e, <2>1 DEF Three
    <2> QED BY <1>b, <2>4, <2>5, <2>6, <2>7
<1>10. CASE Succeeds \/ ChildFails
    <2>0. PICK ok \in BOOLEAN : Exits(ok)
        BY <1>10 DEF Succeeds, ChildFails
    <2>1. /\ UNCHANGED <<op, system, conf, installed, edits, missing, todo>>
          /\ pc = "child" /\ pc' = "close"
          /\ changed' = changed \cup {<<b0, call.program, call.place>>}
        BY <2>0 DEF Exits, quiet
    <2>3. \A b \in op.groups : Known(b)
        BY <2>1 DEF Known, Running
    <2>4. Four'
        BY <1>d, <2>1, <2>3
    <2>5. One' /\ Two'
        BY <1>a, <2>1 DEF One, Two, Native, Running, Called
    <2>6. FromOwn(b0) => call.program = "oo"
        BY <1>a, <2>1 DEF Two, Called
    <2>7. Three'
        <3> SUFFICES ASSUME NEW c \in changed', FromOwn(c[1]) PROVE c[2] = "oo"
            BY <1>e, <2>1 DEF Three
        <3>1. CASE c \in changed
            BY <1>a, <3>1 DEF Three
        <3>2. CASE c = <<b0, call.program, call.place>>
            BY <2>6, <3>2
        <3> QED BY <2>1, <3>1, <3>2
    <2> QED BY <1>b, <2>4, <2>5, <2>7
<1>11. CASE Close
    <2>1. /\ UNCHANGED <<op, system, conf, installed, edits, missing, changed>>
          /\ pc = "close" /\ pc' \in {"tool", "done", "failed"}
        BY <1>o, <1>11 DEF Close, quiet
    <2>3. \A b \in op.groups : Known(b)
        BY <2>1 DEF Known, Running
    <2>4. Four'
        BY <1>d, <2>1, <2>3
    <2>5. One' /\ Two'
        BY <1>a, <2>1 DEF One, Two, Native, Running, Called
    <2>6. Three'
        BY <1>a, <1>e, <2>1 DEF Three
    <2> QED BY <1>b, <2>4, <2>5, <2>6
<1>12. CASE Edit
    <2>1. /\ UNCHANGED <<op, installed, pc, todo, missing, changed, call>> /\ edits' = edits + 1
        BY <1>12 DEF Edit, idle
    <2>2. Four'
        BY <1>0, <2>1 DEF Four
    <2>5. One' /\ Two' /\ Three'
        BY <1>a, <1>e, <2>1, StillQueued DEF One, Two, Three, Native
    <2> QED BY <1>b, <2>2, <2>5
<1> QED BY <1>1, <1>2, <1>3, <1>4, <1>5, <1>6, <1>7, <1>8, <1>9, <1>10, <1>11, <1>12
           DEF LanguageNext

-----------------------------------------------------------------------------
(* How arguments are read. *)

(* What has been read after each of the arguments. *)
Reads(b, r, argv, read) ==
    /\ read[0] = r
    /\ \A i \in 1..Len(argv) : read[i] = Read(b, read[i - 1], argv[i])

(* Reading is a function of the arguments: its recursion ends. *)
LEMMA ReadingIsRecursive ==
    ASSUME NEW b, NEW r, NEW S, NEW argv \in Seq(S)
    PROVE  \E read : Reads(b, r, argv, read) /\ Continue(b, r, argv) = read[Len(argv)]
<1> DEFINE N == Len(argv)
           Is(f, n) == f = [i \in 0..n |-> IF i = 0 THEN r ELSE Read(b, f[i - 1], argv[i])]
           T == {n \in Nat : \E f : Is(f, n)}
           read == CHOOSE f : Is(f, N)
<1>0. N \in Nat
    OBVIOUS
<1> HIDE DEF N
<1>1. 0 \in T
    <2> DEFINE f == [i \in 0..0 |-> r]
    <2>1. Is(f, 0)
        OBVIOUS
    <2> HIDE DEF f, Is
    <2>2. \E g : Is(g, 0)
        BY <2>1
    <2> QED BY <2>2
<1>2. ASSUME NEW n \in Nat, n \in T PROVE n + 1 \in T
    <2>1. PICK f : Is(f, n)
        BY <1>2
    <2> DEFINE g == [i \in 0..(n + 1) |-> IF i = n + 1 THEN Read(b, f[n], argv[n + 1]) ELSE f[i]]
    <2>2. ASSUME NEW i \in 0..(n + 1)
          PROVE  g[i] = IF i = 0 THEN r ELSE Read(b, g[i - 1], argv[i])
        <3>1. CASE i = n + 1
            <4>1. g[i] = Read(b, f[n], argv[n + 1]) /\ i # 0 /\ i - 1 = n
                BY <3>1
            <4>2. g[n] = f[n]
                OBVIOUS
            <4> QED BY <3>1, <4>1, <4>2
        <3>2. CASE i # n + 1
            <4>1. i \in 0..n /\ g[i] = f[i]
                BY <3>2
            <4>2. i # 0 => i - 1 \in 0..(n + 1) /\ i - 1 # n + 1
                BY <4>1
            <4>3. i # 0 => g[i - 1] = f[i - 1]
                BY <4>2
            <4>4. f[i] = IF i = 0 THEN r ELSE Read(b, f[i - 1], argv[i])
                BY <2>1, <4>1
            <4> HIDE DEF g
            <4> QED BY <4>1, <4>3, <4>4
        <3> QED BY <3>1, <3>2
    <2>3. g = [i \in 0..(n + 1) |-> g[i]]
        OBVIOUS
    <2>4. Is(g, n + 1)
        <3> HIDE DEF g
        <3> QED BY <2>2, <2>3
    <2> HIDE DEF g, Is
    <2>5. \E h : Is(h, n + 1)
        BY <2>4
    <2> QED BY <2>5
<1>3. \E f : Is(f, N)
    <2>1. N \in T
        <3> HIDE DEF T
        <3> QED BY <1>0, <1>1, <1>2, Counting
    <2> QED BY <2>1
<1>4. Is(read, N)
    <2> HIDE DEF Is
    <2> QED BY <1>3
<1>5. Continue(b, r, argv) = read[N]
    BY DEF Continue, N
<1> HIDE DEF read
<1>6. Reads(b, r, argv, read)
    BY <1>0, <1>4 DEF Reads, N
<1> QED BY <1>5, <1>6 DEF N

(* And there is one such reading. *)
LEMMA ReadingIsUnique ==
    ASSUME NEW b, NEW r, NEW S, NEW argv \in Seq(S), NEW f, Reads(b, r, argv, f)
    PROVE  Continue(b, r, argv) = f[Len(argv)]
<1>1. PICK g : Reads(b, r, argv, g) /\ Continue(b, r, argv) = g[Len(argv)]
    BY ReadingIsRecursive
<1> DEFINE T == {n \in Nat : n <= Len(argv) => f[n] = g[n]}
<1>2. 0 \in T
    BY <1>1 DEF Reads
<1>3. ASSUME NEW n \in Nat, n \in T PROVE n + 1 \in T
    <2> SUFFICES ASSUME n + 1 <= Len(argv) PROVE f[n + 1] = g[n + 1]
        OBVIOUS
    <2>1. n + 1 \in 1..Len(argv) /\ (n + 1) - 1 = n /\ f[n] = g[n]
        BY <1>3
    <2> QED BY <1>1, <2>1 DEF Reads
<1>4. Len(argv) \in T
    <2> HIDE DEF T
    <2> QED BY <1>2, <1>3, Counting
<1> QED BY <1>1, <1>4

(* Reading no argument changes nothing. *)
LEMMA ContinueNone ==
    ASSUME NEW b, NEW r
    PROVE  Continue(b, r, <<>>) = r
<1>0. <<>> \in Seq({}) /\ Len(<<>>) = 0
    OBVIOUS
<1>1. PICK read : Reads(b, r, <<>>, read) /\ Continue(b, r, <<>>) = read[0]
    BY <1>0, ReadingIsRecursive
<1> QED BY <1>1 DEF Reads

(* Reading one argument is one step. *)
LEMMA ContinueOne ==
    ASSUME NEW b, NEW r, NEW a
    PROVE  Continue(b, r, <<a>>) = Read(b, r, a)
<1>0. <<a>> \in Seq({a}) /\ Len(<<a>>) = 1
    OBVIOUS
<1>1. PICK read : Reads(b, r, <<a>>, read) /\ Continue(b, r, <<a>>) = read[1]
    BY <1>0, ReadingIsRecursive
<1> QED BY <1>0, <1>1 DEF Reads

(* A list of arguments is read as its first part and then the rest. *)
LEMMA ContinueBoth ==
    ASSUME NEW b, NEW r, NEW S, NEW s \in Seq(S), NEW t \in Seq(S)
    PROVE  Continue(b, r, s \o t) = Continue(b, Continue(b, r, s), t)
<1>1. PICK f : Reads(b, r, s, f) /\ Continue(b, r, s) = f[Len(s)]
    BY ReadingIsRecursive
<1>2. PICK g : Reads(b, f[Len(s)], t, g) /\ Continue(b, f[Len(s)], t) = g[Len(t)]
    BY ReadingIsRecursive
<1> DEFINE m == Len(s)
           n == Len(t)
           h == [i \in 0..(m + n) |-> IF i <= m THEN f[i] ELSE g[i - m]]
<1>0. /\ m \in Nat /\ n \in Nat /\ s \o t \in Seq(S) /\ Len(s \o t) = m + n
      /\ \A i \in 1..(m + n) : (s \o t)[i] = IF i <= m THEN s[i] ELSE t[i - m]
    BY ConcatProperties
<1> HIDE DEF m, n
<1>3. h[0] = r
    BY <1>0, <1>1 DEF Reads
<1>4. ASSUME NEW i \in 1..(m + n) PROVE h[i] = Read(b, h[i - 1], (s \o t)[i])
    <2>1. CASE i <= m
        <3>1. h[i] = f[i] /\ h[i - 1] = f[i - 1] /\ i \in 1..m
            BY <1>0, <2>1
        <3> HIDE DEF h
        <3> QED BY <1>0, <1>1, <2>1, <3>1 DEF Reads, m
    <2>2. CASE i > m
        <3>1. h[i] = g[i - m] /\ i - m \in 1..n /\ (i - m) - 1 = (i - 1) - m
            BY <1>0, <2>2
        <3>2. h[i - 1] = g[(i - m) - 1]
            <4>1. CASE i - 1 > m
                BY <1>0, <4>1
            <4>2. CASE ~(i - 1 > m)
                <5>1. i - 1 = m /\ (i - m) - 1 = 0
                    BY <1>0, <2>2, <4>2
                <5>2. h[i - 1] = f[m]
                    BY <1>0, <5>1
                <5> QED BY <1>2, <5>1, <5>2 DEF Reads, m
            <4> QED BY <4>1, <4>2
        <3>3. g[i - m] = Read(b, g[(i - m) - 1], t[i - m])
            BY <1>2, <3>1 DEF Reads, n
        <3>4. (s \o t)[i] = t[i - m]
            BY <1>0, <2>2
        <3> HIDE DEF h
        <3> QED BY <3>1, <3>2, <3>3, <3>4
    <2> QED BY <1>0, <2>1, <2>2
<1>5. h[m + n] = g[n]
    <2>1. CASE n = 0
        BY <1>0, <1>2, <2>1 DEF Reads, m
    <2>2. CASE n # 0
        BY <1>0, <2>2
    <2> QED BY <2>1, <2>2
<1>6. Reads(b, r, s \o t, h)
    <2> HIDE DEF h
    <2> QED BY <1>0, <1>3, <1>4 DEF Reads
<1>7. Continue(b, r, s \o t) = h[m + n]
    <2> HIDE DEF h
    <2> QED BY <1>0, <1>6, ReadingIsUnique
<1> HIDE DEF h
<1> QED BY <1>1, <1>2, <1>5, <1>7 DEF n

-----------------------------------------------------------------------------
(* Functions that look at the arguments from each one on. *)

(* The options of oo's own. *)
Own == {Flag("--global"), Flag("--no-user"), Flag("--yes"), Flag("--offline"),
        Flag("--ignore-scripts"), Option("--registry", "oo"),
        Option("--index-url", "oo"), Option("--only-binary", ":all:")}

OwnKeys == {"--global", "--no-user", "--yes", "--offline", "--ignore-scripts", "--registry",
            "--index-url", "--only-binary"}

(* No key and no value that is written is the empty one. *)
LEMMA UnsetApart ==
    Unset \notin OwnKeys \cup {"oo", ":all:", "true", "false", "yes", "no"}
BY Zenon DEF Unset, OwnKeys

(* Every argument there can be. *)
Arg == Options \cup Own \cup {Bare("target")}

(* What is accepted from an argument on depends on what follows it. *)
LEMMA AcceptsAsksForLater ==
    ASSUME NEW b, NEW args \in Seq(Arg), NEW f, NEW g, NEW i \in 1..(Len(args) + 2),
           \A j \in 1..(Len(args) + 2) : j > i => f[j] = g[j]
    PROVE  AcceptsAt(b, args, f, i) = AcceptsAt(b, args, g, i)
<1> DEFINE n == Len(args)
<1>1. CASE i > n
    BY <1>1 DEF AcceptsAt
<1>2. CASE i <= n
    <2> DEFINE joins == /\ b = "npm" /\ args[i].value = Unset /\ args[i].key \in Truths
                        /\ i < n /\ IsTruth(args[i + 1])
               rest  == IF joins THEN i + 2 ELSE i + 1
    <2>0. n \in Nat /\ i \in Nat
        OBVIOUS
    <2>5. joins => i < n
        BY Zenon
    <2>1. rest \in 1..(n + 2) /\ rest > i /\ (rest <= n => rest + 1 \in 1..(n + 2) /\ rest + 1 > i)
        <3> HIDE DEF joins, n
        <3> QED BY <1>2, <2>0, <2>5
    <2> HIDE DEF rest
    <2>2. f[rest] = g[rest]
        BY <2>1
    <2>3. rest <= n => f[rest + 1] = g[rest + 1]
        BY <2>1
    <2>4. ~(i > n)
        BY <1>2
    <2> HIDE DEF n
    <2> QED BY <2>2, <2>3, <2>4 DEF AcceptsAt, n, rest
<1> QED BY <1>1, <1>2

(* validateLanguageOptions is decided by a function. *)
LEMMA AcceptsIsRecursive ==
    ASSUME NEW b, NEW args \in Seq(Arg)
    PROVE  \E f : /\ f = [i \in 1..(Len(args) + 2) |-> AcceptsAt(b, args, f, i)]
                  /\ validateLanguageOptions(b, args) = f[1]
<1> DEFINE N == Len(args) + 2
           Upto(f, k) == \A i \in 1..N : i > N - k => f[i] = AcceptsAt(b, args, f, i)
           T == {k \in Nat : \E f : Upto(f, k)}
           Is(f) == f = [i \in 1..N |-> AcceptsAt(b, args, f, i)]
<1>0. N \in Nat
    OBVIOUS
<1>1. 0 \in T
    <2>1. Upto(0, 0)
        OBVIOUS
    <2> QED BY <2>1
<1>2. ASSUME NEW k \in Nat, k \in T PROVE k + 1 \in T
    <2>1. PICK f : Upto(f, k)
        BY <1>2
    <2> DEFINE h == [i \in 1..N |-> AcceptsAt(b, args, f, i)]
    <2>2. ASSUME NEW i \in 1..N, i > N - (k + 1)
          PROVE  h[i] = AcceptsAt(b, args, h, i)
        <3>1. ASSUME NEW j \in 1..N, j > i PROVE f[j] = h[j]
            <4>1. j > N - k
                BY <1>0, <2>2, <3>1
            <4> QED BY <2>1, <4>1
        <3>2. h[i] = AcceptsAt(b, args, f, i)
            OBVIOUS
        <3> HIDE DEF h
        <3> QED BY <3>1, <3>2, AcceptsAsksForLater
    <2> HIDE DEF h
    <2>3. Upto(h, k + 1)
        BY <2>2
    <2> HIDE DEF Upto
    <2> QED BY <2>3
<1>3. PICK f : Upto(f, N)
    <2>1. N \in T
        <3> HIDE DEF T, N
        <3> QED BY <1>0, <1>1, <1>2, Counting
    <2> QED BY <2>1
<1> DEFINE h == [i \in 1..N |-> f[i]]
<1>4. ASSUME NEW i \in 1..N PROVE h[i] = AcceptsAt(b, args, h, i)
    <2>1. f[i] = AcceptsAt(b, args, f, i)
        BY <1>0, <1>3
    <2>2. \A j \in 1..N : f[j] = h[j]
        OBVIOUS
    <2> HIDE DEF h
    <2> QED BY <2>1, <2>2, AcceptsAsksForLater
<1>5. Is(h)
    BY <1>4
<1> DEFINE f0 == CHOOSE f0 : Is(f0)
<1>6. Is(f0)
    <2> HIDE DEF Is, h
    <2> QED BY <1>5
<1>7. validateLanguageOptions(b, args) = f0[1]
    BY DEF validateLanguageOptions
<1> HIDE DEF f0
<1> QED BY <1>6, <1>7

(* What is kept from an argument on depends on what follows it. *)
LEMMA ScopeAsksForLater ==
    ASSUME NEW args \in Seq(Arg), NEW f, NEW g, NEW i \in 1..(Len(args) + 2),
           \A j \in 1..(Len(args) + 2) : j > i => f[j] = g[j]
    PROVE  ScopeAt(args, f, i) = ScopeAt(args, g, i)
<1> DEFINE n == Len(args)
<1>0. n \in Nat /\ i \in Nat
    OBVIOUS
<1>1. CASE i > n
    BY <1>1 DEF ScopeAt
<1>2. CASE i <= n
    <2>1. f[i + 1] = g[i + 1] /\ f[i + 2] = g[i + 2]
        BY <1>0, <1>2
    <2>2. ~(i > n)
        BY <1>0, <1>2
    <2> HIDE DEF n
    <2> QED BY <2>1, <2>2 DEF ScopeAt, n
<1> QED BY <1>0, <1>1, <1>2

(* And so are the arguments that npmScopeArgs keeps. *)
LEMMA ScopeIsRecursive ==
    ASSUME NEW args \in Seq(Arg)
    PROVE  \E f : /\ f = [i \in 1..(Len(args) + 2) |-> ScopeAt(args, f, i)]
                  /\ npmScopeArgs(TRUE, args) = f[1]
<1> DEFINE N == Len(args) + 2
           Upto(f, k) == \A i \in 1..N : i > N - k => f[i] = ScopeAt(args, f, i)
           T == {k \in Nat : \E f : Upto(f, k)}
           Is(f) == f = [i \in 1..N |-> ScopeAt(args, f, i)]
<1>0. N \in Nat
    OBVIOUS
<1>1. 0 \in T
    <2>1. Upto(0, 0)
        OBVIOUS
    <2> QED BY <2>1
<1>2. ASSUME NEW k \in Nat, k \in T PROVE k + 1 \in T
    <2>1. PICK f : Upto(f, k)
        BY <1>2
    <2> DEFINE h == [i \in 1..N |-> ScopeAt(args, f, i)]
    <2>2. ASSUME NEW i \in 1..N, i > N - (k + 1)
          PROVE  h[i] = ScopeAt(args, h, i)
        <3>1. ASSUME NEW j \in 1..N, j > i PROVE f[j] = h[j]
            <4>1. j > N - k
                BY <1>0, <2>2, <3>1
            <4> QED BY <2>1, <4>1
        <3>2. h[i] = ScopeAt(args, f, i)
            OBVIOUS
        <3> HIDE DEF h
        <3> QED BY <3>1, <3>2, ScopeAsksForLater
    <2> HIDE DEF h
    <2>3. Upto(h, k + 1)
        BY <2>2
    <2> HIDE DEF Upto
    <2> QED BY <2>3
<1>3. PICK f : Upto(f, N)
    <2>1. N \in T
        <3> HIDE DEF T, N
        <3> QED BY <1>0, <1>1, <1>2, Counting
    <2> QED BY <2>1
<1> DEFINE h == [i \in 1..N |-> f[i]]
<1>4. ASSUME NEW i \in 1..N PROVE h[i] = ScopeAt(args, h, i)
    <2>1. f[i] = ScopeAt(args, f, i)
        BY <1>0, <1>3
    <2>2. \A j \in 1..N : f[j] = h[j]
        OBVIOUS
    <2> HIDE DEF h
    <2> QED BY <2>1, <2>2, ScopeAsksForLater
<1>5. Is(h)
    BY <1>4
<1> DEFINE f0 == CHOOSE f0 : Is(f0)
<1>6. Is(f0)
    <2> HIDE DEF Is, h
    <2> QED BY <1>5
<1>7. npmScopeArgs(TRUE, args) = f0[1]
    BY DEF npmScopeArgs
<1> HIDE DEF f0
<1> QED BY <1>6, <1>7

-----------------------------------------------------------------------------
(* Where a backend stands between two options: it may still take a truth   *)
(* value, but nothing else.                                                *)

Settled(r) ==
    /\ r = [words |-> r.words, set |-> r.set, wait |-> r.wait]
    /\ r.wait.key \in {Unset} \cup Truths

(* An option whose value, if it takes one, is the next argument. *)
NoValue(a) == a.value = Unset

(* No option with a value is a truth value, and none has an empty key. *)
LEMMA KeysApart ==
    /\ Truths \cap (npmLanguageValues \cup pipLanguageValues) = {}
    /\ Unset \notin Truths \cup npmLanguageValues \cup pipLanguageValues
    /\ \A b : LanguageValues(b) \subseteq npmLanguageValues \cup pipLanguageValues
    /\ \A b : LanguageValues(b) \subseteq Takers(b)
    /\ \A b : Unset \notin Takers(b) /\ Truths \cap Takers(b) = {}
<1>1. Unset \notin Truths \cup npmLanguageValues \cup pipLanguageValues
    BY Zenon DEF Unset, Truths, npmLanguageValues, pipLanguageValues
<1>2. Truths \cap (npmLanguageValues \cup pipLanguageValues) = {}
    BY DEF Truths, npmLanguageValues, pipLanguageValues
<1>3. \A b : /\ LanguageValues(b) \subseteq npmLanguageValues \cup pipLanguageValues
            /\ LanguageValues(b) \subseteq Takers(b)
    BY DEF LanguageValues, Takers
<1>4. \A b : Takers(b) \subseteq npmLanguageValues \cup pipLanguageValues
                                    \cup NpmUnlisted \cup PipUnlisted
    BY DEF Takers
<1>5. Unset \notin NpmUnlisted \cup PipUnlisted /\ Truths \cap (NpmUnlisted \cup PipUnlisted) = {}
    BY UnlistedAssumption
<1> QED BY <1>1, <1>2, <1>3, <1>4, <1>5

(* An option that has its value, or needs none. *)
LEMMA ReadsOption ==
    ASSUME NEW b, NEW r, Settled(r), NEW a \in Arg, ~IsBare(a),
           ~(a.key \in Takers(b) /\ NoValue(a))
    PROVE  /\ Settled(Read(b, r, a)) /\ Read(b, r, a).words = r.words
           /\ Read(b, r, a).set = Assign(r.set, a, Bare(Truth(a)))
           /\ b = "npm" /\ a.key \in Truths /\ NoValue(a) => Read(b, r, a).wait = a
<1>1. r.wait.key \notin Takers(b) /\ ~IsTruth(a)
    BY KeysApart DEF Settled, IsTruth
<1>2. Read(b, r, a) =
          [r EXCEPT !.set = Assign(@, a, Bare(Truth(a))),
                    !.wait = IF b = "npm" /\ a.key \in Truths /\ a.value = Unset
                             THEN a ELSE Bare(Unset)]
    BY <1>1 DEF Read, NoValue
<1> DEFINE last == Read(b, r, a)
           set  == Assign(r.set, a, Bare(Truth(a)))
           wait == IF b = "npm" /\ a.key \in Truths /\ a.value = Unset THEN a ELSE Bare(Unset)
<1>3. last = [words |-> r.words, set |-> set, wait |-> wait]
    <2>1. last = [r EXCEPT !.set = set, !.wait = wait]
        BY <1>2
    <2> HIDE DEF last, set, wait
    <2> QED BY <2>1 DEF Settled
<1>4. wait.key \in {Unset} \cup Truths
    BY DEF Bare, Option
<1>5. b = "npm" /\ a.key \in Truths /\ NoValue(a) => wait = a
    BY DEF NoValue
<1> HIDE DEF last, set, wait
<1>6. Settled(last) /\ last.words = r.words /\ last.set = set /\ last.wait = wait
    BY <1>3, <1>4 DEF Settled
<1>7. last = Read(b, r, a)
    BY DEF last
<1> QED BY <1>5, <1>6, <1>7 DEF set

(* The second of two values of an option counts. *)
LEMMA AssignTwice ==
    ASSUME NEW old, NEW a, NEW x, NEW y, NEW once, NEW twice,
           once = Assign(old, a, x), twice = Assign(once, a, y)
    PROVE  twice = Assign(old, a, y)
<1>1. DOMAIN once = DOMAIN old \cup {KeyOf(a)}
    BY DEF Assign
<1>2. \A k \in DOMAIN old : k # KeyOf(a) => once[k] = old[k]
    BY DEF Assign
<1>3. twice = Assign(once, a, y)
    OBVIOUS
<1> QED BY <1>1, <1>2, <1>3 DEF Assign

(* An option of npm with a truth value behind it. *)
LEMMA ReadsTruth ==
    ASSUME NEW r, Settled(r), NEW a \in Arg, a.key \in Truths, NoValue(a),
           NEW v \in Arg, IsTruth(v)
    PROVE  LET last == Read("npm", Read("npm", r, a), v)
           IN  /\ Settled(last) /\ last.words = r.words
               /\ last.set = Assign(r.set, a, Bare(Truth([a EXCEPT !.value = v.value])))
<1> DEFINE first == Read("npm", r, a)
           last  == Read("npm", first, v)
           final == Bare(Truth([a EXCEPT !.value = v.value]))
<1>1. /\ Settled(first) /\ first.words = r.words /\ first.wait = a
      /\ first.set = Assign(r.set, a, Bare(Truth(a)))
    BY ReadsOption, KeysApart DEF IsBare, NoValue
<1> HIDE DEF first
<1>2. last = [first EXCEPT !.set = Assign(@, a, final), !.wait = Bare(Unset)]
    <2>1. first.wait.key \notin Takers("npm") /\ first.wait.key \in Truths
        BY <1>1, KeysApart
    <2> QED BY <1>1, <2>1 DEF Read
<1> HIDE DEF final
<1> DEFINE set == Assign(first.set, a, final)
<1>3. last = [words |-> first.words, set |-> set, wait |-> Bare(Unset)]
    <2>1. last = [first EXCEPT !.set = set, !.wait = Bare(Unset)]
        BY <1>2
    <2> HIDE DEF set, last
    <2> QED BY <1>1, <2>1 DEF Settled
<1>4. Bare(Unset).key = Unset
    BY DEF Bare, Option
<1>5. Settled(last)
    <2> HIDE DEF set, last
    <2> QED BY <1>3, <1>4 DEF Settled
<1>6. last.words = first.words /\ last.set = set
    <2> HIDE DEF set, last
    <2> QED BY <1>3
<1> HIDE DEF last
<1>7. last = Read("npm", Read("npm", r, a), v)
    BY DEF last, first
<1>8. set = Assign(r.set, a, final)
    <2>1. set = Assign(first.set, a, final)
        OBVIOUS
    <2>2. first.set = Assign(r.set, a, Bare(Truth(a)))
        BY <1>1
    <2> HIDE DEF set
    <2> QED BY <2>1, <2>2, AssignTwice
<1> HIDE DEF set
<1> QED BY <1>1, <1>5, <1>6, <1>7, <1>8 DEF final

(* An option with its value behind it. *)
LEMMA ReadsValue ==
    ASSUME NEW b, NEW r, Settled(r), NEW a \in Arg, a.key \in LanguageValues(b), NoValue(a),
           NEW v \in Arg
    PROVE  LET last == Read(b, Read(b, r, a), v)
           IN  /\ Settled(last) /\ last.words = r.words
               /\ last.set = Assign(r.set, a, v)
<1> DEFINE first == Read(b, r, a)
           last  == Read(b, first, v)
           set   == Assign(r.set, a, v)
<1>1. r.wait.key \notin Takers(b) /\ ~IsTruth(a) /\ ~IsBare(a) /\ a.key \in Takers(b)
    BY KeysApart DEF Settled, IsTruth, IsBare
<1>2. first = [r EXCEPT !.wait = a]
    BY <1>1 DEF Read, NoValue
<1>3. first = [words |-> r.words, set |-> r.set, wait |-> a]
    <2> HIDE DEF first
    <2> QED BY <1>2 DEF Settled
<1> HIDE DEF first
<1>4. last = [first EXCEPT !.set = Assign(@, a, v), !.wait = Bare(Unset)]
    BY <1>1, <1>3 DEF Read
<1>5. last = [words |-> r.words, set |-> set, wait |-> Bare(Unset)]
    <2>1. last = [first EXCEPT !.set = set, !.wait = Bare(Unset)]
        BY <1>3, <1>4
    <2> HIDE DEF set, last
    <2> QED BY <1>3, <2>1
<1>6. Bare(Unset).key = Unset
    BY DEF Bare, Option
<1>7. Settled(last) /\ last.words = r.words /\ last.set = set
    <2> HIDE DEF set, last
    <2> QED BY <1>5, <1>6 DEF Settled
<1>8. last = Read(b, Read(b, r, a), v)
    BY DEF last, first
<1> HIDE DEF last
<1> QED BY <1>7, <1>8

(* What an option has been set to. *)
LEMMA SettingAssigned ==
    ASSUME NEW r, NEW s, NEW a, NEW v, r.set = Assign(s.set, a, v)
    PROVE  /\ Setting(r, KeyOf(a)) = v.value
           /\ \A key : key # KeyOf(a) => Setting(r, key) = Setting(s, key)
BY DEF Setting, Assign

(* Where npm is told to work. *)
SameScope(r, s) == \A key \in {"--prefix", "--global"} : Setting(r, key) = Setting(s, key)

(* Two readings that agree on the scope do so after the same assignment. *)
LEMMA BothAssigned ==
    ASSUME NEW r, NEW s, SameScope(r, s), NEW a, NEW v, NEW r2, NEW s2,
           r2.set = Assign(r.set, a, v), s2.set = Assign(s.set, a, v)
    PROVE  SameScope(r2, s2)
<1>1. Setting(r2, KeyOf(a)) = v.value /\ Setting(s2, KeyOf(a)) = v.value
    BY SettingAssigned
<1>2. \A key : key # KeyOf(a) => Setting(r2, key) = Setting(r, key)
    BY SettingAssigned
<1>3. \A key : key # KeyOf(a) => Setting(s2, key) = Setting(s, key)
    BY SettingAssigned
<1> QED BY <1>1, <1>2, <1>3 DEF SameScope

(* An assignment to another option leaves the scope. *)
LEMMA OtherAssigned ==
    ASSUME NEW r, NEW s, SameScope(r, s), NEW a, NEW v, NEW r2, r2.set = Assign(r.set, a, v),
           a.key \notin {"--prefix", "--global", "--no-global"}
    PROVE  SameScope(r2, s)
<1>1. KeyOf(a) \notin {"--prefix", "--global"}
    BY DEF KeyOf
<1>2. \A key : key # KeyOf(a) => Setting(r2, key) = Setting(r, key)
    BY SettingAssigned
<1> QED BY <1>1, <1>2 DEF SameScope

(* Reading one argument, or two, before others. *)
LEMMA ContinueFirst ==
    ASSUME NEW b, NEW r, NEW a \in Arg, NEW q \in Seq(Arg)
    PROVE  Continue(b, r, <<a>> \o q) = Continue(b, Read(b, r, a), q)
<1>1. <<a>> \in Seq(Arg)
    OBVIOUS
<1>2. Continue(b, r, <<a>> \o q) = Continue(b, Continue(b, r, <<a>>), q)
    <2>1. \A S : \A s \in Seq(S), u \in Seq(S) :
              Continue(b, r, s \o u) = Continue(b, Continue(b, r, s), u)
        BY ContinueBoth
    <2> DEFINE p == <<a>>
    <2>2. p \in Seq(Arg)
        BY <1>1
    <2> HIDE DEF p
    <2>3. Continue(b, r, p \o q) = Continue(b, Continue(b, r, p), q)
        BY <2>1, <2>2
    <2> QED BY <2>3 DEF p
<1>3. Continue(b, r, <<a>>) = Read(b, r, a)
    BY ContinueOne
<1> QED BY <1>2, <1>3

(* The same for two arguments, *)
LEMMA ContinueSecond ==
    ASSUME NEW b, NEW r, NEW a \in Arg, NEW v \in Arg, NEW q \in Seq(Arg)
    PROVE  Continue(b, r, <<a>> \o (<<v>> \o q)) = Continue(b, Read(b, Read(b, r, a), v), q)
<1>1. <<v>> \o q \in Seq(Arg)
    BY ConcatProperties
<1> DEFINE first == Read(b, r, a)
<1>2. Continue(b, r, <<a>> \o (<<v>> \o q)) = Continue(b, first, <<v>> \o q)
    BY <1>1, ContinueFirst
<1>3. Continue(b, first, <<v>> \o q) = Continue(b, Read(b, first, v), q)
    <2> HIDE DEF first
    <2> QED BY ContinueFirst
<1> QED BY <1>2, <1>3

(* and for two that have been put together. *)
LEMMA ContinuePair ==
    ASSUME NEW b, NEW r, NEW a \in Arg, NEW v \in Arg, NEW q \in Seq(Arg)
    PROVE  Continue(b, r, <<a>> \o <<v>> \o q) = Continue(b, Read(b, Read(b, r, a), v), q)
<1>1. <<v>> \in Seq(Arg) /\ <<a>> \in Seq(Arg)
    OBVIOUS
<1>2. (<<a>> \o <<v>>) \o q = <<a>> \o (<<v>> \o q)
    BY <1>1, ConcatAssociative
<1>3. Continue(b, r, <<a>> \o (<<v>> \o q)) = Continue(b, Read(b, Read(b, r, a), v), q)
    BY ContinueSecond
<1> QED BY <1>2, <1>3

(* The arguments from one on. *)
Suffix(args, i) == SubSeq(args, i, Len(args))

(* The arguments from a position on: the one there, and the others. *)
LEMMA SuffixIs ==
    ASSUME NEW args \in Seq(Arg), NEW i \in 1..(Len(args) + 1)
    PROVE  /\ Suffix(args, i) \in Seq(Arg)
           /\ i = Len(args) + 1 => Suffix(args, i) = <<>>
           /\ i <= Len(args) =>
                 /\ args[i] \in Arg
                 /\ Suffix(args, i) = <<args[i]>> \o Suffix(args, i + 1)
<1> DEFINE n == Len(args)
<1>0. n \in Nat /\ i \in Nat
    OBVIOUS
<1>1. ASSUME NEW j \in 1..(n + 1)
      PROVE  /\ Suffix(args, j) \in Seq(Arg) /\ Len(Suffix(args, j)) = (n - j) + 1
             /\ \A k \in 1..((n - j) + 1) : Suffix(args, j)[k] = args[(j + k) - 1]
    BY SubSeqProperties DEF Suffix
<1>2. i = n + 1 => Suffix(args, i) = <<>>
    <2> SUFFICES ASSUME i = n + 1 PROVE Suffix(args, i) = <<>>
        OBVIOUS
    <2>1. Len(Suffix(args, i)) = 0
        BY <1>0, <1>1
    <2> QED BY <1>1, <2>1, EmptySeq
<1>3. ASSUME i <= n
      PROVE  args[i] \in Arg /\ Suffix(args, i) = <<args[i]>> \o Suffix(args, i + 1)
    <2>0. /\ args[i] \in Arg /\ i + 1 \in 1..(n + 1)
          /\ <<args[i]>> \in Seq(Arg) /\ Len(<<args[i]>>) = 1
        BY <1>0, <1>3
    <2> DEFINE rest  == Suffix(args, i + 1)
               whole == <<args[i]>> \o rest
    <2>1. /\ rest \in Seq(Arg) /\ Len(rest) = n - i
          /\ \A k \in 1..(n - i) : rest[k] = args[i + k]
        <3>1. (n - (i + 1)) + 1 = n - i /\ \A k \in 1..(n - i) : ((i + 1) + k) - 1 = i + k
            BY <1>0
        <3>2. /\ rest \in Seq(Arg) /\ Len(rest) = (n - (i + 1)) + 1
              /\ \A k \in 1..((n - (i + 1)) + 1) : rest[k] = args[((i + 1) + k) - 1]
            BY <1>1, <2>0
        <3> HIDE DEF rest
        <3> QED BY <1>0, <3>1, <3>2
    <2> HIDE DEF rest
    <2>2. /\ whole \in Seq(Arg) /\ Len(whole) = (n - i) + 1
          /\ \A k \in 1..((n - i) + 1) : whole[k] = IF k <= 1 THEN <<args[i]>>[k] ELSE rest[k - 1]
        <3> DEFINE first == <<args[i]>>
        <3>1. /\ first \in Seq(Arg) /\ Len(first) = 1
              /\ Len(first) + Len(rest) = (n - i) + 1
            BY <1>0, <2>0, <2>1
        <3> HIDE DEF first
        <3>2. /\ first \o rest \in Seq(Arg) /\ Len(first \o rest) = Len(first) + Len(rest)
              /\ \A k \in 1..(Len(first) + Len(rest)) :
                    (first \o rest)[k] = IF k <= Len(first) THEN first[k] ELSE rest[k - Len(first)]
            BY <2>1, <3>1, ConcatProperties
        <3>3. /\ first \o rest \in Seq(Arg) /\ Len(first \o rest) = (n - i) + 1
              /\ \A k \in 1..((n - i) + 1) :
                    (first \o rest)[k] = IF k <= 1 THEN first[k] ELSE rest[k - 1]
            BY <3>1, <3>2
        <3> QED BY <3>3 DEF first
    <2> HIDE DEF whole
    <2>3. \A k \in 1..((n - i) + 1) : whole[k] = Suffix(args, i)[k]
        <3> SUFFICES ASSUME NEW k \in 1..((n - i) + 1) PROVE whole[k] = Suffix(args, i)[k]
            OBVIOUS
        <3>1. Suffix(args, i)[k] = args[(i + k) - 1]
            BY <1>1
        <3>2. CASE k <= 1
            BY <1>0, <2>2, <3>1, <3>2
        <3>3. CASE k > 1
            <4>1. k - 1 \in 1..(n - i) /\ (i + k) - 1 = i + (k - 1)
                BY <1>0, <3>3
            <4>2. whole[k] = rest[k - 1]
                BY <2>2, <3>3
            <4> QED BY <2>1, <3>1, <4>1, <4>2
        <3> QED BY <3>2, <3>3
    <2>4. whole = Suffix(args, i)
        BY <1>0, <1>1, <2>2, <2>3, SeqEqual
    <2> QED BY <2>0, <2>4 DEF whole, rest
<1> QED BY <1>1, <1>2, <1>3

-----------------------------------------------------------------------------
(* What oo makes of one option. *)

Takes(b, args, i) ==
    b = "npm" /\ args[i].key \in Truths /\ NoValue(args[i]) /\ i < Len(args) /\ IsTruth(args[i + 1])

(* An argument that is accepted is an option.  It takes the next argument  *)
(* or none, and what comes after it is accepted too.                       *)
LEMMA AcceptedIs ==
    ASSUME NEW b, NEW args \in Seq(Arg), NEW i \in 1..Len(args), NEW accepts,
           AcceptsAt(b, args, accepts, i)
    PROVE  /\ ~IsBare(args[i])
           /\ \/ Takes(b, args, i) /\ accepts[i + 2] /\ i + 2 \in 1..(Len(args) + 1)
              \/ /\ args[i].key \in LanguageValues(b) /\ NoValue(args[i])
                 /\ i < Len(args) /\ accepts[i + 2] /\ i + 2 \in 1..(Len(args) + 1)
              \/ /\ ~Takes(b, args, i) /\ ~(args[i].key \in LanguageValues(b) /\ NoValue(args[i]))
                 /\ accepts[i + 1] /\ i + 1 \in 1..(Len(args) + 1)
<1> DEFINE n == Len(args)
           a == args[i]
           value == IF Takes(b, args, i) THEN args[i + 1].value ELSE a.value
           rest  == IF Takes(b, args, i) THEN i + 2 ELSE i + 1
<1>0. n \in Nat /\ i \in Nat /\ i >= 1 /\ i <= n /\ ~(i > n)
    OBVIOUS
<1>1. /\ ~IsBare(a)
      /\ IF safeLanguageProtectionArg(b, a.key, value) THEN accepts[rest]
         ELSE /\ a.key \notin Blocked(b)
              /\ IF a.key \in LanguageValues(b) /\ a.value = Unset
                 THEN rest <= n /\ IsBare(args[rest]) /\ accepts[rest + 1]
                 ELSE accepts[rest]
    BY <1>0 DEF AcceptsAt, Takes, NoValue
<1>2. safeLanguageProtectionArg(b, a.key, value) => a.key \notin LanguageValues(b)
    BY DEF safeLanguageProtectionArg, LanguageValues, npmLanguageValues, pipLanguageValues
<1>3. Takes(b, args, i) => i < n /\ a.key \notin LanguageValues(b)
    BY KeysApart DEF Takes
<1> HIDE DEF n, value
<1>4. CASE Takes(b, args, i)
    <2>1. rest = i + 2 /\ i + 2 \in 1..(n + 1)
        BY <1>0, <1>3, <1>4
    <2>2. accepts[i + 2]
        BY <1>1, <1>3, <1>4, <2>1
    <2> QED BY <1>1, <1>4, <2>1, <2>2 DEF n
<1>5. CASE ~Takes(b, args, i) /\ a.key \in LanguageValues(b) /\ NoValue(a)
    <2>1. rest = i + 1 /\ rest + 1 = i + 2
        BY <1>0, <1>5
    <2>2. i + 1 <= n /\ accepts[i + 2]
        BY <1>1, <1>2, <1>5, <2>1 DEF NoValue
    <2>3. i < n /\ i + 2 \in 1..(n + 1)
        BY <1>0, <2>2
    <2> QED BY <1>1, <1>5, <2>2, <2>3 DEF n
<1>6. CASE ~Takes(b, args, i) /\ ~(a.key \in LanguageValues(b) /\ NoValue(a))
    <2>1. accepts[i + 1]
        BY <1>1, <1>6 DEF NoValue
    <2>2. i + 1 \in 1..(n + 1)
        BY <1>0
    <2> QED BY <1>1, <1>6, <2>1, <2>2 DEF n
<1> QED BY <1>4, <1>5, <1>6

(* npmScopeArgs keeps an option that decides the scope, with its value,    *)
(* and no other.                                                           *)
LEMMA ScopedIs ==
    ASSUME NEW args \in Seq(Arg), NEW i \in 1..Len(args), NEW scope,
           scope[i] = ScopeAt(args, scope, i)
    PROVE  /\ args[i].key \in {"--global", "--no-global"} =>
                scope[i] = IF Takes("npm", args, i)
                           THEN <<args[i]>> \o <<args[i + 1]>> \o scope[i + 2]
                           ELSE <<args[i]>> \o scope[i + 1]
           /\ args[i].key = "--prefix" =>
                /\ ~NoValue(args[i]) => scope[i] = <<args[i]>> \o scope[i + 1]
                /\ NoValue(args[i]) /\ i < Len(args) =>
                       scope[i] = <<args[i]>> \o <<args[i + 1]>> \o scope[i + 2]
           /\ args[i].key \notin {"--global", "--no-global", "--prefix"} =>
                scope[i] = IF args[i].key \in npmLanguageValues /\ NoValue(args[i])
                           THEN scope[i + 2] ELSE scope[i + 1]
<1>0. ~(i > Len(args))
    OBVIOUS
<1> DEFINE a == args[i]
<1>1. CASE a.key \in {"--global", "--no-global"}
    <2>1. a.key \in Truths
        BY <1>1 DEF Truths
    <2>2. Takes("npm", args, i) <=> a.value = Unset /\ i < Len(args) /\ IsTruth(args[i + 1])
        BY <2>1 DEF Takes, NoValue
    <2>3. Takes("npm", args, i) => scope[i] = <<a>> \o <<args[i + 1]>> \o scope[i + 2]
        BY <1>0, <1>1, <2>2 DEF ScopeAt
    <2>4. ~Takes("npm", args, i) => scope[i] = <<a>> \o scope[i + 1]
        BY <1>0, <1>1, <2>2 DEF ScopeAt
    <2> QED BY <1>1, <2>3, <2>4
<1>2. CASE a.key = "--prefix"
    <2>1. ~NoValue(a) => scope[i] = <<a>> \o scope[i + 1]
        BY <1>0, <1>2 DEF ScopeAt, NoValue
    <2>2. NoValue(a) /\ i < Len(args) => scope[i] = <<a>> \o <<args[i + 1]>> \o scope[i + 2]
        BY <1>0, <1>2 DEF ScopeAt, NoValue
    <2> QED BY <1>2, <2>1, <2>2
<1>3. CASE a.key \notin {"--global", "--no-global", "--prefix"}
    BY <1>0, <1>3 DEF ScopeAt, NoValue
<1> QED BY <1>1, <1>2, <1>3

IsScope(args, scope) == scope = [i \in 1..(Len(args) + 2) |-> ScopeAt(args, scope, i)]

(* Behind the last argument there is nothing to keep. *)
LEMMA ScopeEnds ==
    ASSUME NEW args \in Seq(Arg), NEW scope, IsScope(args, scope),
           NEW i \in 1..(Len(args) + 2), i > Len(args)
    PROVE  scope[i] = <<>>
BY DEF IsScope, ScopeAt

(* What is kept from an argument on, from its definition. *)
LEMMA ScopeUnfolds ==
    ASSUME NEW args \in Seq(Arg), NEW scope, IsScope(args, scope), NEW i \in 1..Len(args)
    PROVE  scope[i] = ScopeAt(args, scope, i)
BY DEF IsScope

(* What is kept are arguments. *)
LEMMA ScopeIsSeq ==
    ASSUME NEW args \in Seq(Arg), NEW scope, IsScope(args, scope)
    PROVE  \A i \in 1..(Len(args) + 2) : scope[i] \in Seq(Arg)
<1> DEFINE n == Len(args)
           T == {k \in Nat : \A i \in 1..(n + 2) : i + k >= n + 2 => scope[i] \in Seq(Arg)}
<1>n. n \in Nat
    OBVIOUS
<1>0. 0 \in T
    <2> SUFFICES ASSUME NEW i \in 1..(n + 2), i + 0 >= n + 2 PROVE scope[i] \in Seq(Arg)
        OBVIOUS
    <2>1. i > n
        OBVIOUS
    <2>2. scope[i] = <<>>
        BY <2>1, ScopeEnds
    <2> QED BY <2>2
<1>1. ASSUME NEW k \in Nat, k \in T PROVE k + 1 \in T
    <2> SUFFICES ASSUME NEW i \in 1..(n + 2), i + (k + 1) >= n + 2 PROVE scope[i] \in Seq(Arg)
        OBVIOUS
    <2>1. CASE i > n
        <3>1. scope[i] = <<>>
            BY <2>1, ScopeEnds
        <3> QED BY <3>1
    <2>2. CASE i <= n
        <3>0. i \in 1..n /\ i + 1 \in 1..(n + 2) /\ i + 2 \in 1..(n + 2)
              /\ (i + 1) + k >= n + 2 /\ (i + 2) + k >= n + 2
            BY <2>2
        <3>1. scope[i + 1] \in Seq(Arg) /\ scope[i + 2] \in Seq(Arg)
            BY <1>1, <3>0
        <3>2. args[i] \in Arg /\ (i < n => args[i + 1] \in Arg)
            BY <3>0
        <3>3. /\ <<args[i]>> \in Seq(Arg) /\ (i < n => <<args[i + 1]>> \in Seq(Arg))
              /\ <<>> \in Seq(Arg)
            BY <3>2
        <3> DEFINE a    == args[i]
                   next == IF i < n THEN <<args[i + 1]>> ELSE <<>>
        <3>4. next \in Seq(Arg)
            BY <3>3
        <3>5. scope[i] = ScopeAt(args, scope, i)
            BY <3>0, ScopeUnfolds
        <3>6. scope[i] \in {<<a>> \o next \o scope[i + 2], <<a>> \o scope[i + 1],
                            scope[i + 2], scope[i + 1]}
            <4>1. ~(i > Len(args))
                BY <2>2
            <4>2. CASE a.key \in {"--global", "--no-global"}
                BY <3>5, <4>1, <4>2 DEF ScopeAt
            <4>3. CASE a.key \notin {"--global", "--no-global"} /\ a.key = "--prefix"
                BY <3>5, <4>1, <4>3 DEF ScopeAt
            <4>4. CASE a.key \notin {"--global", "--no-global"} /\ a.key # "--prefix"
                BY <3>5, <4>1, <4>4 DEF ScopeAt
            <4> QED BY <4>2, <4>3, <4>4
        <3>7. <<a>> \o next \in Seq(Arg)
            <4> HIDE DEF next
            <4> QED BY <3>3, <3>4, ConcatProperties
        <3>8. <<a>> \o next \o scope[i + 2] \in Seq(Arg) /\ <<a>> \o scope[i + 1] \in Seq(Arg)
            <4> HIDE DEF next
            <4> QED BY <3>1, <3>3, <3>7, ConcatProperties
        <3> HIDE DEF next, a
        <3> QED BY <3>1, <3>6, <3>8
    <2> QED BY <2>1, <2>2
<1>2. n + 2 \in T
    <2> HIDE DEF T
    <2> QED BY <1>n, <1>0, <1>1, Counting
<1> QED BY <1>2

(* One option, with its value if that is the next argument, leaves both    *)
(* readings settled and agreeing about where npm works.                    *)
Agree(b, r, s) == b = "npm" => SameScope(r, s)

(* An accepted option, with its value, is read without a target and        *)
(* without waiting for another value; and whether npmScopeArgs keeps it or *)
(* not, npm reads the same scope.                                          *)
LEMMA OptionStep ==
    ASSUME NEW b \in Backend, NEW args \in Seq(Arg), NEW scope, IsScope(args, scope),
           AllListed(b, args),
           NEW accepts, NEW i \in 1..Len(args), AcceptsAt(b, args, accepts, i),
           NEW r, Settled(r), NEW s, Settled(s), Agree(b, r, s)
    PROVE  \E m \in {i + 1, i + 2} : \E r2, s2 :
               /\ m \in 1..(Len(args) + 1) /\ accepts[m]
               /\ Settled(r2) /\ r2.words = r.words /\ Settled(s2) /\ Agree(b, r2, s2)
               /\ Continue(b, r, Suffix(args, i)) = Continue(b, r2, Suffix(args, m))
               /\ b = "npm" => Continue("npm", s, scope[i]) = Continue("npm", s2, scope[m])
<1> DEFINE n == Len(args)
           a == args[i]
           v == args[i + 1]
<1>0. a \in Arg /\ (i < n => v \in Arg) /\ i + 1 \in 1..(n + 1)
    OBVIOUS
<1>1. /\ Suffix(args, i) = <<a>> \o Suffix(args, i + 1) /\ Suffix(args, i + 1) \in Seq(Arg)
      /\ i < n => /\ Suffix(args, i + 1) = <<v>> \o Suffix(args, i + 2)
                  /\ Suffix(args, i + 2) \in Seq(Arg)
    <2>1. i \in 1..(n + 1) /\ i <= n /\ i + 1 \in 1..(n + 1)
        OBVIOUS
    <2>2. i < n => i + 2 \in 1..(n + 1) /\ i + 1 <= n /\ (i + 1) + 1 = i + 2
        OBVIOUS
    <2> HIDE DEF n
    <2> QED BY <2>1, <2>2, SuffixIs DEF n
<1>2. scope[i + 1] \in Seq(Arg) /\ scope[i + 2] \in Seq(Arg)
    <2>1. i + 1 \in 1..(n + 2) /\ i + 2 \in 1..(n + 2)
        OBVIOUS
    <2> QED BY <2>1, ScopeIsSeq
<1>3. ~IsBare(a)
    BY AcceptedIs
<1>4. scope[i] = ScopeAt(args, scope, i)
    BY ScopeUnfolds
<1>8. i < n => \A u : Continue(b, u, Suffix(args, i)) =
                          Continue(b, Read(b, Read(b, u, a), v), Suffix(args, i + 2))
    <2> SUFFICES ASSUME i < n, NEW u
                 PROVE  Continue(b, u, Suffix(args, i)) =
                            Continue(b, Read(b, Read(b, u, a), v), Suffix(args, i + 2))
        OBVIOUS
    <2> DEFINE p == Suffix(args, i + 1)
               q == Suffix(args, i + 2)
               w == Read(b, u, a)
    <2>1. Suffix(args, i) = <<a>> \o p /\ p \in Seq(Arg) /\ p = <<v>> \o q /\ q \in Seq(Arg)
        BY <1>1
    <2>2. a \in Arg /\ v \in Arg
        BY <1>0
    <2> HIDE DEF p, q, n, a, v
    <2>3. Continue(b, u, <<a>> \o p) = Continue(b, w, p)
        BY <2>1, <2>2, ContinueFirst
    <2> HIDE DEF w
    <2>4. Continue(b, w, <<v>> \o q) = Continue(b, Read(b, w, v), q)
        BY <2>1, <2>2, ContinueFirst
    <2> QED BY <2>1, <2>3, <2>4 DEF q, w
<1>9. /\ a.key \in {"--global", "--no-global"} =>
           scope[i] = IF Takes("npm", args, i)
                      THEN <<a>> \o <<v>> \o scope[i + 2] ELSE <<a>> \o scope[i + 1]
      /\ a.key = "--prefix" =>
           /\ ~NoValue(a) => scope[i] = <<a>> \o scope[i + 1]
           /\ NoValue(a) /\ i < n => scope[i] = <<a>> \o <<v>> \o scope[i + 2]
      /\ a.key \notin {"--global", "--no-global", "--prefix"} =>
           scope[i] = IF a.key \in npmLanguageValues /\ NoValue(a)
                      THEN scope[i + 2] ELSE scope[i + 1]
    BY <1>4, ScopedIs
<1>5. CASE /\ Takes(b, args, i) /\ accepts[i + 2] /\ i + 2 \in 1..(n + 1)
    <2>1. b = "npm" /\ a.key \in Truths /\ NoValue(a) /\ i < n /\ IsTruth(v)
        BY <1>5 DEF Takes
    <2> DEFINE r2 == Read("npm", Read("npm", r, a), v)
               s2 == Read("npm", Read("npm", s, a), v)
               x  == Bare(Truth([a EXCEPT !.value = v.value]))
    <2>2. Settled(r2) /\ r2.words = r.words /\ r2.set = Assign(r.set, a, x)
        BY <1>0, <2>1, ReadsTruth
    <2>3. Settled(s2) /\ s2.set = Assign(s.set, a, x)
        BY <1>0, <2>1, ReadsTruth
    <2>4. Continue("npm", r, Suffix(args, i)) = Continue("npm", r2, Suffix(args, i + 2))
        BY <1>0, <1>1, <1>8, <2>1
    <2>5. SameScope(r, s)
        BY <2>1 DEF Agree
    <2> HIDE DEF r2, x
    <2>6. CASE a.key \in {"--global", "--no-global"}
        <3>1. scope[i] = <<a>> \o <<v>> \o scope[i + 2]
            BY <1>5, <1>9, <2>1, <2>6
        <3>2. Continue("npm", s, scope[i]) = Continue("npm", s2, scope[i + 2])
            BY <1>0, <1>2, <2>1, <3>1, ContinuePair
        <3> HIDE DEF s2
        <3>3. SameScope(r2, s2)
            BY <2>2, <2>3, <2>5, BothAssigned
        <3> QED BY <1>5, <2>1, <2>2, <2>3, <2>4, <3>2, <3>3 DEF Agree
    <2>7. CASE a.key \notin {"--global", "--no-global"}
        <3>1. a.key # "--prefix" /\ a.key \notin npmLanguageValues
            BY <2>1 DEF Truths, npmLanguageValues
        <3>2. scope[i] = scope[i + 1]
            BY <1>9, <2>7, <3>1
        <3>3. v.key = Unset /\ i + 1 \in 1..n
            <4>1. v.key = Unset
                BY <2>1 DEF IsTruth, IsBare
            <4>2. i + 1 \in 1..n
                BY <2>1
            <4> QED BY <4>1, <4>2
        <3>4. scope[i + 1] = scope[i + 2]
            <4>1. scope[i + 1] = ScopeAt(args, scope, i + 1)
                BY <3>3, ScopeUnfolds
            <4>2. /\ v.key \notin {"--global", "--no-global", "--prefix"}
                  /\ v.key \notin npmLanguageValues
                <5>1. v.key \notin Truths \cup npmLanguageValues
                    BY <3>3, KeysApart
                <5> QED BY <5>1 DEF Truths, npmLanguageValues
            <4>3. scope[i + 1] = scope[(i + 1) + 1]
                BY <3>3, <4>1, <4>2, ScopedIs
            <4> QED BY <4>3
        <3>5. SameScope(r2, s)
            BY <2>2, <2>5, <2>7, <3>1, OtherAssigned
        <3>6. Continue("npm", s, scope[i]) = Continue("npm", s, scope[i + 2])
            BY <3>2, <3>4
        <3> HIDE DEF s2
        <3> QED BY <1>5, <2>1, <2>2, <2>4, <3>5, <3>6 DEF Agree
    <2> QED BY <2>6, <2>7
<1>6. CASE /\ a.key \in LanguageValues(b) /\ NoValue(a)
           /\ i < n /\ accepts[i + 2] /\ i + 2 \in 1..(n + 1)
    <2> DEFINE r2 == Read(b, Read(b, r, a), v)
               s2 == Read(b, Read(b, s, a), v)
    <2>1. Settled(r2) /\ r2.words = r.words /\ r2.set = Assign(r.set, a, v)
        BY <1>0, <1>6, ReadsValue
    <2>2. Settled(s2) /\ s2.set = Assign(s.set, a, v)
        BY <1>0, <1>6, ReadsValue
    <2>3. Continue(b, r, Suffix(args, i)) = Continue(b, r2, Suffix(args, i + 2))
        BY <1>0, <1>1, <1>6, <1>8
    <2>4. CASE b # "npm"
        <3> HIDE DEF r2
        <3> QED BY <1>6, <2>1, <2>3, <2>4 DEF Agree
    <2>5. CASE b = "npm"
        <3>0. /\ SameScope(r, s)
              /\ a.key \in npmLanguageValues /\ a.key \notin {"--global", "--no-global"}
            BY <1>6, <2>5 DEF Agree, LanguageValues, npmLanguageValues
        <3>1. CASE a.key = "--prefix"
            <4>1. scope[i] = <<a>> \o <<v>> \o scope[i + 2]
                BY <1>6, <1>9, <3>1
            <4>2. Continue("npm", s, scope[i]) = Continue("npm", s2, scope[i + 2])
                BY <1>0, <1>2, <1>6, <2>5, <4>1, ContinuePair
            <4> HIDE DEF r2, s2
            <4>3. SameScope(r2, s2)
                BY <2>1, <2>2, <3>0, BothAssigned
            <4> QED BY <1>6, <2>1, <2>2, <2>3, <4>2, <4>3 DEF Agree
        <3>2. CASE a.key # "--prefix"
            <4>1. scope[i] = scope[i + 2]
                BY <1>6, <1>9, <3>0, <3>2
            <4> HIDE DEF r2
            <4>2. SameScope(r2, s)
                BY <2>1, <3>0, <3>2, OtherAssigned
            <4>3. Continue("npm", s, scope[i]) = Continue("npm", s, scope[i + 2])
                BY <4>1
            <4> QED BY <1>6, <2>1, <2>3, <4>2, <4>3 DEF Agree
        <3> QED BY <3>1, <3>2
    <2> QED BY <2>4, <2>5
<1>7. CASE /\ ~Takes(b, args, i) /\ ~(a.key \in LanguageValues(b) /\ NoValue(a))
           /\ accepts[i + 1] /\ i + 1 \in 1..(n + 1)
    <2> DEFINE r2 == Read(b, r, a)
               s2 == Read(b, s, a)
               x  == Bare(Truth(a))
    <2>n. ~(a.key \in Takers(b) /\ NoValue(a))
        BY <1>7 DEF AllListed, NoValue
    <2>0. \A u : Settled(u) => /\ Settled(Read(b, u, a)) /\ Read(b, u, a).words = u.words
                               /\ Read(b, u, a).set = Assign(u.set, a, Bare(Truth(a)))
        BY <1>0, <1>3, <2>n, ReadsOption
    <2>1. Settled(r2) /\ r2.words = r.words /\ r2.set = Assign(r.set, a, x)
        BY <2>0
    <2>2. Settled(s2) /\ s2.set = Assign(s.set, a, x)
        BY <2>0
    <2>3. Continue(b, r, Suffix(args, i)) = Continue(b, r2, Suffix(args, i + 1))
        BY <1>0, <1>1, ContinueFirst
    <2> HIDE DEF x, r2
    <2>4. CASE b # "npm"
        BY <1>7, <2>1, <2>3, <2>4 DEF Agree
    <2>5. CASE b = "npm"
        <3>0. SameScope(r, s) /\ ~(a.key \in npmLanguageValues /\ NoValue(a))
            BY <1>7, <2>5 DEF Agree, LanguageValues
        <3>1. CASE a.key \in {"--global", "--no-global", "--prefix"}
            <4>1. scope[i] = <<a>> \o scope[i + 1]
                <5>1. a.key = "--prefix" => ~NoValue(a)
                    BY <3>0 DEF npmLanguageValues
                <5> QED BY <1>7, <1>9, <2>5, <3>1, <5>1
            <4>2. Continue("npm", s, scope[i]) = Continue("npm", s2, scope[i + 1])
                BY <1>0, <1>2, <2>5, <4>1, ContinueFirst
            <4> HIDE DEF s2
            <4>3. SameScope(r2, s2)
                BY <2>1, <2>2, <3>0, BothAssigned
            <4> QED BY <1>7, <2>1, <2>2, <2>3, <4>2, <4>3 DEF Agree
        <3>2. CASE a.key \notin {"--global", "--no-global", "--prefix"}
            <4>1. scope[i] = scope[i + 1]
                BY <1>9, <3>0, <3>2
            <4>2. SameScope(r2, s)
                BY <2>1, <3>0, <3>2, OtherAssigned
            <4>3. Continue("npm", s, scope[i]) = Continue("npm", s, scope[i + 1])
                BY <4>1
            <4> QED BY <1>7, <2>1, <2>3, <4>2, <4>3 DEF Agree
        <3> QED BY <3>1, <3>2
    <2> QED BY <2>4, <2>5
<1> QED BY <1>5, <1>6, <1>7, AcceptedIs

(* All the options, if oo knows of each whether it takes the next argument:*)
(* npmScopeArgs keeps those that say where npm works, and none is read as a*)
(* target.                                                                 *)
LEMMA OptionsKeep ==
    ASSUME NEW b \in Backend, NEW args \in Seq(Arg), NEW scope, IsScope(args, scope),
           AllListed(b, args),
           NEW accepts, \A i \in 1..Len(args) : accepts[i] => AcceptsAt(b, args, accepts, i),
           accepts[1],
           NEW r, Settled(r), NEW s, Settled(s), Agree(b, r, s)
    PROVE  /\ Settled(Continue(b, r, args)) /\ Continue(b, r, args).words = r.words
           /\ b = "npm" => SameScope(Continue("npm", r, args), Continue("npm", s, scope[1]))
<1> DEFINE n == Len(args)
           Same(p, q, r2, s2, i) ==
               /\ Settled(r2) /\ r2.words = p.words /\ Settled(s2) /\ Agree(b, r2, s2)
               /\ Continue(b, p, Suffix(args, i)) = r2
               /\ b = "npm" => Continue("npm", q, scope[i]) = s2
           Good(i) == \A p, q : Settled(p) /\ Settled(q) /\ Agree(b, p, q) =>
                          \E r2, s2 : Same(p, q, r2, s2, i)
           T == {k \in Nat : \A i \in 1..(n + 1) : i + k >= n + 1 /\ accepts[i] => Good(i)}
<1>0. n \in Nat
    OBVIOUS
<1>1. Good(n + 1)
    <2> SUFFICES ASSUME NEW p, NEW q, Settled(p), Settled(q), Agree(b, p, q)
                 PROVE  Same(p, q, p, q, n + 1)
        OBVIOUS
    <2>1. Suffix(args, n + 1) = <<>>
        <3>1. n + 1 \in 1..(n + 1)
            BY <1>0
        <3> HIDE DEF n
        <3> QED BY <3>1, SuffixIs DEF n
    <2>2. scope[n + 1] = <<>>
        BY <1>0, ScopeEnds
    <2> QED BY <2>1, <2>2, ContinueNone
<1> HIDE DEF Good
<1>2. 0 \in T
    BY <1>0, <1>1
<1>3. ASSUME NEW k \in Nat, k \in T PROVE k + 1 \in T
    <2> SUFFICES ASSUME NEW i \in 1..(n + 1), i + (k + 1) >= n + 1, accepts[i] PROVE Good(i)
        OBVIOUS
    <2>1. CASE i = n + 1
        BY <1>1, <2>1
    <2>2. CASE i # n + 1
        <3>0. i \in 1..n /\ AcceptsAt(b, args, accepts, i)
            BY <1>0, <2>2
        <3> SUFFICES ASSUME NEW p, NEW q, Settled(p), Settled(q), Agree(b, p, q)
                     PROVE  \E r2, s2 : Same(p, q, r2, s2, i)
            BY DEF Good
        <3> DEFINE Step(m, r1, s1) ==
               /\ m \in 1..(n + 1) /\ accepts[m]
               /\ Settled(r1) /\ r1.words = p.words /\ Settled(s1) /\ Agree(b, r1, s1)
               /\ Continue(b, p, Suffix(args, i)) = Continue(b, r1, Suffix(args, m))
               /\ b = "npm" => Continue("npm", q, scope[i]) = Continue("npm", s1, scope[m])
        <3>1. \E m \in {i + 1, i + 2} : \E r1, s1 : Step(m, r1, s1)
            <4> HIDE DEF T
            <4> QED BY <3>0, OptionStep
        <3>2. PICK m \in {i + 1, i + 2} : \E r1, s1 : Step(m, r1, s1)
            BY <3>1
        <3>3. PICK r1, s1 : Step(m, r1, s1)
            BY <3>2
        <3>4. m + k >= n + 1
            BY <1>0, <3>0
        <3>5. Good(m)
            BY <1>3, <3>3, <3>4
        <3>6. PICK r2, s2 : Same(r1, s1, r2, s2, m)
            BY <3>3, <3>5 DEF Good
        <3>7. Same(p, q, r2, s2, i)
            BY <3>3, <3>6
        <3> HIDE DEF Same
        <3> QED BY <3>7
    <2> QED BY <2>1, <2>2
<1>4. n \in T
    <2> HIDE DEF T, n
    <2> QED BY <1>0, <1>2, <1>3, Counting
<1>5. Good(1)
    BY <1>0, <1>4
<1>6. PICK r2, s2 : Same(r, s, r2, s2, 1)
    BY <1>5 DEF Good
<1>7. Suffix(args, 1) = args
    BY DEF Suffix
<1> QED BY <1>6, <1>7 DEF Agree

(* What a backend has read when it has read its target. *)
Targeted == [words |-> <<"target">>, set |-> [k \in {} |-> Unset], wait |-> Bare(Unset)]

(* The target is read as a target and sets nothing. *)
LEMMA TargetRead ==
    /\ \A b : Continue(b, Unread, <<Bare("target")>>) = Targeted
    /\ Settled(Targeted) /\ Settled(Unread)
    /\ \A key : Setting(Targeted, key) = Unset /\ Setting(Unread, key) = Unset
<1>1. ASSUME NEW b PROVE Continue(b, Unread, <<Bare("target")>>) = Targeted
    <2>1. Unread.wait.key = Unset /\ IsBare(Bare("target")) /\ Bare("target").value = "target"
        BY DEF Unread, Bare, Option, IsBare
    <2>2. Read(b, Unread, Bare("target")) =
              [Unread EXCEPT !.words = Append(@, "target"), !.wait = Bare(Unset)]
        <3>2. Unread.wait.key \notin Takers(b) /\ Unread.wait.key \notin Truths
            BY <2>1, KeysApart
        <3> QED BY <2>1, <3>2 DEF Read
    <2>3. Append(<<>>, "target") = <<"target">>
        OBVIOUS
    <2>4. Read(b, Unread, Bare("target")) = Targeted
        BY <2>2, <2>3 DEF Unread, Targeted
    <2> QED BY <2>4, ContinueOne
<1>2. Settled(Targeted) /\ Settled(Unread)
    BY DEF Settled, Targeted, Unread, Bare, Option
<1>3. \A key : Setting(Targeted, key) = Unset /\ Setting(Unread, key) = Unset
    BY DEF Setting, Targeted, Unread
<1> QED BY <1>1, <1>2, <1>3

(* The three parts of the arguments are read one after the other. *)
LEMMA PartsRead ==
    ASSUME NEW b, NEW args \in Seq(Arg), NEW own \in Seq(Arg)
    PROVE  Reading(b, <<Bare("target")>> \o args \o own) =
               Continue(b, Continue(b, Targeted, args), own)
<1> DEFINE t == <<Bare("target")>>
<1>1. t \in Seq(Arg)
    <2>1. Bare("target") \in Arg
        BY DEF Arg
    <2> QED BY <2>1
<1>2. Continue(b, Unread, t) = Targeted
    BY TargetRead
<1> HIDE DEF t
<1>3. t \o args \in Seq(Arg)
    BY <1>1, ConcatProperties
<1>4. Continue(b, Unread, (t \o args) \o own) = Continue(b, Continue(b, Unread, t \o args), own)
    <2> DEFINE p == t \o args
    <2>1. p \in Seq(Arg)
        BY <1>3
    <2> HIDE DEF p
    <2>2. Continue(b, Unread, p \o own) = Continue(b, Continue(b, Unread, p), own)
        BY <2>1, ContinueBoth
    <2> QED BY <2>2 DEF p
<1>5. Continue(b, Unread, t \o args) = Continue(b, Continue(b, Unread, t), args)
    BY <1>1, ContinueBoth
<1> QED BY <1>2, <1>4, <1>5 DEF Reading, t

(* The key and the value of an argument. *)
LEMMA OptionIs ==
    ASSUME NEW key, NEW value
    PROVE  /\ Option(key, value).key = key /\ Option(key, value).value = value
           /\ Flag(key).key = key /\ Flag(key).value = Unset
           /\ Bare(value).key = Unset /\ Bare(value).value = value
BY DEF Option, Flag, Bare

(* An option of oo's own is an argument with a key of its own. *)
LEMMA OwnAreArguments ==
    ASSUME NEW a \in Own
    PROVE  a \in Arg /\ a.key \in OwnKeys
<1>1. a \in Arg
    BY DEF Arg
<1>2. \A k : Flag(k).key = k
    BY OptionIs
<1>3. \A k, x : Option(k, x).key = k
    BY OptionIs
<1>4. a.key \in OwnKeys
    <2>1. a = Flag("--global") => a.key = "--global"
        BY <1>2
    <2>2. a = Flag("--no-user") => a.key = "--no-user"
        BY <1>2
    <2>3. a = Flag("--yes") => a.key = "--yes"
        BY <1>2
    <2>4. a = Flag("--offline") => a.key = "--offline"
        BY <1>2
    <2>5. a = Flag("--ignore-scripts") => a.key = "--ignore-scripts"
        BY <1>2
    <2>6. a = Option("--registry", "oo") => a.key = "--registry"
        BY <1>3
    <2>7. a = Option("--index-url", "oo") => a.key = "--index-url"
        BY <1>3
    <2>8. a = Option("--only-binary", ":all:") => a.key = "--only-binary"
        BY <1>3
    <2> QED BY <2>1, <2>2, <2>3, <2>4, <2>5, <2>6, <2>7, <2>8 DEF Own, OwnKeys
<1> QED BY <1>1, <1>4

(* No backend takes an argument behind it for its value. *)
LEMMA OwnNeedNoValue ==
    ASSUME NEW b, NEW a \in Own
    PROVE  a.key \notin Takers(b)
<1>1. a.key \in OwnKeys
    BY OwnAreArguments
<1>2. a.key \notin NpmUnlisted \cup PipUnlisted
    BY <1>1, UnlistedAssumption DEF OwnKeys, Truths
<1>3. a.key \notin npmLanguageValues \cup pipLanguageValues
    BY <1>1 DEF OwnKeys, npmLanguageValues, pipLanguageValues
<1> QED BY <1>2, <1>3 DEF Takers

(* It is read as an option whose value is behind its key, or "true". *)
LEMMA OwnRead ==
    ASSUME NEW b, NEW r, Settled(r), NEW a \in Own
    PROVE  /\ Settled(Read(b, r, a)) /\ Read(b, r, a).words = r.words
           /\ Read(b, r, a).set = Assign(r.set, a, Bare(Truth(a)))
           /\ KeyOf(a) = a.key /\ Truth(a) = IF a.value = Unset THEN "true" ELSE a.value
<1>0. a \in Arg /\ a.key \in OwnKeys
    BY OwnAreArguments
<1>1. ~IsBare(a) /\ a.key \notin Takers(b) /\ a.key # "--no-global"
    BY <1>0, OwnNeedNoValue, UnsetApart DEF IsBare, OwnKeys
<1>2. /\ Settled(Read(b, r, a)) /\ Read(b, r, a).words = r.words
      /\ Read(b, r, a).set = Assign(r.set, a, Bare(Truth(a)))
    BY <1>0, <1>1, ReadsOption
<1>3. KeyOf(a) = a.key /\ Truth(a) = IF a.value = Unset THEN "true" ELSE a.value
    BY <1>1 DEF KeyOf, Truth
<1> QED BY <1>2, <1>3

(* It is no target. *)
LEMMA OwnWords ==
    ASSUME NEW b, NEW r, Settled(r), NEW a \in Own
    PROVE  Read(b, r, a).words = r.words
BY OwnRead

(* It sets what it says, *)
LEMMA OwnOption ==
    ASSUME NEW b, NEW r, Settled(r), NEW a \in Own
    PROVE  Setting(Read(b, r, a), a.key) = IF a.value = Unset THEN "true" ELSE a.value
<1> DEFINE last == Read(b, r, a)
           v    == Bare(Truth(a))
<1>1. last.set = Assign(r.set, a, v) /\ KeyOf(a) = a.key
    BY OwnRead
<1>2. v.value = IF a.value = Unset THEN "true" ELSE a.value
    <2>1. v.value = Truth(a)
        BY OptionIs
    <2> QED BY <2>1, OwnRead
<1> HIDE DEF last, v
<1>3. Setting(last, KeyOf(a)) = v.value
    BY <1>1, SettingAssigned
<1> QED BY <1>1, <1>2, <1>3 DEF last

(* and nothing else. *)
LEMMA OwnOnly ==
    ASSUME NEW b, NEW r, Settled(r), NEW a \in Own, NEW key, key # a.key
    PROVE  Setting(Read(b, r, a), key) = Setting(r, key)
<1> DEFINE last == Read(b, r, a)
           v    == Bare(Truth(a))
<1>1. last.set = Assign(r.set, a, v)
    BY OwnRead
<1>2. KeyOf(a) = a.key
    BY OwnRead
<1> HIDE DEF last, v
<1>3. \A k : k # KeyOf(a) => Setting(last, k) = Setting(r, k)
    BY <1>1, SettingAssigned
<1> QED BY <1>2, <1>3 DEF last

(* Two of them. *)
LEMMA ContinueTwo ==
    ASSUME NEW b, NEW r, NEW a \in Arg, NEW v \in Arg
    PROVE  Continue(b, r, <<a, v>>) = Read(b, Read(b, r, a), v)
<1>1. <<a>> \o <<v>> = <<a, v>>
    BY PairIs
<1>2. <<v>> \in Seq(Arg)
    OBVIOUS
<1> DEFINE first == Read(b, r, a)
           q == <<v>>
<1>3. Continue(b, first, q) = Read(b, first, v)
    <2> HIDE DEF first
    <2> QED BY ContinueOne
<1> HIDE DEF q
<1>4. Continue(b, r, <<a>> \o q) = Continue(b, first, q)
    BY <1>2, ContinueFirst DEF q
<1> QED BY <1>1, <1>3, <1>4 DEF q

(* Two options of oo's own. *)
LEMMA OwnTail ==
    ASSUME NEW b, NEW r, Settled(r), NEW s \in Own, NEW a \in Own, a.key # s.key,
           NEW last, last = Read(b, Read(b, r, s), a)
    PROVE  /\ last.words = r.words
           /\ Setting(last, s.key) = IF s.value = Unset THEN "true" ELSE s.value
           /\ Setting(last, a.key) = IF a.value = Unset THEN "true" ELSE a.value
           /\ \A key : key # s.key /\ key # a.key => Setting(last, key) = Setting(r, key)
<1> DEFINE m == Read(b, r, s)
           e == Read(b, m, a)
<1>0. s \in Arg /\ a \in Arg
    BY OwnAreArguments
<1>1. last = e
    OBVIOUS
<1>2. Settled(m) /\ m.words = r.words
    BY OwnRead
<1>3. Setting(m, s.key) = IF s.value = Unset THEN "true" ELSE s.value
    BY OwnOption
<1>4. \A key : key # s.key => Setting(m, key) = Setting(r, key)
    BY OwnOnly
<1> HIDE DEF m
<1>5. e.words = m.words
    BY <1>2, OwnWords
<1>6. Setting(e, a.key) = IF a.value = Unset THEN "true" ELSE a.value
    BY <1>2, OwnOption
<1>7. \A key : key # a.key => Setting(e, key) = Setting(m, key)
    BY <1>2, OwnOnly
<1> HIDE DEF e
<1>8. Setting(e, s.key) = IF s.value = Unset THEN "true" ELSE s.value
    BY <1>3, <1>7
<1>9. \A key : key \notin {s.key, a.key} => Setting(e, key) = Setting(r, key)
    BY <1>4, <1>7
<1> QED BY <1>1, <1>2, <1>5, <1>6, <1>8, <1>9

(* Those that it adds for npm, behind the choice of a place, and for an    *)
(* installation with pip.                                                  *)
LEMMA NpmTail ==
    ASSUME NEW r, Settled(r), NEW a, a = Option("--registry", "oo") \/ a = Flag("--offline")
    PROVE  LET e == Continue("npm", r, <<Flag("--ignore-scripts"), a>>)
           IN  /\ e.words = r.words /\ SameScope(e, r)
               /\ Setting(e, "--ignore-scripts") = "true"
               /\ a = Option("--registry", "oo") => Setting(e, "--registry") = "oo"
<1> DEFINE s == Flag("--ignore-scripts")
           e == Continue("npm", r, <<s, a>>)
<1>1. s \in Own /\ a \in Own
    BY DEF Own
<1>2. \A k, v : /\ Option(k, v).key = k /\ Option(k, v).value = v
               /\ Flag(k).key = k /\ Flag(k).value = Unset
    BY OptionIs
<1>3. s.key = "--ignore-scripts" /\ s.value = Unset
    BY <1>2
<1>4. /\ a.key \in {"--registry", "--offline"}
      /\ a = Option("--registry", "oo") => a.key = "--registry" /\ a.value = "oo"
    <2>1. a = Flag("--offline") => a.key = "--offline"
        BY <1>2
    <2>2. a = Option("--registry", "oo") => a.key = "--registry" /\ a.value = "oo"
        BY <1>2
    <2> QED BY <2>1, <2>2
<1> HIDE DEF s
<1>5. /\ e.words = r.words /\ Setting(e, s.key) = IF s.value = Unset THEN "true" ELSE s.value
      /\ Setting(e, a.key) = IF a.value = Unset THEN "true" ELSE a.value
      /\ \A key : key \notin {s.key, a.key} => Setting(e, key) = Setting(r, key)
    <2>1. a.key # s.key
        BY <1>3, <1>4
    <2>2. e = Read("npm", Read("npm", r, s), a)
        BY <1>1, OwnAreArguments, ContinueTwo
    <2> HIDE DEF e
    <2> QED BY <1>1, <2>1, <2>2, OwnTail
<1> HIDE DEF e
<1>6. Setting(e, "--ignore-scripts") = "true" /\ SameScope(e, r)
    BY <1>3, <1>4, <1>5 DEF SameScope
<1>7. a = Option("--registry", "oo") => Setting(e, "--registry") = "oo"
    BY <1>4, <1>5, UnsetApart
<1> QED BY <1>5, <1>6, <1>7 DEF e, s

(* What pip reads of the options that oo appends to an installation. *)
LEMMA PipTail ==
    ASSUME NEW r, Settled(r)
    PROVE  LET own == <<Option("--index-url", "oo"), Option("--only-binary", ":all:")>>
               e   == Continue("pip", r, own)
           IN  /\ e.words = r.words
               /\ Setting(e, "--index-url") = "oo" /\ Setting(e, "--only-binary") = ":all:"
               /\ Setting(e, "--target") = Setting(r, "--target")
               /\ Setting(e, "--no-user") = Setting(r, "--no-user")
<1> DEFINE s == Option("--index-url", "oo")
           a == Option("--only-binary", ":all:")
           e == Continue("pip", r, <<s, a>>)
<1>1. s \in Own /\ a \in Own
    BY DEF Own
<1>2. \A k, v : Option(k, v).key = k /\ Option(k, v).value = v
    BY OptionIs
<1>3. s.key = "--index-url" /\ s.value = "oo" /\ a.key = "--only-binary" /\ a.value = ":all:"
    BY <1>2
<1> HIDE DEF s, a
<1>4. /\ e.words = r.words /\ Setting(e, s.key) = IF s.value = Unset THEN "true" ELSE s.value
      /\ Setting(e, a.key) = IF a.value = Unset THEN "true" ELSE a.value
      /\ \A key : key \notin {s.key, a.key} => Setting(e, key) = Setting(r, key)
    <2>1. a.key # s.key
        BY <1>3
    <2>2. e = Read("pip", Read("pip", r, s), a)
        BY <1>1, OwnAreArguments, ContinueTwo
    <2> HIDE DEF e
    <2> QED BY <1>1, <2>1, <2>2, OwnTail
<1> HIDE DEF e
<1>5. /\ Setting(e, "--index-url") = "oo" /\ Setting(e, "--only-binary") = ":all:"
      /\ Setting(e, "--target") = Setting(r, "--target")
      /\ Setting(e, "--no-user") = Setting(r, "--no-user")
    BY <1>3, <1>4, UnsetApart
<1> QED BY <1>4, <1>5 DEF e, s, a

(* What is read once the caller's options have been.                       *)
LEMMA OptionsRead ==
    ASSUME NEW b \in Backend, NEW args \in Seq(Arg), validateLanguageOptions(b, args),
           AllListed(b, args)
    PROVE  /\ Settled(Continue(b, Targeted, args))
           /\ Continue(b, Targeted, args).words = <<"target">>
           /\ b = "npm" => SameScope(Continue("npm", Targeted, args),
                                     Reading("npm", npmScopeArgs(TRUE, args)))
<1>1. PICK accepts : /\ accepts = [i \in 1..(Len(args) + 2) |-> AcceptsAt(b, args, accepts, i)]
                     /\ validateLanguageOptions(b, args) = accepts[1]
    BY AcceptsIsRecursive
<1>2. PICK scope : IsScope(args, scope) /\ npmScopeArgs(TRUE, args) = scope[1]
    BY ScopeIsRecursive DEF IsScope
<1>3. accepts[1] /\ \A i \in 1..Len(args) : accepts[i] => AcceptsAt(b, args, accepts, i)
    <2>1. accepts[1]
        BY <1>1
    <2>2. ASSUME NEW i \in 1..Len(args) PROVE accepts[i] = AcceptsAt(b, args, accepts, i)
        BY <1>1
    <2>3. ASSUME NEW i \in 1..Len(args), accepts[i] PROVE AcceptsAt(b, args, accepts, i)
        BY <2>2, <2>3
    <2> QED BY <2>1, <2>3
<1>4. /\ Settled(Targeted) /\ Settled(Unread) /\ Agree(b, Targeted, Unread)
      /\ Targeted.words = <<"target">>
    BY TargetRead DEF Agree, SameScope, Targeted
<1> DEFINE last == Continue(b, Targeted, args)
<1>5. /\ Settled(last) /\ last.words = Targeted.words
      /\ b = "npm" => SameScope(Continue("npm", Targeted, args), Continue("npm", Unread, scope[1]))
    BY <1>2, <1>3, <1>4, OptionsKeep
<1> HIDE DEF last
<1>6. b = "npm" => SameScope(Continue("npm", Targeted, args),
                             Reading("npm", npmScopeArgs(TRUE, args)))
    BY <1>2, <1>5 DEF Reading
<1> QED BY <1>4, <1>5, <1>6 DEF last

(* Where npm is told to work, and what else it reads. *)
NpmReads(e, command, explicit, args) ==
    /\ e.words = <<"target">> /\ Setting(e, "--ignore-scripts") = "true"
    /\ command = "install" => Setting(e, "--registry") = "oo"
    /\ NpmScope(e) = NpmScope(Reading("npm", npmScopeArgs(explicit, args)))
    /\ ~explicit => NpmScope(e) = "global"

(* npm reads its arguments as oo means them, whatever the caller's         *)
(* options: one target, oo's registry, no scripts, and the scope that was  *)
(* looked up.                                                              *)
LEMMA NpmArguments ==
    ASSUME NEW command, NEW explicit \in BOOLEAN, NEW args \in Seq(Arg),
           validateLanguageOptions("npm", args), ~explicit => args = <<>>,
           AllListed("npm", args),
           NEW e, e = Reading("npm", languageCommand("npm", command, explicit, args))
    PROVE  NpmReads(e, command, explicit, args)
<1> DEFINE a     == IF command = "install" THEN Option("--registry", "oo") ELSE Flag("--offline")
           s     == Flag("--ignore-scripts")
           g     == Flag("--global")
           place == IF explicit THEN <<>> ELSE <<g>>
           own   == place \o <<s>> \o <<a>>
           r     == Continue("npm", Targeted, args)
<1>0. /\ a \in Arg /\ s \in Arg /\ g \in Own /\ g \in Arg
      /\ a = Option("--registry", "oo") \/ a = Flag("--offline")
    <2>1. a \in Own /\ s \in Own /\ g \in Own
        BY DEF Own
    <2>2. a \in Arg /\ s \in Arg /\ g \in Arg
        <3> HIDE DEF a, s, g
        <3> QED BY <2>1, OwnAreArguments
    <2> QED BY <2>1, <2>2
<1>1. languageCommand("npm", command, explicit, args) = <<Bare("target")>> \o args \o own
    <2>1. <<a>> = IF command = "install"
                  THEN <<Option("--registry", "oo")>> ELSE <<Flag("--offline")>>
        OBVIOUS
    <2> QED BY <2>1 DEF languageCommand
<1> HIDE DEF a, s
<1>2. own = IF explicit THEN <<s, a>> ELSE <<g>> \o <<s, a>>
    <2>1. <<s>> \o <<a>> = <<s, a>>
        BY PairIs
    <2>2. CASE explicit
        <3>1. <<s>> \in Seq(Arg)
            BY <1>0
        <3>2. <<>> \o <<s>> = <<s>>
            BY <3>1
        <3> QED BY <2>1, <2>2, <3>2
    <2>3. CASE ~explicit
        <3>1. <<g>> \in Seq(Arg) /\ <<s>> \in Seq(Arg) /\ <<a>> \in Seq(Arg)
            BY <1>0
        <3> HIDE DEF g
        <3>2. (<<g>> \o <<s>>) \o <<a>> = <<g>> \o (<<s>> \o <<a>>)
            BY <3>1, ConcatAssociative
        <3> QED BY <2>1, <2>3, <3>2
    <2> QED BY <2>2, <2>3
<1>3. <<s, a>> \in Seq(Arg) /\ own \in Seq(Arg)
    <2>1. <<s, a>> \in Seq(Arg) /\ <<g>> \in Seq(Arg)
        BY <1>0
    <2>2. <<g>> \o <<s, a>> \in Seq(Arg)
        BY <2>1, ConcatProperties
    <2> HIDE DEF own
    <2> QED BY <1>2, <2>1, <2>2
<1> HIDE DEF own, g
<1>4. e = Continue("npm", r, own)
    BY <1>1, <1>3, PartsRead
<1> HIDE DEF r
<1>5. CASE explicit
    <2>1. /\ Settled(r) /\ r.words = <<"target">>
          /\ SameScope(r, Reading("npm", npmScopeArgs(TRUE, args)))
        BY OptionsRead DEF r, Backend
    <2>2. e = Continue("npm", r, <<Flag("--ignore-scripts"), a>>)
        BY <1>2, <1>4, <1>5 DEF s
    <2>3. /\ e.words = r.words /\ SameScope(e, r) /\ Setting(e, "--ignore-scripts") = "true"
          /\ a = Option("--registry", "oo") => Setting(e, "--registry") = "oo"
        BY <1>0, <2>1, <2>2, NpmTail
    <2>4. command = "install" => a = Option("--registry", "oo")
        BY DEF a
    <2>5. SameScope(e, Reading("npm", npmScopeArgs(explicit, args)))
        BY <1>5, <2>1, <2>3 DEF SameScope
    <2>6. NpmScope(e) = NpmScope(Reading("npm", npmScopeArgs(explicit, args)))
        BY <2>5 DEF NpmScope, SameScope
    <2> QED BY <1>5, <2>1, <2>3, <2>4, <2>6 DEF NpmReads
<1>6. CASE ~explicit
    <2> DEFINE m == Read("npm", Targeted, g)
               n == Read("npm", Unread, g)
    <2>1. r = Targeted
        BY <1>6, ContinueNone DEF r
    <2>2. e = Continue("npm", m, <<s, a>>)
        <3> DEFINE q == <<s, a>>
        <3>1. e = Continue("npm", Targeted, <<g>> \o q) /\ q \in Seq(Arg)
            BY <1>2, <1>3, <1>4, <1>6, <2>1
        <3> HIDE DEF q
        <3>2. Continue("npm", Targeted, <<g>> \o q) = Continue("npm", m, q)
            BY <1>0, <3>1, ContinueFirst
        <3> QED BY <3>1, <3>2 DEF q
    <2>3. Reading("npm", npmScopeArgs(explicit, args)) = n
        BY <1>6, ContinueOne DEF npmScopeArgs, Reading, g
    <2>4. g.key = "--global" /\ g.value = Unset
        BY OptionIs DEF g
    <2>5. Settled(m) /\ m.words = <<"target">>
        BY <1>0, TargetRead, OwnRead DEF Targeted
    <2>6. Setting(m, "--global") = "true" /\ Setting(m, "--prefix") = Unset
        <3>1. Setting(m, g.key) = "true"
            BY <1>0, <2>4, TargetRead, OwnOption
        <3>2. Setting(m, "--prefix") = Setting(Targeted, "--prefix")
            BY <1>0, <2>4, TargetRead, OwnOnly
        <3> HIDE DEF m
        <3> QED BY <2>4, <3>1, <3>2, TargetRead
    <2>7. Setting(n, "--global") = "true" /\ Setting(n, "--prefix") = Unset
        <3>1. Setting(n, g.key) = "true"
            BY <1>0, <2>4, TargetRead, OwnOption
        <3>2. Setting(n, "--prefix") = Setting(Unread, "--prefix")
            BY <1>0, <2>4, TargetRead, OwnOnly
        <3> HIDE DEF n
        <3> QED BY <2>4, <3>1, <3>2, TargetRead
    <2> HIDE DEF m, n
    <2>8. /\ e.words = m.words /\ SameScope(e, m) /\ Setting(e, "--ignore-scripts") = "true"
          /\ a = Option("--registry", "oo") => Setting(e, "--registry") = "oo"
        BY <1>0, <2>2, <2>5, NpmTail DEF s
    <2>9. NpmScope(e) = "global" /\ NpmScope(n) = "global"
        BY <2>6, <2>7, <2>8 DEF SameScope, NpmScope
    <2>10. command = "install" => a = Option("--registry", "oo")
        BY DEF a
    <2> QED BY <1>6, <2>3, <2>5, <2>8, <2>9, <2>10 DEF NpmReads
<1> QED BY <1>5, <1>6

(* What pip reads. *)
PipReads(e, command, explicit) ==
    /\ e.words = <<"target">>
    /\ command = "install" =>
         /\ Setting(e, "--index-url") = "oo" /\ Setting(e, "--only-binary") = ":all:"
         /\ ~explicit => Setting(e, "--target") = Unset /\ Setting(e, "--no-user") = "true"

(* pip reads its arguments as oo means them, whatever the caller's         *)
(* options: one target, oo's index, binaries only, and its own place by    *)
(* default.                                                                *)
LEMMA PipArguments ==
    ASSUME NEW command, NEW explicit \in BOOLEAN, NEW args \in Seq(Arg),
           validateLanguageOptions("pip", args), ~explicit => args = <<>>,
           AllListed("pip", args),
           NEW e, e = Reading("pip", languageCommand("pip", command, explicit, args))
    PROVE  PipReads(e, command, explicit)
<1> DEFINE s     == Option("--index-url", "oo")
           a     == Option("--only-binary", ":all:")
           u     == Flag("--no-user")
           y     == Flag("--yes")
           place == IF explicit THEN <<>> ELSE <<u>>
           own   == IF command = "install" THEN place \o <<s, a>> ELSE <<y>>
           r     == Continue("pip", Targeted, args)
<1>0. s \in Arg /\ a \in Arg /\ u \in Arg /\ y \in Arg /\ u \in Own /\ y \in Own
    <2>1. s \in Own /\ a \in Own /\ u \in Own /\ y \in Own
        BY DEF Own
    <2>2. s \in Arg /\ a \in Arg /\ u \in Arg /\ y \in Arg
        <3> HIDE DEF a, s, u, y
        <3> QED BY <2>1, OwnAreArguments
    <2> QED BY <2>1, <2>2
<1>1. languageCommand("pip", command, explicit, args) = <<Bare("target")>> \o args \o own
    BY DEF languageCommand
<1>r. Settled(r) /\ r.words = <<"target">>
    BY OptionsRead DEF Backend
<1> HIDE DEF a, s, u, y
<1>2. <<s, a>> \in Seq(Arg) /\ <<u>> \in Seq(Arg) /\ <<y>> \in Seq(Arg)
    BY <1>0
<1>3. place \o <<s, a>> = IF explicit THEN <<s, a>> ELSE <<u>> \o <<s, a>>
    <2> DEFINE q == <<s, a>>
    <2>1. <<>> \o q = q
        <3>1. q \in Seq(Arg)
            BY <1>2
        <3> HIDE DEF q
        <3> QED BY <3>1, ConcatEmptySeq
    <2> HIDE DEF q
    <2> QED BY <2>1 DEF q
<1>4. own \in Seq(Arg)
    <2>1. <<u>> \o <<s, a>> \in Seq(Arg)
        BY <1>2, ConcatProperties
    <2> HIDE DEF place
    <2> QED BY <1>2, <1>3, <2>1
<1> HIDE DEF place
<1>5. e = Continue("pip", r, own)
    <2> HIDE DEF own
    <2> QED BY <1>1, <1>4, PartsRead
<1> HIDE DEF r
<1>6. CASE command # "install"
    <2>1. e = Read("pip", r, y)
        BY <1>5, <1>6, ContinueOne
    <2>2. e.words = r.words
        BY <1>0, <1>r, <2>1, OwnWords
    <2> QED BY <1>6, <1>r, <2>2 DEF PipReads
<1>7. CASE command = "install" /\ explicit
    <2>1. e = Continue("pip", r, <<s, a>>)
        BY <1>3, <1>5, <1>7
    <2>2. /\ e.words = r.words
          /\ Setting(e, "--index-url") = "oo" /\ Setting(e, "--only-binary") = ":all:"
        BY <1>r, <2>1, PipTail DEF s, a
    <2> QED BY <1>7, <1>r, <2>2 DEF PipReads
<1>8. CASE command = "install" /\ ~explicit
    <2> DEFINE m == Read("pip", Targeted, u)
    <2>1. r = Targeted
        BY <1>8, ContinueNone DEF r
    <2>2. e = Continue("pip", m, <<s, a>>)
        <3> DEFINE q == <<s, a>>
        <3>1. e = Continue("pip", Targeted, <<u>> \o q) /\ q \in Seq(Arg)
            BY <1>2, <1>3, <1>5, <1>8, <2>1
        <3> HIDE DEF q
        <3>2. Continue("pip", Targeted, <<u>> \o q) = Continue("pip", m, q)
            BY <1>0, <3>1, ContinueFirst
        <3> QED BY <3>1, <3>2 DEF q
    <2>3. u.key = "--no-user" /\ u.value = Unset
        BY OptionIs DEF u
    <2>4. Settled(m) /\ m.words = <<"target">>
        BY <1>0, TargetRead, OwnRead DEF Targeted
    <2>5. Setting(m, "--no-user") = "true" /\ Setting(m, "--target") = Unset
        <3>1. Setting(m, u.key) = "true"
            BY <1>0, <2>3, TargetRead, OwnOption
        <3>2. Setting(m, "--target") = Setting(Targeted, "--target")
            BY <1>0, <2>3, TargetRead, OwnOnly
        <3> HIDE DEF m
        <3> QED BY <2>3, <3>1, <3>2, TargetRead
    <2> HIDE DEF m
    <2>6. /\ e.words = m.words
          /\ Setting(e, "--index-url") = "oo" /\ Setting(e, "--only-binary") = ":all:"
          /\ Setting(e, "--target") = Setting(m, "--target")
          /\ Setting(e, "--no-user") = Setting(m, "--no-user")
        BY <2>2, <2>4, PipTail DEF s, a
    <2> QED BY <2>4, <2>5, <2>6 DEF PipReads
<1> QED BY <1>6, <1>7, <1>8

(* A reading has its three parts, whatever it is waiting for, *)
Shaped(r) == r = [words |-> r.words, set |-> r.set, wait |-> r.wait]

(* and so it has when one more argument has been read; after an option of  *)
(* oo's own it waits for no value that another option would need.          *)
LEMMA ReadsShaped ==
    ASSUME NEW b, NEW r, Shaped(r), NEW a
    PROVE  /\ Shaped(Read(b, r, a))
           /\ a \in Own => Settled(Read(b, r, a))
<1> DEFINE last == Read(b, r, a)
<1>0. Bare(Unset).key = Unset
    BY OptionIs
<1>1. PICK words, set, wait :
          /\ last = [words |-> words, set |-> set, wait |-> wait]
          /\ wait = Bare(Unset) \/ wait.key \in Truths \/ (wait = a /\ a.key \in Takers(b))
    <2>1. CASE r.wait.key \in Takers(b)
        <3> DEFINE x == Assign(r.set, r.wait, a)
        <3>1. last = [r EXCEPT !.set = x, !.wait = Bare(Unset)]
            BY <2>1 DEF Read
        <3> HIDE DEF last, x
        <3>3. last = [words |-> r.words, set |-> x, wait |-> Bare(Unset)]
            BY <3>1 DEF Shaped
        <3> QED BY <3>3
    <2>2. CASE r.wait.key \notin Takers(b) /\ r.wait.key \in Truths /\ IsTruth(a)
        <3> DEFINE x == Assign(r.set, r.wait, Bare(Truth([r.wait EXCEPT !.value = a.value])))
        <3>1. last = [r EXCEPT !.set = x, !.wait = Bare(Unset)]
            BY <2>2 DEF Read
        <3> HIDE DEF last, x
        <3>3. last = [words |-> r.words, set |-> x, wait |-> Bare(Unset)]
            BY <3>1 DEF Shaped
        <3> QED BY <3>3
    <2>3. CASE r.wait.key \notin Takers(b) /\ ~(r.wait.key \in Truths /\ IsTruth(a)) /\ IsBare(a)
        <3> DEFINE x == Append(r.words, a.value)
        <3>1. last = [r EXCEPT !.words = x, !.wait = Bare(Unset)]
            BY <2>3 DEF Read
        <3> HIDE DEF last, x
        <3>3. last = [words |-> x, set |-> r.set, wait |-> Bare(Unset)]
            BY <3>1 DEF Shaped
        <3> QED BY <3>3
    <2>4. CASE /\ r.wait.key \notin Takers(b) /\ ~(r.wait.key \in Truths /\ IsTruth(a))
               /\ ~IsBare(a) /\ a.key \in Takers(b) /\ a.value = Unset
        <3>1. last = [r EXCEPT !.wait = a]
            BY <2>4 DEF Read
        <3> HIDE DEF last
        <3>3. last = [words |-> r.words, set |-> r.set, wait |-> a]
            BY <3>1 DEF Shaped
        <3> QED BY <2>4, <3>3
    <2>5. CASE /\ r.wait.key \notin Takers(b) /\ ~(r.wait.key \in Truths /\ IsTruth(a))
               /\ ~IsBare(a) /\ ~(a.key \in Takers(b) /\ a.value = Unset)
        <3> DEFINE x == Assign(r.set, a, Bare(Truth(a)))
                   y == IF b = "npm" /\ a.key \in Truths /\ a.value = Unset THEN a ELSE Bare(Unset)
        <3>1. last = [r EXCEPT !.set = x, !.wait = y]
            BY <2>5 DEF Read
        <3>2. y = Bare(Unset) \/ y.key \in Truths
            OBVIOUS
        <3> HIDE DEF last, x, y
        <3>3. last = [words |-> r.words, set |-> x, wait |-> y]
            BY <3>1 DEF Shaped
        <3> QED BY <3>2, <3>3
    <2> QED BY <2>1, <2>2, <2>3, <2>4, <2>5
<1>2. a \in Own => a.key \notin Takers(b)
    BY OwnNeedNoValue
<1> HIDE DEF last
<1>3. Shaped(last)
    BY <1>1 DEF Shaped
<1>4. a \in Own => Settled(last)
    BY <1>0, <1>1, <1>2 DEF Settled
<1> QED BY <1>3, <1>4 DEF last

(* A reading of many arguments has them. *)
LEMMA ContinueShaped ==
    ASSUME NEW b, NEW r, Shaped(r), NEW argv \in Seq(Arg)
    PROVE  Shaped(Continue(b, r, argv))
<1>1. PICK read : Reads(b, r, argv, read) /\ Continue(b, r, argv) = read[Len(argv)]
    BY ReadingIsRecursive
<1> DEFINE n == Len(argv)
           T == {k \in Nat : k <= n => Shaped(read[k])}
<1>2. n \in Nat
    OBVIOUS
<1>3. 0 \in T
    BY <1>1 DEF Reads
<1>4. ASSUME NEW k \in Nat, k \in T PROVE k + 1 \in T
    <2> SUFFICES ASSUME k + 1 <= n PROVE Shaped(read[k + 1])
        OBVIOUS
    <2>1. k + 1 \in 1..n /\ k <= n /\ (k + 1) - 1 = k
        BY <1>2
    <2>2. read[k + 1] = Read(b, read[k], argv[k + 1])
        BY <1>1, <2>1 DEF Reads
    <2>3. Shaped(read[k])
        BY <1>4, <2>1
    <2> QED BY <2>2, <2>3, ReadsShaped
<1>5. n \in T
    <2> HIDE DEF T, n
    <2> QED BY <1>2, <1>3, <1>4, Counting
<1> QED BY <1>1, <1>2, <1>5

(* Of the two options that oo appends to an installation the last one is   *)
(* read, though the first may be taken for the value of one of the         *)
(* caller's.                                                               *)
LEMMA LastHolds ==
    ASSUME NEW b \in Backend, NEW args \in Seq(Arg), NEW e,
           e = Reading(b, languageCommand(b, "install", TRUE, args))
    PROVE  IF b = "npm" THEN Setting(e, "--registry") = "oo"
                        ELSE Setting(e, "--only-binary") = ":all:"
<1> DEFINE s   == IF b = "npm" THEN Flag("--ignore-scripts") ELSE Option("--index-url", "oo")
           a   == IF b = "npm" THEN Option("--registry", "oo")
                               ELSE Option("--only-binary", ":all:")
           r   == Continue(b, Targeted, args)
           m   == Read(b, r, s)
<1>1. s \in Own /\ a \in Own
    BY DEF Own
<1>2. a.key = IF b = "npm" THEN "--registry" ELSE "--only-binary"
    BY OptionIs
<1>3. a.value = IF b = "npm" THEN "oo" ELSE ":all:"
    BY OptionIs
<1>4. languageCommand(b, "install", TRUE, args) = <<Bare("target")>> \o args \o <<s, a>>
    <2>1. CASE b = "npm"
        <3>1. <<>> \o <<Flag("--ignore-scripts")>> \o <<Option("--registry", "oo")>>
              = <<Flag("--ignore-scripts"), Option("--registry", "oo")>>
            <4> DEFINE x == Flag("--ignore-scripts")
                       y == Option("--registry", "oo")
            <4>1. x \in Own /\ y \in Own
                BY DEF Own
            <4> HIDE DEF x, y
            <4>2. <<>> \o <<x>> = <<x>>
                BY <4>1
            <4>3. <<x>> \o <<y>> = <<x, y>>
                BY PairIs
            <4> QED BY <4>2, <4>3 DEF x, y
        <3> QED BY <2>1, <3>1 DEF languageCommand
    <2>2. CASE b # "npm"
        <3>1. b = "pip"
            BY <2>2 DEF Backend
        <3>2. <<>> \o <<Option("--index-url", "oo"), Option("--only-binary", ":all:")>>
              = <<Option("--index-url", "oo"), Option("--only-binary", ":all:")>>
            <4> DEFINE q == <<Option("--index-url", "oo"), Option("--only-binary", ":all:")>>
            <4>1. q \in Seq(Own)
                BY DEF Own
            <4> HIDE DEF q
            <4>2. <<>> \o q = q
                BY <4>1, ConcatEmptySeq
            <4> QED BY <4>2 DEF q
        <3> QED BY <3>1, <3>2 DEF languageCommand
    <2> QED BY <2>1, <2>2
<1> HIDE DEF s, a
<1>5. s \in Arg /\ a \in Arg /\ <<s, a>> \in Seq(Arg)
    BY <1>1, OwnAreArguments
<1>6. e = Continue(b, r, <<s, a>>)
    <2> DEFINE own == <<s, a>>
    <2> HIDE DEF own
    <2>1. own \in Seq(Arg) /\ e = Reading(b, <<Bare("target")>> \o args \o own)
        BY <1>4, <1>5 DEF own
    <2>2. e = Continue(b, r, own)
        BY <2>1, PartsRead
    <2> QED BY <2>2 DEF own
<1>7. Shaped(r)
    <2>1. Shaped(Targeted)
        BY DEF Shaped, Targeted
    <2> QED BY <2>1, ContinueShaped
<1> HIDE DEF r
<1>8. e = Read(b, m, a)
    BY <1>5, <1>6, ContinueTwo
<1>9. Settled(m)
    BY <1>1, <1>7, ReadsShaped
<1> HIDE DEF m
<1>10. Setting(e, a.key) = IF a.value = Unset THEN "true" ELSE a.value
    BY <1>1, <1>8, <1>9, OwnOption
<1>11. a.value # Unset
    BY <1>3, UnsetApart
<1> QED BY <1>2, <1>3, <1>10, <1>11

-----------------------------------------------------------------------------
(* What is forwarded. *)

(* The caller's options are arguments, and there are none without "--".    *)
LEMMA CallersArguments ==
    ASSUME LanguageTypeOK
    PROVE  /\ op.args \in Seq(Arg) /\ op.explicit \in BOOLEAN
           /\ ~op.explicit => op.args = <<>>
<1>1. op.args \in Seq(Options) /\ op.explicit \in BOOLEAN /\ (~op.explicit => op.args = <<>>)
    BY DEF LanguageTypeOK, OperationTypeOK
<1>2. Options \subseteq Arg
    BY DEF Arg
<1> QED BY <1>1, <1>2

(* No arguments have been read at first. *)
LEMMA ForwardInit == LanguageInit => ForwardOK
BY DEF LanguageInit, ForwardOK, Called

(* A step keeps what is known of the arguments of the call: they have been *)
(* accepted, and are read as they are passed on.                           *)
LEMMA ForwardStep ==
    LanguageTypeOK /\ ForwardOK /\ [LanguageNext]_languageVars => ForwardOK'
<1> SUFFICES ASSUME LanguageTypeOK, ForwardOK, [LanguageNext]_languageVars PROVE ForwardOK'
    OBVIOUS
<1>0. IsCall(call)
    BY DEF LanguageTypeOK
<1> DEFINE valid   == validateLanguageOptions(b0, op.args)
           scope   == NpmScope(Reading("npm", npmScopeArgs(op.explicit, op.args)))
           reading == Reading(b0, Argv)
<1>s. ASSUME UNCHANGED <<op, todo>>
      PROVE  b0' = b0 /\ (valid' <=> valid) /\ scope' = scope /\ reading' = reading
    BY <1>s DEF b0, Argv, Command
<1>i. /\ pc \in Called => valid
      /\ pc \in {"registry", "spawn", "child"} /\ op.command = "install" /\ b0 = "npm" =>
             call.scope = scope
      /\ pc = "child" => call.reading = reading
    BY DEF ForwardOK
<1>e. /\ pc' \in Called => valid'
      /\ pc' \in {"registry", "spawn", "child"} /\ op'.command = "install" /\ b0' = "npm" =>
             call'.scope = scope'
      /\ pc' = "child" => call'.reading = reading'
      => ForwardOK'
    BY DEF ForwardOK
<1> HIDE DEF valid, scope, reading
<1>1. CASE Recheck
    <2>1. /\ UNCHANGED <<op, todo>> /\ ToolCheck(b0).result = "ok"
          /\ pc' = IF op.command = "install" THEN "upstream" ELSE "spawn"
        BY <1>1 DEF Recheck, quiet
    <2>2. valid
        BY <2>1, CheckIs DEF valid
    <2> QED BY <1>e, <1>s, <2>1, <2>2
<1>2. CASE Upstream
    <2>1. UNCHANGED <<op, todo>> /\ pc = "upstream" /\ pc' = "registry"
        BY <1>2 DEF Upstream, quiet
    <2>2. b0 = "npm" => call'.scope = scope
        BY <1>0, <1>2, UpstreamEffect DEF scope
    <2> QED BY <1>e, <1>i, <1>s, <2>1, <2>2 DEF Called
<1>3. CASE StartRegistry
    <2>1. UNCHANGED <<op, todo, call>> /\ pc = "registry" /\ pc' = "spawn"
        BY <1>3 DEF StartRegistry, quiet
    <2> QED BY <1>e, <1>i, <1>s, <2>1 DEF Called
<1>4. CASE Spawn
    <2>1. UNCHANGED <<op, todo>> /\ pc = "spawn" /\ pc' = "child" /\ call'.scope = call.scope
        BY <1>0, <1>4, SpawnEffect DEF Spawn
    <2>2. call'.reading = reading
        BY <1>0, <1>4, SpawnEffect DEF reading
    <2> QED BY <1>e, <1>i, <1>s, <2>1, <2>2 DEF Called
<1>5. CASE Forks \/ HelperEnds \/ Edit \/ Interrupt \/ UNCHANGED languageVars
    <2>1. UNCHANGED <<op, todo, call, pc>>
        BY <1>5 DEF Forks, HelperEnds, Edit, Interrupt, languageVars, quiet, idle
    <2> QED BY <1>e, <1>i, <1>s, <2>1
<1>6. CASE \/ Resolve \/ Refuse \/ Check \/ CheckMissing \/ CheckRefuses \/ Checked \/ DryRun
           \/ Confirm \/ CommitNative \/ NativeFails \/ RecheckRefuses \/ UpstreamFails
           \/ RegistryFails \/ SpawnFails \/ Succeeds \/ ChildFails \/ Kill \/ Close
    <2>1. pc' \notin Called
        BY <1>6 DEF Resolve, Refuse, Check, CheckMissing, CheckRefuses, Checked, DryRun, Confirm,
                    CommitNative, NativeFails, RecheckRefuses, UpstreamFails, RegistryFails,
                    SpawnFails, Succeeds, ChildFails, Exits, Kill, Close, Fail, Called
    <2> QED BY <1>e, <2>1 DEF Called
<1> QED BY <1>1, <1>2, <1>3, <1>4, <1>5, <1>6 DEF LanguageNext

-----------------------------------------------------------------------------
(* Where the backends work. *)

(* What is selected on PATH is neither a virtualenv nor left for a base. *)
LEMMA SelectedIs ==
    ASSUME NEW b
    PROVE  /\ Found(b) # "elsewhere" /\ Selected(b) # "elsewhere"
           /\ Selected(b) = "path" =>
                /\ Kind(b) = system[ToolOf(b)]
                /\ system[ToolOf(b)] \notin {"venv", "lone"}
BY DEF Found, Kind, Selected

(* A check runs no code of a backend but under what it has selected. *)
LEMMA ChecksSelected ==
    ASSUME NEW b \in Backend, ~op.explicit
    PROVE  /\ ToolCheck(b).ran \subseteq {Selected(b)}
           /\ ToolCheck(b).asked \subseteq {Found(b), Selected(b)}
<1>1. \A result, ran : /\ Verdict(b, result, ran).ran \subseteq ran
                       /\ Verdict(b, result, ran).asked \subseteq {Found(b), Selected(b)}
    BY DEF Verdict
<1>2. b = "pip" => defaultPip(b)
    BY DEF defaultPip
<1>3. checkDefaultPipEnvironment /\ checkDefaultPipScope => ~PipRedirected
    BY DEF checkDefaultPipEnvironment, checkDefaultPipScope, PipRedirected, Redirects
<1>4. PICK result, ran : ToolCheck(b) = Verdict(b, result, ran) /\ ran \subseteq {Selected(b)}
    <2>1. CASE RefusedUnseen(b)
        BY <2>1 DEF ToolCheck
    <2>2. CASE ~RefusedUnseen(b) /\ Kind(b) \notin {"good", "venv"}
        BY <2>2 DEF ToolCheck
    <2>3. CASE ~RefusedUnseen(b) /\ Kind(b) \in {"good", "venv"}
                /\ defaultPip(b) /\ ~checkDefaultPipScope
        BY <2>3 DEF ToolCheck
    <2>4. CASE ~RefusedUnseen(b) /\ Kind(b) \in {"good", "venv"}
                /\ (defaultPip(b) => checkDefaultPipScope)
        <3>1. ByItself(b) = Selected(b)
            BY <1>2, <1>3, <2>4 DEF ByItself, RefusedUnseen
        <3>2. ToolCheck(b) = Verdict(b, "ok", {ByItself(b)})
            BY <2>4 DEF ToolCheck
        <3> QED BY <3>1, <3>2
    <2> QED BY <2>1, <2>2, <2>3, <2>4
<1> QED BY <1>1, <1>4

(* Without "--", no interpreter runs but what was meant, *)
LEMMA NothingElseRuns ==
    ASSUME NEW b \in Backend, ~op.explicit
    PROVE  \A s \in Ran(b) : Meant(s)
<1> SUFFICES ASSUME NEW s \in Ran(b) PROVE Meant(s)
    OBVIOUS
<1>1. CASE \E p \in ToolCheck(b).asked : s = Run(b, p, TRUE)
    <2>1. PICK p \in {Found(b), Selected(b)} : s = Run(b, p, TRUE)
        BY <1>1, ChecksSelected
    <2>2. s.program = p /\ s.asked = TRUE
        BY <2>1 DEF Run
    <2>3. p # "elsewhere"
        BY SelectedIs
    <2> QED BY <2>2, <2>3 DEF Meant
<1>2. CASE \E p \in ToolCheck(b).ran : s = Run(b, p, FALSE)
    <2>1. s = Run(b, Selected(b), FALSE)
        BY <1>2, ChecksSelected
    <2>2. s.program = Selected(b) /\ s.selected = Selected(b) /\ s.backend = b
        BY <2>1 DEF Run
    <2> QED BY <2>2, SelectedIs DEF Meant
<1> QED BY <1>1, <1>2 DEF Ran

(* and the configuration that was checked keeps pip where it is. *)
LEMMA CheckedIsHome ==
    ASSUME ToolCheck("pip").result = "ok", ~op.explicit
    PROVE  HomeIn(conf)
<1>1. checkDefaultPipEnvironment /\ checkDefaultPipScope
    BY CheckIs DEF defaultPip
<1>2. \A section, name : ValueIn(conf, section, name) = Value(section, name)
    BY DEF Value, ValueIn
<1>3. \A name : EffectiveIn(conf, name) = Effective(name)
    BY <1>2 DEF Effective, EffectiveIn
<1> QED BY <1>1, <1>2, <1>3 DEF checkDefaultPipEnvironment, checkDefaultPipScope, HomeIn

(* Without the caller's options and with a configuration that has been     *)
(* checked, a backend has one place to install to: its own.                *)
LEMMA HomeHasOnePlace ==
    ASSUME LanguageTypeOK, ~op.explicit, b0 \in Backend, b0 = "pip" => HomeIn(conf),
           validateLanguageOptions(b0, op.args)
    PROVE  Places(Reading(b0, Argv)) = {"global"}
<1> DEFINE e == Reading(b0, Argv)
<1>0. /\ op.args \in Seq(Arg) /\ op.args = <<>> /\ op.explicit = FALSE
      /\ Command \in {"install", "uninstall"}
    BY CallersArguments DEF Command
<1>a. AllListed(b0, op.args)
    BY <1>0 DEF AllListed
<1>1. CASE b0 = "npm"
    <2>1. e = Reading("npm", languageCommand("npm", Command, op.explicit, op.args))
        BY <1>1 DEF Argv
    <2> HIDE DEF e
    <2>2. NpmReads(e, Command, op.explicit, op.args)
        BY <1>0, <1>a, <1>1, <2>1, NpmArguments
    <2>3. Places(e) = {"global"}
        BY <1>0, <1>1, <2>2 DEF Places, NpmReads
    <2> QED BY <2>3 DEF e
<1>2. CASE b0 = "pip"
    <2>1. e = Reading("pip", languageCommand("pip", Command, op.explicit, op.args))
        BY <1>2 DEF Argv
    <2> HIDE DEF e
    <2>2. PipReads(e, Command, op.explicit)
        BY <1>0, <1>a, <1>2, <2>1, PipArguments
    <2>3. \A section, name : ValueIn(conf, section, name) = Value(section, name)
        BY DEF Value, ValueIn
    <2>4. \A name : EffectiveIn(conf, name) = Effective(name)
        BY <2>3 DEF Effective, EffectiveIn
    <2>5. ~PipRedirected /\ Effective("target") = Unset
        BY <1>2, <2>3, <2>4 DEF HomeIn, Redirects, PipRedirected
    <2>6. PipPlaces(Command, e, TRUE) = {"global"}
        BY <1>0, <2>2, <2>5 DEF PipPlaces, PipReads
    <2>7. Places(e) = {"global"}
        BY <1>0, <1>2, <2>6 DEF Places
    <2> QED BY <2>7 DEF e
<1> QED BY <1>1, <1>2 DEF Backend

(* No place has been chosen at first. *)
LEMMA HomeInit == LanguageInit => HomeOK
BY DEF LanguageInit, HomeOK, Called

(* A step of an operation without options keeps the place it works in. *)
LEMMA HomeStep ==
    LanguageTypeOK /\ ForwardOK /\ HomeOK /\ [LanguageNext]_languageVars => HomeOK'
<1> SUFFICES ASSUME LanguageTypeOK, ForwardOK, HomeOK, [LanguageNext]_languageVars, ~op'.explicit
             PROVE  HomeOK'
    BY DEF HomeOK
<1>o. op' = op /\ system' = system /\ ~op.explicit
    BY DEF LanguageNext, Resolve, Refuse, Check, CheckMissing, CheckRefuses, Checked, DryRun,
           Confirm, CommitNative, NativeFails, Recheck, RecheckRefuses, Upstream, UpstreamFails,
           StartRegistry, RegistryFails, Spawn, SpawnFails, Forks, Succeeds, ChildFails, Exits,
           HelperEnds, Kill, Close, Edit, Interrupt, Fail, quiet, idle, languageVars
<1>0. /\ IsCall(call) /\ todo \in Queue
      /\ pc \in Running => todo # <<>>
    BY DEF LanguageTypeOK
<1> DEFINE Home == pc \in Called \ {"child"} /\ b0 = "pip" => HomeIn(call.conf)
           At   == pc = "child" /\ call.saw = call.conf => call.place = "global"
           Own1 == \A s \in started : Meant(s)
           Good == pc \in Called => call.program # "path" \/ system[ToolOf(b0)] = "good"
<1>i. Home /\ At /\ Own1 /\ Good
    BY <1>o DEF HomeOK
<1>e. Home' /\ At' /\ Own1' /\ Good' => HomeOK'
    BY DEF HomeOK
<1> HIDE DEF Home, At, Own1, Good
<1>c. Own1'
    <2>0. \A s : Meant(s) => Meant(s)'
        BY <1>o DEF Meant
    <2>1. CASE UNCHANGED started
        BY <1>i, <2>0, <2>1 DEF Own1
    <2>2. CASE /\ started' = started \cup Ran(b0) /\ todo # <<>>
        <3>1. b0 \in Backend
            BY <1>0, <2>2, HeadQueued
        <3>2. \A s \in Ran(b0) : Meant(s)
            BY <1>o, <3>1, NothingElseRuns
        <3> QED BY <1>i, <2>0, <2>2, <3>2 DEF Own1
    <2>3. UNCHANGED started \/ (started' = started \cup Ran(b0) /\ todo # <<>>)
        BY <1>0 DEF Running, LanguageNext, Resolve, Refuse, Check, CheckMissing, CheckRefuses, Checked,
               DryRun, Confirm, CommitNative, NativeFails, Recheck, RecheckRefuses, Upstream, UpstreamFails,
           StartRegistry, RegistryFails, Spawn, SpawnFails, Forks, Succeeds, ChildFails, Exits,
           HelperEnds, Kill, Close, Edit, Interrupt, Fail, quiet, idle, languageVars
    <2> QED BY <2>1, <2>2, <2>3
<1>1. CASE Recheck
    <2>1. /\ todo' = todo /\ ToolCheck(b0).result = "ok" /\ pc' \in {"upstream", "spawn"}
        BY <1>1 DEF Recheck, quiet
    <2>2. call'.conf = conf /\ call'.program = Selected(b0)
        BY <1>1, RecheckEffect
    <2>g. Good'
        <3>1. Selected(b0) = "path" => system[ToolOf(b0)] = "good"
            BY <2>1, CheckIs, SelectedIs
        <3> QED BY <1>o, <2>1, <2>2, <3>1, StillQueued DEF Good
    <2>3. b0 = "pip" => HomeIn(conf)
        BY <1>o, <2>1, CheckedIsHome
    <2>4. Home'
        BY <2>1, <2>2, <2>3, StillQueued DEF Home
    <2>5. At'
        BY <2>1 DEF At
    <2> QED BY <1>c, <1>e, <2>4, <2>5, <2>g
<1>2. CASE Upstream \/ StartRegistry
    <2>1. todo' = todo /\ pc \in Called \ {"child"} /\ pc' \in {"registry", "spawn"}
        BY <1>2 DEF Upstream, StartRegistry, quiet, Called
    <2>2. call'.conf = call.conf /\ call'.program = call.program
        BY <1>0, <1>2, UpstreamEffect DEF StartRegistry
    <2>g. Good'
        BY <1>i, <1>o, <2>1, <2>2, StillQueued DEF Good
    <2>3. Home'
        BY <1>i, <2>1, <2>2, StillQueued DEF Home
    <2>4. At'
        BY <2>1 DEF At
    <2> QED BY <1>c, <1>e, <2>3, <2>4, <2>g
<1>3. CASE Spawn
    <2>1. /\ pc = "spawn" /\ pc' = "child" /\ call'.conf = call.conf /\ call'.saw = conf
          /\ call'.place \in Places(Reading(b0, Argv)) /\ todo' = todo
          /\ call'.program = call.program
        BY <1>0, <1>3, SpawnEffect DEF Spawn
    <2>g. Good'
        BY <1>i, <1>o, <2>1, StillQueued DEF Good, Called
    <2>2. Home'
        BY <2>1 DEF Home
    <2>3. b0 \in Backend
        BY <1>0, <2>1, HeadQueued DEF Running
    <2>4. validateLanguageOptions(b0, op.args)
        BY <2>1 DEF ForwardOK, Called
    <2>5. b0 = "pip" => HomeIn(call.conf)
        BY <1>i, <2>1 DEF Home, Called
    <2>6. At'
        <3> SUFFICES ASSUME call'.saw = call'.conf PROVE call'.place = "global"
            BY DEF At
        <3>1. b0 = "pip" => HomeIn(conf)
            BY <2>1, <2>5
        <3>2. Places(Reading(b0, Argv)) = {"global"}
            BY <1>o, <2>3, <2>4, <3>1, HomeHasOnePlace
        <3> QED BY <2>1, <3>2
    <2> QED BY <1>c, <1>e, <2>2, <2>6, <2>g
<1>4. CASE Forks \/ HelperEnds \/ Edit \/ Interrupt \/ UNCHANGED languageVars
    <2>1. UNCHANGED <<todo, call, pc>>
        BY <1>4 DEF Forks, HelperEnds, Edit, Interrupt, languageVars, quiet, idle
    <2>2. Home' /\ At' /\ Good'
        BY <1>i, <1>o, <2>1, StillQueued DEF Home, At, Good
    <2> QED BY <1>c, <1>e, <2>2
<1>5. CASE \/ Resolve \/ Refuse \/ Check \/ CheckMissing \/ CheckRefuses \/ Checked \/ DryRun
           \/ Confirm \/ CommitNative \/ NativeFails \/ RecheckRefuses \/ UpstreamFails
           \/ RegistryFails \/ SpawnFails \/ Succeeds \/ ChildFails \/ Kill \/ Close
    <2>1. pc' \notin Called
        BY <1>5 DEF Resolve, Refuse, Check, CheckMissing, CheckRefuses, Checked, DryRun, Confirm,
                    CommitNative, NativeFails, RecheckRefuses, UpstreamFails, RegistryFails,
                    SpawnFails, Succeeds, ChildFails, Exits, Kill, Close, Fail, Called
    <2>2. Home' /\ At' /\ Good'
        BY <2>1 DEF Home, At, Good, Called
    <2> QED BY <1>c, <1>e, <2>2
<1> QED BY <1>1, <1>2, <1>3, <1>4, <1>5 DEF LanguageNext

-----------------------------------------------------------------------------

(* The invariant of an operation, from its six parts: each step keeps each *)
(* part with the help of those before it.                                  *)
LEMMA OperationIsInvariant == LanguageSpec => []OperationInv
<1>1. LanguageInit => OperationInv
    BY TypeInit, ProcessesInit, ProgressInit, ToolsInit, HomeInit, ForwardInit DEF OperationInv
<1>2. OperationInv /\ [LanguageNext]_languageVars => OperationInv'
    BY TypeStep, ProcessesStep, ProgressStep, ToolsStep, HomeStep, ForwardStep DEF OperationInv
<1> QED BY <1>1, <1>2, PTL DEF LanguageSpec

(* Without "--", no interpreter runs but the selected one, and unless      *)
(* pip's configuration has been edited since the check, a backend works in *)
(* its own global environment (checkDefaultPipEnvironment, npmScopeArgs).  *)
THEOREM DefaultIsHome == LanguageSpec => []DefaultStaysHome
<1>1. OperationInv => DefaultStaysHome
    BY DEF OperationInv, HomeOK, DefaultStaysHome, Meant, Called
<1> QED BY <1>1, OperationIsInvariant, PTL

(* Whatever is forwarded, the last option of oo's own holds; and if oo     *)
(* knows of every forwarded option whether it takes the next argument,     *)
(* every list that validateLanguageOptions accepts, of any length, leaves  *)
(* the others in force too: a child has one target, its registry or index, *)
(* no scripts or binaries only, and npm the scope that the upstream        *)
(* registry was looked up for (languageCommand).                           *)
THEOREM ArgumentsAreRead == LanguageSpec => []ArgumentsHold
<1>1. OperationInv => ArgumentsHold
    <2> SUFFICES ASSUME OperationInv, pc = "child"
                 PROVE  ArgumentsHold
        BY DEF ArgumentsHold
    <2>1. b0 \in Backend /\ (op.command = "install" => Command = "install")
        BY HeadQueued DEF OperationInv, LanguageTypeOK, Running, Command
    <2>2. /\ op.args \in Seq(Arg) /\ op.explicit \in BOOLEAN
          /\ ~op.explicit => op.args = <<>>
        BY CallersArguments DEF OperationInv
    <2>3. /\ validateLanguageOptions(b0, op.args)
          /\ call.reading = Reading(b0, languageCommand(b0, Command, op.explicit, op.args))
          /\ op.command = "install" /\ b0 = "npm" =>
                 call.scope = NpmScope(Reading("npm", npmScopeArgs(op.explicit, op.args)))
        BY DEF OperationInv, ForwardOK, Called, Argv
    <2> DEFINE e == call.reading
    <2> HIDE DEF e
    <2>4. CASE b0 = "npm"
        <3>1. e = Reading("npm", languageCommand("npm", Command, op.explicit, op.args))
            BY <2>3, <2>4 DEF e
        <3>2. validateLanguageOptions("npm", op.args)
            BY <2>3, <2>4
        <3>3. AllListed("npm", op.args) => NpmReads(e, Command, op.explicit, op.args)
            BY <2>2, <3>1, <3>2, NpmArguments
        <3>4. op.command = "install" => Setting(e, "--registry") = "oo"
            <4>1. CASE op.explicit
                BY <2>1, <2>2, <3>1, <4>1, LastHolds DEF Backend
            <4>2. CASE ~op.explicit
                BY <2>1, <2>2, <3>3, <4>2 DEF AllListed, NpmReads
            <4> QED BY <2>2, <4>1, <4>2
        <3> QED BY <2>1, <2>3, <2>4, <3>3, <3>4 DEF e, NpmReads, ArgumentsHold
    <2>5. CASE b0 = "pip"
        <3>1. e = Reading("pip", languageCommand("pip", Command, op.explicit, op.args))
            BY <2>3, <2>5 DEF e
        <3>2. validateLanguageOptions("pip", op.args)
            BY <2>3, <2>5
        <3>3. AllListed("pip", op.args) => PipReads(e, Command, op.explicit)
            BY <2>2, <3>1, <3>2, PipArguments
        <3>4. op.command = "install" => Setting(e, "--only-binary") = ":all:"
            <4>1. CASE op.explicit
                BY <2>1, <2>2, <3>1, <4>1, LastHolds DEF Backend
            <4>2. CASE ~op.explicit
                BY <2>1, <2>2, <3>3, <4>2 DEF AllListed, PipReads
            <4> QED BY <2>2, <4>1, <4>2
        <3> QED BY <2>1, <2>5, <3>3, <3>4 DEF e, PipReads, ArgumentsHold
    <2> QED BY <2>1, <2>4, <2>5 DEF Backend
<1> QED BY <1>1, OperationIsInvariant, PTL

(* Nothing is installed before the tools it needs are there; what a check  *)
(* has let pass stays so while nothing is edited; and a tool is removed    *)
(* after what was to be removed with it (InstallMany,                      *)
(* languageToolForOperation).                                              *)
THEOREM ToolsAreThere == LanguageSpec => []BackendsFindTheirTools
<1>1. OperationInv => BackendsFindTheirTools
    <2> SUFFICES ASSUME OperationInv PROVE BackendsFindTheirTools
        OBVIOUS
    <2>1. pc \in Running => b0 \in op.groups
        BY HeadQueued DEF OperationInv, LanguageTypeOK
    <2>2. op.command = "install" /\ pc \in {"tool", "upstream", "registry", "spawn", "child"} =>
              /\ Native \subseteq installed
              /\ edits = 0 /\ missing = {} => ToolCheck(b0).result = "ok"
        BY <2>1 DEF OperationInv, ToolsOK, Running
    <2>3. op.command = "remove" /\ ~(op.native \subseteq installed) =>
              \A b \in op.groups : \E c \in changed : c[1] = b
        BY DEF OperationInv, ProgressOK, Finished
    <2>4. op.command = "install" =>
              \A c \in changed : ToolOf(c[1]) \in Native /\ op.chosen = "unset" => c[2] = "oo"
        BY DEF OperationInv, ToolsOK, FromOwn
    <2> QED BY <2>2, <2>3, <2>4 DEF BackendsFindTheirTools
<1> QED BY <1>1, OperationIsInvariant, PTL

(* A backend that installs has its registry for as long as it runs; it leaves *)
(* a helper behind only if it has ended by itself; and an operation that has *)
(* ended leaves neither a backend nor a registry (start, Kill, Close).     *)
THEOREM RegistryIsKept == LanguageSpec => []RegistryOutlives
<1>1. OperationInv => RegistryOutlives
    <2> SUFFICES ASSUME OperationInv PROVE RegistryOutlives
        OBVIOUS
    <2>1. pc = "close" => Queued(b0) /\ b0 \in Backend
        BY HeadQueued DEF OperationInv, LanguageTypeOK, Running
    <2>2. pc = "close" /\ <<b0, "helper">> \in child => \E c \in changed : c[1] = b0
        BY <2>1 DEF OperationInv, ProcessesOK, Finished
    <2> QED BY <2>2 DEF OperationInv, ProcessesOK, RegistryOutlives, Ended
<1> QED BY <1>1, OperationIsInvariant, PTL
=============================================================================
