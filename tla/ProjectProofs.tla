---------------------------- MODULE ProjectProofs ----------------------------
(***************************************************************************)
(* What holds of oo export --install and of the proxies that stand between *)
(* its tools and the network, for every archive and any number of runs,    *)
(* units, edits, builds, faults, proxies and requests.                     *)
(***************************************************************************)
EXTENDS ProjectExport, ProjectProxy, SequenceTheorems, TLAPS

-----------------------------------------------------------------------------
(***************************************************************************)
(* What holds of oo export --install for every archive, any number of runs *)
(* and units, and any number of edits, builds and faults.  The invariant   *)
(* has four parts: types and exclusion (Base), what a run has created and  *)
(* what hangs from it (TreeInv), what a run knows of the two configuration *)
(* files and their journals (SetInv), and what it has verified (DevInv).   *)
(* The last three need the first, and nothing of each other.               *)
(***************************************************************************)

(* The lists of files a restoration goes through. *)
Todos == {<<>>, <<"manifest">>, <<"profile", "manifest">>,
          <<"manifest", "profile", "manifest">>}

Steps == Stops \cup {"idle", "resume", "copy", "undo", "restore", "journal", "patch",
                     "outputs", "deps", "depsJournal", "depsPatch", "ohpm", "build"}

Job == [pc : Steps, project : Project \cup {Nobody}, created : 0..Len(Walk),
        todo : Todos, next : {"idle", "load", "build", "stamps"}, failed : BOOLEAN,
        loaded : Content, original : Content, udid : Unit \cup {Nobody},
        before : Package, snapshot : Package]

Marker == [project : Project \cup {Nobody}, status : Status, unit : Unit \cup {Nobody}]

TypeOK ==
    /\ tree \in [Entry -> {"none", "ours", "user"}] /\ marker \in Marker
    /\ config \in [File -> Content] /\ wanted \in [File -> Content]
    /\ journal \in [File -> Journal]
    /\ artifact \in Package /\ attached \in Unit \cup {Nobody}
    /\ installed \in [Unit -> Package]
    /\ lock \in Process \cup {Nobody}
    /\ job \in [Process -> Job]
    /\ edits \in 0..MaxEdits /\ builds \in 0..MaxBuilds /\ faults \in 0..MaxFaults

(* Whoever works has the lock; a restoration that nothing follows has failed. *)
Controls ==
    \A p \in Process :
        /\ lock = p <=> ~At(p, "idle")
        /\ At(p, "restore") /\ job[p].next = "idle" => job[p].failed
        /\ job[p].failed => At(p, "restore")

(* What is still to be restored shrinks to another such list.              *)
LEMMA TailTodo ==
    ASSUME NEW todo \in Todos, todo # <<>>
    PROVE  Tail(todo) \in Todos /\ Head(todo) \in File
<1>1. CASE todo = <<"manifest">>
    <2>1. Tail(todo) = <<>> /\ Head(todo) = "manifest"
        BY <1>1
    <2> QED BY <2>1 DEF Todos, File
<1>2. CASE todo = <<"profile", "manifest">>
    <2>1. Tail(todo) = <<"manifest">> /\ Head(todo) = "profile"
        BY <1>2
    <2> QED BY <2>1 DEF Todos, File
<1>3. CASE todo = <<"manifest", "profile", "manifest">>
    <2>1. Tail(todo) = <<"profile", "manifest">> /\ Head(todo) = "manifest"
        BY <1>3
    <2> QED BY <2>1 DEF Todos, File
<1> QED BY <1>1, <1>2, <1>3 DEF Todos

(* The constants of the model, and what a patch or a signature leaves.     *)
LEMMA ContentsOK ==
    /\ Exported \in Content /\ NoJournal \in Journal /\ NoPackage \in Package
    /\ Resting \in Job /\ Resting.pc = "idle" /\ ~Resting.failed
    /\ Resting.created = 0
    /\ \A c \in Content : /\ Patch(c) \in Content
                          /\ Patch(c).edit = c.edit /\ Patch(c).patched
                          /\ [c EXCEPT !.signed = TRUE] \in Content
                          /\ [c EXCEPT !.signed = TRUE].edit = c.edit
<1>1. Exported \in Content /\ NoPackage \in Package
    BY ExportAssumption DEF Exported, Content, NoPackage, Package
<1>2. NoJournal \in Journal
    BY <1>1 DEF NoJournal, Journal
<1>3. 0 \in 0..Len(Walk)
    BY ExportAssumption
<1>4. Resting \in Job /\ Resting.pc = "idle" /\ ~Resting.failed /\ Resting.created = 0
    <2>1. "idle" \in Steps
        BY DEF Steps
    <2>2. <<>> \in Todos
        BY DEF Todos
    <2> QED BY <1>1, <1>3, <2>1, <2>2 DEF Resting, Job
<1>5. \A c \in Content : /\ Patch(c) \in Content
                         /\ Patch(c).edit = c.edit /\ Patch(c).patched
                         /\ [c EXCEPT !.signed = TRUE] \in Content
                         /\ [c EXCEPT !.signed = TRUE].edit = c.edit
    BY DEF Content, Patch
<1> QED BY <1>1, <1>2, <1>4, <1>5

Base == TypeOK /\ Controls

(* A run's step leaves a job, and the lock to whoever works. *)
RunTo(p, r) ==
    /\ r \in Job
    /\ job' = [job EXCEPT ![p] = r]
    /\ lock' = IF r.pc = "idle" THEN Nobody ELSE p
    /\ r.pc = "restore" /\ r.next = "idle" => r.failed
    /\ r.failed => r.pc = "restore"

Working(p) == ~At(p, "idle") \/ lock = Nobody

(* A step that leaves a job leaves the other runs idle, and one lock.      *)
LEMMA OneRuns ==
    ASSUME Base, NEW p \in Process, Working(p), NEW r, RunTo(p, r)
    PROVE  /\ job' \in [Process -> Job]
           /\ lock' \in Process \cup {Nobody}
           /\ Controls'
           /\ job'[p] = r
           /\ \A q \in Process \ {p} : job'[q] = job[q] /\ At(q, "idle")
<1>1. job \in [Process -> Job]
    BY DEF Base, TypeOK
<1>2. job' \in [Process -> Job] /\ job'[p] = r /\ \A q \in Process \ {p} : job'[q] = job[q]
    BY <1>1 DEF RunTo
<1>3. \A q \in Process \ {p} : lock # q /\ At(q, "idle")
    BY ExportAssumption DEF Base, Controls, Working
<1>4. ASSUME NEW q \in Process
      PROVE  /\ lock' = q <=> ~At(q, "idle")'
             /\ At(q, "restore")' /\ job'[q].next = "idle" => job'[q].failed
             /\ job'[q].failed => At(q, "restore")'
    <2>1. CASE q = p
        BY <1>2, <2>1, ExportAssumption DEF At, RunTo
    <2>2. CASE q # p
        BY <1>2, <1>3, <2>2, ExportAssumption DEF At, Base, Controls, RunTo
    <2> QED BY <2>1, <2>2
<1> QED BY <1>2, <1>3, <1>4, ExportAssumption DEF Controls, RunTo

(* A run that returns. *)
LEMMA LeaveRuns ==
    ASSUME Base, NEW p \in Process, Leave(p)
    PROVE  RunTo(p, Resting)
BY ContentsOK DEF Leave, RunTo

(* A run that only goes on. *)
LEMMA GotoRuns ==
    ASSUME Base, NEW p \in Process, NEW to \in Steps \ {"idle", "restore"},
           ~At(p, "idle"), ~job[p].failed, Goto(p, to), lock' = lock
    PROVE  RunTo(p, [job[p] EXCEPT !.pc = to])
<1> DEFINE r == [job[p] EXCEPT !.pc = to]
<1>1. job[p] \in Job
    BY DEF Base, TypeOK
<1>2. r \in Job /\ r.pc = to /\ r.failed = job[p].failed
    BY <1>1 DEF Job
<1>3. job' = [job EXCEPT ![p] = r]
    BY DEF Goto
<1>4. lock = p
    BY DEF Base, Controls
<1> HIDE DEF r
<1>5. r.pc # "idle" /\ r.pc # "restore" /\ ~r.failed
    BY <1>2
<1>6. RunTo(p, r)
    BY <1>2, <1>3, <1>4, <1>5 DEF RunTo
<1> QED BY <1>6 DEF r

(* A step that changes local variables too.                                *)
LEMMA StepRuns ==
    ASSUME Base, NEW p \in Process, ~At(p, "idle"),
           NEW r \in Job, r.pc # "idle", r.pc = "restore" \/ ~r.failed,
           r.pc = "restore" /\ r.next = "idle" => r.failed,
           job' = [job EXCEPT ![p] = r], lock' = lock
    PROVE  RunTo(p, r)
<1>1. lock = p
    BY DEF Base, Controls
<1> QED BY <1>1 DEF RunTo

(* Every step of a run. *)
LEMMA ExportRuns ==
    ASSUME Base, NEW p \in Process, export(p)
    PROVE  Working(p) /\ \E r : RunTo(p, r)
<1> USE DEF Working
<1>0. job[p] \in Job /\ job \in [Process -> Job]
    BY DEF Base, TypeOK
<1>a. ~At(p, "idle") => lock = p
    BY DEF Base, Controls
<1>b. ~At(p, "restore") => ~job[p].failed
    BY DEF Base, Controls
<1>1. CASE Enter(p)
    <2>1. PICK asked \in Project :
              job' = [job EXCEPT ![p] = [Resting EXCEPT !.pc = "resume", !.project = asked]]
        BY <1>1 DEF Enter
    <2> DEFINE r == [Resting EXCEPT !.pc = "resume", !.project = asked]
    <2>2. r \in Job /\ r.pc = "resume" /\ ~r.failed
        BY ContentsOK DEF Job, Steps
    <2>3. lock' = p /\ lock = Nobody
        BY <1>1 DEF Enter
    <2> HIDE DEF r
    <2>4. RunTo(p, r)
        BY <2>1, <2>2, <2>3 DEF RunTo, r
    <2> QED BY <2>3, <2>4
<1> DEFINE begun == [job[p] EXCEPT !.pc = "restore", !.todo = <<"profile", "manifest">>,
                                   !.next = "load"]
<1>c. begun \in Job /\ begun.pc = "restore" /\ begun.next = "load"
      /\ begun.failed = job[p].failed
    BY <1>0 DEF Job, Steps, Todos
<1>2. CASE Resume(p)
    <2>1. ~At(p, "idle") /\ ~At(p, "restore")
        BY <1>2 DEF Resume, At
    <2>2. CASE Leave(p)
        BY <2>1, <2>2, LeaveRuns
    <2>3. CASE ~Leave(p)
        <3>1. job' = [job EXCEPT ![p] = begun] /\ lock' = lock
            BY <1>2, <2>3 DEF Resume
        <3> HIDE DEF begun
        <3>2. RunTo(p, begun)
            BY <2>1, <3>1, <1>a, <1>b, <1>c DEF RunTo
        <3> QED BY <2>1, <3>2
    <2> QED BY <2>2, <2>3
<1>3. CASE Preflight(p)
    <2>1. ~At(p, "idle") /\ ~At(p, "restore")
        BY <1>3 DEF Preflight, At
    <2>2. CASE Leave(p)
        BY <2>1, <2>2, LeaveRuns
    <2>3. CASE Goto(p, "copy") /\ UNCHANGED lock
        <3>1. "copy" \in Steps \ {"idle", "restore"}
            BY DEF Steps
        <3> QED BY <2>1, <2>3, <3>1, <1>b, GotoRuns
    <2> QED BY <1>3, <2>2, <2>3 DEF Preflight
<1>4. CASE Copy(p)
    <2> DEFINE r == [job[p] EXCEPT !.created = @ + 1]
    <2>1. At(p, "copy") /\ job[p].created < Len(Walk) /\ lock' = lock
          /\ job' = [job EXCEPT ![p] = r]
        BY <1>4 DEF Copy
    <2>2. job[p].created \in 0..Len(Walk) /\ Len(Walk) \in Nat
        BY <1>0, ExportAssumption DEF Job
    <2>3. job[p].created + 1 \in 0..Len(Walk)
        BY <2>1, <2>2
    <2>4. r \in Job /\ r.pc = "copy" /\ r.failed = job[p].failed
        BY <1>0, <2>1, <2>3 DEF Job, At
    <2>5. ~At(p, "idle") /\ ~At(p, "restore")
        BY <2>1 DEF At
    <2> HIDE DEF r
    <2>6. RunTo(p, r)
        BY <2>1, <2>4, <2>5, <1>a, <1>b DEF RunTo
    <2> QED BY <2>5, <2>6
<1>5. CASE CopyFails(p)
    <2>1. "undo" \in Steps \ {"idle", "restore"}
        BY DEF Steps
    <2>2. ~At(p, "idle") /\ ~At(p, "restore")
        BY <1>5 DEF CopyFails, At
    <2> QED BY <1>5, <2>1, <2>2, <1>b, GotoRuns DEF CopyFails
<1>6. CASE Undo(p)
    <2> DEFINE r == [job[p] EXCEPT !.created = @ - 1]
    <2>1. At(p, "undo") /\ job[p].created > 0 /\ lock' = lock
          /\ job' = [job EXCEPT ![p] = r]
        BY <1>6 DEF Undo
    <2>2. job[p].created \in 0..Len(Walk) /\ Len(Walk) \in Nat
        BY <1>0, ExportAssumption DEF Job
    <2>3. job[p].created - 1 \in 0..Len(Walk)
        BY <2>1, <2>2
    <2>4. r \in Job /\ r.pc = "undo" /\ r.failed = job[p].failed
        BY <1>0, <2>1, <2>3 DEF Job, At
    <2>5. ~At(p, "idle") /\ ~At(p, "restore")
        BY <2>1 DEF At
    <2> HIDE DEF r
    <2>6. RunTo(p, r)
        BY <2>1, <2>4, <2>5, <1>a, <1>b DEF RunTo
    <2> QED BY <2>5, <2>6
<1>7. CASE Undone(p)
    <2>1. ~At(p, "idle")
        BY <1>7 DEF Undone, At
    <2> QED BY <1>7, <2>1, LeaveRuns DEF Undone
<1>8. CASE Mark(p)
    <2>1. ~At(p, "idle") /\ ~At(p, "restore")
        BY <1>8 DEF Mark, At
    <2>2. job' = [job EXCEPT ![p] = begun] /\ lock' = lock
        BY <1>8 DEF Mark
    <2> HIDE DEF begun
    <2>3. RunTo(p, begun)
        BY <2>1, <2>2, <1>a, <1>b, <1>c DEF RunTo
    <2> QED BY <2>1, <2>3
<1> QED BY <1>1, <1>2, <1>3, <1>4, <1>5, <1>6, <1>7, <1>8 DEF export

(* So does a restoration: it stays, goes on, starts again or ends.         *)
LEMMA RestoreRuns ==
    ASSUME Base, NEW p \in Process, restoreProjectProfile(p)
    PROVE  ~At(p, "idle") /\ \E r : RunTo(p, r)
<1>0. job[p] \in Job /\ job \in [Process -> Job] /\ job[p].todo \in Todos
      /\ job[p].failed \in BOOLEAN /\ job[p].next \in {"idle", "load", "build", "stamps"}
    BY DEF Base, TypeOK, Job
<1>1. At(p, "restore") /\ ~At(p, "idle")
    BY DEF restoreProjectProfile, NothingToRestore, PutBack, DropJournal, CannotRestore,
           Restoring, Restored, At
<1>2. job[p].pc = "restore" /\ (job[p].next = "idle" => job[p].failed)
    BY <1>1 DEF Base, Controls, At
<1> DEFINE done == [job[p] EXCEPT !.todo = Tail(@)]
           failing == [job[p] EXCEPT !.todo = Tail(@), !.failed = TRUE]
<1>3. ASSUME job[p].todo # <<>>
      PROVE  /\ done \in Job /\ done.pc = "restore" /\ done.next = job[p].next
             /\ done.failed = job[p].failed
             /\ failing \in Job /\ failing.pc = "restore" /\ failing.failed
    <2>1. Tail(job[p].todo) \in Todos
        BY <1>0, <1>3, TailTodo
    <2> QED BY <1>0, <1>2, <2>1 DEF Job
<1>4. ASSUME NEW f \in File, NothingToRestore(p, f) \/ DropJournal(p, f)
      PROVE  \E r : RunTo(p, r)
    <2>1. job[p].todo # <<>> /\ lock' = lock
        BY <1>4 DEF NothingToRestore, DropJournal, Restoring
    <2>2. job' = [job EXCEPT ![p] = done]
        BY <1>4 DEF NothingToRestore, DropJournal, Done
    <2>3. /\ done \in Job /\ done.pc = "restore" /\ done.next = job[p].next
          /\ done.failed = job[p].failed
        BY <1>3, <2>1
    <2> HIDE DEF done
    <2>4. RunTo(p, done)
        BY <1>1, <1>2, <2>1, <2>2, <2>3, StepRuns
    <2> QED BY <2>4
<1>5. ASSUME NEW f \in File, PutBack(p, f) PROVE \E r : RunTo(p, r)
    <2>1. job' = [job EXCEPT ![p] = job[p]] /\ lock' = lock
        BY <1>0, <1>5 DEF PutBack
    <2>2. RunTo(p, job[p])
        BY <1>0, <1>1, <1>2, <2>1, StepRuns
    <2> QED BY <2>2
<1>6. ASSUME NEW f \in File, CannotRestore(p, f) PROVE \E r : RunTo(p, r)
    <2>1. job[p].todo # <<>> /\ lock' = lock
        BY <1>6 DEF CannotRestore, Restoring
    <2>2. job' = [job EXCEPT ![p] = failing]
        BY <1>0, <1>6 DEF CannotRestore, Done
    <2>3. failing \in Job /\ failing.pc = "restore" /\ failing.failed
        BY <1>3, <2>1
    <2> HIDE DEF failing
    <2>4. RunTo(p, failing)
        BY <1>1, <2>1, <2>2, <2>3, StepRuns
    <2> QED BY <2>4
<1>7. ASSUME Restored(p) PROVE \E r : RunTo(p, r)
    <2>1. CASE Leave(p)
        BY <2>1, LeaveRuns
    <2>2. CASE ~job[p].failed /\ Goto(p, job[p].next) /\ UNCHANGED lock
        <3>1. job[p].next \in Steps \ {"idle", "restore"}
            BY <1>0, <1>2, <2>2 DEF Steps, Stops
        <3>2. RunTo(p, [job[p] EXCEPT !.pc = job[p].next])
            BY <1>1, <2>2, <3>1, GotoRuns
        <3> QED BY <3>2
    <2>3. CASE /\ job[p].failed
               /\ job' = [job EXCEPT ![p].todo = Both, ![p].next = "idle"]
               /\ UNCHANGED lock
        <3> DEFINE r == [job[p] EXCEPT !.todo = Both, !.next = "idle"]
        <3>1. r \in Job /\ r.pc = "restore" /\ r.failed
            BY <1>0, <1>2, <2>3 DEF Job, Todos, Both
        <3>2. job' = [job EXCEPT ![p] = r] /\ lock' = lock
            BY <2>3
        <3> HIDE DEF r
        <3>3. RunTo(p, r)
            BY <1>1, <3>1, <3>2, StepRuns
        <3> QED BY <3>3
    <2> QED BY <1>7, <2>1, <2>2, <2>3 DEF Restored
<1> QED BY <1>1, <1>4, <1>5, <1>6, <1>7 DEF restoreProjectProfile

(* So do the steps before the build.                                       *)
LEMMA InstallRuns ==
    ASSUME Base, NEW p \in Process, install(p)
    PROVE  ~At(p, "idle") /\ \E r : RunTo(p, r)
<1>0. job[p] \in Job /\ config["profile"] \in Content
      /\ attached \in Unit \cup {Nobody}
    BY DEF Base, TypeOK, File
<1>1. ~At(p, "idle") /\ ~At(p, "restore")
    BY DEF install, LoadMetadata, PrepareTools, SelectDevice, VerifyMaterial,
           GenerateSigning, At
<1>2. ~job[p].failed
    BY <1>1 DEF Base, Controls
<1>3. {"prepare", "select", "material", "fresh", "sign"} \subseteq Steps \ {"idle", "restore"}
    BY DEF Steps, Stops
<1>4. CASE LoadMetadata(p)
    <2> DEFINE r == [job[p] EXCEPT !.pc = "prepare", !.loaded = config["profile"]]
    <2>1. r \in Job /\ r.pc = "prepare" /\ r.failed = job[p].failed
        BY <1>0, <1>3 DEF Job
    <2>2. job' = [job EXCEPT ![p] = r] /\ lock' = lock
        BY <1>4 DEF LoadMetadata
    <2> HIDE DEF r
    <2>3. RunTo(p, r)
        BY <1>1, <1>2, <2>1, <2>2, StepRuns
    <2> QED BY <1>1, <2>3
<1>5. CASE PrepareTools(p)
    BY <1>1, <1>2, <1>3, <1>5, GotoRuns DEF PrepareTools
<1>6. CASE SelectDevice(p)
    <2> DEFINE r == [job[p] EXCEPT !.pc = "material", !.udid = attached]
    <2>1. r \in Job /\ r.pc = "material" /\ r.failed = job[p].failed
        BY <1>0, <1>3 DEF Job
    <2>2. job' = [job EXCEPT ![p] = r] /\ lock' = lock
        BY <1>6 DEF SelectDevice
    <2> HIDE DEF r
    <2>3. RunTo(p, r)
        BY <1>1, <1>2, <2>1, <2>2, StepRuns
    <2> QED BY <1>1, <2>3
<1>7. CASE VerifyMaterial(p)
    BY <1>1, <1>2, <1>3, <1>7, GotoRuns DEF VerifyMaterial
<1>8. CASE GenerateSigning(p)
    <2> DEFINE signed == [config["profile"] EXCEPT !.signed = TRUE]
               r == [job[p] EXCEPT !.pc = "fresh", !.loaded = signed]
    <2>0. signed \in Content
        BY <1>0, ContentsOK
    <2>1. job' = [job EXCEPT ![p] = r] /\ lock' = lock
        BY <1>8 DEF GenerateSigning
    <2> HIDE DEF signed
    <2>2. r \in Job /\ r.pc = "fresh" /\ r.failed = job[p].failed
        BY <1>0, <1>3, <2>0 DEF Job
    <2> HIDE DEF r
    <2>3. RunTo(p, r)
        BY <1>1, <1>2, <2>1, <2>2, StepRuns
    <2> QED BY <1>1, <2>3
<1> QED BY <1>4, <1>5, <1>6, <1>7, <1>8 DEF install

(* And those of buildAndInstall, where an error goes to the restorations.  *)
LEMMA BuildRuns ==
    ASSUME Base, NEW p \in Process, buildAndInstall(p)
    PROVE  ~At(p, "idle") /\ \E r : RunTo(p, r)
<1>0. job[p] \in Job /\ config["profile"] \in Content /\ config["manifest"] \in Content
      /\ artifact \in Package /\ job \in [Process -> Job]
    BY DEF Base, TypeOK, File
<1>1. ~At(p, "idle") /\ ~At(p, "restore")
    BY DEF buildAndInstall, CheckFresh, ReadProfile, JournalProfile, PatchProfile,
           CannotPatch, PackageOutputs, ReadManifest, SaveRecovery, PatchManifest, Ohpm,
           Build, Snapshot, VerifyPackage, Recheck, Install, Confirm, Unwind, At
<1>2. ~job[p].failed
    BY <1>1 DEF Base, Controls
<1> SUFFICES \E r : RunTo(p, r)
    BY <1>1
<1>3. {"read", "journal", "patch", "outputs", "deps", "ohpm", "depsJournal", "depsPatch",
       "verify", "recheck", "install", "confirm"} \subseteq Steps \ {"idle", "restore"}
    BY DEF Steps, Stops
<1>4. ASSUME NEW to \in Steps \ {"idle", "restore"}, Goto(p, to), lock' = lock
      PROVE  \E r : RunTo(p, r)
    <2>1. RunTo(p, [job[p] EXCEPT !.pc = to])
        BY <1>1, <1>2, <1>4, GotoRuns
    <2> QED BY <2>1
<1>5. ASSUME NEW r \in Job, r.pc \notin {"idle", "restore"}, r.failed = job[p].failed,
             job' = [job EXCEPT ![p] = r], lock' = lock
      PROVE  \E s : RunTo(p, s)
    <2>1. RunTo(p, r)
        BY <1>1, <1>2, <1>5, StepRuns
    <2> QED BY <2>1
<1>6. ASSUME Leave(p) PROVE \E r : RunTo(p, r)
    <2>1. RunTo(p, Resting)
        BY <1>6, LeaveRuns
    <2> QED BY <2>1
<1>7. ASSUME NEW todo \in Todos, NEW next \in {"build", "stamps"},
             RestoreThen(p, todo, next), lock' = lock
      PROVE  \E r : RunTo(p, r)
    <2> DEFINE r == [job[p] EXCEPT !.pc = "restore", !.todo = todo, !.next = next]
    <2>1. r \in Job /\ r.pc = "restore" /\ r.next = next
        BY <1>0 DEF Job, Steps
    <2>2. job' = [job EXCEPT ![p] = r]
        BY <1>7 DEF RestoreThen
    <2> HIDE DEF r
    <2>3. RunTo(p, r)
        BY <1>1, <1>7, <2>1, <2>2, StepRuns
    <2> QED BY <2>3
<1>8. CASE \/ CheckFresh(p) \/ JournalProfile(p) \/ PatchProfile(p) \/ SaveRecovery(p)
           \/ PatchManifest(p) \/ VerifyPackage(p) \/ Recheck(p)
    BY <1>3, <1>4, <1>8 DEF CheckFresh, JournalProfile, PatchProfile, SaveRecovery,
       PatchManifest, VerifyPackage, Recheck
<1>9. CASE CannotPatch(p) \/ Confirm(p)
    BY <1>6, <1>9 DEF CannotPatch, Confirm
<1>10. CASE Install(p)
    <2>1. CASE Leave(p)
        BY <1>6, <2>1
    <2>2. CASE Goto(p, "confirm") /\ UNCHANGED lock
        BY <1>3, <1>4, <2>2
    <2> QED BY <1>10, <2>1, <2>2 DEF Install
<1>11. CASE ReadProfile(p)
    <2> DEFINE r == [job[p] EXCEPT !.pc = "journal", !.original = config["profile"]]
    <2>1. r \in Job /\ r.pc = "journal" /\ r.failed = job[p].failed
        BY <1>0, <1>3 DEF Job
    <2>2. job' = [job EXCEPT ![p] = r] /\ lock' = lock
        BY <1>11 DEF ReadProfile
    <2> HIDE DEF r
    <2> QED BY <1>5, <2>1, <2>2
<1>12. CASE PackageOutputs(p)
    <2> DEFINE r == [job[p] EXCEPT !.pc = "deps", !.before = artifact]
    <2>1. r \in Job /\ r.pc = "deps" /\ r.failed = job[p].failed
        BY <1>0, <1>3 DEF Job
    <2>2. job' = [job EXCEPT ![p] = r] /\ lock' = lock
        BY <1>12 DEF PackageOutputs
    <2> HIDE DEF r
    <2> QED BY <1>5, <2>1, <2>2
<1>13. CASE ReadManifest(p)
    <2>1. CASE Goto(p, "ohpm")
        BY <1>3, <1>4, <1>13, <2>1 DEF ReadManifest
    <2>2. CASE ~Goto(p, "ohpm")
        <3> DEFINE r == [job[p] EXCEPT !.pc = "depsJournal", !.original = config["manifest"]]
        <3>1. r \in Job /\ r.pc = "depsJournal" /\ r.failed = job[p].failed
            BY <1>0, <1>3 DEF Job
        <3>2. job' = [job EXCEPT ![p] = r] /\ lock' = lock
            BY <1>13, <2>2 DEF ReadManifest
        <3> HIDE DEF r
        <3> QED BY <1>5, <3>1, <3>2
    <2> QED BY <2>1, <2>2
<1>14. CASE Snapshot(p)
    <2> DEFINE r == [job[p] EXCEPT !.pc = "verify", !.snapshot = artifact]
    <2>1. r \in Job /\ r.pc = "verify" /\ r.failed = job[p].failed
        BY <1>0, <1>3 DEF Job
    <2>2. job' = [job EXCEPT ![p] = r] /\ lock' = lock
        BY <1>14 DEF Snapshot
    <2> HIDE DEF r
    <2> QED BY <1>5, <2>1, <2>2
<1>15. CASE Ohpm(p) \/ Build(p)
    BY <1>7, <1>15 DEF Ohpm, Build, Todos, Both
<1>16. CASE Unwind(p)
    <2> DEFINE todo == IF job[p].pc \in {"depsPatch", "ohpm"}
                       THEN <<"manifest">> \o Both ELSE Both
               r == [job[p] EXCEPT !.pc = "restore", !.next = "idle", !.failed = TRUE,
                                   !.todo = todo]
    <2>1. todo \in Todos
        <3>1. <<"manifest">> \o Both = <<"manifest", "profile", "manifest">>
            <4> DEFINE s == <<"manifest">> \o Both
                       t == <<"manifest", "profile", "manifest">>
            <4>1. <<"manifest">> \in Seq(File) /\ Both \in Seq(File) /\ t \in Seq(File)
                BY DEF Both, File
            <4>a. Len(<<"manifest">>) = 1 /\ Len(Both) = 2 /\ <<"manifest">>[1] = "manifest"
                  /\ Both[1] = "profile" /\ Both[2] = "manifest"
                BY DEF Both
            <4>c. <<"manifest">> \in Seq(File) /\ Both \in Seq(File)
                BY <4>1
            <4>d. /\ <<"manifest">> \o Both \in Seq(File)
                  /\ Len(<<"manifest">> \o Both) = Len(<<"manifest">>) + Len(Both)
                  /\ \A i \in 1..Len(<<"manifest">>) + Len(Both) :
                       (<<"manifest">> \o Both)[i] =
                         IF i <= Len(<<"manifest">>) THEN <<"manifest">>[i]
                         ELSE Both[i - Len(<<"manifest">>)]
                BY <4>c, ConcatProperties, Zenon
            <4>b. /\ s \in Seq(File) /\ Len(s) = 1 + 2
                  /\ \A i \in 1..(1 + 2) : s[i] = IF i <= 1 THEN <<"manifest">>[i] ELSE Both[i - 1]
                BY <4>a, <4>d
            <4>2. /\ s \in Seq(File) /\ Len(s) = 3
                  /\ s[1] = "manifest" /\ s[2] = "profile" /\ s[3] = "manifest"
                <5> HIDE DEF s
                <5> QED BY <4>a, <4>b
            <4>3. Len(t) = 3 /\ t[1] = "manifest" /\ t[2] = "profile" /\ t[3] = "manifest"
                OBVIOUS
            <4> HIDE DEF s, t
            <4>4. s = t
                BY <4>1, <4>2, <4>3, SeqEqual
            <4> QED BY <4>4 DEF s, t
        <3> QED BY <3>1 DEF Todos, Both
    <2>2. job' = [job EXCEPT ![p] = r] /\ lock' = lock
        BY <1>16 DEF Unwind, Unwound
    <2> HIDE DEF todo
    <2>3. r \in Job /\ r.pc = "restore" /\ r.failed
        BY <1>0, <2>1 DEF Job, Steps
    <2> HIDE DEF r
    <2>4. RunTo(p, r)
        BY <1>1, <2>2, <2>3, StepRuns
    <2> QED BY <2>4
<1> QED BY <1>1, <1>8, <1>9, <1>10, <1>11, <1>12, <1>13, <1>14, <1>15, <1>16
        DEF buildAndInstall

(* Every step of a run keeps the lock where the run is.                    *)
LEMMA RunRuns ==
    ASSUME Base, NEW p \in Process, Run(p) \/ Killed(p)
    PROVE  Working(p) /\ \E r : RunTo(p, r)
<1>1. CASE Stop(p) \/ Killed(p)
    <2>1. ~At(p, "idle") /\ Leave(p)
        BY <1>1 DEF Stop, Killed, Stops, At
    <2>2. RunTo(p, Resting)
        BY <2>1, LeaveRuns
    <2> QED BY <2>1, <2>2 DEF Working
<1> QED BY <1>1, ExportRuns, RestoreRuns, InstallRuns, BuildRuns DEF Run, Working

(* It leaves the others where they are. *)
LEMMA OthersRest ==
    ASSUME Base, NEW p \in Process, Run(p) \/ Killed(p)
    PROVE  /\ job' \in [Process -> Job]
           /\ lock' \in Process \cup {Nobody}
           /\ Controls'
           /\ \A q \in Process \ {p} : job'[q] = job[q] /\ At(q, "idle")
BY RunRuns, OneRuns

(* An entry of the walk is one of the destination. *)
LEMMA WalkIsEntries == Len(Walk) \in Nat /\ \A i \in 1..Len(Walk) : Walk[i] \in Entry
BY ExportAssumption DEF Entry

(* What each step may change. *)
LEMMA Changes ==
    ASSUME NEW p \in Process, Run(p) \/ Killed(p)
    PROVE  /\ UNCHANGED tree \/ Copy(p) \/ Undo(p)
           /\ \/ UNCHANGED settings
              \/ \E f \in File : PutBack(p, f) \/ DropJournal(p, f)
              \/ GenerateSigning(p) \/ JournalProfile(p) \/ PatchProfile(p)
              \/ SaveRecovery(p) \/ PatchManifest(p)
           /\ UNCHANGED <<artifact, builds>> \/ Build(p)
           /\ UNCHANGED installed \/ Install(p)
           /\ UNCHANGED marker \/ Mark(p) \/ Confirm(p)
           /\ UNCHANGED faults \/ (faults < MaxFaults /\ faults' = faults + 1)
           /\ UNCHANGED <<attached, edits>>
<1> USE DEF project, settings, device, bounds
<1>1. CASE export(p)
    BY <1>1 DEF export, Enter, Resume, Preflight, Copy, CopyFails, Undo, Undone, Mark
<1>2. CASE restoreProjectProfile(p)
    BY <1>2 DEF restoreProjectProfile, NothingToRestore, PutBack, DropJournal,
                CannotRestore, Restored
<1>3. CASE install(p)
    BY <1>3 DEF install, LoadMetadata, PrepareTools, SelectDevice, VerifyMaterial,
                GenerateSigning
<1>4. CASE buildAndInstall(p)
    BY <1>4 DEF buildAndInstall, CheckFresh, ReadProfile, JournalProfile, PatchProfile,
           CannotPatch, PackageOutputs, ReadManifest, SaveRecovery, PatchManifest, Ohpm,
           Build, Snapshot, VerifyPackage, Recheck, Install, Confirm, Unwind
<1>5. CASE Stop(p) \/ Killed(p)
    BY <1>5 DEF Stop, Killed
<1> QED BY <1>1, <1>2, <1>3, <1>4, <1>5 DEF Run

(* Copying and undoing write entries of the walk. *)
LEMMA CopyWrites ==
    ASSUME Base, NEW p \in Process, Copy(p)
    PROVE  LET n == job[p].created + 1 IN
           /\ n \in 1..Len(Walk) /\ Walk[n] \in Entry
           /\ tree' = [tree EXCEPT ![Walk[n]] = "ours"]
           /\ tree[Walk[n]] = "none" /\ Present(Parent[Walk[n]])
           /\ job'[p].created = n /\ job'[p].pc = "copy" /\ job[p].pc = "copy"
           /\ n - 1 = job[p].created
<1>1. job[p] \in Job /\ job \in [Process -> Job]
    BY DEF Base, TypeOK
<1>2. job[p].created \in 0..Len(Walk) /\ job[p].created < Len(Walk)
    BY <1>1 DEF Copy, Job
<1>3. job[p].created + 1 \in 1..Len(Walk)
    BY <1>2, WalkIsEntries
<1> QED BY <1>1, <1>2, <1>3, WalkIsEntries DEF Copy, Free, At, Job

(* Undoing takes the latest of them, unless something is in it.            *)
LEMMA UndoWrites ==
    ASSUME Base, NEW p \in Process, Undo(p)
    PROVE  LET n == job[p].created IN
           /\ n \in 1..Len(Walk) /\ Walk[n] \in Entry
           /\ tree' = IF Empty(Walk[n]) THEN [tree EXCEPT ![Walk[n]] = "none"] ELSE tree
           /\ job'[p].created = n - 1 /\ job'[p].pc = "undo" /\ job[p].pc = "undo"
<1>1. job[p] \in Job /\ job \in [Process -> Job]
    BY DEF Base, TypeOK
<1>2. job[p].created \in 0..Len(Walk) /\ job[p].created > 0
    BY <1>1 DEF Undo, Job
<1>3. job[p].created \in 1..Len(Walk)
    BY <1>2, WalkIsEntries
<1> QED BY <1>1, <1>2, <1>3, WalkIsEntries DEF Undo, Latest, At, Job

(* A run's step keeps the types.                                           *)
LEMMA RunTypes ==
    ASSUME Base, NEW p \in Process, Run(p) \/ Killed(p)
    PROVE  TypeOK'
<1> USE DEF settings, File
<1>1. job' \in [Process -> Job] /\ lock' \in Process \cup {Nobody}
    BY OthersRest
<1>2. TypeOK /\ job[p] \in Job
    BY DEF Base, TypeOK
<1>3. tree' \in [Entry -> {"none", "ours", "user"}]
    <2>1. CASE Copy(p)
        BY <1>2, <2>1, CopyWrites DEF TypeOK
    <2>2. CASE Undo(p)
        BY <1>2, <2>2, UndoWrites DEF TypeOK
    <2> QED BY <1>2, <2>1, <2>2, Changes DEF TypeOK
<1>4. config' \in [File -> Content] /\ wanted' \in [File -> Content]
      /\ journal' \in [File -> Journal]
    <2>1. ASSUME NEW f \in File, PutBack(p, f) \/ DropJournal(p, f)
          PROVE  config' \in [File -> Content] /\ wanted' \in [File -> Content]
                 /\ journal' \in [File -> Journal]
        BY <1>2, <2>1, ContentsOK DEF TypeOK, PutBack, DropJournal, Journal
    <2>2. CASE GenerateSigning(p)
        <3> DEFINE signed == [config["profile"] EXCEPT !.signed = TRUE]
        <3>1. signed \in Content
            BY <1>2, ContentsOK DEF TypeOK
        <3>2. /\ config' = [config EXCEPT !["profile"] = signed]
              /\ wanted' = [wanted EXCEPT !["profile"] = signed]
              /\ journal' = journal
            BY <2>2 DEF GenerateSigning
        <3> HIDE DEF signed
        <3> QED BY <1>2, <3>1, <3>2 DEF TypeOK
    <2>3. CASE JournalProfile(p) \/ SaveRecovery(p)
        <3>1. job[p].original \in Content /\ job[p].loaded \in Content
            BY <1>2 DEF Job
        <3>2. Patch(job[p].loaded) \in Content /\ Patch(job[p].original) \in Content
            BY <3>1, ContentsOK
        <3> QED BY <1>2, <2>3, <3>1, <3>2 DEF TypeOK, JournalProfile, SaveRecovery, Journal
    <2>4. CASE PatchProfile(p) \/ PatchManifest(p)
        BY <1>2, <2>4 DEF TypeOK, PatchProfile, PatchManifest, Journal
    <2> QED BY <1>2, <2>1, <2>2, <2>3, <2>4, Changes DEF TypeOK
<1>5. artifact' \in Package /\ builds' \in 0..MaxBuilds
    <2>1. CASE Build(p)
        <3>1. CASE UNCHANGED <<artifact, builds>>
            BY <1>2, <3>1 DEF TypeOK
        <3>2. CASE builds < MaxBuilds /\ builds' = builds + 1 /\ artifact' \in Packages(builds')
            <4>1. builds' \in 0..MaxBuilds
                BY <1>2, <3>2, ExportAssumption DEF TypeOK
            <4> QED BY <3>2, <4>1 DEF Packages, Package
        <3> QED BY <2>1, <3>1, <3>2 DEF Build
    <2> QED BY <1>2, <2>1, Changes DEF TypeOK
<1>6. installed' \in [Unit -> Package]
    <2>1. CASE Install(p)
        BY <1>2, <2>1 DEF TypeOK, Install, Job
    <2> QED BY <1>2, <2>1, Changes DEF TypeOK
<1>7. attached' \in Unit \cup {Nobody} /\ edits' \in 0..MaxEdits
    BY <1>2, Changes DEF TypeOK
<1>8. marker' \in Marker
    <2>1. CASE Mark(p)
        BY <1>2, <2>1 DEF Mark, Marker, Status, Job
    <2>2. CASE Confirm(p)
        BY <1>2, <2>2 DEF TypeOK, Confirm, Marker, Status, Job
    <2> QED BY <1>2, <2>1, <2>2, Changes DEF TypeOK
<1>9. faults' \in 0..MaxFaults
    BY <1>2, Changes, ExportAssumption DEF TypeOK
<1> QED BY <1>1, <1>3, <1>4, <1>5, <1>6, <1>7, <1>8, <1>9 DEF TypeOK

(* The user leaves the runs alone. *)
LEMMA UserBase ==
    ASSUME Base,
           \/ \E f \in File : Edit(f) \/ Settle(f)
           \/ \E e \in Entry : CreateEntry(e)
           \/ Reattach \/ Rebuild
    PROVE  TypeOK' /\ UNCHANGED <<job, lock>>
<1> USE DEF settings, bounds, device, project
<1>1. TypeOK
    BY DEF Base
<1>2. ASSUME NEW f \in File, Edit(f) PROVE TypeOK' /\ UNCHANGED <<job, lock>>
    <2>1. edits' = edits + 1 /\ edits' \in 0..MaxEdits
        BY <1>1, <1>2, ExportAssumption DEF Edit, TypeOK
    <2>2. config'[f] \in Content /\ config' \in [File -> Content]
        <3>1. [config[f] EXCEPT !.edit = edits'] \in Content
            BY <1>1, <2>1 DEF TypeOK, Content
        <3>2. config' = [config EXCEPT ![f] = [config[f] EXCEPT !.edit = edits']]
            BY <1>2 DEF Edit
        <3> QED BY <1>1, <3>1, <3>2 DEF TypeOK
    <2> QED BY <1>1, <1>2, <2>1, <2>2 DEF Edit, TypeOK
<1>3. ASSUME NEW f \in File, Settle(f) PROVE TypeOK' /\ UNCHANGED <<job, lock>>
    BY <1>1, <1>3, ContentsOK DEF Settle, TypeOK
<1>4. ASSUME NEW e \in Entry, CreateEntry(e) PROVE TypeOK' /\ UNCHANGED <<job, lock>>
    BY <1>1, <1>4 DEF CreateEntry, TypeOK
<1>5. ASSUME Reattach PROVE TypeOK' /\ UNCHANGED <<job, lock>>
    BY <1>1, <1>5 DEF Reattach, TypeOK
<1>6. ASSUME Rebuild PROVE TypeOK' /\ UNCHANGED <<job, lock>>
    <2>1. builds' \in 0..MaxBuilds
        BY <1>1, <1>6, ExportAssumption DEF Rebuild, TypeOK
    <2>2. artifact' \in Package
        BY <1>6, <2>1 DEF Rebuild, Packages, Package
    <2> QED BY <1>1, <1>6, <2>1, <2>2 DEF Rebuild, TypeOK
<1> QED BY <1>2, <1>3, <1>4, <1>5, <1>6

(* Nothing has run yet. *)
LEMMA InitBase == Init => Base
<1> SUFFICES ASSUME Init PROVE Base
    OBVIOUS
<1> USE ContentsOK, ExportAssumption DEF Init
<1>1. TypeOK
    <2>1. edits \in 0..MaxEdits /\ builds \in 0..MaxBuilds /\ faults \in 0..MaxFaults
        OBVIOUS
    <2>2. marker \in Marker
        BY DEF NoMarker, Marker, Status
    <2> QED BY <2>1, <2>2 DEF TypeOK
<1>2. Controls
    BY DEF Controls, At
<1> QED BY <1>1, <1>2 DEF Base

(* Types and the exclusion of two runs are inductive on their own.         *)
LEMMA NextBase == Base /\ [Next]_vars => Base'
<1> SUFFICES ASSUME Base, [Next]_vars PROVE Base'
    OBVIOUS
<1>1. ASSUME NEW p \in Process, Run(p) \/ Killed(p) PROVE Base'
    BY <1>1, OthersRest, RunTypes DEF Base
<1>2. ASSUME \/ \E f \in File : Edit(f) \/ Settle(f)
             \/ \E e \in Entry : CreateEntry(e)
             \/ Reattach \/ Rebuild
      PROVE  Base'
    BY <1>2, UserBase DEF Base, Controls, At
<1>3. CASE UNCHANGED vars
    BY <1>3 DEF vars, project, settings, device, bounds, Base, TypeOK, Controls, At
<1> QED BY <1>1, <1>2, <1>3 DEF Next

-----------------------------------------------------------------------------
(* The destination. *)

(* What is there hangs from the destination, and not from itself.          *)
Standing(t) ==
    /\ \A e \in Entry : t[e] # "none" => Parent[e] = Root \/ t[Parent[e]] # "none"
    /\ \A some \in SUBSET {e \in Entry : t[e] # "none"} :
          some # {} => \E e \in some : Parent[e] \notin some

Trees == [Entry -> {"none", "ours", "user"}]

(* Something may be put into what is there ... *)
LEMMA StandsWithMore ==
    ASSUME NEW t \in Trees, Standing(t), NEW e \in Entry, t[e] = "none",
           Parent[e] = Root \/ t[Parent[e]] # "none", NEW v \in {"ours", "user"}
    PROVE  Standing([t EXCEPT ![e] = v])
<1> DEFINE u == [t EXCEPT ![e] = v]
<1>0. u \in Trees /\ u[e] = v /\ \A x \in Entry \ {e} : u[x] = t[x]
    BY DEF Trees
<1>a. \A x \in Entry : Parent[x] = Root \/ Parent[x] \in Entry
    BY ExportAssumption
<1>b. Root \notin Entry
    BY ExportAssumption
<1> HIDE DEF u
<1>1. ASSUME NEW x \in Entry, u[x] # "none" PROVE Parent[x] = Root \/ u[Parent[x]] # "none"
    BY <1>0, <1>1, <1>a DEF Standing
<1>2. ASSUME NEW some \in SUBSET {x \in Entry : u[x] # "none"}, some # {}
      PROVE  \E x \in some : Parent[x] \notin some
    <2> DEFINE rest == some \ {e}
    <2>1. CASE rest = {}
        <3>1. some = {e}
            BY <1>2, <2>1
        <3>2. Parent[e] # e
            BY <1>b
        <3> QED BY <3>1, <3>2
    <2>2. CASE rest # {}
        <3>1. rest \in SUBSET {x \in Entry : t[x] # "none"}
            BY <1>0
        <3>2. PICK x \in rest : Parent[x] \notin rest
            BY <2>2, <3>1 DEF Standing
        <3>3. x \in Entry /\ t[x] # "none"
            BY <3>1
        <3>4. Parent[x] # e
            BY <1>b, <3>3 DEF Standing
        <3> QED BY <3>2, <3>4
    <2> QED BY <2>1, <2>2
<1>3. Standing(u)
    BY <1>1, <1>2 DEF Standing
<1> QED BY <1>3 DEF u

Bare(t, e) == \A c \in Entry : Parent[c] = e => t[c] = "none"

(* ... and what has nothing in it may go.                                  *)
LEMMA StandsWithLess ==
    ASSUME NEW t \in Trees, Standing(t), NEW e \in Entry, Bare(t, e)
    PROVE  Standing([t EXCEPT ![e] = "none"])
<1> DEFINE u == [t EXCEPT ![e] = "none"]
<1>0. u \in Trees /\ u[e] = "none" /\ \A x \in Entry \ {e} : u[x] = t[x]
    BY DEF Trees
<1>a. \A x \in Entry : Parent[x] = Root \/ Parent[x] \in Entry
    BY ExportAssumption
<1> HIDE DEF u
<1>1. ASSUME NEW x \in Entry, u[x] # "none" PROVE Parent[x] = Root \/ u[Parent[x]] # "none"
    <2>1. x # e /\ t[x] # "none"
        BY <1>0, <1>1
    <2>2. Parent[x] # e
        BY <2>1 DEF Bare
    <2> QED BY <1>0, <1>a, <2>1, <2>2 DEF Standing
<1>2. {x \in Entry : u[x] # "none"} \subseteq {x \in Entry : t[x] # "none"}
    BY <1>0
<1>3. Standing(u)
    BY <1>1, <1>2 DEF Standing
<1> QED BY <1>3 DEF u

(* Without a top-level name there is nothing.                              *)
LEMMA NothingStands ==
    ASSUME NEW t \in Trees, Standing(t), \A e \in Top : t[e] = "none"
    PROVE  \A e \in Entry : t[e] = "none"
<1> DEFINE some == {e \in Entry : t[e] # "none"}
<1>1. ASSUME some # {} PROVE FALSE
    <2>1. PICK e \in some : Parent[e] \notin some
        BY <1>1 DEF Standing
    <2>2. Parent[e] # Root
        BY <2>1 DEF Top
    <2>3. Parent[e] \in Entry /\ t[Parent[e]] # "none"
        BY <2>1, <2>2, ExportAssumption DEF Standing
    <2> QED BY <2>1, <2>3
<1> QED BY <1>1

(* The first n entries of the walk are oo's own: each once, and in what is *)
(* the user's or was created before it.                                    *)
Made(t, n) ==
    \A i \in 1..n :
        /\ t[Walk[i]] = "ours"
        /\ \A j \in 1..(i - 1) : Walk[j] # Walk[i]
        /\ \/ Parent[Walk[i]] = Root
           \/ t[Parent[Walk[i]]] = "user"
           \/ \E j \in 1..(i - 1) : Parent[Walk[i]] = Walk[j]

Created(n) == {Walk[i] : i \in 1..n}

(* How far the creation is, or its undoing.                                *)
Publishing(p) ==
    /\ At(p, "resume") => job[p].created = 0
    /\ job[p].pc \in {"copy", "undo"} => Made(tree, job[p].created)
    /\ At(p, "copy") =>
          \A e \in Entry : tree[e] = "ours" => e \in Created(job[p].created)
    /\ At(p, "undo") =>
          \A e \in Entry : tree[e] = "ours" => e \in Created(job[p].created) \/ ~Bare(tree, e)

TreeInv == Standing(tree) /\ \A p \in Process : Publishing(p)

(* A run that is not publishing has nothing to say of the destination.     *)
LEMMA RestPublishes ==
    ASSUME Base, TreeInv, NEW p \in Process, Run(p) \/ Killed(p)
    PROVE  \A q \in Process \ {p} : Publishing(q)'
BY OthersRest DEF Publishing, At

(* The steps that do not publish. *)
LEMMA LaterSteps ==
    ASSUME Base, NEW p \in Process,
           \/ Resume(p) \/ Undone(p) \/ Mark(p) \/ restoreProjectProfile(p)
           \/ install(p) \/ buildAndInstall(p) \/ Stop(p) \/ Killed(p)
    PROVE  job'[p].pc \notin {"resume", "copy", "undo"} /\ tree' = tree
<1> USE DEF project
<1>0. job \in [Process -> Job] /\ job[p] \in Job
      /\ job[p].next \in {"idle", "load", "build", "stamps"}
    BY DEF Base, TypeOK, Job
<1>1. ASSUME Leave(p) PROVE job'[p].pc = "idle"
    BY <1>0, <1>1, ContentsOK DEF Leave
<1>2. CASE Resume(p)
    BY <1>0, <1>1, <1>2 DEF Resume, Job
<1>3. CASE Undone(p) \/ Stop(p) \/ Killed(p)
    BY <1>1, <1>3 DEF Undone, Stop, Killed
<1>4. CASE Mark(p)
    BY <1>0, <1>4 DEF Mark, Job
<1>5. CASE restoreProjectProfile(p)
    <2>1. ASSUME NEW f \in File,
                 NothingToRestore(p, f) \/ PutBack(p, f) \/ DropJournal(p, f) \/ CannotRestore(p, f)
          PROVE  job'[p].pc = "restore" /\ tree' = tree
        BY <1>0, <2>1 DEF NothingToRestore, PutBack, DropJournal, CannotRestore, Restoring,
           Done, At, Job
    <2>2. ASSUME Restored(p)
          PROVE job'[p].pc \in {"restore", "idle", "load", "build", "stamps"} /\ tree' = tree
        BY <1>0, <1>1, <2>2 DEF Restored, Goto, At, Job
    <2> QED BY <1>5, <2>1, <2>2 DEF restoreProjectProfile
<1>6. CASE install(p)
    BY <1>0, <1>6 DEF install, LoadMetadata, PrepareTools, SelectDevice, VerifyMaterial,
       GenerateSigning, Goto, Job
<1>7. CASE buildAndInstall(p)
    BY <1>0, <1>1, <1>7 DEF buildAndInstall, CheckFresh, ReadProfile, JournalProfile,
       PatchProfile, CannotPatch, PackageOutputs, ReadManifest, SaveRecovery, PatchManifest,
       Ohpm, Build, Snapshot, VerifyPackage, Recheck, Install, Confirm, Unwind, Unwound,
       RestoreThen, Goto, Job
<1> QED BY <1>2, <1>3, <1>4, <1>5, <1>6, <1>7

(* The step that creates an entry. *)
LEMMA CopyPublishes ==
    ASSUME Base, TreeInv, NEW p \in Process, Copy(p)
    PROVE  Standing(tree') /\ Publishing(p)'
<1> DEFINE n == job[p].created + 1
           e == Walk[n]
<1>1. /\ n \in 1..Len(Walk) /\ e \in Entry
      /\ tree' = [tree EXCEPT ![e] = "ours"] /\ tree[e] = "none" /\ Present(Parent[e])
      /\ job'[p].created = n /\ job'[p].pc = "copy" /\ job[p].pc = "copy"
      /\ n - 1 = job[p].created
    BY CopyWrites
<1>2. tree \in Trees /\ Len(Walk) \in Nat /\ \A i \in 1..Len(Walk) : Walk[i] \in Entry
    BY WalkIsEntries DEF Base, TypeOK, Trees
<1>3. Made(tree, n - 1) /\ \A x \in Entry : tree[x] = "ours" => x \in Created(n - 1)
    BY <1>1 DEF TreeInv, Publishing, At
<1>4. Parent[e] = Root \/ (Parent[e] \in Entry /\ tree[Parent[e]] # "none")
    BY <1>1 DEF Present
<1> HIDE DEF n, e
<1>5. tree'[e] = "ours" /\ \A x \in Entry \ {e} : tree'[x] = tree[x]
    BY <1>1, <1>2 DEF Trees
<1>6. Standing(tree')
    BY <1>1, <1>2, <1>4, StandsWithMore DEF TreeInv
<1>7. Made(tree', n)
    <2> SUFFICES ASSUME NEW i \in 1..n
                 PROVE  /\ tree'[Walk[i]] = "ours"
                        /\ \A j \in 1..(i - 1) : Walk[j] # Walk[i]
                        /\ \/ Parent[Walk[i]] = Root
                           \/ tree'[Parent[Walk[i]]] = "user"
                           \/ \E j \in 1..(i - 1) : Parent[Walk[i]] = Walk[j]
        BY DEF Made
    <2>1. \A j \in 1..(n - 1) : Walk[j] \in Entry /\ tree[Walk[j]] = "ours" /\ Walk[j] # e
        BY <1>1, <1>2, <1>3 DEF Made
    <2>2. CASE i = n
        <3>1. Walk[i] = e
            BY <2>2 DEF e
        <3>2. Parent[e] = Root \/ tree[Parent[e]] = "user" \/ Parent[e] \in Created(n - 1)
            BY <1>2, <1>3, <1>4 DEF Trees
        <3>3. tree[Parent[e]] = "user" /\ Parent[e] \in Entry => tree'[Parent[e]] = "user"
            BY <1>1, <1>5
        <3> QED BY <1>4, <1>5, <2>1, <2>2, <3>1, <3>2, <3>3 DEF Created
    <2>3. CASE i # n
        <3>1. i \in 1..(n - 1)
            BY <1>1, <1>2, <2>3
        <3>2. tree'[Walk[i]] = "ours"
            BY <1>5, <2>1, <3>1
        <3>3. tree[Parent[Walk[i]]] = "user" /\ Parent[Walk[i]] \in Entry
              => tree'[Parent[Walk[i]]] = "user"
            BY <1>1, <1>5
        <3>4. Parent[Walk[i]] = Root \/ Parent[Walk[i]] \in Entry
            BY <2>1, <3>1, ExportAssumption
        <3> QED BY <1>3, <3>1, <3>2, <3>3, <3>4 DEF Made
    <2> QED BY <2>2, <2>3
<1>8. \A x \in Entry : tree'[x] = "ours" => x \in Created(n)
    <2> SUFFICES ASSUME NEW x \in Entry, tree'[x] = "ours" PROVE x \in Created(n)
        OBVIOUS
    <2>1. CASE x = e
        BY <1>1, <2>1 DEF Created, e
    <2>2. CASE x # e
        <3>1. x \in Created(n - 1)
            BY <1>3, <1>5, <2>2
        <3>2. 1..(n - 1) \subseteq 1..n
            BY <1>1, <1>2
        <3> QED BY <3>1, <3>2 DEF Created
    <2> QED BY <2>1, <2>2
<1> QED BY <1>1, <1>6, <1>7, <1>8 DEF Publishing, At

(* The step that takes one back, or leaves it with what is in it.          *)
LEMMA UndoPublishes ==
    ASSUME Base, TreeInv, NEW p \in Process, Undo(p)
    PROVE  Standing(tree') /\ Publishing(p)'
<1> DEFINE n == job[p].created
           e == Walk[n]
<1>1. /\ n \in 1..Len(Walk) /\ e \in Entry
      /\ tree' = IF Bare(tree, e) THEN [tree EXCEPT ![e] = "none"] ELSE tree
      /\ job'[p].created = n - 1 /\ job'[p].pc = "undo" /\ job[p].pc = "undo"
    BY UndoWrites DEF Empty, Bare
<1>2. tree \in Trees /\ Len(Walk) \in Nat /\ \A i \in 1..Len(Walk) : Walk[i] \in Entry
    BY WalkIsEntries DEF Base, TypeOK, Trees
<1>3. /\ Made(tree, n)
      /\ \A x \in Entry : tree[x] = "ours" => x \in Created(n) \/ ~Bare(tree, x)
    BY <1>1 DEF TreeInv, Publishing, At
<1>a. n \in Nat /\ n \in 1..n /\ 1..(n - 1) \subseteq 1..n
    BY <1>1, <1>2
<1>4. tree[e] = "ours" /\ (\A j \in 1..(n - 1) : Walk[j] # e)
      /\ \/ Parent[e] = Root \/ tree[Parent[e]] = "user"
         \/ \E j \in 1..(n - 1) : Parent[e] = Walk[j]
    BY <1>3, <1>a DEF Made
<1>b. Walk[n] = e
    BY DEF e
<1> HIDE DEF n, e
<1>5. /\ \A x \in Entry \ {e} : tree'[x] = tree[x]
      /\ Bare(tree, e) => tree'[e] = "none"
      /\ ~Bare(tree, e) => tree' = tree
    BY <1>1, <1>2 DEF Trees
<1>6. Standing(tree')
    BY <1>1, <1>2, StandsWithLess DEF TreeInv
<1>7. Made(tree', n - 1)
    <2> SUFFICES ASSUME NEW i \in 1..(n - 1)
                 PROVE  /\ tree'[Walk[i]] = "ours"
                        /\ \A j \in 1..(i - 1) : Walk[j] # Walk[i]
                        /\ \/ Parent[Walk[i]] = Root
                           \/ tree'[Parent[Walk[i]]] = "user"
                           \/ \E j \in 1..(i - 1) : Parent[Walk[i]] = Walk[j]
        BY DEF Made
    <2>1. i \in 1..n /\ Walk[i] \in Entry /\ Walk[i] # e
        BY <1>1, <1>2, <1>a, <1>4
    <2>2. tree'[Walk[i]] = "ours"
        BY <1>3, <1>5, <2>1 DEF Made
    <2>3. Parent[Walk[i]] \in Entry /\ tree[Parent[Walk[i]]] = "user"
          => tree'[Parent[Walk[i]]] = "user"
        BY <1>4, <1>5
    <2>4. Parent[Walk[i]] = Root \/ Parent[Walk[i]] \in Entry
        BY <2>1, ExportAssumption
    <2> QED BY <1>3, <2>1, <2>2, <2>3, <2>4 DEF Made
<1>8. ASSUME NEW x \in Entry, tree'[x] = "ours"
      PROVE  x \in Created(n - 1) \/ ~Bare(tree', x)
    <2>1. tree[x] = "ours"
        BY <1>5, <1>8, <1>4
    <2>2. CASE Bare(tree, e)
        <3>1. x # e
            BY <1>5, <1>8, <2>2
        <3>2. CASE x \in Created(n)
            <4>1. PICK i \in 1..n : x = Walk[i]
                BY <3>2 DEF Created
            <4>2. i # n
                BY <1>b, <3>1, <4>1
            <4>3. i \in 1..(n - 1)
                BY <1>a, <4>2
            <4> QED BY <4>1, <4>3 DEF Created
        <3>3. CASE x \notin Created(n)
            <4>1. PICK c \in Entry : Parent[c] = x /\ tree[c] # "none"
                BY <1>3, <2>1, <3>3 DEF Bare
            <4>2. CASE c = e
                <5>1. x # Root /\ tree[x] # "user"
                    BY <2>1, ExportAssumption
                <5>2. x \in Created(n - 1)
                    BY <1>4, <4>1, <4>2, <5>1 DEF Created
                <5> QED BY <5>2
            <4>3. CASE c # e
                BY <1>5, <4>1, <4>3 DEF Bare
            <4> QED BY <4>2, <4>3
        <3> QED BY <3>2, <3>3
    <2>3. CASE ~Bare(tree, e)
        <3>1. tree' = tree
            BY <1>5, <2>3
        <3>2. CASE x = e
            BY <2>3, <3>1, <3>2
        <3>3. CASE x # e /\ x \in Created(n)
            <4>1. PICK i \in 1..n : x = Walk[i]
                BY <3>3 DEF Created
            <4>2. i # n
                BY <1>b, <3>3, <4>1
            <4>3. i \in 1..(n - 1)
                BY <1>a, <4>2
            <4> QED BY <4>1, <4>3 DEF Created
        <3>4. CASE x \notin Created(n)
            BY <1>3, <2>1, <3>1, <3>4
        <3> QED BY <3>2, <3>3, <3>4
    <2> QED BY <2>2, <2>3
<1> QED BY <1>1, <1>6, <1>7, <1>8 DEF Publishing, At

(* The user creates entries beside it. *)
LEMMA UserPublishes ==
    ASSUME Base, TreeInv, NEW e \in Entry, CreateEntry(e)
    PROVE  TreeInv'
<1>1. /\ tree[e] = "none" /\ Present(Parent[e]) /\ tree' = [tree EXCEPT ![e] = "user"]
      /\ job' = job /\ tree \in Trees
    BY DEF CreateEntry, Base, TypeOK, Trees
<1>2. Parent[e] = Root \/ tree[Parent[e]] # "none"
    BY <1>1 DEF Present
<1>3. Standing(tree')
    BY <1>1, <1>2, StandsWithMore DEF TreeInv
<1>4. tree'[e] = "user" /\ \A x \in Entry \ {e} : tree'[x] = tree[x]
    BY <1>1 DEF Trees
<1>5. ASSUME NEW p \in Process PROVE Publishing(p)'
    <2> DEFINE n == job[p].created
    <2>0. Publishing(p) /\ n \in 0..Len(Walk)
        BY DEF TreeInv, Base, TypeOK, Job
    <2> HIDE DEF n
    <2>1. \A i \in 1..n : Walk[i] \in Entry
        BY <2>0, WalkIsEntries
    <2>2. Made(tree, n) => Made(tree', n)
        <3> SUFFICES ASSUME Made(tree, n), NEW i \in 1..n
                     PROVE  /\ tree'[Walk[i]] = "ours"
                            /\ \A j \in 1..(i - 1) : Walk[j] # Walk[i]
                            /\ \/ Parent[Walk[i]] = Root
                               \/ tree'[Parent[Walk[i]]] = "user"
                               \/ \E j \in 1..(i - 1) : Parent[Walk[i]] = Walk[j]
            BY DEF Made
        <3>1. Walk[i] \in Entry /\ tree'[Walk[i]] = "ours"
            BY <1>1, <1>4, <2>1 DEF Made
        <3>2. Parent[Walk[i]] \in Entry /\ tree[Parent[Walk[i]]] = "user"
              => tree'[Parent[Walk[i]]] = "user"
            BY <1>4
        <3>3. Parent[Walk[i]] = Root \/ Parent[Walk[i]] \in Entry
            BY <3>1, ExportAssumption
        <3> QED BY <3>1, <3>2, <3>3 DEF Made
    <2>3. \A x \in Entry : tree'[x] = "ours" => tree[x] = "ours"
        BY <1>4
    <2>4. \A x \in Entry : ~Bare(tree, x) => ~Bare(tree', x)
        BY <1>4 DEF Bare
    <2>5. job'[p] = job[p]
        BY <1>1
    <2> QED BY <2>0, <2>2, <2>3, <2>4, <2>5 DEF Publishing, At, n
<1> QED BY <1>3, <1>5 DEF TreeInv

(* Every step keeps the destination as the runs know it.                   *)
LEMMA NextTree == Base /\ TreeInv /\ [Next]_vars => TreeInv'
<1> SUFFICES ASSUME Base, TreeInv, [Next]_vars PROVE TreeInv'
    OBVIOUS
<1> USE DEF project, settings, device, bounds
<1>1. ASSUME NEW p \in Process, Run(p) \/ Killed(p) PROVE TreeInv'
    <2>0. job \in [Process -> Job] /\ job[p] \in Job /\ tree \in Trees
        BY DEF Base, TypeOK, Trees
    <2>1. CASE Copy(p)
        BY <1>1, <2>1, CopyPublishes, RestPublishes DEF TreeInv
    <2>2. CASE Undo(p)
        BY <1>1, <2>2, UndoPublishes, RestPublishes DEF TreeInv
    <2>3. CASE Enter(p)
        <3>1. job'[p].pc = "resume" /\ job'[p].created = 0 /\ tree' = tree
            BY <2>0, <2>3, ContentsOK DEF Enter, Job
        <3> QED BY <1>1, <3>1, RestPublishes DEF TreeInv, Publishing, At
    <2>4. CASE Preflight(p)
        <3>1. CASE Leave(p)
            <4>1. job'[p].pc = "idle" /\ tree' = tree
                BY <2>0, <2>4, <3>1, ContentsOK DEF Preflight, Leave
            <4> QED BY <1>1, <4>1, RestPublishes DEF TreeInv, Publishing, At
        <3>2. CASE ~Leave(p)
            <4>1. /\ job'[p].pc = "copy" /\ job'[p].created = job[p].created /\ tree' = tree
                  /\ job[p].pc = "resume" /\ \A e \in Top : tree[e] = "none"
                BY <2>0, <2>4, <3>2 DEF Preflight, Goto, At, Job
            <4>2. job'[p].created = 0
                BY <4>1 DEF TreeInv, Publishing, At
            <4>3. \A e \in Entry : tree[e] = "none"
                BY <2>0, <4>1, NothingStands DEF TreeInv
            <4>4. Made(tree', 0)
                BY DEF Made
            <4> QED BY <1>1, <4>1, <4>2, <4>3, <4>4, RestPublishes DEF TreeInv, Publishing, At
        <3> QED BY <3>1, <3>2
    <2>5. CASE CopyFails(p)
        <3>1. /\ job'[p].pc = "undo" /\ job'[p].created = job[p].created /\ tree' = tree
              /\ job[p].pc = "copy"
            BY <2>0, <2>5 DEF CopyFails, Goto, At, Job
        <3> QED BY <1>1, <3>1, RestPublishes DEF TreeInv, Publishing, At
    <2>6. CASE \/ Resume(p) \/ Undone(p) \/ Mark(p) \/ restoreProjectProfile(p)
               \/ install(p) \/ buildAndInstall(p) \/ Stop(p) \/ Killed(p)
        BY <1>1, <2>6, LaterSteps, RestPublishes DEF TreeInv, Publishing, At
    <2> QED BY <1>1, <2>1, <2>2, <2>3, <2>4, <2>5, <2>6 DEF Run, export
<1>2. ASSUME NEW e \in Entry, CreateEntry(e) PROVE TreeInv'
    BY <1>2, UserPublishes
<1>3. CASE UNCHANGED <<tree, job>>
    BY <1>3 DEF TreeInv, Publishing, At
<1>4. ASSUME NEW f \in File, Edit(f) \/ Settle(f) PROVE UNCHANGED <<tree, job>>
    BY <1>4 DEF Edit, Settle
<1>5. CASE Reattach \/ Rebuild \/ UNCHANGED vars
    BY <1>3, <1>5 DEF Reattach, Rebuild, vars
<1> QED BY <1>1, <1>2, <1>3, <1>4, <1>5 DEF Next

(* Nothing is there yet. *)
LEMMA InitTree == Init => TreeInv
<1> SUFFICES ASSUME Init PROVE TreeInv
    OBVIOUS
<1>1. Standing(tree)
    BY DEF Init, Standing
<1>2. \A p \in Process : job[p].pc = "idle"
    BY ContentsOK DEF Init
<1> QED BY <1>1, <1>2 DEF TreeInv, Publishing, At

-----------------------------------------------------------------------------
(* The configuration. *)

(* An edit that has been made. *)
Dated(c) == c.edit <= edits

(* A journal that would still be restored has what was last written.       *)
Kept(f) ==
    /\ config[f] = wanted[f] \/ (Journaled(f) /\ config[f] = journal[f].patched)
    /\ Journaled(f) /\ config[f] \in {journal[f].original, journal[f].patched}
          => journal[f].original = wanted[f]

Files ==
    \A f \in File :
        /\ Dated(config[f]) /\ Dated(journal[f].original) /\ Dated(journal[f].patched)
        /\ Kept(f)

Listed(f, todo) == \E i \in 1..Len(todo) : todo[i] = f

NoneJournaled == \A f \in File : ~Journaled(f)

(* What a run knows of the two files at each step. *)
Knows(p) ==
    /\ Dated(job[p].loaded) /\ Dated(job[p].original)
    /\ job[p].pc \in Stops \cup {"journal"} => NoneJournaled
    /\ At(p, "restore") /\ ~job[p].failed /\ job[p].next # "build" =>
          \A f \in File : Journaled(f) => Listed(f, job[p].todo)
    /\ At(p, "journal") => config["profile"] = job[p].original
    /\ At(p, "patch") =>
          Journaled("profile") /\ config["profile"] = journal["profile"].original
    /\ At(p, "depsJournal") =>
          /\ ~job[p].original.patched
          /\ \/ config["manifest"] = job[p].original
             \/ config["manifest"].edit > job[p].original.edit
    /\ At(p, "depsPatch") =>
          Journaled("manifest") /\ journal["manifest"].original = job[p].original

SetInv == Files /\ \A p \in Process : Knows(p)

(* A restoration that takes the first file of its list leaves the others.  *)
LEMMA ListedTail ==
    ASSUME NEW todo \in Todos, todo # <<>>, NEW f \in File, Listed(f, todo)
    PROVE  f = Head(todo) \/ Listed(f, Tail(todo))
<1>1. CASE todo = <<"manifest">>
    BY <1>1 DEF Listed
<1>2. CASE todo = <<"profile", "manifest">>
    <2>1. Tail(todo) = <<"manifest">> /\ Head(todo) = "profile"
        BY <1>2
    <2>2. Len(<<"manifest">>) = 1 /\ <<"manifest">>[1] = "manifest"
        OBVIOUS
    <2>3. 1 \in 1..1
        OBVIOUS
    <2>4. Listed("manifest", Tail(todo))
        BY <2>1, <2>2, <2>3 DEF Listed
    <2> QED BY <2>1, <2>4 DEF File
<1>3. CASE todo = <<"manifest", "profile", "manifest">>
    <2>1. Tail(todo) = <<"profile", "manifest">> /\ Head(todo) = "manifest"
        BY <1>3
    <2>2. Len(<<"profile", "manifest">>) = 2 /\ <<"profile", "manifest">>[1] = "profile"
        OBVIOUS
    <2>3. 1 \in 1..2
        OBVIOUS
    <2>4. Listed("profile", Tail(todo))
        BY <2>1, <2>2, <2>3 DEF Listed
    <2> QED BY <2>1, <2>4 DEF File
<1> QED BY <1>1, <1>2, <1>3 DEF Todos

(* A restoration of both files lists each; an empty list none.             *)
LEMMA BothListed == \A f \in File : Listed(f, Both) /\ ~Listed(f, <<>>)
<1>1. Len(Both) = 2 /\ Both[1] = "profile" /\ Both[2] = "manifest"
    BY DEF Both
<1> QED BY <1>1 DEF Listed, File

(* The others know nothing that changes. *)
LEMMA OthersKnow ==
    ASSUME Base, SetInv, NEW p \in Process, Run(p) \/ Killed(p)
    PROVE  \A q \in Process \ {p} : Knows(q)'
<1>1. edits' = edits
    BY Changes
<1>2. "idle" \notin Stops
    BY DEF Stops
<1> QED BY <1>1, <1>2, OthersRest DEF SetInv, Knows, At, Dated

(* A run that goes on where nothing is known, with the files as they were. *)
LEMMA GoesOn ==
    ASSUME Base, SetInv, NEW p \in Process, Run(p) \/ Killed(p), UNCHANGED settings,
           job'[p].loaded \in {job[p].loaded, Exported, config["profile"]},
           job'[p].original \in {job[p].original, Exported},
           \/ job'[p].pc \in {"idle", "resume", "copy", "undo", "outputs", "deps", "ohpm", "build"}
           \/ job'[p].pc = "restore" /\ (job'[p].failed \/ job'[p].next = "build")
           \/ job'[p].pc = "restore" /\ job'[p].todo = Both
           \/ job'[p].pc \in Stops /\ NoneJournaled
    PROVE  SetInv'
<1> USE DEF settings
<1>1. edits' = edits /\ edits \in Nat
    BY Changes, ExportAssumption DEF Base, TypeOK
<1>2. Files'
    BY <1>1 DEF SetInv, Files, Dated, Kept, Journaled
<1>3. Dated(job[p].loaded) /\ Dated(job[p].original) /\ Dated(config["profile"]) /\ Dated(Exported)
    BY <1>1 DEF SetInv, Knows, Files, File, Dated, Exported
<1>4. Knows(p)'
    BY <1>1, <1>3, BothListed DEF Knows, At, Dated, Stops, NoneJournaled, Journaled
<1> QED BY <1>2, <1>4, OthersKnow DEF SetInv

(* Publishing has no part in the configuration.                            *)
LEMMA ExportKeeps ==
    ASSUME Base, SetInv, NEW p \in Process, export(p)
    PROVE  SetInv'
<1>0. job \in [Process -> Job] /\ job[p] \in Job /\ Run(p)
    BY DEF Base, TypeOK, Run
<1>1. ASSUME Leave(p)
      PROVE  job'[p].loaded = Exported /\ job'[p].original = Exported /\ job'[p].pc = "idle"
    BY <1>0, <1>1 DEF Leave, Resting
<1>2. CASE Enter(p)
    <2>1. job'[p].loaded = Exported /\ job'[p].original = Exported /\ job'[p].pc = "resume"
        BY <1>0, <1>2 DEF Enter, Resting
    <2> QED BY <1>0, <1>2, <2>1, GoesOn DEF Enter
<1>3. CASE Resume(p) \/ Mark(p)
    <2>1. UNCHANGED settings
        BY <1>3 DEF Resume, Mark
    <2>2. CASE Leave(p)
        BY <1>0, <1>1, <2>1, <2>2, GoesOn
    <2>3. CASE ~Leave(p)
        <3>1. /\ job'[p].pc = "restore" /\ job'[p].todo = Both
              /\ job'[p].loaded = job[p].loaded /\ job'[p].original = job[p].original
            BY <1>0, <1>3, <2>3 DEF Resume, Mark, Job, Both
        <3> QED BY <1>0, <2>1, <3>1, GoesOn
    <2> QED BY <2>2, <2>3
<1>4. CASE Preflight(p) \/ CopyFails(p) \/ Copy(p) \/ Undo(p) \/ Undone(p)
    <2>1. UNCHANGED settings
        BY <1>4 DEF Preflight, CopyFails, Copy, Undo, Undone
    <2>2. CASE Leave(p)
        BY <1>0, <1>1, <2>1, <2>2, GoesOn
    <2>3. CASE ~Leave(p)
        <3>1. /\ job'[p].pc \in {"copy", "undo"}
              /\ job'[p].loaded = job[p].loaded /\ job'[p].original = job[p].original
            BY <1>0, <1>4, <2>3 DEF Preflight, CopyFails, Copy, Undo, Undone, Goto, At, Job
        <3> QED BY <1>0, <2>1, <3>1, GoesOn
    <2> QED BY <2>2, <2>3
<1> QED BY <1>2, <1>3, <1>4 DEF export

(* A file is put back only from a journal that has what it should hold,    *)
(* and a journal is dropped only when it is back.                          *)
LEMMA RestoreKeeps ==
    ASSUME Base, SetInv, NEW p \in Process, restoreProjectProfile(p)
    PROVE  SetInv'
<1>0. /\ job \in [Process -> Job] /\ job[p] \in Job /\ job[p].todo \in Todos /\ Run(p)
      /\ config \in [File -> Content] /\ wanted \in [File -> Content]
      /\ journal \in [File -> Journal] /\ edits \in Nat
    BY ExportAssumption DEF Base, TypeOK, Job, Run
<1>e. edits' = edits
    BY <1>0, Changes
<1>k. Files /\ Knows(p)
    BY DEF SetInv
<1>1. ASSUME NEW f \in File, Restoring(p, f), job' = Done(p)
      PROVE  /\ job'[p].pc = "restore" /\ job[p].pc = "restore" /\ job'[p].todo = Tail(job[p].todo)
             /\ job'[p].failed = job[p].failed /\ job'[p].next = job[p].next
             /\ job'[p].loaded = job[p].loaded /\ job'[p].original = job[p].original
             /\ \A g \in File : Listed(g, job[p].todo) => g = f \/ Listed(g, job'[p].todo)
    <2>1. /\ job'[p].pc = "restore" /\ job[p].pc = "restore" /\ job'[p].todo = Tail(job[p].todo)
          /\ job'[p].failed = job[p].failed /\ job'[p].next = job[p].next
          /\ job'[p].loaded = job[p].loaded /\ job'[p].original = job[p].original
        BY <1>0, <1>1 DEF Restoring, Done, At, Job
    <2>2. job[p].todo # <<>> /\ f = Head(job[p].todo)
        BY <1>1 DEF Restoring
    <2> QED BY <1>0, <2>1, <2>2, ListedTail
<1>2. ASSUME NEW f \in File, NothingToRestore(p, f) PROVE SetInv'
    <2>1. Restoring(p, f) /\ job' = Done(p) /\ UNCHANGED settings /\ ~Journaled(f)
        BY <1>2 DEF NothingToRestore
    <2>2. Files'
        BY <1>e, <1>k, <2>1 DEF settings, Files, Dated, Kept, Journaled
    <2>3. Knows(p)'
        BY <1>1, <1>e, <1>k, <2>1 DEF settings, Knows, At, Dated, Stops, NoneJournaled, Journaled
    <2> QED BY <1>0, <2>2, <2>3, OthersKnow DEF SetInv
<1>3. ASSUME NEW f \in File, PutBack(p, f) PROVE SetInv'
    <2>1. /\ job' = job /\ journal' = journal /\ wanted' = wanted /\ Journaled(f)
          /\ config' = [config EXCEPT ![f] = journal[f].original]
          /\ config[f] = journal[f].patched /\ At(p, "restore")
        BY <1>3 DEF PutBack, IsPatched, Restoring
    <2>2. config'[f] = journal[f].original /\ \A g \in File \ {f} : config'[g] = config[g]
        BY <1>0, <2>1
    <2>3. journal[f].original = wanted[f]
        BY <1>k, <2>1 DEF Files, Kept
    <2>4. Files'
        BY <1>e, <1>k, <2>1, <2>2, <2>3 DEF Files, Dated, Kept, Journaled
    <2>5. Knows(p)'
        BY <1>e, <1>k, <2>1 DEF Knows, At, Dated, Stops, NoneJournaled, Journaled
    <2> QED BY <1>0, <2>4, <2>5, OthersKnow DEF SetInv
<1>4. ASSUME NEW f \in File, DropJournal(p, f) PROVE SetInv'
    <2>1. /\ Restoring(p, f) /\ job' = Done(p) /\ config' = config /\ wanted' = wanted
          /\ journal' = [journal EXCEPT ![f] = NoJournal] /\ Journaled(f)
          /\ config[f] = journal[f].original
        BY <1>4 DEF DropJournal
    <2>2. journal'[f] = NoJournal /\ \A g \in File \ {f} : journal'[g] = journal[g]
        BY <1>0, <2>1
    <2>3. wanted[f] = config[f]
        BY <1>k, <2>1 DEF Files, Kept
    <2>4. Dated(NoJournal.original) /\ Dated(NoJournal.patched)
        BY <1>0 DEF NoJournal, Exported, Dated
    <2>5. Files'
        BY <1>e, <1>k, <2>1, <2>2, <2>3, <2>4 DEF Files, Dated, Kept, Journaled
    <2>6. Knows(p)'
        BY <1>1, <1>e, <1>k, <2>1, <2>2 DEF Knows, At, Dated, Stops, NoneJournaled, Journaled
    <2> QED BY <1>0, <2>5, <2>6, OthersKnow DEF SetInv
<1>5. ASSUME NEW f \in File, CannotRestore(p, f) PROVE SetInv'
    <2>1. /\ job'[p].pc = "restore" /\ job'[p].failed
          /\ job'[p].loaded = job[p].loaded /\ job'[p].original = job[p].original
        BY <1>0, <1>5 DEF CannotRestore, Restoring, Done, At, Job
    <2> QED BY <1>0, <1>5, <2>1, GoesOn DEF CannotRestore
<1>6. ASSUME Restored(p) PROVE SetInv'
    <2>0. UNCHANGED settings /\ job[p].pc = "restore" /\ job[p].todo = <<>>
        BY <1>6 DEF Restored, At
    <2>1. CASE Leave(p)
        <3>1. job'[p].loaded = Exported /\ job'[p].original = Exported /\ job'[p].pc = "idle"
            BY <1>0, <2>1 DEF Leave, Resting
        <3> QED BY <1>0, <2>0, <3>1, GoesOn
    <2>2. CASE ~job[p].failed /\ Goto(p, job[p].next)
        <3>1. /\ job'[p].pc = job[p].next
              /\ job'[p].loaded = job[p].loaded /\ job'[p].original = job[p].original
            BY <1>0, <2>2 DEF Goto, Job
        <3>2. CASE job[p].next = "build"
            BY <1>0, <2>0, <3>1, <3>2, GoesOn
        <3>3. CASE job[p].next # "build"
            <4>1. job[p].next \in {"load", "stamps"}
                BY <1>0, <2>0, <2>2, <3>3 DEF Base, Controls, At, Job
            <4>2. NoneJournaled
                BY <1>k, <2>0, <2>2, <3>3, BothListed DEF Knows, At, NoneJournaled
            <4> QED BY <1>0, <2>0, <3>1, <4>1, <4>2, GoesOn DEF Stops
        <3> QED BY <3>2, <3>3
    <2>3. CASE job[p].failed /\ job' = [job EXCEPT ![p].todo = Both, ![p].next = "idle"]
        <3>1. /\ job'[p].pc = "restore" /\ job'[p].failed
              /\ job'[p].loaded = job[p].loaded /\ job'[p].original = job[p].original
            BY <1>0, <2>0, <2>3 DEF Job
        <3> QED BY <1>0, <2>0, <3>1, GoesOn
    <2> QED BY <1>6, <2>1, <2>2, <2>3 DEF Restored
<1> QED BY <1>2, <1>3, <1>4, <1>5, <1>6 DEF restoreProjectProfile

(* Signing writes the profile while no journal waits.                      *)
LEMMA InstallKeeps ==
    ASSUME Base, SetInv, NEW p \in Process, install(p)
    PROVE  SetInv'
<1>0. /\ job \in [Process -> Job] /\ job[p] \in Job /\ Run(p)
      /\ config \in [File -> Content] /\ wanted \in [File -> Content]
      /\ journal \in [File -> Journal] /\ edits \in Nat
    BY ExportAssumption DEF Base, TypeOK, Run
<1>e. edits' = edits
    BY <1>0, Changes
<1>k. Files /\ Knows(p)
    BY DEF SetInv
<1>n. NoneJournaled
    BY <1>k DEF install, LoadMetadata, PrepareTools, SelectDevice, VerifyMaterial,
                GenerateSigning, Knows, At, Stops
<1>1. CASE LoadMetadata(p) \/ PrepareTools(p) \/ SelectDevice(p) \/ VerifyMaterial(p)
    <2>1. /\ UNCHANGED settings
          /\ job'[p].pc \in {"prepare", "select", "material", "fresh", "sign"}
          /\ job'[p].loaded \in {job[p].loaded, config["profile"]}
          /\ job'[p].original = job[p].original
        BY <1>0, <1>1 DEF LoadMetadata, PrepareTools, SelectDevice, VerifyMaterial, Goto, Job
    <2> QED BY <1>0, <1>n, <2>1, GoesOn DEF Stops
<1>2. CASE GenerateSigning(p)
    <2> DEFINE signed == [config["profile"] EXCEPT !.signed = TRUE]
    <2>1. /\ config' = [config EXCEPT !["profile"] = signed]
          /\ wanted' = [wanted EXCEPT !["profile"] = signed]
          /\ job'[p].pc = "fresh" /\ job'[p].loaded = signed
          /\ job'[p].original = job[p].original /\ journal' = journal
        BY <1>0, <1>2 DEF GenerateSigning, Job
    <2>2. signed.edit = config["profile"].edit
        BY <1>0, ContentsOK DEF File
    <2> HIDE DEF signed
    <2>3. /\ config'["profile"] = signed /\ wanted'["profile"] = signed
          /\ config'["manifest"] = config["manifest"] /\ wanted'["manifest"] = wanted["manifest"]
        BY <1>0, <2>1 DEF File
    <2>4. Dated(signed)
        BY <1>k, <2>2 DEF Files, File, Dated
    <2>5. Files'
        BY <1>e, <1>k, <1>n, <2>1, <2>3, <2>4
           DEF Files, File, Dated, Kept, NoneJournaled, Journaled
    <2>6. Knows(p)'
        BY <1>e, <1>k, <1>n, <2>1, <2>4 DEF Knows, At, Dated, NoneJournaled, Journaled
    <2> QED BY <1>0, <2>5, <2>6, OthersKnow DEF SetInv
<1> QED BY <1>1, <1>2 DEF install

(* Each journal is written before its file is patched, and a manifest that *)
(* was edited since it was read has a later date than the journal.         *)
LEMMA BuildKeeps ==
    ASSUME Base, SetInv, NEW p \in Process, buildAndInstall(p)
    PROVE  SetInv'
<1>0. /\ job \in [Process -> Job] /\ job[p] \in Job /\ Run(p)
      /\ config \in [File -> Content] /\ wanted \in [File -> Content]
      /\ journal \in [File -> Journal] /\ edits \in Nat
    BY ExportAssumption DEF Base, TypeOK, Run
<1>e. edits' = edits
    BY <1>0, Changes
<1>k. Files /\ Knows(p)
    BY DEF SetInv
<1>g. ASSUME NEW to, Goto(p, to)
      PROVE  /\ job'[p].pc = to
             /\ job'[p].loaded = job[p].loaded /\ job'[p].original = job[p].original
    BY <1>0, <1>g DEF Goto, Job
<1>l. ASSUME Leave(p), UNCHANGED settings PROVE SetInv'
    <2>1. job'[p].loaded = Exported /\ job'[p].original = Exported /\ job'[p].pc = "idle"
        BY <1>0, <1>l DEF Leave, Resting
    <2> QED BY <1>0, <1>l, <2>1, GoesOn
<1>1. CASE CheckFresh(p) \/ Snapshot(p) \/ VerifyPackage(p) \/ Recheck(p)
    <2>1. /\ UNCHANGED settings /\ job[p].pc \in Stops
          /\ job'[p].pc \in {"read", "verify", "recheck", "install"}
          /\ job'[p].loaded = job[p].loaded /\ job'[p].original = job[p].original
        BY <1>0, <1>1 DEF CheckFresh, Snapshot, VerifyPackage, Recheck, Goto, At, Stops, Job
    <2>2. NoneJournaled
        BY <1>k, <2>1 DEF Knows
    <2> QED BY <1>0, <2>1, <2>2, GoesOn DEF Stops
<1>2. CASE ReadProfile(p)
    <2>1. /\ UNCHANGED settings /\ job[p].pc = "read" /\ job'[p].pc = "journal"
          /\ job'[p].loaded = job[p].loaded /\ job'[p].original = config["profile"]
        BY <1>0, <1>2 DEF ReadProfile, At, Job
    <2>2. Files'
        BY <1>e, <1>k, <2>1 DEF settings, Files, Dated, Kept, Journaled
    <2>3. Knows(p)'
        BY <1>e, <1>k, <2>1 DEF settings, Knows, At, Dated, Stops, NoneJournaled, Journaled, Files, File
    <2> QED BY <1>0, <2>2, <2>3, OthersKnow DEF SetInv
<1>3. CASE JournalProfile(p)
    <2> DEFINE new == [original |-> job[p].original, patched |-> Patch(job[p].loaded)]
    <2>1. /\ journal' = [journal EXCEPT !["profile"] = new]
          /\ config' = config /\ wanted' = wanted /\ job[p].pc = "journal" /\ job'[p].pc = "patch"
          /\ job'[p].loaded = job[p].loaded /\ job'[p].original = job[p].original
        BY <1>g, <1>3 DEF JournalProfile, At
    <2>2. /\ new.original = job[p].original /\ new # NoJournal
          /\ Dated(new.original) /\ Dated(new.patched)
        <3>1. job[p].loaded \in Content
            BY <1>0 DEF Job
        <3>a. ~Exported.patched
            BY DEF Exported
        <3>2. Patch(job[p].loaded).edit = job[p].loaded.edit /\ Patch(job[p].loaded) # Exported
            BY <3>1, <3>a, ContentsOK
        <3> QED BY <1>k, <3>2 DEF Knows, Dated, NoJournal
    <2> HIDE DEF new
    <2>3. journal'["profile"] = new /\ journal'["manifest"] = journal["manifest"]
        BY <1>0, <2>1 DEF File
    <2>4. NoneJournaled /\ config["profile"] = job[p].original
        BY <1>k, <2>1 DEF Knows, At
    <2>5. Files'
        BY <1>e, <1>k, <2>1, <2>2, <2>3, <2>4
           DEF Files, File, Dated, Kept, NoneJournaled, Journaled
    <2>6. Knows(p)'
        BY <1>e, <1>k, <2>1, <2>2, <2>3, <2>4 DEF Knows, At, Dated, Stops, Journaled
    <2> QED BY <1>0, <2>5, <2>6, OthersKnow DEF SetInv
<1>4. CASE PatchProfile(p)
    <2>1. /\ config' = [config EXCEPT !["profile"] = journal["profile"].patched]
          /\ journal' = journal /\ wanted' = wanted /\ job[p].pc = "patch" /\ job'[p].pc = "outputs"
          /\ job'[p].loaded = job[p].loaded /\ job'[p].original = job[p].original
        BY <1>g, <1>4 DEF PatchProfile, At
    <2>2. /\ config'["profile"] = journal["profile"].patched
          /\ config'["manifest"] = config["manifest"]
        BY <1>0, <2>1 DEF File
    <2>3. Journaled("profile") /\ journal["profile"].original = wanted["profile"]
        BY <1>k, <2>1 DEF Knows, At, Files, File, Kept
    <2>4. Files'
        BY <1>e, <1>k, <2>1, <2>2, <2>3 DEF Files, File, Dated, Kept, Journaled
    <2>5. Knows(p)'
        BY <1>e, <1>k, <2>1 DEF Knows, At, Dated, Stops
    <2> QED BY <1>0, <2>4, <2>5, OthersKnow DEF SetInv
<1>5. CASE CannotPatch(p) \/ Confirm(p)
    BY <1>5, <1>l DEF CannotPatch, Confirm
<1>6. CASE PackageOutputs(p) \/ Ohpm(p) \/ Build(p) \/ Unwind(p)
    <2>1. /\ UNCHANGED settings
          /\ job'[p].loaded = job[p].loaded /\ job'[p].original = job[p].original
          /\ \/ job'[p].pc = "deps"
             \/ job'[p].pc = "restore" /\ (job'[p].failed \/ job'[p].next = "build")
             \/ job'[p].pc = "restore" /\ job'[p].todo = Both
        <3>1. CASE PackageOutputs(p)
            BY <1>0, <3>1 DEF PackageOutputs, Job
        <3>2. CASE Ohpm(p) \/ Build(p)
            BY <1>0, <3>2 DEF Ohpm, Build, RestoreThen, Job
        <3>3. CASE Unwind(p)
            BY <1>0, <3>3 DEF Unwind, Unwound, Job
        <3> QED BY <1>6, <3>1, <3>2, <3>3
    <2> QED BY <1>0, <2>1, GoesOn
<1>7. CASE ReadManifest(p)
    <2>1. UNCHANGED settings
        BY <1>7 DEF ReadManifest
    <2>2. CASE Goto(p, "ohpm")
        BY <1>0, <1>g, <2>1, <2>2, GoesOn
    <2>3. CASE ~Goto(p, "ohpm")
        <3>1. /\ ~config["manifest"].patched /\ job'[p].pc = "depsJournal"
              /\ job'[p].loaded = job[p].loaded /\ job'[p].original = config["manifest"]
            BY <1>0, <1>7, <2>3 DEF ReadManifest, Job
        <3>2. Files'
            BY <1>e, <1>k, <2>1 DEF settings, Files, Dated, Kept, Journaled
        <3>3. Knows(p)'
            BY <1>e, <1>k, <2>1, <3>1 DEF settings, Knows, At, Dated, Stops, Files, File
        <3> QED BY <1>0, <3>2, <3>3, OthersKnow DEF SetInv
    <2> QED BY <2>2, <2>3
<1>8. CASE SaveRecovery(p)
    <2> DEFINE new == [original |-> job[p].original, patched |-> Patch(job[p].original)]
    <2>1. /\ journal' = [journal EXCEPT !["manifest"] = new] /\ ~Journaled("manifest")
          /\ config' = config /\ wanted' = wanted
          /\ job[p].pc = "depsJournal" /\ job'[p].pc = "depsPatch"
          /\ job'[p].loaded = job[p].loaded /\ job'[p].original = job[p].original
        BY <1>g, <1>8 DEF SaveRecovery, At
    <2>2. /\ new.original = job[p].original /\ new # NoJournal
          /\ new.patched.edit = job[p].original.edit
          /\ Dated(new.original) /\ Dated(new.patched)
        <3>1. job[p].original \in Content
            BY <1>0 DEF Job
        <3>a. ~Exported.patched
            BY DEF Exported
        <3>2. /\ Patch(job[p].original).edit = job[p].original.edit
              /\ Patch(job[p].original) # Exported
            BY <3>1, <3>a, ContentsOK
        <3> QED BY <1>k, <3>2 DEF Knows, Dated, NoJournal
    <2> HIDE DEF new
    <2>3. journal'["manifest"] = new /\ journal'["profile"] = journal["profile"]
        BY <1>0, <2>1 DEF File
    <2>4. config["manifest"] = wanted["manifest"]
        BY <1>k, <2>1 DEF Files, File, Kept
    <2>5. /\ config["manifest"] \in {new.original, new.patched}
             => new.original = wanted["manifest"]
        <3>1. CASE config["manifest"] = job[p].original
            BY <2>2, <2>4, <3>1
        <3>2. CASE config["manifest"].edit > job[p].original.edit
            <4>1. config["manifest"].edit \in Nat /\ job[p].original.edit \in Nat
                BY <1>0, ExportAssumption DEF Job, Content, File
            <4>2. config["manifest"].edit # job[p].original.edit
                BY <3>2, <4>1
            <4> QED BY <2>2, <4>2
        <3> QED BY <1>k, <2>1, <3>1, <3>2 DEF Knows, At
    <2>6. Files'
        BY <1>e, <1>k, <2>1, <2>2, <2>3, <2>4, <2>5 DEF Files, File, Dated, Kept, Journaled
    <2>7. Knows(p)'
        BY <1>e, <1>k, <2>1, <2>2, <2>3 DEF Knows, At, Dated, Stops, Journaled
    <2> QED BY <1>0, <2>6, <2>7, OthersKnow DEF SetInv
<1>9. CASE PatchManifest(p)
    <2>1. /\ config' = [config EXCEPT !["manifest"] = journal["manifest"].patched]
          /\ config["manifest"] = job[p].original
          /\ journal' = journal /\ wanted' = wanted /\ job[p].pc = "depsPatch" /\ job'[p].pc = "ohpm"
          /\ job'[p].loaded = job[p].loaded /\ job'[p].original = job[p].original
        BY <1>g, <1>9 DEF PatchManifest, UnchangedManifest, At
    <2>2. /\ config'["manifest"] = journal["manifest"].patched
          /\ config'["profile"] = config["profile"]
        BY <1>0, <2>1 DEF File
    <2>3. Journaled("manifest") /\ journal["manifest"].original = wanted["manifest"]
        BY <1>k, <2>1 DEF Knows, At, Files, File, Kept
    <2>4. Files'
        BY <1>e, <1>k, <2>1, <2>2, <2>3 DEF Files, File, Dated, Kept, Journaled
    <2>5. Knows(p)'
        BY <1>e, <1>k, <2>1 DEF Knows, At, Dated, Stops
    <2> QED BY <1>0, <2>4, <2>5, OthersKnow DEF SetInv
<1>10. CASE Install(p)
    <2>1. UNCHANGED settings /\ job[p].pc \in Stops
        BY <1>10 DEF Install, settings, At, Stops
    <2>2. CASE Leave(p)
        BY <1>l, <2>1, <2>2
    <2>3. CASE Goto(p, "confirm")
        <3>1. NoneJournaled
            BY <1>k, <2>1 DEF Knows
        <3>2. "confirm" \in Stops
            BY DEF Stops
        <3> QED BY <1>0, <1>g, <2>1, <2>3, <3>1, <3>2, GoesOn
    <2> QED BY <1>10, <2>2, <2>3 DEF Install
<1> QED BY <1>1, <1>2, <1>3, <1>4, <1>5, <1>6, <1>7, <1>8, <1>9, <1>10 DEF buildAndInstall

(* An edit is later than every journal, so none that it outdates can be    *)
(* mistaken for the file's; a journal is only settled when no run is on.   *)
LEMMA UserKeeps ==
    ASSUME Base, SetInv, NEW f \in File, Edit(f) \/ Settle(f)
    PROVE  SetInv'
<1>0. /\ job \in [Process -> Job] /\ config \in [File -> Content]
      /\ wanted \in [File -> Content] /\ journal \in [File -> Journal] /\ edits \in Nat
    BY ExportAssumption DEF Base, TypeOK
<1>k. Files /\ \A p \in Process : Knows(p)
    BY DEF SetInv
<1>1. CASE Edit(f)
    <2> DEFINE new == [config[f] EXCEPT !.edit = edits + 1]
    <2>1. /\ edits' = edits + 1 /\ job' = job /\ journal' = journal /\ ~Unwatched(f)
          /\ config' = [config EXCEPT ![f] = new] /\ wanted' = [wanted EXCEPT ![f] = config'[f]]
        BY <1>1 DEF Edit
    <2>2. new.edit = edits + 1
        BY <1>0 DEF Content
    <2> HIDE DEF new
    <2>3. /\ config'[f] = new /\ wanted'[f] = new
          /\ \A g \in File \ {f} : config'[g] = config[g] /\ wanted'[g] = wanted[g]
        BY <1>0, <2>1
    <2>4. ASSUME NEW c \in Content, Dated(c) PROVE c # new /\ Dated(c)' /\ c.edit < new.edit
        <3>1. c.edit \in Nat
            BY ExportAssumption DEF Content
        <3>2. c.edit <= edits
            BY <2>4 DEF Dated
        <3> QED BY <1>0, <2>1, <2>2, <3>1, <3>2 DEF Dated
    <2>5. new.edit <= edits'
        BY <1>0, <2>1, <2>2
    <2>6. \A g \in File : /\ config[g] \in Content /\ journal[g].original \in Content
                         /\ journal[g].patched \in Content
        BY <1>0 DEF Journal
    <2>7. Files'
        <3> SUFFICES ASSUME NEW g \in File
                     PROVE  /\ Dated(config[g])' /\ Dated(journal[g].original)'
                            /\ Dated(journal[g].patched)' /\ Kept(g)'
            BY DEF Files
        <3>1. /\ Dated(config[g]) /\ Dated(journal[g].original) /\ Dated(journal[g].patched)
              /\ Kept(g)
            BY <1>k DEF Files
        <3>2. Dated(journal[g].original)' /\ Dated(journal[g].patched)'
            BY <2>1, <2>4, <2>6, <3>1 DEF Dated
        <3>3. CASE g = f
            <4>1. journal[g].original # new /\ journal[g].patched # new
                BY <2>4, <2>6, <3>1
            <4>2. Kept(g)'
                BY <2>1, <2>3, <3>3, <4>1 DEF Kept
            <4> QED BY <2>3, <2>5, <3>2, <3>3, <4>2 DEF Dated
        <3>4. CASE g # f
            BY <2>1, <2>3, <2>4, <2>6, <3>1, <3>2, <3>4 DEF Kept, Dated, Journaled
        <3> QED BY <3>3, <3>4
    <2>8. ASSUME NEW p \in Process PROVE Knows(p)'
        <3>1. job[p].loaded \in Content /\ job[p].original \in Content
            BY <1>0 DEF Job
        <3>2. Dated(job[p].loaded) /\ Dated(job[p].original)
            BY <1>k DEF Knows
        <3>3. Dated(job[p].loaded)' /\ Dated(job[p].original)'
            BY <2>1, <2>4, <3>1, <3>2 DEF Dated
        <3>4. job[p].original.edit < new.edit
            BY <2>4, <3>1, <3>2
        <3>5. job[p].pc \in {"journal", "patch"} => config'["profile"] = config["profile"]
            BY <2>1, <2>3 DEF Unwatched, File
        <3>6. At(p, "depsJournal")' => (/\ ~job[p].original.patched
                 /\ \/ config["manifest"] = job[p].original
                    \/ config["manifest"].edit > job[p].original.edit)'
            <4>1. config'["manifest"] = new \/ config'["manifest"] = config["manifest"]
                BY <2>3 DEF File
            <4>2. new.edit > job[p].original.edit
                BY <1>0, <2>2, <3>1, <3>4, ExportAssumption DEF Content
            <4> QED BY <1>k, <2>1, <4>1, <4>2 DEF Knows, At
        <3> QED BY <1>k, <2>1, <3>3, <3>5, <3>6 DEF Knows, At, Journaled, NoneJournaled
    <2> QED BY <2>7, <2>8 DEF SetInv
<1>2. CASE Settle(f)
    <2>1. /\ lock = Nobody /\ job' = job /\ config' = config /\ wanted' = wanted /\ edits' = edits
          /\ journal' = [journal EXCEPT ![f] = NoJournal]
          /\ config[f] \notin {journal[f].original, journal[f].patched}
        BY <1>2 DEF Settle, bounds
    <2>2. \A p \in Process : At(p, "idle")
        BY <2>1, ExportAssumption DEF Base, Controls
    <2>3. \A p \in Process : Knows(p)'
        BY <1>k, <2>1, <2>2 DEF Knows, At, Dated, Stops
    <2>4. journal'[f] = NoJournal /\ \A g \in File \ {f} : journal'[g] = journal[g]
        BY <1>0, <2>1
    <2>5. config[f] = wanted[f]
        BY <1>k, <2>1 DEF Files, Kept
    <2>6. Dated(NoJournal.original) /\ Dated(NoJournal.patched)
        BY <1>0 DEF NoJournal, Exported, Dated
    <2>7. Files'
        BY <1>k, <2>1, <2>4, <2>5, <2>6 DEF Files, Dated, Kept, Journaled
    <2> QED BY <2>3, <2>7 DEF SetInv
<1> QED BY <1>1, <1>2

(* The files are as they were exported. *)
LEMMA InitSet == Init => SetInv
<1> SUFFICES ASSUME Init PROVE SetInv
    OBVIOUS
<1>1. \A f \in File : config[f] = Exported /\ wanted[f] = Exported /\ journal[f] = NoJournal
    BY DEF Init
<1>2. Dated(Exported) /\ NoJournal.original = Exported /\ NoJournal.patched = Exported
    BY DEF Init, Dated, Exported, NoJournal
<1>3. Files
    BY <1>1, <1>2 DEF Files, Kept, Journaled
<1>4. \A p \in Process : job[p].pc = "idle" /\ job[p].loaded = Exported /\ job[p].original = Exported
    BY DEF Init, Resting
<1>5. "idle" \notin Stops
    BY DEF Stops
<1> QED BY <1>2, <1>3, <1>4, <1>5 DEF SetInv, Knows, At

(* Every step keeps the configuration as the runs know it.                 *)
LEMMA NextSet == Base /\ SetInv /\ [Next]_vars => SetInv'
<1> SUFFICES ASSUME Base, SetInv, [Next]_vars PROVE SetInv'
    OBVIOUS
<1>1. ASSUME NEW p \in Process, Run(p) \/ Killed(p) PROVE SetInv'
    <2>1. CASE Stop(p) \/ Killed(p)
        <3>1. UNCHANGED settings /\ Leave(p)
            BY <2>1 DEF Stop, Killed
        <3>2. job'[p].loaded = Exported /\ job'[p].original = Exported /\ job'[p].pc = "idle"
            BY <3>1 DEF Leave, Resting, Base, TypeOK
        <3> QED BY <1>1, <3>1, <3>2, GoesOn
    <2> QED BY <1>1, <2>1, ExportKeeps, RestoreKeeps, InstallKeeps, BuildKeeps DEF Run
<1>2. ASSUME NEW f \in File, Edit(f) \/ Settle(f) PROVE SetInv'
    BY <1>2, UserKeeps
<1>3. ASSUME (\E e \in Entry : CreateEntry(e)) \/ Reattach \/ Rebuild \/ UNCHANGED vars
      PROVE SetInv'
    <2>1. UNCHANGED <<config, journal, wanted, edits, job>>
        BY <1>3 DEF CreateEntry, Reattach, Rebuild, vars, settings, bounds
    <2> QED BY <2>1 DEF SetInv, Files, Kept, Journaled, Knows, NoneJournaled, Dated, At
<1> QED BY <1>1, <1>2, <1>3 DEF Next

-----------------------------------------------------------------------------
(* The device. *)

(* What a run has verified stays true until it installs.                   *)
Verified(p) ==
    /\ job[p].pc \in {"recheck", "install", "confirm"} => job[p].snapshot.unit = job[p].udid
    /\ At(p, "install") => attached = job[p].udid

DevInv == InstalledIsVerified /\ \A p \in Process : Verified(p)

(* The unit is asked for its identity again before it is installed on.     *)
LEMMA NextDev == Base /\ DevInv /\ [Next]_vars => DevInv'
<1> SUFFICES ASSUME Base, DevInv, [Next]_vars PROVE DevInv'
    OBVIOUS
<1>1. ASSUME NEW p \in Process, Run(p) \/ Killed(p) PROVE DevInv'
    <2>0. /\ job \in [Process -> Job] /\ job[p] \in Job /\ Verified(p)
          /\ installed \in [Unit -> Package] /\ attached' = attached
        BY <1>1, Changes DEF Base, TypeOK, DevInv
    <2>1. \A q \in Process \ {p} : Verified(q)'
        BY <1>1, <2>0, OthersRest DEF DevInv, Verified, At
    <2>2. InstalledIsVerified'
        <3>1. CASE Install(p)
            <4>1. /\ attached \in Unit /\ installed' = [installed EXCEPT ![attached] = job[p].snapshot]
                  /\ job[p].snapshot.unit = attached
                BY <2>0, <3>1 DEF Install, Verified, At, Base, TypeOK
            <4> QED BY <2>0, <4>1 DEF DevInv, InstalledIsVerified
        <3> QED BY <1>1, <3>1, Changes DEF DevInv, InstalledIsVerified
    <2>3. Verified(p)'
        <3>1. CASE VerifyPackage(p) \/ Recheck(p)
            BY <2>0, <3>1 DEF VerifyPackage, Recheck, SameDevice, Goto, Verified, At, Job
        <3>2. CASE Install(p)
            BY <2>0, <3>2 DEF Install, Leave, Goto, Resting, Verified, At, Job
        <3>3. ASSUME job'[p].pc \notin {"recheck", "install", "confirm"} PROVE Verified(p)'
            BY <3>3 DEF Verified, At
        <3>4. CASE export(p)
            <4>1. CASE Leave(p)
                BY <2>0, <3>3, <4>1 DEF Leave, Resting
            <4>2. CASE Enter(p)
                BY <2>0, <3>3, <4>2 DEF Enter, Resting
            <4>3. CASE Resume(p) \/ Mark(p)
                BY <2>0, <3>3, <4>1, <4>3 DEF Resume, Mark, At, Job
            <4>4. CASE Preflight(p) \/ Copy(p) \/ CopyFails(p) \/ Undo(p)
                BY <2>0, <3>3, <4>1, <4>4 DEF Preflight, Copy, CopyFails, Undo, Goto, At, Job
            <4> QED BY <3>4, <4>1, <4>2, <4>3, <4>4 DEF export, Undone
        <3>5. CASE restoreProjectProfile(p)
            <4>1. CASE Restored(p)
                BY <2>0, <3>3, <4>1 DEF Restored, Leave, Goto, Resting, At, Job
            <4>2. ASSUME NEW f \in File, PutBack(p, f) PROVE Verified(p)'
                BY <2>0, <4>2 DEF PutBack, Verified, At
            <4>3. ASSUME NEW f \in File, NothingToRestore(p, f) \/ DropJournal(p, f)
                                        \/ CannotRestore(p, f)
                  PROVE  Verified(p)'
                BY <2>0, <3>3, <4>3 DEF NothingToRestore, DropJournal, CannotRestore, Restoring,
                   Done, At, Job
            <4> QED BY <3>5, <4>1, <4>2, <4>3 DEF restoreProjectProfile
        <3>6. CASE install(p)
            BY <2>0, <3>3, <3>6 DEF install, LoadMetadata, PrepareTools, SelectDevice,
               VerifyMaterial, GenerateSigning, Goto, At, Job
        <3>7. CASE \/ CheckFresh(p) \/ ReadProfile(p) \/ JournalProfile(p) \/ PatchProfile(p)
                   \/ PackageOutputs(p) \/ ReadManifest(p) \/ SaveRecovery(p)
                   \/ PatchManifest(p) \/ Snapshot(p)
            BY <2>0, <3>3, <3>7 DEF CheckFresh, ReadProfile, JournalProfile, PatchProfile,
               PackageOutputs, ReadManifest, SaveRecovery, PatchManifest, Snapshot, Goto, At, Job
        <3>8. CASE Ohpm(p) \/ Build(p) \/ Unwind(p)
            BY <2>0, <3>3, <3>8 DEF Ohpm, Build, RestoreThen, Unwind, Unwound, At, Job
        <3>9. CASE Leave(p)
            BY <2>0, <3>3, <3>9 DEF Leave, Resting
        <3> QED BY <1>1, <3>1, <3>2, <3>4, <3>5, <3>6, <3>7, <3>8, <3>9
                DEF Run, buildAndInstall, CannotPatch, Confirm, Stop, Killed
    <2> QED BY <2>1, <2>2, <2>3 DEF DevInv
<1>2. CASE Reattach
    <2>1. job' = job /\ installed' = installed /\ \A p \in Process : ~At(p, "install")
        BY <1>2 DEF Reattach
    <2> QED BY <2>1 DEF DevInv, InstalledIsVerified, Verified, At
<1>3. CASE UNCHANGED <<job, attached, installed>>
    BY <1>3 DEF DevInv, InstalledIsVerified, Verified, At
<1>4. ASSUME \/ \E f \in File : Edit(f) \/ Settle(f)
             \/ \E e \in Entry : CreateEntry(e)
             \/ Rebuild \/ UNCHANGED vars
      PROVE  UNCHANGED <<job, attached, installed>>
    BY <1>4 DEF Edit, Settle, CreateEntry, Rebuild, vars, device, settings
<1> QED BY <1>1, <1>2, <1>3, <1>4 DEF Next

(* Nothing is installed. *)
LEMMA InitDev == Init => DevInv
<1> SUFFICES ASSUME Init PROVE DevInv
    OBVIOUS
<1>1. \A p \in Process : job[p].pc = "idle"
    BY ContentsOK DEF Init
<1>2. InstalledIsVerified
    BY DEF Init, InstalledIsVerified
<1> QED BY <1>1, <1>2 DEF DevInv, Verified, At

-----------------------------------------------------------------------------
(* Every variable of the export keeps its type, for any archive, any       *)
(* number of runs and of units, and any number of edits, builds and kills. *)
THEOREM TypeCorrect == Spec => []TypeOK
<1>1. Spec => []Base
    BY InitBase, NextBase, PTL DEF Spec
<1>2. Base => TypeOK
    BY DEF Base
<1> QED BY <1>1, <1>2, PTL

(* The patch of a configuration file is always undone or can be: what the  *)
(* user or the signing last wrote is in the file or in its journal, and a  *)
(* run that installs has put it back (project_recovery.go:45-106).         *)
THEOREM ConfigIsKept == Spec => []ConfigKept
<1>1. Init => Base /\ SetInv
    BY InitBase, InitSet
<1>2. (Base /\ SetInv) /\ [Next]_vars => (Base /\ SetInv)'
    BY NextBase, NextSet
<1>3. Base /\ SetInv => ConfigKept
    <2> SUFFICES ASSUME Base, SetInv PROVE ConfigRecoverable /\ InstallsRestored
        BY DEF ConfigKept
    <2>1. ConfigRecoverable
        BY DEF SetInv, Files, Kept, ConfigRecoverable
    <2>2. InstallsRestored
        <3>1. {"stamps", "verify", "recheck", "install", "confirm"} \subseteq Stops
            BY DEF Stops
        <3> QED BY <3>1 DEF SetInv, Knows, NoneJournaled, InstallsRestored
    <2> QED BY <2>1, <2>2
<1> QED BY <1>1, <1>2, <1>3, PTL DEF Spec

(* A unit only ever gets a package whose signature was verified for that   *)
(* unit, whatever is attached meanwhile (project_build.go:170-177).        *)
THEOREM InstalledAreVerified == Spec => []InstalledIsVerified
<1>1. Init => Base /\ DevInv
    BY InitBase, InitDev
<1>2. (Base /\ DevInv) /\ [Next]_vars => (Base /\ DevInv)'
    BY NextBase, NextDev
<1>3. DevInv => InstalledIsVerified
    BY DEF DevInv
<1> QED BY <1>1, <1>2, <1>3, PTL DEF Spec

(* What the next two theorems rest on. *)
LEMMA TreeHolds == Spec => [](Base /\ TreeInv)
<1>1. Init => Base /\ TreeInv
    BY InitBase, InitTree
<1>2. (Base /\ TreeInv) /\ [Next]_vars => (Base /\ TreeInv)'
    BY NextBase, NextTree
<1> QED BY <1>1, <1>2, PTL DEF Spec

(* No step of an export, nor of its undoing, replaces or deletes what oo   *)
(* did not create (export.go:90-92).                                       *)
THEOREM UserEntriesAreKept == Spec => UserEntriesKept
<1>1. Base /\ TreeInv /\ [Next]_vars
      => [\A e \in Entry : tree[e] = "user" => tree'[e] = "user"]_vars
    <2> SUFFICES ASSUME Base, TreeInv, Next, NEW e \in Entry, tree[e] = "user"
                 PROVE  tree'[e] = "user"
        OBVIOUS
    <2>0. tree \in Trees
        BY DEF Base, TypeOK, Trees
    <2>1. ASSUME NEW p \in Process, Copy(p) PROVE tree'[e] = "user"
        BY <2>0, <2>1, CopyWrites DEF Trees
    <2>2. ASSUME NEW p \in Process, Undo(p) PROVE tree'[e] = "user"
        <3> DEFINE n == job[p].created
        <3>1. /\ n \in 1..Len(Walk) /\ Walk[n] \in Entry
              /\ tree' = IF Empty(Walk[n]) THEN [tree EXCEPT ![Walk[n]] = "none"] ELSE tree
              /\ At(p, "undo")
            BY <2>2, UndoWrites DEF At
        <3>2. n \in 1..n
            BY <3>1, WalkIsEntries
        <3>3. tree[Walk[n]] = "ours"
            BY <3>1, <3>2 DEF TreeInv, Publishing, Made, At
        <3> QED BY <2>0, <3>1, <3>3 DEF Trees
    <2>3. ASSUME NEW x \in Entry, CreateEntry(x) PROVE tree'[e] = "user"
        BY <2>0, <2>3 DEF CreateEntry, Trees
    <2>4. ASSUME (\E f \in File : Edit(f) \/ Settle(f)) \/ Reattach \/ Rebuild
          PROVE  tree' = tree
        BY <2>4 DEF Edit, Settle, Reattach, Rebuild, project
    <2> QED BY <2>1, <2>2, <2>3, <2>4, Changes DEF Next
<1> QED BY <1>1, TreeHolds, PTL DEF Spec, UserEntriesKept

(* An export that fails leaves none of its entries but directories with    *)
(* something in them, however the archive nests.                           *)
THEOREM UndoingIsClean == Spec => []UndoneIsClean
<1>1. Base /\ TreeInv => UndoneIsClean
    <2> SUFFICES ASSUME Base, TreeInv, NEW p \in Process, At(p, "undo"), job[p].created = 0,
                        NEW e \in Entry, tree[e] = "ours"
                 PROVE  \/ UserIn(e)
                        \/ \E c \in Entry : Parent[c] = e /\ tree[c] = "ours"
        BY DEF UndoneIsClean
    <2>1. e \in Created(0) \/ ~Bare(tree, e)
        BY DEF TreeInv, Publishing
    <2>2. Created(0) = {}
        BY DEF Created
    <2>3. PICK c \in Entry : Parent[c] = e /\ tree[c] # "none"
        BY <2>1, <2>2 DEF Bare
    <2>4. tree[c] \in {"none", "ours", "user"}
        BY DEF Base, TypeOK
    <2> QED BY <2>3, <2>4 DEF UserIn
<1> QED BY <1>1, TreeHolds, PTL
-----------------------------------------------------------------------------
(***************************************************************************)
(* For any number of proxies and requests: every open socket has an owner, *)
(* and a cleanup that has returned has left nothing.  The race between     *)
(* close and the handlers is decided by the mark: what was tracked before  *)
(* it is in the copy that close has made, and nothing is tracked after it. *)
(***************************************************************************)

(* What the steps of a request say of its sockets. *)
Placed ==
    \A r \in Request :
        /\ Client(r) \in served =>
              pc[r] \in {"header", "want", "connect", "hijack", "body", "return"}
        /\ Client(r) \in conns => pc[r] \in {"flush", "tunnel"}
        /\ r \in idle => r \in Plain
        /\ Upstream(r) \in conns =>
              \/ dial[r] = "handshake" \/ pc[r] \in Tunnelling
              \/ r \in idle \/ \E q \in Request : uses[q] = r
        /\ uses[r] # None => uses[r] \in Plain /\ pc[r] = "body"
        /\ pc[r] = "body" => uses[r] # None
        /\ pc[r] \in {"want", "body"} => r \in Plain
        /\ r \in Connect /\ dial[r] # "none" => pc[r] = "connect"
        /\ at[r] = None => pc[r] = "gone" /\ dial[r] = "none" /\ Upstream(r) \notin conns

(* How far close is. *)
Closes ==
    /\ closer # "no" => cancelled
    /\ closed # {} => closer # "no"
    /\ closed \cap left = {}
    /\ closer \in {"server", "conns", "wait"} => current \in closed
    /\ closer \notin {"server", "conns", "wait"} => current = None
    /\ closer = "done" => left = {}
    /\ \A c \in Caller : caller[c] = "returned" => closer = "done"
    /\ \A p \in listening : p \in left \/ (p = current /\ closer = "server")
    /\ \A r \in Request : at[r] # None => at[r] \in left \cup closed

(* What close knows: all there is to close, and that it is closed.         *)
Known ==
    \A s \in conns :
        at[s[1]] = current /\ current # None =>
            /\ closer \in {"server", "conns"} => s \in snapshot
            /\ closer = "wait" => socket[s] = "closed"

(* Nothing goes on in a proxy that has been closed.                        *)
Silent ==
    \A r \in Request :
        at[r] \in closed \ {current} =>
            /\ pc[r] \in {"gone", "accepted", "header"}
            /\ Client(r) \in open => pc[r] \in {"accepted", "header"}
            /\ Upstream(r) \in open => dial[r] = "connected"

ProxyInv == ProxyTypeOK /\ Placed /\ Owned /\ Closes /\ Known /\ Silent

-----------------------------------------------------------------------------
(* A request has two sockets, and a socket one request. *)
LEMMA Sockets ==
    /\ \A r \in Request :
          /\ Client(r) \in Socket /\ Upstream(r) \in Socket
          /\ Client(r)[1] = r /\ Upstream(r)[1] = r
          /\ Client(r)[2] = "client" /\ Upstream(r)[2] = "upstream"
    /\ \A r, q \in Request : Client(r) # Upstream(q)
    /\ \A r, q \in Request : Client(r) = Client(q) \/ Upstream(r) = Upstream(q) => r = q
    /\ \A s \in Socket :
          s[1] \in Request /\ (s = Client(s[1]) \/ s = Upstream(s[1]))
BY DEF Client, Upstream, Socket

(* Closing a set of sockets. *)
LEMMA ClosedValue ==
    ASSUME ProxyTypeOK, NEW set
    PROVE  /\ Closed(set) \in [Socket -> {"closed", "up", "eof", "reset"}]
           /\ \A s \in Socket : Closed(set)[s] = IF s \in set THEN "closed" ELSE socket[s]
BY DEF ProxyTypeOK, Closed

(* No proxy, no request. *)
LEMMA ProxyInvInit == ProxyInit => ProxyInv
<1> SUFFICES ASSUME ProxyInit PROVE ProxyInv
    OBVIOUS
<1> USE ProxyAssumption DEF ProxyInit
<1>1. ProxyTypeOK
    BY DEF ProxyTypeOK, Counted
<1>2. Placed /\ Closes /\ Known
    BY DEF Placed, Closes, Known, Caller
<1>3. Owned /\ Silent
    BY Sockets DEF Owned, Silent, open
<1> QED
    BY <1>1, <1>2, <1>3 DEF ProxyInv

-----------------------------------------------------------------------------
(* One lemma per part of the invariant. *)

(* Every variable keeps its type. *)
LEMMA TypesKept ==
  ASSUME ProxyTypeOK, Placed, [ProxyNext]_proxyVars PROVE ProxyTypeOK'
<1> USE ProxyAssumption
<1>0. ProxyTypeOK /\ Placed
  OBVIOUS
<1> USE DEF ProxyTypeOK, Counted, Caller, Request, prepares, closes, flags, sockets, handlers
<1>1. ASSUME NEW p \in Proxy, Start(p) PROVE ProxyTypeOK'
  BY <1>0, Sockets, ClosedValue, <1>1 DEF Start
<1>2. CASE Prepared
  BY <1>0, Sockets, ClosedValue, <1>2 DEF Prepared
<1>3. CASE Fail
  BY <1>0, Sockets, ClosedValue, <1>3 DEF Fail, Cleanup
<1>4. CASE InstallerEnds
  BY <1>0, Sockets, ClosedValue, <1>4 DEF InstallerEnds, Cleanup
<1>5. CASE WatcherSees
  BY <1>0, Sockets, ClosedValue, <1>5 DEF WatcherSees, Cleanup
<1>6. ASSUME NEW c \in Caller, Return(c) PROVE ProxyTypeOK'
  BY <1>0, Sockets, ClosedValue, <1>6 DEF Return
<1>7. CASE CancelParent
  BY <1>0, Sockets, ClosedValue, <1>7 DEF CancelParent
<1>8. ASSUME NEW p \in Proxy, MarkClosed(p) PROVE ProxyTypeOK'
  BY <1>0, Sockets, ClosedValue, <1>8 DEF MarkClosed
<1>9. CASE CloseServer
  BY <1>0, Sockets, ClosedValue, <1>9 DEF CloseServer
<1>10. CASE CloseConns
  BY <1>0, Sockets, ClosedValue, <1>10 DEF CloseConns
<1>11. CASE Wait
  BY <1>0, Sockets, ClosedValue, <1>11 DEF Wait
<1>12. CASE CleanedUp
  BY <1>0, Sockets, ClosedValue, <1>12 DEF CleanedUp
<1>13. ASSUME NEW r \in Request, NEW p \in Proxy, Accept(r, p) PROVE ProxyTypeOK'
  BY <1>0, Sockets, ClosedValue, <1>13 DEF Accept, Tunnelling
<1>14. ASSUME NEW r \in Request, Register(r) PROVE ProxyTypeOK'
  BY <1>0, Sockets, ClosedValue, <1>14 DEF Register
<1>15. ASSUME NEW r \in Request, HeaderEnds(r) PROVE ProxyTypeOK'
  BY <1>0, Sockets, ClosedValue, <1>15 DEF HeaderEnds
<1>16. ASSUME NEW r \in Request, ServeHTTP(r) PROVE ProxyTypeOK'
  BY <1>0, Sockets, ClosedValue, <1>16 DEF ServeHTTP, Admits
<1>17. ASSUME NEW r \in Request, HandlerDone(r) PROVE ProxyTypeOK'
  BY <1>0, Sockets, ClosedValue, <1>17 DEF HandlerDone
<1>18. ASSUME NEW r \in Request, Connected(r) PROVE ProxyTypeOK'
  BY <1>0, Sockets, ClosedValue, <1>18 DEF Connected
<1>19. ASSUME NEW r \in Request, DialFails(r) PROVE ProxyTypeOK'
  BY <1>0, Sockets, ClosedValue, <1>19 DEF DialFails, DialEnds
<1>20. ASSUME NEW r \in Request, Track(r) PROVE ProxyTypeOK'
  BY <1>0, Sockets, ClosedValue, <1>20 DEF Track, Tracks
<1>21. ASSUME NEW r \in Request, TrackRefuses(r) PROVE ProxyTypeOK'
  BY <1>0, Sockets, ClosedValue, <1>21 DEF TrackRefuses, Tracks, DialEnds
<1>22. ASSUME NEW r \in Request, HandshakeFails(r) PROVE ProxyTypeOK'
  BY <1>0, Sockets, ClosedValue, <1>22 DEF HandshakeFails, DialEnds
<1>23. ASSUME NEW r \in Request, Handshaken(r) PROVE ProxyTypeOK'
  BY <1>0, Sockets, ClosedValue, <1>23 DEF Handshaken
<1>24. ASSUME NEW r \in Request, NEW q \in Request, RoundTrip(r, q) PROVE ProxyTypeOK'
  BY <1>0, Sockets, ClosedValue, <1>24 DEF RoundTrip, IdleOf
<1>25. ASSUME NEW r \in Request, GivesUp(r) PROVE ProxyTypeOK'
  BY <1>0, Sockets, ClosedValue, <1>25 DEF GivesUp
<1>26. ASSUME NEW r \in Request, BodyEnds(r) PROVE ProxyTypeOK'
  <2>1. uses[r] \in Request
    BY <1>0, <1>26 DEF BodyEnds, Placed
  <2> QED
    BY <1>0, <2>1, <1>26 DEF BodyEnds
<1>27. ASSUME NEW r \in Request, BodyBreaks(r) PROVE ProxyTypeOK'
  BY <1>0, Sockets, ClosedValue, <1>27 DEF BodyBreaks
<1>28. ASSUME NEW q \in Request, IdleDrops(q) PROVE ProxyTypeOK'
  BY <1>0, Sockets, ClosedValue, <1>28 DEF IdleDrops
<1>29. ASSUME NEW r \in Request, Hijack(r) PROVE ProxyTypeOK'
  BY <1>0, Sockets, ClosedValue, <1>29 DEF Hijack
<1>30. ASSUME NEW r \in Request, TrackClient(r) PROVE ProxyTypeOK'
  BY <1>0, Sockets, ClosedValue, <1>30 DEF TrackClient, Tracks, TearDown
<1>31. ASSUME NEW r \in Request, Flush(r) PROVE ProxyTypeOK'
  <2>1. CASE TearDown(r)
    BY <1>0, Sockets, ClosedValue, <1>31, <2>1 DEF Flush, TearDown
  <2>2. CASE ~TearDown(r)
    <3>1. /\ pc' = [pc EXCEPT ![r] = "tunnel"]
          /\ halves' = [halves EXCEPT ![r] = {"up", "down"}]
          /\ UNCHANGED <<socket, conns>>
      BY <1>31, <2>2 DEF Flush
    <3>2. PICK some \in SUBSET {"up", "down"} : writing' = [writing EXCEPT ![r] = some]
      BY <1>31, <2>2 DEF Flush
    <3>3. writing' \in [Request -> SUBSET {"up", "down"}]
      BY <1>0, <3>2
    <3> QED
      BY <1>0, <1>31, <3>1, <3>3 DEF Flush
  <2> QED
    BY <2>1, <2>2
<1>32. ASSUME NEW r \in Request, NEW half \in {"up", "down"}, HalfEnds(r, half) PROVE ProxyTypeOK'
  BY <1>0, Sockets, ClosedValue, <1>32 DEF HalfEnds, Break
<1>33. ASSUME NEW r \in Request, NEW half \in {"up", "down"}, ReadFails(r, half) PROVE ProxyTypeOK'
  BY <1>0, Sockets, ClosedValue, <1>33 DEF ReadFails, Break
<1>34. ASSUME NEW r \in Request, NEW half \in {"up", "down"}, WriteFails(r, half) PROVE ProxyTypeOK'
  BY <1>0, Sockets, ClosedValue, <1>34 DEF WriteFails, Break
<1>35. ASSUME NEW r \in Request, TunnelEnds(r) PROVE ProxyTypeOK'
  BY <1>0, Sockets, ClosedValue, <1>35 DEF TunnelEnds, TearDown
<1>41. ASSUME NEW r \in Request, NEW half \in {"up", "down"},
            StartsToWrite(r, half) \/ Written(r, half)
      PROVE  ProxyTypeOK'
  BY <1>0, <1>41 DEF StartsToWrite, Written
<1>36. ASSUME NEW r \in Request, PeerActs(r) PROVE ProxyTypeOK'
  BY <1>0, Sockets, ClosedValue, <1>36 DEF PeerActs
<1>37. CASE UNCHANGED proxyVars
  BY <1>0, Sockets, ClosedValue, <1>37 DEF proxyVars
<1>38. ASSUME NEW r \in Request, Handling(r) PROVE ProxyTypeOK'
  BY <1>14, <1>15, <1>17, <1>25, <1>27, <1>29, <1>30, <1>31, <1>32, <1>33, <1>34, <1>35, <1>38
     DEF Handling, Serving, Interrupted, Tunnel
<1>39. ASSUME NEW r \in Request, Dialling(r) PROVE ProxyTypeOK'
  BY <1>18, <1>19, <1>20, <1>21, <1>22, <1>23, <1>39 DEF Dialling
<1>40. CASE Preparing \/ Closing
  BY <1>1, <1>2, <1>3, <1>6, <1>8, <1>9, <1>10, <1>11, <1>12, <1>40 DEF Preparing, Closing
<1> QED
  BY <1>4, <1>5, <1>7, <1>13, <1>16, <1>24, <1>26, <1>28, <1>41, <1>36, <1>37, <1>38, <1>39,
     <1>40 DEF ProxyNext

(* A socket is where the step of its request says. *)
LEMMA PlacedKept ==
  ASSUME ProxyTypeOK, Placed, Owned, [ProxyNext]_proxyVars PROVE Placed'
<1> USE ProxyAssumption
<1>0. ProxyTypeOK /\ Placed
  OBVIOUS
<1>t. /\ pc \in [Request -> Counted \cup {"gone", "accepted", "header"}]
      /\ dial \in [Request -> {"none", "dialing", "connected", "handshake"}]
      /\ at \in [Request -> Proxy \cup {None}]
      /\ uses \in [Request -> Request \cup {None}]
      /\ conns \subseteq Socket /\ served \subseteq Socket /\ idle \subseteq Request
  BY <1>0 DEF ProxyTypeOK
<1> USE DEF Placed, Request, Unused, Tunnelling, prepares, closes, flags, sockets, handlers
<1>1. ASSUME NEW p \in Proxy, Start(p) PROVE Placed'
  BY <1>0, <1>t, Sockets, <1>1 DEF Start
<1>2. CASE Prepared
  BY <1>0, <1>t, Sockets, <1>2 DEF Prepared
<1>3. CASE Fail
  BY <1>0, <1>t, Sockets, <1>3 DEF Fail, Cleanup
<1>4. CASE InstallerEnds
  BY <1>0, <1>t, Sockets, <1>4 DEF InstallerEnds, Cleanup
<1>5. CASE WatcherSees
  BY <1>0, <1>t, Sockets, <1>5 DEF WatcherSees, Cleanup
<1>6. ASSUME NEW c \in Caller, Return(c) PROVE Placed'
  BY <1>0, <1>t, Sockets, <1>6 DEF Return
<1>7. CASE CancelParent
  BY <1>0, <1>t, Sockets, <1>7 DEF CancelParent
<1>8. ASSUME NEW p \in Proxy, MarkClosed(p) PROVE Placed'
  BY <1>0, <1>t, Sockets, <1>8 DEF MarkClosed
<1>9. CASE CloseServer
  BY <1>0, <1>t, Sockets, <1>9 DEF CloseServer
<1>10. CASE CloseConns
  BY <1>0, <1>t, Sockets, <1>10 DEF CloseConns
<1>11. CASE Wait
  BY <1>0, <1>t, Sockets, <1>11 DEF Wait
<1>12. CASE CleanedUp
  BY <1>0, <1>t, Sockets, <1>12 DEF CleanedUp
<1>13. ASSUME NEW r \in Request, NEW p \in Proxy, Accept(r, p) PROVE Placed'
  BY <1>0, <1>t, Sockets, <1>13 DEF Accept
<1>14. ASSUME NEW r \in Request, Register(r) PROVE Placed'
  BY <1>0, <1>t, Sockets, <1>14 DEF Register
<1>15. ASSUME NEW r \in Request, HeaderEnds(r) PROVE Placed'
  BY <1>0, <1>t, Sockets, <1>15 DEF HeaderEnds
<1>16. ASSUME NEW r \in Request, ServeHTTP(r) PROVE Placed'
  BY <1>0, <1>t, Sockets, <1>16 DEF ServeHTTP, Admits
<1>17. ASSUME NEW r \in Request, HandlerDone(r) PROVE Placed'
  BY <1>0, <1>t, Sockets, <1>17 DEF HandlerDone
<1>18. ASSUME NEW r \in Request, Connected(r) PROVE Placed'
  BY <1>0, <1>t, Sockets, <1>18 DEF Connected
<1>19. ASSUME NEW r \in Request, DialFails(r) PROVE Placed'
  BY <1>0, <1>t, Sockets, <1>19 DEF DialFails, DialEnds
<1>20. ASSUME NEW r \in Request, Track(r) PROVE Placed'
  BY <1>0, <1>t, Sockets, <1>20 DEF Track, Tracks
<1>21. ASSUME NEW r \in Request, TrackRefuses(r) PROVE Placed'
  BY <1>0, <1>t, Sockets, <1>21 DEF TrackRefuses, Tracks, DialEnds
<1>22. ASSUME NEW r \in Request, HandshakeFails(r) PROVE Placed'
  BY <1>0, <1>t, Sockets, <1>22 DEF HandshakeFails, DialEnds
<1>23. ASSUME NEW r \in Request, Handshaken(r) PROVE Placed'
  BY <1>0, <1>t, Sockets, <1>23 DEF Handshaken
<1>24. ASSUME NEW r \in Request, NEW q \in Request, RoundTrip(r, q) PROVE Placed'
  BY <1>0, <1>t, Sockets, <1>24 DEF RoundTrip, IdleOf
<1>25. ASSUME NEW r \in Request, GivesUp(r) PROVE Placed'
  BY <1>0, <1>t, Sockets, <1>25 DEF GivesUp
<1>26. ASSUME NEW r \in Request, BodyEnds(r) PROVE Placed'
  BY <1>0, <1>t, Sockets, <1>26 DEF BodyEnds
<1>27. ASSUME NEW r \in Request, BodyBreaks(r) PROVE Placed'
  BY <1>0, <1>t, Sockets, <1>27 DEF BodyBreaks
<1>28. ASSUME NEW q \in Request, IdleDrops(q) PROVE Placed'
  BY <1>0, <1>t, Sockets, <1>28 DEF IdleDrops
<1>29. ASSUME NEW r \in Request, Hijack(r) PROVE Placed'
  BY <1>0, <1>t, Sockets, <1>29 DEF Hijack
<1>30. ASSUME NEW r \in Request, TrackClient(r) PROVE Placed'
  BY <1>0, <1>t, Sockets, <1>30 DEF TrackClient, Tracks, TearDown
<1>31. ASSUME NEW r \in Request, Flush(r) PROVE Placed'
  BY <1>0, <1>t, Sockets, <1>31 DEF Flush, TearDown
<1>32. ASSUME NEW r \in Request, NEW half \in {"up", "down"}, HalfEnds(r, half) PROVE Placed'
  BY <1>0, <1>t, Sockets, <1>32 DEF HalfEnds, Break
<1>33. ASSUME NEW r \in Request, NEW half \in {"up", "down"}, ReadFails(r, half) PROVE Placed'
  BY <1>0, <1>t, Sockets, <1>33 DEF ReadFails, Break
<1>34. ASSUME NEW r \in Request, NEW half \in {"up", "down"}, WriteFails(r, half) PROVE Placed'
  BY <1>0, <1>t, Sockets, <1>34 DEF WriteFails, Break
<1>35. ASSUME NEW r \in Request, TunnelEnds(r) PROVE Placed'
  BY <1>0, <1>t, Sockets, <1>35 DEF TunnelEnds, TearDown
<1>41. ASSUME NEW r \in Request, NEW half \in {"up", "down"},
            StartsToWrite(r, half) \/ Written(r, half)
      PROVE  Placed'
  BY <1>0, <1>t, <1>41 DEF StartsToWrite, Written
<1>36. ASSUME NEW r \in Request, PeerActs(r) PROVE Placed'
  BY <1>0, <1>t, Sockets, <1>36 DEF PeerActs
<1>37. CASE UNCHANGED proxyVars
  BY <1>0, <1>t, Sockets, <1>37 DEF proxyVars
<1>38. ASSUME NEW r \in Request, Handling(r) PROVE Placed'
  BY <1>14, <1>15, <1>17, <1>25, <1>27, <1>29, <1>30, <1>31, <1>32, <1>33, <1>34, <1>35, <1>38
     DEF Handling, Serving, Interrupted, Tunnel
<1>39. ASSUME NEW r \in Request, Dialling(r) PROVE Placed'
  BY <1>18, <1>19, <1>20, <1>21, <1>22, <1>23, <1>39 DEF Dialling
<1>40. CASE Preparing \/ Closing
  BY <1>1, <1>2, <1>3, <1>6, <1>8, <1>9, <1>10, <1>11, <1>12, <1>40 DEF Preparing, Closing
<1> QED
  BY <1>4, <1>5, <1>7, <1>13, <1>16, <1>24, <1>26, <1>28, <1>41, <1>36, <1>37, <1>38, <1>39,
     <1>40 DEF ProxyNext

(* No step lets go of an open socket. *)
LEMMA OwnedKept ==
  ASSUME ProxyTypeOK, Placed, Owned, [ProxyNext]_proxyVars PROVE Owned'
<1> USE ProxyAssumption
<1>0. ProxyTypeOK /\ Placed /\ Owned
  OBVIOUS
<1>t. /\ pc \in [Request -> Counted \cup {"gone", "accepted", "header"}]
      /\ dial \in [Request -> {"none", "dialing", "connected", "handshake"}]
      /\ at \in [Request -> Proxy \cup {None}]
      /\ uses \in [Request -> Request \cup {None}]
      /\ conns \subseteq Socket /\ served \subseteq Socket /\ idle \subseteq Request
  BY <1>0 DEF ProxyTypeOK
<1> USE DEF Owned, open, Placed, Request, Unused, Tunnelling, prepares, closes, flags, sockets, handlers
<1>1. ASSUME NEW p \in Proxy, Start(p) PROVE Owned'
  BY <1>0, <1>t, Sockets, ClosedValue, <1>1 DEF Start
<1>2. CASE Prepared
  BY <1>0, <1>t, Sockets, ClosedValue, <1>2 DEF Prepared
<1>3. CASE Fail
  BY <1>0, <1>t, Sockets, ClosedValue, <1>3 DEF Fail, Cleanup
<1>4. CASE InstallerEnds
  BY <1>0, <1>t, Sockets, ClosedValue, <1>4 DEF InstallerEnds, Cleanup
<1>5. CASE WatcherSees
  BY <1>0, <1>t, Sockets, ClosedValue, <1>5 DEF WatcherSees, Cleanup
<1>6. ASSUME NEW c \in Caller, Return(c) PROVE Owned'
  BY <1>0, <1>t, Sockets, ClosedValue, <1>6 DEF Return
<1>7. CASE CancelParent
  BY <1>0, <1>t, Sockets, ClosedValue, <1>7 DEF CancelParent
<1>8. ASSUME NEW p \in Proxy, MarkClosed(p) PROVE Owned'
  BY <1>0, <1>t, Sockets, ClosedValue, <1>8 DEF MarkClosed
<1>9. CASE CloseServer
  BY <1>0, <1>t, Sockets, ClosedValue, <1>9 DEF CloseServer
<1>10. CASE CloseConns
  BY <1>0, <1>t, Sockets, ClosedValue, <1>10 DEF CloseConns
<1>11. CASE Wait
  BY <1>0, <1>t, Sockets, ClosedValue, <1>11 DEF Wait
<1>12. CASE CleanedUp
  BY <1>0, <1>t, Sockets, ClosedValue, <1>12 DEF CleanedUp
<1>13. ASSUME NEW r \in Request, NEW p \in Proxy, Accept(r, p) PROVE Owned'
  BY <1>0, <1>t, Sockets, ClosedValue, <1>13 DEF Accept
<1>14. ASSUME NEW r \in Request, Register(r) PROVE Owned'
  BY <1>0, <1>t, Sockets, ClosedValue, <1>14 DEF Register
<1>15. ASSUME NEW r \in Request, HeaderEnds(r) PROVE Owned'
  BY <1>0, <1>t, Sockets, ClosedValue, <1>15 DEF HeaderEnds
<1>16. ASSUME NEW r \in Request, ServeHTTP(r) PROVE Owned'
  BY <1>0, <1>t, Sockets, ClosedValue, <1>16 DEF ServeHTTP, Admits
<1>17. ASSUME NEW r \in Request, HandlerDone(r) PROVE Owned'
  BY <1>0, <1>t, Sockets, ClosedValue, <1>17 DEF HandlerDone
<1>18. ASSUME NEW r \in Request, Connected(r) PROVE Owned'
  BY <1>0, <1>t, Sockets, ClosedValue, <1>18 DEF Connected
<1>19. ASSUME NEW r \in Request, DialFails(r) PROVE Owned'
  BY <1>0, <1>t, Sockets, ClosedValue, <1>19 DEF DialFails, DialEnds
<1>20. ASSUME NEW r \in Request, Track(r) PROVE Owned'
  BY <1>0, <1>t, Sockets, ClosedValue, <1>20 DEF Track, Tracks
<1>21. ASSUME NEW r \in Request, TrackRefuses(r) PROVE Owned'
  BY <1>0, <1>t, Sockets, ClosedValue, <1>21 DEF TrackRefuses, Tracks, DialEnds
<1>22. ASSUME NEW r \in Request, HandshakeFails(r) PROVE Owned'
  BY <1>0, <1>t, Sockets, ClosedValue, <1>22 DEF HandshakeFails, DialEnds
<1>23. ASSUME NEW r \in Request, Handshaken(r) PROVE Owned'
  BY <1>0, <1>t, Sockets, ClosedValue, <1>23 DEF Handshaken
<1>24. ASSUME NEW r \in Request, NEW q \in Request, RoundTrip(r, q) PROVE Owned'
  BY <1>0, <1>t, Sockets, ClosedValue, <1>24 DEF RoundTrip, IdleOf
<1>25. ASSUME NEW r \in Request, GivesUp(r) PROVE Owned'
  BY <1>0, <1>t, Sockets, ClosedValue, <1>25 DEF GivesUp
<1>26. ASSUME NEW r \in Request, BodyEnds(r) PROVE Owned'
  BY <1>0, <1>t, Sockets, ClosedValue, <1>26 DEF BodyEnds
<1>27. ASSUME NEW r \in Request, BodyBreaks(r) PROVE Owned'
  BY <1>0, <1>t, Sockets, ClosedValue, <1>27 DEF BodyBreaks
<1>28. ASSUME NEW q \in Request, IdleDrops(q) PROVE Owned'
  BY <1>0, <1>t, Sockets, ClosedValue, <1>28 DEF IdleDrops
<1>29. ASSUME NEW r \in Request, Hijack(r) PROVE Owned'
  BY <1>0, <1>t, Sockets, ClosedValue, <1>29 DEF Hijack
<1>30. ASSUME NEW r \in Request, TrackClient(r) PROVE Owned'
  BY <1>0, <1>t, Sockets, ClosedValue, <1>30 DEF TrackClient, Tracks, TearDown
<1>31. ASSUME NEW r \in Request, Flush(r) PROVE Owned'
  BY <1>0, <1>t, Sockets, ClosedValue, <1>31 DEF Flush, TearDown
<1>32. ASSUME NEW r \in Request, NEW half \in {"up", "down"}, HalfEnds(r, half) PROVE Owned'
  BY <1>0, <1>t, Sockets, ClosedValue, <1>32 DEF HalfEnds, Break
<1>33. ASSUME NEW r \in Request, NEW half \in {"up", "down"}, ReadFails(r, half) PROVE Owned'
  BY <1>0, <1>t, Sockets, ClosedValue, <1>33 DEF ReadFails, Break
<1>34. ASSUME NEW r \in Request, NEW half \in {"up", "down"}, WriteFails(r, half) PROVE Owned'
  BY <1>0, <1>t, Sockets, ClosedValue, <1>34 DEF WriteFails, Break
<1>35. ASSUME NEW r \in Request, TunnelEnds(r) PROVE Owned'
  BY <1>0, <1>t, Sockets, ClosedValue, <1>35 DEF TunnelEnds, TearDown
<1>41. ASSUME NEW r \in Request, NEW half \in {"up", "down"},
            StartsToWrite(r, half) \/ Written(r, half)
      PROVE  Owned'
  BY <1>0, <1>t, <1>41 DEF StartsToWrite, Written
<1>36. ASSUME NEW r \in Request, PeerActs(r) PROVE Owned'
  <2>1. UNCHANGED <<prepares, closes, flags, conns, served, handlers>>
    BY <1>36 DEF PeerActs
  <2>2. \A s \in Socket : socket'[s] = "closed" <=> socket[s] = "closed"
    BY <1>0, Sockets, <1>36 DEF PeerActs, ProxyTypeOK, Readable
  <2> QED
    BY <1>0, <1>t, <2>1, <2>2, Sockets
<1>37. CASE UNCHANGED proxyVars
  BY <1>0, <1>t, Sockets, ClosedValue, <1>37 DEF proxyVars
<1>38. ASSUME NEW r \in Request, Handling(r) PROVE Owned'
  BY <1>14, <1>15, <1>17, <1>25, <1>27, <1>29, <1>30, <1>31, <1>32, <1>33, <1>34, <1>35, <1>38
     DEF Handling, Serving, Interrupted, Tunnel
<1>39. ASSUME NEW r \in Request, Dialling(r) PROVE Owned'
  BY <1>18, <1>19, <1>20, <1>21, <1>22, <1>23, <1>39 DEF Dialling
<1>40. CASE Preparing \/ Closing
  BY <1>1, <1>2, <1>3, <1>6, <1>8, <1>9, <1>10, <1>11, <1>12, <1>40 DEF Preparing, Closing
<1> QED
  BY <1>4, <1>5, <1>7, <1>13, <1>16, <1>24, <1>26, <1>28, <1>41, <1>36, <1>37, <1>38, <1>39,
     <1>40 DEF ProxyNext

(* Close goes through its steps once per proxy. *)
LEMMA ClosesKept ==
  ASSUME ProxyTypeOK, Placed, Owned, Closes, [ProxyNext]_proxyVars PROVE Closes'
<1> USE ProxyAssumption
<1>0. ProxyTypeOK /\ Placed /\ Owned /\ Closes
  OBVIOUS
<1>t. /\ pc \in [Request -> Counted \cup {"gone", "accepted", "header"}]
      /\ dial \in [Request -> {"none", "dialing", "connected", "handshake"}]
      /\ at \in [Request -> Proxy \cup {None}]
      /\ caller \in [Caller -> {"none", "called", "returned"}]
      /\ conns \subseteq Socket /\ current \in Proxy \cup {None}
      /\ closed \subseteq Proxy /\ listening \subseteq Proxy
  BY <1>0 DEF ProxyTypeOK
<1> USE DEF Closes, Request, prepares, closes, flags, sockets, handlers
<1>1. ASSUME NEW p \in Proxy, Start(p) PROVE Closes'
  BY <1>0, <1>t, <1>1 DEF Start
<1>2. CASE Prepared
  BY <1>0, <1>t, <1>2 DEF Prepared
<1>3. CASE Fail
  BY <1>0, <1>t, <1>3 DEF Fail, Cleanup
<1>4. CASE InstallerEnds
  BY <1>0, <1>t, <1>4 DEF InstallerEnds, Cleanup
<1>5. CASE WatcherSees
  BY <1>0, <1>t, <1>5 DEF WatcherSees, Cleanup
<1>6. ASSUME NEW c \in Caller, Return(c) PROVE Closes'
  BY <1>0, <1>t, <1>6 DEF Return
<1>7. CASE CancelParent
  BY <1>0, <1>t, <1>7 DEF CancelParent
<1>8. ASSUME NEW p \in Proxy, MarkClosed(p) PROVE Closes'
  BY <1>0, <1>t, <1>8 DEF MarkClosed
<1>9. CASE CloseServer
  BY <1>0, <1>t, <1>9 DEF CloseServer
<1>10. CASE CloseConns
  BY <1>0, <1>t, <1>10 DEF CloseConns
<1>11. CASE Wait
  BY <1>0, <1>t, <1>11 DEF Wait
<1>12. CASE CleanedUp
  BY <1>0, <1>t, <1>12 DEF CleanedUp
<1>13. ASSUME NEW r \in Request, NEW p \in Proxy, Accept(r, p) PROVE Closes'
  BY <1>0, <1>t, <1>13 DEF Accept, Tunnelling
<1>14. ASSUME NEW r \in Request, Register(r) PROVE Closes'
  BY <1>0, <1>t, <1>14 DEF Register
<1>15. ASSUME NEW r \in Request, HeaderEnds(r) PROVE Closes'
  BY <1>0, <1>t, <1>15 DEF HeaderEnds
<1>16. ASSUME NEW r \in Request, ServeHTTP(r) PROVE Closes'
  BY <1>0, <1>t, <1>16 DEF ServeHTTP, Admits
<1>17. ASSUME NEW r \in Request, HandlerDone(r) PROVE Closes'
  BY <1>0, <1>t, <1>17 DEF HandlerDone
<1>18. ASSUME NEW r \in Request, Connected(r) PROVE Closes'
  BY <1>0, <1>t, <1>18 DEF Connected
<1>19. ASSUME NEW r \in Request, DialFails(r) PROVE Closes'
  BY <1>0, <1>t, <1>19 DEF DialFails, DialEnds
<1>20. ASSUME NEW r \in Request, Track(r) PROVE Closes'
  BY <1>0, <1>t, <1>20 DEF Track, Tracks
<1>21. ASSUME NEW r \in Request, TrackRefuses(r) PROVE Closes'
  BY <1>0, <1>t, <1>21 DEF TrackRefuses, Tracks, DialEnds
<1>22. ASSUME NEW r \in Request, HandshakeFails(r) PROVE Closes'
  BY <1>0, <1>t, <1>22 DEF HandshakeFails, DialEnds
<1>23. ASSUME NEW r \in Request, Handshaken(r) PROVE Closes'
  BY <1>0, <1>t, <1>23 DEF Handshaken
<1>24. ASSUME NEW r \in Request, NEW q \in Request, RoundTrip(r, q) PROVE Closes'
  BY <1>0, <1>t, <1>24 DEF RoundTrip, IdleOf
<1>25. ASSUME NEW r \in Request, GivesUp(r) PROVE Closes'
  BY <1>0, <1>t, <1>25 DEF GivesUp
<1>26. ASSUME NEW r \in Request, BodyEnds(r) PROVE Closes'
  BY <1>0, <1>t, <1>26 DEF BodyEnds
<1>27. ASSUME NEW r \in Request, BodyBreaks(r) PROVE Closes'
  BY <1>0, <1>t, <1>27 DEF BodyBreaks
<1>28. ASSUME NEW q \in Request, IdleDrops(q) PROVE Closes'
  BY <1>0, <1>t, <1>28 DEF IdleDrops
<1>29. ASSUME NEW r \in Request, Hijack(r) PROVE Closes'
  BY <1>0, <1>t, <1>29 DEF Hijack
<1>30. ASSUME NEW r \in Request, TrackClient(r) PROVE Closes'
  BY <1>0, <1>t, <1>30 DEF TrackClient, Tracks, TearDown
<1>31. ASSUME NEW r \in Request, Flush(r) PROVE Closes'
  BY <1>0, <1>t, <1>31 DEF Flush, TearDown
<1>32. ASSUME NEW r \in Request, NEW half \in {"up", "down"}, HalfEnds(r, half) PROVE Closes'
  BY <1>0, <1>t, <1>32 DEF HalfEnds, Break
<1>33. ASSUME NEW r \in Request, NEW half \in {"up", "down"}, ReadFails(r, half) PROVE Closes'
  BY <1>0, <1>t, <1>33 DEF ReadFails, Break
<1>34. ASSUME NEW r \in Request, NEW half \in {"up", "down"}, WriteFails(r, half) PROVE Closes'
  BY <1>0, <1>t, <1>34 DEF WriteFails, Break
<1>35. ASSUME NEW r \in Request, TunnelEnds(r) PROVE Closes'
  BY <1>0, <1>t, <1>35 DEF TunnelEnds, TearDown
<1>41. ASSUME NEW r \in Request, NEW half \in {"up", "down"},
            StartsToWrite(r, half) \/ Written(r, half)
      PROVE  Closes'
  BY <1>0, <1>t, <1>41 DEF StartsToWrite, Written
<1>36. ASSUME NEW r \in Request, PeerActs(r) PROVE Closes'
  BY <1>0, <1>t, <1>36 DEF PeerActs
<1>37. CASE UNCHANGED proxyVars
  BY <1>0, <1>t, <1>37 DEF proxyVars
<1>38. ASSUME NEW r \in Request, Handling(r) PROVE Closes'
  BY <1>14, <1>15, <1>17, <1>25, <1>27, <1>29, <1>30, <1>31, <1>32, <1>33, <1>34, <1>35, <1>38
     DEF Handling, Serving, Interrupted, Tunnel
<1>39. ASSUME NEW r \in Request, Dialling(r) PROVE Closes'
  BY <1>18, <1>19, <1>20, <1>21, <1>22, <1>23, <1>39 DEF Dialling
<1>40. CASE Preparing \/ Closing
  BY <1>1, <1>2, <1>3, <1>6, <1>8, <1>9, <1>10, <1>11, <1>12, <1>40 DEF Preparing, Closing
<1> QED
  BY <1>4, <1>5, <1>7, <1>13, <1>16, <1>24, <1>26, <1>28, <1>41, <1>36, <1>37, <1>38, <1>39,
     <1>40 DEF ProxyNext

(* The copy that close has made of conns is all it has to close. *)
LEMMA KnownKept ==
  ASSUME ProxyTypeOK, Placed, Owned, Closes, Known, [ProxyNext]_proxyVars PROVE Known'
<1> USE ProxyAssumption
<1>0. ProxyTypeOK /\ Placed /\ Owned /\ Closes /\ Known
  OBVIOUS
<1>t. /\ pc \in [Request -> Counted \cup {"gone", "accepted", "header"}]
      /\ dial \in [Request -> {"none", "dialing", "connected", "handshake"}]
      /\ at \in [Request -> Proxy \cup {None}]
      /\ caller \in [Caller -> {"none", "called", "returned"}]
      /\ conns \subseteq Socket /\ current \in Proxy \cup {None}
      /\ closed \subseteq Proxy /\ listening \subseteq Proxy
  BY <1>0 DEF ProxyTypeOK
<1> USE DEF Known, Closes, Placed, Unused, Request, prepares, closes, flags, sockets, handlers
<1>1. ASSUME NEW p \in Proxy, Start(p) PROVE Known'
  BY <1>0, <1>t, Sockets, ClosedValue, <1>1 DEF Start
<1>2. CASE Prepared
  BY <1>0, <1>t, Sockets, ClosedValue, <1>2 DEF Prepared
<1>3. CASE Fail
  BY <1>0, <1>t, Sockets, ClosedValue, <1>3 DEF Fail, Cleanup
<1>4. CASE InstallerEnds
  BY <1>0, <1>t, Sockets, ClosedValue, <1>4 DEF InstallerEnds, Cleanup
<1>5. CASE WatcherSees
  BY <1>0, <1>t, Sockets, ClosedValue, <1>5 DEF WatcherSees, Cleanup
<1>6. ASSUME NEW c \in Caller, Return(c) PROVE Known'
  BY <1>0, <1>t, Sockets, ClosedValue, <1>6 DEF Return
<1>7. CASE CancelParent
  BY <1>0, <1>t, Sockets, ClosedValue, <1>7 DEF CancelParent
<1>8. ASSUME NEW p \in Proxy, MarkClosed(p) PROVE Known'
  BY <1>0, <1>t, Sockets, ClosedValue, <1>8 DEF MarkClosed
<1>9. CASE CloseServer
  BY <1>0, <1>t, Sockets, ClosedValue, <1>9 DEF CloseServer
<1>10. CASE CloseConns
  BY <1>0, <1>t, Sockets, ClosedValue, <1>10 DEF CloseConns
<1>11. CASE Wait
  BY <1>0, <1>t, Sockets, ClosedValue, <1>11 DEF Wait
<1>12. CASE CleanedUp
  BY <1>0, <1>t, Sockets, ClosedValue, <1>12 DEF CleanedUp
<1>13. ASSUME NEW r \in Request, NEW p \in Proxy, Accept(r, p) PROVE Known'
  BY <1>0, <1>t, Sockets, ClosedValue, <1>13 DEF Accept, Tunnelling
<1>14. ASSUME NEW r \in Request, Register(r) PROVE Known'
  BY <1>0, <1>t, Sockets, ClosedValue, <1>14 DEF Register
<1>15. ASSUME NEW r \in Request, HeaderEnds(r) PROVE Known'
  BY <1>0, <1>t, Sockets, ClosedValue, <1>15 DEF HeaderEnds
<1>16. ASSUME NEW r \in Request, ServeHTTP(r) PROVE Known'
  BY <1>0, <1>t, Sockets, ClosedValue, <1>16 DEF ServeHTTP, Admits
<1>17. ASSUME NEW r \in Request, HandlerDone(r) PROVE Known'
  BY <1>0, <1>t, Sockets, ClosedValue, <1>17 DEF HandlerDone
<1>18. ASSUME NEW r \in Request, Connected(r) PROVE Known'
  BY <1>0, <1>t, Sockets, ClosedValue, <1>18 DEF Connected
<1>19. ASSUME NEW r \in Request, DialFails(r) PROVE Known'
  BY <1>0, <1>t, Sockets, ClosedValue, <1>19 DEF DialFails, DialEnds
<1>20. ASSUME NEW r \in Request, Track(r) PROVE Known'
  BY <1>0, <1>t, Sockets, ClosedValue, <1>20 DEF Track, Tracks
<1>21. ASSUME NEW r \in Request, TrackRefuses(r) PROVE Known'
  BY <1>0, <1>t, Sockets, ClosedValue, <1>21 DEF TrackRefuses, Tracks, DialEnds
<1>22. ASSUME NEW r \in Request, HandshakeFails(r) PROVE Known'
  BY <1>0, <1>t, Sockets, ClosedValue, <1>22 DEF HandshakeFails, DialEnds
<1>23. ASSUME NEW r \in Request, Handshaken(r) PROVE Known'
  BY <1>0, <1>t, Sockets, ClosedValue, <1>23 DEF Handshaken
<1>24. ASSUME NEW r \in Request, NEW q \in Request, RoundTrip(r, q) PROVE Known'
  BY <1>0, <1>t, Sockets, ClosedValue, <1>24 DEF RoundTrip, IdleOf
<1>25. ASSUME NEW r \in Request, GivesUp(r) PROVE Known'
  BY <1>0, <1>t, Sockets, ClosedValue, <1>25 DEF GivesUp
<1>26. ASSUME NEW r \in Request, BodyEnds(r) PROVE Known'
  BY <1>0, <1>t, Sockets, ClosedValue, <1>26 DEF BodyEnds
<1>27. ASSUME NEW r \in Request, BodyBreaks(r) PROVE Known'
  BY <1>0, <1>t, Sockets, ClosedValue, <1>27 DEF BodyBreaks
<1>28. ASSUME NEW q \in Request, IdleDrops(q) PROVE Known'
  BY <1>0, <1>t, Sockets, ClosedValue, <1>28 DEF IdleDrops
<1>29. ASSUME NEW r \in Request, Hijack(r) PROVE Known'
  BY <1>0, <1>t, Sockets, ClosedValue, <1>29 DEF Hijack
<1>30. ASSUME NEW r \in Request, TrackClient(r) PROVE Known'
  BY <1>0, <1>t, Sockets, ClosedValue, <1>30 DEF TrackClient, Tracks, TearDown
<1>31. ASSUME NEW r \in Request, Flush(r) PROVE Known'
  BY <1>0, <1>t, Sockets, ClosedValue, <1>31 DEF Flush, TearDown
<1>32. ASSUME NEW r \in Request, NEW half \in {"up", "down"}, HalfEnds(r, half) PROVE Known'
  BY <1>0, <1>t, Sockets, ClosedValue, <1>32 DEF HalfEnds, Break
<1>33. ASSUME NEW r \in Request, NEW half \in {"up", "down"}, ReadFails(r, half) PROVE Known'
  BY <1>0, <1>t, Sockets, ClosedValue, <1>33 DEF ReadFails, Break
<1>34. ASSUME NEW r \in Request, NEW half \in {"up", "down"}, WriteFails(r, half) PROVE Known'
  BY <1>0, <1>t, Sockets, ClosedValue, <1>34 DEF WriteFails, Break
<1>35. ASSUME NEW r \in Request, TunnelEnds(r) PROVE Known'
  BY <1>0, <1>t, Sockets, ClosedValue, <1>35 DEF TunnelEnds, TearDown
<1>41. ASSUME NEW r \in Request, NEW half \in {"up", "down"},
            StartsToWrite(r, half) \/ Written(r, half)
      PROVE  Known'
  BY <1>0, <1>t, <1>41 DEF StartsToWrite, Written
<1>36. ASSUME NEW r \in Request, PeerActs(r) PROVE Known'
  <2>1. UNCHANGED <<prepares, closes, flags, conns, served, handlers>>
    BY <1>36 DEF PeerActs
  <2>2. \A s \in Socket : socket'[s] = "closed" <=> socket[s] = "closed"
    BY <1>0, Sockets, <1>36 DEF PeerActs, ProxyTypeOK, Readable
  <2> QED
    BY <1>0, <1>t, <2>1, <2>2, Sockets
<1>37. CASE UNCHANGED proxyVars
  BY <1>0, <1>t, Sockets, ClosedValue, <1>37 DEF proxyVars
<1>38. ASSUME NEW r \in Request, Handling(r) PROVE Known'
  BY <1>14, <1>15, <1>17, <1>25, <1>27, <1>29, <1>30, <1>31, <1>32, <1>33, <1>34, <1>35, <1>38
     DEF Handling, Serving, Interrupted, Tunnel
<1>39. ASSUME NEW r \in Request, Dialling(r) PROVE Known'
  BY <1>18, <1>19, <1>20, <1>21, <1>22, <1>23, <1>39 DEF Dialling
<1>40. CASE Preparing \/ Closing
  BY <1>1, <1>2, <1>3, <1>6, <1>8, <1>9, <1>10, <1>11, <1>12, <1>40 DEF Preparing, Closing
<1> QED
  BY <1>4, <1>5, <1>7, <1>13, <1>16, <1>24, <1>26, <1>28, <1>41, <1>36, <1>37, <1>38, <1>39,
     <1>40 DEF ProxyNext

(* Nothing begins again in a proxy that has been closed. *)
LEMMA SilentKept ==
  ASSUME ProxyTypeOK, Placed, Owned, Closes, Known, Silent, [ProxyNext]_proxyVars PROVE Silent'
<1> USE ProxyAssumption
<1>0. ProxyTypeOK /\ Placed /\ Owned /\ Closes /\ Known /\ Silent
  OBVIOUS
<1>t. /\ pc \in [Request -> Counted \cup {"gone", "accepted", "header"}]
      /\ dial \in [Request -> {"none", "dialing", "connected", "handshake"}]
      /\ at \in [Request -> Proxy \cup {None}]
      /\ caller \in [Caller -> {"none", "called", "returned"}]
      /\ conns \subseteq Socket /\ current \in Proxy \cup {None}
      /\ closed \subseteq Proxy /\ listening \subseteq Proxy
  BY <1>0 DEF ProxyTypeOK
<1> USE DEF Silent, open, Closes, Placed, Unused, Request, prepares, closes, flags, sockets, handlers
<1>1. ASSUME NEW p \in Proxy, Start(p) PROVE Silent'
  BY <1>0, <1>t, Sockets, ClosedValue, <1>1 DEF Start
<1>2. CASE Prepared
  BY <1>0, <1>t, Sockets, ClosedValue, <1>2 DEF Prepared
<1>3. CASE Fail
  BY <1>0, <1>t, Sockets, ClosedValue, <1>3 DEF Fail, Cleanup
<1>4. CASE InstallerEnds
  BY <1>0, <1>t, Sockets, ClosedValue, <1>4 DEF InstallerEnds, Cleanup
<1>5. CASE WatcherSees
  BY <1>0, <1>t, Sockets, ClosedValue, <1>5 DEF WatcherSees, Cleanup
<1>6. ASSUME NEW c \in Caller, Return(c) PROVE Silent'
  BY <1>0, <1>t, Sockets, ClosedValue, <1>6 DEF Return
<1>7. CASE CancelParent
  BY <1>0, <1>t, Sockets, ClosedValue, <1>7 DEF CancelParent
<1>8. ASSUME NEW p \in Proxy, MarkClosed(p) PROVE Silent'
  <2>1. current = None /\ closed' \ {current'} \subseteq closed \ {current}
    BY <1>0, <1>t, <1>8 DEF MarkClosed
  <2>2. UNCHANGED <<sockets, handlers>>
    BY <1>8 DEF MarkClosed
  <2> QED
    BY <1>0, <2>1, <2>2
<1>9. CASE CloseServer
  BY <1>0, <1>t, Sockets, ClosedValue, <1>9 DEF CloseServer
<1>10. CASE CloseConns
  BY <1>0, <1>t, Sockets, ClosedValue, <1>10 DEF CloseConns
<1>11. CASE Wait
  <2>1. current \in closed /\ current # None /\ current' = None /\ closed' = closed
    BY <1>0, <1>t, <1>11 DEF Wait
  <2>2. UNCHANGED <<served, at, pc, dial>>
    BY <1>11 DEF Wait
  <2>3. \A s \in Socket : socket'[s] # "closed" => socket[s] # "closed"
    BY <1>0, ClosedValue, <1>11 DEF Wait
  <2>4. ASSUME NEW r \in Request, at[r] = current
        PROVE  /\ pc[r] \in {"gone", "accepted", "header"}
               /\ Client(r) \in open => pc[r] \in {"accepted", "header"}
               /\ Upstream(r) \in open => dial[r] = "connected"
    <3>1. pc[r] \in {"gone", "accepted", "header"}
      BY <1>t, <2>1, <2>4, <1>11 DEF Wait, Handlers
    <3>2. Client(r) \notin conns /\ Client(r) \in open => pc[r] \in {"accepted", "header"}
      BY <1>0, <3>1 DEF Owned
    <3>3. \A s \in {Client(r), Upstream(r)} : s \in conns => s \notin open
      BY <1>0, <2>1, <2>4, Sockets, <1>11 DEF Wait, Known
    <3> QED
      BY <1>0, <3>1, <3>2, <3>3 DEF Owned
  <2> QED
    BY <1>0, <2>1, <2>2, <2>3, <2>4, Sockets
<1>12. CASE CleanedUp
  BY <1>0, <1>t, Sockets, ClosedValue, <1>12 DEF CleanedUp
<1>13. ASSUME NEW r \in Request, NEW p \in Proxy, Accept(r, p) PROVE Silent'
  BY <1>0, <1>t, Sockets, ClosedValue, <1>13 DEF Accept, Tunnelling
<1>14. ASSUME NEW r \in Request, Register(r) PROVE Silent'
  BY <1>0, <1>t, Sockets, ClosedValue, <1>14 DEF Register
<1>15. ASSUME NEW r \in Request, HeaderEnds(r) PROVE Silent'
  BY <1>0, <1>t, Sockets, ClosedValue, <1>15 DEF HeaderEnds
<1>16. ASSUME NEW r \in Request, ServeHTTP(r) PROVE Silent'
  BY <1>0, <1>t, Sockets, ClosedValue, <1>16 DEF ServeHTTP, Admits
<1>17. ASSUME NEW r \in Request, HandlerDone(r) PROVE Silent'
  BY <1>0, <1>t, Sockets, ClosedValue, <1>17 DEF HandlerDone
<1>18. ASSUME NEW r \in Request, Connected(r) PROVE Silent'
  BY <1>0, <1>t, Sockets, ClosedValue, <1>18 DEF Connected
<1>19. ASSUME NEW r \in Request, DialFails(r) PROVE Silent'
  BY <1>0, <1>t, Sockets, ClosedValue, <1>19 DEF DialFails, DialEnds
<1>20. ASSUME NEW r \in Request, Track(r) PROVE Silent'
  BY <1>0, <1>t, Sockets, ClosedValue, <1>20 DEF Track, Tracks
<1>21. ASSUME NEW r \in Request, TrackRefuses(r) PROVE Silent'
  BY <1>0, <1>t, Sockets, ClosedValue, <1>21 DEF TrackRefuses, Tracks, DialEnds
<1>22. ASSUME NEW r \in Request, HandshakeFails(r) PROVE Silent'
  BY <1>0, <1>t, Sockets, ClosedValue, <1>22 DEF HandshakeFails, DialEnds
<1>23. ASSUME NEW r \in Request, Handshaken(r) PROVE Silent'
  BY <1>0, <1>t, Sockets, ClosedValue, <1>23 DEF Handshaken
<1>24. ASSUME NEW r \in Request, NEW q \in Request, RoundTrip(r, q) PROVE Silent'
  BY <1>0, <1>t, Sockets, ClosedValue, <1>24 DEF RoundTrip, IdleOf
<1>25. ASSUME NEW r \in Request, GivesUp(r) PROVE Silent'
  BY <1>0, <1>t, Sockets, ClosedValue, <1>25 DEF GivesUp
<1>26. ASSUME NEW r \in Request, BodyEnds(r) PROVE Silent'
  BY <1>0, <1>t, Sockets, ClosedValue, <1>26 DEF BodyEnds
<1>27. ASSUME NEW r \in Request, BodyBreaks(r) PROVE Silent'
  BY <1>0, <1>t, Sockets, ClosedValue, <1>27 DEF BodyBreaks
<1>28. ASSUME NEW q \in Request, IdleDrops(q) PROVE Silent'
  BY <1>0, <1>t, Sockets, ClosedValue, <1>28 DEF IdleDrops
<1>29. ASSUME NEW r \in Request, Hijack(r) PROVE Silent'
  BY <1>0, <1>t, Sockets, ClosedValue, <1>29 DEF Hijack
<1>30. ASSUME NEW r \in Request, TrackClient(r) PROVE Silent'
  BY <1>0, <1>t, Sockets, ClosedValue, <1>30 DEF TrackClient, Tracks, TearDown
<1>31. ASSUME NEW r \in Request, Flush(r) PROVE Silent'
  BY <1>0, <1>t, Sockets, ClosedValue, <1>31 DEF Flush, TearDown
<1>32. ASSUME NEW r \in Request, NEW half \in {"up", "down"}, HalfEnds(r, half) PROVE Silent'
  BY <1>0, <1>t, Sockets, ClosedValue, <1>32 DEF HalfEnds, Break
<1>33. ASSUME NEW r \in Request, NEW half \in {"up", "down"}, ReadFails(r, half) PROVE Silent'
  BY <1>0, <1>t, Sockets, ClosedValue, <1>33 DEF ReadFails, Break
<1>34. ASSUME NEW r \in Request, NEW half \in {"up", "down"}, WriteFails(r, half) PROVE Silent'
  BY <1>0, <1>t, Sockets, ClosedValue, <1>34 DEF WriteFails, Break
<1>35. ASSUME NEW r \in Request, TunnelEnds(r) PROVE Silent'
  BY <1>0, <1>t, Sockets, ClosedValue, <1>35 DEF TunnelEnds, TearDown
<1>41. ASSUME NEW r \in Request, NEW half \in {"up", "down"},
            StartsToWrite(r, half) \/ Written(r, half)
      PROVE  Silent'
  BY <1>0, <1>t, <1>41 DEF StartsToWrite, Written
<1>36. ASSUME NEW r \in Request, PeerActs(r) PROVE Silent'
  <2>1. UNCHANGED <<prepares, closes, flags, conns, served, handlers>>
    BY <1>36 DEF PeerActs
  <2>2. \A s \in Socket : socket'[s] = "closed" <=> socket[s] = "closed"
    BY <1>0, Sockets, <1>36 DEF PeerActs, ProxyTypeOK, Readable
  <2> QED
    BY <1>0, <1>t, <2>1, <2>2, Sockets
<1>37. CASE UNCHANGED proxyVars
  BY <1>0, <1>t, Sockets, ClosedValue, <1>37 DEF proxyVars
<1>38. ASSUME NEW r \in Request, Handling(r) PROVE Silent'
  BY <1>14, <1>15, <1>17, <1>25, <1>27, <1>29, <1>30, <1>31, <1>32, <1>33, <1>34, <1>35, <1>38
     DEF Handling, Serving, Interrupted, Tunnel
<1>39. ASSUME NEW r \in Request, Dialling(r) PROVE Silent'
  BY <1>18, <1>19, <1>20, <1>21, <1>22, <1>23, <1>39 DEF Dialling
<1>40. CASE Preparing \/ Closing
  BY <1>1, <1>2, <1>3, <1>6, <1>8, <1>9, <1>10, <1>11, <1>12, <1>40 DEF Preparing, Closing
<1> QED
  BY <1>4, <1>5, <1>7, <1>13, <1>16, <1>24, <1>26, <1>28, <1>41, <1>36, <1>37, <1>38, <1>39,
     <1>40 DEF ProxyNext

-----------------------------------------------------------------------------
(* The invariant holds throughout. *)
THEOREM ProxyInvariance == ProxySpec => []ProxyInv
<1>1. ProxyInv /\ [ProxyNext]_proxyVars => ProxyInv'
  BY TypesKept, PlacedKept, OwnedKept, ClosesKept, KnownKept, SilentKept DEF ProxyInv
<1> QED
  BY ProxyInvInit, <1>1, PTL DEF ProxySpec

(* Every variable keeps its type, for any proxies and requests.            *)
THEOREM ProxyTypes == ProxySpec => []ProxyTypeOK
<1>1. ProxyInv => ProxyTypeOK
  BY DEF ProxyInv
<1> QED
  BY ProxyInvariance, <1>1, PTL

(* Every open socket has an owner, and nothing is left by a cleanup that   *)
(* has returned (project_proxy.go:169-205, 311-357).                       *)
THEOREM NothingLeaks == ProxySpec => []NoLeak
<1>1. ASSUME ProxyInv PROVE Quiet
  <2> SUFFICES ASSUME NEW c \in Caller, caller[c] = "returned"
               PROVE  /\ \A p \in Proxy : Handlers(p) = {}
                      /\ \A s \in open :
                            \/ s[2] = "client" /\ pc[s[1]] \in {"accepted", "header"}
                            \/ s[2] = "upstream" /\ dial[s[1]] = "connected"
    BY DEF Quiet
  <2>1. closer = "done" /\ left = {} /\ current = None
    BY <1>1 DEF ProxyInv, Closes
  <2>2. ASSUME NEW r \in Request
        PROVE  /\ pc[r] \in {"gone", "accepted", "header"}
               /\ Client(r) \in open => pc[r] \in {"accepted", "header"}
               /\ Upstream(r) \in open => dial[r] = "connected"
    <3>1. CASE at[r] = None
      BY <1>1, <3>1, Sockets DEF ProxyInv, Placed, Owned, open, Tunnelling, ProxyTypeOK
    <3>2. CASE at[r] # None
      <4>1. at[r] \in closed \ {current}
        BY <1>1, <2>1, <3>2 DEF ProxyInv, Closes
      <4> QED
        BY <1>1, <4>1 DEF ProxyInv, Silent
    <3> QED
      BY <3>1, <3>2
  <2>3. \A p \in Proxy : Handlers(p) = {}
    BY <2>2 DEF Handlers, Counted
  <2>4. ASSUME NEW s \in open
        PROVE  \/ s[2] = "client" /\ pc[s[1]] \in {"accepted", "header"}
               \/ s[2] = "upstream" /\ dial[s[1]] = "connected"
    BY <2>2, Sockets DEF open
  <2> QED
    BY <2>3, <2>4
<1>2. ProxyInv => NoLeak
  BY <1>1 DEF ProxyInv, NoLeak
<1> QED
  BY ProxyInvariance, <1>2, PTL
=============================================================================
