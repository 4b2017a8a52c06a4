-------------------------- MODULE PackageTransaction --------------------------
(***************************************************************************)
(* The journaled transaction behind every package operation: the lock on   *)
(* state/lock, the state file, the pre-migration backup, the journal, the  *)
(* directories under packages/ and the links in bin/, changed one durable  *)
(* step at a time by oo processes that may fail or be killed between any   *)
(* two of them, beside a user who touches the same directories.            *)
(***************************************************************************)
EXTENDS PackageState

CONSTANTS
    Process,         \* oo processes
    InitialSchema,   \* as in AtomicPackages
    NoTx,            \* no state/transaction.json
    NoBackup,        \* no state/installed.vN.backup.json
    NoOp,            \* a process that has not chosen its operation
    NoLock,          \* the lock is free
    Foreign,         \* a file of the user's where a link could be
    Gone,            \* a link the user deleted
    MaxFaults        \* bound on faults and user interventions

Tx == [before : State, after : State, committed : BOOLEAN]
Op == [before : State, after : State]

ASSUME TransactionAssumption ==
    /\ InitialSchema \in Schema
    /\ NoTx \notin Tx
    /\ NoBackup \notin State
    /\ NoOp \notin Op
    /\ NoLock \notin Process
    /\ Foreign \notin Target /\ Gone \notin Target /\ Foreign # Gone
    /\ MaxFaults \in Nat

VARIABLES
    installed,   \* state/installed.json
    backup,      \* state/installed.vN.backup.json for each schema N
    journal,     \* state/transaction.json
    dirs,        \* packages/<package>/<version>: absent, ours or the user's
    bin,         \* what each name in bin/ holds
    lock,        \* the holder of the flock on state/lock
    pc,          \* what each process does next
    todo,        \* names the loop of applyLinks has still to visit
    late,        \* those of them the user has put a file at since the check
                 \* of the links: history, read by no step
    ret,         \* what a process that recovers does afterwards
    op,          \* the before and after a process has in memory
    faults       \* faults and user interventions so far

disk == <<installed, backup, journal, dirs, bin>>
loop == <<todo, late>>
vars == <<installed, backup, journal, dirs, bin, todo, late, lock, pc, ret, op,
          faults>>

Steps == {"idle", "recover", "restore", "restoreState", "sweep", "clear",
          "ready", "commit", "journal", "move", "links", "state", "mark"}

TypeOK ==
    /\ installed \in State
    /\ backup \in [Schema -> State \cup {NoBackup}]
    /\ journal \in Tx \cup {NoTx}
    /\ dirs \in [Dir -> {"none", "ours", "theirs"}]
    /\ bin \in [Name -> SUBSET (Target \cup {Foreign, Gone})]
    /\ todo \in SUBSET Name
    /\ late \in SUBSET Name
    /\ lock \in Process \cup {NoLock}
    /\ pc \in [Process -> Steps]
    /\ ret \in [Process -> {"start", "ok", "failed"}]
    /\ op \in [Process -> Op \cup {NoOp}]
    /\ faults \in Nat

Init ==
    /\ installed = EmptyState(InitialSchema)
    /\ backup = [v \in Schema |-> NoBackup]
    /\ journal = NoTx
    /\ dirs = [d \in Dir |-> "none"]
    /\ bin = [n \in Name |-> {}]
    /\ todo = {}
    /\ late = {}
    /\ lock = NoLock
    /\ pc = [p \in Process |-> "idle"]
    /\ ret = [p \in Process |-> "start"]
    /\ op = [p \in Process |-> NoOp]
    /\ faults = 0

-----------------------------------------------------------------------------
Goto(p, step) == pc' = [pc EXCEPT ![p] = step]

(* A command ends, or fails in apply: it looks at the links anew. *)
Forget == todo' = {} /\ late' = {}

(* withLock returns: the deferred unlock, or the kernel at exit. *)
Leave(p) ==
    /\ Forget
    /\ lock' = NoLock
    /\ pc' = [pc EXCEPT ![p] = "idle"]
    /\ ret' = [ret EXCEPT ![p] = "start"]
    /\ op' = [op EXCEPT ![p] = NoOp]

(* Mutant: recovery trusts the journal and looks at no link. *)
LinksAgreeUnlessRecovering(before, after, recovering) ==
    recovering \/ \A n \in NamesOf(before) \cup NamesOf(after) :
                      bin[n] \in {{}, {Gone}, LinksOf(before)[n]}

(* A name in use must hold the link that was there before, or, when        *)
(* recovering, the one that was to come.                                   *)
LinksAgree(before, after, recovering) ==
    \A n \in NamesOf(before) \cup NamesOf(after) :
        \/ bin[n] \in {{}, {Gone}}
        \/ n \in NamesOf(before) /\ bin[n] = LinksOf(before)[n]
        \/ recovering /\ n \in NamesOf(after) /\ bin[n] = LinksOf(after)[n]

(* Mutant: links are replaced in any order. *)
PriorityNone(n, target) == 0

(* New versioned links first, default links next, old versioned ones last. *)
Priority(n, target) == IF n[2] = Plain THEN 1
                       ELSE IF n \in NamesOf(target) THEN 0 ELSE 2

NamesOfEither(before, after) == NamesOf(before) \cup NamesOf(after)

(* Whatever a name holds by now goes: applyLinks looks again at no name,   *)
(* but for a link that is right already, which it leaves.                  *)
ReplaceLink(n, target) ==
    /\ bin' = [bin EXCEPT ![n] = LinksOf(target)[n]]
    /\ todo' = todo \ {n}
    /\ late' = late \ {n}

NextLink(target) ==
    \E n \in todo :
        /\ \A m \in todo : Priority(n, target) <= Priority(m, target)
        /\ ReplaceLink(n, target)

(* The links were looked at: the loop that follows has all names before    *)
(* it, and what the user does from here on comes late.                     *)
Checked(before, after) ==
    /\ todo' = NamesOfEither(before, after)
    /\ late' = {}

Additions(before, after) == after.installed \ before.installed

(* Mutant: the committed mark is not read. *)
DesiredBefore == journal.before

Desired == IF journal.committed THEN journal.after ELSE journal.before

-----------------------------------------------------------------------------
(* The lock, and the recovery that runs before anything else under it. *)

Acquire(p) ==
    /\ pc[p] = "idle"
    /\ lock = NoLock
    /\ lock' = p
    /\ Goto(p, "recover")
    /\ UNCHANGED <<disk, loop, ret, op, faults>>

NothingToRecover(p) ==
    /\ pc[p] = "recover"
    /\ journal = NoTx
    /\ Goto(p, "ready")
    /\ UNCHANGED <<disk, loop, lock, ret, op, faults>>

(* Mutant: a link that was already replaced is taken for the user's. *)
CheckRecoveryStrictly(p) ==
    /\ pc[p] = "recover"
    /\ journal # NoTx
    /\ LinksAgree(journal.before, journal.after, FALSE)
    /\ Checked(journal.before, journal.after)
    /\ Goto(p, "restore")
    /\ UNCHANGED <<disk, lock, ret, op, faults>>

CheckRecovery(p) ==
    /\ pc[p] = "recover"
    /\ journal # NoTx
    /\ LinksAgree(journal.before, journal.after, TRUE)
    /\ Checked(journal.before, journal.after)
    /\ Goto(p, "restore")
    /\ UNCHANGED <<disk, lock, ret, op, faults>>

RefuseRecovery(p) ==
    /\ pc[p] = "recover"
    /\ journal # NoTx
    /\ ~ LinksAgree(journal.before, journal.after, TRUE)
    /\ Leave(p)
    /\ UNCHANGED <<disk, faults>>

RestoreLink(p) ==
    /\ pc[p] = "restore"
    /\ NextLink(Desired)
    /\ UNCHANGED <<installed, backup, journal, dirs, lock, pc, ret, op, faults>>

LinksRestored(p) ==
    /\ pc[p] = "restore"
    /\ todo = {}
    /\ Goto(p, "restoreState")
    /\ UNCHANGED <<disk, loop, lock, ret, op, faults>>

RestoreState(p) ==
    /\ pc[p] = "restoreState"
    /\ installed' = Desired
    /\ Goto(p, "sweep")
    /\ UNCHANGED <<backup, journal, dirs, bin, loop, lock, ret, op, faults>>

(* Mutant: the directories of Before go without the committed mark. *)
DoomedEarly ==
    {d \in Additions(journal.after, journal.before) : dirs[d] # "none"}

(* Committed: what only Before had goes, whoever put it there.  Otherwise  *)
(* an addition goes if its identity is that of the stage in the journal.   *)
Doomed ==
    IF journal.committed
    THEN {d \in Additions(journal.after, journal.before) : dirs[d] # "none"}
    ELSE {d \in Additions(journal.before, journal.after) : dirs[d] = "ours"}

SweepDir(p) ==
    /\ pc[p] = "sweep"
    /\ \E d \in Doomed : dirs' = [dirs EXCEPT ![d] = "none"]
    /\ UNCHANGED <<installed, backup, journal, bin, loop, lock, pc, ret, op,
                   faults>>

Swept(p) ==
    /\ pc[p] = "sweep"
    /\ Doomed = {}
    /\ Goto(p, "clear")
    /\ UNCHANGED <<disk, loop, lock, ret, op, faults>>

ClearJournal(p) ==
    /\ pc[p] = "clear"
    /\ journal' = NoTx
    /\ IF ret[p] = "start"
       THEN Goto(p, "ready") /\ UNCHANGED <<loop, lock, ret, op>>
       ELSE Leave(p)
    /\ UNCHANGED <<installed, backup, dirs, bin, faults>>

-----------------------------------------------------------------------------
(* An operation: choose After, check, back up, journal, apply, mark. *)

(* oo recover has nothing else to do; a refused plan changes nothing. *)
Return(p) ==
    /\ pc[p] = "ready"
    /\ Leave(p)
    /\ UNCHANGED <<disk, faults>>

(* Mutant: After is not validated. *)
PlanUnvalidated(p) ==
    /\ pc[p] = "ready"
    /\ \E after \in Plans(installed) :
        /\ \A d \in Additions(installed, after) : dirs[d] = "none"
        /\ op' = [op EXCEPT ![p] = [before |-> installed, after |-> after]]
    /\ Goto(p, "commit")
    /\ UNCHANGED <<disk, loop, lock, ret, faults>>

Plan(p) ==
    /\ pc[p] = "ready"
    /\ \E after \in Successors(installed) :
        /\ \A d \in Additions(installed, after) : dirs[d] = "none"
        /\ op' = [op EXCEPT ![p] = [before |-> installed, after |-> after]]
    /\ Goto(p, "commit")
    /\ UNCHANGED <<disk, loop, lock, ret, faults>>

Refuse(p) ==
    /\ \/ /\ pc[p] = "commit"
          /\ ~ LinksAgree(op[p].before, op[p].after, FALSE)
       \/ /\ pc[p] = "journal"
          /\ \E d \in Additions(op[p].before, op[p].after) : dirs[d] # "none"
    /\ Leave(p)
    /\ UNCHANGED <<disk, faults>>

(* Nothing to change: the links are put back in place without a journal.   *)
(* Two states that differ in their receipts only take the longer way.      *)
Relink(p) ==
    /\ pc[p] = "commit"
    /\ op[p].after = op[p].before
    /\ LinksAgree(op[p].before, op[p].after, FALSE)
    /\ Checked(op[p].before, op[p].after)
    /\ Goto(p, "links")
    /\ UNCHANGED <<disk, lock, ret, op, faults>>

BackUp(p) ==
    LET old == op[p].before.schema
    IN  /\ pc[p] = "commit"
        /\ LinksAgree(op[p].before, op[p].after, FALSE)
        /\ Checked(op[p].before, op[p].after)
        /\ backup' = IF old < op[p].after.schema /\ backup[old] = NoBackup
                     THEN [backup EXCEPT ![old] = op[p].before]
                     ELSE backup
        /\ Goto(p, "journal")
        /\ UNCHANGED <<installed, journal, dirs, bin, lock, ret, op, faults>>

WriteJournal(p) ==
    /\ pc[p] = "journal"
    /\ \A d \in Additions(op[p].before, op[p].after) : dirs[d] = "none"
    /\ journal' = [before |-> op[p].before, after |-> op[p].after,
                   committed |-> FALSE]
    /\ Goto(p, "move")
    /\ UNCHANGED <<installed, backup, dirs, bin, loop, lock, ret, op, faults>>

Unmoved(p) ==
    {d \in Additions(op[p].before, op[p].after) : dirs[d] # "ours"}

MoveStage(p) ==
    /\ pc[p] = "move"
    /\ \E d \in Unmoved(p) :
        /\ dirs[d] = "none"
        /\ dirs' = [dirs EXCEPT ![d] = "ours"]
    /\ UNCHANGED <<installed, backup, journal, bin, loop, lock, pc, ret, op,
                   faults>>

(* os.Rename refuses a directory that has appeared since. *)
MoveRefused(p) ==
    /\ pc[p] = "move"
    /\ \E d \in Unmoved(p) : dirs[d] = "theirs"
    /\ ret' = [ret EXCEPT ![p] = "failed"]
    /\ Forget
    /\ Goto(p, "recover")
    /\ UNCHANGED <<disk, lock, op, faults>>

Moved(p) ==
    /\ pc[p] = "move"
    /\ Unmoved(p) = {}
    /\ Goto(p, "links")
    /\ UNCHANGED <<disk, loop, lock, ret, op, faults>>

ApplyLink(p) ==
    /\ pc[p] = "links"
    /\ NextLink(op[p].after)
    /\ UNCHANGED <<installed, backup, journal, dirs, lock, pc, ret, op, faults>>

LinksApplied(p) ==
    /\ pc[p] = "links"
    /\ todo = {}
    /\ IF journal = NoTx
       THEN Leave(p)
       ELSE Goto(p, "state") /\ UNCHANGED <<loop, lock, ret, op>>
    /\ UNCHANGED <<disk, faults>>

WriteState(p) ==
    /\ pc[p] = "state"
    /\ installed' = op[p].after
    /\ Goto(p, "mark")
    /\ UNCHANGED <<backup, journal, dirs, bin, loop, lock, ret, op, faults>>

MarkCommitted(p) ==
    /\ pc[p] = "mark"
    /\ journal' = [journal EXCEPT !.committed = TRUE]
    /\ ret' = [ret EXCEPT ![p] = "ok"]
    /\ Goto(p, "recover")
    /\ UNCHANGED <<installed, backup, dirs, bin, loop, lock, op, faults>>

-----------------------------------------------------------------------------
(* Faults. *)

Fault == faults < MaxFaults /\ faults' = faults + 1

(* The process is killed, or an error makes withLock return early. *)
Abandon(p) ==
    /\ pc[p] # "idle"
    /\ Fault
    /\ Leave(p)
    /\ UNCHANGED disk

(* An I/O error inside apply rolls back in the same process. *)
ApplyFails(p) ==
    /\ pc[p] \in {"move", "links", "state", "mark"}
    /\ journal # NoTx
    /\ Fault
    /\ ret' = [ret EXCEPT ![p] = "failed"]
    /\ Forget
    /\ Goto(p, "recover")
    /\ UNCHANGED <<disk, lock, op>>

(* The user puts a directory where none is, at any moment. *)
UserDir ==
    /\ Fault
    /\ \E d \in Dir : dirs[d] = "none" /\ dirs' = [dirs EXCEPT ![d] = "theirs"]
    /\ UNCHANGED <<installed, backup, journal, bin, loop, lock, pc, ret, op>>

(* The user replaces or deletes a name in bin/, at any moment too: the     *)
(* lock keeps out other commands of oo's only.                             *)
UserFile ==
    /\ Fault
    /\ \E n \in Name :
        \/ /\ bin' = [bin EXCEPT ![n] = {Foreign}]
           /\ late' = late \cup (todo \cap {n})
        \/ /\ bin[n] # {} /\ bin' = [bin EXCEPT ![n] = {Gone}]
           /\ UNCHANGED late
    /\ UNCHANGED <<installed, backup, journal, dirs, todo, lock, pc, ret, op>>

-----------------------------------------------------------------------------
Work(p) ==
    \/ NothingToRecover(p) \/ CheckRecovery(p) \/ RefuseRecovery(p)
    \/ RestoreLink(p) \/ LinksRestored(p) \/ RestoreState(p)
    \/ SweepDir(p) \/ Swept(p) \/ ClearJournal(p)
    \/ Return(p) \/ Plan(p) \/ Refuse(p) \/ Relink(p) \/ BackUp(p)
    \/ WriteJournal(p) \/ MoveStage(p) \/ MoveRefused(p) \/ Moved(p)
    \/ ApplyLink(p) \/ LinksApplied(p) \/ WriteState(p) \/ MarkCommitted(p)

Next ==
    \/ \E p \in Process :
        Acquire(p) \/ Work(p) \/ Abandon(p) \/ ApplyFails(p)
    \/ UserDir
    \/ UserFile

Spec == Init /\ [][Next]_vars

(* A process that holds the lock runs on, and somebody runs oo again. *)
Fairness == /\ WF_vars(\E p \in Process : Acquire(p))
            /\ \A p \in Process : WF_vars(Work(p))

FairSpec == Spec /\ Fairness

-----------------------------------------------------------------------------
(* Only the holder of the lock is inside withLock. *)
LockHeld == \A p \in Process : pc[p] # "idle" => lock = p

(* Whatever step is interrupted, a link of ours leads to files of ours: a  *)
(* versioned link into a directory this program installed, a default link  *)
(* to a versioned name that is there unless the user took it (applyLinks   *)
(* orders its replacements for this, and directories go last).             *)
NoDanglingLink ==
    \A n \in Name : \A t \in bin[n] \ {Foreign, Gone} :
        IF n[2] = Plain THEN bin[t] # {} ELSE dirs[t] = "ours"

(* The state the root is in: what recovery would leave. *)
Effective == IF journal = NoTx THEN installed ELSE Desired

(* Every version the effective state records has its directory, before,    *)
(* during and after a transaction: nothing needed for the recovery in      *)
(* either direction is deleted early.                                      *)
FilesKept == \A d \in Effective.installed : dirs[d] = "ours"

(* A user's directory is only ever removed where a committed removal had   *)
(* deleted ours: a rollback never deletes one (rollbackAdditions).         *)
UserDirsKept ==
    [][\A d \in Dir : dirs[d] = "theirs" /\ dirs'[d] # "theirs" =>
          /\ journal # NoTx /\ journal.committed
          /\ d \in journal.before.installed \ journal.after.installed]_vars

(* What a command finds at its check of the links is never overwritten or  *)
(* deleted, in a new operation and in a recovery, although other steps of  *)
(* the command lie between the check and the replacement: only a file that *)
(* the user puts there behind the check can be.                            *)
UserFilesKept ==
    [][faults' = faults =>
          \A n \in Name : bin[n] = {Foreign} /\ n \notin late =>
                            bin'[n] = {Foreign}]_vars

(* An operation returns success only when its own result is complete: the  *)
(* state file, the links and the directories are those of its After.       *)
SuccessIsComplete ==
    [][\A p \in Process :
          ret[p] = "ok" /\ pc[p] = "clear" /\ journal' = NoTx =>
              /\ installed' = op[p].after
              /\ \A n \in Name : bin'[n] \in
                     {LinksOf(op[p].after)[n], {Foreign}, {Gone}}
              /\ \A d \in Dir :
                     dirs'[d] = "ours" <=> d \in op[p].after.installed]_vars

(* An interrupted operation is finished or undone by the commands that     *)
(* follow, unless a file of the user's at one of its links makes recovery  *)
(* refuse.                                                                 *)
Obstructed ==
    \E n \in NamesOf(journal.before) \cup NamesOf(journal.after) :
        bin[n] = {Foreign}

Recovers == journal # NoTx ~> journal = NoTx \/ Obstructed

(* What the journal and a process in memory agree on at each step: this    *)
(* and the exclusion make the transaction atomic.                          *)
JournalFits ==
    /\ journal # NoTx => journal.after \in Successors(journal.before)
    /\ \A p \in Process :
        /\ pc[p] \in {"restore", "restoreState", "sweep", "clear",
                      "move", "state", "mark"} => journal # NoTx
        /\ pc[p] \in {"ready", "commit", "journal"} => journal = NoTx
        /\ pc[p] \in {"sweep", "clear"} => installed = Desired
        /\ pc[p] \in {"commit", "journal", "move", "links", "state", "mark"} =>
               op[p] \in Op /\ op[p].after \in Successors(op[p].before)
        /\ pc[p] \in {"commit", "journal"} => op[p].before = installed
        /\ pc[p] \in {"move", "links", "state", "mark"} /\ journal # NoTx =>
               journal = [before |-> op[p].before, after |-> op[p].after,
                          committed |-> FALSE]

(* The whole transaction is one step of AtomicPackages. *)
Atomic == INSTANCE AtomicPackages WITH state <- Effective

AtomicSpec == Atomic!Spec
=============================================================================
