----------------------- MODULE PackageTransactionProofs -----------------------
(***************************************************************************)
(* What holds of the package transaction for every catalog, every number   *)
(* of processes and every number of faults: its types, the exclusion of    *)
(* two processes, that it implements AtomicPackages, and what becomes of   *)
(* the directories and of the links of bin/.                               *)
(***************************************************************************)
EXTENDS PackageTransaction, TLAPS

USE DEF disk, loop, Forget, Checked, NamesOfEither

-----------------------------------------------------------------------------
(* Operations produce states. *)

(* The fields of a state, and a state from its fields. *)
LEMMA StateFields ==
    ASSUME NEW s \in State
    PROVE  /\ s.installed \in SUBSET Dir
           /\ s.active \in [Package -> Version \cup {NoVersion}]
           /\ s.unlinked \in SUBSET Package
           /\ s.schema \in Schema
BY DEF State

(* A record of four such fields is a state. *)
LEMMA StateRecord ==
    ASSUME NEW i \in SUBSET Dir,
           NEW a \in [Package -> Version \cup {NoVersion}],
           NEW u \in SUBSET Package,
           NEW n \in Schema
    PROVE  [installed |-> i, active |-> a, unlinked |-> u, schema |-> n] \in State
BY DEF State

(* The two parts of a directory of the catalog. *)
LEMMA DirParts ==
    ASSUME NEW d \in Dir
    PROVE  d[1] \in Package /\ d[2] \in Version
BY CatalogAssumption

(* A plan yields a member of State: what it activates are versions.        *)
LEMMA PlannedType ==
    ASSUME NEW s \in State, NEW selected \in SUBSET Dir,
           NEW roots \in SUBSET selected, NEW passive \in SUBSET Dir
    PROVE  Planned(s, selected, roots, passive) \in State
<1> DEFINE activated == {d \in selected : \A e \in passive : e[1] # d[1]}
           newly(p) == CHOOSE d \in activated : d[1] = p
           active == [p \in Package |-> IF \E d \in activated : d[1] = p
                                        THEN newly(p)[2] ELSE s.active[p]]
           touched == selected \cup passive
           schema == IF touched \cap WithLauncher # {} THEN 3
                                                 ELSE AtLeast(s.schema, 2)
<1>1. active \in [Package -> Version \cup {NoVersion}]
    <2> SUFFICES ASSUME NEW p \in Package
                 PROVE  active[p] \in Version \cup {NoVersion}
        OBVIOUS
    <2>1. CASE \E d \in activated : d[1] = p
        <3>1. newly(p) \in activated
            BY <2>1
        <3>2. newly(p)[2] \in Version
            BY <3>1, DirParts
        <3> QED BY <2>1, <3>2
    <2>2. CASE ~ \E d \in activated : d[1] = p
        BY <2>2, StateFields
    <2> QED BY <2>1, <2>2
<1>2. s.installed \cup touched \in SUBSET Dir
    BY StateFields
<1>3. s.unlinked \ {d[1] : d \in roots} \in SUBSET Package
    BY StateFields
<1>4. schema \in Schema
    BY StateFields DEF Schema, AtLeast
<1>5. Planned(s, selected, roots, passive) =
        [installed |-> s.installed \cup touched, active |-> active,
         unlinked |-> s.unlinked \ {d[1] : d \in roots}, schema |-> schema]
    BY DEF Planned
<1> QED
    <2> HIDE DEF active, touched, schema
    <2> QED BY <1>1, <1>2, <1>3, <1>4, <1>5, StateRecord

(* Each operation computes a member of State from one. *)
LEMMA SuccessorsType ==
    ASSUME NEW s \in State
    PROVE  Successors(s) \subseteq State
<1>1. Plans(s) \subseteq State
    <2>1. OneEach \subseteq SUBSET Dir
        BY DEF OneEach
    <2>2. ASSUME NEW selected \in OneEach, NEW roots \in SUBSET selected
          PROVE  Planned(s, selected, roots, {}) \in State
        BY <2>1, PlannedType
    <2>3. ASSUME NEW selected \in OneEach, NEW passive \in OneEach
          PROVE  Planned(s, selected, {}, passive) \in State
        BY <2>1, PlannedType
    <2>4. \A selected \in OneEach : ActivationsOf(s, selected) \subseteq State
        BY <2>2 DEF ActivationsOf
    <2>5. Activations(s) \subseteq State
        BY <2>4 DEF Activations
    <2>6. PassiveInstalls(s) \subseteq State
        BY <2>3 DEF PassiveInstalls
    <2> QED BY <2>5, <2>6 DEF Plans
<1>2. ASSUME NEW d \in Dir, d[1] = Client
      PROVE  Bootstrapped(s, d) \in State
    <2>1. [s.active EXCEPT ![Client] = d[2]]
              \in [Package -> Version \cup {NoVersion}]
        BY StateFields, DirParts
    <2>2. s.installed \cup {d} \in SUBSET Dir
        BY StateFields
    <2>3. (IF d \in WithLauncher THEN 3 ELSE s.schema) \in Schema
        BY StateFields DEF Schema
    <2> QED BY <2>1, <2>2, <2>3 DEF Bootstrapped, State
<1>3. ASSUME NEW removing \in SUBSET s.installed
      PROVE  Removed(s, removing) \in State
    <2>1. [p \in Package |-> IF <<p, s.active[p]>> \in removing
                             THEN NoVersion ELSE s.active[p]]
              \in [Package -> Version \cup {NoVersion}]
        BY StateFields
    <2>2. s.installed \ removing \in SUBSET Dir
        BY StateFields
    <2>3. {p \in s.unlinked : \E d \in s.installed \ removing : d[1] = p}
              \in SUBSET Package
        BY StateFields
    <2> QED BY <2>1, <2>2, <2>3, StateFields, StateRecord DEF Removed
<1>4. ASSUME NEW names \in SUBSET Package
      PROVE  [s EXCEPT !.unlinked = @ \cup names, !.schema = 3] \in State
    <2>1. s.unlinked \cup names \in SUBSET Package
        BY StateFields
    <2>2. 3 \in Schema
        BY DEF Schema
    <2> QED BY <2>1, <2>2 DEF State
<1>5. Bootstraps(s) \subseteq State
    BY <1>2 DEF Bootstraps
<1>6. Removals(s) \subseteq State
    BY <1>3 DEF Removals
<1>7. Unlinks(s) \subseteq State
    BY <1>4 DEF Unlinks
<1> QED BY <1>1, <1>5, <1>6, <1>7 DEF Successors
-----------------------------------------------------------------------------
(* The inductive invariant. *)

IInv == TypeOK /\ LockHeld /\ JournalFits

(* The state of a new root is a state. *)
LEMMA EmptyStateType == EmptyState(InitialSchema) \in State
BY TransactionAssumption DEF EmptyState, State

(* The invariant holds of a new root. *)
LEMMA InitIInv == Init => IInv
<1> SUFFICES ASSUME Init PROVE IInv
    OBVIOUS
<1>1. TypeOK
    BY EmptyStateType DEF Init, TypeOK, Steps
<1>2. LockHeld /\ JournalFits
    BY DEF Init, LockHeld, JournalFits
<1> QED BY <1>1, <1>2 DEF IInv

(* The links of a state are sets of targets. *)
LEMMA LinksType ==
    ASSUME NEW s \in State
    PROVE  LinksOf(s) \in [Name -> SUBSET Target]
<1> SUFFICES ASSUME NEW n \in Name PROVE LinksOf(s)[n] \in SUBSET Target
    BY DEF LinksOf
<1>1. Linked(s) \subseteq Dir
    BY StateFields DEF Linked
<1>2. CASE n[2] = Plain
    <2>1. n[1] \in Command /\ \A d \in Linked(s) : <<n[1], d[2]>> \in Name
        BY <1>1, DirParts DEF Name
    <2> QED BY <1>2, <2>1 DEF LinksOf, Target
<1>3. CASE n[2] # Plain
    BY <1>1, <1>3 DEF LinksOf, Target
<1> QED BY <1>2, <1>3

(* Replacing one link keeps the types of bin and of the loop. *)
LEMMA NextLinkType ==
    ASSUME bin \in [Name -> SUBSET (Target \cup {Foreign, Gone})],
           todo \in SUBSET Name, late \in SUBSET Name,
           NEW target \in State,
           NextLink(target)
    PROVE  /\ bin' \in [Name -> SUBSET (Target \cup {Foreign, Gone})]
           /\ todo' \in SUBSET Name /\ late' \in SUBSET Name
<1>1. PICK n \in Name : /\ bin' = [bin EXCEPT ![n] = LinksOf(target)[n]]
                        /\ todo' = todo \ {n} /\ late' = late \ {n}
    BY DEF NextLink, ReplaceLink
<1>2. LinksOf(target)[n] \in SUBSET Target
    BY LinksType
<1> QED BY <1>1, <1>2

(* The loop visits names of bin/ only. *)
LEMMA NamesType ==
    ASSUME NEW before, NEW after
    PROVE  NamesOfEither(before, after) \in SUBSET Name
BY DEF NamesOf

(* Every step, of an operation, a recovery, a fault or the user, keeps it. *)
LEMMA NextIInv == IInv /\ [Next]_vars => IInv'
<1> SUFFICES ASSUME IInv, [Next]_vars PROVE IInv'
    OBVIOUS
<1> USE DEF IInv, TypeOK, LockHeld, JournalFits, Steps, Goto, Leave, Desired
<1>1. ASSUME NEW p \in Process, Acquire(p) PROVE IInv'
    BY <1>1, TransactionAssumption DEF Acquire
<1>2. ASSUME NEW p \in Process, NothingToRecover(p) PROVE IInv'
    BY <1>2 DEF NothingToRecover
<1>3. ASSUME NEW p \in Process, CheckRecovery(p) PROVE IInv'
    BY <1>3, NamesType DEF CheckRecovery
<1>4. ASSUME NEW p \in Process, RefuseRecovery(p) PROVE IInv'
    BY <1>4 DEF RefuseRecovery
<1>5. ASSUME NEW p \in Process, RestoreLink(p) PROVE IInv'
    <2>1. journal \in Tx /\ Desired \in State
        BY <1>5 DEF RestoreLink, Tx
    <2>2. /\ bin' \in [Name -> SUBSET (Target \cup {Foreign, Gone})]
          /\ todo' \in SUBSET Name /\ late' \in SUBSET Name
        BY <1>5, <2>1, NextLinkType DEF RestoreLink
    <2> QED BY <1>5, <2>2 DEF RestoreLink
<1>6. ASSUME NEW p \in Process, LinksRestored(p) PROVE IInv'
    BY <1>6 DEF LinksRestored
<1>7. ASSUME NEW p \in Process, RestoreState(p) PROVE IInv'
    <2>1. journal \in Tx /\ Desired \in State
        BY <1>7 DEF RestoreState, Tx
    <2>2. TypeOK' /\ LockHeld'
        BY <1>7, <2>1 DEF RestoreState
    <2>3. JournalFits'
        BY <1>7 DEF RestoreState
    <2> QED BY <2>2, <2>3
<1>8. ASSUME NEW p \in Process, SweepDir(p) PROVE IInv'
    BY <1>8 DEF SweepDir
<1>9. ASSUME NEW p \in Process, Swept(p) PROVE IInv'
    BY <1>9 DEF Swept
<1>10. ASSUME NEW p \in Process, ClearJournal(p) PROVE IInv'
    BY <1>10 DEF ClearJournal
<1>11. ASSUME NEW p \in Process, Return(p) PROVE IInv'
    BY <1>11 DEF Return
<1>12. ASSUME NEW p \in Process, Plan(p) PROVE IInv'
    <2>1. PICK after \in Successors(installed) :
              op' = [op EXCEPT ![p] = [before |-> installed, after |-> after]]
        BY <1>12 DEF Plan
    <2>2. [before |-> installed, after |-> after] \in Op
        BY <2>1, SuccessorsType DEF Op
    <2>3. TypeOK' /\ LockHeld'
        BY <1>12, <2>1, <2>2 DEF Plan
    <2>4. JournalFits'
        BY <1>12, <2>1, <2>2 DEF Plan
    <2> QED BY <2>3, <2>4
<1>13. ASSUME NEW p \in Process, Refuse(p) PROVE IInv'
    BY <1>13 DEF Refuse
<1>14. ASSUME NEW p \in Process, Relink(p) PROVE IInv'
    BY <1>14, NamesType DEF Relink
<1>15. ASSUME NEW p \in Process, BackUp(p) PROVE IInv'
    <2>1. todo' \in SUBSET Name /\ late' \in SUBSET Name
        BY <1>15, NamesType DEF BackUp
    <2> HIDE DEF NamesOfEither
    <2> QED BY <1>15, <2>1 DEF BackUp
<1>16. ASSUME NEW p \in Process, WriteJournal(p) PROVE IInv'
    <2>1. op[p] \in Op /\ op[p].after \in Successors(op[p].before)
        BY <1>16 DEF WriteJournal
    <2>2. journal' \in Tx /\ journal' # NoTx
        <3>1. op[p].before \in State /\ op[p].after \in State
            BY <2>1 DEF Op
        <3>2. journal' \in Tx
            BY <1>16, <3>1 DEF WriteJournal, Tx
        <3> QED BY <3>2, TransactionAssumption
    <2>3. TypeOK' /\ LockHeld'
        BY <1>16, <2>2 DEF WriteJournal
    <2>4. \A q \in Process : pc[q] # "idle" => q = p
        BY <1>16 DEF WriteJournal
    <2>5. JournalFits'
        BY <1>16, <2>1, <2>2, <2>4 DEF WriteJournal
    <2> QED BY <2>3, <2>5
<1>17. ASSUME NEW p \in Process, MoveStage(p) PROVE IInv'
    BY <1>17 DEF MoveStage
<1>18. ASSUME NEW p \in Process, MoveRefused(p) PROVE IInv'
    BY <1>18 DEF MoveRefused
<1>19. ASSUME NEW p \in Process, Moved(p) PROVE IInv'
    BY <1>19 DEF Moved
<1>20. ASSUME NEW p \in Process, ApplyLink(p) PROVE IInv'
    <2>1. op[p] \in Op /\ op[p].after \in State
        BY <1>20 DEF ApplyLink, Op
    <2>2. /\ bin' \in [Name -> SUBSET (Target \cup {Foreign, Gone})]
          /\ todo' \in SUBSET Name /\ late' \in SUBSET Name
        BY <1>20, <2>1, NextLinkType DEF ApplyLink
    <2> QED BY <1>20, <2>2 DEF ApplyLink
<1>21. ASSUME NEW p \in Process, LinksApplied(p) PROVE IInv'
    BY <1>21 DEF LinksApplied
<1>22. ASSUME NEW p \in Process, WriteState(p) PROVE IInv'
    <2>1. op[p].after \in State
        BY <1>22 DEF WriteState, Op
    <2>2. TypeOK' /\ LockHeld'
        BY <1>22, <2>1 DEF WriteState
    <2>3. \A q \in Process : pc[q] # "idle" => q = p
        BY <1>22 DEF WriteState
    <2>4. JournalFits'
        BY <1>22, <2>3 DEF WriteState
    <2> QED BY <2>2, <2>4
<1>23. ASSUME NEW p \in Process, MarkCommitted(p) PROVE IInv'
    <2>1. journal \in Tx
        BY <1>23 DEF MarkCommitted
    <2>2. /\ journal' \in Tx /\ journal' # NoTx
          /\ journal'.before = journal.before /\ journal'.after = journal.after
        BY <1>23, <2>1, TransactionAssumption DEF MarkCommitted, Tx
    <2>3. TypeOK' /\ LockHeld'
        BY <1>23, <2>2 DEF MarkCommitted
    <2>4. \A q \in Process : pc[q] # "idle" => q = p
        BY <1>23 DEF MarkCommitted
    <2>5. JournalFits'
        BY <1>23, <2>1, <2>2, <2>4 DEF MarkCommitted
    <2> QED BY <2>3, <2>5
<1>24. ASSUME NEW p \in Process, Abandon(p) PROVE IInv'
    BY <1>24 DEF Abandon, Fault
<1>25. ASSUME NEW p \in Process, ApplyFails(p) PROVE IInv'
    BY <1>25 DEF ApplyFails, Fault
<1>26. CASE UserDir
    BY <1>26 DEF UserDir, Fault
<1>27. CASE UserFile
    BY <1>27 DEF UserFile, Fault
<1>28. CASE UNCHANGED vars
    BY <1>28 DEF vars
<1> QED BY <1>1, <1>2, <1>3, <1>4, <1>5, <1>6, <1>7, <1>8, <1>9, <1>10, <1>11, <1>12, <1>13, <1>14, <1>15, <1>16, <1>17, <1>18, <1>19, <1>20, <1>21, <1>22, <1>23, <1>24, <1>25, <1>26, <1>27, <1>28 DEF Next, Work

(* The type, the exclusion and the agreement of the journal, together.     *)
THEOREM Invariance == Spec => []IInv
BY InitIInv, NextIInv, PTL DEF Spec

(* Every variable keeps its type, for every instance. *)
THEOREM TypeCorrect == Spec => []TypeOK
BY Invariance, PTL DEF IInv

(* No two processes are inside withLock at once, and the one inside holds  *)
(* the lock.                                                               *)
THEOREM Exclusion ==
    Spec => [](\A p, q \in Process :
                   pc[p] # "idle" /\ pc[q] # "idle" => p = q)
<1>1. IInv => \A p, q \in Process : pc[p] # "idle" /\ pc[q] # "idle" => p = q
    BY DEF IInv, LockHeld
<1> QED BY <1>1, Invariance, PTL

(* The journal, the state file and what the process in memory has planned  *)
(* agree at every step.                                                    *)
THEOREM JournalAgrees == Spec => []JournalFits
BY Invariance, PTL DEF IInv

-----------------------------------------------------------------------------
(* Refinement.  Effective is installed.json, or what the journal says      *)
(* recovery will make of it; only setting the committed mark changes it.   *)

(* AtomicPackages has the operations of this module, over the same         *)
(* constants.                                                              *)
LEMMA SameSuccessors ==
    ASSUME NEW s PROVE Atomic!Successors(s) = Successors(s)
<1>1. \A t : Atomic!Linked(t) = Linked(t)
    BY DEF Atomic!Linked, Linked
<1>2. \A t, p : Atomic!VersionsOf(t, p) = VersionsOf(t, p)
    BY DEF Atomic!VersionsOf, VersionsOf
<1>3. \A t : Atomic!UniqueOwners(t) <=> UniqueOwners(t)
    BY <1>1 DEF Atomic!UniqueOwners, UniqueOwners
<1>4. \A t : Atomic!Valid(t) <=> Valid(t)
    BY <1>2, <1>3 DEF Atomic!Valid, Valid
<1>5. \A m, n : Atomic!AtLeast(m, n) = AtLeast(m, n)
    BY DEF Atomic!AtLeast, AtLeast
<1>6. \A sel, roots, pas : Atomic!Planned(s, sel, roots, pas)
                           = Planned(s, sel, roots, pas)
    BY <1>5 DEF Atomic!Planned, Planned
<1>7. Atomic!OneEach = OneEach
    BY DEF Atomic!OneEach, OneEach, Atomic!OneVersionEach, OneVersionEach
<1>8. Atomic!Activations(s) = Activations(s)
    <2>1. \A sel : Atomic!ActivationsOf(s, sel) = ActivationsOf(s, sel)
        BY <1>6 DEF Atomic!ActivationsOf, ActivationsOf
    <2> QED BY <2>1, <1>7 DEF Atomic!Activations, Activations
<1>9. Atomic!PassiveInstalls(s) = PassiveInstalls(s)
    BY <1>6, <1>7 DEF Atomic!PassiveInstalls, PassiveInstalls
<1>10. Atomic!Bootstraps(s) = Bootstraps(s)
    BY DEF Atomic!Bootstraps, Bootstraps, Atomic!Bootstrapped, Bootstrapped
<1>11. Atomic!Removals(s) = Removals(s)
    BY DEF Atomic!Removals, Removals, Atomic!Removed, Removed
<1>12. Atomic!Unlinks(s) = Unlinks(s)
    BY <1>2 DEF Atomic!Unlinks, Unlinks
<1> QED BY <1>4, <1>8, <1>9, <1>10, <1>11, <1>12
        DEF Atomic!Successors, Successors, Atomic!Plans, Plans

(* A new root is effectively empty. *)
LEMMA EffectiveInit == Init => Effective = EmptyState(InitialSchema)
BY DEF Init, Effective

(* Where the effective state does not change while the journal or the      *)
(* state file does: clearing, restoring and writing them.                  *)
LEMMA EffectiveSteps ==
    ASSUME IInv, NEW p \in Process,
           RestoreState(p) \/ ClearJournal(p) \/ WriteJournal(p) \/ WriteState(p)
    PROVE  Effective' = Effective
<1> USE DEF IInv, TypeOK, LockHeld, JournalFits, Goto, Leave, Desired, Effective
<1>1. CASE RestoreState(p)
    BY <1>1 DEF RestoreState
<1>2. CASE ClearJournal(p)
    BY <1>2 DEF ClearJournal
<1>3. CASE WriteJournal(p)
    <2>1. journal = NoTx /\ op[p].before = installed
        BY <1>3 DEF WriteJournal
    <2>2. journal' # NoTx => Effective' = op[p].before
        BY <1>3 DEF WriteJournal
    <2>3. journal' = NoTx => Effective' = installed
        BY <1>3 DEF WriteJournal
    <2> QED BY <2>1, <2>2, <2>3
<1>4. CASE WriteState(p)
    BY <1>4 DEF WriteState
<1> QED BY <1>1, <1>2, <1>3, <1>4

(* Every step leaves the effective state, or makes a successor of it.      *)
LEMMA EffectiveNext ==
    ASSUME IInv, [Next]_vars
    PROVE  Effective' = Effective \/ Effective' \in Successors(Effective)
<1> USE DEF IInv, TypeOK, LockHeld, JournalFits, Goto, Leave, Desired, Effective
<1>1. ASSUME NEW p \in Process,
             RestoreState(p) \/ ClearJournal(p) \/ WriteJournal(p) \/ WriteState(p)
      PROVE  Effective' = Effective
    BY <1>1, EffectiveSteps
<1>2. ASSUME NEW p \in Process, MarkCommitted(p)
      PROVE  Effective' \in Successors(Effective)
    <2>1. journal \in Tx /\ journal # NoTx /\ ~ journal.committed
        BY <1>2 DEF MarkCommitted
    <2>2. Effective = journal.before
        BY <2>1
    <2>3. journal' \in Tx /\ journal'.committed /\ journal'.after = journal.after
        BY <1>2, <2>1 DEF MarkCommitted, Tx
    <2>4. Effective' = journal.after
        BY <2>3, TransactionAssumption
    <2> QED BY <2>1, <2>2, <2>4
<1>3. ASSUME UNCHANGED <<installed, journal>> PROVE Effective' = Effective
    BY <1>3
<1>4. ASSUME NEW p \in Process,
             Acquire(p) \/ Abandon(p) \/ ApplyFails(p) \/ NothingToRecover(p)
             \/ CheckRecovery(p) \/ RefuseRecovery(p) \/ RestoreLink(p)
             \/ LinksRestored(p) \/ SweepDir(p) \/ Swept(p) \/ Return(p)
             \/ Plan(p) \/ Refuse(p) \/ Relink(p) \/ BackUp(p) \/ MoveStage(p)
             \/ MoveRefused(p) \/ Moved(p) \/ ApplyLink(p) \/ LinksApplied(p)
      PROVE  UNCHANGED <<installed, journal>>
    BY <1>4 DEF Acquire, Abandon, ApplyFails, NothingToRecover, CheckRecovery,
        RefuseRecovery, RestoreLink, LinksRestored, SweepDir, Swept, Return,
        Plan, Refuse, Relink, BackUp, MoveStage, MoveRefused, Moved, ApplyLink,
        LinksApplied
<1>5. ASSUME UserDir \/ UserFile \/ UNCHANGED vars
      PROVE  UNCHANGED <<installed, journal>>
    BY <1>5 DEF UserDir, UserFile, vars
<1> QED BY <1>1, <1>2, <1>3, <1>4, <1>5 DEF Next, Work

(* A package operation, however it is interrupted and recovered, is one    *)
(* step of AtomicPackages or none: all of it happens or nothing does.      *)
THEOREM ImplementsAtomic == Spec => AtomicSpec
<1>1. Init => Atomic!Init
    BY EffectiveInit DEF Atomic!Init, Atomic!EmptyState, EmptyState
<1>2. IInv /\ [Next]_vars => [Atomic!Next]_Effective
    <2> SUFFICES ASSUME IInv, [Next]_vars PROVE [Atomic!Next]_Effective
        OBVIOUS
    <2>1. CASE Effective' = Effective
        BY <2>1
    <2>2. CASE Effective' # Effective /\ Effective' \in Successors(Effective)
        BY <2>2, SameSuccessors DEF Atomic!Next, Atomic!Operate
    <2> QED BY <2>1, <2>2, EffectiveNext
<1> QED BY <1>1, <1>2, Invariance, PTL DEF Spec, AtomicSpec, Atomic!Spec
-----------------------------------------------------------------------------
(* The directories. *)

(* FilesKept needs to know that every stage is in place before the links   *)
(* and the state file change.                                              *)
StagesMoved ==
    \A p \in Process :
        pc[p] \in {"links", "state", "mark"} /\ journal # NoTx => Unmoved(p) = {}

DirInv == FilesKept /\ StagesMoved

(* A new root needs no directory. *)
LEMMA InitDirInv == Init => DirInv
BY DEF Init, DirInv, FilesKept, StagesMoved, Effective, EmptyState

(* A step that leaves the directories and the effective state alone.       *)
LEMMA FilesKeptFrame ==
    ASSUME FilesKept, Effective' = Effective, UNCHANGED dirs
    PROVE  FilesKept'
BY DEF FilesKept

(* Every step keeps the directories the effective state records, and the   *)
(* stages an operation has moved.                                          *)
LEMMA NextDirInv == IInv /\ DirInv /\ [Next]_vars => DirInv'
<1> SUFFICES ASSUME IInv, DirInv, [Next]_vars PROVE DirInv'
    OBVIOUS
<1> USE DEF IInv, LockHeld, Goto, Leave
<1>1. ASSUME NEW p \in Process, SweepDir(p) PROVE DirInv'
    <2>1. journal # NoTx /\ journal' = journal /\ installed' = installed
        BY <1>1 DEF SweepDir, JournalFits
    <2>2. PICK d \in Doomed : dirs' = [dirs EXCEPT ![d] = "none"]
        BY <1>1 DEF SweepDir
    <2>3. d \notin Effective.installed
        BY <2>1 DEF Doomed, Effective, Desired, Additions
    <2>4. FilesKept'
        BY <2>1, <2>2, <2>3 DEF DirInv, FilesKept, Effective, Desired, TypeOK
    <2>5. StagesMoved'
        BY <1>1 DEF SweepDir, StagesMoved, TypeOK
    <2> QED BY <2>4, <2>5 DEF DirInv
<1>2. ASSUME NEW p \in Process, MoveStage(p) PROVE DirInv'
    <2>1. PICK d \in Unmoved(p) : dirs[d] = "none"
                                  /\ dirs' = [dirs EXCEPT ![d] = "ours"]
        BY <1>2 DEF MoveStage
    <2>2. Effective' = Effective
        BY <1>2 DEF MoveStage, Effective, Desired
    <2>3. FilesKept'
        BY <2>1, <2>2 DEF DirInv, FilesKept, TypeOK
    <2>4. StagesMoved'
        BY <1>2 DEF MoveStage, StagesMoved, TypeOK
    <2> QED BY <2>3, <2>4 DEF DirInv
<1>3. ASSUME NEW d \in Dir, dirs[d] = "none", dirs' = [dirs EXCEPT ![d] = "theirs"],
             UNCHANGED <<installed, journal, pc, op>>
      PROVE  DirInv'
    <2>1. Effective' = Effective
        BY <1>3 DEF Effective, Desired
    <2>2. FilesKept'
        BY <1>3, <2>1 DEF DirInv, FilesKept, TypeOK
    <2>3. StagesMoved'
        BY <1>3 DEF DirInv, StagesMoved, Unmoved, Additions, TypeOK
    <2> QED BY <2>2, <2>3 DEF DirInv
<1>4. CASE UserDir
    BY <1>3, <1>4 DEF UserDir
<1>5. ASSUME NEW p \in Process, MarkCommitted(p) PROVE DirInv'
    <2>1. /\ journal # NoTx
          /\ journal = [before |-> op[p].before, after |-> op[p].after,
                        committed |-> FALSE]
          /\ Unmoved(p) = {}
        BY <1>5 DEF MarkCommitted, JournalFits, DirInv, StagesMoved
    <2>2. \A d \in op[p].before.installed : dirs[d] = "ours"
        BY <2>1 DEF DirInv, FilesKept, Effective, Desired
    <2>3. \A d \in op[p].after.installed : dirs[d] = "ours"
        BY <2>1, <2>2 DEF Unmoved, Additions
    <2>4. /\ journal' \in Tx /\ journal'.committed
          /\ journal'.after = op[p].after
        BY <1>5, <2>1 DEF MarkCommitted, TypeOK, Tx
    <2>5. Effective' = op[p].after
        BY <2>4, TransactionAssumption DEF Effective, Desired
    <2>6. FilesKept'
        BY <1>5, <2>3, <2>5 DEF FilesKept, MarkCommitted
    <2>7. StagesMoved'
        BY <1>5 DEF MarkCommitted, StagesMoved, TypeOK
    <2> QED BY <2>6, <2>7 DEF DirInv
<1>6. ASSUME NEW p \in Process, Moved(p) PROVE DirInv'
    <2>1. FilesKept'
        BY <1>6 DEF Moved, DirInv, FilesKept, Effective, Desired
    <2>2. StagesMoved'
        BY <1>6 DEF Moved, StagesMoved, TypeOK, Unmoved, Additions
    <2> QED BY <2>1, <2>2 DEF DirInv
<1>7. ASSUME NEW p \in Process,
             RestoreState(p) \/ ClearJournal(p) \/ WriteJournal(p) \/ WriteState(p)
      PROVE  DirInv'
    <2>1. UNCHANGED dirs
        BY <1>7 DEF RestoreState, ClearJournal, WriteJournal, WriteState
    <2>2. Effective' = Effective
        BY <1>7, EffectiveSteps
    <2>3. FilesKept'
        BY <2>1, <2>2, FilesKeptFrame DEF DirInv
    <2>4. StagesMoved'
        BY <1>7 DEF RestoreState, ClearJournal, WriteJournal, WriteState,
            DirInv, StagesMoved, TypeOK, Unmoved, Additions, JournalFits
    <2> QED BY <2>3, <2>4 DEF DirInv
<1>8. ASSUME NEW p \in Process,
             Acquire(p) \/ Abandon(p) \/ ApplyFails(p) \/ NothingToRecover(p)
             \/ CheckRecovery(p) \/ RefuseRecovery(p) \/ RestoreLink(p)
             \/ LinksRestored(p) \/ Swept(p) \/ Return(p) \/ Plan(p) \/ Refuse(p)
             \/ Relink(p) \/ BackUp(p) \/ MoveRefused(p) \/ ApplyLink(p)
             \/ LinksApplied(p)
      PROVE  DirInv'
    <2>1. UNCHANGED <<installed, journal, dirs>>
        BY <1>8 DEF Acquire, Abandon, ApplyFails, NothingToRecover,
            CheckRecovery, RefuseRecovery, RestoreLink, LinksRestored, Swept,
            Return, Plan, Refuse, Relink, BackUp, MoveRefused, ApplyLink,
            LinksApplied
    <2>2. FilesKept'
        BY <2>1 DEF DirInv, FilesKept, Effective, Desired
    <2>3. \A q \in Process :
              pc'[q] \in {"links", "state", "mark"} /\ journal # NoTx =>
                  pc[q] \in {"links", "state", "mark"} /\ op'[q] = op[q]
        BY ZenonT(60), <1>8 DEF Acquire, Abandon, ApplyFails, NothingToRecover,
            CheckRecovery, RefuseRecovery, RestoreLink, LinksRestored, Swept,
            Return, Plan, Refuse, Relink, BackUp, MoveRefused, ApplyLink,
            LinksApplied, TypeOK, JournalFits
    <2>4. StagesMoved'
        BY <2>1, <2>3 DEF DirInv, StagesMoved, Unmoved, Additions
    <2> QED BY <2>2, <2>4 DEF DirInv
<1>9. CASE UserFile \/ UNCHANGED vars
    BY <1>9 DEF UserFile, vars, DirInv, FilesKept, StagesMoved, Effective,
        Desired, Unmoved, Additions
<1> QED BY <1>1, <1>2, <1>4, <1>5, <1>6, <1>7, <1>8, <1>9 DEF Next, Work

(* Together with the first invariant it is inductive. *)
THEOREM DirInvariance == Spec => []DirInv
BY InitDirInv, NextDirInv, Invariance, PTL DEF Spec

(* Every version of the effective state has the directory this program     *)
(* installed, at every step of every operation, crash and recovery.        *)
THEOREM FilesAreKept == Spec => []FilesKept
BY DirInvariance, PTL DEF DirInv

(* A rollback never deletes a directory of the user's.                     *)
THEOREM UserDirsAreKept == Spec => UserDirsKept
<1> DEFINE P == \A d \in Dir : dirs[d] = "theirs" /\ dirs'[d] # "theirs" =>
                    /\ journal # NoTx /\ journal.committed
                    /\ d \in journal.before.installed \ journal.after.installed
<1>1. IInv /\ [Next]_vars => [P]_vars
    <2> SUFFICES ASSUME IInv, [Next]_vars PROVE P
        OBVIOUS
    <2>1. ASSUME NEW p \in Process, SweepDir(p) PROVE P
        BY <2>1 DEF SweepDir, Doomed, Additions, IInv, TypeOK, JournalFits
    <2>2. ASSUME NEW p \in Process, MoveStage(p) PROVE P
        BY <2>2 DEF MoveStage, IInv, TypeOK
    <2>3. CASE UserDir
        BY <2>3 DEF UserDir, IInv, TypeOK
    <2>4. CASE UNCHANGED dirs
        BY <2>4
    <2>5. ASSUME NEW p \in Process, Acquire(p) \/ Work(p) \/ Abandon(p) \/ ApplyFails(p),
                 ~ SweepDir(p), ~ MoveStage(p)
          PROVE  UNCHANGED dirs
        BY <2>5 DEF Work, Acquire, Abandon, ApplyFails, NothingToRecover,
            CheckRecovery, RefuseRecovery, RestoreLink, LinksRestored,
            RestoreState, Swept, ClearJournal, Return, Plan, Refuse, Relink,
            BackUp, WriteJournal, MoveRefused, Moved, ApplyLink, LinksApplied,
            WriteState, MarkCommitted
    <2> QED BY <2>1, <2>2, <2>3, <2>4, <2>5 DEF Next, UserFile, vars
<1> QED BY <1>1, Invariance, PTL DEF Spec, UserDirsKept
-----------------------------------------------------------------------------
(* The links. *)

(* A name holds nothing, the user's doing, or one of two states' links.    *)
LinksFit(before, after) ==
    \A n \in Name :
        bin[n] \in {{}, {Foreign}, {Gone}, LinksOf(before)[n], LinksOf(after)[n]}

LinksKnown == IF journal = NoTx THEN LinksFit(installed, installed)
              ELSE LinksFit(journal.before, journal.after)

(* Without a journal only links that are recorded are put back. *)
RelinksOnly ==
    \A p \in Process : pc[p] = "links" /\ journal = NoTx =>
        op[p].before = installed /\ op[p].after = installed

(* What the loop of applyLinks has visited is what it is to be, or the     *)
(* user's since.                                                           *)
Settled(before, after, target) ==
    /\ todo \subseteq NamesOfEither(before, after)
    /\ \A n \in NamesOfEither(before, after) \ todo :
           bin[n] \in {LinksOf(target)[n], {Foreign}, {Gone}}

(* Every link has been visited before the sweep deletes a directory. *)
LinksSettled ==
    \A p \in Process :
        /\ pc[p] \in {"journal", "move"} =>
               todo = NamesOfEither(op[p].before, op[p].after)
        /\ pc[p] = "links" => Settled(op[p].before, op[p].after, op[p].after)
        /\ pc[p] \in {"restore", "restoreState", "sweep", "clear"} =>
               Settled(journal.before, journal.after, Desired)
        /\ pc[p] \in {"restoreState", "sweep", "clear"} => todo = {}

(* The check of the links leaves no file of the user's before the loop.    *)
ForeignIsLate == \A n \in todo : bin[n] = {Foreign} => n \in late

(* The directories this program installed are those of the record ...      *)
OursRecorded ==
    \A d \in Dir : dirs[d] = "ours" =>
        IF journal = NoTx THEN d \in installed.installed
        ELSE d \in journal.before.installed \cup journal.after.installed

(* ... and, once a recovery has swept, of the state it leads to. *)
OursSwept ==
    \A p \in Process : pc[p] = "clear" =>
        \A d \in Dir : dirs[d] = "ours" => d \in Desired.installed

(* A process that will report success is finishing its own journal. *)
SuccessFits ==
    \A p \in Process : ret[p] = "ok" =>
        /\ pc[p] \in {"recover", "restore", "restoreState", "sweep", "clear"}
        /\ journal # NoTx /\ journal.committed
        /\ journal.after = op[p].after

Controls == RelinksOnly /\ LinksSettled /\ ForeignIsLate /\ OursSwept /\ SuccessFits

LinkInv == LinksKnown /\ OursRecorded /\ NoDanglingLink /\ Controls

(* A default link leads to a versioned name, which its state links too; a  *)
(* versioned one into a directory the state records.                       *)
LEMMA LinkTargets ==
    ASSUME NEW s \in State, NEW n \in Name, NEW t \in LinksOf(s)[n]
    PROVE  /\ n[2] = Plain => t \in Name /\ t[2] # Plain /\ LinksOf(s)[t] # {}
           /\ n[2] # Plain => t \in s.installed
<1>1. Linked(s) \subseteq Dir /\ Linked(s) \subseteq s.installed
    BY StateFields DEF Linked
<1>2. CASE n[2] = Plain
    <2>1. PICK d \in Linked(s) : n[1] \in Provides[d] /\ t = <<n[1], d[2]>>
        BY <1>2 DEF LinksOf
    <2>2. d[2] \in Version /\ d[2] # Plain
        BY <2>1, <1>1, DirParts, CatalogAssumption
    <2>3. t \in Name /\ t[2] # Plain
        BY <2>1, <2>2 DEF Name
    <2>4. d \in LinksOf(s)[t]
        BY <2>1, <2>3 DEF LinksOf
    <2> QED BY <1>2, <2>3, <2>4
<1>3. CASE n[2] # Plain
    BY <1>1, <1>3 DEF LinksOf
<1> QED BY <1>2, <1>3

(* A link is never a file of the user's, and no name holds both. *)
LEMMA LinksAreOurs ==
    ASSUME NEW s \in State, NEW n \in Name
    PROVE  LinksOf(s)[n] # {Foreign} /\ LinksOf(s)[n] # {Gone}
BY LinksType, TransactionAssumption

(* The check of the links finds every file of the user's. *)
LEMMA CheckExcludes ==
    ASSUME NEW before \in State, NEW after \in State, NEW recovering,
           LinksAgree(before, after, recovering)
    PROVE  \A n \in NamesOfEither(before, after) : bin[n] # {Foreign}
<1> SUFFICES ASSUME NEW n \in NamesOf(before) \cup NamesOf(after)
             PROVE  bin[n] # {Foreign}
    OBVIOUS
<1>1. n \in Name
    BY DEF NamesOf
<1>2. \/ bin[n] \in {{}, {Gone}}
      \/ bin[n] = LinksOf(before)[n]
      \/ bin[n] = LinksOf(after)[n]
    BY DEF LinksAgree
<1> QED BY <1>1, <1>2, LinksAreOurs, TransactionAssumption

(* Visiting one name in the order of priorities lets no link dangle: the   *)
(* versioned name of a new default link is there before it, and one that   *)
(* goes has no default link any more.  Whatever the user has done to the   *)
(* names visited, the rest of the loop finds them settled.                 *)
LEMMA NextLinkKeeps ==
    ASSUME TypeOK, NEW before \in State, NEW after \in State,
           NEW target \in {before, after},
           LinksFit(before, after), NoDanglingLink,
           Settled(before, after, target), ForeignIsLate,
           \A d \in target.installed : dirs[d] = "ours", UNCHANGED dirs,
           NextLink(target)
    PROVE  /\ \A n \in Name : bin'[n] \in {{}, {Foreign}, {Gone}, LinksOf(before)[n],
                                           LinksOf(after)[n]}
           /\ NoDanglingLink'
           /\ ForeignIsLate'
           /\ todo' \subseteq NamesOfEither(before, after)
           /\ \A n \in NamesOfEither(before, after) \ todo' :
                  bin'[n] \in {LinksOf(target)[n], {Foreign}, {Gone}}
<1> DEFINE named == NamesOf(before) \cup NamesOf(after)
<1>1. PICK n \in todo :
          /\ \A m \in todo : Priority(n, target) <= Priority(m, target)
          /\ bin' = [bin EXCEPT ![n] = LinksOf(target)[n]]
          /\ todo' = todo \ {n} /\ late' = late \ {n}
    BY DEF NextLink, ReplaceLink
<1>2. n \in Name /\ n \in named /\ todo \subseteq named /\ named \subseteq Name
    BY DEF Settled, NamesOf
<1>3. bin'[n] = LinksOf(target)[n] /\ \A m \in Name \ {n} : bin'[m] = bin[m]
    BY <1>1, <1>2 DEF TypeOK
<1>4. \A m \in named \ todo : bin[m] \in {LinksOf(target)[m], {Foreign}, {Gone}}
    BY DEF Settled
<1>5. \A m \in Name : bin'[m] \in {{}, {Foreign}, {Gone}, LinksOf(before)[m],
                                    LinksOf(after)[m]}
    BY <1>3 DEF LinksFit
<1>6. /\ todo' \subseteq named
      /\ \A m \in named \ todo' : bin'[m] \in {LinksOf(target)[m], {Foreign}, {Gone}}
      /\ ForeignIsLate'
    <2>1. \A m \in named \ todo' : bin'[m] \in {LinksOf(target)[m], {Foreign}, {Gone}}
        BY <1>1, <1>2, <1>3, <1>4
    <2>2. ForeignIsLate'
        BY <1>1, <1>2, <1>3 DEF ForeignIsLate
    <2> QED BY <1>1, <1>2, <2>1, <2>2
<1>7. NoDanglingLink'
    <2> SUFFICES ASSUME NEW m \in Name, NEW t \in bin'[m] \ {Foreign, Gone}
                 PROVE  IF m[2] = Plain THEN bin'[t] # {} ELSE dirs[t] = "ours"
        BY DEF NoDanglingLink
    <2>1. CASE m[2] # Plain
        <3>1. CASE m = n
            BY <2>1, <3>1, <1>3, LinkTargets
        <3>2. CASE m # n
            BY <2>1, <3>2, <1>3 DEF NoDanglingLink
        <3> QED BY <3>1, <3>2
    <2>2. CASE m[2] = Plain /\ m = n
        <3>1. t \in Name /\ t[2] # Plain /\ LinksOf(target)[t] # {}
            BY <2>2, <1>3, LinkTargets
        <3>2. t \in named /\ t # n
            BY <3>1, <2>2 DEF NamesOf
        <3>3. Priority(n, target) = 1 /\ Priority(t, target) = 0
            BY <3>1, <2>2 DEF Priority, NamesOf
        <3>4. t \notin todo
            BY <3>3, <1>1
        <3>5. bin[t] # {}
            BY <3>1, <3>2, <3>4, <1>4
        <3> QED BY <2>2, <3>1, <3>2, <3>5, <1>3
    <2>3. CASE m[2] = Plain /\ m # n
        <3>1. t \in bin[m] /\ bin[t] # {}
            BY <2>3, <1>3 DEF NoDanglingLink
        <3>2. CASE LinksOf(target)[n] # {} \/ t # n
            <4>1. \E s \in {before, after} : t \in LinksOf(s)[m]
                BY <3>1 DEF LinksFit
            <4>2. t \in Name
                BY <4>1, <2>3, LinkTargets
            <4> QED BY <2>3, <3>1, <3>2, <4>2, <1>3
        <3>3. CASE LinksOf(target)[n] = {} /\ t = n
            <4>1. \E s \in {before, after} : t \in LinksOf(s)[m]
                BY <3>1 DEF LinksFit
            <4>2. t[2] # Plain
                BY <4>1, <2>3, LinkTargets
            <4>3. Priority(n, target) = 2 /\ Priority(m, target) = 1
                BY <3>3, <4>2, <2>3 DEF Priority, NamesOf
            <4>4. m \in named \ todo
                BY <4>3, <1>1, <4>1 DEF NamesOf
            <4>5. t \in LinksOf(target)[m]
                BY <4>4, <1>4, <3>1
            <4> QED BY <4>5, <2>3, <3>3, LinkTargets
        <3> QED BY <3>2, <3>3
    <2> QED BY <2>1, <2>2, <2>3
<1> QED BY <1>5, <1>6, <1>7

(* A new root has no link and no directory. *)
LEMMA InitLinkInv == Init => LinkInv
<1> SUFFICES ASSUME Init PROVE LinkInv
    OBVIOUS
<1>1. LinksKnown /\ OursRecorded /\ NoDanglingLink
    BY DEF Init, LinksKnown, LinksFit, OursRecorded, NoDanglingLink
<1>2. Controls
    BY DEF Init, Controls, RelinksOnly, LinksSettled, ForeignIsLate, OursSwept,
        SuccessFits
<1> QED BY <1>1, <1>2 DEF LinkInv

(* A step that changes nothing on the disk keeps what is known of it:      *)
(* what is left to show is what the processes know.                        *)
LEMMA DiskFrame ==
    ASSUME LinkInv, UNCHANGED disk
    PROVE  LinksKnown' /\ OursRecorded' /\ NoDanglingLink'
BY DEF LinkInv, LinksKnown, LinksFit, OursRecorded, NoDanglingLink

(* Every step keeps the links and what is known of them.                   *)
LEMMA NextLinkInv == IInv /\ DirInv /\ LinkInv /\ [Next]_vars => LinkInv'
<1> SUFFICES ASSUME IInv, DirInv, LinkInv, [Next]_vars PROVE LinkInv'
    OBVIOUS
<1> USE DEF Goto, Leave, IInv, LockHeld, TypeOK
<1> DEFINE Alone(p) == \A q \in Process : pc[q] # "idle" => q = p
<1>a. \A p \in Process : pc[p] # "idle" => Alone(p)
    OBVIOUS
<1>1. ASSUME NEW p \in Process, Acquire(p) PROVE LinkInv'
    <2>1. Controls'
        BY <1>1 DEF Acquire, LinkInv, Controls, RelinksOnly, LinksSettled, Settled,
            Desired, ForeignIsLate, OursSwept, SuccessFits
    <2> QED BY <1>1, <2>1, DiskFrame DEF Acquire, LinkInv
<1>2. ASSUME NEW p \in Process, NothingToRecover(p) PROVE LinkInv'
    <2>1. Controls'
        BY <1>2 DEF NothingToRecover, LinkInv, Controls, RelinksOnly, LinksSettled, Settled,
            Desired, ForeignIsLate, OursSwept, SuccessFits
    <2> QED BY <1>2, <2>1, DiskFrame DEF NothingToRecover, LinkInv
<1>3. ASSUME NEW p \in Process, CheckRecovery(p) PROVE LinkInv'
    <2>1. \A n \in NamesOfEither(journal.before, journal.after) : bin[n] # {Foreign}
        <3>1. journal.before \in State /\ journal.after \in State
            BY <1>3 DEF CheckRecovery, Tx
        <3> QED BY <1>3, <3>1, CheckExcludes DEF CheckRecovery
    <2>2. Controls'
        BY <1>3, <2>1 DEF CheckRecovery, LinkInv, Controls, RelinksOnly, LinksSettled, Settled,
            Desired, ForeignIsLate, OursSwept, SuccessFits
    <2> QED BY <1>3, <2>2, DiskFrame DEF CheckRecovery, LinkInv
<1>4. ASSUME NEW p \in Process,
             RefuseRecovery(p) \/ Return(p) \/ Refuse(p) \/ Abandon(p)
      PROVE  LinkInv'
    <2>1. UNCHANGED disk /\ Leave(p) /\ pc[p] # "idle"
        BY <1>4 DEF RefuseRecovery, Return, Refuse, Abandon
    <2>2. Controls'
        BY <2>1, <1>a DEF LinkInv, Controls, RelinksOnly, LinksSettled, ForeignIsLate,
            OursSwept, SuccessFits
    <2> QED BY <2>1, <2>2, DiskFrame DEF LinkInv
<1>5. ASSUME NEW p \in Process, RestoreLink(p) PROVE LinkInv'
    <2>1. /\ journal # NoTx /\ journal.before \in State /\ journal.after \in State
          /\ Desired \in {journal.before, journal.after}
        BY <1>5 DEF RestoreLink, JournalFits, Tx, Desired
    <2>2. \A d \in Desired.installed : dirs[d] = "ours"
        BY <2>1 DEF DirInv, FilesKept, Effective
    <2>3. /\ LinksFit(journal.before, journal.after)'
          /\ NoDanglingLink'
          /\ Settled(journal.before, journal.after, Desired)'
          /\ ForeignIsLate'
        <3>1. /\ Settled(journal.before, journal.after, Desired) /\ ForeignIsLate
              /\ LinksFit(journal.before, journal.after) /\ NoDanglingLink
            BY <1>5, <2>1 DEF RestoreLink, LinkInv, Controls, LinksSettled, LinksKnown
        <3> DEFINE b == journal.before
                   a == journal.after
                   t == Desired
        <3>2. /\ NextLink(t) /\ UNCHANGED dirs
              /\ b' = b /\ a' = a /\ t' = t
            BY <1>5 DEF RestoreLink, Desired
        <3>3. TypeOK
            OBVIOUS
        <3> HIDE DEF b, a, t, TypeOK
        <3>4. /\ \A n \in Name : bin'[n] \in {{}, {Foreign}, {Gone}, LinksOf(b)[n],
                                              LinksOf(a)[n]}
              /\ NoDanglingLink'
              /\ ForeignIsLate'
              /\ todo' \subseteq NamesOfEither(b, a)
              /\ \A n \in NamesOfEither(b, a) \ todo' :
                     bin'[n] \in {LinksOf(t)[n], {Foreign}, {Gone}}
            <4>1. b \in State /\ a \in State /\ t \in {b, a}
                BY <2>1 DEF b, a, t
            <4>2. \A d \in t.installed : dirs[d] = "ours"
                BY <2>2 DEF t
            <4>3. Settled(b, a, t) /\ LinksFit(b, a)
                BY <3>1 DEF b, a, t
            <4> QED BY <3>1, <3>2, <3>3, <4>1, <4>2, <4>3, NextLinkKeeps
        <3>5. LinksFit(b, a)'
            BY <3>2, <3>4 DEF LinksFit
        <3>6. Settled(b, a, t)'
            BY <3>2, <3>4 DEF Settled
        <3> QED BY <3>4, <3>5, <3>6 DEF b, a, t
    <2>4. Controls'
        BY <1>5, <1>a, <2>3 DEF RestoreLink, LinkInv, Controls, RelinksOnly, LinksSettled,
            OursSwept, SuccessFits
    <2> QED BY <1>5, <2>1, <2>3, <2>4 DEF RestoreLink, LinkInv, LinksKnown, OursRecorded
<1>6. ASSUME NEW p \in Process, LinksRestored(p) PROVE LinkInv'
    <2>1. Controls'
        BY <1>6 DEF LinksRestored, LinkInv, Controls, RelinksOnly, LinksSettled, Settled,
            Desired, ForeignIsLate, OursSwept, SuccessFits
    <2> QED BY <1>6, <2>1, DiskFrame DEF LinksRestored, LinkInv
<1>7. ASSUME NEW p \in Process, RestoreState(p) PROVE LinkInv'
    <2>1. journal # NoTx
        BY <1>7 DEF RestoreState, JournalFits
    <2>2. LinksKnown' /\ OursRecorded' /\ NoDanglingLink'
        BY <1>7, <2>1 DEF RestoreState, LinkInv, LinksKnown, LinksFit, OursRecorded,
            NoDanglingLink
    <2>3. Controls'
        BY <1>7, <2>1 DEF RestoreState, LinkInv, Controls, RelinksOnly, LinksSettled, Settled,
            Desired, ForeignIsLate, OursSwept, SuccessFits
    <2> QED BY <2>2, <2>3 DEF LinkInv
<1>8. ASSUME NEW p \in Process, SweepDir(p) PROVE LinkInv'
    <2>1. journal # NoTx /\ journal \in Tx
        BY <1>8 DEF SweepDir, JournalFits
    <2>2. PICK d \in Doomed : dirs' = [dirs EXCEPT ![d] = "none"]
        BY <1>8 DEF SweepDir
    <2>3. d \in Dir /\ d \notin Desired.installed /\ Desired \in State
        BY <2>1, <2>2, StateFields DEF Doomed, Desired, Additions, Tx
    <2>4. LinksKnown' /\ OursRecorded'
        BY <1>8, <2>1, <2>2 DEF SweepDir, LinkInv, LinksKnown, LinksFit, OursRecorded
    <2>5. NoDanglingLink'
        <3> SUFFICES ASSUME NEW n \in Name, NEW t \in bin[n] \ {Foreign, Gone},
                            n[2] # Plain, t = d
                     PROVE  FALSE
            BY <1>8, <2>2 DEF SweepDir, LinkInv, NoDanglingLink
        <3>1. todo = {} /\ Settled(journal.before, journal.after, Desired)
            BY <1>8 DEF SweepDir, LinkInv, Controls, LinksSettled
        <3>2. n \in NamesOf(journal.before) \cup NamesOf(journal.after)
            BY <2>1 DEF LinkInv, LinksKnown, LinksFit, NamesOf
        <3>3. bin[n] \in {LinksOf(Desired)[n], {Foreign}, {Gone}}
            BY <3>1, <3>2 DEF Settled
        <3>4. t \in LinksOf(Desired)[n]
            BY <3>3
        <3> QED BY <2>3, <3>4, LinkTargets
    <2>6. Controls'
        BY <1>8, <1>a DEF SweepDir, LinkInv, Controls, RelinksOnly, LinksSettled, Settled,
            Desired, ForeignIsLate, OursSwept, SuccessFits
    <2> QED BY <2>4, <2>5, <2>6 DEF LinkInv
<1>9. ASSUME NEW p \in Process, Swept(p) PROVE LinkInv'
    <2>1. journal # NoTx /\ Doomed = {}
        BY <1>9 DEF Swept, JournalFits
    <2>2. \A d \in Dir : dirs[d] = "ours" => d \in Desired.installed
        BY <2>1 DEF LinkInv, OursRecorded, Doomed, Additions, Desired
    <2>3. Controls'
        BY <1>9, <2>2 DEF Swept, LinkInv, Controls, RelinksOnly, LinksSettled, Settled,
            Desired, ForeignIsLate, OursSwept, SuccessFits
    <2> QED BY <1>9, <2>3, DiskFrame DEF Swept, LinkInv
<1>10. ASSUME NEW p \in Process, ClearJournal(p) PROVE LinkInv'
    <2>1. /\ journal # NoTx /\ installed = Desired
          /\ todo = {} /\ Settled(journal.before, journal.after, Desired)
          /\ Desired \in {journal.before, journal.after}
        BY <1>10 DEF ClearJournal, JournalFits, LinkInv, Controls, LinksSettled, Desired
    <2>2. LinksFit(installed, installed)
        <3> SUFFICES ASSUME NEW n \in Name
                     PROVE  bin[n] \in {{}, {Foreign}, {Gone}, LinksOf(installed)[n]}
            BY DEF LinksFit
        <3>1. CASE n \in NamesOf(journal.before) \cup NamesOf(journal.after)
            BY <2>1, <3>1 DEF Settled
        <3>2. CASE n \notin NamesOf(journal.before) \cup NamesOf(journal.after)
            BY <2>1, <3>2 DEF LinkInv, LinksKnown, LinksFit, NamesOf
        <3> QED BY <3>1, <3>2
    <2>3. LinksKnown'
        BY <1>10, <2>2 DEF ClearJournal, LinksKnown, LinksFit
    <2>4. OursRecorded' /\ NoDanglingLink'
        BY <1>10, <2>1 DEF ClearJournal, LinkInv, Controls, OursRecorded, OursSwept,
            NoDanglingLink
    <2>5. Controls'
        BY <1>10, <1>a DEF ClearJournal, LinkInv, Controls, RelinksOnly, LinksSettled,
            ForeignIsLate, OursSwept, SuccessFits
    <2> QED BY <2>3, <2>4, <2>5 DEF LinkInv
<1>11. ASSUME NEW p \in Process, Plan(p) PROVE LinkInv'
    <2>1. Controls'
        BY <1>11, <1>a DEF Plan, LinkInv, Controls, RelinksOnly, LinksSettled,
            ForeignIsLate, OursSwept, SuccessFits
    <2> QED BY <1>11, <2>1, DiskFrame DEF Plan, LinkInv
<1>12. ASSUME NEW p \in Process, Relink(p) PROVE LinkInv'
    <2>1. \A n \in NamesOfEither(op[p].before, op[p].after) : bin[n] # {Foreign}
        <3>1. op[p] \in Op /\ op[p].before \in State /\ op[p].after \in State
            BY <1>12 DEF Relink, JournalFits, Op
        <3> QED BY <1>12, <3>1, CheckExcludes DEF Relink
    <2>2. op[p].before = installed /\ op[p].after = installed
        BY <1>12 DEF Relink, JournalFits
    <2>3. Controls'
        BY <1>12, <1>a, <2>1, <2>2 DEF Relink, LinkInv, Controls, RelinksOnly, LinksSettled,
            ForeignIsLate, Settled, OursSwept, SuccessFits
    <2> QED BY <1>12, <2>3, DiskFrame DEF Relink, LinkInv
<1>13. ASSUME NEW p \in Process, BackUp(p) PROVE LinkInv'
    <2>1. \A n \in NamesOfEither(op[p].before, op[p].after) : bin[n] # {Foreign}
        <3>1. op[p] \in Op /\ op[p].before \in State /\ op[p].after \in State
            BY <1>13 DEF BackUp, JournalFits, Op
        <3> QED BY <1>13, <3>1, CheckExcludes DEF BackUp
    <2>2. Controls'
        BY <1>13, <1>a, <2>1 DEF BackUp, LinkInv, Controls, RelinksOnly, LinksSettled,
            ForeignIsLate, Settled, OursSwept, SuccessFits
    <2>3. LinksKnown' /\ OursRecorded' /\ NoDanglingLink'
        BY <1>13 DEF BackUp, LinkInv, LinksKnown, LinksFit, OursRecorded, NoDanglingLink
    <2> QED BY <2>2, <2>3 DEF LinkInv
<1>14. ASSUME NEW p \in Process, WriteJournal(p) PROVE LinkInv'
    <2>1. /\ journal = NoTx /\ op[p].before = installed /\ journal' \in Tx
          /\ op[p].before \in State /\ op[p].after \in State
        BY <1>14 DEF WriteJournal, JournalFits, Op, Tx
    <2>2. journal' # NoTx /\ journal'.before = installed /\ journal'.after = op[p].after
        BY <1>14, <2>1, TransactionAssumption DEF WriteJournal
    <2>3. LinksKnown' /\ OursRecorded' /\ NoDanglingLink'
        BY <1>14, <2>1, <2>2 DEF WriteJournal, LinkInv, LinksKnown, LinksFit, OursRecorded,
            NoDanglingLink
    <2>4. /\ pc' = [pc EXCEPT ![p] = "move"] /\ pc[p] = "journal"
          /\ bin' = bin /\ op' = op /\ ret' = ret /\ todo' = todo /\ late' = late
        BY <1>14 DEF WriteJournal
    <2>5. RelinksOnly' /\ LinksSettled' /\ OursSwept'
        BY <1>a, <2>2, <2>4 DEF LinkInv, Controls, RelinksOnly, LinksSettled, OursSwept
    <2>6. ForeignIsLate'
        BY <1>a, <2>4 DEF LinkInv, Controls, ForeignIsLate
    <2>7. SuccessFits'
        BY <1>a, <2>1, <2>4 DEF LinkInv, Controls, SuccessFits
    <2> QED BY <2>3, <2>5, <2>6, <2>7 DEF LinkInv, Controls
<1>15. ASSUME NEW p \in Process, MoveStage(p) PROVE LinkInv'
    <2>1. /\ journal = [before |-> op[p].before, after |-> op[p].after, committed |-> FALSE]
          /\ journal # NoTx
        BY <1>15 DEF MoveStage, JournalFits
    <2>2. PICK d \in Unmoved(p) : dirs[d] = "none" /\ dirs' = [dirs EXCEPT ![d] = "ours"]
        BY <1>15 DEF MoveStage
    <2>3. d \in journal.after.installed
        BY <2>1, <2>2 DEF Unmoved, Additions
    <2>4. LinksKnown' /\ OursRecorded'
        BY <1>15, <2>1, <2>2, <2>3 DEF MoveStage, LinkInv, LinksKnown, LinksFit, OursRecorded
    <2>5. NoDanglingLink'
        <3>1. d \in Dir
            BY <2>1, <2>3, StateFields DEF Tx
        <3> SUFFICES ASSUME NEW n \in Name, NEW t \in bin[n] \ {Foreign, Gone}, n[2] # Plain
                     PROVE  dirs'[t] = "ours"
            BY <1>15 DEF MoveStage, LinkInv, NoDanglingLink
        <3>2. dirs[t] = "ours"
            BY DEF LinkInv, NoDanglingLink
        <3>3. \E s \in {journal.before, journal.after} : t \in LinksOf(s)[n]
            BY <2>1 DEF LinkInv, LinksKnown, LinksFit
        <3>4. journal.before \in State /\ journal.after \in State
            BY <2>1 DEF Tx
        <3>5. t \in Dir
            BY <3>3, <3>4, LinkTargets, StateFields
        <3> QED BY <2>2, <3>1, <3>2, <3>5
    <2>6. Controls'
        BY <1>15, <1>a DEF MoveStage, LinkInv, Controls, RelinksOnly, LinksSettled,
            ForeignIsLate, Settled, OursSwept, SuccessFits
    <2> QED BY <2>4, <2>5, <2>6 DEF LinkInv
<1>16. ASSUME NEW p \in Process, MoveRefused(p) \/ ApplyFails(p) PROVE LinkInv'
    <2>1. UNCHANGED disk
        BY <1>16 DEF MoveRefused, ApplyFails
    <2>2. Controls'
        BY <1>16, <1>a DEF MoveRefused, ApplyFails, LinkInv, Controls, RelinksOnly,
            LinksSettled, ForeignIsLate, Settled, OursSwept, SuccessFits
    <2> QED BY <2>1, <2>2, DiskFrame DEF LinkInv
<1>17. ASSUME NEW p \in Process, Moved(p) PROVE LinkInv'
    <2>1. journal # NoTx
        BY <1>17 DEF Moved, JournalFits
    <2>2. Controls'
        BY <1>17, <1>a, <2>1 DEF Moved, LinkInv, Controls, RelinksOnly, LinksSettled,
            ForeignIsLate, Settled, OursSwept, SuccessFits
    <2> QED BY <1>17, <2>2, DiskFrame DEF Moved, LinkInv
<1>18. ASSUME NEW p \in Process, ApplyLink(p) PROVE LinkInv'
    <2> DEFINE b == op[p].before
               a == op[p].after
    <2>1. /\ b \in State /\ a \in State
          /\ journal = NoTx => b = installed /\ a = installed
          /\ journal # NoTx => /\ journal = [before |-> b, after |-> a, committed |-> FALSE]
                               /\ Unmoved(p) = {}
        BY <1>18 DEF ApplyLink, JournalFits, Op, LinkInv, Controls, RelinksOnly, DirInv,
            StagesMoved
    <2>2. \A d \in a.installed : dirs[d] = "ours"
        BY <2>1 DEF DirInv, FilesKept, Effective, Desired, Unmoved, Additions
    <2>3. LinksFit(b, a) /\ NoDanglingLink /\ Settled(b, a, a) /\ ForeignIsLate
        BY <1>18, <2>1 DEF ApplyLink, LinkInv, LinksKnown, Controls, LinksSettled
    <2>4. /\ NextLink(a) /\ UNCHANGED dirs /\ a \in {b, a}
          /\ b' = b /\ a' = a
        BY <1>18 DEF ApplyLink
    <2>5. TypeOK
        OBVIOUS
    <2> HIDE DEF b, a, TypeOK
    <2>6. /\ \A n \in Name : bin'[n] \in {{}, {Foreign}, {Gone}, LinksOf(b)[n], LinksOf(a)[n]}
          /\ NoDanglingLink'
          /\ ForeignIsLate'
          /\ todo' \subseteq NamesOfEither(b, a)
          /\ \A n \in NamesOfEither(b, a) \ todo' :
                 bin'[n] \in {LinksOf(a)[n], {Foreign}, {Gone}}
        BY <2>1, <2>2, <2>3, <2>4, <2>5, NextLinkKeeps
    <2>7. Settled(b, a, a)'
        BY <2>4, <2>6 DEF Settled
    <2> USE DEF b, a, TypeOK
    <2>8. LinksKnown' /\ OursRecorded'
        BY <1>18, <2>1, <2>6 DEF ApplyLink, LinkInv, LinksKnown, LinksFit, OursRecorded
    <2>9. Controls'
        BY <1>18, <1>a, <2>6, <2>7 DEF ApplyLink, LinkInv, Controls, RelinksOnly,
            LinksSettled, OursSwept, SuccessFits
    <2> QED BY <2>6, <2>8, <2>9 DEF LinkInv
<1>19. ASSUME NEW p \in Process, LinksApplied(p) PROVE LinkInv'
    <2>1. Controls'
        BY <1>19, <1>a DEF LinksApplied, LinkInv, Controls, RelinksOnly, LinksSettled,
            ForeignIsLate, Settled, OursSwept, SuccessFits
    <2> QED BY <1>19, <2>1, DiskFrame DEF LinksApplied, LinkInv
<1>20. ASSUME NEW p \in Process, WriteState(p) PROVE LinkInv'
    <2>1. journal # NoTx
        BY <1>20 DEF WriteState, JournalFits
    <2>2. LinksKnown' /\ OursRecorded' /\ NoDanglingLink'
        BY <1>20, <2>1 DEF WriteState, LinkInv, LinksKnown, LinksFit, OursRecorded,
            NoDanglingLink
    <2>3. Controls'
        BY <1>20, <1>a, <2>1 DEF WriteState, LinkInv, Controls, RelinksOnly, LinksSettled,
            ForeignIsLate, Settled, OursSwept, SuccessFits
    <2> QED BY <2>2, <2>3 DEF LinkInv
<1>21. ASSUME NEW p \in Process, MarkCommitted(p) PROVE LinkInv'
    <2>1. /\ journal # NoTx /\ journal \in Tx /\ journal.after = op[p].after
        BY <1>21 DEF MarkCommitted, JournalFits
    <2>2. /\ journal' \in Tx /\ journal' # NoTx /\ journal'.committed
          /\ journal'.before = journal.before /\ journal'.after = journal.after
        BY <1>21, <2>1, TransactionAssumption DEF MarkCommitted, Tx
    <2>3. LinksKnown' /\ OursRecorded' /\ NoDanglingLink'
        BY <1>21, <2>1, <2>2 DEF MarkCommitted, LinkInv, LinksKnown, LinksFit, OursRecorded,
            NoDanglingLink
    <2>4. Controls'
        BY <1>21, <1>a, <2>1, <2>2 DEF MarkCommitted, LinkInv, Controls, RelinksOnly,
            LinksSettled, ForeignIsLate, Settled, OursSwept, SuccessFits
    <2> QED BY <2>3, <2>4 DEF LinkInv
<1>22. CASE UserDir
    <2>1. PICK d \in Dir : dirs[d] = "none" /\ dirs' = [dirs EXCEPT ![d] = "theirs"]
        BY <1>22 DEF UserDir
    <2>2. \A e : dirs[e] = "ours" /\ e \in Dir => dirs'[e] = "ours"
        BY <2>1
    <2>3. \A e \in Dir : dirs'[e] = "ours" => dirs[e] = "ours"
        BY <2>1
    <2>4. LinksKnown' /\ OursRecorded'
        BY <1>22, <2>3 DEF UserDir, LinkInv, LinksKnown, LinksFit, OursRecorded
    <2>5. NoDanglingLink'
        <3> SUFFICES ASSUME NEW n \in Name, NEW t \in bin[n] \ {Foreign, Gone}, n[2] # Plain
                     PROVE  dirs'[t] = "ours"
            BY <1>22 DEF UserDir, LinkInv, NoDanglingLink
        <3>1. dirs[t] = "ours"
            BY DEF LinkInv, NoDanglingLink
        <3>2. \E s \in State : t \in LinksOf(s)[n]
            BY DEF LinkInv, LinksKnown, LinksFit, Tx
        <3>3. t \in Dir
            BY <3>2, LinkTargets, StateFields
        <3> QED BY <2>2, <3>1, <3>3
    <2>6. Controls'
        BY <1>22, <2>3 DEF UserDir, LinkInv, Controls, RelinksOnly,
            LinksSettled, Settled,
            Desired, ForeignIsLate, OursSwept, SuccessFits
    <2> QED BY <2>4, <2>5, <2>6 DEF LinkInv
<1>23. CASE UserFile
    <2>1. PICK n \in Name : \/ /\ bin' = [bin EXCEPT ![n] = {Foreign}]
                               /\ late' = late \cup (todo \cap {n})
                            \/ /\ bin' = [bin EXCEPT ![n] = {Gone}]
                               /\ late' = late
        BY <1>23 DEF UserFile
    <2>2. LinksKnown' /\ OursRecorded'
        BY <1>23, <2>1 DEF UserFile, LinkInv, LinksKnown, LinksFit, OursRecorded
    <2>3. NoDanglingLink'
        <3> SUFFICES ASSUME NEW m \in Name, NEW t \in bin'[m] \ {Foreign, Gone}
                     PROVE  IF m[2] = Plain THEN bin'[t] # {} ELSE dirs[t] = "ours"
            BY <1>23 DEF UserFile, NoDanglingLink
        <3>1. t \in bin[m]
            BY <2>1
        <3>2. IF m[2] = Plain THEN bin[t] # {} ELSE dirs[t] = "ours"
            BY <3>1 DEF LinkInv, NoDanglingLink
        <3>3. m[2] = Plain => t \in Name
            BY SMTT(30), <3>1, LinkTargets DEF LinkInv, LinksKnown, LinksFit, Tx
        <3> QED BY SMTT(30), <2>1, <3>2, <3>3
    <2>4. ForeignIsLate'
        BY <1>23, <2>1, TransactionAssumption
           DEF UserFile, LinkInv, Controls, ForeignIsLate
    <2>5. LinksSettled'
        <3>1. \A b, a, t : Settled(b, a, t) => Settled(b, a, t)'
            BY <1>23, <2>1 DEF UserFile, Settled, NamesOf
        <3> QED BY <1>23, <3>1 DEF UserFile, LinkInv, Controls, LinksSettled, Desired
    <2>6. RelinksOnly' /\ OursSwept' /\ SuccessFits'
        BY <1>23 DEF UserFile, LinkInv, Controls, RelinksOnly, OursSwept, Desired,
            SuccessFits
    <2> QED BY <2>2, <2>3, <2>4, <2>5, <2>6 DEF LinkInv, Controls
<1>24. CASE UNCHANGED vars
    <2>1. Controls'
        BY <1>24 DEF vars, LinkInv, Controls, RelinksOnly, LinksSettled, Settled,
            Desired, ForeignIsLate, OursSwept, SuccessFits
    <2> QED BY <1>24, <2>1, DiskFrame DEF vars, LinkInv
<1> QED BY <1>1, <1>2, <1>3, <1>4, <1>5, <1>6, <1>7, <1>8, <1>9, <1>10, <1>11, <1>12,
        <1>13, <1>14, <1>15, <1>16, <1>17, <1>18, <1>19, <1>20, <1>21, <1>22, <1>23, <1>24
        DEF Next, Work

(* With the invariants before it, it is inductive. *)
THEOREM LinkInvariance == Spec => []LinkInv
BY InitLinkInv, NextLinkInv, Invariance, DirInvariance, PTL DEF Spec

(* Whatever is interrupted, every link of ours leads to files of ours: the *)
(* order of applyLinks and the sweep behind it, for any two states.        *)
THEOREM NoLinkDangles == Spec => []NoDanglingLink
<1>1. LinkInv => NoDanglingLink
    BY DEF LinkInv
<1> QED BY <1>1, LinkInvariance, PTL

(* A file of the user's that is in bin/ when a command checks the links is *)
(* never overwritten or deleted by it.                                     *)
THEOREM UserLinksAreKept == Spec => UserFilesKept
<1> DEFINE P == faults' = faults =>
                    \A n \in Name : bin[n] = {Foreign} /\ n \notin late =>
                                      bin'[n] = {Foreign}
<1>1. IInv /\ LinkInv /\ [Next]_vars => [P]_vars
    <2> SUFFICES ASSUME IInv, LinkInv, [Next]_vars PROVE P
        OBVIOUS
    <2>1. ASSUME NEW target, NextLink(target) PROVE P
        <3>1. PICK n \in todo : bin' = [bin EXCEPT ![n] = LinksOf(target)[n]]
            BY <2>1 DEF NextLink, ReplaceLink
        <3>2. bin[n] = {Foreign} => n \in late
            BY DEF LinkInv, Controls, ForeignIsLate
        <3> QED BY <3>1, <3>2 DEF IInv, TypeOK
    <2>2. ASSUME NEW p \in Process, RestoreLink(p) \/ ApplyLink(p) PROVE P
        BY <2>1, <2>2 DEF RestoreLink, ApplyLink
    <2>3. CASE UserFile
        BY <2>3 DEF UserFile, Fault, IInv, TypeOK
    <2>4. CASE UNCHANGED bin
        BY <2>4
    <2>5. ASSUME NEW p \in Process, Acquire(p) \/ Work(p) \/ Abandon(p) \/ ApplyFails(p),
                 ~ RestoreLink(p), ~ ApplyLink(p)
          PROVE  UNCHANGED bin
        BY <2>5 DEF Work, Acquire, Abandon, ApplyFails, NothingToRecover,
            CheckRecovery, RefuseRecovery, LinksRestored, RestoreState, SweepDir,
            Swept, ClearJournal, Return, Plan, Refuse, Relink, BackUp, WriteJournal,
            MoveStage, MoveRefused, Moved, LinksApplied, WriteState, MarkCommitted
    <2> QED BY <2>2, <2>3, <2>4, <2>5 DEF Next, UserDir, vars
<1> QED BY <1>1, Invariance, LinkInvariance, PTL DEF Spec, UserFilesKept

(* An operation that reports success has written its state, replaced all   *)
(* its links but those the user took, and left exactly its directories.    *)
THEOREM SuccessMeansComplete == Spec => SuccessIsComplete
<1> DEFINE Complete(p) ==
        /\ installed' = op[p].after
        /\ \A n \in Name : bin'[n] \in {LinksOf(op[p].after)[n], {Foreign}, {Gone}}
        /\ \A d \in Dir : dirs'[d] = "ours" <=> d \in op[p].after.installed
<1> DEFINE P == \A p \in Process :
                    ret[p] = "ok" /\ pc[p] = "clear" /\ journal' = NoTx => Complete(p)
<1>1. IInv /\ DirInv /\ LinkInv /\ [Next]_vars => [P]_vars
    <2> SUFFICES ASSUME IInv, DirInv, LinkInv, [Next]_vars,
                        NEW p \in Process, ret[p] = "ok", pc[p] = "clear", journal' = NoTx
                 PROVE  Complete(p)
        OBVIOUS
    <2>1. /\ journal # NoTx /\ journal.committed /\ journal.after = op[p].after
          /\ installed = journal.after /\ Desired = journal.after
          /\ todo = {} /\ Settled(journal.before, journal.after, Desired)
          /\ \A d \in Dir : dirs[d] = "ours" => d \in journal.after.installed
        BY DEF IInv, JournalFits, LinkInv, Controls, SuccessFits, LinksSettled, OursSwept,
            Desired
    <2>2. UNCHANGED <<installed, bin, dirs>>
        <3>1. ~ UNCHANGED journal
            BY <2>1
        <3>2. \A q \in Process : q # p => pc[q] = "idle"
            BY DEF IInv, LockHeld
        <3>3. ASSUME NEW q \in Process, Acquire(q) \/ Work(q) \/ Abandon(q) \/ ApplyFails(q)
              PROVE  ClearJournal(q)
            BY <2>1, <3>1, <3>2, <3>3 DEF Work, Acquire, Abandon, ApplyFails, NothingToRecover,
                CheckRecovery, RefuseRecovery, RestoreLink, LinksRestored, RestoreState,
                SweepDir, Swept, Return, Plan, Refuse, Relink, BackUp, WriteJournal,
                MoveStage, MoveRefused, Moved, ApplyLink, LinksApplied, WriteState,
                MarkCommitted
        <3> QED BY <3>1, <3>3 DEF Next, ClearJournal, UserDir, UserFile, vars
    <2>3. \A n \in Name : bin[n] \in {LinksOf(op[p].after)[n], {Foreign}, {Gone}}
        <3> SUFFICES ASSUME NEW n \in Name
                     PROVE  bin[n] \in {LinksOf(op[p].after)[n], {Foreign}, {Gone}}
            OBVIOUS
        <3>1. CASE n \in NamesOf(journal.before) \cup NamesOf(journal.after)
            BY <2>1, <3>1 DEF Settled
        <3>2. CASE n \notin NamesOf(journal.before) \cup NamesOf(journal.after)
            BY <2>1, <3>2 DEF LinkInv, LinksKnown, LinksFit, NamesOf
        <3> QED BY <3>1, <3>2
    <2>4. \A d \in Dir : dirs[d] = "ours" <=> d \in op[p].after.installed
        BY <2>1 DEF DirInv, FilesKept, Effective
    <2> QED BY <2>1, <2>2, <2>3, <2>4
<1> QED BY <1>1, Invariance, DirInvariance, LinkInvariance, PTL DEF Spec, SuccessIsComplete
=============================================================================
