---------------------------- MODULE SessionCleanup ----------------------------
(***************************************************************************)
(* cleanupSession, by which a runner at its end, or the daemon after a     *)
(* runner was lost, ends what is left of a service: passes over /proc that *)
(* reap and signal the children it has adopted as a subreaper, until a     *)
(* pass finds none or the time is up.  The processes of the session fork   *)
(* and exit meanwhile, and each entry of /proc is looked at alone.         *)
(***************************************************************************)
EXTENDS Integers, FiniteSets

CONSTANTS
    Process,    \* pids
    First,      \* the process of the session that was adopted first
    Foreign,    \* children of the owner that lead sessions of their own
    Owner       \* the process that cleans up

ASSUME CleanupAssumption ==
    /\ First \in Process \ Foreign
    /\ Foreign \subseteq Process
    /\ Owner \notin Process

VARIABLES
    life,       \* what each process is in the kernel
    parent,     \* its parent
    group,      \* its process group
    signal,     \* the strongest signal it was sent
    clock,      \* grace runs, has passed, and by 3 seconds
    scan,       \* the step of the scan
    warned,     \* groups that were sent TERM
    todo,       \* entries of /proc not looked at in this pass
    entry,      \* the child looked at
    found,      \* this pass has found a child that runs
    moved       \* processes adopted by the owner in this pass

kernelVars == <<life, parent, group, signal>>
scanVars == <<scan, warned, todo, entry, found>>
cleanupVars == <<kernelVars, clock, scanVars, moved>>

CleanupTypeOK ==
    /\ life \in [Process -> {"unborn", "alive", "zombie", "reaped"}]
    /\ parent \in [Process -> Process \cup {Owner}]
    /\ group \in [Process -> Process]
    /\ signal \in [Process -> {"none", "TERM", "KILL"}]
    /\ clock \in {"grace", "kill", "over"}
    /\ scan \in {"list", "entry", "child", "ok", "error"}
    /\ warned \subseteq Process
    /\ todo \subseteq Process
    /\ entry \in Process
    /\ found \in BOOLEAN
    /\ moved \subseteq Process

(* The grace period is the stop timeout, or nothing when the runner had    *)
(* reported the exit of its service.                                       *)
CleanupInit ==
    /\ life = [p \in Process |->
                  IF p \in Foreign \cup {First} THEN "alive" ELSE "unborn"]
    /\ parent = [p \in Process |-> Owner]
    /\ group = [p \in Process |-> p]
    /\ signal = [p \in Process |-> "none"]
    /\ clock \in {"grace", "kill"}
    /\ scan = "list" /\ warned = {} /\ todo = {} /\ entry = First /\ found = FALSE
    /\ moved = {}

Scanning == scan \notin {"ok", "error"}

Present == {p \in Process : life[p] \in {"alive", "zombie"}}

-----------------------------------------------------------------------------
(* The processes of the session. *)

Fork(p, c) ==
    /\ Scanning
    /\ p \notin Foreign /\ life[p] = "alive" /\ signal[p] # "KILL"
    /\ life[c] = "unborn"
    /\ life' = [life EXCEPT ![c] = "alive"]
    /\ parent' = [parent EXCEPT ![c] = p]
    /\ \E g \in {group[p], c} : group' = [group EXCEPT ![c] = g]
    /\ UNCHANGED <<signal, clock, scanVars, moved>>

(* The owner is the subreaper of the children p leaves. *)
Die(p) ==
    LET left == {c \in Present : parent[c] = p}
    IN  /\ Scanning
        /\ life[p] = "alive"
        /\ life' = [life EXCEPT ![p] = "zombie"]
        /\ parent' = [c \in Process |-> IF c \in left THEN Owner ELSE parent[c]]
        /\ moved' = moved \cup left
        /\ UNCHANGED <<group, signal, clock, scanVars>>

(* A process waits for its child; for a runner, it is exec.Cmd.Wait. *)
Wait(p) ==
    /\ Scanning
    /\ life[p] = "zombie"
    /\ parent[p] # Owner \/ p \in Foreign
    /\ life' = [life EXCEPT ![p] = "reaped"]
    /\ UNCHANGED <<parent, group, signal, clock, scanVars, moved>>

Tick ==
    /\ Scanning
    /\ clock # "over"
    /\ clock' = IF clock = "grace" THEN "kill" ELSE "over"
    /\ UNCHANGED <<kernelVars, scanVars, moved>>

-----------------------------------------------------------------------------
(* The scan. *)

ReadDir ==
    /\ scan = "list"
    /\ scan' = "entry"
    /\ todo' = Present
    /\ found' = FALSE
    /\ moved' = {}
    /\ UNCHANGED <<kernelVars, clock, warned, entry>>

(* Mutant: every child is taken for one of the session. *)
IsChild(p) == p \in Present /\ parent[p] = Owner

IsAdopted(p) == p \in Present /\ parent[p] = Owner /\ p \notin Foreign

ReadStat(p) ==
    /\ scan = "entry"
    /\ p \in todo
    /\ todo' = todo \ {p}
    /\ IF IsAdopted(p) THEN scan' = "child" /\ entry' = p
                       ELSE UNCHANGED <<scan, entry>>
    /\ UNCHANGED <<kernelVars, clock, warned, found, moved>>

(* Six times EINVAL, for a process that is exiting. *)
StatFails(p) ==
    /\ scan = "entry"
    /\ p \in todo
    /\ life[p] # "alive"
    /\ scan' = "error"
    /\ UNCHANGED <<kernelVars, clock, warned, todo, entry, found, moved>>

(* The loop goes on; entry, which it sets again, goes back to a fixed value.*)
NextEntry == scan' = "entry" /\ entry' = First

(* The child has exited: it is reaped and not counted. *)
Reap ==
    /\ scan = "child"
    /\ life[entry] = "zombie"
    /\ life' = [life EXCEPT ![entry] = "reaped"]
    /\ NextEntry
    /\ UNCHANGED <<parent, group, signal, clock, warned, todo, found, moved>>

(* kill(-group). *)
SendTo(g, sig) ==
    signal' = [p \in Process |-> IF life[p] = "alive" /\ group[p] = g
                                 THEN sig ELSE signal[p]]

(* Mutant: a child that was sent KILL counts as gone. *)
SignalAndForget ==
    /\ scan = "child"
    /\ life[entry] = "alive"
    /\ found' = (found \/ clock = "grace")
    /\ SendTo(group[entry], IF clock = "grace" THEN "TERM" ELSE "KILL")
    /\ NextEntry
    /\ UNCHANGED <<life, parent, group, clock, warned, todo, moved>>

(* The child runs: its group gets TERM once, KILL after the grace period.  *)
Signal ==
    /\ scan = "child"
    /\ life[entry] = "alive"
    /\ found' = TRUE
    /\ \/ /\ clock # "grace"
          /\ SendTo(group[entry], "KILL")
          /\ UNCHANGED warned
       \/ /\ clock = "grace" /\ group[entry] \notin warned
          /\ SendTo(group[entry], "TERM")
          /\ warned' = warned \cup {group[entry]}
       \/ /\ clock = "grace" /\ group[entry] \in warned
          /\ UNCHANGED <<signal, warned>>
    /\ NextEntry
    /\ UNCHANGED <<life, parent, group, clock, todo, moved>>

(* Mutant: no deadline. *)
EndPassUnlimited ==
    /\ scan = "entry"
    /\ todo = {}
    /\ scan' = IF found THEN "list" ELSE "ok"
    /\ UNCHANGED <<kernelVars, clock, warned, todo, entry, found, moved>>

EndPass ==
    /\ scan = "entry"
    /\ todo = {}
    /\ scan' = IF ~ found THEN "ok" ELSE IF clock = "over" THEN "error" ELSE "list"
    /\ UNCHANGED <<kernelVars, clock, warned, todo, entry, found, moved>>

Scan == \/ ReadDir
        \/ \E p \in Process : ReadStat(p)
        \/ Reap \/ Signal \/ EndPass

CleanupNext ==
    \/ \E p, c \in Process : Fork(p, c)
    \/ \E p \in Process : Die(p) \/ Wait(p) \/ StatFails(p)
    \/ Tick
    \/ Scan

(* The cleanup runs and time passes; no process has to die, not even of a  *)
(* KILL, which an uninterruptible wait delays.                             *)
CleanupSpec ==
    /\ CleanupInit /\ [][CleanupNext]_cleanupVars
    /\ WF_cleanupVars(Scan) /\ WF_cleanupVars(Tick)

-----------------------------------------------------------------------------
Remaining == {p \in Process \ Foreign : life[p] = "alive"}

(* What the cleanup does ensure: it misses no child that was the owner's   *)
(* when the last pass began, only those whose parent exited during it.     *)
OnlyTheMovedAreMissed ==
    scan = "ok" => \A p \in Remaining : parent[p] = Owner => p \in moved

(* The runners of other services, which are children of the daemon too,    *)
(* are neither signalled nor reaped: exec.Cmd's Wait is to see them.       *)
ForeignUntouched ==
    [][\A p \in Foreign :
          /\ signal'[p] = signal[p]
          /\ Scan => life'[p] = life[p]]_cleanupVars

(* A cleanup ends, even if some process never dies. *)
CleanupEnds == <>(~ Scanning)
=============================================================================
