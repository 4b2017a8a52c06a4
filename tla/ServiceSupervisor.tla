-------------------------- MODULE ServiceSupervisor --------------------------
(***************************************************************************)
(* One supervised service of the oo daemon: the handlers of start, stop    *)
(* and restart requests, the goroutines that start it with the daemon,     *)
(* retry it and stop it at shutdown, all behind the service's operation    *)
(* mutex; the monitor of its runner, which is not; the runner process; and *)
(* the flock on service-<name>.lock that daemon and runner share.  The     *)
(* daemon and the runner may be killed at any time.                        *)
(***************************************************************************)
EXTENDS Integers, FiniteSets

CONSTANTS
    Client,      \* connections that send requests
    Restart,     \* the service's restart policy
    Enabled,     \* whether the service starts with the daemon
    Burst,       \* start_limit.burst
    Nobody,      \* the operation mutex is free
    MaxCalls,    \* bound on requests
    MaxBoots,    \* bound on daemons started
    MaxFaults    \* bound on killed processes and failed cleanups

ASSUME SupervisorAssumption ==
    /\ Restart \in {"no", "on-failure", "always"}
    /\ Enabled \in BOOLEAN
    /\ Burst \in Nat \ {0}
    /\ MaxCalls \in Nat /\ MaxBoots \in Nat /\ MaxFaults \in Nat
    /\ Client \cap {"boot", "retry", "stopAll", Nobody} = {}
    /\ Nobody \notin {"boot", "retry", "stopAll"}

(* The goroutines that take the operation mutex: a handler for each        *)
(* client, the one of startEnabled, a retry, and the one of stopAll.       *)
Actor == Client \cup {"boot", "retry", "stopAll"}

Generation == 0..(2 * MaxCalls + 2)

VARIABLES
    daemon,      \* down, up, stopping (shutdown asked) or cancelled
    pc,          \* what each actor does next
    op,          \* holder of service.op
    desired,     \* service.desired
    generation,  \* service.generation
    attempts,    \* how many start attempts are inside the limit's window
    status,      \* service.status.State
    proc,        \* service.proc is set
    cleanup,     \* service.cleanupSession is set
    pending,     \* retries that wait for their delay, by generation
    monitor,     \* what the monitor of the current runner does next
    ready,       \* what it has sent on process.ready
    input,       \* the daemon's end of the runner's stdin is open
    runner,      \* the runner process
    started,     \* a started event the monitor has not read
    code,        \* the exit code it will report
    lockD,       \* the daemon holds the service lock
    lockR,       \* the runner holds it
    strays,      \* service processes without a runner, and their parent
    calls, boots, faults

daemonVars == <<daemon, pc, op, desired, generation, attempts, status, proc,
                cleanup, pending, monitor, ready, input>>
bounds == <<calls, boots, faults>>
vars == <<daemonVars, runner, started, code, lockD, lockR, strays, bounds>>

TypeOK ==
    /\ daemon \in {"down", "up", "stopping", "cancelled"}
    /\ pc \in [Actor -> {"idle", "boot", "start", "stop", "restart", "tidy",
                         "limit", "lock", "check", "spawn", "await", "stopTidy",
                         "restartTidy", "stopWait", "restartWait", "again"}]
    /\ op \in Actor \cup {Nobody}
    /\ desired \in BOOLEAN
    /\ generation \in Nat
    /\ attempts \in 0..Burst
    /\ status \in {"inactive", "starting", "running", "stopping",
                   "restarting", "failed"}
    /\ proc \in BOOLEAN /\ cleanup \in BOOLEAN /\ input \in BOOLEAN
    /\ pending \in [Generation -> Nat]
    /\ monitor \in {"off", "watch", "clean", "report", "dirty", "final",
                    "finalDirty"}
    /\ ready \in {"none", "ok", "error"}
    /\ runner \in {"none", "config", "serving", "cleaning", "gone"}
    /\ started \in BOOLEAN
    /\ code \in {"zero", "nonzero"}
    /\ lockD \in BOOLEAN /\ lockR \in BOOLEAN
    /\ strays \subseteq {"adopted", "orphaned"}
    /\ calls \in 0..MaxCalls /\ boots \in 0..MaxBoots /\ faults \in 0..MaxFaults

NoRetry == [g \in Generation |-> 0]

Init ==
    /\ daemon = "down"
    /\ pc = [a \in Actor |-> "idle"]
    /\ op = Nobody
    /\ desired = FALSE /\ generation = 0 /\ attempts = 0
    /\ status = "inactive"
    /\ proc = FALSE /\ cleanup = FALSE /\ pending = NoRetry
    /\ monitor = "off" /\ ready = "none" /\ input = FALSE
    /\ runner = "none" /\ started = FALSE /\ code = "nonzero"
    /\ lockD = FALSE /\ lockR = FALSE /\ strays = {}
    /\ calls = 0 /\ boots = 0 /\ faults = 0

-----------------------------------------------------------------------------
Stopping == daemon \in {"stopping", "cancelled"}

Fault == faults < MaxFaults /\ faults' = faults + 1 /\ UNCHANGED <<calls, boots>>

Goto(a, step) == pc' = [pc EXCEPT ![a] = step]

Take(a, step) == op = Nobody /\ op' = a /\ Goto(a, step)

(* Mutant: the mutex is not unlocked. *)
ReturnLocked(a) == Goto(a, "idle") /\ UNCHANGED op

Return(a) == op' = Nobody /\ Goto(a, "idle")

(* fail in startLocked. *)
Fail(a) == Return(a) /\ status' = "failed" /\ desired' = FALSE

runnerVars == <<runner, started, code, lockR>>
procVars == <<proc, monitor, ready, input>>

-----------------------------------------------------------------------------
(* Requests. *)

Call(c, request) ==
    /\ daemon # "down"
    /\ request # "stop" => ~ Stopping
    /\ pc[c] = "idle"
    /\ calls < MaxCalls
    /\ calls' = calls + 1
    /\ Goto(c, request)
    /\ UNCHANGED <<daemon, op, desired, generation, attempts, status, cleanup,
                   pending, procVars, runnerVars, lockD, strays, boots, faults>>

(* start: a service that has a process needs nothing. *)
AlreadyStarted(c) ==
    /\ pc[c] = "start"
    /\ op = Nobody
    /\ proc
    /\ Goto(c, "idle")
    /\ UNCHANGED <<daemon, op, desired, generation, attempts, status, cleanup,
                   pending, procVars, runnerVars, lockD, strays, bounds>>

AcceptStart(c) ==
    /\ pc[c] = "start"
    /\ ~ proc
    /\ Take(c, "tidy")
    /\ desired' = TRUE
    /\ generation' = generation + 1
    /\ attempts' = 0
    /\ UNCHANGED <<daemon, status, cleanup, pending, procVars, runnerVars,
                   lockD, strays, bounds>>

(* Where a stop goes on: it waits for the monitor, or tidies up. *)
StopStep(request) ==
    IF request = "stop" THEN IF proc THEN "stopWait" ELSE "stopTidy"
                        ELSE IF proc THEN "restartWait" ELSE "restartTidy"

(* stopLocked, for stop, restart and stopAll. *)
BeginStop(a) ==
    /\ pc[a] \in {"stop", "restart"}
    /\ Take(a, StopStep(pc[a]))
    /\ desired' = FALSE
    /\ generation' = generation + 1
    /\ IF proc THEN status' = "stopping" /\ input' = FALSE
               ELSE UNCHANGED <<status, input>>
    /\ UNCHANGED <<daemon, attempts, cleanup, pending, proc, monitor, ready,
                   runnerVars, lockD, strays, bounds>>

(* finishCleanup, once the descendants of a lost runner are gone. *)
FinishCleanup ==
    /\ cleanup' = FALSE
    /\ lockD' = (lockD /\ ~ cleanup)
    /\ strays' = IF cleanup THEN strays \ {"adopted"} ELSE strays

CannotFinishCleanup ==
    /\ cleanup /\ "adopted" \in strays
    /\ Fault
    /\ UNCHANGED <<cleanup, lockD, strays>>

(* stopLocked is done: restart goes on, the others return. *)
Stopped(a) ==
    IF pc[a] \in {"stopTidy", "stopWait"}
    THEN Return(a)
    ELSE Goto(a, "again") /\ UNCHANGED op

StopIdle(a) ==
    /\ pc[a] \in {"stopTidy", "restartTidy"}
    /\ FinishCleanup
    /\ status' = "inactive"
    /\ Stopped(a)
    /\ UNCHANGED <<daemon, desired, generation, attempts, pending, procVars,
                   runnerVars, bounds>>

StopIdleFails(a) ==
    /\ pc[a] \in {"stopTidy", "restartTidy"}
    /\ CannotFinishCleanup
    /\ Return(a)
    /\ UNCHANGED <<daemon, desired, generation, attempts, status, pending,
                   procVars, runnerVars>>

(* Mutant: a stop does not wait for the monitor. *)
StopDoneAtOnce(a) ==
    /\ pc[a] \in {"stopWait", "restartWait"}
    /\ Stopped(a)
    /\ UNCHANGED <<daemon, desired, generation, attempts, status, cleanup,
                   pending, procVars, runnerVars, lockD, strays, bounds>>

StopDone(a) ==
    /\ pc[a] \in {"stopWait", "restartWait"}
    /\ ~ proc
    /\ Stopped(a)
    /\ UNCHANGED <<daemon, desired, generation, attempts, status, cleanup,
                   pending, procVars, runnerVars, lockD, strays, bounds>>

StopTimesOut(a) ==
    /\ pc[a] \in {"stopWait", "restartWait"}
    /\ proc
    /\ Return(a)
    /\ UNCHANGED <<daemon, desired, generation, attempts, status, cleanup,
                   pending, procVars, runnerVars, lockD, strays, bounds>>

StartAgain(c) ==
    /\ pc[c] = "again"
    /\ desired' = TRUE
    /\ generation' = generation + 1
    /\ attempts' = 0
    /\ Goto(c, "tidy")
    /\ UNCHANGED <<daemon, op, status, cleanup, pending, procVars, runnerVars,
                   lockD, strays, bounds>>

-----------------------------------------------------------------------------
(* startLocked. *)

Tidy(a) ==
    /\ pc[a] = "tidy"
    /\ ~ Stopping
    /\ FinishCleanup
    /\ Goto(a, "limit")
    /\ UNCHANGED <<daemon, op, desired, generation, attempts, status, pending,
                   procVars, runnerVars, bounds>>

TidyFails(a) ==
    /\ pc[a] = "tidy"
    /\ \/ Stopping /\ UNCHANGED <<cleanup, lockD, strays, bounds>>
       \/ CannotFinishCleanup
    /\ Fail(a)
    /\ UNCHANGED <<daemon, generation, attempts, pending, procVars, runnerVars>>

CountAttempt(a) ==
    /\ pc[a] = "limit"
    /\ attempts < Burst
    /\ attempts' = attempts + 1
    /\ status' = "starting"
    /\ Goto(a, "lock")
    /\ UNCHANGED <<daemon, op, desired, generation, cleanup, pending, procVars,
                   runnerVars, lockD, strays, bounds>>

(* The limit is reached, or the definition, which a retry does not read    *)
(* again, is not valid.                                                    *)
RefuseAttempt(a) ==
    /\ pc[a] = "limit"
    /\ attempts >= Burst \/ a # "retry"
    /\ Fail(a)
    /\ UNCHANGED <<daemon, generation, attempts, cleanup, pending, procVars,
                   runnerVars, lockD, strays, bounds>>

(* Mutant: the lock of another description does not count. *)
WaitLockShared(a) ==
    /\ pc[a] = "lock"
    /\ ~ lockD
    /\ lockD' = TRUE
    /\ Goto(a, "check")
    /\ UNCHANGED <<daemon, op, desired, generation, attempts, status, cleanup,
                   pending, procVars, runnerVars, strays, bounds>>

WaitLock(a) ==
    /\ pc[a] = "lock"
    /\ ~ lockD /\ ~ lockR
    /\ lockD' = TRUE
    /\ Goto(a, "check")
    /\ UNCHANGED <<daemon, op, desired, generation, attempts, status, cleanup,
                   pending, procVars, runnerVars, strays, bounds>>

WaitLockFails(a) ==
    /\ pc[a] = "lock"
    /\ lockD \/ lockR \/ daemon = "cancelled"
    /\ Fail(a)
    /\ UNCHANGED <<daemon, generation, attempts, cleanup, pending, procVars,
                   runnerVars, lockD, strays, bounds>>

(* The last look at stopping; the runner is created some time after it. *)
CheckStopping(a) ==
    /\ pc[a] = "check"
    /\ ~ Stopping
    /\ Goto(a, "spawn")
    /\ UNCHANGED <<daemon, op, desired, generation, attempts, status, cleanup,
                   pending, procVars, runnerVars, lockD, strays, bounds>>

Spawn(a) ==
    /\ pc[a] = "spawn"
    /\ proc' = TRUE /\ monitor' = "watch" /\ ready' = "none" /\ input' = TRUE
    /\ runner' = "config" /\ started' = FALSE /\ code' = "nonzero"
    /\ lockR' = TRUE
    /\ Goto(a, "await")
    /\ UNCHANGED <<daemon, op, desired, generation, attempts, status, cleanup,
                   pending, lockD, strays, bounds>>

(* The daemon is stopping, or the process cannot be created. *)
SpawnFails(a) ==
    /\ \/ pc[a] = "spawn"
       \/ pc[a] = "check" /\ Stopping
    /\ lockD' = FALSE
    /\ Fail(a)
    /\ UNCHANGED <<daemon, generation, attempts, cleanup, pending, procVars,
                   runnerVars, strays, bounds>>

StartReturns(a) ==
    /\ pc[a] = "await"
    /\ ready # "none"
    /\ Return(a)
    /\ UNCHANGED <<daemon, desired, generation, attempts, status, cleanup,
                   pending, procVars, runnerVars, lockD, strays, bounds>>

(* The startup timer, or the cancelled context: the runner is told to stop *)
(* and the caller gets an error, but the service is still desired.         *)
StartGivesUp(a) ==
    /\ pc[a] = "await"
    /\ input' = FALSE
    /\ Return(a)
    /\ UNCHANGED <<daemon, desired, generation, attempts, status, cleanup,
                   pending, proc, monitor, ready, runnerVars, lockD, strays,
                   bounds>>

(* Attempts leave the window as time passes. *)
WindowPasses ==
    /\ attempts > 0
    /\ \E n \in 0..(attempts - 1) : attempts' = n
    /\ UNCHANGED <<daemon, pc, op, desired, generation, status, cleanup,
                   pending, procVars, runnerVars, lockD, strays, bounds>>

-----------------------------------------------------------------------------
(* The runner: it starts the service, sees it exit or its stdin close,     *)
(* cleans the process group and exits, which releases its copy of the lock.*)

RunnerStarts ==
    /\ runner = "config"
    /\ runner' = "serving"
    /\ started' = TRUE
    /\ UNCHANGED <<daemonVars, code, lockD, lockR, strays, bounds>>

(* What is left of a process once it has exited: a zombie for its monitor. *)
Gone == IF monitor = "off" THEN "none" ELSE "gone"

RunnerRefuses ==
    /\ runner = "config"
    /\ runner' = Gone
    /\ code' = "nonzero"
    /\ lockR' = FALSE
    /\ UNCHANGED <<daemonVars, started, lockD, strays, bounds>>

(* The service exits by itself, or its runner stops it at end of input. *)
ServiceEnds ==
    /\ runner = "serving"
    /\ runner' = "cleaning"
    /\ code' \in {"zero", "nonzero"}
    /\ UNCHANGED <<daemonVars, started, lockD, lockR, strays, bounds>>

RunnerExits ==
    /\ runner = "cleaning"
    /\ runner' = Gone
    /\ lockR' = FALSE
    /\ UNCHANGED <<daemonVars, started, code, lockD, strays, bounds>>

(* Killed, before or after its report, or unable to clean its session: what*)
(* the service leaves is adopted by its daemon or, without it, by init.    *)
RunnerDies ==
    /\ runner \in {"config", "serving", "cleaning"}
    /\ Fault
    /\ runner' = Gone
    /\ code' = "nonzero"
    /\ lockR' = FALSE
    /\ strays' \in {strays, strays \cup
                       {IF monitor = "off" THEN "orphaned" ELSE "adopted"}}
    /\ UNCHANGED <<daemonVars, started, lockD>>

StraysEnd ==
    /\ \E parent \in strays : strays' = strays \ {parent}
    /\ UNCHANGED <<daemonVars, runnerVars, lockD, bounds>>

-----------------------------------------------------------------------------
(* monitor and retry. *)

MonitorStarted ==
    /\ monitor = "watch"
    /\ started
    /\ started' = FALSE
    /\ status' = "running"
    /\ ready' = IF ready = "none" THEN "ok" ELSE ready
    /\ UNCHANGED <<daemon, pc, op, desired, generation, attempts, proc, cleanup,
                   pending, monitor, input, runner, code, lockD, lockR, strays,
                   bounds>>

(* End of output and Wait; an error event may already have been passed on. *)
MonitorWaits ==
    /\ monitor = "watch"
    /\ ~ started
    /\ runner = "gone"
    /\ monitor' = "clean"
    /\ input' = FALSE
    /\ ready' \in IF ready = "none" THEN {"none", "error"} ELSE {ready}
    /\ UNCHANGED <<daemon, pc, op, desired, generation, attempts, status, proc,
                   cleanup, pending, runnerVars, lockD, strays, bounds>>

MonitorCleans ==
    /\ monitor = "clean"
    /\ strays' = strays \ {"adopted"}
    /\ lockD' = FALSE
    /\ monitor' = "report"
    /\ UNCHANGED <<daemon, pc, op, desired, generation, attempts, status, proc,
                   cleanup, pending, ready, input, runnerVars, bounds>>

(* Mutant: the lock is closed although descendants remain. *)
MonitorCannotCleanUnlocks ==
    /\ monitor = "clean"
    /\ "adopted" \in strays
    /\ Fault
    /\ monitor' = "dirty"
    /\ lockD' = FALSE
    /\ UNCHANGED <<daemon, pc, op, desired, generation, attempts, status, proc,
                   cleanup, pending, ready, input, runnerVars, strays>>

MonitorCannotClean ==
    /\ monitor = "clean"
    /\ "adopted" \in strays
    /\ Fault
    /\ monitor' = "dirty"
    /\ UNCHANGED <<daemon, pc, op, desired, generation, attempts, status, proc,
                   cleanup, pending, ready, input, runnerVars, lockD, strays>>

MonitorReports ==
    /\ monitor \in {"report", "dirty"}
    /\ ready' = IF ready = "none" THEN "error" ELSE ready
    /\ monitor' = IF monitor = "report" THEN "final" ELSE "finalDirty"
    /\ UNCHANGED <<daemon, pc, op, desired, generation, attempts, status, proc,
                   cleanup, pending, input, runnerVars, lockD, strays, bounds>>

Restarts ==
    \/ Restart = "always"
    \/ Restart = "on-failure" /\ code = "nonzero"

(* Mutant: the retry is announced and not made. *)
MonitorEndsIdle ==
    LET retry == desired /\ Restarts /\ ~ Stopping
    IN  /\ monitor \in {"final", "finalDirty"}
        /\ proc' = FALSE
        /\ desired' = retry
        /\ status' = IF retry THEN "restarting" ELSE "inactive"
        /\ monitor' = "off"
        /\ runner' = "none"
        /\ UNCHANGED <<daemon, pc, op, generation, attempts, ready, input,
                       cleanup, pending, started, code, lockD, lockR, strays,
                       bounds>>

MonitorEnds ==
    LET dirty == monitor = "finalDirty"
        wanted == desired /\ ~ dirty
        retry == wanted /\ Restarts /\ ~ Stopping
    IN  /\ monitor \in {"final", "finalDirty"}
        /\ cleanup' = (cleanup \/ dirty)
        /\ proc' = FALSE
        /\ desired' = retry
        /\ status' = IF retry THEN "restarting"
                     ELSE IF wanted /\ code = "nonzero" THEN "failed"
                     ELSE "inactive"
        /\ pending' = IF retry THEN [pending EXCEPT ![generation] = @ + 1]
                               ELSE pending
        /\ monitor' = "off"
        /\ runner' = "none"
        /\ UNCHANGED <<daemon, pc, op, generation, attempts, ready, input,
                       started, code, lockD, lockR, strays, bounds>>

(* Mutant: a retry does not ask whether it is still wanted. *)
RetryFiresAnyway(g) ==
    /\ daemon # "down"
    /\ pending[g] > 0
    /\ pc["retry"] = "idle"
    /\ pending' = [pending EXCEPT ![g] = @ - 1]
    /\ IF proc THEN op = Nobody /\ UNCHANGED <<op, pc>>
               ELSE Take("retry", "tidy")
    /\ UNCHANGED <<daemon, desired, generation, attempts, status, cleanup,
                   procVars, runnerVars, lockD, strays, bounds>>

RetryFires(g) ==
    /\ daemon # "down"
    /\ pending[g] > 0
    /\ pc["retry"] = "idle"
    /\ pending' = [pending EXCEPT ![g] = @ - 1]
    /\ IF desired /\ generation = g /\ ~ proc
       THEN Take("retry", "tidy")
       ELSE op = Nobody /\ UNCHANGED <<op, pc>>
    /\ UNCHANGED <<daemon, desired, generation, attempts, status, cleanup,
                   procVars, runnerVars, lockD, strays, bounds>>

(* A retry that sees the context cancelled before its timer. *)
RetryQuits(g) ==
    /\ daemon = "cancelled"
    /\ pending[g] > 0
    /\ pending' = [pending EXCEPT ![g] = @ - 1]
    /\ UNCHANGED <<daemon, pc, op, desired, generation, attempts, status,
                   cleanup, procVars, runnerVars, lockD, strays, bounds>>

-----------------------------------------------------------------------------
(* The daemon's own life. *)

(* serve: startEnabled marks the service and leaves it to a goroutine. *)
Boot ==
    /\ daemon = "down"
    /\ boots < MaxBoots
    /\ boots' = boots + 1
    /\ daemon' = "up"
    /\ IF Enabled
       THEN /\ desired' = TRUE
            /\ generation' = generation + 1
            /\ status' = "starting"
            /\ Goto("boot", "boot")
       ELSE UNCHANGED <<desired, generation, status, pc>>
    /\ UNCHANGED <<op, attempts, cleanup, pending, procVars, runnerVars, lockD,
                   strays, calls, faults>>

BootStarts(a) ==
    /\ a = "boot" /\ pc[a] = "boot"
    /\ IF desired /\ generation = 1
       THEN Take(a, "tidy")
       ELSE op = Nobody /\ Goto(a, "idle") /\ UNCHANGED op
    /\ UNCHANGED <<daemon, desired, generation, attempts, status, cleanup,
                   pending, procVars, runnerVars, lockD, strays, bounds>>

(* The shutdown request sets stopping; the answer once sent, or a signal   *)
(* at any time, cancels the context and stopAll begins.                    *)
AskShutdown ==
    /\ daemon = "up"
    /\ daemon' = "stopping"
    /\ UNCHANGED <<pc, op, desired, generation, attempts, status, cleanup,
                   pending, procVars, runnerVars, lockD, strays, bounds>>

(* Mutant: the shutdown request is answered and forgotten. *)
CancelOnSignal ==
    /\ daemon = "up"
    /\ daemon' = "cancelled"
    /\ Goto("stopAll", "stop")
    /\ UNCHANGED <<op, desired, generation, attempts, status, cleanup, pending,
                   procVars, runnerVars, lockD, strays, bounds>>

Cancel ==
    /\ daemon \in {"up", "stopping"}
    /\ daemon' = "cancelled"
    /\ Goto("stopAll", "stop")
    /\ UNCHANGED <<op, desired, generation, attempts, status, cleanup, pending,
                   procVars, runnerVars, lockD, strays, bounds>>

(* What a daemon's end does, orderly or not: its memory, its locks and its *)
(* ends of pipes are gone, its children go to init.                        *)
DaemonEnds ==
    /\ daemon' = "down"
    /\ pc' = [a \in Actor |-> "idle"]
    /\ op' = Nobody
    /\ desired' = FALSE /\ generation' = 0 /\ attempts' = 0
    /\ status' = "inactive"
    /\ proc' = FALSE /\ cleanup' = FALSE /\ pending' = NoRetry
    /\ monitor' = "off" /\ ready' = "none" /\ input' = FALSE
    /\ runner' = IF runner = "gone" THEN "none" ELSE runner
    /\ started' = FALSE
    /\ lockD' = FALSE
    /\ strays' = IF strays = {} THEN {} ELSE {"orphaned"}
    /\ UNCHANGED <<code, lockR>>

Exit ==
    /\ daemon = "cancelled"
    /\ pc["stopAll"] = "idle"
    /\ DaemonEnds
    /\ UNCHANGED bounds

DaemonDies ==
    /\ daemon # "down"
    /\ DaemonEnds
    /\ Fault

-----------------------------------------------------------------------------
Operate(a) ==
    \/ AlreadyStarted(a) \/ AcceptStart(a) \/ BeginStop(a) \/ StopIdle(a)
    \/ StopIdleFails(a) \/ StopDone(a) \/ StopTimesOut(a) \/ StartAgain(a)
    \/ Tidy(a) \/ TidyFails(a) \/ CountAttempt(a) \/ RefuseAttempt(a)
    \/ WaitLock(a) \/ WaitLockFails(a) \/ CheckStopping(a) \/ Spawn(a) \/ SpawnFails(a)
    \/ StartReturns(a) \/ StartGivesUp(a) \/ BootStarts(a)

Monitor == \/ MonitorStarted \/ MonitorWaits \/ MonitorCleans
           \/ MonitorCannotClean \/ MonitorReports \/ MonitorEnds

Runner == RunnerStarts \/ RunnerRefuses \/ RunnerExits

Next ==
    \/ \E c \in Client, request \in {"start", "stop", "restart"} :
           Call(c, request)
    \/ \E a \in Actor : Operate(a)
    \/ \E g \in Generation : RetryFires(g) \/ RetryQuits(g)
    \/ Monitor \/ Runner \/ ServiceEnds \/ RunnerDies \/ StraysEnd
    \/ Boot \/ AskShutdown \/ Cancel \/ Exit \/ DaemonDies
    \/ WindowPasses

Spec == Init /\ [][Next]_vars

(* Goroutines run and timers fire; a Go mutex does not starve a waiter; a  *)
(* runner proceeds, and stops its service when its input ends.  Nothing    *)
(* makes a client call, a service exit or a daemon start.                  *)
Fairness ==
    /\ \A a \in Actor : SF_vars(Operate(a))
    /\ SF_vars(\E g \in Generation : RetryFires(g))
    /\ WF_vars(Monitor)
    /\ WF_vars(Runner)
    /\ WF_vars(~ input /\ ServiceEnds)
    /\ WF_vars(daemon = "stopping" /\ Cancel)
    /\ WF_vars(Exit)

FairSpec == Spec /\ Fairness

-----------------------------------------------------------------------------
(* A runner is spawned only when no other copy of the service is there:    *)
(* no runner of this daemon or of an earlier one, and no adopted           *)
(* descendants of one that died.                                           *)
SpawnIsAlone ==
    [][~ proc /\ proc' =>
          runner = "none" /\ ~ lockR /\ "adopted" \notin strays]_vars

(* Nothing starts a service behind the back of a stop: not a retry whose   *)
(* timer was running, not the start at boot, not a monitor that saw the    *)
(* exit first.  After a stop has begun, the service is desired again only  *)
(* by a start, a restart or a new daemon, and only then spawned.           *)
StopSticks ==
    [][/\ ~ desired /\ desired' => generation' > generation
       /\ ~ proc /\ proc' => desired]_vars

(* The daemon holds the lock, and knows by its monitor or by the session   *)
(* it keeps for cleanup, as long as descendants it has adopted may live.   *)
LockCoversStrays == "adopted" \in strays => lockD /\ (proc \/ cleanup)

(* What status reports agrees with whether there is a process.             *)
StatusFits ==
    /\ status = "running" => proc
    /\ status \in {"inactive", "failed", "restarting"} => ~ proc

(* A stop that returns success has ended the runner; descendants it could  *)
(* not end are remembered and keep the lock, against the next start.       *)
StopIsComplete ==
    [][\A a \in Actor :
          /\ StopDone(a) => runner = "none"
          /\ StopDone(a) \/ StopIdle(a) =>
                 ("adopted" \in strays' => cleanup' /\ lockD')]_vars

(* When the daemon exits in order, a start that was under way has been     *)
(* undone too: no runner is left that has not been told to stop.           *)
ShutdownTellsRunner == [][Exit => ~ input]_vars

(* Every request is answered, and every actor gives the mutex back,        *)
(* whatever the runner does.                                               *)
RequestsReturn == \A a \in Actor : (pc[a] # "idle") ~> (pc[a] = "idle")

(* A shutdown ends. *)
ShutdownEnds == Stopping ~> (daemon = "down")

(* A service that waits to be restarted is tried again. *)
RetriesHappen == (status = "restarting") ~> (status # "restarting")

=============================================================================
