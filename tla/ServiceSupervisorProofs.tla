------------------------ MODULE ServiceSupervisorProofs ------------------------
(***************************************************************************)
(* The operation mutex decides who starts and stops the service, and the   *)
(* monitor's phase says what is left of the runner: together they show     *)
(* that the service lock covers what may live, that a spawn is alone, that *)
(* a stop is complete and sticks, and that a shutdown tells the runner.    *)
(* At the end: what holds of the cleanup that ends a service.              *)
(***************************************************************************)
EXTENDS ServiceSupervisor, SessionCleanup, TLAPS

Starting == {"tidy", "limit", "lock", "check", "spawn"}
Inside == Starting \cup {"await", "stopTidy", "restartTidy", "stopWait", "restartWait", "again"}

(* Who is inside startLocked or stopLocked holds the mutex. *)
Mutex == \A a \in Actor : pc[a] \in Inside <=> op = a

(* What its holder has found out and nobody else can change. *)
Steps ==
    \A a \in Actor :
        /\ pc[a] \in Starting => ~ proc /\ desired
        /\ pc[a] \in {"stopTidy", "restartTidy", "again"} => ~ proc
        /\ pc[a] \in {"limit", "lock", "check", "spawn"} => ~ cleanup
        /\ pc[a] \in {"lock", "check", "spawn"} => status = "starting"
        /\ pc[a] \in {"check", "spawn"} => lockD /\ runner = "none"
        /\ pc[a] \in {"stopWait", "restartWait"} => proc \/ runner = "none"

(* The runner and its monitor. *)
Watched ==
    /\ proc <=> monitor # "off"
    /\ monitor \in {"clean", "report", "dirty", "final", "finalDirty"} => runner = "gone"
    /\ runner = "gone" => monitor # "off"
    /\ lockR <=> runner \in {"config", "serving", "cleaning"}
    /\ input => monitor = "watch"

(* The lock of the daemon, and what it stands for. *)
Covered ==
    /\ monitor \in {"watch", "clean", "dirty", "finalDirty"} => lockD
    /\ monitor \in {"report", "final"} => "adopted" \notin strays
    /\ cleanup => lockD /\ ~ proc

(* A daemon that is down keeps nothing; a start at boot that has not begun *)
(* is the first of its generation; stopAll waits for the mutex, and from   *)
(* then on nobody spawns.                                                  *)
Ends ==
    /\ daemon = "down" =>
          /\ \A a \in Actor : pc[a] = "idle"
          /\ op = Nobody /\ generation = 0 /\ pending = NoRetry /\ ~ proc
    /\ pc["boot"] = "boot" =>
          /\ generation >= 1
          /\ generation = 1 =>
                ~ proc /\ pending = NoRetry /\ op = Nobody
    /\ daemon # "cancelled" => pc["stopAll"] = "idle"
    /\ pc["stopAll"] \in {"stop", "stopTidy", "stopWait", "idle"}
    /\ daemon = "cancelled" /\ pc["stopAll"] # "stop" =>
          ~ input /\ \A a \in Actor : pc[a] # "spawn"

Facts == /\ Mutex /\ Steps /\ Watched /\ Covered /\ Ends
         /\ LockCoversStrays /\ StatusFits

IInv == TypeOK /\ Facts

(* Who may hold the mutex. *)
LEMMA Actors ==
    /\ Nobody \notin Actor /\ Client \subseteq Actor
    /\ {"boot", "retry", "stopAll"} \subseteq Actor
    /\ {"boot", "retry", "stopAll"} \cap Client = {}
BY SupervisorAssumption DEF SupervisorAssumption, Actor

(* No daemon, no runner. *)
LEMMA InitIInv == Init => IInv
<1> SUFFICES ASSUME Init PROVE IInv
    OBVIOUS
<1> USE Actors, SupervisorAssumption DEF SupervisorAssumption, Init
<1>0. /\ desired \in BOOLEAN /\ proc \in BOOLEAN /\ cleanup \in BOOLEAN /\ input \in BOOLEAN
      /\ started \in BOOLEAN /\ lockD \in BOOLEAN /\ lockR \in BOOLEAN
  OBVIOUS
<1>1. TypeOK
  BY <1>0 DEF TypeOK, NoRetry
<1>2. Mutex /\ Steps
  BY DEF Mutex, Steps, Starting, Inside
<1>3. Watched /\ Covered /\ Ends
  BY DEF Watched, Covered, Ends
<1>4. LockCoversStrays /\ StatusFits
  BY DEF LockCoversStrays, StatusFits
<1> QED BY <1>1, <1>2, <1>3, <1>4 DEF IInv, Facts

(* Types alone. *)
LEMMA TypesKept == TypeOK /\ [Next]_vars => TypeOK'
<1> SUFFICES ASSUME TypeOK, [Next]_vars PROVE TypeOK'
    OBVIOUS
<1> USE Actors, SupervisorAssumption DEF SupervisorAssumption, TypeOK, procVars, runnerVars, bounds
<1>0. ASSUME DaemonEnds, calls' \in 0..MaxCalls, boots' \in 0..MaxBoots, faults' \in 0..MaxFaults
      PROVE  TypeOK'
  <2>1. /\ desired' \in BOOLEAN /\ proc' \in BOOLEAN /\ cleanup' \in BOOLEAN /\ input' \in BOOLEAN
        /\ started' \in BOOLEAN /\ lockD' \in BOOLEAN /\ lockR' \in BOOLEAN
    BY <1>0 DEF DaemonEnds
  <2>2. pc' \in [Actor -> {"idle"}] /\ pending' \in [Generation -> Nat] /\ generation' \in Nat
    BY <1>0 DEF DaemonEnds, NoRetry
  <2>3. attempts' \in 0..Burst
    BY <1>0 DEF DaemonEnds
  <2>4. /\ daemon' = "down" /\ op' = Nobody /\ status' = "inactive" /\ monitor' = "off"
        /\ ready' = "none" /\ code' = code /\ strays' \subseteq {"adopted", "orphaned"}
        /\ runner' \in {"none", "config", "serving", "cleaning", "gone"}
    BY <1>0 DEF DaemonEnds
  <2> QED BY <1>0, <2>1, <2>2, <2>3, <2>4
<1>1. ASSUME NEW a \in Actor, Operate(a) PROVE TypeOK'
  <2>1. CASE AlreadyStarted(a)
    BY <2>1 DEF AlreadyStarted, Goto
  <2>2. CASE AcceptStart(a)
    BY <2>2 DEF AcceptStart, Take, Goto
  <2>3. CASE BeginStop(a)
    <3>1. desired' \in BOOLEAN
      BY <2>3 DEF BeginStop, Take, Goto, StopStep
    <3>2. input' \in BOOLEAN
      BY <2>3 DEF BeginStop, Take, Goto, StopStep
    <3> QED BY <2>3, <3>1, <3>2 DEF BeginStop, Take, Goto, StopStep
  <2>4. CASE StopIdle(a)
    <3>1. cleanup' \in BOOLEAN
      BY <2>4 DEF StopIdle, FinishCleanup, Stopped, Return, Goto
    <3>2. lockD' \in BOOLEAN
      BY <2>4 DEF StopIdle, FinishCleanup, Stopped, Return, Goto
    <3> QED BY <2>4, <3>1, <3>2 DEF StopIdle, FinishCleanup, Stopped, Return, Goto
  <2>5. CASE StopIdleFails(a)
    <3>1. calls' \in 0..MaxCalls /\ boots' \in 0..MaxBoots /\ faults' \in 0..MaxFaults
      BY <2>5 DEF StopIdleFails, CannotFinishCleanup, Fault
    <3> QED BY <2>5, <3>1 DEF StopIdleFails, CannotFinishCleanup, Return, Goto
  <2>6. CASE StopDone(a)
    BY <2>6 DEF StopDone, Stopped, Return, Goto
  <2>7. CASE StopTimesOut(a)
    BY <2>7 DEF StopTimesOut, Return, Goto
  <2>8. CASE StartAgain(a)
    BY <2>8 DEF StartAgain, Goto
  <2>9. CASE Tidy(a)
    <3>1. cleanup' \in BOOLEAN
      BY <2>9 DEF Tidy, FinishCleanup, Stopping, Goto
    <3>2. lockD' \in BOOLEAN
      BY <2>9 DEF Tidy, FinishCleanup, Stopping, Goto
    <3> QED BY <2>9, <3>1, <3>2 DEF Tidy, FinishCleanup, Stopping, Goto
  <2>10. CASE TidyFails(a)
    <3>1. desired' \in BOOLEAN
      BY <2>10 DEF TidyFails, CannotFinishCleanup, Fault, Fail, Return, Goto, Stopping, bounds
    <3>2. calls' \in 0..MaxCalls /\ boots' \in 0..MaxBoots /\ faults' \in 0..MaxFaults
      BY <2>10 DEF TidyFails, CannotFinishCleanup, Fault
    <3>3. UNCHANGED <<cleanup, lockD, strays>>
      BY <2>10 DEF TidyFails, CannotFinishCleanup
    <3> QED BY <2>10, <3>1, <3>2, <3>3 DEF TidyFails, Fail, Return, Goto
  <2>11. CASE CountAttempt(a)
    BY <2>11 DEF CountAttempt, Goto
  <2>12. CASE RefuseAttempt(a)
    <3>1. desired' \in BOOLEAN
      BY <2>12 DEF RefuseAttempt, Fail, Return, Goto
    <3> QED BY <2>12, <3>1 DEF RefuseAttempt, Fail, Return, Goto
  <2>13. CASE WaitLock(a)
    BY <2>13 DEF WaitLock, Goto
  <2>14. CASE WaitLockFails(a)
    <3>1. desired' \in BOOLEAN
      BY <2>14 DEF WaitLockFails, Fail, Return, Goto
    <3> QED BY <2>14, <3>1 DEF WaitLockFails, Fail, Return, Goto
  <2>15. CASE CheckStopping(a)
    BY <2>15 DEF CheckStopping, Stopping, Goto
  <2>16. CASE Spawn(a)
    BY <2>16 DEF Spawn, Goto
  <2>17. CASE SpawnFails(a)
    <3>1. desired' \in BOOLEAN
      BY <2>17 DEF SpawnFails, Fail, Return, Goto, Stopping
    <3>2. lockD' \in BOOLEAN
      BY <2>17 DEF SpawnFails, Fail, Return, Goto, Stopping
    <3> QED BY <2>17, <3>1, <3>2 DEF SpawnFails, Fail, Return, Goto, Stopping
  <2>18. CASE StartReturns(a)
    BY <2>18 DEF StartReturns, Return, Goto
  <2>19. CASE StartGivesUp(a)
    <3>1. input' \in BOOLEAN
      BY <2>19 DEF StartGivesUp, Return, Goto
    <3> QED BY <2>19, <3>1 DEF StartGivesUp, Return, Goto
  <2>20. CASE BootStarts(a)
    BY <2>20 DEF BootStarts, Take, Goto
  <2> QED BY <1>1, <2>1, <2>2, <2>3, <2>4, <2>5, <2>6, <2>7, <2>8, <2>9, <2>10, <2>11, <2>12, <2>13, <2>14, <2>15, <2>16, <2>17, <2>18, <2>19, <2>20 DEF Operate
<1>2. CASE Monitor
  <2>1. CASE MonitorStarted
    <3>1. started' \in BOOLEAN
      BY <2>1 DEF MonitorStarted
    <3> QED BY <2>1, <3>1 DEF MonitorStarted
  <2>2. CASE MonitorWaits
    <3>1. input' \in BOOLEAN
      BY <2>2 DEF MonitorWaits
    <3> QED BY <2>2, <3>1 DEF MonitorWaits
  <2>3. CASE MonitorCleans
    <3>1. lockD' \in BOOLEAN
      BY <2>3 DEF MonitorCleans
    <3> QED BY <2>3, <3>1 DEF MonitorCleans
  <2>4. CASE MonitorCannotClean
    BY <2>4 DEF MonitorCannotClean, Fault
  <2>5. CASE MonitorReports
    BY <2>5 DEF MonitorReports
  <2>6. CASE MonitorEnds
    <3>1. proc' \in BOOLEAN
      BY <2>6 DEF MonitorEnds, Restarts, Stopping
    <3>2. desired' \in BOOLEAN
      BY <2>6 DEF MonitorEnds, Restarts, Stopping
    <3>3. cleanup' \in BOOLEAN
      BY <2>6 DEF MonitorEnds
    <3>5. pending' \in [Generation -> Nat]
      <4>1. \/ pending' = [pending EXCEPT ![generation] = @ + 1]
            \/ pending' = pending
        BY <2>6 DEF MonitorEnds
      <4> QED BY <4>1
    <3>4. status' \in {"restarting", "failed", "inactive"}
      BY <2>6 DEF MonitorEnds
    <3> QED BY <2>6, <3>1, <3>2, <3>3, <3>4, <3>5 DEF MonitorEnds
  <2> QED BY <1>2, <2>1, <2>2, <2>3, <2>4, <2>5, <2>6 DEF Monitor
<1>3. CASE Runner \/ ServiceEnds \/ RunnerDies \/ StraysEnd
  <2> USE DEF daemonVars
  <2>1. CASE RunnerStarts
    BY <2>1 DEF RunnerStarts
  <2>2. CASE RunnerRefuses
    <3>1. lockR' \in BOOLEAN
      BY <2>2 DEF RunnerRefuses, Gone
    <3> QED BY <2>2, <3>1 DEF RunnerRefuses, Gone
  <2>3. CASE RunnerExits
    <3>1. lockR' \in BOOLEAN
      BY <2>3 DEF RunnerExits, Gone
    <3> QED BY <2>3, <3>1 DEF RunnerExits, Gone
  <2>4. CASE ServiceEnds
    BY <2>4 DEF ServiceEnds
  <2>5. CASE RunnerDies
    <3>1. lockR' \in BOOLEAN
      BY <2>5 DEF RunnerDies, Gone, Fault
    <3> QED BY <2>5, <3>1 DEF RunnerDies, Gone, Fault
  <2>6. CASE StraysEnd
    BY <2>6 DEF StraysEnd
  <2> QED BY <1>3, <2>1, <2>2, <2>3, <2>4, <2>5, <2>6 DEF Runner
<1>4. ASSUME NEW c \in Client, NEW request \in {"start", "stop", "restart"}, Call(c, request) PROVE TypeOK'
  BY <1>4 DEF Call, Goto, Stopping
<1>5. ASSUME NEW g \in Generation, RetryFires(g) PROVE TypeOK'
  BY <1>5 DEF RetryFires, Take, Goto, NoRetry
<1>6. ASSUME NEW g \in Generation, RetryQuits(g) PROVE TypeOK'
  BY <1>6 DEF RetryQuits, NoRetry
<1>7. CASE Boot
  <2>1. desired' \in BOOLEAN
    BY <1>7 DEF Boot, Goto
  <2> QED BY <1>7, <2>1 DEF Boot, Goto
<1>8. CASE AskShutdown
  BY <1>8 DEF AskShutdown
<1>9. CASE Cancel
  BY <1>9 DEF Cancel, Goto
<1>10. CASE Exit
  BY <1>0, <1>10 DEF Exit
<1>11. CASE DaemonDies
  <2>1. calls' \in 0..MaxCalls /\ boots' \in 0..MaxBoots /\ faults' \in 0..MaxFaults
    BY <1>11 DEF DaemonDies, Fault
  <2> QED BY <1>0, <1>11, <2>1 DEF DaemonDies
<1>12. CASE WindowPasses
  BY <1>12 DEF WindowPasses
<1>13. CASE UNCHANGED vars
  BY <1>13 DEF vars, daemonVars
<1> QED BY <1>1, <1>2, <1>3, <1>4, <1>5, <1>6, <1>7, <1>8, <1>9, <1>10, <1>11, <1>12, <1>13
       DEF Next

(* Each action of a handler or goroutine. *)
LEMMA OperateFacts ==
  ASSUME IInv, NEW a \in Actor, Operate(a) PROVE Facts'
<1> USE Actors, SupervisorAssumption
    DEF SupervisorAssumption, IInv, Facts, TypeOK, Mutex, Steps, Watched, Covered, Ends, LockCoversStrays,
        StatusFits, Starting, Inside, procVars, runnerVars, bounds
<1>1. CASE AlreadyStarted(a)
  BY <1>1 DEF AlreadyStarted, Goto
<1>2. CASE AcceptStart(a)
  BY <1>2 DEF AcceptStart, Take, Goto
<1>3. CASE BeginStop(a)
  <2> USE <1>3 DEF BeginStop, Take, Goto, StopStep
  <2>1. Mutex'
    OBVIOUS
  <2>2. Steps'
    OBVIOUS
  <2>3. Watched'
    OBVIOUS
  <2>4. Covered'
    OBVIOUS
  <2>5. Ends'
    OBVIOUS
  <2>6. LockCoversStrays' /\ StatusFits'
    OBVIOUS
  <2> QED BY <2>1, <2>2, <2>3, <2>4, <2>5, <2>6
<1>4. CASE StopIdle(a)
  <2> USE <1>4 DEF StopIdle, FinishCleanup, Stopped, Return, Goto
  <2>1. Mutex'
    OBVIOUS
  <2>2. Steps'
    OBVIOUS
  <2>3. Watched'
    OBVIOUS
  <2>4. Covered'
    OBVIOUS
  <2>5. Ends'
    OBVIOUS
  <2>6. LockCoversStrays' /\ StatusFits'
    OBVIOUS
  <2> QED BY <2>1, <2>2, <2>3, <2>4, <2>5, <2>6
<1>5. CASE StopIdleFails(a)
  BY <1>5 DEF StopIdleFails, CannotFinishCleanup, Fault, Return, Goto
<1>6. CASE StopDone(a)
  BY <1>6 DEF StopDone, Stopped, Return, Goto
<1>7. CASE StopTimesOut(a)
  BY <1>7 DEF StopTimesOut, Return, Goto
<1>8. CASE StartAgain(a)
  BY <1>8 DEF StartAgain, Goto
<1>9. CASE Tidy(a)
  <2> USE <1>9 DEF Tidy, FinishCleanup, Stopping, Goto
  <2>1. Mutex'
    OBVIOUS
  <2>2. Steps'
    OBVIOUS
  <2>3. Watched'
    OBVIOUS
  <2>4. Covered'
    OBVIOUS
  <2>5. Ends'
    OBVIOUS
  <2>6. LockCoversStrays' /\ StatusFits'
    OBVIOUS
  <2> QED BY <2>1, <2>2, <2>3, <2>4, <2>5, <2>6
<1>10. CASE TidyFails(a)
  <2> USE <1>10 DEF TidyFails, CannotFinishCleanup, Fault, Fail, Return, Goto, Stopping, bounds
  <2>1. Mutex'
    OBVIOUS
  <2>2. Steps'
    OBVIOUS
  <2>3. Watched'
    OBVIOUS
  <2>4. Covered'
    OBVIOUS
  <2>5. Ends'
    OBVIOUS
  <2>6. LockCoversStrays' /\ StatusFits'
    OBVIOUS
  <2> QED BY <2>1, <2>2, <2>3, <2>4, <2>5, <2>6
<1>11. CASE CountAttempt(a)
  BY <1>11 DEF CountAttempt, Goto
<1>12. CASE RefuseAttempt(a)
  <2> USE <1>12 DEF RefuseAttempt, Fail, Return, Goto
  <2>1. Mutex'
    OBVIOUS
  <2>2. Steps'
    OBVIOUS
  <2>3. Watched'
    OBVIOUS
  <2>4. Covered'
    OBVIOUS
  <2>5. Ends'
    OBVIOUS
  <2>6. LockCoversStrays' /\ StatusFits'
    OBVIOUS
  <2> QED BY <2>1, <2>2, <2>3, <2>4, <2>5, <2>6
<1>13. CASE WaitLock(a)
  BY <1>13 DEF WaitLock, Goto
<1>14. CASE WaitLockFails(a)
  <2> USE <1>14 DEF WaitLockFails, Fail, Return, Goto
  <2>1. Mutex'
    OBVIOUS
  <2>2. Steps'
    OBVIOUS
  <2>3. Watched'
    OBVIOUS
  <2>4. Covered'
    OBVIOUS
  <2>5. Ends'
    OBVIOUS
  <2>6. LockCoversStrays' /\ StatusFits'
    OBVIOUS
  <2> QED BY <2>1, <2>2, <2>3, <2>4, <2>5, <2>6
<1>15. CASE CheckStopping(a)
  BY <1>15 DEF CheckStopping, Stopping, Goto
<1>16. CASE Spawn(a)
  BY <1>16 DEF Spawn, Goto
<1>17. CASE SpawnFails(a)
  <2> USE <1>17 DEF SpawnFails, Fail, Return, Goto, Stopping
  <2>1. Mutex'
    OBVIOUS
  <2>2. Steps'
    OBVIOUS
  <2>3. Watched'
    OBVIOUS
  <2>4. Covered'
    OBVIOUS
  <2>5. Ends'
    OBVIOUS
  <2>6. LockCoversStrays' /\ StatusFits'
    OBVIOUS
  <2> QED BY <2>1, <2>2, <2>3, <2>4, <2>5, <2>6
<1>18. CASE StartReturns(a)
  BY <1>18 DEF StartReturns, Return, Goto
<1>19. CASE StartGivesUp(a)
  <2> USE <1>19 DEF StartGivesUp, Return, Goto
  <2>1. Mutex'
    OBVIOUS
  <2>2. Steps'
    OBVIOUS
  <2>3. Watched'
    OBVIOUS
  <2>4. Covered'
    OBVIOUS
  <2>5. Ends'
    OBVIOUS
  <2>6. LockCoversStrays' /\ StatusFits'
    OBVIOUS
  <2> QED BY <2>1, <2>2, <2>3, <2>4, <2>5, <2>6
<1>20. CASE BootStarts(a)
  BY <1>20 DEF BootStarts, Take, Goto
<1> QED BY <1>1, <1>2, <1>3, <1>4, <1>5, <1>6, <1>7, <1>8, <1>9, <1>10, <1>11, <1>12, <1>13, <1>14, <1>15, <1>16, <1>17, <1>18, <1>19, <1>20
       DEF Operate

(* The monitor. *)
LEMMA MonitorFacts ==
  ASSUME IInv, Monitor PROVE Facts'
<1> USE Actors, SupervisorAssumption
    DEF SupervisorAssumption, IInv, Facts, TypeOK, Mutex, Steps, Watched, Covered, Ends, LockCoversStrays,
        StatusFits, Starting, Inside, procVars, runnerVars, bounds
<1>1. CASE MonitorStarted
  <2> USE <1>1 DEF MonitorStarted
  <2>1. Mutex'
    OBVIOUS
  <2>2. Steps'
    OBVIOUS
  <2>3. Watched'
    OBVIOUS
  <2>4. Covered'
    OBVIOUS
  <2>5. Ends'
    OBVIOUS
  <2>6. LockCoversStrays' /\ StatusFits'
    OBVIOUS
  <2> QED BY <2>1, <2>2, <2>3, <2>4, <2>5, <2>6
<1>2. CASE MonitorWaits
  <2> USE <1>2 DEF MonitorWaits
  <2>1. Mutex'
    OBVIOUS
  <2>2. Steps'
    OBVIOUS
  <2>3. Watched'
    OBVIOUS
  <2>4. Covered'
    OBVIOUS
  <2>5. Ends'
    OBVIOUS
  <2>6. LockCoversStrays' /\ StatusFits'
    OBVIOUS
  <2> QED BY <2>1, <2>2, <2>3, <2>4, <2>5, <2>6
<1>3. CASE MonitorCleans
  <2> USE <1>3 DEF MonitorCleans
  <2>1. Mutex'
    OBVIOUS
  <2>2. Steps'
    OBVIOUS
  <2>3. Watched'
    OBVIOUS
  <2>4. Covered'
    OBVIOUS
  <2>5. Ends'
    OBVIOUS
  <2>6. LockCoversStrays' /\ StatusFits'
    OBVIOUS
  <2> QED BY <2>1, <2>2, <2>3, <2>4, <2>5, <2>6
<1>4. CASE MonitorCannotClean
  BY <1>4 DEF MonitorCannotClean, Fault
<1>5. CASE MonitorReports
  BY <1>5 DEF MonitorReports
<1>6. CASE MonitorEnds
  <2> USE <1>6 DEF MonitorEnds, Restarts, Stopping
  <2>1. Mutex'
    OBVIOUS
  <2>2. Steps'
    OBVIOUS
  <2>3. Watched'
    OBVIOUS
  <2>4. Covered'
    OBVIOUS
  <2>5. Ends'
    OBVIOUS
  <2>6. LockCoversStrays' /\ StatusFits'
    OBVIOUS
  <2> QED BY <2>1, <2>2, <2>3, <2>4, <2>5, <2>6
<1> QED BY <1>1, <1>2, <1>3, <1>4, <1>5, <1>6 DEF Monitor

(* The runner and its service. *)
LEMMA RunnerFacts ==
  ASSUME IInv, Runner \/ ServiceEnds \/ RunnerDies \/ StraysEnd PROVE Facts'
<1> USE Actors, SupervisorAssumption
    DEF SupervisorAssumption, IInv, Facts, TypeOK, Mutex, Steps, Watched, Covered, Ends, LockCoversStrays,
        StatusFits, Starting, Inside, procVars, runnerVars, daemonVars, bounds
<1>1. CASE RunnerStarts
  BY <1>1 DEF RunnerStarts
<1>2. CASE RunnerRefuses
  <2> USE <1>2 DEF RunnerRefuses, Gone
  <2>1. Mutex'
    OBVIOUS
  <2>2. Steps'
    OBVIOUS
  <2>3. Watched'
    OBVIOUS
  <2>4. Covered'
    OBVIOUS
  <2>5. Ends'
    OBVIOUS
  <2>6. LockCoversStrays' /\ StatusFits'
    OBVIOUS
  <2> QED BY <2>1, <2>2, <2>3, <2>4, <2>5, <2>6
<1>3. CASE RunnerExits
  <2> USE <1>3 DEF RunnerExits, Gone
  <2>1. Mutex'
    OBVIOUS
  <2>2. Steps'
    OBVIOUS
  <2>3. Watched'
    OBVIOUS
  <2>4. Covered'
    OBVIOUS
  <2>5. Ends'
    OBVIOUS
  <2>6. LockCoversStrays' /\ StatusFits'
    OBVIOUS
  <2> QED BY <2>1, <2>2, <2>3, <2>4, <2>5, <2>6
<1>4. CASE ServiceEnds
  BY <1>4 DEF ServiceEnds
<1>5. CASE RunnerDies
  <2> USE <1>5 DEF RunnerDies, Gone, Fault
  <2>1. Mutex'
    OBVIOUS
  <2>2. Steps'
    OBVIOUS
  <2>3. Watched'
    OBVIOUS
  <2>4. Covered'
    OBVIOUS
  <2>5. Ends'
    OBVIOUS
  <2>6. LockCoversStrays' /\ StatusFits'
    OBVIOUS
  <2> QED BY <2>1, <2>2, <2>3, <2>4, <2>5, <2>6
<1>6. CASE StraysEnd
  BY <1>6 DEF StraysEnd
<1> QED BY <1>1, <1>2, <1>3, <1>4, <1>5, <1>6 DEF Runner

(* Requests, retries and the life of the daemon. *)
LEMMA NextFacts == IInv /\ [Next]_vars => Facts'
<1> SUFFICES ASSUME IInv, [Next]_vars PROVE Facts'
    OBVIOUS
<1> USE Actors, SupervisorAssumption
    DEF SupervisorAssumption, IInv, Facts, TypeOK, Mutex, Steps, Watched, Covered, Ends, LockCoversStrays,
        StatusFits, Starting, Inside, procVars, runnerVars, bounds
<1>1. ASSUME NEW c \in Client, NEW request \in {"start", "stop", "restart"}, Call(c, request) PROVE Facts'
  BY <1>1 DEF Call, Goto, Stopping
<1>2. ASSUME NEW g \in Generation, RetryFires(g) PROVE Facts'
  BY <1>2 DEF RetryFires, Take, Goto, NoRetry
<1>3. ASSUME NEW g \in Generation, RetryQuits(g) PROVE Facts'
  BY <1>3 DEF RetryQuits, NoRetry
<1>4. CASE Boot
  <2> USE <1>4 DEF Boot, Goto
  <2>1. Mutex'
    OBVIOUS
  <2>2. Steps'
    OBVIOUS
  <2>3. Watched'
    OBVIOUS
  <2>4. Covered'
    OBVIOUS
  <2>5. Ends'
    OBVIOUS
  <2>6. LockCoversStrays' /\ StatusFits'
    OBVIOUS
  <2> QED BY <2>1, <2>2, <2>3, <2>4, <2>5, <2>6
<1>5. CASE AskShutdown
  BY <1>5 DEF AskShutdown
<1>6. CASE Cancel
  BY <1>6 DEF Cancel, Goto
<1>7. CASE Exit
  <2> USE <1>7 DEF Exit, DaemonEnds, NoRetry, Generation
  <2>1. Mutex'
    OBVIOUS
  <2>2. Steps'
    OBVIOUS
  <2>3. Watched'
    OBVIOUS
  <2>4. Covered'
    OBVIOUS
  <2>5. Ends'
    OBVIOUS
  <2>6. LockCoversStrays' /\ StatusFits'
    OBVIOUS
  <2> QED BY <2>1, <2>2, <2>3, <2>4, <2>5, <2>6
<1>8. CASE DaemonDies
  <2> USE <1>8 DEF DaemonDies, DaemonEnds, NoRetry, Generation, Fault
  <2>1. Mutex'
    OBVIOUS
  <2>2. Steps'
    OBVIOUS
  <2>3. Watched'
    OBVIOUS
  <2>4. Covered'
    OBVIOUS
  <2>5. Ends'
    OBVIOUS
  <2>6. LockCoversStrays' /\ StatusFits'
    OBVIOUS
  <2> QED BY <2>1, <2>2, <2>3, <2>4, <2>5, <2>6
<1>9. CASE WindowPasses
  BY <1>9 DEF WindowPasses
<1>10. CASE UNCHANGED vars
  BY <1>10 DEF vars, daemonVars
<1> HIDE DEF IInv, Facts, TypeOK
<1> QED BY <1>1, <1>2, <1>3, <1>4, <1>5, <1>6, <1>7, <1>8, <1>9, <1>10,
           OperateFacts, MonitorFacts, RunnerFacts DEF Next

(* All steps keep all parts. *)
LEMMA NextIInv == IInv /\ [Next]_vars => IInv'
BY TypesKept, NextFacts DEF IInv

(* The invariant holds throughout. *)
THEOREM Invariance == Spec => []IInv
BY InitIInv, NextIInv, PTL DEF Spec

(* Every variable of the supervisor keeps its type.                        *)
THEOREM TypeCorrect == Spec => []TypeOK
<1>1. IInv => TypeOK
  BY DEF IInv
<1> QED BY <1>1, Invariance, PTL

(* The daemon's lock covers the descendants of a lost runner, over failed  *)
(* cleanups, stops and starts, until they are gone (supervisor.go:259-344).*)
THEOREM StraysAreCovered == Spec => []LockCoversStrays
<1>1. IInv => LockCoversStrays
  BY DEF IInv, Facts
<1> QED BY <1>1, Invariance, PTL

(* What status reports agrees with whether there is a process.             *)
THEOREM StatusIsRight == Spec => []StatusFits
<1>1. IInv => StatusFits
  BY DEF IInv, Facts
<1> QED BY <1>1, Invariance, PTL

(* Only Spawn brings a process. *)
LEMMA OnlySpawn ==
  ASSUME IInv, [Next]_vars, ~ proc, proc' PROVE \E a \in Actor : Spawn(a)
<1> USE DEF procVars, daemonVars
<1>1. ASSUME NEW a \in Actor, Operate(a), ~ Spawn(a) PROVE proc' = proc
  BY <1>1 DEF Operate, AlreadyStarted, AcceptStart, BeginStop, StopIdle, StopIdleFails, StopDone,
              StopTimesOut, StartAgain, Tidy, TidyFails, CountAttempt, RefuseAttempt, WaitLock,
              WaitLockFails, CheckStopping, SpawnFails, StartReturns, StartGivesUp, BootStarts
<1>2. ASSUME Monitor \/ Runner \/ ServiceEnds \/ RunnerDies \/ StraysEnd PROVE ~ proc' \/ proc' = proc
  BY <1>2 DEF Monitor, Runner, MonitorStarted, MonitorWaits, MonitorCleans, MonitorCannotClean,
              MonitorReports, MonitorEnds, RunnerStarts, RunnerRefuses, RunnerExits, ServiceEnds,
              RunnerDies, StraysEnd
<1>3. ASSUME \/ \E c \in Client, request \in {"start", "stop", "restart"} : Call(c, request)
             \/ \E g \in Generation : RetryFires(g) \/ RetryQuits(g)
             \/ Boot \/ AskShutdown \/ Cancel \/ Exit \/ DaemonDies \/ WindowPasses \/ UNCHANGED vars
      PROVE  ~ proc' \/ proc' = proc
  BY <1>3 DEF Call, RetryFires, RetryQuits, Boot, AskShutdown, Cancel, Exit, DaemonDies, DaemonEnds,
              WindowPasses, vars
<1> QED BY <1>1, <1>2, <1>3 DEF Next

(* startLocked (supervisor.go:105-216) creates a runner only when no other *)
(* copy of the service is there, of this daemon or an earlier one.         *)
THEOREM SpawnsAreAlone == Spec => SpawnIsAlone
<1> DEFINE P == ~ proc /\ proc' =>
                  runner = "none" /\ ~ lockR /\ "adopted" \notin strays
<1>1. IInv /\ [Next]_vars => [P]_vars
  <2> SUFFICES ASSUME IInv, [Next]_vars, ~ proc, proc'
               PROVE  runner = "none" /\ ~ lockR /\ "adopted" \notin strays
    OBVIOUS
  <2>1. PICK a \in Actor : Spawn(a)
    BY OnlySpawn
  <2>2. runner = "none" /\ ~ cleanup
    BY <2>1 DEF Spawn, IInv, Facts, Steps
  <2>3. ~ lockR
    BY <2>2 DEF IInv, Facts, Watched
  <2>4. "adopted" \notin strays
    BY <2>2 DEF IInv, Facts, LockCoversStrays
  <2> QED BY <2>2, <2>3, <2>4
<1> QED BY <1>1, Invariance, PTL DEF Spec, SpawnIsAlone

(* After a stop has begun, only a start, a restart or a new daemon makes   *)
(* the service wanted again, and only then is it spawned: no retry, start  *)
(* at boot or monitor does (supervisor.go:217-400).                        *)
THEOREM StopsStick == Spec => StopSticks
<1> DEFINE P == /\ ~ desired /\ desired' => generation' > generation
                /\ ~ proc /\ proc' => desired
<1>1. IInv /\ [Next]_vars => [P]_vars
  <2> SUFFICES ASSUME IInv, [Next]_vars PROVE P
    OBVIOUS
  <2> USE DEF procVars, daemonVars
  <2>1. ~ proc /\ proc' => desired
    <3> SUFFICES ASSUME ~ proc, proc' PROVE desired
      OBVIOUS
    <3>1. PICK a \in Actor : Spawn(a)
      BY OnlySpawn
    <3> QED BY <3>1 DEF Spawn, IInv, Facts, Steps, Starting
  <2>2. generation \in Nat
    BY DEF IInv, TypeOK
  <2>3. ASSUME NEW a \in Actor, Operate(a) PROVE ~ desired /\ desired' => generation' > generation
    <3>1. CASE AcceptStart(a) \/ StartAgain(a)
      BY <2>2, <3>1 DEF AcceptStart, StartAgain
    <3>2. CASE BeginStop(a) \/ TidyFails(a) \/ RefuseAttempt(a) \/ WaitLockFails(a) \/ SpawnFails(a)
      BY <3>2 DEF BeginStop, TidyFails, RefuseAttempt, WaitLockFails, SpawnFails, Fail
    <3>3. CASE UNCHANGED desired
      BY <3>3
    <3> QED BY <2>3, <3>1, <3>2, <3>3
            DEF Operate, AlreadyStarted, StopIdle, StopIdleFails, StopDone, StopTimesOut, Tidy, CountAttempt,
                WaitLock, CheckStopping, Spawn, StartReturns, StartGivesUp, BootStarts
  <2>4. ASSUME Monitor \/ Runner \/ ServiceEnds \/ RunnerDies \/ StraysEnd PROVE desired' => desired
    BY <2>4 DEF Monitor, Runner, MonitorStarted, MonitorWaits, MonitorCleans, MonitorCannotClean,
              MonitorReports, MonitorEnds, RunnerStarts, RunnerRefuses, RunnerExits, ServiceEnds,
              RunnerDies, StraysEnd
  <2>5. ASSUME \/ \E c \in Client, request \in {"start", "stop", "restart"} : Call(c, request)
               \/ \E g \in Generation : RetryFires(g) \/ RetryQuits(g)
               \/ Boot \/ AskShutdown \/ Cancel \/ Exit \/ DaemonDies \/ WindowPasses \/ UNCHANGED vars
        PROVE  ~ desired /\ desired' => generation' > generation
    <3>1. CASE Boot
      <4>1. CASE Enabled
        <5>1. generation' = generation + 1
          BY <3>1, <4>1 DEF Boot
        <5> QED BY <2>2, <5>1
      <4>2. CASE ~ Enabled
        <5>1. desired' = desired
          BY <3>1, <4>2 DEF Boot
        <5> QED BY <5>1
      <4> QED BY <4>1, <4>2
    <3>2. CASE Exit \/ DaemonDies
      BY <3>2 DEF Exit, DaemonDies, DaemonEnds
    <3> QED BY <2>5, <3>1, <3>2
            DEF Call, RetryFires, RetryQuits, AskShutdown, Cancel, WindowPasses, vars
  <2> QED BY <2>1, <2>3, <2>4, <2>5 DEF Next
<1> QED BY <1>1, Invariance, PTL DEF Spec, StopSticks

(* stopLocked that returns success (supervisor.go:354-381) has ended the   *)
(* runner, and what it could not end stays under the lock.                 *)
THEOREM StopsAreComplete == Spec => StopIsComplete
<1> DEFINE P == \A a \in Actor :
          /\ StopDone(a) => runner = "none"
          /\ StopDone(a) \/ StopIdle(a) =>
                 ("adopted" \in strays' => cleanup' /\ lockD')
<1>1. IInv /\ [Next]_vars => [P]_vars
  <2> SUFFICES ASSUME IInv, [Next]_vars, NEW a \in Actor
               PROVE  /\ StopDone(a) => runner = "none"
                      /\ StopDone(a) \/ StopIdle(a) => ("adopted" \in strays' => cleanup' /\ lockD')
    OBVIOUS
  <2>1. ASSUME StopDone(a) PROVE runner = "none" /\ ~ proc'
    BY <2>1 DEF StopDone, procVars, IInv, Facts, Steps
  <2>2. ASSUME StopIdle(a) PROVE ~ proc'
    BY <2>2 DEF StopIdle, procVars, IInv, Facts, Steps
  <2>3. LockCoversStrays'
    BY NextIInv DEF IInv, Facts
  <2> QED BY <2>1, <2>2, <2>3 DEF LockCoversStrays
<1> QED BY <1>1, Invariance, PTL DEF Spec, StopIsComplete

(* A daemon that exits in order has told every runner to stop, also one    *)
(* whose start raced with the shutdown (supervisor.go:160-188, 427-455).   *)
THEOREM ShutdownsTellRunners == Spec => ShutdownTellsRunner
<1>1. IInv /\ [Next]_vars => [Exit => ~ input]_vars
  BY DEF IInv, Facts, Ends, Exit
<1> QED BY <1>1, Invariance, PTL DEF Spec, ShutdownTellsRunner

-----------------------------------------------------------------------------
(* The cleanup that ends a service, of which the supervisor has only the   *)
(* outcome.  Process groups keep the runners of other services out of      *)
(* reach, and a pass that has found nothing has accounted for every child  *)
(* that was the owner's when it began.                                     *)

(* A foreign runner leads a group that nobody of the session is in.        *)
Apart ==
    /\ \A p \in Foreign : life[p] # "unborn" /\ group[p] = p
    /\ \A p \in Process \ Foreign : group[p] \notin Foreign
    /\ scan = "child" => entry \notin Foreign

(* In a pass that has found nothing yet, a child that runs is still to be  *)
(* looked at, or is being looked at, or was moved to the owner meanwhile.  *)
Accounted ==
    scan \in {"entry", "child", "ok"} /\ ~found =>
        \A p \in Process \ Foreign :
            life[p] = "alive" /\ parent[p] = Owner =>
                \/ p \in moved
                \/ scan # "ok" /\ p \in todo
                \/ scan = "child" /\ entry = p

SInv ==
    /\ CleanupTypeOK /\ Apart /\ Accounted
    /\ scan = "ok" => ~found

(* Before the first pass nothing has been looked at. *)
LEMMA InitSInv ==
  ASSUME CleanupInit PROVE SInv
<1> USE CleanupAssumption DEF CleanupAssumption, CleanupInit
<1>1. CleanupTypeOK
  BY DEF CleanupTypeOK
<1>2. Apart /\ Accounted /\ scan # "ok"
  BY DEF Apart, Accounted
<1> QED BY <1>1, <1>2 DEF SInv

(* The kernel's steps. *)
LEMMA ForkSInv ==
  ASSUME SInv, NEW p \in Process, NEW c \in Process, Fork(p, c) PROVE SInv'
<1> USE CleanupAssumption DEF CleanupAssumption, SInv
<1>1. CleanupTypeOK'
  BY DEF Fork, CleanupTypeOK, scanVars
<1>2. Apart'
  BY DEF Fork, CleanupTypeOK, Apart, scanVars
<1>3. Accounted'
  BY DEF Fork, CleanupTypeOK, Accounted, scanVars
<1> QED BY <1>1, <1>2, <1>3 DEF Fork, scanVars

(* The children of a process that ends move to the owner. *)
LEMMA DieSInv ==
  ASSUME SInv, NEW p \in Process, Die(p) PROVE SInv'
<1> USE CleanupAssumption DEF CleanupAssumption, SInv
<1>1. CleanupTypeOK'
  BY DEF Die, CleanupTypeOK, scanVars, Present
<1>2. Apart'
  BY DEF Die, CleanupTypeOK, Apart, scanVars
<1>3. Accounted'
  BY DEF Die, CleanupTypeOK, Accounted, scanVars
<1> QED BY <1>1, <1>2, <1>3 DEF Die, scanVars

(* A parent other than the owner reaps its child. *)
LEMMA WaitSInv ==
  ASSUME SInv, NEW p \in Process, Wait(p) PROVE SInv'
<1> USE CleanupAssumption DEF CleanupAssumption, SInv
<1>1. CleanupTypeOK'
  BY DEF Wait, CleanupTypeOK, scanVars
<1>2. Apart'
  BY DEF Wait, CleanupTypeOK, Apart, scanVars
<1>3. Accounted'
  BY DEF Wait, CleanupTypeOK, Accounted, scanVars
<1> QED BY <1>1, <1>2, <1>3 DEF Wait, scanVars

(* The steps of the scan, one lemma for all. *)
LEMMA ScanSInv ==
  ASSUME SInv, Scan PROVE SInv'
<1> USE CleanupAssumption DEF CleanupAssumption, SInv
<1>1. CASE ReadDir
  BY <1>1 DEF ReadDir, CleanupTypeOK, Apart, Accounted, kernelVars, Present
<1>2. ASSUME NEW p \in Process, ReadStat(p) PROVE SInv'
  BY <1>2 DEF ReadStat, IsAdopted, Present, CleanupTypeOK, Apart, Accounted, kernelVars
<1>3. CASE Reap
  BY <1>3 DEF Reap, NextEntry, CleanupTypeOK, Apart, Accounted
<1>4. CASE Signal
  <2>1. CleanupTypeOK'
    BY <1>4 DEF Signal, SendTo, NextEntry, CleanupTypeOK
  <2>2. Apart' /\ Accounted'
    BY <1>4 DEF Signal, NextEntry, CleanupTypeOK, Apart, Accounted
  <2> QED BY <1>4, <2>1, <2>2 DEF Signal, NextEntry
<1>5. CASE EndPass
  BY <1>5 DEF EndPass, CleanupTypeOK, Apart, Accounted, kernelVars
<1> QED BY <1>1, <1>2, <1>3, <1>4, <1>5 DEF Scan

(* Every step of the kernel and of the scan. *)
LEMMA NextSInv ==
  ASSUME SInv, [CleanupNext]_cleanupVars PROVE SInv'
<1>1. CASE UNCHANGED cleanupVars
  BY <1>1 DEF SInv, CleanupTypeOK, Apart, Accounted, cleanupVars, kernelVars, scanVars
<1>2. CASE Tick
  BY <1>2 DEF Tick, SInv, CleanupTypeOK, Apart, Accounted, kernelVars, scanVars
<1>3. ASSUME NEW p \in Process, StatFails(p) PROVE SInv'
  BY <1>3 DEF StatFails, SInv, CleanupTypeOK, Apart, Accounted, kernelVars
<1> QED BY <1>1, <1>2, <1>3, ForkSInv, DieSInv, WaitSInv, ScanSInv DEF CleanupNext

(* The invariant holds throughout. *)
THEOREM SessionInvariance == CleanupSpec => []SInv
<1> QED BY InitSInv, NextSInv, PTL DEF CleanupSpec

(* Every variable of the cleanup keeps its type, for any processes.        *)
THEOREM SessionTypeCorrect == CleanupSpec => []CleanupTypeOK
<1>1. SInv => CleanupTypeOK
  BY DEF SInv
<1> QED BY <1>1, SessionInvariance, PTL

(* However the session forks, exits and is waited for beside the scan of   *)
(* /proc, cleanupSession (orphans.go:35-90) that succeeds has missed only  *)
(* processes whose parent exited during its last pass.                     *)
THEOREM MissesOnlyTheMoved == CleanupSpec => []OnlyTheMovedAreMissed
<1>1. SInv => OnlyTheMovedAreMissed
  BY DEF SInv, Accounted, OnlyTheMovedAreMissed, Remaining
<1> QED BY <1>1, SessionInvariance, PTL

(* No step of it signals or reaps the runner of another service, whatever  *)
(* groups the processes of the session make (orphans.go:56-80).            *)
THEOREM ForeignAreUntouched == CleanupSpec => ForeignUntouched
<1> DEFINE P == \A p \in Foreign :
                    /\ signal'[p] = signal[p]
                    /\ Scan => life'[p] = life[p]
<1>1. ASSUME SInv, [CleanupNext]_cleanupVars, NEW p \in Foreign
      PROVE  signal'[p] = signal[p] /\ (Scan => life'[p] = life[p])
  <2> USE CleanupAssumption DEF CleanupAssumption
  <2>1. p \in Process
    OBVIOUS
  <2>2. signal'[p] = signal[p]
    <3>1. CASE Signal
      <4>1. group[entry] \notin Foreign /\ group[p] = p
        BY <1>1, <2>1, <3>1 DEF SInv, CleanupTypeOK, Apart, Signal
      <4>2. ASSUME NEW sig, SendTo(group[entry], sig) PROVE signal'[p] = signal[p]
        BY <2>1, <4>1, <4>2, <1>1 DEF SendTo
      <4> QED BY <1>1, <3>1, <4>2 DEF Signal
    <3>2. CASE ~Signal
      BY <1>1, <3>2 DEF CleanupNext, Fork, Die, Wait, StatFails, Tick, Scan, ReadDir,
         ReadStat, Reap, EndPass, cleanupVars, kernelVars
    <3> QED BY <3>1, <3>2
  <2>3. ASSUME Scan PROVE life'[p] = life[p]
    <3>1. CASE Reap
      BY <1>1, <2>1, <3>1 DEF Reap, SInv, CleanupTypeOK, Apart
    <3> QED BY <2>3, <3>1 DEF Scan, ReadDir, ReadStat, Signal, EndPass, kernelVars
  <2> QED BY <2>2, <2>3
<1>2. SInv /\ [CleanupNext]_cleanupVars => [P]_cleanupVars
  BY <1>1
<1> QED BY <1>2, SessionInvariance, PTL DEF CleanupSpec, ForeignUntouched
=============================================================================
