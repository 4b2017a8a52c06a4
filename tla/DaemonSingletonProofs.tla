------------------------ MODULE DaemonSingletonProofs ------------------------
(***************************************************************************)
(* The lock proves the singleton: whoever lives or is about to spawn is    *)
(* the holder.  That there is one daemon proves what the commands answer:  *)
(* nobody but the daemon itself touches its socket and its endpoint.       *)
(***************************************************************************)
EXTENDS DaemonSingleton, TLAPS

(* What each command and each daemon knows of the lock. *)
Holds ==
    /\ \A s \in Starter :
          /\ cmd[s] \in {"spawn", "wait"} => lock = s
          /\ Live(s) => lock = s
          /\ cmd[s] \in {"idle", "lock", "spawn"} => daemon[s] = "none"
          /\ cmd[s] \notin {"release", "unlock"}
    /\ \A c \in Client : cmd[c] \in {"release", "unlock"} => lock = c

IInv == TypeOK /\ Holds

(* Nobody has the lock at first, and nobody needs it. *)
LEMMA InitIInv == Init => IInv
BY SingletonAssumption DEF Init, IInv, TypeOK, Holds, Live

(* Every step of a command or a daemon, and every kill, keeps it.          *)
LEMMA NextIInv == IInv /\ [Next]_vars => IInv'
<1> SUFFICES ASSUME IInv, [Next]_vars PROVE IInv'
    OBVIOUS
<1> USE SingletonAssumption DEF IInv, TypeOK, Holds, Live, CloseLock, Goto,
        Advance, daemonVars, clientVars
<1>1. ASSUME NEW c \in Starter \cup Client, Begin(c) PROVE IInv'
      BY <1>1 DEF Begin
<1>2. ASSUME NEW s \in Starter, TryLock(s) PROVE IInv'
      BY <1>2 DEF TryLock
<1>3. ASSUME NEW s \in Starter, Busy(s) PROVE IInv'
      BY <1>3 DEF Busy
<1>4. ASSUME NEW s \in Starter, Spawn(s) PROVE IInv'
      BY <1>4 DEF Spawn
<1>5. ASSUME NEW s \in Starter, SpawnFails(s) PROVE IInv'
      BY <1>5 DEF SpawnFails
<1>6. ASSUME NEW s \in Starter, Started(s) PROVE IInv'
      BY <1>6 DEF Started
<1>7. ASSUME NEW s \in Starter, GivesUp(s) PROVE IInv'
      BY <1>7 DEF GivesUp
<1>8. ASSUME NEW s \in Starter, Killed(s) PROVE IInv'
      BY <1>8 DEF Killed
<1>9. ASSUME NEW s \in Starter, Serve(s) PROVE IInv'
  <2>1. CASE CleanupOldEndpoint(s)
        BY <2>1 DEF CleanupOldEndpoint
  <2>2. CASE Listen(s)
        BY <2>2 DEF Listen
  <2>3. CASE Publish(s)
        BY <2>3 DEF Publish
  <2>4. CASE Ready(s)
        BY <2>4 DEF Ready
  <2>5. CASE CannotReport(s)
        BY <2>5 DEF CannotReport
  <2>6. CASE Unpublish(s)
        BY <2>6 DEF Unpublish
  <2>7. CASE Exit(s)
        BY <2>7 DEF Exit
  <2> QED
        BY <1>9, <2>1, <2>2, <2>3, <2>4, <2>5, <2>6, <2>7 DEF Serve
<1>10. ASSUME NEW s \in Starter, Stop(s) PROVE IInv'
       BY <1>10 DEF Stop
<1>11. ASSUME NEW s \in Starter, Dies(s) PROVE IInv'
       BY <1>11 DEF Dies
<1>12. ASSUME NEW c \in Client, Probe(c) PROVE IInv'
       BY <1>12 DEF Probe
<1>13. ASSUME NEW c \in Client, Release(c) PROVE IInv'
       BY <1>13 DEF Release
<1>14. ASSUME NEW c \in Client, ReadEndpoint(c) PROVE IInv'
       BY <1>14 DEF ReadEndpoint
<1>15. ASSUME NEW c \in Client, Send(c) PROVE IInv'
       BY <1>15 DEF Send, Accepting
<1>16. ASSUME NEW c \in Client, SendFails(c) \/ WaitLockFails(c) PROVE IInv'
       BY <1>16 DEF SendFails, WaitLockFails
<1>17. ASSUME NEW c \in Client, WaitLock(c) PROVE IInv'
       BY <1>17 DEF WaitLock
<1>18. ASSUME NEW c \in Client, Unlock(c) PROVE IInv'
       BY <1>18 DEF Unlock
<1>19. ASSUME UNCHANGED vars PROVE IInv'
       BY <1>19 DEF vars
<1>20. ASSUME NEW c \in Starter \cup Client, Command(c) PROVE IInv'
       BY <1>20, <1>2, <1>3, <1>4, <1>5, <1>6, <1>7, <1>12, <1>13, <1>14,
          <1>15, <1>16, <1>17, <1>18 DEF Command
<1> QED
    BY <1>1, <1>8, <1>9, <1>10, <1>11, <1>19, <1>20 DEF Next

(* Whatever the commands, and whoever is killed, one root has one daemon. *)
THEOREM Singleton == Spec => []SingleDaemon
<1>1. IInv => SingleDaemon
      BY DEF IInv, Holds, SingleDaemon
<1> QED
      BY <1>1, InitIInv, NextIInv, PTL DEF Spec

(* Every variable keeps its type, the bound on faults included. *)
THEOREM TypeCorrect == Spec => []TypeOK
<1>1. IInv => TypeOK
      BY DEF IInv
<1> QED
      BY <1>1, InitIInv, NextIInv, PTL DEF Spec
-----------------------------------------------------------------------------
(* What the only daemon has put in place, and withdraws before it is gone  *)
(* unless it is killed.                                                    *)
Placed ==
    \A s \in Starter :
        /\ daemon[s] = "listening" => s \in sockets
        /\ daemon[s] \in {"published", "serving"} => endpoint = s /\ s \in sockets
        /\ daemon[s] \in {"closed", "gone"} /\ faults = 0 /\ cmd[s] # "failed" =>
              endpoint # s

(* Where each client is with its request; one that waits for the lock has  *)
(* been answered, and the daemon it asked does not serve any more.         *)
Asked ==
    \A c \in Client :
        /\ cmd[c] \in {"idle", "probe", "release", "call"} => target[c] = None
        /\ cmd[c] = "send" => target[c] \in Starter
        /\ cmd[c] = "waitLock" => /\ target[c] \in Starter
                                 /\ daemon[target[c]] \in {"stopping", "closed", "gone"}

(* What the answers rest on, and the answers.                              *)
Answers == Placed /\ Asked /\ AnswersHold

AInv == IInv /\ Answers

(* Nothing is placed, asked or answered at first. *)
LEMMA InitAnswers == Init => Answers
BY SingletonAssumption
   DEF Init, Answers, Placed, Asked, AnswersHold, StartIsKnown, BusyIsKnown,
       ShutdownIsComplete, Live

(* A command that is not yet answered answers nothing. *)
LEMMA NextAnswers == AInv /\ [Next]_vars => Answers'
<1> SUFFICES ASSUME AInv, [Next]_vars PROVE Answers'
    OBVIOUS
<1> USE SingletonAssumption DEF AInv, IInv, TypeOK, Holds, Live, CloseLock, Goto,
        Advance, daemonVars, clientVars, Answers, Placed, Asked, AnswersHold,
        StartIsKnown, BusyIsKnown, ShutdownIsComplete
<1>1. ASSUME NEW c \in Starter \cup Client, Begin(c) PROVE Answers'
      BY <1>1 DEF Begin
<1>2. ASSUME NEW s \in Starter, TryLock(s) PROVE Answers'
      BY <1>2 DEF TryLock
<1>3. ASSUME NEW s \in Starter, Busy(s) PROVE Answers'
      BY <1>3 DEF Busy
<1>4. ASSUME NEW s \in Starter, Spawn(s) PROVE Answers'
      BY <1>4 DEF Spawn
<1>5. ASSUME NEW s \in Starter, SpawnFails(s) PROVE Answers'
      BY <1>5 DEF SpawnFails
<1>6. ASSUME NEW s \in Starter, Started(s) PROVE Answers'
      BY <1>6 DEF Started
<1>7. ASSUME NEW s \in Starter, GivesUp(s) PROVE Answers'
      BY <1>7 DEF GivesUp
<1>8. ASSUME NEW s \in Starter, Killed(s) PROVE Answers'
      BY <1>8 DEF Killed
<1>9. ASSUME NEW s \in Starter, Serve(s) PROVE Answers'
  <2>1. CASE CleanupOldEndpoint(s)
        BY <2>1 DEF CleanupOldEndpoint
  <2>2. CASE Listen(s)
        BY <2>2 DEF Listen
  <2>3. CASE Publish(s)
        BY <2>3 DEF Publish
  <2>4. CASE Ready(s)
        BY <2>4 DEF Ready
  <2>5. CASE CannotReport(s)
        BY <2>5 DEF CannotReport
  <2>6. CASE Unpublish(s)
        BY <2>6 DEF Unpublish
  <2>7. CASE Exit(s)
        BY <2>7 DEF Exit
  <2> QED
        BY <1>9, <2>1, <2>2, <2>3, <2>4, <2>5, <2>6, <2>7 DEF Serve
<1>10. ASSUME NEW s \in Starter, Stop(s) PROVE Answers'
       BY <1>10 DEF Stop
<1>11. ASSUME NEW s \in Starter, Dies(s) PROVE Answers'
       BY <1>11 DEF Dies
<1>12. ASSUME NEW c \in Client, Probe(c) PROVE Answers'
       BY <1>12 DEF Probe
<1>13. ASSUME NEW c \in Client, Release(c) PROVE Answers'
       BY <1>13 DEF Release
<1>14. ASSUME NEW c \in Client, ReadEndpoint(c) PROVE Answers'
       BY <1>14 DEF ReadEndpoint
<1>15. ASSUME NEW c \in Client, Send(c) PROVE Answers'
       BY <1>15 DEF Send, Accepting
<1>16. ASSUME NEW c \in Client, SendFails(c) PROVE Answers'
       BY <1>16 DEF SendFails
<1>17. ASSUME NEW c \in Client, WaitLock(c) PROVE Answers'
       BY <1>17 DEF WaitLock
<1>18. ASSUME NEW c \in Client, WaitLockFails(c) PROVE Answers'
       BY <1>18 DEF WaitLockFails
<1>19. ASSUME NEW c \in Client, Unlock(c) PROVE Answers'
       BY <1>19 DEF Unlock
<1>20. ASSUME UNCHANGED vars PROVE Answers'
       BY <1>20 DEF vars
<1>21. ASSUME NEW c \in Starter \cup Client, Command(c) PROVE Answers'
       BY <1>21, <1>2, <1>3, <1>4, <1>5, <1>6, <1>7, <1>12, <1>13, <1>14,
          <1>15, <1>16, <1>17, <1>18, <1>19 DEF Command
<1> QED
    BY <1>1, <1>8, <1>9, <1>10, <1>11, <1>20, <1>21 DEF Next

(* A daemon that serves is the one endpoint.json names, and its socket is  *)
(* there, whatever older daemons left and whoever was killed.              *)
THEOREM ServingIsFound == Spec => []ServingIsPublished
<1>1. AInv => ServingIsPublished
      BY DEF AInv, Answers, Placed, ServingIsPublished
<1> QED
      BY <1>1, InitIInv, NextIInv, InitAnswers, NextAnswers, PTL DEF Spec, AInv

(* The answers of `oo daemon` and of `oo daemon shutdown`: a start that    *)
(* fails leaves no daemon; one that created a daemon and succeeds has seen *)
(* it ready; one that found the lock taken has met a daemon, another start *)
(* or a command that has it for a moment, which need not mean that a daemon*)
(* runs; and a shutdown that succeeds has ended the daemon it asked.       *)
THEOREM AnswersAreTrue == Spec => []AnswersHold
<1>1. AInv => AnswersHold
      BY DEF AInv, Answers
<1> QED
      BY <1>1, InitIInv, NextIInv, InitAnswers, NextAnswers, PTL DEF Spec, AInv
=============================================================================
