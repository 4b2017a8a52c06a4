--------------------------- MODULE DaemonSingleton ---------------------------
(***************************************************************************)
(* At most one daemon per root: the commands `oo daemon`, `oo daemon       *)
(* status` and `oo daemon shutdown` in several shells, the detached daemon *)
(* each start creates, the flock on daemon.lock that a command shares with *)
(* its daemon, and the published endpoint.  What the daemon does to its    *)
(* services is ServiceSupervisor's.                                        *)
(***************************************************************************)
EXTENDS Integers, FiniteSets

CONSTANTS
    Starter,    \* runs of `oo daemon`, which name the daemons they create
    Client,     \* runs of `oo daemon status` and `oo daemon shutdown`
    None,       \* no holder, no endpoint
    MaxFaults   \* bound on processes killed

ASSUME SingletonAssumption ==
    /\ Starter \cap Client = {}
    /\ None \notin Starter \cup Client
    /\ MaxFaults \in Nat

VARIABLES
    cmd,        \* what each command does next, or its result
    wants,      \* what each client was run for
    daemon,     \* how far the daemon of each starter has come
    reported,   \* what it has written to its startup pipe
    lock,       \* who opened the lock that is held; its daemon shares it
    endpoint,   \* the daemon endpoint.json names
    sockets,    \* the daemons whose control socket exists
    target,     \* the daemon a client's request goes to
    faults

daemonVars == <<daemon, reported, endpoint, sockets>>
clientVars == <<wants, target>>
vars == <<cmd, daemonVars, clientVars, lock, faults>>

TypeOK ==
    /\ cmd \in [Starter \cup Client ->
                   {"idle", "lock", "spawn", "wait", "probe", "release",
                    "call", "send", "waitLock", "unlock", "ok", "failed",
                    "killed"}]
    /\ wants \in [Client -> {"status", "shutdown"}]
    /\ daemon \in [Starter -> {"none", "boot", "cleaned", "listening",
                               "published", "serving", "stopping", "closed",
                               "gone"}]
    /\ reported \in [Starter -> {"none", "ok", "error"}]
    /\ lock \in Starter \cup Client \cup {None}
    /\ endpoint \in Starter \cup {None}
    /\ sockets \subseteq Starter
    /\ target \in [Client -> Starter \cup {None}]
    /\ faults \in 0..MaxFaults

Init ==
    /\ cmd = [c \in Starter \cup Client |-> "idle"]
    /\ wants \in [Client -> {"status", "shutdown"}]
    /\ daemon = [s \in Starter |-> "none"]
    /\ reported = [s \in Starter |-> "none"]
    /\ lock = None /\ endpoint = None /\ sockets = {}
    /\ target = [c \in Client |-> None]
    /\ faults = 0

-----------------------------------------------------------------------------
Goto(c, step) == cmd' = [cmd EXCEPT ![c] = step]

Live(s) == daemon[s] \notin {"none", "gone"}

Accepting(s) ==
    daemon[s] \in {"listening", "published", "serving"} /\ s \in sockets

Advance(s, from, to) == daemon[s] = from /\ daemon' = [daemon EXCEPT ![s] = to]

(* The lock goes when the last process that has it open closes it. *)
CloseLock(s) == lock' = IF lock = s THEN None ELSE lock

Begin(c) ==
    /\ cmd[c] = "idle"
    /\ Goto(c, IF c \in Starter THEN "lock" ELSE "probe")
    /\ UNCHANGED <<daemonVars, clientVars, lock, faults>>

-----------------------------------------------------------------------------
(* startDaemon. *)

TryLock(s) ==
    /\ cmd[s] = "lock"
    /\ lock = None
    /\ lock' = s
    /\ Goto(s, "spawn")
    /\ UNCHANGED <<daemonVars, clientVars, faults>>

Busy(s) ==
    /\ cmd[s] = "lock"
    /\ lock # None
    /\ Goto(s, "ok")
    /\ UNCHANGED <<daemonVars, clientVars, lock, faults>>

Spawn(s) ==
    /\ cmd[s] = "spawn"
    /\ Advance(s, "none", "boot")
    /\ Goto(s, "wait")
    /\ UNCHANGED <<reported, endpoint, sockets, clientVars, lock, faults>>

SpawnFails(s) ==
    /\ cmd[s] = "spawn"
    /\ CloseLock(s)
    /\ Goto(s, "failed")
    /\ UNCHANGED <<daemonVars, clientVars, faults>>

(* Mutant: any end of the startup pipe counts as ready. *)
StartedBlindly(s) ==
    /\ cmd[s] = "wait"
    /\ Goto(s, "ok")
    /\ IF Live(s) THEN UNCHANGED lock ELSE CloseLock(s)
    /\ UNCHANGED <<daemonVars, clientVars, faults>>

Started(s) ==
    /\ cmd[s] = "wait"
    /\ reported[s] = "ok"
    /\ Goto(s, "ok")
    /\ IF Live(s) THEN UNCHANGED lock ELSE CloseLock(s)
    /\ UNCHANGED <<daemonVars, clientVars, faults>>

(* Mutant: the lock is unlocked, not closed, and the daemon not killed. *)
GivesUpUnlocking(s) ==
    /\ cmd[s] = "wait"
    /\ CloseLock(s)
    /\ Goto(s, "failed")
    /\ UNCHANGED <<daemonVars, clientVars, faults>>

(* An error or the end of the startup pipe, the timer, or an interrupt: the*)
(* daemon is killed and waited for before the lock is closed.              *)
GivesUp(s) ==
    /\ cmd[s] = "wait"
    /\ daemon' = [daemon EXCEPT ![s] = "gone"]
    /\ CloseLock(s)
    /\ Goto(s, "failed")
    /\ UNCHANGED <<reported, endpoint, sockets, clientVars, faults>>

(* The command is killed; its daemon, if it has one, goes on. *)
Killed(s) ==
    /\ cmd[s] \in {"lock", "spawn", "wait"}
    /\ faults < MaxFaults
    /\ faults' = faults + 1
    /\ Goto(s, "killed")
    /\ IF Live(s) THEN UNCHANGED lock ELSE CloseLock(s)
    /\ UNCHANGED <<daemonVars, clientVars>>

-----------------------------------------------------------------------------
(* serve. *)

CleanupOldEndpoint(s) ==
    /\ Advance(s, "boot", "cleaned")
    /\ sockets' = sockets \ {endpoint}
    /\ UNCHANGED <<cmd, reported, endpoint, clientVars, lock, faults>>

Listen(s) ==
    /\ Advance(s, "cleaned", "listening")
    /\ sockets' = sockets \cup {s}
    /\ UNCHANGED <<cmd, reported, endpoint, clientVars, lock, faults>>

(* Mutant: an endpoint file that exists is not replaced. *)
PublishOnce(s) ==
    /\ Advance(s, "listening", "published")
    /\ endpoint' = IF endpoint = None THEN s ELSE endpoint
    /\ UNCHANGED <<cmd, reported, sockets, clientVars, lock, faults>>

Publish(s) ==
    /\ Advance(s, "listening", "published")
    /\ endpoint' = s
    /\ UNCHANGED <<cmd, reported, sockets, clientVars, lock, faults>>

Ready(s) ==
    /\ cmd[s] = "wait"
    /\ Advance(s, "published", "serving")
    /\ reported' = [reported EXCEPT ![s] = "ok"]
    /\ UNCHANGED <<cmd, endpoint, sockets, clientVars, lock, faults>>

(* Mutant: the error of the report is ignored. *)
CannotReportAndServes(s) ==
    /\ cmd[s] # "wait"
    /\ Advance(s, "published", "serving")
    /\ UNCHANGED <<cmd, reported, endpoint, sockets, clientVars, lock, faults>>

(* The startup pipe has no reader any more. *)
CannotReport(s) ==
    /\ cmd[s] # "wait"
    /\ Advance(s, "published", "stopping")
    /\ UNCHANGED <<cmd, reported, endpoint, sockets, clientVars, lock, faults>>

(* A step of serve fails, a signal arrives, or a shutdown was answered. *)
Stop(s) ==
    /\ daemon[s] \in {"boot", "cleaned", "listening", "published", "serving"}
    /\ daemon' = [daemon EXCEPT ![s] = "stopping"]
    /\ UNCHANGED <<cmd, reported, endpoint, sockets, clientVars, lock, faults>>

(* The services are stopped; then the endpoint, if it is this daemon's, and*)
(* the socket are removed.                                                 *)
Unpublish(s) ==
    /\ Advance(s, "stopping", "closed")
    /\ endpoint' = IF endpoint = s THEN None ELSE endpoint
    /\ sockets' = sockets \ {s}
    /\ UNCHANGED <<cmd, reported, clientVars, lock, faults>>

Exit(s) ==
    /\ Advance(s, "closed", "gone")
    /\ reported' = [reported EXCEPT ![s] = IF @ = "none" THEN "error" ELSE @]
    /\ IF cmd[s] = "wait" THEN UNCHANGED lock ELSE CloseLock(s)
    /\ UNCHANGED <<cmd, endpoint, sockets, clientVars, faults>>

Dies(s) ==
    /\ Live(s)
    /\ faults < MaxFaults
    /\ faults' = faults + 1
    /\ daemon' = [daemon EXCEPT ![s] = "gone"]
    /\ IF cmd[s] = "wait" THEN UNCHANGED lock ELSE CloseLock(s)
    /\ UNCHANGED <<cmd, reported, endpoint, sockets, clientVars>>

-----------------------------------------------------------------------------
(* status and shutdown. *)

(* lockHeld: whether a daemon runs is asked by trying its lock. *)
Probe(c) ==
    /\ cmd[c] = "probe"
    /\ IF lock = None THEN lock' = c /\ Goto(c, "release")
                      ELSE Goto(c, "call") /\ UNCHANGED lock
    /\ UNCHANGED <<daemonVars, clientVars, faults>>

(* The daemon is not running: status says so, shutdown has nothing to do. *)
Release(c) ==
    /\ cmd[c] = "release"
    /\ lock' = None
    /\ Goto(c, IF wants[c] = "status" THEN "failed" ELSE "ok")
    /\ UNCHANGED <<daemonVars, clientVars, faults>>

(* call: the endpoint names the daemon and its socket. *)
ReadEndpoint(c) ==
    /\ cmd[c] = "call"
    /\ target' = [target EXCEPT ![c] = endpoint]
    /\ Goto(c, IF endpoint = None THEN "failed" ELSE "send")
    /\ UNCHANGED <<daemonVars, wants, lock, faults>>

(* A request that arrives is answered; a shutdown then stops the daemon. *)
Send(c) ==
    /\ cmd[c] = "send"
    /\ daemon[target[c]] = "serving"
    /\ Accepting(target[c])
    /\ IF wants[c] = "status"
       THEN Goto(c, "ok") /\ UNCHANGED daemon
       ELSE Goto(c, "waitLock") /\ Advance(target[c], "serving", "stopping")
    /\ UNCHANGED <<reported, endpoint, sockets, clientVars, lock, faults>>

(* Nobody accepts, or the answer takes too long. *)
SendFails(c) ==
    /\ cmd[c] = "send"
    /\ Goto(c, "failed")
    /\ UNCHANGED <<daemonVars, clientVars, lock, faults>>

WaitLock(c) ==
    /\ cmd[c] = "waitLock"
    /\ lock = None
    /\ lock' = c
    /\ Goto(c, "unlock")
    /\ UNCHANGED <<daemonVars, clientVars, faults>>

WaitLockFails(c) ==
    /\ cmd[c] = "waitLock"
    /\ lock # None
    /\ Goto(c, "failed")
    /\ UNCHANGED <<daemonVars, clientVars, lock, faults>>

Unlock(c) ==
    /\ cmd[c] = "unlock"
    /\ lock' = None
    /\ Goto(c, "ok")
    /\ UNCHANGED <<daemonVars, clientVars, faults>>

-----------------------------------------------------------------------------
Command(c) ==
    \/ c \in Starter /\ (\/ TryLock(c) \/ Busy(c) \/ Spawn(c) \/ SpawnFails(c)
                         \/ Started(c) \/ GivesUp(c))
    \/ c \in Client /\ (\/ Probe(c) \/ Release(c) \/ ReadEndpoint(c) \/ Send(c)
                        \/ SendFails(c) \/ WaitLock(c) \/ WaitLockFails(c)
                        \/ Unlock(c))

Serve(s) == \/ CleanupOldEndpoint(s) \/ Listen(s) \/ Publish(s) \/ Ready(s)
            \/ CannotReport(s) \/ Unpublish(s) \/ Exit(s)

Next ==
    \/ \E c \in Starter \cup Client : Begin(c) \/ Command(c)
    \/ \E s \in Starter : Serve(s) \/ Stop(s) \/ Dies(s) \/ Killed(s)

(* Daemons go on; nothing makes anyone run a command or stop a daemon.     *)
Spec ==
    /\ Init /\ [][Next]_vars
    /\ \A s \in Starter : WF_vars(Serve(s))

-----------------------------------------------------------------------------
(* At most one daemon lives: it has the lock from before its birth, through*)
(* its command, until the very end, also when the command kills it.        *)
SingleDaemon == \A s, t \in Starter : Live(s) /\ Live(t) => s = t

(* A daemon that serves can be found: neither a stale endpoint, nor the    *)
(* cleanup of one, nor the end of an earlier daemon hides it.              *)
ServingIsPublished ==
    \A s \in Starter : daemon[s] = "serving" => endpoint = s /\ s \in sockets

(* A start that created a daemon and succeeds has seen it ready; one that  *)
(* fails leaves none.                                                      *)
StartIsKnown ==
    \A s \in Starter :
        /\ cmd[s] = "failed" => ~ Live(s)
        /\ cmd[s] = "ok" /\ daemon[s] # "none" => reported[s] = "ok"

(* A start that finds the lock taken succeeds without asking by whom.  It  *)
(* has met a daemon, a start that still waits for its own, or a command    *)
(* that has the lock for a moment to ask whether a daemon runs or to see   *)
(* one gone: never a lock that nobody will release.                        *)
BusyIsKnown ==
    /\ lock \in Starter => Live(lock) \/ cmd[lock] \in {"spawn", "wait"}
    /\ lock \in Client => cmd[lock] \in {"release", "unlock"}

(* A shutdown that returns success leaves the daemon it asked gone, and its*)
(* endpoint withdrawn unless the daemon was killed.                        *)
ShutdownIsComplete ==
    \A c \in Client : cmd[c] \in {"unlock", "ok"} /\ wants[c] = "shutdown"
                         /\ target[c] # None =>
        /\ daemon[target[c]] = "gone"
        /\ faults = 0 /\ cmd[target[c]] # "failed" => endpoint # target[c]

(* What a start that had the lock, and a shutdown that asked a daemon, tell*)
(* their users is so, whatever commands and daemons do beside them, and a  *)
(* start that did not get the lock has met one of three (daemon.go:59-62,  *)
(* 105-131, cli.go:120-128).                                               *)
AnswersHold == StartIsKnown /\ BusyIsKnown /\ ShutdownIsComplete

(* A daemon that is starting when its command is killed does not stay: it  *)
(* cannot report, so it ends.                                              *)
OrphanedStartEnds ==
    \A s \in Starter :
        (cmd[s] = "killed" /\ Live(s) /\ daemon[s] # "serving")
            ~> (daemon[s] = "gone")

=============================================================================
