----------------------------- MODULE ProjectProxy -----------------------------
(***************************************************************************)
(* The local HTTP proxies that stand between the tools of an export        *)
(* installation and the proxies of the user's environment.  Each listens   *)
(* on 127.0.0.1, forwards plain requests with an http.Transport and        *)
(* CONNECT requests through a tunnel, and is closed when the installation  *)
(* ends or its context is cancelled: close marks the proxy, closes what it *)
(* knows of, and waits for the handlers.                                   *)
(*                                                                         *)
(* A request r has two sockets: Client(r), which it came by, and           *)
(* Upstream(r), dialled for it.  Transport may give a plain request the    *)
(* socket dialled for another one.  SOCKS and HTTP proxies differ in their *)
(* handshakes only, which are one step that succeeds or fails here.        *)
(***************************************************************************)
EXTENDS Integers

CONSTANTS
    Proxy,      \* one per different upstream of the environment
    Connect,    \* a bound: CONNECT requests at one time
    Plain,      \* a bound: clients with plain requests at one time
    None

Request == Connect \cup Plain

ASSUME ProxyAssumption ==
    /\ None \notin Proxy \cup Request
    /\ Connect \cap Plain = {}

VARIABLES
    phase,      \* prepareProjectProxy: "prepare", "serving" or "failed"
    parent,     \* the context of the installation has been cancelled
    cancelled,  \* the context of the proxies has been cancelled
    caller,     \* those who call cleanup, which runs once
    closer,     \* the step of the cleanup
    left,       \* the proxies that are not closed yet
    current,    \* the one that is being closed
    snapshot,   \* the sockets that close has found
    listening,  \* proxies whose listener is open
    closed,     \* projectProxy.closed
    conns,      \* projectProxy.conns of all proxies
    socket,     \* a socket: "closed", or open and what its peer has done
    served,     \* client sockets the http.Servers know of
    at, pc,     \* a request's proxy, and the step of its handler
    dial,       \* the dial for a request, in its handler or in Transport
    idle,       \* requests whose sockets lie idle in Transport
    uses,       \* the request whose socket a plain request uses
    halves,     \* the copying halves of a tunnel
    writing     \* those that have read something and are in Write

prepares  == <<phase, parent, cancelled, caller>>
closes    == <<closer, left, current, snapshot>>
flags     == <<listening, closed>>
sockets   == <<conns, socket, served>>
handlers  == <<at, pc, dial, idle, uses, halves, writing>>
proxyVars == <<prepares, closes, flags, sockets, handlers>>

Client(r)   == <<r, "client">>
Upstream(r) == <<r, "upstream">>
Socket      == Request \X {"client", "upstream"}
Caller      == {"installer", "watcher"}

open == {s \in Socket : socket[s] # "closed"}

Closed(set) == [s \in Socket |-> IF s \in set THEN "closed" ELSE socket[s]]

(* Handlers between handlers.Add and handlers.Done. *)
Counted == {"want", "connect", "hijack", "hijacked", "flush", "tunnel",
            "body", "return"}
Tunnelling == {"hijack", "hijacked", "flush", "tunnel"}
Handlers(p) == {r \in Request : at[r] = p /\ pc[r] \in Counted}

ProxyTypeOK ==
    /\ phase \in {"prepare", "serving", "failed"}
    /\ parent \in BOOLEAN /\ cancelled \in BOOLEAN
    /\ caller \in [Caller -> {"none", "called", "returned"}]
    /\ closer \in {"no", "next", "server", "conns", "wait", "done"}
    /\ left \subseteq Proxy /\ current \in Proxy \cup {None}
    /\ snapshot \subseteq Socket
    /\ listening \subseteq Proxy /\ closed \subseteq Proxy
    /\ conns \subseteq Socket
    /\ socket \in [Socket -> {"closed", "up", "eof", "reset"}]
    /\ served \subseteq Socket
    /\ at \in [Request -> Proxy \cup {None}]
    /\ pc \in [Request -> Counted \cup {"gone", "accepted", "header"}]
    /\ dial \in [Request -> {"none", "dialing", "connected", "handshake"}]
    /\ idle \subseteq Request
    /\ uses \in [Request -> Request \cup {None}]
    /\ halves \in [Request -> SUBSET {"up", "down"}]
    /\ writing \in [Request -> SUBSET {"up", "down"}]

ProxyInit ==
    /\ phase = "prepare" /\ parent = FALSE /\ cancelled = FALSE
    /\ caller = [c \in Caller |-> "none"]
    /\ closer = "no" /\ left = {} /\ current = None /\ snapshot = {}
    /\ listening = {} /\ closed = {}
    /\ conns = {} /\ served = {}
    /\ socket = [s \in Socket |-> "closed"]
    /\ at = [r \in Request |-> None]
    /\ pc = [r \in Request |-> "gone"]
    /\ dial = [r \in Request |-> "none"]
    /\ idle = {}
    /\ uses = [r \in Request |-> None]
    /\ halves = [r \in Request |-> {}]
    /\ writing = [r \in Request |-> {}]

-----------------------------------------------------------------------------
(* prepareProjectProxy and its cleanup. *)

(* newProjectProxy: listen, and serve in a goroutine. *)
Start(p) ==
    /\ phase = "prepare" /\ closer = "no"
    /\ p \notin listening
    /\ listening' = listening \cup {p}
    /\ left' = left \cup {p}
    /\ UNCHANGED <<prepares, closer, current, snapshot, closed,
                   sockets, handlers>>

Prepared ==
    /\ phase = "prepare" /\ closer = "no"
    /\ left = Proxy /\ ~parent
    /\ phase' = "serving"
    /\ UNCHANGED <<parent, cancelled, caller, closes, flags, sockets, handlers>>

(* cleanup: the first to call it cancels the context and closes every      *)
(* proxy; the others wait until it has done so.                            *)
Cleanup(c) ==
    /\ caller[c] = "none"
    /\ caller' = [caller EXCEPT ![c] = "called"]
    /\ cancelled' = TRUE
    /\ closer' = IF closer = "no" THEN "next" ELSE closer
    /\ UNCHANGED <<left, current, snapshot, flags, sockets, handlers>>

(* A listener cannot be opened, a url is invalid, or the context is        *)
(* cancelled: what has been started is cleaned up.                         *)
Fail ==
    /\ phase = "prepare" /\ closer = "no"
    /\ phase' = "failed"
    /\ Cleanup("installer")
    /\ UNCHANGED parent

InstallerEnds ==
    /\ phase = "serving"
    /\ Cleanup("installer")
    /\ UNCHANGED <<phase, parent>>

WatcherSees ==
    /\ phase = "serving" /\ parent
    /\ closer # "done"
    /\ Cleanup("watcher")
    /\ UNCHANGED <<phase, parent>>

Return(c) ==
    /\ caller[c] = "called" /\ closer = "done"
    /\ caller' = [caller EXCEPT ![c] = "returned"]
    /\ UNCHANGED <<phase, parent, cancelled, closes, flags, sockets, handlers>>

(* The installation is interrupted. *)
CancelParent ==
    /\ ~parent
    /\ parent' = TRUE /\ cancelled' = TRUE
    /\ UNCHANGED <<phase, caller, closes, flags, sockets, handlers>>

(* close: set closed and copy conns under the lock, ... *)
MarkClosed(p) ==
    /\ closer = "next" /\ p \in left
    /\ closed' = closed \cup {p}
    /\ snapshot' = {s \in conns : at[s[1]] = p}
    /\ current' = p
    /\ left' = left \ {p}
    /\ closer' = "server"
    /\ UNCHANGED <<prepares, listening, sockets, handlers>>

(* ... close the listener and, with Server.Close, the connections that are *)
(* not hijacked, ...                                                       *)
CloseServer ==
    /\ closer = "server"
    /\ listening' = listening \ {current}
    /\ socket' = Closed({s \in served : at[s[1]] = current})
    /\ closer' = "conns"
    /\ UNCHANGED <<prepares, left, current, snapshot, closed,
                   conns, served, handlers>>

IdleOf(p) == {r \in idle : at[r] = p}

(* Mutant: the handlers are waited for before their sockets are closed. *)
CloseConnsLater ==
    /\ closer = "conns"
    /\ Handlers(current) = {}
    /\ socket' = Closed(snapshot \cup {Upstream(r) : r \in IdleOf(current)})
    /\ conns' = conns \ {Upstream(r) : r \in IdleOf(current)}
    /\ idle' = idle \ IdleOf(current)
    /\ closer' = "wait"
    /\ UNCHANGED <<prepares, left, current, snapshot, flags, served,
                   at, pc, dial, uses, halves, writing>>

(* ... what was copied is closed, and Transport's idle connections, which  *)
(* untrack themselves, ...                                                 *)
CloseConns ==
    /\ closer = "conns"
    /\ socket' = Closed(snapshot \cup {Upstream(r) : r \in IdleOf(current)})
    /\ conns' = conns \ {Upstream(r) : r \in IdleOf(current)}
    /\ idle' = idle \ IdleOf(current)
    /\ closer' = "wait"
    /\ UNCHANGED <<prepares, left, current, snapshot, flags, served,
                   at, pc, dial, uses, halves, writing>>

(* ... and the handlers are waited for, before idle connections are closed *)
(* once more.                                                              *)
Wait ==
    /\ closer = "wait"
    /\ Handlers(current) = {}
    /\ socket' = Closed({Upstream(r) : r \in IdleOf(current)})
    /\ conns' = conns \ {Upstream(r) : r \in IdleOf(current)}
    /\ idle' = idle \ IdleOf(current)
    /\ snapshot' = {} /\ current' = None
    /\ closer' = "next"
    /\ UNCHANGED <<prepares, left, flags, served,
                   at, pc, dial, uses, halves, writing>>

CleanedUp ==
    /\ closer = "next" /\ left = {}
    /\ closer' = "done"
    /\ UNCHANGED <<prepares, left, current, snapshot, flags, sockets, handlers>>

-----------------------------------------------------------------------------
(* net/http's server, around ServeHTTP. *)

(* Transport has no socket that was dialled for r. *)
Unused(r) == dial[r] = "none" /\ r \notin idle /\ \A q \in Request : uses[q] # r

(* A tool connects.  The server accepts before it knows the connection.    *)
(* Names in the copy that close has made still mean older sockets.         *)
Accept(r, p) ==
    /\ pc[r] = "gone" /\ Unused(r)
    /\ {Client(r), Upstream(r)} \cap snapshot = {}
    /\ p \in listening
    /\ at' = [at EXCEPT ![r] = p]
    /\ pc' = [pc EXCEPT ![r] = "accepted"]
    /\ socket' = [socket EXCEPT ![Client(r)] = "up"]
    /\ UNCHANGED <<prepares, closes, flags, conns, served,
                   dial, idle, uses, halves, writing>>

Register(r) ==
    /\ pc[r] = "accepted"
    /\ pc' = [pc EXCEPT ![r] = "header"]
    /\ served' = served \cup {Client(r)}
    /\ UNCHANGED <<prepares, closes, flags, conns, socket,
                   at, dial, idle, uses, halves, writing>>

(* The client is gone, a timeout has passed or the server is closed. *)
HeaderEnds(r) ==
    /\ pc[r] = "header"
    /\ pc' = [pc EXCEPT ![r] = "gone"]
    /\ socket' = Closed({Client(r)})
    /\ served' = served \ {Client(r)}
    /\ UNCHANGED <<prepares, closes, flags, conns,
                   at, dial, idle, uses, halves, writing>>

Admits(r) == at[r] \notin closed

(* ServeHTTP: a closed proxy answers 503, an open one counts the handler.  *)
(* Requests that are neither CONNECT nor absolute are answered at once.    *)
ServeHTTP(r) ==
    /\ pc[r] = "header" /\ Client(r) \in open
    /\ Admits(r)
    /\ \/ /\ r \in Connect
          /\ pc' = [pc EXCEPT ![r] = "connect"]
          /\ dial' = [dial EXCEPT ![r] = "dialing"]
       \/ /\ r \in Plain
          /\ pc' = [pc EXCEPT ![r] = "want"]
          /\ dial' = IF Unused(r) THEN [dial EXCEPT ![r] = "dialing"] ELSE dial
       \/ /\ pc' = [pc EXCEPT ![r] = "return"]
          /\ dial' = dial
    /\ UNCHANGED <<prepares, closes, flags, sockets, at, idle, uses, halves, writing>>

(* handlers.Done; the connection stays with the server unless hijacked. *)
HandlerDone(r) ==
    /\ pc[r] = "return"
    /\ pc' = [pc EXCEPT ![r] = IF Client(r) \in served THEN "header" ELSE "gone"]
    /\ UNCHANGED <<prepares, closes, flags, sockets,
                   at, dial, idle, uses, halves, writing>>

ClientLost(r) == socket[Client(r)] # "up"

-----------------------------------------------------------------------------
(* Dialling: dialHTTP for both kinds of request, dialSOCKS for CONNECT. *)

Connected(r) ==
    /\ dial[r] = "dialing" /\ ~cancelled
    /\ dial' = [dial EXCEPT ![r] = "connected"]
    /\ socket' = [socket EXCEPT ![Upstream(r)] = "up"]
    /\ UNCHANGED <<prepares, closes, flags, conns, served,
                   at, pc, idle, uses, halves, writing>>

(* The handler that waits for a dial answers 502. *)
DialEnds(r) ==
    /\ dial' = [dial EXCEPT ![r] = "none"]
    /\ pc' = IF pc[r] \in {"want", "connect"}
             THEN [pc EXCEPT ![r] = "return"] ELSE pc
    /\ UNCHANGED <<prepares, closes, flags, served, at, idle, uses, halves, writing>>

(* The peer refuses, ten seconds have passed or the context is cancelled. *)
DialFails(r) ==
    /\ dial[r] = "dialing"
    /\ DialEnds(r)
    /\ UNCHANGED <<conns, socket>>

Tracks(s) == at[s[1]] \notin closed

Track(r) ==
    /\ dial[r] = "connected"
    /\ Tracks(Upstream(r))
    /\ conns' = conns \cup {Upstream(r)}
    /\ dial' = [dial EXCEPT ![r] = "handshake"]
    /\ UNCHANGED <<prepares, closes, flags, socket, served,
                   at, pc, idle, uses, halves, writing>>

TrackRefuses(r) ==
    /\ dial[r] = "connected"
    /\ ~Tracks(Upstream(r))
    /\ socket' = Closed({Upstream(r)})
    /\ conns' = conns
    /\ DialEnds(r)

(* Mutant: the socket of a failed handshake is left open. *)
HandshakeLeaks(r) ==
    /\ dial[r] = "handshake"
    /\ UNCHANGED <<socket, conns>>
    /\ DialEnds(r)

(* The upstream rejects, hangs up or lets the deadline pass, or the socket *)
(* has been closed: it is untracked.                                       *)
HandshakeFails(r) ==
    /\ dial[r] = "handshake"
    /\ socket' = Closed({Upstream(r)})
    /\ conns' = conns \ {Upstream(r)}
    /\ DialEnds(r)

(* Transport's connections become idle, for whichever request wants one; a *)
(* CONNECT looks at its context once more.                                 *)
Handshaken(r) ==
    /\ dial[r] = "handshake" /\ Upstream(r) \in open
    /\ dial' = [dial EXCEPT ![r] = "none"]
    /\ \/ /\ pc[r] = "connect" /\ ~cancelled
          /\ pc' = [pc EXCEPT ![r] = "hijack"]
          /\ idle' = idle
       \/ /\ r \in Plain
          /\ idle' = idle \cup {r}
          /\ pc' = pc
    /\ UNCHANGED <<prepares, closes, flags, sockets, at, uses, halves, writing>>

-----------------------------------------------------------------------------
(* A plain request. *)

RoundTrip(r, q) ==
    /\ pc[r] = "want"
    /\ q \in IdleOf(at[r]) /\ Upstream(q) \in open
    /\ idle' = idle \ {q}
    /\ uses' = [uses EXCEPT ![r] = q]
    /\ pc' = [pc EXCEPT ![r] = "body"]
    /\ UNCHANGED <<prepares, closes, flags, sockets, at, dial, halves, writing>>

(* The request's context is cancelled; the dial goes on without it.        *)
GivesUp(r) ==
    /\ pc[r] = "want"
    /\ cancelled \/ ClientLost(r)
    /\ pc' = [pc EXCEPT ![r] = "return"]
    /\ UNCHANGED <<prepares, closes, flags, sockets,
                   at, dial, idle, uses, halves, writing>>

BodyEnds(r) ==
    /\ pc[r] = "body" /\ Upstream(uses[r]) \in open
    /\ idle' = idle \cup {uses[r]}
    /\ uses' = [uses EXCEPT ![r] = None]
    /\ pc' = [pc EXCEPT ![r] = "return"]
    /\ UNCHANGED <<prepares, closes, flags, sockets, at, dial, halves, writing>>

(* A side is gone or the context is cancelled: Transport closes the socket,*)
(* which untracks it.                                                      *)
BodyBreaks(r) ==
    /\ pc[r] = "body"
    /\ \/ cancelled
       \/ ClientLost(r)
       \/ socket[Upstream(uses[r])] # "up"
    /\ socket' = Closed({Upstream(uses[r])})
    /\ conns' = conns \ {Upstream(uses[r])}
    /\ uses' = [uses EXCEPT ![r] = None]
    /\ pc' = [pc EXCEPT ![r] = "return"]
    /\ UNCHANGED <<prepares, closes, flags, served,
                   at, dial, idle, halves, writing>>

(* An idle connection times out, or its socket is found closed. *)
IdleDrops(q) ==
    /\ q \in idle
    /\ idle' = idle \ {q}
    /\ socket' = Closed({Upstream(q)})
    /\ conns' = conns \ {Upstream(q)}
    /\ UNCHANGED <<prepares, closes, flags, served,
                   at, pc, dial, uses, halves, writing>>

-----------------------------------------------------------------------------
(* A tunnel. *)

Hijack(r) ==
    /\ pc[r] = "hijack"
    /\ pc' = [pc EXCEPT ![r] = "hijacked"]
    /\ served' = served \ {Client(r)}
    /\ UNCHANGED <<prepares, closes, flags, conns, socket,
                   at, dial, idle, uses, halves, writing>>

(* The deferred calls of connect: both sockets are closed and untracked. *)
TearDown(r) ==
    /\ socket' = Closed({Client(r), Upstream(r)})
    /\ conns' = conns \ {Client(r), Upstream(r)}
    /\ pc' = [pc EXCEPT ![r] = "return"]

TrackClient(r) ==
    /\ pc[r] = "hijacked"
    /\ IF Tracks(Client(r))
       THEN /\ conns' = conns \cup {Client(r)}
            /\ pc' = [pc EXCEPT ![r] = "flush"]
            /\ socket' = socket
       ELSE TearDown(r)
    /\ UNCHANGED <<prepares, closes, flags, served,
                   at, dial, idle, uses, halves, writing>>

Readable(s) == socket[s] \in {"up", "eof"}

(* The halves start with what has been read behind the headers, if any.    *)
Flush(r) ==
    /\ pc[r] = "flush"
    /\ \/ /\ Readable(Client(r))
          /\ pc' = [pc EXCEPT ![r] = "tunnel"]
          /\ halves' = [halves EXCEPT ![r] = {"up", "down"}]
          /\ \E some \in SUBSET {"up", "down"} :
                 writing' = [writing EXCEPT ![r] = some]
          /\ UNCHANGED <<socket, conns>>
       \/ /\ ClientLost(r)
          /\ TearDown(r)
          /\ UNCHANGED <<halves, writing>>
    /\ UNCHANGED <<prepares, closes, flags, served, at, dial, idle, uses>>

Source(r, half)      == IF half = "up" THEN Client(r) ELSE Upstream(r)
Destination(r, half) == IF half = "up" THEN Upstream(r) ELSE Client(r)

(* Mutant: a half that fails leaves the sockets to the other one. *)
BreakLeaves(r) == socket

(* A half that fails closes both sockets, so that the other one ends. *)
Break(r) == Closed({Client(r), Upstream(r)})

(* io.Copy has read something and writes it.  The tunnel has no deadline:  *)
(* Write returns when the peer has taken it, which need not happen, or when*)
(* the destination is closed or reset; what becomes of the source meanwhile*)
(* is not seen.                                                            *)
StartsToWrite(r, half) ==
    /\ half \in halves[r] \ writing[r]
    /\ Readable(Source(r, half))
    /\ writing' = [writing EXCEPT ![r] = @ \cup {half}]
    /\ UNCHANGED <<prepares, closes, flags, sockets,
                   at, pc, dial, idle, uses, halves>>

Written(r, half) ==
    /\ half \in writing[r]
    /\ Readable(Destination(r, half))
    /\ writing' = [writing EXCEPT ![r] = @ \ {half}]
    /\ UNCHANGED <<prepares, closes, flags, sockets,
                   at, pc, dial, idle, uses, halves>>

(* The source has no more: the other side is told, or that fails. *)
HalfEnds(r, half) ==
    /\ half \in halves[r] \ writing[r]
    /\ socket[Source(r, half)] = "eof"
    /\ halves' = [halves EXCEPT ![r] = @ \ {half}]
    /\ socket' = IF Readable(Destination(r, half)) THEN socket ELSE Break(r)
    /\ UNCHANGED <<prepares, closes, flags, conns, served,
                   at, pc, dial, idle, uses, writing>>

(* The source cannot be read. *)
ReadFails(r, half) ==
    /\ half \in halves[r] \ writing[r]
    /\ ~Readable(Source(r, half))
    /\ halves' = [halves EXCEPT ![r] = @ \ {half}]
    /\ socket' = Break(r)
    /\ UNCHANGED <<prepares, closes, flags, conns, served,
                   at, pc, dial, idle, uses, writing>>

(* The destination is closed or broken. *)
WriteFails(r, half) ==
    /\ half \in halves[r] \cap writing[r]
    /\ ~Readable(Destination(r, half))
    /\ halves' = [halves EXCEPT ![r] = @ \ {half}]
    /\ writing' = [writing EXCEPT ![r] = @ \ {half}]
    /\ socket' = Break(r)
    /\ UNCHANGED <<prepares, closes, flags, conns, served,
                   at, pc, dial, idle, uses>>

TunnelEnds(r) ==
    /\ pc[r] = "tunnel" /\ halves[r] = {}
    /\ TearDown(r)
    /\ UNCHANGED <<prepares, closes, flags, served,
                   at, dial, idle, uses, halves, writing>>

(* The other side of a socket ends its stream, or resets it.  Where either *)
(* has one effect, or where what happens next may fail anyhow, it is left  *)
(* out.                                                                    *)
PeerActs(r) ==
    /\ \/ \E s \in {Client(r), Upstream(r)} :
             /\ pc[r] \in Tunnelling
             /\ Readable(s)
             /\ \E end \in {"eof", "reset"} \ {socket[s]} :
                    socket' = [socket EXCEPT ![s] = end]
       \/ \E s \in {Client(r)} \cup {Upstream(q) : q \in {uses[r]} \ {None}} :
             /\ pc[r] \in {"want", "body"}
             /\ socket[s] = "up"
             /\ socket' = [socket EXCEPT ![s] = "reset"]
    /\ UNCHANGED <<prepares, closes, flags, conns, served, handlers>>

-----------------------------------------------------------------------------
Closing == \/ \E p \in Proxy : MarkClosed(p)
           \/ CloseServer \/ CloseConns \/ Wait \/ CleanedUp
           \/ \E c \in Caller : Return(c)

Preparing == (\E p \in Proxy : Start(p)) \/ Prepared \/ Fail

Serving(r) == Register(r) \/ HeaderEnds(r) \/ HandlerDone(r)

Dialling(r) == \/ Connected(r) \/ DialFails(r)
               \/ Track(r) \/ TrackRefuses(r)
               \/ Handshaken(r) \/ HandshakeFails(r)

Interrupted(r) == GivesUp(r) \/ BodyBreaks(r)

Tunnel(r) == \/ Hijack(r) \/ TrackClient(r) \/ Flush(r) \/ TunnelEnds(r)
             \/ \E half \in {"up", "down"} :
                   HalfEnds(r, half) \/ ReadFails(r, half) \/ WriteFails(r, half)

Handling(r) == Serving(r) \/ Interrupted(r) \/ Tunnel(r)

ProxyNext ==
    \/ Preparing \/ InstallerEnds \/ WatcherSees \/ CancelParent \/ Closing
    \/ \E r \in Request :
          \/ \E p \in Proxy : Accept(r, p)
          \/ ServeHTTP(r) \/ Handling(r) \/ Dialling(r)
          \/ \E q \in Request : RoundTrip(r, q)
          \/ BodyEnds(r) \/ IdleDrops(r)
          \/ \E half \in {"up", "down"} : StartsToWrite(r, half) \/ Written(r, half)
          \/ PeerActs(r)

(* The steps of the process itself happen: a dial and a handshake have     *)
(* their deadlines, a read of a closed or broken socket returns, and so    *)
(* does a write to one.  What the tools, the upstreams and the user do need*)
(* not happen: they need not even read what is written to them.            *)
Fairness ==
    /\ WF_proxyVars(Closing \/ WatcherSees)
    /\ \A r \in Request : WF_proxyVars(Handling(r)) /\ WF_proxyVars(Dialling(r))

ProxySpec == ProxyInit /\ [][ProxyNext]_proxyVars /\ Fairness

-----------------------------------------------------------------------------
(* When cleanup has returned to anybody, no handler runs and no socket is  *)
(* open, except a client's that the server has not shown to ServeHTTP and  *)
(* a dial's that track is going to refuse.                                 *)
Quiet ==
    (\E c \in Caller : caller[c] = "returned") =>
        /\ \A p \in Proxy : Handlers(p) = {}
        /\ \A s \in open :
              \/ s[2] = "client" /\ pc[s[1]] \in {"accepted", "header"}
              \/ s[2] = "upstream" /\ dial[s[1]] = "connected"

(* Somebody is going to close every open socket: the server or its own     *)
(* handler a client's, a dial, an exchange, a tunnel or Transport's idle   *)
(* list an upstream's; and once it has been tracked, close knows of it.    *)
Owned ==
    \A r \in Request :
        /\ Client(r) \in open =>
              \/ pc[r] = "accepted" \/ Client(r) \in served
              \/ pc[r] = "hijacked"
              \/ pc[r] \in {"flush", "tunnel"} /\ Client(r) \in conns
        /\ Upstream(r) \in open =>
              \/ dial[r] = "connected"
              \/ /\ Upstream(r) \in conns
                 /\ \/ dial[r] = "handshake" \/ pc[r] \in Tunnelling
                    \/ r \in idle \/ \E q \in Request : uses[q] = r

(* No socket and no handler outlives the installation unnoticed: each has  *)
(* an owner while it is there, and a cleanup that returns has ended them,  *)
(* though track, close and Hijack race (project_proxy.go:169-205, 311-357).*)
NoLeak == Owned /\ Quiet

(* A cleanup that has begun ends, whatever the tools and the upstreams do, *)
(* and a cancelled installation leads to one.                              *)
CleanupEnds == (closer # "no" \/ (phase = "serving" /\ parent)) ~> closer = "done"

WaitsFor(r, half) ==
    IF half \in writing[r] THEN Destination(r, half) ELSE Source(r, half)

(* A tunnel ends when the socket breaks that one of its halves reads from  *)
(* or writes to at the moment, though the other half may be waiting for a  *)
(* peer that never sends or never reads (project_proxy.go:335-348).  A half*)
(* that writes to a peer which does not read sees nothing of its source:   *)
(* that tunnel may last until the peer reads, goes or the cleanup comes.   *)
BrokenTunnelEnds ==
    \A r \in Request :
        (\E half \in halves[r] : socket[WaitsFor(r, half)] = "reset")
            ~> pc[r] # "tunnel"
=============================================================================
