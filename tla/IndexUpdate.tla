----------------------------- MODULE IndexUpdate -----------------------------
(***************************************************************************)
(* The package index: index/index.json and the record of its last check,   *)
(* index/http.json, refreshed by "oo update" and by the background         *)
(* updaters other commands leave behind.  One lock admits one refresh; it  *)
(* belongs to an open file that a command and the updater it spawns share, *)
(* so that it is held until both have closed it.                           *)
(*                                                                         *)
(* An index is what published it and when (generated_at); its SHA-256 is   *)
(* the index itself.  A validator (ETag, or Last-Modified where there is   *)
(* none) is the version it names at its server: two servers may use the    *)
(* same validator for different indexes.  A mirror may answer with any     *)
(* version it ever had.                                                    *)
(***************************************************************************)
EXTENDS Integers

CONSTANTS
    Process,    \* commands, each with the updater it may spawn
    URL,        \* OHECO_INDEX_URL, which each command has of its own
    NoUrl,      \* an empty url or source in http.json
    User,       \* the author of an index somebody has edited
    Unusable,   \* an index that is missing or does not decode
    MaxAt,      \* versions a server publishes
    MaxFaults   \* kills and failed writes

ASSUME IndexAssumption ==
    /\ NoUrl \notin URL
    /\ User \notin URL
    /\ MaxAt \in Nat \ {0}
    /\ MaxFaults \in Nat
    /\ Unusable \notin [from : URL \cup {User}, at : 1..MaxAt]

VARIABLES
    index,      \* index.json
    http,       \* http.json
    lock,       \* who has the locked file open
    command,    \* the commands that spawn updaters
    job,        \* the refreshes: step and local variables
    published,  \* the last version of each server
    asked,      \* history: the last request that the back-off should cover
    faults

files == <<index, http>>
vars  == <<index, http, lock, command, job, published, asked, faults>>

Doc   == [from : URL \cup {User}, at : 1..MaxAt]
Saved == Doc \cup {Unusable}
Tag   == 0..MaxAt                       \* 0: no validator
Named(url, tag) == [from |-> url, at |-> tag]

indexCache == [url : URL \cup {NoUrl}, sha : Saved, source : URL \cup {NoUrl},
               tag : Tag, recent : BOOLEAN]

NoCache == [url |-> NoUrl, sha |-> Unusable, source |-> NoUrl,
            tag |-> 0, recent |-> FALSE]

Owner == Process \X {"command", "updater"}

Step == {"idle", "wait", "read", "attempt", "request", "save", "record"}

Refresh == [pc : Step, automatic : BOOLEAN, url : URL \cup {NoUrl},
            local : Saved, previous : URL \cup {NoUrl}, cache : indexCache,
            got : Saved, tag : Tag]

Resting == [pc |-> "idle", automatic |-> FALSE, url |-> NoUrl,
            local |-> Unusable, previous |-> NoUrl, cache |-> NoCache,
            got |-> Unusable, tag |-> 0]

NotAsked == [url |-> NoUrl, index |-> Unusable]

TypeOK ==
    /\ index \in Saved
    /\ http \in indexCache
    /\ lock \subseteq Owner
    /\ command \in [Process -> [pc : {"idle", "holding", "spawned"},
                                url : URL \cup {NoUrl}]]
    /\ job \in [Process -> Refresh]
    /\ published \in [URL -> 0..MaxAt]
    /\ asked \in [url : URL \cup {NoUrl}, index : Saved]
    /\ faults \in 0..MaxFaults

Init ==
    /\ index = Unusable
    /\ http = NoCache
    /\ lock = {}
    /\ command = [p \in Process |-> [pc |-> "idle", url |-> NoUrl]]
    /\ job = [p \in Process |-> Resting]
    /\ published \in [URL -> 0..1]
    /\ asked = NotAsked
    /\ faults = 0

-----------------------------------------------------------------------------
(* Taking the lock. *)

(* startBackgroundUpdate: a busy lock means no updater this time. *)
TryUpdateLock(p) ==
    /\ command[p].pc = "idle"
    /\ job[p].pc = "idle"
    /\ lock = {}
    /\ lock' = {<<p, "command">>}
    /\ \E url \in URL :
           command' = [command EXCEPT ![p] = [pc |-> "holding", url |-> url]]
    /\ UNCHANGED <<files, job, published, asked, faults>>

Spawn(p) ==
    /\ command[p].pc = "holding"
    /\ lock' = lock \cup {<<p, "updater">>}
    /\ command' = [command EXCEPT ![p].pc = "spawned"]
    /\ job' = [job EXCEPT ![p] = [Resting EXCEPT !.pc = "read",
                                                 !.automatic = TRUE,
                                                 !.url = command[p].url]]
    /\ UNCHANGED <<files, published, asked, faults>>

(* Mutant: the command unlocks the file instead of closing its copy. *)
ClosedUnlocks(p) == {}

(* The command closes its copy, whether it has spawned an updater or has   *)
(* failed to, or has been killed; the updater's copy keeps the lock.       *)
Closed(p) == lock \ {<<p, "command">>}

CloseCopy(p) ==
    /\ command[p].pc # "idle"
    /\ lock' = Closed(p)
    /\ command' = [command EXCEPT ![p] = [pc |-> "idle", url |-> NoUrl]]
    /\ UNCHANGED <<files, job, published, asked, faults>>

(* oo update waits for the lock, unless it is interrupted. *)
Update(p) ==
    /\ job[p].pc = "idle"
    /\ command[p].pc = "idle"
    /\ \E url \in URL :
           job' = [job EXCEPT ![p] = [Resting EXCEPT !.pc = "wait",
                                                     !.url = url]]
    /\ UNCHANGED <<files, lock, command, published, asked, faults>>

WaitLock(p) ==
    /\ job[p].pc = "wait"
    /\ lock = {}
    /\ lock' = {<<p, "updater">>}
    /\ job' = [job EXCEPT ![p] = [@ EXCEPT !.pc = "read"]]
    /\ UNCHANGED <<files, command, published, asked, faults>>

WaitInterrupted(p) ==
    /\ job[p].pc = "wait"
    /\ job' = [job EXCEPT ![p] = Resting]
    /\ UNCHANGED <<files, lock, command, published, asked, faults>>

-----------------------------------------------------------------------------
(* refreshIndex *)

Finish(p) ==
    /\ job' = [job EXCEPT ![p] = Resting]
    /\ lock' = lock \ {<<p, "updater">>}

(* Mutant: the recorded source is believed whatever index.json holds. *)
PreviousSourceTrusted == http.source

(* Who published the index, as far as http.json can still tell. *)
PreviousSource == IF http.sha # index THEN NoUrl ELSE http.source

(* Mutant: validators outlive the bytes they were received with. *)
UsableAnyBytes(url) ==
    IF http.url # url
    THEN [NoCache EXCEPT !.url = url, !.sha = index, !.source = PreviousSource]
    ELSE [http EXCEPT !.sha = index]

(* The record a refresh from url starts with: validators belong to one     *)
(* source and the exact bytes saved, and go when either is another.        *)
Usable(url) ==
    IF http.url # url \/ http.sha # index
    THEN [NoCache EXCEPT !.url = url, !.sha = index,
                         !.source = PreviousSource]
    ELSE http

Read(p) ==
    LET cache == Usable(job[p].url)
    IN  /\ job[p].pc = "read"
        /\ ~(job[p].automatic /\ cache.recent)
        /\ job' = [job EXCEPT ![p] =
                       [@ EXCEPT !.pc = "attempt",
                                 !.local = index,
                                 !.previous = PreviousSource,
                                 !.cache = [cache EXCEPT !.recent = TRUE]]]
        /\ UNCHANGED <<files, lock, command, published, asked, faults>>

BacksOff(p) ==
    /\ job[p].pc = "read"
    /\ job[p].automatic
    /\ Usable(job[p].url).recent
    /\ Finish(p)
    /\ UNCHANGED <<files, command, published, asked, faults>>

(* http.json is written before the request, so that an attempt counts      *)
(* whatever becomes of it.  asked notes what its record covers.            *)
Covered(p, saved) ==
    IF job[p].cache.recent THEN [url |-> job[p].url, index |-> saved]
                           ELSE NotAsked

Attempt(p) ==
    /\ job[p].pc = "attempt"
    /\ http' = job[p].cache
    /\ asked' = Covered(p, job[p].local)
    /\ job' = [job EXCEPT ![p] = [@ EXCEPT !.pc = "request"]]
    /\ UNCHANGED <<index, lock, command, published, faults>>

Conditional(p) == job[p].local # Unusable /\ job[p].cache.tag # 0

(* No answer, a status that is an error, an index that does not validate,  *)
(* a 304 nobody asked for, or the timeout: only the failure is recorded.   *)
RequestFails(p) ==
    /\ job[p].pc = "request"
    /\ job' = [job EXCEPT ![p] = [@ EXCEPT !.pc = "record"]]
    /\ UNCHANGED <<files, lock, command, published, asked, faults>>

(* A server that compares dates also answers 304 when what it has is older.*)
(* The validators of the answer, if it has any, take the place of those    *)
(* sent: they name the server's version, and the bytes stay.               *)
NotModified(p) ==
    /\ job[p].pc = "request"
    /\ Conditional(p)
    /\ \E at \in 1..published[job[p].url] :
          /\ at <= job[p].cache.tag
          /\ \E tag \in {job[p].cache.tag, at} :
                 job' = [job EXCEPT ![p] =
                            [@ EXCEPT !.pc = "record",
                                      !.cache = [job[p].cache EXCEPT
                                                    !.source = job[p].url,
                                                    !.tag = tag]]]
    /\ UNCHANGED <<files, lock, command, published, asked, faults>>

(* An automatic update keeps an index that is newer than the answer,       *)
(* unless that index is known to be another source's.                      *)
Keeps(p, doc) ==
    /\ job[p].automatic
    /\ job[p].local # Unusable
    /\ job[p].previous \in {NoUrl, job[p].url}
    /\ doc.at < job[p].local.at

Answered(p) ==
    /\ job[p].pc = "request"
    /\ \E at \in 1..published[job[p].url] :
          LET doc == Named(job[p].url, at)
          IN  /\ ~(Conditional(p) /\ job[p].cache.tag = at)
              /\ \/ /\ Keeps(p, doc)
                    /\ job' = [job EXCEPT ![p] =
                                   [@ EXCEPT !.pc = "record",
                                             !.cache = [job[p].cache EXCEPT !.tag = 0]]]
                 \/ /\ ~Keeps(p, doc)
                    /\ \E tag \in {0, at} :
                           job' = [job EXCEPT ![p] =
                                      [@ EXCEPT !.pc = "save", !.got = doc,
                                                !.tag = tag]]
    /\ UNCHANGED <<files, lock, command, published, asked, faults>>

(* index.json is written first, and only if its bytes change. *)
Save(p) ==
    /\ job[p].pc = "save"
    /\ index' = IF job[p].got # job[p].local THEN job[p].got ELSE index
    /\ job' = [job EXCEPT ![p] =
                   [@ EXCEPT !.pc = "record",
                             !.cache = [job[p].cache EXCEPT
                                           !.sha = job[p].got,
                                           !.source = job[p].url,
                                           !.tag = job[p].tag]]]
    /\ UNCHANGED <<http, lock, command, published, asked, faults>>

Record(p) ==
    /\ job[p].pc = "record"
    /\ http' = job[p].cache
    /\ asked' = Covered(p, job[p].cache.sha)
    /\ Finish(p)
    /\ UNCHANGED <<index, command, published, faults>>

(* A write that fails ends the refresh; what was to be written of the      *)
(* index is then recorded as a failed check.                               *)
WriteFails(p) ==
    /\ faults < MaxFaults
    /\ faults' = faults + 1
    /\ \/ job[p].pc \in {"attempt", "record"} /\ Finish(p)
       \/ /\ job[p].pc = "save"
          /\ job' = [job EXCEPT ![p] = [@ EXCEPT !.pc = "record"]]
          /\ UNCHANGED lock
    /\ UNCHANGED <<files, command, published, asked>>

-----------------------------------------------------------------------------
(* Around them: kills, time, servers, and the user. *)

Dies(p) ==
    /\ faults < MaxFaults
    /\ faults' = faults + 1
    /\ job[p].pc # "idle"
    /\ Finish(p)
    /\ UNCHANGED <<files, command, published, asked>>

(* More than backgroundCheckInterval after every attempt so far. *)
IntervalPasses ==
    /\ http' = [http EXCEPT !.recent = FALSE]
    /\ job' = [p \in Process |->
                 [job[p] EXCEPT !.cache = [job[p].cache EXCEPT !.recent = FALSE]]]
    /\ asked' = NotAsked
    /\ UNCHANGED <<index, lock, command, published, faults>>

Publish(url) ==
    /\ published[url] < MaxAt
    /\ published' = [published EXCEPT ![url] = @ + 1]
    /\ UNCHANGED <<files, lock, command, job, asked, faults>>

(* index.json is deleted, damaged or edited. *)
Edit ==
    /\ index' \in {Unusable} \cup {Named(User, at) : at \in 1..MaxAt}
    /\ UNCHANGED <<http, lock, command, job, published, asked, faults>>

DeleteCache ==
    /\ http' = NoCache
    /\ asked' = NotAsked
    /\ UNCHANGED <<index, lock, command, job, published, faults>>

refreshIndex(p) ==
    \/ Read(p) \/ BacksOff(p) \/ Attempt(p) \/ RequestFails(p)
    \/ NotModified(p) \/ Answered(p) \/ Save(p) \/ Record(p)

Next ==
    \/ \E p \in Process :
          \/ TryUpdateLock(p) \/ Spawn(p) \/ CloseCopy(p)
          \/ Update(p) \/ WaitLock(p) \/ WaitInterrupted(p)
          \/ refreshIndex(p) \/ WriteFails(p) \/ Dies(p)
    \/ \E url \in URL : Publish(url)
    \/ IntervalPasses \/ Edit \/ DeleteCache

Spec == Init /\ [][Next]_vars

-----------------------------------------------------------------------------
(* One refresh at a time: between reading index.json and the last write of *)
(* http.json nobody else is there, although the lock is passed from a      *)
(* command to its child and the command goes on (background.go:52).        *)
OneRefresh ==
    \A p, q \in Process :
        /\ job[p].pc \notin {"idle", "wait"}
        /\ job[q].pc \notin {"idle", "wait"}
        => p = q

(* A conditional request is about an index of the source it goes to, and   *)
(* its validator names no later version of that source, whatever crashed,  *)
(* failed, was edited, deleted or fetched from another source before: so   *)
(* the answer 304 never hides an index newer than the one that is there    *)
(* (index.go:127-131, 160-169).  The validator may name an earlier version,*)
(* after a 304 of a server that compares dates (index.go:181-187).         *)
Vouched ==
    \A p \in Process :
        job[p].pc = "request" /\ Conditional(p)
            => /\ job[p].local.from = job[p].url
               /\ job[p].local.at >= job[p].cache.tag

(* A background update never replaces an index by an older one of the same *)
(* source, nor an edited one by an older one, unless somebody changed the  *)
(* file while it ran (index.go:205-208).                                   *)
NoRollback ==
    [][\A p \in Process :
          /\ job[p].pc = "save" /\ job'[p].pc = "record"
          /\ job[p].automatic
          /\ index # Unusable
          /\ index = job[p].local
          /\ index.from \in {job[p].url, User}
          => index'.at >= index.at]_vars

(* Background updates back off: one does not ask a source again about an   *)
(* index that it was asked about within the interval, whether that request *)
(* succeeded, failed, or its process was killed (index.go:133, 139-142).   *)
BackOff ==
    \A p \in Process :
        job[p].pc = "attempt" /\ job[p].automatic
            => asked # [url |-> job[p].url, index |-> job[p].local]

(* What a request may ask for: both of them together.                      *)
RequestsFit == Vouched /\ BackOff
=============================================================================
