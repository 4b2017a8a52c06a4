-------------------------- MODULE IndexUpdateProofs --------------------------
(***************************************************************************)
(* For any number of commands, sources, versions and faults: one refresh   *)
(* at a time, validators that name what is saved, a back-off that holds    *)
(* over kills, and no background update that goes back.                    *)
(*                                                                         *)
(* Fits is the heart of it: a record of the last check never says more of  *)
(* an index than its source has said, wherever the record is: in http.json *)
(* or in the memory of a refresh.                                          *)
(***************************************************************************)
EXTENDS IndexUpdate, TLAPS

Working(p) == job[p].pc \notin {"idle", "wait"}

(* Who has the lock: one command, its updater, or both. *)
LockInv ==
    /\ \A x, y \in lock : x[1] = y[1]
    /\ \A p \in Process : Working(p) => <<p, "updater">> \in lock
    /\ \A p \in Process : command[p].pc # "idle" =>
          /\ <<p, "command">> \in lock
          /\ command[p].url \in URL

(* What a record says of the index with its digest is so: who published    *)
(* it, and that its validator names no later version.                      *)
Fits(cache) ==
    cache.sha # Unusable =>
        /\ cache.tag # 0 => /\ cache.sha.from = cache.url
                            /\ cache.sha.at >= cache.tag
        /\ cache.source # NoUrl => cache.sha.from = cache.source

(* What a refresh has in memory.  In "save" it holds what it is allowed to *)
(* replace the index with.                                                 *)
Sound(j) ==
    /\ Fits(j.cache)
    /\ j.pc # "idle" => j.url \in URL
    /\ j.pc \in {"attempt", "request", "save", "record"} => j.cache.url = j.url
    /\ j.pc \in {"attempt", "request", "save"} =>
          /\ j.cache.sha = j.local
          /\ j.local # Unusable /\ j.previous # NoUrl => j.local.from = j.previous
    /\ j.pc = "save" =>
          /\ j.got \in Doc
          /\ j.got = Named(j.url, j.got.at)
          /\ j.tag # 0 => j.tag = j.got.at
          /\ ~ /\ j.automatic
               /\ j.local # Unusable
               /\ j.previous \in {NoUrl, j.url}
               /\ j.got.at < j.local.at

CachesFit == Fits(http) /\ \A p \in Process : Sound(job[p])

(* The last request is the one http.json records. *)
AskedFits ==
    asked # NotAsked =>
        /\ http.url = asked.url
        /\ http.sha = asked.index
        /\ http.recent

IInv == TypeOK /\ LockInv /\ CachesFit /\ AskedFits /\ BackOff

(* Nothing runs, and what is on the disk says nothing yet. *)
LEMMA InitHolds == Init => IInv
<1> SUFFICES ASSUME Init PROVE IInv
    OBVIOUS
<1> USE IndexAssumption DEF Init, NoCache, Resting, NotAsked
<1>1. TypeOK
    BY DEF TypeOK, Saved, Doc, Tag, indexCache, Refresh, Step, Owner
<1>2. LockInv
    BY DEF LockInv, Working
<1>3. CachesFit /\ AskedFits /\ BackOff
    BY DEF CachesFit, Fits, Sound, AskedFits, BackOff
<1> QED
    BY <1>1, <1>2, <1>3 DEF IInv

-----------------------------------------------------------------------------
(* One lemma per part of the invariant.                                    *)

(* What refreshIndex takes from http.json is a record. *)
LEMMA UsableType ==
    ASSUME TypeOK, NEW url \in URL
    PROVE  /\ Usable(url) \in indexCache
           /\ PreviousSource \in URL \cup {NoUrl}
<1>1. PreviousSource \in URL \cup {NoUrl}
    BY DEF TypeOK, PreviousSource, indexCache
<1>2. NoCache \in indexCache /\ index \in Saved /\ http \in indexCache
    BY IndexAssumption DEF NoCache, indexCache, Saved, Tag, TypeOK
<1>3. [NoCache EXCEPT !.url = url, !.sha = index, !.source = PreviousSource] \in indexCache
    BY <1>1, <1>2 DEF indexCache
<1> QED
    BY <1>1, <1>2, <1>3 DEF Usable

(* A refresh that changes some of its variables is still one. *)
LEMMA RefreshType ==
    ASSUME NEW j \in Refresh, NEW pc \in Step, NEW local \in Saved,
           NEW previous \in URL \cup {NoUrl}, NEW cache \in indexCache,
           NEW got \in Saved, NEW tag \in Tag
    PROVE  /\ [j EXCEPT !.pc = pc] \in Refresh
           /\ [j EXCEPT !.cache = cache] \in Refresh
           /\ [j EXCEPT !.pc = pc, !.cache = cache] \in Refresh
           /\ [j EXCEPT !.pc = pc, !.got = got, !.tag = tag] \in Refresh
           /\ [j EXCEPT !.pc = pc, !.local = local, !.previous = previous,
                        !.cache = cache] \in Refresh
BY DEF Refresh

(* Every variable keeps its type. *)
LEMMA TypesKept == IInv /\ [Next]_vars => TypeOK'
<1> SUFFICES ASSUME IInv, [Next]_vars PROVE TypeOK'
    OBVIOUS
<1> USE IndexAssumption
<1>0. /\ index \in Saved /\ http \in indexCache /\ lock \subseteq Owner
      /\ command \in [Process -> [pc : {"idle", "holding", "spawned"},
                                  url : URL \cup {NoUrl}]]
      /\ published \in [URL -> 0..MaxAt]
      /\ asked \in [url : URL \cup {NoUrl}, index : Saved]
      /\ faults \in 0..MaxFaults
    BY DEF IInv, TypeOK
<1>j. job \in [Process -> Refresh]
    BY DEF IInv, TypeOK
<1>p. ASSUME NEW p \in Process
      PROVE  /\ job[p] \in Refresh /\ job[p].cache \in indexCache
             /\ job[p].local \in Saved /\ job[p].got \in Saved
             /\ job[p].tag \in Tag /\ job[p].url \in URL \cup {NoUrl}
             /\ job[p].cache.sha \in Saved
    BY <1>j DEF Refresh, indexCache
<1>a. /\ NoCache \in indexCache
      /\ Resting \in Refresh
      /\ NotAsked \in [url : URL \cup {NoUrl}, index : Saved]
  <2>1. Unusable \in Saved /\ 0 \in Tag
      BY DEF Saved, Tag
  <2>2. NoCache \in indexCache
      BY <2>1 DEF NoCache, indexCache
  <2>3. Resting \in Refresh
      BY <2>1, <2>2 DEF Resting, Refresh, Step
  <2> QED
      BY <2>1, <2>2, <2>3 DEF NotAsked
<1>c. ASSUME NEW p \in Process, NEW j \in Refresh, job' = [job EXCEPT ![p] = j]
      PROVE  job' \in [Process -> Refresh]
    BY <1>j, <1>c
<1>d. Step = {"idle", "wait", "read", "attempt", "request", "save", "record"}
    BY DEF Step
<1>u. \A p \in Process :
        /\ command[p].pc # "idle" => command[p].url \in URL
        /\ job[p].pc # "idle" => job[p].url \in URL
    BY DEF IInv, LockInv, CachesFit, Sound
<1>b. ASSUME NEW p \in Process, Finish(p)
      PROVE  job' \in [Process -> Refresh] /\ lock' \subseteq Owner
    BY <1>0, <1>a, <1>b, <1>c DEF Finish
<1>e. ASSUME NEW p \in Process, NEW pc \in Step,
             job' = [job EXCEPT ![p] = [@ EXCEPT !.pc = pc]]
      PROVE  job' \in [Process -> Refresh]
    BY <1>c, <1>e, <1>p, RefreshType, <1>0, <1>a
<1>1. ASSUME NEW p \in Process, TryUpdateLock(p) PROVE TypeOK'
  <2>1. command' \in [Process -> [pc : {"idle", "holding", "spawned"}, url : URL \cup {NoUrl}]]
      BY <1>0, <1>1 DEF TryUpdateLock
  <2> QED
      BY <1>0, <1>j, <1>1, <2>1 DEF TryUpdateLock, files, Owner, TypeOK
<1>2. ASSUME NEW p \in Process, Spawn(p) PROVE TypeOK'
  <2>1. command[p].url \in URL
      BY <1>2, <1>u DEF Spawn
  <2>2. [Resting EXCEPT !.pc = "read", !.automatic = TRUE, !.url = command[p].url] \in Refresh
      BY <1>a, <1>d, <2>1 DEF Refresh
  <2>3. lock' \subseteq Owner
      BY <1>0, <1>2 DEF Spawn, Owner
  <2>4. command' \in [Process -> [pc : {"idle", "holding", "spawned"}, url : URL \cup {NoUrl}]]
      BY <1>0, <1>2 DEF Spawn
  <2>5. job' \in [Process -> Refresh]
      BY <1>2, <1>c, <2>2 DEF Spawn
  <2> QED
      BY <1>0, <1>2, <2>5, <2>3, <2>4 DEF Spawn, files, TypeOK
<1>3. ASSUME NEW p \in Process, CloseCopy(p) PROVE TypeOK'
  <2>1. command' \in [Process -> [pc : {"idle", "holding", "spawned"}, url : URL \cup {NoUrl}]]
      BY <1>0, <1>3 DEF CloseCopy
  <2> QED
      BY <1>0, <1>j, <1>3, <2>1 DEF CloseCopy, Closed, files, TypeOK
<1>4. ASSUME NEW p \in Process, Update(p) PROVE TypeOK'
  <2>1. PICK url \in URL :
            job' = [job EXCEPT ![p] = [Resting EXCEPT !.pc = "wait", !.url = url]]
      BY <1>4 DEF Update
  <2>2. [Resting EXCEPT !.pc = "wait", !.url = url] \in Refresh
      BY <1>a, <1>d DEF Refresh
  <2>3. job' \in [Process -> Refresh]
      BY <1>c, <2>1, <2>2
  <2> QED
      BY <1>0, <1>4, <2>3 DEF Update, files, TypeOK
<1>5. ASSUME NEW p \in Process, WaitLock(p) PROVE TypeOK'
  <2>1. job' \in [Process -> Refresh]
      BY <1>5, <1>d, <1>e DEF WaitLock
  <2> QED
      BY <1>0, <1>5, <2>1 DEF WaitLock, files, Owner, TypeOK
<1>6. ASSUME NEW p \in Process, WaitInterrupted(p) PROVE TypeOK'
    BY <1>0, <1>6, <1>a, <1>c DEF WaitInterrupted, files, TypeOK
<1>7. ASSUME NEW p \in Process, Read(p) PROVE TypeOK'
  <2>1. job[p].url \in URL
      BY <1>7, <1>u DEF Read
  <2>2. Usable(job[p].url) \in indexCache /\ PreviousSource \in URL \cup {NoUrl}
      BY <2>1, UsableType DEF IInv
  <2>3. [Usable(job[p].url) EXCEPT !.recent = TRUE] \in indexCache
      BY <2>2 DEF indexCache
  <2> DEFINE j == [job[p] EXCEPT !.pc = "attempt", !.local = index,
                                 !.previous = PreviousSource,
                                 !.cache = [Usable(job[p].url) EXCEPT !.recent = TRUE]]
  <2>4. j \in Refresh
      BY <1>0, <1>p, <1>d, <2>2, <2>3 DEF Refresh
  <2>5. job' = [job EXCEPT ![p] = j]
      BY <1>7 DEF Read
  <2>6. job' \in [Process -> Refresh]
      BY <1>c, <2>4, <2>5
  <2> QED
      BY <1>0, <1>7, <2>6 DEF Read, files, TypeOK
<1>8. ASSUME NEW p \in Process, BacksOff(p) PROVE TypeOK'
    BY <1>0, <1>8, <1>b DEF BacksOff, files, TypeOK
<1>9. ASSUME NEW p \in Process, Attempt(p) PROVE TypeOK'
  <2>1. job' \in [Process -> Refresh]
      BY <1>9, <1>d, <1>e DEF Attempt
  <2>2. http' \in indexCache
      BY <1>9, <1>p DEF Attempt
  <2>3. asked' \in [url : URL \cup {NoUrl}, index : Saved]
      BY <1>9, <1>a, <1>p DEF Attempt, Covered
  <2> QED
      BY <1>0, <1>9, <2>1, <2>2, <2>3 DEF Attempt, TypeOK
<1>10. ASSUME NEW p \in Process, RequestFails(p) PROVE TypeOK'
    BY <1>0, <1>10, <1>d, <1>e DEF RequestFails, files, TypeOK
<1>11. ASSUME NEW p \in Process, NotModified(p) PROVE TypeOK'
  <2>5. PICK at \in 1..published[job[p].url] :
            /\ at <= job[p].cache.tag
            /\ \E tag \in {job[p].cache.tag, at} :
                   job' = [job EXCEPT ![p] =
                       [job[p] EXCEPT !.pc = "record",
                                      !.cache = [job[p].cache EXCEPT
                                                    !.source = job[p].url,
                                                    !.tag = tag]]]
      BY <1>11 DEF NotModified
  <2>6. PICK tag \in {job[p].cache.tag, at} :
            job' = [job EXCEPT ![p] =
                [job[p] EXCEPT !.pc = "record",
                               !.cache = [job[p].cache EXCEPT
                                             !.source = job[p].url,
                                             !.tag = tag]]]
      BY <2>5
  <2> DEFINE cache == [job[p].cache EXCEPT !.source = job[p].url, !.tag = tag]
  <2>7. tag \in Tag
    <3>1. job[p].cache.tag \in 0..MaxAt
        BY <1>p DEF indexCache, Tag
    <3>2. tag = job[p].cache.tag \/ tag \in 1..published[job[p].url]
        BY <2>6
    <3>3. job[p].url \in URL
        BY <1>11, <1>u DEF NotModified
    <3>4. published[job[p].url] \in 0..MaxAt
        BY <1>0, <3>3
    <3> QED
        BY <3>1, <3>2, <3>4 DEF Tag
  <2>1. cache \in indexCache
      BY <1>p, <2>7 DEF indexCache
  <2>2. [job[p] EXCEPT !.pc = "record", !.cache = cache] \in Refresh
      BY <1>0, <1>a, <1>p, <1>d, <2>1 DEF Refresh
  <2>4. job' = [job EXCEPT ![p] = [job[p] EXCEPT !.pc = "record", !.cache = cache]]
      BY <2>6
  <2> HIDE DEF cache
  <2>3. job' \in [Process -> Refresh]
      BY <1>c, <2>2, <2>4
  <2> QED
      BY <1>0, <1>11, <2>3 DEF NotModified, files, TypeOK
<1>12. ASSUME NEW p \in Process, Answered(p) PROVE TypeOK'
  <2>1. job[p].url \in URL
      BY <1>12, <1>u DEF Answered
  <2> DEFINE cache == [job[p].cache EXCEPT !.tag = 0]
             kept == [job[p] EXCEPT !.pc = "record", !.cache = cache]
             new(at, tag) == [job[p] EXCEPT !.pc = "save", !.got = Named(job[p].url, at),
                                            !.tag = tag]
  <2>2. PICK at \in 1..published[job[p].url] :
            \/ job' = [job EXCEPT ![p] = kept]
            \/ \E tag \in {0, at} : job' = [job EXCEPT ![p] = new(at, tag)]
      BY <1>12 DEF Answered
  <2>3. at \in 1..MaxAt
      BY <1>0, <2>1, <2>2
  <2>4. Named(job[p].url, at) \in Saved /\ 0 \in Tag /\ at \in Tag
      BY <2>1, <2>3 DEF Named, Saved, Doc, Tag
  <2>5. cache \in indexCache
      BY <1>p, <2>4 DEF indexCache
  <2>6. kept \in Refresh
      BY <1>0, <1>a, <1>p, <1>d, <2>5 DEF Refresh
  <2>7. \A tag \in {0, at} : new(at, tag) \in Refresh
      BY ZenonT(60), <1>0, <1>a, <1>p, <1>d, <2>4 DEF Refresh
  <2>8. job' \in [Process -> Refresh]
      BY <1>c, <2>2, <2>6, <2>7
  <2> QED
      BY <1>0, <1>12, <2>8 DEF Answered, files, TypeOK
<1>13. ASSUME NEW p \in Process, Save(p) PROVE TypeOK'
  <2> DEFINE cache == [job[p].cache EXCEPT !.sha = job[p].got, !.source = job[p].url,
                                           !.tag = job[p].tag]
  <2>1. cache \in indexCache
      BY <1>p DEF indexCache
  <2>2. [job[p] EXCEPT !.pc = "record", !.cache = cache] \in Refresh
      BY ZenonT(60), <1>0, <1>a, <1>p, <1>d, <2>1 DEF Refresh
  <2>5. job' = [job EXCEPT ![p] = [job[p] EXCEPT !.pc = "record", !.cache = cache]]
      BY <1>13 DEF Save
  <2> HIDE DEF cache
  <2>3. job' \in [Process -> Refresh]
      BY <1>c, <2>2, <2>5
  <2>4. index' \in Saved
      BY <1>0, <1>13, <1>p DEF Save
  <2> QED
      BY <1>0, <1>13, <2>3, <2>4 DEF Save, TypeOK
<1>14. ASSUME NEW p \in Process, Record(p) PROVE TypeOK'
  <2>1. http' \in indexCache
    <3>1. http' = job[p].cache
        BY <1>14 DEF Record
    <3> QED
        BY <1>p, <3>1
  <2>2. asked' \in [url : URL \cup {NoUrl}, index : Saved]
      BY <1>14, <1>a, <1>p DEF Record, Covered
  <2> QED
      BY <1>0, <1>14, <1>b, <2>1, <2>2 DEF Record, TypeOK
<1>15. ASSUME NEW p \in Process, WriteFails(p) PROVE TypeOK'
  <2>1. job' \in [Process -> Refresh] /\ lock' \subseteq Owner
      BY <1>0, <1>15, <1>b, <1>d, <1>e DEF WriteFails
  <2>2. faults' \in 0..MaxFaults
      BY <1>0, <1>15 DEF WriteFails
  <2> QED
      BY <1>0, <1>15, <2>1, <2>2 DEF WriteFails, files, TypeOK
<1>16. ASSUME NEW p \in Process, Dies(p) PROVE TypeOK'
  <2>1. faults' \in 0..MaxFaults
      BY <1>0, <1>16 DEF Dies
  <2> QED
      BY <1>0, <1>16, <1>b, <2>1 DEF Dies, files, TypeOK
<1>17. ASSUME NEW url \in URL, Publish(url) PROVE TypeOK'
    BY <1>0, <1>j, <1>17 DEF Publish, files, TypeOK
<1>18. CASE IntervalPasses
  <2>1. http' \in indexCache
      BY <1>0, <1>18 DEF IntervalPasses, indexCache
  <2>2. ASSUME NEW p \in Process
        PROVE  [job[p] EXCEPT !.cache = [job[p].cache EXCEPT !.recent = FALSE]] \in Refresh
    <3>1. [job[p].cache EXCEPT !.recent = FALSE] \in indexCache
        BY <1>p DEF indexCache
    <3> QED
        BY <1>p, <3>1 DEF Refresh
  <2>3. job' \in [Process -> Refresh]
      BY <1>18, <2>2 DEF IntervalPasses
  <2> QED
      BY <1>0, <1>18, <1>a, <2>1, <2>3 DEF IntervalPasses, TypeOK
<1>19. CASE Edit
  <2>1. index' \in Saved
      BY <1>19 DEF Edit, Saved, Doc, Named
  <2> QED
      BY <1>0, <1>j, <1>19, <2>1 DEF Edit, TypeOK
<1>20. CASE DeleteCache
    BY <1>0, <1>j, <1>20, <1>a DEF DeleteCache, TypeOK
<1>21. CASE UNCHANGED vars
    BY <1>0, <1>j, <1>21 DEF vars, files, TypeOK
<1> QED
    BY <1>1, <1>2, <1>3, <1>4, <1>5, <1>6, <1>7, <1>8, <1>9, <1>10, <1>11, <1>12, <1>13,
       <1>14, <1>15, <1>16, <1>17, <1>18, <1>19, <1>20, <1>21 DEF Next, refreshIndex

(* The lock goes from a command to its updater and to nobody else. *)
LEMMA LockKept == IInv /\ [Next]_vars => LockInv'
<1> SUFFICES ASSUME IInv, [Next]_vars PROVE LockInv'
    OBVIOUS
<1>0. lock \subseteq Owner /\ LockInv
      /\ command \in [Process -> [pc : {"idle", "holding", "spawned"},
                                  url : URL \cup {NoUrl}]]
    BY DEF IInv, TypeOK
<1>j. job \in [Process -> Refresh]
    BY DEF IInv, TypeOK
<1>r. Resting.pc = "idle"
    BY DEF Resting
<1>1. ASSUME NEW p \in Process, TryUpdateLock(p) PROVE LockInv'
    BY <1>0, <1>j, <1>1 DEF TryUpdateLock, LockInv, Working
<1>2. ASSUME NEW p \in Process, Spawn(p) PROVE LockInv'
  <2>1. job'[p].pc = "read" /\ \A q \in Process \ {p} : job'[q] = job[q]
      BY <1>j, <1>2 DEF Spawn, Resting
  <2>2. command[p].pc = "holding" /\ command'[p].pc = "spawned" /\ command'[p].url = command[p].url
      BY <1>0, <1>2 DEF Spawn
  <2>3. \A q \in Process \ {p} : command'[q] = command[q]
      BY <1>0, <1>2 DEF Spawn
  <2>4. lock' = lock \cup {<<p, "updater">>}
      BY <1>2 DEF Spawn
  <2> QED
    <3>1. <<p, "command">> \in lock /\ <<p, "command">>[1] = p /\ <<p, "updater">>[1] = p
        BY <1>0, <2>2 DEF LockInv
    <3>2. \A x \in lock' : x[1] = p
        BY <1>0, <2>4, <3>1 DEF LockInv
    <3> QED
        BY <1>0, <2>1, <2>2, <2>3, <2>4, <3>2 DEF LockInv, Working
<1>3. ASSUME NEW p \in Process, CloseCopy(p) PROVE LockInv'
    BY <1>0, <1>j, <1>3 DEF CloseCopy, LockInv, Working, Closed, Owner
<1>4. ASSUME NEW p \in Process, Update(p) PROVE LockInv'
    BY <1>0, <1>j, <1>4 DEF Update, LockInv, Working
<1>5. ASSUME NEW p \in Process, WaitLock(p) PROVE LockInv'
    BY <1>0, <1>j, <1>5 DEF WaitLock, LockInv, Working
<1>6. ASSUME NEW p \in Process, WaitInterrupted(p) PROVE LockInv'
    BY <1>0, <1>j, <1>r, <1>6 DEF WaitInterrupted, LockInv, Working
<1>7. ASSUME NEW p \in Process, Read(p) PROVE LockInv'
    BY <1>0, <1>j, <1>7 DEF Read, LockInv, Working
<1>8. ASSUME NEW p \in Process, BacksOff(p) PROVE LockInv'
    BY <1>0, <1>j, <1>r, <1>8 DEF BacksOff, LockInv, Working, Finish
<1>9. ASSUME NEW p \in Process, Attempt(p) PROVE LockInv'
    BY <1>0, <1>j, <1>9 DEF Attempt, LockInv, Working
<1>10. ASSUME NEW p \in Process, RequestFails(p) PROVE LockInv'
    BY <1>0, <1>j, <1>10 DEF RequestFails, LockInv, Working
<1>11. ASSUME NEW p \in Process, NotModified(p) PROVE LockInv'
    BY <1>0, <1>j, <1>11 DEF NotModified, LockInv, Working
<1>12. ASSUME NEW p \in Process, Answered(p) PROVE LockInv'
    BY <1>0, <1>j, <1>12 DEF Answered, LockInv, Working
<1>13. ASSUME NEW p \in Process, Save(p) PROVE LockInv'
    BY <1>0, <1>j, <1>13 DEF Save, LockInv, Working
<1>14. ASSUME NEW p \in Process, Record(p) PROVE LockInv'
    BY <1>0, <1>j, <1>r, <1>14 DEF Record, LockInv, Working, Finish
<1>15. ASSUME NEW p \in Process, WriteFails(p) PROVE LockInv'
    BY <1>0, <1>j, <1>r, <1>15 DEF WriteFails, LockInv, Working, Finish
<1>16. ASSUME NEW p \in Process, Dies(p) PROVE LockInv'
    BY <1>0, <1>j, <1>r, <1>16 DEF Dies, LockInv, Working, Finish
<1>17. ASSUME NEW url \in URL, Publish(url) PROVE LockInv'
    BY <1>0, <1>j, <1>17 DEF Publish, LockInv, Working
<1>18. CASE IntervalPasses
  <2>1. \A p \in Process : job'[p].pc = job[p].pc
      BY <1>j, <1>18 DEF IntervalPasses, Refresh
  <2> QED
      BY <1>0, <1>18, <2>1 DEF IntervalPasses, LockInv, Working
<1>19. CASE Edit
    BY <1>0, <1>j, <1>19 DEF Edit, LockInv, Working
<1>20. CASE DeleteCache
    BY <1>0, <1>j, <1>20 DEF DeleteCache, LockInv, Working
<1>21. CASE UNCHANGED vars
    BY <1>0, <1>j, <1>21 DEF vars, LockInv, Working
<1> QED
    BY <1>1, <1>2, <1>3, <1>4, <1>5, <1>6, <1>7, <1>8, <1>9, <1>10, <1>11, <1>12,
       <1>13, <1>14, <1>15, <1>16, <1>17, <1>18, <1>19, <1>20, <1>21 DEF Next, refreshIndex

(* Reading the two files gives a record that says no more than http.json. *)
LEMMA UsableFits ==
    ASSUME TypeOK, Fits(http), NEW url \in URL
    PROVE  /\ Fits(Usable(url))
           /\ Usable(url).url = url
           /\ Usable(url).sha = index
           /\ index # Unusable /\ PreviousSource # NoUrl => index.from = PreviousSource
<1>1. http \in indexCache
    BY DEF TypeOK
<1>2. index # Unusable /\ PreviousSource # NoUrl => index.from = PreviousSource
    BY DEF PreviousSource, Fits
<1>3. CASE http.url # url \/ http.sha # index
  <2> DEFINE c == [NoCache EXCEPT !.url = url, !.sha = index, !.source = PreviousSource]
  <2>1. c.url = url /\ c.sha = index /\ c.source = PreviousSource /\ c.tag = 0
      BY DEF NoCache
  <2>2. Usable(url) = c
      BY <1>3 DEF Usable
  <2> QED
      BY <1>2, <2>1, <2>2 DEF Fits
<1>4. CASE http.url = url /\ http.sha = index
    BY <1>2, <1>4 DEF Usable
<1> QED
    BY <1>3, <1>4

(* Records stay true: of http.json, and of every refresh. *)
LEMMA FitsKept == IInv /\ [Next]_vars => CachesFit'
<1> SUFFICES ASSUME IInv, [Next]_vars PROVE CachesFit'
    OBVIOUS
<1> USE IndexAssumption
<1>0. TypeOK /\ Fits(http) /\ \A p \in Process : Sound(job[p])
    BY DEF IInv, CachesFit
<1>j. job \in [Process -> Refresh]
    BY DEF IInv, TypeOK
<1>p. ASSUME NEW p \in Process
      PROVE  /\ job[p] \in Refresh /\ job[p].cache \in indexCache
             /\ job[p].url \in URL \cup {NoUrl} /\ job[p].tag \in Tag
    BY <1>j DEF Refresh
<1>r. Sound(Resting) /\ Fits(NoCache)
    BY DEF Resting, NoCache, Sound, Fits
<1>c. ASSUME NEW p \in Process, NEW j, job' = [job EXCEPT ![p] = j], Sound(j), Fits(http)'
      PROVE  CachesFit'
    BY <1>0, <1>j, <1>c DEF CachesFit
<1>h. ASSUME http' = http PROVE Fits(http)'
    BY <1>0, <1>h DEF Fits
<1>e. ASSUME NEW p \in Process, NEW pc \in {"read", "request", "record"},
             job' = [job EXCEPT ![p] = [@ EXCEPT !.pc = pc]],
             job[p].pc # "idle",
             pc = "request" => job[p].pc = "attempt",
             pc = "record" => job[p].pc \in {"request", "save"},
             Fits(http)'
      PROVE  CachesFit'
  <2>1. Sound([job[p] EXCEPT !.pc = pc])
      BY <1>0, <1>p, <1>e DEF Sound, Refresh
  <2> QED
      BY <1>c, <1>e, <2>1
<1>1. ASSUME NEW p \in Process, TryUpdateLock(p) PROVE CachesFit'
    BY <1>0, <1>1 DEF TryUpdateLock, files, CachesFit, Fits
<1>2. ASSUME NEW p \in Process, Spawn(p) PROVE CachesFit'
  <2> DEFINE j == [Resting EXCEPT !.pc = "read", !.automatic = TRUE, !.url = command[p].url]
  <2>1. command[p].url \in URL
      BY <1>2 DEF Spawn, IInv, LockInv
  <2>2. Sound(j)
      BY <1>r, <2>1 DEF Sound, Resting
  <2>3. job' = [job EXCEPT ![p] = j] /\ http' = http
      BY <1>2 DEF Spawn, files
  <2> QED
      BY <1>c, <1>h, <2>2, <2>3
<1>3. ASSUME NEW p \in Process, CloseCopy(p) PROVE CachesFit'
    BY <1>0, <1>3 DEF CloseCopy, files, CachesFit, Fits
<1>4. ASSUME NEW p \in Process, Update(p) PROVE CachesFit'
  <2>1. PICK url \in URL :
            job' = [job EXCEPT ![p] = [Resting EXCEPT !.pc = "wait", !.url = url]]
      BY <1>4 DEF Update
  <2>2. Sound([Resting EXCEPT !.pc = "wait", !.url = url])
      BY <1>r DEF Sound, Resting
  <2> QED
      BY <1>4, <1>c, <1>h, <2>1, <2>2 DEF Update, files
<1>5. ASSUME NEW p \in Process, WaitLock(p) PROVE CachesFit'
    BY <1>5, <1>e, <1>h DEF WaitLock, files
<1>6. ASSUME NEW p \in Process, WaitInterrupted(p) PROVE CachesFit'
    BY <1>6, <1>c, <1>h, <1>r DEF WaitInterrupted, files
<1>7. ASSUME NEW p \in Process, Read(p) PROVE CachesFit'
  <2>1. job[p].url \in URL
      BY <1>7, <1>0 DEF Read, Sound
  <2> DEFINE c == [Usable(job[p].url) EXCEPT !.recent = TRUE]
             j == [job[p] EXCEPT !.pc = "attempt", !.local = index,
                                 !.previous = PreviousSource, !.cache = c]
  <2>2. /\ Fits(Usable(job[p].url))
        /\ Usable(job[p].url).url = job[p].url
        /\ Usable(job[p].url).sha = index
        /\ index # Unusable /\ PreviousSource # NoUrl => index.from = PreviousSource
        /\ Usable(job[p].url) \in indexCache
      BY <1>0, <2>1, UsableFits, UsableType
  <2>3. c.url = job[p].url /\ c.sha = index /\ Fits(c)
      BY <2>2 DEF Fits, indexCache
  <2>4. /\ j.pc = "attempt" /\ j.cache = c /\ j.url = job[p].url /\ j.local = index
        /\ j.previous = PreviousSource
      BY <1>p DEF Refresh
  <2>5. job' = [job EXCEPT ![p] = j] /\ http' = http
      BY <1>7 DEF Read, files
  <2> HIDE DEF c, j
  <2>6. Sound(j)
      BY <2>1, <2>2, <2>3, <2>4 DEF Sound
  <2> QED
      BY <1>c, <1>h, <2>5, <2>6
<1>8. ASSUME NEW p \in Process, BacksOff(p) PROVE CachesFit'
    BY <1>8, <1>c, <1>h, <1>r DEF BacksOff, Finish, files
<1>9. ASSUME NEW p \in Process, Attempt(p) PROVE CachesFit'
  <2>1. Fits(http)'
      BY <1>0, <1>9 DEF Attempt, Sound, Fits
  <2> QED
      BY <1>9, <1>e, <2>1 DEF Attempt
<1>10. ASSUME NEW p \in Process, RequestFails(p) PROVE CachesFit'
    BY <1>10, <1>e, <1>h DEF RequestFails, files
<1>11. ASSUME NEW p \in Process, NotModified(p) PROVE CachesFit'
  <2>a. job[p].url \in URL /\ job[p].cache.tag \in Tag
      BY <1>0, <1>11, <1>p DEF NotModified, Conditional, Sound, indexCache
  <2>b. PICK at \in 1..published[job[p].url] :
            /\ at <= job[p].cache.tag
            /\ \E tag \in {job[p].cache.tag, at} :
                   job' = [job EXCEPT ![p] =
                       [job[p] EXCEPT !.pc = "record",
                                      !.cache = [job[p].cache EXCEPT
                                                    !.source = job[p].url,
                                                    !.tag = tag]]]
      BY <1>11 DEF NotModified
  <2>c. PICK tag \in {job[p].cache.tag, at} :
            job' = [job EXCEPT ![p] =
                [job[p] EXCEPT !.pc = "record",
                               !.cache = [job[p].cache EXCEPT
                                             !.source = job[p].url,
                                             !.tag = tag]]]
      BY <2>b
  <2> DEFINE c == [job[p].cache EXCEPT !.source = job[p].url, !.tag = tag]
             j == [job[p] EXCEPT !.pc = "record", !.cache = c]
  <2>d. tag \in Int /\ tag <= job[p].cache.tag
      BY <2>a, <2>b, <2>c DEF Tag
  <2>1. /\ job[p].pc = "request" /\ job[p].cache.tag # 0 /\ job[p].local # Unusable
        /\ job[p].cache.url = job[p].url /\ job[p].cache.sha = job[p].local
        /\ Fits(job[p].cache) /\ job[p].url \in URL
      BY <1>0, <1>11 DEF NotModified, Conditional, Sound
  <2>2. /\ c.sha = job[p].local /\ c.tag = tag /\ c.url = job[p].url
        /\ c.source = job[p].url
      BY <1>p, <2>1 DEF indexCache
  <2>3. Fits(c)
    <3>1. /\ job[p].local.from = job[p].url
          /\ job[p].local.at >= job[p].cache.tag
        BY <2>1 DEF Fits
    <3>2. job[p].local.at \in Int
        BY <2>1, <1>p DEF Refresh, Saved, Doc
    <3>3. job[p].local.at >= tag
        BY <2>a, <2>d, <3>1, <3>2 DEF Tag
    <3> HIDE DEF c
    <3> QED
        BY <2>2, <3>1, <3>3 DEF Fits
  <2>4. j.pc = "record" /\ j.cache = c /\ j.url = job[p].url
      BY <1>p DEF Refresh
  <2>5. job' = [job EXCEPT ![p] = j] /\ http' = http
      BY <1>11, <2>c DEF NotModified, files
  <2> HIDE DEF c, j
  <2>6. Sound(j)
      BY <2>1, <2>2, <2>3, <2>4 DEF Sound
  <2> QED
      BY <1>c, <1>h, <2>5, <2>6
<1>12. ASSUME NEW p \in Process, Answered(p) PROVE CachesFit'
  <2> DEFINE c == [job[p].cache EXCEPT !.tag = 0]
             kept == [job[p] EXCEPT !.pc = "record", !.cache = c]
             new(at, tag) == [job[p] EXCEPT !.pc = "save", !.got = Named(job[p].url, at),
                                            !.tag = tag]
  <2>1. PICK at \in 1..published[job[p].url] :
            \/ job' = [job EXCEPT ![p] = kept]
            \/ /\ ~Keeps(p, Named(job[p].url, at))
               /\ \E tag \in {0, at} : job' = [job EXCEPT ![p] = new(at, tag)]
      BY <1>12 DEF Answered
  <2>2. http' = http
      BY <1>12 DEF Answered, files
  <2>3. /\ job[p].pc = "request" /\ job[p].cache.url = job[p].url
        /\ Fits(job[p].cache) /\ job[p].url \in URL /\ Sound(job[p])
      BY <1>0, <1>12 DEF Answered, Sound
  <2>4. Sound(kept)
    <3>1. /\ c.sha = job[p].cache.sha /\ c.tag = 0 /\ c.url = job[p].url
          /\ c.source = job[p].cache.source
        BY <1>p, <2>3 DEF indexCache
    <3>2. kept.pc = "record" /\ kept.cache = c /\ kept.url = job[p].url
        BY <1>p DEF Refresh
    <3> HIDE DEF c, kept
    <3> QED
        BY <2>3, <3>1, <3>2 DEF Sound, Fits
  <2>5. ASSUME NEW tag \in {0, at}, ~Keeps(p, Named(job[p].url, at))
        PROVE  Sound(new(at, tag))
    <3>1. /\ new(at, tag).pc = "save" /\ new(at, tag).cache = job[p].cache
          /\ new(at, tag).url = job[p].url /\ new(at, tag).got = Named(job[p].url, at)
          /\ new(at, tag).tag = tag /\ new(at, tag).local = job[p].local
          /\ new(at, tag).previous = job[p].previous
          /\ new(at, tag).automatic = job[p].automatic
        BY <1>p DEF Refresh
    <3>2. Named(job[p].url, at).at = at /\ Named(job[p].url, at) \in Doc
      <4>1. published[job[p].url] \in 0..MaxAt
          BY <1>0, <2>3 DEF TypeOK
      <4> QED
          BY <2>3, <4>1 DEF Named, Doc
    <3> HIDE DEF new
    <3> QED
        BY <2>3, <2>5, <3>1, <3>2 DEF Sound, Keeps
  <2> HIDE DEF kept, new
  <2> QED
      BY <1>c, <1>h, <2>1, <2>2, <2>4, <2>5
<1>13. ASSUME NEW p \in Process, Save(p) PROVE CachesFit'
  <2> DEFINE c == [job[p].cache EXCEPT !.sha = job[p].got, !.source = job[p].url,
                                       !.tag = job[p].tag]
             j == [job[p] EXCEPT !.pc = "record", !.cache = c]
  <2>1. /\ job[p].cache.url = job[p].url /\ job[p].url \in URL
        /\ job[p].got = Named(job[p].url, job[p].got.at)
        /\ job[p].tag # 0 => job[p].tag = job[p].got.at
      BY <1>0, <1>13 DEF Save, Sound
  <2>2. c.sha = job[p].got /\ c.tag = job[p].tag /\ c.url = job[p].url /\ c.source = job[p].url
      BY <1>p, <2>1 DEF indexCache
  <2>3. Fits(c)
    <3>1. job[p].got.from = job[p].url
        BY <2>1 DEF Named
    <3>2. job[p].got.at \in Int
        BY <1>0, <1>13 DEF Save, Sound, Doc
    <3>3. job[p].tag # 0 => job[p].got.at >= job[p].tag
        BY <2>1, <3>2
    <3> HIDE DEF c
    <3> QED
        BY <2>2, <3>1, <3>3 DEF Fits
  <2>4. j.pc = "record" /\ j.cache = c /\ j.url = job[p].url
      BY <1>p DEF Refresh
  <2>5. job' = [job EXCEPT ![p] = j] /\ http' = http
      BY <1>13 DEF Save
  <2> HIDE DEF c, j
  <2>6. Sound(j)
      BY <2>1, <2>2, <2>3, <2>4 DEF Sound
  <2> QED
      BY <1>c, <1>h, <2>5, <2>6
<1>14. ASSUME NEW p \in Process, Record(p) PROVE CachesFit'
  <2>1. Fits(http)'
      BY <1>0, <1>14 DEF Record, Sound, Fits
  <2> QED
      BY <1>14, <1>c, <1>r, <2>1 DEF Record, Finish
<1>15. ASSUME NEW p \in Process, WriteFails(p) PROVE CachesFit'
    BY <1>15, <1>c, <1>e, <1>h, <1>r DEF WriteFails, Finish, files
<1>16. ASSUME NEW p \in Process, Dies(p) PROVE CachesFit'
    BY <1>16, <1>c, <1>h, <1>r DEF Dies, Finish, files
<1>17. ASSUME NEW url \in URL, Publish(url) PROVE CachesFit'
    BY <1>0, <1>17 DEF Publish, files, CachesFit, Fits
<1>18. CASE IntervalPasses
  <2>1. Fits(http)'
      BY <1>0, <1>18 DEF IntervalPasses, Fits, TypeOK, indexCache
  <2>2. ASSUME NEW p \in Process PROVE Sound(job[p])'
    <3> DEFINE c == [job[p].cache EXCEPT !.recent = FALSE]
               j == [job[p] EXCEPT !.cache = c]
    <3>1. c.sha = job[p].cache.sha /\ c.tag = job[p].cache.tag /\ c.url = job[p].cache.url
          /\ c.source = job[p].cache.source
        BY <1>p DEF indexCache
    <3>2. /\ j.cache = c /\ j.pc = job[p].pc /\ j.url = job[p].url /\ j.local = job[p].local
          /\ j.previous = job[p].previous /\ j.automatic = job[p].automatic
          /\ j.got = job[p].got /\ j.tag = job[p].tag
        BY <1>p DEF Refresh
    <3>3. job'[p] = j
        BY <1>18 DEF IntervalPasses
    <3> HIDE DEF c, j
    <3> QED
        BY <1>0, <3>1, <3>2, <3>3 DEF Sound, Fits
  <2> QED
      BY <2>1, <2>2 DEF CachesFit
<1>19. CASE Edit
    BY <1>0, <1>19 DEF Edit, CachesFit, Fits
<1>20. CASE DeleteCache
    BY <1>0, <1>20, <1>r DEF DeleteCache, CachesFit, Fits
<1>21. CASE UNCHANGED vars
    BY <1>0, <1>21 DEF vars, files, CachesFit, Fits
<1> QED
    BY <1>1, <1>2, <1>3, <1>4, <1>5, <1>6, <1>7, <1>8, <1>9, <1>10, <1>11, <1>12,
       <1>13, <1>14, <1>15, <1>16, <1>17, <1>18, <1>19, <1>20, <1>21 DEF Next, refreshIndex

(* The last request stays recorded, so that the back-off covers it. *)
LEMMA AskedKept == IInv /\ [Next]_vars => AskedFits' /\ BackOff'
<1> SUFFICES ASSUME IInv, [Next]_vars PROVE AskedFits' /\ BackOff'
    OBVIOUS
<1> USE IndexAssumption
<1>0. /\ AskedFits /\ BackOff /\ LockInv
      /\ \A p \in Process : Sound(job[p])
    BY DEF IInv, CachesFit
<1>j. job \in [Process -> Refresh] /\ http \in indexCache
    BY DEF IInv, TypeOK
<1>p. ASSUME NEW p \in Process
      PROVE  /\ job[p] \in Refresh /\ job[p].cache \in indexCache
    BY <1>j DEF Refresh
<1>r. Resting.pc = "idle"
    BY DEF Resting
<1>n. NotAsked.url \notin URL
    BY DEF NotAsked
(* A step that leaves the record and what it covers alone, and after which *)
(* no other refresh is about to ask.                                       *)
<1>c. ASSUME NEW p \in Process, NEW j, job' = [job EXCEPT ![p] = j],
             j.pc # "attempt", http' = http, asked' = asked
      PROVE  AskedFits' /\ BackOff'
    BY <1>0, <1>j, <1>c DEF AskedFits, BackOff
<1>d. ASSUME job' = job, http' = http, asked' = asked
      PROVE  AskedFits' /\ BackOff'
    BY <1>0, <1>d DEF AskedFits, BackOff
<1>e. ASSUME NEW p \in Process, NEW pc \in {"read", "record"}, http' = http, asked' = asked,
             job' = [job EXCEPT ![p] = [@ EXCEPT !.pc = pc]]
      PROVE  AskedFits' /\ BackOff'
  <2>1. [job[p] EXCEPT !.pc = pc].pc = pc
      BY <1>p DEF Refresh
  <2> QED
      BY <1>c, <1>e, <2>1
<1>l. ASSUME NEW p \in Process, NEW q \in Process, Working(p), Working(q) PROVE p = q
    BY <1>0, <1>l DEF LockInv
<1>1. ASSUME NEW p \in Process, TryUpdateLock(p) PROVE AskedFits' /\ BackOff'
    BY <1>1, <1>d DEF TryUpdateLock, files
<1>2. ASSUME NEW p \in Process, Spawn(p) PROVE AskedFits' /\ BackOff'
  <2>1. [Resting EXCEPT !.pc = "read", !.automatic = TRUE, !.url = command[p].url].pc = "read"
      BY DEF Resting
  <2> QED
      BY <1>2, <1>c, <2>1 DEF Spawn, files
<1>3. ASSUME NEW p \in Process, CloseCopy(p) PROVE AskedFits' /\ BackOff'
    BY <1>3, <1>d DEF CloseCopy, files
<1>4. ASSUME NEW p \in Process, Update(p) PROVE AskedFits' /\ BackOff'
  <2>1. \A url : [Resting EXCEPT !.pc = "wait", !.url = url].pc = "wait"
      BY DEF Resting
  <2> QED
      BY <1>4, <1>c, <2>1 DEF Update, files
<1>5. ASSUME NEW p \in Process, WaitLock(p) PROVE AskedFits' /\ BackOff'
    BY <1>5, <1>e DEF WaitLock, files
<1>6. ASSUME NEW p \in Process, WaitInterrupted(p) PROVE AskedFits' /\ BackOff'
    BY <1>6, <1>c, <1>r DEF WaitInterrupted, files
<1>7. ASSUME NEW p \in Process, Read(p) PROVE AskedFits' /\ BackOff'
  <2> DEFINE j == [job[p] EXCEPT !.pc = "attempt", !.local = index,
                                 !.previous = PreviousSource,
                                 !.cache = [Usable(job[p].url) EXCEPT !.recent = TRUE]]
  <2>1. job' = [job EXCEPT ![p] = j] /\ http' = http /\ asked' = asked
      BY <1>7 DEF Read, files
  <2>2. j.automatic = job[p].automatic /\ j.url = job[p].url /\ j.local = index
      BY <1>p DEF Refresh
  <2>3. job[p].automatic => ~Usable(job[p].url).recent
      BY <1>7 DEF Read
  <2>4. job[p].automatic => asked # [url |-> job[p].url, index |-> index]
    <3> SUFFICES ASSUME job[p].automatic, asked = [url |-> job[p].url, index |-> index]
                 PROVE  FALSE
        OBVIOUS
    <3>1. asked.url = job[p].url /\ asked.index = index /\ job[p].url \in URL
        BY <1>0, <1>7 DEF Read, Sound
    <3>2. http.url = job[p].url /\ http.sha = index /\ http.recent
        BY <1>0, <1>n, <3>1 DEF AskedFits
    <3> QED
        BY <2>3, <3>2 DEF Usable
  <2> HIDE DEF j
  <2>5. \A q \in Process \ {p} : job'[q] = job[q]
      BY <2>1, <1>j
  <2>6. job'[p] = j
      BY <2>1, <1>j
  <2> QED
      BY <1>0, <2>1, <2>2, <2>4, <2>5, <2>6 DEF AskedFits, BackOff
<1>8. ASSUME NEW p \in Process, BacksOff(p) PROVE AskedFits' /\ BackOff'
    BY <1>8, <1>c, <1>r DEF BacksOff, Finish, files
<1>9. ASSUME NEW p \in Process, Attempt(p) PROVE AskedFits' /\ BackOff'
  <2>1. /\ job[p].pc = "attempt" /\ http' = job[p].cache
        /\ asked' = (IF job[p].cache.recent
                     THEN [url |-> job[p].url, index |-> job[p].local] ELSE NotAsked)
        /\ job' = [job EXCEPT ![p] = [job[p] EXCEPT !.pc = "request"]]
      BY <1>9 DEF Attempt, Covered
  <2>2. job[p].cache.url = job[p].url /\ job[p].cache.sha = job[p].local
      BY <1>0, <2>1 DEF Sound
  <2>3. AskedFits'
      BY <2>1, <2>2 DEF AskedFits
  <2>4. \A q \in Process : job'[q].pc # "attempt"
    <3>1. job'[p].pc = "request"
        BY <1>j, <1>p, <2>1 DEF Refresh
    <3>2. \A q \in Process \ {p} : job'[q] = job[q] /\ ~Working(q)
        BY <1>j, <1>l, <2>1 DEF Working
    <3> QED
        BY <3>1, <3>2 DEF Working
  <2> QED
      BY <2>3, <2>4 DEF BackOff
<1>10. ASSUME NEW p \in Process, RequestFails(p) PROVE AskedFits' /\ BackOff'
    BY <1>10, <1>e DEF RequestFails, files
<1>11. ASSUME NEW p \in Process, NotModified(p) PROVE AskedFits' /\ BackOff'
  <2>1. \A cache : [job[p] EXCEPT !.pc = "record", !.cache = cache].pc = "record"
      BY <1>p DEF Refresh
  <2> QED
      BY <1>11, <1>c, <2>1 DEF NotModified, files
<1>12. ASSUME NEW p \in Process, Answered(p) PROVE AskedFits' /\ BackOff'
  <2>1. PICK j : job' = [job EXCEPT ![p] = j] /\ j.pc \in {"record", "save"}
    <3>1. [job[p] EXCEPT !.pc = "record",
                         !.cache = [job[p].cache EXCEPT !.tag = 0]].pc = "record"
        BY <1>p DEF Refresh
    <3>2. \A doc, tag : [job[p] EXCEPT !.pc = "save", !.got = doc, !.tag = tag].pc = "save"
        BY <1>p DEF Refresh
    <3>3. CASE job' = [job EXCEPT ![p] =
                          [job[p] EXCEPT !.pc = "record",
                                         !.cache = [job[p].cache EXCEPT !.tag = 0]]]
        BY <3>1, <3>3
    <3>4. ASSUME NEW doc, NEW tag,
                 job' = [job EXCEPT ![p] =
                            [job[p] EXCEPT !.pc = "save", !.got = doc, !.tag = tag]]
          PROVE  \E j : job' = [job EXCEPT ![p] = j] /\ j.pc \in {"record", "save"}
        BY <3>2, <3>4
    <3> QED
        BY <1>12, <3>3, <3>4 DEF Answered
  <2> QED
      BY <1>12, <1>c, <2>1 DEF Answered, files
<1>13. ASSUME NEW p \in Process, Save(p) PROVE AskedFits' /\ BackOff'
  <2> DEFINE c == [job[p].cache EXCEPT !.sha = job[p].got, !.source = job[p].url,
                                       !.tag = job[p].tag]
  <2>1. [job[p] EXCEPT !.pc = "record", !.cache = c].pc = "record"
      BY <1>p DEF Refresh
  <2>2. job' = [job EXCEPT ![p] = [job[p] EXCEPT !.pc = "record", !.cache = c]]
      BY <1>13 DEF Save
  <2> HIDE DEF c
  <2> QED
      BY <1>13, <1>c, <2>1, <2>2 DEF Save
<1>14. ASSUME NEW p \in Process, Record(p) PROVE AskedFits' /\ BackOff'
  <2>1. /\ job[p].pc = "record" /\ http' = job[p].cache
        /\ asked' = (IF job[p].cache.recent
                     THEN [url |-> job[p].url, index |-> job[p].cache.sha] ELSE NotAsked)
        /\ job' = [job EXCEPT ![p] = Resting]
      BY <1>14 DEF Record, Covered, Finish
  <2>2. job[p].cache.url = job[p].url
      BY <1>0, <2>1 DEF Sound
  <2>3. AskedFits'
      BY <2>1, <2>2 DEF AskedFits
  <2>4. \A q \in Process : job'[q].pc # "attempt"
    <3>1. job'[p].pc = "idle"
        BY <1>j, <1>r, <2>1
    <3>2. \A q \in Process \ {p} : job'[q] = job[q] /\ ~Working(q)
        BY <1>j, <1>l, <2>1 DEF Working
    <3> QED
        BY <3>1, <3>2 DEF Working
  <2> QED
      BY <2>3, <2>4 DEF BackOff
<1>15. ASSUME NEW p \in Process, WriteFails(p) PROVE AskedFits' /\ BackOff'
    BY <1>15, <1>c, <1>e, <1>r DEF WriteFails, Finish, files
<1>16. ASSUME NEW p \in Process, Dies(p) PROVE AskedFits' /\ BackOff'
    BY <1>16, <1>c, <1>r DEF Dies, Finish, files
<1>17. ASSUME NEW url \in URL, Publish(url) PROVE AskedFits' /\ BackOff'
    BY <1>17, <1>d DEF Publish, files
<1>18. CASE IntervalPasses
  <2>1. AskedFits'
      BY <1>18 DEF IntervalPasses, AskedFits
  <2>2. ASSUME NEW p \in Process
        PROVE  job'[p].url = job[p].url /\ job'[p].pc = job[p].pc
      BY <1>18, <1>p DEF IntervalPasses, Refresh
  <2>3. ASSUME NEW p \in Process, job'[p].pc = "attempt" PROVE asked'.url # job'[p].url
    <3>1. job'[p].url \in URL
        BY <1>0, <2>2, <2>3 DEF Sound
    <3> QED
        BY <1>18, <1>n, <3>1 DEF IntervalPasses
  <2> QED
      BY <2>1, <2>3 DEF BackOff
<1>19. CASE Edit
    BY <1>19, <1>d DEF Edit
<1>20. CASE DeleteCache
  <2>1. AskedFits'
      BY <1>20 DEF DeleteCache, AskedFits
  <2>2. ASSUME NEW p \in Process, job[p].pc = "attempt" PROVE asked'.url # job[p].url
      BY <1>0, <1>20, <1>n, <2>2 DEF DeleteCache, Sound
  <2> QED
      BY <1>20, <2>1, <2>2 DEF BackOff, DeleteCache
<1>21. CASE UNCHANGED vars
    BY <1>21, <1>d DEF vars, files
<1> QED
    BY <1>1, <1>2, <1>3, <1>4, <1>5, <1>6, <1>7, <1>8, <1>9, <1>10, <1>11, <1>12,
       <1>13, <1>14, <1>15, <1>16, <1>17, <1>18, <1>19, <1>20, <1>21 DEF Next, refreshIndex

-----------------------------------------------------------------------------
(* The invariant holds throughout. *)
THEOREM Invariance == Spec => []IInv
<1>1. IInv /\ [Next]_vars => IInv'
    BY TypesKept, LockKept, FitsKept, AskedKept DEF IInv
<1> QED
    BY InitHolds, <1>1, PTL DEF Spec

(* Every variable keeps its type, for any commands, sources and versions.  *)
THEOREM TypeCorrect == Spec => []TypeOK
<1>1. IInv => TypeOK
    BY DEF IInv
<1> QED
    BY Invariance, <1>1, PTL

(* No two refreshes overlap (background.go:52).                            *)
THEOREM Exclusive == Spec => []OneRefresh
<1>1. IInv => OneRefresh
    BY DEF IInv, LockInv, Working, OneRefresh
<1> QED
    BY Invariance, <1>1, PTL

(* A conditional request is about an index of the source it goes to and    *)
(* names no later version of it, and a source is not asked again within    *)
(* the interval (index.go:127-142, 160-169).                               *)
THEOREM RequestsAreFit == Spec => []RequestsFit
<1>1. ASSUME IInv PROVE Vouched
    BY <1>1 DEF IInv, CachesFit, Sound, Fits, Vouched, Conditional
<1>2. IInv => RequestsFit
    BY <1>1 DEF IInv, RequestsFit
<1> QED
    BY Invariance, <1>2, PTL

(* A background update does not replace an index by an older one of the    *)
(* same source (index.go:205-208).                                         *)
THEOREM NeverBack == Spec => NoRollback
<1> DEFINE Kept(p) == /\ job[p].pc = "save" /\ job'[p].pc = "record"
                      /\ job[p].automatic
                      /\ index # Unusable
                      /\ index = job[p].local
                      /\ index.from \in {job[p].url, User}
                      => index'.at >= index.at
<1>1. ASSUME IInv, Next, NEW p \in Process, job[p].pc = "save", job'[p].pc = "record",
             job[p].automatic, index # Unusable, index = job[p].local,
             index.from \in {job[p].url, User}
      PROVE  index'.at >= index.at
  <2> USE IndexAssumption
  <2>1. job \in [Process -> Refresh] /\ index \in Saved /\ Sound(job[p])
      BY <1>1 DEF IInv, TypeOK, CachesFit
  <2>2. index.at \in Int
      BY <1>1, <2>1 DEF Saved, Doc
  <2>3. index' = index \/ index' = job[p].got
    <3>1. CASE Edit
        BY <1>1, <3>1 DEF Edit
    <3>2. ASSUME NEW q \in Process, Save(q) PROVE index' = index \/ index' = job[p].got
      <4>1. p # q => job'[p] = job[p]
          BY <2>1, <3>2 DEF Save
      <4> QED
          BY <1>1, <3>2, <4>1 DEF Save
    <3> QED
        BY <1>1, <3>1, <3>2 DEF Next, refreshIndex, TryUpdateLock, Spawn, CloseCopy, Update,
           WaitLock, WaitInterrupted, Read, BacksOff, Attempt, RequestFails, NotModified,
           Answered, Record, WriteFails, Dies, Publish, IntervalPasses, DeleteCache, files
  <2>4. job[p].previous \in {NoUrl, job[p].url}
    <3>1. job[p].previous \in URL \cup {NoUrl}
        BY <2>1 DEF Refresh
    <3> QED
        BY <1>1, <2>1, <3>1 DEF Sound
  <2>5. job[p].got.at >= job[p].local.at
    <3>1. ~(job[p].got.at < job[p].local.at)
        BY <1>1, <2>1, <2>4 DEF Sound
    <3>2. job[p].got \in Doc
        BY <1>1, <2>1 DEF Sound
    <3>3. job[p].got.at \in Int
        BY <3>2 DEF Doc
    <3> QED
        BY <1>1, <2>2, <3>1, <3>3
  <2> QED
      BY <1>1, <2>2, <2>3, <2>5
<1>2. IInv /\ [Next]_vars => [\A p \in Process : Kept(p)]_vars
    BY <1>1
<1> QED
    BY Invariance, <1>2, PTL DEF Spec, NoRollback
=============================================================================
