---------------------------- MODULE ProjectExport ----------------------------
(***************************************************************************)
(* oo export --install: an archive is published into a directory, and the  *)
(* DevEco project there is signed, built and installed on a device, by     *)
(* tools that need two of its configuration files changed for a while.     *)
(* The steps of a run are those of ExportWithOptions, install and          *)
(* buildAndInstall; the files are shared with the user, with other runs    *)
(* and with whatever builds the project besides.                           *)
(*                                                                         *)
(* A configuration file is the number of the edit that wrote it and what   *)
(* oo has put on top.  A package is the build it comes from and the device *)
(* whose profile signed it; the SDK's and oo's checks of its signature,    *)
(* bundle and version accept it for that device and no other.              *)
(***************************************************************************)
EXTENDS Integers, Sequences

CONSTANTS
    Process,    \* runs of oo export --install on one destination
    Project,    \* what they may be asked to export
    Walk,       \* the archive's entries, directories before what is in them
    Parent,     \* the directory of each entry, or Root
    Root,       \* the destination
    Unit,       \* devices
    Nobody,     \* no process, project, unit
    MaxEdits,   \* edits of the configuration
    MaxBuilds,  \* packages built
    MaxFaults   \* kills and failed writes

Entry == {Walk[i] : i \in DOMAIN Walk}

ASSUME ExportAssumption ==
    /\ Nobody \notin Process \cup Project \cup Unit
    /\ Root \notin Entry
    /\ Walk \in Seq(Entry)
    /\ Parent \in [Entry -> Entry \cup {Root}]
    /\ MaxEdits \in Nat /\ MaxBuilds \in Nat /\ MaxFaults \in Nat

VARIABLES
    tree,       \* who created each entry of the destination
    marker,     \* .oo-export-install.json
    config,     \* build-profile.json5 and oh-package.json5
    journal,    \* their recovery journals
    artifact,   \* the signed package in the build directory
    attached,   \* the unit at the device's HDC address
    installed,  \* the package on each unit
    lock,       \* .oo-export-install.lock
    job,        \* the runs: step and local variables
    wanted,     \* history: what each configuration file should come back to
    edits, builds, faults

project  == <<tree, marker>>
settings == <<config, journal, wanted>>
device   == <<artifact, attached, installed>>
bounds   == <<edits, builds, faults>>
vars     == <<project, settings, device, lock, job, bounds>>

File == {"profile", "manifest"}

Content == [edit : 0..MaxEdits, signed : BOOLEAN, patched : BOOLEAN]
Exported == [edit |-> 0, signed |-> FALSE, patched |-> FALSE]
Patch(content) == [content EXCEPT !.patched = TRUE]

NoJournal == [original |-> Exported, patched |-> Exported]
Journal == [original : Content, patched : Content]
Journaled(f) == journal[f] # NoJournal

NoPackage == [build |-> 0, unit |-> Nobody]
Package == [build : 0..MaxBuilds, unit : Unit \cup {Nobody}]

Status == {"none", "exported", "installed"}
NoMarker == [project |-> Nobody, status |-> "none", unit |-> Nobody]

Resting == [pc |-> "idle", project |-> Nobody, created |-> 0,
            todo |-> <<>>, next |-> "idle", failed |-> FALSE,
            loaded |-> Exported, original |-> Exported, udid |-> Nobody,
            before |-> NoPackage, snapshot |-> NoPackage]

Init ==
    /\ tree = [e \in Entry |-> "none"]
    /\ marker = NoMarker
    /\ config = [f \in File |-> Exported]
    /\ journal = [f \in File |-> NoJournal]
    /\ artifact = NoPackage
    /\ attached \in Unit \cup {Nobody}
    /\ installed = [u \in Unit |-> NoPackage]
    /\ lock = Nobody
    /\ job = [p \in Process |-> Resting]
    /\ wanted = config
    /\ edits = 0 /\ builds = 0 /\ faults = 0

At(p, pc) == job[p].pc = pc
Goto(p, pc) == job' = [job EXCEPT ![p].pc = pc]

(* Returning closes the lock and removes the private work directory. *)
Leave(p) ==
    /\ job' = [job EXCEPT ![p] = Resting]
    /\ lock' = Nobody

-----------------------------------------------------------------------------
(* ExportWithOptions, up to the marker, and publishProject. *)

Enter(p) ==
    /\ At(p, "idle")
    /\ lock = Nobody
    /\ lock' = p
    /\ \E asked \in Project :
           job' = [job EXCEPT ![p] = [Resting EXCEPT !.pc = "resume",
                                                     !.project = asked]]
    /\ UNCHANGED <<project, settings, device, bounds>>

(* A directory with a marker is resumed, unless it is another project's. *)
Resume(p) ==
    /\ At(p, "resume")
    /\ marker # NoMarker
    /\ IF marker.project = job[p].project
       THEN /\ job' = [job EXCEPT ![p].pc = "restore",
                                  ![p].todo = <<"profile", "manifest">>,
                                  ![p].next = "load"]
            /\ UNCHANGED lock
       ELSE Leave(p)
    /\ UNCHANGED <<project, settings, device, bounds>>

Top == {e \in Entry : Parent[e] = Root}

(* The archive is downloaded and unpacked elsewhere first; a destination   *)
(* that has one of its top-level names is refused.                         *)
Preflight(p) ==
    /\ At(p, "resume")
    /\ marker = NoMarker
    /\ \/ (\A e \in Top : tree[e] = "none") /\ Goto(p, "copy") /\ UNCHANGED lock
       \/ Leave(p)
    /\ UNCHANGED <<project, settings, device, bounds>>

Present(e) == e \in {Root} \cup {x \in Entry : tree[x] # "none"}

(* Mutant: files are created over what is there. *)
FreeAlways(e) == Present(Parent[e])

(* Directories are made and files created exclusively. *)
Free(e) == Present(Parent[e]) /\ tree[e] = "none"

Copy(p) ==
    LET e == Walk[job[p].created + 1]
    IN  /\ At(p, "copy")
        /\ job[p].created < Len(Walk)
        /\ Free(e)
        /\ tree' = [tree EXCEPT ![e] = "ours"]
        /\ job' = [job EXCEPT ![p].created = @ + 1]
        /\ UNCHANGED <<marker, settings, device, lock, bounds>>

(* A name that is taken by now, an error, or an interruption; the last     *)
(* entry may fail too, after it has been created.                          *)
CopyFails(p) ==
    /\ At(p, "copy")
    /\ Goto(p, "undo")
    /\ UNCHANGED <<project, settings, device, lock, bounds>>

Empty(e) == \A c \in Entry : Parent[c] = e => tree[c] = "none"

(* Mutant: what was created first is removed first. *)
LatestFirst(p) == Walk[1]

Latest(p) == Walk[job[p].created]

(* What was created goes, latest first; a directory somebody has put       *)
(* something into stays.                                                   *)
Undo(p) ==
    /\ At(p, "undo")
    /\ job[p].created > 0
    /\ tree' = IF Empty(Latest(p))
               THEN [tree EXCEPT ![Latest(p)] = "none"] ELSE tree
    /\ job' = [job EXCEPT ![p].created = @ - 1]
    /\ UNCHANGED <<marker, settings, device, lock, bounds>>

Undone(p) ==
    /\ At(p, "undo")
    /\ job[p].created = 0
    /\ Leave(p)
    /\ UNCHANGED <<project, settings, device, bounds>>

Mark(p) ==
    /\ At(p, "copy")
    /\ job[p].created = Len(Walk)
    /\ marker' = [project |-> job[p].project, status |-> "exported",
                  unit |-> Nobody]
    /\ job' = [job EXCEPT ![p].pc = "restore",
                          ![p].todo = <<"profile", "manifest">>,
                          ![p].next = "load"]
    /\ UNCHANGED <<tree, settings, device, lock, bounds>>

export(p) ==
    \/ Enter(p) \/ Resume(p) \/ Preflight(p) \/ Copy(p) \/ CopyFails(p)
    \/ Undo(p) \/ Undone(p) \/ Mark(p)

-----------------------------------------------------------------------------
(* restoreProjectConfiguration, for the files in todo one after the other. *)

Restoring(p, f) ==
    /\ At(p, "restore")
    /\ job[p].todo # <<>>
    /\ f = Head(job[p].todo)

Done(p) == [job EXCEPT ![p].todo = Tail(@)]

NothingToRestore(p, f) ==
    /\ Restoring(p, f)
    /\ ~Journaled(f)
    /\ job' = Done(p)
    /\ UNCHANGED <<project, settings, device, lock, bounds>>

IsPatched(f) == config[f] = journal[f].patched

PutBack(p, f) ==
    /\ Restoring(p, f)
    /\ Journaled(f)
    /\ config[f] # journal[f].original
    /\ IsPatched(f)
    /\ config' = [config EXCEPT ![f] = journal[f].original]
    /\ UNCHANGED <<project, journal, wanted, device, lock, job, bounds>>

DropJournal(p, f) ==
    /\ Restoring(p, f)
    /\ Journaled(f)
    /\ config[f] = journal[f].original
    /\ journal' = [journal EXCEPT ![f] = NoJournal]
    /\ job' = Done(p)
    /\ UNCHANGED <<project, config, wanted, device, lock, bounds>>

(* The file is the user's by now: it stays, and so does its journal. *)
CannotRestore(p, f) ==
    /\ Restoring(p, f)
    /\ Journaled(f)
    /\ config[f] # journal[f].original
    /\ ~IsPatched(f)
    /\ job' = [Done(p) EXCEPT ![p].failed = TRUE]
    /\ UNCHANGED <<project, settings, device, lock, bounds>>

Both == <<"profile", "manifest">>

(* A restoration that fails inside buildAndInstall is an error there, and  *)
(* the deferred one tries both files once more.                            *)
Restored(p) ==
    /\ At(p, "restore")
    /\ job[p].todo = <<>>
    /\ \/ ~job[p].failed /\ Goto(p, job[p].next) /\ UNCHANGED lock
       \/ job[p].failed /\ job[p].next \in {"load", "idle"} /\ Leave(p)
       \/ /\ job[p].failed /\ job[p].next \in {"build", "stamps"}
          /\ job' = [job EXCEPT ![p].todo = Both, ![p].next = "idle"]
          /\ UNCHANGED lock
    /\ UNCHANGED <<project, settings, device, bounds>>

restoreProjectProfile(p) ==
    \/ \E f \in File : \/ NothingToRestore(p, f) \/ PutBack(p, f)
                       \/ DropJournal(p, f) \/ CannotRestore(p, f)
    \/ Restored(p)

-----------------------------------------------------------------------------
(* install: metadata, tools, device and signing. *)

(* Everything before the profile's journal, and after the restoration that *)
(* follows the build, fails without leaving anything to undo.              *)
Stops == {"load", "prepare", "select", "material", "sign", "fresh", "read",
          "stamps", "verify", "recheck", "install", "confirm"}

Stop(p) ==
    /\ job[p].pc \in Stops
    /\ Leave(p)
    /\ UNCHANGED <<project, settings, device, bounds>>

LoadMetadata(p) ==
    /\ At(p, "load")
    /\ job' = [job EXCEPT ![p].pc = "prepare", ![p].loaded = config["profile"]]
    /\ UNCHANGED <<project, settings, device, lock, bounds>>

(* Command Line Tools and Node.js, installed if need be, and the proxy. *)
PrepareTools(p) ==
    /\ At(p, "prepare")
    /\ Goto(p, "select")
    /\ UNCHANGED <<project, settings, device, lock, bounds>>

(* Rescans until there is a device whose UDID can be read. *)
SelectDevice(p) ==
    /\ At(p, "select")
    /\ attached # Nobody
    /\ job' = [job EXCEPT ![p].pc = "material", ![p].udid = attached]
    /\ UNCHANGED <<project, settings, device, lock, bounds>>

(* Signing material of the profile that is good for this device is used as *)
(* it is; otherwise debug signing is generated, under locks of its own.    *)
VerifyMaterial(p) ==
    /\ At(p, "material")
    /\ \/ Goto(p, "fresh")
       \/ Goto(p, "sign")
    /\ UNCHANGED <<project, settings, device, lock, bounds>>

(* The profile as it is by then, not as it was loaded, takes the result.   *)
GenerateSigning(p) ==
    LET signed == [config["profile"] EXCEPT !.signed = TRUE]
    IN  /\ At(p, "sign")
        /\ config' = [config EXCEPT !["profile"] = signed]
        /\ wanted' = [wanted EXCEPT !["profile"] = signed]
        /\ job' = [job EXCEPT ![p].pc = "fresh", ![p].loaded = signed]
        /\ UNCHANGED <<project, journal, device, lock, bounds>>

install(p) ==
    \/ LoadMetadata(p) \/ PrepareTools(p) \/ SelectDevice(p)
    \/ VerifyMaterial(p) \/ GenerateSigning(p)

-----------------------------------------------------------------------------
(* buildAndInstall *)

(* What the user has changed since must not touch the product built. *)
CheckFresh(p) ==
    /\ At(p, "fresh")
    /\ Goto(p, "read")
    /\ UNCHANGED <<project, settings, device, lock, bounds>>

ReadProfile(p) ==
    /\ At(p, "read")
    /\ job' = [job EXCEPT ![p].pc = "journal", ![p].original = config["profile"]]
    /\ UNCHANGED <<project, settings, device, lock, bounds>>

(* The profile to build with is the one loaded, patched. *)
JournalProfile(p) ==
    /\ At(p, "journal")
    /\ journal' = [journal EXCEPT !["profile"] =
                      [original |-> job[p].original,
                       patched  |-> Patch(job[p].loaded)]]
    /\ Goto(p, "patch")
    /\ UNCHANGED <<project, config, wanted, device, lock, bounds>>

PatchProfile(p) ==
    /\ At(p, "patch")
    /\ config' = [config EXCEPT !["profile"] = journal["profile"].patched]
    /\ Goto(p, "outputs")
    /\ UNCHANGED <<project, journal, wanted, device, lock, bounds>>

(* A write of either fails: no restoration has been deferred yet. *)
CannotPatch(p) ==
    /\ job[p].pc \in {"journal", "patch"}
    /\ faults < MaxFaults
    /\ faults' = faults + 1
    /\ Leave(p)
    /\ UNCHANGED <<project, settings, device, edits, builds>>

(* An error from here on goes through the deferred restorations: of the    *)
(* manifest alone where installDependencies deferred it, then of both.     *)
Unwound(p) ==
    [job EXCEPT ![p].pc = "restore", ![p].next = "idle", ![p].failed = TRUE,
                ![p].todo = IF job[p].pc \in {"depsPatch", "ohpm"}
                            THEN <<"manifest">> \o Both ELSE Both]

Unwind(p) ==
    /\ job[p].pc \in {"outputs", "deps", "depsJournal", "depsPatch", "ohpm",
                      "build"}
    /\ job' = Unwound(p)
    /\ UNCHANGED <<project, settings, device, lock, bounds>>

PackageOutputs(p) ==
    /\ At(p, "outputs")
    /\ job' = [job EXCEPT ![p].pc = "deps", ![p].before = artifact]
    /\ UNCHANGED <<project, settings, device, lock, bounds>>

(* Only a manifest that lists Hvigor or its plugin is patched. *)
ReadManifest(p) ==
    /\ At(p, "deps")
    /\ \/ Goto(p, "ohpm")
       \/ /\ ~config["manifest"].patched
          /\ job' = [job EXCEPT ![p].pc = "depsJournal",
                                ![p].original = config["manifest"]]
    /\ UNCHANGED <<project, settings, device, lock, bounds>>

SaveRecovery(p) ==
    /\ At(p, "depsJournal")
    /\ ~Journaled("manifest")
    /\ journal' = [journal EXCEPT !["manifest"] =
                      [original |-> job[p].original,
                       patched  |-> Patch(job[p].original)]]
    /\ Goto(p, "depsPatch")
    /\ UNCHANGED <<project, config, wanted, device, lock, bounds>>

(* Mutant: the manifest is not read again before it is written. *)
UnchangedAnyway(p) == TRUE

UnchangedManifest(p) == config["manifest"] = job[p].original

PatchManifest(p) ==
    /\ At(p, "depsPatch")
    /\ UnchangedManifest(p)
    /\ config' = [config EXCEPT !["manifest"] = journal["manifest"].patched]
    /\ Goto(p, "ohpm")
    /\ UNCHANGED <<project, journal, wanted, device, lock, bounds>>

RestoreThen(p, todo, next) ==
    job' = [job EXCEPT ![p].pc = "restore", ![p].todo = todo, ![p].next = next]

Ohpm(p) ==
    /\ At(p, "ohpm")
    /\ RestoreThen(p, <<"manifest">>, "build")
    /\ UNCHANGED <<project, settings, device, lock, bounds>>

Packages(n) == {[build |-> n, unit |-> u] : u \in Unit \cup {Nobody}}

(* Hvigor succeeds, with or without a new package. *)
Build(p) ==
    /\ At(p, "build")
    /\ RestoreThen(p, Both, "stamps")
    /\ \/ UNCHANGED <<artifact, builds>>
       \/ /\ builds < MaxBuilds
          /\ builds' = builds + 1
          /\ artifact' \in Packages(builds')
    /\ UNCHANGED <<project, settings, attached, installed, lock, edits, faults>>

(* A package that is new since the build began is copied; from then on     *)
(* only the copy is looked at.                                             *)
Snapshot(p) ==
    /\ At(p, "stamps")
    /\ artifact \notin {NoPackage, job[p].before}
    /\ job' = [job EXCEPT ![p].pc = "verify", ![p].snapshot = artifact]
    /\ UNCHANGED <<project, settings, device, lock, bounds>>

VerifyPackage(p) ==
    /\ At(p, "verify")
    /\ job[p].snapshot.unit = job[p].udid
    /\ Goto(p, "recheck")
    /\ UNCHANGED <<project, settings, device, lock, bounds>>

(* Mutant: the device is not asked for its identity again. *)
SameDeviceAnyway(p) == attached # Nobody

SameDevice(p) == attached = job[p].udid

Recheck(p) ==
    /\ At(p, "recheck")
    /\ SameDevice(p)
    /\ Goto(p, "install")
    /\ UNCHANGED <<project, settings, device, lock, bounds>>

(* hdc install replaces what is there; its report may still be an error. *)
Install(p) ==
    /\ At(p, "install")
    /\ attached # Nobody
    /\ installed' = [installed EXCEPT ![attached] = job[p].snapshot]
    /\ \/ Goto(p, "confirm") /\ UNCHANGED lock
       \/ Leave(p)
    /\ UNCHANGED <<project, settings, artifact, attached, bounds>>

Confirm(p) ==
    /\ At(p, "confirm")
    /\ marker' = [marker EXCEPT !.status = "installed", !.unit = job[p].udid]
    /\ Leave(p)
    /\ UNCHANGED <<tree, settings, device, bounds>>

buildAndInstall(p) ==
    \/ CheckFresh(p) \/ ReadProfile(p) \/ JournalProfile(p)
    \/ PatchProfile(p) \/ CannotPatch(p) \/ PackageOutputs(p)
    \/ ReadManifest(p) \/ SaveRecovery(p) \/ PatchManifest(p) \/ Ohpm(p)
    \/ Build(p) \/ Snapshot(p) \/ VerifyPackage(p) \/ Recheck(p)
    \/ Install(p) \/ Confirm(p) \/ Unwind(p)

-----------------------------------------------------------------------------
(* Kills, and the user beside a run. *)

Killed(p) ==
    /\ ~At(p, "idle")
    /\ faults < MaxFaults
    /\ faults' = faults + 1
    /\ Leave(p)
    /\ UNCHANGED <<project, settings, device, edits, builds>>

(* Between reading the profile and writing it nothing looks whether it has *)
(* changed: an edit at that moment is lost, and left out here.             *)
Unwatched(f) ==
    f = "profile" /\ \E p \in Process : job[p].pc \in {"journal", "patch"}

Edit(f) ==
    /\ marker # NoMarker
    /\ ~Unwatched(f)
    /\ edits < MaxEdits
    /\ edits' = edits + 1
    /\ config' = [config EXCEPT ![f].edit = edits']
    /\ wanted' = [wanted EXCEPT ![f] = config'[f]]
    /\ UNCHANGED <<project, journal, device, lock, job, builds, faults>>

(* A file that oo will not restore is settled by hand: what it holds now   *)
(* stays, and its journal is deleted.                                      *)
Settle(f) ==
    /\ lock = Nobody
    /\ Journaled(f)
    /\ config[f] \notin {journal[f].original, journal[f].patched}
    /\ journal' = [journal EXCEPT ![f] = NoJournal]
    /\ UNCHANGED <<project, config, wanted, device, lock, job, bounds>>

CreateEntry(e) ==
    /\ marker = NoMarker
    /\ tree[e] = "none"
    /\ Present(Parent[e])
    /\ tree' = [tree EXCEPT ![e] = "user"]
    /\ UNCHANGED <<marker, settings, device, lock, job, bounds>>

(* Another unit answers at the address, but not between oo's last look at  *)
(* it and the installation.                                                *)
Reattach ==
    /\ \A p \in Process : ~At(p, "install")
    /\ attached' \in (Unit \cup {Nobody}) \ {attached}
    /\ UNCHANGED <<project, settings, artifact, installed, lock, job, bounds>>

(* The user's own build writes the same file. *)
Rebuild ==
    /\ marker # NoMarker
    /\ builds < MaxBuilds
    /\ builds' = builds + 1
    /\ artifact' \in Packages(builds')
    /\ UNCHANGED <<project, settings, attached, installed, lock, job,
                   edits, faults>>

Run(p) ==
    \/ export(p) \/ restoreProjectProfile(p) \/ install(p)
    \/ buildAndInstall(p) \/ Stop(p)

Next ==
    \/ \E p \in Process : Run(p) \/ Killed(p)
    \/ \E f \in File : Edit(f) \/ Settle(f)
    \/ \E e \in Entry : CreateEntry(e)
    \/ Reattach \/ Rebuild

Spec == Init /\ [][Next]_vars

-----------------------------------------------------------------------------
(* A configuration file holds what the user or the signing last wrote, or  *)
(* it holds oo's patch and its journal holds what was last written.        *)
ConfigRecoverable ==
    \A f \in File :
        \/ config[f] = wanted[f]
        \/ /\ journal[f].original = wanted[f]
           /\ config[f] = journal[f].patched

(* From the end of the build on, no file is patched: what is verified and  *)
(* installed never leaves a project that waits to be restored, and success *)
(* is only reported for a project as its user has it.                      *)
InstallsRestored ==
    \A p \in Process :
        job[p].pc \in {"stamps", "verify", "recheck", "install", "confirm"}
            => \A f \in File : ~Journaled(f)

(* Neither configuration file is ever lost, through kills, failures and    *)
(* edits at any other step: the next run can put it back, and one that     *)
(* succeeds has done so (project_recovery.go:45-46, 106).                  *)
ConfigKept == ConfigRecoverable /\ InstallsRestored

(* A device gets only the very package that was verified for it, whatever  *)
(* is built, reattached or edited meanwhile (project_snapshot.go:13,       *)
(* project_build.go:170-177).                                              *)
InstalledIsVerified ==
    \A u \in Unit : installed[u] # NoPackage => installed[u].unit = u

(* Publishing never replaces or deletes an entry that oo did not create    *)
(* (export.go:90-92).                                                      *)
UserEntriesKept ==
    [][\A e \in Entry : tree[e] = "user" => tree'[e] = "user"]_vars

(* An export that fails leaves nothing of its own behind, except the       *)
(* directories somebody has put something into.                            *)
UserIn(e) == \E c \in Entry : tree[c] = "user" /\ Parent[c] = e

UndoneIsClean ==
    \A p \in Process :
        At(p, "undo") /\ job[p].created = 0
            => \A e \in Entry : tree[e] = "ours" =>
                   \/ UserIn(e)
                   \/ \E c \in Entry : Parent[c] = e /\ tree[c] = "ours"
=============================================================================
