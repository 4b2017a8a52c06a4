---------------------------- MODULE ServiceFiles ----------------------------
(***************************************************************************)
(* The two files that commands of the daemon package change under a lock,  *)
(* through a journal that is renamed over them:                            *)
(*                                                                         *)
(*   zshrc    the block of "oo daemon autoload [--remove]" in .zshrc, which *)
(*            belongs to the user; editors and other tools change it       *)
(*            without asking for the lock, so that a command looks again   *)
(*            whether it is still the file it has read;                    *)
(*   enabled  services/.state/enabled.json, changed by "oo daemon enable"  *)
(*            and "disable", and read by daemons without the lock.         *)
(*                                                                         *)
(* They have nothing in common but this protocol: a behaviour is about one *)
(* of them.                                                                *)
(*                                                                         *)
(* A text is a sequence of lines and whether the last one lacks its        *)
(* newline.  A line is the sequence of the pieces it was written in: the   *)
(* user's words, oo's marker lines, and the command that starts the daemon *)
(* of a root.                                                              *)
(***************************************************************************)
EXTENDS Integers, Sequences, SequencesExt

CONSTANTS
    Process,    \* the commands
    Root,       \* values of OHECO_ROOT
    Word,       \* lines of the user
    Service,    \* names of services
    Absent,     \* no .zshrc
    Partial,    \* a file that is not completely written
    Nothing,    \* what a command that has read nothing knows
    Free,       \* nobody has the lock
    MaxEdits,   \* changes of .zshrc or of a definition by the user
    MaxFaults   \* kills and failed writes

(* What a line is written in, and what can be in a file. *)
Piece == Word \cup Root \cup {"start", "end", "sep"}
Line  == Seq(Piece) \ {<<>>}
Texts == [lines : Seq(Line), open : BOOLEAN]

(* The command that starts a daemon is neither a marker nor the user's. *)
ASSUME FilesAssumption ==
    /\ Root \cap Word = {}
    /\ Root \cap {"start", "end", "sep"} = {}
    /\ Absent \notin Texts /\ Partial \notin Texts
    /\ Free \notin Process
    /\ MaxEdits \in Nat
    /\ MaxFaults \in Nat

VARIABLES
    about,      \* the file this behaviour is about
    zshrc,      \* the file .zshrc resolves to
    enabled,    \* enabled.json; without the file nothing is enabled
    next,       \* the journal beside it
    holder,     \* who has its lock
    run,        \* the commands: step and local variables
    replaced,   \* those for whom .zshrc is not the file they have looked at
    valid,      \* services with a definition that validates
    boot,       \* the daemon: what it has read, started and failed to start
    edits,
    kills

vars == <<about, zshrc, enabled, next, holder, run, replaced, valid, boot, edits, kills>>

Start == <<"start">>    \* the marker lines
End   == <<"end">>
Sep   == <<"sep">>      \* "preceding newline added"

Text(lines, open) == [lines |-> lines, open |-> open]
Empty == Text(<<>>, FALSE)

-----------------------------------------------------------------------------
(* The block.  A marker with anything else on its line is malformed.       *)

Malformed(line) ==
    Len(line) > 1 /\ Head(line) \in {"start", "end"}

At(t, line) == {i \in DOMAIN t.lines : t.lines[i] = line}

(* autoloadFindBlock: no more than one block, closed, and a separator      *)
(* marker only once, behind a line whose newline it stands for.            *)
Refused(t) ==
    LET starts == At(t, Start)
        ends   == At(t, End)
        seps   == {i \in At(t, Sep) : \E s \in starts, e \in ends : s < i /\ i < e}
    IN  \/ \E i \in DOMAIN t.lines : Malformed(t.lines[i])
        \/ \E i, j \in starts : i # j
        \/ \E i, j \in ends : i # j
        \/ (starts = {}) # (ends = {})
        \/ \E s \in starts, e \in ends : e < s
        \/ \E i, j \in seps : i # j
        \/ \E i \in seps, s \in starts : s = 1

HasBlock(t) == At(t, Start) # {}

First(t) == CHOOSE i \in At(t, Start) : TRUE
Final(t) == CHOOSE i \in At(t, End) : TRUE

addedSeparator(t) == \E i \in At(t, Sep) : First(t) < i /\ i < Final(t)

Before(t) == SubSeq(t.lines, 1, First(t) - 1)
After(t)  == SubSeq(t.lines, Final(t) + 1, Len(t.lines))

autoloadScript(root, separator) ==
    <<Start>> \o (IF separator THEN <<Sep>> ELSE <<>>) \o << <<root>>, End>>

(* Without the newline of its last line, the rest goes on on that line. *)
Joined(before, after) ==
    IF before = <<>> \/ after = <<>> THEN before \o after
    ELSE Front(before) \o <<Last(before) \o Head(after)>> \o Tail(after)

(* Mutant: the newline before the block is not remembered. *)
InstalledForgets(t, root) ==
    IF HasBlock(t)
    THEN Text(Before(t) \o autoloadScript(root, addedSeparator(t)) \o After(t), t.open)
    ELSE Text(t.lines \o autoloadScript(root, FALSE), FALSE)

Installed(t, root) ==
    IF HasBlock(t)
    THEN Text(Before(t) \o autoloadScript(root, addedSeparator(t)) \o After(t), t.open)
    ELSE Text(t.lines \o autoloadScript(root, t.open), FALSE)

Removed(t) ==
    IF ~HasBlock(t) THEN t
    ELSE IF addedSeparator(t)
    THEN Text(Joined(Before(t), After(t)), After(t) = <<>> \/ t.open)
    ELSE Text(Before(t) \o After(t), After(t) # <<>> /\ t.open)

Updated(t, mode, root) ==
    IF mode = "install" THEN Installed(t, root) ELSE Removed(t)

-----------------------------------------------------------------------------
(* The protocol of both. *)

Idle == [step |-> "idle", mode |-> "none", names |-> {}, todo |-> {}, existed |-> FALSE,
         original |-> Nothing, updated |-> Nothing]

Off == [up |-> FALSE, wanted |-> {}, started |-> {}, failed |-> {}]

Init ==
    /\ about \in {"zshrc", "enabled"}
    /\ \/ zshrc = Absent
       \/ about = "zshrc" /\ zshrc = Empty
       \/ about = "zshrc" /\ \E w \in Word, open \in BOOLEAN : zshrc = Text(<< <<w>> >>, open)
    /\ enabled = {}
    /\ IF about = "enabled" THEN valid \in SUBSET Service ELSE valid = {}
    /\ next = Absent
    /\ holder = Free
    /\ run = [p \in Process |-> Idle]
    /\ replaced = {}
    /\ boot = Off
    /\ edits = 0
    /\ kills = 0

IsAt(p, step) == run[p].step = step

Goto(p, step) == run' = [run EXCEPT ![p].step = step]

UserKept == UNCHANGED <<about, valid, boot, edits>>

(* Every return, and the kernel after a kill, closes the lock. *)
Return(p) ==
    /\ run' = [run EXCEPT ![p] = Idle]
    /\ holder' = IF holder = p THEN Free ELSE holder
    /\ UserKept /\ UNCHANGED <<zshrc, enabled, next, replaced, kills>>

Call(p, file, mode, names) ==
    /\ about = file
    /\ IsAt(p, "idle")
    /\ run' = [run EXCEPT ![p] = [Idle EXCEPT !.step = "wait", !.mode = mode,
                                              !.names = names, !.todo = names]]
    /\ UserKept /\ UNCHANGED <<zshrc, enabled, next, holder, replaced, kills>>

(* A removal without .zshrc returns at once. *)
Autoload(p, mode, root) ==
    /\ mode = "remove" => zshrc # Absent
    /\ Call(p, "zshrc", mode, {root})

SetEnabled(p, mode, names) == names # {} /\ Call(p, "enabled", mode, names)

Begin == [install |-> "look", remove |-> "look", enable |-> "check", disable |-> "load"]

(* Mutant: the command goes on without the lock. *)
LockNot(p) ==
    /\ IsAt(p, "wait")
    /\ holder' = p
    /\ Goto(p, Begin[run[p].mode])
    /\ UserKept /\ UNCHANGED <<zshrc, enabled, next, replaced, kills>>

(* waitLock *)
Lock(p) ==
    /\ IsAt(p, "wait")
    /\ holder = Free
    /\ holder' = p
    /\ Goto(p, Begin[run[p].mode])
    /\ UserKept /\ UNCHANGED <<zshrc, enabled, next, replaced, kills>>

LockTimesOut(p) ==
    /\ IsAt(p, "wait")
    /\ holder # Free
    /\ Return(p)

(* The journal is opened, emptied and written. *)
Truncate(p) ==
    /\ IsAt(p, "truncate")
    /\ next' = Partial
    /\ Goto(p, "write")
    /\ UserKept /\ UNCHANGED <<zshrc, enabled, holder, replaced, kills>>

Write(p) ==
    /\ IsAt(p, "write")
    /\ next' = run[p].updated
    /\ Goto(p, IF about = "zshrc" THEN "recheck" ELSE "rename")
    /\ UserKept /\ UNCHANGED <<zshrc, enabled, holder, replaced, kills>>

(* A kill, or a failed write of the journal. *)
Dies(p) ==
    /\ ~IsAt(p, "idle")
    /\ kills < MaxFaults
    /\ kills' = kills + 1
    /\ run' = [run EXCEPT ![p] = Idle]
    /\ holder' = IF holder = p THEN Free ELSE holder
    /\ UserKept /\ UNCHANGED <<zshrc, enabled, next, replaced>>

-----------------------------------------------------------------------------
(* Autoload *)

(* Lstat, which later tells whether the name is still this file *)
Look(p) ==
    /\ IsAt(p, "look")
    /\ run' = [run EXCEPT ![p].existed = zshrc # Absent, ![p].step = "read"]
    /\ replaced' = replaced \ {p}
    /\ UserKept /\ UNCHANGED <<zshrc, enabled, next, holder, kills>>

Original == IF zshrc = Absent THEN Empty ELSE zshrc

Edited(p) == CHOOSE t \in {Updated(Original, run[p].mode, r) : r \in run[p].names} : TRUE

(* There is nothing to do, or the file is not one that oo may edit. *)
NothingToDo(p) ==
    \/ zshrc = Absent /\ run[p].mode = "remove"
    \/ Refused(Original)
    \/ ~Refused(Original) /\ Edited(p) = Original

ReadReturns(p) ==
    /\ IsAt(p, "read")
    /\ NothingToDo(p)
    /\ Return(p)

Read(p) ==
    /\ IsAt(p, "read")
    /\ ~NothingToDo(p)
    /\ run' = [run EXCEPT ![p].original = Original, ![p].updated = Edited(p),
                          ![p].step = "truncate"]
    /\ UserKept /\ UNCHANGED <<zshrc, enabled, next, holder, replaced, kills>>

(* Mutant: the file is taken to be the one that was read. *)
SameFileAnyway(p) == (zshrc # Absent) = run[p].existed

SameFile(p) ==
    IF run[p].existed
    THEN zshrc # Absent /\ p \notin replaced /\ zshrc = run[p].original
    ELSE zshrc = Absent

Recheck(p) ==
    /\ IsAt(p, "recheck")
    /\ SameFile(p)
    /\ Goto(p, "rename")
    /\ UserKept /\ UNCHANGED <<zshrc, enabled, next, holder, replaced, kills>>

RecheckFails(p) ==
    /\ IsAt(p, "recheck")
    /\ ~SameFile(p)
    /\ Return(p)

Rename(p) ==
    /\ IsAt(p, "rename")
    /\ about = "zshrc"
    /\ zshrc' = next
    /\ next' = Absent
    /\ replaced' = Process
    /\ run' = [run EXCEPT ![p] = Idle]
    /\ holder' = Free
    /\ UserKept /\ UNCHANGED <<enabled, kills>>

-----------------------------------------------------------------------------
(* setEnabled *)

(* enable reads the definitions of its names one after the other. *)
CheckConfig(p, s) ==
    /\ IsAt(p, "check")
    /\ s \in run[p].todo \cap valid
    /\ run' = [run EXCEPT ![p] =
                   [@ EXCEPT !.todo = run[p].todo \ {s},
                             !.step = IF run[p].todo = {s} THEN "load" ELSE "check"]]
    /\ UserKept /\ UNCHANGED <<zshrc, enabled, next, holder, replaced, kills>>

ConfigFails(p) ==
    /\ IsAt(p, "check")
    /\ ~(run[p].todo \subseteq valid)
    /\ Return(p)

Changed(p, names) ==
    IF run[p].mode = "enable" THEN names \cup run[p].names ELSE names \ run[p].names

Load(p) ==
    /\ IsAt(p, "load")
    /\ run' = [run EXCEPT ![p] = [@ EXCEPT !.updated = Changed(p, enabled),
                                          !.step = "truncate"]]
    /\ UserKept /\ UNCHANGED <<zshrc, enabled, next, holder, replaced, kills>>

(* The rename, after which the lock is still to be closed. *)
Replace(p) ==
    /\ IsAt(p, "rename")
    /\ about = "enabled"
    /\ enabled' = next
    /\ next' = Absent
    /\ Goto(p, "close")
    /\ UserKept /\ UNCHANGED <<zshrc, holder, replaced, kills>>

Close(p) == IsAt(p, "close") /\ Return(p)

Operation(p) ==
    \/ \E mode \in {"install", "remove"}, root \in Root : Autoload(p, mode, root)
    \/ \E mode \in {"enable", "disable"}, names \in SUBSET Service : SetEnabled(p, mode, names)
    \/ Lock(p) \/ LockTimesOut(p) \/ Truncate(p) \/ Write(p) \/ Dies(p)
    \/ Look(p) \/ ReadReturns(p) \/ Read(p) \/ Recheck(p) \/ RecheckFails(p) \/ Rename(p)
    \/ \E s \in Service : CheckConfig(p, s)
    \/ ConfigFails(p) \/ Load(p) \/ Replace(p) \/ Close(p)

-----------------------------------------------------------------------------
(* startEnabled: the daemon waits for the lock, reads the file once and    *)
(* closes the lock; then each service is started by itself, with the       *)
(* definition of that moment.                                              *)
DaemonKept == UNCHANGED <<about, zshrc, enabled, next, holder, run, replaced, edits, kills>>

Boot ==
    /\ about = "enabled"
    /\ ~boot.up
    /\ holder = Free
    /\ boot' = [Off EXCEPT !.up = TRUE, !.wanted = enabled]
    /\ DaemonKept /\ UNCHANGED valid

StartService(s) ==
    /\ s \in boot.wanted \ (boot.started \cup boot.failed)
    /\ boot' = IF s \in valid THEN [boot EXCEPT !.started = @ \cup {s}]
                              ELSE [boot EXCEPT !.failed = @ \cup {s}]
    /\ DaemonKept /\ UNCHANGED valid

Shutdown ==
    /\ boot.up
    /\ boot' = Off
    /\ DaemonKept /\ UNCHANGED valid

-----------------------------------------------------------------------------
(* The user, who does not touch .zshrc in the moment between the last look *)
(* and the rename.                                                         *)

MayEdit ==
    /\ about = "zshrc"
    /\ edits < MaxEdits
    /\ \A p \in Process : ~IsAt(p, "rename")
    /\ edits' = edits + 1
    /\ UNCHANGED <<about, enabled, next, holder, run, valid, boot, kills>>

(* echo ... >> .zshrc *)
Extend(w) ==
    /\ MayEdit
    /\ zshrc # Absent
    /\ zshrc' = Text(IF zshrc.open THEN Joined(zshrc.lines, << <<w>> >>)
                     ELSE Append(zshrc.lines, <<w>>), FALSE)
    /\ UNCHANGED replaced

(* An editor saves a new file: with another first line, without a line, or *)
(* with or without the final newline.                                      *)
Saved(t, w) ==
    {Text(<< <<w>> >> \o t.lines, t.open)}
    \cup {Text(RemoveAt(t.lines, i), t.open /\ i # Len(t.lines)) : i \in DOMAIN t.lines}
    \cup (IF t.lines = <<>> THEN {} ELSE {Text(t.lines, ~t.open)})

Save(w) ==
    /\ MayEdit
    /\ zshrc # Absent
    /\ zshrc' \in Saved(zshrc, w)
    /\ replaced' = Process

Delete ==
    /\ MayEdit
    /\ zshrc # Absent
    /\ zshrc' = Absent
    /\ replaced' = Process

Create(w) ==
    /\ MayEdit
    /\ zshrc = Absent
    /\ zshrc' = Text(<< <<w>> >>, FALSE)
    /\ replaced' = Process

(* A definition appears, is repaired, breaks or goes. *)
Define(s) ==
    /\ about = "enabled"
    /\ edits < MaxEdits
    /\ edits' = edits + 1
    /\ valid' = IF s \in valid THEN valid \ {s} ELSE valid \cup {s}
    /\ UNCHANGED <<about, zshrc, enabled, next, holder, run, replaced, boot, kills>>

Next ==
    \/ \E p \in Process : Operation(p)
    \/ \E s \in Service : StartService(s) \/ Define(s)
    \/ \E w \in Word : Extend(w) \/ Save(w) \/ Create(w)
    \/ Boot \/ Shutdown \/ Delete

Spec == Init /\ [][Next]_vars

-----------------------------------------------------------------------------
(* What is not oo's. *)
Others(t) == IF t = Absent THEN <<>>
             ELSE IF HasBlock(t) THEN Before(t) \o After(t) ELSE t.lines

(* Whatever the user, other commands and kills have done since a command   *)
(* has read .zshrc, the rename leaves every word outside the block, in its *)
(* order, and a file that oo can edit again: the recheck of file and bytes *)
(* and the journal, which one command at a time writes (autoload.go        *)
(* 105-118, 168-198).  A file that was created and deleted again after     *)
(* Lstat may come back as it was read.                                     *)
OthersKept ==
    [][edits' = edits /\ zshrc' # zshrc =>
          /\ zshrc' \notin {Absent, Partial}
          /\ ~Refused(zshrc')
          /\ zshrc # Absent =>
                FlattenSeq(Others(zshrc')) = FlattenSeq(Others(zshrc))]_vars

(* For every file the user can come to have, a second install changes      *)
(* nothing, and a removal gives the file back, with or without the newline *)
(* at its end: the separator that install adds is remembered in the block  *)
(* and in each later version of it (autoload.go 17-19, 124-150).           *)
RoundTrip ==
    zshrc # Absent /\ ~Refused(zshrc) =>
        \A r, s \in Root :
            LET once == Installed(zshrc, r)
            IN  /\ ~Refused(once)
                /\ Installed(once, r) = once
                /\ ~HasBlock(zshrc) => Removed(Installed(once, s)) = zshrc

(* Every change of enabled.json is one whole command, applied to the file  *)
(* as it then is: commands at the same time do not undo one another,       *)
(* whatever was killed before, and no daemon that starts reads half a file *)
(* (config.go 245-272, 358-394).                                           *)
EachCallInTurn ==
    [][enabled' # enabled =>
          \E p \in Process :
              IsAt(p, "rename") /\ enabled' = Changed(p, enabled)]_vars

(* README.md:237 says that the rest of the configuration is kept.  It is   *)
(* not when the user has added lines behind a block whose separator oo     *)
(* remembers: remove takes the newline away, and the last line before the  *)
(* block and the first one behind it become one (autoload.go 135-141).     *)
LinesKept ==
    [][edits' = edits /\ zshrc \notin {zshrc', Absent} =>
          Others(zshrc') = Others(zshrc)]_vars
=============================================================================
