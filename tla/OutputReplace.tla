---------------------------- MODULE OutputReplace ----------------------------
(***************************************************************************)
(* How eventheader-gen installs its output: Write validates the existing   *)
(* file, generates, takes the lock file, stages a temporary file and       *)
(* commits it, rolling back when the file it displaced is not the one it   *)
(* validated (generator.go, outputlock*.go, outputreplace_*.go). Linux     *)
(* exchanges two paths; Windows replaces the file and keeps a backup; the  *)
(* other systems refuse to replace. Editors, which know nothing of the     *)
(* lock, may change the output between any two system calls, and a         *)
(* generator may be killed anywhere.                                       *)
(***************************************************************************)
EXTENDS Integers, FiniteSets

CONSTANTS
  Platforms,  \* some of "linux", "windows" and "other"
  Procs,      \* runs of the generator
  Versions,   \* what a run may generate
  Inodes,     \* file identities (os.SameFile)
  Absent,     \* no file, no lock owner, no result
  RaceLimit,  \* replaceFileRollbackRaceLimit
  MaxEdits,   \* bound on changes made by editors, for each platform
  MaxFaults,  \* bound on failing system calls
  MaxKills    \* bound on killed generators

\* How a run may end.
Results == {"ok", "stale", "refused", "concurrent", "exhausted", "unreadable", "timeout",
            "err", "killed"}

ASSUME OutputAssumption ==
  /\ Platforms \subseteq {"linux", "windows", "other"}
  /\ MaxEdits \in [Platforms -> Nat]
  /\ {MaxFaults, MaxKills} \subseteq Nat
  /\ RaceLimit \in Nat \ {0}
  /\ Absent \notin Procs \cup Inodes \cup Versions \cup Results

VARIABLES
  platform,
  out,      \* the file at the output path
  temp,     \* the file at each generator's temporary name
  kept,     \* the files at its .previous and .recovery-N names (Windows)
  handle,   \* the file it has open and locked (Windows)
  race,     \* rounds of its rollback (Windows)
  lock,     \* owner of the flock
  pc, mode, \* mode: -check or write
  data,     \* what the run has generated
  initial,  \* the state validated before generating
  staged,   \* the temporary file before the commit; later, expectedTarget
  previous, \* what the commit displaced; later, replacement
  ret,      \* result of Write
  newest,   \* history: content the output should have
  moved,    \* history: the output changed since p validated it
  edits, faults, kills

windowsVars == <<kept, handle, race>>

vars == <<platform, out, temp, windowsVars, lock, pc, mode, data, initial, staged, previous,
          ret, newest, moved, edits, faults, kills>>

\* An edit's content is its number, the original's 0.
Contents == Versions \cup 0..MaxEdits[platform]
Files == [id : Inodes, data : Contents]

Window == {"previous", "current", "rollback", "verify", "again",
           "backup", "target", "restore", "displaced"}
Locked == Window \cup {"check", "stage", "commit", "path", "replace"}
PCs == Locked \cup {"start", "generate", "lock", "done"}

Present == ({out} \cup {temp[p] : p \in Procs} \cup UNION {kept[p] : p \in Procs}) \ {Absent}
Fresh == Inodes \ ({f.id : f \in Present} \cup {handle[p] : p \in Procs})

Goto(p, next) == pc' = [pc EXCEPT ![p] = next]
Fault == faults < MaxFaults /\ faults' = faults + 1

\* Mutant: two absent outputs do not compare equal.
SameIfPresent(left, right) == left # Absent /\ left = right

\* Both absent, or the same file with the same content.
sameOutputState(left, right) == left = right

\* History: the validated version is replaced for good, but an edit made before
\* or after the commit is not.
Replaced(p) ==
  IF newest = initial[p].data /\ sameOutputState(staged[p], out) THEN data[p] ELSE newest

\* Others see that the output is not what they validated.
Disturb(p) == moved' = [q \in Procs |-> IF q = p THEN moved[q] ELSE TRUE]

\* Deferred: close the handle, remove the temporary file unless it is kept for
\* recovery, unlock.
Return(p, result, keep) ==
  /\ Goto(p, "done")
  /\ ret' = [ret EXCEPT ![p] = result]
  /\ temp' = [temp EXCEPT ![p] = IF keep THEN @ ELSE Absent]
  /\ handle' = [handle EXCEPT ![p] = Absent]
  /\ lock' = IF lock = p THEN Absent ELSE lock

-----------------------------------------------------------------------------
(* Write, acquireOutputLock and writeOutput *)

\* Content that editors wrote may lack the generated header.
validateOutputState(p, m) ==
  /\ pc[p] = "start"
  /\ mode' = [mode EXCEPT ![p] = m]
  /\ initial' = [initial EXCEPT ![p] = out]
  /\ moved' = [moved EXCEPT ![p] = FALSE]
  /\ \/ /\ Goto(p, "generate")
        /\ UNCHANGED <<ret, temp, handle, lock>>
     \/ /\ out # Absent /\ out.data \in 1..edits
        /\ Return(p, "refused", FALSE)
  /\ UNCHANGED <<out, data, staged, previous, newest, edits, faults, kills>>

Generate(p) ==
  /\ pc[p] = "generate"
  /\ \/ /\ Goto(p, "lock")
        /\ \E v \in Versions : data' = [data EXCEPT ![p] = v]
        /\ UNCHANGED <<ret, temp, handle, lock, faults>>
     \/ Fault /\ Return(p, "err", FALSE) /\ UNCHANGED data
  /\ UNCHANGED <<out, mode, initial, staged, previous, newest, moved, edits, kills>>

\* Mutant: the timeout is taken for an acquired lock.
LockTimeoutIgnored(p) ==
  /\ pc[p] = "lock"
  /\ Goto(p, "check")
  /\ lock' = p
  /\ UNCHANGED <<ret, temp, handle, out, mode, data, initial, staged, previous, newest, moved,
                 edits, faults, kills>>

\* tryLockFile every 10 ms; after 10 s the run gives up. Some systems have no
\* locks at all.
acquireOutputLock(p) ==
  /\ pc[p] = "lock"
  /\ \/ /\ lock = Absent
        /\ lock' = p
        /\ Goto(p, "check")
        /\ UNCHANGED <<ret, temp, handle, faults>>
     \/ /\ lock # Absent
        /\ Return(p, "timeout", FALSE)
        /\ UNCHANGED faults
     \/ /\ (platform = "other" /\ UNCHANGED faults) \/ Fault
        /\ Return(p, "err", FALSE)
  /\ UNCHANGED <<out, mode, data, initial, staged, previous, newest, moved, edits, kills>>

CheckOutput(p) ==
  LET upToDate == out # Absent /\ out.data = data[p] IN
  /\ pc[p] = "check"
  /\ \/ /\ mode[p] = "check" \/ upToDate
        /\ Return(p, IF upToDate THEN "ok" ELSE "stale", FALSE)
        /\ UNCHANGED faults
     \/ /\ mode[p] = "write" /\ ~upToDate
        /\ ~sameOutputState(initial[p], out)
        /\ Return(p, "concurrent", FALSE)
        /\ UNCHANGED faults
     \/ /\ mode[p] = "write" /\ ~upToDate
        /\ sameOutputState(initial[p], out)
        /\ Goto(p, "stage")
        /\ UNCHANGED <<ret, temp, handle, lock, faults>>
     \/ Fault /\ Return(p, "err", FALSE)
  /\ UNCHANGED <<out, mode, data, initial, staged, previous, newest, moved, edits, kills>>

\* CreateTemp, Chmod, Write, Sync, Close.
StageTemp(p) ==
  /\ pc[p] = "stage"
  /\ \/ /\ \E i \in Fresh :
             LET file == [id |-> i, data |-> data[p]]
             IN  temp' = [temp EXCEPT ![p] = file] /\ staged' = [staged EXCEPT ![p] = file]
        /\ Goto(p, "commit")
        /\ UNCHANGED <<ret, handle, lock, faults>>
     \/ Fault /\ Return(p, "err", FALSE) /\ UNCHANGED staged
  /\ UNCHANGED <<out, mode, data, initial, previous, newest, moved, edits, kills>>

\* There was no output: a hard link fails if there is one now.
LinkOutput(p) ==
  /\ pc[p] = "commit"
  /\ initial[p] = Absent
  /\ \/ /\ out = Absent
        /\ out' = temp[p]
        /\ newest' = data[p]
        /\ Disturb(p)
        /\ Return(p, "ok", FALSE)
        /\ UNCHANGED faults
     \/ /\ out # Absent
        /\ Return(p, "concurrent", FALSE)
        /\ UNCHANGED <<out, newest, moved, faults>>
     \/ /\ Fault
        /\ Return(p, "err", FALSE)
        /\ UNCHANGED <<out, newest, moved>>
  /\ UNCHANGED <<mode, data, initial, staged, previous, edits, kills>>

-----------------------------------------------------------------------------
(* replaceExistingOutput on Linux *)

\* renameat2(RENAME_EXCHANGE): both names must exist.
exchangeOutputPaths(p) ==
  /\ out # Absent
  /\ out' = temp[p]
  /\ temp' = [temp EXCEPT ![p] = out]
  /\ Disturb(p)

ExchangeFails == (out = Absent /\ UNCHANGED faults) \/ Fault

\* The exchange may also be unsupported by the file system.
Commit(p) ==
  /\ platform = "linux"
  /\ pc[p] = "commit"
  /\ initial[p] # Absent
  /\ \/ /\ exchangeOutputPaths(p)
        /\ Goto(p, "previous")
        /\ UNCHANGED <<ret, handle, lock, faults>>
     \/ /\ ExchangeFails
        /\ Return(p, "err", FALSE)
        /\ UNCHANGED <<out, moved>>
  /\ UNCHANGED <<mode, data, initial, staged, previous, newest, edits, kills>>

\* Mutant: only the identity of the displaced file is compared.
CheckPreviousId(p) ==
  /\ pc[p] = "previous"
  /\ previous' = [previous EXCEPT ![p] = temp[p]]
  /\ IF initial[p].id = temp[p].id
     THEN /\ newest' = Replaced(p)
          /\ Return(p, "ok", FALSE)
     ELSE /\ Goto(p, "current")
          /\ UNCHANGED <<ret, temp, handle, lock, newest>>
  /\ UNCHANGED <<out, mode, data, initial, staged, moved, edits, faults, kills>>

\* The displaced file is the validated one: done.
CheckPrevious(p) ==
  /\ pc[p] = "previous"
  /\ previous' = [previous EXCEPT ![p] = temp[p]]
  /\ \/ /\ sameOutputState(initial[p], temp[p])
        /\ newest' = Replaced(p)
        /\ Return(p, "ok", FALSE)
        /\ UNCHANGED faults
     \/ /\ ~sameOutputState(initial[p], temp[p])
        /\ Goto(p, "current")
        /\ UNCHANGED <<ret, temp, handle, lock, newest, faults>>
     \/ /\ Fault
        /\ Return(p, "err", TRUE)
        /\ UNCHANGED newest
  /\ UNCHANGED <<out, mode, data, initial, staged, moved, edits, kills>>

\* Somebody has replaced the generated file: the newer version wins.
CheckCurrent(p) ==
  /\ pc[p] = "current"
  /\ \/ /\ sameOutputState(staged[p], out)
        /\ Goto(p, "rollback")
        /\ UNCHANGED <<ret, temp, handle, lock, faults>>
     \/ /\ ~sameOutputState(staged[p], out)
        /\ Return(p, "concurrent", FALSE)
        /\ UNCHANGED faults
     \/ /\ Fault
        /\ Return(p, "concurrent", TRUE)
  /\ UNCHANGED <<out, mode, data, initial, staged, previous, newest, moved, edits, kills>>

Rollback(p) ==
  /\ pc[p] = "rollback"
  /\ \/ /\ exchangeOutputPaths(p)
        /\ Goto(p, "verify")
        /\ UNCHANGED <<ret, handle, lock, faults>>
     \/ /\ ExchangeFails
        /\ Return(p, "concurrent", TRUE)
        /\ UNCHANGED <<out, moved>>
  /\ UNCHANGED <<mode, data, initial, staged, previous, newest, edits, kills>>

\* Mutant: the displaced file is not looked at.
VerifyRestoredOnly(p) ==
  /\ pc[p] = "verify"
  /\ Return(p, "concurrent", ~sameOutputState(previous[p], out))
  /\ UNCHANGED <<out, mode, data, initial, staged, previous, newest, moved, edits, faults, kills>>

\* Reads both names; a newer version displaced by the rollback is put back.
VerifyRollback(p) ==
  LET restored == sameOutputState(previous[p], out)
      displaced == sameOutputState(staged[p], temp[p])
  IN
  /\ pc[p] = "verify"
  /\ \/ /\ restored /\ displaced
        /\ Return(p, "concurrent", FALSE)
        /\ UNCHANGED faults
     \/ /\ restored /\ ~displaced
        /\ Goto(p, "again")
        /\ UNCHANGED <<ret, temp, handle, lock, faults>>
     \/ /\ (~restored /\ UNCHANGED faults) \/ Fault
        /\ Return(p, "concurrent", TRUE)
  /\ UNCHANGED <<out, mode, data, initial, staged, previous, newest, moved, edits, kills>>

\* The temporary name is removed although it may hold yet another version.
ExchangeBack(p) ==
  /\ pc[p] = "again"
  /\ \/ /\ out # Absent
        /\ out' = temp[p]
        /\ Disturb(p)
        /\ Return(p, "concurrent", FALSE)
        /\ UNCHANGED faults
     \/ /\ ExchangeFails
        /\ Return(p, "concurrent", TRUE)
        /\ UNCHANGED <<out, moved>>
  /\ UNCHANGED <<mode, data, initial, staged, previous, newest, edits, kills>>

-----------------------------------------------------------------------------
(* replaceExistingOutput on Windows and rollbackReplaceFile. The handle on   *)
(* the target shares reading and deletion, not writing: the file cannot be   *)
(* rewritten in place while it is open, but its path can be replaced.        *)

otherVars == <<out, kept, race, staged, previous, newest, moved>>

\* CreateFile, LockFileEx, readOpenOutputState. A target that cannot be opened
\* or read is reported like a modified one; ret tells the two apart.
OpenTarget(p) ==
  /\ platform = "windows"
  /\ pc[p] = "commit"
  /\ initial[p] # Absent
  /\ \/ /\ out # Absent
        /\ out.data = initial[p].data
        /\ handle' = [handle EXCEPT ![p] = out.id]
        /\ Goto(p, "path")
        /\ UNCHANGED <<ret, temp, lock, faults>>
     \/ /\ ~(out # Absent /\ out.data = initial[p].data)
        /\ Return(p, "concurrent", FALSE)
        /\ UNCHANGED faults
     \/ \E result \in {"unreadable", "err"} : Fault /\ Return(p, result, FALSE)
  /\ UNCHANGED <<otherVars, mode, data, initial, edits, kills>>

pathRefersToHandle(p) ==
  /\ pc[p] = "path"
  /\ \/ /\ out # Absent /\ out.id = handle[p]
        /\ Goto(p, "replace")
        /\ UNCHANGED <<ret, temp, handle, lock, faults>>
     \/ /\ ~(out # Absent /\ out.id = handle[p])
        /\ Return(p, "concurrent", FALSE)
        /\ UNCHANGED faults
     \/ Fault /\ Return(p, "unreadable", FALSE)
  /\ UNCHANGED <<otherVars, mode, data, initial, edits, kills>>

\* ReplaceFileW: file takes the target's name, the target a new backup name.
windowsReplaceFile(p, file) ==
  /\ out # Absent
  /\ out' = file
  /\ kept' = [kept EXCEPT ![p] = (@ \ {file}) \cup {out}]
  /\ Disturb(p)

\* There is no target, nothing was moved, or the target was moved to its backup
\* name and the replacement could not be (ERROR_UNABLE_TO_MOVE_REPLACEMENT_2).
ReplaceFileFails(p) ==
  \/ out = Absent /\ UNCHANGED <<faults, out, kept, moved>>
  \/ Fault /\ UNCHANGED <<out, kept, moved>>
  \/ /\ Fault
     /\ out # Absent
     /\ out' = Absent
     /\ kept' = [kept EXCEPT ![p] = @ \cup {out}]
     /\ Disturb(p)

ReplaceTarget(p) ==
  /\ pc[p] = "replace"
  /\ \/ /\ windowsReplaceFile(p, temp[p])
        /\ temp' = [temp EXCEPT ![p] = Absent]
        /\ Goto(p, "backup")
        /\ UNCHANGED <<ret, handle, lock, faults>>
     \/ ReplaceFileFails(p) /\ Return(p, "err", FALSE)
  /\ UNCHANGED <<race, staged, previous, newest, mode, data, initial, edits, kills>>

\* The one file the run has at a backup name.
Saved(p) == CHOOSE f \in kept[p] : TRUE

\* A file this process has locked through another handle may not be readable.
Unreadable(p, file) == (file.id = handle[p] /\ UNCHANGED faults) \/ Fault

\* The backup is read again, compared and removed; otherwise it stays.
removeVerifiedOutputState(p, file) ==
  \/ kept' = [kept EXCEPT ![p] = @ \ {file}] /\ UNCHANGED faults
  \/ Unreadable(p, file) /\ UNCHANGED kept

InspectBackup(p) ==
  /\ pc[p] = "backup"
  /\ previous' = [previous EXCEPT ![p] = Saved(p)]
  /\ \/ /\ sameOutputState(initial[p], Saved(p))
        /\ newest' = Replaced(p)
        /\ removeVerifiedOutputState(p, Saved(p))
        /\ Return(p, IF kept'[p] = {} THEN "ok" ELSE "err", FALSE)
     \/ /\ ~sameOutputState(initial[p], Saved(p))
        /\ Goto(p, "target")
        /\ UNCHANGED <<ret, temp, handle, lock, newest, faults, kept>>
     \/ /\ Unreadable(p, Saved(p))
        /\ Return(p, "err", FALSE)
        /\ UNCHANGED <<newest, kept>>
  /\ UNCHANGED <<out, race, staged, moved, mode, data, initial, edits, kills>>

InspectTarget(p) ==
  /\ pc[p] = "target"
  /\ \/ /\ sameOutputState(staged[p], out)
        /\ Goto(p, "restore")
        /\ UNCHANGED <<ret, temp, handle, lock, faults, kept>>
     \/ /\ ~sameOutputState(staged[p], out)
        /\ removeVerifiedOutputState(p, previous[p])
        /\ Return(p, "concurrent", FALSE)
     \/ /\ Fault
        /\ Return(p, "concurrent", FALSE)
        /\ UNCHANGED kept
  /\ UNCHANGED <<out, race, staged, previous, newest, moved, mode, data, initial, edits, kills>>

RestoreOutput(p) ==
  /\ pc[p] = "restore"
  /\ \/ /\ windowsReplaceFile(p, previous[p])
        /\ Goto(p, "displaced")
        /\ UNCHANGED <<ret, temp, handle, lock, faults>>
     \/ ReplaceFileFails(p) /\ Return(p, "concurrent", FALSE)
  /\ UNCHANGED <<race, staged, previous, newest, mode, data, initial, edits, kills>>

\* Mutant: the next round still expects to displace the generated file.
NextRoundSameTarget(p) ==
  /\ race' = [race EXCEPT ![p] = @ + 1]
  /\ previous' = [previous EXCEPT ![p] = Saved(p)]
  /\ UNCHANGED staged

\* What the round displaced goes back; it should displace what was restored.
NextRound(p) ==
  /\ race' = [race EXCEPT ![p] = @ + 1]
  /\ staged' = [staged EXCEPT ![p] = previous[p]]
  /\ previous' = [previous EXCEPT ![p] = Saved(p)]

\* Mutant: what was displaced is removed although it is not what was expected.
InspectNothing(p) ==
  /\ pc[p] = "displaced"
  /\ removeVerifiedOutputState(p, Saved(p))
  /\ Return(p, "concurrent", FALSE)
  /\ UNCHANGED <<race, staged, previous, out, newest, moved, mode, data, initial, edits, kills>>

InspectDisplaced(p) ==
  /\ pc[p] = "displaced"
  /\ \/ /\ sameOutputState(staged[p], Saved(p))
        /\ removeVerifiedOutputState(p, Saved(p))
        /\ Return(p, "concurrent", FALSE)
        /\ UNCHANGED <<race, staged, previous>>
     \/ /\ ~sameOutputState(staged[p], Saved(p))
        /\ race[p] + 1 = RaceLimit
        /\ Return(p, "exhausted", FALSE)
        /\ UNCHANGED <<faults, kept, race, staged, previous>>
     \/ /\ ~sameOutputState(staged[p], Saved(p))
        /\ race[p] + 1 # RaceLimit
        /\ NextRound(p)
        /\ Goto(p, "restore")
        /\ UNCHANGED <<ret, temp, handle, lock, faults, kept>>
     \/ /\ Unreadable(p, Saved(p))
        /\ Return(p, "concurrent", FALSE)
        /\ UNCHANGED <<kept, race, staged, previous>>
  /\ UNCHANGED <<out, newest, moved, mode, data, initial, edits, kills>>

-----------------------------------------------------------------------------
(* replaceExistingOutput on other systems *)

RefuseToReplace(p) ==
  /\ platform = "other"
  /\ pc[p] = "commit"
  /\ initial[p] # Absent
  /\ \/ /\ Return(p, IF sameOutputState(initial[p], out) THEN "refused" ELSE "concurrent", FALSE)
        /\ UNCHANGED faults
     \/ Fault /\ Return(p, "err", FALSE)
  /\ UNCHANGED <<otherVars, mode, data, initial, edits, kills>>

-----------------------------------------------------------------------------
(* The environment *)

EditVars == <<temp, windowsVars, lock, pc, mode, data, initial, staged, previous, ret, faults, kills>>

Held == {handle[p] : p \in Procs}

\* An editor, git or a build step renames a file over the output, rewrites the
\* file in place unless it is held open, or removes it; the content is new or
\* the original one.
Edit ==
  /\ edits < MaxEdits[platform]
  /\ edits' = edits + 1
  /\ moved' = [p \in Procs |-> TRUE]
  /\ \/ \E i \in Fresh \cup ({f.id : f \in {out} \ {Absent}} \ Held) :
        \E content \in {0, edits + 1} :
          /\ out' = [id |-> i, data |-> content]
          /\ out' # out
          /\ newest' = content
     \/ /\ out # Absent
        /\ out' = Absent
        /\ newest' = Absent
  /\ UNCHANGED <<platform, EditVars>>

\* The kernel drops the locks and handles of a killed generator; its files stay.
Kill(p) ==
  /\ kills < MaxKills
  /\ pc[p] \notin {"start", "done"}
  /\ Goto(p, "done")
  /\ ret' = [ret EXCEPT ![p] = "killed"]
  /\ lock' = IF lock = p THEN Absent ELSE lock
  /\ handle' = [handle EXCEPT ![p] = Absent]
  /\ kills' = kills + 1
  /\ UNCHANGED <<platform, kept, race, out, temp, mode, data, initial, staged, previous, newest, moved, edits, faults>>

Init ==
  /\ platform \in Platforms
  /\ kept = [p \in Procs |-> {}]
  /\ handle = [p \in Procs |-> Absent]
  /\ race = [p \in Procs |-> 0]
  /\ out \in {Absent} \cup [id : Inodes, data : {0}]
  /\ temp = [p \in Procs |-> Absent]
  /\ lock = Absent
  /\ pc = [p \in Procs |-> "start"]
  /\ mode = [p \in Procs |-> "write"]
  /\ data = [p \in Procs |-> Absent]
  /\ initial = [p \in Procs |-> Absent]
  /\ staged = [p \in Procs |-> Absent]
  /\ previous = [p \in Procs |-> Absent]
  /\ ret = [p \in Procs |-> Absent]
  /\ newest = IF out = Absent THEN Absent ELSE 0
  /\ moved = [p \in Procs |-> FALSE]
  /\ edits = 0 /\ faults = 0 /\ kills = 0

Write(p) ==
  /\ UNCHANGED platform
  /\ \/ /\ \/ \E m \in {"check", "write"} : validateOutputState(p, m)
           \/ Generate(p) \/ acquireOutputLock(p) \/ CheckOutput(p) \/ StageTemp(p)
           \/ LinkOutput(p) \/ Commit(p) \/ CheckPrevious(p) \/ CheckCurrent(p)
           \/ Rollback(p) \/ VerifyRollback(p) \/ ExchangeBack(p)
        /\ UNCHANGED <<kept, race>>
     \/ OpenTarget(p) \/ pathRefersToHandle(p) \/ ReplaceTarget(p) \/ InspectBackup(p)
     \/ InspectTarget(p) \/ RestoreOutput(p) \/ InspectDisplaced(p) \/ RefuseToReplace(p)

Next == Edit \/ \E p \in Procs : Write(p) \/ Kill(p)

Spec == Init /\ [][Next]_vars

-----------------------------------------------------------------------------
(* Properties *)

\* The last version anybody meant to be the output is somewhere in the
\* directory - at the output path, or at a temporary, backup or recovery name
\* that is still being worked on or was kept - until a generator that validated
\* it replaces it.
LatestSurvives == newest # Absent => \E f \in Present : f.data = newest

Unverified(p) ==
  \/ pc[p] \in Window
  \/ pc[p] = "done" /\ (temp[p] # Absent \/ kept[p] # {})

\* Once no generator is between commit and verification, or has stopped there
\* leaving a recovery file, the output path itself holds that version: a commit
\* over an edit has been rolled back.
RolledBack ==
  (\A p \in Procs : ~Unverified(p)) =>
    newest = IF out = Absent THEN Absent ELSE out.data

\* A generator reports a concurrent modification only if there was one (or, on
\* Windows, if the output could not be opened or read).
NoFalseAlarm == \A p \in Procs : ret[p] \in {"concurrent", "exhausted"} => moved[p]

\* The Windows rollback gives up only after as many concurrent replacements as
\* its message says, besides the one that made it roll back.
ExhaustedByRaces == \A p \in Procs : ret[p] = "exhausted" => edits > RaceLimit
=============================================================================
