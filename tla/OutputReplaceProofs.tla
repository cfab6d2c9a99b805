------------------------ MODULE OutputReplaceProofs -------------------------
(***************************************************************************)
(* The alarms eventheader-gen raises about concurrent changes of its       *)
(* output are true, for any number of runs, edits, failing system calls    *)
(* and killed runs, on every system.                                       *)
(***************************************************************************)
EXTENDS OutputReplace, TLAPS

\* Every file there may be.
File == [id : Inodes, data : Versions \cup Nat]
FileOrNone == File \cup {Absent}

TypeOK ==
  /\ platform \in Platforms
  /\ out \in FileOrNone
  /\ temp \in [Procs -> FileOrNone]
  /\ kept \in [Procs -> SUBSET File]
  /\ handle \in [Procs -> Inodes \cup {Absent}]
  /\ race \in [Procs -> Nat]
  /\ lock \in Procs \cup {Absent}
  /\ pc \in [Procs -> PCs]
  /\ mode \in [Procs -> {"check", "write"}]
  /\ data \in [Procs -> Versions \cup {Absent}]
  /\ initial \in [Procs -> FileOrNone]
  /\ staged \in [Procs -> FileOrNone]
  /\ previous \in [Procs -> FileOrNone]
  /\ ret \in [Procs -> Results \cup {Absent}]
  /\ moved \in [Procs -> BOOLEAN]
  /\ edits \in Nat

\* The steps before a run's own commit.
Early == {"generate", "lock", "check", "stage", "commit", "path", "replace"}

\* The steps of the rollbacks.
Rolling == {"current", "rollback", "verify", "again", "target", "restore", "displaced"}

\* What a run has generated, and what it has at backup names: nothing before
\* the replacement, and one file while it is inspected and rolled back.
RunInv(p) ==
  /\ pc[p] \in Locked \cup {"lock"} => data[p] \in Versions
  /\ pc[p] \in {"start"} \cup Early => kept[p] = {}
  /\ pc[p] \in {"backup", "displaced"} => \E f \in File : kept[p] = {f}
  /\ pc[p] \in {"target", "restore"} => kept[p] = {previous[p]}
  /\ pc[p] \notin {"restore", "displaced", "done"} => race[p] = 0
  /\ pc[p] # "done" => ret[p] = Absent

\* At most one run is between acquireOutputLock and the deferred unlock.
LockInv(p) == pc[p] \in Locked => lock = p

\* While nothing has changed the output behind its back, a run finds the state
\* it validated: at the output, then where the commit moved it.
AlarmInv(p) ==
  /\ pc[p] \in Early /\ ~moved[p] => out = initial[p]
  /\ pc[p] = "path" /\ ~moved[p] => out # Absent /\ handle[p] = out.id
  /\ pc[p] = "previous" /\ ~moved[p] => temp[p] = initial[p]
  /\ pc[p] = "backup" /\ ~moved[p] => kept[p] = {initial[p]}
  /\ pc[p] \in Rolling => moved[p]
  /\ ret[p] \in {"concurrent", "exhausted"} => moved[p]

\* How many edits a run that holds the lock has met. Each round of the Windows
\* rollback that does not displace what it expects has met another one.
RaceInv(p) ==
  /\ pc[p] \in {"stage", "commit", "path", "replace"} => out = initial[p] \/ edits >= 1
  /\ pc[p] = "backup" => kept[p] = {initial[p]} \/ edits >= 1
  /\ pc[p] = "target" => edits >= 1
  /\ pc[p] = "restore" => /\ edits >= race[p] + 1
                          /\ out = staged[p] \/ edits >= race[p] + 2
  /\ pc[p] = "displaced" => \/ kept[p] = {staged[p]}
                            \/ /\ edits >= race[p] + 2
                               /\ out = previous[p] \/ edits >= race[p] + 3
  /\ ret[p] = "exhausted" => edits > RaceLimit

IInv == TypeOK /\ \A p \in Procs : RunInv(p) /\ LockInv(p) /\ AlarmInv(p) /\ RaceInv(p)

\* What a run may see of a step of another one: its own state stays, and if
\* the output changes, the other run holds the lock.
Frame(q) ==
  /\ pc'[q] = pc[q] /\ temp'[q] = temp[q] /\ kept'[q] = kept[q] /\ handle'[q] = handle[q]
  /\ race'[q] = race[q] /\ data'[q] = data[q] /\ initial'[q] = initial[q]
  /\ staged'[q] = staged[q] /\ previous'[q] = previous[q] /\ ret'[q] = ret[q]
  /\ lock = q => lock' = q
  /\ moved[q] => moved'[q]
  /\ out' = out \/ (moved'[q] /\ lock # q)
  /\ edits' = edits

-----------------------------------------------------------------------------
(* Facts about the operators. *)

\* The one file a run has at a backup name.
LEMMA SavedFile ==
  ASSUME NEW p \in Procs, NEW f, kept[p] = {f}
  PROVE  Saved(p) = f
BY DEF Saved

-----------------------------------------------------------------------------
(* The steps of others. *)

\* A step of another run keeps what this run relies on.
LEMMA FrameKeeps ==
  ASSUME IInv, NEW q \in Procs, Frame(q)
  PROVE  (RunInv(q) /\ LockInv(q) /\ AlarmInv(q) /\ RaceInv(q))'
<1>1. RunInv(q) /\ LockInv(q) /\ AlarmInv(q) /\ RaceInv(q) /\ edits \in Nat
  BY DEF IInv, TypeOK
<1>2. RunInv(q)' /\ LockInv(q)'
  BY <1>1 DEF Frame, RunInv, LockInv
<1>3. AlarmInv(q)'
  BY <1>1 DEF Frame, AlarmInv
<1>4. RaceInv(q)'
  <2>1. pc[q] \in {"stage", "commit", "path", "replace", "restore", "displaced"} => out' = out
    BY <1>1 DEF Frame, LockInv, Locked, Window
  <2> QED BY <1>1, <2>1 DEF Frame, RaceInv
<1> QED BY <1>2, <1>3, <1>4

LEMMA EditKeeps ==
  ASSUME IInv, Edit
  PROVE  IInv'
<1>1. TypeOK'
  <2>1. Fresh \subseteq Inodes /\ {f.id : f \in {out} \ {Absent}} \subseteq Inodes
    BY DEF Fresh, IInv, TypeOK, FileOrNone, File
  <2>2. out' \in FileOrNone
    BY <2>1 DEF Edit, IInv, TypeOK, FileOrNone, File
  <2> QED BY <2>2 DEF Edit, EditVars, windowsVars, IInv, TypeOK
<1>2. ASSUME NEW q \in Procs PROVE (RunInv(q) /\ LockInv(q) /\ AlarmInv(q) /\ RaceInv(q))'
  <2>1. RunInv(q) /\ LockInv(q) /\ AlarmInv(q) /\ RaceInv(q) /\ edits \in Nat
        /\ race[q] \in Nat /\ RaceLimit \in Nat
    BY OutputAssumption DEF IInv, TypeOK
  <2>2. moved'[q] /\ edits' = edits + 1 /\ UNCHANGED EditVars
    BY DEF Edit
  <2> QED BY <2>1, <2>2 DEF EditVars, windowsVars, RunInv, LockInv, AlarmInv, RaceInv
<1> QED BY <1>1, <1>2 DEF IInv

LEMMA KillKeeps ==
  ASSUME IInv, NEW p \in Procs, Kill(p)
  PROVE  IInv'
<1>1. TypeOK'
  BY DEF Kill, Goto, IInv, TypeOK, PCs, Results
<1>2. (RunInv(p) /\ LockInv(p) /\ AlarmInv(p) /\ RaceInv(p))'
  BY DEF Kill, Goto, IInv, TypeOK, RunInv, LockInv, AlarmInv, RaceInv, Early, Rolling,
         Locked, Window
<1>3. ASSUME NEW q \in Procs \ {p} PROVE Frame(q)
  BY DEF Kill, Goto, IInv, TypeOK, Frame
<1> QED BY <1>1, <1>2, <1>3, FrameKeeps DEF IInv

-----------------------------------------------------------------------------
(* The steps of a run, one lemma for each. *)

\* What a step of run p establishes.
StepKeeps(p) ==
  /\ TypeOK'
  /\ (RunInv(p) /\ LockInv(p) /\ AlarmInv(p) /\ RaceInv(p))'
  /\ \A q \in Procs \ {p} : Frame(q)

LEMMA KeepsIInv ==
  ASSUME IInv, NEW p \in Procs, StepKeeps(p)
  PROVE  IInv'
BY FrameKeeps DEF StepKeeps, IInv

\* A run that has ended only has to be honest.
LEMMA DoneKeeps ==
  ASSUME NEW p \in Procs, pc'[p] = "done",
         ret'[p] \in {"concurrent", "exhausted"} => moved'[p],
         ret'[p] = "exhausted" => edits' > RaceLimit
  PROVE  (RunInv(p) /\ LockInv(p) /\ AlarmInv(p) /\ RaceInv(p))'
BY DEF RunInv, LockInv, AlarmInv, RaceInv, Early, Rolling, Locked, Window

LEMMA ValidateOutputStateKeeps ==
  ASSUME IInv, NEW p \in Procs, NEW m \in {"check", "write"}, validateOutputState(p, m),
         UNCHANGED <<kept, race, platform>>
  PROVE  StepKeeps(p)
<1> USE DEF validateOutputState, Return, Goto, Fault
<1>0. pc[p] = "start" /\ RunInv(p) /\ LockInv(p) /\ AlarmInv(p) /\ RaceInv(p)
  BY DEF IInv, LockInv, Locked, Window
<1>1. TypeOK'
  BY <1>0 DEF IInv, TypeOK, PCs, Results, FileOrNone, Locked, Window
<1>2. RunInv(p)' /\ LockInv(p)'
  BY <1>0 DEF IInv, TypeOK, RunInv, LockInv, Early, Rolling, Locked, Window
<1>3. AlarmInv(p)'
  <2>1. CASE pc'[p] = "generate" /\ ret' = ret
    <3>1. out' = out /\ initial'[p] = out /\ ret[p] = Absent
      BY <1>0 DEF IInv, TypeOK, RunInv
    <3> QED BY <2>1, <3>1, OutputAssumption DEF AlarmInv, Rolling, Results
  <2>2. CASE pc'[p] = "done" /\ ret'[p] = "refused"
    BY <2>2, DoneKeeps
  <2> QED BY <2>1, <2>2 DEF IInv, TypeOK
<1>4. RaceInv(p)'
  BY <1>0 DEF IInv, TypeOK, RunInv, AlarmInv, RaceInv
<1>5. ASSUME NEW q \in Procs \ {p} PROVE Frame(q)
  BY <1>0 DEF IInv, TypeOK, Frame
<1> QED BY <1>1, <1>2, <1>3, <1>4, <1>5 DEF StepKeeps

LEMMA GenerateKeeps ==
  ASSUME IInv, NEW p \in Procs, Generate(p), UNCHANGED <<kept, race, platform>>
  PROVE  StepKeeps(p)
<1> USE DEF Generate, Return, Goto, Fault
<1>0. pc[p] = "generate" /\ RunInv(p) /\ LockInv(p) /\ AlarmInv(p) /\ RaceInv(p)
  BY DEF IInv, LockInv, Locked, Window
<1>1. TypeOK'
  <2>1. out' \in FileOrNone
    BY <1>0 DEF IInv, TypeOK
  <2>2. temp' \in [Procs -> FileOrNone]
    BY <1>0 DEF IInv, TypeOK, FileOrNone
  <2>3. kept' \in [Procs -> SUBSET File]
    BY <1>0 DEF IInv, TypeOK, FileOrNone
  <2>4. moved' \in [Procs -> BOOLEAN]
    BY DEF IInv, TypeOK
  <2>5. pc' \in [Procs -> PCs] /\ ret' \in [Procs -> Results \cup {Absent}]
    BY DEF IInv, TypeOK, PCs, Results, Locked, Window
  <2>6. handle' \in [Procs -> Inodes \cup {Absent}] /\ lock' \in Procs \cup {Absent}
    BY DEF IInv, TypeOK, FileOrNone, File
  <2>7. /\ staged' \in [Procs -> FileOrNone] /\ previous' \in [Procs -> FileOrNone]
        /\ race' \in [Procs -> Nat]
    BY <1>0 DEF IInv, TypeOK, FileOrNone
  <2> QED BY <2>1, <2>2, <2>3, <2>4, <2>5, <2>6, <2>7 DEF IInv, TypeOK
<1>2. RunInv(p)' /\ LockInv(p)'
  BY <1>0 DEF IInv, TypeOK, RunInv, LockInv, Early, Rolling, Locked, Window
<1>3. AlarmInv(p)'
  BY <1>0 DEF IInv, TypeOK, RunInv, AlarmInv, Early, Rolling
<1>4. RaceInv(p)'
  BY <1>0 DEF IInv, TypeOK, RunInv, AlarmInv, RaceInv
<1>5. ASSUME NEW q \in Procs \ {p} PROVE Frame(q)
  BY <1>0 DEF IInv, TypeOK, Frame
<1> QED BY <1>1, <1>2, <1>3, <1>4, <1>5 DEF StepKeeps

LEMMA AcquireOutputLockKeeps ==
  ASSUME IInv, NEW p \in Procs, acquireOutputLock(p), UNCHANGED <<kept, race, platform>>
  PROVE  StepKeeps(p)
<1> USE DEF acquireOutputLock, Return, Goto, Fault
<1>0. pc[p] = "lock" /\ RunInv(p) /\ LockInv(p) /\ AlarmInv(p) /\ RaceInv(p)
  BY DEF IInv, LockInv, Locked, Window
<1>1. TypeOK'
  BY <1>0 DEF IInv, TypeOK, PCs, Results, FileOrNone, Locked, Window
<1>2. RunInv(p)' /\ LockInv(p)'
  BY <1>0 DEF IInv, TypeOK, RunInv, LockInv, Early, Rolling, Locked, Window
<1>3. AlarmInv(p)'
  BY <1>0 DEF IInv, TypeOK, RunInv, AlarmInv, Early, Rolling
<1>4. RaceInv(p)'
  BY <1>0 DEF IInv, TypeOK, RunInv, AlarmInv, RaceInv
<1>5. ASSUME NEW q \in Procs \ {p} PROVE Frame(q)
  BY <1>0, OutputAssumption DEF IInv, TypeOK, Frame
<1> QED BY <1>1, <1>2, <1>3, <1>4, <1>5 DEF StepKeeps

LEMMA CheckOutputKeeps ==
  ASSUME IInv, NEW p \in Procs, CheckOutput(p), UNCHANGED <<kept, race, platform>>
  PROVE  StepKeeps(p)
<1> USE DEF CheckOutput, Return, Goto, Fault, sameOutputState
<1>0. pc[p] = "check" /\ lock = p /\ RunInv(p) /\ LockInv(p) /\ AlarmInv(p) /\ RaceInv(p)
  BY DEF IInv, LockInv, Locked, Window
<1>1. TypeOK'
  BY <1>0 DEF IInv, TypeOK, PCs, Results, FileOrNone, Locked, Window
<1>2. RunInv(p)' /\ LockInv(p)'
  BY <1>0 DEF IInv, TypeOK, RunInv, LockInv, Early, Rolling, Locked, Window
<1>3. AlarmInv(p)'
  BY <1>0 DEF IInv, TypeOK, RunInv, AlarmInv, Early, Rolling
<1>4. RaceInv(p)'
  BY <1>0 DEF IInv, TypeOK, RunInv, AlarmInv, RaceInv
<1>5. ASSUME NEW q \in Procs \ {p} PROVE Frame(q)
  BY <1>0 DEF IInv, TypeOK, Frame
<1> QED BY <1>1, <1>2, <1>3, <1>4, <1>5 DEF StepKeeps

LEMMA StageTempKeeps ==
  ASSUME IInv, NEW p \in Procs, StageTemp(p), UNCHANGED <<kept, race, platform>>
  PROVE  StepKeeps(p)
<1> USE DEF StageTemp, Return, Goto, Fault
<1>0. pc[p] = "stage" /\ lock = p /\ RunInv(p) /\ LockInv(p) /\ AlarmInv(p) /\ RaceInv(p)
  BY DEF IInv, LockInv, Locked, Window
<1>1. TypeOK'
  <2>1. \A i \in Fresh : [id |-> i, data |-> data[p]] \in FileOrNone
    BY <1>0 DEF Fresh, RunInv, Locked, FileOrNone, File
  <2>2. temp' \in [Procs -> FileOrNone] /\ staged' \in [Procs -> FileOrNone]
    BY <2>1 DEF IInv, TypeOK, FileOrNone
  <2>3. pc' \in [Procs -> PCs] /\ ret' \in [Procs -> Results \cup {Absent}]
    BY DEF IInv, TypeOK, PCs, Results, Locked, Window
  <2>4. handle' \in [Procs -> Inodes \cup {Absent}] /\ lock' \in Procs \cup {Absent}
    BY DEF IInv, TypeOK
  <2> QED BY <2>2, <2>3, <2>4 DEF IInv, TypeOK
<1>2. RunInv(p)' /\ LockInv(p)'
  BY <1>0 DEF IInv, TypeOK, RunInv, LockInv, Early, Rolling, Locked, Window
<1>3. AlarmInv(p)'
  BY <1>0 DEF IInv, TypeOK, RunInv, AlarmInv, Early, Rolling
<1>4. RaceInv(p)'
  BY <1>0 DEF IInv, TypeOK, RunInv, AlarmInv, RaceInv
<1>5. ASSUME NEW q \in Procs \ {p} PROVE Frame(q)
  BY <1>0 DEF IInv, TypeOK, Frame
<1> QED BY <1>1, <1>2, <1>3, <1>4, <1>5 DEF StepKeeps

LEMMA LinkOutputKeeps ==
  ASSUME IInv, NEW p \in Procs, LinkOutput(p), UNCHANGED <<kept, race, platform>>
  PROVE  StepKeeps(p)
<1> USE DEF LinkOutput, Return, Goto, Fault, Disturb
<1>0. pc[p] = "commit" /\ lock = p /\ RunInv(p) /\ LockInv(p) /\ AlarmInv(p) /\ RaceInv(p)
  BY DEF IInv, LockInv, Locked, Window
<1>1. TypeOK'
  <2>1. out' \in FileOrNone
    <3>1. out' = out \/ out' = temp[p]
      OBVIOUS
    <3> QED BY <3>1 DEF IInv, TypeOK, FileOrNone
  <2>2. temp' \in [Procs -> FileOrNone]
    BY <1>0 DEF IInv, TypeOK, FileOrNone
  <2>3. kept' \in [Procs -> SUBSET File]
    BY <1>0 DEF IInv, TypeOK, FileOrNone
  <2>4. moved' \in [Procs -> BOOLEAN]
    BY DEF IInv, TypeOK
  <2>5. pc' \in [Procs -> PCs] /\ ret' \in [Procs -> Results \cup {Absent}]
    BY DEF IInv, TypeOK, PCs, Results, Locked, Window
  <2>6. handle' \in [Procs -> Inodes \cup {Absent}] /\ lock' \in Procs \cup {Absent}
    BY DEF IInv, TypeOK, FileOrNone, File
  <2>7. /\ staged' \in [Procs -> FileOrNone] /\ previous' \in [Procs -> FileOrNone]
        /\ race' \in [Procs -> Nat]
    BY <1>0 DEF IInv, TypeOK, FileOrNone
  <2> QED BY <2>1, <2>2, <2>3, <2>4, <2>5, <2>6, <2>7 DEF IInv, TypeOK
<1>2. (RunInv(p) /\ LockInv(p) /\ AlarmInv(p) /\ RaceInv(p))'
  <2>1. pc'[p] = "done" /\ ret'[p] \in {"ok", "concurrent", "err"} /\ moved'[p] = moved[p]
    BY DEF IInv, TypeOK
  <2>2. ret'[p] = "concurrent" => moved[p]
    BY <1>0 DEF IInv, TypeOK, AlarmInv, Early
  <2> QED BY <2>1, <2>2, DoneKeeps
<1>3. ASSUME NEW q \in Procs \ {p} PROVE Frame(q)
  BY <1>0 DEF IInv, TypeOK, Frame
<1> QED BY <1>1, <1>2, <1>3 DEF StepKeeps

LEMMA CommitKeeps ==
  ASSUME IInv, NEW p \in Procs, Commit(p), UNCHANGED <<kept, race, platform>>
  PROVE  StepKeeps(p)
<1> USE DEF Commit, Return, Goto, Fault, exchangeOutputPaths, ExchangeFails, Disturb
<1>0. pc[p] = "commit" /\ lock = p /\ RunInv(p) /\ LockInv(p) /\ AlarmInv(p) /\ RaceInv(p)
  BY DEF IInv, LockInv, Locked, Window
<1>1. TypeOK'
  <2>1. out' \in FileOrNone
    <3>1. out' = out \/ out' = temp[p]
      OBVIOUS
    <3> QED BY <3>1 DEF IInv, TypeOK, FileOrNone
  <2>2. temp' \in [Procs -> FileOrNone]
    BY <1>0 DEF IInv, TypeOK, FileOrNone
  <2>3. kept' \in [Procs -> SUBSET File]
    BY <1>0 DEF IInv, TypeOK, FileOrNone
  <2>4. moved' \in [Procs -> BOOLEAN]
    BY DEF IInv, TypeOK
  <2>5. pc' \in [Procs -> PCs] /\ ret' \in [Procs -> Results \cup {Absent}]
    BY DEF IInv, TypeOK, PCs, Results, Locked, Window
  <2>6. handle' \in [Procs -> Inodes \cup {Absent}] /\ lock' \in Procs \cup {Absent}
    BY DEF IInv, TypeOK, FileOrNone, File
  <2>7. /\ staged' \in [Procs -> FileOrNone] /\ previous' \in [Procs -> FileOrNone]
        /\ race' \in [Procs -> Nat]
    BY <1>0 DEF IInv, TypeOK, FileOrNone
  <2> QED BY <2>1, <2>2, <2>3, <2>4, <2>5, <2>6, <2>7 DEF IInv, TypeOK
<1>2. (RunInv(p) /\ LockInv(p) /\ AlarmInv(p) /\ RaceInv(p))'
  <2>1. CASE pc'[p] = "previous"
    <3>1. temp'[p] = out /\ moved'[p] = moved[p] /\ ret'[p] = ret[p] /\ lock' = lock
          /\ UNCHANGED <<initial, data>>
      BY <2>1 DEF IInv, TypeOK
    <3>2. ret[p] = Absent /\ data[p] \in Versions /\ race[p] = 0 /\ (~moved[p] => out = initial[p])
      BY <1>0 DEF RunInv, AlarmInv, Early, Locked
    <3> QED BY <1>0, <2>1, <3>1, <3>2, OutputAssumption
               DEF RunInv, LockInv, AlarmInv, RaceInv, Early, Rolling, Results
  <2>2. CASE pc'[p] = "done" /\ ret'[p] = "err"
    BY <2>2, DoneKeeps
  <2> QED BY <2>1, <2>2 DEF IInv, TypeOK
<1>3. ASSUME NEW q \in Procs \ {p} PROVE Frame(q)
  BY <1>0 DEF IInv, TypeOK, Frame
<1> QED BY <1>1, <1>2, <1>3 DEF StepKeeps

LEMMA CheckPreviousKeeps ==
  ASSUME IInv, NEW p \in Procs, CheckPrevious(p), UNCHANGED <<kept, race, platform>>
  PROVE  StepKeeps(p)
<1> USE DEF CheckPrevious, Return, Goto, Fault, sameOutputState
<1>0. pc[p] = "previous" /\ lock = p /\ RunInv(p) /\ LockInv(p) /\ AlarmInv(p) /\ RaceInv(p)
  BY DEF IInv, LockInv, Locked, Window
<1>1. TypeOK'
  BY <1>0 DEF IInv, TypeOK, PCs, Results, FileOrNone, Locked, Window
<1>2. RunInv(p)' /\ LockInv(p)'
  BY <1>0 DEF IInv, TypeOK, RunInv, LockInv, Early, Rolling, Locked, Window
<1>3. AlarmInv(p)'
  BY <1>0 DEF IInv, TypeOK, RunInv, AlarmInv, Early, Rolling
<1>4. RaceInv(p)'
  BY <1>0 DEF IInv, TypeOK, RunInv, AlarmInv, RaceInv
<1>5. ASSUME NEW q \in Procs \ {p} PROVE Frame(q)
  BY <1>0 DEF IInv, TypeOK, Frame
<1> QED BY <1>1, <1>2, <1>3, <1>4, <1>5 DEF StepKeeps

LEMMA CheckCurrentKeeps ==
  ASSUME IInv, NEW p \in Procs, CheckCurrent(p), UNCHANGED <<kept, race, platform>>
  PROVE  StepKeeps(p)
<1> USE DEF CheckCurrent, Return, Goto, Fault, sameOutputState
<1>0. pc[p] = "current" /\ lock = p /\ RunInv(p) /\ LockInv(p) /\ AlarmInv(p) /\ RaceInv(p)
  BY DEF IInv, LockInv, Locked, Window
<1>1. TypeOK'
  BY <1>0 DEF IInv, TypeOK, PCs, Results, FileOrNone, Locked, Window
<1>2. RunInv(p)' /\ LockInv(p)'
  BY <1>0 DEF IInv, TypeOK, RunInv, LockInv, Early, Rolling, Locked, Window
<1>3. AlarmInv(p)'
  BY <1>0 DEF IInv, TypeOK, RunInv, AlarmInv, Early, Rolling
<1>4. RaceInv(p)'
  BY <1>0 DEF IInv, TypeOK, RunInv, AlarmInv, RaceInv
<1>5. ASSUME NEW q \in Procs \ {p} PROVE Frame(q)
  BY <1>0 DEF IInv, TypeOK, Frame
<1> QED BY <1>1, <1>2, <1>3, <1>4, <1>5 DEF StepKeeps

LEMMA RollbackKeeps ==
  ASSUME IInv, NEW p \in Procs, Rollback(p), UNCHANGED <<kept, race, platform>>
  PROVE  StepKeeps(p)
<1> USE DEF Rollback, Return, Goto, Fault, exchangeOutputPaths, ExchangeFails, Disturb
<1>0. pc[p] = "rollback" /\ lock = p /\ RunInv(p) /\ LockInv(p) /\ AlarmInv(p) /\ RaceInv(p)
  BY DEF IInv, LockInv, Locked, Window
<1>1. TypeOK'
  <2>1. out' \in FileOrNone
    <3>1. out' = out \/ out' = temp[p]
      OBVIOUS
    <3> QED BY <3>1 DEF IInv, TypeOK, FileOrNone
  <2>2. temp' \in [Procs -> FileOrNone]
    <3>1. \/ temp' = [temp EXCEPT ![p] = out] \/ temp' = temp
          \/ \E f \in {temp[p], Absent} : temp' = [temp EXCEPT ![p] = f]
      OBVIOUS
    <3> QED BY <3>1 DEF IInv, TypeOK, FileOrNone
  <2>3. kept' \in [Procs -> SUBSET File]
    BY <1>0 DEF IInv, TypeOK, FileOrNone
  <2>4. moved' \in [Procs -> BOOLEAN]
    BY DEF IInv, TypeOK
  <2>5. pc' \in [Procs -> PCs] /\ ret' \in [Procs -> Results \cup {Absent}]
    BY DEF IInv, TypeOK, PCs, Results, Locked, Window
  <2>6. handle' \in [Procs -> Inodes \cup {Absent}] /\ lock' \in Procs \cup {Absent}
    BY DEF IInv, TypeOK, FileOrNone, File
  <2>7. /\ staged' \in [Procs -> FileOrNone] /\ previous' \in [Procs -> FileOrNone]
        /\ race' \in [Procs -> Nat]
    BY <1>0 DEF IInv, TypeOK, FileOrNone
  <2> QED BY <2>1, <2>2, <2>3, <2>4, <2>5, <2>6, <2>7 DEF IInv, TypeOK
<1>2. (RunInv(p) /\ LockInv(p) /\ AlarmInv(p) /\ RaceInv(p))'
  <2>1. moved'[p]
    BY <1>0 DEF IInv, TypeOK, AlarmInv, Rolling
  <2>2. CASE pc'[p] = "verify"
    <3>1. ret'[p] = ret[p] /\ lock' = lock /\ UNCHANGED data
      BY <2>2 DEF IInv, TypeOK
    <3>2. ret[p] = Absent /\ data[p] \in Versions /\ race[p] = 0
      BY <1>0 DEF RunInv, Locked, Window
    <3> QED BY <1>0, <2>1, <2>2, <3>1, <3>2, OutputAssumption
               DEF RunInv, LockInv, AlarmInv, RaceInv, Early, Rolling, Results
  <2>3. CASE pc'[p] = "done" /\ ret'[p] = "concurrent"
    BY <2>1, <2>3, DoneKeeps
  <2> QED BY <2>2, <2>3 DEF IInv, TypeOK
<1>3. ASSUME NEW q \in Procs \ {p} PROVE Frame(q)
  BY <1>0 DEF IInv, TypeOK, Frame
<1> QED BY <1>1, <1>2, <1>3 DEF StepKeeps

LEMMA VerifyRollbackKeeps ==
  ASSUME IInv, NEW p \in Procs, VerifyRollback(p), UNCHANGED <<kept, race, platform>>
  PROVE  StepKeeps(p)
<1> USE DEF VerifyRollback, Return, Goto, Fault, sameOutputState
<1>0. pc[p] = "verify" /\ lock = p /\ RunInv(p) /\ LockInv(p) /\ AlarmInv(p) /\ RaceInv(p)
  BY DEF IInv, LockInv, Locked, Window
<1>1. TypeOK'
  BY <1>0 DEF IInv, TypeOK, PCs, Results, FileOrNone, Locked, Window
<1>2. RunInv(p)' /\ LockInv(p)'
  BY <1>0 DEF IInv, TypeOK, RunInv, LockInv, Early, Rolling, Locked, Window
<1>3. AlarmInv(p)'
  BY <1>0 DEF IInv, TypeOK, RunInv, AlarmInv, Early, Rolling
<1>4. RaceInv(p)'
  BY <1>0 DEF IInv, TypeOK, RunInv, AlarmInv, RaceInv
<1>5. ASSUME NEW q \in Procs \ {p} PROVE Frame(q)
  BY <1>0 DEF IInv, TypeOK, Frame
<1> QED BY <1>1, <1>2, <1>3, <1>4, <1>5 DEF StepKeeps

LEMMA ExchangeBackKeeps ==
  ASSUME IInv, NEW p \in Procs, ExchangeBack(p), UNCHANGED <<kept, race, platform>>
  PROVE  StepKeeps(p)
<1> USE DEF ExchangeBack, Return, Goto, Fault, ExchangeFails, Disturb
<1>0. pc[p] = "again" /\ lock = p /\ RunInv(p) /\ LockInv(p) /\ AlarmInv(p) /\ RaceInv(p)
  BY DEF IInv, LockInv, Locked, Window
<1>1. TypeOK'
  <2>1. out' \in FileOrNone
    <3>1. out' = out \/ out' = temp[p]
      OBVIOUS
    <3> QED BY <3>1 DEF IInv, TypeOK, FileOrNone
  <2>2. temp' \in [Procs -> FileOrNone]
    <3>1. \/ temp' = [temp EXCEPT ![p] = out] \/ temp' = temp
          \/ \E f \in {temp[p], Absent} : temp' = [temp EXCEPT ![p] = f]
      OBVIOUS
    <3> QED BY <3>1 DEF IInv, TypeOK, FileOrNone
  <2>3. kept' \in [Procs -> SUBSET File]
    BY <1>0 DEF IInv, TypeOK, FileOrNone
  <2>4. moved' \in [Procs -> BOOLEAN]
    BY DEF IInv, TypeOK
  <2>5. pc' \in [Procs -> PCs] /\ ret' \in [Procs -> Results \cup {Absent}]
    BY DEF IInv, TypeOK, PCs, Results, Locked, Window
  <2>6. handle' \in [Procs -> Inodes \cup {Absent}] /\ lock' \in Procs \cup {Absent}
    BY DEF IInv, TypeOK, FileOrNone, File
  <2>7. /\ staged' \in [Procs -> FileOrNone] /\ previous' \in [Procs -> FileOrNone]
        /\ race' \in [Procs -> Nat]
    BY <1>0 DEF IInv, TypeOK, FileOrNone
  <2> QED BY <2>1, <2>2, <2>3, <2>4, <2>5, <2>6, <2>7 DEF IInv, TypeOK
<1>2. RunInv(p)' /\ LockInv(p)'
  BY <1>0 DEF IInv, TypeOK, RunInv, LockInv, Early, Rolling, Locked, Window
<1>3. AlarmInv(p)'
  BY <1>0 DEF IInv, TypeOK, RunInv, AlarmInv, Early, Rolling
<1>4. RaceInv(p)'
  BY <1>0 DEF IInv, TypeOK, RunInv, AlarmInv, RaceInv
<1>5. ASSUME NEW q \in Procs \ {p} PROVE Frame(q)
  BY <1>0 DEF IInv, TypeOK, Frame
<1> QED BY <1>1, <1>2, <1>3, <1>4, <1>5 DEF StepKeeps

LEMMA OpenTargetKeeps ==
  ASSUME IInv, NEW p \in Procs, OpenTarget(p), UNCHANGED platform
  PROVE  StepKeeps(p)
<1> USE DEF OpenTarget, Return, Goto, Fault, otherVars
<1>0. pc[p] = "commit" /\ lock = p /\ RunInv(p) /\ LockInv(p) /\ AlarmInv(p) /\ RaceInv(p)
  BY DEF IInv, LockInv, Locked, Window
<1>1. TypeOK'
  <2>1. out' \in FileOrNone
    BY <1>0 DEF IInv, TypeOK
  <2>2. temp' \in [Procs -> FileOrNone]
    BY <1>0 DEF IInv, TypeOK, FileOrNone
  <2>3. kept' \in [Procs -> SUBSET File]
    BY <1>0 DEF IInv, TypeOK, FileOrNone
  <2>4. moved' \in [Procs -> BOOLEAN]
    BY DEF IInv, TypeOK
  <2>5. pc' \in [Procs -> PCs] /\ ret' \in [Procs -> Results \cup {Absent}]
    BY DEF IInv, TypeOK, PCs, Results, Locked, Window
  <2>6. handle' \in [Procs -> Inodes \cup {Absent}] /\ lock' \in Procs \cup {Absent}
    BY DEF IInv, TypeOK, FileOrNone, File
  <2>7. /\ staged' \in [Procs -> FileOrNone] /\ previous' \in [Procs -> FileOrNone]
        /\ race' \in [Procs -> Nat]
    BY <1>0 DEF IInv, TypeOK, FileOrNone
  <2> QED BY <2>1, <2>2, <2>3, <2>4, <2>5, <2>6, <2>7 DEF IInv, TypeOK
<1>2. RunInv(p)' /\ LockInv(p)'
  BY <1>0 DEF IInv, TypeOK, RunInv, LockInv, Early, Rolling, Locked, Window
<1>3. AlarmInv(p)'
  BY <1>0 DEF IInv, TypeOK, RunInv, AlarmInv, Early, Rolling
<1>4. RaceInv(p)'
  BY <1>0 DEF IInv, TypeOK, RunInv, AlarmInv, RaceInv
<1>5. ASSUME NEW q \in Procs \ {p} PROVE Frame(q)
  BY <1>0 DEF IInv, TypeOK, Frame
<1> QED BY <1>1, <1>2, <1>3, <1>4, <1>5 DEF StepKeeps

LEMMA PathRefersToHandleKeeps ==
  ASSUME IInv, NEW p \in Procs, pathRefersToHandle(p), UNCHANGED platform
  PROVE  StepKeeps(p)
<1> USE DEF pathRefersToHandle, Return, Goto, Fault, otherVars
<1>0. pc[p] = "path" /\ lock = p /\ RunInv(p) /\ LockInv(p) /\ AlarmInv(p) /\ RaceInv(p)
  BY DEF IInv, LockInv, Locked, Window
<1>1. TypeOK'
  BY <1>0 DEF IInv, TypeOK, PCs, Results, FileOrNone, Locked, Window
<1>2. RunInv(p)' /\ LockInv(p)'
  BY <1>0 DEF IInv, TypeOK, RunInv, LockInv, Early, Rolling, Locked, Window
<1>3. AlarmInv(p)'
  BY <1>0 DEF IInv, TypeOK, RunInv, AlarmInv, Early, Rolling
<1>4. RaceInv(p)'
  BY <1>0 DEF IInv, TypeOK, RunInv, AlarmInv, RaceInv
<1>5. ASSUME NEW q \in Procs \ {p} PROVE Frame(q)
  BY <1>0 DEF IInv, TypeOK, Frame
<1> QED BY <1>1, <1>2, <1>3, <1>4, <1>5 DEF StepKeeps

LEMMA ReplaceTargetKeeps ==
  ASSUME IInv, NEW p \in Procs, ReplaceTarget(p), UNCHANGED platform
  PROVE  StepKeeps(p)
<1> USE DEF ReplaceTarget, Return, Goto, Fault, windowsReplaceFile, ReplaceFileFails, Disturb
<1>0. pc[p] = "replace" /\ lock = p /\ RunInv(p) /\ LockInv(p) /\ AlarmInv(p) /\ RaceInv(p)
  BY DEF IInv, LockInv, Locked, Window
<1>1. TypeOK'
  <2>1. out' \in FileOrNone
    <3>1. out' \in {out, temp[p], Absent}
      OBVIOUS
    <3> QED BY <3>1 DEF IInv, TypeOK, FileOrNone
  <2>2. temp' \in [Procs -> FileOrNone]
    BY <1>0 DEF IInv, TypeOK, FileOrNone
  <2>3. kept' \in [Procs -> SUBSET File]
    <3>1. kept' = kept \/ (out # Absent /\ \E s \in SUBSET kept[p] :
                              kept' = [kept EXCEPT ![p] = s \cup {out}])
      OBVIOUS
    <3>2. out # Absent => out \in File
      BY DEF IInv, TypeOK, FileOrNone
    <3> QED BY <3>1, <3>2 DEF IInv, TypeOK
  <2>4. moved' \in [Procs -> BOOLEAN]
    BY DEF IInv, TypeOK
  <2>5. pc' \in [Procs -> PCs] /\ ret' \in [Procs -> Results \cup {Absent}]
    BY DEF IInv, TypeOK, PCs, Results, Locked, Window
  <2>6. handle' \in [Procs -> Inodes \cup {Absent}] /\ lock' \in Procs \cup {Absent}
    BY DEF IInv, TypeOK, FileOrNone, File
  <2>7. /\ staged' \in [Procs -> FileOrNone] /\ previous' \in [Procs -> FileOrNone]
        /\ race' \in [Procs -> Nat]
    BY <1>0 DEF IInv, TypeOK, FileOrNone
  <2> QED BY <2>1, <2>2, <2>3, <2>4, <2>5, <2>6, <2>7 DEF IInv, TypeOK
<1>2. (RunInv(p) /\ LockInv(p) /\ AlarmInv(p) /\ RaceInv(p))'
  <2>1. CASE pc'[p] = "backup"
    <3>1. out # Absent /\ kept'[p] = (kept[p] \ {temp[p]}) \cup {out} /\ moved'[p] = moved[p]
          /\ ret'[p] = ret[p] /\ lock' = lock /\ UNCHANGED <<initial, data, race, edits>>
      BY <2>1 DEF IInv, TypeOK
    <3>2. /\ ret[p] = Absent /\ data[p] \in Versions /\ race[p] = 0 /\ kept[p] = {}
          /\ ~moved[p] => out = initial[p]
          /\ out = initial[p] \/ edits >= 1
      BY <1>0 DEF RunInv, AlarmInv, RaceInv, Early, Locked
    <3>3. kept'[p] = {out} /\ out \in File
      BY <3>1, <3>2 DEF IInv, TypeOK, FileOrNone
    <3> QED BY <1>0, <2>1, <3>1, <3>2, <3>3, OutputAssumption
               DEF RunInv, LockInv, AlarmInv, RaceInv, Early, Rolling, Results
  <2>2. CASE pc'[p] = "done" /\ ret'[p] = "err"
    BY <2>2, DoneKeeps
  <2> QED BY <2>1, <2>2 DEF IInv, TypeOK
<1>3. ASSUME NEW q \in Procs \ {p} PROVE Frame(q)
  BY <1>0 DEF IInv, TypeOK, Frame
<1> QED BY <1>1, <1>2, <1>3 DEF StepKeeps

LEMMA InspectBackupKeeps ==
  ASSUME IInv, NEW p \in Procs, InspectBackup(p), UNCHANGED platform
  PROVE  StepKeeps(p)
<1> USE DEF InspectBackup, Return, Goto, Fault, sameOutputState,
            removeVerifiedOutputState, Unreadable
<1>0. pc[p] = "backup" /\ lock = p /\ RunInv(p) /\ LockInv(p) /\ AlarmInv(p) /\ RaceInv(p)
  BY DEF IInv, LockInv, Locked, Window
<1>1. TypeOK'
  <2>1. out' \in FileOrNone
    BY <1>0 DEF IInv, TypeOK
  <2>2. temp' \in [Procs -> FileOrNone]
    BY <1>0 DEF IInv, TypeOK, FileOrNone
  <2>3. kept' \in [Procs -> SUBSET File]
    BY <1>0 DEF IInv, TypeOK, FileOrNone
  <2>4. moved' \in [Procs -> BOOLEAN]
    BY DEF IInv, TypeOK
  <2>5. pc' \in [Procs -> PCs] /\ ret' \in [Procs -> Results \cup {Absent}]
    BY DEF IInv, TypeOK, PCs, Results, Locked, Window
  <2>6. handle' \in [Procs -> Inodes \cup {Absent}] /\ lock' \in Procs \cup {Absent}
    BY DEF IInv, TypeOK, FileOrNone, File
  <2>7. /\ staged' \in [Procs -> FileOrNone] /\ previous' \in [Procs -> FileOrNone]
        /\ race' \in [Procs -> Nat]
    <3>1. PICK f \in File : kept[p] = {f}
      BY <1>0 DEF RunInv
    <3>2. Saved(p) = f
      BY <3>1, SavedFile
    <3> QED BY <3>2 DEF IInv, TypeOK, FileOrNone
  <2> QED BY <2>1, <2>2, <2>3, <2>4, <2>5, <2>6, <2>7 DEF IInv, TypeOK
<1>2. (RunInv(p) /\ LockInv(p) /\ AlarmInv(p) /\ RaceInv(p))'
  <2>1. PICK f \in File : kept[p] = {f}
    BY <1>0 DEF RunInv
  <2>2. Saved(p) = f
    BY <2>1, SavedFile
  <2>3. CASE pc'[p] = "target"
    <3>1. initial[p] # f /\ previous'[p] = f /\ kept' = kept /\ moved' = moved
          /\ ret'[p] = ret[p] /\ lock' = lock /\ UNCHANGED <<initial, data, race, edits>>
      BY <2>2, <2>3 DEF IInv, TypeOK
    <3>2. ret[p] = Absent /\ data[p] \in Versions /\ race[p] = 0 /\ moved[p] /\ edits >= 1
      BY <1>0, <2>1, <3>1 DEF RunInv, AlarmInv, RaceInv, Locked, Window
    <3> QED BY <1>0, <2>1, <2>3, <3>1, <3>2, OutputAssumption
               DEF RunInv, LockInv, AlarmInv, RaceInv, Early, Rolling, Results
  <2>4. CASE pc'[p] = "done" /\ ret'[p] \in {"ok", "err"}
    BY <2>4, DoneKeeps
  <2> QED BY <2>3, <2>4 DEF IInv, TypeOK
<1>3. ASSUME NEW q \in Procs \ {p} PROVE Frame(q)
  BY <1>0 DEF IInv, TypeOK, Frame
<1> QED BY <1>1, <1>2, <1>3 DEF StepKeeps

LEMMA InspectTargetKeeps ==
  ASSUME IInv, NEW p \in Procs, InspectTarget(p), UNCHANGED platform
  PROVE  StepKeeps(p)
<1> USE DEF InspectTarget, Return, Goto, Fault, sameOutputState,
            removeVerifiedOutputState, Unreadable
<1>0. pc[p] = "target" /\ lock = p /\ RunInv(p) /\ LockInv(p) /\ AlarmInv(p) /\ RaceInv(p)
  BY DEF IInv, LockInv, Locked, Window
<1>1. TypeOK'
  <2>1. out' \in FileOrNone
    BY <1>0 DEF IInv, TypeOK
  <2>2. temp' \in [Procs -> FileOrNone]
    BY <1>0 DEF IInv, TypeOK, FileOrNone
  <2>3. kept' \in [Procs -> SUBSET File]
    BY <1>0 DEF IInv, TypeOK, FileOrNone
  <2>4. moved' \in [Procs -> BOOLEAN]
    BY DEF IInv, TypeOK
  <2>5. pc' \in [Procs -> PCs] /\ ret' \in [Procs -> Results \cup {Absent}]
    BY DEF IInv, TypeOK, PCs, Results, Locked, Window
  <2>6. handle' \in [Procs -> Inodes \cup {Absent}] /\ lock' \in Procs \cup {Absent}
    BY DEF IInv, TypeOK, FileOrNone, File
  <2>7. /\ staged' \in [Procs -> FileOrNone] /\ previous' \in [Procs -> FileOrNone]
        /\ race' \in [Procs -> Nat]
    BY <1>0 DEF IInv, TypeOK, FileOrNone
  <2> QED BY <2>1, <2>2, <2>3, <2>4, <2>5, <2>6, <2>7 DEF IInv, TypeOK
<1>2. RunInv(p)' /\ LockInv(p)'
  BY <1>0 DEF IInv, TypeOK, RunInv, LockInv, Early, Rolling, Locked, Window
<1>3. AlarmInv(p)'
  BY <1>0 DEF IInv, TypeOK, RunInv, AlarmInv, Early, Rolling
<1>4. RaceInv(p)'
  BY <1>0 DEF IInv, TypeOK, RunInv, AlarmInv, RaceInv
<1>5. ASSUME NEW q \in Procs \ {p} PROVE Frame(q)
  BY <1>0 DEF IInv, TypeOK, Frame
<1> QED BY <1>1, <1>2, <1>3, <1>4, <1>5 DEF StepKeeps

LEMMA RestoreOutputKeeps ==
  ASSUME IInv, NEW p \in Procs, RestoreOutput(p), UNCHANGED platform
  PROVE  StepKeeps(p)
<1> USE DEF RestoreOutput, Return, Goto, Fault, windowsReplaceFile, ReplaceFileFails, Disturb
<1>0. pc[p] = "restore" /\ lock = p /\ RunInv(p) /\ LockInv(p) /\ AlarmInv(p) /\ RaceInv(p)
  BY DEF IInv, LockInv, Locked, Window
<1>1. TypeOK'
  <2>1. out' \in FileOrNone
    <3>1. out' \in {out, previous[p], Absent}
      OBVIOUS
    <3> QED BY <3>1 DEF IInv, TypeOK, FileOrNone
  <2>2. temp' \in [Procs -> FileOrNone]
    BY <1>0 DEF IInv, TypeOK, FileOrNone
  <2>3. kept' \in [Procs -> SUBSET File]
    <3>1. kept' = kept \/ (out # Absent /\ \E s \in SUBSET kept[p] :
                              kept' = [kept EXCEPT ![p] = s \cup {out}])
      OBVIOUS
    <3>2. out # Absent => out \in File
      BY DEF IInv, TypeOK, FileOrNone
    <3> QED BY <3>1, <3>2 DEF IInv, TypeOK
  <2>4. moved' \in [Procs -> BOOLEAN]
    BY DEF IInv, TypeOK
  <2>5. pc' \in [Procs -> PCs] /\ ret' \in [Procs -> Results \cup {Absent}]
    BY DEF IInv, TypeOK, PCs, Results, Locked, Window
  <2>6. handle' \in [Procs -> Inodes \cup {Absent}] /\ lock' \in Procs \cup {Absent}
    BY DEF IInv, TypeOK, FileOrNone, File
  <2>7. /\ staged' \in [Procs -> FileOrNone] /\ previous' \in [Procs -> FileOrNone]
        /\ race' \in [Procs -> Nat]
    BY <1>0 DEF IInv, TypeOK, FileOrNone
  <2> QED BY <2>1, <2>2, <2>3, <2>4, <2>5, <2>6, <2>7 DEF IInv, TypeOK
<1>2. (RunInv(p) /\ LockInv(p) /\ AlarmInv(p) /\ RaceInv(p))'
  <2>1. moved'[p]
    BY <1>0 DEF IInv, TypeOK, AlarmInv, Rolling
  <2>2. CASE pc'[p] = "displaced"
    <3>1. out # Absent /\ kept'[p] = (kept[p] \ {previous[p]}) \cup {out} /\ out' = previous[p]
          /\ ret'[p] = ret[p] /\ lock' = lock /\ UNCHANGED <<staged, previous, data, race, edits>>
      BY <2>2 DEF IInv, TypeOK
    <3>2. /\ ret[p] = Absent /\ data[p] \in Versions /\ kept[p] = {previous[p]}
          /\ out = staged[p] \/ edits >= race[p] + 2
      BY <1>0 DEF RunInv, RaceInv, Locked, Window
    <3>3. kept'[p] = {out} /\ out \in File
      BY <3>1, <3>2 DEF IInv, TypeOK, FileOrNone
    <3> QED BY <1>0, <2>1, <2>2, <3>1, <3>2, <3>3, OutputAssumption
               DEF RunInv, LockInv, AlarmInv, RaceInv, Early, Rolling, Results
  <2>3. CASE pc'[p] = "done" /\ ret'[p] = "concurrent"
    BY <2>1, <2>3, DoneKeeps
  <2> QED BY <2>2, <2>3 DEF IInv, TypeOK
<1>3. ASSUME NEW q \in Procs \ {p} PROVE Frame(q)
  BY <1>0 DEF IInv, TypeOK, Frame
<1> QED BY <1>1, <1>2, <1>3 DEF StepKeeps

LEMMA InspectDisplacedKeeps ==
  ASSUME IInv, NEW p \in Procs, InspectDisplaced(p), UNCHANGED platform
  PROVE  StepKeeps(p)
<1> USE DEF InspectDisplaced, Return, Goto, Fault, sameOutputState,
            removeVerifiedOutputState, Unreadable, NextRound
<1>0. pc[p] = "displaced" /\ lock = p /\ RunInv(p) /\ LockInv(p) /\ AlarmInv(p) /\ RaceInv(p)
  BY DEF IInv, LockInv, Locked, Window
<1>1. TypeOK'
  <2>1. out' \in FileOrNone
    BY <1>0 DEF IInv, TypeOK
  <2>2. temp' \in [Procs -> FileOrNone]
    BY <1>0 DEF IInv, TypeOK, FileOrNone
  <2>3. kept' \in [Procs -> SUBSET File]
    BY <1>0 DEF IInv, TypeOK, FileOrNone
  <2>4. moved' \in [Procs -> BOOLEAN]
    BY DEF IInv, TypeOK
  <2>5. pc' \in [Procs -> PCs] /\ ret' \in [Procs -> Results \cup {Absent}]
    BY DEF IInv, TypeOK, PCs, Results, Locked, Window
  <2>6. handle' \in [Procs -> Inodes \cup {Absent}] /\ lock' \in Procs \cup {Absent}
    BY DEF IInv, TypeOK, FileOrNone, File
  <2>7. /\ staged' \in [Procs -> FileOrNone] /\ previous' \in [Procs -> FileOrNone]
        /\ race' \in [Procs -> Nat]
    <3>1. PICK f \in File : kept[p] = {f}
      BY <1>0 DEF RunInv
    <3>2. Saved(p) = f
      BY <3>1, SavedFile
    <3> QED BY <3>2 DEF IInv, TypeOK, FileOrNone
  <2> QED BY <2>1, <2>2, <2>3, <2>4, <2>5, <2>6, <2>7 DEF IInv, TypeOK
<1>2. (RunInv(p) /\ LockInv(p) /\ AlarmInv(p) /\ RaceInv(p))'
  <2>1. PICK f \in File : kept[p] = {f}
    BY <1>0 DEF RunInv
  <2>2. Saved(p) = f
    BY <2>1, SavedFile
  <2>3. moved'[p] /\ edits' = edits /\ edits \in Nat /\ race[p] \in Nat /\ RaceLimit \in Nat
    BY <1>0, OutputAssumption DEF IInv, TypeOK, AlarmInv, Rolling
  <2>4. staged[p] = f \/ (edits >= race[p] + 2 /\ (out = previous[p] \/ edits >= race[p] + 3))
    BY <1>0, <2>1 DEF RaceInv
  <2>5. CASE pc'[p] = "restore"
    <3>1. /\ staged[p] # f /\ race'[p] = race[p] + 1 /\ staged'[p] = previous[p]
          /\ previous'[p] = f /\ kept' = kept /\ ret'[p] = ret[p]
          /\ UNCHANGED <<lock, data, out>>
      BY <2>2, <2>5 DEF IInv, TypeOK
    <3>2. ret[p] = Absent /\ data[p] \in Versions
      BY <1>0 DEF RunInv, Locked, Window
    <3>3. edits >= race'[p] + 1 /\ (out = staged'[p] \/ edits >= race'[p] + 2)
      BY <2>3, <2>4, <3>1
    <3> QED BY <1>0, <2>1, <2>3, <2>5, <3>1, <3>2, <3>3, OutputAssumption
               DEF RunInv, LockInv, AlarmInv, RaceInv, Early, Rolling, Results
  <2>6. CASE pc'[p] = "done" /\ ret'[p] = "concurrent"
    BY <2>3, <2>6, DoneKeeps
  <2>7. CASE pc'[p] = "done" /\ ret'[p] = "exhausted" /\ race[p] + 1 = RaceLimit /\ staged[p] # f
    BY <2>3, <2>4, <2>7, DoneKeeps
  <2> QED BY <2>2, <2>5, <2>6, <2>7 DEF IInv, TypeOK
<1>3. ASSUME NEW q \in Procs \ {p} PROVE Frame(q)
  BY <1>0 DEF IInv, TypeOK, Frame
<1> QED BY <1>1, <1>2, <1>3 DEF StepKeeps

LEMMA RefuseToReplaceKeeps ==
  ASSUME IInv, NEW p \in Procs, RefuseToReplace(p), UNCHANGED platform
  PROVE  StepKeeps(p)
<1> USE DEF RefuseToReplace, Return, Goto, Fault, otherVars, sameOutputState
<1>0. pc[p] = "commit" /\ lock = p /\ RunInv(p) /\ LockInv(p) /\ AlarmInv(p) /\ RaceInv(p)
  BY DEF IInv, LockInv, Locked, Window
<1>1. TypeOK'
  BY <1>0 DEF IInv, TypeOK, PCs, Results, FileOrNone, Locked, Window
<1>2. RunInv(p)' /\ LockInv(p)'
  BY <1>0 DEF IInv, TypeOK, RunInv, LockInv, Early, Rolling, Locked, Window
<1>3. AlarmInv(p)'
  BY <1>0 DEF IInv, TypeOK, RunInv, AlarmInv, Early, Rolling
<1>4. RaceInv(p)'
  BY <1>0 DEF IInv, TypeOK, RunInv, AlarmInv, RaceInv
<1>5. ASSUME NEW q \in Procs \ {p} PROVE Frame(q)
  BY <1>0 DEF IInv, TypeOK, Frame
<1> QED BY <1>1, <1>2, <1>3, <1>4, <1>5 DEF StepKeeps

\* Every step of a run.
LEMMA WriteKeeps ==
  ASSUME IInv, NEW p \in Procs, Write(p)
  PROVE  IInv'
<1>1. StepKeeps(p)
  BY ValidateOutputStateKeeps, GenerateKeeps, AcquireOutputLockKeeps, CheckOutputKeeps,
     StageTempKeeps, LinkOutputKeeps, CommitKeeps, CheckPreviousKeeps, CheckCurrentKeeps,
     RollbackKeeps, VerifyRollbackKeeps, ExchangeBackKeeps, OpenTargetKeeps,
     PathRefersToHandleKeeps, ReplaceTargetKeeps, InspectBackupKeeps, InspectTargetKeeps,
     RestoreOutputKeeps, InspectDisplacedKeeps, RefuseToReplaceKeeps DEF Write
<1> QED BY <1>1, KeepsIInv

\* The initial states.
LEMMA InitIInv == Init => IInv
<1> SUFFICES ASSUME Init PROVE IInv
  OBVIOUS
<1>1. TypeOK
  BY DEF Init, TypeOK, FileOrNone, File, PCs
<1>2. ASSUME NEW p \in Procs PROVE RunInv(p) /\ LockInv(p) /\ AlarmInv(p) /\ RaceInv(p)
  BY OutputAssumption DEF Init, RunInv, LockInv, AlarmInv, RaceInv, Early, Rolling, Locked,
     Window, Results
<1> QED BY <1>1, <1>2 DEF IInv

\* A step that changes nothing.
LEMMA StutterKeeps == ASSUME IInv, UNCHANGED vars PROVE IInv'
<1>1. TypeOK'
  BY DEF IInv, TypeOK, vars, windowsVars
<1>2. ASSUME NEW q \in Procs PROVE Frame(q)
  BY <1>2 DEF vars, windowsVars, Frame
<1> QED BY <1>1, <1>2, FrameKeeps DEF IInv

-----------------------------------------------------------------------------
(* The theorems. *)

\* Every behaviour keeps the invariant.
THEOREM Invariant == Spec => []IInv
<1>1. IInv /\ [Next]_vars => IInv'
  BY EditKeeps, KillKeeps, WriteKeeps, StutterKeeps DEF Next
<1> QED BY <1>1, InitIInv, PTL DEF Spec

\* The lock file excludes: at most one run is between acquireOutputLock and its
\* deferred unlock, also when runs time out or are killed.
THEOREM LockExcludes ==
  Spec => [](\A p, q \in Procs : pc[p] \in Locked /\ pc[q] \in Locked => p = q)
<1>1. IInv => \A p, q \in Procs : pc[p] \in Locked /\ pc[q] \in Locked => p = q
  BY DEF IInv, LockInv
<1> QED BY <1>1, Invariant, PTL

\* A run that ends with concurrentModificationError, or gives up its rollback,
\* has been raced: the output did change since the run validated it.
THEOREM AlarmsAreTrue == Spec => []NoFalseAlarm
<1>1. IInv => NoFalseAlarm
  BY DEF IInv, AlarmInv, NoFalseAlarm
<1> QED BY <1>1, Invariant, PTL

\* rollbackReplaceFile gives up only after more than
\* replaceFileRollbackRaceLimit replacements by editors; other generators,
\* which the lock keeps out, do not count.
THEOREM ExhaustedByEdits == Spec => []ExhaustedByRaces
<1>1. IInv => ExhaustedByRaces
  BY DEF IInv, RaceInv, ExhaustedByRaces
<1> QED BY <1>1, Invariant, PTL
=============================================================================
