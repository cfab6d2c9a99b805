----------------------------- MODULE UserEvents -----------------------------
(***************************************************************************)
(* The lifecycle of one user_events_data File and of its Registrations     *)
(* (userevents/userevents_linux.go): concurrent Enabled/Writev operations, *)
(* Registration.Close, File.Close and Register, with failing system calls. *)
(*                                                                         *)
(* Every critical section of File.mu is free of blocking calls and takes   *)
(* no other lock, so it is one step here and File.mu needs no variable.    *)
(* Registration.closeMu is held across steps and is modelled by its owner. *)
(***************************************************************************)
EXTENDS Integers, FiniteSets

CONSTANTS
  Writers,      \* goroutines calling Enabled, Write and Writev
  Owners,       \* goroutines calling Register, Registration.Close, File.Close
  Regs,         \* the Registration objects that may be created (a bound)
  ActiveLimit,  \* capacity of the active-operation count: 2^62 in the code
  MaxFaults,    \* bound on the number of failing system calls
  SerialClose,  \* TRUE: callers never overlap two Close calls of one Registration
  NoOwner,      \* closeMu is unlocked
  NoReg         \* the goroutine has not operated on a Registration

ASSUME UserEventsAssumption ==
  /\ IsFiniteSet(Writers)
  /\ Writers \cap Owners = {}
  /\ ActiveLimit \in Nat
  /\ Cardinality(Writers) < ActiveLimit
  /\ MaxFaults \in Nat
  /\ SerialClose \in BOOLEAN
  /\ NoOwner \notin Owners
  /\ NoReg \notin Regs

VARIABLES
  state,       \* low two bits of Registration.lifecycle
  active,      \* the other bits of Registration.lifecycle
  closeMu,     \* owner of Registration.closeMu
  mapped,      \* the enable word is mapped
  registered,  \* the kernel holds the address of the enable word
  fstate,      \* File.state
  ffd,         \* File.fd is a descriptor rather than -1
  fdOpen,      \* the descriptor itself is open
  regs,        \* File.regs
  wpc,         \* program counter of a writer
  wreg,        \* the Registration a writer operates on
  pc,          \* program counter of an owner
  target,      \* the Registration an owner's Registration.Close is about
  inFile,      \* that Close was called by this owner's File.Close
  pending,     \* File.Close: registrations of the snapshot not yet closed
  failed,      \* File.Close: len(closeErrors) # 0
  ret,         \* what the owner's last call returned
  faults       \* failing system calls so far

regVars  == <<state, active, closeMu, mapped, registered>>
fileVars == <<fstate, ffd, fdOpen, regs>>
wVars    == <<wpc, wreg>>
oVars    == <<pc, target, inFile, pending, failed, ret>>
vars     == <<regVars, fileVars, wVars, oVars, faults>>

States == {"Zero", "Open", "Closing", "Closed"}
WPCs   == {"idle", "check", "writev", "release", "notify"}

\* Inside Registration.Close: holding closeMu, waiting on closeCond, or entering.
HoldPCs  == {"rMark", "rDrain", "rUnreg", "rMunmap", "rForget", "rClosed"}
WaitPCs  == {"rWait", "rRelock"}
ClosePCs == {"rLock"} \cup HoldPCs \cup WaitPCs
\* Inside the part of File.Close that fileClosing protects, besides ClosePCs.
FilePCs  == {"fLoop", "fAbort", "fTake", "fCloseFD", "fDone"}
OPCs     == {"idle", "fEnter", "fWait"} \cup ClosePCs \cup FilePCs
Results  == {"none", "regOk", "regErr", "ErrClosed", "closeOk", "closeErr",
             "fileOk", "fileErr"}

Holds(w, r)   == wpc[w] \in {"check", "writev", "release"} /\ wreg[w] = r
Holders(r)    == {w \in Writers : Holds(w, r)}
InClose(t, r) == pc[t] \in ClosePCs /\ target[t] = r
Waiters(r)    == {t \in Owners : pc[t] = "rWait" /\ target[t] = r}

\* Mutant: the count is decreased twice.
DecrementByTwo(n) == (n - 2) % ActiveLimit

\* Unsigned addition of -1 to the active count (atomic.Uint64.Add).
Decrement(n) == (n - 1) % ActiveLimit

CanFail == faults < MaxFaults
Fault   == CanFail /\ faults' = faults + 1
NoFault == UNCHANGED faults

-----------------------------------------------------------------------------
(* Enabled and Writev *)

\* acquire: the load-and-CAS loop takes effect at the CAS that succeeds; a load
\* that finds another state makes the call return false/ErrClosed, a no-op.
Acquire(w, r) ==
  /\ wpc[w] = "idle"
  /\ state[r] = "Open"
  /\ active' = [active EXCEPT ![r] = (@ + 1) % ActiveLimit]
  /\ wpc' = [wpc EXCEPT ![w] = "check"]
  /\ wreg' = [wreg EXCEPT ![w] = r]
  /\ UNCHANGED <<state, closeMu, mapped, registered, fileVars, oVars, faults>>

\* enabled: the kernel may set the word at any time, so either value is read.
\* Enabled, a disabled event and an oversized payload go on to release.
CheckEnabled(w) ==
  /\ wpc[w] = "check"
  /\ \E next \in {"writev", "release"} : wpc' = [wpc EXCEPT ![w] = next]
  /\ UNCHANGED <<regVars, fileVars, wreg, oVars, faults>>

\* Whatever writev returns, the deferred release follows.
Writev(w) ==
  /\ wpc[w] = "writev"
  /\ wpc' = [wpc EXCEPT ![w] = "release"]
  /\ UNCHANGED <<regVars, fileVars, wreg, oVars, faults>>

WriterDone(w) ==
  /\ wpc' = [wpc EXCEPT ![w] = "idle"]
  /\ wreg' = [wreg EXCEPT ![w] = NoReg]

\* Mutant: nobody notifies the waiting closer.
ReleaseSilently(w) ==
  /\ wpc[w] = "release"
  /\ active' = [active EXCEPT ![wreg[w]] = Decrement(@)]
  /\ WriterDone(w)
  /\ UNCHANGED <<state, closeMu, mapped, registered, fileVars, oVars, faults>>

\* release: the last operation out of a closing registration must notify.
Release(w) ==
  LET r == wreg[w] IN
  /\ wpc[w] = "release"
  /\ active' = [active EXCEPT ![r] = Decrement(@)]
  /\ IF state[r] = "Closing" /\ active'[r] = 0
     THEN /\ wpc' = [wpc EXCEPT ![w] = "notify"]
          /\ UNCHANGED wreg
     ELSE WriterDone(w)
  /\ UNCHANGED <<state, closeMu, mapped, registered, fileVars, oVars, faults>>

\* closeMu.Lock; closeCond.Broadcast; closeMu.Unlock.
Notify(w) ==
  LET r == wreg[w] IN
  /\ wpc[w] = "notify"
  /\ closeMu[r] = NoOwner
  /\ WriterDone(w)
  /\ pc' = [t \in Owners |-> IF t \in Waiters(r) THEN "rRelock" ELSE pc[t]]
  /\ UNCHANGED <<regVars, fileVars, target, inFile, pending, failed, ret, faults>>

-----------------------------------------------------------------------------
(* Register *)

Register(t, r) ==
  /\ pc[t] = "idle"
  /\ fstate = "open"
  /\ state[r] = "Zero" /\ ~mapped[r]
  /\ state' = [state EXCEPT ![r] = "Open"]
  /\ mapped' = [mapped EXCEPT ![r] = TRUE]
  /\ registered' = [registered EXCEPT ![r] = TRUE]
  /\ regs' = regs \cup {r}
  /\ ret' = [ret EXCEPT ![t] = "regOk"]
  /\ UNCHANGED <<active, closeMu, fstate, ffd, fdOpen, wVars,
                 pc, target, inFile, pending, failed, faults>>

\* mmap or the ioctl fails; if munmap fails too, the word of r stays mapped and
\* r is never returned to the caller.
RegisterFails(t, r) ==
  /\ pc[t] = "idle"
  /\ fstate = "open"
  /\ state[r] = "Zero" /\ ~mapped[r]
  /\ \E leak \in BOOLEAN : mapped' = [mapped EXCEPT ![r] = leak]
  /\ ret' = [ret EXCEPT ![t] = "regErr"]
  /\ Fault
  /\ UNCHANGED <<state, active, closeMu, registered, fileVars, wVars,
                 pc, target, inFile, pending, failed>>

\* Register and Delete on a File that is closing or closed.
FileUnavailable(t) ==
  /\ pc[t] = "idle"
  /\ fstate # "open"
  /\ ret' = [ret EXCEPT ![t] = "ErrClosed"]
  /\ UNCHANGED <<regVars, fileVars, wVars, pc, target, inFile, pending, failed, faults>>

-----------------------------------------------------------------------------
(* Registration.Close *)

\* The caller's side of the contract, see SerialClose.
MayClose(t, r) == SerialClose => \A u \in Owners \ {t} : ~InClose(u, r)

CallClose(t, r) ==
  /\ pc[t] = "idle"
  /\ state[r] # "Zero"
  /\ MayClose(t, r)
  /\ pc' = [pc EXCEPT ![t] = "rLock"]
  /\ target' = [target EXCEPT ![t] = r]
  /\ inFile' = [inFile EXCEPT ![t] = FALSE]
  /\ ret' = [ret EXCEPT ![t] = "none"]
  /\ UNCHANGED <<regVars, fileVars, wVars, pending, failed, faults>>

\* Registration.Close returns v to the caller, or to the loop of File.Close.
Return(t, v) ==
  /\ pc' = [pc EXCEPT ![t] = IF inFile[t] THEN "fLoop" ELSE "idle"]
  /\ failed' = [failed EXCEPT ![t] = IF inFile[t] THEN @ \/ v = "closeErr" ELSE @]
  /\ ret' = [ret EXCEPT ![t] = IF inFile[t] THEN @ ELSE v]
  /\ UNCHANGED <<target, inFile, pending>>

Unlock(r) == closeMu' = [closeMu EXCEPT ![r] = NoOwner]

\* The state bits change only under closeMu: the load is part of this step. A
\* state of Closing is taken for an earlier Close whose munmap failed.
LockClose(t) ==
  LET r == target[t] IN
  /\ pc[t] = "rLock"
  /\ closeMu[r] = NoOwner
  /\ \/ /\ state[r] = "Closed"
        /\ Return(t, "closeOk")
        /\ UNCHANGED closeMu
     \/ /\ state[r] # "Closed"
        /\ closeMu' = [closeMu EXCEPT ![r] = t]
        /\ pc' = [pc EXCEPT ![t] = IF state[r] = "Open" THEN "rMark" ELSE "rMunmap"]
        /\ UNCHANGED <<target, inFile, pending, failed, ret>>
  /\ UNCHANGED <<state, active, mapped, registered, fileVars, wVars, faults>>

\* CAS loop: the state bits become Closing, the count is kept.
MarkClosing(t) ==
  /\ pc[t] = "rMark"
  /\ state' = [state EXCEPT ![target[t]] = "Closing"]
  /\ pc' = [pc EXCEPT ![t] = "rDrain"]
  /\ UNCHANGED <<active, closeMu, mapped, registered, fileVars, wVars,
                 target, inFile, pending, failed, ret, faults>>

\* Mutant: the active count is ignored.
DrainedAtOnce(r) == state[r] = "Closing"

\* for lifecycle # Closing: closeCond.Wait releases closeMu.
Drained(r) == state[r] = "Closing" /\ active[r] = 0

Drain(t) ==
  LET r == target[t] IN
  /\ pc[t] = "rDrain"
  /\ \/ /\ Drained(r)
        /\ pc' = [pc EXCEPT ![t] = "rUnreg"]
        /\ UNCHANGED closeMu
     \/ /\ ~Drained(r)
        /\ pc' = [pc EXCEPT ![t] = "rWait"]
        /\ Unlock(r)
  /\ UNCHANGED <<state, active, mapped, registered, fileVars, wVars,
                 target, inFile, pending, failed, ret, faults>>

\* Wait returns holding closeMu again.
Relock(t) ==
  LET r == target[t] IN
  /\ pc[t] = "rRelock"
  /\ closeMu[r] = NoOwner
  /\ closeMu' = [closeMu EXCEPT ![r] = t]
  /\ pc' = [pc EXCEPT ![t] = "rDrain"]
  /\ UNCHANGED <<state, active, mapped, registered, fileVars, wVars,
                 target, inFile, pending, failed, ret, faults>>

Unregister(t) ==
  LET r == target[t] IN
  /\ pc[t] = "rUnreg"
  /\ registered' = [registered EXCEPT ![r] = FALSE]
  /\ pc' = [pc EXCEPT ![t] = "rMunmap"]
  /\ UNCHANGED <<state, active, closeMu, mapped, fileVars, wVars,
                 target, inFile, pending, failed, ret, faults>>

\* Mutant: an unregister error does not stop Close.
UnregisterErrorIgnored(t) ==
  /\ pc[t] = "rUnreg"
  /\ Fault
  /\ pc' = [pc EXCEPT ![t] = "rMunmap"]
  /\ UNCHANGED <<regVars, fileVars, wVars, target, inFile, pending, failed, ret>>

\* The registration is open again; Store also clears the count.
UnregisterFails(t) ==
  LET r == target[t] IN
  /\ pc[t] = "rUnreg"
  /\ Fault
  /\ state' = [state EXCEPT ![r] = "Open"]
  /\ active' = [active EXCEPT ![r] = 0]
  /\ Unlock(r)
  /\ Return(t, "closeErr")
  /\ UNCHANGED <<mapped, registered, fileVars, wVars>>

\* munmap and enable = nil: an access between the two faults as well.
Munmap(t) ==
  /\ pc[t] = "rMunmap"
  /\ mapped' = [mapped EXCEPT ![target[t]] = FALSE]
  /\ pc' = [pc EXCEPT ![t] = "rForget"]
  /\ UNCHANGED <<state, active, closeMu, registered, fileVars, wVars,
                 target, inFile, pending, failed, ret, faults>>

\* The registration stays Closing and a later Close starts at munmap.
MunmapFails(t) ==
  /\ pc[t] = "rMunmap"
  /\ Fault
  /\ Unlock(target[t])
  /\ Return(t, "closeErr")
  /\ UNCHANGED <<state, active, mapped, registered, fileVars, wVars>>

Forget(t) ==
  /\ pc[t] = "rForget"
  /\ regs' = regs \ {target[t]}
  /\ pc' = [pc EXCEPT ![t] = "rClosed"]
  /\ UNCHANGED <<regVars, fstate, ffd, fdOpen, wVars,
                 target, inFile, pending, failed, ret, faults>>

StoreClosed(t) ==
  LET r == target[t] IN
  /\ pc[t] = "rClosed"
  /\ state' = [state EXCEPT ![r] = "Closed"]
  /\ active' = [active EXCEPT ![r] = 0]
  /\ Unlock(r)
  /\ Return(t, "closeOk")
  /\ UNCHANGED <<mapped, registered, fileVars, wVars, faults>>

-----------------------------------------------------------------------------
(* File.Close *)

CallFileClose(t) ==
  /\ pc[t] = "idle"
  /\ pc' = [pc EXCEPT ![t] = "fEnter"]
  /\ ret' = [ret EXCEPT ![t] = "none"]
  /\ UNCHANGED <<regVars, fileVars, wVars, target, inFile, pending, failed, faults>>

\* Mutant: a concurrent File.Close does not wait for the one in progress.
FileEnterNoWait(t) ==
  /\ pc[t] = "fEnter"
  /\ \/ /\ fstate # "open"
        /\ pc' = [pc EXCEPT ![t] = "idle"]
        /\ ret' = [ret EXCEPT ![t] = "fileOk"]
        /\ UNCHANGED <<fstate, pending, failed>>
     \/ /\ fstate = "open"
        /\ fstate' = "closing"
        /\ pending' = [pending EXCEPT ![t] = regs]
        /\ failed' = [failed EXCEPT ![t] = FALSE]
        /\ pc' = [pc EXCEPT ![t] = "fLoop"]
        /\ UNCHANGED ret
  /\ UNCHANGED <<regVars, ffd, fdOpen, regs, wVars, target, inFile, faults>>

\* Evaluated under File.mu on entry and after each wake-up of closeCond.
FileEnter(t) ==
  /\ pc[t] = "fEnter"
  /\ \/ /\ fstate = "closing"
        /\ pc' = [pc EXCEPT ![t] = "fWait"]
        /\ UNCHANGED <<fstate, pending, failed, ret>>
     \/ /\ fstate = "closed"
        /\ pc' = [pc EXCEPT ![t] = "idle"]
        /\ ret' = [ret EXCEPT ![t] = "fileOk"]
        /\ UNCHANGED <<fstate, pending, failed>>
     \/ /\ fstate = "open"
        /\ fstate' = "closing"
        /\ pending' = [pending EXCEPT ![t] = regs]
        /\ failed' = [failed EXCEPT ![t] = FALSE]
        /\ pc' = [pc EXCEPT ![t] = "fLoop"]
        /\ UNCHANGED ret
  /\ UNCHANGED <<regVars, ffd, fdOpen, regs, wVars, target, inFile, faults>>

\* registration.Close() for the next registration of the snapshot.
FileCloseNext(t, r) ==
  /\ pc[t] = "fLoop"
  /\ r \in pending[t]
  /\ MayClose(t, r)
  /\ pending' = [pending EXCEPT ![t] = @ \ {r}]
  /\ pc' = [pc EXCEPT ![t] = "rLock"]
  /\ target' = [target EXCEPT ![t] = r]
  /\ inFile' = [inFile EXCEPT ![t] = TRUE]
  /\ UNCHANGED <<regVars, fileVars, wVars, failed, ret, faults>>

\* Mutant: the collected errors are ignored.
FileLoopErrorsIgnored(t) ==
  /\ pc[t] = "fLoop"
  /\ pending[t] = {}
  /\ pc' = [pc EXCEPT ![t] = "fTake"]
  /\ UNCHANGED <<regVars, fileVars, wVars, target, inFile, pending, failed, ret, faults>>

FileLoopEnds(t) ==
  /\ pc[t] = "fLoop"
  /\ pending[t] = {}
  /\ pc' = [pc EXCEPT ![t] = IF failed[t] THEN "fAbort" ELSE "fTake"]
  /\ UNCHANGED <<regVars, fileVars, wVars, target, inFile, pending, failed, ret, faults>>

\* closeCond.Broadcast by t, which itself continues at next.
WakeFile(t, next) ==
  pc' = [u \in Owners |-> IF u = t THEN next
                          ELSE IF pc[u] = "fWait" THEN "fEnter" ELSE pc[u]]

FileAbort(t) ==
  /\ pc[t] = "fAbort"
  /\ fstate' = "open"
  /\ WakeFile(t, "idle")
  /\ ret' = [ret EXCEPT ![t] = "fileErr"]
  /\ UNCHANGED <<regVars, ffd, fdOpen, regs, wVars, target, inFile, pending, failed, faults>>

FileTakeFD(t) ==
  /\ pc[t] = "fTake"
  /\ ffd' = FALSE
  /\ pc' = [pc EXCEPT ![t] = "fCloseFD"]
  /\ UNCHANGED <<regVars, fstate, fdOpen, regs, wVars,
                 target, inFile, pending, failed, ret, faults>>

\* close(2) releases the descriptor even when it reports an error, kept in failed.
FileCloseFD(t) ==
  /\ pc[t] = "fCloseFD"
  /\ fdOpen' = FALSE
  /\ \/ NoFault /\ UNCHANGED failed
     \/ Fault /\ failed' = [failed EXCEPT ![t] = TRUE]
  /\ pc' = [pc EXCEPT ![t] = "fDone"]
  /\ UNCHANGED <<regVars, fstate, ffd, regs, wVars, target, inFile, pending, ret>>

FileDone(t) ==
  /\ pc[t] = "fDone"
  /\ fstate' = "closed"
  /\ WakeFile(t, "idle")
  /\ ret' = [ret EXCEPT ![t] = IF failed[t] THEN "fileErr" ELSE "fileOk"]
  /\ UNCHANGED <<regVars, ffd, fdOpen, regs, wVars, target, inFile, pending, failed, faults>>

-----------------------------------------------------------------------------

Init ==
  /\ state = [r \in Regs |-> "Zero"]
  /\ active = [r \in Regs |-> 0]
  /\ closeMu = [r \in Regs |-> NoOwner]
  /\ mapped = [r \in Regs |-> FALSE]
  /\ registered = [r \in Regs |-> FALSE]
  /\ fstate = "open"
  /\ ffd = TRUE
  /\ fdOpen = TRUE
  /\ regs = {}
  /\ wpc = [w \in Writers |-> "idle"]
  /\ wreg = [w \in Writers |-> NoReg]
  /\ pc = [t \in Owners |-> "idle"]
  /\ target = [t \in Owners |-> NoReg]
  /\ inFile = [t \in Owners |-> FALSE]
  /\ pending = [t \in Owners |-> {}]
  /\ failed = [t \in Owners |-> FALSE]
  /\ ret = [t \in Owners |-> "none"]
  /\ faults = 0

WriterStep(w) ==
  CheckEnabled(w) \/ Writev(w) \/ Release(w) \/ Notify(w)

CloseStep(t) ==
  \/ LockClose(t) \/ MarkClosing(t) \/ Drain(t) \/ Relock(t)
  \/ Unregister(t) \/ UnregisterFails(t) \/ Munmap(t) \/ MunmapFails(t)
  \/ Forget(t) \/ StoreClosed(t)

FileStep(t) ==
  \/ FileEnter(t) \/ (\E r \in Regs : FileCloseNext(t, r)) \/ FileLoopEnds(t)
  \/ FileAbort(t) \/ FileTakeFD(t) \/ FileCloseFD(t) \/ FileDone(t)

Call(t) ==
  \/ \E r \in Regs : Register(t, r) \/ RegisterFails(t, r) \/ CallClose(t, r)
  \/ FileUnavailable(t)
  \/ CallFileClose(t)

Next ==
  \/ \E w \in Writers : (\E r \in Regs : Acquire(w, r)) \/ WriterStep(w)
  \/ \E t \in Owners : Call(t) \/ CloseStep(t) \/ FileStep(t)

Spec == Init /\ [][Next]_vars

\* A started call keeps running: Go schedules every runnable goroutine, and
\* sync.Mutex (its starvation mode) hands over to waiters, hence strong fairness
\* where a step waits for a lock. Starting a call is nobody's duty.
Fairness ==
  /\ \A w \in Writers : SF_vars(WriterStep(w))
  /\ \A t \in Owners : SF_vars(CloseStep(t) \/ FileStep(t))

FairSpec == Spec /\ Fairness

-----------------------------------------------------------------------------
(* Properties *)

TypeOK ==
  /\ state \in [Regs -> States]
  /\ active \in [Regs -> 0..Cardinality(Writers)]
  /\ closeMu \in [Regs -> Owners \cup {NoOwner}]
  /\ mapped \in [Regs -> BOOLEAN]
  /\ registered \in [Regs -> BOOLEAN]
  /\ fstate \in {"open", "closing", "closed"}
  /\ ffd \in BOOLEAN
  /\ fdOpen \in BOOLEAN
  /\ regs \in SUBSET Regs
  /\ wpc \in [Writers -> WPCs]
  /\ wreg \in [Writers -> Regs \cup {NoReg}]
  /\ pc \in [Owners -> OPCs]
  /\ target \in [Owners -> Regs \cup {NoReg}]
  /\ inFile \in [Owners -> BOOLEAN]
  /\ pending \in [Owners -> SUBSET Regs]
  /\ failed \in [Owners -> BOOLEAN]
  /\ ret \in [Owners -> Results]
  /\ faults \in 0..MaxFaults

\* The enable word is never released while the kernel may still update it
\* (the promise in the comments of File.Close and Registration.Close).
KernelMemorySafe == \A r \in Regs : registered[r] => mapped[r]

\* An operation that got past acquire reads a mapped enable word and writes to
\* an open descriptor on behalf of a registered event until it releases.
OperationsProtected ==
  \A w \in Writers, r \in Regs :
    Holds(w, r) => mapped[r] /\ registered[r] /\ fdOpen

\* Each releasing system call is made once, in order, on something still held:
\* unregister before munmap, both before close, also across retries.
ReleaseOnceInOrder ==
  \A t \in Owners :
    /\ pc[t] = "rUnreg" => registered[target[t]] /\ mapped[target[t]] /\ fdOpen
    /\ pc[t] = "rMunmap" => mapped[target[t]] /\ ~registered[target[t]]
    /\ pc[t] = "fCloseFD" => fdOpen /\ \A r \in Regs : ~registered[r]

\* The packed lifecycle word counts exactly the operations in flight.
ActiveExact ==
  \A r \in Regs : active[r] = Cardinality(Holders(r))

\* A registration whose memory is not released yet is still in File.regs, with
\* the descriptor open, so that a failed cleanup can always be retried.
CleanupRetriable ==
  \A r \in Regs : state[r] # "Zero" /\ mapped[r] => r \in regs /\ fdOpen

\* A Close that returned nil left nothing behind, whoever did the work.
CloseOkReleased ==
  \A t \in Owners :
    /\ ret[t] = "closeOk" => ~mapped[target[t]] /\ ~registered[target[t]]
    /\ ret[t] = "fileOk" =>
          /\ ~fdOpen /\ regs = {}
          /\ \A r \in Regs : ~registered[r]
          /\ \A w \in Writers, r \in Regs : ~Holds(w, r)

-----------------------------------------------------------------------------
(* The inductive invariant behind the safety properties *)

\* What a caller must respect for the properties above to hold.
CloseDiscipline == SerialClose \/ Writers = {}

\* closeMu belongs to the goroutine whose Close is between Lock and Unlock.
LockInv ==
  /\ \A t \in Owners : pc[t] \in HoldPCs => closeMu[target[t]] = t
  /\ \A r \in Regs : closeMu[r] # NoOwner =>
        pc[closeMu[r]] \in HoldPCs /\ target[closeMu[r]] = r

TargetInv ==
  /\ \A t \in Owners :
        /\ pc[t] \in ClosePCs => target[t] \in Regs /\ state[target[t]] # "Zero"
        /\ \A r \in pending[t] : state[r] # "Zero"
  /\ \A w \in Writers : wpc[w] # "idle" => wreg[w] \in Regs

\* A closer that gave up closeMu to wait is alone with its registration.
SerialInv ==
  /\ SerialClose => \A t, u \in Owners, r \in Regs :
                      InClose(t, r) /\ InClose(u, r) => t = u
  /\ Writers = {} => \A t \in Owners : pc[t] \notin WaitPCs

\* What a closer may assume about its registration, by program counter.
PhaseInv ==
  \A t \in Owners :
    LET r == target[t] IN
    /\ pc[t] = "rMark" => state[r] = "Open"
    /\ pc[t] \in {"rDrain", "rWait", "rRelock", "rUnreg"} =>
          state[r] = "Closing" /\ registered[r]
    /\ pc[t] = "rUnreg" => active[r] = 0
    /\ pc[t] \in {"rMunmap", "rForget", "rClosed"} =>
          state[r] = "Closing" /\ ~registered[r]
    /\ pc[t] = "rMunmap" => mapped[r]
    /\ pc[t] \in {"rForget", "rClosed"} => ~mapped[r]
    /\ pc[t] = "rClosed" => r \notin regs

\* What the lifecycle state of a registration says about its resources.
ResourceInv ==
  \A r \in Regs :
    /\ state[r] = "Zero" => ~registered[r] /\ r \notin regs
    /\ state[r] = "Open" => registered[r]
    /\ state[r] = "Closed" => ~registered[r] /\ ~mapped[r] /\ r \notin regs
    /\ registered[r] => mapped[r]
    /\ state[r] # "Zero" /\ mapped[r] => r \in regs
    /\ state[r] = "Closing" /\ registered[r] => \E t \in Owners :
          pc[t] \in {"rDrain", "rWait", "rRelock", "rUnreg"} /\ target[t] = r
    /\ state[r] = "Closing" /\ ~mapped[r] => \E t \in Owners :
          pc[t] \in {"rForget", "rClosed"} /\ target[t] = r
    /\ \A w \in Writers : Holds(w, r) => registered[r]

\* The goroutine that set fileClosing and has not reset it.
ClosingFile(t) == pc[t] \in FilePCs \/ (pc[t] \in ClosePCs /\ inFile[t])

FileInv ==
  /\ fstate = "open" => fdOpen
  /\ fstate = "closed" => ~fdOpen
  /\ ~fdOpen => regs = {}
  /\ \A t, u \in Owners : ClosingFile(t) /\ ClosingFile(u) => t = u
  /\ \A t \in Owners :
        /\ ClosingFile(t) => fstate = "closing"
        /\ ClosingFile(t) /\ pc[t] # "fDone" => fdOpen
        /\ pc[t] = "fDone" => ~fdOpen
        /\ pc[t] \in {"fTake", "fCloseFD"} => regs = {}
        /\ pc[t] = "fLoop" /\ ~failed[t] => regs \subseteq pending[t]
        /\ pc[t] \in ClosePCs /\ inFile[t] /\ ~failed[t] =>
              regs \subseteq pending[t] \cup {target[t]}

ReturnInv ==
  \A t \in Owners :
    /\ pc[t] # "idle" => ret[t] = "none"
    /\ ret[t] = "closeOk" => target[t] \in Regs /\ state[target[t]] = "Closed"
    /\ ret[t] = "fileOk" => fstate = "closed"

IInv ==
  /\ TypeOK /\ LockInv /\ TargetInv /\ SerialInv /\ PhaseInv
  /\ ResourceInv /\ FileInv /\ ReturnInv /\ ActiveExact

-----------------------------------------------------------------------------
(* Refinement and liveness *)

\* The File implements SafeRelease: locks, counters and retries hide in stutters.
HeldBy(r) ==
  IF state[r] = "Zero" THEN "none"
  ELSE IF registered[r] THEN "live"
  ELSE IF mapped[r] THEN "unregistered" ELSE "released"

Promise == INSTANCE SafeRelease WITH
  Users <- Writers,
  Items <- Regs,
  held <- [r \in Regs |-> HeldBy(r)],
  accepting <- [r \in Regs |-> state[r] = "Open"],
  using <- [r \in Regs |-> Holders(r)],
  descOpen <- fdOpen

ImplementsSafeRelease == Promise!Spec

\* Every Close call returns: no wake-up of closeCond is lost, and nobody waits
\* for a close that has ended.
CloseReturns == \A t \in Owners : pc[t] # "idle" ~> pc[t] = "idle"

=============================================================================
