--------------------------- MODULE ProviderProofs ---------------------------
(***************************************************************************)
(* The safety properties of Provider for any number of goroutines, keys,   *)
(* event sets and failing system calls.                                    *)
(***************************************************************************)
EXTENDS Provider, TLAPS

Contexts == {None, "event", "user", "close", "write", "bind", "generated", "nil"}

TypeOK ==
  /\ pmu \in Users \cup {None}
  /\ pstate \in {"open", "closing", "closed"}
  /\ sets \in [Keys -> Sets \cup {None}]
  /\ fileOpen \in BOOLEAN
  /\ rstate \in [Sets -> {"Zero", "Open", "Closing", "Closed"}]
  /\ closeMu \in [Sets -> Users \cup {None}]
  /\ enabled \in [Sets -> BOOLEAN]
  /\ pc \in [Users -> PCs]
  /\ key \in [Users -> Keys \cup {None}]
  /\ set \in [Users -> Sets \cup {None}]
  /\ ctx \in [Users -> Contexts]
  /\ after \in [Users -> {"idle", "wBind", "wClosed", "wRecheck", "wWritev"}]
  /\ todo \in [Users -> SUBSET Keys]
  /\ failed \in [Users -> BOOLEAN]
  /\ ret \in [Users -> Results \cup {None}]
  /\ seen \in [Users -> SUBSET {"on", "off", "freed"}]
  /\ faults \in Nat

WriteContexts == {"write", "bind", "generated", "nil"}

\* u is between Lock and Unlock of Provider.mu.
Holding(u) ==
  \/ pc[u] \in {"eCreate", "pLoop", "pFile"}
  \/ pc[u] \in ClosePCs /\ ctx[u] \in {"event", "close"}

MutexInv == \A u \in Users : Holding(u) <=> pmu = u

\* What a call in progress is about.
CallInv ==
  \A u \in Users :
    /\ pc[u] \notin {"idle", "notify"} => ret[u] = None
    /\ pc[u] = "notify" /\ after[u] # "idle" => ret[u] = None
    /\ pc[u] \in {"eLock", "eCreate"} => ctx[u] = "event" /\ key[u] \in Keys
    /\ pc[u] \in {"pLock", "pLoop", "pFile"} => ctx[u] = "close"
    /\ pc[u] \in ClosePCs => ctx[u] \in {"user", "event", "close"}
    /\ pc[u] \in WritePCs => ctx[u] \in WriteContexts
    /\ pc[u] \in ClosePCs \cup WritePCs => set[u] \in Sets /\ rstate[set[u]] # "Zero"

\* The goroutine that works inside Registration.Close holds closeMu, which the
\* drain gives up; past the drain the registration is Closing.
CloserInv ==
  /\ \A u \in Users :
       /\ pc[u] \in {"cDrain", "cUnreg", "cMunmap"} => closeMu[set[u]] = u
       /\ pc[u] \in {"cUnreg", "cMunmap"} => rstate[set[u]] = "Closing"
  /\ \A s \in Sets : closeMu[s] # None =>
       pc[closeMu[s]] \in {"cDrain", "cUnreg", "cMunmap"} /\ set[closeMu[s]] = s

\* What the holder of Provider.mu knows about the cache and the provider's state.
HolderInv ==
  \A u \in Users : Holding(u) =>
    /\ pstate = IF ctx[u] = "event" THEN "open" ELSE "closing"
    /\ pc[u] = "eCreate" => sets[key[u]] = None
    /\ pc[u] \in ClosePCs => key[u] \in Keys /\ sets[key[u]] = set[u]

\* A cached set has been created.
CacheInv == \A k \in Keys : sets[k] # None => rstate[sets[k]] # "Zero"

\* Provider.Close: keys to visit are cached, and unless an error was seen every
\* cached set is still to be visited or being closed.
LoopInv ==
  \A u \in Users : Holding(u) /\ ctx[u] = "close" =>
    /\ todo[u] \subseteq Cached
    /\ pc[u] \in ClosePCs => key[u] \notin todo[u]
    /\ ~failed[u] =>
         Cached \subseteq todo[u] \cup (IF pc[u] \in ClosePCs THEN {key[u]} ELSE {})
    /\ pc[u] = "pFile" => ~failed[u] /\ todo[u] = {}

\* A closed provider has nothing left, and stays so.
ClosedInv ==
  /\ \A u \in Users : ret[u] = "closed" => pstate = "closed"
  /\ pstate = "closed" => Cached = {} /\ (OwnFile => ~fileOpen)

\* A set that was returned stays in the cache until it is closed.
FoundInv ==
  \A u \in Users : ctx[u] = "event" /\ ret[u] = "ok" =>
    /\ key[u] \in Keys /\ set[u] \in Sets /\ rstate[set[u]] # "Zero"
    /\ rstate[set[u]] \in {"Open", "Closing"} => sets[key[u]] = set[u]

\* The file is closed only when nothing is registered with it.
FileInv == ~fileOpen => \A s \in Sets : rstate[s] \in {"Zero", "Closed"}

\* An operation in flight on a closed registration has had its word freed.
FreedInv ==
  \A u \in Users : pc[u] \in OpPCs /\ rstate[set[u]] = "Closed" => "freed" \in seen[u]

\* What a write has learned so far: an event it found off was off, or was not open
\* and will have been off once it is open again.
FoundOff(u) == "off" \in seen[u] \/ rstate[set[u]] # "Open"
SeenInv ==
  \A u \in Users : pc[u] \in WritePCs =>
    /\ Bit(enabled[set[u]]) \in seen[u]
    /\ pc[u] = "wRecheck" \/ ctx[u] = "nil" => FoundOff(u)
    /\ pc[u] = "notify" /\ after[u] = "wRecheck" => FoundOff(u)
    /\ pc[u] = "wRead" /\ ctx[u] = "nil" => "off" \in seen[u]

IInv ==
  /\ TypeOK /\ MutexInv /\ CallInv /\ CloserInv /\ HolderInv /\ CacheInv /\ LoopInv
  /\ ClosedInv /\ NoLeak /\ FoundInv /\ FileInv /\ FreedInv /\ SeenInv /\ HonestErrors

\* States in which Registration.Close may leave a registration.
Finals == {"Open", "Closing", "Closed"}

\* All that the parts of the invariant about closing need to know of a step of a
\* write: Notify wakes closers that wait.
WriteEffect(u) ==
  /\ pc[u] \in WritePCs
  /\ pc'[u] \in WritePCs \cup {"idle"}
  /\ ctx[u] \in WriteContexts /\ ctx'[u] \in WriteContexts
  /\ ret'[u] \in {"ok", "closed"} => ret'[u] = ret[u]
  /\ \A v \in Users \ {u} :
       /\ \/ pc'[v] = pc[v]
          \/ pc[v] = "cWait" /\ pc'[v] = "cRelock"
       /\ ctx'[v] = ctx[v] /\ ret'[v] = ret[v]
  /\ UNCHANGED <<provVars, regVars, key, set, todo, failed, seen, faults>>

-----------------------------------------------------------------------------
(* One lemma for each part of the invariant, one step for each action *)

\* A step of a write changes the call of its goroutine, and wakes closers.
LEMMA WriteStepsEffect ==
  ASSUME IInv, NEW u \in Users, WriteSteps(u)
  PROVE  WriteEffect(u)
<1> USE ProviderAssumption DEF IInv, TypeOK, CallInv, WriteEffect, WriteStep, WriteContexts,
            provVars, regVars, callVars, PCs, WritePCs, OpPCs, ClosePCs, Results, Goto
<1>1. ASSUME GeneratedWrite(u) PROVE WriteEffect(u)
  BY <1>1 DEF GeneratedWrite, Return
<1>2. ASSUME GeneratedRead(u) PROVE WriteEffect(u)
  BY <1>2 DEF GeneratedRead, Release
<1>3. ASSUME CheckClosed(u) PROVE WriteEffect(u)
  BY <1>3 DEF CheckClosed, Return
<1>4. ASSUME CheckEnabled(u) PROVE WriteEffect(u)
  BY <1>4 DEF CheckEnabled, Return
<1>5. ASSUME ReadEnabled(u) PROVE WriteEffect(u)
  BY <1>5 DEF ReadEnabled, Release
<1>6. ASSUME Recheck(u) PROVE WriteEffect(u)
  BY <1>6 DEF Recheck, Return
<1>7. ASSUME Bind(u) PROVE WriteEffect(u)
  BY <1>7 DEF Bind, Return
<1>8. ASSUME Writev(u) PROVE WriteEffect(u)
  BY <1>8 DEF Writev, Return
<1>9. ASSUME Send(u) PROVE WriteEffect(u)
  BY <1>9 DEF Send, Release
<1>10. ASSUME Notify(u) PROVE WriteEffect(u)
  BY <1>10 DEF Notify
<1> QED BY <1>1, <1>2, <1>3, <1>4, <1>5, <1>6, <1>7, <1>8, <1>9, <1>10 DEF WriteSteps

\* Every step keeps the types.
LEMMA TypeOKStep == IInv /\ [Next]_vars => TypeOK'
<1> SUFFICES ASSUME IInv, [Next]_vars PROVE TypeOK'
  OBVIOUS
<1> USE ProviderAssumption DEF TypeOK, IInv, provVars, regVars, callVars, PCs,
            WritePCs, OpPCs, ClosePCs, Contexts, Results, CallInv, Cached, Bit, Finals
<1>1. ASSUME NEW u \in Users, Start(u) PROVE TypeOK'
  BY <1>1 DEF Start, CallEventSet, CallSetClose, CallWrite, CallClose, Call, Goto
<1>2. ASSUME NEW u \in Users, LockEventSet(u) PROVE TypeOK'
  BY <1>2 DEF LockEventSet, Return, Goto, closed
<1>3. ASSUME NEW u \in Users, NEW s \in Sets, CreateSet(u, s) PROVE TypeOK'
  BY <1>3 DEF CreateSet, Return, Goto
<1>4. ASSUME NEW u \in Users, CreateSetFails(u) PROVE TypeOK'
  BY <1>4 DEF CreateSetFails, Return, Goto, Fault
<1>5. ASSUME NEW u \in Users, LockClose(u) PROVE TypeOK'
  BY <1>5 DEF LockClose, CloseResult, Return, Goto
<1>6. ASSUME NEW u \in Users, NEW final \in Finals, CloseEnds(u, final),
             faults' \in Nat
      PROVE  TypeOK'
  <2>1. seen' \in [Users -> SUBSET {"on", "off", "freed"}]
    BY <1>6 DEF CloseEnds
  <2>2. rstate' \in [Sets -> {"Zero", "Open", "Closing", "Closed"}]
    BY <1>6 DEF CloseEnds
  <2>3. sets' \in [Keys -> Sets \cup {None}]
    BY <1>6 DEF CloseEnds, CloseResult
  <2>4. failed' \in [Users -> BOOLEAN]
    <3>1. CASE UNCHANGED failed
      BY <3>1
    <3>2. CASE failed' = [failed EXCEPT ![u] = @ \/ ~(final = "Closed")]
      BY <3>2
    <3> QED BY <1>6, <3>1, <3>2 DEF CloseEnds, CloseResult
  <2> QED BY <1>6, <2>1, <2>2, <2>3, <2>4 DEF CloseEnds, CloseResult, Return, Goto
<1>7. ASSUME NEW u \in Users, LockProvider(u) PROVE TypeOK'
  <2>1. todo' \in [Users -> SUBSET Keys]
    <3>1. Cached \in SUBSET Keys
      BY DEF Cached
    <3> QED BY <1>7, <3>1 DEF LockProvider
  <2>2. failed' \in [Users -> BOOLEAN]
    BY <1>7 DEF LockProvider
  <2> QED BY <1>7, <2>1, <2>2 DEF LockProvider, Return, Goto
<1>8. ASSUME NEW u \in Users, NEW k \in Keys, CloseNext(u, k) PROVE TypeOK'
  BY <1>8 DEF CloseNext, Goto
<1>9. ASSUME NEW u \in Users, LoopEnds(u) PROVE TypeOK'
  BY <1>9 DEF LoopEnds, Return, Goto
<1>10. ASSUME NEW u \in Users, CloseFile(u) PROVE TypeOK'
  BY <1>10 DEF CloseFile, Return, Goto, Fault
<1>11. ASSUME NEW u \in Users, WriteSteps(u) PROVE TypeOK'
  <2>1. ASSUME GeneratedWrite(u) \/ CheckClosed(u) \/ CheckEnabled(u) \/ Recheck(u) \/ Bind(u)
                 \/ Writev(u)
        PROVE  TypeOK'
    BY <2>1 DEF GeneratedWrite, CheckClosed, CheckEnabled, Recheck, Bind, Writev, WriteStep,
         Return, Goto, closed
  <2>2. ASSUME GeneratedRead(u) PROVE TypeOK'
    BY <2>2 DEF GeneratedRead, Release, WriteStep, Goto, Reads
  <2>3. ASSUME ReadEnabled(u) PROVE TypeOK'
    BY <2>3 DEF ReadEnabled, Release, WriteStep, Goto, Reads
  <2>4. ASSUME Send(u) PROVE TypeOK'
    BY <2>4 DEF Send, Release, WriteStep, Goto, Reads
  <2>5. ASSUME Notify(u) PROVE TypeOK'
    BY <2>5 DEF Notify, WriteStep
  <2> QED BY <1>11, <2>1, <2>2, <2>3, <2>4, <2>5 DEF WriteSteps
<1>12. ASSUME NEW s \in Sets, Collector(s) PROVE TypeOK'
  BY <1>12 DEF Collector, Writing
<1>13. ASSUME UNCHANGED vars PROVE TypeOK'
  BY <1>13 DEF vars
<1>14. ASSUME NEW u \in Users, Drain(u) \/ Relock(u) PROVE TypeOK'
  BY <1>14 DEF Drain, Relock, Goto
<1> QED BY <1>1, <1>2, <1>3, <1>4, <1>5, <1>6, <1>7, <1>8, <1>9, <1>10, <1>11,
           <1>12, <1>13, <1>14
        DEF Next, Step, CloseStep, CloseSucceeds, UnregisterFails, MunmapFails, Fault

\* Provider.mu: it is taken and given up only where Holding says.
LEMMA MutexInvStep == IInv /\ [Next]_vars => MutexInv'
<1> SUFFICES ASSUME IInv, [Next]_vars PROVE MutexInv'
  OBVIOUS
<1> USE ProviderAssumption DEF TypeOK, IInv, provVars, regVars, callVars, PCs,
            WritePCs, OpPCs, ClosePCs, Contexts, Results, MutexInv, CallInv, Holding,
            Finals
<1>1. ASSUME NEW u \in Users, Start(u) PROVE MutexInv'
  BY <1>1 DEF Start, CallEventSet, CallSetClose, CallWrite, CallClose, Call, Goto
<1>2. ASSUME NEW u \in Users, LockEventSet(u) PROVE MutexInv'
  BY <1>2 DEF LockEventSet, Return, Goto, closed
<1>3. ASSUME NEW u \in Users, NEW s \in Sets, CreateSet(u, s) PROVE MutexInv'
  BY <1>3 DEF CreateSet, Return, Goto
<1>4. ASSUME NEW u \in Users, CreateSetFails(u) PROVE MutexInv'
  BY <1>4 DEF CreateSetFails, Return, Goto, Fault
<1>5. ASSUME NEW u \in Users, LockClose(u) PROVE MutexInv'
  BY <1>5 DEF LockClose, CloseResult, Return, Goto
<1>6. ASSUME NEW u \in Users, NEW final \in Finals, CloseEnds(u, final),
             faults' \in Nat
      PROVE  MutexInv'
  BY <1>6 DEF CloseEnds, CloseResult, Return, Goto, Writing
<1>7. ASSUME NEW u \in Users, LockProvider(u) PROVE MutexInv'
  BY <1>7 DEF LockProvider, Return, Goto
<1>8. ASSUME NEW u \in Users, NEW k \in Keys, CloseNext(u, k) PROVE MutexInv'
  BY <1>8 DEF CloseNext, Goto
<1>9. ASSUME NEW u \in Users, LoopEnds(u) PROVE MutexInv'
  BY <1>9 DEF LoopEnds, Return, Goto
<1>10. ASSUME NEW u \in Users, CloseFile(u) PROVE MutexInv'
  BY <1>10 DEF CloseFile, Return, Goto, Fault
<1>11. ASSUME NEW u \in Users, WriteSteps(u) PROVE MutexInv'
  BY <1>11, WriteStepsEffect DEF WriteEffect, WriteContexts
<1>12. ASSUME NEW s \in Sets, Collector(s) PROVE MutexInv'
  BY <1>12 DEF Collector, Writing
<1>13. ASSUME UNCHANGED vars PROVE MutexInv'
  BY <1>13 DEF vars
<1>14. ASSUME NEW u \in Users, Drain(u) \/ Relock(u) PROVE MutexInv'
  BY <1>14 DEF Drain, Relock, Goto
<1> QED BY <1>1, <1>2, <1>3, <1>4, <1>5, <1>6, <1>7, <1>8, <1>9, <1>10, <1>11,
           <1>12, <1>13, <1>14
        DEF Next, Step, CloseStep, CloseSucceeds, UnregisterFails, MunmapFails, Fault

\* A call keeps to its purpose, and the set it is about exists.
LEMMA CallInvStep == IInv /\ [Next]_vars => CallInv'
<1> SUFFICES ASSUME IInv, [Next]_vars PROVE CallInv'
  OBVIOUS
<1> USE ProviderAssumption DEF TypeOK, IInv, provVars, regVars, callVars, PCs,
            WritePCs, OpPCs, ClosePCs, Contexts, WriteContexts, Results, CallInv, CacheInv, LoopInv,
            HolderInv, Holding, Cached, Finals
<1>1. ASSUME NEW u \in Users, Start(u) PROVE CallInv'
  <2>1. ASSUME NEW k \in Keys, CallEventSet(u, k) PROVE CallInv'
    BY <2>1 DEF CallEventSet, Call, Goto
  <2>2. ASSUME NEW s \in Sets, CallSetClose(u, s) PROVE CallInv'
    BY <2>2 DEF CallSetClose, Call, Goto
  <2>3. ASSUME CallClose(u) PROVE CallInv'
    BY <2>3 DEF CallClose, Call, Goto
  <2>4. ASSUME NEW s \in Sets, NEW c \in {"write", "bind", "generated"}, CallWrite(u, s, c)
        PROVE  CallInv'
    BY <2>4 DEF CallWrite, Call, Goto
  <2> QED BY <1>1, <2>1, <2>2, <2>3, <2>4 DEF Start
<1>2. ASSUME NEW u \in Users, LockEventSet(u) PROVE CallInv'
  BY <1>2 DEF LockEventSet, Return, Goto, closed
<1>3. ASSUME NEW u \in Users, NEW s \in Sets, CreateSet(u, s) PROVE CallInv'
  BY <1>3 DEF CreateSet, Return, Goto
<1>4. ASSUME NEW u \in Users, CreateSetFails(u) PROVE CallInv'
  BY <1>4 DEF CreateSetFails, Return, Goto, Fault
<1>5. ASSUME NEW u \in Users, LockClose(u) PROVE CallInv'
  BY <1>5 DEF LockClose, CloseResult, Return, Goto
<1>6. ASSUME NEW u \in Users, NEW final \in Finals, CloseEnds(u, final),
             faults' \in Nat
      PROVE  CallInv'
  BY <1>6 DEF CloseEnds, CloseResult, Return, Goto, Writing
<1>7. ASSUME NEW u \in Users, LockProvider(u) PROVE CallInv'
  BY <1>7 DEF LockProvider, Return, Goto
<1>8. ASSUME NEW u \in Users, NEW k \in Keys, CloseNext(u, k) PROVE CallInv'
  <2>1. sets[k] \in Sets /\ ctx[u] = "close"
    BY <1>8 DEF CloseNext, CallInv, LoopInv, Holding, Cached
  <2>2. rstate[sets[k]] # "Zero"
    BY <2>1 DEF CacheInv
  <2> QED BY <1>8, <2>1, <2>2 DEF CloseNext, Goto, CallInv
<1>9. ASSUME NEW u \in Users, LoopEnds(u) PROVE CallInv'
  BY <1>9 DEF LoopEnds, Return, Goto
<1>10. ASSUME NEW u \in Users, CloseFile(u) PROVE CallInv'
  BY <1>10 DEF CloseFile, Return, Goto, Fault
<1>11. ASSUME NEW u \in Users, WriteSteps(u) PROVE CallInv'
  <2>1. ASSUME GeneratedWrite(u) \/ CheckClosed(u) \/ CheckEnabled(u) \/ Recheck(u) \/ Bind(u)
                 \/ Writev(u)
        PROVE  CallInv'
    BY <2>1 DEF GeneratedWrite, CheckClosed, CheckEnabled, Recheck, Bind, Writev, WriteStep,
         Return, Goto, closed
  <2>2. ASSUME GeneratedRead(u) PROVE CallInv'
    BY <2>2 DEF GeneratedRead, Release, WriteStep, Goto, Reads
  <2>3. ASSUME ReadEnabled(u) PROVE CallInv'
    BY <2>3 DEF ReadEnabled, Release, WriteStep, Goto, Reads
  <2>4. ASSUME Send(u) PROVE CallInv'
    BY <2>4 DEF Send, Release, WriteStep, Goto, Reads
  <2>5. ASSUME Notify(u) PROVE CallInv'
    BY <2>5 DEF Notify, WriteStep
  <2> QED BY <1>11, <2>1, <2>2, <2>3, <2>4, <2>5 DEF WriteSteps
<1>12. ASSUME NEW s \in Sets, Collector(s) PROVE CallInv'
  BY <1>12 DEF Collector, Writing
<1>13. ASSUME UNCHANGED vars PROVE CallInv'
  BY <1>13 DEF vars
<1>14. ASSUME NEW u \in Users, Drain(u) \/ Relock(u) PROVE CallInv'
  BY <1>14 DEF Drain, Relock, Goto
<1> QED BY <1>1, <1>2, <1>3, <1>4, <1>5, <1>6, <1>7, <1>8, <1>9, <1>10, <1>11,
           <1>12, <1>13, <1>14
        DEF Next, Step, CloseStep, CloseSucceeds, UnregisterFails, MunmapFails, Fault

\* closeMu of a registration: one goroutine is inside its Close.
LEMMA CloserInvStep == IInv /\ [Next]_vars => CloserInv'
<1> SUFFICES ASSUME IInv, [Next]_vars PROVE CloserInv'
  OBVIOUS
<1> USE ProviderAssumption DEF TypeOK, IInv, provVars, regVars, callVars, PCs,
            WritePCs, OpPCs, ClosePCs, Contexts, Results, CloserInv, CallInv, Finals
<1>1. ASSUME NEW u \in Users, Start(u) PROVE CloserInv'
  BY <1>1 DEF Start, CallEventSet, CallSetClose, CallWrite, CallClose, Call, Goto
<1>2. ASSUME NEW u \in Users, LockEventSet(u) PROVE CloserInv'
  BY <1>2 DEF LockEventSet, Return, Goto, closed
<1>3. ASSUME NEW u \in Users, NEW s \in Sets, CreateSet(u, s) PROVE CloserInv'
  BY <1>3 DEF CreateSet, Return, Goto
<1>4. ASSUME NEW u \in Users, CreateSetFails(u) PROVE CloserInv'
  BY <1>4 DEF CreateSetFails, Return, Goto, Fault
<1>5. ASSUME NEW u \in Users, LockClose(u) PROVE CloserInv'
  BY <1>5 DEF LockClose, CloseResult, Return, Goto
<1>6. ASSUME NEW u \in Users, NEW final \in Finals, CloseEnds(u, final),
             faults' \in Nat
      PROVE  CloserInv'
  BY <1>6 DEF CloseEnds, CloseResult, Return, Goto, Writing
<1>7. ASSUME NEW u \in Users, LockProvider(u) PROVE CloserInv'
  BY <1>7 DEF LockProvider, Return, Goto
<1>8. ASSUME NEW u \in Users, NEW k \in Keys, CloseNext(u, k) PROVE CloserInv'
  BY <1>8 DEF CloseNext, Goto
<1>9. ASSUME NEW u \in Users, LoopEnds(u) PROVE CloserInv'
  BY <1>9 DEF LoopEnds, Return, Goto
<1>10. ASSUME NEW u \in Users, CloseFile(u) PROVE CloserInv'
  BY <1>10 DEF CloseFile, Return, Goto, Fault
<1>11. ASSUME NEW u \in Users, WriteSteps(u) PROVE CloserInv'
  BY <1>11, WriteStepsEffect DEF WriteEffect, WriteContexts
<1>12. ASSUME NEW s \in Sets, Collector(s) PROVE CloserInv'
  BY <1>12 DEF Collector, Writing
<1>13. ASSUME UNCHANGED vars PROVE CloserInv'
  BY <1>13 DEF vars
<1>14. ASSUME NEW u \in Users, Drain(u) \/ Relock(u) PROVE CloserInv'
  <2>1. CASE Drain(u)
    BY <2>1 DEF Drain, Drained, Goto
  <2>2. CASE Relock(u)
    BY <2>2 DEF Relock, Goto
  <2> QED BY <1>14, <2>1, <2>2
<1> QED BY <1>1, <1>2, <1>3, <1>4, <1>5, <1>6, <1>7, <1>8, <1>9, <1>10, <1>11,
           <1>12, <1>13, <1>14
        DEF Next, Step, CloseStep, CloseSucceeds, UnregisterFails, MunmapFails, Fault

\* Sets are cached after they are registered.
LEMMA CacheInvStep == IInv /\ [Next]_vars => CacheInv'
<1> SUFFICES ASSUME IInv, [Next]_vars PROVE CacheInv'
  OBVIOUS
<1> USE ProviderAssumption DEF TypeOK, IInv, provVars, regVars, callVars, PCs,
            WritePCs, OpPCs, ClosePCs, Contexts, Results, CacheInv, CallInv, HolderInv,
            Holding, Finals
<1>1. ASSUME NEW u \in Users, Start(u) PROVE CacheInv'
  BY <1>1 DEF Start, CallEventSet, CallSetClose, CallWrite, CallClose, Call, Goto
<1>2. ASSUME NEW u \in Users, LockEventSet(u) PROVE CacheInv'
  BY <1>2 DEF LockEventSet, Return, Goto, closed
<1>3. ASSUME NEW u \in Users, NEW s \in Sets, CreateSet(u, s) PROVE CacheInv'
  BY <1>3 DEF CreateSet, Return, Goto
<1>4. ASSUME NEW u \in Users, CreateSetFails(u) PROVE CacheInv'
  BY <1>4 DEF CreateSetFails, Return, Goto, Fault
<1>5. ASSUME NEW u \in Users, LockClose(u) PROVE CacheInv'
  BY <1>5 DEF LockClose, CloseResult, Return, Goto
<1>6. ASSUME NEW u \in Users, NEW final \in Finals, CloseEnds(u, final),
             faults' \in Nat
      PROVE  CacheInv'
  BY <1>6 DEF CloseEnds, CloseResult, Return, Goto, Writing
<1>7. ASSUME NEW u \in Users, LockProvider(u) PROVE CacheInv'
  BY <1>7 DEF LockProvider, Return, Goto
<1>8. ASSUME NEW u \in Users, NEW k \in Keys, CloseNext(u, k) PROVE CacheInv'
  BY <1>8 DEF CloseNext, Goto
<1>9. ASSUME NEW u \in Users, LoopEnds(u) PROVE CacheInv'
  BY <1>9 DEF LoopEnds, Return, Goto
<1>10. ASSUME NEW u \in Users, CloseFile(u) PROVE CacheInv'
  BY <1>10 DEF CloseFile, Return, Goto, Fault
<1>11. ASSUME NEW u \in Users, WriteSteps(u) PROVE CacheInv'
  BY <1>11, WriteStepsEffect DEF WriteEffect, WriteContexts
<1>12. ASSUME NEW s \in Sets, Collector(s) PROVE CacheInv'
  BY <1>12 DEF Collector, Writing
<1>13. ASSUME UNCHANGED vars PROVE CacheInv'
  BY <1>13 DEF vars
<1>14. ASSUME NEW u \in Users, Drain(u) \/ Relock(u) PROVE CacheInv'
  BY <1>14 DEF Drain, Relock, Goto
<1> QED BY <1>1, <1>2, <1>3, <1>4, <1>5, <1>6, <1>7, <1>8, <1>9, <1>10, <1>11,
           <1>12, <1>13, <1>14
        DEF Next, Step, CloseStep, CloseSucceeds, UnregisterFails, MunmapFails, Fault

\* Only the holder of Provider.mu changes the cache and the provider's state, so
\* what it found there stays true.
LEMMA HolderInvStep == IInv /\ [Next]_vars => HolderInv'
<1> SUFFICES ASSUME IInv, [Next]_vars PROVE HolderInv'
  OBVIOUS
<1> USE ProviderAssumption DEF TypeOK, IInv, provVars, regVars, callVars, PCs,
            WritePCs, OpPCs, ClosePCs, Contexts, Results, HolderInv, MutexInv, CallInv,
            Holding, Cached, LoopInv, Finals
<1>1. ASSUME NEW u \in Users, Start(u) PROVE HolderInv'
  BY <1>1 DEF Start, CallEventSet, CallSetClose, CallWrite, CallClose, Call, Goto
<1>2. ASSUME NEW u \in Users, LockEventSet(u) PROVE HolderInv'
  BY <1>2 DEF LockEventSet, Return, Goto, closed
<1>3. ASSUME NEW u \in Users, NEW s \in Sets, CreateSet(u, s) PROVE HolderInv'
  BY <1>3 DEF CreateSet, Return, Goto
<1>4. ASSUME NEW u \in Users, CreateSetFails(u) PROVE HolderInv'
  BY <1>4 DEF CreateSetFails, Return, Goto, Fault
<1>5. ASSUME NEW u \in Users, LockClose(u) PROVE HolderInv'
  BY <1>5 DEF LockClose, CloseResult, Return, Goto
<1>6. ASSUME NEW u \in Users, NEW final \in Finals, CloseEnds(u, final),
             faults' \in Nat
      PROVE  HolderInv'
  BY <1>6 DEF CloseEnds, CloseResult, Return, Goto, Writing
<1>7. ASSUME NEW u \in Users, LockProvider(u) PROVE HolderInv'
  BY <1>7 DEF LockProvider, Return, Goto
<1>8. ASSUME NEW u \in Users, NEW k \in Keys, CloseNext(u, k) PROVE HolderInv'
  BY <1>8 DEF CloseNext, Goto
<1>9. ASSUME NEW u \in Users, LoopEnds(u) PROVE HolderInv'
  BY <1>9 DEF LoopEnds, Return, Goto
<1>10. ASSUME NEW u \in Users, CloseFile(u) PROVE HolderInv'
  BY <1>10 DEF CloseFile, Return, Goto, Fault
<1>11. ASSUME NEW u \in Users, WriteSteps(u) PROVE HolderInv'
  BY <1>11, WriteStepsEffect DEF WriteEffect, WriteContexts
<1>12. ASSUME NEW s \in Sets, Collector(s) PROVE HolderInv'
  BY <1>12 DEF Collector, Writing
<1>13. ASSUME UNCHANGED vars PROVE HolderInv'
  BY <1>13 DEF vars
<1>14. ASSUME NEW u \in Users, Drain(u) \/ Relock(u) PROVE HolderInv'
  BY <1>14 DEF Drain, Relock, Goto
<1> QED BY <1>1, <1>2, <1>3, <1>4, <1>5, <1>6, <1>7, <1>8, <1>9, <1>10, <1>11,
           <1>12, <1>13, <1>14
        DEF Next, Step, CloseStep, CloseSucceeds, UnregisterFails, MunmapFails, Fault

\* The loop of Provider.Close visits every cached set once; a set that could not
\* be closed is remembered as an error.
LEMMA LoopInvStep == IInv /\ [Next]_vars => LoopInv'
<1> SUFFICES ASSUME IInv, [Next]_vars PROVE LoopInv'
  OBVIOUS
<1> USE ProviderAssumption DEF TypeOK, IInv, provVars, regVars, callVars, PCs,
            WritePCs, OpPCs, ClosePCs, Contexts, Results, LoopInv, HolderInv, MutexInv,
            CallInv, Holding, Cached, Finals
<1>1. ASSUME NEW u \in Users, Start(u) PROVE LoopInv'
  BY <1>1 DEF Start, CallEventSet, CallSetClose, CallWrite, CallClose, Call, Goto
<1>2. ASSUME NEW u \in Users, LockEventSet(u) PROVE LoopInv'
  BY <1>2 DEF LockEventSet, Return, Goto, closed
<1>3. ASSUME NEW u \in Users, NEW s \in Sets, CreateSet(u, s) PROVE LoopInv'
  BY <1>3 DEF CreateSet, Return, Goto
<1>4. ASSUME NEW u \in Users, CreateSetFails(u) PROVE LoopInv'
  BY <1>4 DEF CreateSetFails, Return, Goto, Fault
<1>5. ASSUME NEW u \in Users, LockClose(u) PROVE LoopInv'
  BY <1>5 DEF LockClose, CloseResult, Return, Goto
<1>6. ASSUME NEW u \in Users, NEW final \in Finals, CloseEnds(u, final),
             faults' \in Nat
      PROVE  LoopInv'
  <2>1. CASE ctx[u] \in {"user", "event"}
    BY <1>6, <2>1 DEF CloseEnds, CloseResult, Return, Goto
  <2>2. CASE ctx[u] = "close"
    <3>1. /\ todo' = todo /\ ctx' = ctx /\ key' = key
          /\ sets' = [sets EXCEPT ![key[u]] = IF final = "Closed" THEN None ELSE @]
          /\ failed' = [failed EXCEPT ![u] = @ \/ ~(final = "Closed")]
          /\ pc' = [pc EXCEPT ![u] = "pLoop"]
          /\ pc[u] \in ClosePCs
      BY <1>6, <2>2 DEF CloseEnds, CloseResult, Goto
    <3>2. \A v \in Users \ {u} : ~Holding(v)'
      BY <2>2, <3>1
    <3>3. /\ key[u] \in Keys \ todo[u]
          /\ todo[u] \subseteq Cached
          /\ ~failed[u] => Cached \subseteq todo[u] \cup {key[u]}
      BY <2>2, <3>1
    <3>4. Cached' = IF final = "Closed" THEN Cached \ {key[u]} ELSE Cached
      BY <2>2, <3>1, <3>3
    <3>5. (final # "Closed" => failed'[u]) /\ (failed[u] => failed'[u])
      BY <3>1
    <3>6. todo'[u] \subseteq Cached' /\ (~failed'[u] => Cached' \subseteq todo'[u])
      BY <3>1, <3>3, <3>4, <3>5
    <3> QED BY <2>2, <3>1, <3>2, <3>6
  <2>3. ctx[u] \in {"user", "event", "close"}
    BY <1>6 DEF CloseEnds, CloseResult
  <2> QED BY <2>1, <2>2, <2>3
<1>7. ASSUME NEW u \in Users, LockProvider(u) PROVE LoopInv'
  BY <1>7 DEF LockProvider, Return, Goto
<1>8. ASSUME NEW u \in Users, NEW k \in Keys, CloseNext(u, k) PROVE LoopInv'
  BY <1>8 DEF CloseNext, Goto
<1>9. ASSUME NEW u \in Users, LoopEnds(u) PROVE LoopInv'
  BY <1>9 DEF LoopEnds, Return, Goto
<1>10. ASSUME NEW u \in Users, CloseFile(u) PROVE LoopInv'
  BY <1>10 DEF CloseFile, Return, Goto, Fault
<1>11. ASSUME NEW u \in Users, WriteSteps(u) PROVE LoopInv'
  BY <1>11, WriteStepsEffect DEF WriteEffect, WriteContexts
<1>12. ASSUME NEW s \in Sets, Collector(s) PROVE LoopInv'
  BY <1>12 DEF Collector, Writing
<1>13. ASSUME UNCHANGED vars PROVE LoopInv'
  BY <1>13 DEF vars
<1>14. ASSUME NEW u \in Users, Drain(u) \/ Relock(u) PROVE LoopInv'
  BY <1>14 DEF Drain, Relock, Goto
<1> QED BY <1>1, <1>2, <1>3, <1>4, <1>5, <1>6, <1>7, <1>8, <1>9, <1>10, <1>11,
           <1>12, <1>13, <1>14
        DEF Next, Step, CloseStep, CloseSucceeds, UnregisterFails, MunmapFails, Fault

\* Provider.Close returns nil only from a state with nothing left, and no step
\* leaves that state.
LEMMA ClosedInvStep == IInv /\ [Next]_vars => ClosedInv'
<1> SUFFICES ASSUME IInv, [Next]_vars PROVE ClosedInv'
  OBVIOUS
<1> USE ProviderAssumption DEF TypeOK, IInv, provVars, regVars, callVars, PCs,
            WritePCs, OpPCs, ClosePCs, Contexts, Results, ClosedInv, LoopInv, HolderInv,
            MutexInv, CallInv, Holding, Cached, Finals
<1>1. ASSUME NEW u \in Users, Start(u) PROVE ClosedInv'
  BY <1>1 DEF Start, CallEventSet, CallSetClose, CallWrite, CallClose, Call, Goto
<1>2. ASSUME NEW u \in Users, LockEventSet(u) PROVE ClosedInv'
  BY <1>2 DEF LockEventSet, Return, Goto, closed
<1>3. ASSUME NEW u \in Users, NEW s \in Sets, CreateSet(u, s) PROVE ClosedInv'
  BY <1>3 DEF CreateSet, Return, Goto
<1>4. ASSUME NEW u \in Users, CreateSetFails(u) PROVE ClosedInv'
  BY <1>4 DEF CreateSetFails, Return, Goto, Fault
<1>5. ASSUME NEW u \in Users, LockClose(u) PROVE ClosedInv'
  BY <1>5 DEF LockClose, CloseResult, Return, Goto
<1>6. ASSUME NEW u \in Users, NEW final \in Finals, CloseEnds(u, final),
             faults' \in Nat
      PROVE  ClosedInv'
  BY <1>6 DEF CloseEnds, CloseResult, Return, Goto, Writing
<1>7. ASSUME NEW u \in Users, LockProvider(u) PROVE ClosedInv'
  BY <1>7 DEF LockProvider, Return, Goto
<1>8. ASSUME NEW u \in Users, NEW k \in Keys, CloseNext(u, k) PROVE ClosedInv'
  BY <1>8 DEF CloseNext, Goto
<1>9. ASSUME NEW u \in Users, LoopEnds(u) PROVE ClosedInv'
  BY <1>9 DEF LoopEnds, Return, Goto
<1>10. ASSUME NEW u \in Users, CloseFile(u) PROVE ClosedInv'
  BY <1>10 DEF CloseFile, Return, Goto, Fault
<1>11. ASSUME NEW u \in Users, WriteSteps(u) PROVE ClosedInv'
  BY <1>11, WriteStepsEffect DEF WriteEffect, WriteContexts
<1>12. ASSUME NEW s \in Sets, Collector(s) PROVE ClosedInv'
  BY <1>12 DEF Collector, Writing
<1>13. ASSUME UNCHANGED vars PROVE ClosedInv'
  BY <1>13 DEF vars
<1>14. ASSUME NEW u \in Users, Drain(u) \/ Relock(u) PROVE ClosedInv'
  BY <1>14 DEF Drain, Relock, Goto
<1> QED BY <1>1, <1>2, <1>3, <1>4, <1>5, <1>6, <1>7, <1>8, <1>9, <1>10, <1>11,
           <1>12, <1>13, <1>14
        DEF Next, Step, CloseStep, CloseSucceeds, UnregisterFails, MunmapFails, Fault

\* A set leaves the cache only when its registration is closed, and a key gets a
\* new set only when it has none.
LEMMA NoLeakStep == IInv /\ [Next]_vars => NoLeak'
<1> SUFFICES ASSUME IInv, [Next]_vars PROVE NoLeak'
  OBVIOUS
<1> USE ProviderAssumption DEF TypeOK, IInv, provVars, regVars, callVars, PCs,
            WritePCs, OpPCs, ClosePCs, Contexts, Results, NoLeak, CallInv, CloserInv,
            HolderInv, Holding, Finals
<1>1. ASSUME NEW u \in Users, Start(u) PROVE NoLeak'
  BY <1>1 DEF Start, CallEventSet, CallSetClose, CallWrite, CallClose, Call, Goto
<1>2. ASSUME NEW u \in Users, LockEventSet(u) PROVE NoLeak'
  BY <1>2 DEF LockEventSet, Return, Goto, closed
<1>3. ASSUME NEW u \in Users, NEW s \in Sets, CreateSet(u, s) PROVE NoLeak'
  BY <1>3 DEF CreateSet, Return, Goto
<1>4. ASSUME NEW u \in Users, CreateSetFails(u) PROVE NoLeak'
  BY <1>4 DEF CreateSetFails, Return, Goto, Fault
<1>5. ASSUME NEW u \in Users, LockClose(u) PROVE NoLeak'
  BY <1>5 DEF LockClose, CloseResult, Return, Goto
<1>6. ASSUME NEW u \in Users, NEW final \in Finals, CloseEnds(u, final),
             faults' \in Nat
      PROVE  NoLeak'
  BY <1>6 DEF CloseEnds, CloseResult, Return, Goto, Writing
<1>7. ASSUME NEW u \in Users, LockProvider(u) PROVE NoLeak'
  BY <1>7 DEF LockProvider, Return, Goto
<1>8. ASSUME NEW u \in Users, NEW k \in Keys, CloseNext(u, k) PROVE NoLeak'
  BY <1>8 DEF CloseNext, Goto
<1>9. ASSUME NEW u \in Users, LoopEnds(u) PROVE NoLeak'
  BY <1>9 DEF LoopEnds, Return, Goto
<1>10. ASSUME NEW u \in Users, CloseFile(u) PROVE NoLeak'
  BY <1>10 DEF CloseFile, Return, Goto, Fault
<1>11. ASSUME NEW u \in Users, WriteSteps(u) PROVE NoLeak'
  BY <1>11, WriteStepsEffect DEF WriteEffect, WriteContexts
<1>12. ASSUME NEW s \in Sets, Collector(s) PROVE NoLeak'
  BY <1>12 DEF Collector, Writing
<1>13. ASSUME UNCHANGED vars PROVE NoLeak'
  BY <1>13 DEF vars
<1>14. ASSUME NEW u \in Users, Drain(u) \/ Relock(u) PROVE NoLeak'
  BY <1>14 DEF Drain, Relock, Goto
<1> QED BY <1>1, <1>2, <1>3, <1>4, <1>5, <1>6, <1>7, <1>8, <1>9, <1>10, <1>11,
           <1>12, <1>13, <1>14
        DEF Next, Step, CloseStep, CloseSucceeds, UnregisterFails, MunmapFails, Fault

\* A set that a caller found stays under its key until it is closed.
LEMMA FoundInvStep == IInv /\ [Next]_vars => FoundInv'
<1> SUFFICES ASSUME IInv, [Next]_vars PROVE FoundInv'
  OBVIOUS
<1> USE ProviderAssumption DEF TypeOK, IInv, provVars, regVars, callVars, PCs,
            WritePCs, OpPCs, ClosePCs, Contexts, Results, FoundInv, CacheInv, CallInv,
            CloserInv, HolderInv, MutexInv, Holding, Finals
<1>1. ASSUME NEW u \in Users, Start(u) PROVE FoundInv'
  BY <1>1 DEF Start, CallEventSet, CallSetClose, CallWrite, CallClose, Call, Goto
<1>2. ASSUME NEW u \in Users, LockEventSet(u) PROVE FoundInv'
  BY <1>2 DEF LockEventSet, Return, Goto, closed
<1>3. ASSUME NEW u \in Users, NEW s \in Sets, CreateSet(u, s) PROVE FoundInv'
  BY <1>3 DEF CreateSet, Return, Goto
<1>4. ASSUME NEW u \in Users, CreateSetFails(u) PROVE FoundInv'
  BY <1>4 DEF CreateSetFails, Return, Goto, Fault
<1>5. ASSUME NEW u \in Users, LockClose(u) PROVE FoundInv'
  BY <1>5 DEF LockClose, CloseResult, Return, Goto
<1>6. ASSUME NEW u \in Users, NEW final \in Finals, CloseEnds(u, final),
             faults' \in Nat
      PROVE  FoundInv'
  BY <1>6 DEF CloseEnds, CloseResult, Return, Goto, Writing
<1>7. ASSUME NEW u \in Users, LockProvider(u) PROVE FoundInv'
  BY <1>7 DEF LockProvider, Return, Goto
<1>8. ASSUME NEW u \in Users, NEW k \in Keys, CloseNext(u, k) PROVE FoundInv'
  BY <1>8 DEF CloseNext, Goto
<1>9. ASSUME NEW u \in Users, LoopEnds(u) PROVE FoundInv'
  BY <1>9 DEF LoopEnds, Return, Goto
<1>10. ASSUME NEW u \in Users, CloseFile(u) PROVE FoundInv'
  BY <1>10 DEF CloseFile, Return, Goto, Fault
<1>11. ASSUME NEW u \in Users, WriteSteps(u) PROVE FoundInv'
  BY <1>11, WriteStepsEffect DEF WriteEffect, WriteContexts
<1>12. ASSUME NEW s \in Sets, Collector(s) PROVE FoundInv'
  BY <1>12 DEF Collector, Writing
<1>13. ASSUME UNCHANGED vars PROVE FoundInv'
  BY <1>13 DEF vars
<1>14. ASSUME NEW u \in Users, Drain(u) \/ Relock(u) PROVE FoundInv'
  BY <1>14 DEF Drain, Relock, Goto
<1> QED BY <1>1, <1>2, <1>3, <1>4, <1>5, <1>6, <1>7, <1>8, <1>9, <1>10, <1>11,
           <1>12, <1>13, <1>14
        DEF Next, Step, CloseStep, CloseSucceeds, UnregisterFails, MunmapFails, Fault

\* The file is closed after the last cached registration, and none is opened then.
LEMMA FileInvStep == IInv /\ [Next]_vars => FileInv'
<1> SUFFICES ASSUME IInv, [Next]_vars PROVE FileInv'
  OBVIOUS
<1> USE ProviderAssumption DEF TypeOK, IInv, provVars, regVars, callVars, PCs,
            WritePCs, OpPCs, ClosePCs, Contexts, Results, FileInv, CallInv,
            CloserInv, LoopInv, NoLeak, Cached, Holding, Finals
<1>1. ASSUME NEW u \in Users, Start(u) PROVE FileInv'
  BY <1>1 DEF Start, CallEventSet, CallSetClose, CallWrite, CallClose, Call, Goto
<1>2. ASSUME NEW u \in Users, LockEventSet(u) PROVE FileInv'
  BY <1>2 DEF LockEventSet, Return, Goto, closed
<1>3. ASSUME NEW u \in Users, NEW s \in Sets, CreateSet(u, s) PROVE FileInv'
  BY <1>3 DEF CreateSet, Return, Goto
<1>4. ASSUME NEW u \in Users, CreateSetFails(u) PROVE FileInv'
  BY <1>4 DEF CreateSetFails, Return, Goto, Fault
<1>5. ASSUME NEW u \in Users, LockClose(u) PROVE FileInv'
  BY <1>5 DEF LockClose, CloseResult, Return, Goto
<1>6. ASSUME NEW u \in Users, NEW final \in Finals, CloseEnds(u, final),
             faults' \in Nat
      PROVE  FileInv'
  BY <1>6 DEF CloseEnds, CloseResult, Return, Goto, Writing
<1>7. ASSUME NEW u \in Users, LockProvider(u) PROVE FileInv'
  BY <1>7 DEF LockProvider, Return, Goto
<1>8. ASSUME NEW u \in Users, NEW k \in Keys, CloseNext(u, k) PROVE FileInv'
  BY <1>8 DEF CloseNext, Goto
<1>9. ASSUME NEW u \in Users, LoopEnds(u) PROVE FileInv'
  BY <1>9 DEF LoopEnds, Return, Goto
<1>10. ASSUME NEW u \in Users, CloseFile(u) PROVE FileInv'
  BY <1>10 DEF CloseFile, Return, Goto, Fault
<1>11. ASSUME NEW u \in Users, WriteSteps(u) PROVE FileInv'
  BY <1>11, WriteStepsEffect DEF WriteEffect, WriteContexts
<1>12. ASSUME NEW s \in Sets, Collector(s) PROVE FileInv'
  BY <1>12 DEF Collector, Writing
<1>13. ASSUME UNCHANGED vars PROVE FileInv'
  BY <1>13 DEF vars
<1>14. ASSUME NEW u \in Users, Drain(u) \/ Relock(u) PROVE FileInv'
  BY <1>14 DEF Drain, Relock, Goto
<1> QED BY <1>1, <1>2, <1>3, <1>4, <1>5, <1>6, <1>7, <1>8, <1>9, <1>10, <1>11,
           <1>12, <1>13, <1>14
        DEF Next, Step, CloseStep, CloseSucceeds, UnregisterFails, MunmapFails, Fault

\* An operation is acquired on an open registration only, and a Close that frees the
\* word under it is recorded.
LEMMA FreedInvStep == IInv /\ [Next]_vars => FreedInv'
<1> SUFFICES ASSUME IInv, [Next]_vars PROVE FreedInv'
  OBVIOUS
<1> USE ProviderAssumption DEF TypeOK, IInv, provVars, regVars, callVars, PCs,
            WritePCs, OpPCs, ClosePCs, Contexts, Results, FreedInv, CallInv,
            CloserInv, Using, Finals
<1>1. ASSUME NEW u \in Users, Start(u) PROVE FreedInv'
  BY <1>1 DEF Start, CallEventSet, CallSetClose, CallWrite, CallClose, Call, Goto
<1>2. ASSUME NEW u \in Users, LockEventSet(u) PROVE FreedInv'
  BY <1>2 DEF LockEventSet, Return, Goto, closed
<1>3. ASSUME NEW u \in Users, NEW s \in Sets, CreateSet(u, s) PROVE FreedInv'
  BY <1>3 DEF CreateSet, Return, Goto
<1>4. ASSUME NEW u \in Users, CreateSetFails(u) PROVE FreedInv'
  BY <1>4 DEF CreateSetFails, Return, Goto, Fault
<1>5. ASSUME NEW u \in Users, LockClose(u) PROVE FreedInv'
  BY <1>5 DEF LockClose, CloseResult, Return, Goto
<1>6. ASSUME NEW u \in Users, NEW final \in Finals, CloseEnds(u, final),
             faults' \in Nat
      PROVE  FreedInv'
  BY <1>6 DEF CloseEnds, CloseResult, Return, Goto, Writing
<1>7. ASSUME NEW u \in Users, LockProvider(u) PROVE FreedInv'
  BY <1>7 DEF LockProvider, Return, Goto
<1>8. ASSUME NEW u \in Users, NEW k \in Keys, CloseNext(u, k) PROVE FreedInv'
  BY <1>8 DEF CloseNext, Goto
<1>9. ASSUME NEW u \in Users, LoopEnds(u) PROVE FreedInv'
  BY <1>9 DEF LoopEnds, Return, Goto
<1>10. ASSUME NEW u \in Users, CloseFile(u) PROVE FreedInv'
  BY <1>10 DEF CloseFile, Return, Goto, Fault
<1>11. ASSUME NEW u \in Users, WriteSteps(u) PROVE FreedInv'
  <2>1. ASSUME GeneratedWrite(u) \/ CheckClosed(u) \/ CheckEnabled(u) \/ Recheck(u) \/ Bind(u)
                 \/ Writev(u)
        PROVE  FreedInv'
    BY <2>1 DEF GeneratedWrite, CheckClosed, CheckEnabled, Recheck, Bind, Writev, WriteStep,
         Return, Goto, closed
  <2>2. ASSUME GeneratedRead(u) PROVE FreedInv'
    BY <2>2 DEF GeneratedRead, Release, WriteStep, Goto, Reads
  <2>3. ASSUME ReadEnabled(u) PROVE FreedInv'
    BY <2>3 DEF ReadEnabled, Release, WriteStep, Goto, Reads
  <2>4. ASSUME Send(u) PROVE FreedInv'
    BY <2>4 DEF Send, Release, WriteStep, Goto, Reads
  <2>5. ASSUME Notify(u) PROVE FreedInv'
    BY <2>5 DEF Notify, WriteStep
  <2> QED BY <1>11, <2>1, <2>2, <2>3, <2>4, <2>5 DEF WriteSteps
<1>12. ASSUME NEW s \in Sets, Collector(s) PROVE FreedInv'
  BY <1>12 DEF Collector, Writing
<1>13. ASSUME UNCHANGED vars PROVE FreedInv'
  BY <1>13 DEF vars
<1>14. ASSUME NEW u \in Users, Drain(u) \/ Relock(u) PROVE FreedInv'
  BY <1>14 DEF Drain, Relock, Goto
<1> QED BY <1>1, <1>2, <1>3, <1>4, <1>5, <1>6, <1>7, <1>8, <1>9, <1>10, <1>11,
           <1>12, <1>13, <1>14
        DEF Next, Step, CloseStep, CloseSucceeds, UnregisterFails, MunmapFails, Fault

\* The history of a write follows the event: every change during the write is in it.
LEMMA SeenInvStep == IInv /\ [Next]_vars => SeenInv'
<1> SUFFICES ASSUME IInv, [Next]_vars PROVE SeenInv'
  OBVIOUS
<1> USE ProviderAssumption DEF TypeOK, IInv, provVars, regVars, callVars, PCs,
            WritePCs, OpPCs, ClosePCs, Contexts, Results, SeenInv, FoundOff, CallInv,
            CloserInv, Bit, Finals
<1>1. ASSUME NEW u \in Users, Start(u) PROVE SeenInv'
  BY <1>1 DEF Start, CallEventSet, CallSetClose, CallWrite, CallClose, Call, Goto
<1>2. ASSUME NEW u \in Users, LockEventSet(u) PROVE SeenInv'
  BY <1>2 DEF LockEventSet, Return, Goto, closed
<1>3. ASSUME NEW u \in Users, NEW s \in Sets, CreateSet(u, s) PROVE SeenInv'
  BY <1>3 DEF CreateSet, Return, Goto
<1>4. ASSUME NEW u \in Users, CreateSetFails(u) PROVE SeenInv'
  BY <1>4 DEF CreateSetFails, Return, Goto, Fault
<1>5. ASSUME NEW u \in Users, LockClose(u) PROVE SeenInv'
  BY <1>5 DEF LockClose, CloseResult, Return, Goto
<1>6. ASSUME NEW u \in Users, NEW final \in Finals, CloseEnds(u, final),
             faults' \in Nat
      PROVE  SeenInv'
  BY <1>6 DEF CloseEnds, CloseResult, Return, Goto, Writing
<1>7. ASSUME NEW u \in Users, LockProvider(u) PROVE SeenInv'
  BY <1>7 DEF LockProvider, Return, Goto
<1>8. ASSUME NEW u \in Users, NEW k \in Keys, CloseNext(u, k) PROVE SeenInv'
  BY <1>8 DEF CloseNext, Goto
<1>9. ASSUME NEW u \in Users, LoopEnds(u) PROVE SeenInv'
  BY <1>9 DEF LoopEnds, Return, Goto
<1>10. ASSUME NEW u \in Users, CloseFile(u) PROVE SeenInv'
  BY <1>10 DEF CloseFile, Return, Goto, Fault
<1>11. ASSUME NEW u \in Users, WriteSteps(u) PROVE SeenInv'
  <2>1. ASSUME GeneratedWrite(u) \/ CheckClosed(u) \/ CheckEnabled(u) \/ Recheck(u) \/ Bind(u)
                 \/ Writev(u)
        PROVE  SeenInv'
    BY <2>1 DEF GeneratedWrite, CheckClosed, CheckEnabled, Recheck, Bind, Writev, WriteStep,
         Return, Goto, closed
  <2>2. ASSUME GeneratedRead(u) PROVE SeenInv'
    BY <2>2 DEF GeneratedRead, Release, WriteStep, Goto, Reads
  <2>3. ASSUME ReadEnabled(u) PROVE SeenInv'
    BY <2>3 DEF ReadEnabled, Release, WriteStep, Goto, Reads
  <2>4. ASSUME Send(u) PROVE SeenInv'
    BY <2>4 DEF Send, Release, WriteStep, Goto, Reads
  <2>5. ASSUME Notify(u) PROVE SeenInv'
    BY <2>5 DEF Notify, WriteStep
  <2> QED BY <1>11, <2>1, <2>2, <2>3, <2>4, <2>5 DEF WriteSteps
<1>12. ASSUME NEW s \in Sets, Collector(s) PROVE SeenInv'
  BY <1>12 DEF Collector, Writing
<1>13. ASSUME UNCHANGED vars PROVE SeenInv'
  BY <1>13 DEF vars
<1>14. ASSUME NEW u \in Users, Drain(u) \/ Relock(u) PROVE SeenInv'
  BY <1>14 DEF Drain, Relock, Goto
<1> QED BY <1>1, <1>2, <1>3, <1>4, <1>5, <1>6, <1>7, <1>8, <1>9, <1>10, <1>11,
           <1>12, <1>13, <1>14
        DEF Next, Step, CloseStep, CloseSucceeds, UnregisterFails, MunmapFails, Fault

\* What a write returns was seen before.
LEMMA HonestErrorsStep == IInv /\ [Next]_vars => HonestErrors'
<1> SUFFICES ASSUME IInv, [Next]_vars PROVE HonestErrors'
  OBVIOUS
<1> USE ProviderAssumption DEF TypeOK, IInv, provVars, regVars, callVars, PCs,
            WritePCs, OpPCs, ClosePCs, Contexts, Results, HonestErrors, SeenInv, FoundOff,
            CallInv, Bit, Finals
<1>1. ASSUME NEW u \in Users, Start(u) PROVE HonestErrors'
  BY <1>1 DEF Start, CallEventSet, CallSetClose, CallWrite, CallClose, Call, Goto
<1>2. ASSUME NEW u \in Users, LockEventSet(u) PROVE HonestErrors'
  BY <1>2 DEF LockEventSet, Return, Goto, closed
<1>3. ASSUME NEW u \in Users, NEW s \in Sets, CreateSet(u, s) PROVE HonestErrors'
  BY <1>3 DEF CreateSet, Return, Goto
<1>4. ASSUME NEW u \in Users, CreateSetFails(u) PROVE HonestErrors'
  BY <1>4 DEF CreateSetFails, Return, Goto, Fault
<1>5. ASSUME NEW u \in Users, LockClose(u) PROVE HonestErrors'
  BY <1>5 DEF LockClose, CloseResult, Return, Goto
<1>6. ASSUME NEW u \in Users, NEW final \in Finals, CloseEnds(u, final),
             faults' \in Nat
      PROVE  HonestErrors'
  BY <1>6 DEF CloseEnds, CloseResult, Return, Goto, Writing
<1>7. ASSUME NEW u \in Users, LockProvider(u) PROVE HonestErrors'
  BY <1>7 DEF LockProvider, Return, Goto
<1>8. ASSUME NEW u \in Users, NEW k \in Keys, CloseNext(u, k) PROVE HonestErrors'
  BY <1>8 DEF CloseNext, Goto
<1>9. ASSUME NEW u \in Users, LoopEnds(u) PROVE HonestErrors'
  BY <1>9 DEF LoopEnds, Return, Goto
<1>10. ASSUME NEW u \in Users, CloseFile(u) PROVE HonestErrors'
  BY <1>10 DEF CloseFile, Return, Goto, Fault
<1>11. ASSUME NEW u \in Users, WriteSteps(u) PROVE HonestErrors'
  <2>1. ASSUME GeneratedWrite(u) \/ CheckClosed(u) \/ CheckEnabled(u) \/ Recheck(u) \/ Bind(u)
                 \/ Writev(u)
        PROVE  HonestErrors'
    BY <2>1 DEF GeneratedWrite, CheckClosed, CheckEnabled, Recheck, Bind, Writev, WriteStep,
         Return, Goto, closed
  <2>2. ASSUME GeneratedRead(u) PROVE HonestErrors'
    BY <2>2 DEF GeneratedRead, Release, WriteStep, Goto, Reads
  <2>3. ASSUME ReadEnabled(u) PROVE HonestErrors'
    <3>1. CASE ret' = ret
      BY <2>3, <3>1 DEF ReadEnabled, WriteStep
    <3>2. CASE ret' = [ret EXCEPT ![u] = "ErrInvalidValue"] /\ ctx[u] = "nil" /\ TRUE \in Reads(set[u])
      <4>1. "off" \in seen[u] /\ seen' = seen /\ set[u] \in Sets
        BY <2>3, <3>2 DEF ReadEnabled, WriteStep
      <4>2. "freed" \in seen[u] \/ "on" \in seen[u]
        BY <2>3, <3>2, <4>1 DEF ReadEnabled, WriteStep, Reads, FreedInv
      <4> QED BY <3>2, <4>1, <4>2
    <3>3. PICK on \in Reads(set[u]) :
            ret' = ret \/ (on /\ ctx[u] = "nil" /\ ret' = [ret EXCEPT ![u] = "ErrInvalidValue"])
      BY <2>3, Zenon DEF ReadEnabled
    <3>4. on \in BOOLEAN
      BY <2>3, <3>3 DEF ReadEnabled, WriteStep, Reads
    <3>5. CASE on = TRUE
      BY <3>1, <3>2, <3>3, <3>5
    <3>6. CASE on = FALSE
      BY <3>1, <3>3, <3>6
    <3> QED BY <3>4, <3>5, <3>6
  <2>4. ASSUME Send(u) PROVE HonestErrors'
    <3>1. seen' = seen /\ set[u] \in Sets /\ rstate[set[u]] # "Zero" /\ pc[u] = "wSend"
      BY <2>4 DEF Send, WriteStep
    <3>2. PICK v \in {"written", "err", "ErrDisabled"} :
            /\ ret' = [ret EXCEPT ![u] = v]
            /\ v = "ErrDisabled" => FALSE \in Reads(set[u]) \/ ~fileOpen
      <4>1. PICK on \in Reads(set[u]), w \in {"written", "err", "ErrDisabled"} :
              /\ ret' = [ret EXCEPT ![u] = w]
              /\ w = "ErrDisabled" => ~(on /\ fileOpen)
        BY <2>4 DEF Send
      <4>2. on \in BOOLEAN
        BY <3>1, <4>1 DEF Reads
      <4> QED BY <4>1, <4>2
    <3>3. v = "ErrDisabled" => "freed" \in seen[u] \/ "off" \in seen[u]
      BY <3>1, <3>2 DEF Reads, FreedInv, FileInv
    <3> QED BY <3>1, <3>2, <3>3
  <2>5. ASSUME Notify(u) PROVE HonestErrors'
    BY <2>5 DEF Notify, WriteStep
  <2> QED BY <1>11, <2>1, <2>2, <2>3, <2>4, <2>5 DEF WriteSteps
<1>12. ASSUME NEW s \in Sets, Collector(s) PROVE HonestErrors'
  BY <1>12 DEF Collector, Writing
<1>13. ASSUME UNCHANGED vars PROVE HonestErrors'
  BY <1>13 DEF vars
<1>14. ASSUME NEW u \in Users, Drain(u) \/ Relock(u) PROVE HonestErrors'
  BY <1>14 DEF Drain, Relock, Goto
<1> QED BY <1>1, <1>2, <1>3, <1>4, <1>5, <1>6, <1>7, <1>8, <1>9, <1>10, <1>11,
           <1>12, <1>13, <1>14
        DEF Next, Step, CloseStep, CloseSucceeds, UnregisterFails, MunmapFails, Fault

-----------------------------------------------------------------------------
(* The theorems *)

\* Nothing is registered and nobody is running.
LEMMA InitInv == Init => IInv
<1> SUFFICES ASSUME Init PROVE IInv
  OBVIOUS
<1> USE ProviderAssumption DEF Init, Results
<1>1. TypeOK
  BY DEF TypeOK, PCs, Contexts
<1>2. MutexInv /\ CallInv /\ CloserInv /\ CacheInv
  BY DEF MutexInv, Holding, CallInv, CloserInv, CacheInv, ClosePCs, WritePCs, OpPCs
<1>3. HolderInv /\ LoopInv /\ ClosedInv
  BY DEF HolderInv, LoopInv, ClosedInv, Holding, ClosePCs
<1>4. NoLeak /\ FoundInv /\ FileInv /\ FreedInv /\ SeenInv /\ HonestErrors
  BY DEF NoLeak, FoundInv, FileInv, FreedInv, SeenInv, HonestErrors, WritePCs, OpPCs
<1> QED BY <1>1, <1>2, <1>3, <1>4 DEF IInv

\* IInv is an invariant of the provider, whoever calls it.
THEOREM Inductive == Spec => []IInv
<1>1. IInv /\ [Next]_vars => IInv'
  BY TypeOKStep, MutexInvStep, CallInvStep, CloserInvStep, CacheInvStep, HolderInvStep,
     LoopInvStep, ClosedInvStep, NoLeakStep, FoundInvStep, FileInvStep, FreedInvStep,
     SeenInvStep, HonestErrorsStep
     DEF IInv
<1> QED BY <1>1, InitInv, PTL DEF Spec

\* Neither Provider.EventSet, which replaces a closed set, nor Provider.Close loses
\* a registration that is not closed yet, whatever fails.
THEOREM NothingLeaks == Spec => []NoLeak
<1>1. IInv => NoLeak
  BY DEF IInv
<1> QED BY <1>1, Inductive, PTL

\* A Provider.Close that returned nil has closed every registration, and the file
\* if it is the provider's, and nothing is ever registered again.
THEOREM CloseIsComplete == Spec => []CloseComplete
<1>1. IInv => CloseComplete
  <2> SUFFICES ASSUME IInv, NEW u \in Users, ret[u] = "closed"
               PROVE  /\ \A s \in Sets : rstate[s] \in {"Zero", "Closed"}
                      /\ Cached = {}
                      /\ OwnFile => ~fileOpen
    BY DEF CloseComplete
  <2>1. Cached = {} /\ (OwnFile => ~fileOpen)
    BY DEF IInv, ClosedInv
  <2>2. \A s \in Sets : rstate[s] \in {"Zero", "Closed"}
    BY <2>1, ProviderAssumption DEF IInv, TypeOK, NoLeak, Cached
  <2> QED BY <2>1, <2>2
<1> QED BY <1>1, Inductive, PTL

\* Callers of Provider.EventSet with one key share one open registration, also when
\* a Close of it has failed in between.
THEOREM SetsAreShared == Spec => []SharedSet
<1>1. IInv => SharedSet
  BY DEF IInv, FoundInv, SharedSet
<1> QED BY <1>1, Inductive, PTL

\* A write reports ErrDisabled, and a generated write ErrInvalidValue, only for what
\* the event went through during the call.
THEOREM ErrorsAreHonest == Spec => []HonestErrors
<1>1. IInv => HonestErrors
  BY DEF IInv
<1> QED BY <1>1, Inductive, PTL
=============================================================================
