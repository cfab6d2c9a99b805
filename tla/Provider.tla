------------------------------ MODULE Provider ------------------------------
(***************************************************************************)
(* The EventHeader Provider (eventheader/provider.go) with its cache of    *)
(* EventSets, and writes through an EventSet or Event (eventset.go,        *)
(* event.go). Users share the provider: they look sets up, close them one  *)
(* by one, close the provider and write, all concurrently.                 *)
(*                                                                         *)
(* Of a Registration (userevents_linux.go) this module has what a Close may *)
(* wait for: closeMu, the operations in flight, the drain that gives up    *)
(* closeMu, and the notification of the last operation. Close calls of one *)
(* registration may overlap. The active count is the number of operations  *)
(* (checked in UserEvents); it is only looked at while the state is        *)
(* Closing, so that the Store of Closed may clear it.                      *)
(* EventSet.closed() is "not Open" here: closeDone is set only after the   *)
(* registration has become Closed, so it adds nothing to Closed().         *)
(***************************************************************************)
EXTENDS Integers, FiniteSets

CONSTANTS
  Users,      \* goroutines
  Calls,      \* the calls each goroutine makes, by the ctx they start with (a bound)
  Keys,       \* (level, keyword, group) triples
  Sets,       \* EventSets that may be created (a bound)
  OwnFile,    \* OpenProvider: the provider closes the file
  MaxFaults,  \* bound on failing system calls
  None        \* no set, no key, no owner, no result

\* What the calls return.
Results == {"ok", "err", "closed", "written", "ErrClosed", "ErrDisabled", "ErrInvalidValue"}

ASSUME ProviderAssumption ==
  /\ OwnFile \in BOOLEAN
  /\ MaxFaults \in Nat
  /\ None \notin Users \cup Keys \cup Sets \cup Results
  /\ Calls \in [Users -> SUBSET {"event", "user", "close", "write", "bind", "generated"}]

VARIABLES
  pmu,      \* owner of Provider.mu
  pstate,   \* Provider.state
  sets,     \* Provider.sets
  fileOpen, \* the file the provider registers with
  rstate,   \* state of each set's registration
  closeMu,  \* owner of the registration's closeMu
  enabled,  \* the kernel's enable bit
  pc, key, set, ctx, \* a goroutine's call: where it is, about what, for whom
  after,    \* release: where the call goes on when it has notified
  todo,     \* Provider.Close: keys not visited yet
  failed,   \* Provider.Close: len(closeErrors) # 0
  ret,      \* what the last call returned
  seen,     \* history: the event was on, was off, its word was freed during this write
  faults    \* failing system calls so far

provVars == <<pmu, pstate, sets, fileOpen>>
regVars  == <<rstate, closeMu, enabled>>
callVars == <<key, set, ctx, after, todo, failed>>
vars == <<provVars, regVars, callVars, pc, ret, seen, faults>>

\* Operations in flight: Enabled of a generated write, Enabled and Writev.
OpPCs == {"gRead", "wRead", "wSend"}
WritePCs == {"gEnabled", "wClosed", "wEnabled", "wRecheck", "wBind", "wWritev", "notify"}
              \cup OpPCs
ClosePCs == {"cLock", "cDrain", "cWait", "cRelock", "cUnreg", "cMunmap"}
PCs == {"idle", "eLock", "eCreate", "pLock", "pLoop", "pFile"} \cup ClosePCs \cup WritePCs

Using(s) == {u \in Users : pc[u] \in OpPCs /\ set[u] = s}

closed(s) == rstate[s] # "Open"

\* The state of an event, for the history.
Bit(b) == IF b THEN "on" ELSE "off"

Goto(u, next) == pc' = [pc EXCEPT ![u] = next]

\* The call of u ends with v; unlock is deferred where Provider.mu is held.
Return(u, v) == Goto(u, "idle") /\ ret' = [ret EXCEPT ![u] = v]

Fault == faults < MaxFaults /\ faults' = faults + 1

Call(u, next, k, s, c, now) ==
  /\ pc[u] = "idle"
  /\ Goto(u, next)
  /\ key' = [key EXCEPT ![u] = k]
  /\ set' = [set EXCEPT ![u] = s]
  /\ ctx' = [ctx EXCEPT ![u] = c]
  /\ ret' = [ret EXCEPT ![u] = None]
  /\ seen' = [seen EXCEPT ![u] = now]
  /\ UNCHANGED <<provVars, regVars, after, todo, failed, faults>>

-----------------------------------------------------------------------------
(* Provider.EventSet *)

CallEventSet(u, k) == Call(u, "eLock", k, None, "event", {})

\* Mutant: the cache is looked at without waiting for Provider.mu.
LockEventSetUnlocked(u) ==
  LET s == sets[key[u]] IN
  /\ pc[u] = "eLock"
  /\ \/ /\ pstate # "open"
        /\ Return(u, "ErrClosed")
        /\ UNCHANGED <<pmu, set>>
     \/ /\ pstate = "open" /\ s # None
        /\ set' = [set EXCEPT ![u] = s]
        /\ IF closed(s)
           THEN /\ pmu' = u
                /\ Goto(u, "cLock")
                /\ UNCHANGED ret
           ELSE Return(u, "ok") /\ UNCHANGED pmu
     \/ /\ pstate = "open" /\ s = None
        /\ pmu' = u
        /\ Goto(u, "eCreate")
        /\ UNCHANGED <<set, ret>>
  /\ UNCHANGED <<pstate, sets, fileOpen, regVars, key, ctx, after, todo, failed, seen, faults>>

\* A closed set in the cache is closed again, to finish a failed Close.
LockEventSet(u) ==
  LET s == sets[key[u]] IN
  /\ pc[u] = "eLock"
  /\ pmu = None
  /\ \/ /\ pstate # "open"
        /\ Return(u, "ErrClosed")
        /\ UNCHANGED <<pmu, set>>
     \/ /\ pstate = "open" /\ s # None
        /\ set' = [set EXCEPT ![u] = s]
        /\ IF closed(s)
           THEN /\ pmu' = u
                /\ Goto(u, "cLock")
                /\ UNCHANGED ret
           ELSE Return(u, "ok") /\ UNCHANGED pmu
     \/ /\ pstate = "open" /\ s = None
        /\ pmu' = u
        /\ Goto(u, "eCreate")
        /\ UNCHANGED <<set, ret>>
  /\ UNCHANGED <<pstate, sets, fileOpen, regVars, key, ctx, after, todo, failed, seen, faults>>

\* NewEventSet: TracepointName, then File.Register.
CreateSet(u, s) ==
  /\ pc[u] = "eCreate"
  /\ fileOpen
  /\ rstate[s] = "Zero"
  /\ rstate' = [rstate EXCEPT ![s] = "Open"]
  /\ sets' = [sets EXCEPT ![key[u]] = s]
  /\ set' = [set EXCEPT ![u] = s]
  /\ pmu' = None
  /\ Return(u, "ok")
  /\ UNCHANGED <<pstate, fileOpen, closeMu, enabled, key, ctx, after, todo, failed, seen, faults>>

\* Also when the bound on sets is reached: the kernel's limit on events.
CreateSetFails(u) ==
  /\ pc[u] = "eCreate"
  /\ \/ Fault
     \/ (\A s \in Sets : rstate[s] # "Zero") /\ UNCHANGED faults
  /\ pmu' = None
  /\ Return(u, "err")
  /\ UNCHANGED <<pstate, sets, fileOpen, regVars, callVars, seen>>

-----------------------------------------------------------------------------
(* Registration.Close, called by EventSet.Close, Provider.EventSet and       *)
(* Provider.Close; ctx says which.                                           *)

CallSetClose(u, s) ==
  /\ rstate[s] # "Zero"
  /\ Call(u, "cLock", None, s, "user", {})

\* Mutant: Provider.EventSet ignores that the old set could not be closed.
CloseResultIgnored(u, ok) ==
  \/ /\ ctx[u] = "user"
     /\ Return(u, IF ok THEN "ok" ELSE "err")
     /\ UNCHANGED <<pmu, sets, failed>>
  \/ /\ ctx[u] = "event"
     /\ sets' = [sets EXCEPT ![key[u]] = None]
     /\ Goto(u, "eCreate")
     /\ UNCHANGED <<pmu, failed, ret>>
  \/ /\ ctx[u] = "close"
     /\ sets' = [sets EXCEPT ![key[u]] = None]
     /\ failed' = [failed EXCEPT ![u] = @ \/ ~ok]
     /\ Goto(u, "pLoop")
     /\ UNCHANGED <<pmu, ret>>

\* What the caller does with the result: Provider.EventSet drops the set and
\* goes on to create one, or returns the error; Provider.Close drops the set or
\* keeps it cached and goes on with the next.
CloseResult(u, ok) ==
  \/ /\ ctx[u] = "user"
     /\ Return(u, IF ok THEN "ok" ELSE "err")
     /\ UNCHANGED <<pmu, sets, failed>>
  \/ /\ ctx[u] = "event" /\ ok
     /\ sets' = [sets EXCEPT ![key[u]] = None]
     /\ Goto(u, "eCreate")
     /\ UNCHANGED <<pmu, failed, ret>>
  \/ /\ ctx[u] = "event" /\ ~ok
     /\ pmu' = None
     /\ Return(u, "err")
     /\ UNCHANGED <<sets, failed>>
  \/ /\ ctx[u] = "close"
     /\ sets' = [sets EXCEPT ![key[u]] = IF ok THEN None ELSE @]
     /\ failed' = [failed EXCEPT ![u] = @ \/ ~ok]
     /\ Goto(u, "pLoop")
     /\ UNCHANGED <<pmu, ret>>

\* A state of Closing is taken for an earlier Close whose munmap failed.
LockClose(u) ==
  LET s == set[u] IN
  /\ pc[u] = "cLock"
  /\ closeMu[s] = None
  /\ \/ /\ rstate[s] = "Closed"
        /\ CloseResult(u, TRUE)
        /\ UNCHANGED <<rstate, closeMu>>
     \/ /\ rstate[s] # "Closed"
        /\ rstate' = [rstate EXCEPT ![s] = "Closing"]
        /\ closeMu' = [closeMu EXCEPT ![s] = u]
        /\ Goto(u, IF rstate[s] = "Open" THEN "cDrain" ELSE "cMunmap")
        /\ UNCHANGED <<pmu, sets, failed, ret>>
  /\ UNCHANGED <<pstate, fileOpen, enabled, key, set, ctx, after, todo, seen, faults>>

\* The lifecycle word is Closing with a count of 0.
Drained(s) == rstate[s] = "Closing" /\ Using(s) = {}

\* for lifecycle # Closing: closeCond.Wait gives up closeMu, but not Provider.mu.
Drain(u) ==
  LET s == set[u] IN
  /\ pc[u] = "cDrain"
  /\ \/ /\ Drained(s)
        /\ Goto(u, "cUnreg")
        /\ UNCHANGED closeMu
     \/ /\ ~Drained(s)
        /\ Goto(u, "cWait")
        /\ closeMu' = [closeMu EXCEPT ![s] = None]
  /\ UNCHANGED <<provVars, rstate, enabled, callVars, ret, seen, faults>>

\* Wait returns holding closeMu again.
Relock(u) ==
  LET s == set[u] IN
  /\ pc[u] = "cRelock"
  /\ closeMu[s] = None
  /\ closeMu' = [closeMu EXCEPT ![s] = u]
  /\ Goto(u, "cDrain")
  /\ UNCHANGED <<provVars, rstate, enabled, callVars, ret, seen, faults>>

\* Goroutines inside a write on s.
Writing(s) == {u \in Users : pc[u] \in WritePCs /\ set[u] = s}

\* Close returns. The word is freed when the registration becomes Closed, also
\* under an operation in flight whose drain another Close has overtaken.
CloseEnds(u, final) ==
  LET s == set[u] IN
  /\ pc[u] \in {"cUnreg", "cMunmap"}
  /\ rstate' = [rstate EXCEPT ![s] = final]
  /\ closeMu' = [closeMu EXCEPT ![s] = None]
  /\ CloseResult(u, final = "Closed")
  /\ seen' = [v \in Users |-> seen[v] \cup
                (IF final = "Open" /\ v \in Writing(s) THEN {"off"}
                 ELSE IF final = "Closed" /\ v \in Using(s) THEN {"freed"} ELSE {})]
  /\ UNCHANGED <<pstate, fileOpen, enabled, key, set, ctx, after, todo>>

CloseSucceeds(u) == CloseEnds(u, "Closed") /\ UNCHANGED faults
UnregisterFails(u) == pc[u] = "cUnreg" /\ CloseEnds(u, "Open") /\ Fault
MunmapFails(u) == CloseEnds(u, "Closing") /\ Fault

-----------------------------------------------------------------------------
(* Provider.Close *)

CallClose(u) == Call(u, "pLock", None, None, "close", {})

Cached == {k \in Keys : sets[k] # None}

LockProvider(u) ==
  /\ pc[u] = "pLock"
  /\ pmu = None
  /\ \/ /\ pstate = "closed"
        /\ Return(u, "closed")
        /\ UNCHANGED <<pmu, pstate, todo>>
     \/ /\ pstate # "closed"
        /\ pmu' = u
        /\ pstate' = "closing"
        /\ todo' = [todo EXCEPT ![u] = Cached]
        /\ Goto(u, "pLoop")
        /\ UNCHANGED ret
  /\ UNCHANGED <<sets, fileOpen, regVars, key, set, ctx, after, failed, seen, faults>>

CloseNext(u, k) ==
  /\ pc[u] = "pLoop"
  /\ k \in todo[u]
  /\ todo' = [todo EXCEPT ![u] = @ \ {k}]
  /\ key' = [key EXCEPT ![u] = k]
  /\ set' = [set EXCEPT ![u] = sets[k]]
  /\ Goto(u, "cLock")
  /\ UNCHANGED <<provVars, regVars, ctx, after, failed, ret, seen, faults>>

\* Mutant: Provider.mu stays locked on the error path.
LoopEndsLocked(u) ==
  /\ pc[u] = "pLoop"
  /\ todo[u] = {}
  /\ \/ failed[u] /\ UNCHANGED pmu /\ Return(u, "err")
     \/ ~failed[u] /\ Goto(u, "pFile") /\ UNCHANGED <<pmu, ret>>
  /\ UNCHANGED <<pstate, sets, fileOpen, regVars, callVars, seen, faults>>

\* Mutant: closeErrors are not looked at.
LoopEndsUnchecked(u) ==
  /\ pc[u] = "pLoop"
  /\ todo[u] = {}
  /\ Goto(u, "pFile")
  /\ UNCHANGED <<provVars, regVars, callVars, ret, seen, faults>>

\* With errors the provider stays closing and the failed sets stay cached.
LoopEnds(u) ==
  /\ pc[u] = "pLoop"
  /\ todo[u] = {}
  /\ \/ failed[u] /\ pmu' = None /\ Return(u, "err")
     \/ ~failed[u] /\ Goto(u, "pFile") /\ UNCHANGED <<pmu, ret>>
  /\ failed' = [failed EXCEPT ![u] = FALSE]
  /\ UNCHANGED <<pstate, sets, fileOpen, regVars, key, set, ctx, after, todo, seen, faults>>

\* closeFile closes the descriptor even when close(2) reports an error; called
\* again it finds the file closed and returns nil.
CloseFile(u) ==
  /\ pc[u] = "pFile"
  /\ pmu' = None
  /\ fileOpen' = (fileOpen /\ ~OwnFile)
  /\ \/ /\ pstate' = "closed"
        /\ Return(u, "closed")
        /\ UNCHANGED faults
     \/ /\ OwnFile /\ fileOpen
        /\ Fault
        /\ Return(u, "err")
        /\ UNCHANGED pstate
  /\ UNCHANGED <<sets, regVars, callVars, seen>>

-----------------------------------------------------------------------------
(* EventSet.Write, Event.Write and Event.WriteIfEnabled; ctx "bind" is the   *)
(* latter, whose bind callback runs between two rounds of checks. A          *)
(* generated Write checks Enabled, and for a disabled event leaves the       *)
(* choice of the error to Event.Write with a nil binding (ctx "nil").        *)

CallWrite(u, s, c) ==
  /\ rstate[s] # "Zero"
  /\ Call(u, IF c = "generated" THEN "gEnabled" ELSE "wClosed", None, s, c, {Bit(enabled[s])})

WriteStep(u, from) ==
  /\ pc[u] = from
  /\ UNCHANGED <<provVars, regVars, key, set, todo, failed, seen, faults>>

\* Mutant: the last operation does not notify a closer that waits.
ReleaseUnnotified(u, next) == Goto(u, next) /\ UNCHANGED after

\* Registration.release: the last operation of a closing registration notifies,
\* and the call goes on at next.
Release(u, next) ==
  IF rstate[set[u]] = "Closing" /\ Using(set[u]) = {u}
  THEN Goto(u, "notify") /\ after' = [after EXCEPT ![u] = next]
  ELSE Goto(u, next) /\ UNCHANGED after

\* closeMu.Lock; closeCond.Broadcast; closeMu.Unlock.
Notify(u) ==
  LET s == set[u] IN
  /\ WriteStep(u, "notify")
  /\ closeMu[s] = None
  /\ pc' = [v \in Users |-> IF v = u THEN after[u]
                           ELSE IF pc[v] = "cWait" /\ set[v] = s THEN "cRelock" ELSE pc[v]]
  /\ after' = [after EXCEPT ![u] = "idle"]
  /\ UNCHANGED <<ctx, ret>>

\* What an operation in flight reads from the enable word. A freed one may have
\* been mapped again for something else; that the read may crash is left out.
Reads(s) == IF rstate[s] = "Closed" THEN BOOLEAN ELSE {enabled[s]}

CheckClosed(u) ==
  /\ WriteStep(u, "wClosed")
  /\ IF closed(set[u]) THEN Return(u, "ErrClosed")
     ELSE Goto(u, "wEnabled") /\ UNCHANGED ret
  /\ UNCHANGED <<ctx, after>>

\* Registration.Enabled acquires an open registration, and is false for others.
GeneratedWrite(u) ==
  /\ WriteStep(u, "gEnabled")
  /\ \/ ~closed(set[u]) /\ Goto(u, "gRead") /\ UNCHANGED ctx
     \/ closed(set[u]) /\ Goto(u, "wClosed") /\ ctx' = [ctx EXCEPT ![u] = "nil"]
  /\ UNCHANGED <<after, ret>>

\* Mutant: the binding is never passed.
GeneratedReadNil(u) ==
  /\ WriteStep(u, "gRead")
  /\ Release(u, "wClosed")
  /\ ctx' = [ctx EXCEPT ![u] = "nil"]
  /\ UNCHANGED ret

GeneratedRead(u) ==
  /\ WriteStep(u, "gRead")
  /\ \E on \in Reads(set[u]) :
       \/ on /\ Release(u, "wBind") /\ UNCHANGED ctx
       \/ ~on /\ Release(u, "wClosed") /\ ctx' = [ctx EXCEPT ![u] = "nil"]
  /\ UNCHANGED ret

CheckEnabled(u) ==
  /\ WriteStep(u, "wEnabled")
  /\ Goto(u, IF closed(set[u]) THEN "wRecheck" ELSE "wRead")
  /\ UNCHANGED <<ctx, after, ret>>

ReadEnabled(u) ==
  /\ WriteStep(u, "wRead")
  /\ \E on \in Reads(set[u]) :
       \/ ~on /\ Release(u, "wRecheck") /\ UNCHANGED ret
       \/ on /\ ctx[u] = "bind" /\ Release(u, "wBind") /\ UNCHANGED ret
       \/ on /\ ctx[u] = "write" /\ Release(u, "wWritev") /\ UNCHANGED ret
       \/ /\ on /\ ctx[u] = "nil"
          /\ Release(u, "idle")
          /\ ret' = [ret EXCEPT ![u] = "ErrInvalidValue"]
  /\ UNCHANGED ctx

\* Mutant: a set that closed during the check counts as disabled.
RecheckNothing(u) ==
  /\ WriteStep(u, "wRecheck")
  /\ Return(u, "ErrDisabled")
  /\ UNCHANGED <<ctx, after>>

Recheck(u) ==
  /\ WriteStep(u, "wRecheck")
  /\ Return(u, IF closed(set[u]) THEN "ErrClosed" ELSE "ErrDisabled")
  /\ UNCHANGED <<ctx, after>>

\* The callback fails, or Event.Write starts its own checks.
Bind(u) ==
  /\ WriteStep(u, "wBind")
  /\ \/ Return(u, "err") /\ UNCHANGED ctx
     \/ Goto(u, "wClosed") /\ ctx' = [ctx EXCEPT ![u] = "write"] /\ UNCHANGED ret
  /\ UNCHANGED after

\* Encoding may fail (err); Registration.Writev acquires once more.
Writev(u) ==
  /\ WriteStep(u, "wWritev")
  /\ \/ Return(u, "err")
     \/ closed(set[u]) /\ Return(u, "ErrClosed")
     \/ ~closed(set[u]) /\ Goto(u, "wSend") /\ UNCHANGED ret
  /\ UNCHANGED <<ctx, after>>

\* The rest of Writev: EBADF of a closed file counts as disabled.
Send(u) ==
  /\ WriteStep(u, "wSend")
  /\ Release(u, "idle")
  /\ \E on \in Reads(set[u]) :
       \E v \in IF on /\ fileOpen THEN {"written", "err"} ELSE {"ErrDisabled"} :
         ret' = [ret EXCEPT ![u] = v]
  /\ UNCHANGED ctx

\* The kernel knows the enable word: until unregister.
registered(s) ==
  \/ rstate[s] = "Open"
  \/ /\ rstate[s] = "Closing"
     /\ \E u \in Users : pc[u] \in {"cDrain", "cWait", "cRelock", "cUnreg"} /\ set[u] = s

\* A collector enables or disables the event.
Collector(s) ==
  /\ registered(s)
  /\ enabled' = [enabled EXCEPT ![s] = ~@]
  /\ seen' = [v \in Users |-> IF v \in Writing(s) THEN seen[v] \cup {Bit(~enabled[s])} ELSE seen[v]]
  /\ UNCHANGED <<provVars, rstate, closeMu, callVars, pc, ret, faults>>

-----------------------------------------------------------------------------

Init ==
  /\ pmu = None
  /\ pstate = "open"
  /\ sets = [k \in Keys |-> None]
  /\ fileOpen = TRUE
  /\ rstate = [s \in Sets |-> "Zero"]
  /\ closeMu = [s \in Sets |-> None]
  /\ enabled = [s \in Sets |-> FALSE]
  /\ pc = [u \in Users |-> "idle"]
  /\ key = [u \in Users |-> None]
  /\ set = [u \in Users |-> None]
  /\ ctx = [u \in Users |-> None]
  /\ after = [u \in Users |-> "idle"]
  /\ todo = [u \in Users |-> {}]
  /\ failed = [u \in Users |-> FALSE]
  /\ ret = [u \in Users |-> None]
  /\ seen = [u \in Users |-> {}]
  /\ faults = 0

Start(u) ==
  \/ "event" \in Calls[u] /\ \E k \in Keys : CallEventSet(u, k)
  \/ "user" \in Calls[u] /\ \E s \in Sets : CallSetClose(u, s)
  \/ "close" \in Calls[u] /\ CallClose(u)
  \/ \E s \in Sets, c \in Calls[u] \cap {"write", "bind", "generated"} : CallWrite(u, s, c)

CloseStep(u) ==
  \/ LockClose(u) \/ Drain(u) \/ Relock(u)
  \/ CloseSucceeds(u) \/ UnregisterFails(u) \/ MunmapFails(u)

WriteSteps(u) ==
  \/ GeneratedWrite(u) \/ GeneratedRead(u) \/ CheckClosed(u) \/ CheckEnabled(u) \/ ReadEnabled(u)
  \/ Recheck(u) \/ Bind(u) \/ Writev(u) \/ Send(u) \/ Notify(u)

Step(u) ==
  \/ LockEventSet(u) \/ (\E s \in Sets : CreateSet(u, s)) \/ CreateSetFails(u)
  \/ LockProvider(u) \/ (\E k \in Keys : CloseNext(u, k)) \/ LoopEnds(u) \/ CloseFile(u)
  \/ CloseStep(u)
  \/ WriteSteps(u)

Next ==
  \/ \E u \in Users : Start(u) \/ Step(u)
  \/ \E s \in Sets : Collector(s)

Spec == Init /\ [][Next]_vars

\* A call in progress goes on; sync.Mutex does not starve its waiters.
FairSpec == Spec /\ \A u \in Users : SF_vars(Step(u))

-----------------------------------------------------------------------------
(* Properties *)

\* A registration that is not fully closed is in the cache, so that a later
\* EventSet or Close call can finish closing it: replacing a closed set and
\* closing the provider never lose one.
NoLeak ==
  \A s \in Sets : rstate[s] \in {"Open", "Closing"} => \E k \in Keys : sets[k] = s

\* A Provider.Close that returned nil left no registration and, if the provider
\* opened the file, no descriptor behind.
CloseComplete ==
  \A u \in Users : ret[u] = "closed" =>
    /\ \A s \in Sets : rstate[s] \in {"Zero", "Closed"}
    /\ Cached = {}
    /\ OwnFile => ~fileOpen

\* Two callers that looked up the same key and whose sets are both open share
\* one set: there is never a second registration of the same tracepoint.
SharedSet ==
  \A u, v \in Users :
    LET Found(w) == ctx[w] = "event" /\ ret[w] = "ok" /\ rstate[set[w]] = "Open"
    IN  Found(u) /\ Found(v) /\ key[u] = key[v] => set[u] = set[v]

\* What a write reports is so, unless its registration was freed under it. ErrDisabled:
\* the event was off at some moment of the call, or a Close of the set was given up
\* during it (a set that is being closed is reported as closed). ErrInvalidValue, which
\* a generated Write returns for values that are valid: it was off and it was on, so
\* that the nil binding passed for a disabled event was looked at.
HonestErrors ==
  \A u \in Users : "freed" \notin seen[u] =>
    /\ ret[u] = "ErrDisabled" => "off" \in seen[u]
    /\ ret[u] = "ErrInvalidValue" => {"on", "off"} \subseteq seen[u]

\* u waits for a drain that another Close has overtaken: it found Closing, took it
\* for a failed munmap and closed the registration, whose count nobody looks at then.
Overtaken(u) == pc[u] = "cWait" /\ rstate[set[u]] = "Closed"

\* Every call returns although Provider.mu is held while a Close waits for writes in
\* flight and for the Close calls of users, with one exception: a Close that another
\* Close of its set has overtaken waits for ever, and when it was called with
\* Provider.mu held, so do the calls that want it. Writes always return.
CallsReturn ==
  \A u \in Users :
    pc[u] # "idle" ~> \/ pc[u] = "idle"
                      \/ Overtaken(u)
                      \/ pc[u] \in {"eLock", "pLock"} /\ \E v \in Users : pmu = v /\ Overtaken(v)
=============================================================================
