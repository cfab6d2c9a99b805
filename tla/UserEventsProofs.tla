-------------------------- MODULE UserEventsProofs --------------------------
(***************************************************************************)
(* Proofs about UserEvents, for any number of goroutines, registrations    *)
(* and failing system calls, provided that Close calls of one Registration *)
(* do not overlap or that no operation is ever in flight; under that, that *)
(* it implements SafeRelease: one lemma for each action that SafeRelease   *)
(* sees, one for all the others.                                           *)
(***************************************************************************)
EXTENDS UserEvents, FiniteSetTheorems, TLAPS

-----------------------------------------------------------------------------
(* Counting the operations in flight *)

\* The holders of a registration are finitely many, and a zero count in the
\* lifecycle word means that there are none.
LEMMA HolderCount ==
  ASSUME IInv, NEW r \in Regs
  PROVE  /\ IsFiniteSet(Holders(r))
         /\ active[r] = Cardinality(Holders(r))
         /\ active[r] \in Nat
         /\ active[r] = 0 <=> Holders(r) = {}
<1>1. Holders(r) \subseteq Writers /\ IsFiniteSet(Writers)
  BY UserEventsAssumption DEF Holders
<1>2. IsFiniteSet(Holders(r))
  BY <1>1, FS_Subset
<1>3. active[r] = Cardinality(Holders(r))
  BY DEF IInv, ActiveExact
<1> QED
  BY <1>2, <1>3, FS_EmptySet, FS_CardinalityType

\* Every operation in flight keeps the count above zero.
LEMMA HolderPositive ==
  ASSUME IInv, NEW w \in Writers, NEW r \in Regs, Holds(w, r)
  PROVE  active[r] # 0
<1>1. w \in Holders(r)
  BY DEF Holders
<1> QED
  BY <1>1, HolderCount

\* The type of the count in the next state follows from its exactness there.
LEMMA CountType ==
  ASSUME ActiveExact', active' = [r \in Regs |-> active'[r]]
  PROVE  active' \in [Regs -> 0..Cardinality(Writers)]
<1>1. SUFFICES ASSUME NEW r \in Regs PROVE active'[r] \in 0..Cardinality(Writers)
  OBVIOUS
<1>2. Holders(r)' \subseteq Writers /\ IsFiniteSet(Writers)
  BY UserEventsAssumption DEF Holders
<1>3. /\ Cardinality(Holders(r)') \in Nat
      /\ Cardinality(Writers) \in Nat
      /\ Cardinality(Holders(r)') <= Cardinality(Writers)
  BY <1>2, FS_Subset, FS_CardinalityType
<1> QED
  BY <1>3 DEF ActiveExact

-----------------------------------------------------------------------------
(* One lemma per conjunct of IInv, one step per action *)

\* The packed count stays exact: acquire and release move it by one, and the two
\* Store calls that clear it run when no operation is in flight.
LEMMA ActiveStep == IInv /\ CloseDiscipline /\ [Next]_vars => ActiveExact'
<1> SUFFICES ASSUME IInv, CloseDiscipline, [Next]_vars PROVE ActiveExact'
  OBVIOUS
<1>1. ASSUME NEW w \in Writers, NEW r \in Regs, Acquire(w, r) PROVE ActiveExact'
  <2>1. w \notin Holders(r) /\ Holders(r)' = Holders(r) \cup {w}
    BY <1>1 DEF Acquire, Holders, Holds, IInv, TypeOK, wVars
  <2>2. \A q \in Regs : q # r => Holders(q)' = Holders(q)
    BY <1>1 DEF Acquire, Holders, Holds, IInv, TypeOK, wVars
  <2>3. /\ Cardinality(Holders(r)') = active[r] + 1
        /\ IsFiniteSet(Holders(r)')
    BY <2>1, HolderCount, FS_AddElement
  <2>4. Holders(r)' \subseteq Writers /\ IsFiniteSet(Writers)
    BY UserEventsAssumption DEF Holders
  <2>5. active[r] + 1 <= Cardinality(Writers) /\ Cardinality(Writers) \in Nat
    BY <2>3, <2>4, FS_Subset, FS_CardinalityType
  <2>6. (active[r] + 1) % ActiveLimit = active[r] + 1
    BY <2>5, HolderCount, UserEventsAssumption
  <2> QED
    BY <1>1, <2>2, <2>3, <2>6 DEF Acquire, ActiveExact, IInv, TypeOK
<1>2. ASSUME NEW w \in Writers, CheckEnabled(w) PROVE ActiveExact'
  <2>1. \A r \in Regs : Holders(r)' = Holders(r)
    BY <1>2 DEF CheckEnabled, Holders, Holds, IInv, TypeOK
  <2> QED
    BY <1>2, <2>1 DEF CheckEnabled, ActiveExact, IInv, regVars
<1>3. ASSUME NEW w \in Writers, Writev(w) PROVE ActiveExact'
  <2>1. \A r \in Regs : Holders(r)' = Holders(r)
    BY <1>3 DEF Writev, Holders, Holds, IInv, TypeOK
  <2> QED
    BY <1>3, <2>1 DEF Writev, ActiveExact, IInv, regVars
<1>4. ASSUME NEW w \in Writers, Release(w) PROVE ActiveExact'
  <2>1. PICK r \in Regs : r = wreg[w] /\ w \in Holders(r) /\ Holds(w, r)
    BY <1>4 DEF Release, Holders, Holds, IInv, TargetInv
  <2>2. Holders(r)' = Holders(r) \ {w}
    BY <1>4, <2>1, UserEventsAssumption
    DEF Release, WriterDone, Holders, Holds, IInv, TypeOK, TargetInv
  <2>3. \A q \in Regs : q # r => Holders(q)' = Holders(q)
    BY <1>4, <2>1, UserEventsAssumption
    DEF Release, WriterDone, Holders, Holds, IInv, TypeOK, TargetInv
  <2>4. Cardinality(Holders(r)') = active[r] - 1
    <3>1. IsFiniteSet(Holders(r)) /\ Cardinality(Holders(r)) = active[r]
      BY HolderCount
    <3> QED
      BY <2>1, <2>2, <3>1, FS_RemoveElement
  <2>5. active[r] \in Nat /\ active[r] # 0 /\ active[r] < ActiveLimit
    <3>1. active[r] \in 0..Cardinality(Writers)
      BY <2>1 DEF IInv, TypeOK
    <3> QED
      BY <2>1, <3>1, HolderCount, HolderPositive, UserEventsAssumption,
         FS_CardinalityType
  <2>6. Decrement(active[r]) = active[r] - 1
    BY <2>5, UserEventsAssumption DEF Decrement
  <2> QED
    BY <1>4, <2>1, <2>3, <2>4, <2>6 DEF Release, ActiveExact, IInv, TypeOK
<1>5. ASSUME NEW w \in Writers, Notify(w) PROVE ActiveExact'
  <2>1. \A r \in Regs : Holders(r)' = Holders(r)
    BY <1>5, UserEventsAssumption
    DEF Notify, WriterDone, Holders, Holds, IInv, TypeOK, TargetInv
  <2> QED
    BY <1>5, <2>1 DEF Notify, ActiveExact, IInv, regVars
<1>6. ASSUME NEW t \in Owners, NEW r \in Regs, Register(t, r) PROVE ActiveExact'
  BY <1>6
  DEF Register, ActiveExact, Holders, Holds, IInv, regVars, fileVars, wVars,
      oVars
<1>7. ASSUME NEW t \in Owners, NEW r \in Regs, RegisterFails(t, r) PROVE ActiveExact'
  BY <1>7
  DEF RegisterFails, Fault, CanFail, ActiveExact, Holders, Holds, IInv, regVars,
      fileVars, wVars, oVars
<1>8. ASSUME NEW t \in Owners, NEW r \in Regs, CallClose(t, r) PROVE ActiveExact'
  BY <1>8
  DEF CallClose, MayClose, ActiveExact, Holders, Holds, IInv, regVars, fileVars,
      wVars, oVars
<1>9. ASSUME NEW t \in Owners, NEW r \in Regs, FileCloseNext(t, r) PROVE ActiveExact'
  BY <1>9
  DEF FileCloseNext, MayClose, ActiveExact, Holders, Holds, IInv, regVars,
      fileVars, wVars, oVars
<1>10. ASSUME NEW t \in Owners, FileUnavailable(t) PROVE ActiveExact'
  BY <1>10
  DEF FileUnavailable, ActiveExact, Holders, Holds, IInv, regVars, fileVars,
      wVars, oVars
<1>11. ASSUME NEW t \in Owners, CallFileClose(t) PROVE ActiveExact'
  BY <1>11
  DEF CallFileClose, ActiveExact, Holders, Holds, IInv, regVars, fileVars,
      wVars, oVars
<1>12. ASSUME NEW t \in Owners, LockClose(t) PROVE ActiveExact'
  BY <1>12
  DEF LockClose, Return, ActiveExact, Holders, Holds, IInv, regVars, fileVars,
      wVars, oVars
<1>13. ASSUME NEW t \in Owners, MarkClosing(t) PROVE ActiveExact'
  BY <1>13
  DEF MarkClosing, ActiveExact, Holders, Holds, IInv, regVars, fileVars, wVars,
      oVars
<1>14. ASSUME NEW t \in Owners, Drain(t) PROVE ActiveExact'
  BY <1>14
  DEF Drain, Drained, Unlock, ActiveExact, Holders, Holds, IInv, regVars,
      fileVars, wVars, oVars
<1>15. ASSUME NEW t \in Owners, Relock(t) PROVE ActiveExact'
  BY <1>15
  DEF Relock, ActiveExact, Holders, Holds, IInv, regVars, fileVars, wVars, oVars
<1>16. ASSUME NEW t \in Owners, Unregister(t) PROVE ActiveExact'
  BY <1>16
  DEF Unregister, ActiveExact, Holders, Holds, IInv, regVars, fileVars, wVars,
      oVars
<1>17. ASSUME NEW t \in Owners, UnregisterFails(t) PROVE ActiveExact'
  <2>1. target[t] \in Regs /\ Holders(target[t]) = {}
    BY <1>17, HolderCount
    DEF UnregisterFails, IInv, TargetInv, PhaseInv, ResourceInv, Holders,
        ClosePCs, HoldPCs
  <2>2. \A q \in Regs : Holders(q)' = Holders(q)
    BY <1>17 DEF UnregisterFails, Holders, Holds, wVars
  <2> QED
    BY <1>17, <2>1, <2>2, FS_EmptySet
    DEF UnregisterFails, ActiveExact, IInv, TypeOK
<1>18. ASSUME NEW t \in Owners, Munmap(t) PROVE ActiveExact'
  BY <1>18
  DEF Munmap, ActiveExact, Holders, Holds, IInv, regVars, fileVars, wVars, oVars
<1>19. ASSUME NEW t \in Owners, MunmapFails(t) PROVE ActiveExact'
  BY <1>19
  DEF MunmapFails, Return, Unlock, Fault, CanFail, ActiveExact, Holders, Holds,
      IInv, regVars, fileVars, wVars, oVars
<1>20. ASSUME NEW t \in Owners, Forget(t) PROVE ActiveExact'
  BY <1>20
  DEF Forget, ActiveExact, Holders, Holds, IInv, regVars, fileVars, wVars, oVars
<1>21. ASSUME NEW t \in Owners, StoreClosed(t) PROVE ActiveExact'
  <2>1. target[t] \in Regs /\ Holders(target[t]) = {}
    BY <1>21, HolderCount
    DEF StoreClosed, IInv, TargetInv, PhaseInv, ResourceInv, Holders, ClosePCs,
        HoldPCs
  <2>2. \A q \in Regs : Holders(q)' = Holders(q)
    BY <1>21 DEF StoreClosed, Holders, Holds, wVars
  <2> QED
    BY <1>21, <2>1, <2>2, FS_EmptySet DEF StoreClosed, ActiveExact, IInv, TypeOK
<1>22. ASSUME NEW t \in Owners, FileEnter(t) PROVE ActiveExact'
  BY <1>22
  DEF FileEnter, ActiveExact, Holders, Holds, IInv, regVars, fileVars, wVars,
      oVars
<1>23. ASSUME NEW t \in Owners, FileLoopEnds(t) PROVE ActiveExact'
  BY <1>23
  DEF FileLoopEnds, ActiveExact, Holders, Holds, IInv, regVars, fileVars, wVars,
      oVars
<1>24. ASSUME NEW t \in Owners, FileAbort(t) PROVE ActiveExact'
  BY <1>24
  DEF FileAbort, WakeFile, ActiveExact, Holders, Holds, IInv, regVars, fileVars,
      wVars, oVars
<1>25. ASSUME NEW t \in Owners, FileTakeFD(t) PROVE ActiveExact'
  BY <1>25
  DEF FileTakeFD, ActiveExact, Holders, Holds, IInv, regVars, fileVars, wVars,
      oVars
<1>26. ASSUME NEW t \in Owners, FileCloseFD(t) PROVE ActiveExact'
  BY <1>26
  DEF FileCloseFD, Fault, NoFault, CanFail, ActiveExact, Holders, Holds, IInv,
      regVars, fileVars, wVars, oVars
<1>27. ASSUME NEW t \in Owners, FileDone(t) PROVE ActiveExact'
  BY <1>27
  DEF FileDone, WakeFile, ActiveExact, Holders, Holds, IInv, regVars, fileVars,
      wVars, oVars
<1>28. ASSUME UNCHANGED vars PROVE ActiveExact'
  BY <1>28 DEF vars, regVars, wVars, IInv, ActiveExact, Holders, Holds
<1> QED
  BY <1>1, <1>2, <1>3, <1>4, <1>5, <1>6, <1>7, <1>8, <1>9, <1>10, <1>11, <1>12,
     <1>13, <1>14, <1>15, <1>16, <1>17, <1>18, <1>19, <1>20, <1>21, <1>22,
     <1>23, <1>24, <1>25, <1>26, <1>27, <1>28
  DEF Next, Call, WriterStep, CloseStep, FileStep

\* Every action keeps the types. The count stays below the number of goroutines
\* because it is exact; the fault counter because every fault checks its bound.
LEMMA TypeStep == IInv /\ CloseDiscipline /\ [Next]_vars => TypeOK'
<1> SUFFICES ASSUME IInv, CloseDiscipline, [Next]_vars PROVE TypeOK'
  OBVIOUS
<1> USE DEF IInv, TypeOK, TargetInv, States, WPCs, OPCs, FilePCs, Results,
            HoldPCs, WaitPCs, ClosePCs, regVars, fileVars, wVars, oVars
<1>1. ASSUME NEW w \in Writers, NEW r \in Regs, Acquire(w, r) PROVE TypeOK'
  <2>1. active' = [q \in Regs |-> active'[q]]
    BY <1>1 DEF Acquire
  <2>2. active' \in [Regs -> 0..Cardinality(Writers)]
    BY <2>1, ActiveStep, CountType
  <2> QED
    BY <1>1, <2>2, UserEventsAssumption DEF Acquire
<1>2. ASSUME NEW w \in Writers, CheckEnabled(w) PROVE TypeOK'
  BY <1>2, UserEventsAssumption DEF CheckEnabled
<1>3. ASSUME NEW w \in Writers, Writev(w) PROVE TypeOK'
  BY <1>3, UserEventsAssumption DEF Writev
<1>4. ASSUME NEW w \in Writers, Release(w) PROVE TypeOK'
  <2>1. active' = [q \in Regs |-> active'[q]]
    BY <1>4 DEF Release, WriterDone, Decrement
  <2>2. active' \in [Regs -> 0..Cardinality(Writers)]
    BY <2>1, ActiveStep, CountType
  <2> QED
    BY <1>4, <2>2, UserEventsAssumption DEF Release, WriterDone, Decrement
<1>5. ASSUME NEW w \in Writers, Notify(w) PROVE TypeOK'
  BY <1>5, UserEventsAssumption DEF Notify, WriterDone, Waiters
<1>6. ASSUME NEW t \in Owners, NEW r \in Regs, Register(t, r) PROVE TypeOK'
  BY <1>6, UserEventsAssumption DEF Register
<1>7. ASSUME NEW t \in Owners, NEW r \in Regs, RegisterFails(t, r) PROVE TypeOK'
  BY <1>7, UserEventsAssumption DEF RegisterFails, Fault, CanFail
<1>8. ASSUME NEW t \in Owners, NEW r \in Regs, CallClose(t, r) PROVE TypeOK'
  BY <1>8, UserEventsAssumption DEF CallClose, MayClose
<1>9. ASSUME NEW t \in Owners, NEW r \in Regs, FileCloseNext(t, r) PROVE TypeOK'
  BY <1>9, UserEventsAssumption DEF FileCloseNext, MayClose
<1>10. ASSUME NEW t \in Owners, FileUnavailable(t) PROVE TypeOK'
  BY <1>10, UserEventsAssumption DEF FileUnavailable
<1>11. ASSUME NEW t \in Owners, CallFileClose(t) PROVE TypeOK'
  BY <1>11, UserEventsAssumption DEF CallFileClose
<1>12. ASSUME NEW t \in Owners, LockClose(t) PROVE TypeOK'
  BY <1>12, UserEventsAssumption DEF LockClose, Return
<1>13. ASSUME NEW t \in Owners, MarkClosing(t) PROVE TypeOK'
  BY <1>13, UserEventsAssumption DEF MarkClosing
<1>14. ASSUME NEW t \in Owners, Drain(t) PROVE TypeOK'
  BY <1>14, UserEventsAssumption DEF Drain, Drained, Unlock
<1>15. ASSUME NEW t \in Owners, Relock(t) PROVE TypeOK'
  BY <1>15, UserEventsAssumption DEF Relock
<1>16. ASSUME NEW t \in Owners, Unregister(t) PROVE TypeOK'
  BY <1>16, UserEventsAssumption DEF Unregister
<1>17. ASSUME NEW t \in Owners, UnregisterFails(t) PROVE TypeOK'
  <2>1. 0 \in 0..Cardinality(Writers)
    BY UserEventsAssumption, FS_CardinalityType
  <2> QED
    BY <1>17, <2>1, UserEventsAssumption
    DEF UnregisterFails, Return, Unlock, Fault, CanFail
<1>18. ASSUME NEW t \in Owners, Munmap(t) PROVE TypeOK'
  BY <1>18, UserEventsAssumption DEF Munmap
<1>19. ASSUME NEW t \in Owners, MunmapFails(t) PROVE TypeOK'
  BY <1>19, UserEventsAssumption DEF MunmapFails, Return, Unlock, Fault, CanFail
<1>20. ASSUME NEW t \in Owners, Forget(t) PROVE TypeOK'
  BY <1>20, UserEventsAssumption DEF Forget
<1>21. ASSUME NEW t \in Owners, StoreClosed(t) PROVE TypeOK'
  <2>1. 0 \in 0..Cardinality(Writers)
    BY UserEventsAssumption, FS_CardinalityType
  <2> QED
    BY <1>21, <2>1, UserEventsAssumption DEF StoreClosed, Return, Unlock
<1>22. ASSUME NEW t \in Owners, FileEnter(t) PROVE TypeOK'
  BY <1>22, UserEventsAssumption DEF FileEnter
<1>23. ASSUME NEW t \in Owners, FileLoopEnds(t) PROVE TypeOK'
  BY <1>23, UserEventsAssumption DEF FileLoopEnds
<1>24. ASSUME NEW t \in Owners, FileAbort(t) PROVE TypeOK'
  BY <1>24, UserEventsAssumption DEF FileAbort, WakeFile
<1>25. ASSUME NEW t \in Owners, FileTakeFD(t) PROVE TypeOK'
  BY <1>25, UserEventsAssumption DEF FileTakeFD
<1>26. ASSUME NEW t \in Owners, FileCloseFD(t) PROVE TypeOK'
  <2>1. CASE NoFault /\ UNCHANGED failed
    BY <1>26, <2>1 DEF FileCloseFD, NoFault
  <2>2. CASE Fault /\ failed' = [failed EXCEPT ![t] = TRUE]
    <3>1. faults' \in 0..MaxFaults
      BY <2>2, UserEventsAssumption DEF Fault, CanFail
    <3> QED
      BY <1>26, <2>2, <3>1 DEF FileCloseFD
  <2> QED
    BY <1>26, <2>1, <2>2 DEF FileCloseFD
<1>27. ASSUME NEW t \in Owners, FileDone(t) PROVE TypeOK'
  BY <1>27, UserEventsAssumption DEF FileDone, WakeFile
<1>28. ASSUME UNCHANGED vars PROVE TypeOK'
  BY <1>28, UserEventsAssumption DEF vars
<1> QED
  BY <1>1, <1>2, <1>3, <1>4, <1>5, <1>6, <1>7, <1>8, <1>9, <1>10, <1>11, <1>12,
     <1>13, <1>14, <1>15, <1>16, <1>17, <1>18, <1>19, <1>20, <1>21, <1>22,
     <1>23, <1>24, <1>25, <1>26, <1>27, <1>28
  DEF Next, Call, WriterStep, CloseStep, FileStep

\* A Close in progress, or still to be made by File.Close, is about a
\* registration that exists.
LEMMA TargetStep == IInv /\ CloseDiscipline /\ [Next]_vars => TargetInv'
<1> SUFFICES ASSUME IInv, CloseDiscipline, [Next]_vars PROVE TargetInv'
  OBVIOUS
<1> USE DEF IInv, TypeOK, TargetInv, ResourceInv, HoldPCs, WaitPCs, ClosePCs,
            regVars, fileVars, wVars, oVars
<1>1. ASSUME NEW w \in Writers, NEW r \in Regs, Acquire(w, r) PROVE TargetInv'
  BY <1>1, UserEventsAssumption DEF Acquire
<1>2. ASSUME NEW w \in Writers, CheckEnabled(w) PROVE TargetInv'
  BY <1>2, UserEventsAssumption DEF CheckEnabled
<1>3. ASSUME NEW w \in Writers, Writev(w) PROVE TargetInv'
  BY <1>3, UserEventsAssumption DEF Writev
<1>4. ASSUME NEW w \in Writers, Release(w) PROVE TargetInv'
  BY <1>4, UserEventsAssumption DEF Release, WriterDone, Decrement
<1>5. ASSUME NEW w \in Writers, Notify(w) PROVE TargetInv'
  BY <1>5, UserEventsAssumption DEF Notify, WriterDone, Waiters
<1>6. ASSUME NEW t \in Owners, NEW r \in Regs, Register(t, r) PROVE TargetInv'
  BY <1>6, UserEventsAssumption DEF Register
<1>7. ASSUME NEW t \in Owners, NEW r \in Regs, RegisterFails(t, r) PROVE TargetInv'
  BY <1>7, UserEventsAssumption DEF RegisterFails, Fault, CanFail
<1>8. ASSUME NEW t \in Owners, NEW r \in Regs, CallClose(t, r) PROVE TargetInv'
  BY <1>8, UserEventsAssumption DEF CallClose, MayClose
<1>9. ASSUME NEW t \in Owners, NEW r \in Regs, FileCloseNext(t, r) PROVE TargetInv'
  BY <1>9, UserEventsAssumption DEF FileCloseNext, MayClose
<1>10. ASSUME NEW t \in Owners, FileUnavailable(t) PROVE TargetInv'
  BY <1>10, UserEventsAssumption DEF FileUnavailable
<1>11. ASSUME NEW t \in Owners, CallFileClose(t) PROVE TargetInv'
  BY <1>11, UserEventsAssumption DEF CallFileClose
<1>12. ASSUME NEW t \in Owners, LockClose(t) PROVE TargetInv'
  BY <1>12, UserEventsAssumption DEF LockClose, Return
<1>13. ASSUME NEW t \in Owners, MarkClosing(t) PROVE TargetInv'
  BY <1>13, UserEventsAssumption DEF MarkClosing
<1>14. ASSUME NEW t \in Owners, Drain(t) PROVE TargetInv'
  BY <1>14, UserEventsAssumption DEF Drain, Drained, Unlock
<1>15. ASSUME NEW t \in Owners, Relock(t) PROVE TargetInv'
  BY <1>15, UserEventsAssumption DEF Relock
<1>16. ASSUME NEW t \in Owners, Unregister(t) PROVE TargetInv'
  BY <1>16, UserEventsAssumption DEF Unregister
<1>17. ASSUME NEW t \in Owners, UnregisterFails(t) PROVE TargetInv'
  BY <1>17, UserEventsAssumption
  DEF UnregisterFails, Return, Unlock, Fault, CanFail
<1>18. ASSUME NEW t \in Owners, Munmap(t) PROVE TargetInv'
  BY <1>18, UserEventsAssumption DEF Munmap
<1>19. ASSUME NEW t \in Owners, MunmapFails(t) PROVE TargetInv'
  BY <1>19, UserEventsAssumption DEF MunmapFails, Return, Unlock, Fault, CanFail
<1>20. ASSUME NEW t \in Owners, Forget(t) PROVE TargetInv'
  BY <1>20, UserEventsAssumption DEF Forget
<1>21. ASSUME NEW t \in Owners, StoreClosed(t) PROVE TargetInv'
  BY <1>21, UserEventsAssumption DEF StoreClosed, Return, Unlock
<1>22. ASSUME NEW t \in Owners, FileEnter(t) PROVE TargetInv'
  BY <1>22, UserEventsAssumption DEF FileEnter
<1>23. ASSUME NEW t \in Owners, FileLoopEnds(t) PROVE TargetInv'
  BY <1>23, UserEventsAssumption DEF FileLoopEnds
<1>24. ASSUME NEW t \in Owners, FileAbort(t) PROVE TargetInv'
  BY <1>24, UserEventsAssumption DEF FileAbort, WakeFile
<1>25. ASSUME NEW t \in Owners, FileTakeFD(t) PROVE TargetInv'
  BY <1>25, UserEventsAssumption DEF FileTakeFD
<1>26. ASSUME NEW t \in Owners, FileCloseFD(t) PROVE TargetInv'
  BY <1>26, UserEventsAssumption DEF FileCloseFD, Fault, NoFault, CanFail
<1>27. ASSUME NEW t \in Owners, FileDone(t) PROVE TargetInv'
  BY <1>27, UserEventsAssumption DEF FileDone, WakeFile
<1>28. ASSUME UNCHANGED vars PROVE TargetInv'
  BY <1>28, UserEventsAssumption DEF vars
<1> QED
  BY <1>1, <1>2, <1>3, <1>4, <1>5, <1>6, <1>7, <1>8, <1>9, <1>10, <1>11, <1>12,
     <1>13, <1>14, <1>15, <1>16, <1>17, <1>18, <1>19, <1>20, <1>21, <1>22,
     <1>23, <1>24, <1>25, <1>26, <1>27, <1>28
  DEF Next, Call, WriterStep, CloseStep, FileStep

\* Under SerialClose no two Close calls share a registration; without operations
\* nobody ever gives up closeMu to wait.
LEMMA SerialStep == IInv /\ CloseDiscipline /\ [Next]_vars => SerialInv'
<1> SUFFICES ASSUME IInv, CloseDiscipline, [Next]_vars PROVE SerialInv'
  OBVIOUS
<1> USE DEF IInv, TypeOK, SerialInv, TargetInv, InClose, HoldPCs, WaitPCs,
            ClosePCs, regVars, fileVars, wVars, oVars
<1>1. ASSUME NEW w \in Writers, NEW r \in Regs, Acquire(w, r) PROVE SerialInv'
  BY <1>1, UserEventsAssumption DEF Acquire
<1>2. ASSUME NEW w \in Writers, CheckEnabled(w) PROVE SerialInv'
  BY <1>2, UserEventsAssumption DEF CheckEnabled
<1>3. ASSUME NEW w \in Writers, Writev(w) PROVE SerialInv'
  BY <1>3, UserEventsAssumption DEF Writev
<1>4. ASSUME NEW w \in Writers, Release(w) PROVE SerialInv'
  BY <1>4, UserEventsAssumption DEF Release, WriterDone, Decrement
<1>5. ASSUME NEW w \in Writers, Notify(w) PROVE SerialInv'
  BY <1>5, UserEventsAssumption DEF Notify, WriterDone, Waiters
<1>6. ASSUME NEW t \in Owners, NEW r \in Regs, Register(t, r) PROVE SerialInv'
  BY <1>6, UserEventsAssumption DEF Register
<1>7. ASSUME NEW t \in Owners, NEW r \in Regs, RegisterFails(t, r) PROVE SerialInv'
  BY <1>7, UserEventsAssumption DEF RegisterFails, Fault, CanFail
<1>8. ASSUME NEW t \in Owners, NEW r \in Regs, CallClose(t, r) PROVE SerialInv'
  BY <1>8, UserEventsAssumption DEF CallClose, MayClose
<1>9. ASSUME NEW t \in Owners, NEW r \in Regs, FileCloseNext(t, r) PROVE SerialInv'
  BY <1>9, UserEventsAssumption DEF FileCloseNext, MayClose
<1>10. ASSUME NEW t \in Owners, FileUnavailable(t) PROVE SerialInv'
  BY <1>10, UserEventsAssumption DEF FileUnavailable
<1>11. ASSUME NEW t \in Owners, CallFileClose(t) PROVE SerialInv'
  BY <1>11, UserEventsAssumption DEF CallFileClose
<1>12. ASSUME NEW t \in Owners, LockClose(t) PROVE SerialInv'
  BY <1>12, UserEventsAssumption DEF LockClose, Return
<1>13. ASSUME NEW t \in Owners, MarkClosing(t) PROVE SerialInv'
  BY <1>13, UserEventsAssumption DEF MarkClosing
<1>14. ASSUME NEW t \in Owners, Drain(t) PROVE SerialInv'
  <2>1. Writers = {} => active[target[t]] = 0
    BY <1>14, HolderCount DEF Drain, Holders
  <2>2. Drained(target[t]) \/ Writers # {}
    BY <1>14, <2>1 DEF Drain, Drained, PhaseInv
  <2> QED
    BY <1>14, <2>2 DEF Drain, Unlock
<1>15. ASSUME NEW t \in Owners, Relock(t) PROVE SerialInv'
  BY <1>15, UserEventsAssumption DEF Relock
<1>16. ASSUME NEW t \in Owners, Unregister(t) PROVE SerialInv'
  BY <1>16, UserEventsAssumption DEF Unregister
<1>17. ASSUME NEW t \in Owners, UnregisterFails(t) PROVE SerialInv'
  BY <1>17, UserEventsAssumption
  DEF UnregisterFails, Return, Unlock, Fault, CanFail
<1>18. ASSUME NEW t \in Owners, Munmap(t) PROVE SerialInv'
  BY <1>18, UserEventsAssumption DEF Munmap
<1>19. ASSUME NEW t \in Owners, MunmapFails(t) PROVE SerialInv'
  BY <1>19, UserEventsAssumption DEF MunmapFails, Return, Unlock, Fault, CanFail
<1>20. ASSUME NEW t \in Owners, Forget(t) PROVE SerialInv'
  BY <1>20, UserEventsAssumption DEF Forget
<1>21. ASSUME NEW t \in Owners, StoreClosed(t) PROVE SerialInv'
  BY <1>21, UserEventsAssumption DEF StoreClosed, Return, Unlock
<1>22. ASSUME NEW t \in Owners, FileEnter(t) PROVE SerialInv'
  BY <1>22, UserEventsAssumption DEF FileEnter
<1>23. ASSUME NEW t \in Owners, FileLoopEnds(t) PROVE SerialInv'
  BY <1>23, UserEventsAssumption DEF FileLoopEnds
<1>24. ASSUME NEW t \in Owners, FileAbort(t) PROVE SerialInv'
  BY <1>24, UserEventsAssumption DEF FileAbort, WakeFile
<1>25. ASSUME NEW t \in Owners, FileTakeFD(t) PROVE SerialInv'
  BY <1>25, UserEventsAssumption DEF FileTakeFD
<1>26. ASSUME NEW t \in Owners, FileCloseFD(t) PROVE SerialInv'
  BY <1>26, UserEventsAssumption DEF FileCloseFD, Fault, NoFault, CanFail
<1>27. ASSUME NEW t \in Owners, FileDone(t) PROVE SerialInv'
  BY <1>27, UserEventsAssumption DEF FileDone, WakeFile
<1>28. ASSUME UNCHANGED vars PROVE SerialInv'
  BY <1>28, UserEventsAssumption DEF vars
<1> QED
  BY <1>1, <1>2, <1>3, <1>4, <1>5, <1>6, <1>7, <1>8, <1>9, <1>10, <1>11, <1>12,
     <1>13, <1>14, <1>15, <1>16, <1>17, <1>18, <1>19, <1>20, <1>21, <1>22,
     <1>23, <1>24, <1>25, <1>26, <1>27, <1>28
  DEF Next, Call, WriterStep, CloseStep, FileStep

\* The steps of Close find the registration as they left it. The hard case is a
\* Close that locks closeMu and finds Closing: LockInv and SerialInv leave only a
\* failed munmap as the reason.
LEMMA PhaseStep == IInv /\ CloseDiscipline /\ [Next]_vars => PhaseInv'
<1> SUFFICES ASSUME IInv, CloseDiscipline, [Next]_vars PROVE PhaseInv'
  OBVIOUS
<1> USE DEF IInv, TypeOK, LockInv, TargetInv, PhaseInv, ResourceInv, SerialInv,
            InClose, CloseDiscipline, HoldPCs, WaitPCs, ClosePCs, regVars,
            fileVars, wVars, oVars
<1>1. ASSUME NEW w \in Writers, NEW r \in Regs, Acquire(w, r) PROVE PhaseInv'
  BY <1>1, UserEventsAssumption DEF Acquire
<1>2. ASSUME NEW w \in Writers, CheckEnabled(w) PROVE PhaseInv'
  BY <1>2, UserEventsAssumption DEF CheckEnabled
<1>3. ASSUME NEW w \in Writers, Writev(w) PROVE PhaseInv'
  BY <1>3, UserEventsAssumption DEF Writev
<1>4. ASSUME NEW w \in Writers, Release(w) PROVE PhaseInv'
  <2>1. wreg[w] \in Regs /\ active[wreg[w]] # 0
    BY <1>4, HolderPositive DEF Release, Holds
  <2> QED
    BY <1>4, <2>1 DEF Release, WriterDone, Decrement
<1>5. ASSUME NEW w \in Writers, Notify(w) PROVE PhaseInv'
  BY <1>5, UserEventsAssumption DEF Notify, WriterDone, Waiters
<1>6. ASSUME NEW t \in Owners, NEW r \in Regs, Register(t, r) PROVE PhaseInv'
  BY <1>6, UserEventsAssumption DEF Register
<1>7. ASSUME NEW t \in Owners, NEW r \in Regs, RegisterFails(t, r) PROVE PhaseInv'
  BY <1>7, UserEventsAssumption DEF RegisterFails, Fault, CanFail
<1>8. ASSUME NEW t \in Owners, NEW r \in Regs, CallClose(t, r) PROVE PhaseInv'
  BY <1>8, UserEventsAssumption DEF CallClose, MayClose
<1>9. ASSUME NEW t \in Owners, NEW r \in Regs, FileCloseNext(t, r) PROVE PhaseInv'
  BY <1>9, UserEventsAssumption DEF FileCloseNext, MayClose
<1>10. ASSUME NEW t \in Owners, FileUnavailable(t) PROVE PhaseInv'
  BY <1>10, UserEventsAssumption DEF FileUnavailable
<1>11. ASSUME NEW t \in Owners, CallFileClose(t) PROVE PhaseInv'
  BY <1>11, UserEventsAssumption DEF CallFileClose
<1>12. ASSUME NEW t \in Owners, LockClose(t) PROVE PhaseInv'
  <2> DEFINE r == target[t]
  <2>1. CASE state[r] = "Closed" /\ Return(t, "closeOk")
    BY <1>12, <2>1 DEF LockClose, Return
  <2>2. CASE state[r] # "Closed"
    <3>1. state[r] = "Closing" => ~registered[r] /\ mapped[r]
      BY <1>12, <2>2, UserEventsAssumption DEF LockClose
    <3>2. CASE state[r] = "Open"
      BY <1>12, <3>2 DEF LockClose
    <3>3. CASE state[r] = "Closing"
      BY <1>12, <3>1, <3>3 DEF LockClose
    <3> QED
      BY <1>12, <2>2, <3>2, <3>3 DEF LockClose, States
  <2> QED
    BY <1>12, <2>1, <2>2 DEF LockClose
<1>13. ASSUME NEW t \in Owners, MarkClosing(t) PROVE PhaseInv'
  BY <1>13, UserEventsAssumption DEF MarkClosing
<1>14. ASSUME NEW t \in Owners, Drain(t) PROVE PhaseInv'
  BY <1>14, UserEventsAssumption DEF Drain, Drained, Unlock
<1>15. ASSUME NEW t \in Owners, Relock(t) PROVE PhaseInv'
  BY <1>15, UserEventsAssumption DEF Relock
<1>16. ASSUME NEW t \in Owners, Unregister(t) PROVE PhaseInv'
  BY <1>16, UserEventsAssumption DEF Unregister
<1>17. ASSUME NEW t \in Owners, UnregisterFails(t) PROVE PhaseInv'
  BY <1>17, UserEventsAssumption
  DEF UnregisterFails, Return, Unlock, Fault, CanFail
<1>18. ASSUME NEW t \in Owners, Munmap(t) PROVE PhaseInv'
  BY <1>18, UserEventsAssumption DEF Munmap
<1>19. ASSUME NEW t \in Owners, MunmapFails(t) PROVE PhaseInv'
  BY <1>19, UserEventsAssumption DEF MunmapFails, Return, Unlock, Fault, CanFail
<1>20. ASSUME NEW t \in Owners, Forget(t) PROVE PhaseInv'
  BY <1>20, UserEventsAssumption DEF Forget
<1>21. ASSUME NEW t \in Owners, StoreClosed(t) PROVE PhaseInv'
  BY <1>21, UserEventsAssumption DEF StoreClosed, Return, Unlock
<1>22. ASSUME NEW t \in Owners, FileEnter(t) PROVE PhaseInv'
  BY <1>22, UserEventsAssumption DEF FileEnter
<1>23. ASSUME NEW t \in Owners, FileLoopEnds(t) PROVE PhaseInv'
  BY <1>23, UserEventsAssumption DEF FileLoopEnds
<1>24. ASSUME NEW t \in Owners, FileAbort(t) PROVE PhaseInv'
  BY <1>24, UserEventsAssumption DEF FileAbort, WakeFile
<1>25. ASSUME NEW t \in Owners, FileTakeFD(t) PROVE PhaseInv'
  BY <1>25, UserEventsAssumption DEF FileTakeFD
<1>26. ASSUME NEW t \in Owners, FileCloseFD(t) PROVE PhaseInv'
  BY <1>26, UserEventsAssumption DEF FileCloseFD, Fault, NoFault, CanFail
<1>27. ASSUME NEW t \in Owners, FileDone(t) PROVE PhaseInv'
  BY <1>27, UserEventsAssumption DEF FileDone, WakeFile
<1>28. ASSUME UNCHANGED vars PROVE PhaseInv'
  BY <1>28, UserEventsAssumption DEF vars
<1> QED
  BY <1>1, <1>2, <1>3, <1>4, <1>5, <1>6, <1>7, <1>8, <1>9, <1>10, <1>11, <1>12,
     <1>13, <1>14, <1>15, <1>16, <1>17, <1>18, <1>19, <1>20, <1>21, <1>22,
     <1>23, <1>24, <1>25, <1>26, <1>27, <1>28
  DEF Next, Call, WriterStep, CloseStep, FileStep

\* The lifecycle state keeps telling which resources are held.
LEMMA ResourceStep == IInv /\ CloseDiscipline /\ [Next]_vars => ResourceInv'
<1> SUFFICES ASSUME IInv, CloseDiscipline, [Next]_vars PROVE ResourceInv'
  OBVIOUS
<1> USE DEF IInv, TypeOK, LockInv, TargetInv, PhaseInv, ResourceInv, SerialInv,
            InClose, CloseDiscipline, Holds, HoldPCs, WaitPCs, ClosePCs,
            regVars, fileVars, wVars, oVars
<1>1. ASSUME NEW w \in Writers, NEW r \in Regs, Acquire(w, r) PROVE ResourceInv'
  BY <1>1, UserEventsAssumption DEF Acquire
<1>2. ASSUME NEW w \in Writers, CheckEnabled(w) PROVE ResourceInv'
  BY <1>2, UserEventsAssumption DEF CheckEnabled
<1>3. ASSUME NEW w \in Writers, Writev(w) PROVE ResourceInv'
  BY <1>3, UserEventsAssumption DEF Writev
<1>4. ASSUME NEW w \in Writers, Release(w) PROVE ResourceInv'
  BY <1>4, UserEventsAssumption DEF Release, WriterDone, Decrement
<1>5. ASSUME NEW w \in Writers, Notify(w) PROVE ResourceInv'
  BY <1>5, UserEventsAssumption DEF Notify, WriterDone, Waiters
<1>6. ASSUME NEW t \in Owners, NEW r \in Regs, Register(t, r) PROVE ResourceInv'
  BY <1>6, UserEventsAssumption DEF Register
<1>7. ASSUME NEW t \in Owners, NEW r \in Regs, RegisterFails(t, r) PROVE ResourceInv'
  BY <1>7, UserEventsAssumption DEF RegisterFails, Fault, CanFail
<1>8. ASSUME NEW t \in Owners, NEW r \in Regs, CallClose(t, r) PROVE ResourceInv'
  BY <1>8, UserEventsAssumption DEF CallClose, MayClose
<1>9. ASSUME NEW t \in Owners, NEW r \in Regs, FileCloseNext(t, r) PROVE ResourceInv'
  BY <1>9, UserEventsAssumption DEF FileCloseNext, MayClose
<1>10. ASSUME NEW t \in Owners, FileUnavailable(t) PROVE ResourceInv'
  BY <1>10, UserEventsAssumption DEF FileUnavailable
<1>11. ASSUME NEW t \in Owners, CallFileClose(t) PROVE ResourceInv'
  BY <1>11, UserEventsAssumption DEF CallFileClose
<1>12. ASSUME NEW t \in Owners, LockClose(t) PROVE ResourceInv'
  BY <1>12, UserEventsAssumption DEF LockClose, Return
<1>13. ASSUME NEW t \in Owners, MarkClosing(t) PROVE ResourceInv'
  BY <1>13, UserEventsAssumption DEF MarkClosing
<1>14. ASSUME NEW t \in Owners, Drain(t) PROVE ResourceInv'
  BY <1>14, UserEventsAssumption DEF Drain, Drained, Unlock
<1>15. ASSUME NEW t \in Owners, Relock(t) PROVE ResourceInv'
  BY <1>15, UserEventsAssumption DEF Relock
<1>16. ASSUME NEW t \in Owners, Unregister(t) PROVE ResourceInv'
  <2>1. target[t] \in Regs /\ Holders(target[t]) = {}
    BY <1>16, HolderCount DEF Unregister
  <2> QED
    BY <1>16, <2>1 DEF Unregister, Holders
<1>17. ASSUME NEW t \in Owners, UnregisterFails(t) PROVE ResourceInv'
  BY <1>17, UserEventsAssumption
  DEF UnregisterFails, Return, Unlock, Fault, CanFail
<1>18. ASSUME NEW t \in Owners, Munmap(t) PROVE ResourceInv'
  BY <1>18, UserEventsAssumption DEF Munmap
<1>19. ASSUME NEW t \in Owners, MunmapFails(t) PROVE ResourceInv'
  BY <1>19, UserEventsAssumption DEF MunmapFails, Return, Unlock, Fault, CanFail
<1>20. ASSUME NEW t \in Owners, Forget(t) PROVE ResourceInv'
  BY <1>20, UserEventsAssumption DEF Forget
<1>21. ASSUME NEW t \in Owners, StoreClosed(t) PROVE ResourceInv'
  BY <1>21, UserEventsAssumption DEF StoreClosed, Return, Unlock
<1>22. ASSUME NEW t \in Owners, FileEnter(t) PROVE ResourceInv'
  BY <1>22, UserEventsAssumption DEF FileEnter
<1>23. ASSUME NEW t \in Owners, FileLoopEnds(t) PROVE ResourceInv'
  BY <1>23, UserEventsAssumption DEF FileLoopEnds
<1>24. ASSUME NEW t \in Owners, FileAbort(t) PROVE ResourceInv'
  BY <1>24, UserEventsAssumption DEF FileAbort, WakeFile
<1>25. ASSUME NEW t \in Owners, FileTakeFD(t) PROVE ResourceInv'
  BY <1>25, UserEventsAssumption DEF FileTakeFD
<1>26. ASSUME NEW t \in Owners, FileCloseFD(t) PROVE ResourceInv'
  BY <1>26, UserEventsAssumption DEF FileCloseFD, Fault, NoFault, CanFail
<1>27. ASSUME NEW t \in Owners, FileDone(t) PROVE ResourceInv'
  BY <1>27, UserEventsAssumption DEF FileDone, WakeFile
<1>28. ASSUME UNCHANGED vars PROVE ResourceInv'
  BY <1>28, UserEventsAssumption DEF vars
<1> QED
  BY <1>1, <1>2, <1>3, <1>4, <1>5, <1>6, <1>7, <1>8, <1>9, <1>10, <1>11, <1>12,
     <1>13, <1>14, <1>15, <1>16, <1>17, <1>18, <1>19, <1>20, <1>21, <1>22,
     <1>23, <1>24, <1>25, <1>26, <1>27, <1>28
  DEF Next, Call, WriterStep, CloseStep, FileStep

\* closeMu is handed over by Lock, Unlock and Wait only.
LEMMA LockStep == IInv /\ CloseDiscipline /\ [Next]_vars => LockInv'
<1> SUFFICES ASSUME IInv, CloseDiscipline, [Next]_vars PROVE LockInv'
  OBVIOUS
<1> USE DEF IInv, TypeOK, LockInv, TargetInv, HoldPCs, WaitPCs, ClosePCs,
            regVars, fileVars, wVars, oVars
<1>1. ASSUME NEW w \in Writers, NEW r \in Regs, Acquire(w, r) PROVE LockInv'
  BY <1>1, UserEventsAssumption DEF Acquire
<1>2. ASSUME NEW w \in Writers, CheckEnabled(w) PROVE LockInv'
  BY <1>2, UserEventsAssumption DEF CheckEnabled
<1>3. ASSUME NEW w \in Writers, Writev(w) PROVE LockInv'
  BY <1>3, UserEventsAssumption DEF Writev
<1>4. ASSUME NEW w \in Writers, Release(w) PROVE LockInv'
  BY <1>4, UserEventsAssumption DEF Release, WriterDone, Decrement
<1>5. ASSUME NEW w \in Writers, Notify(w) PROVE LockInv'
  BY <1>5, UserEventsAssumption DEF Notify, WriterDone, Waiters
<1>6. ASSUME NEW t \in Owners, NEW r \in Regs, Register(t, r) PROVE LockInv'
  BY <1>6, UserEventsAssumption DEF Register
<1>7. ASSUME NEW t \in Owners, NEW r \in Regs, RegisterFails(t, r) PROVE LockInv'
  BY <1>7, UserEventsAssumption DEF RegisterFails, Fault, CanFail
<1>8. ASSUME NEW t \in Owners, NEW r \in Regs, CallClose(t, r) PROVE LockInv'
  BY <1>8, UserEventsAssumption DEF CallClose, MayClose
<1>9. ASSUME NEW t \in Owners, NEW r \in Regs, FileCloseNext(t, r) PROVE LockInv'
  BY <1>9, UserEventsAssumption DEF FileCloseNext, MayClose
<1>10. ASSUME NEW t \in Owners, FileUnavailable(t) PROVE LockInv'
  BY <1>10, UserEventsAssumption DEF FileUnavailable
<1>11. ASSUME NEW t \in Owners, CallFileClose(t) PROVE LockInv'
  BY <1>11, UserEventsAssumption DEF CallFileClose
<1>12. ASSUME NEW t \in Owners, LockClose(t) PROVE LockInv'
  BY <1>12, UserEventsAssumption DEF LockClose, Return
<1>13. ASSUME NEW t \in Owners, MarkClosing(t) PROVE LockInv'
  BY <1>13, UserEventsAssumption DEF MarkClosing
<1>14. ASSUME NEW t \in Owners, Drain(t) PROVE LockInv'
  BY <1>14, UserEventsAssumption DEF Drain, Drained, Unlock
<1>15. ASSUME NEW t \in Owners, Relock(t) PROVE LockInv'
  BY <1>15, UserEventsAssumption DEF Relock
<1>16. ASSUME NEW t \in Owners, Unregister(t) PROVE LockInv'
  BY <1>16, UserEventsAssumption DEF Unregister
<1>17. ASSUME NEW t \in Owners, UnregisterFails(t) PROVE LockInv'
  BY <1>17, UserEventsAssumption
  DEF UnregisterFails, Return, Unlock, Fault, CanFail
<1>18. ASSUME NEW t \in Owners, Munmap(t) PROVE LockInv'
  BY <1>18, UserEventsAssumption DEF Munmap
<1>19. ASSUME NEW t \in Owners, MunmapFails(t) PROVE LockInv'
  BY <1>19, UserEventsAssumption DEF MunmapFails, Return, Unlock, Fault, CanFail
<1>20. ASSUME NEW t \in Owners, Forget(t) PROVE LockInv'
  BY <1>20, UserEventsAssumption DEF Forget
<1>21. ASSUME NEW t \in Owners, StoreClosed(t) PROVE LockInv'
  BY <1>21, UserEventsAssumption DEF StoreClosed, Return, Unlock
<1>22. ASSUME NEW t \in Owners, FileEnter(t) PROVE LockInv'
  BY <1>22, UserEventsAssumption DEF FileEnter
<1>23. ASSUME NEW t \in Owners, FileLoopEnds(t) PROVE LockInv'
  BY <1>23, UserEventsAssumption DEF FileLoopEnds
<1>24. ASSUME NEW t \in Owners, FileAbort(t) PROVE LockInv'
  BY <1>24, UserEventsAssumption DEF FileAbort, WakeFile
<1>25. ASSUME NEW t \in Owners, FileTakeFD(t) PROVE LockInv'
  BY <1>25, UserEventsAssumption DEF FileTakeFD
<1>26. ASSUME NEW t \in Owners, FileCloseFD(t) PROVE LockInv'
  BY <1>26, UserEventsAssumption DEF FileCloseFD, Fault, NoFault, CanFail
<1>27. ASSUME NEW t \in Owners, FileDone(t) PROVE LockInv'
  BY <1>27, UserEventsAssumption DEF FileDone, WakeFile
<1>28. ASSUME UNCHANGED vars PROVE LockInv'
  BY <1>28, UserEventsAssumption DEF vars
<1> QED
  BY <1>1, <1>2, <1>3, <1>4, <1>5, <1>6, <1>7, <1>8, <1>9, <1>10, <1>11, <1>12,
     <1>13, <1>14, <1>15, <1>16, <1>17, <1>18, <1>19, <1>20, <1>21, <1>22,
     <1>23, <1>24, <1>25, <1>26, <1>27, <1>28
  DEF Next, Call, WriterStep, CloseStep, FileStep

\* One goroutine at a time runs the body of File.Close, and its snapshot covers
\* every registration that is left, because Register refuses a closing File.
LEMMA FileInvStep == IInv /\ CloseDiscipline /\ [Next]_vars => FileInv'
<1> SUFFICES ASSUME IInv, CloseDiscipline, [Next]_vars PROVE FileInv'
  OBVIOUS
<1> USE DEF IInv, TypeOK, TargetInv, PhaseInv, ResourceInv, FileInv,
            ClosingFile, FilePCs, HoldPCs, WaitPCs, ClosePCs, regVars, fileVars,
            wVars, oVars
<1>1. ASSUME NEW w \in Writers, NEW r \in Regs, Acquire(w, r) PROVE FileInv'
  BY <1>1, UserEventsAssumption DEF Acquire
<1>2. ASSUME NEW w \in Writers, CheckEnabled(w) PROVE FileInv'
  BY <1>2, UserEventsAssumption DEF CheckEnabled
<1>3. ASSUME NEW w \in Writers, Writev(w) PROVE FileInv'
  BY <1>3, UserEventsAssumption DEF Writev
<1>4. ASSUME NEW w \in Writers, Release(w) PROVE FileInv'
  BY <1>4, UserEventsAssumption DEF Release, WriterDone, Decrement
<1>5. ASSUME NEW w \in Writers, Notify(w) PROVE FileInv'
  BY <1>5, UserEventsAssumption DEF Notify, WriterDone, Waiters
<1>6. ASSUME NEW t \in Owners, NEW r \in Regs, Register(t, r) PROVE FileInv'
  BY <1>6, UserEventsAssumption DEF Register
<1>7. ASSUME NEW t \in Owners, NEW r \in Regs, RegisterFails(t, r) PROVE FileInv'
  BY <1>7, UserEventsAssumption DEF RegisterFails, Fault, CanFail
<1>8. ASSUME NEW t \in Owners, NEW r \in Regs, CallClose(t, r) PROVE FileInv'
  BY <1>8, UserEventsAssumption DEF CallClose, MayClose
<1>9. ASSUME NEW t \in Owners, NEW r \in Regs, FileCloseNext(t, r) PROVE FileInv'
  BY <1>9, UserEventsAssumption DEF FileCloseNext, MayClose
<1>10. ASSUME NEW t \in Owners, FileUnavailable(t) PROVE FileInv'
  BY <1>10, UserEventsAssumption DEF FileUnavailable
<1>11. ASSUME NEW t \in Owners, CallFileClose(t) PROVE FileInv'
  BY <1>11, UserEventsAssumption DEF CallFileClose
<1>12. ASSUME NEW t \in Owners, LockClose(t) PROVE FileInv'
  BY <1>12, UserEventsAssumption DEF LockClose, Return
<1>13. ASSUME NEW t \in Owners, MarkClosing(t) PROVE FileInv'
  BY <1>13, UserEventsAssumption DEF MarkClosing
<1>14. ASSUME NEW t \in Owners, Drain(t) PROVE FileInv'
  BY <1>14, UserEventsAssumption DEF Drain, Drained, Unlock
<1>15. ASSUME NEW t \in Owners, Relock(t) PROVE FileInv'
  BY <1>15, UserEventsAssumption DEF Relock
<1>16. ASSUME NEW t \in Owners, Unregister(t) PROVE FileInv'
  BY <1>16, UserEventsAssumption DEF Unregister
<1>17. ASSUME NEW t \in Owners, UnregisterFails(t) PROVE FileInv'
  BY <1>17, UserEventsAssumption
  DEF UnregisterFails, Return, Unlock, Fault, CanFail
<1>18. ASSUME NEW t \in Owners, Munmap(t) PROVE FileInv'
  BY <1>18, UserEventsAssumption DEF Munmap
<1>19. ASSUME NEW t \in Owners, MunmapFails(t) PROVE FileInv'
  BY <1>19, UserEventsAssumption DEF MunmapFails, Return, Unlock, Fault, CanFail
<1>20. ASSUME NEW t \in Owners, Forget(t) PROVE FileInv'
  BY <1>20, UserEventsAssumption DEF Forget
<1>21. ASSUME NEW t \in Owners, StoreClosed(t) PROVE FileInv'
  BY <1>21, UserEventsAssumption DEF StoreClosed, Return, Unlock
<1>22. ASSUME NEW t \in Owners, FileEnter(t) PROVE FileInv'
  BY <1>22, UserEventsAssumption DEF FileEnter
<1>23. ASSUME NEW t \in Owners, FileLoopEnds(t) PROVE FileInv'
  BY <1>23, UserEventsAssumption DEF FileLoopEnds
<1>24. ASSUME NEW t \in Owners, FileAbort(t) PROVE FileInv'
  BY <1>24, UserEventsAssumption DEF FileAbort, WakeFile
<1>25. ASSUME NEW t \in Owners, FileTakeFD(t) PROVE FileInv'
  BY <1>25, UserEventsAssumption DEF FileTakeFD
<1>26. ASSUME NEW t \in Owners, FileCloseFD(t) PROVE FileInv'
  BY <1>26, UserEventsAssumption DEF FileCloseFD, Fault, NoFault, CanFail
<1>27. ASSUME NEW t \in Owners, FileDone(t) PROVE FileInv'
  BY <1>27, UserEventsAssumption DEF FileDone, WakeFile
<1>28. ASSUME UNCHANGED vars PROVE FileInv'
  BY <1>28, UserEventsAssumption DEF vars
<1> QED
  BY <1>1, <1>2, <1>3, <1>4, <1>5, <1>6, <1>7, <1>8, <1>9, <1>10, <1>11, <1>12,
     <1>13, <1>14, <1>15, <1>16, <1>17, <1>18, <1>19, <1>20, <1>21, <1>22,
     <1>23, <1>24, <1>25, <1>26, <1>27, <1>28
  DEF Next, Call, WriterStep, CloseStep, FileStep

\* What a call returned stays true: Closed and fileClosed are final.
LEMMA ReturnStep == IInv /\ CloseDiscipline /\ [Next]_vars => ReturnInv'
<1> SUFFICES ASSUME IInv, CloseDiscipline, [Next]_vars PROVE ReturnInv'
  OBVIOUS
<1> USE DEF IInv, TypeOK, TargetInv, LockInv, PhaseInv, ResourceInv, FileInv,
            ReturnInv, ClosingFile, FilePCs, HoldPCs, WaitPCs, ClosePCs,
            regVars, fileVars, wVars, oVars
<1>1. ASSUME NEW w \in Writers, NEW r \in Regs, Acquire(w, r) PROVE ReturnInv'
  BY <1>1, UserEventsAssumption DEF Acquire
<1>2. ASSUME NEW w \in Writers, CheckEnabled(w) PROVE ReturnInv'
  BY <1>2, UserEventsAssumption DEF CheckEnabled
<1>3. ASSUME NEW w \in Writers, Writev(w) PROVE ReturnInv'
  BY <1>3, UserEventsAssumption DEF Writev
<1>4. ASSUME NEW w \in Writers, Release(w) PROVE ReturnInv'
  BY <1>4, UserEventsAssumption DEF Release, WriterDone, Decrement
<1>5. ASSUME NEW w \in Writers, Notify(w) PROVE ReturnInv'
  BY <1>5, UserEventsAssumption DEF Notify, WriterDone, Waiters
<1>6. ASSUME NEW t \in Owners, NEW r \in Regs, Register(t, r) PROVE ReturnInv'
  BY <1>6, UserEventsAssumption DEF Register
<1>7. ASSUME NEW t \in Owners, NEW r \in Regs, RegisterFails(t, r) PROVE ReturnInv'
  BY <1>7, UserEventsAssumption DEF RegisterFails, Fault, CanFail
<1>8. ASSUME NEW t \in Owners, NEW r \in Regs, CallClose(t, r) PROVE ReturnInv'
  BY <1>8, UserEventsAssumption DEF CallClose, MayClose
<1>9. ASSUME NEW t \in Owners, NEW r \in Regs, FileCloseNext(t, r) PROVE ReturnInv'
  BY <1>9, UserEventsAssumption DEF FileCloseNext, MayClose
<1>10. ASSUME NEW t \in Owners, FileUnavailable(t) PROVE ReturnInv'
  BY <1>10, UserEventsAssumption DEF FileUnavailable
<1>11. ASSUME NEW t \in Owners, CallFileClose(t) PROVE ReturnInv'
  BY <1>11, UserEventsAssumption DEF CallFileClose
<1>12. ASSUME NEW t \in Owners, LockClose(t) PROVE ReturnInv'
  BY <1>12, UserEventsAssumption DEF LockClose, Return
<1>13. ASSUME NEW t \in Owners, MarkClosing(t) PROVE ReturnInv'
  BY <1>13, UserEventsAssumption DEF MarkClosing
<1>14. ASSUME NEW t \in Owners, Drain(t) PROVE ReturnInv'
  BY <1>14, UserEventsAssumption DEF Drain, Drained, Unlock
<1>15. ASSUME NEW t \in Owners, Relock(t) PROVE ReturnInv'
  BY <1>15, UserEventsAssumption DEF Relock
<1>16. ASSUME NEW t \in Owners, Unregister(t) PROVE ReturnInv'
  BY <1>16, UserEventsAssumption DEF Unregister
<1>17. ASSUME NEW t \in Owners, UnregisterFails(t) PROVE ReturnInv'
  BY <1>17, UserEventsAssumption
  DEF UnregisterFails, Return, Unlock, Fault, CanFail
<1>18. ASSUME NEW t \in Owners, Munmap(t) PROVE ReturnInv'
  BY <1>18, UserEventsAssumption DEF Munmap
<1>19. ASSUME NEW t \in Owners, MunmapFails(t) PROVE ReturnInv'
  BY <1>19, UserEventsAssumption DEF MunmapFails, Return, Unlock, Fault, CanFail
<1>20. ASSUME NEW t \in Owners, Forget(t) PROVE ReturnInv'
  BY <1>20, UserEventsAssumption DEF Forget
<1>21. ASSUME NEW t \in Owners, StoreClosed(t) PROVE ReturnInv'
  BY <1>21, UserEventsAssumption DEF StoreClosed, Return, Unlock
<1>22. ASSUME NEW t \in Owners, FileEnter(t) PROVE ReturnInv'
  BY <1>22, UserEventsAssumption DEF FileEnter
<1>23. ASSUME NEW t \in Owners, FileLoopEnds(t) PROVE ReturnInv'
  BY <1>23, UserEventsAssumption DEF FileLoopEnds
<1>24. ASSUME NEW t \in Owners, FileAbort(t) PROVE ReturnInv'
  BY <1>24, UserEventsAssumption DEF FileAbort, WakeFile
<1>25. ASSUME NEW t \in Owners, FileTakeFD(t) PROVE ReturnInv'
  BY <1>25, UserEventsAssumption DEF FileTakeFD
<1>26. ASSUME NEW t \in Owners, FileCloseFD(t) PROVE ReturnInv'
  BY <1>26, UserEventsAssumption DEF FileCloseFD, Fault, NoFault, CanFail
<1>27. ASSUME NEW t \in Owners, FileDone(t) PROVE ReturnInv'
  BY <1>27, UserEventsAssumption DEF FileDone, WakeFile
<1>28. ASSUME UNCHANGED vars PROVE ReturnInv'
  BY <1>28, UserEventsAssumption DEF vars
<1> QED
  BY <1>1, <1>2, <1>3, <1>4, <1>5, <1>6, <1>7, <1>8, <1>9, <1>10, <1>11, <1>12,
     <1>13, <1>14, <1>15, <1>16, <1>17, <1>18, <1>19, <1>20, <1>21, <1>22,
     <1>23, <1>24, <1>25, <1>26, <1>27, <1>28
  DEF Next, Call, WriterStep, CloseStep, FileStep
-----------------------------------------------------------------------------
(* The theorems *)

\* The invariant holds initially: nothing is registered and nobody is running.
LEMMA InitInv == Init => IInv
<1> SUFFICES ASSUME Init PROVE IInv
  OBVIOUS
<1> USE DEF Init
<1>1. \A r \in Regs : Holders(r) = {}
  BY DEF Holders, Holds
<1>2. ActiveExact
  BY <1>1, FS_EmptySet DEF ActiveExact
<1>3. TypeOK
  <2>1. 0 \in 0..Cardinality(Writers) /\ 0 \in 0..MaxFaults
    BY UserEventsAssumption, FS_CardinalityType
  <2> QED
    BY <2>1 DEF TypeOK, States, WPCs, OPCs, Results
<1>4. LockInv /\ TargetInv /\ SerialInv /\ PhaseInv
  BY
  DEF LockInv, TargetInv, SerialInv, PhaseInv, InClose, ClosePCs, HoldPCs,
      WaitPCs
<1>5. ResourceInv /\ FileInv /\ ReturnInv
  BY
  DEF ResourceInv, FileInv, ReturnInv, ClosingFile, FilePCs, ClosePCs, HoldPCs,
      WaitPCs, Holds
<1> QED
  BY <1>2, <1>3, <1>4, <1>5 DEF IInv

\* IInv is an invariant of every execution whose callers respect CloseDiscipline.
THEOREM Inductive ==
  ASSUME CloseDiscipline
  PROVE  Spec => []IInv
<1>1. IInv /\ [Next]_vars => IInv'
  BY ActiveStep, TypeStep, TargetStep, SerialStep, PhaseStep, ResourceStep,
     LockStep, FileInvStep, ReturnStep DEF IInv
<1> QED
  BY <1>1, InitInv, PTL DEF Spec

\* Type correctness, the bound of the active count by the number of goroutines
\* included: the packed lifecycle word never overflows into its state bits.
THEOREM TypeCorrect ==
  ASSUME CloseDiscipline
  PROVE  Spec => []TypeOK
<1>1. IInv => TypeOK
  BY DEF IInv
<1> QED
  BY <1>1, Inductive, PTL

\* The kernel never holds the address of a released enable word.
THEOREM KernelMemoryIsSafe ==
  ASSUME CloseDiscipline
  PROVE  Spec => []KernelMemorySafe
<1>1. IInv => KernelMemorySafe
  BY DEF IInv, ResourceInv, KernelMemorySafe
<1> QED
  BY <1>1, Inductive, PTL

\* An operation past acquire works on a mapped word, a registered event and an
\* open descriptor until its release.
THEOREM OperationsAreProtected ==
  ASSUME CloseDiscipline
  PROVE  Spec => []OperationsProtected
<1>1. IInv => OperationsProtected
  <2> SUFFICES ASSUME IInv, NEW w \in Writers, NEW r \in Regs, Holds(w, r)
               PROVE  mapped[r] /\ registered[r] /\ fdOpen
    BY DEF OperationsProtected
  <2>1. registered[r] /\ mapped[r] /\ state[r] # "Zero" /\ r \in regs
    BY DEF IInv, ResourceInv
  <2> QED
    BY <2>1 DEF IInv, FileInv, TypeOK
<1> QED
  BY <1>1, Inductive, PTL

\* Unregister, munmap and close are each called on something still held, in this
\* order, also when an earlier attempt failed half-way.
THEOREM ReleasedOnceInOrder ==
  ASSUME CloseDiscipline
  PROVE  Spec => []ReleaseOnceInOrder
<1>1. IInv => ReleaseOnceInOrder
  <2> SUFFICES ASSUME IInv, NEW t \in Owners
               PROVE  /\ pc[t] = "rUnreg" => registered[target[t]] /\ mapped[target[t]] /\ fdOpen
                      /\ pc[t] = "rMunmap" => mapped[target[t]] /\ ~registered[target[t]]
                      /\ pc[t] = "fCloseFD" => fdOpen /\ \A r \in Regs : ~registered[r]
    BY DEF ReleaseOnceInOrder
  <2>1. \A r \in Regs : registered[r] => mapped[r] /\ r \in regs
    BY DEF IInv, ResourceInv
  <2> QED
    BY <2>1
    DEF IInv, TypeOK, TargetInv, PhaseInv, FileInv, ClosingFile, FilePCs,
        ClosePCs, HoldPCs
<1> QED
  BY <1>1, Inductive, PTL

\* What is not released yet can still be cleaned up through the File.
THEOREM CleanupStaysRetriable ==
  ASSUME CloseDiscipline
  PROVE  Spec => []CleanupRetriable
<1>1. IInv => CleanupRetriable
  BY DEF IInv, TypeOK, ResourceInv, FileInv, CleanupRetriable
<1> QED
  BY <1>1, Inductive, PTL

\* A nil result of Registration.Close or File.Close means everything is released.
THEOREM CloseOkMeansReleased ==
  ASSUME CloseDiscipline
  PROVE  Spec => []CloseOkReleased
<1>1. IInv => CloseOkReleased
  BY DEF IInv, TypeOK, ResourceInv, FileInv, ReturnInv, CloseOkReleased
<1> QED
  BY <1>1, Inductive, PTL


-----------------------------------------------------------------------------
(* UserEvents implements SafeRelease *)

\* A step that keeps what SafeRelease sees is a stutter of it.
LEMMA PromiseStutter ==
  ASSUME \A r \in Regs : /\ HeldBy(r)' = HeldBy(r)
                         /\ (state[r] = "Open")' = (state[r] = "Open")
                         /\ Holders(r)' = Holders(r),
         fdOpen' = fdOpen
  PROVE  UNCHANGED Promise!vars
<1>1. [r \in Regs |-> HeldBy(r)]' = [r \in Regs |-> HeldBy(r)]
  OBVIOUS
<1>2. [r \in Regs |-> state[r] = "Open"]' = [r \in Regs |-> state[r] = "Open"]
  OBVIOUS
<1>3. [r \in Regs |-> Holders(r)]' = [r \in Regs |-> Holders(r)]
  OBVIOUS
<1> QED
  BY <1>1, <1>2, <1>3 DEF Promise!vars

\* acquire lets an operation in while the registration is open.
LEMMA AcquireEnters ==
  ASSUME IInv, NEW w \in Writers, NEW r \in Regs, Acquire(w, r)
  PROVE  Promise!Enter(w, r)
<1>1. \A q \in Regs : HeldBy(q)' = HeldBy(q) /\ (state[q] = "Open")' = (state[q] = "Open")
  BY DEF Acquire, HeldBy
<1>2. \A q \in Regs : w \notin Holders(q)
  BY DEF Acquire, Holders, Holds
<1>3. Holders(r)' = Holders(r) \cup {w}
  BY DEF Acquire, Holders, Holds, IInv, TypeOK
<1>4. \A q \in Regs \ {r} : Holders(q)' = Holders(q)
  BY DEF Acquire, Holders, Holds, IInv, TypeOK
<1>5. state[r] = "Open" /\ fdOpen' = fdOpen
  BY DEF Acquire, fileVars
<1>6. [q \in Regs |-> Holders(q)]' =
        [[q \in Regs |-> Holders(q)] EXCEPT ![r] = @ \cup {w}]
  BY <1>3, <1>4
<1> QED
  BY <1>1, <1>2, <1>5, <1>6 DEF Promise!Enter

\* release lets it out, whatever the state of the registration is by then.
LEMMA ReleaseLeaves ==
  ASSUME IInv, NEW w \in Writers, Release(w)
  PROVE  \E r \in Regs : Promise!Leave(w, r)
<1>1. PICK r \in Regs : r = wreg[w] /\ w \in Holders(r)
  BY DEF Release, Holders, Holds, IInv, TargetInv
<1>2. \A q \in Regs : HeldBy(q)' = HeldBy(q) /\ (state[q] = "Open")' = (state[q] = "Open")
  BY DEF Release, HeldBy
<1>3. Holders(r)' = Holders(r) \ {w}
  BY <1>1, UserEventsAssumption
  DEF Release, WriterDone, Holders, Holds, IInv, TypeOK
<1>4. \A q \in Regs \ {r} : Holders(q)' = Holders(q)
  BY <1>1, UserEventsAssumption
  DEF Release, WriterDone, Holders, Holds, IInv, TypeOK
<1>5. fdOpen' = fdOpen
  BY DEF Release, fileVars
<1>6. [q \in Regs |-> Holders(q)]' =
        [[q \in Regs |-> Holders(q)] EXCEPT ![r] = @ \ {w}]
  BY <1>3, <1>4
<1>7. Promise!Leave(w, r)
  BY <1>1, <1>2, <1>5, <1>6 DEF Promise!Leave
<1> QED
  BY <1>7

\* Register creates a live registration on an open descriptor.
LEMMA RegisterCreates ==
  ASSUME IInv, NEW t \in Owners, NEW r \in Regs, Register(t, r)
  PROVE  Promise!Create(r)
<1>1. \A q \in Regs : Holders(q)' = Holders(q)
  BY DEF Register, Holders, Holds, wVars
<1>2. HeldBy(r) = "none" /\ HeldBy(r)' = "live" /\ (state[r] = "Open")'
  BY DEF Register, HeldBy, IInv, TypeOK
<1>3. \A q \in Regs \ {r} : HeldBy(q)' = HeldBy(q) /\ (state[q] = "Open")' = (state[q] = "Open")
  BY DEF Register, HeldBy, IInv, TypeOK
<1>4. fdOpen /\ fdOpen' = fdOpen
  BY DEF Register, IInv, FileInv
<1>5. [q \in Regs |-> HeldBy(q)]' = [[q \in Regs |-> HeldBy(q)] EXCEPT ![r] = "live"]
  BY <1>2, <1>3
<1>6. [q \in Regs |-> state[q] = "Open"]' = [[q \in Regs |-> state[q] = "Open"] EXCEPT ![r] = TRUE]
  BY <1>2, <1>3
<1> QED
  BY <1>1, <1>2, <1>4, <1>5, <1>6 DEF Promise!Create

\* The CAS to Closing refuses new operations.
LEMMA MarkClosingRefuses ==
  ASSUME IInv, NEW t \in Owners, MarkClosing(t)
  PROVE  \E r \in Regs : Promise!Refuse(r)
<1>1. PICK r \in Regs : r = target[t] /\ state[r] = "Open"
  BY DEF MarkClosing, IInv, TargetInv, PhaseInv, ClosePCs, HoldPCs
<1>2. \A q \in Regs : Holders(q)' = Holders(q) /\ HeldBy(q)' = HeldBy(q)
  BY <1>1 DEF MarkClosing, Holders, Holds, HeldBy, wVars, IInv, TypeOK
<1>3. ~(state[r] = "Open")'
  BY <1>1 DEF MarkClosing, IInv, TypeOK
<1>4. \A q \in Regs \ {r} : (state[q] = "Open")' = (state[q] = "Open")
  BY <1>1 DEF MarkClosing, IInv, TypeOK
<1>5. fdOpen' = fdOpen
  BY DEF MarkClosing, fileVars
<1>6. [q \in Regs |-> state[q] = "Open"]' = [[q \in Regs |-> state[q] = "Open"] EXCEPT ![r] = FALSE]
  BY <1>3, <1>4
<1>7. Promise!Refuse(r)
  BY <1>1, <1>2, <1>5, <1>6 DEF Promise!Refuse
<1> QED
  BY <1>7

\* The ioctl that fails reopens the registration, the kernel still holding it.
LEMMA UnregisterFailsResumes ==
  ASSUME IInv, NEW t \in Owners, UnregisterFails(t)
  PROVE  \E r \in Regs : Promise!Resume(r)
<1>1. PICK r \in Regs : /\ r = target[t] /\ state[r] = "Closing"
                        /\ registered[r] /\ active[r] = 0
  BY DEF UnregisterFails, IInv, TargetInv, PhaseInv, ClosePCs, HoldPCs
<1>2. Holders(r) = {}
  BY <1>1, HolderCount
<1>3. \A q \in Regs : Holders(q)' = Holders(q) /\ HeldBy(q)' = HeldBy(q)
  BY <1>1 DEF UnregisterFails, Holders, Holds, HeldBy, wVars, IInv, TypeOK
<1>4. HeldBy(r) = "live" /\ (state[r] = "Open")'
  BY <1>1 DEF UnregisterFails, HeldBy, IInv, TypeOK
<1>5. \A q \in Regs \ {r} : (state[q] = "Open")' = (state[q] = "Open")
  BY <1>1 DEF UnregisterFails, IInv, TypeOK
<1>6. fdOpen' = fdOpen
  BY DEF UnregisterFails, fileVars
<1>7. [q \in Regs |-> state[q] = "Open"]' = [[q \in Regs |-> state[q] = "Open"] EXCEPT ![r] = TRUE]
  BY <1>4, <1>5
<1>8. Promise!Resume(r)
  BY <1>2, <1>3, <1>4, <1>6, <1>7 DEF Promise!Resume
<1> QED
  BY <1>8

\* The ioctl that succeeds runs with no operation in flight.
LEMMA UnregisterUnregisters ==
  ASSUME IInv, NEW t \in Owners, Unregister(t)
  PROVE  \E r \in Regs : Promise!Unregister(r)
<1>1. PICK r \in Regs : /\ r = target[t] /\ state[r] = "Closing"
                        /\ registered[r] /\ mapped[r] /\ active[r] = 0
  BY DEF Unregister, IInv, TargetInv, PhaseInv, ResourceInv, ClosePCs, HoldPCs
<1>2. Holders(r) = {}
  BY <1>1, HolderCount
<1>3. \A q \in Regs : Holders(q)' = Holders(q) /\ (state[q] = "Open")' = (state[q] = "Open")
  BY DEF Unregister, Holders, Holds, wVars
<1>4. HeldBy(r) = "live" /\ HeldBy(r)' = "unregistered"
  BY <1>1 DEF Unregister, HeldBy, IInv, TypeOK
<1>5. \A q \in Regs \ {r} : HeldBy(q)' = HeldBy(q)
  BY <1>1 DEF Unregister, HeldBy, IInv, TypeOK
<1>6. fdOpen' = fdOpen
  BY DEF Unregister, fileVars
<1>7. [q \in Regs |-> HeldBy(q)]' = [[q \in Regs |-> HeldBy(q)] EXCEPT ![r] = "unregistered"]
  BY <1>4, <1>5
<1>8. Promise!Unregister(r)
  BY <1>1, <1>2, <1>3, <1>4, <1>6, <1>7 DEF Promise!Unregister
<1> QED
  BY <1>8

\* munmap follows the ioctl, in this Close or in an earlier one.
LEMMA MunmapUnmaps ==
  ASSUME IInv, NEW t \in Owners, Munmap(t)
  PROVE  \E r \in Regs : Promise!Unmap(r)
<1>1. PICK r \in Regs : /\ r = target[t] /\ state[r] = "Closing"
                        /\ ~registered[r] /\ mapped[r]
  BY DEF Munmap, IInv, TargetInv, PhaseInv, ClosePCs, HoldPCs
<1>2. \A q \in Regs : Holders(q)' = Holders(q) /\ (state[q] = "Open")' = (state[q] = "Open")
  BY DEF Munmap, Holders, Holds, wVars
<1>3. HeldBy(r) = "unregistered" /\ HeldBy(r)' = "released"
  BY <1>1 DEF Munmap, HeldBy, IInv, TypeOK
<1>4. \A q \in Regs \ {r} : HeldBy(q)' = HeldBy(q)
  BY <1>1 DEF Munmap, HeldBy, IInv, TypeOK
<1>5. fdOpen' = fdOpen
  BY DEF Munmap, fileVars
<1>6. [q \in Regs |-> HeldBy(q)]' = [[q \in Regs |-> HeldBy(q)] EXCEPT ![r] = "released"]
  BY <1>3, <1>4
<1>7. Promise!Unmap(r)
  BY <1>2, <1>3, <1>5, <1>6 DEF Promise!Unmap
<1> QED
  BY <1>7

\* The descriptor is closed when every registration is released.
LEMMA CloseFDCloses ==
  ASSUME IInv, NEW t \in Owners, FileCloseFD(t)
  PROVE  Promise!CloseDescriptor
<1>1. fdOpen /\ regs = {} /\ ~fdOpen'
  BY DEF FileCloseFD, IInv, FileInv, ClosingFile, FilePCs
<1>2. \A q \in Regs : HeldBy(q) \in {"none", "released"}
  BY <1>1 DEF HeldBy, IInv, ResourceInv
<1>3. \A q \in Regs : Holders(q)' = Holders(q) /\ HeldBy(q)' = HeldBy(q)
                      /\ (state[q] = "Open")' = (state[q] = "Open")
  BY DEF FileCloseFD, Holders, Holds, HeldBy, regVars, wVars
<1>4. fdOpen' = FALSE
  BY DEF FileCloseFD
<1> QED
  BY <1>1, <1>2, <1>3, <1>4 DEF Promise!CloseDescriptor

\* Every step of UserEvents is a step of SafeRelease or a stutter of it.
LEMMA StepRefines ==
  ASSUME IInv, [Next]_vars
  PROVE  [Promise!Next]_(Promise!vars)
<1> USE DEF HeldBy, Holders, Holds, regVars, fileVars, wVars, oVars
<1>1. ASSUME NEW w \in Writers, NEW r \in Regs, Acquire(w, r) PROVE Promise!Next
  BY <1>1, AcquireEnters DEF Promise!Next
<1>2. ASSUME NEW w \in Writers, Release(w) PROVE Promise!Next
  BY <1>2, ReleaseLeaves DEF Promise!Next
<1>3. ASSUME NEW t \in Owners, NEW r \in Regs, Register(t, r) PROVE Promise!Next
  BY <1>3, RegisterCreates DEF Promise!Next
<1>4. ASSUME NEW t \in Owners, MarkClosing(t) PROVE Promise!Next
  BY <1>4, MarkClosingRefuses DEF Promise!Next
<1>5. ASSUME NEW t \in Owners, Unregister(t) PROVE Promise!Next
  BY <1>5, UnregisterUnregisters DEF Promise!Next
<1>6. ASSUME NEW t \in Owners, UnregisterFails(t) PROVE Promise!Next
  BY <1>6, UnregisterFailsResumes DEF Promise!Next
<1>7. ASSUME NEW t \in Owners, Munmap(t) PROVE Promise!Next
  BY <1>7, MunmapUnmaps DEF Promise!Next
<1>8. ASSUME NEW t \in Owners, FileCloseFD(t) PROVE Promise!Next
  BY <1>8, CloseFDCloses DEF Promise!Next
<1>9. ASSUME NEW w \in Writers, CheckEnabled(w) PROVE UNCHANGED Promise!vars
  BY <1>9, PromiseStutter DEF CheckEnabled, IInv, TypeOK
<1>10. ASSUME NEW w \in Writers, Writev(w) PROVE UNCHANGED Promise!vars
  BY <1>10, PromiseStutter DEF Writev, IInv, TypeOK
<1>11. ASSUME NEW w \in Writers, Notify(w) PROVE UNCHANGED Promise!vars
  BY <1>11, PromiseStutter, UserEventsAssumption
  DEF Notify, WriterDone, IInv, TypeOK
<1>12. ASSUME NEW t \in Owners, NEW r \in Regs, RegisterFails(t, r) PROVE UNCHANGED Promise!vars
  BY <1>12, PromiseStutter DEF RegisterFails, IInv, TypeOK
<1>13. ASSUME NEW t \in Owners, NEW r \in Regs, CallClose(t, r) PROVE UNCHANGED Promise!vars
  BY <1>13, PromiseStutter DEF CallClose
<1>14. ASSUME NEW t \in Owners, NEW r \in Regs, FileCloseNext(t, r) PROVE UNCHANGED Promise!vars
  BY <1>14, PromiseStutter DEF FileCloseNext
<1>15. ASSUME NEW t \in Owners, FileUnavailable(t) PROVE UNCHANGED Promise!vars
  BY <1>15, PromiseStutter DEF FileUnavailable
<1>16. ASSUME NEW t \in Owners, CallFileClose(t) PROVE UNCHANGED Promise!vars
  BY <1>16, PromiseStutter DEF CallFileClose
<1>17. ASSUME NEW t \in Owners, LockClose(t) PROVE UNCHANGED Promise!vars
  BY <1>17, PromiseStutter DEF LockClose, Return
<1>18. ASSUME NEW t \in Owners, Drain(t) PROVE UNCHANGED Promise!vars
  BY <1>18, PromiseStutter DEF Drain
<1>19. ASSUME NEW t \in Owners, Relock(t) PROVE UNCHANGED Promise!vars
  BY <1>19, PromiseStutter DEF Relock
<1>20. ASSUME NEW t \in Owners, MunmapFails(t) PROVE UNCHANGED Promise!vars
  BY <1>20, PromiseStutter DEF MunmapFails, Return
<1>21. ASSUME NEW t \in Owners, Forget(t) PROVE UNCHANGED Promise!vars
  BY <1>21, PromiseStutter DEF Forget
<1>22. ASSUME NEW t \in Owners, StoreClosed(t) PROVE UNCHANGED Promise!vars
  BY <1>22, PromiseStutter
  DEF StoreClosed, Return, IInv, TypeOK, TargetInv, PhaseInv, ClosePCs, HoldPCs
<1>23. ASSUME NEW t \in Owners, FileEnter(t) PROVE UNCHANGED Promise!vars
  BY <1>23, PromiseStutter DEF FileEnter
<1>24. ASSUME NEW t \in Owners, FileLoopEnds(t) PROVE UNCHANGED Promise!vars
  BY <1>24, PromiseStutter DEF FileLoopEnds
<1>25. ASSUME NEW t \in Owners, FileAbort(t) PROVE UNCHANGED Promise!vars
  BY <1>25, PromiseStutter DEF FileAbort
<1>26. ASSUME NEW t \in Owners, FileTakeFD(t) PROVE UNCHANGED Promise!vars
  BY <1>26, PromiseStutter DEF FileTakeFD
<1>27. ASSUME NEW t \in Owners, FileDone(t) PROVE UNCHANGED Promise!vars
  BY <1>27, PromiseStutter DEF FileDone
<1>28. ASSUME UNCHANGED vars PROVE UNCHANGED Promise!vars
  BY <1>28, PromiseStutter DEF vars
<1> QED
  BY <1>1, <1>2, <1>3, <1>4, <1>5, <1>6, <1>7, <1>8, <1>9, <1>10, <1>11,
     <1>12, <1>13, <1>14, <1>15, <1>16, <1>17, <1>18, <1>19, <1>20, <1>21,
     <1>22, <1>23, <1>24, <1>25, <1>26, <1>27, <1>28
  DEF Next, Call, WriterStep, CloseStep, FileStep

\* The code's locks, counters, condition variables and retries implement the
\* order of SafeRelease for any number of goroutines and registrations.
THEOREM Implementation ==
  ASSUME CloseDiscipline
  PROVE  Spec => ImplementsSafeRelease
<1>1. Init => Promise!Init
  <2> SUFFICES ASSUME Init PROVE Promise!Init
    OBVIOUS
  <2>1. \A r \in Regs : /\ HeldBy(r) = "none"
                        /\ (state[r] = "Open") = FALSE
                        /\ Holders(r) = {}
    BY DEF Init, HeldBy, Holders, Holds
  <2>2. fdOpen = TRUE
    BY DEF Init
  <2> QED
    BY <2>1, <2>2 DEF Promise!Init
<1>2. IInv /\ [Next]_vars => [Promise!Next]_(Promise!vars)
  BY StepRefines
<1> QED
  BY <1>1, <1>2, Inductive, PTL DEF Spec, ImplementsSafeRelease, Promise!Spec

=============================================================================
