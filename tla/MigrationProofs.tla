--------------------------- MODULE MigrationProofs ---------------------------
(***************************************************************************)
(* Proofs about Migration, for any number of jobs, failed requests and     *)
(* writes, and any interference of users unless a theorem says otherwise.  *)
(* Each conjunct of the invariant has its own preservation lemma.          *)
(***************************************************************************)
EXTENDS Migration, TLAPS

(* The initial states are typed and satisfy the invariant. *)
LEMMA InitIInv == Init => IInv
<1> SUFFICES ASSUME Init PROVE IInv
  OBVIOUS
<1> USE MigrationAssumption
<1>1. TypeOK
  <2>1. data \in 0 .. MaxWrites /\ copied \in 0 .. Partial /\ userStarts \in Nat
    BY DEF Init, Partial
  <2>2. /\ owner \in [{"src", "dst"} -> {"none", "owner", "first", "actor"}]
        /\ lease \in [{"src", "dst"} -> {"none", "kept", "policy"}]
    BY DEF Init
  <2> QED
    BY <2>1, <2>2 DEF Init, TypeOK, Status, Ended, Step, InFlight
<1>2. OneAtATime /\ MakingIsPartial /\ PastTransfer /\ SuccessIsWhole /\ GoneForGood
  BY DEF Init, OneAtATime, MakingIsPartial, PastTransfer, SuccessIsWhole, GoneForGood,
     Ended, Rollback, Commitment, Verified, InFlight
<1>3. RunningOwnsName /\ LateIsFailed /\ ReadIsOwn /\ RollbackStops /\ RollbackRemoves
  BY DEF Init, RunningOwnsName, LateIsFailed, ReadIsOwn, RollbackStops, RollbackRemoves,
     Ended, Rollback, InFlight
<1>5. PendingFits /\ PendingIsGivenUp /\ RestartIsOver
  BY DEF Init, PendingFits, PendingIsGivenUp, RestartIsOver, Ended
<1>4. RunsUnlessStopped /\ StopIsNoted /\ LeaseIsRead /\ LeaseKept
  BY DEF Init, RunsUnlessStopped, StopIsNoted, LeaseIsRead, LeaseKept, committed, Ended
<1> QED
  BY <1>1, <1>2, <1>3, <1>4, <1>5 DEF IInv

(* A failed request is recorded with its job and its stage. *)
LEMMA FailsTyped ==
  ASSUME TypeOK, NEW j \in Job, NEW how \in {"refused", "unanswered"}, Fails(j, how)
  PROVE  faults' \subseteq Fault
<1>1. pc[j] \in Step
  BY DEF TypeOK
<1>2. <<j, pc[j], how>> \in Fault
  BY <1>1 DEF Fault
<1> QED
  BY <1>2 DEF TypeOK, Fails

(* What a request that changes an instance may come to. *)
LEMMA Outcomes ==
  ASSUME NEW j \in Job
  PROVE  /\ StopSource(j) \/ StopLeft(j) =>
              \/ UNCHANGED <<incus, event>>
              \/ canSet("src", "stopped") /\ setSource("stopped")
              \/ canSet("src", "stopped") /\ GoesOn("src", "stopped") /\ Fails(j, "unanswered")
         /\ RestartSource(j) =>
              \/ UNCHANGED <<incus, event>>
              \/ canSet("src", "running") /\ setSource("running")
              \/ canSet("src", "running") /\ GoesOn("src", "running") /\ Fails(j, "unanswered")
         /\ DeleteSource(j) =>
              \/ UNCHANGED <<incus, event>>
              \/ canDelete("src") /\ RemoveSource /\ UNCHANGED pending
              \/ canDelete("src") /\ GoesOn("src", "absent") /\ Fails(j, "unanswered")
         /\ StartCopy(j) =>
              \/ UNCHANGED <<incus, event>>
              \/ canSet("dst", "running") /\ setCopy("running")
              \/ canSet("dst", "running") /\ GoesOn("dst", "running") /\ Fails(j, "unanswered")
         /\ StopCopy(j) =>
              \/ UNCHANGED <<incus, event>>
              \/ canSet("dst", "stopped") /\ setCopy("stopped")
              \/ canSet("dst", "stopped") /\ GoesOn("dst", "stopped") /\ Fails(j, "unanswered")
         /\ DeleteCopy(j) =>
              \/ UNCHANGED <<incus, event>>
              \/ canDelete("dst") /\ RemoveCopy /\ UNCHANGED pending
              \/ canDelete("dst") /\ GoesOn("dst", "absent") /\ Fails(j, "unanswered")
BY DEF StopSource, StopLeft, RestartSource, DeleteSource, StartCopy, StopCopy, DeleteCopy,
   Awaited, Swallowed, Throws

(* An operation that goes on is noted for its instance alone. *)
LEMMA GoesOnNotes ==
  ASSUME TypeOK, NEW c \in {"src", "dst"}, NEW st, GoesOn(c, st)
  PROVE  /\ statusOf(c) # st /\ pending'[c] = st
         /\ \A d \in {"src", "dst"} : d # c => pending'[d] = pending[d]
         /\ UNCHANGED <<source, data, maker, copied, copy, op, event>>
BY DEF GoesOn, TypeOK

(* Every step keeps the types. *)
LEMMA NextType == TypeOK /\ [Next]_vars => TypeOK'
<1> SUFFICES ASSUME TypeOK, [Next]_vars PROVE TypeOK'
  OBVIOUS
<1> USE MigrationAssumption
<1>1. ASSUME NEW j \in Job, Check(j) PROVE TypeOK'
  BY <1>1, FailsTyped DEF Check, Go, preflight, Begin, incus, rows, outside, FirstOf,
     TypeOK, Status, Ended, Rollback, Step, InFlight, Partial
<1>2. ASSUME NEW j \in Job, StopSource(j) PROVE TypeOK'
  BY <1>2, FailsTyped DEF StopSource, setSource, FirstOf, rows, outside, Go, Raise, Throws,
     incus, committed, TypeOK, Status, Ended, Rollback, Commitment, Step, InFlight, Partial,
     Awaited, GoesOn
<1>3. ASSUME NEW j \in Job, StartTarget(j) PROVE TypeOK'
  BY <1>3, FailsTyped DEF StartTarget, Request, Create, rows, memory, outside, setOp, Go,
     Raise, Throws, incus, committed, TypeOK, Status, Ended, Rollback, Commitment, Step,
     InFlight, Partial, Awaited
<1>4. ASSUME NEW j \in Job, StartSource(j) PROVE TypeOK'
  BY <1>4, FailsTyped DEF StartSource, Go, Throws, SourceFails, Link, incus, rows, memory,
     outside, TypeOK, Status, Ended, Rollback, Step, InFlight, Partial
<1>5. ASSUME NEW j \in Job, Connect(j) PROVE TypeOK'
  BY <1>5, FailsTyped DEF Connect, Go, Link, incus, rows, memory, outside, TypeOK, Status,
     Ended, Rollback, Step, InFlight, Partial
<1>6. ASSUME NEW j \in Job, WaitTarget(j) PROVE TypeOK'
  BY <1>6, FailsTyped DEF WaitTarget, Go, incus, rows, memory, outside, TypeOK, Status,
     Ended, Rollback, Step, InFlight, Partial
<1>7. ASSUME NEW j \in Job, SourceLost(j) PROVE TypeOK'
  BY <1>7, FailsTyped DEF SourceLost, SourceFails, incus, rows, memory, outside, Go, TypeOK,
     Status, Ended, Rollback, Step, InFlight, Partial
<1>8. ASSUME NEW j \in Job, CancelTarget(j) PROVE TypeOK'
  BY <1>8, FailsTyped DEF CancelTarget, Swallowed, Revert, rows, memory, outside, setOp, Go,
     Throws, incus, TypeOK, Status, Ended, Rollback, Step, InFlight, Partial
<1>9. ASSUME NEW j \in Job, Verify(j) PROVE TypeOK'
  BY <1>9, FailsTyped DEF Verify, Request, AfterVerify, incus, rows, memory, outside, Go,
     Raise, Throws, committed, TypeOK, Status, Ended, Rollback, Commitment, Step, InFlight,
     Partial, Awaited
<1>10. ASSUME NEW j \in Job, StartCopy(j) PROVE TypeOK'
  BY <1>10, FailsTyped DEF StartCopy, setCopy, rows, memory, outside, Go, Raise, Throws,
     incus, committed, TypeOK, Status, Ended, Rollback, Commitment, Step, InFlight, Partial,
     Awaited, GoesOn
<1>11. ASSUME NEW j \in Job, Commit(j) PROVE TypeOK'
  BY <1>11, FailsTyped DEF Commit, Go, incus, rows, outside, TypeOK, Status, Ended,
     Rollback, Commitment, Step, InFlight, Partial
<1>12. ASSUME NEW j \in Job, ReadLeft(j) PROVE TypeOK'
  <2>1. inventoryDue' \in BOOLEAN
    BY <1>12 DEF ReadLeft, Request, Raise, TypeOK, Awaited
  <2>2. pc' \in [Job -> Step]
    BY <1>12 DEF ReadLeft, Request, Go, Raise, Throws, TypeOK, Step, Ended, Rollback,
       Commitment, Awaited
  <2>3. faults' \subseteq Fault
    BY <1>12, FailsTyped DEF ReadLeft, Request, Throws, TypeOK, Awaited
  <2> QED
    BY <1>12, <2>1, <2>2, <2>3 DEF ReadLeft, Request, incus, rows, memory, outside, Throws,
       Raise, TypeOK, Status, InFlight, Awaited
<1>13. ASSUME NEW j \in Job, StopLeft(j) PROVE TypeOK'
  <2>1. inventoryDue' \in BOOLEAN
    BY <1>13 DEF StopLeft, Raise, TypeOK, Awaited, GoesOn
  <2>2. pc' \in [Job -> Step]
    BY <1>13 DEF StopLeft, Go, Raise, Throws, TypeOK, Step, Ended, Rollback, Commitment,
       Awaited, GoesOn
  <2>3. faults' \subseteq Fault
    BY <1>13, FailsTyped DEF StopLeft, Throws, TypeOK, Awaited, GoesOn
  <2> QED
    BY <1>13, <2>1, <2>2, <2>3 DEF StopLeft, setSource, rows, memory, outside, Throws,
       incus, Raise, TypeOK, Status, InFlight, Awaited, GoesOn
<1>14. ASSUME NEW j \in Job, DeleteSource(j) PROVE TypeOK'
  <2>1. inventoryDue' \in BOOLEAN
    BY <1>14 DEF DeleteSource, Raise, TypeOK, Awaited, GoesOn, RemoveSource
  <2>2. pc' \in [Job -> Step]
    BY <1>14 DEF DeleteSource, Go, Raise, Throws, TypeOK, Step, Ended, Rollback, Commitment,
       Awaited, GoesOn, RemoveSource
  <2>3. faults' \subseteq Fault
    BY <1>14, FailsTyped DEF DeleteSource, Throws, TypeOK, Awaited, GoesOn, RemoveSource
  <2> QED
    BY <1>14, <2>1, <2>2, <2>3 DEF DeleteSource, rows, memory, outside, Throws, incus,
       Raise, TypeOK, Status, InFlight, Awaited, GoesOn, RemoveSource
<1>15. ASSUME NEW j \in Job, CarryOwner(j) PROVE TypeOK'
  <2>1. inventoryDue' \in BOOLEAN
    BY <1>15 DEF CarryOwner, Raise, TypeOK
  <2>2. pc' \in [Job -> Step]
    BY <1>15 DEF CarryOwner, Go, Raise, TypeOK, Step, Ended, Rollback, Commitment
  <2>3. faults' \subseteq Fault
    BY <1>15, FailsTyped DEF CarryOwner, TypeOK
  <2> QED
    BY <1>15, <2>1, <2>2, <2>3 DEF CarryOwner, incus, memory, outside, Raise, TypeOK,
       Status, InFlight
<1>16. ASSUME NEW j \in Job, PutLease(j) PROVE TypeOK'
  <2>1. inventoryDue' \in BOOLEAN
    BY <1>16 DEF PutLease, Raise, TypeOK
  <2>2. pc' \in [Job -> Step]
    BY <1>16 DEF PutLease, Go, Raise, TypeOK, Step, Ended, Rollback
  <2>3. faults' \subseteq Fault
    BY <1>16, FailsTyped DEF PutLease, TypeOK
  <2> QED
    BY <1>16, <2>1, <2>2, <2>3 DEF PutLease, incus, memory, outside, Raise, TypeOK, Status,
       InFlight
<1>17. ASSUME NEW j \in Job, BeginRollback(j) PROVE TypeOK'
  <2>1. inventoryDue' \in BOOLEAN
    BY <1>17 DEF BeginRollback, TypeOK
  <2>2. pc' \in [Job -> Step]
    BY <1>17 DEF BeginRollback, Go, TypeOK, Step, Ended, Rollback
  <2>3. faults' \subseteq Fault
    BY <1>17, FailsTyped DEF BeginRollback, TypeOK
  <2> QED
    BY <1>17, <2>1, <2>2, <2>3 DEF BeginRollback, incus, rows, memory, outside, Raise,
       TypeOK, Status, InFlight
<1>18. ASSUME NEW j \in Job, ReadCopy(j) PROVE TypeOK'
  BY <1>18, FailsTyped DEF ReadCopy, Go, AfterRead, incus, rows, memory, outside, TypeOK,
     Status, Ended, Rollback, Step, InFlight, Partial
<1>19. ASSUME NEW j \in Job, StopCopy(j) PROVE TypeOK'
  BY <1>19, FailsTyped DEF StopCopy, Swallowed, setCopy, rows, memory, outside, Go, Throws,
     incus, TypeOK, Status, Ended, Rollback, Step, InFlight, Partial, GoesOn
<1>20. ASSUME NEW j \in Job, DeleteCopy(j) PROVE TypeOK'
  BY <1>20, FailsTyped DEF DeleteCopy, Swallowed, rows, memory, outside, Go, Throws, incus,
     TypeOK, Status, Ended, Rollback, Step, InFlight, Partial, GoesOn, RemoveCopy
<1>21. ASSUME NEW j \in Job, RestartSource(j) PROVE TypeOK'
  BY <1>21, FailsTyped DEF RestartSource, Go, Swallowed, setSource, incus, rows, memory,
     outside, Throws, TypeOK, Status, Ended, Rollback, Step, InFlight, Partial, GoesOn
<1>22. ASSUME NEW j \in Job, TargetSucceeds(j) PROVE TypeOK'
  BY <1>22, FailsTyped DEF TargetSucceeds, setOp, rows, memory, outside, TypeOK, Status,
     Ended, Rollback, Step, InFlight, Partial
<1>23. ASSUME NEW j \in Job, TargetFails(j) PROVE TypeOK'
  BY <1>23, FailsTyped DEF TargetFails, Revert, rows, memory, outside, setOp, TypeOK,
     Status, Ended, Rollback, Step, InFlight, Partial
<1>24. ASSUME NEW j \in Job, Cancel(j) PROVE TypeOK'
  BY <1>24, FailsTyped DEF Cancel, incus, rows, memory, TypeOK, Status, Ended, Rollback,
     Step, InFlight, Partial
<1>25. ASSUME NEW j \in Job, Crash(j) PROVE TypeOK'
  BY <1>25, FailsTyped DEF Crash, Go, incus, rows, memory, outside, TypeOK, Status, Ended,
     Rollback, Step, InFlight, Partial
<1>26. CASE Write
  BY <1>26 DEF Write, rows, memory, outside, TypeOK, Status, Ended, Rollback, Step, Fault,
     InFlight, Partial
<1>27. CASE UserStarts
  BY <1>27 DEF UserStarts, setSource, rows, memory, TypeOK, Status, Ended, Rollback, Step,
     Fault, InFlight, Partial
<1>28. CASE UserCreates
  BY <1>28 DEF UserCreates, rows, memory, outside, TypeOK, Status, Ended, Rollback, Step,
     Fault, InFlight, Partial
<1>29. CASE ForgetOwner
  BY <1>29 DEF ForgetOwner, incus, memory, outside, TypeOK, Status, Ended, Rollback, Step,
     Fault, InFlight, Partial
<1>30. CASE ForgetLease
  BY <1>30 DEF ForgetLease, incus, memory, outside, TypeOK, Status, Ended, Rollback, Step,
     Fault, InFlight, Partial
<1>31. CASE Backfill
  BY <1>31 DEF Backfill, incus, memory, outside, TypeOK, Status, Ended, Rollback, Step,
     Fault, InFlight, Partial
<1>32. CASE GrantLease
  BY <1>32 DEF GrantLease, incus, memory, outside, TypeOK, Status, Ended, Rollback, Step,
     Fault, InFlight, Partial
<1>33. CASE UNCHANGED vars
  BY <1>33 DEF vars, incus, rows, memory, outside, TypeOK, Status, Ended, Rollback, Step,
     Fault, InFlight, Partial
<1>34. ASSUME NEW c \in {"src", "dst"}, OperationEnds(c) PROVE TypeOK'
  BY <1>34 DEF OperationEnds, RemoveSource, RemoveCopy, rows, memory, outside, TypeOK,
     Ended, Rollback, InFlight, Partial, Status, Step
<1> QED
  BY <1>1, <1>2, <1>3, <1>4, <1>5, <1>6, <1>7, <1>8, <1>9, <1>10, <1>11, <1>12, <1>13,
     <1>14, <1>15, <1>16, <1>17, <1>18, <1>19, <1>20, <1>21, <1>22, <1>23, <1>24, <1>25,
     <1>26, <1>27, <1>28, <1>29, <1>30, <1>31, <1>32, <1>33, <1>34 DEF Next, Handler,
     Target, Elsewhere

(* Only Check makes a job active, and it finds all others at rest. *)
LEMMA NextOne == TypeOK /\ OneAtATime /\ [Next]_vars => OneAtATime'
<1> SUFFICES ASSUME TypeOK, OneAtATime, [Next]_vars PROVE OneAtATime'
  OBVIOUS
<1> USE MigrationAssumption
<1>1. ASSUME NEW j \in Job, Check(j) PROVE OneAtATime'
  <2>1. \A k \in Job : pc[k] \in Ended
    BY <1>1 DEF Check
  <2>2. \A k \in Job : k # j => pc'[k] = pc[k]
    BY <1>1 DEF Check, Go
  <2> QED
    BY <2>1, <2>2 DEF OneAtATime
<1>2. ASSUME NEW j \in Job, StopSource(j) PROVE OneAtATime'
  BY <1>2 DEF StopSource, setSource, FirstOf, rows, outside, Go, Raise, Throws, incus,
     TypeOK, OneAtATime, Ended, Rollback, Awaited, GoesOn
<1>3. ASSUME NEW j \in Job, StartTarget(j) PROVE OneAtATime'
  BY <1>3 DEF StartTarget, Request, Create, rows, memory, outside, setOp, Go, Raise, Throws,
     incus, TypeOK, OneAtATime, Ended, Rollback, Awaited
<1>4. ASSUME NEW j \in Job, StartSource(j) PROVE OneAtATime'
  BY <1>4 DEF StartSource, Go, Throws, SourceFails, Link, incus, rows, memory, outside,
     TypeOK, OneAtATime, Ended, Rollback
<1>5. ASSUME NEW j \in Job, Connect(j) PROVE OneAtATime'
  BY <1>5 DEF Connect, Go, Link, incus, rows, memory, outside, TypeOK, OneAtATime, Ended,
     Rollback
<1>6. ASSUME NEW j \in Job, WaitTarget(j) PROVE OneAtATime'
  BY <1>6 DEF WaitTarget, Go, incus, rows, memory, outside, TypeOK, OneAtATime, Ended,
     Rollback
<1>7. ASSUME NEW j \in Job, SourceLost(j) PROVE OneAtATime'
  BY <1>7 DEF SourceLost, SourceFails, incus, rows, memory, outside, Go, TypeOK, OneAtATime,
     Ended, Rollback
<1>8. ASSUME NEW j \in Job, CancelTarget(j) PROVE OneAtATime'
  BY <1>8 DEF CancelTarget, Swallowed, Revert, rows, memory, outside, setOp, Go, Throws,
     incus, TypeOK, OneAtATime, Ended, Rollback
<1>9. ASSUME NEW j \in Job, Verify(j) PROVE OneAtATime'
  BY <1>9 DEF Verify, Request, AfterVerify, incus, rows, memory, outside, Go, Raise, Throws,
     TypeOK, OneAtATime, Ended, Rollback, Awaited
<1>10. ASSUME NEW j \in Job, StartCopy(j) PROVE OneAtATime'
  BY <1>10 DEF StartCopy, setCopy, rows, memory, outside, Go, Raise, Throws, incus, TypeOK,
     OneAtATime, Ended, Rollback, Awaited, GoesOn
<1>11. ASSUME NEW j \in Job, Commit(j) PROVE OneAtATime'
  BY <1>11 DEF Commit, Go, incus, rows, outside, TypeOK, OneAtATime, Ended, Rollback
<1>12. ASSUME NEW j \in Job, ReadLeft(j) PROVE OneAtATime'
  BY <1>12 DEF ReadLeft, Request, incus, rows, memory, outside, Go, Raise, Throws, TypeOK,
     OneAtATime, Ended, Rollback, Awaited
<1>13. ASSUME NEW j \in Job, StopLeft(j) PROVE OneAtATime'
  BY <1>13 DEF StopLeft, setSource, rows, memory, outside, Go, Raise, Throws, incus, TypeOK,
     OneAtATime, Ended, Rollback, Awaited, GoesOn
<1>14. ASSUME NEW j \in Job, DeleteSource(j) PROVE OneAtATime'
  BY <1>14 DEF DeleteSource, rows, memory, outside, Go, Raise, Throws, incus, TypeOK,
     OneAtATime, Ended, Rollback, Awaited, GoesOn, RemoveSource
<1>15. ASSUME NEW j \in Job, CarryOwner(j) PROVE OneAtATime'
  BY <1>15 DEF CarryOwner, Go, Raise, incus, memory, outside, TypeOK, OneAtATime, Ended,
     Rollback
<1>16. ASSUME NEW j \in Job, PutLease(j) PROVE OneAtATime'
  BY <1>16 DEF PutLease, Go, Raise, incus, memory, outside, TypeOK, OneAtATime, Ended,
     Rollback
<1>17. ASSUME NEW j \in Job, BeginRollback(j) PROVE OneAtATime'
  BY <1>17 DEF BeginRollback, Go, incus, rows, memory, outside, TypeOK, OneAtATime, Ended,
     Rollback
<1>18. ASSUME NEW j \in Job, ReadCopy(j) PROVE OneAtATime'
  BY <1>18 DEF ReadCopy, Go, AfterRead, incus, rows, memory, outside, TypeOK, OneAtATime,
     Ended, Rollback
<1>19. ASSUME NEW j \in Job, StopCopy(j) PROVE OneAtATime'
  BY <1>19 DEF StopCopy, Swallowed, setCopy, rows, memory, outside, Go, Throws, incus,
     OneAtATime, Ended, Rollback, GoesOn
<1>20. ASSUME NEW j \in Job, DeleteCopy(j) PROVE OneAtATime'
  BY <1>20 DEF DeleteCopy, Swallowed, rows, memory, outside, Go, Throws, incus, OneAtATime,
     Ended, Rollback, GoesOn, RemoveCopy
<1>21. ASSUME NEW j \in Job, RestartSource(j) PROVE OneAtATime'
  BY <1>21 DEF RestartSource, Go, Swallowed, setSource, incus, rows, memory, outside,
     Throws, TypeOK, OneAtATime, Ended, Rollback, GoesOn
<1>22. ASSUME NEW j \in Job, TargetSucceeds(j) PROVE OneAtATime'
  BY <1>22 DEF TargetSucceeds, setOp, rows, memory, outside, OneAtATime, Ended, Rollback
<1>23. ASSUME NEW j \in Job, TargetFails(j) PROVE OneAtATime'
  BY <1>23 DEF TargetFails, Revert, rows, memory, outside, setOp, OneAtATime, Ended,
     Rollback
<1>24. ASSUME NEW j \in Job, Cancel(j) PROVE OneAtATime'
  BY <1>24 DEF Cancel, incus, rows, memory, OneAtATime, Ended, Rollback
<1>25. ASSUME NEW j \in Job, Crash(j) PROVE OneAtATime'
  BY <1>25 DEF Crash, Go, incus, rows, memory, outside, OneAtATime, Ended, Rollback
<1>26. CASE Write
  BY <1>26 DEF Write, rows, memory, outside, OneAtATime, Ended, Rollback
<1>27. CASE UserStarts
  BY <1>27 DEF UserStarts, setSource, rows, memory, OneAtATime, Ended, Rollback
<1>28. CASE UserCreates
  BY <1>28 DEF UserCreates, rows, memory, outside, OneAtATime, Ended, Rollback
<1>29. CASE ForgetOwner
  BY <1>29 DEF ForgetOwner, incus, memory, outside, OneAtATime, Ended, Rollback
<1>30. CASE ForgetLease
  BY <1>30 DEF ForgetLease, incus, memory, outside, OneAtATime, Ended, Rollback
<1>31. CASE Backfill
  BY <1>31 DEF Backfill, incus, memory, outside, OneAtATime, Ended, Rollback
<1>32. CASE GrantLease
  BY <1>32 DEF GrantLease, incus, memory, outside, OneAtATime, Ended, Rollback
<1>33. CASE UNCHANGED vars
  BY <1>33 DEF vars, incus, rows, memory, outside, OneAtATime, Ended, Rollback
<1>34. ASSUME NEW c \in {"src", "dst"}, OperationEnds(c) PROVE OneAtATime'
  BY <1>34 DEF OperationEnds, RemoveSource, RemoveCopy, rows, memory, outside, TypeOK,
     OneAtATime, Ended, Rollback, InFlight, Partial
<1> QED
  BY <1>1, <1>2, <1>3, <1>4, <1>5, <1>6, <1>7, <1>8, <1>9, <1>10, <1>11, <1>12, <1>13,
     <1>14, <1>15, <1>16, <1>17, <1>18, <1>19, <1>20, <1>21, <1>22, <1>23, <1>24, <1>25,
     <1>26, <1>27, <1>28, <1>29, <1>30, <1>31, <1>32, <1>33, <1>34 DEF Next, Handler,
     Target, Elsewhere

(* An operation starts on a free name, and nothing takes the name before it ends. *)
LEMMA NextMaking == TypeOK /\ MakingIsPartial /\ [Next]_vars => MakingIsPartial'
<1> SUFFICES ASSUME TypeOK, MakingIsPartial, [Next]_vars PROVE MakingIsPartial'
  OBVIOUS
<1> USE MigrationAssumption
<1>1. ASSUME NEW j \in Job, Check(j) PROVE MakingIsPartial'
  BY <1>1 DEF Check, Go, preflight, Begin, incus, rows, outside, FirstOf, MakingIsPartial,
     InFlight, Partial
<1>2. ASSUME NEW j \in Job, StopSource(j) PROVE MakingIsPartial'
  BY <1>2 DEF StopSource, setSource, FirstOf, rows, outside, Go, Raise, Throws, incus,
     MakingIsPartial, InFlight, Partial, Awaited, GoesOn
<1>3. ASSUME NEW j \in Job, StartTarget(j) PROVE MakingIsPartial'
  BY <1>3 DEF StartTarget, Request, Create, rows, memory, outside, setOp, Go, Raise, Throws,
     incus, TypeOK, MakingIsPartial, InFlight, Partial, Awaited
<1>4. ASSUME NEW j \in Job, StartSource(j) PROVE MakingIsPartial'
  BY <1>4 DEF StartSource, Go, Throws, SourceFails, Link, incus, rows, memory, outside,
     TypeOK, MakingIsPartial, InFlight, Partial
<1>5. ASSUME NEW j \in Job, Connect(j) PROVE MakingIsPartial'
  BY <1>5 DEF Connect, Go, Link, incus, rows, memory, outside, TypeOK, MakingIsPartial,
     InFlight, Partial
<1>6. ASSUME NEW j \in Job, WaitTarget(j) PROVE MakingIsPartial'
  BY <1>6 DEF WaitTarget, Go, incus, rows, memory, outside, MakingIsPartial, InFlight,
     Partial
<1>7. ASSUME NEW j \in Job, SourceLost(j) PROVE MakingIsPartial'
  BY <1>7 DEF SourceLost, SourceFails, incus, rows, memory, outside, Go, MakingIsPartial,
     InFlight, Partial
<1>8. ASSUME NEW j \in Job, CancelTarget(j) PROVE MakingIsPartial'
  BY <1>8 DEF CancelTarget, Swallowed, Revert, rows, memory, outside, setOp, Go, Throws,
     incus, TypeOK, MakingIsPartial, InFlight, Partial
<1>9. ASSUME NEW j \in Job, Verify(j) PROVE MakingIsPartial'
  BY <1>9 DEF Verify, Request, AfterVerify, incus, rows, memory, outside, Go, Raise, Throws,
     MakingIsPartial, InFlight, Partial, Awaited
<1>10. ASSUME NEW j \in Job, StartCopy(j) PROVE MakingIsPartial'
  BY <1>10 DEF StartCopy, setCopy, rows, memory, outside, Go, Raise, Throws, incus,
     MakingIsPartial, InFlight, Partial, Awaited, GoesOn
<1>11. ASSUME NEW j \in Job, Commit(j) PROVE MakingIsPartial'
  BY <1>11 DEF Commit, Go, incus, rows, outside, MakingIsPartial, InFlight, Partial
<1>12. ASSUME NEW j \in Job, ReadLeft(j) PROVE MakingIsPartial'
  BY <1>12 DEF ReadLeft, Request, incus, rows, memory, outside, Go, Raise, Throws,
     MakingIsPartial, InFlight, Partial, Awaited
<1>13. ASSUME NEW j \in Job, StopLeft(j) PROVE MakingIsPartial'
  BY <1>13 DEF StopLeft, setSource, rows, memory, outside, Go, Raise, Throws, incus,
     MakingIsPartial, InFlight, Partial, Awaited, GoesOn
<1>14. ASSUME NEW j \in Job, DeleteSource(j) PROVE MakingIsPartial'
  BY <1>14 DEF DeleteSource, rows, memory, outside, Go, Raise, Throws, incus,
     MakingIsPartial, InFlight, Partial, Awaited, GoesOn, RemoveSource
<1>15. ASSUME NEW j \in Job, CarryOwner(j) PROVE MakingIsPartial'
  BY <1>15 DEF CarryOwner, Go, Raise, incus, memory, outside, MakingIsPartial, InFlight,
     Partial
<1>16. ASSUME NEW j \in Job, PutLease(j) PROVE MakingIsPartial'
  BY <1>16 DEF PutLease, Go, Raise, incus, memory, outside, MakingIsPartial, InFlight,
     Partial
<1>17. ASSUME NEW j \in Job, BeginRollback(j) PROVE MakingIsPartial'
  BY <1>17 DEF BeginRollback, Go, incus, rows, memory, outside, MakingIsPartial, InFlight,
     Partial
<1>18. ASSUME NEW j \in Job, ReadCopy(j) PROVE MakingIsPartial'
  BY <1>18 DEF ReadCopy, Go, AfterRead, incus, rows, memory, outside, MakingIsPartial,
     InFlight, Partial
<1>19. ASSUME NEW j \in Job, StopCopy(j) PROVE MakingIsPartial'
  BY <1>19 DEF StopCopy, Swallowed, setCopy, rows, memory, outside, Go, Throws, incus,
     MakingIsPartial, InFlight, Partial, GoesOn
<1>20. ASSUME NEW j \in Job, DeleteCopy(j) PROVE MakingIsPartial'
  BY <1>20 DEF DeleteCopy, Swallowed, rows, memory, outside, Go, Throws, incus,
     MakingIsPartial, InFlight, Partial, GoesOn, RemoveCopy
<1>21. ASSUME NEW j \in Job, RestartSource(j) PROVE MakingIsPartial'
  BY <1>21 DEF RestartSource, Go, Swallowed, setSource, incus, rows, memory, outside,
     Throws, MakingIsPartial, InFlight, Partial, GoesOn
<1>22. ASSUME NEW j \in Job, TargetSucceeds(j) PROVE MakingIsPartial'
  BY <1>22 DEF TargetSucceeds, setOp, rows, memory, outside, TypeOK, MakingIsPartial,
     InFlight, Partial
<1>23. ASSUME NEW j \in Job, TargetFails(j) PROVE MakingIsPartial'
  BY <1>23 DEF TargetFails, Revert, rows, memory, outside, setOp, TypeOK, MakingIsPartial,
     InFlight, Partial
<1>24. ASSUME NEW j \in Job, Cancel(j) PROVE MakingIsPartial'
  BY <1>24 DEF Cancel, incus, rows, memory, MakingIsPartial, InFlight, Partial
<1>25. ASSUME NEW j \in Job, Crash(j) PROVE MakingIsPartial'
  BY <1>25 DEF Crash, Go, incus, rows, memory, outside, MakingIsPartial, InFlight, Partial
<1>26. CASE Write
  BY <1>26 DEF Write, rows, memory, outside, MakingIsPartial, InFlight, Partial
<1>27. CASE UserStarts
  BY <1>27 DEF UserStarts, setSource, rows, memory, MakingIsPartial, InFlight, Partial
<1>28. CASE UserCreates
  BY <1>28 DEF UserCreates, rows, memory, outside, MakingIsPartial, InFlight, Partial
<1>29. CASE ForgetOwner
  BY <1>29 DEF ForgetOwner, incus, memory, outside, MakingIsPartial, InFlight, Partial
<1>30. CASE ForgetLease
  BY <1>30 DEF ForgetLease, incus, memory, outside, MakingIsPartial, InFlight, Partial
<1>31. CASE Backfill
  BY <1>31 DEF Backfill, incus, memory, outside, MakingIsPartial, InFlight, Partial
<1>32. CASE GrantLease
  BY <1>32 DEF GrantLease, incus, memory, outside, MakingIsPartial, InFlight, Partial
<1>33. CASE UNCHANGED vars
  BY <1>33 DEF vars, incus, rows, memory, outside, MakingIsPartial, InFlight, Partial
<1>34. ASSUME NEW c \in {"src", "dst"}, OperationEnds(c) PROVE MakingIsPartial'
  BY <1>34 DEF OperationEnds, RemoveSource, RemoveCopy, rows, memory, outside, TypeOK,
     MakingIsPartial, Ended, Rollback, InFlight, Partial
<1> QED
  BY <1>1, <1>2, <1>3, <1>4, <1>5, <1>6, <1>7, <1>8, <1>9, <1>10, <1>11, <1>12, <1>13,
     <1>14, <1>15, <1>16, <1>17, <1>18, <1>19, <1>20, <1>21, <1>22, <1>23, <1>24, <1>25,
     <1>26, <1>27, <1>28, <1>29, <1>30, <1>31, <1>32, <1>33, <1>34 DEF Next, Handler,
     Target, Elsewhere

(* A job passes the transfer on success only, and operations end once. *)
LEMMA NextPast == TypeOK /\ PastTransfer /\ [Next]_vars => PastTransfer'
<1> SUFFICES ASSUME TypeOK, PastTransfer, [Next]_vars PROVE PastTransfer'
  OBVIOUS
<1> USE MigrationAssumption
<1>1. ASSUME NEW j \in Job, Check(j) PROVE PastTransfer'
  BY <1>1 DEF Check, Go, preflight, Begin, incus, rows, outside, FirstOf, PastTransfer,
     Verified, Commitment, Ended, Rollback, InFlight
<1>2. ASSUME NEW j \in Job, StopSource(j) PROVE PastTransfer'
  BY <1>2 DEF StopSource, setSource, FirstOf, rows, outside, Go, Raise, Throws, incus,
     TypeOK, PastTransfer, Verified, Commitment, Ended, Rollback, InFlight, Awaited, GoesOn
<1>3. ASSUME NEW j \in Job, StartTarget(j) PROVE PastTransfer'
  BY <1>3 DEF StartTarget, Request, Create, rows, memory, outside, setOp, Go, Raise, Throws,
     incus, TypeOK, PastTransfer, Verified, Commitment, Ended, Rollback, InFlight, Awaited
<1>4. ASSUME NEW j \in Job, StartSource(j) PROVE PastTransfer'
  BY <1>4 DEF StartSource, Go, Throws, SourceFails, Link, incus, rows, memory, outside,
     TypeOK, PastTransfer, Verified, Commitment, Ended, Rollback, InFlight
<1>5. ASSUME NEW j \in Job, Connect(j) PROVE PastTransfer'
  BY <1>5 DEF Connect, Go, Link, incus, rows, memory, outside, TypeOK, PastTransfer,
     Verified, Commitment, Ended, Rollback, InFlight
<1>6. ASSUME NEW j \in Job, WaitTarget(j) PROVE PastTransfer'
  BY <1>6 DEF WaitTarget, Go, incus, rows, memory, outside, TypeOK, PastTransfer, Verified,
     Commitment, Ended, Rollback, InFlight
<1>7. ASSUME NEW j \in Job, SourceLost(j) PROVE PastTransfer'
  BY <1>7 DEF SourceLost, SourceFails, incus, rows, memory, outside, Go, TypeOK,
     PastTransfer, Verified, Commitment, Ended, Rollback, InFlight
<1>8. ASSUME NEW j \in Job, CancelTarget(j) PROVE PastTransfer'
  BY <1>8 DEF CancelTarget, Swallowed, Revert, rows, memory, outside, setOp, Go, Throws,
     incus, TypeOK, PastTransfer, Verified, Commitment, Ended, Rollback, InFlight
<1>9. ASSUME NEW j \in Job, Verify(j) PROVE PastTransfer'
  BY <1>9 DEF Verify, Request, AfterVerify, incus, rows, memory, outside, Go, Raise, Throws,
     TypeOK, PastTransfer, Verified, Commitment, Ended, Rollback, InFlight, Awaited
<1>10. ASSUME NEW j \in Job, StartCopy(j) PROVE PastTransfer'
  BY <1>10 DEF StartCopy, setCopy, rows, memory, outside, Go, Raise, Throws, incus, TypeOK,
     PastTransfer, Verified, Ended, Rollback, InFlight, Awaited, GoesOn
<1>11. ASSUME NEW j \in Job, Commit(j) PROVE PastTransfer'
  BY <1>11 DEF Commit, Go, incus, rows, outside, TypeOK, PastTransfer, Verified, Ended,
     Rollback, InFlight
<1>12. ASSUME NEW j \in Job, ReadLeft(j) PROVE PastTransfer'
  BY <1>12 DEF ReadLeft, Request, incus, rows, memory, outside, Go, Raise, Throws, TypeOK,
     PastTransfer, Verified, Commitment, Ended, Rollback, InFlight, Awaited
<1>13. ASSUME NEW j \in Job, StopLeft(j) PROVE PastTransfer'
  BY <1>13 DEF StopLeft, setSource, rows, memory, outside, Go, Raise, Throws, incus, TypeOK,
     PastTransfer, Verified, Commitment, Ended, Rollback, InFlight, Awaited, GoesOn
<1>14. ASSUME NEW j \in Job, DeleteSource(j) PROVE PastTransfer'
  BY <1>14 DEF DeleteSource, rows, memory, outside, Go, Raise, Throws, incus, TypeOK,
     PastTransfer, Verified, Commitment, Ended, Rollback, InFlight, Awaited, GoesOn,
     RemoveSource
<1>15. ASSUME NEW j \in Job, CarryOwner(j) PROVE PastTransfer'
  BY <1>15 DEF CarryOwner, Go, Raise, incus, memory, outside, TypeOK, PastTransfer,
     Verified, Commitment, Ended, Rollback, InFlight
<1>16. ASSUME NEW j \in Job, PutLease(j) PROVE PastTransfer'
  BY <1>16 DEF PutLease, Go, Raise, incus, memory, outside, TypeOK, PastTransfer, Verified,
     Commitment, Ended, Rollback, InFlight
<1>17. ASSUME NEW j \in Job, BeginRollback(j) PROVE PastTransfer'
  BY <1>17 DEF BeginRollback, Go, incus, rows, memory, outside, TypeOK, PastTransfer,
     Verified, Commitment, Ended, Rollback, InFlight
<1>18. ASSUME NEW j \in Job, ReadCopy(j) PROVE PastTransfer'
  BY <1>18 DEF ReadCopy, Go, AfterRead, incus, rows, memory, outside, TypeOK, PastTransfer,
     Verified, Commitment, Ended, Rollback, InFlight
<1>19. ASSUME NEW j \in Job, StopCopy(j) PROVE PastTransfer'
  BY <1>19 DEF StopCopy, Swallowed, setCopy, rows, memory, outside, Go, Throws, incus,
     PastTransfer, Verified, Commitment, Ended, Rollback, InFlight, GoesOn
<1>20. ASSUME NEW j \in Job, DeleteCopy(j) PROVE PastTransfer'
  BY <1>20 DEF DeleteCopy, Swallowed, rows, memory, outside, Go, Throws, incus,
     PastTransfer, Verified, Commitment, Ended, Rollback, InFlight, GoesOn, RemoveCopy
<1>21. ASSUME NEW j \in Job, RestartSource(j) PROVE PastTransfer'
  BY <1>21 DEF RestartSource, Go, Swallowed, setSource, incus, rows, memory, outside,
     Throws, TypeOK, PastTransfer, Verified, Commitment, Ended, Rollback, InFlight, GoesOn
<1>22. ASSUME NEW j \in Job, TargetSucceeds(j) PROVE PastTransfer'
  BY <1>22 DEF TargetSucceeds, setOp, rows, memory, outside, PastTransfer, Verified, Ended,
     Rollback, InFlight
<1>23. ASSUME NEW j \in Job, TargetFails(j) PROVE PastTransfer'
  BY <1>23 DEF TargetFails, Revert, rows, memory, outside, setOp, PastTransfer, Verified,
     Ended, Rollback, InFlight
<1>24. ASSUME NEW j \in Job, Cancel(j) PROVE PastTransfer'
  BY <1>24 DEF Cancel, incus, rows, memory, PastTransfer, Verified, Ended, Rollback,
     InFlight
<1>25. ASSUME NEW j \in Job, Crash(j) PROVE PastTransfer'
  BY <1>25 DEF Crash, Go, incus, rows, memory, outside, PastTransfer, Verified, Commitment,
     Ended, Rollback, InFlight
<1>26. CASE Write
  BY <1>26 DEF Write, rows, memory, outside, PastTransfer, Verified, Ended, Rollback,
     InFlight
<1>27. CASE UserStarts
  BY <1>27 DEF UserStarts, setSource, rows, memory, PastTransfer, Verified, Ended, Rollback,
     InFlight
<1>28. CASE UserCreates
  BY <1>28 DEF UserCreates, rows, memory, outside, PastTransfer, Verified, Ended, Rollback,
     InFlight
<1>29. CASE ForgetOwner
  BY <1>29 DEF ForgetOwner, incus, memory, outside, PastTransfer, Verified, Ended, Rollback,
     InFlight
<1>30. CASE ForgetLease
  BY <1>30 DEF ForgetLease, incus, memory, outside, PastTransfer, Verified, Ended, Rollback,
     InFlight
<1>31. CASE Backfill
  BY <1>31 DEF Backfill, incus, memory, outside, PastTransfer, Verified, Ended, Rollback,
     InFlight
<1>32. CASE GrantLease
  BY <1>32 DEF GrantLease, incus, memory, outside, PastTransfer, Verified, Ended, Rollback,
     InFlight
<1>33. CASE UNCHANGED vars
  BY <1>33 DEF vars, incus, rows, memory, outside, PastTransfer, Verified, Ended, Rollback,
     InFlight
<1>34. ASSUME NEW c \in {"src", "dst"}, OperationEnds(c) PROVE PastTransfer'
  BY <1>34 DEF OperationEnds, RemoveSource, RemoveCopy, rows, memory, outside, TypeOK,
     PastTransfer, Ended, Rollback, InFlight, Partial
<1> QED
  BY <1>1, <1>2, <1>3, <1>4, <1>5, <1>6, <1>7, <1>8, <1>9, <1>10, <1>11, <1>12, <1>13,
     <1>14, <1>15, <1>16, <1>17, <1>18, <1>19, <1>20, <1>21, <1>22, <1>23, <1>24, <1>25,
     <1>26, <1>27, <1>28, <1>29, <1>30, <1>31, <1>32, <1>33, <1>34 DEF Next, Handler,
     Target, Elsewhere

(* A whole copy goes only by the rollback of its own job. *)
LEMMA NextSuccess == TypeOK /\ OneAtATime /\ MakingIsPartial /\ PastTransfer /\ SuccessIsWhole /\ PendingIsGivenUp /\ [Next]_vars => SuccessIsWhole'
<1> SUFFICES ASSUME TypeOK, OneAtATime, MakingIsPartial, PastTransfer, SuccessIsWhole, PendingIsGivenUp, [Next]_vars PROVE SuccessIsWhole'
  OBVIOUS
<1> USE MigrationAssumption
<1>1. ASSUME NEW j \in Job, Check(j) PROVE SuccessIsWhole'
  BY <1>1 DEF Check, Go, preflight, Begin, incus, rows, outside, FirstOf, PastTransfer,
     SuccessIsWhole, Ended, Rollback, InFlight, Partial
<1>2. ASSUME NEW j \in Job, StopSource(j) PROVE SuccessIsWhole'
  BY <1>2 DEF StopSource, setSource, FirstOf, rows, outside, Go, Raise, Throws, incus,
     TypeOK, SuccessIsWhole, Ended, Rollback, InFlight, Partial, Awaited, GoesOn
<1>3. ASSUME NEW j \in Job, StartTarget(j) PROVE SuccessIsWhole'
  BY <1>3 DEF StartTarget, Request, Create, rows, memory, outside, setOp, Go, Raise, Throws,
     incus, TypeOK, SuccessIsWhole, Ended, Rollback, InFlight, Partial, Awaited
<1>4. ASSUME NEW j \in Job, StartSource(j) PROVE SuccessIsWhole'
  BY <1>4 DEF StartSource, Go, Throws, SourceFails, Link, incus, rows, memory, outside,
     TypeOK, SuccessIsWhole, Ended, Rollback, InFlight, Partial
<1>5. ASSUME NEW j \in Job, Connect(j) PROVE SuccessIsWhole'
  BY <1>5 DEF Connect, Go, Link, incus, rows, memory, outside, TypeOK, SuccessIsWhole,
     Ended, Rollback, InFlight, Partial
<1>6. ASSUME NEW j \in Job, WaitTarget(j) PROVE SuccessIsWhole'
  BY <1>6 DEF WaitTarget, Go, incus, rows, memory, outside, TypeOK, SuccessIsWhole, Ended,
     Rollback, InFlight, Partial
<1>7. ASSUME NEW j \in Job, SourceLost(j) PROVE SuccessIsWhole'
  BY <1>7 DEF SourceLost, SourceFails, incus, rows, memory, outside, Go, TypeOK,
     SuccessIsWhole, Ended, Rollback, InFlight, Partial
<1>8. ASSUME NEW j \in Job, CancelTarget(j) PROVE SuccessIsWhole'
  BY <1>8 DEF CancelTarget, Swallowed, Revert, rows, memory, outside, setOp, Go, Throws,
     incus, TypeOK, OneAtATime, SuccessIsWhole, Ended, Rollback, InFlight, Partial
<1>9. ASSUME NEW j \in Job, Verify(j) PROVE SuccessIsWhole'
  BY <1>9 DEF Verify, Request, AfterVerify, incus, rows, memory, outside, Go, Raise, Throws,
     TypeOK, SuccessIsWhole, Ended, Rollback, InFlight, Partial, Awaited
<1>10. ASSUME NEW j \in Job, StartCopy(j) PROVE SuccessIsWhole'
  BY <1>10 DEF StartCopy, setCopy, rows, memory, outside, Go, Raise, Throws, incus, TypeOK,
     SuccessIsWhole, Ended, Rollback, InFlight, Partial, Awaited, GoesOn
<1>11. ASSUME NEW j \in Job, Commit(j) PROVE SuccessIsWhole'
  BY <1>11 DEF Commit, Go, incus, rows, outside, TypeOK, SuccessIsWhole, Ended, Rollback,
     InFlight, Partial
<1>12. ASSUME NEW j \in Job, ReadLeft(j) PROVE SuccessIsWhole'
  BY <1>12 DEF ReadLeft, Request, incus, rows, memory, outside, Go, Raise, Throws, TypeOK,
     SuccessIsWhole, Ended, Rollback, InFlight, Partial, Awaited
<1>13. ASSUME NEW j \in Job, StopLeft(j) PROVE SuccessIsWhole'
  BY <1>13 DEF StopLeft, setSource, rows, memory, outside, Go, Raise, Throws, incus, TypeOK,
     SuccessIsWhole, Ended, Rollback, InFlight, Partial, Awaited, GoesOn
<1>14. ASSUME NEW j \in Job, DeleteSource(j) PROVE SuccessIsWhole'
  BY <1>14 DEF DeleteSource, rows, memory, outside, Go, Raise, Throws, incus, TypeOK,
     SuccessIsWhole, Ended, Rollback, InFlight, Partial, Awaited, GoesOn, RemoveSource
<1>15. ASSUME NEW j \in Job, CarryOwner(j) PROVE SuccessIsWhole'
  BY <1>15 DEF CarryOwner, Go, Raise, incus, memory, outside, TypeOK, SuccessIsWhole, Ended,
     Rollback, InFlight, Partial
<1>16. ASSUME NEW j \in Job, PutLease(j) PROVE SuccessIsWhole'
  BY <1>16 DEF PutLease, Go, Raise, incus, memory, outside, TypeOK, SuccessIsWhole, Ended,
     Rollback, InFlight, Partial
<1>17. ASSUME NEW j \in Job, BeginRollback(j) PROVE SuccessIsWhole'
  BY <1>17 DEF BeginRollback, Go, incus, rows, memory, outside, TypeOK, SuccessIsWhole,
     Ended, Rollback, InFlight, Partial
<1>18. ASSUME NEW j \in Job, ReadCopy(j) PROVE SuccessIsWhole'
  BY <1>18 DEF ReadCopy, Go, AfterRead, incus, rows, memory, outside, TypeOK,
     SuccessIsWhole, Ended, Rollback, InFlight, Partial
<1>19. ASSUME NEW j \in Job, StopCopy(j) PROVE SuccessIsWhole'
  BY <1>19 DEF StopCopy, Swallowed, setCopy, rows, memory, outside, Go, Throws, incus,
     SuccessIsWhole, Ended, Rollback, InFlight, Partial, GoesOn
<1>20. ASSUME NEW j \in Job, DeleteCopy(j) PROVE SuccessIsWhole'
  BY <1>20 DEF DeleteCopy, Swallowed, rows, memory, outside, Go, Throws, incus, OneAtATime,
     SuccessIsWhole, Ended, Rollback, InFlight, Partial, GoesOn, RemoveCopy
<1>21. ASSUME NEW j \in Job, RestartSource(j) PROVE SuccessIsWhole'
  BY <1>21 DEF RestartSource, Go, Swallowed, setSource, incus, rows, memory, outside,
     Throws, TypeOK, SuccessIsWhole, Ended, Rollback, InFlight, Partial, GoesOn
<1>22. ASSUME NEW j \in Job, TargetSucceeds(j) PROVE SuccessIsWhole'
  BY <1>22 DEF TargetSucceeds, setOp, rows, memory, outside, TypeOK, MakingIsPartial,
     SuccessIsWhole, Ended, Rollback, InFlight, Partial
<1>23. ASSUME NEW j \in Job, TargetFails(j) PROVE SuccessIsWhole'
  BY <1>23 DEF TargetFails, Revert, rows, memory, outside, setOp, MakingIsPartial,
     SuccessIsWhole, Ended, Rollback, InFlight, Partial
<1>24. ASSUME NEW j \in Job, Cancel(j) PROVE SuccessIsWhole'
  BY <1>24 DEF Cancel, incus, rows, memory, SuccessIsWhole, Ended, Rollback, InFlight,
     Partial
<1>25. ASSUME NEW j \in Job, Crash(j) PROVE SuccessIsWhole'
  BY <1>25 DEF Crash, Go, incus, rows, memory, outside, SuccessIsWhole, Ended, Rollback,
     InFlight, Partial
<1>26. CASE Write
  BY <1>26 DEF Write, rows, memory, outside, SuccessIsWhole, Ended, Rollback, InFlight,
     Partial
<1>27. CASE UserStarts
  BY <1>27 DEF UserStarts, setSource, rows, memory, SuccessIsWhole, Ended, Rollback,
     InFlight, Partial
<1>28. CASE UserCreates
  BY <1>28 DEF UserCreates, rows, memory, outside, SuccessIsWhole, Ended, Rollback,
     InFlight, Partial
<1>29. CASE ForgetOwner
  BY <1>29 DEF ForgetOwner, incus, memory, outside, SuccessIsWhole, Ended, Rollback,
     InFlight, Partial
<1>30. CASE ForgetLease
  BY <1>30 DEF ForgetLease, incus, memory, outside, SuccessIsWhole, Ended, Rollback,
     InFlight, Partial
<1>31. CASE Backfill
  BY <1>31 DEF Backfill, incus, memory, outside, SuccessIsWhole, Ended, Rollback, InFlight,
     Partial
<1>32. CASE GrantLease
  BY <1>32 DEF GrantLease, incus, memory, outside, SuccessIsWhole, Ended, Rollback,
     InFlight, Partial
<1>33. CASE UNCHANGED vars
  BY <1>33 DEF vars, incus, rows, memory, outside, SuccessIsWhole, Ended, Rollback,
     InFlight, Partial
<1>34. ASSUME NEW c \in {"src", "dst"}, OperationEnds(c) PROVE SuccessIsWhole'
  BY <1>34 DEF OperationEnds, RemoveSource, RemoveCopy, rows, memory, outside, TypeOK,
     OneAtATime, MakingIsPartial, PastTransfer, SuccessIsWhole, Ended, Rollback, InFlight,
     Partial, PendingIsGivenUp
<1> QED
  BY <1>1, <1>2, <1>3, <1>4, <1>5, <1>6, <1>7, <1>8, <1>9, <1>10, <1>11, <1>12, <1>13,
     <1>14, <1>15, <1>16, <1>17, <1>18, <1>19, <1>20, <1>21, <1>22, <1>23, <1>24, <1>25,
     <1>26, <1>27, <1>28, <1>29, <1>30, <1>31, <1>32, <1>33, <1>34 DEF Next, Handler,
     Target, Elsewhere

(* The delete finds a whole copy, and nothing that follows touches it. *)
LEMMA NextGone == IInv /\ [Next]_vars => GoneForGood'
<1> SUFFICES ASSUME IInv, [Next]_vars PROVE GoneForGood'
  OBVIOUS
<1> USE MigrationAssumption
<1>1. ASSUME NEW j \in Job, Check(j) PROVE GoneForGood'
  BY <1>1 DEF Check, Go, preflight, Begin, incus, rows, outside, FirstOf, IInv, GoneForGood,
     Ended, Rollback, Verified, InFlight, Partial
<1>2. ASSUME NEW j \in Job, StopSource(j) PROVE GoneForGood'
  BY <1>2 DEF StopSource, setSource, FirstOf, rows, outside, Go, Raise, Throws, incus, IInv,
     GoneForGood, Ended, Rollback, Verified, InFlight, Partial, Awaited, GoesOn, TypeOK,
     PendingFits, canSet, canDelete, statusOf, PendingIsGivenUp, MakingIsPartial
<1>3. ASSUME NEW j \in Job, StartTarget(j) PROVE GoneForGood'
  BY <1>3 DEF StartTarget, Request, Create, rows, memory, outside, setOp, Go, Raise, Throws,
     incus, IInv, GoneForGood, Ended, Rollback, Verified, InFlight, Partial, Awaited
<1>4. ASSUME NEW j \in Job, StartSource(j) PROVE GoneForGood'
  BY <1>4 DEF StartSource, Go, Throws, SourceFails, Link, incus, rows, memory, outside,
     IInv, GoneForGood, Ended, Rollback, Verified, InFlight, Partial
<1>5. ASSUME NEW j \in Job, Connect(j) PROVE GoneForGood'
  BY <1>5 DEF Connect, Go, Link, incus, rows, memory, outside, IInv, GoneForGood, Ended,
     Rollback, Verified, InFlight, Partial
<1>6. ASSUME NEW j \in Job, WaitTarget(j) PROVE GoneForGood'
  BY <1>6 DEF WaitTarget, Go, incus, rows, memory, outside, IInv, GoneForGood, Ended,
     Rollback, Verified, InFlight, Partial
<1>7. ASSUME NEW j \in Job, SourceLost(j) PROVE GoneForGood'
  BY <1>7 DEF SourceLost, SourceFails, incus, rows, memory, outside, Go, IInv, GoneForGood,
     Ended, Rollback, Verified, InFlight, Partial
<1>8. ASSUME NEW j \in Job, CancelTarget(j) PROVE GoneForGood'
  BY <1>8 DEF CancelTarget, Swallowed, Revert, rows, memory, outside, setOp, Go, Throws,
     incus, IInv, GoneForGood, Ended, Rollback, Verified, InFlight, Partial, TypeOK,
     PendingFits, canSet, canDelete, statusOf, PendingIsGivenUp, MakingIsPartial
<1>9. ASSUME NEW j \in Job, Verify(j) PROVE GoneForGood'
  BY <1>9 DEF Verify, Request, AfterVerify, incus, rows, memory, outside, Go, Raise, Throws,
     IInv, GoneForGood, Ended, Rollback, Verified, InFlight, Partial, Awaited
<1>10. ASSUME NEW j \in Job, StartCopy(j) PROVE GoneForGood'
  BY <1>10 DEF StartCopy, setCopy, rows, memory, outside, Go, Raise, Throws, incus, IInv,
     GoneForGood, Ended, Rollback, Verified, InFlight, Partial, Awaited, GoesOn, TypeOK,
     PendingFits, canSet, canDelete, statusOf, PendingIsGivenUp, MakingIsPartial
<1>11. ASSUME NEW j \in Job, Commit(j) PROVE GoneForGood'
  BY <1>11 DEF Commit, Go, incus, rows, outside, IInv, GoneForGood, Ended, Rollback,
     Verified, InFlight, Partial
<1>12. ASSUME NEW j \in Job, ReadLeft(j) PROVE GoneForGood'
  BY <1>12 DEF ReadLeft, Request, incus, rows, memory, outside, Go, Raise, Throws, IInv,
     GoneForGood, Ended, Rollback, Verified, InFlight, Partial, Awaited
<1>13. ASSUME NEW j \in Job, StopLeft(j) PROVE GoneForGood'
  BY <1>13 DEF StopLeft, setSource, rows, memory, outside, Go, Raise, Throws, incus, IInv,
     GoneForGood, Ended, Rollback, Verified, InFlight, Partial, Awaited, GoesOn, TypeOK,
     PendingFits, canSet, canDelete, statusOf, PendingIsGivenUp, MakingIsPartial
<1>14. ASSUME NEW j \in Job, DeleteSource(j) PROVE GoneForGood'
  <2>1. pc[j] = "delete" /\ kind[j] # "copy"
    BY <1>14 DEF DeleteSource, IInv, PastTransfer, Verified, Commitment
  <2>2. maker = j /\ copied # Partial
    BY <2>1 DEF IInv, PastTransfer, SuccessIsWhole, Verified, Commitment, Ended, Rollback
  <2>3. pending["dst"] # "absent" /\ \A k \in Job : k # j => pc[k] \in Ended
    BY <2>1 DEF IInv, PendingIsGivenUp, OneAtATime, Ended
  <2>4. UNCHANGED <<maker, copied>> /\ pending'["dst"] = pending["dst"]
    BY <1>14, Outcomes, GoesOnNotes DEF RemoveSource, incus, IInv
  <2>5. /\ pc'[j] \in {"carryOwner", "failed"} /\ kind' = kind
        /\ \A k \in Job : k # j => pc'[k] = pc[k]
    BY <1>14, <2>1 DEF DeleteSource, Awaited, Raise, Go, committed, Commitment, memory, IInv,
       TypeOK
  <2> QED
    BY <2>1, <2>2, <2>3, <2>4, <2>5 DEF GoneForGood, Ended
<1>15. ASSUME NEW j \in Job, CarryOwner(j) PROVE GoneForGood'
  BY <1>15 DEF CarryOwner, Go, Raise, incus, memory, outside, committed, IInv, TypeOK,
     GoneForGood, Ended, Rollback, Commitment, Verified, InFlight, Partial
<1>16. ASSUME NEW j \in Job, PutLease(j) PROVE GoneForGood'
  BY <1>16 DEF PutLease, Go, Raise, incus, memory, outside, committed, IInv, TypeOK,
     GoneForGood, Ended, Rollback, Commitment, Verified, InFlight, Partial
<1>17. ASSUME NEW j \in Job, BeginRollback(j) PROVE GoneForGood'
  BY <1>17 DEF BeginRollback, Go, incus, rows, memory, outside, IInv, GoneForGood, Ended,
     Rollback, Verified, InFlight, Partial
<1>18. ASSUME NEW j \in Job, ReadCopy(j) PROVE GoneForGood'
  BY <1>18 DEF ReadCopy, Go, AfterRead, incus, rows, memory, outside, IInv, GoneForGood,
     Ended, Rollback, Verified, InFlight, Partial
<1>19. ASSUME NEW j \in Job, StopCopy(j) PROVE GoneForGood'
  BY <1>19 DEF StopCopy, Swallowed, setCopy, rows, memory, outside, Go, Throws, incus, IInv,
     GoneForGood, Ended, Rollback, Verified, InFlight, Partial, GoesOn, TypeOK, PendingFits,
     canSet, canDelete, statusOf, PendingIsGivenUp, MakingIsPartial
<1>20. ASSUME NEW j \in Job, DeleteCopy(j) PROVE GoneForGood'
  BY <1>20 DEF DeleteCopy, Swallowed, rows, memory, outside, Go, Throws, incus, IInv,
     GoneForGood, Ended, Rollback, Verified, InFlight, Partial, GoesOn, RemoveCopy, TypeOK,
     PendingFits, canSet, canDelete, statusOf, PendingIsGivenUp, MakingIsPartial
<1>21. ASSUME NEW j \in Job, RestartSource(j) PROVE GoneForGood'
  BY <1>21 DEF RestartSource, Go, Swallowed, setSource, incus, rows, memory, outside,
     Throws, IInv, GoneForGood, Ended, Rollback, Verified, InFlight, Partial, GoesOn,
     TypeOK, PendingFits, canSet, canDelete, statusOf, PendingIsGivenUp, MakingIsPartial
<1>22. ASSUME NEW j \in Job, TargetSucceeds(j) PROVE GoneForGood'
  BY <1>22 DEF TargetSucceeds, setOp, rows, memory, outside, IInv, GoneForGood, Ended,
     Rollback, Verified, InFlight, Partial, TypeOK, PendingFits, canSet, canDelete,
     statusOf, PendingIsGivenUp, MakingIsPartial
<1>23. ASSUME NEW j \in Job, TargetFails(j) PROVE GoneForGood'
  BY <1>23 DEF TargetFails, Revert, rows, memory, outside, setOp, IInv, MakingIsPartial,
     GoneForGood, Ended, Rollback, Verified, InFlight, Partial
<1>24. ASSUME NEW j \in Job, Cancel(j) PROVE GoneForGood'
  BY <1>24 DEF Cancel, incus, rows, memory, IInv, GoneForGood, Ended, Rollback, Verified,
     InFlight, Partial
<1>25. ASSUME NEW j \in Job, Crash(j) PROVE GoneForGood'
  BY <1>25 DEF Crash, Go, incus, rows, memory, outside, IInv, GoneForGood, Ended, Rollback,
     Verified, InFlight, Partial
<1>26. CASE Write
  BY <1>26 DEF Write, rows, memory, outside, IInv, GoneForGood, Ended, Rollback, Verified,
     InFlight, Partial
<1>27. CASE UserStarts
  BY <1>27 DEF UserStarts, setSource, rows, memory, IInv, GoneForGood, Ended, Rollback,
     Verified, InFlight, Partial
<1>28. CASE UserCreates
  BY <1>28 DEF UserCreates, rows, memory, outside, IInv, GoneForGood, Ended, Rollback,
     Verified, InFlight, Partial
<1>29. CASE ForgetOwner
  BY <1>29 DEF ForgetOwner, incus, memory, outside, IInv, GoneForGood, Ended, Rollback,
     Verified, InFlight, Partial
<1>30. CASE ForgetLease
  BY <1>30 DEF ForgetLease, incus, memory, outside, IInv, GoneForGood, Ended, Rollback,
     Verified, InFlight, Partial
<1>31. CASE Backfill
  BY <1>31 DEF Backfill, incus, memory, outside, IInv, GoneForGood, Ended, Rollback,
     Verified, InFlight, Partial
<1>32. CASE GrantLease
  BY <1>32 DEF GrantLease, incus, memory, outside, IInv, GoneForGood, Ended, Rollback,
     Verified, InFlight, Partial
<1>33. CASE UNCHANGED vars
  BY <1>33 DEF vars, incus, rows, memory, outside, IInv, GoneForGood, Ended, Rollback,
     Verified, InFlight, Partial
<1>34. ASSUME NEW c \in {"src", "dst"}, OperationEnds(c) PROVE GoneForGood'
  BY <1>34 DEF OperationEnds, RemoveSource, RemoveCopy, rows, memory, outside, IInv, Ended,
     Rollback, InFlight, Partial, GoneForGood, TypeOK, PendingFits, PendingIsGivenUp
<1> QED
  BY <1>1, <1>2, <1>3, <1>4, <1>5, <1>6, <1>7, <1>8, <1>9, <1>10, <1>11, <1>12, <1>13,
     <1>14, <1>15, <1>16, <1>17, <1>18, <1>19, <1>20, <1>21, <1>22, <1>23, <1>24, <1>25,
     <1>26, <1>27, <1>28, <1>29, <1>30, <1>31, <1>32, <1>33, <1>34 DEF Next, Handler,
     Target, Elsewhere

(* A failed request is put on record, and nothing is taken off it. *)
LEMMA FailsAdds ==
  ASSUME NEW j \in Job, NEW how, Fails(j, how)
  PROVE  faults' = faults \cup {<<j, pc[j], how>>} /\ <<j, pc[j], how>> \notin faults
BY DEF Fails

(* No step takes a failure off the record. *)
LEMMA FaultsGrow == [Next]_vars => faults \subseteq faults'
<1> SUFFICES ASSUME [Next]_vars PROVE faults \subseteq faults'
  OBVIOUS
<1>1. ASSUME NEW j \in Job, StopSource(j) \/ StartTarget(j) \/ Verify(j) \/ StartCopy(j)
      PROVE  faults \subseteq faults'
  BY <1>1, FailsAdds DEF StopSource, StartTarget, Verify, StartCopy, Request, Throws,
     Awaited, GoesOn
<1>2. ASSUME NEW j \in Job, ReadLeft(j) \/ StopLeft(j) \/ DeleteSource(j)
      PROVE  faults \subseteq faults'
  BY <1>2, FailsAdds DEF ReadLeft, StopLeft, DeleteSource, Request, Throws, Awaited, GoesOn,
     RemoveSource
<1>3. ASSUME NEW j \in Job, CancelTarget(j) \/ StopCopy(j) \/ DeleteCopy(j) \/ RestartSource(j)
      PROVE  faults \subseteq faults'
  BY <1>3, FailsAdds DEF CancelTarget, StopCopy, DeleteCopy, RestartSource, Swallowed,
     Throws, GoesOn, RemoveCopy
<1>4. ASSUME NEW j \in Job,
             StartSource(j) \/ Connect(j) \/ WaitTarget(j) \/ Commit(j) \/ CarryOwner(j)
             \/ PutLease(j) \/ BeginRollback(j) \/ ReadCopy(j)
      PROVE  faults \subseteq faults'
  BY <1>4, FailsAdds DEF StartSource, Connect, WaitTarget, Commit, CarryOwner, PutLease,
     BeginRollback, ReadCopy, Throws
<1>5. ASSUME NEW j \in Job, Check(j) \/ SourceLost(j) \/ Target(j) \/ Cancel(j) \/ Crash(j)
      PROVE  faults \subseteq faults'
  BY <1>5 DEF Check, SourceLost, Target, TargetSucceeds, TargetFails, Cancel, Crash
<1>6. CASE Elsewhere
  BY <1>6 DEF Elsewhere, OperationEnds, Write, UserStarts, UserCreates, ForgetOwner, ForgetLease, Backfill,
     GrantLease
<1>7. CASE UNCHANGED vars
  BY <1>7 DEF vars
<1>8. QED
  BY <1>1, <1>2, <1>3, <1>4, <1>5, <1>6, <1>7 DEF Next, Handler

(* What failed stays failed. *)
LEMMA FaultsStay ==
  ASSUME [Next]_vars, NEW j \in Job
  PROVE  /\ MayRevertLate(j) => MayRevertLate(j)'
         /\ Failed(j, Rollback) => Failed(j, Rollback)'
         /\ Failed(j, {"rbRead", "rbStop"}) => Failed(j, {"rbRead", "rbStop"})'
         /\ Failed(j, {"rbStop"}) => Failed(j, {"rbStop"})'
         /\ GivenUp(j, {"startCopy"}) => GivenUp(j, {"startCopy"})'
BY FaultsGrow DEF MayRevertLate, Failed, GivenUp

LEMMA GivenUpStays ==
  ASSUME [Next]_vars
  PROVE  (RestartGivenUp => RestartGivenUp') /\ (StopGivenUp => StopGivenUp')
BY FaultsGrow DEF RestartGivenUp, StopGivenUp, GivenUp

(* A request that fails now is on record. *)
LEMMA FailsCounts ==
  ASSUME NEW j \in Job, NEW how, Fails(j, how)
  PROVE  /\ pc[j] \in {"cancel", "cancelRelay"} => MayRevertLate(j)'
         /\ pc[j] = "startTarget" /\ how = "unanswered" => MayRevertLate(j)'
         /\ pc[j] \in Rollback => Failed(j, Rollback)'
         /\ pc[j] \in {"rbRead", "rbStop"} => Failed(j, {"rbRead", "rbStop"})'
         /\ pc[j] = "rbStop" => Failed(j, {"rbStop"})'
<1>1. <<j, pc[j], how>> \in faults'
  BY FailsAdds
<1>2. QED
  BY <1>1 DEF MayRevertLate, Failed

LEMMA UnansweredCounts ==
  ASSUME NEW j \in Job, Fails(j, "unanswered")
  PROVE  /\ pc[j] = "startCopy" => GivenUp(j, {"startCopy"})'
         /\ pc[j] = "rbStart" => RestartGivenUp'
         /\ pc[j] \in {"stop", "stopLeft"} => StopGivenUp'
<1>1. <<j, pc[j], "unanswered">> \in faults'
  BY FailsAdds
<1>2. QED
  BY <1>1 DEF GivenUp, RestartGivenUp, StopGivenUp

(* A job starts on a free name, and only it or a user takes the name while it runs. *)
LEMMA NextOwns == TypeOK /\ OneAtATime /\ MakingIsPartial /\ RunningOwnsName /\ [Next]_vars => RunningOwnsName'
<1> SUFFICES ASSUME TypeOK, OneAtATime, MakingIsPartial, RunningOwnsName, [Next]_vars PROVE RunningOwnsName'
  OBVIOUS
<1>1. ASSUME NEW j \in Job, Check(j) PROVE RunningOwnsName'
  BY <1>1, FaultsStay DEF RunningOwnsName, Ended, Check, preflight, Go, Begin, incus, rows,
     outside, FirstOf
<1>2. ASSUME NEW j \in Job, StopSource(j) PROVE RunningOwnsName'
  BY <1>2, FaultsStay DEF RunningOwnsName, Ended, StopSource, setSource, FirstOf, rows,
     outside, Go, Throws, Raise, incus, TypeOK, Awaited, GoesOn
<1>3. ASSUME NEW j \in Job, StartTarget(j) PROVE RunningOwnsName'
  BY <1>3, FaultsStay DEF RunningOwnsName, Ended, StartTarget, Request, Create, rows,
     memory, outside, Go, Throws, Raise, Partial, setOp, incus, OneAtATime, TypeOK, Awaited
<1>4. ASSUME NEW j \in Job, StartSource(j) PROVE RunningOwnsName'
  BY <1>4, FaultsStay DEF RunningOwnsName, Ended, StartSource, Link, Go, incus, Throws,
     SourceFails, rows, memory, outside, TypeOK
<1>5. ASSUME NEW j \in Job, Connect(j) PROVE RunningOwnsName'
  BY <1>5, FaultsStay DEF RunningOwnsName, Ended, Connect, Link, Go, incus, rows, memory,
     outside, TypeOK
<1>6. ASSUME NEW j \in Job, WaitTarget(j) PROVE RunningOwnsName'
  BY <1>6, FaultsStay DEF RunningOwnsName, Ended, WaitTarget, Go, incus, rows, memory,
     outside, TypeOK
<1>7. ASSUME NEW j \in Job, SourceLost(j) PROVE RunningOwnsName'
  BY <1>7, FaultsStay DEF RunningOwnsName, Ended, SourceLost, SourceFails, incus, rows,
     memory, outside, Go, TypeOK
<1>8. ASSUME NEW j \in Job, CancelTarget(j) PROVE RunningOwnsName'
  BY <1>8, FaultsStay DEF RunningOwnsName, Ended, CancelTarget, Swallowed, InFlight, Revert,
     rows, memory, outside, Throws, Go, Partial, setOp, incus, TypeOK
<1>9. ASSUME NEW j \in Job, Verify(j) PROVE RunningOwnsName'
  BY <1>9, FaultsStay DEF RunningOwnsName, Ended, Verify, Request, incus, AfterVerify, rows,
     memory, outside, Go, Throws, Raise, TypeOK, Awaited
<1>10. ASSUME NEW j \in Job, StartCopy(j) PROVE RunningOwnsName'
  BY <1>10, FaultsStay DEF RunningOwnsName, Ended, StartCopy, setCopy, rows, memory,
     outside, Go, Throws, Raise, incus, TypeOK, Awaited, GoesOn
<1>11. ASSUME NEW j \in Job, Commit(j) PROVE RunningOwnsName'
  BY <1>11, FaultsStay DEF RunningOwnsName, Ended, Commit, Go, incus, rows, outside, TypeOK
<1>12. ASSUME NEW j \in Job, ReadLeft(j) PROVE RunningOwnsName'
  BY <1>12, FaultsStay DEF RunningOwnsName, Ended, ReadLeft, Request, incus, rows, memory,
     outside, Go, Throws, Raise, TypeOK, Awaited
<1>13. ASSUME NEW j \in Job, StopLeft(j) PROVE RunningOwnsName'
  BY <1>13, FaultsStay DEF RunningOwnsName, Ended, StopLeft, setSource, rows, memory,
     outside, Go, Throws, Raise, incus, TypeOK, Awaited, GoesOn
<1>14. ASSUME NEW j \in Job, DeleteSource(j) PROVE RunningOwnsName'
  BY <1>14, FaultsStay DEF RunningOwnsName, Ended, DeleteSource, rows, memory, outside, Go,
     Throws, Raise, incus, TypeOK, Awaited, GoesOn, RemoveSource
<1>15. ASSUME NEW j \in Job, CarryOwner(j) PROVE RunningOwnsName'
  BY <1>15, FaultsStay DEF RunningOwnsName, Ended, CarryOwner, Go, Raise, incus, memory,
     outside, TypeOK
<1>16. ASSUME NEW j \in Job, PutLease(j) PROVE RunningOwnsName'
  BY <1>16, FaultsStay DEF RunningOwnsName, Ended, PutLease, Go, Raise, incus, memory,
     outside, TypeOK
<1>17. ASSUME NEW j \in Job, BeginRollback(j) PROVE RunningOwnsName'
  BY <1>17, FaultsStay DEF RunningOwnsName, Ended, BeginRollback, Go, incus, rows, memory,
     outside, TypeOK
<1>18. ASSUME NEW j \in Job, ReadCopy(j) PROVE RunningOwnsName'
  BY <1>18, FaultsStay DEF RunningOwnsName, Ended, ReadCopy, Go, AfterRead, incus, rows,
     memory, outside, TypeOK
<1>19. ASSUME NEW j \in Job, StopCopy(j) PROVE RunningOwnsName'
  BY <1>19, FaultsStay DEF RunningOwnsName, Ended, StopCopy, Swallowed, setCopy, rows,
     memory, outside, Throws, Go, incus, GoesOn
<1>20. ASSUME NEW j \in Job, DeleteCopy(j) PROVE RunningOwnsName'
  BY <1>20, FaultsStay DEF RunningOwnsName, Ended, DeleteCopy, Swallowed, Partial, InFlight,
     rows, memory, outside, Throws, Go, incus, GoesOn, RemoveCopy
<1>21. ASSUME NEW j \in Job, RestartSource(j) PROVE RunningOwnsName'
  BY <1>21, FaultsStay DEF RunningOwnsName, Ended, RestartSource, Go, incus, Swallowed,
     setSource, rows, memory, outside, Throws, TypeOK, GoesOn
<1>22. ASSUME NEW j \in Job, TargetSucceeds(j) PROVE RunningOwnsName'
  BY <1>22, FaultsStay DEF RunningOwnsName, Ended, TargetSucceeds, setOp, rows, memory,
     outside
<1>23. ASSUME NEW j \in Job, TargetFails(j) PROVE RunningOwnsName'
  BY <1>23, FaultsStay DEF RunningOwnsName, Ended, TargetFails, InFlight, Revert, rows,
     memory, outside, Partial, setOp
<1>24. ASSUME NEW j \in Job, Crash(j) PROVE RunningOwnsName'
  BY <1>24, FaultsStay DEF RunningOwnsName, Ended, Crash, Go, incus, rows, memory, outside
<1>25. ASSUME UserCreates PROVE RunningOwnsName'
  BY <1>25, FaultsStay DEF RunningOwnsName, Ended, UserCreates, Partial, rows, memory,
     outside
<1>26. CASE UNCHANGED <<maker, copy, pc>>
  BY <1>26 DEF RunningOwnsName, Ended
<1>28. ASSUME NEW c \in {"src", "dst"}, OperationEnds(c) PROVE RunningOwnsName'
  BY <1>28, FaultsStay DEF OperationEnds, RemoveSource, RemoveCopy, rows, memory, outside,
     TypeOK, OneAtATime, MakingIsPartial, RunningOwnsName, Ended, Rollback, InFlight,
     Partial
<1> QED
  BY <1>1, <1>2, <1>3, <1>4, <1>5, <1>6, <1>7, <1>8, <1>9, <1>10, <1>11, <1>12, <1>13,
     <1>14, <1>15, <1>16, <1>17, <1>18, <1>19, <1>20, <1>21, <1>22, <1>23, <1>24, <1>25,
     <1>26, <1>28 DEF Next, Handler, Target, Elsewhere, vars, incus, rows, memory, outside,
     Cancel, Write, UserStarts, ForgetOwner, ForgetLease, Backfill, GrantLease, setSource

(* An operation is left in flight only by a request that failed. *)
LEMMA NextLate == TypeOK /\ OneAtATime /\ MakingIsPartial /\ PastTransfer /\ LateIsFailed /\ [Next]_vars => LateIsFailed'
<1> SUFFICES ASSUME TypeOK, OneAtATime, MakingIsPartial, PastTransfer, LateIsFailed, [Next]_vars PROVE LateIsFailed'
  OBVIOUS
<1>1. ASSUME NEW j \in Job, Check(j) PROVE LateIsFailed'
  BY <1>1, FaultsStay DEF LateIsFailed, InFlight, Rollback, Check, Ended, preflight, Go,
     Begin, incus, rows, outside, FirstOf, PastTransfer
<1>2. ASSUME NEW j \in Job, StopSource(j) PROVE LateIsFailed'
  BY <1>2, FaultsStay DEF LateIsFailed, InFlight, Rollback, StopSource, setSource, FirstOf,
     rows, outside, Go, Throws, Raise, incus, PastTransfer, TypeOK, Awaited, GoesOn
<1>3. ASSUME NEW j \in Job, StartTarget(j) PROVE LateIsFailed'
  BY <1>3, FaultsStay, FailsCounts, MigrationAssumption DEF LateIsFailed, StartTarget,
     Request, Create, rows, memory, outside, Go, Throws, Raise, Partial, setOp, incus,
     TypeOK, Ended, Rollback, Verified, InFlight, Awaited
<1>4. ASSUME NEW j \in Job, StartSource(j) PROVE LateIsFailed'
  BY <1>4, FaultsStay DEF LateIsFailed, InFlight, Rollback, StartSource, Link, Go, incus,
     Throws, SourceFails, rows, memory, outside, TypeOK
<1>5. ASSUME NEW j \in Job, Connect(j) PROVE LateIsFailed'
  BY <1>5, FaultsStay DEF LateIsFailed, InFlight, Rollback, Connect, Link, Go, incus, rows,
     memory, outside, TypeOK
<1>6. ASSUME NEW j \in Job, WaitTarget(j) PROVE LateIsFailed'
  BY <1>6, FaultsStay DEF LateIsFailed, InFlight, Rollback, WaitTarget, Go, incus, rows,
     memory, outside, TypeOK
<1>7. ASSUME NEW j \in Job, SourceLost(j) PROVE LateIsFailed'
  BY <1>7, FaultsStay DEF LateIsFailed, InFlight, Rollback, SourceLost, SourceFails, incus,
     rows, memory, outside, Go, TypeOK
<1>8. ASSUME NEW j \in Job, CancelTarget(j) PROVE LateIsFailed'
  BY <1>8, FaultsStay, FailsCounts, MigrationAssumption DEF LateIsFailed, CancelTarget,
     Swallowed, InFlight, Revert, rows, memory, outside, Throws, Go, Partial, setOp, incus,
     TypeOK, Ended, Rollback, Verified
<1>9. ASSUME NEW j \in Job, Verify(j) PROVE LateIsFailed'
  BY <1>9, FaultsStay, FailsCounts, MigrationAssumption DEF LateIsFailed, Verify, Request,
     incus, AfterVerify, rows, memory, outside, Go, Throws, Raise, PastTransfer, TypeOK,
     Ended, Rollback, Verified, InFlight, Awaited
<1>10. ASSUME NEW j \in Job, StartCopy(j) PROVE LateIsFailed'
  BY <1>10, FaultsStay, FailsCounts, MigrationAssumption DEF LateIsFailed, StartCopy,
     setCopy, rows, memory, outside, Go, Throws, Raise, incus, PastTransfer, TypeOK, Ended,
     Rollback, Verified, InFlight, Awaited, GoesOn
<1>11. ASSUME NEW j \in Job, Commit(j) PROVE LateIsFailed'
  BY <1>11, FaultsStay, FailsCounts, MigrationAssumption DEF LateIsFailed, Commit, Go,
     incus, rows, outside, PastTransfer, TypeOK, Ended, Rollback, Verified, InFlight
<1>12. ASSUME NEW j \in Job, ReadLeft(j) PROVE LateIsFailed'
  BY <1>12, FaultsStay, FailsCounts, MigrationAssumption DEF LateIsFailed, ReadLeft,
     Request, incus, rows, memory, outside, Go, Throws, Raise, Commitment, PastTransfer,
     TypeOK, Ended, Rollback, Verified, InFlight, Awaited
<1>13. ASSUME NEW j \in Job, StopLeft(j) PROVE LateIsFailed'
  BY <1>13, FaultsStay, FailsCounts, MigrationAssumption DEF LateIsFailed, StopLeft,
     setSource, rows, memory, outside, Go, Throws, Raise, incus, Commitment, PastTransfer,
     TypeOK, Ended, Rollback, Verified, InFlight, Awaited, GoesOn
<1>14. ASSUME NEW j \in Job, DeleteSource(j) PROVE LateIsFailed'
  BY <1>14, FaultsStay, FailsCounts, MigrationAssumption DEF LateIsFailed, DeleteSource,
     rows, memory, outside, Go, Throws, Raise, incus, Commitment, PastTransfer, TypeOK,
     Ended, Rollback, Verified, InFlight, Awaited, GoesOn, RemoveSource
<1>15. ASSUME NEW j \in Job, CarryOwner(j) PROVE LateIsFailed'
  BY <1>15, FaultsStay, FailsCounts, MigrationAssumption DEF LateIsFailed, CarryOwner, Go,
     Raise, incus, memory, outside, Commitment, PastTransfer, TypeOK, Ended, Rollback,
     Verified, InFlight
<1>16. ASSUME NEW j \in Job, PutLease(j) PROVE LateIsFailed'
  BY <1>16, FaultsStay DEF LateIsFailed, InFlight, Rollback, PutLease, Go, Raise, incus,
     memory, outside, committed, Commitment, TypeOK
<1>17. ASSUME NEW j \in Job, BeginRollback(j) PROVE LateIsFailed'
  BY <1>17, FaultsStay DEF LateIsFailed, InFlight, Rollback, BeginRollback, Go, incus, rows,
     memory, outside, TypeOK
<1>18. ASSUME NEW j \in Job, ReadCopy(j) PROVE LateIsFailed'
  BY <1>18, FaultsStay DEF LateIsFailed, InFlight, Rollback, ReadCopy, Go, AfterRead, incus,
     rows, memory, outside, TypeOK
<1>19. ASSUME NEW j \in Job, StopCopy(j) PROVE LateIsFailed'
  BY <1>19, FaultsStay DEF LateIsFailed, InFlight, Rollback, StopCopy, Swallowed, setCopy,
     rows, memory, outside, Throws, Go, incus, GoesOn
<1>20. ASSUME NEW j \in Job, DeleteCopy(j) PROVE LateIsFailed'
  BY <1>20, FaultsStay DEF LateIsFailed, InFlight, Rollback, DeleteCopy, Swallowed, Partial,
     rows, memory, outside, Throws, Go, incus, GoesOn, RemoveCopy
<1>21. ASSUME NEW j \in Job, RestartSource(j) PROVE LateIsFailed'
  BY <1>21, FaultsStay DEF LateIsFailed, InFlight, Rollback, RestartSource, Go, incus,
     Swallowed, setSource, rows, memory, outside, Throws, TypeOK, GoesOn
<1>22. ASSUME NEW j \in Job, TargetSucceeds(j) PROVE LateIsFailed'
  BY <1>22, FaultsStay DEF LateIsFailed, InFlight, Rollback, TargetSucceeds, setOp, rows,
     memory, outside
<1>23. ASSUME NEW j \in Job, TargetFails(j) PROVE LateIsFailed'
  BY <1>23, FaultsStay DEF LateIsFailed, InFlight, Rollback, TargetFails, Revert, rows,
     memory, outside, Partial, setOp
<1>24. ASSUME NEW j \in Job, Crash(j) PROVE LateIsFailed'
  BY <1>24, FaultsStay DEF LateIsFailed, InFlight, Rollback, Crash, Ended, Go, incus, rows,
     memory, outside
<1>25. CASE UNCHANGED <<op, pc, via, faults>>
  BY <1>25, FaultsStay DEF LateIsFailed, InFlight, Rollback
<1>27. ASSUME NEW c \in {"src", "dst"}, OperationEnds(c) PROVE LateIsFailed'
  BY <1>27, FaultsStay DEF OperationEnds, RemoveSource, RemoveCopy, rows, memory, outside,
     TypeOK, OneAtATime, MakingIsPartial, PastTransfer, LateIsFailed, Ended, Rollback,
     InFlight, Partial
<1> QED
  BY <1>1, <1>2, <1>3, <1>4, <1>5, <1>6, <1>7, <1>8, <1>9, <1>10, <1>11, <1>12, <1>13,
     <1>14, <1>15, <1>16, <1>17, <1>18, <1>19, <1>20, <1>21, <1>22, <1>23, <1>24, <1>25,
     <1>27 DEF Next, Handler, Target, Elsewhere, vars, incus, rows, memory, outside, Cancel,
     Write, UserStarts, UserCreates, ForgetOwner, ForgetLease, Backfill, GrantLease,
     setSource

(* What the rollback read under its tag goes only when Incus withdraws it. *)
LEMMA NextOwn == TypeOK /\ OneAtATime /\ MakingIsPartial /\ RunningOwnsName /\ LateIsFailed /\ ReadIsOwn /\ PendingIsGivenUp /\ [Next]_vars => ReadIsOwn'
<1> SUFFICES ASSUME TypeOK, OneAtATime, MakingIsPartial, RunningOwnsName, LateIsFailed, ReadIsOwn, PendingIsGivenUp, [Next]_vars PROVE ReadIsOwn'
  OBVIOUS
<1>1. ASSUME NEW j \in Job, Check(j) PROVE ReadIsOwn'
  BY <1>1, FaultsStay DEF ReadIsOwn, Check, Ended, preflight, Go, Begin, incus, rows,
     outside, FirstOf
<1>2. ASSUME NEW j \in Job, StopSource(j) PROVE ReadIsOwn'
  BY <1>2, FaultsStay DEF ReadIsOwn, StopSource, setSource, FirstOf, rows, outside, Go,
     Throws, Raise, incus, TypeOK, Awaited, GoesOn
<1>3. ASSUME NEW j \in Job, StartTarget(j) PROVE ReadIsOwn'
  BY <1>3, FaultsStay, MigrationAssumption DEF ReadIsOwn, StartTarget, Request, Create,
     rows, memory, outside, Go, Throws, Raise, Partial, setOp, incus, TypeOK, Awaited
<1>4. ASSUME NEW j \in Job, StartSource(j) PROVE ReadIsOwn'
  BY <1>4, FaultsStay DEF ReadIsOwn, StartSource, Link, Go, incus, Throws, SourceFails,
     rows, memory, outside, TypeOK
<1>5. ASSUME NEW j \in Job, Connect(j) PROVE ReadIsOwn'
  BY <1>5, FaultsStay DEF ReadIsOwn, Connect, Link, Go, incus, rows, memory, outside, TypeOK
<1>6. ASSUME NEW j \in Job, WaitTarget(j) PROVE ReadIsOwn'
  BY <1>6, FaultsStay DEF ReadIsOwn, WaitTarget, Go, incus, rows, memory, outside, TypeOK
<1>7. ASSUME NEW j \in Job, SourceLost(j) PROVE ReadIsOwn'
  BY <1>7, FaultsStay DEF ReadIsOwn, SourceLost, SourceFails, incus, rows, memory, outside,
     Go, TypeOK
<1>8. ASSUME NEW j \in Job, CancelTarget(j) PROVE ReadIsOwn'
  BY <1>8, FaultsStay, FailsCounts, MigrationAssumption DEF ReadIsOwn, CancelTarget,
     Swallowed, InFlight, Revert, rows, memory, outside, Throws, Go, Partial, setOp, incus,
     OneAtATime, TypeOK, Ended, Rollback, Verified
<1>9. ASSUME NEW j \in Job, Verify(j) PROVE ReadIsOwn'
  BY <1>9, FaultsStay DEF ReadIsOwn, Verify, Request, incus, AfterVerify, rows, memory,
     outside, Go, Throws, Raise, TypeOK, Awaited
<1>10. ASSUME NEW j \in Job, StartCopy(j) PROVE ReadIsOwn'
  BY <1>10, FaultsStay DEF ReadIsOwn, StartCopy, setCopy, rows, memory, outside, Go, Throws,
     Raise, incus, TypeOK, Awaited, GoesOn
<1>11. ASSUME NEW j \in Job, Commit(j) PROVE ReadIsOwn'
  BY <1>11, FaultsStay DEF ReadIsOwn, Commit, Go, incus, rows, outside, TypeOK
<1>12. ASSUME NEW j \in Job, ReadLeft(j) PROVE ReadIsOwn'
  BY <1>12, FaultsStay DEF ReadIsOwn, ReadLeft, Request, incus, rows, memory, outside, Go,
     Throws, Raise, TypeOK, Awaited
<1>13. ASSUME NEW j \in Job, StopLeft(j) PROVE ReadIsOwn'
  BY <1>13, FaultsStay DEF ReadIsOwn, StopLeft, setSource, rows, memory, outside, Go,
     Throws, Raise, incus, TypeOK, Awaited, GoesOn
<1>14. ASSUME NEW j \in Job, DeleteSource(j) PROVE ReadIsOwn'
  BY <1>14, FaultsStay DEF ReadIsOwn, DeleteSource, rows, memory, outside, Go, Throws,
     Raise, incus, TypeOK, Awaited, GoesOn, RemoveSource
<1>15. ASSUME NEW j \in Job, CarryOwner(j) PROVE ReadIsOwn'
  BY <1>15, FaultsStay DEF ReadIsOwn, CarryOwner, Go, Raise, incus, memory, outside, TypeOK
<1>16. ASSUME NEW j \in Job, PutLease(j) PROVE ReadIsOwn'
  BY <1>16, FaultsStay DEF ReadIsOwn, PutLease, Go, Raise, incus, memory, outside, TypeOK
<1>17. ASSUME NEW j \in Job, BeginRollback(j) PROVE ReadIsOwn'
  BY <1>17, FaultsStay DEF ReadIsOwn, BeginRollback, Go, incus, rows, memory, outside,
     TypeOK
<1>18. ASSUME NEW j \in Job, ReadCopy(j) PROVE ReadIsOwn'
  BY <1>18, FaultsStay DEF ReadIsOwn, ReadCopy, Go, AfterRead, incus, rows, memory, outside,
     TypeOK
<1>19. ASSUME NEW j \in Job, StopCopy(j) PROVE ReadIsOwn'
  BY <1>19, FaultsStay DEF ReadIsOwn, StopCopy, Swallowed, setCopy, rows, memory, outside,
     Throws, Go, incus, GoesOn
<1>20. ASSUME NEW j \in Job, DeleteCopy(j) PROVE ReadIsOwn'
  BY <1>20, FaultsStay, FailsCounts, MigrationAssumption DEF ReadIsOwn, DeleteCopy,
     Swallowed, Partial, InFlight, rows, memory, outside, Throws, Go, incus, OneAtATime,
     TypeOK, Ended, Rollback, Verified, GoesOn, RemoveCopy
<1>21. ASSUME NEW j \in Job, RestartSource(j) PROVE ReadIsOwn'
  BY <1>21, FaultsStay DEF ReadIsOwn, RestartSource, Go, incus, Swallowed, setSource, rows,
     memory, outside, Throws, TypeOK, GoesOn
<1>22. ASSUME NEW j \in Job, TargetFails(j) PROVE ReadIsOwn'
  BY <1>22, FaultsStay, FailsCounts, MigrationAssumption DEF ReadIsOwn, TargetFails,
     InFlight, Revert, rows, memory, outside, Partial, setOp, MakingIsPartial, LateIsFailed,
     Ended, Rollback, Verified
<1>23. ASSUME NEW j \in Job, Crash(j) PROVE ReadIsOwn'
  BY <1>23, FaultsStay DEF ReadIsOwn, Crash, Ended, Go, incus, rows, memory, outside
<1>24. ASSUME UserCreates PROVE ReadIsOwn'
  BY <1>24, FaultsStay, MigrationAssumption DEF ReadIsOwn, UserCreates, Partial, rows,
     memory, outside
<1>25. CASE UNCHANGED <<maker, pc, faults>>
  BY <1>25, FaultsStay DEF ReadIsOwn
<1>27. ASSUME NEW c \in {"src", "dst"}, OperationEnds(c) PROVE ReadIsOwn'
  BY <1>27, FaultsStay DEF OperationEnds, RemoveSource, RemoveCopy, rows, memory, outside,
     TypeOK, OneAtATime, MakingIsPartial, RunningOwnsName, LateIsFailed, ReadIsOwn, Ended,
     Rollback, InFlight, Partial, PendingIsGivenUp
<1> QED
  BY <1>1, <1>2, <1>3, <1>4, <1>5, <1>6, <1>7, <1>8, <1>9, <1>10, <1>11, <1>12, <1>13,
     <1>14, <1>15, <1>16, <1>17, <1>18, <1>19, <1>20, <1>21, <1>22, <1>23, <1>24, <1>25,
     <1>27 DEF Next, Handler, Target, Elsewhere, vars, incus, rows, memory, outside,
     TargetSucceeds, Cancel, Write, UserStarts, ForgetOwner, ForgetLease, Backfill,
     GrantLease, setOp, setSource

(* Incus begins an operation on what is free and in another state, and nothing else
   touches the instance before it ends. *)
LEMMA NextFits ==
  TypeOK /\ MakingIsPartial /\ PendingFits /\ RunningOwnsName /\ StopIsNoted /\ [Next]_vars => PendingFits'
<1> SUFFICES ASSUME TypeOK, MakingIsPartial, PendingFits, RunningOwnsName, StopIsNoted, [Next]_vars
             PROVE  PendingFits'
  OBVIOUS
<1> USE MigrationAssumption
<1>1. ASSUME NEW j \in Job, StopSource(j) PROVE PendingFits'
  BY <1>1, Outcomes, GoesOnNotes DEF setSource, canSet, statusOf, incus, PendingFits,
     RunningOwnsName, TypeOK, Status
<1>2. ASSUME NEW j \in Job, StartTarget(j) PROVE PendingFits'
  BY <1>2 DEF StartTarget, Request, Create, rows, memory, outside, setOp, Go, Raise, Throws,
     incus, Awaited, PendingFits, TypeOK, MakingIsPartial, Ended, Rollback, InFlight,
     Partial
<1>3. ASSUME NEW j \in Job, CancelTarget(j) PROVE PendingFits'
  BY <1>3 DEF CancelTarget, Swallowed, Revert, rows, memory, outside, setOp, Go, Throws,
     incus, PendingFits, TypeOK, MakingIsPartial, Ended, Rollback, InFlight, Partial
<1>4. ASSUME NEW j \in Job, StartCopy(j) PROVE PendingFits'
  BY <1>4, Outcomes, GoesOnNotes DEF setCopy, canSet, statusOf, incus, PendingFits,
     RunningOwnsName, TypeOK, Status
<1>5. ASSUME NEW j \in Job, StopLeft(j) PROVE PendingFits'
  BY <1>5, Outcomes, GoesOnNotes DEF setSource, canSet, statusOf, incus, PendingFits,
     RunningOwnsName, TypeOK, Status
<1>6. ASSUME NEW j \in Job, DeleteSource(j) PROVE PendingFits'
  BY <1>6 DEF DeleteSource, rows, memory, outside, Go, Raise, Throws, incus, Awaited,
     GoesOn, RemoveSource, canDelete, statusOf, PendingFits, TypeOK, MakingIsPartial, Ended,
     Rollback, InFlight, Partial
<1>7. ASSUME NEW j \in Job, StopCopy(j) PROVE PendingFits'
  BY <1>7, Outcomes, GoesOnNotes DEF setCopy, canSet, statusOf, incus, PendingFits,
     RunningOwnsName, TypeOK, Status
<1>8. ASSUME NEW j \in Job, DeleteCopy(j) PROVE PendingFits'
  BY <1>8 DEF DeleteCopy, Swallowed, rows, memory, outside, Go, Throws, incus, GoesOn,
     RemoveCopy, canDelete, statusOf, PendingFits, TypeOK, MakingIsPartial, Ended, Rollback,
     InFlight, Partial
<1>9. ASSUME NEW j \in Job, RestartSource(j) PROVE PendingFits'
  <2>1. stoppedSource[j] => source # "left"
    BY <1>9 DEF RestartSource, StopIsNoted, Ended
  <2>2. \/ UNCHANGED <<incus, event>>
        \/ canSet("src", "running") /\ setSource("running")
        \/ canSet("src", "running") /\ GoesOn("src", "running") /\ source # "left"
    BY <1>9, <2>1 DEF RestartSource, Swallowed, Throws
  <2> QED
    BY <2>2, GoesOnNotes DEF setSource, canSet, statusOf, incus, PendingFits, TypeOK, Status
<1>10. ASSUME NEW j \in Job, TargetSucceeds(j) PROVE PendingFits'
  BY <1>10 DEF TargetSucceeds, setOp, rows, memory, outside, PendingFits, TypeOK,
     MakingIsPartial, Ended, Rollback, InFlight, Partial
<1>11. ASSUME NEW j \in Job, TargetFails(j) PROVE PendingFits'
  BY <1>11 DEF TargetFails, Revert, rows, memory, outside, setOp, PendingFits, TypeOK,
     MakingIsPartial, Ended, Rollback, InFlight, Partial
<1>12. ASSUME NEW c \in {"src", "dst"}, OperationEnds(c) PROVE PendingFits'
  BY <1>12 DEF OperationEnds, RemoveSource, RemoveCopy, rows, memory, outside, PendingFits,
     TypeOK, MakingIsPartial, Ended, Rollback, InFlight, Partial
<1>13. ASSUME UserStarts PROVE PendingFits'
  BY <1>13 DEF UserStarts, setSource, rows, memory, PendingFits, TypeOK, MakingIsPartial,
     Ended, Rollback, InFlight, Partial
<1>14. ASSUME UserCreates PROVE PendingFits'
  BY <1>14 DEF UserCreates, rows, memory, outside, PendingFits, TypeOK, MakingIsPartial,
     Ended, Rollback, InFlight, Partial
<1>15. CASE UNCHANGED <<pending, source, copy, maker>>
  BY <1>15 DEF PendingFits
<1> QED
  BY <1>1, <1>2, <1>3, <1>4, <1>5, <1>6, <1>7, <1>8, <1>9, <1>10, <1>11, <1>12, <1>13,
     <1>14, <1>15 DEF Next, Handler, Target, Elsewhere, vars, incus, rows, memory, outside,
     StartSource, Go, Throws, SourceFails, Link, Connect, WaitTarget, SourceLost, Verify,
     Request, AfterVerify, Raise, Awaited, Commit, ReadLeft, CarryOwner, PutLease,
     BeginRollback, ReadCopy, AfterRead, Cancel, Crash, Write, ForgetOwner, ForgetLease,
     Backfill, GrantLease, Check, preflight

(* An operation goes on only after an unanswered request, which is on record. *)
LEMMA NextGivenUp ==
  TypeOK /\ OneAtATime /\ PastTransfer /\ SuccessIsWhole /\ RunningOwnsName /\ PendingFits
  /\ PendingIsGivenUp /\ [Next]_vars => PendingIsGivenUp'
<1> SUFFICES ASSUME TypeOK, OneAtATime, PastTransfer, SuccessIsWhole, RunningOwnsName,
                    PendingFits, PendingIsGivenUp, [Next]_vars
             PROVE  PendingIsGivenUp'
  OBVIOUS
<1> USE MigrationAssumption
<1>1. ASSUME NEW j \in Job, Check(j) PROVE PendingIsGivenUp'
  BY <1>1, FaultsStay, GivenUpStays DEF Check, Go, preflight, Begin, FirstOf, incus, rows,
     outside, PendingIsGivenUp, TypeOK, OneAtATime, PastTransfer, SuccessIsWhole,
     RunningOwnsName, PendingFits, Ended, Rollback, InFlight, Partial
<1>2. ASSUME NEW j \in Job, StopSource(j) PROVE PendingIsGivenUp'
  BY <1>2, FaultsStay, GivenUpStays, FailsCounts, UnansweredCounts DEF StopSource,
     setSource, FirstOf, rows, outside, Go, Raise, Throws, incus, Awaited, GoesOn, canSet,
     statusOf, PendingIsGivenUp, TypeOK, OneAtATime, PastTransfer, SuccessIsWhole,
     RunningOwnsName, PendingFits, Ended, Rollback, InFlight, Partial
<1>3. ASSUME NEW j \in Job, StartTarget(j) PROVE PendingIsGivenUp'
  BY <1>3, FaultsStay, GivenUpStays DEF StartTarget, Request, Create, rows, memory, outside,
     setOp, Go, Raise, Throws, incus, Awaited, PendingIsGivenUp, TypeOK, OneAtATime,
     PastTransfer, SuccessIsWhole, RunningOwnsName, PendingFits, Ended, Rollback, InFlight,
     Partial
<1>4. ASSUME NEW j \in Job, StartSource(j) PROVE PendingIsGivenUp'
  BY <1>4, FaultsStay, GivenUpStays DEF StartSource, Go, Throws, SourceFails, Link, incus,
     rows, memory, outside, PendingIsGivenUp, TypeOK, OneAtATime, PastTransfer,
     SuccessIsWhole, RunningOwnsName, PendingFits, Ended, Rollback, InFlight, Partial
<1>5. ASSUME NEW j \in Job, Connect(j) PROVE PendingIsGivenUp'
  BY <1>5, FaultsStay, GivenUpStays DEF Connect, Go, Link, incus, rows, memory, outside,
     PendingIsGivenUp, TypeOK, OneAtATime, PastTransfer, SuccessIsWhole, RunningOwnsName,
     PendingFits, Ended, Rollback, InFlight, Partial
<1>6. ASSUME NEW j \in Job, WaitTarget(j) PROVE PendingIsGivenUp'
  BY <1>6, FaultsStay, GivenUpStays DEF WaitTarget, Go, incus, rows, memory, outside,
     PendingIsGivenUp, TypeOK, OneAtATime, PastTransfer, SuccessIsWhole, RunningOwnsName,
     PendingFits, Ended, Rollback, InFlight, Partial
<1>7. ASSUME NEW j \in Job, SourceLost(j) PROVE PendingIsGivenUp'
  BY <1>7, FaultsStay, GivenUpStays DEF SourceLost, SourceFails, incus, rows, memory,
     outside, Go, PendingIsGivenUp, TypeOK, OneAtATime, PastTransfer, SuccessIsWhole,
     RunningOwnsName, PendingFits, Ended, Rollback, InFlight, Partial
<1>8. ASSUME NEW j \in Job, CancelTarget(j) PROVE PendingIsGivenUp'
  BY <1>8, FaultsStay, GivenUpStays DEF CancelTarget, Swallowed, Revert, rows, memory,
     outside, setOp, Go, Throws, incus, PendingIsGivenUp, TypeOK, OneAtATime, PastTransfer,
     SuccessIsWhole, RunningOwnsName, PendingFits, Ended, Rollback, InFlight, Partial
<1>9. ASSUME NEW j \in Job, Verify(j) PROVE PendingIsGivenUp'
  BY <1>9, FaultsStay, GivenUpStays DEF Verify, Request, AfterVerify, incus, rows, memory,
     outside, Go, Raise, Throws, Awaited, PendingIsGivenUp, TypeOK, OneAtATime,
     PastTransfer, SuccessIsWhole, RunningOwnsName, PendingFits, Ended, Rollback, InFlight,
     Partial
<1>10. ASSUME NEW j \in Job, StartCopy(j) PROVE PendingIsGivenUp'
  BY <1>10, FaultsStay, GivenUpStays, FailsCounts, UnansweredCounts DEF StartCopy, setCopy,
     rows, memory, outside, Go, Raise, Throws, incus, Awaited, GoesOn, canSet, statusOf,
     PendingIsGivenUp, TypeOK, OneAtATime, PastTransfer, SuccessIsWhole, RunningOwnsName,
     PendingFits, Ended, Rollback, InFlight, Partial
<1>11. ASSUME NEW j \in Job, Commit(j) PROVE PendingIsGivenUp'
  BY <1>11, FaultsStay, GivenUpStays DEF Commit, Go, incus, rows, outside, PendingIsGivenUp,
     TypeOK, OneAtATime, PastTransfer, SuccessIsWhole, RunningOwnsName, PendingFits, Ended,
     Rollback, InFlight, Partial
<1>12. ASSUME NEW j \in Job, ReadLeft(j) PROVE PendingIsGivenUp'
  BY <1>12, FaultsStay, GivenUpStays DEF ReadLeft, Request, incus, rows, memory, outside,
     Go, Raise, Throws, Awaited, PendingIsGivenUp, TypeOK, OneAtATime, PastTransfer,
     SuccessIsWhole, RunningOwnsName, PendingFits, Ended, Rollback, InFlight, Partial
<1>13. ASSUME NEW j \in Job, StopLeft(j) PROVE PendingIsGivenUp'
  BY <1>13, FaultsStay, GivenUpStays, FailsCounts, UnansweredCounts DEF StopLeft, setSource,
     rows, memory, outside, Go, Raise, Throws, incus, Awaited, GoesOn, canSet, statusOf,
     PendingIsGivenUp, TypeOK, OneAtATime, PastTransfer, SuccessIsWhole, RunningOwnsName,
     PendingFits, Ended, Rollback, InFlight, Partial
<1>14. ASSUME NEW j \in Job, DeleteSource(j) PROVE PendingIsGivenUp'
  BY <1>14, FaultsStay, GivenUpStays DEF DeleteSource, rows, memory, outside, Go, Raise,
     Throws, incus, Awaited, GoesOn, RemoveSource, canDelete, statusOf, PendingIsGivenUp,
     TypeOK, OneAtATime, PastTransfer, SuccessIsWhole, RunningOwnsName, PendingFits, Ended,
     Rollback, InFlight, Partial
<1>15. ASSUME NEW j \in Job, CarryOwner(j) PROVE PendingIsGivenUp'
  BY <1>15, FaultsStay, GivenUpStays DEF CarryOwner, Go, Raise, incus, memory, outside,
     PendingIsGivenUp, TypeOK, OneAtATime, PastTransfer, SuccessIsWhole, RunningOwnsName,
     PendingFits, Ended, Rollback, InFlight, Partial
<1>16. ASSUME NEW j \in Job, PutLease(j) PROVE PendingIsGivenUp'
  BY <1>16, FaultsStay, GivenUpStays DEF PutLease, Go, Raise, incus, memory, outside,
     PendingIsGivenUp, TypeOK, OneAtATime, PastTransfer, SuccessIsWhole, RunningOwnsName,
     PendingFits, Ended, Rollback, InFlight, Partial
<1>17. ASSUME NEW j \in Job, BeginRollback(j) PROVE PendingIsGivenUp'
  BY <1>17, FaultsStay, GivenUpStays DEF BeginRollback, Go, incus, rows, memory, outside,
     PendingIsGivenUp, TypeOK, OneAtATime, PastTransfer, SuccessIsWhole, RunningOwnsName,
     PendingFits, Ended, Rollback, InFlight, Partial
<1>18. ASSUME NEW j \in Job, ReadCopy(j) PROVE PendingIsGivenUp'
  BY <1>18, FaultsStay, GivenUpStays DEF ReadCopy, Go, AfterRead, incus, rows, memory,
     outside, PendingIsGivenUp, TypeOK, OneAtATime, PastTransfer, SuccessIsWhole,
     RunningOwnsName, PendingFits, Ended, Rollback, InFlight, Partial
<1>19. ASSUME NEW j \in Job, StopCopy(j) PROVE PendingIsGivenUp'
  BY <1>19, FaultsStay, GivenUpStays, FailsCounts, UnansweredCounts DEF StopCopy, Swallowed,
     setCopy, rows, memory, outside, Go, Throws, incus, GoesOn, canSet, statusOf,
     PendingIsGivenUp, TypeOK, OneAtATime, PastTransfer, SuccessIsWhole, RunningOwnsName,
     PendingFits, Ended, Rollback, InFlight, Partial
<1>20. ASSUME NEW j \in Job, DeleteCopy(j) PROVE PendingIsGivenUp'
  BY <1>20, FaultsStay, GivenUpStays DEF DeleteCopy, Swallowed, rows, memory, outside, Go,
     Throws, incus, GoesOn, RemoveCopy, canDelete, statusOf, PendingIsGivenUp, TypeOK,
     OneAtATime, PastTransfer, SuccessIsWhole, RunningOwnsName, PendingFits, Ended,
     Rollback, InFlight, Partial
<1>21. ASSUME NEW j \in Job, RestartSource(j) PROVE PendingIsGivenUp'
  BY <1>21, FaultsStay, GivenUpStays, FailsCounts, UnansweredCounts DEF RestartSource, Go,
     Swallowed, setSource, incus, rows, memory, outside, Throws, GoesOn, canSet, statusOf,
     PendingIsGivenUp, TypeOK, OneAtATime, PastTransfer, SuccessIsWhole, RunningOwnsName,
     PendingFits, Ended, Rollback, InFlight, Partial
<1>22. ASSUME NEW j \in Job, TargetSucceeds(j) PROVE PendingIsGivenUp'
  BY <1>22, FaultsStay, GivenUpStays DEF TargetSucceeds, setOp, rows, memory, outside,
     PendingIsGivenUp, TypeOK, OneAtATime, PastTransfer, SuccessIsWhole, RunningOwnsName,
     PendingFits, Ended, Rollback, InFlight, Partial
<1>23. ASSUME NEW j \in Job, TargetFails(j) PROVE PendingIsGivenUp'
  BY <1>23, FaultsStay, GivenUpStays DEF TargetFails, Revert, rows, memory, outside, setOp,
     PendingIsGivenUp, TypeOK, OneAtATime, PastTransfer, SuccessIsWhole, RunningOwnsName,
     PendingFits, Ended, Rollback, InFlight, Partial
<1>24. ASSUME NEW j \in Job, Crash(j) PROVE PendingIsGivenUp'
  BY <1>24, FaultsStay, GivenUpStays DEF Crash, Go, incus, rows, memory, outside,
     PendingIsGivenUp, TypeOK, OneAtATime, PastTransfer, SuccessIsWhole, RunningOwnsName,
     PendingFits, Ended, Rollback, InFlight, Partial
<1>25. ASSUME NEW c \in {"src", "dst"}, OperationEnds(c) PROVE PendingIsGivenUp'
  BY <1>25, FaultsStay, GivenUpStays DEF OperationEnds, RemoveSource, RemoveCopy, rows,
     memory, outside, PendingIsGivenUp, TypeOK, OneAtATime, PastTransfer, SuccessIsWhole,
     RunningOwnsName, PendingFits, Ended, Rollback, InFlight, Partial
<1>26. ASSUME UserCreates PROVE PendingIsGivenUp'
  BY <1>26, FaultsStay, GivenUpStays DEF UserCreates, rows, memory, outside,
     PendingIsGivenUp, TypeOK, OneAtATime, PastTransfer, SuccessIsWhole, RunningOwnsName,
     PendingFits, Ended, Rollback, InFlight, Partial
<1>27. CASE UNCHANGED <<pending, maker, pc, faults>>
  BY <1>27, FaultsStay, GivenUpStays DEF PendingIsGivenUp
<1> QED
  BY <1>1, <1>2, <1>3, <1>4, <1>5, <1>6, <1>7, <1>8, <1>9, <1>10, <1>11, <1>12, <1>13,
     <1>14, <1>15, <1>16, <1>17, <1>18, <1>19, <1>20, <1>21, <1>22, <1>23, <1>24, <1>25,
     <1>26, <1>27 DEF Next, Handler, Target, Elsewhere, vars, incus, rows, memory, outside,
     Cancel, Write, UserStarts, setSource, ForgetOwner, ForgetLease, Backfill, GrantLease

(* Only a rollback leaves a restart behind, and with it the job ends. *)
LEMMA NextOver ==
  TypeOK /\ OneAtATime /\ PendingFits /\ RestartIsOver /\ [Next]_vars => RestartIsOver'
<1> SUFFICES ASSUME TypeOK, OneAtATime, PendingFits, RestartIsOver, [Next]_vars
             PROVE  RestartIsOver'
  OBVIOUS
<1> USE MigrationAssumption
<1>1. ASSUME NEW j \in Job, Check(j) PROVE RestartIsOver'
  <2>1. /\ wasRunning'[j] = (source # "stopped") /\ pending' = pending
        /\ \A k \in Job : k # j => pc'[k] = pc[k] /\ pc[k] \in Ended
    BY <1>1 DEF Check, Go, incus, TypeOK
  <2> QED
    BY <2>1 DEF RestartIsOver, PendingFits
<1>2. ASSUME NEW j \in Job, StopSource(j) PROVE RestartIsOver'
  BY <1>2 DEF StopSource, setSource, FirstOf, rows, outside, Go, Raise, Throws, incus,
     Awaited, GoesOn, canSet, statusOf, RestartIsOver, TypeOK, OneAtATime, PendingFits,
     Ended, Rollback, InFlight, Partial
<1>3. ASSUME NEW j \in Job, StartTarget(j) PROVE RestartIsOver'
  BY <1>3 DEF StartTarget, Request, Create, rows, memory, outside, setOp, Go, Raise, Throws,
     incus, Awaited, RestartIsOver, TypeOK, OneAtATime, PendingFits, Ended, Rollback,
     InFlight, Partial
<1>4. ASSUME NEW j \in Job, StartSource(j) PROVE RestartIsOver'
  BY <1>4 DEF StartSource, Go, Throws, SourceFails, Link, incus, rows, memory, outside,
     RestartIsOver, TypeOK, OneAtATime, PendingFits, Ended, Rollback, InFlight, Partial
<1>5. ASSUME NEW j \in Job, Connect(j) PROVE RestartIsOver'
  BY <1>5 DEF Connect, Go, Link, incus, rows, memory, outside, RestartIsOver, TypeOK,
     OneAtATime, PendingFits, Ended, Rollback, InFlight, Partial
<1>6. ASSUME NEW j \in Job, WaitTarget(j) PROVE RestartIsOver'
  BY <1>6 DEF WaitTarget, Go, incus, rows, memory, outside, RestartIsOver, TypeOK,
     OneAtATime, PendingFits, Ended, Rollback, InFlight, Partial
<1>7. ASSUME NEW j \in Job, SourceLost(j) PROVE RestartIsOver'
  BY <1>7 DEF SourceLost, SourceFails, incus, rows, memory, outside, Go, RestartIsOver,
     TypeOK, OneAtATime, PendingFits, Ended, Rollback, InFlight, Partial
<1>8. ASSUME NEW j \in Job, CancelTarget(j) PROVE RestartIsOver'
  BY <1>8 DEF CancelTarget, Swallowed, Revert, rows, memory, outside, setOp, Go, Throws,
     incus, RestartIsOver, TypeOK, OneAtATime, PendingFits, Ended, Rollback, InFlight,
     Partial
<1>9. ASSUME NEW j \in Job, Verify(j) PROVE RestartIsOver'
  BY <1>9 DEF Verify, Request, AfterVerify, incus, rows, memory, outside, Go, Raise, Throws,
     Awaited, RestartIsOver, TypeOK, OneAtATime, PendingFits, Ended, Rollback, InFlight,
     Partial
<1>10. ASSUME NEW j \in Job, StartCopy(j) PROVE RestartIsOver'
  BY <1>10 DEF StartCopy, setCopy, rows, memory, outside, Go, Raise, Throws, incus, Awaited,
     GoesOn, canSet, statusOf, RestartIsOver, TypeOK, OneAtATime, PendingFits, Ended,
     Rollback, InFlight, Partial
<1>11. ASSUME NEW j \in Job, Commit(j) PROVE RestartIsOver'
  BY <1>11 DEF Commit, Go, incus, rows, outside, RestartIsOver, TypeOK, OneAtATime,
     PendingFits, Ended, Rollback, InFlight, Partial
<1>12. ASSUME NEW j \in Job, ReadLeft(j) PROVE RestartIsOver'
  BY <1>12 DEF ReadLeft, Request, incus, rows, memory, outside, Go, Raise, Throws, Awaited,
     RestartIsOver, TypeOK, OneAtATime, PendingFits, Ended, Rollback, InFlight, Partial
<1>13. ASSUME NEW j \in Job, StopLeft(j) PROVE RestartIsOver'
  BY <1>13 DEF StopLeft, setSource, rows, memory, outside, Go, Raise, Throws, incus,
     Awaited, GoesOn, canSet, statusOf, RestartIsOver, TypeOK, OneAtATime, PendingFits,
     Ended, Rollback, InFlight, Partial
<1>14. ASSUME NEW j \in Job, DeleteSource(j) PROVE RestartIsOver'
  BY <1>14 DEF DeleteSource, rows, memory, outside, Go, Raise, Throws, incus, Awaited,
     GoesOn, RemoveSource, canDelete, statusOf, RestartIsOver, TypeOK, OneAtATime,
     PendingFits, Ended, Rollback, InFlight, Partial
<1>15. ASSUME NEW j \in Job, CarryOwner(j) PROVE RestartIsOver'
  BY <1>15 DEF CarryOwner, Go, Raise, incus, memory, outside, RestartIsOver, TypeOK,
     OneAtATime, PendingFits, Ended, Rollback, InFlight, Partial
<1>16. ASSUME NEW j \in Job, PutLease(j) PROVE RestartIsOver'
  BY <1>16 DEF PutLease, Go, Raise, incus, memory, outside, RestartIsOver, TypeOK,
     OneAtATime, PendingFits, Ended, Rollback, InFlight, Partial
<1>17. ASSUME NEW j \in Job, BeginRollback(j) PROVE RestartIsOver'
  BY <1>17 DEF BeginRollback, Go, incus, rows, memory, outside, RestartIsOver, TypeOK,
     OneAtATime, PendingFits, Ended, Rollback, InFlight, Partial
<1>18. ASSUME NEW j \in Job, ReadCopy(j) PROVE RestartIsOver'
  BY <1>18 DEF ReadCopy, Go, AfterRead, incus, rows, memory, outside, RestartIsOver, TypeOK,
     OneAtATime, PendingFits, Ended, Rollback, InFlight, Partial
<1>19. ASSUME NEW j \in Job, StopCopy(j) PROVE RestartIsOver'
  BY <1>19 DEF StopCopy, Swallowed, setCopy, rows, memory, outside, Go, Throws, incus,
     GoesOn, canSet, statusOf, RestartIsOver, TypeOK, OneAtATime, PendingFits, Ended,
     Rollback, InFlight, Partial
<1>20. ASSUME NEW j \in Job, DeleteCopy(j) PROVE RestartIsOver'
  BY <1>20 DEF DeleteCopy, Swallowed, rows, memory, outside, Go, Throws, incus, GoesOn,
     RemoveCopy, canDelete, statusOf, RestartIsOver, TypeOK, OneAtATime, PendingFits, Ended,
     Rollback, InFlight, Partial
<1>21. ASSUME NEW j \in Job, RestartSource(j) PROVE RestartIsOver'
  BY <1>21 DEF RestartSource, Go, Swallowed, setSource, incus, rows, memory, outside,
     Throws, GoesOn, canSet, statusOf, RestartIsOver, TypeOK, OneAtATime, PendingFits,
     Ended, Rollback, InFlight, Partial
<1>22. ASSUME NEW j \in Job, TargetSucceeds(j) PROVE RestartIsOver'
  BY <1>22 DEF TargetSucceeds, setOp, rows, memory, outside, RestartIsOver, TypeOK,
     OneAtATime, PendingFits, Ended, Rollback, InFlight, Partial
<1>23. ASSUME NEW j \in Job, TargetFails(j) PROVE RestartIsOver'
  BY <1>23 DEF TargetFails, Revert, rows, memory, outside, setOp, RestartIsOver, TypeOK,
     OneAtATime, PendingFits, Ended, Rollback, InFlight, Partial
<1>24. ASSUME NEW j \in Job, Crash(j) PROVE RestartIsOver'
  BY <1>24 DEF Crash, Go, incus, rows, memory, outside, RestartIsOver, TypeOK, OneAtATime,
     PendingFits, Ended, Rollback, InFlight, Partial
<1>25. ASSUME NEW c \in {"src", "dst"}, OperationEnds(c) PROVE RestartIsOver'
  BY <1>25 DEF OperationEnds, RemoveSource, RemoveCopy, rows, memory, outside,
     RestartIsOver, TypeOK, OneAtATime, PendingFits, Ended, Rollback, InFlight, Partial
<1>26. CASE UNCHANGED <<pending, wasRunning, pc>>
  BY <1>26 DEF RestartIsOver
<1> QED
  BY <1>1, <1>2, <1>3, <1>4, <1>5, <1>6, <1>7, <1>8, <1>9, <1>10, <1>11, <1>12, <1>13,
     <1>14, <1>15, <1>16, <1>17, <1>18, <1>19, <1>20, <1>21, <1>22, <1>23, <1>24, <1>25,
     <1>26 DEF Next, Handler, Target, Elsewhere, vars, incus, rows, memory, outside, Cancel,
     Write, UserStarts, setSource, UserCreates, ForgetOwner, ForgetLease, Backfill,
     GrantLease

(* The rollback stops the copy before it deletes it. *)
LEMMA NextStops == TypeOK /\ OneAtATime /\ MakingIsPartial /\ PastTransfer /\ RunningOwnsName /\ LateIsFailed /\ RollbackStops /\ PendingFits /\ PendingIsGivenUp /\ [Next]_vars => RollbackStops'
<1> SUFFICES ASSUME TypeOK, OneAtATime, MakingIsPartial, PastTransfer, RunningOwnsName, LateIsFailed, RollbackStops, PendingFits, PendingIsGivenUp, [Next]_vars PROVE RollbackStops'
  OBVIOUS
<1>1. ASSUME NEW j \in Job, Check(j) PROVE RollbackStops'
  BY <1>1, FaultsStay DEF RollbackStops, Check, Ended, preflight, Go, Begin, incus, rows,
     outside, FirstOf
<1>2. ASSUME NEW j \in Job, StopSource(j) PROVE RollbackStops'
  BY <1>2, FaultsStay DEF RollbackStops, StopSource, setSource, FirstOf, rows, outside, Go,
     Throws, Raise, incus, TypeOK, Awaited, GoesOn
<1>3. ASSUME NEW j \in Job, StartTarget(j) PROVE RollbackStops'
  BY <1>3, FaultsStay DEF RollbackStops, StartTarget, Request, Create, rows, memory,
     outside, Go, Throws, Raise, Partial, setOp, incus, TypeOK, Awaited
<1>4. ASSUME NEW j \in Job, StartSource(j) PROVE RollbackStops'
  BY <1>4, FaultsStay DEF RollbackStops, StartSource, Link, Go, incus, Throws, SourceFails,
     rows, memory, outside, TypeOK
<1>5. ASSUME NEW j \in Job, Connect(j) PROVE RollbackStops'
  BY <1>5, FaultsStay DEF RollbackStops, Connect, Link, Go, incus, rows, memory, outside,
     TypeOK
<1>6. ASSUME NEW j \in Job, WaitTarget(j) PROVE RollbackStops'
  BY <1>6, FaultsStay DEF RollbackStops, WaitTarget, Go, incus, rows, memory, outside,
     TypeOK
<1>7. ASSUME NEW j \in Job, SourceLost(j) PROVE RollbackStops'
  BY <1>7, FaultsStay DEF RollbackStops, SourceLost, SourceFails, incus, rows, memory,
     outside, Go, TypeOK
<1>8. ASSUME NEW j \in Job, CancelTarget(j) PROVE RollbackStops'
  BY <1>8, FaultsStay DEF RollbackStops, CancelTarget, Swallowed, InFlight, Revert, rows,
     memory, outside, Throws, Go, Partial, setOp, incus, TypeOK
<1>9. ASSUME NEW j \in Job, Verify(j) PROVE RollbackStops'
  BY <1>9, FaultsStay DEF RollbackStops, Verify, Request, incus, AfterVerify, rows, memory,
     outside, Go, Throws, Raise, TypeOK, Awaited
<1>10. ASSUME NEW j \in Job, StartCopy(j) PROVE RollbackStops'
  BY <1>10, FaultsStay, FailsCounts, MigrationAssumption DEF RollbackStops, StartCopy,
     setCopy, rows, memory, outside, Go, Throws, Raise, incus, OneAtATime, TypeOK, Ended,
     Rollback, Verified, InFlight, Awaited, GoesOn
<1>11. ASSUME NEW j \in Job, Commit(j) PROVE RollbackStops'
  BY <1>11, FaultsStay DEF RollbackStops, Commit, Go, incus, rows, outside, TypeOK
<1>12. ASSUME NEW j \in Job, ReadLeft(j) PROVE RollbackStops'
  BY <1>12, FaultsStay DEF RollbackStops, ReadLeft, Request, incus, rows, memory, outside,
     Go, Throws, Raise, TypeOK, Awaited
<1>13. ASSUME NEW j \in Job, StopLeft(j) PROVE RollbackStops'
  BY <1>13, FaultsStay DEF RollbackStops, StopLeft, setSource, rows, memory, outside, Go,
     Throws, Raise, incus, TypeOK, Awaited, GoesOn
<1>14. ASSUME NEW j \in Job, DeleteSource(j) PROVE RollbackStops'
  BY <1>14, FaultsStay DEF RollbackStops, DeleteSource, rows, memory, outside, Go, Throws,
     Raise, incus, TypeOK, Awaited, GoesOn, RemoveSource
<1>15. ASSUME NEW j \in Job, CarryOwner(j) PROVE RollbackStops'
  BY <1>15, FaultsStay DEF RollbackStops, CarryOwner, Go, Raise, incus, memory, outside,
     TypeOK
<1>16. ASSUME NEW j \in Job, PutLease(j) PROVE RollbackStops'
  BY <1>16, FaultsStay DEF RollbackStops, PutLease, Go, Raise, incus, memory, outside,
     TypeOK
<1>17. ASSUME NEW j \in Job, BeginRollback(j) PROVE RollbackStops'
  BY <1>17, FaultsStay DEF RollbackStops, BeginRollback, Go, incus, rows, memory, outside,
     TypeOK
<1>18. ASSUME NEW j \in Job, ReadCopy(j) PROVE RollbackStops'
  BY <1>18, FaultsStay, FailsCounts, MigrationAssumption DEF RollbackStops, ReadCopy, Go,
     AfterRead, incus, rows, memory, outside, TypeOK, Ended, Rollback, Verified, InFlight
<1>19. ASSUME NEW j \in Job, StopCopy(j) PROVE RollbackStops'
  <2>1. /\ pc[j] = "rbStop" /\ UNCHANGED kind
        /\ \A k \in Job : k # j => pc'[k] = pc[k] /\ pc[k] \in Ended
    BY <1>19 DEF StopCopy, Swallowed, Go, memory, OneAtATime, TypeOK, Ended
  <2>2. UNCHANGED maker
    BY <1>19, Outcomes DEF GoesOn, setCopy, incus
  <2>3. Failed(j, {"rbStop"}) => Failed(j, {"rbRead", "rbStop"})
    BY DEF Failed
  <2>4. maker = j /\ copy' = "running" => Failed(j, {"rbRead", "rbStop"})'
    BY <1>19, <2>1, <2>3, FailsCounts, FaultsStay DEF StopCopy, Swallowed, Throws, setCopy,
       incus, canSet, statusOf, PendingFits, PendingIsGivenUp, TypeOK
  <2> QED
    BY <2>1, <2>2, <2>4 DEF RollbackStops, Ended
<1>20. ASSUME NEW j \in Job, DeleteCopy(j) PROVE RollbackStops'
  BY <1>20, FaultsStay DEF RollbackStops, DeleteCopy, Swallowed, Partial, InFlight, rows,
     memory, outside, Throws, Go, incus, GoesOn, RemoveCopy
<1>21. ASSUME NEW j \in Job, RestartSource(j) PROVE RollbackStops'
  BY <1>21, FaultsStay DEF RollbackStops, RestartSource, Go, incus, Swallowed, setSource,
     rows, memory, outside, Throws, TypeOK, GoesOn
<1>22. ASSUME NEW j \in Job, TargetSucceeds(j) PROVE RollbackStops'
  BY <1>22, FaultsStay, FailsCounts, MigrationAssumption DEF RollbackStops, TargetSucceeds,
     setOp, rows, memory, outside, MakingIsPartial, LateIsFailed, Ended, Rollback, Verified,
     InFlight
<1>23. ASSUME NEW j \in Job, TargetFails(j) PROVE RollbackStops'
  BY <1>23, FaultsStay DEF RollbackStops, TargetFails, InFlight, Revert, rows, memory,
     outside, Partial, setOp
<1>24. ASSUME NEW j \in Job, Crash(j) PROVE RollbackStops'
  BY <1>24, FaultsStay DEF RollbackStops, Crash, Ended, Go, incus, rows, memory, outside
<1>25. ASSUME UserCreates PROVE RollbackStops'
  BY <1>25, FaultsStay DEF RollbackStops, UserCreates, Partial, rows, memory, outside
<1>26. CASE UNCHANGED <<maker, copy, pc, kind, faults>>
  BY <1>26, FaultsStay DEF RollbackStops
<1>28. ASSUME NEW c \in {"src", "dst"}, OperationEnds(c) PROVE RollbackStops'
  BY <1>28, FaultsStay DEF OperationEnds, RemoveSource, RemoveCopy, rows, memory, outside,
     TypeOK, OneAtATime, MakingIsPartial, PastTransfer, RunningOwnsName, LateIsFailed,
     RollbackStops, Ended, Rollback, InFlight, Partial, PendingFits, PendingIsGivenUp
<1> QED
  BY <1>1, <1>2, <1>3, <1>4, <1>5, <1>6, <1>7, <1>8, <1>9, <1>10, <1>11, <1>12, <1>13,
     <1>14, <1>15, <1>16, <1>17, <1>18, <1>19, <1>20, <1>21, <1>22, <1>23, <1>24, <1>25,
     <1>26, <1>28 DEF Next, Handler, Target, Elsewhere, vars, incus, rows, memory, outside,
     Cancel, Write, UserStarts, ForgetOwner, ForgetLease, Backfill, GrantLease, setSource

(* The rollback deletes the copy before it starts the source. *)
LEMMA NextRemoves == TypeOK /\ OneAtATime /\ RunningOwnsName /\ RollbackStops /\ RollbackRemoves /\ PendingIsGivenUp /\ [Next]_vars => RollbackRemoves'
<1> SUFFICES ASSUME TypeOK, OneAtATime, RunningOwnsName, RollbackStops, RollbackRemoves, PendingIsGivenUp, [Next]_vars PROVE RollbackRemoves'
  OBVIOUS
<1>1. ASSUME NEW j \in Job, Check(j) PROVE RollbackRemoves'
  BY <1>1, FaultsStay DEF RollbackRemoves, Rollback, Check, Ended, preflight, Go, Begin,
     incus, rows, outside, FirstOf
<1>2. ASSUME NEW j \in Job, StopSource(j) PROVE RollbackRemoves'
  BY <1>2, FaultsStay DEF RollbackRemoves, Rollback, StopSource, setSource, FirstOf, rows,
     outside, Go, Throws, Raise, incus, TypeOK, Awaited, GoesOn
<1>3. ASSUME NEW j \in Job, StartTarget(j) PROVE RollbackRemoves'
  BY <1>3, FaultsStay DEF RollbackRemoves, Rollback, StartTarget, Request, Create, rows,
     memory, outside, Go, Throws, Raise, Partial, setOp, incus, TypeOK, Awaited
<1>4. ASSUME NEW j \in Job, StartSource(j) PROVE RollbackRemoves'
  BY <1>4, FaultsStay DEF RollbackRemoves, Rollback, StartSource, Link, Go, incus, Throws,
     SourceFails, rows, memory, outside, TypeOK
<1>5. ASSUME NEW j \in Job, Connect(j) PROVE RollbackRemoves'
  BY <1>5, FaultsStay DEF RollbackRemoves, Rollback, Connect, Link, Go, incus, rows, memory,
     outside, TypeOK
<1>6. ASSUME NEW j \in Job, WaitTarget(j) PROVE RollbackRemoves'
  BY <1>6, FaultsStay DEF RollbackRemoves, Rollback, WaitTarget, Go, incus, rows, memory,
     outside, TypeOK
<1>7. ASSUME NEW j \in Job, SourceLost(j) PROVE RollbackRemoves'
  BY <1>7, FaultsStay DEF RollbackRemoves, Rollback, SourceLost, SourceFails, incus, rows,
     memory, outside, Go, TypeOK
<1>8. ASSUME NEW j \in Job, CancelTarget(j) PROVE RollbackRemoves'
  BY <1>8, FaultsStay, MigrationAssumption DEF RollbackRemoves, Rollback, CancelTarget,
     Swallowed, InFlight, Revert, rows, memory, outside, Throws, Go, Partial, setOp, incus,
     TypeOK
<1>9. ASSUME NEW j \in Job, Verify(j) PROVE RollbackRemoves'
  BY <1>9, FaultsStay DEF RollbackRemoves, Rollback, Verify, Request, incus, AfterVerify,
     rows, memory, outside, Go, Throws, Raise, TypeOK, Awaited
<1>10. ASSUME NEW j \in Job, StartCopy(j) PROVE RollbackRemoves'
  BY <1>10, FaultsStay DEF RollbackRemoves, Rollback, StartCopy, setCopy, rows, memory,
     outside, Go, Throws, Raise, incus, TypeOK, Awaited, GoesOn
<1>11. ASSUME NEW j \in Job, Commit(j) PROVE RollbackRemoves'
  BY <1>11, FaultsStay DEF RollbackRemoves, Rollback, Commit, Go, incus, rows, outside,
     TypeOK
<1>12. ASSUME NEW j \in Job, ReadLeft(j) PROVE RollbackRemoves'
  BY <1>12, FaultsStay DEF RollbackRemoves, Rollback, ReadLeft, Request, incus, rows,
     memory, outside, Go, Throws, Raise, TypeOK, Awaited
<1>13. ASSUME NEW j \in Job, StopLeft(j) PROVE RollbackRemoves'
  BY <1>13, FaultsStay DEF RollbackRemoves, Rollback, StopLeft, setSource, rows, memory,
     outside, Go, Throws, Raise, incus, TypeOK, Awaited, GoesOn
<1>14. ASSUME NEW j \in Job, DeleteSource(j) PROVE RollbackRemoves'
  BY <1>14, FaultsStay DEF RollbackRemoves, Rollback, DeleteSource, rows, memory, outside,
     Go, Throws, Raise, incus, TypeOK, Awaited, GoesOn, RemoveSource
<1>15. ASSUME NEW j \in Job, CarryOwner(j) PROVE RollbackRemoves'
  BY <1>15, FaultsStay DEF RollbackRemoves, Rollback, CarryOwner, Go, Raise, incus, memory,
     outside, TypeOK
<1>16. ASSUME NEW j \in Job, PutLease(j) PROVE RollbackRemoves'
  BY <1>16, FaultsStay DEF RollbackRemoves, Rollback, PutLease, Go, Raise, incus, memory,
     outside, TypeOK
<1>17. ASSUME NEW j \in Job, BeginRollback(j) PROVE RollbackRemoves'
  BY <1>17, FaultsStay DEF RollbackRemoves, Rollback, BeginRollback, Go, incus, rows,
     memory, outside, TypeOK
<1>18. ASSUME NEW j \in Job, ReadCopy(j) PROVE RollbackRemoves'
  BY <1>18, FaultsStay, FailsCounts, MigrationAssumption DEF RollbackRemoves, ReadCopy, Go,
     AfterRead, incus, rows, memory, outside, TypeOK, Ended, Rollback, Verified, InFlight
<1>19. ASSUME NEW j \in Job, StopCopy(j) PROVE RollbackRemoves'
  BY <1>19, FaultsStay DEF RollbackRemoves, Rollback, StopCopy, Swallowed, setCopy, rows,
     memory, outside, Throws, Go, incus, GoesOn
<1>20. ASSUME NEW j \in Job, DeleteCopy(j) PROVE RollbackRemoves'
  <2>1. pc[j] = "rbDelete" /\ UNCHANGED <<kind>> /\ (maker' = maker \/ maker' = Nobody)
    BY <1>20 DEF DeleteCopy, Swallowed, Throws, memory, incus, GoesOn, RemoveCopy
  <2>2. \A k \in Job : k # j => pc'[k] # "rbStart"
    BY <1>20 DEF DeleteCopy, Swallowed, Go, OneAtATime, Ended, GoesOn, RemoveCopy
  <2>3. Failed(j, {"rbRead", "rbStop"}) => Failed(j, Rollback)
    BY DEF Failed, Rollback
  <2>3a. Failed(j, {"rbStop"}) => Failed(j, Rollback)
    BY DEF Failed, Rollback
  <2>3b. maker = j /\ ~canDelete("dst")
           => copy = "running" \/ Failed(j, Rollback) \/ GivenUp(j, {"startCopy"})
    BY <2>1, <2>3a, MigrationAssumption DEF canDelete, statusOf, RunningOwnsName,
       PendingIsGivenUp, TypeOK, Ended
  <2>4. maker' = j => \/ copy = "running" \/ Failed(j, Rollback)'
                      \/ GivenUp(j, {"startCopy"})'
    BY <1>20, <2>1, <2>3b, FailsCounts, FaultsStay, MigrationAssumption DEF DeleteCopy,
       Swallowed, Throws, incus, Rollback, RemoveCopy
  <2>5. maker' = j => maker = j
    BY <2>1, MigrationAssumption
  <2>6. QED
    BY <2>1, <2>2, <2>3, <2>4, <2>5, FaultsStay DEF RollbackRemoves, RollbackStops
<1>21. ASSUME NEW j \in Job, RestartSource(j) PROVE RollbackRemoves'
  BY <1>21, FaultsStay DEF RollbackRemoves, Rollback, RestartSource, Go, incus, Swallowed,
     setSource, rows, memory, outside, Throws, TypeOK, GoesOn
<1>22. ASSUME NEW j \in Job, TargetFails(j) PROVE RollbackRemoves'
  BY <1>22, FaultsStay, MigrationAssumption DEF RollbackRemoves, Rollback, TargetFails,
     InFlight, Revert, rows, memory, outside, Partial, setOp
<1>23. ASSUME NEW j \in Job, Crash(j) PROVE RollbackRemoves'
  BY <1>23, FaultsStay DEF RollbackRemoves, Rollback, Crash, Ended, Go, incus, rows, memory,
     outside
<1>24. ASSUME UserCreates PROVE RollbackRemoves'
  BY <1>24, FaultsStay, MigrationAssumption DEF RollbackRemoves, Rollback, UserCreates,
     Partial, rows, memory, outside
<1>25. CASE UNCHANGED <<maker, pc, faults>>
  BY <1>25, FaultsStay DEF RollbackRemoves, Rollback
<1>27. ASSUME NEW c \in {"src", "dst"}, OperationEnds(c) PROVE RollbackRemoves'
  BY <1>27, FaultsStay, MigrationAssumption DEF OperationEnds, RemoveSource, RemoveCopy,
     rows, memory, outside, TypeOK, OneAtATime, RunningOwnsName, RollbackStops,
     RollbackRemoves, Ended, Rollback, InFlight, Partial, PendingIsGivenUp
<1> QED
  BY <1>1, <1>2, <1>3, <1>4, <1>5, <1>6, <1>7, <1>8, <1>9, <1>10, <1>11, <1>12, <1>13,
     <1>14, <1>15, <1>16, <1>17, <1>18, <1>19, <1>20, <1>21, <1>22, <1>23, <1>24, <1>25,
     <1>27 DEF Next, Handler, Target, Elsewhere, vars, incus, rows, memory, outside,
     TargetSucceeds, Cancel, Write, UserStarts, ForgetOwner, ForgetLease, Backfill,
     GrantLease, setOp, setSource

(* Before the commit only the job itself stops the source. *)
LEMMA NextRuns == TypeOK /\ OneAtATime /\ PastTransfer /\ GoneForGood /\ StopIsNoted /\ RunsUnlessStopped /\ PendingIsGivenUp /\ [Next]_vars => RunsUnlessStopped'
<1> SUFFICES ASSUME TypeOK, OneAtATime, PastTransfer, GoneForGood, StopIsNoted, RunsUnlessStopped, PendingIsGivenUp, [Next]_vars PROVE RunsUnlessStopped'
  OBVIOUS
<1>1. ASSUME NEW j \in Job, Check(j) PROVE RunsUnlessStopped'
  BY <1>1, MigrationAssumption, FaultsGrow DEF RunsUnlessStopped, Check, Ended, preflight,
     Go, Begin, incus, rows, outside, FirstOf, TypeOK, Rollback, Verified, InFlight, Status
<1>2. ASSUME NEW j \in Job, StopSource(j) PROVE RunsUnlessStopped'
  <2>1. source \in Status /\ source # "absent" /\ pc[j] = "stop"
    BY <1>2 DEF StopSource, TypeOK, GoneForGood, Ended
  <2>2. \A k \in Job : k # j => pc'[k] = pc[k] /\ pc[k] \in Ended
    BY <1>2, <2>1 DEF StopSource, Raise, Go, OneAtATime, TypeOK, Ended, Awaited, GoesOn
  <2>3. UNCHANGED <<kind, wasRunning>> /\ faults \subseteq faults'
    BY <1>2, FaultsGrow DEF StopSource
  <2>4. CASE pc'[j] # "rollback"
    BY <1>2, <2>2, <2>4 DEF StopSource, RunsUnlessStopped, TypeOK, Ended
  <2>5. CASE pc'[j] = "rollback" /\ source' = source
    BY <1>2, <2>1, <2>2, <2>3, <2>5, GivenUpStays DEF StopSource, StopIsNoted, RunsUnlessStopped, Ended,
       committed, Commitment
  <2>6. CASE Fails(j, "unanswered")
    BY <2>1, <2>2, <2>6, UnansweredCounts DEF RunsUnlessStopped, Ended
  <2>7. pc'[j] # "rollback" \/ source' = source \/ Fails(j, "unanswered")
    BY <1>2, <2>1 DEF StopSource, Throws, Go, FirstOf, incus, TypeOK, Awaited, GoesOn
  <2>8. QED
    BY <2>4, <2>5, <2>6, <2>7
<1>3. ASSUME NEW j \in Job, StartTarget(j) PROVE RunsUnlessStopped'
  BY <1>3, FaultsStay, GivenUpStays DEF RunsUnlessStopped, Ended, committed, Commitment, StartTarget,
     Request, Create, rows, memory, outside, Go, Throws, Raise, Partial, setOp, incus,
     Fails, TypeOK, Awaited
<1>4. ASSUME NEW j \in Job, StartSource(j) PROVE RunsUnlessStopped'
  BY <1>4, FaultsStay, GivenUpStays DEF RunsUnlessStopped, Ended, committed, Commitment, StartSource,
     Link, Go, incus, Throws, SourceFails, rows, memory, outside, Fails, TypeOK
<1>5. ASSUME NEW j \in Job, Connect(j) PROVE RunsUnlessStopped'
  BY <1>5, FaultsStay, GivenUpStays DEF RunsUnlessStopped, Ended, committed, Commitment, Connect, Link,
     Go, Fails, incus, rows, memory, outside, TypeOK
<1>6. ASSUME NEW j \in Job, WaitTarget(j) PROVE RunsUnlessStopped'
  BY <1>6, FaultsStay, GivenUpStays DEF RunsUnlessStopped, Ended, committed, Commitment, WaitTarget, Go,
     Fails, incus, rows, memory, outside, TypeOK
<1>7. ASSUME NEW j \in Job, SourceLost(j) PROVE RunsUnlessStopped'
  BY <1>7, FaultsStay, GivenUpStays DEF RunsUnlessStopped, Ended, committed, Commitment, SourceLost,
     SourceFails, incus, rows, memory, outside, Go, TypeOK
<1>8. ASSUME NEW j \in Job, CancelTarget(j) PROVE RunsUnlessStopped'
  BY <1>8, FaultsStay, GivenUpStays DEF RunsUnlessStopped, Ended, committed, Commitment, CancelTarget,
     Swallowed, InFlight, Revert, rows, memory, outside, Throws, Go, Partial, setOp, incus,
     Fails, TypeOK
<1>9. ASSUME NEW j \in Job, Verify(j) PROVE RunsUnlessStopped'
  BY <1>9, FaultsStay, GivenUpStays DEF RunsUnlessStopped, Ended, committed, Commitment, Verify, Request,
     incus, AfterVerify, rows, memory, outside, Go, Throws, Raise, Fails, TypeOK, Awaited
<1>10. ASSUME NEW j \in Job, StartCopy(j) PROVE RunsUnlessStopped'
  BY <1>10, FaultsStay, GivenUpStays DEF RunsUnlessStopped, Ended, committed, Commitment, StartCopy,
     setCopy, rows, memory, outside, Go, Throws, Raise, incus, Fails, TypeOK, Awaited,
     GoesOn
<1>11. ASSUME NEW j \in Job, Commit(j) PROVE RunsUnlessStopped'
  BY <1>11, FaultsStay, GivenUpStays DEF RunsUnlessStopped, Ended, committed, Commitment, Commit, Go,
     Fails, incus, rows, outside, TypeOK
<1>12. ASSUME NEW j \in Job, ReadLeft(j) PROVE RunsUnlessStopped'
  BY <1>12, FaultsStay, GivenUpStays DEF RunsUnlessStopped, Ended, committed, Commitment, ReadLeft,
     Request, incus, rows, memory, outside, Go, Throws, Raise, Fails, TypeOK, Awaited
<1>13. ASSUME NEW j \in Job, StopLeft(j) PROVE RunsUnlessStopped'
  BY <1>13, MigrationAssumption, FaultsGrow DEF RunsUnlessStopped, StopLeft, setSource,
     rows, memory, outside, Go, Throws, Raise, incus, committed, Commitment, OneAtATime,
     PastTransfer, TypeOK, Ended, Rollback, Verified, InFlight, Status, Awaited, GoesOn
<1>14. ASSUME NEW j \in Job, DeleteSource(j) PROVE RunsUnlessStopped'
  BY <1>14, FaultsStay, GivenUpStays, Outcomes DEF RunsUnlessStopped, Ended, committed,
     Commitment, DeleteSource, rows, memory, outside, Go, Throws, Raise, incus, Fails,
     TypeOK, Awaited, GoesOn, RemoveSource, OneAtATime, canDelete, statusOf
<1>15. ASSUME NEW j \in Job, CarryOwner(j) PROVE RunsUnlessStopped'
  BY <1>15, FaultsStay, GivenUpStays DEF RunsUnlessStopped, Ended, committed, Commitment, CarryOwner, Go,
     Fails, Raise, incus, memory, outside, TypeOK
<1>16. ASSUME NEW j \in Job, PutLease(j) PROVE RunsUnlessStopped'
  BY <1>16, FaultsStay, GivenUpStays DEF RunsUnlessStopped, Ended, committed, PutLease, Go, Fails, Raise,
     incus, memory, outside, TypeOK
<1>17. ASSUME NEW j \in Job, BeginRollback(j) PROVE RunsUnlessStopped'
  BY <1>17, FaultsStay, GivenUpStays DEF RunsUnlessStopped, Ended, committed, Commitment, BeginRollback,
     Go, Fails, incus, rows, memory, outside, TypeOK
<1>18. ASSUME NEW j \in Job, ReadCopy(j) PROVE RunsUnlessStopped'
  BY <1>18, FaultsStay, GivenUpStays DEF RunsUnlessStopped, Ended, committed, Commitment, ReadCopy, Go,
     AfterRead, Fails, incus, rows, memory, outside, TypeOK
<1>19. ASSUME NEW j \in Job, StopCopy(j) PROVE RunsUnlessStopped'
  BY <1>19, FaultsStay, GivenUpStays DEF RunsUnlessStopped, Ended, committed, Commitment, StopCopy,
     Swallowed, setCopy, rows, memory, outside, Throws, Go, incus, Fails, GoesOn
<1>20. ASSUME NEW j \in Job, DeleteCopy(j) PROVE RunsUnlessStopped'
  BY <1>20, FaultsStay, GivenUpStays DEF RunsUnlessStopped, Ended, committed, Commitment, DeleteCopy,
     Swallowed, Partial, InFlight, rows, memory, outside, Throws, Go, incus, Fails, GoesOn,
     RemoveCopy
<1>21. ASSUME NEW j \in Job, RestartSource(j) PROVE RunsUnlessStopped'
  BY <1>21, FaultsStay, GivenUpStays DEF RunsUnlessStopped, Ended, committed, RestartSource, Go, incus,
     Swallowed, setSource, rows, memory, outside, Throws, Fails, TypeOK, GoesOn
<1>22. ASSUME NEW j \in Job, TargetSucceeds(j) PROVE RunsUnlessStopped'
  BY <1>22, FaultsStay, GivenUpStays DEF RunsUnlessStopped, Ended, committed, TargetSucceeds, setOp, rows,
     memory, outside
<1>23. ASSUME NEW j \in Job, Crash(j) PROVE RunsUnlessStopped'
  BY <1>23, GivenUpStays DEF RunsUnlessStopped, Ended, committed, Crash, Go, incus, rows,
     memory, outside, TypeOK
<1>24. ASSUME UserStarts PROVE RunsUnlessStopped'
  BY <1>24, FaultsStay, GivenUpStays DEF RunsUnlessStopped, Ended, UserStarts, setSource, rows, memory
<1>25. CASE UNCHANGED <<source, pc, kind, wasRunning, stoppedSource, faults>>
  BY <1>25, GivenUpStays DEF RunsUnlessStopped, Ended, committed
<1>27. ASSUME NEW c \in {"src", "dst"}, OperationEnds(c) PROVE RunsUnlessStopped'
  BY <1>27, FaultsStay, GivenUpStays DEF OperationEnds, RemoveSource, RemoveCopy, rows,
     memory, outside, TypeOK, OneAtATime, PastTransfer, GoneForGood, StopIsNoted,
     RunsUnlessStopped, Ended, Rollback, InFlight, Partial, PendingIsGivenUp, committed,
     Commitment
<1> QED
  BY <1>1, <1>2, <1>3, <1>4, <1>5, <1>6, <1>7, <1>8, <1>9, <1>10, <1>11, <1>12, <1>13,
     <1>14, <1>15, <1>16, <1>17, <1>18, <1>19, <1>20, <1>21, <1>22, <1>23, <1>24, <1>25,
     <1>27 DEF Next, Handler, Target, Elsewhere, vars, incus, rows, memory, outside,
     TargetFails, Cancel, Write, UserCreates, ForgetOwner, ForgetLease, Backfill,
     GrantLease, Revert, setOp

(* The flag follows the answer to the stop. *)
LEMMA NextNoted == TypeOK /\ StopIsNoted /\ OneAtATime /\ MakingIsPartial /\ RunningOwnsName /\ [Next]_vars => StopIsNoted'
<1> SUFFICES ASSUME TypeOK, StopIsNoted, OneAtATime, MakingIsPartial, RunningOwnsName, [Next]_vars PROVE StopIsNoted'
  OBVIOUS
<1>1. ASSUME NEW j \in Job, Check(j) PROVE StopIsNoted'
  BY <1>1, FaultsStay DEF StopIsNoted, Check, Ended, preflight, Go, Begin, incus, rows,
     outside, FirstOf, TypeOK
<1>2. ASSUME NEW j \in Job, StopSource(j) PROVE StopIsNoted'
  BY <1>2, FaultsStay DEF StopIsNoted, StopSource, setSource, FirstOf, rows, outside, Go,
     Throws, Raise, incus, TypeOK, Awaited, GoesOn, Ended
<1>3. ASSUME NEW j \in Job, StartTarget(j) PROVE StopIsNoted'
  BY <1>3, FaultsStay DEF StopIsNoted, StartTarget, Request, Create, rows, memory, outside,
     Go, Throws, Raise, Partial, setOp, incus, TypeOK, Awaited, Ended
<1>4. ASSUME NEW j \in Job, StartSource(j) PROVE StopIsNoted'
  BY <1>4, FaultsStay DEF StopIsNoted, StartSource, Link, Go, incus, Throws, SourceFails,
     rows, memory, outside, TypeOK, Ended
<1>5. ASSUME NEW j \in Job, Connect(j) PROVE StopIsNoted'
  BY <1>5, FaultsStay DEF StopIsNoted, Connect, Link, Go, incus, rows, memory, outside,
     TypeOK, Ended
<1>6. ASSUME NEW j \in Job, WaitTarget(j) PROVE StopIsNoted'
  BY <1>6, FaultsStay DEF StopIsNoted, WaitTarget, Go, incus, rows, memory, outside, TypeOK, Ended
<1>7. ASSUME NEW j \in Job, SourceLost(j) PROVE StopIsNoted'
  BY <1>7, FaultsStay DEF StopIsNoted, SourceLost, SourceFails, incus, rows, memory,
     outside, Go, TypeOK, Ended
<1>8. ASSUME NEW j \in Job, CancelTarget(j) PROVE StopIsNoted'
  BY <1>8, FaultsStay DEF StopIsNoted, CancelTarget, Swallowed, InFlight, Revert, rows,
     memory, outside, Throws, Go, Partial, setOp, incus, TypeOK, Ended
<1>9. ASSUME NEW j \in Job, Verify(j) PROVE StopIsNoted'
  BY <1>9, FaultsStay DEF StopIsNoted, Verify, Request, incus, AfterVerify, rows, memory,
     outside, Go, Throws, Raise, TypeOK, Awaited, Ended
<1>10. ASSUME NEW j \in Job, StartCopy(j) PROVE StopIsNoted'
  BY <1>10, FaultsStay DEF StopIsNoted, StartCopy, setCopy, rows, memory, outside, Go,
     Throws, Raise, incus, TypeOK, Awaited, GoesOn, Ended
<1>11. ASSUME NEW j \in Job, Commit(j) PROVE StopIsNoted'
  BY <1>11, FaultsStay DEF StopIsNoted, Commit, Go, incus, rows, outside, TypeOK, Ended
<1>12. ASSUME NEW j \in Job, ReadLeft(j) PROVE StopIsNoted'
  BY <1>12, FaultsStay DEF StopIsNoted, ReadLeft, Request, incus, rows, memory, outside, Go,
     Throws, Raise, TypeOK, Awaited, Ended
<1>13. ASSUME NEW j \in Job, StopLeft(j) PROVE StopIsNoted'
  BY <1>13, FaultsStay DEF StopIsNoted, StopLeft, setSource, rows, memory, outside, Go,
     Throws, Raise, incus, TypeOK, Awaited, GoesOn, Ended
<1>14. ASSUME NEW j \in Job, DeleteSource(j) PROVE StopIsNoted'
  BY <1>14, FaultsStay DEF StopIsNoted, DeleteSource, rows, memory, outside, Go, Throws,
     Raise, incus, TypeOK, Awaited, GoesOn, RemoveSource, Ended
<1>15. ASSUME NEW j \in Job, CarryOwner(j) PROVE StopIsNoted'
  BY <1>15, FaultsStay DEF StopIsNoted, CarryOwner, Go, Raise, incus, memory, outside,
     TypeOK, Ended
<1>16. ASSUME NEW j \in Job, PutLease(j) PROVE StopIsNoted'
  BY <1>16, FaultsStay DEF StopIsNoted, PutLease, Go, Raise, incus, memory, outside, TypeOK, Ended
<1>17. ASSUME NEW j \in Job, BeginRollback(j) PROVE StopIsNoted'
  BY <1>17, FaultsStay DEF StopIsNoted, BeginRollback, Go, incus, rows, memory, outside,
     TypeOK, Ended
<1>18. ASSUME NEW j \in Job, ReadCopy(j) PROVE StopIsNoted'
  BY <1>18, FaultsStay DEF StopIsNoted, ReadCopy, Go, AfterRead, incus, rows, memory,
     outside, TypeOK, Ended
<1>19. ASSUME NEW j \in Job, StopCopy(j) PROVE StopIsNoted'
  BY <1>19, FaultsStay DEF StopIsNoted, StopCopy, Swallowed, setCopy, rows, memory, outside,
     Throws, Go, incus, GoesOn, Ended, TypeOK
<1>20. ASSUME NEW j \in Job, DeleteCopy(j) PROVE StopIsNoted'
  BY <1>20, FaultsStay DEF StopIsNoted, DeleteCopy, Swallowed, Partial, InFlight, rows,
     memory, outside, Throws, Go, incus, GoesOn, RemoveCopy, Ended, TypeOK
<1>21. ASSUME NEW j \in Job, RestartSource(j) PROVE StopIsNoted'
  BY <1>21, FaultsStay DEF StopIsNoted, RestartSource, Go, incus, Swallowed, setSource,
     rows, memory, outside, Throws, TypeOK, GoesOn, Ended
<1>22. ASSUME NEW j \in Job, Crash(j) PROVE StopIsNoted'
  BY <1>22, FaultsStay DEF StopIsNoted, Crash, Ended, Go, incus, rows, memory, outside
<1>23. CASE UNCHANGED <<pc, stoppedSource, kind, source>>
  BY <1>23 DEF StopIsNoted, Ended, TypeOK
<1>25. ASSUME NEW c \in {"src", "dst"}, OperationEnds(c) PROVE StopIsNoted'
  BY <1>25, FaultsStay DEF OperationEnds, RemoveSource, RemoveCopy, rows, memory, outside,
     TypeOK, StopIsNoted, Ended, Rollback, InFlight, Partial
<1>26. ASSUME NEW j \in Job, TargetSucceeds(j) PROVE StopIsNoted'
  <2>1. UNCHANGED <<pc, stoppedSource, kind>> /\ maker = j
    BY <1>26 DEF TargetSucceeds, memory, MakingIsPartial, InFlight
  <2>2. \A k \in Job : pc[k] \notin Ended => k = j
    BY <2>1, MigrationAssumption DEF RunningOwnsName
  <2>3. kind[j] = "move" => source' = source
    BY <1>26 DEF TargetSucceeds
  <2> QED
    BY <2>1, <2>2, <2>3 DEF StopIsNoted
<1>27. ASSUME UserStarts PROVE StopIsNoted'
  BY <1>27 DEF UserStarts, setSource, memory, StopIsNoted, Ended
<1> QED
  BY <1>1, <1>2, <1>3, <1>4, <1>5, <1>6, <1>7, <1>8, <1>9, <1>10, <1>11, <1>12, <1>13,
     <1>14, <1>15, <1>16, <1>17, <1>18, <1>19, <1>20, <1>21, <1>22, <1>23, <1>25, <1>26,
     <1>27 DEF Next, Handler, Target, Elsewhere, vars, incus, rows, memory, outside,
     TargetFails, Cancel, Write, UserCreates, ForgetOwner, ForgetLease, Backfill,
     GrantLease, setOp, Revert

(* The source's lease is kept until its delete event. *)
LEMMA NextLease == TypeOK /\ GoneForGood /\ LeaseIsRead /\ PendingFits /\ [Next]_vars => LeaseIsRead'
<1> SUFFICES ASSUME TypeOK, GoneForGood, LeaseIsRead, PendingFits, [Next]_vars PROVE LeaseIsRead'
  OBVIOUS
<1>1. ASSUME NEW j \in Job, Check(j) PROVE LeaseIsRead'
  BY <1>1, FaultsStay DEF LeaseIsRead, committed, Commitment, Check, Ended, preflight, Go,
     Begin, incus, rows, outside, FirstOf
<1>2. ASSUME NEW j \in Job, StopSource(j) PROVE LeaseIsRead'
  BY <1>2, FaultsStay DEF LeaseIsRead, committed, Commitment, StopSource, setSource,
     FirstOf, rows, outside, Go, Throws, Raise, incus, TypeOK, Awaited, GoesOn, canSet,
     statusOf
<1>3. ASSUME NEW j \in Job, StartTarget(j) PROVE LeaseIsRead'
  BY <1>3, FaultsStay DEF LeaseIsRead, committed, Commitment, StartTarget, Request, Create,
     rows, memory, outside, Go, Throws, Raise, Partial, setOp, incus, TypeOK, Awaited
<1>4. ASSUME NEW j \in Job, StartSource(j) PROVE LeaseIsRead'
  BY <1>4, FaultsStay DEF LeaseIsRead, committed, Commitment, StartSource, Link, Go, incus,
     Throws, SourceFails, rows, memory, outside, TypeOK
<1>5. ASSUME NEW j \in Job, Connect(j) PROVE LeaseIsRead'
  BY <1>5, FaultsStay DEF LeaseIsRead, committed, Commitment, Connect, Link, Go, incus,
     rows, memory, outside, TypeOK
<1>6. ASSUME NEW j \in Job, WaitTarget(j) PROVE LeaseIsRead'
  BY <1>6, FaultsStay DEF LeaseIsRead, committed, Commitment, WaitTarget, Go, incus, rows,
     memory, outside, TypeOK
<1>7. ASSUME NEW j \in Job, SourceLost(j) PROVE LeaseIsRead'
  BY <1>7, FaultsStay DEF LeaseIsRead, committed, Commitment, SourceLost, SourceFails,
     incus, rows, memory, outside, Go, TypeOK
<1>8. ASSUME NEW j \in Job, CancelTarget(j) PROVE LeaseIsRead'
  BY <1>8, FaultsStay DEF LeaseIsRead, committed, Commitment, CancelTarget, Swallowed,
     InFlight, Revert, rows, memory, outside, Throws, Go, Partial, setOp, incus, TypeOK
<1>9. ASSUME NEW j \in Job, Verify(j) PROVE LeaseIsRead'
  BY <1>9, FaultsStay DEF LeaseIsRead, committed, Commitment, Verify, Request, incus,
     AfterVerify, rows, memory, outside, Go, Throws, Raise, TypeOK, Awaited
<1>10. ASSUME NEW j \in Job, StartCopy(j) PROVE LeaseIsRead'
  BY <1>10, FaultsStay DEF LeaseIsRead, committed, Commitment, StartCopy, setCopy, rows,
     memory, outside, Go, Throws, Raise, incus, TypeOK, Awaited, GoesOn
<1>11. ASSUME NEW j \in Job, Commit(j) PROVE LeaseIsRead'
  BY <1>11, FaultsStay, FailsCounts, MigrationAssumption DEF LeaseIsRead, Commit, Go, incus,
     rows, outside, GoneForGood, TypeOK, Ended, Rollback, Verified, InFlight, committed
<1>12. ASSUME NEW j \in Job, ReadLeft(j) PROVE LeaseIsRead'
  BY <1>12, FaultsStay DEF LeaseIsRead, committed, Commitment, ReadLeft, Request, incus,
     rows, memory, outside, Go, Throws, Raise, TypeOK, Awaited
<1>13. ASSUME NEW j \in Job, StopLeft(j) PROVE LeaseIsRead'
  BY <1>13, FaultsStay DEF LeaseIsRead, committed, Commitment, StopLeft, setSource, rows,
     memory, outside, Go, Throws, Raise, incus, TypeOK, Awaited, GoesOn, canSet, statusOf
<1>14. ASSUME NEW j \in Job, DeleteSource(j) PROVE LeaseIsRead'
  BY <1>14, FaultsStay DEF LeaseIsRead, committed, Commitment, DeleteSource, rows, memory,
     outside, Go, Throws, Raise, incus, TypeOK, Awaited, GoesOn, RemoveSource, canDelete,
     statusOf
<1>15. ASSUME NEW j \in Job, CarryOwner(j) PROVE LeaseIsRead'
  BY <1>15, FaultsStay DEF LeaseIsRead, committed, Commitment, CarryOwner, Go, Raise, incus,
     memory, outside, TypeOK
<1>16. ASSUME NEW j \in Job, PutLease(j) PROVE LeaseIsRead'
  BY <1>16, FaultsStay DEF LeaseIsRead, committed, Commitment, PutLease, Go, Raise, incus,
     memory, outside, TypeOK
<1>17. ASSUME NEW j \in Job, BeginRollback(j) PROVE LeaseIsRead'
  BY <1>17, FaultsStay DEF LeaseIsRead, committed, Commitment, BeginRollback, Go, incus,
     rows, memory, outside, TypeOK
<1>18. ASSUME NEW j \in Job, ReadCopy(j) PROVE LeaseIsRead'
  BY <1>18, FaultsStay DEF LeaseIsRead, committed, Commitment, ReadCopy, Go, AfterRead,
     incus, rows, memory, outside, TypeOK
<1>19. ASSUME NEW j \in Job, StopCopy(j) PROVE LeaseIsRead'
  BY <1>19, FaultsStay DEF LeaseIsRead, committed, Commitment, StopCopy, Swallowed, setCopy,
     rows, memory, outside, Throws, Go, incus, GoesOn
<1>20. ASSUME NEW j \in Job, DeleteCopy(j) PROVE LeaseIsRead'
  BY <1>20, FaultsStay DEF LeaseIsRead, committed, Commitment, DeleteCopy, Swallowed,
     Partial, InFlight, rows, memory, outside, Throws, Go, incus, GoesOn, RemoveCopy
<1>21. ASSUME NEW j \in Job, RestartSource(j) PROVE LeaseIsRead'
  BY <1>21, FaultsStay DEF LeaseIsRead, committed, Commitment, RestartSource, Go, incus,
     Swallowed, setSource, rows, memory, outside, Throws, TypeOK, GoesOn, canSet, statusOf
<1>22. ASSUME NEW j \in Job, TargetSucceeds(j) PROVE LeaseIsRead'
  BY <1>22, FaultsStay DEF LeaseIsRead, committed, TargetSucceeds, setOp, rows, memory,
     outside
<1>23. ASSUME NEW j \in Job, Crash(j) PROVE LeaseIsRead'
  BY <1>23, FaultsStay DEF LeaseIsRead, committed, Commitment, Crash, Ended, Go, incus,
     rows, memory, outside
<1>24. ASSUME UserStarts PROVE LeaseIsRead'
  BY <1>24, FaultsStay DEF LeaseIsRead, committed, UserStarts, setSource, rows, memory
<1>25. ASSUME ForgetOwner PROVE LeaseIsRead'
  BY <1>25, FaultsStay DEF LeaseIsRead, committed, ForgetOwner, incus, memory, outside
<1>26. ASSUME ForgetLease PROVE LeaseIsRead'
  BY <1>26, FaultsStay DEF LeaseIsRead, committed, ForgetLease, incus, memory, outside
<1>27. ASSUME GrantLease PROVE LeaseIsRead'
  BY <1>27, FaultsStay DEF LeaseIsRead, committed, GrantLease, incus, memory, outside
<1>28. CASE UNCHANGED <<source, lease, event, pc, kind, leaseRead>>
  BY <1>28 DEF LeaseIsRead, committed
<1>30. ASSUME NEW c \in {"src", "dst"}, OperationEnds(c) PROVE LeaseIsRead'
  BY <1>30, FaultsStay DEF OperationEnds, RemoveSource, RemoveCopy, rows, memory, outside,
     TypeOK, GoneForGood, LeaseIsRead, Ended, Rollback, InFlight, Partial, PendingFits,
     committed
<1> QED
  BY <1>1, <1>2, <1>3, <1>4, <1>5, <1>6, <1>7, <1>8, <1>9, <1>10, <1>11, <1>12, <1>13,
     <1>14, <1>15, <1>16, <1>17, <1>18, <1>19, <1>20, <1>21, <1>22, <1>23, <1>24, <1>25,
     <1>26, <1>27, <1>28, <1>30 DEF Next, Handler, Target, Elsewhere, vars, incus, rows,
     memory, outside, TargetFails, Cancel, Write, UserCreates, Backfill, Revert, setOp

(* The last lease written is the one that was read. *)
LEMMA NextKept == TypeOK /\ LeaseIsRead /\ LeaseKept /\ [Next]_vars => LeaseKept'
<1> SUFFICES ASSUME TypeOK, LeaseIsRead, LeaseKept, [Next]_vars PROVE LeaseKept'
  OBVIOUS
<1>1. ASSUME NEW j \in Job, Check(j) PROVE LeaseKept'
  BY <1>1, FaultsStay DEF LeaseKept, Check, Ended, preflight, Go, Begin, incus, rows,
     outside, FirstOf
<1>2. ASSUME NEW j \in Job, StopSource(j) PROVE LeaseKept'
  BY <1>2, FaultsStay DEF LeaseKept, StopSource, setSource, FirstOf, rows, outside, Go,
     Throws, Raise, incus, TypeOK, Awaited, GoesOn
<1>3. ASSUME NEW j \in Job, StartTarget(j) PROVE LeaseKept'
  BY <1>3, FaultsStay DEF LeaseKept, StartTarget, Request, Create, rows, memory, outside,
     Go, Throws, Raise, Partial, setOp, incus, TypeOK, Awaited
<1>4. ASSUME NEW j \in Job, StartSource(j) PROVE LeaseKept'
  BY <1>4, FaultsStay DEF LeaseKept, StartSource, Link, Go, incus, Throws, SourceFails,
     rows, memory, outside, TypeOK
<1>5. ASSUME NEW j \in Job, Connect(j) PROVE LeaseKept'
  BY <1>5, FaultsStay DEF LeaseKept, Connect, Link, Go, incus, rows, memory, outside, TypeOK
<1>6. ASSUME NEW j \in Job, WaitTarget(j) PROVE LeaseKept'
  BY <1>6, FaultsStay DEF LeaseKept, WaitTarget, Go, incus, rows, memory, outside, TypeOK
<1>7. ASSUME NEW j \in Job, SourceLost(j) PROVE LeaseKept'
  BY <1>7, FaultsStay DEF LeaseKept, SourceLost, SourceFails, incus, rows, memory, outside,
     Go, TypeOK
<1>8. ASSUME NEW j \in Job, CancelTarget(j) PROVE LeaseKept'
  BY <1>8, FaultsStay DEF LeaseKept, CancelTarget, Swallowed, InFlight, Revert, rows,
     memory, outside, Throws, Go, Partial, setOp, incus, TypeOK
<1>9. ASSUME NEW j \in Job, Verify(j) PROVE LeaseKept'
  BY <1>9, FaultsStay DEF LeaseKept, Verify, Request, incus, AfterVerify, rows, memory,
     outside, Go, Throws, Raise, TypeOK, Awaited
<1>10. ASSUME NEW j \in Job, StartCopy(j) PROVE LeaseKept'
  BY <1>10, FaultsStay DEF LeaseKept, StartCopy, setCopy, rows, memory, outside, Go, Throws,
     Raise, incus, TypeOK, Awaited, GoesOn
<1>11. ASSUME NEW j \in Job, Commit(j) PROVE LeaseKept'
  BY <1>11, FaultsStay DEF LeaseKept, Commit, Go, incus, rows, outside, TypeOK
<1>12. ASSUME NEW j \in Job, ReadLeft(j) PROVE LeaseKept'
  BY <1>12, FaultsStay DEF LeaseKept, ReadLeft, Request, incus, rows, memory, outside, Go,
     Throws, Raise, TypeOK, Awaited
<1>13. ASSUME NEW j \in Job, StopLeft(j) PROVE LeaseKept'
  BY <1>13, FaultsStay DEF LeaseKept, StopLeft, setSource, rows, memory, outside, Go,
     Throws, Raise, incus, TypeOK, Awaited, GoesOn
<1>14. ASSUME NEW j \in Job, DeleteSource(j) PROVE LeaseKept'
  BY <1>14, FaultsStay DEF LeaseKept, DeleteSource, rows, memory, outside, Go, Throws,
     Raise, incus, TypeOK, Awaited, GoesOn, RemoveSource
<1>15. ASSUME NEW j \in Job, CarryOwner(j) PROVE LeaseKept'
  BY <1>15, FaultsStay DEF LeaseKept, CarryOwner, Go, Raise, incus, memory, outside, TypeOK
<1>16. ASSUME NEW j \in Job, PutLease(j) PROVE LeaseKept'
  BY <1>16, FaultsStay DEF LeaseKept, PutLease, Go, Raise, incus, memory, outside,
     committed, Commitment, LeaseIsRead, TypeOK
<1>17. ASSUME NEW j \in Job, BeginRollback(j) PROVE LeaseKept'
  BY <1>17, FaultsStay DEF LeaseKept, BeginRollback, Go, incus, rows, memory, outside,
     TypeOK
<1>18. ASSUME NEW j \in Job, ReadCopy(j) PROVE LeaseKept'
  BY <1>18, FaultsStay DEF LeaseKept, ReadCopy, Go, AfterRead, incus, rows, memory, outside,
     TypeOK
<1>19. ASSUME NEW j \in Job, StopCopy(j) PROVE LeaseKept'
  BY <1>19, FaultsStay DEF LeaseKept, StopCopy, Swallowed, setCopy, rows, memory, outside,
     Throws, Go, incus, GoesOn
<1>20. ASSUME NEW j \in Job, DeleteCopy(j) PROVE LeaseKept'
  BY <1>20, FaultsStay DEF LeaseKept, DeleteCopy, Swallowed, Partial, InFlight, rows,
     memory, outside, Throws, Go, incus, GoesOn, RemoveCopy
<1>21. ASSUME NEW j \in Job, RestartSource(j) PROVE LeaseKept'
  BY <1>21, FaultsStay DEF LeaseKept, RestartSource, Go, incus, Swallowed, setSource, rows,
     memory, outside, Throws, TypeOK, GoesOn
<1>22. ASSUME NEW j \in Job, Crash(j) PROVE LeaseKept'
  BY <1>22, FaultsStay DEF LeaseKept, Crash, Ended, Go, incus, rows, memory, outside
<1>23. ASSUME ForgetLease PROVE LeaseKept'
  BY <1>23, FaultsStay DEF LeaseKept, ForgetLease, incus, memory, outside
<1>24. ASSUME GrantLease PROVE LeaseKept'
  BY <1>24, FaultsStay DEF LeaseKept, GrantLease, incus, memory, outside
<1>25. CASE UNCHANGED <<lease, pc, kind>>
  BY <1>25 DEF LeaseKept
<1>27. ASSUME NEW c \in {"src", "dst"}, OperationEnds(c) PROVE LeaseKept'
  BY <1>27, FaultsStay DEF OperationEnds, RemoveSource, RemoveCopy, rows, memory, outside,
     TypeOK, LeaseIsRead, LeaseKept, Ended, Rollback, InFlight, Partial
<1> QED
  BY <1>1, <1>2, <1>3, <1>4, <1>5, <1>6, <1>7, <1>8, <1>9, <1>10, <1>11, <1>12, <1>13,
     <1>14, <1>15, <1>16, <1>17, <1>18, <1>19, <1>20, <1>21, <1>22, <1>23, <1>24, <1>25,
     <1>27 DEF Next, Handler, Target, Elsewhere, vars, incus, rows, memory, outside,
     TargetSucceeds, TargetFails, Cancel, Write, UserStarts, UserCreates, ForgetOwner,
     Backfill, setOp, Revert, setSource

(* Only the rollback starts a source that the job stopped, when no user does. *)
LEMMA NextStopped == TypeOK /\ MaxUserStarts = 0 /\ OneAtATime /\ MakingIsPartial /\ RunningOwnsName /\ GoneForGood /\ MoveKeepsStopped /\ PendingIsGivenUp /\ RestartIsOver /\ [Next]_vars => MoveKeepsStopped'
<1> SUFFICES ASSUME TypeOK, MaxUserStarts = 0, OneAtATime, MakingIsPartial, RunningOwnsName, GoneForGood, MoveKeepsStopped, PendingIsGivenUp, RestartIsOver, [Next]_vars PROVE MoveKeepsStopped'
  OBVIOUS
<1>1. ASSUME NEW j \in Job, Check(j) PROVE MoveKeepsStopped'
  BY <1>1, FaultsStay, GivenUpStays DEF MoveKeepsStopped, Ended, Rollback, Check, preflight, Go, Begin,
     incus, rows, outside, FirstOf, TypeOK
<1>2. ASSUME NEW j \in Job, StopSource(j) PROVE MoveKeepsStopped'
  BY <1>2, FaultsStay, GivenUpStays DEF MoveKeepsStopped, Ended, Rollback, StopSource, setSource, FirstOf,
     rows, outside, Go, Throws, Raise, incus, TypeOK, Awaited, GoesOn
<1>3. ASSUME NEW j \in Job, StartTarget(j) PROVE MoveKeepsStopped'
  BY <1>3, FaultsStay, GivenUpStays DEF MoveKeepsStopped, Ended, Rollback, StartTarget, Request, Create,
     rows, memory, outside, Go, Throws, Raise, Partial, setOp, incus, TypeOK, Awaited
<1>4. ASSUME NEW j \in Job, StartSource(j) PROVE MoveKeepsStopped'
  BY <1>4, FaultsStay, GivenUpStays DEF MoveKeepsStopped, Ended, Rollback, StartSource, Link, Go, incus,
     Throws, SourceFails, rows, memory, outside, TypeOK
<1>5. ASSUME NEW j \in Job, Connect(j) PROVE MoveKeepsStopped'
  BY <1>5, FaultsStay, GivenUpStays DEF MoveKeepsStopped, Ended, Rollback, Connect, Link, Go, incus, rows,
     memory, outside, TypeOK
<1>6. ASSUME NEW j \in Job, WaitTarget(j) PROVE MoveKeepsStopped'
  BY <1>6, FaultsStay, GivenUpStays DEF MoveKeepsStopped, Ended, Rollback, WaitTarget, Go, incus, rows,
     memory, outside, TypeOK
<1>7. ASSUME NEW j \in Job, SourceLost(j) PROVE MoveKeepsStopped'
  BY <1>7, FaultsStay, GivenUpStays DEF MoveKeepsStopped, Ended, Rollback, SourceLost, SourceFails, incus,
     rows, memory, outside, Go, TypeOK
<1>8. ASSUME NEW j \in Job, CancelTarget(j) PROVE MoveKeepsStopped'
  BY <1>8, FaultsStay, GivenUpStays DEF MoveKeepsStopped, Ended, Rollback, CancelTarget, Swallowed,
     InFlight, Revert, rows, memory, outside, Throws, Go, Partial, setOp, incus, TypeOK
<1>9. ASSUME NEW j \in Job, Verify(j) PROVE MoveKeepsStopped'
  BY <1>9, FaultsStay, GivenUpStays DEF MoveKeepsStopped, Ended, Rollback, Verify, Request, incus,
     AfterVerify, rows, memory, outside, Go, Throws, Raise, TypeOK, Awaited
<1>10. ASSUME NEW j \in Job, StartCopy(j) PROVE MoveKeepsStopped'
  BY <1>10, FaultsStay, GivenUpStays DEF MoveKeepsStopped, Ended, Rollback, StartCopy, setCopy, rows,
     memory, outside, Go, Throws, Raise, incus, TypeOK, Awaited, GoesOn
<1>11. ASSUME NEW j \in Job, Commit(j) PROVE MoveKeepsStopped'
  BY <1>11, FaultsStay, GivenUpStays DEF MoveKeepsStopped, Ended, Rollback, Commit, Go, incus, rows,
     outside, TypeOK
<1>12. ASSUME NEW j \in Job, ReadLeft(j) PROVE MoveKeepsStopped'
  BY <1>12, FaultsStay, GivenUpStays DEF MoveKeepsStopped, Ended, Rollback, ReadLeft, Request, incus,
     rows, memory, outside, Go, Throws, Raise, TypeOK, Awaited
<1>13. ASSUME NEW j \in Job, StopLeft(j) PROVE MoveKeepsStopped'
  BY <1>13, FaultsStay, GivenUpStays DEF MoveKeepsStopped, Ended, Rollback, StopLeft, setSource, rows,
     memory, outside, Go, Throws, Raise, incus, TypeOK, Awaited, GoesOn
<1>14. ASSUME NEW j \in Job, DeleteSource(j) PROVE MoveKeepsStopped'
  BY <1>14, FaultsStay, GivenUpStays DEF MoveKeepsStopped, Ended, Rollback, DeleteSource, rows, memory,
     outside, Go, Throws, Raise, incus, TypeOK, Awaited, GoesOn, RemoveSource
<1>15. ASSUME NEW j \in Job, CarryOwner(j) PROVE MoveKeepsStopped'
  BY <1>15, FaultsStay, GivenUpStays DEF MoveKeepsStopped, Ended, Rollback, CarryOwner, Go, Raise, incus,
     memory, outside, TypeOK
<1>16. ASSUME NEW j \in Job, PutLease(j) PROVE MoveKeepsStopped'
  BY <1>16, FaultsStay, GivenUpStays DEF MoveKeepsStopped, Ended, Rollback, PutLease, Go, Raise, incus,
     memory, outside, TypeOK
<1>17. ASSUME NEW j \in Job, BeginRollback(j) PROVE MoveKeepsStopped'
  BY <1>17, FaultsStay, GivenUpStays DEF MoveKeepsStopped, Ended, Rollback, BeginRollback, Go, incus,
     rows, memory, outside, TypeOK
<1>18. ASSUME NEW j \in Job, ReadCopy(j) PROVE MoveKeepsStopped'
  BY <1>18, FaultsStay, GivenUpStays DEF MoveKeepsStopped, Ended, Rollback, ReadCopy, Go, AfterRead,
     incus, rows, memory, outside, TypeOK
<1>19. ASSUME NEW j \in Job, StopCopy(j) PROVE MoveKeepsStopped'
  BY <1>19, FaultsStay, GivenUpStays DEF MoveKeepsStopped, Ended, Rollback, StopCopy, Swallowed, setCopy,
     rows, memory, outside, Throws, Go, incus, GoesOn
<1>20. ASSUME NEW j \in Job, DeleteCopy(j) PROVE MoveKeepsStopped'
  BY <1>20, FaultsStay, GivenUpStays DEF MoveKeepsStopped, Ended, Rollback, DeleteCopy, Swallowed,
     Partial, InFlight, rows, memory, outside, Throws, Go, incus, GoesOn, RemoveCopy
<1>21. ASSUME NEW j \in Job, RestartSource(j) PROVE MoveKeepsStopped'
  BY <1>21, FaultsStay, GivenUpStays DEF MoveKeepsStopped, Ended, Rollback, RestartSource, Go, incus,
     Swallowed, setSource, rows, memory, outside, Throws, OneAtATime, TypeOK, GoesOn
<1>22. ASSUME NEW j \in Job, TargetSucceeds(j) PROVE MoveKeepsStopped'
  BY <1>22, FaultsStay, MigrationAssumption, GivenUpStays DEF MoveKeepsStopped, Ended,
     Rollback, TargetSucceeds, setOp, rows, memory, outside, MakingIsPartial,
     RunningOwnsName, TypeOK
<1>23. ASSUME NEW j \in Job, Crash(j) PROVE MoveKeepsStopped'
  BY <1>23, FaultsStay, GivenUpStays DEF MoveKeepsStopped, Ended, Rollback, Crash, Go, incus, rows,
     memory, outside
<1>24. ASSUME UserStarts PROVE MoveKeepsStopped'
  BY <1>24 DEF UserStarts, TypeOK
<1>25. CASE UNCHANGED <<source, pc, kind, wasRunning>>
  BY <1>25, GivenUpStays DEF MoveKeepsStopped, Ended, Rollback
<1>27. ASSUME NEW c \in {"src", "dst"}, OperationEnds(c) PROVE MoveKeepsStopped'
  BY <1>27, FaultsStay, GivenUpStays DEF OperationEnds, RemoveSource, RemoveCopy, rows,
     memory, outside, TypeOK, OneAtATime, MakingIsPartial, RunningOwnsName, GoneForGood,
     MoveKeepsStopped, Ended, Rollback, InFlight, Partial, PendingIsGivenUp, RestartIsOver
<1> QED
  BY <1>1, <1>2, <1>3, <1>4, <1>5, <1>6, <1>7, <1>8, <1>9, <1>10, <1>11, <1>12, <1>13,
     <1>14, <1>15, <1>16, <1>17, <1>18, <1>19, <1>20, <1>21, <1>22, <1>23, <1>24, <1>25,
     <1>27 DEF Next, Handler, Target, Elsewhere, vars, incus, rows, memory, outside,
     TargetFails, Cancel, Write, UserCreates, ForgetOwner, ForgetLease, Backfill,
     GrantLease, Revert, setOp

(* After the transfer the guest does not run at the source, when no user starts it. *)
LEMMA NextHasAll == TypeOK /\ MaxUserStarts = 0 /\ OneAtATime /\ MakingIsPartial /\ PastTransfer /\ SuccessIsWhole /\ MoveKeepsStopped /\ TransferHasAll /\ PendingIsGivenUp /\ [Next]_vars => TransferHasAll'
<1> SUFFICES ASSUME TypeOK, MaxUserStarts = 0, OneAtATime, MakingIsPartial, PastTransfer, SuccessIsWhole, MoveKeepsStopped, TransferHasAll, PendingIsGivenUp, [Next]_vars PROVE TransferHasAll'
  OBVIOUS
<1>1. ASSUME NEW j \in Job, Check(j) PROVE TransferHasAll'
  BY <1>1, FaultsStay, GivenUpStays DEF TransferHasAll, Ended, Rollback, Check, preflight, Go, Begin,
     incus, rows, outside, FirstOf, PastTransfer, MoveKeepsStopped
<1>2. ASSUME NEW j \in Job, StopSource(j) PROVE TransferHasAll'
  BY <1>2, FaultsStay, GivenUpStays DEF TransferHasAll, Ended, Rollback, StopSource, setSource, FirstOf,
     rows, outside, Go, Throws, Raise, incus, MoveKeepsStopped, TypeOK, Awaited, GoesOn
<1>3. ASSUME NEW j \in Job, StartTarget(j) PROVE TransferHasAll'
  BY <1>3, FaultsStay, GivenUpStays DEF TransferHasAll, Ended, Rollback, StartTarget, Request, Create,
     rows, memory, outside, Go, Throws, Raise, Partial, setOp, incus, OneAtATime,
     MoveKeepsStopped, TypeOK, Awaited
<1>4. ASSUME NEW j \in Job, StartSource(j) PROVE TransferHasAll'
  BY <1>4, FaultsStay, GivenUpStays DEF TransferHasAll, Ended, Rollback, StartSource, Link, Go, incus,
     Throws, SourceFails, rows, memory, outside, MoveKeepsStopped, TypeOK
<1>5. ASSUME NEW j \in Job, Connect(j) PROVE TransferHasAll'
  BY <1>5, FaultsStay, GivenUpStays DEF TransferHasAll, Ended, Rollback, Connect, Link, Go, incus, rows,
     memory, outside, MoveKeepsStopped, TypeOK
<1>6. ASSUME NEW j \in Job, WaitTarget(j) PROVE TransferHasAll'
  BY <1>6, FaultsStay, GivenUpStays DEF TransferHasAll, Ended, Rollback, WaitTarget, Go, incus, rows,
     memory, outside, MoveKeepsStopped, TypeOK
<1>7. ASSUME NEW j \in Job, SourceLost(j) PROVE TransferHasAll'
  BY <1>7, FaultsStay, GivenUpStays DEF TransferHasAll, Ended, Rollback, SourceLost, SourceFails, incus,
     rows, memory, outside, Go, MoveKeepsStopped, TypeOK
<1>8. ASSUME NEW j \in Job, CancelTarget(j) PROVE TransferHasAll'
  BY <1>8, FaultsStay, GivenUpStays DEF TransferHasAll, Ended, Rollback, CancelTarget, Swallowed,
     InFlight, Revert, rows, memory, outside, Throws, Go, Partial, setOp, incus, OneAtATime,
     MoveKeepsStopped, TypeOK
<1>9. ASSUME NEW j \in Job, Verify(j) PROVE TransferHasAll'
  BY <1>9, FaultsStay, GivenUpStays DEF TransferHasAll, Ended, Rollback, Verify, Request, incus,
     AfterVerify, rows, memory, outside, Go, Throws, Raise, MoveKeepsStopped, TypeOK,
     Awaited
<1>10. ASSUME NEW j \in Job, StartCopy(j) PROVE TransferHasAll'
  BY <1>10, FaultsStay, GivenUpStays DEF TransferHasAll, Ended, Rollback, StartCopy, setCopy, rows,
     memory, outside, Go, Throws, Raise, incus, MoveKeepsStopped, TypeOK, Awaited, GoesOn
<1>11. ASSUME NEW j \in Job, Commit(j) PROVE TransferHasAll'
  BY <1>11, FaultsStay, GivenUpStays DEF TransferHasAll, Ended, Rollback, Commit, Go, incus, rows,
     outside, MoveKeepsStopped, TypeOK
<1>12. ASSUME NEW j \in Job, ReadLeft(j) PROVE TransferHasAll'
  BY <1>12, FaultsStay, GivenUpStays DEF TransferHasAll, Ended, Rollback, ReadLeft, Request, incus, rows,
     memory, outside, Go, Throws, Raise, MoveKeepsStopped, TypeOK, Awaited
<1>13. ASSUME NEW j \in Job, StopLeft(j) PROVE TransferHasAll'
  BY <1>13, FaultsStay, GivenUpStays DEF TransferHasAll, Ended, Rollback, StopLeft, setSource, rows,
     memory, outside, Go, Throws, Raise, incus, MoveKeepsStopped, TypeOK, Awaited, GoesOn
<1>14. ASSUME NEW j \in Job, DeleteSource(j) PROVE TransferHasAll'
  BY <1>14, FaultsStay, GivenUpStays DEF TransferHasAll, Ended, Rollback, DeleteSource, rows, memory,
     outside, Go, Throws, Raise, incus, MoveKeepsStopped, TypeOK, Awaited, GoesOn,
     RemoveSource
<1>15. ASSUME NEW j \in Job, CarryOwner(j) PROVE TransferHasAll'
  BY <1>15, FaultsStay, GivenUpStays DEF TransferHasAll, Ended, Rollback, CarryOwner, Go, Raise, incus,
     memory, outside, MoveKeepsStopped, TypeOK
<1>16. ASSUME NEW j \in Job, PutLease(j) PROVE TransferHasAll'
  BY <1>16, FaultsStay, GivenUpStays DEF TransferHasAll, Ended, Rollback, PutLease, Go, Raise, incus,
     memory, outside, MoveKeepsStopped, TypeOK
<1>17. ASSUME NEW j \in Job, BeginRollback(j) PROVE TransferHasAll'
  BY <1>17, FaultsStay, GivenUpStays DEF TransferHasAll, Ended, Rollback, BeginRollback, Go, incus, rows,
     memory, outside, MoveKeepsStopped, TypeOK
<1>18. ASSUME NEW j \in Job, ReadCopy(j) PROVE TransferHasAll'
  BY <1>18, FaultsStay, GivenUpStays DEF TransferHasAll, Ended, Rollback, ReadCopy, Go, AfterRead, incus,
     rows, memory, outside, MoveKeepsStopped, TypeOK
<1>19. ASSUME NEW j \in Job, StopCopy(j) PROVE TransferHasAll'
  BY <1>19, FaultsStay, GivenUpStays DEF TransferHasAll, Ended, Rollback, StopCopy, Swallowed, setCopy,
     rows, memory, outside, Throws, Go, incus, GoesOn
<1>20. ASSUME NEW j \in Job, DeleteCopy(j) PROVE TransferHasAll'
  BY <1>20, FaultsStay, GivenUpStays DEF TransferHasAll, Ended, Rollback, DeleteCopy, Swallowed, Partial,
     InFlight, rows, memory, outside, Throws, Go, incus, OneAtATime, MoveKeepsStopped,
     GoesOn, RemoveCopy
<1>21. ASSUME NEW j \in Job, RestartSource(j) PROVE TransferHasAll'
  BY <1>21, FaultsStay, GivenUpStays DEF TransferHasAll, Ended, Rollback, RestartSource, Go, incus,
     Swallowed, setSource, rows, memory, outside, Throws, OneAtATime, MoveKeepsStopped,
     TypeOK, GoesOn
<1>22. ASSUME NEW j \in Job, TargetSucceeds(j) PROVE TransferHasAll'
  BY <1>22, FaultsStay, GivenUpStays DEF TransferHasAll, Ended, Rollback, TargetSucceeds, setOp, rows,
     memory, outside, PastTransfer, MoveKeepsStopped, TypeOK
<1>23. ASSUME NEW j \in Job, TargetFails(j) PROVE TransferHasAll'
  BY <1>23, FaultsStay, GivenUpStays DEF TransferHasAll, Ended, Rollback, TargetFails, InFlight, Revert,
     rows, memory, outside, Partial, setOp, MakingIsPartial, MoveKeepsStopped
<1>24. ASSUME NEW j \in Job, Crash(j) PROVE TransferHasAll'
  BY <1>24, FaultsStay, GivenUpStays DEF TransferHasAll, Ended, Rollback, Crash, Go, incus, rows, memory,
     outside
<1>25. ASSUME Write PROVE TransferHasAll'
  BY <1>25, FaultsStay, GivenUpStays DEF TransferHasAll, Ended, Rollback, Write, rows, memory, outside
<1>26. ASSUME UserStarts PROVE TransferHasAll'
  BY <1>26 DEF UserStarts, TypeOK
<1>27. ASSUME UserCreates PROVE TransferHasAll'
  BY <1>27, FaultsStay, MigrationAssumption DEF TransferHasAll, Ended, Rollback,
     UserCreates, Partial, rows, memory, outside, SuccessIsWhole, MoveKeepsStopped
<1>28. CASE UNCHANGED <<source, data, copied, op, pc, kind>>
  BY <1>28, GivenUpStays DEF TransferHasAll, Ended, Rollback
<1>30. ASSUME NEW c \in {"src", "dst"}, OperationEnds(c) PROVE TransferHasAll'
  BY <1>30, FaultsStay, GivenUpStays DEF OperationEnds, RemoveSource, RemoveCopy, rows,
     memory, outside, TypeOK, OneAtATime, MakingIsPartial, PastTransfer, SuccessIsWhole,
     MoveKeepsStopped, TransferHasAll, Ended, Rollback, InFlight, Partial, PendingIsGivenUp
<1> QED
  BY <1>1, <1>2, <1>3, <1>4, <1>5, <1>6, <1>7, <1>8, <1>9, <1>10, <1>11, <1>12, <1>13,
     <1>14, <1>15, <1>16, <1>17, <1>18, <1>19, <1>20, <1>21, <1>22, <1>23, <1>24, <1>25,
     <1>26, <1>27, <1>28, <1>30 DEF Next, Handler, Target, Elsewhere, vars, incus, rows,
     memory, outside, Cancel, ForgetOwner, ForgetLease, Backfill, GrantLease

(* A copy is started only where the source was running. *)
LEMMA NextOnly ==
  TypeOK /\ OneAtATime /\ MakingIsPartial /\ PendingFits /\ OnlyRunningStarts /\ PastTransfer /\ SuccessIsWhole /\ [Next]_vars => OnlyRunningStarts'
<1> SUFFICES ASSUME TypeOK, OneAtATime, MakingIsPartial, PendingFits, OnlyRunningStarts, PastTransfer, SuccessIsWhole, [Next]_vars
             PROVE  OnlyRunningStarts'
  OBVIOUS
<1> USE MigrationAssumption
<1>1. ASSUME NEW j \in Job, Check(j) PROVE OnlyRunningStarts'
  BY <1>1 DEF Check, Go, preflight, Begin, FirstOf, incus, rows, outside, OnlyRunningStarts,
     TypeOK, OneAtATime, MakingIsPartial, PendingFits, Ended, Rollback, InFlight, Partial
<1>2. ASSUME NEW j \in Job, StopSource(j) PROVE OnlyRunningStarts'
  BY <1>2 DEF StopSource, setSource, FirstOf, rows, outside, Go, Raise, Throws, incus,
     Awaited, GoesOn, canSet, statusOf, OnlyRunningStarts, TypeOK, OneAtATime,
     MakingIsPartial, PendingFits, Ended, Rollback, InFlight, Partial
<1>3. ASSUME NEW j \in Job, StartTarget(j) PROVE OnlyRunningStarts'
  BY <1>3 DEF StartTarget, Request, Create, rows, memory, outside, setOp, Go, Raise, Throws,
     incus, Awaited, OnlyRunningStarts, TypeOK, OneAtATime, MakingIsPartial, PendingFits,
     Ended, Rollback, InFlight, Partial
<1>4. ASSUME NEW j \in Job, StartSource(j) PROVE OnlyRunningStarts'
  BY <1>4 DEF StartSource, Go, Throws, SourceFails, Link, incus, rows, memory, outside,
     OnlyRunningStarts, TypeOK, OneAtATime, MakingIsPartial, PendingFits, Ended, Rollback,
     InFlight, Partial
<1>5. ASSUME NEW j \in Job, Connect(j) PROVE OnlyRunningStarts'
  BY <1>5 DEF Connect, Go, Link, incus, rows, memory, outside, OnlyRunningStarts, TypeOK,
     OneAtATime, MakingIsPartial, PendingFits, Ended, Rollback, InFlight, Partial
<1>6. ASSUME NEW j \in Job, WaitTarget(j) PROVE OnlyRunningStarts'
  BY <1>6 DEF WaitTarget, Go, incus, rows, memory, outside, OnlyRunningStarts, TypeOK,
     OneAtATime, MakingIsPartial, PendingFits, Ended, Rollback, InFlight, Partial
<1>7. ASSUME NEW j \in Job, SourceLost(j) PROVE OnlyRunningStarts'
  BY <1>7 DEF SourceLost, SourceFails, incus, rows, memory, outside, Go, OnlyRunningStarts,
     TypeOK, OneAtATime, MakingIsPartial, PendingFits, Ended, Rollback, InFlight, Partial
<1>8. ASSUME NEW j \in Job, CancelTarget(j) PROVE OnlyRunningStarts'
  BY <1>8 DEF CancelTarget, Swallowed, Revert, rows, memory, outside, setOp, Go, Throws,
     incus, OnlyRunningStarts, TypeOK, OneAtATime, MakingIsPartial, PendingFits, Ended,
     Rollback, InFlight, Partial
<1>9. ASSUME NEW j \in Job, Verify(j) PROVE OnlyRunningStarts'
  BY <1>9 DEF Verify, Request, AfterVerify, incus, rows, memory, outside, Go, Raise, Throws,
     Awaited, OnlyRunningStarts, TypeOK, OneAtATime, MakingIsPartial, PendingFits, Ended,
     Rollback, InFlight, Partial
<1>10. ASSUME NEW j \in Job, StartCopy(j) PROVE OnlyRunningStarts'
  BY <1>10 DEF StartCopy, setCopy, rows, memory, outside, Go, Raise, Throws, incus, Awaited,
     GoesOn, canSet, statusOf, OnlyRunningStarts, TypeOK, OneAtATime, MakingIsPartial,
     PendingFits, Ended, Rollback, InFlight, Partial, PastTransfer, SuccessIsWhole, Verified
<1>11. ASSUME NEW j \in Job, Commit(j) PROVE OnlyRunningStarts'
  BY <1>11 DEF Commit, Go, incus, rows, outside, OnlyRunningStarts, TypeOK, OneAtATime,
     MakingIsPartial, PendingFits, Ended, Rollback, InFlight, Partial
<1>12. ASSUME NEW j \in Job, ReadLeft(j) PROVE OnlyRunningStarts'
  BY <1>12 DEF ReadLeft, Request, incus, rows, memory, outside, Go, Raise, Throws, Awaited,
     OnlyRunningStarts, TypeOK, OneAtATime, MakingIsPartial, PendingFits, Ended, Rollback,
     InFlight, Partial
<1>13. ASSUME NEW j \in Job, StopLeft(j) PROVE OnlyRunningStarts'
  BY <1>13 DEF StopLeft, setSource, rows, memory, outside, Go, Raise, Throws, incus,
     Awaited, GoesOn, canSet, statusOf, OnlyRunningStarts, TypeOK, OneAtATime,
     MakingIsPartial, PendingFits, Ended, Rollback, InFlight, Partial
<1>14. ASSUME NEW j \in Job, DeleteSource(j) PROVE OnlyRunningStarts'
  BY <1>14 DEF DeleteSource, rows, memory, outside, Go, Raise, Throws, incus, Awaited,
     GoesOn, RemoveSource, canDelete, statusOf, OnlyRunningStarts, TypeOK, OneAtATime,
     MakingIsPartial, PendingFits, Ended, Rollback, InFlight, Partial
<1>15. ASSUME NEW j \in Job, CarryOwner(j) PROVE OnlyRunningStarts'
  BY <1>15 DEF CarryOwner, Go, Raise, incus, memory, outside, OnlyRunningStarts, TypeOK,
     OneAtATime, MakingIsPartial, PendingFits, Ended, Rollback, InFlight, Partial
<1>16. ASSUME NEW j \in Job, PutLease(j) PROVE OnlyRunningStarts'
  BY <1>16 DEF PutLease, Go, Raise, incus, memory, outside, OnlyRunningStarts, TypeOK,
     OneAtATime, MakingIsPartial, PendingFits, Ended, Rollback, InFlight, Partial
<1>17. ASSUME NEW j \in Job, BeginRollback(j) PROVE OnlyRunningStarts'
  BY <1>17 DEF BeginRollback, Go, incus, rows, memory, outside, OnlyRunningStarts, TypeOK,
     OneAtATime, MakingIsPartial, PendingFits, Ended, Rollback, InFlight, Partial
<1>18. ASSUME NEW j \in Job, ReadCopy(j) PROVE OnlyRunningStarts'
  BY <1>18 DEF ReadCopy, Go, AfterRead, incus, rows, memory, outside, OnlyRunningStarts,
     TypeOK, OneAtATime, MakingIsPartial, PendingFits, Ended, Rollback, InFlight, Partial
<1>19. ASSUME NEW j \in Job, StopCopy(j) PROVE OnlyRunningStarts'
  BY <1>19 DEF StopCopy, Swallowed, setCopy, rows, memory, outside, Go, Throws, incus,
     GoesOn, canSet, statusOf, OnlyRunningStarts, TypeOK, OneAtATime, MakingIsPartial,
     PendingFits, Ended, Rollback, InFlight, Partial
<1>20. ASSUME NEW j \in Job, DeleteCopy(j) PROVE OnlyRunningStarts'
  BY <1>20 DEF DeleteCopy, Swallowed, rows, memory, outside, Go, Throws, incus, GoesOn,
     RemoveCopy, canDelete, statusOf, OnlyRunningStarts, TypeOK, OneAtATime,
     MakingIsPartial, PendingFits, Ended, Rollback, InFlight, Partial
<1>21. ASSUME NEW j \in Job, RestartSource(j) PROVE OnlyRunningStarts'
  BY <1>21 DEF RestartSource, Go, Swallowed, setSource, incus, rows, memory, outside,
     Throws, GoesOn, canSet, statusOf, OnlyRunningStarts, TypeOK, OneAtATime,
     MakingIsPartial, PendingFits, Ended, Rollback, InFlight, Partial
<1>22. ASSUME NEW j \in Job, TargetSucceeds(j) PROVE OnlyRunningStarts'
  BY <1>22 DEF TargetSucceeds, setOp, rows, memory, outside, OnlyRunningStarts, TypeOK,
     OneAtATime, MakingIsPartial, PendingFits, Ended, Rollback, InFlight, Partial
<1>23. ASSUME NEW j \in Job, TargetFails(j) PROVE OnlyRunningStarts'
  BY <1>23 DEF TargetFails, Revert, rows, memory, outside, setOp, OnlyRunningStarts, TypeOK,
     OneAtATime, MakingIsPartial, PendingFits, Ended, Rollback, InFlight, Partial
<1>24. ASSUME NEW j \in Job, Crash(j) PROVE OnlyRunningStarts'
  BY <1>24 DEF Crash, Go, incus, rows, memory, outside, OnlyRunningStarts, TypeOK,
     OneAtATime, MakingIsPartial, PendingFits, Ended, Rollback, InFlight, Partial
<1>25. ASSUME NEW c \in {"src", "dst"}, OperationEnds(c) PROVE OnlyRunningStarts'
  BY <1>25 DEF OperationEnds, RemoveSource, RemoveCopy, rows, memory, outside,
     OnlyRunningStarts, TypeOK, OneAtATime, MakingIsPartial, PendingFits, Ended, Rollback,
     InFlight, Partial
<1>26. ASSUME UserCreates PROVE OnlyRunningStarts'
  BY <1>26 DEF UserCreates, rows, memory, outside, OnlyRunningStarts, TypeOK, OneAtATime,
     MakingIsPartial, PendingFits, Ended, Rollback, InFlight, Partial
<1>27. CASE UNCHANGED <<pending, maker, pc, copy, kind, wasRunning>>
  BY <1>27 DEF OnlyRunningStarts
<1> QED
  BY <1>1, <1>2, <1>3, <1>4, <1>5, <1>6, <1>7, <1>8, <1>9, <1>10, <1>11, <1>12, <1>13,
     <1>14, <1>15, <1>16, <1>17, <1>18, <1>19, <1>20, <1>21, <1>22, <1>23, <1>24, <1>25,
     <1>26, <1>27 DEF Next, Handler, Target, Elsewhere, vars, incus, rows, memory, outside,
     Cancel, Write, UserStarts, setSource, ForgetOwner, ForgetLease, Backfill, GrantLease

(* What is deleted late had been transferred whole, and is not running. *)
LEMMA NextDeletes ==
  TypeOK /\ OneAtATime /\ MakingIsPartial /\ PastTransfer /\ SuccessIsWhole /\ GoneForGood
  /\ PendingFits /\ PendingIsGivenUp /\ TransferHasAll /\ DeletesAll /\ [Next]_vars =>
  DeletesAll'
<1> SUFFICES ASSUME TypeOK, OneAtATime, MakingIsPartial, PastTransfer, SuccessIsWhole,
                    GoneForGood, PendingFits, PendingIsGivenUp, TransferHasAll,
                    DeletesAll, [Next]_vars
             PROVE  DeletesAll'
  OBVIOUS
<1> USE MigrationAssumption
<1>1. ASSUME NEW j \in Job, StopSource(j) PROVE DeletesAll'
  BY <1>1, GivenUpStays DEF StopSource, setSource, FirstOf, rows, outside, Go, Raise,
     Throws, incus, Awaited, GoesOn, canSet, statusOf, DeletesAll, TypeOK, OneAtATime,
     MakingIsPartial, PastTransfer, SuccessIsWhole, GoneForGood, PendingFits,
     PendingIsGivenUp, TransferHasAll, Ended, Rollback, InFlight, Partial
<1>2. ASSUME NEW j \in Job, StartTarget(j) PROVE DeletesAll'
  BY <1>2, GivenUpStays DEF StartTarget, Request, Create, rows, memory, outside, setOp, Go,
     Raise, Throws, incus, Awaited, DeletesAll, TypeOK, OneAtATime, MakingIsPartial,
     PastTransfer, SuccessIsWhole, GoneForGood, PendingFits, PendingIsGivenUp,
     TransferHasAll, Ended, Rollback, InFlight, Partial
<1>3. ASSUME NEW j \in Job, CancelTarget(j) PROVE DeletesAll'
  BY <1>3, GivenUpStays DEF CancelTarget, Swallowed, Revert, rows, memory, outside, setOp,
     Go, Throws, incus, DeletesAll, TypeOK, OneAtATime, MakingIsPartial, PastTransfer,
     SuccessIsWhole, GoneForGood, PendingFits, PendingIsGivenUp, TransferHasAll, Ended,
     Rollback, InFlight, Partial
<1>4. ASSUME NEW j \in Job, StartCopy(j) PROVE DeletesAll'
  BY <1>4, GivenUpStays DEF StartCopy, setCopy, rows, memory, outside, Go, Raise, Throws,
     incus, Awaited, GoesOn, canSet, statusOf, DeletesAll, TypeOK, OneAtATime,
     MakingIsPartial, PastTransfer, SuccessIsWhole, GoneForGood, PendingFits,
     PendingIsGivenUp, TransferHasAll, Ended, Rollback, InFlight, Partial
<1>5. ASSUME NEW j \in Job, StopLeft(j) PROVE DeletesAll'
  BY <1>5, GivenUpStays DEF StopLeft, setSource, rows, memory, outside, Go, Raise, Throws,
     incus, Awaited, GoesOn, canSet, statusOf, DeletesAll, TypeOK, OneAtATime,
     MakingIsPartial, PastTransfer, SuccessIsWhole, GoneForGood, PendingFits,
     PendingIsGivenUp, TransferHasAll, Ended, Rollback, InFlight, Partial
<1>6. ASSUME NEW j \in Job, DeleteSource(j) PROVE DeletesAll'
  <2>1. pc[j] = "delete"
    BY <1>6 DEF DeleteSource
  <2>2. copied = data \/ RestartGivenUp
    BY <2>1 DEF PastTransfer, Verified, Commitment, TransferHasAll, Ended, Rollback
  <2> QED
    BY <1>6, <2>2, Outcomes, GivenUpStays DEF GoesOn, RemoveSource, incus, DeletesAll
<1>7. ASSUME NEW j \in Job, StopCopy(j) PROVE DeletesAll'
  BY <1>7, GivenUpStays DEF StopCopy, Swallowed, setCopy, rows, memory, outside, Go, Throws,
     incus, GoesOn, canSet, statusOf, DeletesAll, TypeOK, OneAtATime, MakingIsPartial,
     PastTransfer, SuccessIsWhole, GoneForGood, PendingFits, PendingIsGivenUp,
     TransferHasAll, Ended, Rollback, InFlight, Partial
<1>8. ASSUME NEW j \in Job, DeleteCopy(j) PROVE DeletesAll'
  BY <1>8, GivenUpStays DEF DeleteCopy, Swallowed, rows, memory, outside, Go, Throws, incus,
     GoesOn, RemoveCopy, canDelete, statusOf, DeletesAll, TypeOK, OneAtATime,
     MakingIsPartial, PastTransfer, SuccessIsWhole, GoneForGood, PendingFits,
     PendingIsGivenUp, TransferHasAll, Ended, Rollback, InFlight, Partial
<1>9. ASSUME NEW j \in Job, RestartSource(j) PROVE DeletesAll'
  BY <1>9, GivenUpStays DEF RestartSource, Go, Swallowed, setSource, incus, rows, memory,
     outside, Throws, GoesOn, canSet, statusOf, DeletesAll, TypeOK, OneAtATime,
     MakingIsPartial, PastTransfer, SuccessIsWhole, GoneForGood, PendingFits,
     PendingIsGivenUp, TransferHasAll, Ended, Rollback, InFlight, Partial
<1>10. ASSUME NEW j \in Job, TargetSucceeds(j) PROVE DeletesAll'
  BY <1>10, GivenUpStays DEF TargetSucceeds, setOp, rows, memory, outside, DeletesAll,
     TypeOK, OneAtATime, MakingIsPartial, PastTransfer, SuccessIsWhole, GoneForGood,
     PendingFits, PendingIsGivenUp, TransferHasAll, Ended, Rollback, InFlight, Partial
<1>11. ASSUME NEW j \in Job, TargetFails(j) PROVE DeletesAll'
  BY <1>11, GivenUpStays DEF TargetFails, Revert, rows, memory, outside, setOp, DeletesAll,
     TypeOK, OneAtATime, MakingIsPartial, PastTransfer, SuccessIsWhole, GoneForGood,
     PendingFits, PendingIsGivenUp, TransferHasAll, Ended, Rollback, InFlight, Partial
<1>12. ASSUME NEW c \in {"src", "dst"}, OperationEnds(c) PROVE DeletesAll'
  <2>1. pending'["src"] = "absent" => c = "dst" /\ pending["src"] = "absent"
    BY <1>12 DEF OperationEnds, TypeOK
  <2>2. data' = data
    BY <1>12 DEF OperationEnds, RemoveSource, RemoveCopy
  <2>3. pending["src"] = "absent" /\ c = "dst" => copied' = copied
    BY <1>12 DEF OperationEnds, RemoveCopy, GoneForGood
  <2> QED
    BY <2>1, <2>2, <2>3, GivenUpStays DEF DeletesAll
<1>13. ASSUME Write PROVE DeletesAll'
  BY <1>13, GivenUpStays DEF Write, rows, memory, outside, DeletesAll, TypeOK, OneAtATime,
     MakingIsPartial, PastTransfer, SuccessIsWhole, GoneForGood, PendingFits,
     PendingIsGivenUp, TransferHasAll, Ended, Rollback, InFlight, Partial
<1>14. ASSUME UserCreates PROVE DeletesAll'
  BY <1>14, GivenUpStays DEF UserCreates, rows, memory, outside, DeletesAll, TypeOK,
     OneAtATime, MakingIsPartial, PastTransfer, SuccessIsWhole, GoneForGood, PendingFits,
     PendingIsGivenUp, TransferHasAll, Ended, Rollback, InFlight, Partial
<1>15. CASE UNCHANGED <<pending, copied, data>>
  BY <1>15, GivenUpStays DEF DeletesAll
<1> QED
  BY <1>1, <1>2, <1>3, <1>4, <1>5, <1>6, <1>7, <1>8, <1>9, <1>10, <1>11, <1>12, <1>13,
     <1>14, <1>15 DEF Next, Handler, Target, Elsewhere, vars, incus, rows, memory, outside,
     StartSource, Go, Throws, SourceFails, Link, Connect, WaitTarget, SourceLost, Verify,
     Request, AfterVerify, Raise, Awaited, Commit, ReadLeft, CarryOwner, PutLease,
     BeginRollback, ReadCopy, AfterRead, Cancel, Crash, UserStarts, setSource, ForgetOwner,
     ForgetLease, Backfill, GrantLease, Check, preflight

(* The rollback starts the source, when no user does, and has read and stopped the copy before. *)
LEMMA NextTwin == TypeOK /\ MaxUserStarts = 0 /\ OneAtATime /\ MakingIsPartial /\ RunningOwnsName /\ RollbackStops /\ SuccessIsWhole /\ PastTransfer /\ MoveKeepsStopped /\ TwinIsExcused /\ PendingIsGivenUp /\ RestartIsOver /\ OnlyRunningStarts /\ [Next]_vars => TwinIsExcused'
<1> SUFFICES ASSUME TypeOK, MaxUserStarts = 0, OneAtATime, MakingIsPartial, RunningOwnsName, RollbackStops, SuccessIsWhole, PastTransfer, MoveKeepsStopped, TwinIsExcused, PendingIsGivenUp, RestartIsOver, OnlyRunningStarts, [Next]_vars PROVE TwinIsExcused'
  OBVIOUS
<1>1. ASSUME NEW j \in Job, Check(j) PROVE TwinIsExcused'
  BY <1>1, FaultsStay, MigrationAssumption DEF TwinIsExcused, Check, Ended, preflight, Go,
     Begin, incus, rows, outside, FirstOf, MoveKeepsStopped
<1>2. ASSUME NEW j \in Job, StopSource(j) PROVE TwinIsExcused'
  <2>1. UNCHANGED kind
    BY <1>2 DEF StopSource
  <2> QED
    BY <1>2, <2>1, Outcomes, GoesOnNotes, FaultsStay DEF TwinIsExcused, setSource, incus
<1>3. ASSUME NEW j \in Job, StartTarget(j) PROVE TwinIsExcused'
  BY <1>3, FaultsStay DEF TwinIsExcused, StartTarget, Request, Create, rows, memory,
     outside, Go, Throws, Raise, Partial, setOp, incus, Awaited
<1>4. ASSUME NEW j \in Job, StartSource(j) PROVE TwinIsExcused'
  BY <1>4, FaultsStay DEF TwinIsExcused, StartSource, Link, Go, incus, Throws, SourceFails,
     rows, memory, outside
<1>5. ASSUME NEW j \in Job, Connect(j) PROVE TwinIsExcused'
  BY <1>5, FaultsStay DEF TwinIsExcused, Connect, Link, Go, incus, rows, memory, outside
<1>6. ASSUME NEW j \in Job, WaitTarget(j) PROVE TwinIsExcused'
  BY <1>6, FaultsStay DEF TwinIsExcused, WaitTarget, Go, incus, rows, memory, outside
<1>7. ASSUME NEW j \in Job, CancelTarget(j) PROVE TwinIsExcused'
  BY <1>7, FaultsStay DEF TwinIsExcused, CancelTarget, Swallowed, InFlight, Revert, rows,
     memory, outside, Throws, Go, Partial, setOp, incus
<1>8. ASSUME NEW j \in Job, Verify(j) PROVE TwinIsExcused'
  BY <1>8, FaultsStay DEF TwinIsExcused, Verify, Request, incus, AfterVerify, rows, memory,
     outside, Go, Throws, Raise, Awaited
<1>9. ASSUME NEW j \in Job, StartCopy(j) PROVE TwinIsExcused'
  <2>1. pc[j] = "startCopy" /\ UNCHANGED <<source, maker, kind>>
    BY <1>9, Outcomes DEF StartCopy, setCopy, GoesOn, memory, incus
  <2>2. maker = j
    BY <2>1 DEF PastTransfer, Verified, SuccessIsWhole, Ended, Rollback
  <2>3. pending'["src"] = pending["src"]
    BY <1>9, Outcomes, GoesOnNotes DEF setCopy, incus
  <2>4. kind[j] = "move" => source # "running" /\ pending["src"] # "running"
    BY <2>1 DEF MoveKeepsStopped, OnlyRunningStarts, RestartIsOver, Ended, Rollback
  <2>5. QED
    BY <2>1, <2>2, <2>3, <2>4 DEF TwinIsExcused
<1>10. ASSUME NEW j \in Job, Commit(j) PROVE TwinIsExcused'
  BY <1>10, FaultsStay DEF TwinIsExcused, Commit, Go, incus, rows, outside
<1>11. ASSUME NEW j \in Job, ReadLeft(j) PROVE TwinIsExcused'
  BY <1>11, FaultsStay DEF TwinIsExcused, ReadLeft, Request, incus, rows, memory, outside,
     Go, Throws, Raise, Awaited
<1>12. ASSUME NEW j \in Job, StopLeft(j) PROVE TwinIsExcused'
  BY <1>12, Outcomes, GoesOnNotes, FaultsStay DEF TwinIsExcused, setSource, incus, memory,
     StopLeft
<1>13. ASSUME NEW j \in Job, DeleteSource(j) PROVE TwinIsExcused'
  BY <1>13, Outcomes, GoesOnNotes, FaultsStay DEF TwinIsExcused, RemoveSource, incus, memory,
     DeleteSource
<1>14. ASSUME NEW j \in Job, CarryOwner(j) PROVE TwinIsExcused'
  BY <1>14, FaultsStay DEF TwinIsExcused, CarryOwner, Go, Raise, incus, memory, outside
<1>15. ASSUME NEW j \in Job, PutLease(j) PROVE TwinIsExcused'
  BY <1>15, FaultsStay DEF TwinIsExcused, PutLease, Go, Raise, incus, memory, outside
<1>16. ASSUME NEW j \in Job, BeginRollback(j) PROVE TwinIsExcused'
  BY <1>16, FaultsStay DEF TwinIsExcused, BeginRollback, Go, incus, rows, memory, outside
<1>17. ASSUME NEW j \in Job, ReadCopy(j) PROVE TwinIsExcused'
  BY <1>17, FaultsStay DEF TwinIsExcused, ReadCopy, Go, AfterRead, incus, rows, memory,
     outside
<1>18. ASSUME NEW j \in Job, StopCopy(j) PROVE TwinIsExcused'
  BY <1>18, Outcomes, GoesOnNotes, FaultsStay DEF TwinIsExcused, setCopy, incus, memory,
     StopCopy
<1>19. ASSUME NEW j \in Job, DeleteCopy(j) PROVE TwinIsExcused'
  BY <1>19, Outcomes, GoesOnNotes, FaultsStay, MigrationAssumption DEF TwinIsExcused,
     RemoveCopy, incus, memory, DeleteCopy
<1>20. ASSUME NEW j \in Job, RestartSource(j) PROVE TwinIsExcused'
  <2>1. pc[j] = "rbStart" /\ UNCHANGED <<maker, kind, copy>>
    BY <1>20 DEF RestartSource, Swallowed, Throws, setSource, memory, incus, GoesOn
  <2>2. maker \in {Nobody, j, Other}
    BY <2>1 DEF RunningOwnsName, Ended
  <2>3. \A k \in Job : maker = k => k = j
    BY <2>2, MigrationAssumption
  <2>4. maker = j /\ kind[j] = "move" /\ copy = "running" 
           => Failed(j, {"rbRead", "rbStop"}) \/ GivenUp(j, {"startCopy"})
    BY <2>1 DEF RollbackStops
  <2>5. QED
    BY <2>1, <2>3, <2>4, FaultsStay DEF TwinIsExcused
<1>21. ASSUME NEW j \in Job, TargetSucceeds(j) PROVE TwinIsExcused'
  BY <1>21, FaultsStay, MigrationAssumption DEF TwinIsExcused, TargetSucceeds, setOp, rows,
     memory, outside, MakingIsPartial, InFlight
<1>22. ASSUME NEW j \in Job, TargetFails(j) PROVE TwinIsExcused'
  BY <1>22, FaultsStay DEF TwinIsExcused, TargetFails, InFlight, Revert, rows, memory,
     outside, Partial, setOp
<1>23. ASSUME UserStarts PROVE TwinIsExcused'
  BY <1>23 DEF UserStarts, TypeOK
<1>24. ASSUME UserCreates PROVE TwinIsExcused'
  BY <1>24, FaultsStay DEF TwinIsExcused, UserCreates, Partial, rows, memory, outside
<1>25. CASE UNCHANGED <<source, maker, copy, pending, kind, faults>>
  BY <1>25, FaultsStay DEF TwinIsExcused
<1>27. ASSUME NEW c \in {"src", "dst"}, OperationEnds(c) PROVE TwinIsExcused'
  BY <1>27, FaultsStay DEF OperationEnds, RemoveSource, RemoveCopy, rows, memory, outside,
     TypeOK, OneAtATime, MakingIsPartial, RunningOwnsName, RollbackStops, SuccessIsWhole,
     PastTransfer, MoveKeepsStopped, TwinIsExcused, Ended, Rollback, InFlight, Partial,
     PendingIsGivenUp, RestartIsOver, OnlyRunningStarts
<1> QED
  BY <1>1, <1>2, <1>3, <1>4, <1>5, <1>6, <1>7, <1>8, <1>9, <1>10, <1>11, <1>12, <1>13,
     <1>14, <1>15, <1>16, <1>17, <1>18, <1>19, <1>20, <1>21, <1>22, <1>23, <1>24, <1>25,
     <1>27 DEF Next, Handler, Target, Elsewhere, vars, incus, rows, memory, outside,
     SourceLost, Cancel, Crash, Write, ForgetOwner, ForgetLease, Backfill, GrantLease, Go

(* A handler's step is taken by a job that runs. *)
LEMMA HandlerRuns == ASSUME NEW j \in Job, Handler(j) PROVE pc[j] \notin Ended
BY DEF Handler, StopSource, StartTarget, StartSource, Connect, WaitTarget, SourceLost,
   CancelTarget, Verify, StartCopy, Commit, ReadLeft, StopLeft, DeleteSource, CarryOwner,
   PutLease, BeginRollback, ReadCopy, StopCopy, DeleteCopy, RestartSource, Ended

(* No job has begun: nothing moves and nothing runs at the target. *)
LEMMA InitQuiet == Init => QuietInv
BY MigrationAssumption DEF Init, QuietInv, MoveKeepsStopped, OnlyRunningStarts, TransferHasAll,
   DeletesAll, TwinIsExcused, Ended

(* Every step keeps the invariant. *)
LEMMA NextIInv == IInv /\ [Next]_vars => IInv'
<1> SUFFICES ASSUME IInv, [Next]_vars PROVE IInv'
  OBVIOUS
<1>1. TypeOK' /\ OneAtATime' /\ MakingIsPartial' /\ PastTransfer'
  BY NextType, NextOne, NextMaking, NextPast DEF IInv
<1>2. SuccessIsWhole' /\ GoneForGood'
  BY NextSuccess, NextGone DEF IInv
<1>6. PendingFits' /\ PendingIsGivenUp' /\ RestartIsOver'
  BY NextFits, NextGivenUp, NextOver DEF IInv
<1>3. RunningOwnsName' /\ LateIsFailed' /\ ReadIsOwn'
  BY NextOwns, NextLate, NextOwn DEF IInv
<1>4. RollbackStops' /\ RollbackRemoves' /\ RunsUnlessStopped' /\ StopIsNoted'
  BY NextStops, NextRemoves, NextRuns, NextNoted DEF IInv
<1>5. LeaseIsRead' /\ LeaseKept'
  BY NextLease, NextKept DEF IInv
<1> QED
  BY <1>1, <1>2, <1>3, <1>4, <1>5, <1>6 DEF IInv

(* The inductive invariant of the migrate handler and what runs beside it. *)
THEOREM Invariance == Spec => []IInv
BY InitIInv, NextIInv, PTL DEF Spec

(* Types: every reachable state is typed. *)
THEOREM TypeCorrect == Spec => []TypeOK
<1>1. IInv => TypeOK
  BY DEF IInv
<1> QED
  BY Invariance, <1>1, PTL

(* migrateHandler never deletes the last complete instance: as the job queue
   runs one job per instance at a time, the source stays until the job's copy is whole,
   and from then on the copy does, whatever requests fail or go unanswered, and
   whenever jobs are cancelled, crash or are tried again. *)
THEOREM NothingLost == Spec => []NeverLost
<1>1. IInv => NeverLost
  BY DEF IInv, GoneForGood, NeverLost
<1> QED
  BY Invariance, <1>1, PTL

(* A moved instance has the lease it had at the source, although the delete event
   forgets that one and a policy may have given the copy another. *)
THEOREM LeaseMoves == Spec => []LeaseKept
<1>1. IInv => LeaseKept
  BY DEF IInv
<1> QED
  BY Invariance, <1>1, PTL

(* The rollback deletes by name, and takes what is not its own only if Incus may
   have withdrawn the copy after the rollback read it. *)
THEOREM RemovesItsOwn == Spec => OnlyOwnRemoved
<1> DEFINE Own == \A j \in Job : pc[j] = "rbDelete" /\ maker # Nobody /\ maker' = Nobody
                                   => maker = j \/ MayRevertLate(j)
<1>1. IInv /\ [Next]_vars => [Own]_vars
  BY DEF IInv, ReadIsOwn
<1> QED
  BY Invariance, <1>1, PTL DEF Spec, OnlyOwnRemoved

(* A rollback whose requests succeed leaves no copy of the job, and the source
   running if it ran, unless a stop of the source or the start of the copy went
   unanswered, an operation still makes the copy, or the guest has left live. *)
THEOREM RollbackIsWhole == Spec => RollbackRestores
<1> DEFINE Clean(j) == RolledBack(j) /\ ~StopGivenUp /\ source # "left"
<1>1. ASSUME IInv, Next, NEW j \in Job, Clean(j) PROVE Restored(j)
  <2> USE MigrationAssumption
  <2>1. pc \in [Job -> Step] /\ pc[j] \in Rollback /\ pc[j] \notin Ended /\ pc'[j] = "failed"
    BY <1>1 DEF Clean, RolledBack, IInv, TypeOK, Rollback, Ended
  <2>2. \A k \in Job : k # j => pc[k] \in Ended
    BY <1>1, <2>1 DEF IInv, OneAtATime
  <2>3. ASSUME NEW k \in Job, Check(k) \/ Crash(k) \/ Cancel(k) \/ Target(k) PROVE FALSE
    BY <2>1, <2>2, <2>3 DEF Check, Crash, Cancel, Target, TargetSucceeds, TargetFails, Go,
       Rollback
  <2>4. ~Elsewhere
    BY <2>1 DEF Elsewhere, OperationEnds, Write, UserStarts, UserCreates, ForgetOwner,
       ForgetLease, Backfill, GrantLease, Rollback
  <2>5. PICK k \in Job : Handler(k)
    BY <1>1, <2>3, <2>4 DEF Next
  <2>6. k = j
    BY <2>2, <2>5, HandlerRuns
  <2>7. BeginRollback(j) \/ ReadCopy(j) \/ StopCopy(j) \/ DeleteCopy(j) \/ RestartSource(j)
    BY <2>1, <2>5, <2>6 DEF Handler, StopSource, StartTarget, StartSource, Connect,
       WaitTarget, SourceLost, CancelTarget, Verify, StartCopy, Commit, ReadLeft, StopLeft,
       DeleteSource, CarryOwner, PutLease, Rollback
  <2>8. ASSUME NEW how PROVE ~Fails(j, how)
    BY <1>1, FailsAdds DEF Clean, RolledBack
  <2>9. RestartSource(j)
    BY <2>1, <2>7, <2>8 DEF BeginRollback, ReadCopy, AfterRead, StopCopy, DeleteCopy,
       Swallowed, Go
  <2>10. /\ maker' = maker /\ pc[j] = "rbStart"
         /\ stoppedSource[j] => source' = "running" \/ ~canSet("src", "running")
         /\ ~stoppedSource[j] => source' = source
    BY <2>8, <2>9 DEF RestartSource, Swallowed, Throws, setSource, incus
  <2>11. maker # j
    BY <1>1, <2>10 DEF Clean, RolledBack, IInv, RollbackRemoves
  <2>12. source # "absent" /\ pending["src"] # "absent"
    BY <1>1, <2>10 DEF IInv, GoneForGood, Ended
  <2>13. wasRunning[j] /\ ~stoppedSource[j] => source = "running"
    BY <1>1, <2>1, <2>10 DEF Clean, IInv, RunsUnlessStopped, committed, Commitment
  <2>14. wasRunning[j] => pending["src"] = "none"
    BY <1>1, <2>1, <2>12 DEF Clean, IInv, TypeOK, PendingIsGivenUp, RestartIsOver
  <2>15. wasRunning[j] => canSet("src", "running")
    BY <2>12, <2>14 DEF canSet, statusOf
  <2> QED
    BY <2>10, <2>11, <2>13, <2>15 DEF Restored
<1>2. IInv /\ [Next]_vars => [\A j \in Job : Clean(j) => Restored(j)]_vars
  BY <1>1
<1> QED
  BY Invariance, <1>2, PTL DEF Spec, RollbackRestores

(* The facts about a source nobody else starts, together. *)
LEMMA NextQuiet == MaxUserStarts = 0 /\ IInv /\ QuietInv /\ [Next]_vars => QuietInv'
<1> SUFFICES ASSUME MaxUserStarts = 0, IInv, QuietInv, [Next]_vars PROVE QuietInv'
  OBVIOUS
<1>1. MoveKeepsStopped' /\ OnlyRunningStarts'
  BY NextStopped, NextOnly DEF IInv, QuietInv
<1>2. TransferHasAll' /\ DeletesAll'
  BY NextHasAll, NextDeletes DEF IInv, QuietInv
<1>3. TwinIsExcused'
  BY NextTwin DEF IInv, QuietInv
<1> QED
  BY <1>1, <1>2, <1>3 DEF QuietInv

(* When no user starts the source beside the job, a move never leaves one guest
   running on both clusters, unless the rollback could not read or stop the copy or
   the handler gave up waiting for its start. *)
THEOREM TwinsNeedFaults == MaxUserStarts = 0 => (Spec => []TwinNeedsFault)
<1> SUFFICES ASSUME MaxUserStarts = 0 PROVE Spec => []TwinNeedsFault
  OBVIOUS
<1>1. Init => IInv /\ QuietInv
  BY InitIInv, InitQuiet
<1>2. IInv /\ QuietInv /\ [Next]_vars => IInv' /\ QuietInv'
  BY NextIInv, NextQuiet
<1>3. QuietInv => TwinNeedsFault
  BY DEF QuietInv, TwinIsExcused, TwinNeedsFault
<1> QED
  BY <1>1, <1>2, <1>3, PTL DEF Spec

(* When neither a user nor a late restart starts the source beside the job, what a
   move deletes has nothing that its copy has not. *)
THEOREM WritesAreKept == MaxUserStarts = 0 => (Spec => DeleteKeepsWrites)
<1> SUFFICES ASSUME MaxUserStarts = 0 PROVE Spec => DeleteKeepsWrites
  OBVIOUS
<1> DEFINE Keeps == source # "absent" /\ source' = "absent" => copied = data \/ RestartGivenUp
<1>1. Init => IInv /\ QuietInv
  BY InitIInv, InitQuiet
<1>2. IInv /\ QuietInv /\ [Next]_vars => IInv' /\ QuietInv'
  BY NextIInv, NextQuiet
<1>3. IInv /\ QuietInv /\ [Next]_vars => [Keeps]_vars
  <2> SUFFICES ASSUME IInv, QuietInv, Next, source # "absent", source' = "absent"
               PROVE  copied = data \/ RestartGivenUp
    OBVIOUS
  <2>1. (\E j \in Job : DeleteSource(j)) \/ (\E c \in {"src", "dst"} : OperationEnds(c))
    BY DEF Next, Elsewhere, Target, Handler, Check, Cancel, Crash, TargetSucceeds,
       TargetFails, Write, UserStarts, UserCreates, ForgetOwner, ForgetLease, Backfill,
       GrantLease, StopSource, StartTarget, StartSource, Connect, WaitTarget, SourceLost,
       CancelTarget, Verify, StartCopy, Commit, ReadLeft, StopLeft, CarryOwner, PutLease,
       BeginRollback, ReadCopy, StopCopy, DeleteCopy, RestartSource, Request, Awaited,
       Swallowed, Throws, setSource, setCopy, GoesOn, RemoveCopy, Create, Revert, Link, incus
  <2>2. ASSUME NEW j \in Job, DeleteSource(j) PROVE copied = data \/ RestartGivenUp
    <3>1. pc[j] = "delete"
      BY <2>2 DEF DeleteSource
    <3>2. op[j] = "success" /\ kind[j] # "copy"
      BY <3>1 DEF IInv, PastTransfer, Verified, Commitment
    <3> QED
      BY <3>1, <3>2 DEF QuietInv, TransferHasAll, Ended, Rollback
  <2>3. ASSUME NEW c \in {"src", "dst"}, OperationEnds(c) PROVE copied = data \/ RestartGivenUp
    <3>1. pending["src"] = "absent"
      BY <2>3 DEF OperationEnds, RemoveCopy
    <3> QED
      BY <3>1 DEF QuietInv, DeletesAll
  <2> QED
    BY <2>1, <2>2, <2>3
<1> QED
  BY <1>1, <1>2, <1>3, PTL DEF Spec, DeleteKeepsWrites
=============================================================================
