--------------------------- MODULE JobRunnerProofs ---------------------------
(***************************************************************************)
(* Proofs about JobRunner, for any number of jobs, instances and processes *)
(* and any bound on stalls and lost commits unless a theorem says          *)
(* otherwise.  Each invariant has its own preservation lemma, with one     *)
(* step per action; IInv is their conjunction.                             *)
(***************************************************************************)
EXTENDS JobRunner, TLAPS

(* Every action keeps the variables in their types. *)
LEMMA TypeStep == IInv /\ [Next]_vars => TypeOK'
<1> SUFFICES ASSUME IInv, [Next]_vars PROVE TypeOK'
  OBVIOUS
<1> USE JobAssumption, ProcAssumption, BoundAssumption
<1>1. ASSUME NEW j \in Job, Enqueue(j) PROVE TypeOK'
  BY <1>1
  DEF IInv, Enqueue, enqueueJob, KeyFree, TypeOK, State, Active, Mode, Step, table, lease,
      local, bounds
<1>2. ASSUME NEW j \in Job, CancelQueued(j) PROVE TypeOK'
  BY <1>2 DEF IInv, CancelQueued, TypeOK, State, Terminal, Mode, Step, table, lease, local, bounds
<1>3. ASSUME NEW j \in Job, CancelRunning(j) PROVE TypeOK'
  BY <1>3 DEF IInv, CancelRunning, TypeOK, table, lease, local, bounds
<1>4. ASSUME NEW p \in Proc, BeginPass(p) PROVE TypeOK'
  BY <1>4
  DEF IInv, BeginPass, acquireLease, At, TypeOK, State, Mode, Step, table, lease, local, bounds
<1>5. ASSUME NEW p \in Proc, Sweep(p) PROVE TypeOK'
  BY <1>5
  DEF IInv, Sweep, At, Swept, TypeOK, State, Terminal, Mode, Step, table, lease, local, bounds
<1>6. ASSUME NEW p \in Proc, Schedule(p) PROVE TypeOK'
  BY <1>6
  DEF IInv, Schedule, At, enqueueJob, KeyFree, TypeOK, State, Active, Mode, Step, table, lease,
      local, bounds
<1>7. ASSUME NEW p \in Proc, EndSchedule(p) PROVE TypeOK'
  BY <1>7 DEF IInv, EndSchedule, At, TypeOK, State, Mode, Step, table, lease, local, bounds
<1>8. ASSUME NEW p \in Proc, Select(p) PROVE TypeOK'
  BY <1>8 DEF IInv, Select, At, Oldest, TypeOK, State, Mode, Step, table, lease, local, bounds
<1>9. ASSUME NEW p \in Proc, EndPass(p) PROVE TypeOK'
  BY <1>9 DEF IInv, EndPass, At, TypeOK, State, Mode, Step, table, lease, local, bounds
<1>10. ASSUME NEW p \in Proc, Claim(p) PROVE TypeOK'
  <2>1. next[p] \in Job
    BY <1>10 DEF IInv, Selected, Claim, At
  <2>2. CASE claimRow(p, next[p]) /\ run' = [run EXCEPT ![p][next[p]] = "running"]
    BY <1>10, <2>1, <2>2
    DEF IInv, Claim, At, claimRow, TypeOK, State, Active, Mode, Step, table, lease, local,
        bounds
  <2>3. CASE UNCHANGED <<table, run>>
    BY <1>10, <2>1, <2>3
    DEF IInv, Claim, At, claimRow, TypeOK, State, Mode, Step, table, lease, local, bounds
  <2>4. QED
    BY <1>10, <2>2, <2>3 DEF Claim
<1>11. ASSUME NEW p \in Proc, ClaimUnanswered(p) PROVE TypeOK'
  <2>1. next[p] \in Job
    BY <1>11 DEF IInv, Selected, ClaimUnanswered, At
  <2>2. QED
    BY <1>11, <2>1
    DEF IInv, ClaimUnanswered, At, claimRow, TypeOK, State, Active, Mode, Step, table, lease,
        local, bounds
<1>12. ASSUME NEW p \in Proc, PassFails(p) PROVE TypeOK'
  BY <1>12 DEF IInv, PassFails, TypeOK, State, Mode, Step, table, lease, local, bounds
<1>13. ASSUME NEW p \in Proc, NEW j \in Job, FinishThrows(p, j) PROVE TypeOK'
  <2>1. Thrown(p, j) \in {"failed", "cancelled"}
    BY DEF Thrown
  <2>2. Thrown(p, j) = "cancelled" => mode[p] = "up" /\ j \in aborted[p]
    BY DEF Thrown, Stopped
  <2>3. state' = state \/ (run[p][j] \in Terminal /\ state' = [state EXCEPT ![j] = run[p][j]])
    BY <1>13 DEF FinishThrows
  <2>4. CASE run[p][j] = "succeeded" /\ run' = [run EXCEPT ![p][j] = Thrown(p, j)] /\ UNCHANGED aborted
    <3>1. CASE state' = state
      BY <1>13, <2>1, <2>2, <2>4, <3>1
      DEF IInv, FinishThrows, TypeOK, Terminal, table, lease, local, bounds
    <3>2. CASE state' = [state EXCEPT ![j] = run[p][j]]
      BY <1>13, <2>1, <2>2, <2>4, <3>2
      DEF IInv, FinishThrows, TypeOK, State, Terminal, Mode, Step, table, lease, local, bounds
    <3>3. QED
      BY <2>3, <3>1, <3>2
  <2>5. CASE run[p][j] # "succeeded" /\ leaveActive(p, j)
    <3>1. CASE state' = state
      BY <1>13, <2>5, <3>1 DEF IInv, leaveActive, FinishThrows, TypeOK, table, lease, local, bounds
    <3>2. CASE state' = [state EXCEPT ![j] = run[p][j]]
      BY <1>13, <2>5, <3>2
      DEF IInv, leaveActive, FinishThrows, TypeOK, State, Mode, Step, table, lease, local,
          bounds
    <3>3. QED
      BY <2>3, <3>1, <3>2
  <2>6. QED
    BY <1>13, <2>4, <2>5 DEF FinishThrows
<1>14. ASSUME NEW p \in Proc, Start(p) PROVE TypeOK'
  BY <1>14 DEF IInv, Start, TypeOK, State, Mode, Step, table, lease, local, bounds
<1>15. ASSUME NEW p \in Proc, BeginStop(p) PROVE TypeOK'
  BY <1>15 DEF IInv, BeginStop, TypeOK, State, Mode, Step, table, lease, local, bounds
<1>16. ASSUME NEW p \in Proc, AbortAll(p) PROVE TypeOK'
  BY <1>16 DEF IInv, AbortAll, active, TypeOK, State, Mode, Step, table, lease, local, bounds
<1>17. ASSUME NEW p \in Proc, EndStop(p) PROVE TypeOK'
  BY <1>17 DEF IInv, EndStop, releaseLease, TypeOK, State, Mode, Step, table, lease, local, bounds
<1>18. ASSUME NEW p \in Proc, Crash(p) PROVE TypeOK'
  BY <1>18 DEF IInv, Crash, TypeOK, State, Mode, Step, table, lease, local, bounds
<1>19. ASSUME NEW p \in Proc, NEW j \in Job, Beat(p, j) PROVE TypeOK'
  BY <1>19 DEF IInv, Beat, active, TypeOK, table, lease, local, bounds
<1>20. ASSUME NEW p \in Proc, NEW j \in Job, HandlerReturns(p, j) PROVE TypeOK'
  BY <1>20 DEF IInv, HandlerReturns, TypeOK, Terminal, table, lease, local, bounds
<1>21. ASSUME NEW p \in Proc, NEW j \in Job, HandlerThrows(p, j) PROVE TypeOK'
  BY <1>21 DEF IInv, HandlerThrows, Thrown, Stopped, TypeOK, Terminal, table, lease, local, bounds
<1>22. ASSUME NEW p \in Proc, NEW j \in Job, Finish(p, j) PROVE TypeOK'
  BY <1>22 DEF IInv, Finish, leaveActive, TypeOK, State, Mode, Step, table, lease, local, bounds
<1>23. ASSUME LeaseExpires PROVE TypeOK'
  BY <1>23 DEF IInv, LeaseExpires, TypeOK, table, lease, local, bounds
<1>24. ASSUME NEW j \in Job, GoesStale(j) PROVE TypeOK'
  BY <1>24 DEF IInv, GoesStale, active, TypeOK, table, lease, local, bounds
<1>25. ASSUME NEW j \in Job, Stall(j) PROVE TypeOK'
  BY <1>25 DEF IInv, Stall, active, TypeOK, table, lease, local, bounds
<1>26. CASE UNCHANGED vars
  BY <1>26 DEF IInv, TypeOK, vars, table, lease, local, bounds
<1>27. QED
  BY <1>1, <1>2, <1>3, <1>4, <1>5, <1>6, <1>7, <1>8, <1>9, <1>10, <1>11, <1>12, <1>13, <1>14,
     <1>15, <1>16, <1>17, <1>18, <1>19, <1>20, <1>21, <1>22, <1>23, <1>24, <1>25, <1>26
  DEF Next, Client, Pass, RunJob, Faults, Process, Time

(* Whoever stands before a claim has read a row id. *)
LEMMA SelectedStep == IInv /\ [Next]_vars => Selected'
<1> SUFFICES ASSUME IInv, [Next]_vars PROVE Selected'
  OBVIOUS
<1>1. ASSUME NEW p \in Proc, BeginPass(p) PROVE Selected'
  BY <1>1 DEF IInv, BeginPass, acquireLease, At, Selected, table, lease, local, bounds
<1>2. ASSUME NEW p \in Proc, Sweep(p) PROVE Selected'
  BY <1>2 DEF IInv, Sweep, At, Swept, Selected, table, lease, local, bounds
<1>3. ASSUME NEW p \in Proc, Schedule(p) PROVE Selected'
  BY <1>3 DEF IInv, Schedule, At, enqueueJob, KeyFree, Selected, table, lease, local, bounds
<1>4. ASSUME NEW p \in Proc, EndSchedule(p) PROVE Selected'
  BY <1>4 DEF IInv, EndSchedule, At, Selected, table, lease, local, bounds
<1>5. ASSUME NEW p \in Proc, Select(p) PROVE Selected'
  BY <1>5 DEF IInv, Select, At, Oldest, Selected, TypeOK, table, lease, local, bounds
<1>6. ASSUME NEW p \in Proc, EndPass(p) PROVE Selected'
  BY <1>6 DEF IInv, EndPass, At, Selected, table, lease, local, bounds
<1>7. ASSUME NEW p \in Proc, Claim(p) PROVE Selected'
  BY <1>7 DEF IInv, Claim, At, claimRow, Selected, TypeOK, table, lease, local, bounds
<1>8. ASSUME NEW p \in Proc, ClaimUnanswered(p) PROVE Selected'
  BY <1>8 DEF IInv, ClaimUnanswered, At, claimRow, Selected, TypeOK, table, lease, local, bounds
<1>9. ASSUME NEW p \in Proc, PassFails(p) PROVE Selected'
  BY <1>9 DEF IInv, PassFails, Selected, TypeOK, table, lease, local, bounds
<1>10. ASSUME NEW p \in Proc, Crash(p) PROVE Selected'
  BY <1>10 DEF IInv, Crash, Selected, TypeOK, table, lease, local, bounds
<1>11. CASE UNCHANGED <<pc, next>>
  BY <1>11 DEF IInv, Selected
<1>12. QED
  BY <1>1, <1>2, <1>3, <1>4, <1>5, <1>6, <1>7, <1>8, <1>9, <1>10, <1>11
  DEF Next, Client, Pass, RunJob, Faults, Process, Time, vars, table, lease, local, bounds,
      Enqueue, CancelQueued, CancelRunning, FinishThrows, Start, BeginStop, AbortAll,
      EndStop, Beat, HandlerReturns, HandlerThrows, Finish, LeaseExpires, GoesStale, Stall

(* Only a claim starts a run, and it takes rows nobody runs. *)
LEMMA RunIsClaimedStep == IInv /\ [Next]_vars => RunIsClaimed'
<1> SUFFICES ASSUME IInv, [Next]_vars PROVE RunIsClaimed'
  OBVIOUS
<1>1. ASSUME NEW j \in Job, Enqueue(j) PROVE RunIsClaimed'
  BY <1>1
  DEF IInv, Enqueue, enqueueJob, KeyFree, RunIsClaimed, Handling, table, lease, local, bounds
<1>2. ASSUME NEW j \in Job, CancelQueued(j) PROVE RunIsClaimed'
  BY <1>2 DEF IInv, CancelQueued, RunIsClaimed, Handling, table, lease, local, bounds
<1>3. ASSUME NEW p \in Proc, Sweep(p) PROVE RunIsClaimed'
  BY <1>3 DEF IInv, Sweep, At, Swept, RunIsClaimed, Handling, table, lease, local, bounds
<1>4. ASSUME NEW p \in Proc, Schedule(p) PROVE RunIsClaimed'
  BY <1>4
  DEF IInv, Schedule, At, enqueueJob, KeyFree, RunIsClaimed, Handling, table, lease, local,
      bounds
<1>5. ASSUME NEW p \in Proc, Claim(p) PROVE RunIsClaimed'
  <2>1. next[p] \in Job
    BY <1>5 DEF IInv, Selected, Claim, At
  <2>2. CASE claimRow(p, next[p]) /\ run' = [run EXCEPT ![p][next[p]] = "running"]
    BY <1>5, <2>1, <2>2
    DEF IInv, Claim, At, claimRow, RunIsClaimed, Handling, TypeOK, table, lease, local, bounds
  <2>3. CASE UNCHANGED <<table, run>>
    BY <1>5, <2>1, <2>3
    DEF IInv, Claim, At, claimRow, RunIsClaimed, Handling, table, lease, local, bounds
  <2>4. QED
    BY <1>5, <2>2, <2>3 DEF Claim
<1>6. ASSUME NEW p \in Proc, ClaimUnanswered(p) PROVE RunIsClaimed'
  BY <1>6
  DEF IInv, ClaimUnanswered, At, claimRow, RunIsClaimed, Handling, table, lease, local, bounds
<1>7. ASSUME NEW p \in Proc, NEW j \in Job, FinishThrows(p, j) PROVE RunIsClaimed'
  <2>1. Thrown(p, j) \in {"failed", "cancelled"}
    BY DEF Thrown
  <2>2. Thrown(p, j) = "cancelled" => mode[p] = "up" /\ j \in aborted[p]
    BY DEF Thrown, Stopped
  <2>3. state' = state \/ (run[p][j] \in Terminal /\ state' = [state EXCEPT ![j] = run[p][j]])
    BY <1>7 DEF FinishThrows
  <2>4. CASE run[p][j] = "succeeded" /\ run' = [run EXCEPT ![p][j] = Thrown(p, j)] /\ UNCHANGED aborted
    <3>1. CASE state' = state
      BY <1>7, <2>1, <2>2, <2>4, <3>1
      DEF IInv, FinishThrows, RunIsClaimed, Handling, table, lease, local, bounds
    <3>2. CASE state' = [state EXCEPT ![j] = run[p][j]]
      BY <1>7, <2>1, <2>2, <2>4, <3>2
      DEF IInv, FinishThrows, RunIsClaimed, Handling, table, lease, local, bounds
    <3>3. QED
      BY <2>3, <3>1, <3>2
  <2>5. CASE run[p][j] # "succeeded" /\ leaveActive(p, j)
    <3>1. CASE state' = state
      BY <1>7, <2>5, <3>1
      DEF IInv, leaveActive, FinishThrows, RunIsClaimed, Handling, table, lease, local, bounds
    <3>2. CASE state' = [state EXCEPT ![j] = run[p][j]]
      BY <1>7, <2>5, <3>2
      DEF IInv, leaveActive, FinishThrows, RunIsClaimed, Handling, TypeOK, Terminal, table,
          lease, local, bounds
    <3>3. QED
      BY <2>3, <3>1, <3>2
  <2>6. QED
    BY <1>7, <2>4, <2>5 DEF FinishThrows
<1>8. ASSUME NEW p \in Proc, Crash(p) PROVE RunIsClaimed'
  BY <1>8 DEF IInv, Crash, RunIsClaimed, Handling, table, lease, local, bounds
<1>9. ASSUME NEW p \in Proc, NEW j \in Job, HandlerReturns(p, j) PROVE RunIsClaimed'
  BY <1>9 DEF IInv, HandlerReturns, RunIsClaimed, Handling, table, lease, local, bounds
<1>10. ASSUME NEW p \in Proc, NEW j \in Job, HandlerThrows(p, j) PROVE RunIsClaimed'
  BY <1>10
  DEF IInv, HandlerThrows, Thrown, Stopped, RunIsClaimed, Handling, table, lease, local, bounds
<1>11. ASSUME NEW p \in Proc, NEW j \in Job, Finish(p, j) PROVE RunIsClaimed'
  BY <1>11
  DEF IInv, Finish, leaveActive, RunIsClaimed, Handling, TypeOK, Terminal, table, lease, local,
      bounds
<1>12. CASE UNCHANGED <<state, by, run>>
  BY <1>12 DEF IInv, RunIsClaimed, Handling
<1>13. QED
  BY <1>1, <1>2, <1>3, <1>4, <1>5, <1>6, <1>7, <1>8, <1>9, <1>10, <1>11, <1>12
  DEF Next, Client, Pass, RunJob, Faults, Process, Time, vars, table, lease, local, bounds,
      CancelRunning, BeginPass, EndSchedule, Select, EndPass, PassFails, Start, BeginStop,
      AbortAll, EndStop, Beat, LeaseExpires, GoesStale, Stall

(* Only an insert makes a row active, and the index refuses a busy key; no finished row becomes active again. *)
LEMMA OneActiveRowStep == IInv /\ [Next]_vars => OneActiveRow'
<1> SUFFICES ASSUME IInv, [Next]_vars PROVE OneActiveRow'
  OBVIOUS
<1>1. ASSUME NEW j \in Job, Enqueue(j) PROVE OneActiveRow'
  BY <1>1 DEF IInv, Enqueue, enqueueJob, KeyFree, OneActiveRow, table, lease, local, bounds
<1>2. ASSUME NEW j \in Job, CancelQueued(j) PROVE OneActiveRow'
  BY <1>2 DEF IInv, CancelQueued, OneActiveRow, Active, table, lease, local, bounds
<1>3. ASSUME NEW p \in Proc, Sweep(p) PROVE OneActiveRow'
  BY <1>3 DEF IInv, Sweep, At, Swept, OneActiveRow, Active, table, lease, local, bounds
<1>4. ASSUME NEW p \in Proc, Schedule(p) PROVE OneActiveRow'
  BY <1>4 DEF IInv, Schedule, At, enqueueJob, KeyFree, OneActiveRow, table, lease, local, bounds
<1>5. ASSUME NEW p \in Proc, Claim(p) PROVE OneActiveRow'
  BY <1>5 DEF IInv, Claim, At, claimRow, OneActiveRow, TypeOK, Active, table, lease, local, bounds
<1>6. ASSUME NEW p \in Proc, ClaimUnanswered(p) PROVE OneActiveRow'
  BY <1>6 DEF IInv, ClaimUnanswered, At, claimRow, OneActiveRow, Active, table, lease, local, bounds
<1>7. ASSUME NEW p \in Proc, NEW j \in Job, FinishThrows(p, j) PROVE OneActiveRow'
  BY <1>7
  DEF IInv, FinishThrows, leaveActive, Thrown, Stopped, OneActiveRow, TypeOK, Active, Terminal,
      table, lease, local, bounds
<1>8. ASSUME NEW p \in Proc, NEW j \in Job, Finish(p, j) PROVE OneActiveRow'
  BY <1>8 DEF IInv, Finish, leaveActive, OneActiveRow, Active, Terminal, table, lease, local, bounds
<1>9. CASE UNCHANGED <<state>>
  BY <1>9 DEF IInv, OneActiveRow
<1>10. QED
  BY <1>1, <1>2, <1>3, <1>4, <1>5, <1>6, <1>7, <1>8, <1>9
  DEF Next, Client, Pass, RunJob, Faults, Process, Time, vars, table, lease, local, bounds,
      CancelRunning, BeginPass, EndSchedule, Select, EndPass, PassFails, Start, BeginStop,
      AbortAll, EndStop, Crash, Beat, HandlerReturns, HandlerThrows, LeaseExpires,
      GoesStale, Stall

(* A signal is aborted by a heartbeat that saw the request, or by stop(), which changes the process's mode first. *)
LEMMA AbortIsRequestedStep == IInv /\ [Next]_vars => AbortIsRequested'
<1> SUFFICES ASSUME IInv, [Next]_vars PROVE AbortIsRequested'
  OBVIOUS
<1>1. ASSUME NEW j \in Job, Enqueue(j) PROVE AbortIsRequested'
  BY <1>1 DEF IInv, Enqueue, enqueueJob, KeyFree, AbortIsRequested, table, lease, local, bounds
<1>2. ASSUME NEW j \in Job, CancelQueued(j) PROVE AbortIsRequested'
  BY <1>2 DEF IInv, CancelQueued, AbortIsRequested, TypeOK, table, lease, local, bounds
<1>3. ASSUME NEW j \in Job, CancelRunning(j) PROVE AbortIsRequested'
  BY <1>3 DEF IInv, CancelRunning, AbortIsRequested, table, lease, local, bounds
<1>4. ASSUME NEW p \in Proc, Sweep(p) PROVE AbortIsRequested'
  BY <1>4 DEF IInv, Sweep, At, Swept, AbortIsRequested, table, lease, local, bounds
<1>5. ASSUME NEW p \in Proc, Schedule(p) PROVE AbortIsRequested'
  BY <1>5 DEF IInv, Schedule, At, enqueueJob, KeyFree, AbortIsRequested, table, lease, local, bounds
<1>6. ASSUME NEW p \in Proc, Claim(p) PROVE AbortIsRequested'
  <2>1. next[p] \in Job
    BY <1>6 DEF IInv, Selected, Claim, At
  <2>2. CASE claimRow(p, next[p]) /\ run' = [run EXCEPT ![p][next[p]] = "running"]
    BY <1>6, <2>1, <2>2 DEF IInv, Claim, At, claimRow, AbortIsRequested, table, lease, local, bounds
  <2>3. CASE UNCHANGED <<table, run>>
    BY <1>6, <2>1, <2>3 DEF IInv, Claim, At, claimRow, AbortIsRequested, table, lease, local, bounds
  <2>4. QED
    BY <1>6, <2>2, <2>3 DEF Claim
<1>7. ASSUME NEW p \in Proc, ClaimUnanswered(p) PROVE AbortIsRequested'
  BY <1>7 DEF IInv, ClaimUnanswered, At, claimRow, AbortIsRequested, table, lease, local, bounds
<1>8. ASSUME NEW p \in Proc, NEW j \in Job, FinishThrows(p, j) PROVE AbortIsRequested'
  <2>1. Thrown(p, j) \in {"failed", "cancelled"}
    BY DEF Thrown
  <2>2. Thrown(p, j) = "cancelled" => mode[p] = "up" /\ j \in aborted[p]
    BY DEF Thrown, Stopped
  <2>3. state' = state \/ (run[p][j] \in Terminal /\ state' = [state EXCEPT ![j] = run[p][j]])
    BY <1>8 DEF FinishThrows
  <2>4. CASE run[p][j] = "succeeded" /\ run' = [run EXCEPT ![p][j] = Thrown(p, j)] /\ UNCHANGED aborted
    <3>1. CASE state' = state
      BY <1>8, <2>1, <2>2, <2>4, <3>1
      DEF IInv, FinishThrows, AbortIsRequested, table, lease, local, bounds
    <3>2. CASE state' = [state EXCEPT ![j] = run[p][j]]
      BY <1>8, <2>1, <2>2, <2>4, <3>2
      DEF IInv, FinishThrows, AbortIsRequested, table, lease, local, bounds
    <3>3. QED
      BY <2>3, <3>1, <3>2
  <2>5. CASE run[p][j] # "succeeded" /\ leaveActive(p, j)
    <3>1. CASE state' = state
      BY <1>8, <2>5, <3>1
      DEF IInv, leaveActive, FinishThrows, AbortIsRequested, table, lease, local, bounds
    <3>2. CASE state' = [state EXCEPT ![j] = run[p][j]]
      BY <1>8, <2>5, <3>2
      DEF IInv, leaveActive, FinishThrows, AbortIsRequested, table, lease, local, bounds
    <3>3. QED
      BY <2>3, <3>1, <3>2
  <2>6. QED
    BY <1>8, <2>4, <2>5 DEF FinishThrows
<1>9. ASSUME NEW p \in Proc, Start(p) PROVE AbortIsRequested'
  BY <1>9 DEF IInv, Start, AbortIsRequested, table, lease, local, bounds
<1>10. ASSUME NEW p \in Proc, BeginStop(p) PROVE AbortIsRequested'
  BY <1>10 DEF IInv, BeginStop, AbortIsRequested, table, lease, local, bounds
<1>11. ASSUME NEW p \in Proc, AbortAll(p) PROVE AbortIsRequested'
  BY <1>11 DEF IInv, AbortAll, active, AbortIsRequested, table, lease, local, bounds
<1>12. ASSUME NEW p \in Proc, EndStop(p) PROVE AbortIsRequested'
  BY <1>12 DEF IInv, EndStop, releaseLease, AbortIsRequested, table, lease, local, bounds
<1>13. ASSUME NEW p \in Proc, Crash(p) PROVE AbortIsRequested'
  BY <1>13 DEF IInv, Crash, AbortIsRequested, table, lease, local, bounds
<1>14. ASSUME NEW p \in Proc, NEW j \in Job, Beat(p, j) PROVE AbortIsRequested'
  BY <1>14 DEF IInv, Beat, active, AbortIsRequested, table, lease, local, bounds
<1>15. ASSUME NEW p \in Proc, NEW j \in Job, HandlerReturns(p, j) PROVE AbortIsRequested'
  BY <1>15 DEF IInv, HandlerReturns, AbortIsRequested, table, lease, local, bounds
<1>16. ASSUME NEW p \in Proc, NEW j \in Job, HandlerThrows(p, j) PROVE AbortIsRequested'
  BY <1>16 DEF IInv, HandlerThrows, Thrown, Stopped, AbortIsRequested, table, lease, local, bounds
<1>17. ASSUME NEW p \in Proc, NEW j \in Job, Finish(p, j) PROVE AbortIsRequested'
  BY <1>17 DEF IInv, Finish, leaveActive, AbortIsRequested, table, lease, local, bounds
<1>18. CASE UNCHANGED <<state, cancelRequested, mode, run, aborted>>
  BY <1>18 DEF IInv, AbortIsRequested
<1>19. QED
  BY <1>1, <1>2, <1>3, <1>4, <1>5, <1>6, <1>7, <1>8, <1>9, <1>10, <1>11, <1>12, <1>13, <1>14,
     <1>15, <1>16, <1>17, <1>18
  DEF Next, Client, Pass, RunJob, Faults, Process, Time, vars, table, lease, local, bounds,
      BeginPass, EndSchedule, Select, EndPass, PassFails, LeaseExpires, GoesStale, Stall

(* Without stalls a heartbeat goes stale only where no run is left to beat. *)
LEMMA NotStaleStep == MaxStalls = 0 /\ IInv /\ NotStale /\ [Next]_vars => NotStale'
<1> SUFFICES ASSUME MaxStalls = 0 /\ IInv /\ NotStale, [Next]_vars PROVE NotStale'
  OBVIOUS
<1>1. ASSUME NEW p \in Proc, Claim(p) PROVE NotStale'
  <2>1. next[p] \in Job
    BY <1>1 DEF IInv, Selected, Claim, At
  <2>2. CASE claimRow(p, next[p]) /\ run' = [run EXCEPT ![p][next[p]] = "running"]
    BY <1>1, <2>1, <2>2 DEF IInv, Claim, At, claimRow, NotStale, TypeOK, table, lease, local, bounds
  <2>3. CASE UNCHANGED <<table, run>>
    BY <1>1, <2>1, <2>3 DEF IInv, Claim, At, claimRow, NotStale, table, lease, local, bounds
  <2>4. QED
    BY <1>1, <2>2, <2>3 DEF Claim
<1>2. ASSUME NEW p \in Proc, ClaimUnanswered(p) PROVE NotStale'
  BY <1>2 DEF IInv, ClaimUnanswered, At, claimRow, NotStale, table, lease, local, bounds
<1>3. ASSUME NEW p \in Proc, NEW j \in Job, FinishThrows(p, j) PROVE NotStale'
  <2>1. Thrown(p, j) \in {"failed", "cancelled"}
    BY DEF Thrown
  <2>2. Thrown(p, j) = "cancelled" => mode[p] = "up" /\ j \in aborted[p]
    BY DEF Thrown, Stopped
  <2>3. state' = state \/ (run[p][j] \in Terminal /\ state' = [state EXCEPT ![j] = run[p][j]])
    BY <1>3 DEF FinishThrows
  <2>4. CASE run[p][j] = "succeeded" /\ run' = [run EXCEPT ![p][j] = Thrown(p, j)] /\ UNCHANGED aborted
    <3>1. CASE state' = state
      BY <1>3, <2>1, <2>2, <2>4, <3>1 DEF IInv, FinishThrows, NotStale, table, lease, local, bounds
    <3>2. CASE state' = [state EXCEPT ![j] = run[p][j]]
      BY <1>3, <2>1, <2>2, <2>4, <3>2 DEF IInv, FinishThrows, NotStale, table, lease, local, bounds
    <3>3. QED
      BY <2>3, <3>1, <3>2
  <2>5. CASE run[p][j] # "succeeded" /\ leaveActive(p, j)
    <3>1. CASE state' = state
      BY <1>3, <2>5, <3>1 DEF IInv, leaveActive, FinishThrows, NotStale, table, lease, local, bounds
    <3>2. CASE state' = [state EXCEPT ![j] = run[p][j]]
      BY <1>3, <2>5, <3>2 DEF IInv, leaveActive, FinishThrows, NotStale, table, lease, local, bounds
    <3>3. QED
      BY <2>3, <3>1, <3>2
  <2>6. QED
    BY <1>3, <2>4, <2>5 DEF FinishThrows
<1>4. ASSUME NEW p \in Proc, Crash(p) PROVE NotStale'
  BY <1>4 DEF IInv, Crash, NotStale, table, lease, local, bounds
<1>5. ASSUME NEW p \in Proc, NEW j \in Job, Beat(p, j) PROVE NotStale'
  BY <1>5 DEF IInv, Beat, active, NotStale, table, lease, local, bounds
<1>6. ASSUME NEW p \in Proc, NEW j \in Job, HandlerReturns(p, j) PROVE NotStale'
  BY <1>6 DEF IInv, HandlerReturns, NotStale, table, lease, local, bounds
<1>7. ASSUME NEW p \in Proc, NEW j \in Job, HandlerThrows(p, j) PROVE NotStale'
  BY <1>7 DEF IInv, HandlerThrows, Thrown, Stopped, NotStale, table, lease, local, bounds
<1>8. ASSUME NEW p \in Proc, NEW j \in Job, Finish(p, j) PROVE NotStale'
  BY <1>8 DEF IInv, Finish, leaveActive, NotStale, table, lease, local, bounds
<1>9. ASSUME NEW j \in Job, GoesStale(j) PROVE NotStale'
  BY <1>9 DEF IInv, GoesStale, active, NotStale, RunIsClaimed, table, lease, local, bounds
<1>10. ASSUME NEW j \in Job, Stall(j) PROVE NotStale'
  BY <1>10 DEF IInv, Stall, active, NotStale, TypeOK, table, lease, local, bounds
<1>11. CASE UNCHANGED <<stale, run>>
  BY <1>11 DEF IInv, NotStale
<1>12. QED
  BY <1>1, <1>2, <1>3, <1>4, <1>5, <1>6, <1>7, <1>8, <1>9, <1>10, <1>11
  DEF Next, Client, Pass, RunJob, Faults, Process, Time, vars, table, lease, local, bounds,
      Enqueue, CancelQueued, CancelRunning, BeginPass, Sweep, Schedule, EndSchedule,
      Select, EndPass, PassFails, Start, BeginStop, AbortAll, EndStop, LeaseExpires

(* A sweep spares rows that are not stale, so it spares the rows of handlers. *)
LEMMA HandlerRowRunsStep == IInv /\ NotStale /\ HandlerRowRuns /\ [Next]_vars => HandlerRowRuns'
<1> SUFFICES ASSUME IInv /\ NotStale /\ HandlerRowRuns, [Next]_vars PROVE HandlerRowRuns'
  OBVIOUS
<1>1. ASSUME NEW j \in Job, Enqueue(j) PROVE HandlerRowRuns'
  BY <1>1
  DEF IInv, Enqueue, enqueueJob, KeyFree, HandlerRowRuns, Handling, NotStale, table, lease,
      local, bounds
<1>2. ASSUME NEW j \in Job, CancelQueued(j) PROVE HandlerRowRuns'
  BY <1>2 DEF IInv, CancelQueued, HandlerRowRuns, Handling, NotStale, table, lease, local, bounds
<1>3. ASSUME NEW p \in Proc, Sweep(p) PROVE HandlerRowRuns'
  BY <1>3
  DEF IInv, Sweep, At, Swept, HandlerRowRuns, Handling, NotStale, table, lease, local, bounds
<1>4. ASSUME NEW p \in Proc, Schedule(p) PROVE HandlerRowRuns'
  BY <1>4
  DEF IInv, Schedule, At, enqueueJob, KeyFree, HandlerRowRuns, Handling, NotStale, table, lease,
      local, bounds
<1>5. ASSUME NEW p \in Proc, Claim(p) PROVE HandlerRowRuns'
  <2>1. next[p] \in Job
    BY <1>5 DEF IInv, Selected, Claim, At
  <2>2. CASE claimRow(p, next[p]) /\ run' = [run EXCEPT ![p][next[p]] = "running"]
    BY <1>5, <2>1, <2>2
    DEF IInv, Claim, At, claimRow, HandlerRowRuns, Handling, TypeOK, table, lease, local, bounds
  <2>3. CASE UNCHANGED <<table, run>>
    BY <1>5, <2>1, <2>3
    DEF IInv, Claim, At, claimRow, HandlerRowRuns, Handling, table, lease, local, bounds
  <2>4. QED
    BY <1>5, <2>2, <2>3 DEF Claim
<1>6. ASSUME NEW p \in Proc, ClaimUnanswered(p) PROVE HandlerRowRuns'
  BY <1>6
  DEF IInv, ClaimUnanswered, At, claimRow, HandlerRowRuns, Handling, NotStale, table, lease,
      local, bounds
<1>7. ASSUME NEW p \in Proc, NEW j \in Job, FinishThrows(p, j) PROVE HandlerRowRuns'
  <2>1. Thrown(p, j) \in {"failed", "cancelled"}
    BY DEF Thrown
  <2>2. Thrown(p, j) = "cancelled" => mode[p] = "up" /\ j \in aborted[p]
    BY DEF Thrown, Stopped
  <2>3. state' = state \/ (run[p][j] \in Terminal /\ state' = [state EXCEPT ![j] = run[p][j]])
    BY <1>7 DEF FinishThrows
  <2>4. CASE run[p][j] = "succeeded" /\ run' = [run EXCEPT ![p][j] = Thrown(p, j)] /\ UNCHANGED aborted
    <3>1. CASE state' = state
      BY <1>7, <2>1, <2>2, <2>4, <3>1
      DEF IInv, FinishThrows, HandlerRowRuns, Handling, table, lease, local, bounds
    <3>2. CASE state' = [state EXCEPT ![j] = run[p][j]]
      BY <1>7, <2>1, <2>2, <2>4, <3>2
      DEF IInv, FinishThrows, HandlerRowRuns, Handling, RunIsClaimed, Live, table, lease, local,
          bounds
    <3>3. QED
      BY <2>3, <3>1, <3>2
  <2>5. CASE run[p][j] # "succeeded" /\ leaveActive(p, j)
    <3>1. CASE state' = state
      BY <1>7, <2>5, <3>1
      DEF IInv, leaveActive, FinishThrows, HandlerRowRuns, Handling, table, lease, local, bounds
    <3>2. CASE state' = [state EXCEPT ![j] = run[p][j]]
      BY <1>7, <2>5, <3>2
      DEF IInv, leaveActive, FinishThrows, HandlerRowRuns, Handling, RunIsClaimed, State,
          Terminal, Mode, Step, vars, table, lease, local, bounds
    <3>3. QED
      BY <2>3, <3>1, <3>2
  <2>6. QED
    BY <1>7, <2>4, <2>5 DEF FinishThrows
<1>8. ASSUME NEW p \in Proc, Crash(p) PROVE HandlerRowRuns'
  BY <1>8 DEF IInv, Crash, HandlerRowRuns, Handling, NotStale, table, lease, local, bounds
<1>9. ASSUME NEW p \in Proc, NEW j \in Job, HandlerReturns(p, j) PROVE HandlerRowRuns'
  BY <1>9 DEF IInv, HandlerReturns, HandlerRowRuns, Handling, NotStale, table, lease, local, bounds
<1>10. ASSUME NEW p \in Proc, NEW j \in Job, HandlerThrows(p, j) PROVE HandlerRowRuns'
  BY <1>10
  DEF IInv, HandlerThrows, Thrown, Stopped, HandlerRowRuns, Handling, NotStale, table, lease,
      local, bounds
<1>11. ASSUME NEW p \in Proc, NEW j \in Job, Finish(p, j) PROVE HandlerRowRuns'
  BY <1>11
  DEF IInv, Finish, leaveActive, HandlerRowRuns, Handling, NotStale, RunIsClaimed, State,
      Terminal, Mode, Step, table, lease, local, bounds
<1>12. CASE UNCHANGED <<state, run>>
  BY <1>12 DEF IInv, HandlerRowRuns, Handling
<1>13. QED
  BY <1>1, <1>2, <1>3, <1>4, <1>5, <1>6, <1>7, <1>8, <1>9, <1>10, <1>11, <1>12
  DEF Next, Client, Pass, RunJob, Faults, Process, Time, vars, table, lease, local, bounds,
      CancelRunning, BeginPass, EndSchedule, Select, EndPass, PassFails, Start, BeginStop,
      AbortAll, EndStop, Beat, LeaseExpires, GoesStale, Stall

(* When no commit is lost, a run leaves memory in the step that ends its row. *)
LEMMA RunRowRunsStep == MaxLost = 0 /\ IInv /\ NotStale /\ RunRowRuns /\ [Next]_vars => RunRowRuns'
<1> SUFFICES ASSUME MaxLost = 0 /\ IInv /\ NotStale /\ RunRowRuns, [Next]_vars PROVE RunRowRuns'
  OBVIOUS
<1>1. ASSUME NEW j \in Job, Enqueue(j) PROVE RunRowRuns'
  BY <1>1 DEF IInv, Enqueue, enqueueJob, KeyFree, RunRowRuns, NotStale, table, lease, local, bounds
<1>2. ASSUME NEW j \in Job, CancelQueued(j) PROVE RunRowRuns'
  BY <1>2 DEF IInv, CancelQueued, RunRowRuns, NotStale, table, lease, local, bounds
<1>3. ASSUME NEW p \in Proc, Sweep(p) PROVE RunRowRuns'
  BY <1>3 DEF IInv, Sweep, At, Swept, RunRowRuns, NotStale, table, lease, local, bounds
<1>4. ASSUME NEW p \in Proc, Schedule(p) PROVE RunRowRuns'
  BY <1>4
  DEF IInv, Schedule, At, enqueueJob, KeyFree, RunRowRuns, NotStale, table, lease, local, bounds
<1>5. ASSUME NEW p \in Proc, Claim(p) PROVE RunRowRuns'
  <2>1. next[p] \in Job
    BY <1>5 DEF IInv, Selected, Claim, At
  <2>2. CASE claimRow(p, next[p]) /\ run' = [run EXCEPT ![p][next[p]] = "running"]
    BY <1>5, <2>1, <2>2
    DEF IInv, Claim, At, claimRow, RunRowRuns, TypeOK, table, lease, local, bounds
  <2>3. CASE UNCHANGED <<table, run>>
    BY <1>5, <2>1, <2>3 DEF IInv, Claim, At, claimRow, RunRowRuns, table, lease, local, bounds
  <2>4. QED
    BY <1>5, <2>2, <2>3 DEF Claim
<1>6. ASSUME NEW p \in Proc, ClaimUnanswered(p) PROVE RunRowRuns'
  BY <1>6 DEF IInv, ClaimUnanswered, At, claimRow, RunRowRuns, NotStale, table, lease, local, bounds
<1>7. ASSUME NEW p \in Proc, NEW j \in Job, FinishThrows(p, j) PROVE RunRowRuns'
  BY <1>7
  DEF IInv, FinishThrows, leaveActive, Thrown, Stopped, RunRowRuns, NotStale, TypeOK, table,
      lease, local, bounds
<1>8. ASSUME NEW p \in Proc, Crash(p) PROVE RunRowRuns'
  BY <1>8 DEF IInv, Crash, RunRowRuns, NotStale, table, lease, local, bounds
<1>9. ASSUME NEW p \in Proc, NEW j \in Job, HandlerReturns(p, j) PROVE RunRowRuns'
  BY <1>9 DEF IInv, HandlerReturns, RunRowRuns, NotStale, table, lease, local, bounds
<1>10. ASSUME NEW p \in Proc, NEW j \in Job, HandlerThrows(p, j) PROVE RunRowRuns'
  BY <1>10
  DEF IInv, HandlerThrows, Thrown, Stopped, RunRowRuns, NotStale, table, lease, local, bounds
<1>11. ASSUME NEW p \in Proc, NEW j \in Job, Finish(p, j) PROVE RunRowRuns'
  BY <1>11
  DEF IInv, Finish, leaveActive, RunRowRuns, NotStale, RunIsClaimed, TypeOK, Terminal, table,
      lease, local, bounds
<1>12. CASE UNCHANGED <<state, run>>
  BY <1>12 DEF IInv, RunRowRuns
<1>13. QED
  BY <1>1, <1>2, <1>3, <1>4, <1>5, <1>6, <1>7, <1>8, <1>9, <1>10, <1>11, <1>12
  DEF Next, Client, Pass, RunJob, Faults, Process, Time, vars, table, lease, local, bounds,
      CancelRunning, BeginPass, EndSchedule, Select, EndPass, PassFails, Start, BeginStop,
      AbortAll, EndStop, Beat, LeaseExpires, GoesStale, Stall

-----------------------------------------------------------------------------
(* No run, no claim and no active row to begin with. *)
LEMMA InitIInv == Init => IInv /\ NotStale /\ HandlerRowRuns /\ RunRowRuns
<1> SUFFICES ASSUME Init PROVE IInv /\ NotStale /\ HandlerRowRuns /\ RunRowRuns
  OBVIOUS
<1>1. TypeOK
  BY ProcAssumption DEF Init, TypeOK, State, Active, Terminal, Mode, Step
<1>2. Selected /\ RunIsClaimed /\ OneActiveRow /\ AbortIsRequested
  BY DEF Init, Selected, RunIsClaimed, Handling, OneActiveRow, AbortIsRequested, Active
<1>3. NotStale /\ HandlerRowRuns /\ RunRowRuns
  BY DEF Init, NotStale, HandlerRowRuns, RunRowRuns, Handling
<1>4. QED
  BY <1>1, <1>2, <1>3 DEF IInv

(* The inductive invariant of the job loop holds for any jobs, workers, stalls
   and lost commits. *)
THEOREM Invariance == Spec => []IInv
<1>1. IInv /\ [Next]_vars => IInv'
  BY TypeStep, SelectedStep, RunIsClaimedStep, OneActiveRowStep, AbortIsRequestedStep DEF IInv
<1>2. QED
  BY InitIInv, <1>1, PTL DEF Spec

(* The variables keep their types. *)
THEOREM TypeCorrect == Spec => []TypeOK
<1>1. IInv => TypeOK
  BY DEF IInv
<1>2. QED
  BY Invariance, <1>1, PTL

(* The guarded claim: two processes never launch the same job, whoever holds the
   lease between reading the queue and claiming from it. *)
THEOREM ClaimsAreExclusive == Spec => []LaunchedOnce
<1>1. IInv => LaunchedOnce
  BY DEF IInv, RunIsClaimed, LaunchedOnce, Handling
<1>2. QED
  BY Invariance, <1>1, PTL

(* A job is reported cancelled only if someone asked for it: stop() aborts every
   signal, and the catch clause reports those jobs as failed. *)
THEOREM CancelIsNotShutdown == Spec => []CancelledWasRequested
<1>1. IInv => CancelledWasRequested
  BY DEF IInv, AbortIsRequested, CancelledWasRequested
<1>2. QED
  BY Invariance, <1>1, PTL

(* Even with stalled workers, two handlers on one instance mean that a sweep has
   already failed the job of one of them. *)
THEOREM OverlapIsSwept == Spec => []OverlapNeedsSweep
<1>1. IInv => OverlapNeedsSweep
  <2> SUFFICES ASSUME IInv, NEW p \in Proc, NEW q \in Proc, NEW j \in Job, NEW k \in Job,
                      Handling(p, j), Handling(q, k), j # k, KeyOf[j] = KeyOf[k], KeyOf[j] # NoKey
               PROVE  state[j] = "failed" \/ state[k] = "failed"
    BY DEF OverlapNeedsSweep
  <2>1. state[j] \in {"running", "failed"} /\ state[k] \in {"running", "failed"}
    BY DEF IInv, RunIsClaimed, Handling
  <2>2. ~(state[j] = "running" /\ state[k] = "running")
    BY DEF IInv, OneActiveRow, Active
  <2>3. QED
    BY <2>1, <2>2
<1>2. QED
  BY Invariance, <1>1, PTL

(* When no live worker stalls past staleMs, one instance has at most one handler
   working on it, through crashes, restarts, sweeps and lease hand-overs. *)
THEOREM OneHandler == MaxStalls = 0 => (Spec => []OneHandlerPerInstance)
<1> SUFFICES ASSUME MaxStalls = 0 PROVE Spec => []OneHandlerPerInstance
  OBVIOUS
<1> DEFINE Inv == IInv /\ NotStale /\ HandlerRowRuns
<1>1. Inv /\ [Next]_vars => Inv'
  BY TypeStep, SelectedStep, RunIsClaimedStep, OneActiveRowStep, AbortIsRequestedStep,
     NotStaleStep, HandlerRowRunsStep DEF IInv
<1>2. Inv => OneHandlerPerInstance
  <2> SUFFICES ASSUME Inv, NEW p \in Proc, NEW q \in Proc, NEW j \in Job, NEW k \in Job,
                      Handling(p, j), Handling(q, k), KeyOf[j] = KeyOf[k], KeyOf[j] # NoKey
               PROVE  p = q /\ j = k
    BY DEF OneHandlerPerInstance
  <2>1. state[j] = "running" /\ state[k] = "running"
    BY DEF HandlerRowRuns
  <2>2. j = k
    BY <2>1 DEF IInv, OneActiveRow, Active
  <2>3. QED
    BY <2>2 DEF IInv, RunIsClaimed, Handling
<1>3. QED
  BY InitIInv, <1>1, <1>2, PTL DEF Spec

(* When, besides, no commit is lost, a recorded outcome is final: the unguarded
   update in finish() and the sweep never touch a finished job. *)
THEOREM OutcomeIsFinal == MaxStalls = 0 /\ MaxLost = 0 => (Spec => OutcomeStands)
<1> SUFFICES ASSUME MaxStalls = 0, MaxLost = 0 PROVE Spec => OutcomeStands
  OBVIOUS
<1> DEFINE Inv == IInv /\ NotStale /\ RunRowRuns
           Stands == \A j \in Job : state[j] \in Terminal => state'[j] = state[j]
<1>1. Inv /\ [Next]_vars => Inv'
  BY TypeStep, SelectedStep, RunIsClaimedStep, OneActiveRowStep, AbortIsRequestedStep,
     NotStaleStep, RunRowRunsStep DEF IInv
<1>2. Inv /\ [Next]_vars => [Stands]_vars
  <2> SUFFICES ASSUME Inv, Next PROVE Stands
    OBVIOUS
  <2>1. \A p \in Proc : ~PassFails(p) /\ ~ClaimUnanswered(p) /\ \A j \in Job : ~FinishThrows(p, j)
    BY DEF IInv, TypeOK, PassFails, ClaimUnanswered, FinishThrows
  <2>2. ASSUME NEW p \in Proc, NEW j \in Job, Finish(p, j) PROVE Stands
    BY <2>2 DEF Finish, RunRowRuns, Terminal, IInv, TypeOK
  <2>3. ASSUME NEW p \in Proc, Claim(p) PROVE Stands
    BY <2>3 DEF Claim, claimRow, table, Terminal, IInv, TypeOK
  <2>4. ASSUME NEW p \in Proc, Sweep(p) PROVE Stands
    BY <2>4 DEF Sweep, Swept, Terminal
  <2>5. ASSUME NEW p \in Proc, Schedule(p) PROVE Stands
    BY <2>5 DEF Schedule, enqueueJob, Terminal, IInv, TypeOK
  <2>6. ASSUME NEW j \in Job, Enqueue(j) \/ CancelQueued(j) PROVE Stands
    BY <2>6 DEF Enqueue, enqueueJob, CancelQueued, Terminal, IInv, TypeOK
  <2>7. CASE UNCHANGED state
    BY <2>7
  <2>8. QED
    BY <2>1, <2>2, <2>3, <2>4, <2>5, <2>6, <2>7
    DEF Next, Client, Time, Pass, Faults, Process, RunJob, CancelRunning, BeginPass, EndSchedule,
        Select, EndPass, Beat, HandlerReturns, HandlerThrows, Start, BeginStop, AbortAll, EndStop,
        Crash, LeaseExpires, GoesStale, Stall, table, local
<1>3. QED
  BY InitIInv, <1>1, <1>2, PTL DEF Spec, OutcomeStands

(* When no commit is lost, a running row has a run in memory unless its process
   died, with any number of stalls: what stop() leaves behind is never running,
   as it waits for the loop before it aborts and for every run after. *)
THEOREM RunningRowsHaveRuns == MaxLost = 0 => (Spec => []RunningHasRun)
<1> SUFFICES ASSUME MaxLost = 0 PROVE Spec => []RunningHasRun
  OBVIOUS
<1> DEFINE Inv == IInv /\ RunningHasRun
<1>1. Init => RunningHasRun
  BY DEF Init, RunningHasRun
<1>2. Inv /\ [Next]_vars => RunningHasRun'
  <2> SUFFICES ASSUME Inv, [Next]_vars PROVE RunningHasRun'
    OBVIOUS
  <2> USE DEF IInv, TypeOK, RunningHasRun, active
  <2>1. \A p \in Proc : ~PassFails(p) /\ ~ClaimUnanswered(p) /\ \A j \in Job : ~FinishThrows(p, j)
    BY DEF PassFails, ClaimUnanswered, FinishThrows
  <2>2. ASSUME NEW j \in Job, Enqueue(j) \/ CancelQueued(j) PROVE RunningHasRun'
    BY <2>2 DEF Enqueue, enqueueJob, CancelQueued, local
  <2>3. ASSUME NEW p \in Proc, Sweep(p) \/ Schedule(p) PROVE RunningHasRun'
    BY <2>3 DEF Sweep, Swept, Schedule, enqueueJob
  <2>4. ASSUME NEW p \in Proc, Claim(p) PROVE RunningHasRun'
    <3>1. next[p] \in Job /\ Live(p)
      BY <2>4 DEF Selected, Claim, At
    <3>2. CASE claimRow(p, next[p]) /\ run' = [run EXCEPT ![p][next[p]] = "running"]
      BY <2>4, <3>1, <3>2 DEF Claim, claimRow, Live
    <3>3. CASE UNCHANGED <<table, run>>
      BY <2>4, <3>3 DEF Claim, table
    <3>4. QED
      BY <2>4, <3>2, <3>3 DEF Claim
  <2>5. ASSUME NEW p \in Proc, NEW j \in Job, HandlerReturns(p, j) \/ HandlerThrows(p, j)
        PROVE  RunningHasRun'
    BY <2>5 DEF HandlerReturns, HandlerThrows, Thrown, table
  <2>6. ASSUME NEW p \in Proc, NEW j \in Job, Finish(p, j) PROVE RunningHasRun'
    BY <2>6 DEF Finish, leaveActive, Terminal
  <2>7. ASSUME NEW p \in Proc, Start(p) \/ BeginStop(p) \/ AbortAll(p) \/ EndStop(p)
        PROVE  RunningHasRun'
    BY <2>7 DEF Start, BeginStop, AbortAll, EndStop, table
  <2>8. ASSUME NEW p \in Proc, Crash(p) PROVE RunningHasRun'
    BY <2>8 DEF Crash, table
  <2>9. CASE UNCHANGED <<state, by, mode, run>>
    BY <2>9
  <2>10. QED
    BY <2>1, <2>2, <2>3, <2>4, <2>5, <2>6, <2>7, <2>8, <2>9
    DEF Next, Client, Time, Pass, Faults, Process, RunJob, CancelRunning, BeginPass, EndSchedule,
        Select, EndPass, Beat, LeaseExpires, GoesStale, Stall, vars, table, local
<1>3. Inv /\ [Next]_vars => Inv'
  BY <1>2, TypeStep, SelectedStep, RunIsClaimedStep, OneActiveRowStep, AbortIsRequestedStep DEF IInv
<1>4. QED
  BY InitIInv, <1>1, <1>3, PTL DEF Spec

(* The jobs table, whatever the workers do, goes through the lifecycle that
   JobLifecycle states: every step of the job loop is a step of it or leaves
   every row's state alone. *)
THEOREM Refinement == Spec => ImplementsLifecycle
<1>1. Init => Lifecycle!Init
  BY DEF Init, Lifecycle!Init
<1>2. IInv /\ [Next]_vars => [Lifecycle!Next]_state
  <2> SUFFICES ASSUME IInv, Next, state' # state PROVE Lifecycle!Next
    BY DEF vars, table
  <2> USE DEF IInv, TypeOK
  <2>1. ASSUME NEW j \in Job, enqueueJob(j) PROVE Lifecycle!Enqueue(j)
    BY <2>1 DEF enqueueJob, KeyFree, Active, Lifecycle!Enqueue, Lifecycle!KeyFree, Lifecycle!Active
  <2>2. ASSUME NEW j \in Job, CancelQueued(j) PROVE Lifecycle!CancelQueued(j)
    BY <2>2 DEF CancelQueued, Lifecycle!CancelQueued
  <2>3. ASSUME NEW p \in Proc, NEW j \in Job, claimRow(p, j) PROVE Lifecycle!Claim(j)
    BY <2>3 DEF claimRow, Lifecycle!Claim
  <2>4. ASSUME NEW p \in Proc, Sweep(p) PROVE Lifecycle!Interrupt(Swept(p))
    BY <2>4 DEF Sweep, Swept, Lifecycle!Interrupt
  <2>5. ASSUME NEW p \in Proc, NEW j \in Job, Finish(p, j) \/ FinishThrows(p, j)
        PROVE  \E o \in Lifecycle!Terminal : Lifecycle!End(j, o) \/ Lifecycle!Overturn(j, o)
    <3>1. run[p][j] \in Terminal /\ state' = [state EXCEPT ![j] = run[p][j]]
      BY <2>5 DEF Finish, FinishThrows
    <3>2. state[j] \in {"running", "failed", "succeeded"}
      BY <3>1 DEF RunIsClaimed, Terminal
    <3>3. QED
      BY <3>1, <3>2 DEF Terminal, Lifecycle!Terminal, Lifecycle!End, Lifecycle!Overturn
  <2>6. CASE \E j \in Job : Enqueue(j) \/ CancelQueued(j)
    BY <2>6, <2>1, <2>2 DEF Enqueue, Lifecycle!Next
  <2>7. CASE \E p \in Proc : Schedule(p)
    BY <2>7, <2>1 DEF Schedule, Lifecycle!Next
  <2>8. CASE \E p \in Proc : Claim(p) \/ ClaimUnanswered(p)
    <3>1. PICK p \in Proc : Claim(p) \/ ClaimUnanswered(p)
      BY <2>8
    <3>2. next[p] \in Job /\ claimRow(p, next[p])
      BY <3>1 DEF Claim, ClaimUnanswered, At, Selected, table
    <3>3. QED
      BY <3>2, <2>3 DEF Lifecycle!Next
  <2>9. CASE \E p \in Proc : Sweep(p)
    <3>1. PICK p \in Proc : Sweep(p)
      BY <2>9
    <3>2. Swept(p) \in SUBSET Job
      BY DEF Swept
    <3>3. QED
      BY <3>1, <3>2, <2>4 DEF Lifecycle!Next
  <2>10. CASE \E p \in Proc, j \in Job : Finish(p, j) \/ FinishThrows(p, j)
    BY <2>10, <2>5 DEF Lifecycle!Next
  <2>11. QED
    BY <2>6, <2>7, <2>8, <2>9, <2>10
    DEF Next, Client, Time, Pass, Faults, Process, RunJob, CancelRunning, BeginPass, EndSchedule,
        Select, EndPass, Beat, HandlerReturns, HandlerThrows, Start, BeginStop, AbortAll, EndStop,
        PassFails, Crash, LeaseExpires, GoesStale, Stall, table, local
<1>3. QED
  BY Invariance, <1>1, <1>2, PTL DEF Spec, ImplementsLifecycle, Lifecycle!Spec
=============================================================================
