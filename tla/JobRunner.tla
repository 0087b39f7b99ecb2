------------------------------ MODULE JobRunner ------------------------------
(***************************************************************************)
(* The job loop of the control plane: the jobs table, the worker lease and *)
(* the processes that run JobRunner (incuscloud/server/src/jobs/runner.ts, *)
(* jobs/queue.ts, api/jobs.ts, reconcile/lease.ts).                        *)
(*                                                                         *)
(* Every database statement is one step; whatever runs between two awaits  *)
(* of a process is part of the step before the await.  A process is one    *)
(* run of the program: a restart is a later process, under the same holder *)
(* name when the container restarts in place (hostname and pid are those   *)
(* of the previous run), under another when the pod is recreated.          *)
(*                                                                         *)
(* Time is abstracted to its two uses: the lease has or has not expired,   *)
(* and a heartbeat is or is not older than staleMs.                        *)
(***************************************************************************)
EXTENDS Naturals, FiniteSets

CONSTANTS
  Job,            \* jobs that may be inserted
  Key, NoKey,     \* instance keys, and the absence of one
  KeyOf,          \* [Job -> Key \cup {NoKey}]
  Proc,           \* runs of the worker program
  Holder,         \* "<hostname>/<pid>"
  NoHolder,       \* no row in the leases table
  HolderOf,       \* [Proc -> Holder]
  NoJob,          \* nothing selected
  Concurrency,    \* IC_JOB_CONCURRENCY
  MaxStalls,      \* how often a live worker may miss staleMs of heartbeats
  MaxLost         \* how many commits may lose their answer or not happen

ASSUME JobAssumption ==
  /\ NoKey \notin Key /\ KeyOf \in [Job -> Key \cup {NoKey}]
  /\ NoJob \notin Job
ASSUME ProcAssumption ==
  Proc # {} /\ NoHolder \notin Holder /\ HolderOf \in [Proc -> Holder]
ASSUME BoundAssumption ==
  Concurrency \in Nat \ {0} /\ MaxStalls \in Nat /\ MaxLost \in Nat

VARIABLES
  \* the jobs table
  state, by, cancelRequested, stale, createdAt,
  \* the leases table, row "jobs"
  leaseHolder, leaseLive,
  \* each process: its phase, the loop's position and selected row, the runs in
  \* `active` with what their handler came to, and the aborted signals
  mode, pc, next, run, aborted,
  \* the bounds' counters
  clock, stalls, lost

table  == <<state, by, cancelRequested, stale, createdAt>>
lease  == <<leaseHolder, leaseLive>>
local  == <<mode, pc, next, run, aborted>>
bounds == <<clock, stalls, lost>>
vars   == <<table, lease, local, bounds>>

Active   == {"queued", "running"}
Terminal == {"succeeded", "failed", "cancelled"}
State    == {"none"} \cup Active \cup Terminal
Mode     == {"new", "up", "stopping", "draining", "down", "dead"}
Step     == {"idle", "sweep", "schedule", "select", "claim"}

Live(p)    == mode[p] \in {"up", "stopping", "draining"}
Stopped(p) == mode[p] # "up"
active(p)  == {j \in Job : run[p][j] # "none"}

TypeOK ==
  /\ state \in [Job -> State]
  /\ by \in [Job -> Proc]
  /\ cancelRequested \in [Job -> BOOLEAN]
  /\ stale \in [Job -> BOOLEAN]
  /\ createdAt \in [Job -> Nat]
  /\ leaseHolder \in Holder \cup {NoHolder}
  /\ leaseLive \in BOOLEAN
  /\ mode \in [Proc -> Mode]
  /\ pc \in [Proc -> Step]
  /\ next \in [Proc -> Job \cup {NoJob}]
  /\ run \in [Proc -> [Job -> {"none", "running"} \cup Terminal]]
  /\ aborted \in [Proc -> SUBSET Job]
  /\ clock \in Nat /\ stalls \in Nat /\ lost \in Nat

(* Rows not inserted yet carry an arbitrary `by`: holder is null in them. *)
Init ==
  /\ state = [j \in Job |-> "none"]
  /\ by = [j \in Job |-> CHOOSE p \in Proc : TRUE]
  /\ cancelRequested = [j \in Job |-> FALSE]
  /\ stale = [j \in Job |-> FALSE]
  /\ createdAt = [j \in Job |-> 0]
  /\ leaseHolder = NoHolder /\ leaseLive = FALSE
  /\ mode = [p \in Proc |-> "new"]
  /\ pc = [p \in Proc |-> "idle"]
  /\ next = [p \in Proc |-> NoJob]
  /\ run = [p \in Proc |-> [j \in Job |-> "none"]]
  /\ aborted = [p \in Proc |-> {}]
  /\ clock = 0 /\ stalls = 0 /\ lost = 0

-----------------------------------------------------------------------------
(* The queue and its API. *)

(* Slip: the index covers running rows only. *)
KeyFree_runningOnly(j) ==
  KeyOf[j] # NoKey =>
    \A k \in Job : KeyOf[k] = KeyOf[j] => state[k] # "running"

(* The partial unique index jobs_active_instance. *)
KeyFree(j) ==
  KeyOf[j] # NoKey =>
    \A k \in Job : KeyOf[k] = KeyOf[j] => state[k] \notin Active

(* The insert; a busy key is refused (409) and changes nothing. *)
enqueueJob(j) ==
  /\ state[j] = "none"
  /\ KeyFree(j)
  /\ state' = [state EXCEPT ![j] = "queued"]
  /\ createdAt' = [createdAt EXCEPT ![j] = clock]
  /\ clock' = clock + 1

Enqueue(j) ==
  /\ enqueueJob(j)
  /\ UNCHANGED <<by, cancelRequested, stale, lease, local, stalls, lost>>

(* Slip: a job is cancelled at once whether or not it already runs. *)
CancelQueued_anyState(j) ==
  /\ state[j] \in Active
  /\ state' = [state EXCEPT ![j] = "cancelled"]
  /\ cancelRequested' = [cancelRequested EXCEPT ![j] = TRUE]
  /\ UNCHANGED <<by, stale, createdAt, lease, local, bounds>>

(* POST /jobs/:id/cancel: a queued job is cancelled now, a running one asked to. *)
CancelQueued(j) ==
  /\ state[j] = "queued"
  /\ state' = [state EXCEPT ![j] = "cancelled"]
  /\ cancelRequested' = [cancelRequested EXCEPT ![j] = TRUE]
  /\ UNCHANGED <<by, stale, createdAt, lease, local, bounds>>

CancelRunning(j) ==
  /\ state[j] = "running"
  /\ cancelRequested' = [cancelRequested EXCEPT ![j] = TRUE]
  /\ UNCHANGED <<state, by, stale, createdAt, lease, local, bounds>>

-----------------------------------------------------------------------------
(* The pass: tick(). *)

(* Slip: an expired lease is not taken over. *)
acquireLease_noExpiry(h) ==
  /\ leaseHolder = NoHolder \/ leaseHolder = h
  /\ leaseHolder' = h /\ leaseLive' = TRUE

acquireLease(h) ==
  /\ leaseHolder = NoHolder \/ leaseHolder = h \/ ~leaseLive
  /\ leaseHolder' = h /\ leaseLive' = TRUE

At(p, here, there) ==
  /\ Live(p)
  /\ pc[p] = here
  /\ pc' = [pc EXCEPT ![p] = there]

BeginPass(p) ==
  /\ mode[p] = "up"
  /\ At(p, "idle", "sweep")
  /\ acquireLease(HolderOf[p])
  /\ UNCHANGED <<table, mode, next, run, aborted, bounds>>

(* Slips: the sweep ignores the heartbeat, or the row's state. *)
Swept_anyHeartbeat(p) ==
  {j \in Job : state[j] = "running" /\ HolderOf[by[j]] # HolderOf[p]}
Swept_anyState(p) ==
  {j \in Job : state[j] # "none" /\ HolderOf[by[j]] # HolderOf[p] /\ stale[j]}

(* Jobs another worker was running when it went away. *)
Swept(p) ==
  {j \in Job : state[j] = "running" /\ HolderOf[by[j]] # HolderOf[p] /\ stale[j]}

Sweep(p) ==
  /\ At(p, "sweep", "schedule")
  /\ state' = [j \in Job |-> IF j \in Swept(p) THEN "failed" ELSE state[j]]
  /\ UNCHANGED <<by, cancelRequested, stale, createdAt, lease, mode, next, run, aborted, bounds>>

(* beforeTick: the schedulers insert what is due, one job at a time. *)
Schedule(p) ==
  /\ At(p, "schedule", "schedule")
  /\ \E j \in Job : enqueueJob(j)
  /\ UNCHANGED <<by, cancelRequested, stale, lease, mode, next, run, aborted, stalls, lost>>

EndSchedule(p) ==
  /\ At(p, "schedule", "select")
  /\ UNCHANGED <<table, lease, mode, next, run, aborted, bounds>>

MayTakeAnother(p) == ~Stopped(p) /\ Cardinality(active(p)) < Concurrency

Oldest(j) ==
  /\ state[j] = "queued"
  /\ \A k \in Job : state[k] = "queued" => createdAt[j] <= createdAt[k]

Select(p) ==
  /\ MayTakeAnother(p)
  /\ At(p, "select", "claim")
  /\ \E j \in Job : Oldest(j) /\ next' = [next EXCEPT ![p] = j]
  /\ UNCHANGED <<table, lease, mode, run, aborted, bounds>>

EndPass(p) ==
  /\ ~MayTakeAnother(p) \/ \A j \in Job : state[j] # "queued"
  /\ At(p, "select", "idle")
  /\ UNCHANGED <<table, lease, mode, next, run, aborted, bounds>>

(* Slip: the claim updates the row by id alone. *)
claimRow_byId(p, j) ==
  /\ state' = [state EXCEPT ![j] = "running"]
  /\ by' = [by EXCEPT ![j] = p]
  /\ stale' = [stale EXCEPT ![j] = FALSE]
  /\ UNCHANGED <<cancelRequested, createdAt>>

(* The guarded update of the selected row, in the table. *)
claimRow(p, j) ==
  /\ state[j] = "queued"
  /\ state' = [state EXCEPT ![j] = "running"]
  /\ by' = [by EXCEPT ![j] = p]
  /\ stale' = [stale EXCEPT ![j] = FALSE]
  /\ UNCHANGED <<cancelRequested, createdAt>>

Claim(p) ==
  /\ At(p, "claim", "select")
  /\ next' = [next EXCEPT ![p] = NoJob]
  /\ \/ /\ claimRow(p, next[p])
        /\ run' = [run EXCEPT ![p][next[p]] = "running"]
     \/ /\ state[next[p]] # "queued"
        /\ UNCHANGED <<table, run>>
  /\ UNCHANGED <<lease, mode, aborted, bounds>>

(* The claim commits but its answer is lost: the pass fails, nothing is launched. *)
ClaimUnanswered(p) ==
  /\ lost < MaxLost /\ lost' = lost + 1
  /\ At(p, "claim", "idle")
  /\ next' = [next EXCEPT ![p] = NoJob]
  /\ claimRow(p, next[p])
  /\ UNCHANGED <<lease, mode, run, aborted, clock, stalls>>

(* A statement of the pass throws: logged, and the next poll starts over. *)
PassFails(p) ==
  /\ lost < MaxLost /\ lost' = lost + 1
  /\ Live(p)
  /\ pc[p] # "idle" /\ pc' = [pc EXCEPT ![p] = "idle"]
  /\ next' = [next EXCEPT ![p] = NoJob]
  /\ UNCHANGED <<table, lease, mode, run, aborted, clock, stalls>>

-----------------------------------------------------------------------------
(* A launched job: run(). *)

(* The interval: heartbeat whatever the row's state, and see a cancel request. *)
Beat(p, j) ==
  /\ Live(p) /\ j \in active(p)
  /\ stale' = [stale EXCEPT ![j] = FALSE]
  /\ aborted' = [aborted EXCEPT ![p] = IF cancelRequested[j] THEN @ \cup {j} ELSE @]
  /\ UNCHANGED <<state, by, cancelRequested, createdAt, lease, mode, pc, next, run, bounds>>

(* Slips: an aborted signal always means a cancel; an interrupted job gets a
   state of its own. *)
Thrown_abortedFirst(p, j) == IF j \in aborted[p] THEN "cancelled" ELSE "failed"
Thrown_ownState(p, j) ==
  IF Stopped(p) THEN "interrupted"
  ELSE IF j \in aborted[p] THEN "cancelled" ELSE "failed"

(* What the catch clause makes of a handler that threw. *)
Thrown(p, j) ==
  IF Stopped(p) THEN "failed"
  ELSE IF j \in aborted[p] THEN "cancelled" ELSE "failed"

HandlerReturns(p, j) ==
  /\ Live(p) /\ run[p][j] = "running"
  /\ run' = [run EXCEPT ![p][j] = "succeeded"]
  /\ UNCHANGED <<table, lease, mode, pc, next, aborted, bounds>>

HandlerThrows(p, j) ==
  /\ Live(p) /\ run[p][j] = "running"
  /\ run' = [run EXCEPT ![p][j] = Thrown(p, j)]
  /\ UNCHANGED <<table, lease, mode, pc, next, aborted, bounds>>

leaveActive(p, j) ==
  /\ run' = [run EXCEPT ![p][j] = "none"]
  /\ aborted' = [aborted EXCEPT ![p] = @ \ {j}]

(* finish(): the outcome is written by id, whatever the row holds by then. *)
Finish(p, j) ==
  /\ Live(p) /\ run[p][j] \in Terminal
  /\ state' = [state EXCEPT ![j] = run[p][j]]
  /\ leaveActive(p, j)
  /\ UNCHANGED <<by, cancelRequested, stale, createdAt, lease, mode, pc, next, bounds>>

(* finish() throws, its commit done or not.  In the try block that is one more
   error for the catch clause, which writes a second outcome; in the catch clause
   it ends the run, whatever the row holds. *)
FinishThrows(p, j) ==
  /\ lost < MaxLost /\ lost' = lost + 1
  /\ Live(p) /\ run[p][j] \in Terminal
  /\ \/ UNCHANGED state
     \/ state' = [state EXCEPT ![j] = run[p][j]]
  /\ \/ run[p][j] = "succeeded" /\ run' = [run EXCEPT ![p][j] = Thrown(p, j)] /\ UNCHANGED aborted
     \/ run[p][j] # "succeeded" /\ leaveActive(p, j)
  /\ UNCHANGED <<by, cancelRequested, stale, createdAt, lease, mode, pc, next, clock, stalls>>

-----------------------------------------------------------------------------
(* Processes and time. *)

(* One run of the program per holder name at a time. *)
Start(p) ==
  /\ mode[p] = "new"
  /\ \A q \in Proc : HolderOf[q] = HolderOf[p] => ~Live(q)
  /\ mode' = [mode EXCEPT ![p] = "up"]
  /\ UNCHANGED <<table, lease, pc, next, run, aborted, bounds>>

(* The deployment keeps a worker: some process has not ended yet. *)
Survived(p) == \E q \in Proc \ {p} : mode[q] \in {"new", "up"}

BeginStop(p) ==
  /\ mode[p] = "up" /\ Survived(p)
  /\ mode' = [mode EXCEPT ![p] = "stopping"]
  /\ UNCHANGED <<table, lease, pc, next, run, aborted, bounds>>

(* stop() awaits the loop, then aborts every run. *)
AbortAll(p) ==
  /\ mode[p] = "stopping" /\ pc[p] = "idle"
  /\ mode' = [mode EXCEPT ![p] = "draining"]
  /\ aborted' = [aborted EXCEPT ![p] = active(p)]
  /\ UNCHANGED <<table, lease, pc, next, run, bounds>>

releaseLease(h) ==
  IF leaseHolder = h
  THEN leaseHolder' = NoHolder /\ leaseLive' = FALSE
  ELSE UNCHANGED lease

(* Slip: stop() does not await the runs it aborted. *)
EndStop_noAwait(p) ==
  /\ mode[p] = "draining"
  /\ mode' = [mode EXCEPT ![p] = "down"]
  /\ releaseLease(HolderOf[p])
  /\ UNCHANGED <<table, pc, next, run, aborted, bounds>>

EndStop(p) ==
  /\ mode[p] = "draining" /\ active(p) = {}
  /\ mode' = [mode EXCEPT ![p] = "down"]
  /\ releaseLease(HolderOf[p])
  /\ UNCHANGED <<table, pc, next, run, aborted, bounds>>

(* Killed: nothing in memory survives, nothing in the database changes. *)
Crash(p) ==
  /\ Live(p) /\ Survived(p)
  /\ mode' = [mode EXCEPT ![p] = "dead"]
  /\ pc' = [pc EXCEPT ![p] = "idle"]
  /\ next' = [next EXCEPT ![p] = NoJob]
  /\ run' = [run EXCEPT ![p] = [j \in Job |-> "none"]]
  /\ aborted' = [aborted EXCEPT ![p] = {}]
  /\ UNCHANGED <<table, lease, bounds>>

LeaseExpires ==
  /\ leaseHolder # NoHolder /\ leaseLive
  /\ leaseLive' = FALSE
  /\ UNCHANGED <<table, leaseHolder, local, bounds>>

(* No one beats for this row any more. *)
GoesStale(j) ==
  /\ state[j] = "running" /\ ~stale[j]
  /\ j \notin active(by[j])
  /\ stale' = [stale EXCEPT ![j] = TRUE]
  /\ UNCHANGED <<state, by, cancelRequested, createdAt, lease, local, bounds>>

(* A live worker is paused, or cut off from the database, for staleMs. *)
Stall(j) ==
  /\ stalls < MaxStalls /\ stalls' = stalls + 1
  /\ state[j] = "running" /\ ~stale[j]
  /\ j \in active(by[j])
  /\ stale' = [stale EXCEPT ![j] = TRUE]
  /\ UNCHANGED <<state, by, cancelRequested, createdAt, lease, local, clock, lost>>

-----------------------------------------------------------------------------
Client == \E j \in Job : Enqueue(j) \/ CancelQueued(j) \/ CancelRunning(j)

Pass(p) ==
  \/ BeginPass(p) \/ Sweep(p) \/ Schedule(p) \/ EndSchedule(p)
  \/ Select(p) \/ EndPass(p) \/ Claim(p)

RunJob(p, j) ==
  Beat(p, j) \/ HandlerReturns(p, j) \/ HandlerThrows(p, j) \/ Finish(p, j)

Faults(p) ==
  \/ PassFails(p) \/ ClaimUnanswered(p)
  \/ \E j \in Job : FinishThrows(p, j)

Process(p) == Start(p) \/ BeginStop(p) \/ AbortAll(p) \/ EndStop(p) \/ Crash(p)

Time == LeaseExpires \/ \E j \in Job : GoesStale(j) \/ Stall(j)

Next ==
  \/ Client
  \/ Time
  \/ \E p \in Proc : Pass(p) \/ Faults(p) \/ Process(p)
  \/ \E p \in Proc, j \in Job : RunJob(p, j)

Spec == Init /\ [][Next]_vars

(***************************************************************************)
(* Fairness.  A live process keeps polling and its statements return; a    *)
(* handler ends (every wait in the handlers has a deadline or ends with    *)
(* the Incus operation it waits for); an ended process is started again;   *)
(* time passes for rows and leases nobody renews.  Nothing obliges a       *)
(* client, a fault, a stop or a crash to happen.                           *)
(***************************************************************************)
Fairness ==
  /\ \A p \in Proc :
       /\ WF_vars(Start(p) \/ AbortAll(p) \/ EndStop(p))
       /\ WF_vars(BeginPass(p) \/ Sweep(p) \/ EndSchedule(p)
                 \/ Select(p) \/ EndPass(p) \/ Claim(p))
       /\ \A j \in Job :
            WF_vars(HandlerReturns(p, j) \/ HandlerThrows(p, j) \/ Finish(p, j))
  /\ \A j \in Job : WF_vars(GoesStale(j))
  /\ WF_vars(LeaseExpires /\ \A p \in Proc : HolderOf[p] = leaseHolder => ~Live(p))

FairSpec == Spec /\ Fairness

-----------------------------------------------------------------------------
(* A handler is running for job j in process p. *)
Handling(p, j) == run[p][j] = "running"

(* queue.ts promises that no two jobs work on one instance: while no live
   worker stalls past staleMs, no two handlers ever run for the same instance
   key, in one process or in two, through crashes, restarts and sweeps. *)
OneHandlerPerInstance ==
  \A p, q \in Proc : \A j, k \in Job :
    /\ Handling(p, j) /\ Handling(q, k)
    /\ KeyOf[j] = KeyOf[k] /\ KeyOf[j] # NoKey
    => p = q /\ j = k

(* tick() reads the oldest queued row and claims it in a second statement:
   although the lease may pass to another process between the two, and a cancel
   may come in between, no job is ever launched by two processes. *)
LaunchedOnce ==
  \A p, q \in Proc : \A j \in Job :
    Handling(p, j) /\ Handling(q, j) => p = q

(* If two handlers do run for one instance, every row but one of theirs was
   swept: the table itself never shows two active jobs for the instance. *)
OverlapNeedsSweep ==
  \A p, q \in Proc : \A j, k \in Job :
    /\ Handling(p, j) /\ Handling(q, k) /\ j # k
    /\ KeyOf[j] = KeyOf[k] /\ KeyOf[j] # NoKey
    => state[j] = "failed" \/ state[k] = "failed"

(* The catch clause tells a cancel from a shutdown: stop() aborts the signal of
   every running job, and none of them may be reported as cancelled for it. *)
CancelledWasRequested ==
  \A j \in Job : state[j] = "cancelled" => cancelRequested[j]

(* While no commit's answer is lost, every running row has a run behind it unless
   its process died: none is left by a process that stopped, the job it was
   claiming when it was told to stop included. *)
RunningHasRun ==
  \A j \in Job :
    state[j] = "running" =>
      mode[by[j]] = "dead" \/ (mode[by[j]] # "down" /\ j \in active(by[j]))

(* A finished job never changes its outcome, and never runs again. *)
OutcomeStands ==
  [][\A j \in Job : state[j] \in Terminal => state'[j] = state[j]]_vars

(* The table, seen alone, is the lifecycle JobLifecycle promises. *)
Lifecycle == INSTANCE JobLifecycle WITH Job <- Job, KeyOf <- KeyOf, NoKey <- NoKey, state <- state
ImplementsLifecycle == Lifecycle!Spec

(* "one left running by a worker that stopped ends as failed (interrupted)":
   every job that is running ends, whatever process dies under it. *)
RunningEnds == \A j \in Job : state[j] = "running" ~> state[j] \in Terminal

(* Every queued job ends too: passes go on, and no queued row is passed over. *)
QueuedEnds == \A j \in Job : state[j] = "queued" ~> state[j] \in Terminal

-----------------------------------------------------------------------------
(* The inductive invariants behind the safety properties (JobRunnerProofs). *)

(* A process about to claim has a row selected. *)
Selected == \A p \in Proc : pc[p] = "claim" => next[p] \in Job

(* A run in memory belongs to the process the row names, and its row has been
   claimed; it may have been swept, or hold a success not acknowledged. *)
RunIsClaimed ==
  \A p \in Proc, j \in Job :
    /\ run[p][j] # "none" => by[j] = p /\ state[j] \in {"running", "failed", "succeeded"}
    /\ Handling(p, j) => state[j] # "succeeded"

(* The unique index: two active rows never share an instance key. *)
OneActiveRow ==
  \A j, k \in Job :
    /\ j # k /\ KeyOf[j] = KeyOf[k] /\ KeyOf[j] # NoKey
    /\ state[j] \in Active
    => state[k] \notin Active

(* A signal is aborted, and an outcome is "cancelled", on request only, until the
   process is told to stop. *)
AbortIsRequested ==
  /\ \A p \in Proc, j \in Job :
       /\ mode[p] \in {"new", "up"} /\ j \in aborted[p] => cancelRequested[j]
       /\ run[p][j] = "cancelled" => cancelRequested[j]
  /\ \A j \in Job : state[j] = "cancelled" => cancelRequested[j]

IInv == TypeOK /\ Selected /\ RunIsClaimed /\ OneActiveRow /\ AbortIsRequested

(* Without stalls, a stale row has no run and a handler's row is running... *)
NotStale == \A p \in Proc, j \in Job : stale[j] => run[p][j] = "none"
HandlerRowRuns == \A p \in Proc, j \in Job : Handling(p, j) => state[j] = "running"

(* ...and, when no commit is lost either, so is the row of every run. *)
RunRowRuns == \A p \in Proc, j \in Job : run[p][j] # "none" => state[j] = "running"
=============================================================================
