----------------------------- MODULE Replication -----------------------------
(***************************************************************************)
(* One replication policy (mobility/replication.ts, api/replication.ts):   *)
(* runs that copy an instance to another cluster or refresh that copy, and *)
(* failovers that make the copy an ordinary instance.  Runs are keyed on   *)
(* the source instance, so one is active at a time; a failover is not, and *)
(* runs beside runs, other failovers and users of the target cluster.      *)
(*                                                                         *)
(* Every request to the target and every statement of the database is one  *)
(* step.  Incus is external: it does one operation on an instance at a     *)
(* time, and neither refreshes nor deletes a running one.                  *)
(***************************************************************************)
EXTENDS Integers, FiniteSets

CONSTANTS
  Run, Failover,  \* job ids
  NoJob,
  MaxWrites,      \* how often the guest writes at the source
  MaxUserSteps,   \* how often a user acts on the target or the policy
  MaxFaults       \* how often a request fails, a job is cut short or its worker dies

ASSUME ReplicationAssumption ==
  /\ NoJob \notin Run /\ Run \cap Failover = {}
  /\ MaxWrites \in Nat /\ MaxUserSteps \in Nat /\ MaxFaults \in Nat

VARIABLES
  data,           \* how much the guest has written at the source
  inst,           \* the instance at the target name
  op,             \* the run whose transfer Incus is busy with there
  policy, enabled,
  synced,         \* the last run ended well: lastError is empty
  pc,             \* the step of every job
  refresh,        \* what a run found: its replica, or nothing
  wasRunning,     \* what a failover found
  trusted,        \* history: failovers begun with the last run ended well and
                  \* none active, and none begun since
  broken,         \* history: a failover promoted the replica and did not end
  userSteps, faults

target == <<inst, op>>
row    == <<policy, enabled, synced>>
memory == <<refresh, wasRunning>>
past   == <<trusted, broken>>
bounds == <<userSteps, faults>>
vars   == <<data, target, row, pc, memory, past, bounds>>

Partial == -1
Gone    == [who |-> "none", job |-> NoJob, data |-> Partial, running |-> FALSE]
RunSteps      == {"queued", "start", "transfer", "catch", "delete", "fail"}
FailoverSteps == {"asked", "promote", "boot", "close"}
Active(r) == pc[r] \in RunSteps

Amount == 0 .. MaxWrites
Instance == [who : {"none", "replica", "promoted", "user"}, job : Run \cup {NoJob},
             data : Amount \cup {Partial}, running : BOOLEAN]
Step == {"none"} \cup RunSteps \cup FailoverSteps

TypeOK ==
  /\ data \in Amount
  /\ inst \in Instance
  /\ op \in Run \cup {NoJob}
  /\ policy \in {"active", "failed-over", "deleted"} /\ enabled \in BOOLEAN /\ synced \in BOOLEAN
  /\ pc \in [Run \cup Failover -> Step]
  /\ refresh \in [Run -> BOOLEAN] /\ wasRunning \in [Failover -> BOOLEAN]
  /\ trusted \subseteq Failover /\ broken \in BOOLEAN
  /\ userSteps \in 0 .. MaxUserSteps /\ faults \in 0 .. MaxFaults

Init ==
  /\ data = 0 /\ inst = Gone /\ op = NoJob
  /\ policy = "active" /\ enabled = TRUE /\ synced = FALSE
  /\ pc = [j \in Run \cup Failover |-> "none"]
  /\ refresh = [r \in Run |-> FALSE] /\ wasRunning = [f \in Failover |-> FALSE]
  /\ trusted = {} /\ broken = FALSE
  /\ userSteps = 0 /\ faults = 0

Go(j, next) == pc' = [pc EXCEPT ![j] = next]

(* The job ends; what it has read is forgotten. *)
End(j) ==
  /\ Go(j, "none")
  /\ refresh' = [r \in Run |-> refresh[r] /\ r # j]
  /\ wasRunning' = [f \in Failover |-> wasRunning[f] /\ f # j]

Fault == faults < MaxFaults /\ faults' = faults + 1

-----------------------------------------------------------------------------
(* replicateHandler *)

(* scheduleReplication and POST .../run: one active job per instance.  A job id
   is used again only when nothing at the target carries it any more. *)
Enqueue(r) ==
  /\ policy = "active" /\ \A q \in Run : ~Active(q)
  /\ inst.job # r /\ op # r
  /\ Go(r, "queued") /\ trusted' = {}
  /\ UNCHANGED <<data, target, row, memory, broken, bounds>>

(* The policy is loaded; what stands at the target is not touched unless it
   is tagged as this policy's replica. *)
Check(r) ==
  /\ pc[r] = "queued"
  /\ refresh' = [refresh EXCEPT ![r] = (inst.who # "none")]
  /\ \/ policy = "deleted" /\ Go(r, "none")
     \/ policy # "deleted" /\ inst.who \in {"user", "promoted"} /\ Go(r, "fail")
     \/ policy # "deleted" /\ inst.who \in {"none", "replica"} /\ Go(r, "start")
  /\ UNCHANGED <<data, target, row, wasRunning, past, bounds>>

(* Slip: the transfer is never told to refresh. *)
Start_copyOnly(r) ==
  /\ pc[r] = "start"
  /\ \/ /\ op = NoJob /\ inst.who = "none"
        /\ inst' = [Gone EXCEPT !.who = "replica", !.job = r]
        /\ op' = r /\ Go(r, "transfer")
     \/ (op # NoJob \/ inst.who # "none") /\ Go(r, "catch") /\ UNCHANGED target
  /\ UNCHANGED <<data, row, memory, past, bounds>>

(* Preflight and the transfer's request.  A refresh of an instance that has
   gone meanwhile is a copy. *)
Start(r) ==
  /\ pc[r] = "start"
  /\ \/ /\ op = NoJob /\ inst.who = "none"
        /\ inst' = [Gone EXCEPT !.who = "replica", !.job = IF refresh[r] THEN NoJob ELSE r]
        /\ op' = r /\ Go(r, "transfer") /\ UNCHANGED faults
     \/ /\ op = NoJob /\ inst.who # "none" /\ refresh[r] /\ ~inst.running
        /\ inst' = [inst EXCEPT !.data = Partial]
        /\ op' = r /\ Go(r, "transfer") /\ UNCHANGED faults
     \/ /\ op # NoJob \/ (inst.who # "none" /\ (~refresh[r] \/ inst.running))
        /\ Go(r, "catch") /\ UNCHANGED <<target, faults>>
     \/ Fault /\ Go(r, "catch") /\ UNCHANGED target
  /\ UNCHANGED <<data, row, memory, past, userSteps>>

(* Incus ends the transfer: the data is whole, or the copy goes, or what was
   refreshed stays as far as it got. *)
Land ==
  /\ op # NoJob /\ op' = NoJob
  /\ \/ inst' = [inst EXCEPT !.data = data] /\ UNCHANGED <<faults, pc>>
     \/ /\ Fault
        /\ \/ inst.job = op /\ inst' = Gone
           \/ inst.job # op /\ UNCHANGED inst
        /\ pc' = [pc EXCEPT ![op] = IF @ = "transfer" THEN "catch" ELSE @]
  /\ UNCHANGED <<data, row, memory, trusted, broken, userSteps>>

(* The run was answered: it is recorded and the owner carried over. *)
Succeed(r) ==
  /\ pc[r] = "transfer" /\ op # r /\ End(r)
  /\ synced' = TRUE
  /\ UNCHANGED <<data, target, policy, enabled, past, bounds>>

(* The run is cancelled or runs out of time; Incus may go on. *)
Cut(r) ==
  /\ pc[r] = "transfer" /\ op = r /\ Fault /\ Go(r, "catch")
  /\ UNCHANGED <<data, target, row, memory, past, userSteps>>

(* A first copy this run left behind is looked for, then deleted by name. *)
Catch(r) ==
  /\ pc[r] = "catch"
  /\ \/ ~refresh[r] /\ inst.job = r /\ Go(r, "delete") /\ UNCHANGED faults
     \/ (refresh[r] \/ inst.job # r) /\ Go(r, "fail") /\ UNCHANGED faults
     \/ ~refresh[r] /\ Fault /\ Go(r, "fail")
  /\ UNCHANGED <<data, target, row, memory, past, userSteps>>

Delete(r) ==
  /\ pc[r] = "delete" /\ Go(r, "fail")
  /\ \/ op = NoJob /\ ~inst.running /\ inst' = Gone /\ UNCHANGED faults
     \/ (op # NoJob \/ inst.running) /\ UNCHANGED <<inst, faults>>
     \/ Fault /\ UNCHANGED inst
  /\ UNCHANGED <<data, op, row, memory, past, userSteps>>

(* Slip: a failed run leaves the record of the last success. *)
Fail_silent(r) ==
  /\ pc[r] = "fail" /\ End(r)
  /\ UNCHANGED <<data, target, row, past, bounds>>

(* lastError is recorded and the job fails. *)
Fail(r) ==
  /\ pc[r] = "fail" /\ End(r) /\ synced' = FALSE
  /\ UNCHANGED <<data, target, policy, enabled, past, bounds>>

(* The worker dies and the job is swept: no catch clause runs.  The job's own
   state tells that the last run did not end well. *)
Crash(j) ==
  /\ pc[j] # "none" /\ Fault /\ End(j)
  /\ synced' = (synced /\ j \notin Run)
  /\ broken' = (broken \/ pc[j] \in {"boot", "close"})
  /\ UNCHANGED <<data, target, policy, enabled, trusted, userSteps>>

-----------------------------------------------------------------------------
(* failoverHandler *)

(* POST .../failover, not keyed on the instance. *)
Ask(f) ==
  /\ pc[f] = "none" /\ policy = "active" /\ Go(f, "asked")
  /\ UNCHANGED <<data, target, row, memory, past, bounds>>

(* The policy and the replica are read.  Stopping the source is best effort. *)
Read(f) ==
  /\ pc[f] = "asked"
  /\ wasRunning' = [wasRunning EXCEPT ![f] = inst.running]
  /\ \/ /\ policy = "active" /\ inst.who = "replica" /\ Go(f, "promote")
        /\ trusted' = IF synced /\ \A r \in Run : ~Active(r) THEN trusted \cup {f}
                      ELSE trusted \ {f}
     \/ (policy # "active" \/ inst.who # "replica") /\ Go(f, "none") /\ UNCHANGED trusted
  /\ UNCHANGED <<data, target, row, refresh, broken, bounds>>

(* The PUT goes by name, with the configuration read before. *)
Promote(f) ==
  /\ pc[f] = "promote"
  /\ \/ /\ inst.who # "none" /\ inst' = [inst EXCEPT !.who = "promoted", !.job = NoJob]
        /\ Go(f, "boot") /\ UNCHANGED memory /\ UNCHANGED faults
     \/ inst.who = "none" /\ End(f) /\ UNCHANGED <<inst, faults>>
     \/ Fault /\ End(f) /\ UNCHANGED inst
  /\ UNCHANGED <<data, op, row, trusted, broken, userSteps>>

(* The promoted instance is started, unless it ran when it was read. *)
Boot(f) ==
  /\ pc[f] = "boot"
  /\ \/ wasRunning[f] /\ Go(f, "close") /\ UNCHANGED memory /\ UNCHANGED <<inst, broken, faults>>
     \/ /\ ~wasRunning[f] /\ inst.who # "none" /\ ~inst.running /\ op = NoJob
        /\ inst' = [inst EXCEPT !.running = TRUE] /\ Go(f, "close") /\ UNCHANGED memory /\ UNCHANGED <<broken, faults>>
     \/ /\ ~wasRunning[f] /\ (inst.who = "none" \/ inst.running \/ op # NoJob)
        /\ broken' = TRUE /\ End(f) /\ UNCHANGED <<inst, faults>>
     \/ ~wasRunning[f] /\ Fault /\ broken' = TRUE /\ End(f) /\ UNCHANGED inst
  /\ UNCHANGED <<data, op, row, trusted, userSteps>>

(* Slip: the policy is disabled and its state left. *)
Close_disabled(f) ==
  /\ pc[f] = "close" /\ End(f) /\ enabled' = FALSE
  /\ UNCHANGED <<data, target, policy, synced, past, bounds>>

(* The policy stops replicating. *)
Close(f) ==
  /\ pc[f] = "close" /\ End(f)
  /\ policy' = IF policy = "deleted" THEN policy ELSE "failed-over"
  /\ enabled' = FALSE
  /\ UNCHANGED <<data, target, synced, past, bounds>>

-----------------------------------------------------------------------------
(* The guest, and users of the target and of the policy. *)

Write == data < MaxWrites /\ data' = data + 1
         /\ UNCHANGED <<target, row, pc, memory, past, bounds>>

UserStep == userSteps < MaxUserSteps /\ userSteps' = userSteps + 1

(* Somebody removes the instance at the target name, makes one there, starts
   or stops it. *)
UserActs ==
  /\ UserStep /\ op = NoJob
  /\ \/ inst.who # "none" /\ ~inst.running /\ inst' = Gone
     \/ inst.who = "none" /\ inst' = [Gone EXCEPT !.who = "user", !.data = 0]
     \/ inst.who # "none" /\ inst' = [inst EXCEPT !.running = ~@]
  /\ UNCHANGED <<data, op, row, pc, memory, trusted, broken, faults>>

(* PATCH and DELETE of the policy. *)
Patch ==
  /\ UserStep /\ policy # "deleted"
  /\ \/ enabled' = ~enabled /\ UNCHANGED policy
     \/ policy' = "deleted" /\ enabled' = FALSE
  /\ UNCHANGED <<data, target, synced, pc, memory, past, faults>>

RunStep(r) == Check(r) \/ Start(r) \/ Succeed(r) \/ Catch(r) \/ Delete(r) \/ Fail(r)
FailoverStep(f) == Read(f) \/ Promote(f) \/ Boot(f) \/ Close(f)

Next ==
  \/ \E r \in Run : Enqueue(r) \/ RunStep(r) \/ Cut(r)
  \/ \E f \in Failover : Ask(f) \/ FailoverStep(f)
  \/ \E j \in Run \cup Failover : Crash(j)
  \/ Land \/ Write \/ UserActs \/ Patch

Spec == Init /\ [][Next]_vars

(* The worker works on what it has claimed, Incus ends its operations, and the
   schedule comes round again for an enabled policy. *)
FairSpec ==
  /\ Spec
  /\ \A r \in Run : WF_vars(RunStep(r))
  /\ \A f \in Failover : WF_vars(FailoverStep(f))
  /\ WF_vars(Land) /\ WF_vars(enabled /\ \E r \in Run : Enqueue(r))

-----------------------------------------------------------------------------
(* "An instance of the same name that is not this policy's replica is never
   touched": no request of a run changes or removes one.  Not so: a run reads the
   tag once, and refreshes or deletes by name after a failover promoted the
   replica. *)
OthersUntouched ==
  [][inst.who \in {"user", "promoted"} /\ inst' # inst
       => \A r \in Run : ~Start(r) /\ ~Delete(r)]_vars

(* What a failover promotes is whole if the last run ended well and none began
   since: no earlier failed, cut or killed run shows through. *)
PromotedWhole ==
  [][\A f \in Failover :
       (pc[f] = "promote" /\ pc'[f] = "boot" /\ f \in trusted /\ inst.who = "replica")
         => inst.data # Partial]_vars

(* An active policy has a promoted instance only while a failover is on its
   way, unless one broke off after promoting: the replica of an active policy is
   there to be refreshed and to fail over to. *)
PromotedEnds ==
  (policy = "active" /\ inst.who = "promoted" /\ ~broken)
    => \E f \in Failover : pc[f] \in {"boot", "close"}

(* The replica catches up with the source again and again, whatever failed
   before, as long as the policy is active and enabled, nothing else has its
   name and nobody has started it: half-made copies and broken refreshes do not
   hold up later runs. *)
CatchesUp ==
  LET free == inst.who \in {"none", "replica"} /\ ~inst.running
  IN  []<>(policy = "active" /\ enabled /\ free => inst.data = data)

-----------------------------------------------------------------------------
(* What the safety properties rest on: together with them inductive. *)

(* Runs are keyed on the source instance: one is active at a time. *)
OneRun ==
  /\ \A r \in Run : pc[r] \in {"none"} \cup RunSteps
  /\ \A q, r \in Run : Active(q) /\ Active(r) => q = r

(* A transfer Incus has ended well left the replica whole. *)
AnsweredIsWhole ==
  \A r \in Run :
    /\ pc[r] = "transfer" => op \in {r, NoJob}
    /\ pc[r] = "transfer" /\ op # r /\ inst.who = "replica" => inst.data # Partial

(* After a run that ended well the replica is whole and nothing touches it
   before the next one starts. *)
SyncedIsWhole ==
  (synced /\ inst.who = "replica" /\ \A r \in Run : pc[r] \notin RunSteps \ {"queued"})
    => inst.data # Partial /\ op = NoJob

(* While a failover is trusted no run is active, and the last one ended well. *)
TrustedIsQuiet == trusted # {} => synced /\ \A r \in Run : ~Active(r)

IInv ==
  /\ TypeOK /\ OneRun /\ AnsweredIsWhole
  /\ SyncedIsWhole /\ TrustedIsQuiet /\ PromotedEnds
=============================================================================
