------------------------------ MODULE Migration ------------------------------
(***************************************************************************)
(* migrateHandler: an instance is copied or moved to another cluster       *)
(* (incuscloud/server/src/mobility/migrate-job.ts and transfer.ts), with   *)
(* what runs beside it: the Incus operation on the target, users of both   *)
(* clusters, the lifecycle events that forget owners and leases            *)
(* (acl/lifecycle.ts) and the passes that hand them out to what has none.  *)
(*                                                                         *)
(* All jobs here move the same instance to the same name on one target.    *)
(* Every request to a cluster and every statement of the database is one   *)
(* step.  A request may be refused without effect, or its answer may be    *)
(* lost: IncusAdminClient.request gives up after 30 s.  What was asked for *)
(* has then been done, or the operation goes on and ends later.            *)
(***************************************************************************)
EXTENDS Naturals, FiniteSets

CONSTANTS
  Job,            \* migrate jobs on this instance
  Other,          \* whoever made an instance no migrate job made
  Nobody,         \* no instance
  Kinds,          \* the kinds of job that may be asked for: copy, move, live move
  Transports,     \* auto, direct, relay
  MaxFaults,      \* how many requests may fail
  MaxWrites,      \* how often the guest writes at the source
  MaxUserStarts   \* how often a user starts the source during a job

ASSUME MigrationAssumption ==
  /\ Other \notin Job /\ Nobody \notin Job \cup {Other}
  /\ Kinds \subseteq {"copy", "move", "live"}
  /\ Transports \subseteq {"auto", "direct", "relay"}
  /\ MaxFaults \in Nat /\ MaxWrites \in Nat /\ MaxUserStarts \in Nat

VARIABLES
  \* the two clusters
  source,         \* the instance's status; "left" when its guest moved away live
  data,           \* how much the guest has written at the source
  maker,          \* who made the instance at the target name (TAG_JOB)
  copied,         \* how much of the data it has; Partial until it is whole
  copy,           \* its status
  op,             \* the target operation of each job
  pending,        \* the status an operation nobody waits for leads to, if one goes on
  \* the database: owners and leases of the two names, the inventory request
  owner, lease, inventoryDue, event,
  \* the handlers
  pc, kind, via, wasRunning, stoppedSource, leaseRead, aborted,
  \* the bounds' counters; faults also records where requests failed
  faults, userStarts

incus    == <<source, data, maker, copied, copy, op, pending>>
rows     == <<owner, lease>>
memory   == <<kind, wasRunning, stoppedSource, leaseRead>>
outside  == <<aborted, userStarts>>
vars     == <<incus, event, rows, inventoryDue, pc, memory, via, outside, faults>>

Partial  == MaxWrites + 1
Status   == {"absent", "stopped", "running", "left"}
Ended    == {"idle", "done", "failed", "dead"}
Rollback == {"rollback", "rbRead", "rbStop", "rbDelete", "rbStart"}
Commitment == {"left", "stopLeft", "delete", "carryOwner", "putLease"}
Step     == Ended \cup Rollback \cup Commitment \cup
            {"stop", "startSource", "startTarget", "connect", "wait", "cancel", "cancelRelay",
             "verify", "startCopy", "commit"}
Fault    == Job \X Step \X {"refused", "unanswered"}
InFlight == {"waiting", "linked"}

TypeOK ==
  /\ source \in Status /\ copy \in Status /\ data \in 0 .. MaxWrites
  /\ maker \in Job \cup {Other, Nobody} /\ copied \in 0 .. Partial
  /\ op \in [Job -> {"none", "success", "failed"} \cup InFlight]
  /\ pending \in [{"src", "dst"} -> {"none", "running", "stopped", "absent"}]
  /\ owner \in [{"src", "dst"} -> {"none", "owner", "first", "actor"}]
  /\ lease \in [{"src", "dst"} -> {"none", "kept", "policy"}]
  /\ inventoryDue \in BOOLEAN /\ event \in {"none", "sent", "leases", "handled"}
  /\ pc \in [Job -> Step]
  /\ kind \in [Job -> {"copy", "move", "live"}]
  /\ via \in [Job -> {"auto", "direct", "relay"}]
  /\ wasRunning \in [Job -> BOOLEAN] /\ stoppedSource \in [Job -> BOOLEAN]
  /\ leaseRead \in [Job -> {"none", "kept", "policy"}]
  /\ aborted \in SUBSET Job
  /\ faults \subseteq Fault /\ userStarts \in Nat

Init ==
  /\ source \in {"stopped", "running"} /\ data = 0
  /\ maker = Nobody /\ copied = Partial /\ copy = "absent"
  /\ op = [j \in Job |-> "none"] /\ pending = [c \in {"src", "dst"} |-> "none"]
  /\ owner = [c \in {"src", "dst"} |-> IF c = "src" THEN "owner" ELSE "none"]
  /\ lease = [c \in {"src", "dst"} |-> IF c = "src" THEN "kept" ELSE "none"]
  /\ inventoryDue = FALSE /\ event = "none"
  /\ pc = [j \in Job |-> "idle"]
  /\ kind = [j \in Job |-> "copy"] /\ via = [j \in Job |-> "auto"]
  /\ wasRunning = [j \in Job |-> FALSE] /\ stoppedSource = [j \in Job |-> FALSE]
  /\ leaseRead = [j \in Job |-> "none"]
  /\ aborted = {} /\ faults = {} /\ userStarts = 0

-----------------------------------------------------------------------------
(* How a request ends. *)

Go(j, next) == pc' = [pc EXCEPT ![j] = next]

Fails(j, how) ==
  /\ Cardinality(faults) < MaxFaults
  /\ <<j, pc[j], how>> \notin faults
  /\ faults' = faults \cup {<<j, pc[j], how>>}

committed(j) == kind[j] # "copy" /\ pc[j] \in Commitment

(* Slip: the catch clause rolls back whether or not the move is committed. *)
Raise_always(j) == Go(j, "rollback") /\ UNCHANGED inventoryDue

(* The catch clause: before the commit a rollback, after it only the failure;
   `finally` asks for the inventory of both clusters again. *)
Raise(j) ==
  \/ ~committed(j) /\ Go(j, "rollback") /\ UNCHANGED inventoryDue
  \/ committed(j) /\ Go(j, "failed") /\ inventoryDue' = TRUE

(* A request the cluster can or cannot do; unanswered is what may have come of it
   when the answer is lost.  The write of the stage to the job's row that precedes
   it fails like a refused request. *)
Throws(j, can, unanswered) ==
  \/ ~can /\ UNCHANGED <<incus, event, faults>>
  \/ Fails(j, "refused") /\ UNCHANGED <<incus, event>>
  \/ can /\ Fails(j, "unanswered") /\ unanswered

Awaited(j, can, effect, unanswered, next) ==
  \/ can /\ effect /\ Go(j, next) /\ UNCHANGED <<faults, inventoryDue>>
  \/ Throws(j, can, unanswered) /\ Raise(j)

Request(j, can, effect, next) == Awaited(j, can, effect, effect, next)

(* The same with .catch(() => {}). *)
Swallowed(j, can, effect, unanswered, next) ==
  /\ (can /\ effect /\ UNCHANGED faults) \/ Throws(j, can, unanswered)
  /\ Go(j, next)

setSource(status) ==
  source' = status /\ UNCHANGED <<data, maker, copied, copy, op, pending, event>>
setCopy(status) ==
  copy' = status /\ UNCHANGED <<source, data, maker, copied, op, pending, event>>

statusOf(c) == IF c = "src" THEN source ELSE copy

(* setState is content when the instance is in that state; otherwise Incus refuses
   while another operation on the instance goes on. *)
canSet(c, status) ==
  statusOf(c) # "absent" /\ (pending[c] = "none" \/ statusOf(c) = status)

(* The wait for the operation has been given up and the operation goes on. *)
GoesOn(c, status) ==
  /\ statusOf(c) # status
  /\ pending' = [pending EXCEPT ![c] = status]
  /\ UNCHANGED <<source, data, maker, copied, copy, op, event>>

-----------------------------------------------------------------------------
(* The handler up to the transfer. *)

(* Of the pre-flight, what other steps can change: the names and the status. *)
preflight(k) ==
  /\ source # "absent" /\ maker = Nobody
  /\ k = "live" => source # "stopped"

FirstOf(v) == IF v = "relay" THEN "startSource" ELSE "startTarget"

(* Slip: the source is copied while it runs. *)
Begin_running(k, v) == FirstOf(v)

Begin(k, v) == IF k = "move" /\ source # "stopped" THEN "stop" ELSE FirstOf(v)

(* A failed pre-flight (or a cluster that cannot be read) ends the job before
   anything changed: no step of this model. *)
Check(j) ==
  /\ pc[j] = "idle"
  /\ \A k \in Job : pc[k] \in Ended
  /\ \E k \in Kinds, v \in Transports :
       /\ preflight(k)
       /\ kind' = [kind EXCEPT ![j] = k] /\ via' = [via EXCEPT ![j] = v]
       /\ wasRunning' = [wasRunning EXCEPT ![j] = source # "stopped"]
       /\ Go(j, Begin(k, v))
  /\ UNCHANGED <<incus, event, rows, inventoryDue, stoppedSource, leaseRead, outside, faults>>

(* Slip: nobody notes that the job stopped the source. *)
StopSource_noFlag(j) ==
  /\ pc[j] = "stop"
  /\ Awaited(j, canSet("src", "stopped"), setSource("stopped"),
             setSource("stopped") \/ GoesOn("src", "stopped"), FirstOf(via[j]))
  /\ UNCHANGED <<rows, memory, via, outside>>

(* The flag that makes the rollback restart the source follows the answer. *)
StopSource(j) ==
  /\ pc[j] = "stop"
  /\ Awaited(j, canSet("src", "stopped"), setSource("stopped"),
             setSource("stopped") \/ GoesOn("src", "stopped"), FirstOf(via[j]))
  /\ stoppedSource' = [stoppedSource EXCEPT ![j] = pc'[j] # "rollback"]
  /\ UNCHANGED <<rows, kind, wasRunning, leaseRead, via, outside>>

-----------------------------------------------------------------------------
(* transfer(): direct starts the target, then the source; relay the source,
   then the target.  A transfer that fails cancels what it started. *)

setOp(j, o) == op' = [op EXCEPT ![j] = o]

(* Incus makes the instance, under its tag, when it accepts the request. *)
Create(j) ==
  /\ maker' = j /\ copied' = Partial /\ copy' = "stopped"
  /\ setOp(j, "waiting")
  /\ UNCHANGED <<source, data, pending, event>>

(* ...and takes back one whose creation did not end. *)
Revert(j) ==
  /\ maker' = Nobody /\ copied' = Partial /\ copy' = "absent"
  /\ setOp(j, "failed") /\ pending' = [pending EXCEPT !["dst"] = "none"]
  /\ UNCHANGED <<source, data, event>>

StartTarget(j) ==
  /\ pc[j] = "startTarget"
  /\ Request(j, maker = Nobody, Create(j),
             IF via[j] = "relay" THEN "connect" ELSE "startSource")
  /\ UNCHANGED <<rows, memory, via, outside>>

(* The source has failed: cancel the target and, under auto, relay if the source
   says that it cannot reach the target. *)
SourceFails(j) ==
  \/ Go(j, IF via[j] = "relay" THEN "rollback" ELSE "cancel")
  \/ via[j] = "auto" /\ j \notin aborted /\ Go(j, "cancelRelay")

(* Data flows once something connects to a target that still waits. *)
Link(j) ==
  /\ op' = [op EXCEPT ![j] = IF @ = "waiting" THEN "linked" ELSE @]
  /\ UNCHANGED <<source, data, maker, copied, copy, pending, event>>

StartSource(j) ==
  /\ pc[j] = "startSource"
  /\ \/ /\ via[j] # "relay" /\ source # "absent"
        /\ Link(j) /\ Go(j, "wait") /\ UNCHANGED faults
     \/ /\ via[j] = "relay" /\ source # "absent"
        /\ Go(j, "startTarget") /\ UNCHANGED <<incus, event, faults>>
     \/ via[j] # "relay" /\ Throws(j, source # "absent", Link(j)) /\ SourceFails(j)
     \/ /\ via[j] = "relay" /\ SourceFails(j)
        /\ Throws(j, source # "absent", UNCHANGED <<incus, event>>)
  /\ UNCHANGED <<rows, inventoryDue, memory, via, outside>>

(* The relay opens and joins the websockets of both operations. *)
Connect(j) ==
  /\ pc[j] = "connect"
  /\ \/ Link(j) /\ Go(j, "wait") /\ UNCHANGED faults
     \/ Fails(j, "refused") /\ Go(j, "cancel") /\ UNCHANGED <<incus, event>>
  /\ UNCHANGED <<rows, inventoryDue, memory, via, outside>>

(* Slip: the loop waits for the target whatever the signal says. *)
WaitTarget_noSignal(j) ==
  /\ pc[j] = "wait"
  /\ \/ op[j] = "success" /\ Go(j, "verify") /\ UNCHANGED faults
     \/ op[j] = "failed" /\ Go(j, "rollback") /\ UNCHANGED faults
     \/ Fails(j, "refused") /\ Go(j, "cancel")
  /\ UNCHANGED <<incus, event, rows, inventoryDue, memory, via, outside>>

(* Slip: it is enough that the source is connected. *)
WaitTarget_early(j) ==
  /\ pc[j] = "wait"
  /\ \/ op[j] \in {"linked", "success"} /\ Go(j, "verify") /\ UNCHANGED faults
     \/ op[j] = "failed" /\ Go(j, "rollback") /\ UNCHANGED faults
     \/ Fails(j, "refused") /\ Go(j, "cancel")
  /\ UNCHANGED <<incus, event, rows, inventoryDue, memory, via, outside>>

(* waitTarget's loop: the signal, then the target operation, which may end while
   the signal is raised.  A failed target has nothing left to cancel. *)
WaitTarget(j) ==
  /\ pc[j] = "wait"
  /\ \/ j \in aborted /\ Go(j, "cancel") /\ UNCHANGED faults
     \/ op[j] = "success" /\ Go(j, "verify") /\ UNCHANGED faults
     \/ op[j] = "failed" /\ Go(j, "rollback") /\ UNCHANGED faults
     \/ Fails(j, "refused") /\ Go(j, "cancel")
  /\ UNCHANGED <<incus, event, rows, inventoryDue, memory, via, outside>>

(* The loop finds that the operation on the source has failed. *)
SourceLost(j) ==
  /\ pc[j] = "wait" /\ via[j] # "relay" /\ op[j] = "linked"
  /\ SourceFails(j)
  /\ UNCHANGED <<incus, event, rows, inventoryDue, memory, via, outside, faults>>

CancelTarget(j) ==
  /\ \/ /\ pc[j] = "cancel"
        /\ Swallowed(j, op[j] \in InFlight, Revert(j), Revert(j), "rollback")
        /\ UNCHANGED via
     \/ /\ pc[j] = "cancelRelay"
        /\ Swallowed(j, op[j] \in InFlight, Revert(j), Revert(j), "startSource")
        /\ via' = [via EXCEPT ![j] = "relay"]
  /\ UNCHANGED <<rows, inventoryDue, memory, outside>>

(* The operation on the target cluster; a live move takes the guest along. *)
TargetSucceeds(j) ==
  /\ op[j] = "linked" /\ source # "absent" /\ pending["dst"] = "none"
  /\ kind[j] = "live" => source = "running"
  /\ setOp(j, "success") /\ copied' = data
  /\ IF kind[j] = "live" THEN source' = "left" /\ copy' = "running"
                         ELSE UNCHANGED <<source, copy>>
  /\ UNCHANGED <<data, maker, pending, event, rows, inventoryDue, pc, memory, via, outside,
                 faults>>

TargetFails(j) ==
  /\ op[j] \in InFlight /\ Revert(j)
  /\ UNCHANGED <<rows, inventoryDue, pc, memory, via, outside, faults>>

-----------------------------------------------------------------------------
(* From the verification to the end. *)

AfterVerify(j) ==
  IF kind[j] = "copy" THEN "carryOwner"
  ELSE IF kind[j] = "move" /\ wasRunning[j] /\ copy # "running" THEN "startCopy"
  ELSE "commit"

Verify(j) ==
  /\ pc[j] = "verify"
  /\ Request(j, maker # Nobody, UNCHANGED <<incus, event>>, AfterVerify(j))
  /\ UNCHANGED <<rows, memory, via, outside>>

StartCopy(j) ==
  /\ pc[j] = "startCopy"
  /\ Awaited(j, canSet("dst", "running"), setCopy("running"),
             setCopy("running") \/ GoesOn("dst", "running"), "commit")
  /\ UNCHANGED <<rows, memory, via, outside>>

(* leaseOf, the last look at the signal, and committed = true. *)
Commit(j) ==
  /\ pc[j] = "commit"
  /\ \/ j \notin aborted /\ Go(j, "left") /\ UNCHANGED faults
     \/ j \in aborted /\ Go(j, "rollback") /\ UNCHANGED faults
     \/ Fails(j, "refused") /\ Go(j, "rollback")
  /\ leaseRead' = [leaseRead EXCEPT ![j] = lease["src"]]
  /\ UNCHANGED <<incus, event, rows, inventoryDue, kind, wasRunning, stoppedSource, via, outside>>

ReadLeft(j) ==
  /\ pc[j] = "left"
  /\ Request(j, TRUE, UNCHANGED <<incus, event>>,
             IF source \in {"absent", "stopped"} THEN "delete" ELSE "stopLeft")
  /\ UNCHANGED <<rows, memory, via, outside>>

StopLeft(j) ==
  /\ pc[j] = "stopLeft"
  /\ Awaited(j, canSet("src", "stopped"), setSource("stopped"),
             setSource("stopped") \/ GoesOn("src", "stopped"), "delete")
  /\ UNCHANGED <<rows, memory, via, outside>>

(* Incus refuses to delete what runs or is busy, and tells its listeners when it
   deletes. *)
canDelete(c) == statusOf(c) = "stopped" /\ pending[c] = "none"

RemoveSource ==
  source' = "absent" /\ event' = "sent" /\ UNCHANGED <<data, maker, copied, copy, op>>

DeleteSource(j) ==
  /\ pc[j] = "delete"
  /\ Awaited(j, canDelete("src"), RemoveSource /\ UNCHANGED pending,
             (RemoveSource /\ UNCHANGED pending) \/ GoesOn("src", "absent"), "carryOwner")
  /\ UNCHANGED <<rows, memory, via, outside>>

(* Slip: what was read is carried without a look whether there was a row. *)
CarryOwner_blank(j) ==
  /\ pc[j] = "carryOwner" /\ Go(j, "putLease")
  /\ owner' = [owner EXCEPT !["src"] = "none",
                              !["dst"] = IF owner["src"] = "none" THEN "undefined" ELSE owner["src"]]
  /\ UNCHANGED <<incus, event, lease, memory, via, outside, faults, inventoryDue>>

(* carryOwner, or recordOwner for a copy.  The owner is read and carried in two
   statements; forgetting the source's row between them changes nothing. *)
CarryOwner(j) ==
  /\ pc[j] = "carryOwner"
  /\ \/ /\ Go(j, "putLease") /\ UNCHANGED <<faults, inventoryDue>>
        /\ \/ kind[j] = "copy" /\ owner' = [owner EXCEPT !["dst"] = "actor"]
           \/ /\ kind[j] # "copy" /\ owner["src"] # "none"
              /\ owner' = [owner EXCEPT !["dst"] = owner["src"], !["src"] = "none"]
           \/ kind[j] # "copy" /\ owner["src"] = "none" /\ UNCHANGED owner
     \/ Fails(j, "refused") /\ Raise(j) /\ UNCHANGED owner
  /\ UNCHANGED <<incus, event, lease, memory, via, outside>>

(* Slip: the lease is read again instead of before the source went. *)
PutLease_readNow(j) ==
  /\ pc[j] = "putLease"
  /\ Go(j, "done") /\ inventoryDue' = TRUE /\ UNCHANGED faults
  /\ IF kind[j] # "copy" /\ lease["src"] # "none"
     THEN lease' = [lease EXCEPT !["dst"] = lease["src"]] ELSE UNCHANGED lease
  /\ UNCHANGED <<incus, event, owner, memory, via, outside>>

(* Within the tenant; elsewhere the instance gets that tenant's own policy. *)
PutLease(j) ==
  /\ pc[j] = "putLease"
  /\ \/ /\ Go(j, "done") /\ inventoryDue' = TRUE /\ UNCHANGED faults
        /\ IF kind[j] # "copy" /\ leaseRead[j] # "none"
           THEN lease' = [lease EXCEPT !["dst"] = leaseRead[j]] ELSE UNCHANGED lease
     \/ kind[j] # "copy" /\ Fails(j, "refused") /\ Raise(j) /\ UNCHANGED lease
  /\ UNCHANGED <<incus, event, owner, memory, via, outside>>

-----------------------------------------------------------------------------
(* The rollback. *)

(* The stage is written first; if that fails, so does the rest. *)
BeginRollback(j) ==
  /\ pc[j] = "rollback"
  /\ \/ Go(j, "rbRead") /\ UNCHANGED <<faults, inventoryDue>>
     \/ Fails(j, "refused") /\ Go(j, "failed") /\ inventoryDue' = TRUE
  /\ UNCHANGED <<incus, event, rows, memory, via, outside>>

(* Slip: whatever has the target's name is the copy. *)
AfterRead_anyTag(j) ==
  IF maker = Nobody THEN "rbStart" ELSE IF copy = "running" THEN "rbStop" ELSE "rbDelete"

AfterRead(j) ==
  IF maker # j THEN "rbStart" ELSE IF copy = "running" THEN "rbStop" ELSE "rbDelete"

ReadCopy(j) ==
  /\ pc[j] = "rbRead"
  /\ \/ Go(j, AfterRead(j)) /\ UNCHANGED faults
     \/ Fails(j, "refused") /\ Go(j, "rbStart")
  /\ UNCHANGED <<incus, event, rows, inventoryDue, memory, via, outside>>

StopCopy(j) ==
  /\ pc[j] = "rbStop"
  /\ Swallowed(j, canSet("dst", "stopped"), setCopy("stopped"),
               setCopy("stopped") \/ GoesOn("dst", "stopped"), "rbDelete")
  /\ UNCHANGED <<rows, inventoryDue, memory, via, outside>>

(* By name: an operation still creating what is deleted fails. *)
RemoveCopy ==
  /\ maker' = Nobody /\ copied' = Partial /\ copy' = "absent"
  /\ op' = [k \in Job |-> IF k = maker /\ op[k] \in InFlight THEN "failed" ELSE op[k]]
  /\ UNCHANGED <<source, data, event>>

DeleteCopy(j) ==
  /\ pc[j] = "rbDelete"
  /\ Swallowed(j, canDelete("dst"), RemoveCopy /\ UNCHANGED pending,
               (RemoveCopy /\ UNCHANGED pending) \/ GoesOn("dst", "absent"), "rbStart")
  /\ UNCHANGED <<rows, inventoryDue, memory, via, outside>>

RestartSource(j) ==
  /\ pc[j] = "rbStart" /\ inventoryDue' = TRUE
  /\ \/ /\ ~stoppedSource[j] /\ Go(j, "failed") /\ UNCHANGED <<incus, event, faults>>
     \/ /\ stoppedSource[j]
        /\ Swallowed(j, canSet("src", "running"), setSource("running"),
                     setSource("running") \/ GoesOn("src", "running"), "failed")
  /\ UNCHANGED <<rows, memory, via, outside>>

-----------------------------------------------------------------------------
(* Everything else. *)

(* An operation the handler gave up waiting for ends, with or without success. *)
OperationEnds(c) ==
  /\ pending[c] # "none" /\ pending' = [pending EXCEPT ![c] = "none"]
  /\ \/ UNCHANGED <<source, data, maker, copied, copy, op, event>>
     \/ c = "src" /\ pending[c] = "absent" /\ RemoveSource
     \/ c = "dst" /\ pending[c] = "absent" /\ RemoveCopy
     \/ /\ c = "src" /\ pending[c] # "absent" /\ source' = pending[c]
        /\ UNCHANGED <<data, maker, copied, copy, op, event>>
     \/ /\ c = "dst" /\ pending[c] # "absent" /\ copy' = pending[c]
        /\ UNCHANGED <<source, data, maker, copied, op, event>>
  /\ UNCHANGED <<rows, inventoryDue, pc, memory, via, outside, faults>>

(* A cancel, or the worker's stop, raises the signal. *)
Cancel(j) ==
  /\ pc[j] \notin Ended /\ j \notin aborted
  /\ aborted' = aborted \cup {j}
  /\ UNCHANGED <<incus, event, rows, inventoryDue, pc, memory, via, userStarts, faults>>

(* The worker dies; no later job takes up what it left.  A request under way at that
   moment is one that goes unanswered just before. *)
Crash(j) ==
  /\ pc[j] \notin Ended
  /\ Go(j, "dead")
  /\ UNCHANGED <<incus, event, rows, inventoryDue, memory, via, outside, faults>>

Write ==
  /\ source = "running" /\ data < MaxWrites
  /\ data' = data + 1
  /\ UNCHANGED <<source, maker, copied, copy, op, pending, event, rows, inventoryDue, pc,
                 memory, via, outside, faults>>

UserStarts ==
  /\ source = "stopped" /\ pending["src"] = "none" /\ userStarts < MaxUserStarts
  /\ userStarts' = userStarts + 1
  /\ setSource("running")
  /\ UNCHANGED <<rows, inventoryDue, pc, memory, via, aborted, faults>>

UserCreates ==
  /\ maker = Nobody
  /\ maker' = Other /\ copied' = Partial /\ copy' = "stopped"
  /\ UNCHANGED <<source, data, op, pending, event, rows, inventoryDue, pc, memory, via, outside,
                 faults>>

(* onLifecycle, instance-deleted of the source: two statements. *)
ForgetOwner ==
  /\ event = "sent" /\ event' = "leases"
  /\ owner' = [owner EXCEPT !["src"] = "none"]
  /\ UNCHANGED <<incus, lease, inventoryDue, pc, memory, via, outside, faults>>

ForgetLease ==
  /\ event = "leases" /\ event' = "handled"
  /\ lease' = [lease EXCEPT !["src"] = "none"]
  /\ UNCHANGED <<incus, owner, inventoryDue, pc, memory, via, outside, faults>>

(* A fleet pass sees the target's instance and gives what has no owner to the
   tenant's first one; the job loop gives what has no lease the policy's. *)
Backfill ==
  /\ inventoryDue \/ (maker # Nobody /\ owner["dst"] = "none")
  /\ inventoryDue' = FALSE
  /\ owner' = [owner EXCEPT !["dst"] = IF @ = "none" /\ maker # Nobody THEN "first" ELSE @]
  /\ UNCHANGED <<incus, event, lease, pc, memory, via, outside, faults>>

GrantLease ==
  /\ maker # Nobody /\ lease["dst"] = "none"
  /\ lease' = [lease EXCEPT !["dst"] = "policy"]
  /\ UNCHANGED <<incus, event, owner, inventoryDue, pc, memory, via, outside, faults>>

Handler(j) ==
  \/ StopSource(j) \/ StartTarget(j) \/ StartSource(j) \/ Connect(j) \/ WaitTarget(j)
  \/ SourceLost(j) \/ CancelTarget(j) \/ Verify(j) \/ StartCopy(j) \/ Commit(j) \/ ReadLeft(j)
  \/ StopLeft(j) \/ DeleteSource(j) \/ CarryOwner(j) \/ PutLease(j)
  \/ BeginRollback(j) \/ ReadCopy(j) \/ StopCopy(j) \/ DeleteCopy(j) \/ RestartSource(j)

Target(j) == TargetSucceeds(j) \/ TargetFails(j)

Elsewhere ==
  \/ \E c \in {"src", "dst"} : OperationEnds(c)
  \/ Write \/ UserStarts \/ UserCreates
  \/ ForgetOwner \/ ForgetLease \/ Backfill \/ GrantLease

Next ==
  \/ \E j \in Job : Check(j) \/ Handler(j) \/ Target(j) \/ Cancel(j) \/ Crash(j)
  \/ Elsewhere

Spec == Init /\ [][Next]_vars

(* Every request of a handler is answered or given up after 30 s.  Nothing is
   assumed of the operations on the clusters: they may never end. *)
FairSpec == Spec /\ \A j \in Job : WF_vars(Handler(j))

-----------------------------------------------------------------------------
(* Through refused and unanswered requests, cancels, crashes, retries and a user
   who starts the source or takes the name, the last complete instance is never
   deleted: until the copy is whole the source stays, and after it the copy. *)
NeverLost == source # "absent" \/ (maker \in Job /\ copied # Partial)

GivenUp(j, steps) == \E s \in steps : <<j, s, "unanswered">> \in faults

(* A restart of the source that some rollback gave up waiting for, and a stop. *)
RestartGivenUp == \E j \in Job : GivenUp(j, {"rbStart"})
StopGivenUp    == \E j \in Job : GivenUp(j, {"stop", "stopLeft"})

(* While nobody starts the source beside the job, be it a user or the late restart of
   an earlier rollback, a move deletes it only when the copy has everything the guest
   wrote: the guest writes nothing between the copy and the delete, nor after a live
   hand-off. *)
DeleteKeepsWrites ==
  [][source # "absent" /\ source' = "absent" => copied = data \/ RestartGivenUp]_vars

(* An operation of job j may still be making its copy when the rollback reads it:
   the request that started it, or the one that cancelled it, failed. *)
MayRevertLate(j) ==
  \E f \in faults :
    f[1] = j /\ (f = <<j, "startTarget", "unanswered">> \/ f[2] \in {"cancel", "cancelRelay"})

(* "so that it only ever removes its own instances": the rollback reads the tag
   and deletes by name in two requests.  It removes an instance it did not make
   only if Incus withdraws the copy between them. *)
OnlyOwnRemoved ==
  [][\A j \in Job :
       pc[j] = "rbDelete" /\ maker # Nobody /\ maker' = Nobody
         => maker = j \/ MayRevertLate(j)]_vars

Failed(j, steps) == \E f \in faults : f[1] = j /\ f[2] \in steps

(* What is promised of a failure or a cancel before the commit: no copy of the job is
   left, and the source runs if it ran. *)
Restored(j) == maker' # j /\ (wasRunning[j] => source' = "running")

(* The rollback of job j ends and its own requests have succeeded, no operation of
   the job goes on making the copy, and none starting it. *)
RolledBack(j) ==
  /\ pc[j] \in Rollback /\ pc'[j] = "failed"
  /\ ~Failed(j, Rollback) /\ faults' = faults
  /\ ~MayRevertLate(j) /\ ~GivenUp(j, {"startCopy"})

(* "until that delete, any failure or cancel removes the copy this job made and
   restarts the source if the job stopped it": so it is once the rollback is through,
   unless a stop of the source went unanswered or the guest has left it live. *)
RollbackRestores ==
  [][\A j \in Job : RolledBack(j) /\ ~StopGivenUp /\ source # "left" => Restored(j)]_vars

(* "Until the delete, a failure or a cancel removes the copy and restarts the source":
   said of live moves too.  The handler has not stopped the source of a live move, so
   after the hand-off it removes the copy the guest runs in and starts nothing. *)
LiveRestores ==
  [][\A j \in Job : RolledBack(j) /\ ~StopGivenUp => Restored(j)]_vars

(* "...restarts the source if the job stopped it": the flag is set once the stop has
   been answered, so a stop given up after 30 s is not undone. *)
StopIsUndone ==
  [][\A j \in Job : RolledBack(j) /\ source # "left" => Restored(j)]_vars

(* While no user starts the source beside the job, a move without a hand-off never
   leaves the instance running on both clusters, with one identity, unless the
   rollback could not read or stop the copy, or the handler gave up waiting for the
   copy's start: the copy may come up after the rollback found it stopped and could
   not delete it.  The rollback starts the source all the same. *)
TwinNeedsFault ==
  \A j \in Job :
    maker = j /\ kind[j] = "move" /\ copy = "running" /\ source = "running"
      => Failed(j, {"rbRead", "rbStop"}) \/ GivenUp(j, {"startCopy"})

(* "A moved instance keeps its lease", although the source's delete event forgets
   it while the job still runs and the policy gives the copy another. *)
LeaseKept ==
  \A j \in Job : pc[j] = "done" /\ kind[j] # "copy" => lease["dst"] = "kept"

(* A cancelled job ends, even if the transfer it waits for never does. *)
CancelEnds == \A j \in Job : j \in aborted ~> pc[j] \in Ended

-----------------------------------------------------------------------------
(* The inductive invariant behind these properties (MigrationProofs). *)

(* The job queue runs one job per instance. *)
OneAtATime ==
  \A j, k \in Job : pc[j] \notin Ended /\ pc[k] \notin Ended => j = k

(* An operation in flight is the only one, and its copy is not whole. *)
MakingIsPartial ==
  \A j \in Job : op[j] \in InFlight => maker = j /\ copied = Partial

(* Only moves commit, and nothing goes past the transfer unless it succeeded... *)
Verified == {"verify", "startCopy", "commit"} \cup Commitment
PastTransfer ==
  \A j \in Job :
    /\ pc[j] \in {"idle", "stop"} => op[j] = "none"
    /\ pc[j] \in Verified => op[j] = "success"
    /\ pc[j] \in Verified \ {"verify", "carryOwner", "putLease"} => kind[j] # "copy"

(* ...and what succeeded is still there, as long as the job does not roll back. *)
SuccessIsWhole ==
  \A j \in Job :
    op[j] = "success" /\ pc[j] \notin Ended \cup Rollback => maker = j /\ copied # Partial

(* What an operation that goes on can find: Incus allows one per instance. *)
PendingFits ==
  /\ pending["src"] \in {"running", "absent"} => source = "stopped"
  /\ pending["src"] = "stopped" => source \in {"running", "left"}
  /\ pending["dst"] \in {"running", "absent"} => copy = "stopped"
  /\ pending["dst"] = "stopped" => copy = "running"
  /\ maker = Nobody => copy = "absent" /\ pending["dst"] = "none"

(* Where one that goes on comes from. *)
PendingIsGivenUp ==
  /\ pending["src"] = "running" => RestartGivenUp
  /\ pending["src"] = "stopped" => StopGivenUp
  /\ \A j \in Job : maker = j /\ pending["dst"] = "running" => GivenUp(j, {"startCopy"})
  /\ \A j \in Job : maker = j /\ pending["dst"] = "stopped" => Failed(j, {"rbStop"})
  /\ pending["dst"] = "absent" => \A j \in Job : pc[j] \in Ended \cup {"rbStart"}

(* A job that found the source running meets no late restart of it. *)
RestartIsOver ==
  \A j \in Job : pc[j] \notin Ended /\ wasRunning[j] => pending["src"] # "running"

(* After the delete, or when it has been asked for, no step is left that could touch
   the copy. *)
GoneForGood ==
  source = "absent" \/ pending["src"] = "absent" =>
    /\ maker \in Job /\ copied # Partial /\ pending["dst"] # "absent"
    /\ \A j \in Job : \/ pc[j] \in Ended
                      \/ pc[j] \in {"carryOwner", "putLease"} /\ kind[j] # "copy"

(* While a job runs, the target's name is free, the job's or a user's. *)
RunningOwnsName ==
  /\ \A j \in Job : pc[j] \notin Ended => maker \in {Nobody, j, Other}
  /\ maker # Nobody => copy \in {"stopped", "running"}

(* A rollback meets an operation in flight only after a request about it failed,
   so without one what it has read is still its own... *)
LateIsFailed ==
  \A j \in Job :
    /\ op[j] \in InFlight
    /\ \/ pc[j] \in Rollback \cup {"startTarget"}
       \/ pc[j] = "startSource" /\ via[j] = "relay"
    => MayRevertLate(j)
ReadIsOwn ==
  \A j \in Job : pc[j] \in {"rbStop", "rbDelete"} => maker = j \/ MayRevertLate(j)

(* ...has been stopped before it is deleted, and is gone before the source starts. *)
RollbackStops ==
  \A j \in Job :
    pc[j] \in {"rbDelete", "rbStart"} /\ maker = j /\ copy = "running"
      => \/ Failed(j, {"rbRead", "rbStop"}) \/ GivenUp(j, {"startCopy"})
         \/ kind[j] = "live" /\ MayRevertLate(j)
RollbackRemoves ==
  \A j \in Job :
    pc[j] = "rbStart" /\ maker = j
      => Failed(j, Rollback) \/ MayRevertLate(j) \/ GivenUp(j, {"startCopy"})

(* A source that ran and that the job is not known to have stopped still runs, or its
   guest has left it. *)
RunsUnlessStopped ==
  \A j \in Job :
    /\ pc[j] \notin Ended /\ ~committed(j)
    /\ wasRunning[j] /\ ~stoppedSource[j] /\ ~StopGivenUp
    => source \in {"running", "left"}
StopIsNoted ==
  \A j \in Job :
    /\ pc[j] \in {"idle", "stop"} => ~stoppedSource[j]
    /\ pc[j] = "stop" => kind[j] = "move"
    /\ stoppedSource[j] /\ pc[j] \notin Ended => kind[j] = "move" /\ source # "left"

(* The lease is forgotten after the delete only, and by then it has been read. *)
LeaseIsRead ==
  /\ source # "absent" => event = "none"
  /\ event # "handled" => lease["src"] = "kept"
  /\ \A j \in Job : committed(j) => leaseRead[j] = "kept"

IInv ==
  /\ TypeOK /\ OneAtATime /\ MakingIsPartial
  /\ PastTransfer /\ SuccessIsWhole /\ GoneForGood
  /\ PendingFits /\ PendingIsGivenUp /\ RestartIsOver
  /\ RunningOwnsName /\ LateIsFailed /\ ReadIsOwn
  /\ RollbackStops /\ RollbackRemoves /\ RunsUnlessStopped /\ StopIsNoted
  /\ LeaseIsRead /\ LeaseKept

(* When no user starts the source, a move of a running instance keeps it stopped until
   the rollback starts it; one that found it stopped may meet a late restart... *)
MoveKeepsStopped ==
  \A j \in Job :
    kind[j] = "move" /\ pc[j] \notin Ended \cup Rollback \cup {"stop"}
      => \/ source \in {"stopped", "absent"}
         \/ ~wasRunning[j] /\ RestartGivenUp

(* ...but starts no copy... *)
OnlyRunningStarts ==
  \A j \in Job :
    /\ kind[j] = "move"
    /\ pc[j] = "startCopy" \/ (maker = j /\ (copy = "running" \/ pending["dst"] = "running"))
    => wasRunning[j]

(* ...and, but for that restart, what was transferred stays all there is. *)
TransferHasAll ==
  \A j \in Job :
    op[j] = "success" /\ kind[j] # "copy" /\ pc[j] \notin Ended \cup Rollback
      => (copied = data /\ source # "running") \/ RestartGivenUp
DeletesAll == pending["src"] = "absent" => copied = data \/ RestartGivenUp

(* A rollback that starts the source has dealt with the copy, or could not. *)
TwinIsExcused ==
  \A j \in Job :
    /\ maker = j /\ kind[j] = "move" /\ copy = "running"
    /\ source = "running" \/ pending["src"] = "running"
    => Failed(j, {"rbRead", "rbStop"}) \/ GivenUp(j, {"startCopy"})

QuietInv ==
  /\ MoveKeepsStopped /\ OnlyRunningStarts
  /\ TransferHasAll /\ DeletesAll /\ TwinIsExcused
=============================================================================
