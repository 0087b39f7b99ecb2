------------------------------- MODULE Leases -------------------------------
(***************************************************************************)
(* The lease of one instance name (leases/leases.ts): the scheduler that   *)
(* hands out leases and queues jobs for the ended ones, the job that stops *)
(* or deletes, the callers that extend, set or remove leases, the          *)
(* inventory (fleet/) both are driven by, and the delete events            *)
(* (acl/lifecycle.ts) that forget a lease.                                 *)
(*                                                                         *)
(* The name may be used again: instances are numbered in the order they    *)
(* are made, and a lease carries the number it was given to, which the     *)
(* table does not have.  Every statement and every request is one step.    *)
(* A pass goes by the time it began: a lease that ends before its select   *)
(* is one for the next pass.                                               *)
(***************************************************************************)
EXTENDS Naturals

CONSTANTS
  Caller,         \* who extends and sets leases
  MaxInstances,   \* how many instances ever have the name
  MaxExtensions,  \* the policy's maxExtensions
  MaxUpsets       \* calls, policy changes, starts and removals of the instance,
                  \* failed requests, jobs and passes cut short, lost events, together

ASSUME LeasesAssumption ==
  /\ MaxInstances \in Nat /\ MaxExtensions \in Nat /\ MaxUpsets \in Nat

VARIABLES
  current,        \* the instance at Incus; 0 is none
  running,
  made,           \* how many instances were made
  listed,         \* the inventory's row, as it was collected; 0 is none
  snap,           \* what the inventory worker has collected and not stored
  policy,         \* the tenant's leasePolicy: its action, or none
  dropping,       \* calls that removed the policy and not yet its leases
  lease,          \* the row of instance_leases
  pass,           \* the scheduler
  job,            \* the active job on the instance
  call,           \* calls under way
  deleted,        \* instances whose delete event is not handled yet
  upsets

incus   == <<current, running, made>>
fleet   == <<listed, snap>>
tenant  == <<policy, dropping>>
vars    == <<incus, fleet, tenant, lease, pass, job, call, deleted, upsets>>

Number == 0 .. MaxInstances
Count  == 0 .. MaxExtensions
Seen(n, r) == [of |-> n, running |-> r]

(* "never" is an end of null, which exempts the instance.  acted tells whether
   actedAt is null, before or after the inventory's seenAt.  The table does not
   have the rest: of, the instance the lease was given to; stray, that this was
   gone by then, or its delete event was lost; granted, how often it was extended;
   policy, whether the policy the lease was given under is in force; was removed by
   a call that is to drop the lease; was removed by one that was cut short; or had
   been removed before the lease was written. *)
NoLease == [of |-> 0, end |-> "none", extensions |-> 0, acted |-> "no",
            granted |-> 0, stray |-> FALSE, policy |-> "inForce"]

NoPass == [step |-> "idle", of |-> 0, action |-> "none", stored |-> FALSE, old |-> FALSE]
NoRun  == [step |-> "none", action |-> "none"]
NoCall == [what |-> "none", of |-> 0, extensions |-> 0, old |-> FALSE]

(* What the inventory holds of the name, and the types of the records above. *)
Listing   == [of : Number, running : BOOLEAN]
LeaseRow  == [of : Number, end : {"none", "valid", "ended", "never"},
              extensions : Count, acted : {"no", "unseen", "seen"},
              granted : Nat, stray : BOOLEAN,
              policy : {"inForce", "removed", "cut", "removedBefore"}]
PassState == [step : {"idle", "insert", "select", "enqueue", "mark"}, of : Number,
              action : {"none", "stop", "delete"}, stored : BOOLEAN, old : BOOLEAN]
JobState  == [step : {"none", "queued", "read", "stop", "delete", "forget", "mark"},
              action : {"none", "stop", "delete"}]
CallState == [what : {"none", "extend", "set"}, of : Number,
              extensions : Count, old : BOOLEAN]

TypeOK ==
  /\ current \in Number /\ made \in Number /\ current <= made
  /\ running \in BOOLEAN /\ (running => current # 0)
  /\ listed \in Listing /\ snap \in Listing \cup {NoPass}
  /\ policy \in {"none", "stop", "delete"} /\ dropping \in Nat
  /\ lease \in LeaseRow /\ pass \in PassState /\ job \in JobState
  /\ call \in [Caller -> CallState]
  /\ deleted \subseteq Number /\ upsets \in 0 .. MaxUpsets

Init ==
  /\ current = 0 /\ running = FALSE /\ made = 0
  /\ listed = Seen(0, FALSE) /\ snap = NoPass
  /\ policy = "stop" /\ dropping = 0 /\ lease = NoLease
  /\ pass = NoPass /\ job = NoRun /\ call = [c \in Caller |-> NoCall]
  /\ deleted = {} /\ upsets = 0

Upset == upsets < MaxUpsets /\ upsets' = upsets + 1

(* A lease for instance n, which may be gone, under a policy that may be. *)
Given(n, end, old) ==
  [NoLease EXCEPT !.of = n, !.end = end, !.stray = (n # current),
                  !.policy = IF old THEN "removedBefore" ELSE "inForce"]

-----------------------------------------------------------------------------
(* scheduleLeases *)

(* Slip: an ended lease is acted on once. *)
Due_once == /\ policy # "none" /\ listed.of # 0
            /\ lease.end = "ended" /\ lease.acted = "no"

(* An ended lease whose action is still to take, of a listed instance. *)
Due == /\ policy # "none" /\ listed.of # 0
       /\ lease.end = "ended" /\ lease.acted # "unseen"

(* The listed instances that have no lease are read, with the policy.  A pass
   that finds no lease to give and none due changes nothing: no step. *)
PassBegin ==
  /\ pass.step = "idle" /\ policy # "none" /\ listed.of # 0
  /\ \/ /\ lease.end = "none"
        /\ pass' = [NoPass EXCEPT !.step = "insert", !.of = listed.of]
     \/ Due /\ pass' = [NoPass EXCEPT !.step = "select"]
  /\ UNCHANGED <<incus, fleet, tenant, lease, job, call, deleted, upsets>>

(* onConflictDoNothing *)
PassInsert ==
  /\ pass.step = "insert"
  /\ lease' = IF lease.end = "none" THEN Given(pass.of, "valid", pass.old) ELSE lease
  /\ pass' = [pass EXCEPT !.step = "select", !.of = 0, !.old = FALSE]
  /\ UNCHANGED <<incus, fleet, tenant, job, call, deleted, upsets>>

PassSelect ==
  /\ pass.step = "select"
  /\ pass' = IF Due /\ (policy = "stop" => listed.running)
             THEN [pass EXCEPT !.step = "enqueue", !.action = policy]
             ELSE NoPass
  /\ UNCHANGED <<incus, fleet, tenant, lease, job, call, deleted, upsets>>

(* enqueueJob: one active job per instance. *)
PassEnqueue ==
  /\ pass.step = "enqueue"
  /\ \/ /\ job.step = "none"
        /\ job' = [NoRun EXCEPT !.step = "queued", !.action = pass.action]
        /\ pass' = [pass EXCEPT !.step = "mark", !.action = "none"]
     \/ job.step # "none" /\ pass' = NoPass /\ UNCHANGED job
  /\ UNCHANGED <<incus, fleet, tenant, lease, call, deleted, upsets>>

(* actedAt is set to the time the pass began, on whatever row has the name. *)
PassMark ==
  /\ pass.step = "mark" /\ pass' = NoPass
  /\ lease' = IF lease.end = "none" THEN lease
              ELSE [lease EXCEPT !.acted = IF pass.stored THEN "seen" ELSE "unseen"]
  /\ UNCHANGED <<incus, fleet, tenant, job, call, deleted, upsets>>

(* A statement fails, or the worker dies. *)
PassFails ==
  /\ pass.step # "idle" /\ Upset /\ pass' = NoPass
  /\ UNCHANGED <<incus, fleet, tenant, lease, job, call, deleted>>

-----------------------------------------------------------------------------
(* leaseHandler *)

(* Extended or removed meanwhile: nothing is done. *)
Look ==
  /\ job.step = "queued"
  /\ job' = IF lease.end = "ended" THEN [job EXCEPT !.step = "read"] ELSE NoRun
  /\ UNCHANGED <<incus, fleet, tenant, lease, pass, call, deleted, upsets>>

Last == IF job.action = "delete" THEN "delete" ELSE "mark"

Read ==
  /\ job.step = "read"
  /\ job' = [job EXCEPT !.step = IF current = 0 THEN "forget"
                                 ELSE IF running THEN "stop" ELSE Last]
  /\ UNCHANGED <<incus, fleet, tenant, lease, pass, call, deleted, upsets>>

(* By name, whichever instance has it now; the job fails if none has. *)
Stop ==
  /\ job.step = "stop" /\ running' = FALSE
  /\ job' = IF current = 0 THEN NoRun ELSE [job EXCEPT !.step = Last]
  /\ UNCHANGED <<current, made, fleet, tenant, lease, pass, call, deleted, upsets>>

(* An instance goes; its event is sent, or lost while the stream is down. *)
Goes ==
  /\ current # 0 /\ current' = 0 /\ running' = FALSE
  /\ deleted' = deleted \cup {current} /\ UNCHANGED lease
GoesUnheard ==
  /\ current # 0 /\ current' = 0 /\ running' = FALSE
  /\ lease' = [lease EXCEPT !.stray = @ \/ (lease.of = current)] /\ UNCHANGED deleted

(* Incus does not delete a running instance. *)
Delete ==
  /\ job.step = "delete"
  /\ \/ /\ ~running /\ job' = [job EXCEPT !.step = "forget"]
        /\ \/ Goes /\ UNCHANGED upsets
           \/ GoesUnheard /\ Upset
     \/ /\ current = 0 \/ running
        /\ job' = NoRun /\ UNCHANGED <<current, running, deleted, lease, upsets>>
  /\ UNCHANGED <<made, fleet, tenant, pass, call>>

Forget ==
  /\ job.step = "forget" /\ job' = NoRun /\ lease' = NoLease
  /\ UNCHANGED <<incus, fleet, tenant, pass, call, deleted, upsets>>

Mark ==
  /\ job.step = "mark" /\ job' = NoRun
  /\ lease' = IF lease.end = "none" THEN lease ELSE [lease EXCEPT !.acted = "unseen"]
  /\ UNCHANGED <<incus, fleet, tenant, pass, call, deleted, upsets>>

(* A request fails, the job is cancelled or its worker dies; a stop or a delete
   may have taken effect. *)
JobFails ==
  /\ job.step # "none" /\ Upset /\ job' = NoRun
  /\ \/ UNCHANGED <<current, running, deleted, lease>>
     \/ /\ job.step = "stop" /\ running /\ running' = FALSE
        /\ UNCHANGED <<current, deleted, lease>>
     \/ job.step = "delete" /\ ~running /\ Goes
  /\ UNCHANGED <<made, fleet, tenant, pass, call>>

-----------------------------------------------------------------------------
(* The API *)

(* POST .../lease/extend and PUT .../lease: the instance is listed and its tenant
   has a policy.  An extension reads the lease here. *)
Ask(c, what) ==
  /\ call[c].what = "none" /\ listed.of # 0 /\ policy # "none" /\ Upset
  /\ what = "extend" => lease.end \in {"valid", "ended"} /\ lease.extensions < MaxExtensions
  /\ call' = [call EXCEPT ![c] =
       [NoCall EXCEPT !.what = what,
                      !.of = IF what = "set" THEN listed.of ELSE 0,
                      !.extensions = IF what = "set" THEN 0 ELSE lease.extensions]]
  /\ UNCHANGED <<incus, fleet, tenant, lease, pass, job, deleted>>

(* Slip: the row is written whatever it holds by now. *)
Matches_always(c) == lease.end # "none"

(* eq(instanceLeases.extensions, lease.extensions) *)
Matches(c) == lease.end # "none" /\ lease.extensions = call[c].extensions

(* A row that changed meanwhile is left alone and the call fails. *)
Extend(c) ==
  /\ call[c].what = "extend"
  /\ lease' = IF Matches(c)
              THEN [lease EXCEPT !.end = "valid", !.extensions = call[c].extensions + 1,
                                 !.granted = @ + 1, !.acted = "no"]
              ELSE lease
  /\ call' = [call EXCEPT ![c] = NoCall]
  /\ UNCHANGED <<incus, fleet, tenant, pass, job, deleted, upsets>>

(* setLease: a new row, or the end of the one there. *)
SetLease(c) ==
  /\ call[c].what = "set"
  /\ \E end \in {"valid", "never"} :
       lease' = IF lease.end = "none" THEN Given(call[c].of, end, call[c].old)
                ELSE [lease EXCEPT !.end = end, !.acted = "no"]
  /\ call' = [call EXCEPT ![c] = NoCall]
  /\ UNCHANGED <<incus, fleet, tenant, pass, job, deleted, upsets>>

(* PUT /tenants/:id/lease-policy, two statements that share no transaction: a call
   does not wait for another's, and may end between its own.  When the policy is
   removed, what was given or is being given under it is old. *)
SetPolicy(action) ==
  /\ Upset /\ policy' = action
  /\ \/ action \notin {"none", policy} /\ UNCHANGED <<dropping, lease, pass, call>>
     \/ /\ action = "none" /\ dropping' = dropping + 1
        /\ lease' = [lease EXCEPT !.policy = IF lease.end = "none" THEN @ ELSE "removed"]
        /\ pass' = [pass EXCEPT !.old = pass.step = "insert"]
        /\ call' = [c \in Caller |-> [call[c] EXCEPT !.old = call[c].what = "set"]]
  /\ UNCHANGED <<incus, fleet, job, deleted>>

dropTenantLeases == lease' = NoLease

DropLeases ==
  /\ dropping > 0 /\ dropping' = dropping - 1 /\ dropTenantLeases
  /\ UNCHANGED <<incus, fleet, policy, pass, job, call, deleted, upsets>>

(* The second statement fails, or the server dies before it. *)
DropFails ==
  /\ dropping > 0 /\ dropping' = dropping - 1 /\ Upset
  /\ lease' = [lease EXCEPT !.policy = IF @ = "removed" THEN "cut" ELSE @]
  /\ UNCHANGED <<incus, fleet, policy, pass, job, call, deleted>>

-----------------------------------------------------------------------------
(* The inventory, the events, the users of Incus and time *)

(* FleetWorker.tick: collected, then stored in one transaction. *)
Collect ==
  /\ snap = NoPass /\ snap' = Seen(current, running)
  /\ UNCHANGED <<incus, listed, tenant, lease, pass, job, call, deleted, upsets>>

Store ==
  /\ snap # NoPass /\ snap' = NoPass /\ listed' = snap
  /\ lease' = IF snap.of # 0 /\ lease.acted = "unseen"
              THEN [lease EXCEPT !.acted = "seen"] ELSE lease
  /\ pass' = [pass EXCEPT !.stored = @ \/ (snap.of # 0 /\ pass.step # "idle")]
  /\ UNCHANGED <<incus, tenant, job, call, deleted, upsets>>

(* Slip: the event leaves the lease. *)
OnDeleted_ownerOnly(n) ==
  /\ n \in deleted /\ deleted' = deleted \ {n}
  /\ UNCHANGED <<incus, fleet, tenant, lease, pass, job, call, upsets>>

(* onLifecycle: the lease that has the name is forgotten. *)
OnDeleted(n) ==
  /\ n \in deleted /\ deleted' = deleted \ {n} /\ lease' = NoLease
  /\ UNCHANGED <<incus, fleet, tenant, pass, job, call, upsets>>

Make ==
  /\ current = 0 /\ made < MaxInstances
  /\ made' = made + 1 /\ current' = made' /\ running' = TRUE
  /\ UNCHANGED <<fleet, tenant, lease, pass, job, call, deleted, upsets>>

Remove ==
  /\ Upset /\ (Goes \/ GoesUnheard)
  /\ UNCHANGED <<made, fleet, tenant, pass, job, call>>

Start ==
  /\ current # 0 /\ ~running /\ running' = TRUE /\ Upset
  /\ UNCHANGED <<current, made, fleet, tenant, lease, pass, job, call, deleted>>

Expire ==
  /\ lease.end = "valid" /\ pass.step \notin {"insert", "select"}
  /\ lease' = [lease EXCEPT !.end = "ended"]
  /\ UNCHANGED <<incus, fleet, tenant, pass, job, call, deleted, upsets>>

Pass   == PassBegin \/ PassInsert \/ PassSelect \/ PassEnqueue \/ PassMark
Handler == Look \/ Read \/ Stop \/ Delete \/ Forget \/ Mark
API(c) == Extend(c) \/ SetLease(c)

Next ==
  \/ Pass \/ PassFails \/ Handler \/ JobFails
  \/ \E c \in Caller : API(c) \/ \E what \in {"extend", "set"} : Ask(c, what)
  \/ \E action \in {"none", "stop", "delete"} : SetPolicy(action)
  \/ DropLeases \/ DropFails \/ Collect \/ Store \/ \E n \in deleted : OnDeleted(n)
  \/ Make \/ Remove \/ Start \/ Expire

Spec == Init /\ [][Next]_vars

(* The job worker schedules before every pass over its queue and runs its jobs,
   the inventory is collected every interval, calls and events are handled.
   Nobody has to make, remove, start or extend anything. *)
FairSpec ==
  /\ Spec
  /\ WF_vars(Pass) /\ WF_vars(Handler) /\ WF_vars(DropLeases)
  /\ WF_vars(Collect) /\ WF_vars(Store)
  /\ \A c \in Caller : WF_vars(API(c))
  /\ \A n \in 1 .. MaxInstances : WF_vars(OnDeleted(n))

-----------------------------------------------------------------------------
(* A lease does not outlive what it was given for.  That of an earlier instance
   is found on a later one only while the earlier one's delete event is on its
   way, when it was lost, or when the lease was given to an instance that was gone
   but still listed: the event forgets the lease by name, and the scheduler goes
   by the inventory.  And a lease given under a policy that was removed is there
   only while a call is to drop it; excused are a lease whose call was cut short
   ("cut") and one written late by a pass or a call that had read the policy
   ("removedBefore"). *)
LeaseIsCurrent ==
  /\ current # 0 /\ lease.of \notin {0, current} => lease.of \in deleted \/ lease.stray
  /\ lease.policy = "removed" => dropping > 0

(* "Removing it removes every lease, and a later policy starts afresh": once the
   calls that remove a policy have ended, no lease of theirs is there under a
   later one.  Not so: a pass that has read the old policy writes its lease after
   the drop. *)
PolicyStartsAfresh ==
  policy # "none" /\ dropping = 0 => lease.policy = "inForce"

(* "Stops or deletes an instance whose lease ended, unless it was extended
   meanwhile": the job acts only while the lease is not valid.  Not so: the lease
   is read once, and extended before the requests to Incus. *)
ActsOnEnded ==
  [][job.step \in {"stop", "delete"} /\ <<current, running>>' # <<current, running>> /\ job' # job
       => lease.end # "valid"]_vars

(* "limited number of times": an instance's lease is extended no more often than
   the policy allows, however calls race; the count each goes from must still be
   the row's when it writes. *)
ExtensionsBounded == lease.granted <= MaxExtensions

(* "If someone starts it while the lease has ended, it is stopped again": an
   instance does not keep running on an ended lease, whatever job, pass or
   request failed before, unless lease, policy or instance change. *)
Overdue == lease.end = "ended" /\ policy # "none" /\ running
EndedActs == Overdue ~> ~Overdue
-----------------------------------------------------------------------------
(* The inductive invariant behind the safety properties (LeasesProofs). *)

(* The row's count, which is what a call checks, is how often it was extended... *)
GrantedIsCounted == lease.granted = lease.extensions

(* ...and a call that got past the check may extend once more. *)
ExtensionAllowed ==
  \A c \in Caller : call[c].what = "extend" => call[c].extensions < MaxExtensions

(* A lease is its instance's as long as that has the name.  It also holds while
   nothing has the name, which is where the next instance starts from. *)
LeaseFollowsInstance ==
  lease.of \notin {0, current} => lease.of \in deleted \/ lease.stray

(* A lease given under a policy that was removed waits for a call to drop it. *)
RemovedIsDropping == lease.policy = "removed" => dropping > 0

IInv ==
  /\ TypeOK /\ GrantedIsCounted /\ ExtensionAllowed
  /\ LeaseFollowsInstance /\ RemovedIsDropping
=============================================================================
