# Verification of IncusCloud's control plane

TLA+ models of the control plane in `incuscloud/server/src`, checked with TLC
on small instances and, where a property matters for every size, proved with
TLAPS. Paths below are relative to `incuscloud/server/src` unless they start
with another top-level directory of the repository.

Read this file first, then `JobRunner.tla`, `Migration.tla` and
`Reconciler.tla`, then the others in any order. `PROJECT.json` lists every run
with its properties, the source lines each definition translates, the mutations
each property was seen to catch, the hazards, the findings and the theorems.

## 1. The system and its parts

IncusCloud is a control plane over many Incus clusters. Every replica is one
process that serves the API (`IC_ROLE` api or all) and runs background loops
(worker or all). Replicas share only a Postgres database. The Incus clusters,
OpenFGA (one store of grants per cluster), Hydra (sign-in), S3 targets
(backups) and a Kubernetes management cluster are remote and fail
independently.

| Part | State it keeps | Operations | What is hard, and what makes it correct |
|---|---|---|---|
| **Jobs** `jobs/`, `api/jobs.ts` | rows of `jobs` with a unique index on the active instance key, holder, heartbeat, cancel flag; the lease "jobs"; in memory the active runs and their abort signals | enqueue, cancel, pass (sweep, schedule, claim), heartbeat, finish, stop | several workers, stalls, crashes between claim and finish, cancel against stop. One handler per instance, nothing runs twice, everything ends, outcomes mean what they say |
| **Migration** `mobility/migrate-job.ts`, `transfer.ts` | instances on two clusters, Incus operations, owner and lease rows | check, stop, transfer (direct or relayed), verify, start, commit, delete, carry, roll back | lost answers, cancels, crashes, retries, users, events. The last whole instance is never deleted; a failure restores; owner and lease follow |
| **Reconciler and grants** `reconcile/` | the cluster row (generations, status, store id, scan time), `cluster_grants`, the lease "reconciler", the OpenFGA store | request, pass (open store, configure, projects, facts, difference, write, record, status, mark), scan | facts change while they are read, non-atomic write and record, replaced stores, passes that outlive their lease. What is settled is applied; what diverged is repaired |
| **Quotas and creation** `tenants/`, `api/tenant-cloud.ts` | quotas, usage and limits per placement, pending create jobs | serialised decision, create job, split of limits | usage is stale by nature, and the create job takes no lock. Admissions are serialised; a tenant exceeds its quota by no more than the accounts missed |
| **Replication** `mobility/replication.ts` | policies, replicas marked by a tag | run, schedule, fail over, delete | a run beside a failover. What a failover promotes is whole; the replica catches up again |
| **Instance leases** `leases/` | `instance_leases` | hand out, extend, set, act, forget | check and act are apart, names are used again. Racing extensions stay within what the policy allows; a lease goes with its instance |
| **Backups** `backups/` | `backups`, objects in S3, the cluster's copy | back up (direct, then relay), prune, restore, delete | two uploads of one object, rows and objects diverging |
| **Balancing** `balancing/` | policies, a plan | plan, move, evacuate, restore | the plan is stale when it is carried out; the planner is an optimisation |
| **Managed Kubernetes** `k8s/` | `k8s_clusters`, objects of the management cluster, port forwards | create, scale, upgrade, delete jobs, sync worker | job and sync worker write one row; ports are allocated once |
| **Permissions and owners** `acl/` | entries, roles, groups, owners, the event listener | resolve, explain, record, carry, forget, back-fill | owners arrive from three sources in any order |
| **Inventory** `fleet/` | instances, members, metrics as last seen | collect, apply | everything else decides from it, and it is old |
| **Enrolment, identity, sessions, gateway, federation** | certificates, sessions, caches | per-request work | mostly transformation of requests and responses |

How they meet: the API writes rows and either queues a job or raises a
cluster's generation; the job loop and the reconciler, each under its own
lease row (`reconcile/lease.ts`), pick that up. Job handlers talk to clusters
and write rows; lifecycle events from the clusters (`acl/lifecycle.ts`) and
inventory passes write some of the same rows. Nothing else is shared.

Other programs of the repository are not part of this development; section 6
says why.

## 2. Modules

| Module | What it is |
|---|---|
| `JobLifecycle` | abstract: what the jobs table promises its clients |
| `JobRunner` | the jobs table, the lease and the worker processes |
| `Migration` | the migrate handler beside everything that can disturb it |
| `Reconciler` | requests, replicas, one cluster's grants and its stores |
| `Quota` | admission, create jobs, the inventory and the part of a pass that splits the quota |
| `Replication` | one policy: its runs, its failovers, users of the target |
| `Leases` | the lease of one instance name: scheduler, expiry job, callers, inventory, delete events |
| `Backups` | the backups of one instance: jobs, uploads, retention, deletes |
| `Kubernetes` | a tenant's managed clusters: create and delete jobs, sync worker, shared credentials and ports |
| `MC*` | constants and symmetry sets for TLC |
| `*Proofs` | one for each of the eight components above: preservation lemmas and theorems; `JobRunnerProofs` also has the refinement of `JobLifecycle` |

Conventions. Every statement of the database and every request to a remote
system is one step; what a process does between two awaits belongs to the step
before. Time appears only as what the code asks of it (a lease has expired, a
heartbeat is stale, an interval has passed). A definition `X_slip` directly
above `X` is a mutated form of `X` used to show that a property notices it; it
is not part of the specification. Definitions carry the source's names where
one function corresponds to one definition. Variables marked "history" record
what happened, so that a property can name the cases it excuses; no action's
guard reads them. Bounds called `MaxUpsets` are one budget for everything that
goes wrong or that somebody else does, so that each of them meets every state
without the product of all their bounds. Every module states its types as
`TypeOK`, which its proofs establish first; runs check it for `JobRunner` and
`Migration`. The last section of a module has the conjuncts of its inductive
invariant `IInv`, each with what it says about the code.

### JobRunner

State: the columns `state`, `holder` (here `by`, the process, whose holder name
is `HolderOf`), `cancel_requested`, `heartbeat_at` (here `stale`: older than
`staleMs`) and `created_at`; the lease row; and for each process its loop
position, the row it selected, its `active` runs with what their handler came
to, and the aborted signals. Actions: `Enqueue`, `CancelQueued`,
`CancelRunning` (API); `BeginPass`, `Sweep`, `Schedule`/`EndSchedule`,
`Select`, `Claim`, `EndPass` (tick); `Beat`, `HandlerReturns`, `HandlerThrows`,
`Finish` (run); `BeginStop`, `AbortAll`, `EndStop` (stop); `Start` and `Crash`.
Faults: `ClaimUnanswered`, `PassFails`, `FinishThrows` (a commit whose answer
is lost, or that does not happen) and `Stall` (a live worker's heartbeats stop
for `staleMs`). A process is one run of the program; two processes may share a
holder name, as when a container restarts in place.

`JobLifecycle` is the abstract specification: a job is queued, claimed once and
ends; two jobs on one instance are never active together; an outcome other than
cancelled may be overturned only by a late word of the worker that ran the job.
The refinement maps `state` to `state`.

### Migration

State: the source instance and how much its guest has written, the instance at
the target name with its maker (the `TAG_JOB` tag) and how much of the data it
holds, each job's target operation, owner and lease of both names, the requests
that are still going on, and the handlers. Each request is answered, refused
without effect, or unanswered. `incus/admin-client.ts` gives up after 30 s on an
operation that is still running, so an unanswered stop, start or delete has been
done, or goes on (`pending`) and ends later, with or without effect
(`OperationEnds`), when the job may have rolled back, failed or been retried. An
instance with such an operation refuses other changes. `faults` remembers which
request of which job failed how, so that properties can say what they excuse.
Beside the handler run the target's operation (which may never end), users who
start the source or take the target's name, the delete event that makes
`acl/lifecycle.ts` forget owner and lease, the passes that hand out both to
instances without, cancels and crashes. One handler runs at a time: that is the
queue's guarantee for one instance, proved in `JobRunnerProofs` (`OneHandler`,
and `OverlapIsSwept` for what is left of it when a worker stalls).

Left out: the websocket pump, wording, and the parts of the pre-flight that no
other step can change. All jobs concern one instance and one target name, since
handlers of other instances share nothing with them.

### Reconciler

One cluster and one tenant. The facts are whether the tenant may be granted
there and who its members are; the grants wanted are the group's relation on the
project and one tuple per member. Roles and permission entries add tuples of the
same kind and are not told apart. The row keeps both generations, the status,
whether the last pass and the last scan are too old, and the store's id;
`record` is `cluster_grants`. OpenFGA's stores can be lost and are created by
name; Incus uploads its model, and tuples of its own, to the store its
configuration names. Placements and members are read in two steps, as
`ensurePlacements` and `grantFacts` do. The write is split tuple by tuple, as
the client library's non-transactional chunks may land in part. A chunk that
fails does so silently (`WriteDropped`): `cluster-store.ts` does not read the
result, so the pass goes on to record the tuple and report the cluster as ready;
`dropped` remembers it. Faults: any other call inside the pass fails, the
record's transaction is unanswered, a request is lost after its change was
committed, a replica crashes (together `MaxUpsets`). `MaxLate` bounds how often
a pass outlives its 30 s lease, which is not renewed inside a cluster's pass.

Left out: what a pass does to projects and limits (in `Quota`), profiles, the
relation a permission entry becomes, and the status "disabled", which nothing in
the server sets.

### Quota

One tenant on its clusters, one key of the quota (instances). State: the
instances that exist and the project limits at Incus, the recorded usage and
status of each placement, the inventory, owners, and each create job's step and
what it has read. An admission holds the tenant's lock and is read statement by
statement: `Decide` begins it, `DecideUsage` and `DecidePending` read the
recorded usage and the running creates, `DecideOwned` and `DecideShare` the
user's owned and listed instances and their own running creates, and `Admit` or
`Refuse` ends it. Create jobs take no lock and go on between these reads. Beside
it: the create job (create, read usage, record it, end), the pass (read usage,
record, split, apply the limit), the inventory, users who delete or create in
the project directly, quota changes. A recorded usage is kept as the set that
was counted, so that `missed` can say which instance fell out of the accounts: a
failed or late answer, a writer that had read before, a create that ended
between two reads of an admission. `unlisted` says the same of a user's share:
creates that ended before the inventory, as it is or as an admission had read
it, listed them.

Left out: the other keys, which are added up in the same way; the choice of a
cluster for a create (any is taken).

### Replication

One policy. State: the instance at the target name (nobody's, the replica, the
promoted replica, a user's) with how much of the source's data it holds, the
operation Incus is busy with there, the policy row and each job's step. A run
checks the tag, copies or refreshes, and on failure deletes what it made; a
failover promotes, starts and closes the policy. Runs exclude each other by the
queue's key; failovers carry none and run beside them. A run goes by the tag it
read and then by the name, whatever has the name by then. The transfer is one
operation of Incus here: `Migration` has its inside.

### Leases

One instance name that may be used again. Instances are numbered, and a lease
remembers the number it was given to, which the table does not have. State: the
instance at Incus, the inventory's row and what was collected and not yet stored,
the policy, the lease row, the scheduler's pass, the active job, the calls under
way and the delete events not yet handled. `actedAt` is kept as its relation to
the inventory's `seenAt`, which is all the code asks. Removing the policy is two
statements: `dropping` counts the calls between them, and one may fail there
(`DropFails`), which marks the leases it leaves as `cut`.

### Backups

The backups of one instance under one policy. A backup is a row, an object and
perhaps a copy on the cluster, each written by its own request. The job goes over
its steps in `backupHandler`'s order with the direct upload, the wait for the
object, the relay, the prune and the catch clause; Incus's upload goes on by
itself and may land after it was given up or reported done.

Left out: restores, which read one object and make an instance (`Migration` has
the same shape with rollback), and quotas of backups.

### Kubernetes

A tenant's clusters on one Incus cluster. State: the rows (status, port,
credentials), both jobs of each cluster, the sync worker between its read and its
writes, the management cluster's namespace, secret and Cluster objects, and at
Incus the trusted certificates, load balancers and the network forward. The
forward is read and replaced as a whole, so every writer carries what it read, the
worker also when it only gives a port its new address. The removal of the leftovers
waits 30 s for what CAPN has under way and goes on in any case (`hasty`). A scale
may apply a Cluster again that the delete has removed (`revived`), and a write of the
forward may put back a deleted cluster's port (`late`). CAPI and CAPN are external and
may be slow.

Left out: MetalLB, which address is behind a port, upgrades and scaling beyond
the applied Cluster, the choice of a member, and a second cluster of the same
name. The statuses ready, degraded and error are one, since only the worker's
assessment tells them apart.

## 3. Runs

| Run | Bounds | Shows |
|---|---|---|
| `jobs_faults` | 2 workers, 2 jobs on one instance, 1 stall, 1 lost commit | types, `LaunchedOnce`, `OverlapNeedsSweep`, `CancelledWasRequested`, and that the table implements `JobLifecycle` |
| `jobs_steady` | same, no stall, no lost commit, every process its own holder name, fair | `OneHandlerPerInstance`, `RunningHasRun`, `OutcomeStands`, `QueuedEnds` |
| `jobs_restart` (violation) | both processes under one holder name, 1 job | a job left running by a worker restarted in place never ends |
| `move_retry` | 2 jobs one after the other, 1 failed request, 1 user start | `NeverLost`, `OnlyOwnRemoved` |
| `move_faults` | 1 job of any kind and transport, 2 failed requests, 1 write, fair handlers | types, `RollbackRestores`, `TwinNeedsFault`, `LeaseKept`, `DeleteKeepsWrites`, `CancelEnds` |
| `reconcile_faults` | 2 replicas, 2 members, 3 calls, 1 upset, a replaced store | `SettledIsApplied`, `RecordIsStore`, `ScanRepairs` |
| `reconcile_live` | 2 replicas, 1 member, 1 call, 1 upset or late pass, a replaced store, fair | `Converges` |
| `quota_upsets` | 2 clusters, 2 creates, 1 direct instance, 1 user, quotas 1 and 2, 1 upset | `OverrunBounded`, `ShareKept`, `ProjectWithinQuota` |
| `replicate_faults` | 2 runs and 2 failovers whose ids recur, 1 write, 2 user steps, 1 fault, fair | `PromotedWhole`, `PromotedEnds`, `CatchesUp` |
| `leases_faults` | 2 instances of the name, 2 callers, 1 extension allowed, 2 upsets, fair | `ExtensionsBounded`, `LeaseIsCurrent`, `EndedActs` |
| `backups_faults` | 3 backups, 1 kept, 2 upsets, fair | `ReadyHasObject`, `NoLostSpace`, `RetentionKeeps`, `CreatingEnds` |
| `kubernetes_faults` | 2 clusters, 1 port, 1 upset | `NothingLeft`, `PortsApart`, `CredentialsFollow`, `BusyHasJob` |

Beside the runs, eleven configurations each check one statement of the repository that
the code does not keep, and TLC finds the counterexample. They are for the reader of
section 4, are not among the runs of `PROJECT.json` and end in a few seconds; the module is
the `MC` module of the same component.

| Configuration | Bounds | Refutes |
|---|---|---|
| `Migration_live.cfg` | 1 live job, relayed, no failed request, fair | `LiveRestores`: after the hand-off a rollback restarts nothing |
| `Migration_stop.cfg` | 1 job, 1 failed request, fair | `StopIsUndone`: an unanswered stop of the source is not undone |
| `Reconciler_silent.cfg` | 1 replica, 1 member, 1 refused chunk | `ReadyIsWritten`: a ready cluster may lack tuples |
| `Quota_exact.cfg` | 1 cluster, 2 creates, quota 1, nothing failing | `QuotaExact`: both creates use the last of the quota |
| `Quota_share.cfg` | 1 cluster, 2 creates by one user, share 1, nothing failing | `ShareExact`: an unlisted instance does not count |
| `Replication_others.cfg` | 2 runs, 1 failover, nothing failing, no user | `OthersUntouched`: a run refreshes the promoted instance |
| `Leases_policy.cfg` | 2 instances of the name, 1 caller, 2 upsets | `PolicyStartsAfresh`: a new policy takes over an old lease |
| `Leases_act.cfg` | 2 instances of the name, 1 caller, 1 upset | `ActsOnEnded`: an extended instance is stopped |
| `Kubernetes_leftovers.cfg` | 2 clusters, nothing failing | `LeftoversRemoved`: an instance lands after its row is gone |
| `Kubernetes_deleting.cfg` | 2 clusters, nothing failing | `DeletingStays`: "deleting" is overwritten |
| `Kubernetes_certificate.cfg` | 2 clusters, nothing failing | `CertificateRevoked`: two last deletes spare the certificate |

Deadlock is checked for the jobs, the reconciler and the quota. In the other
modules the system may really stop: every job has ended, the instance is gone,
the policy or the last cluster was deleted.

Why the bounds are enough to be interesting. Exclusion, sweeping and lease
hand-over concern pairs of workers and pairs of jobs on one instance; a third
of either only repeats the pair. In Migration a second job is needed for
everything about names and tags, a first failed request sends the handler into
its rollback and a second strikes the rollback itself. In the Reconciler a
stray grant needs one grant, one failure after it is written and one
revocation, and overlapping passes need two replicas. Two creates race for the
last of a quota, and a third instance takes what one of them left out. A
replica is refreshed by one run and damaged or cleaned up by a second. Two
instances of a name are needed for a lease to pass from one to the other, and two
callers for an extension to be lost. Three backups make retention choose while
one is being deleted. Two Kubernetes clusters share the credentials and compete
for the one port. Counters that the code leaves unbounded (generations, times of
creation) are bounded by the number of jobs or calls. Symmetry is used for safety
only.

What the properties excuse. Each excuse is a conjunct of the property and a case
of section 4. `RollbackRestores` does not speak of a stop of the source or a start
of the copy that went unanswered, of an operation that still makes the copy, or of
a guest that has left live; `TwinNeedsFault` leaves out a rollback that could not
read or stop the copy and a start of the copy that was given up on;
`DeleteKeepsWrites` a restart given up on by an earlier rollback. `SettledIsApplied`
and `RecordIsStore` are claimed until the first failure and without late passes:
after one the record and the store diverge until the scan, which is what
`ScanRepairs` and `Converges` are about; `ScanRepairs` is about passes none of whose
own writes was silently refused. `OverrunBounded` bounds the excess by what is in
`missed` and `ShareKept` by what is in `unlisted`. Properties of the later modules
name what they excuse in history variables.

### Fairness

- Jobs: a live worker keeps polling and its statements return; handlers end
  (their waits have deadlines or follow an Incus operation); an ended process
  is started again; time passes for leases and heartbeats nobody renews. No
  client, stop, fault or crash is obliged to happen.
- Migration: only the handler's own requests are fair, as each is given up
  after 30 s. Nothing is assumed of the operations on the clusters, neither the
  target's nor those the handler gave up on, so `CancelEnds` holds although they
  may never end.
- Reconciler: a replica goes on with its pass; an API call that committed a
  change goes on to its request unless it dies; the interval, the hour and the
  lease pass; Incus connects to the store it is told to use. Stops, failures
  and late passes are bounded, so they do not recur for ever.
- Replication: the worker goes on with the jobs it has claimed, Incus ends its
  operations, and the schedule comes round for an enabled policy. Failures are
  bounded.
- Leases: the worker schedules before every pass over its queue and runs its
  jobs, the inventory is collected every interval, calls and events that were
  received are handled. Nobody has to make, remove, start or extend anything.
- Backups: the worker goes on with its job; the cluster's own uploads end, well
  or not.
- Quota and Kubernetes are checked for safety only.

## 4. Findings and observations

One run must find its property violated; `PROJECT.json` quotes what the repository says.

- `jobs_restart`: the sweep skips rows of its own holder name
  (`jobs/runner.ts:57`), and a container restarted in place keeps hostname and
  pid. Its orphaned jobs stay running and their instances busy.

The following contradict a statement of the repository too. Each is a definition of its
module that says what the statement says, and a configuration of section 3 refutes it; the
properties of the runs say what holds instead. The guides and concepts are under
`incuscloud/site/content/docs/incuscloud`.

- `LiveRestores`. "Until the delete, a failure or a cancel removes the copy and restarts
  the source" (`guides/migration.mdx:37`, `incuscloud/README.md:219-220`). A live move stops nothing, so its rollback starts
  nothing (`mobility/migrate-job.ts:142`): cancelled after the guest has moved, it deletes
  the copy the guest runs in.
- `StopIsUndone`. "any failure or cancel removes the copy this job made and restarts the
  source if the job stopped it" (`migrate-job.ts:61-63`). The job notes that it stopped the
  source only after the answer (`:88`); a stop that is done, or that ends later, although
  the client gave up on it is never undone.
- `ReadyIsWritten`. "A cluster whose reconcile fails shows as degraded, with the reason."
  (`guides/clusters.mdx:79`). A refused chunk of a write is not noticed
  (`reconcile/cluster-store.ts:76`): the tuples are recorded and the cluster shows as ready
  without them.
- `QuotaExact`. "Checks are serialised per tenant, so two requests can never both use the
  last of the quota" (`incuscloud/README.md:284`; `concepts/quotas.mdx:29`: "checked
  exactly"). An admission reads usage and running creates by two statements
  (`api/tenant-cloud.ts:104-105`), and a create that ends between them is in neither; a
  usage that was read before and is written after a create's own
  (`reconcile/cluster.ts:108-109`) has the same effect.
- `ShareExact`. A share of instances counts "instances the user owns, plus creates still
  running" (`concepts/quotas.mdx:55`). Between a create's end and the next inventory an
  instance counts as neither (`tenants/limits.ts:41-47`).
- `OthersUntouched`. "An instance of the same name that is not this policy's replica is
  never touched" (`mobility/replication.ts:29-30`, `incuscloud/README.md:230`,
  `guides/migration.mdx:69`). A run reads the tag once and then refreshes or deletes by
  name (`:43`, `:53`, `:76`); a failover or a user in between makes that another's.
- `PolicyStartsAfresh`. "Removing it removes every lease, and a later policy starts afresh"
  (`guides/tenants.mdx:66`, `api/tenants.ts:163`). A pass that had read a policy gives a
  lease after the policy and its leases were removed (`leases/leases.ts:111`), and a call
  that is cut short between its two statements (`api/tenants.ts:162`, `:164`) leaves all.
- `ActsOnEnded`. "Stops or deletes an instance whose lease ended, unless it was extended
  meanwhile." (`leases/leases.ts:145`). An extension between the check and the stop or
  delete is not honoured (`:151`).
- `LeftoversRemoved`. A create that "keeps running in Incus and lands later" is why
  operations "are waited for first" (`k8s/endpoint.ts:91-93`), for "a delete that leaves
  nothing behind" (`incuscloud/README.md:329`). The wait is given up after 30 s, which is
  swallowed (`:102`), and an instance lands after the row is gone.
- `DeletingStays`. "Until it is done the row stays `deleting`." (`k8s/jobs.ts:162`). The
  sync worker (`k8s/worker.ts:75`) and the create job (`k8s/jobs.ts:114`, `:142`) write
  their own status over it.
- `CertificateRevoked`. IncusCloud "revokes the certificate when the tenant's last
  Kubernetes cluster there is deleted" (`incuscloud/README.md:315`,
  `guides/kubernetes.mdx:130-131`). Two deletes side by side each find the other's row and
  neither revokes (`k8s/credentials.ts:90`).

The following were met while modelling; each is a case that a property excuses. Where a
statement of the repository is touched it is named.

Migration
- A start of the copy that is given up on (`migrate-job.ts:112`) may come up after the
  rollback: it reads Stopped and does not stop the copy, Incus refuses to delete an
  instance that is busy, which is swallowed (`:140`), and the source is started. The
  instance then runs twice, or a copy is left; the comment at `:61-63` says any failure
  removes the copy.
- A restart of the source that is given up on may end during a retry, which then deletes
  what the guest wrote since.
- The source's delete event may forget its owner before the handler carries it
  to the copy (`:130`); the lease is read before and survives.
- The progress update before the rollback (`:136`) is outside its try; if that statement
  fails nothing is rolled back, against the same comment.

Reconciler
- A failure between `store.write` and the record (`reconcile/cluster.ts:241`),
  then a revocation: the next pass sees no difference, reports ready and leaves
  the grant until the hourly scan.

Replication
- A failover that fails between the promotion and the close
  (`mobility/replication.ts:128`) leaves an active policy without a replica: runs
  refuse the instance, a second failover finds nothing to promote.

Leases
- The scheduler goes by the inventory, which still lists an instance that is
  gone: it gives the name a new lease, which a later instance of the name
  inherits. A missed delete event has the same effect, for owners too
  (`acl/lifecycle.ts:88`).

Backups
- A worker that dies leaves a row "creating" for good: its deletion is refused
  and it counts against the quota.
- A failure after the row is ready and older ones were pruned
  (`backups/backup-job.ts:221`) takes the new backup back: with `keep` = 1 none
  is left.
- A direct upload that lands after its object was deleted is an object nobody
  knows of.

Kubernetes
- Once "deleting" is overwritten, a PATCH applies the Cluster again beside the delete, and
  it stays when the row goes. A late write of the forward re-adds a deleted cluster's port
  (`k8s/endpoint.ts:164`), and the next cluster given that port cannot be forwarded. Both
  leave something behind, which `incuscloud/README.md:329` says a delete does not.
- A revocation that fails half-way leaves the secret and the record of a certificate no
  longer trusted, which the next create accepts (`k8s/credentials.ts:101`).
- The delete of the namespace with the last cluster races a new create
  (`k8s/jobs.ts:201`). A create that is killed leaves its row "creating" without
  a job.

## 5. Theorems

TLAPS checks these for every value of the constants that satisfies the named
assumptions at the head of each module: the sentinels differ from the elements of
the sets, maps have their domains, sets that are counted are finite, bounds are
naturals. TLC evaluates the assumptions in every run. A theorem about `Spec` also
holds for the fair specification, which implies it.

In each module `Invariance` is `Spec => []IInv` and `TypeCorrect` is
`Spec => []TypeOK`. There is one preservation lemma per conjunct of `IInv`, with
one step per action that can disturb it and one for the actions that leave its
variables alone; the theorems follow from `Invariance`. What follows says why each
invariant is needed. All conjuncts were checked with TLC before they were proved.

`JobRunnerProofs`
- `ClaimsAreExclusive`, `CancelIsNotShutdown`, `OverlapIsSwept`: with any number of
  stalls and lost commits.
- `OneHandler`: under `MaxStalls = 0`; `OutcomeIsFinal`: under `MaxStalls = 0` and
  `MaxLost = 0`; `RunningRowsHaveRuns`: under `MaxLost = 0`.
- `Refinement`: `JobRunner` implements `JobLifecycle`.

`LaunchedOnce` is not inductive: a step could claim a row another process runs
unless every run in memory is known to belong to the process its row names
(`RunIsClaimed`). `OverlapNeedsSweep` needs that, and that the index holds
(`OneActiveRow`). That a cancelled job was asked to cancel needs the history of
the signal (`AbortIsRequested`): before a process is told to stop, only a cancel
aborts. Without stalls, `NotStale` (a stale row has no run) and `HandlerRowRuns`
make exclusion inductive; without lost commits `RunRowRuns` makes outcomes final.

`MigrationProofs`
- `NothingLost`, `LeaseMoves`, `RemovesItsOwn`, `RollbackIsWhole`: with any number of
  jobs, failed requests, operations that end late, writes, user starts, cancels and
  crashes.
- `TwinsNeedFaults`, `WritesAreKept`: under `MaxUserStarts = 0`. A user who starts
  the source while it is moved makes both false.

The delete of the source is safe because a handler reaches it only after its
transfer succeeded (`PastTransfer`), what succeeded is still there and whole as long
as the job does not roll back (`SuccessIsWhole`), which nobody else can spoil because
an operation in flight owns the name (`MakingIsPartial`) and no other handler runs
(`OneAtATime`); and once the source is gone, or its delete goes on, no step and no
pending operation is left that could touch the copy (`GoneForGood`).

Operations the handler gave up on are what makes the rest hard. They fit what they act
on (`PendingFits`), each was given up on by a job that is recorded (`PendingIsGivenUp`),
and a job that found the source running meets no late restart of it (`RestartIsOver`). The
rollback is right because an operation it does not know of was left by a failed request
(`LateIsFailed`), so otherwise what it read is its own (`ReadIsOwn`), stopped before it
is deleted (`RollbackStops`) and gone before the source starts (`RollbackRemoves`); and a
source it does not start was never stopped, or its stop was given up on
(`RunsUnlessStopped`, `StopIsNoted`). The lease is read while the source is there and
forgotten only by its delete event (`LeaseIsRead`). Without user starts a second
invariant, `QuietInv`, holds: a move of an instance that ran keeps it stopped, and one
that found it stopped may meet a late restart (`MoveKeepsStopped`) but starts no copy
(`OnlyRunningStarts`); but for that restart, what was transferred is all there is, when
the source is deleted and when its delete goes on (`TransferHasAll`, `DeletesAll`); and a
rollback that starts the source has dealt with the copy, or could not (`TwinIsExcused`).

`ReconcilerProofs`
- `ScansRepair`: whatever failed or was silently refused in passes before, as long as no
  pass outlives its lease; a scanning pass whose own write is refused repairs nothing.
- `RecordMatchesStore`, `SettledIsAppliedAlways`: until the first failure or late pass.

A pass that holds the lease is alone (`Exclusive`) and works on the recorded store
(`PassIsOnRow`), so that what it has sent is in the store and the rest is still to be
sent (`Applied`); stores it leaves hold nothing (`UnrecordedIsEmpty`) and Incus uses
the recorded one (`ConfiguredIsRow`). The facts are read in two steps while they
change: what was read is still so or a request for a later generation has been, or is
about to be, made (`ReadIsCovered`); the same is then true of the record between
passes (`RecordIsCovered`), and with no request left it is what the facts ask for.

`QuotaProofs`
- `OverrunIsBounded`, `ShareIsKept`, `ProjectsAreWithinQuota`: for any number of
  clusters, creates, users and direct instances and any quotas.

These count sets. Every instance outside `missed` is in a recorded usage or its job
has still to count it (`Accounted`), so an admission, which adds usage and pending
creates, bounds them all; since it reads them one after the other while creates end, what
it has read so far covers what is there except what was noted as missed meanwhile
(`DecisionSees`). `PendingBounded` is stronger than the property because
running creates count even after they are missed. The same goes for a user's share
(`ListedOrPending`, `ShareBounded`). A project stays within the quota because every
count of it, however old, was (`CountsWithinQuota`).

`ReplicationProofs`
- `PromotionsEnd`, and the action property `PromotionIsWhole`.

Runs exclude each other (`OneRun`). A failover that trusts the last run finds no other
active (`TrustedIsQuiet`) and what the last left is whole (`AnsweredIsWhole`,
`SyncedIsWhole`).

`LeasesProofs`
- `ExtensionsAreBounded`, `LeasesAreCurrent`.

A call writes only if the count it read is still the row's (`GrantedIsCounted`,
`ExtensionAllowed`). A lease is its instance's also while nothing has the name
(`LeaseFollowsInstance`), which is where the next instance starts from. A lease of a
removed policy is there only while a call is to drop it, unless that call was cut short
or a late pass or call wrote it (`RemovedIsDropping`).

`BackupsProofs`
- `ReadyBackupsAreStored`, `NoSpaceIsLost`, `RetentionIsKept`.

The job is about the newest backup (`JobIsNewest`) and a DELETE call never about one in
the making (`MakingIsCreating`), so a row becomes ready only while its object is there
(`ReadyIsStored`). An upload that outlives its row is late, and what it leaves is the
only object (`GoneIsLate`). Retention keeps one because a ready backup of the policy is
never on the list of what goes (`KeepsOne`, `NotUndone`, `PrunedEnough`).

`KubernetesProofs`
- `NothingIsLeft`, `PortsStayApart`, `CredentialsFollowClusters`, `BusyRowsHaveJobs`.

Create and delete of a cluster take turns (`JobsTakeTurns`), from the removal of the
leftovers on there are none unless the delete did not wait or a scale brought them back
(`LeftoversGone`), and every writer of the forward has read one whose ports are apart
(`HeldApart`). A recorded certificate belongs to a cluster whose delete has not come past
the credentials (`CredHasUser`), it goes together with the secret (`PairIsTrusted`), and a
cluster that uses them has both (`UserHasPair`).

What the proofs found. `CredentialsFollow` had claimed that the secret's certificate is
always the one on record; for that a create after two deletes side by side and a failure
needs four clusters, more than the run has, and it may leave an older record: the property
now says so.

Only model-checked: liveness (`QueuedEnds`, `CancelEnds`, `Converges`, `CatchesUp`,
`EndedActs`, `CreatingEnds`), which the proof system does not cover. Every safety
property of a passing run is proved.

## 6. Not modelled

- Restores, MetalLB and the other parts named under "Left out" in section 2.
- Balancing (`balancing/`): the planner is a scoring heuristic without a promise
  to check; what it starts are moves, which `Migration` covers.
- Permission resolution (`acl/`): a computation over entries, roles and groups.
  Owners are modelled where they meet moves and creates.
- Enrolment, identity, sessions, gateway, federation: each request is answered
  from the tables and forwarded; the hard part is cryptography and protocol
  encodings.
- The bulk of the repository's lines is not control logic: Incendio's browser
  interface with a vendored SPICE client (`packages/ui`), the client generated
  from Incus's API description (`packages/api`), the console and the documentation
  site. The Go fork of MicroCloud (`firecloud`) follows another project, and the
  Kubernetes appliance agent (`packages/k8s`) applies a configuration once.

## 7. Plan

1. An abstract specification of admission (a counter of what is promised, never above
   the quota while nothing is missed) that `Quota` is shown to implement.
2. An abstract specification of a move (one whole instance, at the source or at the
   target) that `Migration` is shown to implement.
3. What the proofs bound only with an excuse: which of the gaps that `Kubernetes` records
   are reachable together.

## 8. Running

    tlc -workers 2 -config JobRunner_faults.cfg MCJobRunner
    tlapm JobRunnerProofs.tla

Every run ends within about three minutes on two cores; the longest are
`reconcile_live`, `kubernetes_faults`, `quota_upsets` and `move_retry`.
