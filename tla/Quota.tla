-------------------------------- MODULE Quota --------------------------------
(***************************************************************************)
(* A tenant's quota across its clusters: the admission of self-service     *)
(* creates (api/tenant-cloud.ts, tenants/limits.ts), the create job that   *)
(* makes the instance and records the project's usage                      *)
(* (tenants/create-job.ts), and the part of a reconcile pass that records  *)
(* usage and splits the quota into project limits (reconcile/cluster.ts,   *)
(* tenants/quota.ts).  Beside them: Incus, users who create and delete     *)
(* instances in the project directly, and the fleet inventory.             *)
(*                                                                         *)
(* One key of the quota is modelled, the number of instances.  A recorded  *)
(* usage is kept as the set of instances that were counted; the code keeps *)
(* the size of that set and nothing here looks further than the size.      *)
(***************************************************************************)
EXTENDS Integers, FiniteSets

CONSTANTS
  Cluster,        \* the clusters the tenant is placed on
  Create,         \* create jobs, each for an instance of its own
  Direct,         \* instances made in the project without IncusCloud
  User, Service,  \* who asks for creates: users, or a service account
  Quotas,         \* the quotas the platform may set
  Share,          \* what one user may have inside the tenant
  MaxUpsets       \* how often, in all, a request fails, an answer is lost, a job is
                  \* cut short, the quota changes or an instance is made directly

Instance == Create \cup Direct

ASSUME QuotaAssumption ==
  /\ Create \cap Direct = {} /\ IsFiniteSet(Instance) /\ IsFiniteSet(Cluster)
  /\ Service \notin User
  /\ Quotas \subseteq Nat /\ Quotas # {} /\ Share \in Nat
  /\ MaxUpsets \in Nat

VARIABLES
  \* the clusters
  where,          \* the cluster each instance is, or is to be, on
  live,           \* the instances that exist
  op,             \* Incus's operation for each create
  limit,          \* limits.instances of each project; NoProject before it exists
  \* the database
  quota,          \* tenants.quotas
  usage,          \* placements.usage
  status,         \* placements.status
  listed,         \* the inventory, of which only users' creates are looked up
  owned,          \* creates whose owner is recorded
  \* admission, create jobs and the reconciler
  decision,       \* the admission under way: its step and what it has read
  asker,          \* who asked for each create
  pc, seen,       \* each create job's step, and the usage it has read
  pass,           \* the pass: its cluster, step and what it holds
  \* history: the highest quota so far; instances that a failed request, a
  \* late writer, a user or a create's end between two reads of an admission
  \* left out of the accounts; creates that ended before the inventory, as it
  \* is or as an admission has read it, listed them
  ceiling, missed, unlisted,
  upsets          \* counted against MaxUpsets

incus    == <<where, live, op, limit>>
tenant   == <<quota, ceiling>>
rows     == <<usage, status, listed, owned>>
jobs     == <<asker, pc, seen>>
history  == <<missed, unlisted, upsets>>
vars     == <<incus, tenant, rows, decision, jobs, pass, history>>

NoProject == -1
Nowhere   == "nowhere"
Active    == {"queued", "creating", "usage", "record", "finish"}
Idle      == [step |-> "idle", at |-> Nowhere, seen |-> {}, quota |-> 0, limit |-> 0]
NoDecision == [step |-> "idle", by |-> Service, quota |-> 0, used |-> {}]

Step      == Active \cup {"none", "done", "failed"}
PassState == [step : {"idle", "record", "split", "apply"}, at : Cluster \cup {Nowhere},
              seen : SUBSET Instance, quota : Nat, limit : Nat]
Decision  == [step : {"idle", "usage", "pending", "owned", "running", "enqueue"},
              by : User \cup {Service}, quota : Nat, used : SUBSET Instance]

TypeOK ==
  /\ where \in [Instance -> Cluster \cup {Nowhere}] /\ live \subseteq Instance
  /\ op \in [Create -> {"none", "running", "done", "failed"}]
  /\ limit \in [Cluster -> {NoProject} \cup Nat]
  /\ quota \in Quotas /\ ceiling \in Quotas
  /\ usage \in [Cluster -> SUBSET Instance]
  /\ status \in [Cluster -> {"pending", "ready", "error"}]
  /\ listed \subseteq Create /\ owned \subseteq Create
  /\ decision \in Decision /\ pc \in [Create -> Step]
  /\ asker \in [Create -> User \cup {Service}] /\ seen \in [Create -> SUBSET Instance]
  /\ pass \in PassState
  /\ missed \subseteq Instance /\ unlisted \subseteq Create
  /\ upsets \in 0 .. MaxUpsets

Init ==
  /\ where = [i \in Instance |-> Nowhere] /\ live = {}
  /\ op = [j \in Create |-> "none"] /\ limit = [c \in Cluster |-> NoProject]
  /\ quota \in Quotas /\ ceiling = quota
  /\ usage = [c \in Cluster |-> {}] /\ status = [c \in Cluster |-> "pending"]
  /\ listed = {} /\ owned = {}
  /\ decision = NoDecision /\ asker = [j \in Create |-> Service]
  /\ pc = [j \in Create |-> "none"] /\ seen = [j \in Create |-> {}]
  /\ pass = Idle
  /\ missed = {} /\ unlisted = {} /\ upsets = 0

-----------------------------------------------------------------------------
(* What the code computes. *)

(* projectUsage: what a project holds as Incus counts it. *)
projectUsage(c) == {i \in live : where[i] = c}

(* An instance is in some placement's usage. *)
Counted == UNION {usage[c] : c \in Cluster}

(* sumUsage over the placements; no instance is in two projects. *)
sumUsage == Cardinality(Counted)

pendingOf == {j \in Create : pc[j] \in Active}

(* Slip: splitLimits gives every placement the whole quota on top of its use. *)
splitLimits_whole(c, q) == Cardinality(usage[c]) + q

splitLimits(c, q) ==
  Cardinality(usage[c]) + (IF q > sumUsage THEN q - sumUsage ELSE 0)

(* exceeds, for a request of one instance, of the usage read before and the
   creates pending now *)
exceeds(used, q) == Cardinality(used) + Cardinality(pendingOf) + 1 > q

(* The creates a user has running. *)
running(u) == {j \in pendingOf : asker[j] = u}

(* Slip: creates still running do not count against the user's share. *)
userUsage_listed(u, own) == Cardinality(own)

(* userUsage joins the owners with the inventory, then adds running creates. *)
userUsage(u, own) == Cardinality(own) + Cardinality(running(u))

-----------------------------------------------------------------------------
(* POST /tenants/:id/instances: one transaction that holds the tenant's lock, so
   one decision at a time, and one step per statement: each sees what is
   committed by then, and neither create jobs nor the reconciler nor the
   inventory take that lock. *)

(* The lock is free; the tenant's row. *)
Decide ==
  /\ decision.step = "idle" /\ \E j \in Create : pc[j] = "none"
  /\ decision' = [NoDecision EXCEPT !.step = "usage", !.quota = quota]
  /\ UNCHANGED <<incus, tenant, rows, jobs, pass, history>>

(* What the placements have recorded. *)
DecideUsage ==
  /\ decision.step = "usage"
  /\ decision' = [decision EXCEPT !.step = "pending", !.used = Counted]
  /\ UNCHANGED <<incus, tenant, rows, jobs, pass, history>>

(* pendingOf, and the quota.  A service account has no share to look at. *)
DecidePending ==
  /\ decision.step = "pending" /\ ~exceeds(decision.used, decision.quota)
  /\ \E u \in User \cup {Service} :
       decision' = [NoDecision EXCEPT !.step = IF u = Service THEN "enqueue" ELSE "owned",
                                      !.by = u]
  /\ UNCHANGED <<incus, tenant, rows, jobs, pass, history>>

(* userUsage's first statement: the user's instances that the inventory lists. *)
DecideOwned ==
  /\ decision.step = "owned"
  /\ decision' = [decision EXCEPT !.step = "running",
                     !.used = {j \in owned \cap listed : asker[j] = decision.by}]
  /\ UNCHANGED <<incus, tenant, rows, jobs, pass, history>>

(* Its second: the user's creates still running, and the share. *)
DecideShare ==
  /\ decision.step = "running"
  /\ userUsage(decision.by, decision.used) + 1 <= Share
  /\ decision' = [decision EXCEPT !.step = "enqueue", !.used = {}]
  /\ UNCHANGED <<incus, tenant, rows, jobs, pass, history>>

(* The candidates are read, one is chosen and the job inserted; which of the
   usable clusters `choose` picks is left open. *)
Admit(j) ==
  /\ decision.step = "enqueue" /\ decision' = NoDecision
  /\ pc[j] = "none" /\ pc' = [pc EXCEPT ![j] = "queued"]
  /\ asker' = [asker EXCEPT ![j] = decision.by]
  /\ \E c \in Cluster :
       /\ status[c] = "ready"
       /\ where' = [where EXCEPT ![j] = c]
  /\ UNCHANGED <<live, op, limit, tenant, rows, seen, pass, history>>

(* Over the quota or the share, no cluster to choose, the name taken, or a
   statement failed: the transaction rolls back. *)
Refuse ==
  /\ decision.step # "idle" /\ decision' = NoDecision
  /\ UNCHANGED <<incus, tenant, rows, jobs, pass, history>>

Go(j, next) == pc' = [pc EXCEPT ![j] = next]
Upset       == upsets < MaxUpsets /\ upsets' = upsets + 1

(* The requests up to POST /1.0/instances, which starts Incus's operation. *)
Launch(j) ==
  /\ pc[j] = "queued"
  /\ \/ /\ Go(j, "creating") /\ op' = [op EXCEPT ![j] = "running"]
        /\ UNCHANGED <<missed, upsets>>
     \/ Upset /\ Go(j, "failed") /\ UNCHANGED <<op, missed>>
     \/ /\ Upset /\ Go(j, "failed") /\ op' = [op EXCEPT ![j] = "running"]
        /\ missed' = missed \cup {j}
  /\ UNCHANGED <<decision, where, live, limit, tenant, rows, asker, seen, pass, unlisted>>

(* The operation ends: Incus keeps the project within its limits. *)
Operation(j) ==
  /\ op[j] = "running"
  /\ \/ /\ Cardinality(projectUsage(where[j])) < limit[where[j]]
        /\ live' = live \cup {j} /\ op' = [op EXCEPT ![j] = "done"]
     \/ live' = live /\ op' = [op EXCEPT ![j] = "failed"]
  /\ UNCHANGED <<decision, where, limit, tenant, rows, jobs, pass, history>>

(* waitOp returns and the owner is recorded, waitOp throws, or the job is cut
   short: cancelled, out of time, its worker stopping. *)
Wait(j) ==
  /\ pc[j] = "creating"
  /\ \/ /\ op[j] = "done" /\ Go(j, "usage") /\ owned' = owned \cup {j}
        /\ UNCHANGED <<missed, upsets>>
     \/ op[j] = "failed" /\ Go(j, "failed") /\ UNCHANGED <<owned, missed, upsets>>
     \/ /\ Upset /\ Go(j, "failed") /\ missed' = missed \cup {j}
        /\ UNCHANGED owned
  /\ UNCHANGED <<decision, incus, tenant, usage, status, listed, asker, seen, pass, unlisted>>

(* projectUsage, whose failure is swallowed. *)
ReadUsage(j) ==
  /\ pc[j] = "usage"
  /\ \/ /\ Go(j, "record") /\ seen' = [seen EXCEPT ![j] = projectUsage(where[j])]
        /\ UNCHANGED <<missed, upsets>>
     \/ Upset /\ Go(j, "finish") /\ missed' = missed \cup {j} /\ UNCHANGED seen
  /\ UNCHANGED <<decision, incus, tenant, rows, asker, pass, unlisted>>

(* placements.usage is replaced by what was read, however long ago: living
   instances that another writer had counted may drop out. *)
WriteUsage(c, what) ==
  /\ usage' = [usage EXCEPT ![c] = what]
  /\ missed' = missed \cup ((usage[c] \cap live) \ what)

(* Slip: the job leaves the usage to the next reconcile pass. *)
RecordUsage_later(j) ==
  /\ pc[j] = "record" /\ Go(j, "finish") /\ seen' = [seen EXCEPT ![j] = {}]
  /\ UNCHANGED <<decision, incus, tenant, rows, asker, pass, history>>

RecordUsage(j) ==
  /\ pc[j] = "record" /\ Go(j, "finish")
  /\ WriteUsage(where[j], seen[j]) /\ seen' = [seen EXCEPT ![j] = {}]
  /\ UNCHANGED <<decision, incus, tenant, status, listed, owned, asker, pass, unlisted, upsets>>

(* The job ends and counts as pending no more.  An admission that has read the
   recorded usage, or the inventory, without the instance and has yet to read
   the pending creates counts it nowhere. *)
Finish(j) ==
  /\ pc[j] = "finish" /\ Go(j, "done")
  /\ missed' = IF decision.step = "pending" THEN missed \cup ({j} \ decision.used) ELSE missed
  /\ unlisted' = unlisted \cup
       {i \in {j} : /\ asker[i] \in User
                     /\ \/ i \notin listed
                        \/ decision.step = "running" /\ i \notin decision.used}
  /\ UNCHANGED <<decision, incus, tenant, rows, asker, seen, pass, upsets>>

-----------------------------------------------------------------------------
(* ensurePlacements for the tenant's project on the cluster being reconciled:
   the reconciler takes one cluster after the other. *)

(* The quotas are read with the placements, then the project's usage. *)
PassRead(c) ==
  /\ pass.step = "idle"
  /\ pass' = [Idle EXCEPT !.step = "record", !.at = c, !.seen = projectUsage(c), !.quota = quota]
  /\ UNCHANGED <<decision, incus, tenant, rows, jobs, history>>

PassRecord ==
  /\ pass.step = "record"
  /\ pass' = [pass EXCEPT !.step = "split", !.seen = {}]
  /\ WriteUsage(pass.at, pass.seen)
  /\ UNCHANGED <<decision, incus, tenant, status, listed, owned, jobs, unlisted, upsets>>

(* Every placement's usage is read and this one's limit computed. *)
PassSplit ==
  /\ pass.step = "split"
  /\ pass' = [pass EXCEPT !.step = "apply", !.limit = splitLimits(pass.at, pass.quota),
                          !.quota = 0]
  /\ UNCHANGED <<decision, incus, tenant, rows, jobs, history>>

(* ensureProject; the placement's limits and status are recorded. *)
PassApply ==
  /\ pass.step = "apply" /\ pass' = Idle
  /\ limit' = [limit EXCEPT ![pass.at] = pass.limit]
  /\ status' = [status EXCEPT ![pass.at] = "ready"]
  /\ UNCHANGED <<decision, where, live, op, tenant, usage, listed, owned, jobs, history>>

(* A request of the pass fails: the placement shows it.  ensureProject may
   have taken effect. *)
PassFails ==
  /\ pass.step # "idle" /\ Upset /\ pass' = Idle
  /\ status' = [status EXCEPT ![pass.at] = "error"]
  /\ \/ UNCHANGED limit
     \/ pass.step = "apply" /\ limit' = [limit EXCEPT ![pass.at] = pass.limit]
  /\ UNCHANGED <<decision, where, live, op, tenant, usage, listed, owned, jobs, missed, unlisted>>

-----------------------------------------------------------------------------
(* Everybody else. *)

(* PATCH /tenants/:id *)
SetQuota ==
  /\ Upset
  /\ quota' \in Quotas \ {quota}
  /\ ceiling' = IF quota' > ceiling THEN quota' ELSE ceiling
  /\ UNCHANGED <<decision, incus, rows, jobs, pass, missed, unlisted>>

(* A member of the tenant, or a move, makes an instance in the project. *)
CreateDirectly(d) ==
  /\ where[d] = Nowhere /\ Upset
  /\ \E c \in Cluster :
       /\ Cardinality(projectUsage(c)) < limit[c]
       /\ where' = [where EXCEPT ![d] = c]
  /\ live' = live \cup {d} /\ missed' = missed \cup {d}
  /\ UNCHANGED <<decision, op, limit, tenant, rows, jobs, pass, unlisted>>

Delete(i) ==
  /\ i \in live /\ live' = live \ {i}
  /\ missed' = missed \ {i} /\ unlisted' = unlisted \ {i}
  /\ UNCHANGED <<decision, where, op, limit, tenant, rows, jobs, pass, upsets>>

(* The inventory worker's snapshot of a cluster. *)
Collect(c) ==
  /\ listed' = {j \in listed : where[j] # c} \cup {j \in Create \cap projectUsage(c) : asker[j] \in User}
  /\ UNCHANGED <<decision, incus, tenant, usage, status, owned, jobs, pass, history>>

Job(j) == Launch(j) \/ Wait(j) \/ ReadUsage(j) \/ RecordUsage(j) \/ Finish(j)

Decides ==
  Decide \/ DecideUsage \/ DecidePending \/ DecideOwned \/ DecideShare \/ Refuse

Next ==
  \/ Decides
  \/ \E j \in Create : Admit(j) \/ Job(j) \/ Operation(j)
  \/ \E c \in Cluster : PassRead(c) \/ Collect(c)
  \/ PassRecord \/ PassSplit \/ PassApply \/ PassFails
  \/ SetQuota
  \/ \E d \in Direct : CreateDirectly(d)
  \/ \E i \in Instance : Delete(i)

Spec == Init /\ [][Next]_vars

-----------------------------------------------------------------------------
(* The tenant exceeds the highest quota it was ever given by no more than what
   was left out of the accounts, however admissions, creates, pass and users
   interleave: admission counts usage, then pending creates, under one lock, and
   a create records its usage before it ends.  What can be left out without any
   failure is shown by QuotaExact. *)
OverrunBounded == Cardinality((live \cup pendingOf) \ missed) <= ceiling

(* A user exceeds their share inside the tenant by no more than the creates
   that ended before the inventory listed them: userUsage counts an owned
   instance only once it is listed. *)
ShareKept ==
  \A u \in User :
    Cardinality({j \in (owned \cap live) \ unlisted : asker[j] = u}) <= Share

(* "Two requests can never both use the last of the quota"
   (incuscloud/README.md; docs concepts/quotas.mdx): what exists and what is
   being created fits the quota.  Checked with nothing failing, one quota and
   nobody else creating; an old usage written late breaks it, as does a create
   that ends between an admission's two reads. *)
QuotaExact == Cardinality(live \cup pendingOf) <= quota

(* A user's share counts "instances the user owns, plus creates still running"
   (docs concepts/quotas.mdx).  An owned instance the inventory does not list
   yet counts as neither (limits.ts 41-50). *)
ShareExact ==
  \A u \in User : Cardinality({j \in owned \cap live : asker[j] = u} \cup running(u)) <= Share

(* No project alone outgrows the quota, whatever was left out of the accounts
   and however old the usage a pass split the quota by: a limit is the
   project's own usage, or fits in the quota. *)
ProjectWithinQuota == \A c \in Cluster : Cardinality(projectUsage(c)) <= ceiling

-----------------------------------------------------------------------------
(* What these rest on: together with them inductive. *)

(* A job's step and Incus's operation, and where instances are. *)
StepsMatch ==
  /\ \A j \in Create :
       /\ pc[j] \in {"none", "queued"} => op[j] = "none"
       /\ pc[j] = "creating" => j \notin owned
       /\ pc[j] # "none" => where[j] \in Cluster
       /\ op[j] = "running" => pc[j] = "creating" \/ (pc[j] = "failed" /\ j \in missed)
       /\ j \in live \cup owned => op[j] = "done"
  /\ \A i \in live : where[i] \in Cluster
  /\ pass.step # "idle" => pass.at \in Cluster

(* Every count of a project's instances, however old, is within the quota, and
   so is every limit. *)
CountsWithinQuota ==
  /\ quota <= ceiling /\ decision.quota <= ceiling /\ pass.quota <= ceiling /\ pass.limit <= ceiling
  /\ Cardinality(pass.seen) <= ceiling
  /\ \A j \in Create : Cardinality(seen[j]) <= ceiling
  /\ \A c \in Cluster : Cardinality(usage[c]) <= ceiling /\ limit[c] <= ceiling

(* Its job has still to count an instance. *)
ToCount == {j \in Create : pc[j] \in {"queued", "creating", "usage", "record"}}

Accounted ==
  /\ live \ missed \subseteq ToCount \cup Counted
  /\ \A j \in Create \cap live : pc[j] = "record" => j \in seen[j]

(* What counts: running creates, and what the accounts did not leave out. *)
Held == (live \ missed) \cup pendingOf

PendingBounded == Cardinality(Held) <= ceiling

(* A user's instance is listed, or its job still counts. *)
Shared(u) == {j \in ((owned \cap live) \ unlisted) \cup pendingOf : asker[j] = u}

ListedOrPending ==
  \A j \in (owned \cap live) \ unlisted :
    asker[j] \in User => j \in listed \cup pendingOf

(* What an admission has read is all that counts, or the rest is still pending;
   and what it has found fits, with one more, until it enqueues. *)
DecisionSees ==
  /\ decision.step = "pending" => live \ missed \subseteq decision.used \cup pendingOf
  /\ decision.step \in {"owned", "running"} => decision.by \in User
  /\ decision.step \in {"owned", "running", "enqueue"} => Cardinality(Held) + 1 <= ceiling
  /\ decision.step = "running" => Shared(decision.by) \subseteq decision.used \cup running(decision.by)
  /\ decision.step = "enqueue" /\ decision.by \in User
       => Cardinality(Shared(decision.by)) + 1 <= Share

ShareBounded == \A u \in User : Cardinality(Shared(u)) <= Share

IInv ==
  /\ TypeOK /\ StepsMatch /\ CountsWithinQuota /\ Accounted /\ PendingBounded
  /\ ListedOrPending /\ DecisionSees /\ ShareBounded /\ ProjectWithinQuota
=============================================================================
