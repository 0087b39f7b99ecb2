----------------------------- MODULE Reconciler -----------------------------
(***************************************************************************)
(* The reconciler of one cluster: the API's requests, the replicas that    *)
(* run Worker, and the grants they keep in the cluster's OpenFGA store     *)
(* (incuscloud/server/src/reconcile/worker.ts, requests.ts, cluster.ts,    *)
(* cluster-store.ts, grants.ts, lease.ts).                                 *)
(*                                                                         *)
(* One tenant: whether it may be granted on the cluster (placed, and its   *)
(* project not another's), and who its members are.  The group's relation  *)
(* on the project is one tuple, each membership of the group another; the  *)
(* tuples of roles and permission entries are members of the same set.     *)
(* Every await is one step.  Time is abstracted to its uses: the lease has *)
(* expired, the last pass is older than the interval, the last scan of the *)
(* store is older than an hour.                                            *)
(*                                                                         *)
(* Nothing in the server sets a cluster's status to "disabled", so the     *)
(* branches that skip such a cluster are left out.                         *)
(***************************************************************************)
EXTENDS Naturals, FiniteSets

CONSTANTS
  Proc,         \* worker replicas; each is its own lease holder
  NoProc,       \* no row in the leases table
  Member,       \* subjects that may be members of the tenant
  Project,      \* the tuple that relates the tenant's group to its project
  IncusTuple,   \* a tuple Incus keeps in the store
  MaxChanges,   \* API calls that change the facts or ask for a pass, and stops
  MaxStores,    \* how many OpenFGA stores are ever created
  MaxUpsets,    \* failed calls, crashes, lost requests and passes that
                \* outlive their lease, together
  MaxLate       \* how many of these may be passes that outlive their lease

ASSUME TupleAssumption ==
  /\ Project \notin Member /\ IncusTuple \notin Member \cup {Project}
ASSUME WorkerAssumption == NoProc \notin Proc /\ IsFiniteSet(Proc)
ASSUME CountAssumption ==
  /\ MaxChanges \in Nat /\ MaxStores \in Nat \ {0}
  /\ MaxUpsets \in Nat /\ MaxLate \in Nat

Tuple   == Member \cup {Project}
StoreId == 1..MaxStores
NoStore == 0

VARIABLES
  \* the facts, and the API calls that changed them and have not asked yet
  placed, members, asking,
  \* the cluster's row: requests, status, whether the last pass and the last
  \* scan are too old, the recorded store; and the rows of cluster_grants
  generation, reconciledGeneration, status, aged, scanAged, fgaStoreId, record,
  \* OpenFGA: the stores that exist, those with Incus's model, what they hold
  exists, modelled, tuples, made,
  \* Incus: the store its configuration names
  configured,
  \* the leases table, row "reconciler", and each replica
  leaseHolder, leaseLive, pc, w,
  \* the bounds' counters
  changes, faults, late

facts  == <<placed, members, asking>>
row    == <<generation, reconciledGeneration, status, aged, scanAged,
            fgaStoreId, record>>
fga    == <<exists, modelled, tuples, made>>
lease  == <<leaseHolder, leaseLive>>
bounds == <<changes, faults, late>>
vars   == <<facts, row, fga, configured, lease, pc, w, bounds>>

Step == {"idle", "select", "renew", "load", "open", "create", "adopt", "config",
         "placements", "members", "model", "diff", "write", "record", "finish",
         "mark"}

(* A pass's variables: the generation it serves, the row's store and whether a
   scan is due, the open store, the facts read, the grants wanted, the tuples
   to write and delete, those not sent yet, and whether there is no problem;
   and, for the properties, whether a tuple it sent was not written. *)
Pass ==
  [gen : Nat, store : StoreId \cup {NoStore}, scan : BOOLEAN, placed : BOOLEAN,
   want : SUBSET Tuple, writes : SUBSET Tuple, deletes : SUBSET Tuple,
   left : SUBSET Tuple, ok : BOOLEAN, dropped : BOOLEAN]

NoPass ==
  [gen |-> 0, store |-> NoStore, scan |-> FALSE, placed |-> FALSE, want |-> {},
   writes |-> {}, deletes |-> {}, left |-> {}, ok |-> TRUE, dropped |-> FALSE]

(* The shapes of the tables, the stores and the passes. *)
TypeOK ==
  /\ placed \in BOOLEAN /\ members \subseteq Member
  /\ asking \in [{"tenant", "cluster"} -> Nat]
  /\ generation \in Nat /\ reconciledGeneration \in Nat
  /\ status \in {"pending", "ready", "degraded", "error"}
  /\ aged \in BOOLEAN /\ scanAged \in BOOLEAN
  /\ fgaStoreId \in StoreId \cup {NoStore} /\ record \subseteq Tuple
  /\ exists \subseteq StoreId /\ modelled \subseteq StoreId
  /\ tuples \in [StoreId -> SUBSET (Tuple \cup {IncusTuple})]
  /\ made \in 0..MaxStores
  /\ configured \in StoreId \cup {NoStore}
  /\ leaseHolder \in Proc \cup {NoProc} /\ leaseLive \in BOOLEAN
  /\ pc \in [Proc -> Step] /\ w \in [Proc -> Pass]
  /\ changes \in 0..MaxChanges
  /\ faults \in 0..MaxUpsets /\ late \in 0..MaxUpsets

(* A cluster just enrolled: no pass yet, no store, no placement. *)
Init ==
  /\ placed = FALSE /\ members = {}
  /\ asking = [k \in {"tenant", "cluster"} |-> 0]
  /\ generation = 0 /\ reconciledGeneration = 0
  /\ status = "pending" /\ aged = TRUE /\ scanAged = TRUE
  /\ fgaStoreId = NoStore /\ record = {}
  /\ exists = {} /\ modelled = {} /\ made = 0
  /\ tuples = [s \in StoreId |-> {}]
  /\ configured = NoStore
  /\ leaseHolder = NoProc /\ leaseLive = FALSE
  /\ pc = [p \in Proc |-> "idle"] /\ w = [p \in Proc |-> NoPass]
  /\ changes = 0 /\ faults = 0 /\ late = 0

Upset == faults + late < MaxUpsets

Fault == Upset /\ faults' = faults + 1

-----------------------------------------------------------------------------
(* The grants. *)

(* The tuples the facts ask for: none where the tenant is not placed. *)
desiredGrants(pl, ms) == IF pl THEN {Project} \cup ms ELSE {}

(* Tuples that name one of IncusCloud's groups. *)
isManaged(t) == t \in Tuple

(* Slip: the scan reads what IncusCloud last wrote. *)
readManaged_recorded(s) == record

readManaged(s) == {t \in tuples[s] : isManaged(t)}

diffWrites(want, have)  == want \ have
diffDeletes(want, have) == {t \in have \ want : isManaged(t)}

-----------------------------------------------------------------------------
(* The API: a change is committed, then a pass is asked for. *)

Change(kind) ==
  /\ changes < MaxChanges /\ changes' = changes + 1
  /\ asking' = [asking EXCEPT ![kind] = @ + 1]
  /\ UNCHANGED <<row, fga, configured, lease, pc, w, faults, late>>

(* PUT and DELETE /clusters/:id/tenants/:tenantId. *)
Place ==
  /\ placed' = ~placed
  /\ Change("cluster") /\ UNCHANGED members

(* Members set and removed, users disabled, service accounts. *)
SetMember(m) ==
  /\ members' = IF m \in members THEN members \ {m} ELSE members \cup {m}
  /\ Change("tenant") /\ UNCHANGED placed

(* POST /clusters/:id/reconcile. *)
ReconcileNow ==
  /\ Change("cluster") /\ UNCHANGED <<placed, members>>

(* A request for a tenant reaches the clusters it is placed on now. *)
requestReconcile(kind) ==
  generation' = IF kind = "cluster" \/ placed THEN generation + 1 ELSE generation

Request(kind) ==
  /\ asking[kind] > 0
  /\ asking' = [asking EXCEPT ![kind] = @ - 1]
  /\ requestReconcile(kind)
  /\ UNCHANGED <<placed, members, reconciledGeneration, status, aged, scanAged,
                 fgaStoreId, record, fga, configured, lease, pc, w, bounds>>

(* The API process dies, or the statement fails, after the change is committed. *)
RequestLost(kind) ==
  /\ asking[kind] > 0 /\ Fault
  /\ asking' = [asking EXCEPT ![kind] = @ - 1]
  /\ UNCHANGED <<placed, members, row, fga, configured, lease, pc, w, changes,
                 late>>

-----------------------------------------------------------------------------
(* Worker.tick: the lease, the due cluster, the lease again. *)

mayAcquire(p) == leaseHolder \in {p, NoProc} \/ ~leaseLive

acquireLease(p) == mayAcquire(p) /\ leaseHolder' = p /\ leaseLive' = TRUE

(* Slip: a cluster is due only when somebody asks. *)
due_requested == generation > reconciledGeneration

due == generation > reconciledGeneration \/ aged

Goto(p, step) == pc' = [pc EXCEPT ![p] = step]

End(p) == pc' = [pc EXCEPT ![p] = "idle"] /\ w' = [w EXCEPT ![p] = NoPass]

Acquire(p) ==
  /\ pc[p] = "idle" /\ acquireLease(p) /\ Goto(p, "select")
  /\ UNCHANGED <<facts, row, fga, configured, w, bounds>>

Select(p) ==
  /\ pc[p] = "select"
  /\ IF due THEN /\ Goto(p, "renew")
                 /\ w' = [w EXCEPT ![p].gen = generation]
            ELSE End(p)
  /\ UNCHANGED <<facts, row, fga, configured, lease, bounds>>

(* Renewed before the cluster; another replica may have taken over. *)
Renew(p) ==
  /\ pc[p] = "renew"
  /\ \/ acquireLease(p) /\ Goto(p, "load") /\ UNCHANGED w
     \/ ~mayAcquire(p) /\ End(p) /\ UNCHANGED lease
  /\ UNCHANGED <<facts, row, fga, configured, bounds>>

(* Slip: the latest generation is recorded as served. *)
Mark_latest(p) ==
  /\ pc[p] = "mark"
  /\ reconciledGeneration' = generation
  /\ End(p)
  /\ UNCHANGED <<facts, generation, status, aged, scanAged, fgaStoreId, record,
                 fga, configured, lease, bounds>>

(* Whatever became of the pass, the generation it started from counts as served. *)
Mark(p) ==
  /\ pc[p] = "mark"
  /\ reconciledGeneration' = w[p].gen
  /\ End(p)
  /\ UNCHANGED <<facts, generation, status, aged, scanAged, fgaStoreId, record,
                 fga, configured, lease, bounds>>

(* Worker.stop between passes, or before the cluster: the lease is released.
   The replica starts again later. *)
Stop(p) ==
  /\ pc[p] \in {"idle", "renew"} /\ leaseHolder = p
  /\ changes < MaxChanges /\ changes' = changes + 1
  /\ leaseHolder' = NoProc /\ leaseLive' = FALSE
  /\ End(p)
  /\ UNCHANGED <<facts, row, fga, configured, faults, late>>

-----------------------------------------------------------------------------
(* reconcileCluster, one step per await. *)

Load(p) ==
  /\ pc[p] = "load"
  /\ w' = [w EXCEPT ![p].store = fgaStoreId, ![p].scan = scanAged]
  /\ Goto(p, "open")
  /\ UNCHANGED <<facts, row, fga, configured, lease, bounds>>

(* GET /1.0 fails: nothing else is attempted. *)
Unreachable(p) ==
  /\ pc[p] = "load" /\ Fault
  /\ status' = "error" /\ aged' = FALSE /\ Goto(p, "mark")
  /\ UNCHANGED <<facts, generation, reconciledGeneration, scanAged, fgaStoreId,
                 record, fga, configured, lease, w, changes, late>>

(* The recorded store, else one found by name, else a new one. *)
Open(p) ==
  /\ pc[p] = "open"
  /\ \/ w[p].store \in exists /\ Goto(p, "config") /\ UNCHANGED w
     \/ /\ w[p].store \notin exists
        /\ \E s \in exists : w' = [w EXCEPT ![p].store = s]
        /\ Goto(p, "adopt")
     \/ exists = {} /\ Goto(p, "create") /\ UNCHANGED w
  /\ UNCHANGED <<facts, row, fga, configured, lease, bounds>>

Create(p) ==
  /\ pc[p] = "create" /\ made < MaxStores
  /\ made' = made + 1 /\ exists' = exists \cup {made + 1}
  /\ w' = [w EXCEPT ![p].store = made + 1]
  /\ Goto(p, "adopt")
  /\ UNCHANGED <<facts, row, modelled, tuples, configured, lease, bounds>>

(* Slip: the record of the old store's grants is kept. *)
Adopt_keepsRecord(p) ==
  /\ pc[p] = "adopt"
  /\ fgaStoreId' = w[p].store
  /\ Goto(p, "config") /\ UNCHANGED w
  /\ UNCHANGED <<facts, generation, reconciledGeneration, status, aged,
                 scanAged, record, fga, configured, lease, bounds>>

(* Another store than recorded: it is recorded, its grants are forgotten and
   this pass scans. *)
Adopt(p) ==
  /\ pc[p] = "adopt"
  /\ fgaStoreId' = w[p].store /\ record' = {}
  /\ w' = [w EXCEPT ![p].scan = TRUE]
  /\ Goto(p, "config")
  /\ UNCHANGED <<facts, generation, reconciledGeneration, status, aged,
                 scanAged, fga, configured, lease, bounds>>

(* ensureServerConfig: Incus is told which store to use. *)
Config(p) ==
  /\ pc[p] = "config"
  /\ configured' = w[p].store /\ Goto(p, "placements")
  /\ UNCHANGED <<facts, row, fga, lease, w, bounds>>

(* ensurePlacements; a tenant whose project cannot be brought in line is a
   problem of the pass and keeps its grants. *)
ReadPlacements(p) ==
  /\ pc[p] = "placements"
  /\ \/ w' = [w EXCEPT ![p].placed = placed] /\ UNCHANGED faults
     \/ Fault /\ w' = [w EXCEPT ![p].placed = placed, ![p].ok = FALSE]
  /\ Goto(p, "members")
  /\ UNCHANGED <<facts, row, fga, configured, lease, changes, late>>

(* grantFacts and addExplicit: read after the placements, not with them. *)
ReadMembers(p) ==
  /\ pc[p] = "members"
  /\ w' = [w EXCEPT ![p].want = desiredGrants(w[p].placed, members)]
  /\ Goto(p, "model")
  /\ UNCHANGED <<facts, row, fga, configured, lease, bounds>>

(* waitForModel: without a model in time no grant is written.  A failure to ask
   for it counts as none. *)
WaitForModel(p) ==
  /\ pc[p] = "model"
  /\ \/ /\ w[p].store \in exists \cap modelled
        /\ Goto(p, "diff") /\ UNCHANGED <<w, faults>>
     \/ /\ \/ w[p].store \notin exists \cap modelled /\ UNCHANGED faults
           \/ Fault
        /\ Goto(p, "finish") /\ w' = [w EXCEPT ![p].ok = FALSE]
  /\ UNCHANGED <<facts, row, fga, configured, lease, changes, late>>

(* syncGrants: the difference to the record, or to the store when scanning. *)
Diff(p) ==
  LET have == IF w[p].scan THEN readManaged(w[p].store) ELSE record
      wr   == diffWrites(w[p].want, have)
      de   == diffDeletes(w[p].want, have)
  IN
  /\ pc[p] = "diff"
  /\ w[p].scan => w[p].store \in exists
  /\ w' = [w EXCEPT ![p].writes = wr, ![p].deletes = de, ![p].left = wr \cup de]
  /\ Goto(p, IF wr \cup de # {} THEN "write"
             ELSE IF w[p].scan THEN "record" ELSE "finish")
  /\ UNCHANGED <<facts, row, fga, configured, lease, bounds>>

(* The write is not one transaction: its chunks land one by one.  Duplicate
   writes and missing deletes are ignored. *)
WriteTuple(p, t) ==
  LET s == w[p].store
      rest == w[p].left \ {t}
  IN
  /\ pc[p] = "write" /\ s \in exists
  /\ tuples' = [tuples EXCEPT ![s] = IF t \in w[p].writes THEN @ \cup {t}
                                                          ELSE @ \ {t}]
  /\ w' = [w EXCEPT ![p].left = rest]
  /\ Goto(p, IF rest = {} THEN "record" ELSE "write")
  /\ UNCHANGED <<facts, row, exists, modelled, made, configured, lease, bounds>>

(* A chunk is refused, or its store is gone: with transactions disabled the
   client says so in its result only, which write() does not read.  The pass
   goes on and records the tuple as it wanted it. *)
WriteDropped(p, t) ==
  LET rest == w[p].left \ {t} IN
  /\ pc[p] = "write"
  /\ \/ w[p].store \notin exists /\ UNCHANGED faults
     \/ Fault
  /\ w' = [w EXCEPT ![p].left = rest, ![p].dropped = TRUE]
  /\ Goto(p, IF rest = {} THEN "record" ELSE "write")
  /\ UNCHANGED <<facts, row, fga, configured, lease, changes, late>>

(* One transaction: the record is replaced, a scan noted. *)
recordGrants(p) ==
  /\ record' = w[p].want
  /\ scanAged' = (scanAged /\ ~w[p].scan)

Record(p) ==
  /\ pc[p] = "record" /\ recordGrants(p) /\ Goto(p, "finish")
  /\ UNCHANGED <<facts, generation, reconciledGeneration, status, aged,
                 fgaStoreId, fga, configured, lease, w, bounds>>

(* The transaction commits and its answer is lost. *)
RecordUnanswered(p) ==
  /\ pc[p] = "record" /\ Fault /\ recordGrants(p) /\ Goto(p, "finish")
  /\ w' = [w EXCEPT ![p].ok = FALSE]
  /\ UNCHANGED <<facts, generation, reconciledGeneration, status, aged,
                 fgaStoreId, fga, configured, lease, changes, late>>

Finish(p) ==
  /\ pc[p] = "finish"
  /\ status' = IF w[p].ok THEN "ready" ELSE "degraded"
  /\ aged' = FALSE /\ Goto(p, "mark")
  /\ UNCHANGED <<facts, generation, reconciledGeneration, scanAged, fgaStoreId,
                 record, fga, configured, lease, w, bounds>>

(* A call inside the try fails: the pass is degraded and goes no further.  The
   scan of a store that is gone always does; a write fails so only when the
   client itself throws (no credentials). *)
Throws(p) ==
  /\ pc[p] \in {"open", "create", "adopt", "config", "members", "diff", "write",
                "record"}
  /\ \/ Fault
     \/ pc[p] = "diff" /\ w[p].scan /\ w[p].store \notin exists /\ UNCHANGED faults
  /\ w' = [w EXCEPT ![p].ok = FALSE] /\ Goto(p, "finish")
  /\ UNCHANGED <<facts, row, fga, configured, lease, changes, late>>

(* Reading the row or writing the status fails: caught by tick, which still
   marks the generation. *)
PassThrows(p) ==
  /\ pc[p] \in {"load", "finish"} /\ Fault /\ Goto(p, "mark")
  /\ UNCHANGED <<facts, row, fga, configured, lease, w, changes, late>>

-----------------------------------------------------------------------------
(* Crashes, time, OpenFGA and Incus. *)

(* The replica dies and starts again, or a statement of tick itself fails. *)
Crash(p) ==
  /\ pc[p] # "idle" /\ Fault /\ End(p)
  /\ UNCHANGED <<facts, row, fga, configured, lease, changes, late>>

(* The lease is not renewed while one cluster is reconciled. *)
LeaseExpires ==
  /\ leaseLive /\ leaseLive' = FALSE
  /\ IF leaseHolder \in Proc /\ pc[leaseHolder] # "idle"
       THEN Upset /\ late < MaxLate /\ late' = late + 1 ELSE UNCHANGED late
  /\ UNCHANGED <<facts, row, fga, configured, leaseHolder, pc, w, changes,
                 faults>>

Age ==
  /\ ~aged /\ aged' = TRUE
  /\ UNCHANGED <<facts, generation, reconciledGeneration, status, scanAged,
                 fgaStoreId, record, fga, configured, lease, pc, w, bounds>>

ScanAge ==
  /\ ~scanAged /\ scanAged' = TRUE
  /\ UNCHANGED <<facts, generation, reconciledGeneration, status, aged,
                 fgaStoreId, record, fga, configured, lease, pc, w, bounds>>

(* Incus connects to its store: its model, and its own tuples. *)
UploadModel ==
  /\ configured \in exists \ modelled
  /\ modelled' = modelled \cup {configured}
  /\ tuples' = [tuples EXCEPT ![configured] = @ \cup {IncusTuple}]
  /\ UNCHANGED <<facts, row, exists, made, configured, lease, pc, w, bounds>>

(* OpenFGA restarts empty, or the store is deleted.  Bounded so that every
   replica can still create one. *)
StoreLost(s) ==
  /\ s \in exists /\ made + Cardinality(Proc) <= MaxStores
  /\ exists' = exists \ {s} /\ modelled' = modelled \ {s}
  /\ tuples' = [tuples EXCEPT ![s] = {}]
  /\ UNCHANGED <<facts, row, made, configured, lease, pc, w, bounds>>

WorkerStep(p) ==
  \/ Acquire(p) \/ Select(p) \/ Renew(p) \/ Load(p) \/ Open(p) \/ Create(p)
  \/ Adopt(p) \/ Config(p) \/ ReadPlacements(p) \/ ReadMembers(p)
  \/ WaitForModel(p) \/ Diff(p) \/ (\E t \in w[p].left : WriteTuple(p, t) \/ WriteDropped(p, t))
  \/ Record(p) \/ Finish(p) \/ Mark(p) \/ Throws(p)

Next ==
  \/ Place \/ ReconcileNow \/ \E m \in Member : SetMember(m)
  \/ \E k \in {"tenant", "cluster"} : Request(k) \/ RequestLost(k)
  \/ \E p \in Proc :
       \/ WorkerStep(p) \/ Stop(p)
       \/ Unreachable(p) \/ RecordUnanswered(p) \/ PassThrows(p) \/ Crash(p)
  \/ \E s \in StoreId : StoreLost(s)
  \/ LeaseExpires \/ Age \/ ScanAge \/ UploadModel

Spec == Init /\ [][Next]_vars

(* Passes run every poll and their calls end (each has a timeout); clocks move;
   Incus connects to the store it is told to use; an API call that changed the
   facts goes on to its request unless it dies. *)
Fairness ==
  /\ \A p \in Proc : WF_vars(WorkerStep(p))
  /\ \A k \in {"tenant", "cluster"} : WF_vars(Request(k))
  /\ WF_vars(LeaseExpires) /\ WF_vars(Age) /\ WF_vars(ScanAge)
  /\ WF_vars(UploadModel)

FairSpec == Spec /\ Fairness

-----------------------------------------------------------------------------
(* Properties. *)

Busy(p)  == pc[p] # "idle"
Wanted   == desiredGrants(placed, members)
NoneAsks == \A k \in DOMAIN asking : asking[k] = 0

(* When every request is served, no replica is in a pass and the cluster shows
   as ready, its store holds exactly the grants the facts ask for: no change
   made while a pass read the facts half-way is lost, and none when the store
   was replaced (worker.ts 60-64, requests.ts).  Holds until the first failed
   call, crash or lost request, and while no pass outlives its lease. *)
SettledIsApplied ==
  (/\ faults = 0 /\ late = 0
   /\ NoneAsks /\ generation = reconciledGeneration /\ status = "ready"
   /\ \A p \in Proc : ~Busy(p)
   /\ fgaStoreId \in exists)
     => configured = fgaStoreId /\ readManaged(fgaStoreId) = Wanted

(* Outside a write, cluster_grants says what the recorded store holds, so the
   difference to it is the difference to the store (cluster.ts 229-248).  Holds
   until the first failure, and while no pass outlives its lease. *)
RecordIsStore ==
  (/\ faults = 0 /\ late = 0
   /\ fgaStoreId \in exists
   /\ \A p \in Proc : pc[p] \notin {"write", "record"})
     => {t \in tuples[fgaStoreId] : t \in Tuple} = record

(* Pass p has scanned the store and is about to report that it is ready. *)
ScannedWell(p) ==
  pc[p] = "finish" /\ w[p].ok /\ w[p].scan /\ w[p].store \in exists

(* A pass that scanned the store and reports no problem leaves there exactly
   the grants it wanted, whatever failed, crashed, was silently not written or
   was lost in passes before, and what Incus itself keeps there (cluster.ts 84,
   234-248, grants.ts 148-161).  Holds when no pass outlives its lease, of a
   pass all of whose own writes arrived: see ReadyIsWritten. *)
ScanRepairs ==
  \A p \in Proc :
    (late = 0 /\ ScannedWell(p) /\ ~w[p].dropped)
      => /\ tuples[w[p].store] \ {IncusTuple} = w[p].want
         /\ w[p].store \in modelled => IncusTuple \in tuples[w[p].store]

(* "A cluster whose reconcile fails shows as degraded, with the reason"
   (site/content/docs/incuscloud/guides/clusters.mdx): a pass that reports
   ready after a scan has written what it wanted.  The code does not see that a
   chunk of its write was refused (cluster-store.ts 76-82). *)
ReadyIsWritten ==
  \A p \in Proc :
    (late = 0 /\ ScannedWell(p)) => tuples[w[p].store] \ {IncusTuple} = w[p].want

(* After the last change, failure, crash, lost store and overlapping pass, the
   cluster uses a store that holds exactly the grants the facts ask for, and
   stays so: the scan repairs what the record does not know of. *)
Converges ==
  <>[](configured \in exists /\ readManaged(configured) = Wanted)

-----------------------------------------------------------------------------
(* What the safety properties rest on: together with them inductive. *)

Calm == faults = 0 /\ late = 0

(* Until a pass outlives its lease, whoever is in one holds it. *)
Exclusive ==
  late = 0 => \A p \in Proc : Busy(p) => leaseHolder = p /\ leaseLive

(* No generation is served before it is asked for. *)
ServedWasAsked ==
  /\ reconciledGeneration <= generation
  /\ \A p \in Proc : w[p].gen <= generation

(* Stores are numbered as they are made, and a new one holds nothing. *)
StoresAreMade ==
  /\ \A s \in exists : s <= made
  /\ fgaStoreId <= made /\ \A p \in Proc : w[p].store <= made
  /\ \A s \in StoreId : s \notin exists => tuples[s] = {}

(* Incus's model comes with its tuple, which no pass takes away. *)
IncusIsKept == \A s \in modelled : s \in exists /\ IncusTuple \in tuples[s]

(* A pass works on the recorded store, and adopts another only when that is
   lost. *)
PassIsOnRow ==
  late = 0 => \A p \in Proc :
    /\ pc[p] \notin {"idle", "select", "renew", "load", "adopt", "finish", "mark"}
         => w[p].store = fgaStoreId
    /\ pc[p] \in {"create", "adopt"} => fgaStoreId \notin exists
    /\ pc[p] = "create" => exists = {}

(* Until something fails, a store that is not recorded holds no grants. *)
UnrecordedIsEmpty ==
  Calm => \A s \in exists \ {fgaStoreId} : readManaged(s) = {}

(* Incus is told of an adopted store in the same pass. *)
ConfiguredIsRow ==
  (Calm /\ \A p \in Proc : pc[p] # "config") => configured = fgaStoreId

(* What a pass has sent is in the store, the rest is still to be sent. *)
Applied ==
  late = 0 => \A p \in Proc :
    LET v == w[p] IN
    /\ pc[p] = "write" => \A t \in v.left : t \in v.writes <=> t \in v.want
    /\ pc[p] = "record" \/ (pc[p] = "finish" /\ v.ok) => v.left = {}
    /\ (/\ pc[p] \in {"write", "record"} \/ (pc[p] = "finish" /\ v.ok)
        /\ (v.scan /\ ~v.dropped) \/ faults = 0
        /\ v.store \in exists)
          => \A t \in Tuple \ v.left : t \in tuples[v.store] <=> t \in v.want

(* A pass without a problem has recorded what it wanted, and only such a pass
   ends ready. *)
PassIsRecorded ==
  Calm => \A p \in Proc :
    /\ pc[p] \in {"finish", "mark"} /\ w[p].ok => record = w[p].want
    /\ pc[p] = "mark" /\ status = "ready" => w[p].ok

(* The grants that generation g calls for, or a pass is still to come: one
   asked for, or about to be. *)
Covered(grants, g) ==
  \/ generation > g \/ asking["cluster"] > 0
  \/ /\ placed \/ grants = {}
     /\ grants = Wanted \/ asking["tenant"] > 0

(* What a pass has read is still so, or asked for again. *)
ReadIsCovered ==
  Calm => \A p \in Proc :
    /\ pc[p] = "members"
         => generation > w[p].gen \/ asking["cluster"] > 0 \/ w[p].placed = placed
    /\ pc[p] \in {"model", "diff", "write", "record", "finish", "mark"}
         => Covered(w[p].want, w[p].gen)

(* Between passes the record is what the facts ask for, or a pass is due. *)
RecordIsCovered ==
  (/\ Calm /\ status = "ready"
   /\ \A p \in Proc : pc[p] \in {"idle", "select", "renew", "load"})
     => Covered(record, reconciledGeneration)

IInv ==
  /\ TypeOK /\ Exclusive /\ ServedWasAsked /\ StoresAreMade /\ IncusIsKept
  /\ PassIsOnRow /\ UnrecordedIsEmpty /\ ConfiguredIsRow /\ Applied
  /\ RecordIsStore /\ PassIsRecorded /\ ReadIsCovered /\ RecordIsCovered
=============================================================================
