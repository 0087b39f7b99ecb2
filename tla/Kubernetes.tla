----------------------------- MODULE Kubernetes -----------------------------
(***************************************************************************)
(* Managed Kubernetes clusters of one tenant on one Incus cluster          *)
(* (k8s/*.ts, api/kubernetes.ts): the create and delete jobs, the sync     *)
(* worker, the scale and delete requests, the credentials they share and   *)
(* the network forward whose ports they share.  Beside them: the           *)
(* controllers of the management cluster (CAPI, CAPN) and Incus.           *)
(*                                                                         *)
(* Every cluster has a name of its own.  Its port in the forward is known  *)
(* by its id, so the forward is a set of clusters; which address a port    *)
(* leads to is left out.  The load balancer stands for all of a cluster's  *)
(* instances, and the statuses ready, degraded and error, which nothing    *)
(* but the worker's assessment tells apart, are one: "owned".              *)
(***************************************************************************)
EXTENDS Integers, FiniteSets

CONSTANTS
  K,              \* the Kubernetes clusters that are ever asked for
  Ports,          \* the port range is 1 .. Ports
  None,           \* no cluster
  MaxUpsets       \* how often, in all, a job's request fails, a create runs out of
                  \* time or dies

ASSUME KubernetesAssumption ==
  /\ IsFiniteSet(K) /\ None \notin K
  /\ Ports \in Nat /\ MaxUpsets \in Nat

VARIABLES
  \* the database
  status,         \* k8s_clusters.status; "none" before the row, "gone" after
  port,           \* k8s_clusters.endpoint_port, where it is forwarded
  vip,            \* clusters whose endpoint is an address of their own
  cred,           \* k8s_credentials: the create that issued the certificate
  \* the jobs
  cpc, dpc,       \* the steps of each cluster's create and delete job
  cancel,         \* creates that were asked to stop
  held,           \* what a create or delete job read before it writes the forward
  worker,         \* the sync worker
  \* the management cluster
  namespace, secret, object,
  \* Incus
  trusted,        \* trusted certificates, by the create that issued them
  landing,        \* load balancers being created
  lb,             \* load balancers with an address
  forward,        \* clusters with a port in the forward
  \* history
  late,           \* clusters with a port that was written after its deletion began
  revived,        \* clusters scaled after the delete removed their Cluster
  died,           \* clusters whose create ended without a word
  hasty,          \* clusters whose delete did not wait for an instance to land
  gaps,           \* what happened to the credentials
  upsets          \* counted against MaxUpsets

database == <<status, port, vip, cred>>
jobs     == <<cpc, dpc, cancel, held>>
kube     == <<namespace, secret, object>>
incus    == <<trusted, landing, lb, forward>>
history  == <<late, revived, died, hasty, gaps, upsets>>
vars     == <<database, jobs, worker, kube, incus, history>>

OWNED     == {"owned"}
BUSY      == {"creating", "provisioning", "deleting"}
Exists(k) == status[k] \notin {"none", "gone"}

CActive   == {"queued", "apply", "lb", "forward", "plane"}
DActive   == {"queued", "waiting", "gone", "forward", "credentials", "row", "namespace"}
Creating(k) == cpc[k] \in CActive
Deleting(k) == dpc[k] \in DActive

Idle == [step |-> "idle", k |-> None, present |-> FALSE, read |-> {}]

Status      == OWNED \cup BUSY \cup {"none", "gone"}
CStep       == CActive \cup {"none", "done", "failed"}
DStep       == DActive \cup {"none", "done", "failed"}
ObjectState == {"none", "there", "going"}
WorkerState == [step : {"idle", "save", "write"}, k : K \cup {None}, present : BOOLEAN,
                read : SUBSET K]

TypeOK ==
  /\ status \in [K -> Status] /\ port \in [K -> 0 .. Ports] /\ vip \subseteq K
  /\ cred \in K \cup {None} /\ secret \in K \cup {None} /\ trusted \subseteq K
  /\ cpc \in [K -> CStep] /\ dpc \in [K -> DStep] /\ cancel \subseteq K
  /\ held \in [K -> SUBSET K] /\ worker \in WorkerState
  /\ namespace \in BOOLEAN /\ object \in [K -> ObjectState]
  /\ landing \subseteq K /\ lb \subseteq K /\ forward \subseteq K
  /\ late \subseteq K /\ revived \subseteq K /\ died \subseteq K /\ hasty \subseteq K
  /\ gaps \subseteq {"leaked", "spared", "half", "swept"} /\ upsets \in 0 .. MaxUpsets

Init ==
  /\ status = [k \in K |-> "none"] /\ port = [k \in K |-> 0] /\ vip = {} /\ cred = None
  /\ cpc = [k \in K |-> "none"] /\ dpc = [k \in K |-> "none"] /\ cancel = {}
  /\ held = [k \in K |-> {}] /\ worker = Idle
  /\ namespace = FALSE /\ secret = None /\ object = [k \in K |-> "none"]
  /\ trusted = {} /\ landing = {} /\ lb = {} /\ forward = {}
  /\ late = {} /\ revived = {} /\ died = {} /\ hasty = {} /\ gaps = {} /\ upsets = 0

Upset == upsets < MaxUpsets /\ upsets' = upsets + 1

-----------------------------------------------------------------------------
(* The requests: each is one transaction under the tenant's lock. *)

FreePorts == {p \in 1 .. Ports : \A k \in K : Exists(k) => port[k] # p}

(* pickEndpoint: the lowest port no row uses. *)
pickEndpoint == CHOOSE p \in FreePorts : \A q \in FreePorts : p <= q

(* POST /kubernetes, with an instance as load balancer or with an address. *)
RequestCreate(k) ==
  /\ status[k] = "none"
  /\ \/ vip' = vip \cup {k} /\ UNCHANGED port
     \/ FreePorts # {} /\ port' = [port EXCEPT ![k] = pickEndpoint] /\ UNCHANGED vip
  /\ status' = [status EXCEPT ![k] = "creating"]
  /\ cpc' = [cpc EXCEPT ![k] = "queued"]
  /\ UNCHANGED <<cred, dpc, cancel, held, worker, kube, incus, history>>

(* PATCH /kubernetes/:id applies the Cluster again: one that is there keeps its
   state, one that is missing is made. *)
RequestScale(k) ==
  /\ Exists(k) /\ status[k] \notin BUSY /\ namespace
  /\ object[k] = "none" /\ object' = [object EXCEPT ![k] = "there"]
  /\ revived' = IF Deleting(k) THEN revived \cup {k} ELSE revived
  /\ UNCHANGED <<database, jobs, worker, namespace, secret, incus, late, died, hasty, gaps, upsets>>

(* DELETE /kubernetes/:id.  A create still queued ends here, one that runs is
   asked to stop. *)
RequestDelete(k) ==
  /\ Exists(k) /\ ~Deleting(k)
  /\ status' = [status EXCEPT ![k] = "deleting"]
  /\ \/ cpc[k] = "queued" /\ cpc' = [cpc EXCEPT ![k] = "failed"] /\ UNCHANGED cancel
     \/ Creating(k) /\ cancel' = cancel \cup {k} /\ UNCHANGED cpc
     \/ ~Creating(k) /\ UNCHANGED <<cpc, cancel>>
  /\ dpc' = [dpc EXCEPT ![k] = "queued"] /\ died' = died \ {k}
  /\ UNCHANGED <<port, vip, cred, held, worker, kube, incus, late, revived, hasty, gaps, upsets>>

-----------------------------------------------------------------------------
(* The forward: it is read, and replaced later by what was read with this
   cluster's port changed.  There is no forward when it has no ports. *)

(* Slip: a port that is forwarded already is not noticed. *)
Clash_never(k) == FALSE

Clash(k) == \E o \in forward \ {k} : port[o] = port[k]

(* Others' ports that were removed since the forward was read come back. *)
PutForward(k, read, ports, after) ==
  /\ forward' = ports
  /\ late' = ports \cap (late \cup (read \ (forward \cup {k})) \cup after)

(* POST when there was no forward, else PUT; each fails when that has changed. *)
Replaceable(read) == (read = {}) <=> (forward = {})

-----------------------------------------------------------------------------
(* The create job. *)
CGo(k, step) == cpc' = [cpc EXCEPT ![k] = step] /\ UNCHANGED cancel
CEnd(k, as)  == cpc' = [cpc EXCEPT ![k] = as] /\ cancel' = cancel \ {k}

(* Slip: a create that fails leaves the row as it is. *)
Fails_silent(k) == CEnd(k, "failed") /\ UNCHANGED status

(* The catch: the row shows the error, unless it is the delete's. *)
Fails(k) ==
  /\ CEnd(k, "failed")
  /\ status' = [status EXCEPT ![k] = IF @ \in {"deleting", "gone"} THEN @ ELSE "owned"]

(* A status written whatever the row says by then. *)
Mark(k, to) == status' = [status EXCEPT ![k] = IF @ = "gone" THEN @ ELSE to]

(* issue: one certificate for the tenant, and a new one when its key is gone. *)
issue(k) ==
  IF cred # None /\ secret # None THEN UNCHANGED <<cred, secret, trusted>>
  ELSE cred' = k /\ secret' = k /\ trusted' = (trusted \ {cred}) \cup {k}

(* The placement is waited for; the class, the namespace and flannel are
   applied; ensureCredentials holds the lock on the credentials all along. *)
CreateCredentials(k) ==
  /\ cpc[k] = "queued" /\ CGo(k, "apply")
  /\ namespace' = TRUE /\ issue(k)
  /\ UNCHANGED <<status, port, vip, dpc, held, worker, object, landing, lb, forward, history>>

(* It fails with a certificate trusted that no record knows: the transaction,
   or the attempt to untrust it again, failed. *)
CreateLeaks(k) ==
  /\ cpc[k] = "queued" /\ Upset
  /\ cred = None \/ secret = None
  /\ Fails(k)
  /\ namespace' = TRUE /\ secret' \in {secret, k}
  /\ trusted' = (trusted \ {cred}) \cup {k} /\ gaps' = gaps \cup {"leaked"}
  /\ UNCHANGED <<port, vip, cred, dpc, held, worker, object, landing, lb, forward, late, revived, died, hasty>>

(* The Cluster is applied and the row is provisioning. *)
CreateCluster(k) ==
  /\ cpc[k] = "apply" /\ namespace
  /\ CGo(k, IF k \in vip THEN "plane" ELSE "lb")
  /\ object' = [object EXCEPT ![k] = IF @ = "none" THEN "there" ELSE @]
  /\ Mark(k, "provisioning")
  /\ UNCHANGED <<port, vip, cred, dpc, held, worker, namespace, secret, incus, history>>

(* The load balancer has an address; then the forward is read.  A port that is
   there leads to that address, or is to be written again. *)
CreateFindsLb(k) ==
  /\ cpc[k] = "lb" /\ k \in lb /\ ~Clash(k)
  /\ \/ k \in forward /\ CGo(k, "plane") /\ UNCHANGED held
     \/ CGo(k, "forward") /\ held' = [held EXCEPT ![k] = forward]
  /\ UNCHANGED <<database, dpc, worker, kube, incus, history>>

CreateForward(k) ==
  /\ cpc[k] = "forward" /\ Replaceable(held[k])
  /\ CGo(k, "plane") /\ PutForward(k, held[k], held[k] \cup {k}, {})
  /\ held' = [held EXCEPT ![k] = {}]
  /\ UNCHANGED <<database, dpc, worker, kube, trusted, landing, lb, revived, died, hasty, gaps, upsets>>

(* The controllers bring up the control plane with the credentials they have,
   behind the load balancer. *)
Available(k) ==
  object[k] = "there" /\ IF k \in vip THEN secret \in trusted ELSE k \in lb

CreateReady(k) ==
  /\ cpc[k] = "plane" /\ Available(k)
  /\ CEnd(k, "done") /\ Mark(k, "owned")
  /\ UNCHANGED <<port, vip, cred, dpc, held, worker, kube, incus, history>>

(* The create throws: asked to stop or out of time while it waits, refused by
   the management cluster or Incus, or a request fails. *)
CreateFails(k) ==
  /\ \/ cpc[k] = "lb" /\ (k \in cancel \/ Clash(k)) /\ UNCHANGED upsets
     \/ cpc[k] \in {"queued", "plane"} /\ k \in cancel /\ UNCHANGED upsets
     \/ cpc[k] = "forward" /\ ~Replaceable(held[k]) /\ UNCHANGED upsets
     \/ cpc[k] = "apply" /\ ~namespace /\ UNCHANGED upsets
     \/ Creating(k) /\ Upset
  /\ Fails(k) /\ held' = [held EXCEPT ![k] = {}]
  /\ UNCHANGED <<port, vip, cred, dpc, worker, kube, incus, late, revived, died, hasty, gaps>>

(* Cancelled while queued, failing before the try, or its worker dies: the row
   is not touched. *)
CreateDies(k) ==
  /\ Creating(k) /\ Upset /\ CEnd(k, "failed")
  /\ held' = [held EXCEPT ![k] = {}] /\ died' = died \cup {k}
  /\ UNCHANGED <<database, dpc, worker, kube, incus, late, revived, hasty, gaps>>

-----------------------------------------------------------------------------
(* The delete job. *)
DGo(k, step) == dpc' = [dpc EXCEPT ![k] = step]

DeleteBegin(k) ==
  /\ dpc[k] = "queued" /\ DGo(k, "waiting")
  /\ status' = [status EXCEPT ![k] = "deleting"]
  /\ UNCHANGED <<port, vip, cred, cpc, cancel, held, worker, kube, incus, history>>

(* Once no create runs any more, the Cluster is deleted. *)
DeleteCluster(k) ==
  /\ dpc[k] = "waiting" /\ ~Creating(k) /\ DGo(k, "gone")
  /\ object' = [object EXCEPT ![k] = IF @ = "none" THEN @ ELSE "going"]
  /\ revived' = revived \ {k}
  /\ UNCHANGED <<database, cpc, cancel, held, worker, namespace, secret, incus,
                 late, died, hasty, gaps, upsets>>

(* What removeForward does is decided by the forward it reads. *)
ReadForward(k) ==
  IF k \notin forward THEN DGo(k, "credentials") /\ UNCHANGED held
  ELSE DGo(k, "forward") /\ held' = [held EXCEPT ![k] = forward]

(* Slip: the Cluster is not waited for. *)
removeLeftovers_early(k) ==
  /\ dpc[k] = "gone" /\ lb' = lb \ {k} /\ ReadForward(k)
  /\ hasty' = IF k \in landing THEN hasty \cup {k} ELSE hasty \ {k}
  /\ UNCHANGED <<database, cpc, cancel, worker, kube, trusted, landing, forward,
                 late, revived, died, gaps, upsets>>

(* Once the Cluster is gone, operations on its instances are waited for, each as
   long as the client does, 30 s; then the instances found are removed, ended
   operations or not, and the forward is read. *)
removeLeftovers(k) ==
  /\ dpc[k] = "gone" /\ object[k] = "none"
  /\ lb' = lb \ {k} /\ ReadForward(k)
  /\ hasty' = IF k \in landing THEN hasty \cup {k} ELSE hasty \ {k}
  /\ UNCHANGED <<database, cpc, cancel, worker, kube, trusted, landing, forward,
                 late, revived, died, gaps, upsets>>

removeForward(k) ==
  /\ dpc[k] = "forward" /\ forward # {} /\ DGo(k, "credentials")
  /\ PutForward(k, held[k], held[k] \ {k}, {})
  /\ held' = [held EXCEPT ![k] = {}]
  /\ UNCHANGED <<database, cpc, cancel, worker, kube, trusted, landing, lb, revived, died, hasty, gaps, upsets>>

(* Slip: every delete takes the credentials with it. *)
others_none(k) == {}

(* The rows that still use the credentials. *)
others(k) == {o \in K \ {k} : Exists(o)}

(* revokeUnlessUsed holds the lock on the credentials all along. *)
revokeUnlessUsed(k) ==
  /\ dpc[k] = "credentials" /\ DGo(k, "row")
  /\ \/ /\ others(k) = {}
        /\ trusted' = trusted \ {cred} /\ secret' = None /\ cred' = None
        /\ UNCHANGED gaps
     \/ /\ others(k) # {} /\ UNCHANGED <<trusted, secret, cred>>
        /\ gaps' = IF \A o \in others(k) : dpc[o] = "row" THEN gaps \cup {"spared"} ELSE gaps
  /\ UNCHANGED <<status, port, vip, cpc, cancel, held, worker, namespace, object, landing, lb, forward,
                 late, revived, died, hasty, upsets>>

(* The certificate is untrusted; the secret or the record stays. *)
RevokeFails(k) ==
  /\ dpc[k] = "credentials" /\ others(k) = {} /\ cred # None /\ Upset /\ DGo(k, "failed")
  /\ trusted' = trusted \ {cred} /\ secret' \in {secret, None}
  /\ gaps' = gaps \cup {"half"}
  /\ UNCHANGED <<database, cpc, cancel, held, worker, namespace, object, landing, lb, forward,
                 late, revived, died, hasty>>

(* The row goes.  Was it the tenant's last?  Then the namespace goes too, with
   all it holds. *)
deleteK8sRow(k) ==
  /\ dpc[k] = "row" /\ DGo(k, IF others(k) = {} THEN "namespace" ELSE "done")
  /\ status' = [status EXCEPT ![k] = "gone"]
  /\ UNCHANGED <<port, vip, cred, cpc, cancel, held, worker, kube, incus, history>>

DeleteNamespace(k) ==
  /\ dpc[k] = "namespace" /\ DGo(k, "done")
  /\ namespace' = FALSE /\ secret' = None /\ object' = [o \in K |-> "none"]
  /\ gaps' = IF \E o \in K : Exists(o) THEN gaps \cup {"swept"} ELSE gaps
  /\ UNCHANGED <<database, cpc, cancel, held, worker, incus, late, revived, died, hasty, upsets>>

(* Out of time while it waits, refused by Incus, or a request fails. *)
DeleteFails(k) ==
  /\ \/ dpc[k] = "waiting" /\ Creating(k) /\ UNCHANGED upsets
     \/ dpc[k] = "gone" /\ object[k] # "none" /\ UNCHANGED upsets
     \/ dpc[k] = "forward" /\ forward = {} /\ UNCHANGED upsets
     \/ Deleting(k) /\ Upset
  /\ DGo(k, "failed") /\ held' = [held EXCEPT ![k] = {}]
  /\ UNCHANGED <<database, cpc, cancel, worker, kube, incus, late, revived, died, hasty, gaps>>

-----------------------------------------------------------------------------
(* The sync worker takes the rows of a pass one after the other; each is a
   pass of its own here.  A row that is provisioning only gets its node
   counts, which are left out. *)

(* The row, and then its Cluster and Machines, are read. *)
WorkerReads(k) ==
  /\ worker.step = "idle" /\ status[k] \in OWNED
  /\ worker' = [Idle EXCEPT !.step = "save", !.k = k, !.present = object[k] # "none"]
  /\ UNCHANGED <<database, jobs, kube, incus, history>>

(* The row is written; then retarget: findLb, and the forward is read.  A port
   that leads to the address found is left as it is. *)
WorkerSaves ==
  /\ worker.step = "save" /\ Mark(worker.k, "owned")
  /\ LET k == worker.k
         nothingToDo == ~worker.present \/ k \in vip \/ k \notin lb \/ Clash(k)
     IN  \/ (nothingToDo \/ k \in forward) /\ worker' = Idle
         \/ ~nothingToDo /\ worker' = [Idle EXCEPT !.step = "write", !.k = k, !.read = forward]
  /\ UNCHANGED <<port, vip, cred, jobs, kube, incus, history>>

WorkerForwards ==
  /\ worker.step = "write" /\ worker' = Idle
  /\ LET k == worker.k  r == worker.read IN
       IF Replaceable(r)
       THEN PutForward(k, r, r \cup {k}, IF Deleting(k) \/ ~Exists(k) THEN {k} ELSE {})
       ELSE UNCHANGED <<forward, late>>
  /\ UNCHANGED <<database, jobs, kube, trusted, landing, lb, revived, died, hasty, gaps, upsets>>

(* A request fails: the row waits for the next pass. *)
WorkerFails ==
  /\ worker.step # "idle" /\ worker' = Idle
  /\ UNCHANGED <<database, jobs, kube, incus, history>>

-----------------------------------------------------------------------------
(* The controllers and Incus. *)
program == <<database, jobs, worker, namespace, secret, trusted, forward, late, revived, died, hasty, gaps>>

(* CAPN starts to create the load balancer, with the credentials it has. *)
Provision(k) ==
  /\ object[k] = "there" /\ k \notin vip \cup lb /\ secret \in trusted
  /\ landing' = landing \cup {k}
  /\ UNCHANGED <<program, object, lb, upsets>>

Land(k) ==
  /\ k \in landing /\ landing' = landing \ {k} /\ lb' = lb \cup {k}
  /\ UNCHANGED <<program, object, upsets>>

(* The Cluster goes.  Its load balancer stays for the delete job to remove: if CAPN
   has removed it, the job finds nothing to do and the worker nothing to retarget,
   as when its request fails. *)
Remove(k) ==
  /\ object[k] = "going" /\ object' = [object EXCEPT ![k] = "none"]
  /\ UNCHANGED <<program, landing, lb, upsets>>

-----------------------------------------------------------------------------
CreateJob(k) ==
  CreateCredentials(k) \/ CreateCluster(k) \/ CreateFindsLb(k) \/ CreateForward(k) \/ CreateReady(k)
DeleteJob(k) ==
  DeleteBegin(k) \/ DeleteCluster(k) \/ removeLeftovers(k) \/ removeForward(k)
    \/ revokeUnlessUsed(k) \/ deleteK8sRow(k) \/ DeleteNamespace(k)

Next ==
  \/ \E k \in K :
       \/ RequestCreate(k) \/ RequestScale(k) \/ RequestDelete(k)
       \/ CreateJob(k) \/ CreateLeaks(k) \/ CreateFails(k) \/ CreateDies(k)
       \/ DeleteJob(k) \/ RevokeFails(k) \/ DeleteFails(k)
       \/ WorkerReads(k)
       \/ Provision(k) \/ Land(k) \/ Remove(k)
  \/ WorkerSaves \/ WorkerForwards \/ WorkerFails

Spec == Init /\ [][Next]_vars

-----------------------------------------------------------------------------
(* What nobody knows of any more is really gone.  Once the row is deleted there
   is no Cluster, unless the row's "deleting" had been overwritten and the cluster
   was scaled after its Cluster went; no load balancer and none still being created, unless that, or
   the delete had given up waiting for it to land; and its port is not forwarded,
   unless the sync worker, or a writer of another cluster's port, had read before
   the deletion. *)
NothingLeft ==
  \A k \in K : status[k] = "gone" =>
    /\ k \notin revived => object[k] = "none"
    /\ k \notin revived \cup hasty => k \notin lb \cup landing
    /\ k \notin late => k \notin forward

(* "operations touching the cluster's instances are waited for first": a deleted
   cluster has no instance, nor will one land.  Not so: the client waits 30 s. *)
LeftoversRemoved ==
  \A k \in K : status[k] = "gone" => k \notin lb \cup landing

(* "Until it is done the row stays `deleting`".  Not so: the sync worker writes the
   status it computed from a row it read before. *)
DeletingStays ==
  \A k \in K : Deleting(k) => status[k] \in {"deleting", "gone"}

(* "revokes the certificate when the tenant's last Kubernetes cluster there is
   deleted": with no cluster left none is trusted.  Not so: of two deleted side by
   side each finds the other's row. *)
CertificateRevoked ==
  (\A k \in K : ~Exists(k)) => trusted = {}

(* Whoever reaches the endpoint of a cluster reaches no other: no two clusters'
   ports are forwarded from the same port. *)
PortsApart ==
  \A k, o \in forward : k # o => port[k] # port[o]

(* Credentials are not revoked under a cluster that uses them: from its create's
   credentials to its deletion the secret holds a trusted certificate, unless
   a revocation failed halfway or the namespace went with its last cluster; and it
   is the one on record, unless a create failed to replace the record of clusters
   that were deleted side by side.  Once no cluster is left, no certificate is trusted, unless a failure left one
   or the last two were deleted side by side. *)
CredentialsFollow ==
  /\ \A k \in K :
       /\ cpc[k] \in {"apply", "lb", "forward", "plane", "done"}
       /\ Exists(k) /\ dpc[k] = "none"
       => \/ gaps \cap {"half", "swept"} # {}
          \/ secret \in trusted /\ (cred = secret \/ {"spared", "leaked"} \subseteq gaps)
  /\ (\A k \in K : ~Exists(k)) => trusted = {} \/ gaps # {}

(* Statuses that belong to a running job have one: a row is not left creating
   or provisioning, except by a create that died, nor deleting by anything but
   a delete that failed. *)
BusyHasJob ==
  \A k \in K :
    /\ status[k] \in {"creating", "provisioning"} => Creating(k) \/ k \in died
    /\ status[k] = "deleting" => Deleting(k) \/ dpc[k] = "failed"

-----------------------------------------------------------------------------
(* The inductive invariant behind these properties (KubernetesProofs). *)

(* What was not asked for is nowhere. *)
NotAskedFor ==
  \A k \in K : status[k] = "none" =>
    /\ cpc[k] = "none" /\ dpc[k] = "none"
    /\ k \notin forward \cup worker.read /\ k # worker.k
    /\ \A o \in K : k \notin held[o]

(* A delete goes on only when no create runs, and the row goes last. *)
JobsTakeTurns ==
  \A k \in K :
    /\ Creating(k) => status[k] # "gone" /\ dpc[k] \in {"none", "queued", "waiting", "failed"}
    /\ status[k] = "gone" => dpc[k] \in {"namespace", "done", "failed"}
    /\ dpc[k] \in {"namespace", "done"} => status[k] = "gone"

(* From the removal of the leftovers on there are none, and after the forward was
   written the port is not in it. *)
Cleared(k) == dpc[k] \in {"forward", "credentials", "row"} \/ status[k] = "gone"
LeftoversGone ==
  \A k \in K : Cleared(k) =>
    /\ k \notin revived => object[k] = "none"
    /\ k \notin revived \cup hasty => k \notin lb \cup landing
    /\ dpc[k] # "forward" /\ k \notin late => k \notin forward

(* What was read of the forward has the ports apart, and so has what it is about
   to be replaced by. *)
Apart(S) == \A k, o \in S : k # o => port[k] # port[o]
HeldApart ==
  /\ \A k \in K : Apart(held[k]) /\ (cpc[k] = "forward" => Apart(held[k] \cup {k}))
  /\ Apart(worker.read)
  /\ worker.step # "idle" => worker.k \in K
  /\ worker.step = "write" => Apart(worker.read \cup {worker.k})

(* A certificate on record belongs to a cluster whose delete has not come past the
   credentials. *)
CredHasUser ==
  cred # None => gaps \cap {"half", "swept", "spared"} # {}
                 \/ \E k \in K : Exists(k) /\ dpc[k] # "row"

(* The record and the secret go together, as long as nothing has failed. *)
PairIsTrusted ==
  /\ cred # None /\ secret # None =>
       \/ gaps \cap {"half", "swept"} # {}
       \/ secret \in trusted /\ (cred = secret \/ {"spared", "leaked"} \subseteq gaps)
  /\ cred # None /\ secret = None => gaps \cap {"half", "swept", "spared"} # {}
  /\ gaps = {} => trusted \subseteq {cred}

(* A cluster past its credentials that nobody deletes has both. *)
UserHasPair ==
  \A k \in K :
    cpc[k] \in {"apply", "lb", "forward", "plane", "done"} /\ Exists(k) /\ dpc[k] = "none" =>
      gaps \cap {"half", "swept"} # {} \/ (cred # None /\ secret # None)

IInv ==
  /\ TypeOK /\ NotAskedFor /\ JobsTakeTurns /\ BusyHasJob /\ LeftoversGone
  /\ HeldApart /\ PortsApart /\ CredHasUser /\ PairIsTrusted /\ UserHasPair
=============================================================================
