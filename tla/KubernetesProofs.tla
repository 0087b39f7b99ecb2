-------------------------- MODULE KubernetesProofs --------------------------
(***************************************************************************)
(* Proofs about Kubernetes, for any number of clusters, any port range and *)
(* any number of failures.                                                 *)
(***************************************************************************)
EXTENDS Kubernetes, TLAPS, WellFoundedInduction

(* A set of naturals has a least element. *)
LEMMA LeastExists ==
  ASSUME NEW S, S \subseteq Nat, S # {}
  PROVE  \E m \in S : \A x \in S : m <= x
<1>1. \E m \in S : \A x \in S : ~ (<<x, m>> \in OpToRel(<, Nat))
  BY WFMin, NatLessThanWellFounded
<1>2. PICK m \in S : \A x \in S : ~ (<<x, m>> \in OpToRel(<, Nat))
  BY <1>1
<1>3. \A x \in S : ~ (x < m)
  BY <1>2 DEF OpToRel
<1>4. QED
  BY <1>3

(* Whatever port is picked is free. *)
LEMMA PickedPort == FreePorts # {} => pickEndpoint \in FreePorts /\ pickEndpoint \in 0 .. Ports
<1>1. FreePorts \subseteq Nat
  BY DEF FreePorts
<1>2. FreePorts # {} => \E p \in FreePorts : \A q \in FreePorts : p <= q
  BY <1>1, LeastExists
<1>3. FreePorts # {} => pickEndpoint \in FreePorts
  BY <1>2 DEF pickEndpoint
<1>4. QED
  BY <1>3, KubernetesAssumption DEF FreePorts

(* An idle worker holds nothing. *)
LEMMA IdleWorker == Idle \in WorkerState /\ Idle.step = "idle" /\ Idle.k = None /\ Idle.read = {}
BY DEF Idle, WorkerState

(* Every action keeps the variables in their types. *)
LEMMA TypeStep == TypeOK /\ HeldApart /\ [Next]_vars => TypeOK'
<1> SUFFICES ASSUME TypeOK, HeldApart, [Next]_vars PROVE TypeOK'
  OBVIOUS
<1>status. status \in [K -> Status]
  BY DEF TypeOK
<1>port. port \in [K -> 0 .. Ports]
  BY DEF TypeOK
<1>vip. vip \subseteq K
  BY DEF TypeOK
<1>cred. cred \in K \cup {None}
  BY DEF TypeOK
<1>secret. secret \in K \cup {None}
  BY DEF TypeOK
<1>trusted. trusted \subseteq K
  BY DEF TypeOK
<1>cpc. cpc \in [K -> CStep]
  BY DEF TypeOK
<1>dpc. dpc \in [K -> DStep]
  BY DEF TypeOK
<1>cancel. cancel \subseteq K
  BY DEF TypeOK
<1>held. held \in [K -> SUBSET K]
  BY DEF TypeOK
<1>worker. worker \in WorkerState
  BY DEF TypeOK
<1>namespace. namespace \in BOOLEAN
  BY DEF TypeOK
<1>object. object \in [K -> ObjectState]
  BY DEF TypeOK
<1>landing. landing \subseteq K
  BY DEF TypeOK
<1>lb. lb \subseteq K
  BY DEF TypeOK
<1>forward. forward \subseteq K
  BY DEF TypeOK
<1>late. late \subseteq K
  BY DEF TypeOK
<1>revived. revived \subseteq K
  BY DEF TypeOK
<1>died. died \subseteq K
  BY DEF TypeOK
<1>gaps. gaps \subseteq {"leaked", "spared", "half", "swept"}
  BY DEF TypeOK
<1>upsets. upsets \in 0 .. MaxUpsets
  BY DEF TypeOK
<1>1. ASSUME NEW k \in K, RequestCreate(k) PROVE TypeOK'
  <2>1. status' \in [K -> Status]
    BY <1>status, <1>1, IdleWorker, KubernetesAssumption
    DEF RequestCreate, Exists, Status, OWNED, BUSY
  <2>2. port' \in [K -> 0 .. Ports]
    BY <1>1, <1>port, PickedPort DEF RequestCreate
  <2>3. vip' \subseteq K
    BY <1>vip, <1>1, IdleWorker DEF RequestCreate, Exists
  <2>4. cpc' \in [K -> CStep]
    BY <1>cpc, <1>1, IdleWorker, KubernetesAssumption
    DEF RequestCreate, Exists, CStep, CActive
  <2> QED
    BY <2>1, <2>2, <2>3, <2>4, <1>1 DEF TypeOK, RequestCreate, kube, incus, history
<1>2. ASSUME NEW k \in K, RequestScale(k) PROVE TypeOK'
  <2>1. object' \in [K -> ObjectState]
    BY <1>object, <1>2, IdleWorker, KubernetesAssumption
    DEF RequestScale, Exists, BUSY, ObjectState
  <2> QED
    BY <2>1, <1>2 DEF TypeOK, RequestScale, database, jobs, incus, history
<1>3. ASSUME NEW k \in K, RequestDelete(k) PROVE TypeOK'
  <2>1. status' \in [K -> Status]
    BY <1>status, <1>3, IdleWorker, KubernetesAssumption
    DEF RequestDelete, Exists, Deleting, Creating, DActive, CActive, Status, OWNED, BUSY
  <2>2. cpc' \in [K -> CStep]
    BY <1>cpc, <1>3, IdleWorker, KubernetesAssumption
    DEF RequestDelete, Exists, Deleting, Creating, DActive, CActive, CStep
  <2>3. dpc' \in [K -> DStep]
    BY <1>dpc, <1>3, IdleWorker, KubernetesAssumption
    DEF RequestDelete, Exists, Deleting, Creating, DActive, CActive, DStep
  <2>4. cancel' \subseteq K
    BY <1>cancel, <1>3, IdleWorker
    DEF RequestDelete, Exists, Deleting, Creating, DActive, CActive
  <2> QED
    BY <2>1, <2>2, <2>3, <2>4, <1>3 DEF TypeOK, RequestDelete, kube, incus, history
<1>4. ASSUME NEW k \in K, CreateCredentials(k) PROVE TypeOK'
  <2>1. cred' \in K \cup {None}
    BY <1>cred, <1>4, IdleWorker DEF CreateCredentials, CGo, issue
  <2>2. secret' \in K \cup {None}
    BY <1>secret, <1>4, IdleWorker DEF CreateCredentials, CGo, issue
  <2>3. trusted' \subseteq K
    BY <1>trusted, <1>4, IdleWorker DEF CreateCredentials, CGo, issue
  <2>4. cpc' \in [K -> CStep]
    BY <1>cpc, <1>4, IdleWorker, KubernetesAssumption
    DEF CreateCredentials, CGo, issue, CStep, CActive
  <2>5. namespace' \in BOOLEAN
    BY <1>namespace, <1>4, IdleWorker DEF CreateCredentials, CGo, issue
  <2> QED
    BY <2>1, <2>2, <2>3, <2>4, <2>5, <1>4 DEF TypeOK, CreateCredentials, CGo, issue, history
<1>5. ASSUME NEW k \in K, CreateLeaks(k) PROVE TypeOK'
  <2>1. status' \in [K -> Status]
    BY <1>status, <1>5, IdleWorker, KubernetesAssumption
    DEF CreateLeaks, Upset, Fails, CEnd, Status, OWNED, BUSY
  <2>2. secret' \in K \cup {None}
    BY <1>secret, <1>5, IdleWorker DEF CreateLeaks, Upset, Fails, CEnd
  <2>3. trusted' \subseteq K
    BY <1>trusted, <1>5, IdleWorker DEF CreateLeaks, Upset, Fails, CEnd
  <2>4. cpc' \in [K -> CStep]
    BY <1>cpc, <1>5, IdleWorker, KubernetesAssumption
    DEF CreateLeaks, Upset, Fails, CEnd, CStep, CActive
  <2>5. cancel' \subseteq K
    BY <1>cancel, <1>5, IdleWorker DEF CreateLeaks, Upset, Fails, CEnd
  <2>6. namespace' \in BOOLEAN
    BY <1>namespace, <1>5, IdleWorker DEF CreateLeaks, Upset, Fails, CEnd
  <2>7. gaps' \subseteq {"leaked", "spared", "half", "swept"}
    BY <1>gaps, <1>5, IdleWorker DEF CreateLeaks, Upset, Fails, CEnd
  <2>8. upsets' \in 0 .. MaxUpsets
    BY <1>upsets, <1>5, IdleWorker, KubernetesAssumption DEF CreateLeaks, Upset, Fails, CEnd
  <2> QED
    BY <2>1, <2>2, <2>3, <2>4, <2>5, <2>6, <2>7, <2>8, <1>5
    DEF TypeOK, CreateLeaks, Upset, Fails, CEnd
<1>6. ASSUME NEW k \in K, CreateCluster(k) PROVE TypeOK'
  <2>1. status' \in [K -> Status]
    BY <1>status, <1>6, IdleWorker, KubernetesAssumption
    DEF CreateCluster, CGo, Mark, Status, OWNED, BUSY
  <2>2. cpc' \in [K -> CStep]
    BY <1>cpc, <1>6, IdleWorker, KubernetesAssumption
    DEF CreateCluster, CGo, Mark, CStep, CActive
  <2>3. object' \in [K -> ObjectState]
    BY <1>object, <1>6, IdleWorker, KubernetesAssumption
    DEF CreateCluster, CGo, Mark, ObjectState
  <2>4. revived' \subseteq K
    BY <1>revived, <1>6, IdleWorker DEF CreateCluster, CGo, Mark, history
  <2> QED
    BY <2>1, <2>2, <2>3, <2>4, <1>6 DEF TypeOK, CreateCluster, CGo, Mark, incus, history
<1>7. ASSUME NEW k \in K, CreateFindsLb(k) PROVE TypeOK'
  <2>1. cpc' \in [K -> CStep]
    BY <1>cpc, <1>7, IdleWorker, KubernetesAssumption DEF CreateFindsLb, CGo, CStep, CActive
  <2>2. held' \in [K -> SUBSET K]
    BY <1>held, <1>status, <1>port, <1>vip, <1>cred, <1>secret, <1>trusted, <1>cpc, <1>dpc,
       <1>cancel, <1>worker, <1>namespace, <1>object, <1>landing, <1>lb, <1>forward, <1>late,
       <1>revived, <1>died, <1>gaps, <1>upsets, <1>7
    DEF CreateFindsLb, CGo
  <2> QED
    BY <2>1, <2>2, <1>7 DEF TypeOK, CreateFindsLb, CGo, database, kube, incus, history
<1>8. ASSUME NEW k \in K, CreateForward(k) PROVE TypeOK'
  <2>1. cpc' \in [K -> CStep]
    BY <1>cpc, <1>8, IdleWorker, KubernetesAssumption
    DEF CreateForward, CGo, PutForward, CStep, CActive
  <2>2. held' \in [K -> SUBSET K]
    BY <1>held, <1>8, IdleWorker DEF CreateForward, CGo, PutForward
  <2>3. forward' \subseteq K
    BY <1>forward, <1>status, <1>port, <1>vip, <1>cred, <1>secret, <1>trusted, <1>cpc,
       <1>dpc, <1>cancel, <1>held, <1>worker, <1>namespace, <1>object, <1>landing, <1>lb,
       <1>late, <1>revived, <1>died, <1>gaps, <1>upsets, <1>8
    DEF CreateForward, CGo, PutForward
  <2>4. late' \subseteq K
    BY <1>late, <1>status, <1>port, <1>vip, <1>cred, <1>secret, <1>trusted, <1>cpc, <1>dpc,
       <1>cancel, <1>held, <1>worker, <1>namespace, <1>object, <1>landing, <1>lb, <1>forward,
       <1>revived, <1>died, <1>gaps, <1>upsets, <1>8
    DEF CreateForward, CGo, PutForward
  <2> QED
    BY <2>1, <2>2, <2>3, <2>4, <1>8
    DEF TypeOK, CreateForward, CGo, PutForward, database, kube
<1>9. ASSUME NEW k \in K, CreateReady(k) PROVE TypeOK'
  <2>1. status' \in [K -> Status]
    BY <1>status, <1>9, IdleWorker, KubernetesAssumption
    DEF CreateReady, Available, CEnd, Mark, Status, OWNED, BUSY
  <2>2. cpc' \in [K -> CStep]
    BY <1>cpc, <1>9, IdleWorker, KubernetesAssumption
    DEF CreateReady, Available, CEnd, Mark, CStep, CActive
  <2>3. cancel' \subseteq K
    BY <1>cancel, <1>9, IdleWorker DEF CreateReady, Available, CEnd, Mark
  <2>4. revived' \subseteq K
    BY <1>revived, <1>9, IdleWorker DEF CreateReady, Available, CEnd, Mark, history
  <2> QED
    BY <2>1, <2>2, <2>3, <2>4, <1>9 DEF TypeOK, CreateReady, CEnd, Mark, kube, incus, history
<1>10. ASSUME NEW k \in K, CreateFails(k) PROVE TypeOK'
  <2>1. status' \in [K -> Status]
    BY <1>status, <1>10, IdleWorker, KubernetesAssumption
    DEF CreateFails, Creating, Upset, Fails, CActive, CEnd, Status, OWNED, BUSY
  <2>2. cpc' \in [K -> CStep]
    BY <1>cpc, <1>10, IdleWorker, KubernetesAssumption
    DEF CreateFails, Creating, Upset, Fails, CActive, CEnd, CStep
  <2>3. cancel' \subseteq K
    BY <1>cancel, <1>10, IdleWorker DEF CreateFails, Creating, Upset, Fails, CActive, CEnd
  <2>4. held' \in [K -> SUBSET K]
    BY <1>held, <1>10, IdleWorker DEF CreateFails, Creating, Upset, Fails, CActive, CEnd
  <2>5. upsets' \in 0 .. MaxUpsets
    BY <1>upsets, <1>10, IdleWorker, KubernetesAssumption
    DEF CreateFails, Creating, Upset, Fails, CActive, CEnd
  <2> QED
    BY <2>1, <2>2, <2>3, <2>4, <2>5, <1>10
    DEF TypeOK, CreateFails, Upset, Fails, kube, incus, CEnd
<1>11. ASSUME NEW k \in K, CreateDies(k) PROVE TypeOK'
  <2>1. cpc' \in [K -> CStep]
    BY <1>cpc, <1>11, IdleWorker, KubernetesAssumption
    DEF CreateDies, Creating, Upset, CEnd, CActive, CStep
  <2>2. cancel' \subseteq K
    BY <1>cancel, <1>11, IdleWorker DEF CreateDies, Creating, Upset, CEnd, CActive
  <2>3. held' \in [K -> SUBSET K]
    BY <1>held, <1>11, IdleWorker DEF CreateDies, Creating, Upset, CEnd, CActive
  <2>4. died' \subseteq K
    BY <1>died, <1>11, IdleWorker DEF CreateDies, Creating, Upset, CEnd, CActive
  <2>5. upsets' \in 0 .. MaxUpsets
    BY <1>upsets, <1>11, IdleWorker, KubernetesAssumption
    DEF CreateDies, Creating, Upset, CEnd, CActive
  <2> QED
    BY <2>1, <2>2, <2>3, <2>4, <2>5, <1>11
    DEF TypeOK, CreateDies, Upset, CEnd, database, kube, incus
<1>12. ASSUME NEW k \in K, DeleteBegin(k) PROVE TypeOK'
  <2>1. status' \in [K -> Status]
    BY <1>status, <1>12, IdleWorker, KubernetesAssumption
    DEF DeleteBegin, DGo, Status, OWNED, BUSY
  <2>2. dpc' \in [K -> DStep]
    BY <1>dpc, <1>12, IdleWorker, KubernetesAssumption DEF DeleteBegin, DGo, DStep, DActive
  <2> QED
    BY <2>1, <2>2, <1>12 DEF TypeOK, DeleteBegin, DGo, kube, incus, history
<1>13. ASSUME NEW k \in K, DeleteCluster(k) PROVE TypeOK'
  <2>1. dpc' \in [K -> DStep]
    BY <1>dpc, <1>13, IdleWorker, KubernetesAssumption
    DEF DeleteCluster, Creating, DGo, CActive, DStep, DActive
  <2>2. object' \in [K -> ObjectState]
    BY <1>object, <1>13, IdleWorker, KubernetesAssumption
    DEF DeleteCluster, Creating, DGo, CActive, ObjectState
  <2> QED
    BY <2>1, <2>2, <1>13 DEF TypeOK, DeleteCluster, DGo, database, incus, history
<1>14. ASSUME NEW k \in K, removeLeftovers(k) PROVE TypeOK'
  <2>1. dpc' \in [K -> DStep]
    BY <1>dpc, <1>14, IdleWorker, KubernetesAssumption
    DEF removeLeftovers, ReadForward, DGo, DStep, DActive
  <2>2. held' \in [K -> SUBSET K]
    BY <1>held, <1>status, <1>port, <1>vip, <1>cred, <1>secret, <1>trusted, <1>cpc, <1>dpc,
       <1>cancel, <1>worker, <1>namespace, <1>object, <1>landing, <1>lb, <1>forward, <1>late,
       <1>revived, <1>died, <1>gaps, <1>upsets, <1>14
    DEF removeLeftovers, ReadForward, DGo
  <2>3. lb' \subseteq K
    BY <1>lb, <1>14, IdleWorker DEF removeLeftovers, ReadForward, DGo
  <2> QED
    BY <2>1, <2>2, <2>3, <1>14
    DEF TypeOK, removeLeftovers, ReadForward, database, kube, history, DGo
<1>15. ASSUME NEW k \in K, removeForward(k) PROVE TypeOK'
  <2>1. dpc' \in [K -> DStep]
    BY <1>dpc, <1>15, IdleWorker, KubernetesAssumption
    DEF removeForward, DGo, PutForward, DStep, DActive
  <2>2. held' \in [K -> SUBSET K]
    BY <1>held, <1>15, IdleWorker DEF removeForward, DGo, PutForward
  <2>3. forward' \subseteq K
    BY <1>forward, <1>status, <1>port, <1>vip, <1>cred, <1>secret, <1>trusted, <1>cpc,
       <1>dpc, <1>cancel, <1>held, <1>worker, <1>namespace, <1>object, <1>landing, <1>lb,
       <1>late, <1>revived, <1>died, <1>gaps, <1>upsets, <1>15
    DEF removeForward, DGo, PutForward
  <2>4. late' \subseteq K
    BY <1>late, <1>status, <1>port, <1>vip, <1>cred, <1>secret, <1>trusted, <1>cpc, <1>dpc,
       <1>cancel, <1>held, <1>worker, <1>namespace, <1>object, <1>landing, <1>lb, <1>forward,
       <1>revived, <1>died, <1>gaps, <1>upsets, <1>15
    DEF removeForward, DGo, PutForward
  <2> QED
    BY <2>1, <2>2, <2>3, <2>4, <1>15
    DEF TypeOK, removeForward, DGo, PutForward, database, kube
<1>16. ASSUME NEW k \in K, revokeUnlessUsed(k) PROVE TypeOK'
  <2>1. cred' \in K \cup {None}
    BY <1>cred, <1>16, IdleWorker DEF revokeUnlessUsed, DGo, others, Exists
  <2>2. secret' \in K \cup {None}
    BY <1>secret, <1>16, IdleWorker DEF revokeUnlessUsed, DGo, others, Exists
  <2>3. trusted' \subseteq K
    BY <1>trusted, <1>16, IdleWorker DEF revokeUnlessUsed, DGo, others, Exists
  <2>4. dpc' \in [K -> DStep]
    BY <1>dpc, <1>16, IdleWorker, KubernetesAssumption
    DEF revokeUnlessUsed, DGo, others, Exists, DStep, DActive
  <2>5. gaps' \subseteq {"leaked", "spared", "half", "swept"}
    BY <1>gaps, <1>16, IdleWorker DEF revokeUnlessUsed, DGo, others, Exists
  <2> QED
    BY <2>1, <2>2, <2>3, <2>4, <2>5, <1>16 DEF TypeOK, revokeUnlessUsed, DGo
<1>17. ASSUME NEW k \in K, RevokeFails(k) PROVE TypeOK'
  <2>1. secret' \in K \cup {None}
    BY <1>secret, <1>17, IdleWorker DEF RevokeFails, others, Upset, DGo, Exists
  <2>2. trusted' \subseteq K
    BY <1>trusted, <1>17, IdleWorker DEF RevokeFails, others, Upset, DGo, Exists
  <2>3. dpc' \in [K -> DStep]
    BY <1>dpc, <1>17, IdleWorker, KubernetesAssumption
    DEF RevokeFails, others, Upset, DGo, Exists, DStep, DActive
  <2>4. gaps' \subseteq {"leaked", "spared", "half", "swept"}
    BY <1>gaps, <1>17, IdleWorker DEF RevokeFails, others, Upset, DGo, Exists
  <2>5. upsets' \in 0 .. MaxUpsets
    BY <1>upsets, <1>17, IdleWorker, KubernetesAssumption
    DEF RevokeFails, others, Upset, DGo, Exists
  <2> QED
    BY <2>1, <2>2, <2>3, <2>4, <2>5, <1>17 DEF TypeOK, RevokeFails, Upset, DGo, database
<1>18. ASSUME NEW k \in K, deleteK8sRow(k) PROVE TypeOK'
  <2>1. status' \in [K -> Status]
    BY <1>status, <1>18, IdleWorker, KubernetesAssumption
    DEF deleteK8sRow, DGo, others, Exists, Status, OWNED, BUSY
  <2>2. dpc' \in [K -> DStep]
    BY <1>dpc, <1>18, IdleWorker, KubernetesAssumption
    DEF deleteK8sRow, DGo, others, Exists, DStep, DActive
  <2> QED
    BY <2>1, <2>2, <1>18 DEF TypeOK, deleteK8sRow, DGo, kube, incus, history
<1>19. ASSUME NEW k \in K, DeleteNamespace(k) PROVE TypeOK'
  <2>1. secret' \in K \cup {None}
    BY <1>secret, <1>19, IdleWorker DEF DeleteNamespace, DGo, Exists
  <2>2. dpc' \in [K -> DStep]
    BY <1>dpc, <1>19, IdleWorker, KubernetesAssumption
    DEF DeleteNamespace, DGo, Exists, DStep, DActive
  <2>3. namespace' \in BOOLEAN
    BY <1>namespace, <1>19, IdleWorker DEF DeleteNamespace, DGo, Exists
  <2>4. object' \in [K -> ObjectState]
    BY <1>object, <1>19, IdleWorker, KubernetesAssumption
    DEF DeleteNamespace, DGo, Exists, ObjectState
  <2>5. gaps' \subseteq {"leaked", "spared", "half", "swept"}
    BY <1>gaps, <1>19, IdleWorker DEF DeleteNamespace, DGo, Exists
  <2> QED
    BY <2>1, <2>2, <2>3, <2>4, <2>5, <1>19 DEF TypeOK, DeleteNamespace, DGo, database, incus
<1>20. ASSUME NEW k \in K, DeleteFails(k) PROVE TypeOK'
  <2>1. dpc' \in [K -> DStep]
    BY <1>dpc, <1>20, IdleWorker, KubernetesAssumption
    DEF DeleteFails, Creating, Deleting, Upset, DGo, CActive, DActive, DStep
  <2>2. held' \in [K -> SUBSET K]
    BY <1>held, <1>20, IdleWorker
    DEF DeleteFails, Creating, Deleting, Upset, DGo, CActive, DActive
  <2>3. upsets' \in 0 .. MaxUpsets
    BY <1>upsets, <1>20, IdleWorker, KubernetesAssumption
    DEF DeleteFails, Creating, Deleting, Upset, DGo, CActive, DActive
  <2> QED
    BY <2>1, <2>2, <2>3, <1>20 DEF TypeOK, DeleteFails, Upset, DGo, database, kube, incus
<1>21. ASSUME NEW k \in K, WorkerReads(k) PROVE TypeOK'
  <2>1. worker' \in WorkerState
    BY <1>worker, <1>21, IdleWorker, KubernetesAssumption
    DEF WorkerReads, OWNED, WorkerState
  <2> QED
    BY <2>1, <1>21 DEF TypeOK, WorkerReads, database, jobs, kube, incus, history
<1>22. ASSUME WorkerSaves PROVE TypeOK'
  <2>1. status' \in [K -> Status]
    BY <1>status, <1>22, IdleWorker, KubernetesAssumption
    DEF WorkerSaves, Mark, Status, OWNED, BUSY
  <2>2. worker' \in WorkerState
    BY <1>worker, <1>status, <1>port, <1>vip, <1>cred, <1>secret, <1>trusted, <1>cpc,
       <1>dpc, <1>cancel, <1>held, <1>namespace, <1>object, <1>landing, <1>lb, <1>forward,
       <1>late, <1>revived, <1>died, <1>gaps, <1>upsets, <1>22, IdleWorker, KubernetesAssumption
    DEF WorkerSaves, Mark, WorkerState
  <2>3. revived' \subseteq K
    BY <1>revived, <1>22 DEF WorkerSaves, history
  <2> QED
    BY <2>1, <2>2, <2>3, <1>22 DEF TypeOK, WorkerSaves, Mark, jobs, kube, incus, history
<1>23. ASSUME WorkerForwards PROVE TypeOK'
  <2>1. worker' \in WorkerState
    BY <1>worker, <1>23, IdleWorker
    DEF WorkerForwards, PutForward, Deleting, Exists, DActive
  <2>2. forward' \subseteq K
    <3>1. worker.k \in K /\ worker.read \subseteq K
      BY <1>23, <1>worker DEF WorkerForwards, HeldApart, WorkerState
    <3>2. QED
      BY <1>23, <1>forward, <1>late, <3>1 DEF WorkerForwards, PutForward
  <2>3. late' \subseteq K
    <3>1. worker.k \in K /\ worker.read \subseteq K
      BY <1>23, <1>worker DEF WorkerForwards, HeldApart, WorkerState
    <3>2. QED
      BY <1>23, <1>forward, <1>late, <3>1 DEF WorkerForwards, PutForward
  <2> QED
    BY <2>1, <2>2, <2>3, <1>23 DEF TypeOK, WorkerForwards, PutForward, database, jobs, kube
<1>24. ASSUME WorkerFails PROVE TypeOK'
  <2>1. worker' \in WorkerState
    BY <1>worker, <1>24, IdleWorker DEF WorkerFails
  <2> QED
    BY <2>1, <1>24 DEF TypeOK, WorkerFails, database, jobs, kube, incus, history
<1>25. ASSUME NEW k \in K, Provision(k) PROVE TypeOK'
  <2>1. landing' \subseteq K
    BY <1>landing, <1>25, IdleWorker DEF Provision
  <2> QED
    BY <2>1, <1>25 DEF TypeOK, Provision, program, database, jobs
<1>26. ASSUME NEW k \in K, Land(k) PROVE TypeOK'
  <2>1. landing' \subseteq K
    BY <1>landing, <1>26, IdleWorker DEF Land
  <2>2. lb' \subseteq K
    BY <1>lb, <1>26, IdleWorker DEF Land
  <2> QED
    BY <2>1, <2>2, <1>26 DEF TypeOK, Land, program, database, jobs
<1>27. ASSUME NEW k \in K, Remove(k) PROVE TypeOK'
  <2>1. object' \in [K -> ObjectState]
    BY <1>object, <1>27, IdleWorker, KubernetesAssumption DEF Remove, ObjectState
  <2>2. lb' \subseteq K
    BY <1>lb, <1>27, IdleWorker DEF Remove
  <2> QED
    BY <2>1, <2>2, <1>27 DEF TypeOK, Remove, program, database, jobs
<1>28. CASE UNCHANGED vars
  BY <1>28 DEF TypeOK, vars, database, jobs, kube, incus, history, program
<1> QED
  BY <1>1, <1>2, <1>3, <1>4, <1>5, <1>6, <1>7, <1>8, <1>9, <1>10, <1>11, <1>12, <1>13,
     <1>14, <1>15, <1>16, <1>17, <1>18, <1>19, <1>20, <1>21, <1>22, <1>23, <1>24, <1>25, <1>26,
     <1>27, <1>28
  DEF Next, CreateJob, DeleteJob

(* Nothing is written for a cluster before its row. *)
LEMMA NotAskedForStep == TypeOK /\ HeldApart /\ NotAskedFor /\ [Next]_vars => NotAskedFor'
<1> SUFFICES ASSUME TypeOK, HeldApart, NotAskedFor, [Next]_vars PROVE NotAskedFor'
  OBVIOUS
<1>1. ASSUME NEW k \in K, RequestCreate(k) PROVE NotAskedFor'
  BY <1>1, IdleWorker
  DEF NotAskedFor, RequestCreate, Exists, kube, incus, history, HeldApart, TypeOK
<1>2. ASSUME NEW k \in K, RequestDelete(k) PROVE NotAskedFor'
  BY <1>2, IdleWorker
  DEF NotAskedFor, RequestDelete, Exists, Deleting, Creating, DActive, CActive, kube,
      incus, history, HeldApart, TypeOK
<1>3. ASSUME NEW k \in K, CreateCredentials(k) PROVE NotAskedFor'
  BY <1>3, IdleWorker DEF NotAskedFor, CreateCredentials, CGo, issue, history
<1>4. ASSUME NEW k \in K, CreateLeaks(k) PROVE NotAskedFor'
  BY <1>4, IdleWorker DEF NotAskedFor, CreateLeaks, Upset, Fails, CEnd
<1>5. ASSUME NEW k \in K, CreateCluster(k) PROVE NotAskedFor'
  BY <1>5, IdleWorker DEF NotAskedFor, CreateCluster, CGo, Mark, incus
<1>6. ASSUME NEW k \in K, CreateFindsLb(k) PROVE NotAskedFor'
  BY <1>6, IdleWorker
  DEF NotAskedFor, CreateFindsLb, CGo, database, kube, incus, history, HeldApart, TypeOK
<1>7. ASSUME NEW k \in K, CreateForward(k) PROVE NotAskedFor'
  BY <1>7, IdleWorker DEF NotAskedFor, CreateForward, CGo, PutForward, database, kube
<1>8. ASSUME NEW k \in K, CreateReady(k) PROVE NotAskedFor'
  BY <1>8, IdleWorker DEF NotAskedFor, CreateReady, Available, CEnd, Mark, kube, incus
<1>9. ASSUME NEW k \in K, CreateFails(k) PROVE NotAskedFor'
  BY <1>9, IdleWorker
  DEF NotAskedFor, CreateFails, Creating, Upset, Fails, CActive, CEnd, kube, incus
<1>10. ASSUME NEW k \in K, CreateDies(k) PROVE NotAskedFor'
  BY <1>10, IdleWorker
  DEF NotAskedFor, CreateDies, Creating, Upset, CEnd, CActive, database, kube, incus
<1>11. ASSUME NEW k \in K, DeleteBegin(k) PROVE NotAskedFor'
  BY <1>11, IdleWorker DEF NotAskedFor, DeleteBegin, DGo, kube, incus, history
<1>12. ASSUME NEW k \in K, DeleteCluster(k) PROVE NotAskedFor'
  BY <1>12, IdleWorker
  DEF NotAskedFor, DeleteCluster, Creating, DGo, CActive, database, incus, history
<1>13. ASSUME NEW k \in K, removeLeftovers(k) PROVE NotAskedFor'
  BY <1>13, IdleWorker
  DEF NotAskedFor, removeLeftovers, ReadForward, DGo, database, kube, history, HeldApart,
      TypeOK
<1>14. ASSUME NEW k \in K, removeForward(k) PROVE NotAskedFor'
  BY <1>14, IdleWorker DEF NotAskedFor, removeForward, DGo, PutForward, database, kube
<1>15. ASSUME NEW k \in K, revokeUnlessUsed(k) PROVE NotAskedFor'
  BY <1>15, IdleWorker DEF NotAskedFor, revokeUnlessUsed, DGo, others, Exists
<1>16. ASSUME NEW k \in K, RevokeFails(k) PROVE NotAskedFor'
  BY <1>16, IdleWorker DEF NotAskedFor, RevokeFails, others, Upset, DGo, Exists, database
<1>17. ASSUME NEW k \in K, deleteK8sRow(k) PROVE NotAskedFor'
  BY <1>17, IdleWorker
  DEF NotAskedFor, deleteK8sRow, DGo, others, Exists, kube, incus, history
<1>18. ASSUME NEW k \in K, DeleteNamespace(k) PROVE NotAskedFor'
  BY <1>18, IdleWorker DEF NotAskedFor, DeleteNamespace, DGo, Exists, database, incus
<1>19. ASSUME NEW k \in K, DeleteFails(k) PROVE NotAskedFor'
  BY <1>19, IdleWorker
  DEF NotAskedFor, DeleteFails, Creating, Deleting, Upset, DGo, CActive, DActive,
      database, kube, incus
<1>20. ASSUME NEW k \in K, WorkerReads(k) PROVE NotAskedFor'
  BY <1>20, IdleWorker
  DEF NotAskedFor, WorkerReads, OWNED, database, jobs, kube, incus, history
<1>21. ASSUME WorkerSaves PROVE NotAskedFor'
  <2>1. worker.k \in K /\ status[worker.k] # "none"
    BY <1>21 DEF WorkerSaves, HeldApart, NotAskedFor
  <2>2. \A k \in K : status'[k] = "none" => status[k] = "none"
    BY <1>21, <2>1 DEF WorkerSaves, Mark, TypeOK
  <2>3. worker'.read \subseteq forward /\ worker'.k \in {None, worker.k}
    BY <1>21, IdleWorker DEF WorkerSaves, Idle
  <2>4. UNCHANGED <<cpc, dpc, held, forward>>
    BY <1>21 DEF WorkerSaves, jobs, incus
  <2>5. QED
    BY <2>1, <2>2, <2>3, <2>4, KubernetesAssumption DEF NotAskedFor
<1>22. ASSUME WorkerForwards PROVE NotAskedFor'
  BY <1>22, IdleWorker, KubernetesAssumption
  DEF NotAskedFor, WorkerForwards, Idle, PutForward, Deleting, Exists, DActive, database,
      jobs, kube, HeldApart, TypeOK
<1>23. ASSUME WorkerFails PROVE NotAskedFor'
  BY <1>23, IdleWorker, KubernetesAssumption
  DEF NotAskedFor, WorkerFails, Idle, database, jobs, kube, incus, history, HeldApart,
      TypeOK
<1>24. CASE UNCHANGED <<status, cpc, dpc, held, worker, forward>>
  BY <1>24 DEF NotAskedFor
<1>25. QED
  BY <1>1, <1>2, <1>3, <1>4, <1>5, <1>6, <1>7, <1>8, <1>9, <1>10, <1>11, <1>12, <1>13,
     <1>14, <1>15, <1>16, <1>17, <1>18, <1>19, <1>20, <1>21, <1>22, <1>23, <1>24
  DEF Next, CreateJob, DeleteJob, vars, database, jobs, kube, incus, history, program,
      RequestScale, Provision, Land, Remove

(* The delete job waits for the create job, and a row is asked for once. *)
LEMMA JobsTakeTurnsStep == TypeOK /\ NotAskedFor /\ HeldApart /\ JobsTakeTurns /\ [Next]_vars => JobsTakeTurns'
<1> SUFFICES ASSUME TypeOK, NotAskedFor, HeldApart, JobsTakeTurns, [Next]_vars PROVE JobsTakeTurns'
  OBVIOUS
<1>1. ASSUME NEW k \in K, RequestCreate(k) PROVE JobsTakeTurns'
  BY <1>1, IdleWorker
  DEF JobsTakeTurns, Creating, Deleting, CActive, DActive, RequestCreate, Exists, kube,
      incus, history, NotAskedFor, HeldApart
<1>2. ASSUME NEW k \in K, RequestDelete(k) PROVE JobsTakeTurns'
  BY <1>2, IdleWorker
  DEF JobsTakeTurns, Creating, Deleting, CActive, DActive, RequestDelete, Exists, kube,
      incus, history, NotAskedFor, HeldApart, TypeOK
<1>3. ASSUME NEW k \in K, CreateCredentials(k) PROVE JobsTakeTurns'
  BY <1>3, IdleWorker
  DEF JobsTakeTurns, Creating, Deleting, CActive, DActive, CreateCredentials, CGo, issue,
      history
<1>4. ASSUME NEW k \in K, CreateLeaks(k) PROVE JobsTakeTurns'
  BY <1>4, IdleWorker
  DEF JobsTakeTurns, Creating, Deleting, CActive, DActive, CreateLeaks, Upset, Fails, CEnd
<1>5. ASSUME NEW k \in K, CreateCluster(k) PROVE JobsTakeTurns'
  BY <1>5, IdleWorker
  DEF JobsTakeTurns, Creating, Deleting, CActive, DActive, CreateCluster, CGo, Mark, incus
<1>6. ASSUME NEW k \in K, CreateFindsLb(k) PROVE JobsTakeTurns'
  BY <1>6, IdleWorker
  DEF JobsTakeTurns, Creating, Deleting, CActive, DActive, CreateFindsLb, CGo, database,
      kube, incus, history, NotAskedFor, HeldApart, TypeOK
<1>7. ASSUME NEW k \in K, CreateForward(k) PROVE JobsTakeTurns'
  BY <1>7, IdleWorker
  DEF JobsTakeTurns, Creating, Deleting, CActive, DActive, CreateForward, CGo, PutForward,
      database, kube
<1>8. ASSUME NEW k \in K, CreateReady(k) PROVE JobsTakeTurns'
  BY <1>8, IdleWorker
  DEF JobsTakeTurns, Creating, Deleting, CActive, DActive, CreateReady, Available, CEnd,
      Mark, kube, incus
<1>9. ASSUME NEW k \in K, CreateFails(k) PROVE JobsTakeTurns'
  BY <1>9, IdleWorker
  DEF JobsTakeTurns, Creating, Deleting, CActive, DActive, CreateFails, Upset, Fails,
      CEnd, kube, incus
<1>10. ASSUME NEW k \in K, CreateDies(k) PROVE JobsTakeTurns'
  BY <1>10, IdleWorker
  DEF JobsTakeTurns, Creating, Deleting, CActive, DActive, CreateDies, Upset, CEnd,
      database, kube, incus
<1>11. ASSUME NEW k \in K, DeleteBegin(k) PROVE JobsTakeTurns'
  BY <1>11, IdleWorker
  DEF JobsTakeTurns, Creating, Deleting, CActive, DActive, DeleteBegin, DGo, kube, incus,
      history
<1>12. ASSUME NEW k \in K, DeleteCluster(k) PROVE JobsTakeTurns'
  BY <1>12, IdleWorker
  DEF JobsTakeTurns, Creating, Deleting, CActive, DActive, DeleteCluster, DGo, database,
      incus, history
<1>13. ASSUME NEW k \in K, removeLeftovers(k) PROVE JobsTakeTurns'
  BY <1>13, IdleWorker
  DEF JobsTakeTurns, Creating, Deleting, CActive, DActive, removeLeftovers, ReadForward,
      DGo, database, kube, history, NotAskedFor, HeldApart, TypeOK
<1>14. ASSUME NEW k \in K, removeForward(k) PROVE JobsTakeTurns'
  BY <1>14, IdleWorker
  DEF JobsTakeTurns, Creating, Deleting, CActive, DActive, removeForward, DGo, PutForward,
      database, kube
<1>15. ASSUME NEW k \in K, revokeUnlessUsed(k) PROVE JobsTakeTurns'
  BY <1>15, IdleWorker
  DEF JobsTakeTurns, Creating, Deleting, CActive, DActive, revokeUnlessUsed, DGo, others,
      Exists
<1>16. ASSUME NEW k \in K, RevokeFails(k) PROVE JobsTakeTurns'
  BY <1>16, IdleWorker
  DEF JobsTakeTurns, Creating, Deleting, CActive, DActive, RevokeFails, others, Upset,
      DGo, Exists, database
<1>17. ASSUME NEW k \in K, deleteK8sRow(k) PROVE JobsTakeTurns'
  BY <1>17, IdleWorker
  DEF JobsTakeTurns, Creating, Deleting, CActive, DActive, deleteK8sRow, DGo, others,
      Exists, kube, incus, history, NotAskedFor, HeldApart, TypeOK
<1>18. ASSUME NEW k \in K, DeleteNamespace(k) PROVE JobsTakeTurns'
  BY <1>18, IdleWorker
  DEF JobsTakeTurns, Creating, Deleting, CActive, DActive, DeleteNamespace, DGo, Exists,
      database, incus
<1>19. ASSUME NEW k \in K, DeleteFails(k) PROVE JobsTakeTurns'
  BY <1>19, IdleWorker
  DEF JobsTakeTurns, Creating, Deleting, CActive, DActive, DeleteFails, Upset, DGo,
      database, kube, incus
<1>20. ASSUME WorkerSaves PROVE JobsTakeTurns'
  BY <1>20, IdleWorker
  DEF JobsTakeTurns, Creating, Deleting, CActive, DActive, WorkerSaves, Mark, jobs, kube,
      incus
<1>21. CASE UNCHANGED <<status, cpc, dpc>>
  BY <1>21 DEF JobsTakeTurns, Creating, Deleting, CActive, DActive
<1>22. QED
  BY <1>1, <1>2, <1>3, <1>4, <1>5, <1>6, <1>7, <1>8, <1>9, <1>10, <1>11, <1>12, <1>13,
     <1>14, <1>15, <1>16, <1>17, <1>18, <1>19, <1>20, <1>21
  DEF Next, CreateJob, DeleteJob, vars, database, jobs, kube, incus, history, program,
      RequestScale, WorkerReads, WorkerForwards, WorkerFails, Provision, Land, Remove,
      PutForward

(* A job that ends takes its status back, or the row with it. *)
LEMMA BusyHasJobStep == TypeOK /\ NotAskedFor /\ JobsTakeTurns /\ HeldApart /\ BusyHasJob /\ [Next]_vars => BusyHasJob'
<1> SUFFICES ASSUME TypeOK, NotAskedFor, JobsTakeTurns, HeldApart, BusyHasJob, [Next]_vars PROVE BusyHasJob'
  OBVIOUS
<1>1. ASSUME NEW k \in K, RequestCreate(k) PROVE BusyHasJob'
  BY <1>1, IdleWorker
  DEF BusyHasJob, Creating, Deleting, CActive, DActive, RequestCreate, Exists, kube,
      incus, history, NotAskedFor, JobsTakeTurns, HeldApart, TypeOK
<1>2. ASSUME NEW k \in K, RequestDelete(k) PROVE BusyHasJob'
  BY <1>2, IdleWorker
  DEF BusyHasJob, Creating, Deleting, CActive, DActive, RequestDelete, Exists, kube,
      incus, history, NotAskedFor, JobsTakeTurns, HeldApart, TypeOK
<1>3. ASSUME NEW k \in K, CreateCredentials(k) PROVE BusyHasJob'
  BY <1>3, IdleWorker
  DEF BusyHasJob, Creating, Deleting, CActive, DActive, CreateCredentials, CGo, issue,
      history
<1>4. ASSUME NEW k \in K, CreateLeaks(k) PROVE BusyHasJob'
  BY <1>4, IdleWorker
  DEF BusyHasJob, Creating, Deleting, CActive, DActive, CreateLeaks, Upset, Fails, CEnd,
      NotAskedFor, JobsTakeTurns, HeldApart, TypeOK
<1>5. ASSUME NEW k \in K, CreateCluster(k) PROVE BusyHasJob'
  BY <1>5, IdleWorker
  DEF BusyHasJob, Creating, Deleting, CActive, DActive, CreateCluster, CGo, Mark, incus, history
<1>6. ASSUME NEW k \in K, CreateFindsLb(k) PROVE BusyHasJob'
  BY <1>6, IdleWorker
  DEF BusyHasJob, Creating, Deleting, CActive, DActive, CreateFindsLb, CGo, database,
      kube, incus, history, NotAskedFor, JobsTakeTurns, HeldApart, TypeOK
<1>7. ASSUME NEW k \in K, CreateForward(k) PROVE BusyHasJob'
  BY <1>7, IdleWorker
  DEF BusyHasJob, Creating, Deleting, CActive, DActive, CreateForward, CGo, PutForward,
      database, kube
<1>8. ASSUME NEW k \in K, CreateReady(k) PROVE BusyHasJob'
  BY <1>8, IdleWorker
  DEF BusyHasJob, Creating, Deleting, CActive, DActive, CreateReady, Available, CEnd,
      Mark, kube, incus, NotAskedFor, JobsTakeTurns, HeldApart, TypeOK, history
<1>9. ASSUME NEW k \in K, CreateFails(k) PROVE BusyHasJob'
  BY <1>9, IdleWorker
  DEF BusyHasJob, Creating, Deleting, CActive, DActive, CreateFails, Upset, Fails, CEnd,
      kube, incus, NotAskedFor, JobsTakeTurns, HeldApart, TypeOK
<1>10. ASSUME NEW k \in K, CreateDies(k) PROVE BusyHasJob'
  BY <1>10, IdleWorker
  DEF BusyHasJob, Creating, Deleting, CActive, DActive, CreateDies, Upset, CEnd, database,
      kube, incus
<1>11. ASSUME NEW k \in K, DeleteBegin(k) PROVE BusyHasJob'
  BY <1>11, IdleWorker
  DEF BusyHasJob, Creating, Deleting, CActive, DActive, DeleteBegin, DGo, kube, incus,
      history
<1>12. ASSUME NEW k \in K, DeleteCluster(k) PROVE BusyHasJob'
  BY <1>12, IdleWorker
  DEF BusyHasJob, Creating, Deleting, CActive, DActive, DeleteCluster, DGo, database,
      incus, history
<1>13. ASSUME NEW k \in K, removeLeftovers(k) PROVE BusyHasJob'
  BY <1>13, IdleWorker
  DEF BusyHasJob, Creating, Deleting, CActive, DActive, removeLeftovers, ReadForward, DGo,
      database, kube, history, NotAskedFor, JobsTakeTurns, HeldApart, TypeOK
<1>14. ASSUME NEW k \in K, removeForward(k) PROVE BusyHasJob'
  BY <1>14, IdleWorker
  DEF BusyHasJob, Creating, Deleting, CActive, DActive, removeForward, DGo, PutForward,
      database, kube
<1>15. ASSUME NEW k \in K, revokeUnlessUsed(k) PROVE BusyHasJob'
  BY <1>15, IdleWorker
  DEF BusyHasJob, Creating, Deleting, CActive, DActive, revokeUnlessUsed, DGo, others,
      Exists
<1>16. ASSUME NEW k \in K, RevokeFails(k) PROVE BusyHasJob'
  BY <1>16, IdleWorker
  DEF BusyHasJob, Creating, Deleting, CActive, DActive, RevokeFails, others, Upset, DGo,
      Exists, database
<1>17. ASSUME NEW k \in K, deleteK8sRow(k) PROVE BusyHasJob'
  BY <1>17, IdleWorker
  DEF BusyHasJob, Creating, Deleting, CActive, DActive, deleteK8sRow, DGo, others, Exists,
      kube, incus, history, NotAskedFor, JobsTakeTurns, HeldApart, TypeOK
<1>18. ASSUME NEW k \in K, DeleteNamespace(k) PROVE BusyHasJob'
  BY <1>18, IdleWorker
  DEF BusyHasJob, Creating, Deleting, CActive, DActive, DeleteNamespace, DGo, Exists,
      database, incus, NotAskedFor, JobsTakeTurns, HeldApart
<1>19. ASSUME NEW k \in K, DeleteFails(k) PROVE BusyHasJob'
  BY <1>19, IdleWorker
  DEF BusyHasJob, Creating, Deleting, CActive, DActive, DeleteFails, Upset, DGo, database,
      kube, incus
<1>20. ASSUME WorkerSaves PROVE BusyHasJob'
  BY <1>20, IdleWorker
  DEF BusyHasJob, Creating, Deleting, CActive, DActive, WorkerSaves, Mark, jobs, kube,
      incus, history
<1>21. CASE UNCHANGED <<status, cpc, dpc, died>>
  BY <1>21 DEF BusyHasJob, Creating, Deleting, CActive, DActive
<1>22. QED
  BY <1>1, <1>2, <1>3, <1>4, <1>5, <1>6, <1>7, <1>8, <1>9, <1>10, <1>11, <1>12, <1>13,
     <1>14, <1>15, <1>16, <1>17, <1>18, <1>19, <1>20, <1>21
  DEF Next, CreateJob, DeleteJob, vars, database, jobs, kube, incus, history, program,
      RequestScale, WorkerReads, WorkerForwards, WorkerFails, Provision, Land, Remove,
      PutForward

(* Only a create, a scale request and a writer of the forward bring something back. *)
LEMMA LeftoversGoneStep == TypeOK /\ NotAskedFor /\ JobsTakeTurns /\ HeldApart /\ LeftoversGone /\ [Next]_vars => LeftoversGone'
<1> SUFFICES ASSUME TypeOK, NotAskedFor, JobsTakeTurns, HeldApart, LeftoversGone, [Next]_vars PROVE LeftoversGone'
  OBVIOUS
<1>1. ASSUME NEW k \in K, RequestCreate(k) PROVE LeftoversGone'
  BY <1>1, IdleWorker
  DEF LeftoversGone, Cleared, RequestCreate, Exists, kube, incus, history
<1>2. ASSUME NEW k \in K, RequestScale(k) PROVE LeftoversGone'
  <2>1. status[k] \notin {"deleting", "gone"}
    BY <1>2 DEF RequestScale, Exists, BUSY
  <2>2. Cleared(k) => k \in revived'
    BY <1>2, <2>1 DEF RequestScale, Cleared, Deleting, DActive
  <2>3. \A o \in K : o # k => object'[o] = object[o]
    BY <1>2 DEF RequestScale, TypeOK
  <2>4. revived \subseteq revived' /\ UNCHANGED <<status, dpc, hasty, lb, landing, late, forward>>
    BY <1>2 DEF RequestScale, database, jobs, incus
  <2>5. QED
    BY <2>2, <2>3, <2>4 DEF LeftoversGone, Cleared
<1>3. ASSUME NEW k \in K, RequestDelete(k) PROVE LeftoversGone'
  BY <1>3, IdleWorker
  DEF LeftoversGone, Cleared, RequestDelete, Exists, Deleting, Creating, DActive, CActive,
      kube, incus, history
<1>4. ASSUME NEW k \in K, CreateLeaks(k) PROVE LeftoversGone'
  BY <1>4, IdleWorker DEF LeftoversGone, Cleared, CreateLeaks, Upset, Fails, CEnd
<1>5. ASSUME NEW k \in K, CreateCluster(k) PROVE LeftoversGone'
  <2>1. ~Cleared(k)
    BY <1>5 DEF CreateCluster, Cleared, JobsTakeTurns, Creating, CActive
  <2>2. \A o \in K : o # k => object'[o] = object[o] /\ status'[o] = status[o]
    BY <1>5 DEF CreateCluster, Mark, TypeOK
  <2>3. status'[k] = "provisioning"
    BY <1>5, <2>1 DEF CreateCluster, Mark, Cleared, TypeOK
  <2>4. UNCHANGED <<revived, hasty, dpc, lb, landing, late, forward>>
    BY <1>5 DEF CreateCluster, incus, history
  <2>5. QED
    BY <2>1, <2>2, <2>3, <2>4 DEF LeftoversGone, Cleared
<1>6. ASSUME NEW k \in K, CreateForward(k) PROVE LeftoversGone'
  <2>1. ~Cleared(k)
    BY <1>6 DEF CreateForward, Cleared, JobsTakeTurns, Creating, CActive
  <2>2. UNCHANGED <<status, dpc, revived, hasty, object, lb, landing>>
    BY <1>6 DEF CreateForward, database, kube
  <2>3. \A o \in K : o \in forward' => o \in forward \cup {k} \cup late'
    BY <1>6 DEF CreateForward, PutForward
  <2>4. late \cap forward' \subseteq late'
    BY <1>6 DEF CreateForward, PutForward
  <2>5. QED
    BY <2>1, <2>2, <2>3, <2>4 DEF LeftoversGone, Cleared
<1>7. ASSUME NEW k \in K, CreateReady(k) PROVE LeftoversGone'
  BY <1>7, IdleWorker
  DEF LeftoversGone, Cleared, CreateReady, Available, CEnd, Mark, kube, incus, history
<1>8. ASSUME NEW k \in K, CreateFails(k) PROVE LeftoversGone'
  BY <1>8, IdleWorker
  DEF LeftoversGone, Cleared, CreateFails, Creating, Upset, Fails, CActive, CEnd, kube,
      incus
<1>9. ASSUME NEW k \in K, DeleteBegin(k) PROVE LeftoversGone'
  BY <1>9, IdleWorker DEF LeftoversGone, Cleared, DeleteBegin, DGo, kube, incus, history
<1>10. ASSUME NEW k \in K, DeleteCluster(k) PROVE LeftoversGone'
  <2>1. status[k] # "gone"
    BY <1>10 DEF DeleteCluster, JobsTakeTurns
  <2>2. dpc'[k] = "gone" /\ \A o \in K \ {k} : dpc'[o] = dpc[o] /\ object'[o] = object[o]
    BY <1>10 DEF DeleteCluster, DGo, TypeOK
  <2>3. revived' = revived \ {k} /\ UNCHANGED <<status, landing, lb, forward, late, hasty>>
    BY <1>10 DEF DeleteCluster, database, incus
  <2>4. QED
    BY <2>1, <2>2, <2>3 DEF LeftoversGone, Cleared
<1>11. ASSUME NEW k \in K, removeLeftovers(k) PROVE LeftoversGone'
  BY <1>11, IdleWorker
  DEF LeftoversGone, Cleared, removeLeftovers, ReadForward, DGo, database, kube, history,
      NotAskedFor, JobsTakeTurns, HeldApart, TypeOK
<1>12. ASSUME NEW k \in K, removeForward(k) PROVE LeftoversGone'
  BY <1>12, IdleWorker
  DEF LeftoversGone, Cleared, removeForward, DGo, PutForward, database, kube
<1>13. ASSUME NEW k \in K, revokeUnlessUsed(k) PROVE LeftoversGone'
  BY <1>13, IdleWorker DEF LeftoversGone, Cleared, revokeUnlessUsed, DGo, others, Exists
<1>14. ASSUME NEW k \in K, RevokeFails(k) PROVE LeftoversGone'
  BY <1>14, IdleWorker
  DEF LeftoversGone, Cleared, RevokeFails, others, Upset, DGo, Exists, database
<1>15. ASSUME NEW k \in K, deleteK8sRow(k) PROVE LeftoversGone'
  BY <1>15, IdleWorker
  DEF LeftoversGone, Cleared, deleteK8sRow, DGo, others, Exists, kube, incus, history
<1>16. ASSUME NEW k \in K, DeleteNamespace(k) PROVE LeftoversGone'
  BY <1>16, IdleWorker
  DEF LeftoversGone, Cleared, DeleteNamespace, DGo, Exists, database, incus
<1>17. ASSUME NEW k \in K, DeleteFails(k) PROVE LeftoversGone'
  BY <1>17, IdleWorker
  DEF LeftoversGone, Cleared, DeleteFails, Creating, Deleting, Upset, DGo, CActive,
      DActive, database, kube, incus, NotAskedFor, JobsTakeTurns, HeldApart
<1>18. ASSUME WorkerSaves PROVE LeftoversGone'
  BY <1>18, IdleWorker DEF LeftoversGone, Cleared, WorkerSaves, Mark, jobs, kube, incus, history
<1>19. ASSUME WorkerForwards PROVE LeftoversGone'
  BY <1>19, IdleWorker
  DEF LeftoversGone, Cleared, WorkerForwards, PutForward, Deleting, Exists, DActive,
      database, jobs, kube
<1>20. ASSUME NEW k \in K, Provision(k) PROVE LeftoversGone'
  BY <1>20, IdleWorker DEF LeftoversGone, Cleared, Provision, database, jobs, program
<1>21. ASSUME NEW k \in K, Land(k) PROVE LeftoversGone'
  BY <1>21, IdleWorker DEF LeftoversGone, Cleared, Land, database, jobs, program
<1>22. ASSUME NEW k \in K, Remove(k) PROVE LeftoversGone'
  BY <1>22, IdleWorker DEF LeftoversGone, Cleared, Remove, database, jobs, program
<1>23. CASE UNCHANGED <<status, dpc, object, landing, lb, forward, late, revived, hasty>>
  BY <1>23 DEF LeftoversGone, Cleared
<1>24. QED
  BY <1>1, <1>2, <1>3, <1>4, <1>5, <1>6, <1>7, <1>8, <1>9, <1>10, <1>11, <1>12, <1>13,
     <1>14, <1>15, <1>16, <1>17, <1>18, <1>19, <1>20, <1>21, <1>22, <1>23
  DEF Next, CreateJob, DeleteJob, vars, database, jobs, kube, incus, history, program,
      CreateCredentials, CreateFindsLb, CreateDies, WorkerReads, WorkerFails, CGo, issue,
      Upset, CEnd

(* The forward's ports are apart when it is read, and ports are not given again. *)
LEMMA HeldApartStep == TypeOK /\ NotAskedFor /\ JobsTakeTurns /\ PortsApart /\ HeldApart /\ [Next]_vars => HeldApart'
<1> SUFFICES ASSUME TypeOK, NotAskedFor, JobsTakeTurns, PortsApart, HeldApart, [Next]_vars PROVE HeldApart'
  OBVIOUS
<1>1. ASSUME NEW k \in K, RequestCreate(k) PROVE HeldApart'
  BY <1>1, KubernetesAssumption
  DEF HeldApart, Apart, RequestCreate, Exists, kube, incus, history, TypeOK, WorkerState,
      Status, CStep, DStep, ObjectState, NotAskedFor, JobsTakeTurns, PortsApart
<1>2. ASSUME NEW k \in K, RequestDelete(k) PROVE HeldApart'
  BY <1>2, IdleWorker
  DEF HeldApart, Apart, RequestDelete, Exists, Deleting, Creating, DActive, CActive, kube,
      incus, history, NotAskedFor, JobsTakeTurns, PortsApart, TypeOK
<1>3. ASSUME NEW k \in K, CreateCredentials(k) PROVE HeldApart'
  BY <1>3, IdleWorker DEF HeldApart, Apart, CreateCredentials, CGo, issue, history
<1>4. ASSUME NEW k \in K, CreateLeaks(k) PROVE HeldApart'
  BY <1>4, IdleWorker DEF HeldApart, Apart, CreateLeaks, Upset, Fails, CEnd
<1>5. ASSUME NEW k \in K, CreateCluster(k) PROVE HeldApart'
  BY <1>5, IdleWorker DEF HeldApart, Apart, CreateCluster, CGo, Mark, incus
<1>6. ASSUME NEW k \in K, CreateFindsLb(k) PROVE HeldApart'
  <2>1. UNCHANGED <<port, worker>>
    BY <1>6 DEF CreateFindsLb, database
  <2>2. held' = held \/ held' = [held EXCEPT ![k] = forward]
    BY <1>6 DEF CreateFindsLb
  <2>3. Apart(forward)
    BY DEF PortsApart, Apart
  <2>4. \A o \in K : o # k => held'[o] = held[o] /\ cpc'[o] = cpc[o]
    BY <1>6, <2>2 DEF CreateFindsLb, CGo, TypeOK
  <2>5. held'[k] = held[k] \/ held'[k] = forward
    BY <2>2 DEF TypeOK
  <2>6. cpc'[k] = "forward" => held'[k] = forward /\ \A o \in forward \ {k} : port[o] # port[k]
    BY <1>6 DEF CreateFindsLb, CGo, TypeOK, Clash
  <2>7. cpc'[k] = "forward" => Apart(held'[k] \cup {k})
    BY <2>3, <2>6 DEF Apart
  <2>8. QED
    BY <2>1, <2>3, <2>4, <2>5, <2>7 DEF HeldApart, Apart
<1>7. ASSUME NEW k \in K, CreateForward(k) PROVE HeldApart'
  BY <1>7, IdleWorker DEF HeldApart, Apart, CreateForward, CGo, PutForward, database, kube
<1>8. ASSUME NEW k \in K, CreateReady(k) PROVE HeldApart'
  BY <1>8, IdleWorker DEF HeldApart, Apart, CreateReady, Available, CEnd, Mark, kube, incus
<1>9. ASSUME NEW k \in K, CreateFails(k) PROVE HeldApart'
  BY <1>9, IdleWorker
  DEF HeldApart, Apart, CreateFails, Creating, Upset, Fails, CActive, CEnd, kube, incus
<1>10. ASSUME NEW k \in K, CreateDies(k) PROVE HeldApart'
  BY <1>10, IdleWorker
  DEF HeldApart, Apart, CreateDies, Creating, Upset, CEnd, CActive, database, kube, incus
<1>11. ASSUME NEW k \in K, removeLeftovers(k) PROVE HeldApart'
  BY <1>11, IdleWorker
  DEF HeldApart, Apart, removeLeftovers, ReadForward, DGo, database, kube, history,
      NotAskedFor, JobsTakeTurns, PortsApart, TypeOK
<1>12. ASSUME NEW k \in K, removeForward(k) PROVE HeldApart'
  BY <1>12, IdleWorker DEF HeldApart, Apart, removeForward, DGo, PutForward, database, kube
<1>13. ASSUME NEW k \in K, DeleteFails(k) PROVE HeldApart'
  BY <1>13, IdleWorker
  DEF HeldApart, Apart, DeleteFails, Creating, Deleting, Upset, DGo, CActive, DActive,
      database, kube, incus
<1>14. ASSUME NEW k \in K, WorkerReads(k) PROVE HeldApart'
  BY <1>14, IdleWorker
  DEF HeldApart, Apart, WorkerReads, OWNED, database, jobs, kube, incus, history
<1>15. ASSUME WorkerSaves PROVE HeldApart'
  <2>1. UNCHANGED <<port, held, cpc>>
    BY <1>15 DEF WorkerSaves, jobs
  <2>2. Apart(forward)
    BY DEF PortsApart, Apart
  <2>3. worker.k \in K
    BY <1>15 DEF WorkerSaves, HeldApart
  <2>4. CASE worker' = Idle
    BY <2>1, <2>4, IdleWorker DEF HeldApart, Apart
  <2>5. CASE /\ worker' = [Idle EXCEPT !.step = "write", !.k = worker.k, !.read = forward]
             /\ ~Clash(worker.k)
    <3>1. worker'.k = worker.k /\ worker'.read = forward /\ worker'.step = "write"
      BY <2>5 DEF Idle
    <3>2. Apart(forward \cup {worker.k})
      BY <2>2, <2>5 DEF Apart, Clash
    <3>3. QED
      BY <2>1, <2>2, <2>3, <3>1, <3>2 DEF HeldApart, Apart
  <2>6. QED
    BY <1>15, <2>4, <2>5 DEF WorkerSaves
<1>16. ASSUME WorkerForwards PROVE HeldApart'
  BY <1>16, IdleWorker
  DEF HeldApart, Apart, WorkerForwards, PutForward, Deleting, Exists, DActive, database,
      jobs, kube
<1>17. ASSUME WorkerFails PROVE HeldApart'
  BY <1>17, IdleWorker
  DEF HeldApart, Apart, WorkerFails, database, jobs, kube, incus, history
<1>18. CASE UNCHANGED <<port, cpc, held, worker>>
  BY <1>18 DEF HeldApart, Apart
<1>19. QED
  BY <1>1, <1>2, <1>3, <1>4, <1>5, <1>6, <1>7, <1>8, <1>9, <1>10, <1>11, <1>12, <1>13,
     <1>14, <1>15, <1>16, <1>17, <1>18
  DEF Next, CreateJob, DeleteJob, vars, database, jobs, kube, incus, history, program,
      RequestScale, DeleteBegin, DeleteCluster, revokeUnlessUsed, RevokeFails, deleteK8sRow,
      DeleteNamespace, Provision, Land, Remove, DGo, Upset

(* The forward is replaced by what was read of it and a port that clashes with none. *)
LEMMA PortsApartStep == TypeOK /\ NotAskedFor /\ HeldApart /\ PortsApart /\ [Next]_vars => PortsApart'
<1> SUFFICES ASSUME TypeOK, NotAskedFor, HeldApart, PortsApart, [Next]_vars PROVE PortsApart'
  OBVIOUS
<1>1. ASSUME NEW k \in K, RequestCreate(k) PROVE PortsApart'
  BY <1>1, IdleWorker
  DEF PortsApart, RequestCreate, Exists, kube, incus, history, NotAskedFor, HeldApart,
      TypeOK
<1>2. ASSUME NEW k \in K, CreateForward(k) PROVE PortsApart'
  <2>1. forward' = held[k] \cup {k} /\ port' = port
    BY <1>2 DEF CreateForward, PutForward, database
  <2>2. Apart(held[k] \cup {k})
    BY <1>2 DEF CreateForward, HeldApart
  <2>3. QED
    BY <2>1, <2>2 DEF PortsApart, Apart
<1>3. ASSUME NEW k \in K, removeForward(k) PROVE PortsApart'
  <2>1. forward' = held[k] \ {k} /\ port' = port
    BY <1>3 DEF removeForward, PutForward, database
  <2>2. Apart(held[k])
    BY DEF HeldApart
  <2>3. QED
    BY <2>1, <2>2 DEF PortsApart, Apart
<1>4. ASSUME WorkerForwards PROVE PortsApart'
  <2>1. port' = port /\ (forward' = forward \/ forward' = worker.read \cup {worker.k})
    BY <1>4 DEF WorkerForwards, PutForward, database
  <2>2. Apart(worker.read \cup {worker.k})
    BY <1>4 DEF WorkerForwards, HeldApart
  <2>3. QED
    BY <2>1, <2>2 DEF PortsApart, Apart
<1>5. CASE UNCHANGED <<port, forward>>
  BY <1>5 DEF PortsApart
<1>6. ASSUME NEW k \in K, RequestScale(k) \/ RequestDelete(k) \/ CreateCredentials(k) \/ CreateLeaks(k) \/ CreateCluster(k) \/ CreateFindsLb(k) \/ CreateReady(k) \/ CreateFails(k) PROVE UNCHANGED <<port, forward>>
  BY <1>6
  DEF RequestScale, RequestDelete, CreateCredentials, CreateLeaks, CreateCluster,
      CreateFindsLb, CreateReady, CreateFails, CGo, issue, Upset, Fails, CEnd, Mark, database,
      jobs, kube, incus, history
<1>7. ASSUME NEW k \in K, CreateDies(k) \/ DeleteBegin(k) \/ DeleteCluster(k) \/ removeLeftovers(k) \/ revokeUnlessUsed(k) \/ RevokeFails(k) \/ deleteK8sRow(k) \/ DeleteNamespace(k) PROVE UNCHANGED <<port, forward>>
  BY <1>7
  DEF CreateDies, DeleteBegin, DeleteCluster, removeLeftovers, revokeUnlessUsed,
      RevokeFails, deleteK8sRow, DeleteNamespace, Upset, CEnd, DGo, ReadForward, database,
      kube, incus, history
<1>8. ASSUME NEW k \in K, DeleteFails(k) \/ WorkerReads(k) \/ Provision(k) \/ Land(k) \/ Remove(k) PROVE UNCHANGED <<port, forward>>
  BY <1>8
  DEF DeleteFails, WorkerReads, Provision, Land, Remove, Upset, DGo, database, jobs, kube,
      incus, history, program
<1>9. (WorkerSaves \/ WorkerFails) => UNCHANGED <<port, forward>>
  BY DEF WorkerSaves, WorkerFails, Mark, database, jobs, kube, incus, history
<1>10. QED
  BY <1>1, <1>2, <1>3, <1>4, <1>5, <1>6, <1>7, <1>8, <1>9
  DEF Next, CreateJob, DeleteJob, vars, database, jobs, kube, incus, history, program

(* The last delete past the credentials revokes them, or notes that it could not. *)
LEMMA CredHasUserStep == TypeOK /\ NotAskedFor /\ JobsTakeTurns /\ CredHasUser /\ [Next]_vars => CredHasUser'
<1> SUFFICES ASSUME TypeOK, NotAskedFor, JobsTakeTurns, CredHasUser, [Next]_vars PROVE CredHasUser'
  OBVIOUS
<1>1. ASSUME NEW k \in K, RequestCreate(k) PROVE CredHasUser'
  BY <1>1, IdleWorker DEF CredHasUser, Exists, RequestCreate, kube, incus, history
<1>2. ASSUME NEW k \in K, RequestDelete(k) PROVE CredHasUser'
  BY <1>2, IdleWorker
  DEF CredHasUser, Exists, RequestDelete, Deleting, Creating, DActive, CActive, kube,
      incus, history
<1>3. ASSUME NEW k \in K, CreateCredentials(k) PROVE CredHasUser'
  <2>1. Exists(k) /\ dpc[k] # "row"
    BY <1>3 DEF CreateCredentials, Exists, NotAskedFor, JobsTakeTurns, Creating, CActive
  <2>2. UNCHANGED <<status, dpc>>
    BY <1>3 DEF CreateCredentials
  <2>3. QED
    BY <2>1, <2>2 DEF CredHasUser, Exists
<1>4. ASSUME NEW k \in K, CreateLeaks(k) PROVE CredHasUser'
  BY <1>4, IdleWorker DEF CredHasUser, Exists, CreateLeaks, Upset, Fails, CEnd
<1>5. ASSUME NEW k \in K, CreateCluster(k) PROVE CredHasUser'
  BY <1>5, IdleWorker DEF CredHasUser, Exists, CreateCluster, CGo, Mark, incus, history
<1>6. ASSUME NEW k \in K, CreateReady(k) PROVE CredHasUser'
  BY <1>6, IdleWorker
  DEF CredHasUser, Exists, CreateReady, Available, CEnd, Mark, kube, incus, history
<1>7. ASSUME NEW k \in K, CreateFails(k) PROVE CredHasUser'
  BY <1>7, IdleWorker
  DEF CredHasUser, Exists, CreateFails, Creating, Upset, Fails, CActive, CEnd, kube, incus
<1>8. ASSUME NEW k \in K, DeleteBegin(k) PROVE CredHasUser'
  BY <1>8, IdleWorker DEF CredHasUser, Exists, DeleteBegin, DGo, kube, incus, history
<1>9. ASSUME NEW k \in K, DeleteCluster(k) PROVE CredHasUser'
  BY <1>9, IdleWorker
  DEF CredHasUser, Exists, DeleteCluster, Creating, DGo, CActive, database, incus, history
<1>10. ASSUME NEW k \in K, removeLeftovers(k) PROVE CredHasUser'
  BY <1>10, IdleWorker
  DEF CredHasUser, Exists, removeLeftovers, ReadForward, DGo, database, kube, history,
      NotAskedFor, JobsTakeTurns, TypeOK
<1>11. ASSUME NEW k \in K, removeForward(k) PROVE CredHasUser'
  BY <1>11, IdleWorker
  DEF CredHasUser, Exists, removeForward, DGo, PutForward, database, kube
<1>12. ASSUME NEW k \in K, revokeUnlessUsed(k) PROVE CredHasUser'
  BY <1>12, IdleWorker DEF CredHasUser, Exists, revokeUnlessUsed, DGo, others
<1>13. ASSUME NEW k \in K, RevokeFails(k) PROVE CredHasUser'
  BY <1>13, IdleWorker DEF CredHasUser, Exists, RevokeFails, others, Upset, DGo, database
<1>14. ASSUME NEW k \in K, deleteK8sRow(k) PROVE CredHasUser'
  BY <1>14, IdleWorker
  DEF CredHasUser, Exists, deleteK8sRow, DGo, others, kube, incus, history
<1>15. ASSUME NEW k \in K, DeleteNamespace(k) PROVE CredHasUser'
  BY <1>15, IdleWorker DEF CredHasUser, Exists, DeleteNamespace, DGo, database, incus
<1>16. ASSUME NEW k \in K, DeleteFails(k) PROVE CredHasUser'
  BY <1>16, IdleWorker
  DEF CredHasUser, Exists, DeleteFails, Creating, Deleting, Upset, DGo, CActive, DActive,
      database, kube, incus
<1>17. ASSUME WorkerSaves PROVE CredHasUser'
  BY <1>17, IdleWorker DEF CredHasUser, Exists, WorkerSaves, Mark, jobs, kube, incus, history
<1>18. CASE UNCHANGED <<status, cred, dpc, gaps>>
  BY <1>18 DEF CredHasUser, Exists
<1>19. QED
  BY <1>1, <1>2, <1>3, <1>4, <1>5, <1>6, <1>7, <1>8, <1>9, <1>10, <1>11, <1>12, <1>13,
     <1>14, <1>15, <1>16, <1>17, <1>18
  DEF Next, CreateJob, DeleteJob, vars, database, jobs, kube, incus, history, program,
      RequestScale, CreateFindsLb, CreateForward, CreateDies, WorkerReads, WorkerForwards,
      WorkerFails, Provision, Land, Remove, CGo, PutForward, Upset, CEnd

(* The secret is trusted before it is recorded, and untrusted when both go. *)
LEMMA PairIsTrustedStep == TypeOK /\ CredHasUser /\ PairIsTrusted /\ [Next]_vars => PairIsTrusted'
<1> SUFFICES ASSUME TypeOK, CredHasUser, PairIsTrusted, [Next]_vars PROVE PairIsTrusted'
  OBVIOUS
<1>1. ASSUME NEW k \in K, CreateCredentials(k) PROVE PairIsTrusted'
  BY <1>1, IdleWorker DEF PairIsTrusted, CreateCredentials, CGo, issue, history
<1>2. ASSUME NEW k \in K, CreateLeaks(k) PROVE PairIsTrusted'
  BY <1>2, IdleWorker DEF PairIsTrusted, CreateLeaks, Upset, Fails, CEnd
<1>3. ASSUME NEW k \in K, revokeUnlessUsed(k) PROVE PairIsTrusted'
  BY <1>3, IdleWorker DEF PairIsTrusted, revokeUnlessUsed, DGo, others, Exists
<1>4. ASSUME NEW k \in K, RevokeFails(k) PROVE PairIsTrusted'
  BY <1>4, IdleWorker DEF PairIsTrusted, RevokeFails, others, Upset, DGo, Exists, database
<1>5. ASSUME NEW k \in K, DeleteNamespace(k) PROVE PairIsTrusted'
  BY <1>5, IdleWorker
  DEF PairIsTrusted, DeleteNamespace, DGo, Exists, database, incus, CredHasUser
<1>6. CASE UNCHANGED <<cred, secret, trusted, gaps>>
  BY <1>6 DEF PairIsTrusted
<1>7. ASSUME NEW k \in K, RequestCreate(k) \/ RequestScale(k) \/ RequestDelete(k) \/ CreateCluster(k) \/ CreateFindsLb(k) \/ CreateForward(k) \/ CreateReady(k) \/ CreateFails(k) PROVE UNCHANGED <<cred, secret, trusted, gaps>>
  BY <1>7
  DEF RequestCreate, RequestScale, RequestDelete, CreateCluster, CreateFindsLb,
      CreateForward, CreateReady, CreateFails, CGo, Mark, PutForward, CEnd, Upset, Fails,
      database, jobs, kube, incus, history
<1>8. ASSUME NEW k \in K, CreateDies(k) \/ DeleteBegin(k) \/ DeleteCluster(k) \/ removeLeftovers(k) \/ removeForward(k) \/ deleteK8sRow(k) \/ DeleteFails(k) \/ WorkerReads(k) PROVE UNCHANGED <<cred, secret, trusted, gaps>>
  BY <1>8
  DEF CreateDies, DeleteBegin, DeleteCluster, removeLeftovers, removeForward,
      deleteK8sRow, DeleteFails, WorkerReads, Upset, CEnd, DGo, ReadForward, PutForward,
      database, jobs, kube, incus, history
<1>9. ASSUME NEW k \in K, Provision(k) \/ Land(k) \/ Remove(k) PROVE UNCHANGED <<cred, secret, trusted, gaps>>
  BY <1>9 DEF Provision, Land, Remove, database, jobs, program
<1>10. (WorkerSaves \/ WorkerForwards \/ WorkerFails) => UNCHANGED <<cred, secret, trusted, gaps>>
  BY DEF WorkerSaves, WorkerForwards, WorkerFails, Mark, PutForward, database, jobs, kube,
     incus, history
<1>11. QED
  BY <1>1, <1>2, <1>3, <1>4, <1>5, <1>6, <1>7, <1>8, <1>9, <1>10
  DEF Next, CreateJob, DeleteJob, vars, database, jobs, kube, incus, history, program

(* The credentials are revoked only when no other row exists. *)
LEMMA UserHasPairStep == TypeOK /\ NotAskedFor /\ PairIsTrusted /\ UserHasPair /\ [Next]_vars => UserHasPair'
<1> SUFFICES ASSUME TypeOK, NotAskedFor, PairIsTrusted, UserHasPair, [Next]_vars PROVE UserHasPair'
  OBVIOUS
<1>1. ASSUME NEW k \in K, RequestCreate(k) PROVE UserHasPair'
  BY <1>1, IdleWorker
  DEF UserHasPair, Exists, RequestCreate, kube, incus, history, NotAskedFor, PairIsTrusted
<1>2. ASSUME NEW k \in K, RequestDelete(k) PROVE UserHasPair'
  BY <1>2, IdleWorker
  DEF UserHasPair, Exists, RequestDelete, Deleting, Creating, DActive, CActive, kube,
      incus, history, NotAskedFor, PairIsTrusted, TypeOK
<1>3. ASSUME NEW k \in K, CreateCredentials(k) PROVE UserHasPair'
  BY <1>3, IdleWorker, KubernetesAssumption
  DEF UserHasPair, Exists, CreateCredentials, CGo, issue, history, NotAskedFor,
      PairIsTrusted, TypeOK
<1>4. ASSUME NEW k \in K, CreateLeaks(k) PROVE UserHasPair'
  BY <1>4, IdleWorker DEF UserHasPair, Exists, CreateLeaks, Upset, Fails, CEnd
<1>5. ASSUME NEW k \in K, CreateCluster(k) PROVE UserHasPair'
  BY <1>5, IdleWorker
  DEF UserHasPair, Exists, CreateCluster, CGo, Mark, incus, NotAskedFor, PairIsTrusted, history
<1>6. ASSUME NEW k \in K, CreateFindsLb(k) PROVE UserHasPair'
  BY <1>6, IdleWorker
  DEF UserHasPair, Exists, CreateFindsLb, CGo, database, kube, incus, history,
      NotAskedFor, PairIsTrusted, TypeOK
<1>7. ASSUME NEW k \in K, CreateForward(k) PROVE UserHasPair'
  BY <1>7, IdleWorker
  DEF UserHasPair, Exists, CreateForward, CGo, PutForward, database, kube
<1>8. ASSUME NEW k \in K, CreateReady(k) PROVE UserHasPair'
  BY <1>8, IdleWorker
  DEF UserHasPair, Exists, CreateReady, Available, CEnd, Mark, kube, incus, NotAskedFor,
      PairIsTrusted, history
<1>9. ASSUME NEW k \in K, CreateFails(k) PROVE UserHasPair'
  BY <1>9, IdleWorker
  DEF UserHasPair, Exists, CreateFails, Creating, Upset, Fails, CActive, CEnd, kube,
      incus, NotAskedFor, PairIsTrusted
<1>10. ASSUME NEW k \in K, CreateDies(k) PROVE UserHasPair'
  BY <1>10, IdleWorker
  DEF UserHasPair, Exists, CreateDies, Creating, Upset, CEnd, CActive, database, kube,
      incus
<1>11. ASSUME NEW k \in K, DeleteBegin(k) PROVE UserHasPair'
  BY <1>11, IdleWorker DEF UserHasPair, Exists, DeleteBegin, DGo, kube, incus, history
<1>12. ASSUME NEW k \in K, DeleteCluster(k) PROVE UserHasPair'
  BY <1>12, IdleWorker
  DEF UserHasPair, Exists, DeleteCluster, Creating, DGo, CActive, database, incus, history
<1>13. ASSUME NEW k \in K, removeLeftovers(k) PROVE UserHasPair'
  BY <1>13, IdleWorker
  DEF UserHasPair, Exists, removeLeftovers, ReadForward, DGo, database, kube, history,
      NotAskedFor, PairIsTrusted, TypeOK
<1>14. ASSUME NEW k \in K, removeForward(k) PROVE UserHasPair'
  BY <1>14, IdleWorker
  DEF UserHasPair, Exists, removeForward, DGo, PutForward, database, kube
<1>15. ASSUME NEW k \in K, revokeUnlessUsed(k) PROVE UserHasPair'
  BY <1>15, IdleWorker DEF UserHasPair, Exists, revokeUnlessUsed, DGo, others
<1>16. ASSUME NEW k \in K, RevokeFails(k) PROVE UserHasPair'
  BY <1>16, IdleWorker DEF UserHasPair, Exists, RevokeFails, others, Upset, DGo, database
<1>17. ASSUME NEW k \in K, deleteK8sRow(k) PROVE UserHasPair'
  BY <1>17, IdleWorker
  DEF UserHasPair, Exists, deleteK8sRow, DGo, others, kube, incus, history
<1>18. ASSUME NEW k \in K, DeleteNamespace(k) PROVE UserHasPair'
  BY <1>18, IdleWorker DEF UserHasPair, Exists, DeleteNamespace, DGo, database, incus
<1>19. ASSUME NEW k \in K, DeleteFails(k) PROVE UserHasPair'
  BY <1>19, IdleWorker
  DEF UserHasPair, Exists, DeleteFails, Creating, Deleting, Upset, DGo, CActive, DActive,
      database, kube, incus
<1>20. ASSUME WorkerSaves PROVE UserHasPair'
  BY <1>20, IdleWorker
  DEF UserHasPair, Exists, WorkerSaves, Mark, Idle, jobs, kube, incus, NotAskedFor,
      PairIsTrusted, history
<1>21. CASE UNCHANGED <<status, cred, cpc, dpc, secret, gaps>>
  BY <1>21 DEF UserHasPair, Exists
<1>22. QED
  BY <1>1, <1>2, <1>3, <1>4, <1>5, <1>6, <1>7, <1>8, <1>9, <1>10, <1>11, <1>12, <1>13,
     <1>14, <1>15, <1>16, <1>17, <1>18, <1>19, <1>20, <1>21
  DEF Next, CreateJob, DeleteJob, vars, database, jobs, kube, incus, history, program,
      RequestScale, WorkerReads, WorkerForwards, WorkerFails, Provision, Land, Remove,
      PutForward

-----------------------------------------------------------------------------
(* Before the first request there is nothing anywhere: the invariant holds. *)
LEMMA InitIInv == Init => IInv
<1> SUFFICES ASSUME Init PROVE IInv
  OBVIOUS
<1>1. TypeOK
  <2>1. port \in [K -> 0 .. Ports] /\ upsets \in 0 .. MaxUpsets
    BY KubernetesAssumption DEF Init
  <2>2. status \in [K -> Status] /\ cpc \in [K -> CStep] /\ dpc \in [K -> DStep]
        /\ object \in [K -> ObjectState]
    BY DEF Init, Status, CStep, DStep, ObjectState
  <2>3. held \in [K -> SUBSET K] /\ worker \in WorkerState
    BY IdleWorker DEF Init
  <2>4. QED
    BY <2>1, <2>2, <2>3 DEF Init, TypeOK
<1>2. NotAskedFor
  BY KubernetesAssumption, IdleWorker DEF Init, NotAskedFor
<1>3. JobsTakeTurns /\ BusyHasJob /\ LeftoversGone
  BY DEF Init, JobsTakeTurns, BusyHasJob, LeftoversGone, Cleared, Creating, Deleting, CActive, DActive
<1>4. HeldApart /\ PortsApart
  BY IdleWorker DEF Init, HeldApart, PortsApart, Apart
<1>5. CredHasUser /\ PairIsTrusted /\ UserHasPair
  BY DEF Init, CredHasUser, PairIsTrusted, UserHasPair
<1>6. QED
  BY <1>1, <1>2, <1>3, <1>4, <1>5 DEF IInv

(* The inductive invariant of the managed clusters. *)
THEOREM Invariance == Spec => []IInv
<1>1. IInv /\ [Next]_vars => IInv'
  BY TypeStep, NotAskedForStep, JobsTakeTurnsStep, BusyHasJobStep, LeftoversGoneStep,
     HeldApartStep, PortsApartStep, CredHasUserStep, PairIsTrustedStep, UserHasPairStep
  DEF IInv
<1>2. QED
  BY InitIInv, <1>1, PTL DEF Spec

(* The variables keep their types: rows, jobs, worker, management cluster, Incus. *)
THEOREM TypeCorrect == Spec => []TypeOK
<1>1. IInv => TypeOK
  BY DEF IInv
<1>2. QED
  BY Invariance, <1>1, PTL

(* A deleted row leaves no Cluster, no load balancer and no port behind, but for the
   named races. *)
THEOREM NothingIsLeft == Spec => []NothingLeft
<1>1. IInv => NothingLeft
  <2> SUFFICES ASSUME IInv PROVE NothingLeft
    OBVIOUS
  <2>1. \A k \in K : status[k] = "gone" => dpc[k] # "forward"
    BY DEF IInv, JobsTakeTurns
  <2>2. QED
    BY <2>1 DEF IInv, LeftoversGone, Cleared, NothingLeft
<1>2. QED
  BY Invariance, <1>1, PTL

(* No two clusters are reached at the same port of the forward. *)
THEOREM PortsStayApart == Spec => []PortsApart
<1>1. IInv => PortsApart
  BY DEF IInv
<1>2. QED
  BY Invariance, <1>1, PTL

(* A cluster in use has trusted credentials, and none stay trusted after the last,
   but for the named failures. *)
THEOREM CredentialsFollowClusters == Spec => []CredentialsFollow
<1>1. IInv => CredentialsFollow
  <2> SUFFICES ASSUME IInv PROVE CredentialsFollow
    OBVIOUS
  <2>1. ASSUME NEW k \in K, cpc[k] \in {"apply", "lb", "forward", "plane", "done"},
               Exists(k), dpc[k] = "none"
        PROVE  \/ gaps \cap {"half", "swept"} # {}
               \/ secret \in trusted /\ (cred = secret \/ {"spared", "leaked"} \subseteq gaps)
    BY <2>1 DEF IInv, UserHasPair, PairIsTrusted
  <2>2. ASSUME \A k \in K : ~Exists(k) PROVE trusted = {} \/ gaps # {}
    <3> SUFFICES ASSUME gaps = {} PROVE trusted = {}
      OBVIOUS
    <3>1. cred = None
      BY <2>2 DEF IInv, CredHasUser
    <3>2. trusted \subseteq {cred} /\ trusted \subseteq K
      BY DEF IInv, PairIsTrusted, TypeOK
    <3>3. QED
      BY <3>1, <3>2, KubernetesAssumption
  <2>3. QED
    BY <2>1, <2>2 DEF CredentialsFollow
<1>2. QED
  BY Invariance, <1>1, PTL

(* A busy status has a job behind it, or one that died or failed. *)
THEOREM BusyRowsHaveJobs == Spec => []BusyHasJob
<1>1. IInv => BusyHasJob
  BY DEF IInv
<1>2. QED
  BY Invariance, <1>1, PTL
=============================================================================
