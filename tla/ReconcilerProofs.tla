-------------------------- MODULE ReconcilerProofs --------------------------
(***************************************************************************)
(* Proofs about Reconciler, for any number of replicas, members, changes,  *)
(* stores and failures.                                                    *)
(***************************************************************************)
EXTENDS Reconciler, TLAPS

(* Nothing is known before a pass. *)
LEMMA NoPassKnows ==
  /\ NoPass \in Pass /\ NoPass.gen = 0 /\ NoPass.store = NoStore /\ NoPass.left = {}
  /\ NoPass.ok /\ ~NoPass.scan /\ ~NoPass.dropped
BY DEF NoPass, Pass

(* The fields of a pass. *)
LEMMA PassFields ==
  ASSUME NEW v \in Pass
  PROVE  /\ v.gen \in Nat /\ v.store \in StoreId \cup {NoStore}
         /\ v.scan \in BOOLEAN /\ v.placed \in BOOLEAN /\ v.ok \in BOOLEAN /\ v.dropped \in BOOLEAN
         /\ v.want \subseteq Tuple /\ v.writes \subseteq Tuple /\ v.deletes \subseteq Tuple
         /\ v.left \subseteq Tuple
BY DEF Pass

(* Until a pass outlives its lease, no two replicas are in one. *)
LEMMA OnlyOne ==
  ASSUME Exclusive, late = 0, NEW p \in Proc, Busy(p), NEW q \in Proc, q # p
  PROVE  pc[q] = "idle"
BY DEF Exclusive, Busy

(* Incus's tuple is no grant. *)
LEMMA NoGrant == IncusTuple \notin Tuple
BY TupleAssumption DEF Tuple

(* A request leaves nothing uncovered: it counts, or the tenant is not placed. *)
LEMMA RequestCovers ==
  ASSUME TypeOK, NEW k \in {"tenant", "cluster"}, Request(k), NEW G, NEW g \in Nat,
         g <= generation, Covered(G, g)
  PROVE  \/ generation' > g \/ asking'["cluster"] > 0
         \/ /\ placed' \/ G = {}
            /\ G = desiredGrants(placed', members') \/ asking'["tenant"] > 0
<1>1. /\ UNCHANGED <<placed, members>> /\ asking[k] > 0
      /\ asking' = [asking EXCEPT ![k] = @ - 1]
      /\ generation' = IF k = "cluster" \/ placed THEN generation + 1 ELSE generation
  BY DEF Request, requestReconcile
<1>2. generation \in Nat /\ asking \in [{"tenant", "cluster"} -> Nat]
  BY DEF TypeOK
<1>3. CASE k = "cluster" \/ placed
  BY <1>1, <1>2, <1>3
<1>4. CASE k = "tenant" /\ ~placed
  <2>1. asking'["cluster"] = asking["cluster"] /\ generation' = generation
    BY <1>1, <1>2, <1>4
  <2>2. desiredGrants(placed', members') = {}
    BY <1>1, <1>4 DEF desiredGrants
  <2>3. QED
    BY <1>1, <1>4, <2>1, <2>2 DEF Covered
<1>5. QED
  BY <1>3, <1>4

(* Every action keeps the variables in their types. *)
LEMMA TypeStep == TypeOK /\ [Next]_vars => TypeOK'
<1> SUFFICES ASSUME TypeOK, [Next]_vars PROVE TypeOK'
  OBVIOUS
<1>placed. placed \in BOOLEAN
  BY DEF TypeOK
<1>members. members \subseteq Member
  BY DEF TypeOK
<1>asking. asking \in [{"tenant", "cluster"} -> Nat]
  BY DEF TypeOK
<1>generation. generation \in Nat
  BY DEF TypeOK
<1>reconciledGeneration. reconciledGeneration \in Nat
  BY DEF TypeOK
<1>status. status \in {"pending", "ready", "degraded", "error"}
  BY DEF TypeOK
<1>aged. aged \in BOOLEAN
  BY DEF TypeOK
<1>scanAged. scanAged \in BOOLEAN
  BY DEF TypeOK
<1>fgaStoreId. fgaStoreId \in StoreId \cup {NoStore}
  BY DEF TypeOK
<1>record. record \subseteq Tuple
  BY DEF TypeOK
<1>exists. exists \subseteq StoreId
  BY DEF TypeOK
<1>modelled. modelled \subseteq StoreId
  BY DEF TypeOK
<1>tuples. tuples \in [StoreId -> SUBSET (Tuple \cup {IncusTuple})]
  BY DEF TypeOK
<1>made. made \in 0..MaxStores
  BY DEF TypeOK
<1>configured. configured \in StoreId \cup {NoStore}
  BY DEF TypeOK
<1>leaseHolder. leaseHolder \in Proc \cup {NoProc}
  BY DEF TypeOK
<1>leaseLive. leaseLive \in BOOLEAN
  BY DEF TypeOK
<1>pc. pc \in [Proc -> Step]
  BY DEF TypeOK
<1>w. w \in [Proc -> Pass]
  BY DEF TypeOK
<1>changes. changes \in 0..MaxChanges
  BY DEF TypeOK
<1>faults. faults \in 0..MaxUpsets
  BY DEF TypeOK
<1>late. late \in 0..MaxUpsets
  BY DEF TypeOK
<1>1. ASSUME Place PROVE TypeOK'
  <2>1. placed' \in BOOLEAN
    BY <1>placed, <1>1, NoPassKnows DEF Place, Change
  <2>2. asking' \in [{"tenant", "cluster"} -> Nat]
    BY <1>asking, <1>1, NoPassKnows DEF Place, Change
  <2>3. changes' \in 0..MaxChanges
    BY <1>changes, <1>1, NoPassKnows, CountAssumption DEF Place, Change
  <2> QED
    BY <2>1, <2>2, <2>3, <1>1 DEF TypeOK, Place, Change, row, fga, lease
<1>2. ASSUME ReconcileNow PROVE TypeOK'
  <2>1. asking' \in [{"tenant", "cluster"} -> Nat]
    BY <1>asking, <1>2, NoPassKnows DEF ReconcileNow, Change
  <2>2. changes' \in 0..MaxChanges
    BY <1>changes, <1>2, NoPassKnows, CountAssumption DEF ReconcileNow, Change
  <2> QED
    BY <2>1, <2>2, <1>2 DEF TypeOK, ReconcileNow, Change, row, fga, lease
<1>3. ASSUME NEW m \in Member, SetMember(m) PROVE TypeOK'
  <2>1. members' \subseteq Member
    BY <1>members, <1>3, NoPassKnows DEF SetMember, Change
  <2>2. asking' \in [{"tenant", "cluster"} -> Nat]
    BY <1>asking, <1>3, NoPassKnows DEF SetMember, Change
  <2>3. changes' \in 0..MaxChanges
    BY <1>changes, <1>3, NoPassKnows, CountAssumption DEF SetMember, Change
  <2> QED
    BY <2>1, <2>2, <2>3, <1>3 DEF TypeOK, SetMember, Change, row, fga, lease
<1>4. ASSUME NEW k \in {"tenant", "cluster"}, Request(k) PROVE TypeOK'
  <2>1. asking' \in [{"tenant", "cluster"} -> Nat]
    BY <1>asking, <1>4, NoPassKnows DEF Request, requestReconcile
  <2>2. generation' \in Nat
    BY <1>generation, <1>4, NoPassKnows DEF Request, requestReconcile
  <2> QED
    BY <2>1, <2>2, <1>4 DEF TypeOK, Request, requestReconcile, fga, lease, bounds
<1>5. ASSUME NEW k \in {"tenant", "cluster"}, RequestLost(k) PROVE TypeOK'
  <2>1. asking' \in [{"tenant", "cluster"} -> Nat]
    BY <1>asking, <1>5, NoPassKnows DEF RequestLost, Fault, Upset
  <2>2. faults' \in 0..MaxUpsets
    BY <1>faults, <1>placed, <1>members, <1>asking, <1>generation, <1>reconciledGeneration,
       <1>status, <1>aged, <1>scanAged, <1>fgaStoreId, <1>record, <1>exists, <1>modelled,
       <1>tuples, <1>made, <1>configured, <1>leaseHolder, <1>leaseLive, <1>pc, <1>w,
       <1>changes, <1>late, <1>5, NoPassKnows, CountAssumption
    DEF RequestLost, Fault, Upset
  <2> QED
    BY <2>1, <2>2, <1>5 DEF TypeOK, RequestLost, Fault, row, fga, lease
<1>6. ASSUME NEW p \in Proc, Acquire(p) PROVE TypeOK'
  <2>1. leaseHolder' \in Proc \cup {NoProc}
    BY <1>leaseHolder, <1>6, NoPassKnows DEF Acquire, acquireLease, Goto, mayAcquire
  <2>2. leaseLive' \in BOOLEAN
    BY <1>leaseLive, <1>6, NoPassKnows DEF Acquire, acquireLease, Goto, mayAcquire
  <2>3. pc' \in [Proc -> Step]
    BY <1>pc, <1>6, NoPassKnows, CountAssumption
    DEF Acquire, acquireLease, Goto, mayAcquire, Step
  <2> QED
    BY <2>1, <2>2, <2>3, <1>6
    DEF TypeOK, Acquire, acquireLease, Goto, facts, row, fga, bounds
<1>7. ASSUME NEW p \in Proc, Select(p) PROVE TypeOK'
  <2>1. pc' \in [Proc -> Step]
    BY <1>pc, <1>7, NoPassKnows, CountAssumption DEF Select, Goto, End, Step
  <2>2. w' \in [Proc -> Pass]
    <3>1. w[p] \in Pass
      BY <1>w
    <3>2. [w[p] EXCEPT !.gen = generation] \in Pass
      BY <3>1, <1>generation DEF Pass
    <3>3. w' = [w EXCEPT ![p] = NoPass] \/ w' = [w EXCEPT ![p] = [w[p] EXCEPT !.gen = generation]]
      BY <1>7, <1>w DEF Select, End
    <3>4. QED
      BY <1>w, <3>3, <3>2, NoPassKnows
  <2> QED
    BY <2>1, <2>2, <1>7 DEF TypeOK, Select, Goto, End, facts, row, fga, lease, bounds
<1>8. ASSUME NEW p \in Proc, Renew(p) PROVE TypeOK'
  <2>1. leaseHolder' \in Proc \cup {NoProc}
    BY <1>leaseHolder, <1>8, ZenonT(30)
    DEF Renew, acquireLease, Goto, mayAcquire, End, facts, row, fga, lease, bounds
  <2>2. leaseLive' \in BOOLEAN
    BY <1>leaseLive, <1>8, ZenonT(30)
    DEF Renew, acquireLease, Goto, mayAcquire, End, facts, row, fga, lease, bounds
  <2>3. pc' \in [Proc -> Step]
    BY <1>pc, <1>8, NoPassKnows, CountAssumption
    DEF Renew, acquireLease, Goto, mayAcquire, End, Step
  <2>4. w' \in [Proc -> Pass]
    BY <1>w, <1>8, NoPassKnows DEF Renew, acquireLease, Goto, mayAcquire, End
  <2> QED
    BY <2>1, <2>2, <2>3, <2>4, <1>8
    DEF TypeOK, Renew, acquireLease, Goto, End, lease, facts, row, fga, bounds
<1>9. ASSUME NEW p \in Proc, Load(p) PROVE TypeOK'
  <2>1. pc' \in [Proc -> Step]
    BY <1>pc, <1>9, NoPassKnows, CountAssumption DEF Load, Goto, Step
  <2>2. w' \in [Proc -> Pass]
    <3>1. w[p] \in Pass
      BY <1>w
    <3>2. [w[p] EXCEPT !.store = fgaStoreId, !.scan = scanAged] \in Pass
      BY <3>1, <1>fgaStoreId, <1>scanAged DEF Pass
    <3>3. w' = [w EXCEPT ![p] = [w[p] EXCEPT !.store = fgaStoreId, !.scan = scanAged]]
      BY <1>9, <1>w DEF Load
    <3>4. QED
      BY <1>w, <3>3, <3>2, NoPassKnows
  <2> QED
    BY <2>1, <2>2, <1>9 DEF TypeOK, Load, Goto, facts, row, fga, lease, bounds
<1>10. ASSUME NEW p \in Proc, Open(p) PROVE TypeOK'
  <2>1. pc' \in [Proc -> Step]
    BY <1>pc, <1>10, NoPassKnows, CountAssumption DEF Open, Goto, Step
  <2>2. w' \in [Proc -> Pass]
    BY <1>w, <1>placed, <1>members, <1>asking, <1>generation, <1>reconciledGeneration,
       <1>status, <1>aged, <1>scanAged, <1>fgaStoreId, <1>record, <1>exists, <1>modelled,
       <1>tuples, <1>made, <1>configured, <1>leaseHolder, <1>leaseLive, <1>pc, <1>changes,
       <1>faults, <1>late, <1>10, NoPassKnows, CountAssumption
    DEF Open, Goto, Pass
  <2> QED
    BY <2>1, <2>2, <1>10 DEF TypeOK, Open, Goto, facts, row, fga, lease, bounds
<1>11. ASSUME NEW p \in Proc, Create(p) PROVE TypeOK'
  <2>1. exists' \subseteq StoreId
    <3>1. made + 1 \in StoreId
      BY <1>11, <1>made, CountAssumption DEF Create, StoreId
    <3>2. QED
      BY <1>11, <1>exists, <3>1 DEF Create
  <2>2. made' \in 0..MaxStores
    BY <1>made, <1>11, NoPassKnows, CountAssumption DEF Create, Goto
  <2>3. pc' \in [Proc -> Step]
    BY <1>pc, <1>11, NoPassKnows, CountAssumption DEF Create, Goto, Step
  <2>4. w' \in [Proc -> Pass]
    <3>0. made + 1 \in StoreId
      BY <1>11, <2>1 DEF Create
    <3>1. w[p] \in Pass
      BY <1>w
    <3>2. [w[p] EXCEPT !.store = made + 1] \in Pass
      BY <3>1, <3>0 DEF Pass
    <3>3. w' = [w EXCEPT ![p] = [w[p] EXCEPT !.store = made + 1]]
      BY <1>11, <1>w DEF Create
    <3>4. QED
      BY <1>w, <3>3, <3>2, NoPassKnows
  <2> QED
    BY <2>1, <2>2, <2>3, <2>4, <1>11 DEF TypeOK, Create, Goto, facts, row, lease, bounds
<1>12. ASSUME NEW p \in Proc, Adopt(p) PROVE TypeOK'
  <2>1. fgaStoreId' \in StoreId \cup {NoStore}
    BY <1>fgaStoreId, <1>placed, <1>members, <1>asking, <1>generation,
       <1>reconciledGeneration, <1>status, <1>aged, <1>scanAged, <1>record, <1>exists,
       <1>modelled, <1>tuples, <1>made, <1>configured, <1>leaseHolder, <1>leaseLive, <1>pc,
       <1>w, <1>changes, <1>faults, <1>late, <1>12, CountAssumption
    DEF Adopt, Goto, Step, Pass
  <2>2. record' \subseteq Tuple
    BY <1>record, <1>12, NoPassKnows DEF Adopt, Goto
  <2>3. pc' \in [Proc -> Step]
    BY <1>pc, <1>12, NoPassKnows, CountAssumption DEF Adopt, Goto, Step
  <2>4. w' \in [Proc -> Pass]
    <3>1. w[p] \in Pass
      BY <1>w
    <3>2. [w[p] EXCEPT !.scan = TRUE] \in Pass
      BY <3>1 DEF Pass
    <3>3. w' = [w EXCEPT ![p] = [w[p] EXCEPT !.scan = TRUE]]
      BY <1>12, <1>w DEF Adopt
    <3>4. QED
      BY <1>w, <3>3, <3>2, NoPassKnows
  <2> QED
    BY <2>1, <2>2, <2>3, <2>4, <1>12 DEF TypeOK, Adopt, Goto, facts, fga, lease, bounds
<1>13. ASSUME NEW p \in Proc, Config(p) PROVE TypeOK'
  <2>1. configured' \in StoreId \cup {NoStore}
    BY <1>configured, <1>placed, <1>members, <1>asking, <1>generation,
       <1>reconciledGeneration, <1>status, <1>aged, <1>scanAged, <1>fgaStoreId, <1>record,
       <1>exists, <1>modelled, <1>tuples, <1>made, <1>leaseHolder, <1>leaseLive, <1>pc, <1>w,
       <1>changes, <1>faults, <1>late, <1>13, CountAssumption
    DEF Config, Goto, Step, Pass
  <2>2. pc' \in [Proc -> Step]
    BY <1>pc, <1>13, NoPassKnows, CountAssumption DEF Config, Goto, Step
  <2> QED
    BY <2>1, <2>2, <1>13 DEF TypeOK, Config, Goto, facts, row, fga, lease, bounds
<1>14. ASSUME NEW p \in Proc, ReadPlacements(p) PROVE TypeOK'
  <2>1. pc' \in [Proc -> Step]
    BY <1>pc, <1>14, NoPassKnows, CountAssumption
    DEF ReadPlacements, Fault, Goto, Upset, Step
  <2>2. w' \in [Proc -> Pass]
    <3>1. w[p] \in Pass
      BY <1>w
    <3>2. [w[p] EXCEPT !.placed = placed] \in Pass
      BY <3>1, <1>placed DEF Pass
    <3>3. [w[p] EXCEPT !.placed = placed, !.ok = FALSE] \in Pass
      BY <3>1, <1>placed DEF Pass
    <3>4. w' = [w EXCEPT ![p] = [w[p] EXCEPT !.placed = placed]] \/ w' = [w EXCEPT ![p] = [w[p] EXCEPT !.placed = placed, !.ok = FALSE]]
      BY <1>14, <1>w DEF ReadPlacements
    <3>5. QED
      BY <1>w, <3>4, <3>2, <3>3, NoPassKnows
  <2>3. faults' \in 0..MaxUpsets
    BY <1>faults, <1>placed, <1>members, <1>asking, <1>generation, <1>reconciledGeneration,
       <1>status, <1>aged, <1>scanAged, <1>fgaStoreId, <1>record, <1>exists, <1>modelled,
       <1>tuples, <1>made, <1>configured, <1>leaseHolder, <1>leaseLive, <1>pc, <1>w,
       <1>changes, <1>late, <1>14, NoPassKnows, CountAssumption
    DEF ReadPlacements, Fault, Goto, Upset
  <2> QED
    BY <2>1, <2>2, <2>3, <1>14
    DEF TypeOK, ReadPlacements, Fault, Goto, facts, row, fga, lease
<1>15. ASSUME NEW p \in Proc, ReadMembers(p) PROVE TypeOK'
  <2>1. pc' \in [Proc -> Step]
    BY <1>pc, <1>15, NoPassKnows, CountAssumption DEF ReadMembers, Goto, Step
  <2>2. w' \in [Proc -> Pass]
    <3>0. desiredGrants(w[p].placed, members) \subseteq Tuple
      BY <1>members DEF desiredGrants, Tuple
    <3>1. w[p] \in Pass
      BY <1>w
    <3>2. [w[p] EXCEPT !.want = desiredGrants(w[p].placed, members)] \in Pass
      BY <3>1, <3>0 DEF Pass
    <3>3. w' = [w EXCEPT ![p] = [w[p] EXCEPT !.want = desiredGrants(w[p].placed, members)]]
      BY <1>15, <1>w DEF ReadMembers
    <3>4. QED
      BY <1>w, <3>3, <3>2, NoPassKnows
  <2> QED
    BY <2>1, <2>2, <1>15 DEF TypeOK, ReadMembers, Goto, facts, row, fga, lease, bounds
<1>16. ASSUME NEW p \in Proc, WaitForModel(p) PROVE TypeOK'
  <2>1. pc' \in [Proc -> Step]
    BY <1>pc, <1>16, NoPassKnows, CountAssumption DEF WaitForModel, Goto, Step
  <2>2. w' \in [Proc -> Pass]
    <3>1. w[p] \in Pass
      BY <1>w
    <3>2. [w[p] EXCEPT !.ok = FALSE] \in Pass
      BY <3>1 DEF Pass
    <3>3. w' = w \/ w' = [w EXCEPT ![p] = [w[p] EXCEPT !.ok = FALSE]]
      BY <1>16, <1>w DEF WaitForModel
    <3>4. QED
      BY <1>w, <3>3, <3>2, NoPassKnows
  <2>3. faults' \in 0..MaxUpsets
    BY <1>faults, <1>late, <1>16, CountAssumption DEF WaitForModel, Fault, Upset
  <2> QED
    BY <2>1, <2>2, <2>3, <1>16 DEF TypeOK, WaitForModel, facts, row, fga, lease
<1>17. ASSUME NEW p \in Proc, Diff(p) PROVE TypeOK'
  <2>1. pc' \in [Proc -> Step]
    BY <1>pc, <1>17, NoPassKnows, CountAssumption DEF Diff, Goto, Step
  <2>2. w' \in [Proc -> Pass]
    <3> DEFINE have == IF w[p].scan THEN readManaged(w[p].store) ELSE record
               wr == diffWrites(w[p].want, have)
               de == diffDeletes(w[p].want, have)
    <3>1. w[p] \in Pass
      BY <1>w
    <3>2. wr \subseteq Tuple /\ de \subseteq Tuple
      BY <3>1, PassFields DEF diffWrites, diffDeletes, isManaged
    <3>3. [w[p] EXCEPT !.writes = wr, !.deletes = de, !.left = wr \cup de] \in Pass
      BY <3>1, <3>2 DEF Pass
    <3>4. w' = [w EXCEPT ![p] = [w[p] EXCEPT !.writes = wr, !.deletes = de,
                                            !.left = wr \cup de]]
      BY <1>17, <1>w DEF Diff
    <3>5. QED
      BY <1>w, <3>3, <3>4
  <2> QED
    BY <2>1, <2>2, <1>17 DEF TypeOK, Diff, Goto, facts, row, fga, lease, bounds
<1>18. ASSUME NEW p \in Proc, NEW t \in w[p].left, WriteTuple(p, t) PROVE TypeOK'
  <2>1. tuples' \in [StoreId -> SUBSET (Tuple \cup {IncusTuple})]
    BY <1>tuples, <1>placed, <1>members, <1>asking, <1>generation, <1>reconciledGeneration,
       <1>status, <1>aged, <1>scanAged, <1>fgaStoreId, <1>record, <1>exists, <1>modelled,
       <1>made, <1>configured, <1>leaseHolder, <1>leaseLive, <1>pc, <1>w, <1>changes,
       <1>faults, <1>late, <1>18, CountAssumption
    DEF WriteTuple, Goto, Step, Pass
  <2>2. pc' \in [Proc -> Step]
    BY <1>pc, <1>18, NoPassKnows, CountAssumption DEF WriteTuple, Goto, Step
  <2>3. w' \in [Proc -> Pass]
    BY <1>w, <1>18, NoPassKnows, CountAssumption DEF WriteTuple, Goto, Pass
  <2> QED
    BY <2>1, <2>2, <2>3, <1>18 DEF TypeOK, WriteTuple, Goto, facts, row, lease, bounds
<1>drop. ASSUME NEW p \in Proc, NEW t \in w[p].left, WriteDropped(p, t) PROVE TypeOK'
  <2>1. pc' \in [Proc -> Step]
    BY <1>pc, <1>drop DEF WriteDropped, Goto, Step
  <2>2. w' \in [Proc -> Pass]
    <3>1. w[p] \in Pass
      BY <1>w
    <3>2. [w[p] EXCEPT !.left = w[p].left \ {t}, !.dropped = TRUE] \in Pass
      BY <3>1 DEF Pass
    <3>3. w' = [w EXCEPT ![p] = [w[p] EXCEPT !.left = w[p].left \ {t}, !.dropped = TRUE]]
      BY <1>drop, <1>w DEF WriteDropped
    <3>4. QED
      BY <1>w, <3>3, <3>2
  <2>3. faults' \in 0..MaxUpsets
    BY <1>faults, <1>late, <1>drop, CountAssumption DEF WriteDropped, Fault, Upset
  <2> QED
    BY <2>1, <2>2, <2>3, <1>drop DEF TypeOK, WriteDropped, facts, row, fga, lease
<1>19. ASSUME NEW p \in Proc, Record(p) PROVE TypeOK'
  <2>1. scanAged' \in BOOLEAN
    BY <1>scanAged, <1>19, NoPassKnows DEF Record, recordGrants, Goto
  <2>2. record' \subseteq Tuple
    BY <1>record, <1>placed, <1>members, <1>asking, <1>generation, <1>reconciledGeneration,
       <1>status, <1>aged, <1>scanAged, <1>fgaStoreId, <1>exists, <1>modelled, <1>tuples,
       <1>made, <1>configured, <1>leaseHolder, <1>leaseLive, <1>pc, <1>w, <1>changes,
       <1>faults, <1>late, <1>19, CountAssumption
    DEF Record, recordGrants, Goto, Step, Pass
  <2>3. pc' \in [Proc -> Step]
    BY <1>pc, <1>19, NoPassKnows, CountAssumption DEF Record, recordGrants, Goto, Step
  <2> QED
    BY <2>1, <2>2, <2>3, <1>19
    DEF TypeOK, Record, recordGrants, Goto, facts, fga, lease, bounds
<1>20. ASSUME NEW p \in Proc, Finish(p) PROVE TypeOK'
  <2>1. status' \in {"pending", "ready", "degraded", "error"}
    BY <1>status, <1>20, NoPassKnows DEF Finish, Goto
  <2>2. aged' \in BOOLEAN
    BY <1>aged, <1>20, NoPassKnows DEF Finish, Goto
  <2>3. pc' \in [Proc -> Step]
    BY <1>pc, <1>20, NoPassKnows, CountAssumption DEF Finish, Goto, Step
  <2> QED
    BY <2>1, <2>2, <2>3, <1>20 DEF TypeOK, Finish, Goto, facts, fga, lease, bounds
<1>21. ASSUME NEW p \in Proc, Mark(p) PROVE TypeOK'
  <2>1. reconciledGeneration' \in Nat
    BY <1>reconciledGeneration, <1>placed, <1>members, <1>asking, <1>generation, <1>status,
       <1>aged, <1>scanAged, <1>fgaStoreId, <1>record, <1>exists, <1>modelled, <1>tuples,
       <1>made, <1>configured, <1>leaseHolder, <1>leaseLive, <1>pc, <1>w, <1>changes,
       <1>faults, <1>late, <1>21, CountAssumption
    DEF Mark, End, NoPass, Step, Pass
  <2>2. pc' \in [Proc -> Step]
    BY <1>pc, <1>21, NoPassKnows, CountAssumption DEF Mark, End, Step
  <2>3. w' \in [Proc -> Pass]
    BY <1>w, <1>21, NoPassKnows DEF Mark, End
  <2> QED
    BY <2>1, <2>2, <2>3, <1>21 DEF TypeOK, Mark, End, facts, fga, lease, bounds
<1>22. ASSUME NEW p \in Proc, Throws(p) PROVE TypeOK'
  <2>1. pc' \in [Proc -> Step]
    BY <1>pc, <1>22, NoPassKnows, CountAssumption DEF Throws, Fault, Goto, Upset, Step
  <2>2. w' \in [Proc -> Pass]
    <3>1. w[p] \in Pass
      BY <1>w
    <3>2. [w[p] EXCEPT !.ok = FALSE] \in Pass
      BY <3>1 DEF Pass
    <3>3. w' = [w EXCEPT ![p] = [w[p] EXCEPT !.ok = FALSE]]
      BY <1>22, <1>w DEF Throws
    <3>4. QED
      BY <1>w, <3>3, <3>2, NoPassKnows
  <2>3. faults' \in 0..MaxUpsets
    BY <1>faults, <1>placed, <1>members, <1>asking, <1>generation, <1>reconciledGeneration,
       <1>status, <1>aged, <1>scanAged, <1>fgaStoreId, <1>record, <1>exists, <1>modelled,
       <1>tuples, <1>made, <1>configured, <1>leaseHolder, <1>leaseLive, <1>pc, <1>w,
       <1>changes, <1>late, <1>22, NoPassKnows, CountAssumption
    DEF Throws, Fault, Goto, Upset
  <2> QED
    BY <2>1, <2>2, <2>3, <1>22 DEF TypeOK, Throws, Fault, Goto, facts, row, fga, lease
<1>23. ASSUME NEW p \in Proc, Stop(p) PROVE TypeOK'
  <2>1. leaseHolder' \in Proc \cup {NoProc}
    BY <1>leaseHolder, <1>23, NoPassKnows DEF Stop, End
  <2>2. leaseLive' \in BOOLEAN
    BY <1>leaseLive, <1>23, NoPassKnows DEF Stop, End
  <2>3. pc' \in [Proc -> Step]
    BY <1>pc, <1>23, NoPassKnows, CountAssumption DEF Stop, End, Step
  <2>4. w' \in [Proc -> Pass]
    BY <1>w, <1>23, NoPassKnows DEF Stop, End
  <2>5. changes' \in 0..MaxChanges
    BY <1>changes, <1>23, NoPassKnows, CountAssumption DEF Stop, End
  <2> QED
    BY <2>1, <2>2, <2>3, <2>4, <2>5, <1>23 DEF TypeOK, Stop, End, facts, row, fga
<1>24. ASSUME NEW p \in Proc, Unreachable(p) PROVE TypeOK'
  <2>1. status' \in {"pending", "ready", "degraded", "error"}
    BY <1>status, <1>24, NoPassKnows DEF Unreachable, Fault, Goto, Upset
  <2>2. aged' \in BOOLEAN
    BY <1>aged, <1>24, NoPassKnows DEF Unreachable, Fault, Goto, Upset
  <2>3. pc' \in [Proc -> Step]
    BY <1>pc, <1>24, NoPassKnows, CountAssumption DEF Unreachable, Fault, Goto, Upset, Step
  <2>4. faults' \in 0..MaxUpsets
    BY <1>faults, <1>placed, <1>members, <1>asking, <1>generation, <1>reconciledGeneration,
       <1>status, <1>aged, <1>scanAged, <1>fgaStoreId, <1>record, <1>exists, <1>modelled,
       <1>tuples, <1>made, <1>configured, <1>leaseHolder, <1>leaseLive, <1>pc, <1>w,
       <1>changes, <1>late, <1>24, NoPassKnows, CountAssumption
    DEF Unreachable, Fault, Goto, Upset
  <2> QED
    BY <2>1, <2>2, <2>3, <2>4, <1>24 DEF TypeOK, Unreachable, Fault, Goto, facts, fga, lease
<1>25. ASSUME NEW p \in Proc, RecordUnanswered(p) PROVE TypeOK'
  <2>1. scanAged' \in BOOLEAN
    BY <1>scanAged, <1>25, NoPassKnows
    DEF RecordUnanswered, Fault, recordGrants, Goto, Upset
  <2>2. record' \subseteq Tuple
    BY <1>record, <1>placed, <1>members, <1>asking, <1>generation, <1>reconciledGeneration,
       <1>status, <1>aged, <1>scanAged, <1>fgaStoreId, <1>exists, <1>modelled, <1>tuples,
       <1>made, <1>configured, <1>leaseHolder, <1>leaseLive, <1>pc, <1>w, <1>changes,
       <1>faults, <1>late, <1>25, CountAssumption
    DEF RecordUnanswered, Fault, recordGrants, Goto, Upset, Step, Pass
  <2>3. pc' \in [Proc -> Step]
    BY <1>pc, <1>25, NoPassKnows, CountAssumption
    DEF RecordUnanswered, Fault, recordGrants, Goto, Upset, Step
  <2>4. w' \in [Proc -> Pass]
    <3>1. w[p] \in Pass
      BY <1>w
    <3>2. [w[p] EXCEPT !.ok = FALSE] \in Pass
      BY <3>1 DEF Pass
    <3>3. w' = [w EXCEPT ![p] = [w[p] EXCEPT !.ok = FALSE]]
      BY <1>25, <1>w DEF RecordUnanswered
    <3>4. QED
      BY <1>w, <3>3, <3>2, NoPassKnows
  <2>5. faults' \in 0..MaxUpsets
    BY <1>faults, <1>placed, <1>members, <1>asking, <1>generation, <1>reconciledGeneration,
       <1>status, <1>aged, <1>scanAged, <1>fgaStoreId, <1>record, <1>exists, <1>modelled,
       <1>tuples, <1>made, <1>configured, <1>leaseHolder, <1>leaseLive, <1>pc, <1>w,
       <1>changes, <1>late, <1>25, NoPassKnows, CountAssumption
    DEF RecordUnanswered, Fault, recordGrants, Goto, Upset
  <2> QED
    BY <2>1, <2>2, <2>3, <2>4, <2>5, <1>25
    DEF TypeOK, RecordUnanswered, Fault, recordGrants, Goto, facts, fga, lease
<1>26. ASSUME NEW p \in Proc, PassThrows(p) PROVE TypeOK'
  <2>1. pc' \in [Proc -> Step]
    BY <1>pc, <1>26, NoPassKnows, CountAssumption DEF PassThrows, Fault, Goto, Upset, Step
  <2>2. faults' \in 0..MaxUpsets
    BY <1>faults, <1>placed, <1>members, <1>asking, <1>generation, <1>reconciledGeneration,
       <1>status, <1>aged, <1>scanAged, <1>fgaStoreId, <1>record, <1>exists, <1>modelled,
       <1>tuples, <1>made, <1>configured, <1>leaseHolder, <1>leaseLive, <1>pc, <1>w,
       <1>changes, <1>late, <1>26, NoPassKnows, CountAssumption
    DEF PassThrows, Fault, Goto, Upset
  <2> QED
    BY <2>1, <2>2, <1>26 DEF TypeOK, PassThrows, Fault, Goto, facts, row, fga, lease
<1>27. ASSUME NEW p \in Proc, Crash(p) PROVE TypeOK'
  <2>1. pc' \in [Proc -> Step]
    BY <1>pc, <1>27, NoPassKnows, CountAssumption DEF Crash, Fault, End, Upset, Step
  <2>2. w' \in [Proc -> Pass]
    BY <1>w, <1>27, NoPassKnows DEF Crash, Fault, End, Upset
  <2>3. faults' \in 0..MaxUpsets
    BY <1>faults, <1>placed, <1>members, <1>asking, <1>generation, <1>reconciledGeneration,
       <1>status, <1>aged, <1>scanAged, <1>fgaStoreId, <1>record, <1>exists, <1>modelled,
       <1>tuples, <1>made, <1>configured, <1>leaseHolder, <1>leaseLive, <1>pc, <1>w,
       <1>changes, <1>late, <1>27, NoPassKnows, CountAssumption
    DEF Crash, Fault, End, Upset
  <2> QED
    BY <2>1, <2>2, <2>3, <1>27 DEF TypeOK, Crash, Fault, End, facts, row, fga, lease
<1>28. ASSUME NEW s \in StoreId, StoreLost(s) PROVE TypeOK'
  <2>1. exists' \subseteq StoreId
    BY <1>exists, <1>28, NoPassKnows DEF StoreLost
  <2>2. modelled' \subseteq StoreId
    BY <1>modelled, <1>28, NoPassKnows DEF StoreLost
  <2>3. tuples' \in [StoreId -> SUBSET (Tuple \cup {IncusTuple})]
    BY <1>tuples, <1>28, NoPassKnows DEF StoreLost
  <2> QED
    BY <2>1, <2>2, <2>3, <1>28 DEF TypeOK, StoreLost, facts, row, lease, bounds
<1>29. ASSUME LeaseExpires PROVE TypeOK'
  <2>1. leaseLive' \in BOOLEAN
    BY <1>leaseLive, <1>29, NoPassKnows DEF LeaseExpires, Upset
  <2>2. late' \in 0..MaxUpsets
    BY <1>late, <1>placed, <1>members, <1>asking, <1>generation, <1>reconciledGeneration,
       <1>status, <1>aged, <1>scanAged, <1>fgaStoreId, <1>record, <1>exists, <1>modelled,
       <1>tuples, <1>made, <1>configured, <1>leaseHolder, <1>leaseLive, <1>pc, <1>w,
       <1>changes, <1>faults, <1>29, NoPassKnows, CountAssumption
    DEF LeaseExpires, Upset
  <2> QED
    BY <2>1, <2>2, <1>29 DEF TypeOK, LeaseExpires, facts, row, fga
<1>30. ASSUME Age PROVE TypeOK'
  <2>1. aged' \in BOOLEAN
    BY <1>aged, <1>30, NoPassKnows DEF Age
  <2> QED
    BY <2>1, <1>30 DEF TypeOK, Age, facts, fga, lease, bounds
<1>31. ASSUME ScanAge PROVE TypeOK'
  <2>1. scanAged' \in BOOLEAN
    BY <1>scanAged, <1>31, NoPassKnows DEF ScanAge
  <2> QED
    BY <2>1, <1>31 DEF TypeOK, ScanAge, facts, fga, lease, bounds
<1>32. ASSUME UploadModel PROVE TypeOK'
  <2>1. modelled' \subseteq StoreId
    BY <1>modelled, <1>placed, <1>members, <1>asking, <1>generation,
       <1>reconciledGeneration, <1>status, <1>aged, <1>scanAged, <1>fgaStoreId, <1>record,
       <1>exists, <1>tuples, <1>made, <1>configured, <1>leaseHolder, <1>leaseLive, <1>pc, <1>w,
       <1>changes, <1>faults, <1>late, <1>32
    DEF UploadModel
  <2>2. tuples' \in [StoreId -> SUBSET (Tuple \cup {IncusTuple})]
    BY <1>tuples, <1>32, NoPassKnows DEF UploadModel
  <2> QED
    BY <2>1, <2>2, <1>32 DEF TypeOK, UploadModel, facts, row, lease, bounds
<1>33. CASE UNCHANGED vars
  BY <1>33 DEF TypeOK, vars, facts, row, fga, lease, bounds
<1> QED
  BY <1>1, <1>2, <1>3, <1>4, <1>5, <1>6, <1>7, <1>8, <1>9, <1>10, <1>11, <1>12, <1>13,
     <1>14, <1>15, <1>16, <1>17, <1>18, <1>19, <1>20, <1>21, <1>22, <1>23, <1>24, <1>25, <1>26,
     <1>27, <1>28, <1>29, <1>30, <1>31, <1>32, <1>33, <1>drop
  DEF Next, WorkerStep

(* Whoever is in a pass has the lease, and it does not expire on it. *)
LEMMA ExclusiveStep == TypeOK /\ Exclusive /\ [Next]_vars => Exclusive'
<1> SUFFICES ASSUME TypeOK, Exclusive, [Next]_vars PROVE Exclusive'
  OBVIOUS
<1>1. ASSUME NEW p \in Proc, Acquire(p) PROVE Exclusive'
  BY <1>1, NoPassKnows, TupleAssumption, WorkerAssumption, CountAssumption
  DEF Exclusive, Busy, Acquire, acquireLease, Goto, mayAcquire, facts, row, fga, bounds,
      TypeOK
<1>2. ASSUME NEW p \in Proc, Select(p) PROVE Exclusive'
  BY <1>2, NoPassKnows
  DEF Exclusive, Busy, Select, Goto, End, NoPass, facts, row, fga, lease, bounds, TypeOK
<1>3. ASSUME NEW p \in Proc, Renew(p) PROVE Exclusive'
  BY <1>3, NoPassKnows
  DEF Exclusive, Busy, Renew, acquireLease, Goto, mayAcquire, End, NoPass, facts, row,
      fga, lease, bounds, TypeOK
<1>4. ASSUME NEW p \in Proc, Load(p) PROVE Exclusive'
  BY <1>4, NoPassKnows DEF Exclusive, Busy, Load, Goto, facts, row, fga, lease, bounds
<1>5. ASSUME NEW p \in Proc, Open(p) PROVE Exclusive'
  BY <1>5, NoPassKnows
  DEF Exclusive, Busy, Open, Goto, facts, row, fga, lease, bounds, TypeOK
<1>6. ASSUME NEW p \in Proc, Create(p) PROVE Exclusive'
  BY <1>6, NoPassKnows DEF Exclusive, Busy, Create, Goto, facts, row, lease, bounds
<1>7. ASSUME NEW p \in Proc, Adopt(p) PROVE Exclusive'
  BY <1>7, NoPassKnows DEF Exclusive, Busy, Adopt, Goto, facts, fga, lease, bounds
<1>8. ASSUME NEW p \in Proc, Config(p) PROVE Exclusive'
  BY <1>8, NoPassKnows DEF Exclusive, Busy, Config, Goto, facts, row, fga, lease, bounds
<1>9. ASSUME NEW p \in Proc, ReadPlacements(p) PROVE Exclusive'
  BY <1>9, NoPassKnows
  DEF Exclusive, Busy, ReadPlacements, Fault, Goto, Upset, facts, row, fga, lease
<1>10. ASSUME NEW p \in Proc, ReadMembers(p) PROVE Exclusive'
  BY <1>10, NoPassKnows
  DEF Exclusive, Busy, ReadMembers, Goto, facts, row, fga, lease, bounds
<1>11. ASSUME NEW p \in Proc, WaitForModel(p) PROVE Exclusive'
  BY <1>11, NoPassKnows
  DEF Exclusive, Busy, WaitForModel, Goto, facts, row, fga, lease, bounds, Fault, Upset, TypeOK
<1>12. ASSUME NEW p \in Proc, Diff(p) PROVE Exclusive'
  BY <1>12, NoPassKnows DEF Exclusive, Busy, Diff, Goto, facts, row, fga, lease, bounds
<1>13. ASSUME NEW p \in Proc, NEW t \in w[p].left, WriteTuple(p, t) PROVE Exclusive'
  BY <1>13, NoPassKnows DEF Exclusive, Busy, WriteTuple, Goto, facts, row, lease, bounds
<1>drop. ASSUME NEW p \in Proc, NEW t \in w[p].left, WriteDropped(p, t) PROVE Exclusive'
  BY <1>drop, NoPassKnows
  DEF Exclusive, WriteDropped, Goto, Fault, Upset, facts, row, fga, lease, TypeOK, Busy
<1>14. ASSUME NEW p \in Proc, Record(p) PROVE Exclusive'
  BY <1>14, NoPassKnows
  DEF Exclusive, Busy, Record, recordGrants, Goto, facts, fga, lease, bounds
<1>15. ASSUME NEW p \in Proc, Finish(p) PROVE Exclusive'
  BY <1>15, NoPassKnows DEF Exclusive, Busy, Finish, Goto, facts, fga, lease, bounds
<1>16. ASSUME NEW p \in Proc, Mark(p) PROVE Exclusive'
  BY <1>16, NoPassKnows DEF Exclusive, Busy, Mark, End, facts, fga, lease, bounds
<1>17. ASSUME NEW p \in Proc, Throws(p) PROVE Exclusive'
  BY <1>17, NoPassKnows
  DEF Exclusive, Busy, Throws, Fault, Goto, Upset, facts, row, fga, lease
<1>18. ASSUME NEW p \in Proc, Stop(p) PROVE Exclusive'
  BY <1>18, NoPassKnows DEF Exclusive, Busy, Stop, End, NoPass, facts, row, fga, TypeOK
<1>19. ASSUME NEW p \in Proc, Unreachable(p) PROVE Exclusive'
  BY <1>19, NoPassKnows
  DEF Exclusive, Busy, Unreachable, Fault, Goto, Upset, facts, fga, lease
<1>20. ASSUME NEW p \in Proc, RecordUnanswered(p) PROVE Exclusive'
  BY <1>20, NoPassKnows
  DEF Exclusive, Busy, RecordUnanswered, Fault, recordGrants, Goto, Upset, facts, fga,
      lease
<1>21. ASSUME NEW p \in Proc, PassThrows(p) PROVE Exclusive'
  BY <1>21, NoPassKnows
  DEF Exclusive, Busy, PassThrows, Fault, Goto, Upset, facts, row, fga, lease
<1>22. ASSUME NEW p \in Proc, Crash(p) PROVE Exclusive'
  BY <1>22, NoPassKnows
  DEF Exclusive, Busy, Crash, Fault, End, Upset, facts, row, fga, lease
<1>23. ASSUME LeaseExpires PROVE Exclusive'
  BY <1>23, NoPassKnows DEF Exclusive, Busy, LeaseExpires, Upset, facts, row, fga, TypeOK
<1>24. CASE UNCHANGED <<leaseHolder, leaseLive, pc, late>>
  BY <1>24 DEF Exclusive, Busy
<1>25. QED
  BY <1>drop, <1>1, <1>2, <1>3, <1>4, <1>5, <1>6, <1>7, <1>8, <1>9, <1>10, <1>11, <1>12, <1>13,
     <1>14, <1>15, <1>16, <1>17, <1>18, <1>19, <1>20, <1>21, <1>22, <1>23, <1>24
  DEF Next, WorkerStep, vars, facts, row, fga, lease, bounds, Place, ReconcileNow,
      SetMember, Request, RequestLost, StoreLost, Age, ScanAge, UploadModel, Change,
      requestReconcile, Fault

(* Generations only grow, and a pass serves the one it read. *)
LEMMA ServedWasAskedStep == TypeOK /\ ServedWasAsked /\ [Next]_vars => ServedWasAsked'
<1> SUFFICES ASSUME TypeOK, ServedWasAsked, [Next]_vars PROVE ServedWasAsked'
  OBVIOUS
<1>1. ASSUME NEW k \in {"tenant", "cluster"}, Request(k) PROVE ServedWasAsked'
  BY <1>1, TupleAssumption, WorkerAssumption, CountAssumption
  DEF ServedWasAsked, Request, requestReconcile, fga, lease, bounds, TypeOK, Pass, Step
<1>2. ASSUME NEW p \in Proc, Select(p) PROVE ServedWasAsked'
  BY <1>2, TupleAssumption, WorkerAssumption, CountAssumption
  DEF ServedWasAsked, Select, due, Goto, End, NoPass, facts, row, fga, lease, bounds,
      TypeOK, Pass, Step
<1>3. ASSUME NEW p \in Proc, Renew(p) PROVE ServedWasAsked'
  BY <1>3, NoPassKnows
  DEF ServedWasAsked, Renew, acquireLease, Goto, mayAcquire, End, NoPass, facts, row, fga,
      lease, bounds, TypeOK
<1>4. ASSUME NEW p \in Proc, Load(p) PROVE ServedWasAsked'
  BY <1>4, NoPassKnows
  DEF ServedWasAsked, Load, Goto, facts, row, fga, lease, bounds, TypeOK
<1>5. ASSUME NEW p \in Proc, Open(p) PROVE ServedWasAsked'
  BY <1>5, TupleAssumption, WorkerAssumption, CountAssumption
  DEF ServedWasAsked, Open, Goto, facts, row, fga, lease, bounds, TypeOK, Pass, Step
<1>6. ASSUME NEW p \in Proc, Create(p) PROVE ServedWasAsked'
  BY <1>6, NoPassKnows DEF ServedWasAsked, Create, Goto, facts, row, lease, bounds
<1>7. ASSUME NEW p \in Proc, Adopt(p) PROVE ServedWasAsked'
  BY <1>7, NoPassKnows DEF ServedWasAsked, Adopt, Goto, facts, fga, lease, bounds
<1>8. ASSUME NEW p \in Proc, ReadPlacements(p) PROVE ServedWasAsked'
  BY <1>8, TupleAssumption, WorkerAssumption, CountAssumption
  DEF ServedWasAsked, ReadPlacements, Fault, Goto, Upset, facts, row, fga, lease, TypeOK,
      Pass, Step
<1>9. ASSUME NEW p \in Proc, ReadMembers(p) PROVE ServedWasAsked'
  BY <1>9, NoPassKnows DEF ServedWasAsked, ReadMembers, Goto, facts, row, fga, lease, bounds
<1>10. ASSUME NEW p \in Proc, WaitForModel(p) PROVE ServedWasAsked'
  BY <1>10, TupleAssumption, WorkerAssumption, CountAssumption
  DEF ServedWasAsked, WaitForModel, Goto, facts, row, fga, lease, bounds, Fault, Upset, TypeOK, Pass,
      Step
<1>11. ASSUME NEW p \in Proc, Diff(p) PROVE ServedWasAsked'
  BY <1>11, NoPassKnows
  DEF ServedWasAsked, Diff, Goto, facts, row, fga, lease, bounds, TypeOK
<1>12. ASSUME NEW p \in Proc, NEW t \in w[p].left, WriteTuple(p, t) PROVE ServedWasAsked'
  BY <1>12, NoPassKnows DEF ServedWasAsked, WriteTuple, Goto, facts, row, lease, bounds
<1>drop. ASSUME NEW p \in Proc, NEW t \in w[p].left, WriteDropped(p, t) PROVE ServedWasAsked'
  BY <1>drop, NoPassKnows
  DEF ServedWasAsked, WriteDropped, Goto, Fault, Upset, facts, row, fga, lease, TypeOK, Calm
<1>13. ASSUME NEW p \in Proc, Mark(p) PROVE ServedWasAsked'
  BY <1>13, NoPassKnows
  DEF ServedWasAsked, Mark, End, NoPass, facts, fga, lease, bounds, TypeOK
<1>14. ASSUME NEW p \in Proc, Throws(p) PROVE ServedWasAsked'
  BY <1>14, NoPassKnows
  DEF ServedWasAsked, Throws, Fault, Goto, Upset, facts, row, fga, lease
<1>15. ASSUME NEW p \in Proc, Stop(p) PROVE ServedWasAsked'
  BY <1>15, NoPassKnows DEF ServedWasAsked, Stop, End, NoPass, facts, row, fga, TypeOK
<1>16. ASSUME NEW p \in Proc, RecordUnanswered(p) PROVE ServedWasAsked'
  BY <1>16, NoPassKnows
  DEF ServedWasAsked, RecordUnanswered, Fault, recordGrants, Goto, Upset, facts, fga,
      lease
<1>17. ASSUME NEW p \in Proc, Crash(p) PROVE ServedWasAsked'
  BY <1>17, NoPassKnows
  DEF ServedWasAsked, Crash, Fault, End, Upset, NoPass, facts, row, fga, lease, TypeOK
<1>18. CASE UNCHANGED <<generation, reconciledGeneration, w>>
  BY <1>18 DEF ServedWasAsked
<1>19. (Place \/ ReconcileNow \/ LeaseExpires \/ Age \/ ScanAge \/ UploadModel) => UNCHANGED <<generation, reconciledGeneration, w>>
  BY DEF Place, ReconcileNow, LeaseExpires, Age, ScanAge, UploadModel, Change, facts, row,
     fga, lease, bounds
<1>20. ASSUME NEW m \in Member, SetMember(m) PROVE UNCHANGED <<generation, reconciledGeneration, w>>
  BY <1>20 DEF SetMember, Change, row, fga, lease
<1>21. ASSUME NEW k \in {"tenant", "cluster"}, RequestLost(k) PROVE UNCHANGED <<generation, reconciledGeneration, w>>
  BY <1>21 DEF RequestLost, Fault, row, fga, lease
<1>22. ASSUME NEW p \in Proc, Acquire(p) \/ Config(p) \/ Record(p) \/ Finish(p) \/ Unreachable(p) \/ PassThrows(p) PROVE UNCHANGED <<generation, reconciledGeneration, w>>
  BY <1>22
  DEF Acquire, Config, Record, Finish, Unreachable, PassThrows, acquireLease, Goto,
      recordGrants, Fault, facts, row, fga, lease, bounds
<1>23. ASSUME NEW s \in StoreId, StoreLost(s) PROVE UNCHANGED <<generation, reconciledGeneration, w>>
  BY <1>23 DEF StoreLost, facts, row, lease, bounds
<1>24. QED
  BY <1>drop, <1>1, <1>2, <1>3, <1>4, <1>5, <1>6, <1>7, <1>8, <1>9, <1>10, <1>11, <1>12, <1>13,
     <1>14, <1>15, <1>16, <1>17, <1>18, <1>19, <1>20, <1>21, <1>22, <1>23
  DEF Next, WorkerStep, vars, facts, row, fga, lease, bounds

(* Stores are numbered as they are made, and written while they exist. *)
LEMMA StoresAreMadeStep == TypeOK /\ StoresAreMade /\ [Next]_vars => StoresAreMade'
<1> SUFFICES ASSUME TypeOK, StoresAreMade, [Next]_vars PROVE StoresAreMade'
  OBVIOUS
<1>1. ASSUME NEW p \in Proc, Select(p) PROVE StoresAreMade'
  BY <1>1, TupleAssumption, WorkerAssumption, CountAssumption
  DEF StoresAreMade, Select, Goto, End, NoPass, NoStore, facts, row, fga, lease, bounds,
      TypeOK, Pass, Step
<1>2. ASSUME NEW p \in Proc, Renew(p) PROVE StoresAreMade'
  BY <1>2, NoPassKnows
  DEF StoresAreMade, Renew, acquireLease, Goto, mayAcquire, End, NoPass, NoStore, facts,
      row, fga, lease, bounds, TypeOK
<1>3. ASSUME NEW p \in Proc, Load(p) PROVE StoresAreMade'
  BY <1>3, NoPassKnows DEF StoresAreMade, Load, Goto, facts, row, fga, lease, bounds, TypeOK
<1>4. ASSUME NEW p \in Proc, Open(p) PROVE StoresAreMade'
  BY <1>4, TupleAssumption, WorkerAssumption, CountAssumption
  DEF StoresAreMade, Open, Goto, facts, row, fga, lease, bounds, TypeOK, Pass, Step
<1>5. ASSUME NEW p \in Proc, Create(p) PROVE StoresAreMade'
  <2>1. made' = made + 1 /\ exists' = exists \cup {made + 1} /\ made \in Nat
    BY <1>5, CountAssumption DEF Create, TypeOK
  <2>2. UNCHANGED <<fgaStoreId, tuples>>
    BY <1>5 DEF Create, row
  <2>3. \A q \in Proc : w'[q].store \in {w[q].store, made + 1}
    BY <1>5 DEF Create, TypeOK, Pass
  <2>4. /\ \A s \in StoreId \cup {NoStore} : s \in Nat /\ (s <= made => s <= made + 1)
        /\ made + 1 <= made + 1
    BY <2>1, CountAssumption DEF StoreId, NoStore
  <2>5. \A q \in Proc : w[q].store \in StoreId \cup {NoStore}
    BY PassFields DEF TypeOK
  <2>6. QED
    BY <2>1, <2>2, <2>3, <2>4, <2>5 DEF StoresAreMade, TypeOK
<1>6. ASSUME NEW p \in Proc, Adopt(p) PROVE StoresAreMade'
  BY <1>6, NoPassKnows DEF StoresAreMade, Adopt, Goto, facts, fga, lease, bounds
<1>7. ASSUME NEW p \in Proc, ReadPlacements(p) PROVE StoresAreMade'
  BY <1>7, TupleAssumption, WorkerAssumption, CountAssumption
  DEF StoresAreMade, ReadPlacements, Fault, Goto, Upset, facts, row, fga, lease, TypeOK,
      Pass, Step
<1>8. ASSUME NEW p \in Proc, ReadMembers(p) PROVE StoresAreMade'
  BY <1>8, NoPassKnows DEF StoresAreMade, ReadMembers, Goto, facts, row, fga, lease, bounds
<1>9. ASSUME NEW p \in Proc, WaitForModel(p) PROVE StoresAreMade'
  BY <1>9, TupleAssumption, WorkerAssumption, CountAssumption
  DEF StoresAreMade, WaitForModel, Goto, facts, row, fga, lease, bounds, Fault, Upset, TypeOK, Pass,
      Step
<1>10. ASSUME NEW p \in Proc, Diff(p) PROVE StoresAreMade'
  BY <1>10, NoPassKnows
  DEF StoresAreMade, Diff, Goto, facts, row, fga, lease, bounds, TypeOK
<1>11. ASSUME NEW p \in Proc, NEW t \in w[p].left, WriteTuple(p, t) PROVE StoresAreMade'
  BY <1>11, NoPassKnows DEF StoresAreMade, WriteTuple, Goto, facts, row, lease, bounds
<1>drop. ASSUME NEW p \in Proc, NEW t \in w[p].left, WriteDropped(p, t) PROVE StoresAreMade'
  BY <1>drop, NoPassKnows
  DEF StoresAreMade, WriteDropped, Goto, Fault, Upset, facts, row, fga, lease, TypeOK, Calm
<1>12. ASSUME NEW p \in Proc, Mark(p) PROVE StoresAreMade'
  BY <1>12, NoPassKnows
  DEF StoresAreMade, Mark, End, NoPass, NoStore, facts, fga, lease, bounds, TypeOK
<1>13. ASSUME NEW p \in Proc, Throws(p) PROVE StoresAreMade'
  BY <1>13, NoPassKnows
  DEF StoresAreMade, Throws, Fault, Goto, Upset, facts, row, fga, lease
<1>14. ASSUME NEW p \in Proc, Stop(p) PROVE StoresAreMade'
  BY <1>14, NoPassKnows
  DEF StoresAreMade, Stop, End, NoPass, NoStore, facts, row, fga, TypeOK
<1>15. ASSUME NEW p \in Proc, RecordUnanswered(p) PROVE StoresAreMade'
  BY <1>15, NoPassKnows
  DEF StoresAreMade, RecordUnanswered, Fault, recordGrants, Goto, Upset, facts, fga, lease
<1>16. ASSUME NEW p \in Proc, Crash(p) PROVE StoresAreMade'
  BY <1>16, NoPassKnows
  DEF StoresAreMade, Crash, Fault, End, Upset, NoPass, NoStore, facts, row, fga, lease,
      TypeOK
<1>17. ASSUME NEW s \in StoreId, StoreLost(s) PROVE StoresAreMade'
  BY <1>17, NoPassKnows DEF StoresAreMade, StoreLost, facts, row, lease, bounds, TypeOK
<1>18. ASSUME UploadModel PROVE StoresAreMade'
  BY <1>18, NoPassKnows DEF StoresAreMade, UploadModel, facts, row, lease, bounds
<1>19. CASE UNCHANGED <<fgaStoreId, exists, tuples, made, w>>
  BY <1>19 DEF StoresAreMade
<1>20. (Place \/ ReconcileNow \/ LeaseExpires \/ Age \/ ScanAge) => UNCHANGED <<fgaStoreId, exists, tuples, made, w>>
  BY DEF Place, ReconcileNow, LeaseExpires, Age, ScanAge, Change, facts, row, fga, lease,
     bounds
<1>21. ASSUME NEW m \in Member, SetMember(m) PROVE UNCHANGED <<fgaStoreId, exists, tuples, made, w>>
  BY <1>21 DEF SetMember, Change, row, fga, lease
<1>22. ASSUME NEW k \in {"tenant", "cluster"}, Request(k) \/ RequestLost(k) PROVE UNCHANGED <<fgaStoreId, exists, tuples, made, w>>
  BY <1>22 DEF Request, RequestLost, requestReconcile, Fault, row, fga, lease, bounds
<1>23. ASSUME NEW p \in Proc, Acquire(p) \/ Config(p) \/ Record(p) \/ Finish(p) \/ Unreachable(p) \/ PassThrows(p) PROVE UNCHANGED <<fgaStoreId, exists, tuples, made, w>>
  BY <1>23
  DEF Acquire, Config, Record, Finish, Unreachable, PassThrows, acquireLease, Goto,
      recordGrants, Fault, facts, row, fga, lease, bounds
<1>24. QED
  BY <1>drop, <1>1, <1>2, <1>3, <1>4, <1>5, <1>6, <1>7, <1>8, <1>9, <1>10, <1>11, <1>12, <1>13,
     <1>14, <1>15, <1>16, <1>17, <1>18, <1>19, <1>20, <1>21, <1>22, <1>23
  DEF Next, WorkerStep, vars, facts, row, fga, lease, bounds

(* Passes write and delete grants only. *)
LEMMA IncusIsKeptStep == TypeOK /\ IncusIsKept /\ [Next]_vars => IncusIsKept'
<1> SUFFICES ASSUME TypeOK, IncusIsKept, [Next]_vars PROVE IncusIsKept'
  OBVIOUS
<1>1. ASSUME NEW p \in Proc, Create(p) PROVE IncusIsKept'
  BY <1>1, NoPassKnows DEF IncusIsKept, Create, Goto, facts, row, lease, bounds
<1>2. ASSUME NEW p \in Proc, NEW t \in w[p].left, WriteTuple(p, t) PROVE IncusIsKept'
  <2>1. t # IncusTuple
    BY PassFields, NoGrant DEF TypeOK
  <2>2. UNCHANGED <<modelled, exists>>
    BY <1>2 DEF WriteTuple
  <2>3. \A s \in StoreId : IncusTuple \in tuples[s] => IncusTuple \in tuples'[s]
    BY <1>2, <2>1 DEF WriteTuple, TypeOK
  <2>4. QED
    BY <2>2, <2>3 DEF IncusIsKept, TypeOK
<1>drop. ASSUME NEW p \in Proc, NEW t \in w[p].left, WriteDropped(p, t) PROVE IncusIsKept'
  BY <1>drop, NoPassKnows
  DEF IncusIsKept, WriteDropped, Goto, Fault, Upset, facts, row, fga, lease, TypeOK, Calm
<1>3. ASSUME NEW s \in StoreId, StoreLost(s) PROVE IncusIsKept'
  BY <1>3, NoPassKnows DEF IncusIsKept, StoreLost, facts, row, lease, bounds
<1>4. ASSUME UploadModel PROVE IncusIsKept'
  BY <1>4, NoPassKnows DEF IncusIsKept, UploadModel, facts, row, lease, bounds, TypeOK
<1>5. CASE UNCHANGED <<exists, modelled, tuples>>
  BY <1>5 DEF IncusIsKept
<1>6. (Place \/ ReconcileNow \/ LeaseExpires \/ Age \/ ScanAge) => UNCHANGED <<exists, modelled, tuples>>
  BY DEF Place, ReconcileNow, LeaseExpires, Age, ScanAge, Change, facts, row, fga, lease,
     bounds
<1>7. ASSUME NEW m \in Member, SetMember(m) PROVE UNCHANGED <<exists, modelled, tuples>>
  BY <1>7 DEF SetMember, Change, row, fga, lease
<1>8. ASSUME NEW k \in {"tenant", "cluster"}, Request(k) \/ RequestLost(k) PROVE UNCHANGED <<exists, modelled, tuples>>
  BY <1>8 DEF Request, RequestLost, requestReconcile, Fault, row, fga, lease, bounds
<1>9. ASSUME NEW p \in Proc, Acquire(p) \/ Select(p) \/ Renew(p) \/ Load(p) \/ Open(p) \/ Adopt(p) \/ Config(p) \/ ReadPlacements(p) PROVE UNCHANGED <<exists, modelled, tuples>>
  BY <1>9
  DEF Acquire, Select, Renew, Load, Open, Adopt, Config, ReadPlacements, acquireLease,
      Goto, End, Fault, facts, row, fga, lease, bounds
<1>10. ASSUME NEW p \in Proc, ReadMembers(p) \/ WaitForModel(p) \/ Diff(p) \/ Record(p) \/ Finish(p) \/ Mark(p) \/ Throws(p) \/ Stop(p) PROVE UNCHANGED <<exists, modelled, tuples>>
  BY <1>10
  DEF ReadMembers, WaitForModel, Diff, Record, Finish, Mark, Throws, Stop, Goto,
      recordGrants, End, Fault, facts, row, fga, lease, bounds
<1>11. ASSUME NEW p \in Proc, Unreachable(p) \/ RecordUnanswered(p) \/ PassThrows(p) \/ Crash(p) PROVE UNCHANGED <<exists, modelled, tuples>>
  BY <1>11
  DEF Unreachable, RecordUnanswered, PassThrows, Crash, Fault, Goto, recordGrants, End,
      facts, row, fga, lease
<1>12. QED
  BY <1>drop, <1>1, <1>2, <1>3, <1>4, <1>5, <1>6, <1>7, <1>8, <1>9, <1>10, <1>11
  DEF Next, WorkerStep, vars, facts, row, fga, lease, bounds

(* The row's store changes only where it is adopted. *)
LEMMA PassIsOnRowStep == TypeOK /\ Exclusive /\ StoresAreMade /\ PassIsOnRow /\ [Next]_vars => PassIsOnRow'
<1> SUFFICES ASSUME TypeOK, Exclusive, StoresAreMade, PassIsOnRow, [Next]_vars PROVE PassIsOnRow'
  OBVIOUS
<1>1. ASSUME NEW p \in Proc, Acquire(p) PROVE PassIsOnRow'
  BY <1>1, NoPassKnows
  DEF PassIsOnRow, Acquire, acquireLease, Goto, mayAcquire, facts, row, fga, bounds
<1>2. ASSUME NEW p \in Proc, Select(p) PROVE PassIsOnRow'
  BY <1>2, NoPassKnows
  DEF PassIsOnRow, Select, Goto, End, NoPass, facts, row, fga, lease, bounds, Exclusive,
      StoresAreMade, TypeOK
<1>3. ASSUME NEW p \in Proc, Renew(p) PROVE PassIsOnRow'
  BY <1>3, NoPassKnows
  DEF PassIsOnRow, Renew, acquireLease, Goto, mayAcquire, End, NoPass, facts, row, fga,
      lease, bounds, Exclusive, StoresAreMade, TypeOK
<1>4. ASSUME NEW p \in Proc, Load(p) PROVE PassIsOnRow'
  BY <1>4, NoPassKnows
  DEF PassIsOnRow, Load, Goto, facts, row, fga, lease, bounds, Exclusive, StoresAreMade,
      TypeOK
<1>5. ASSUME NEW p \in Proc, Open(p) PROVE PassIsOnRow'
  BY <1>5, NoPassKnows
  DEF PassIsOnRow, Open, Goto, facts, row, fga, lease, bounds, Exclusive, StoresAreMade,
      TypeOK
<1>6. ASSUME NEW p \in Proc, Create(p) PROVE PassIsOnRow'
  <2>1. \A q \in Proc : q # p => pc'[q] = pc[q] /\ w'[q] = w[q]
    BY <1>6 DEF Create, Goto, TypeOK
  <2>2. /\ pc[p] = "create" /\ pc'[p] = "adopt" /\ exists' = exists \cup {made + 1}
        /\ UNCHANGED <<late, fgaStoreId>>
    BY <1>6 DEF Create, Goto, TypeOK, bounds, row
  <2>3. late = 0 => exists = {} /\ \A q \in Proc : q # p => pc[q] = "idle"
    BY <2>2, OnlyOne DEF Busy, PassIsOnRow
  <2>4. fgaStoreId # made + 1
    <3>1. fgaStoreId <= made /\ fgaStoreId \in Nat /\ made \in Nat
      BY CountAssumption DEF StoresAreMade, TypeOK, StoreId, NoStore
    <3>2. QED
      BY <3>1
  <2>5. QED
    BY <2>1, <2>2, <2>3, <2>4 DEF PassIsOnRow
<1>7. ASSUME NEW p \in Proc, Adopt(p) PROVE PassIsOnRow'
  <2>1. \A q \in Proc : q # p => pc'[q] = pc[q] /\ w'[q] = w[q]
    BY <1>7 DEF Adopt, Goto, TypeOK
  <2>2. /\ pc[p] = "adopt" /\ pc'[p] = "config" /\ fgaStoreId' = w[p].store
        /\ UNCHANGED <<late, exists>>
    BY <1>7 DEF Adopt, Goto, TypeOK, bounds, fga
  <2>3. w'[p].store = w[p].store
    BY <1>7 DEF Adopt, TypeOK, Pass
  <2>4. late = 0 => \A q \in Proc : q # p => pc[q] = "idle"
    BY <2>2, OnlyOne DEF Busy
  <2>5. QED
    BY <2>1, <2>2, <2>3, <2>4 DEF PassIsOnRow
<1>8. ASSUME NEW p \in Proc, Config(p) PROVE PassIsOnRow'
  BY <1>8, NoPassKnows DEF PassIsOnRow, Config, Goto, facts, row, fga, lease, bounds
<1>9. ASSUME NEW p \in Proc, ReadPlacements(p) PROVE PassIsOnRow'
  BY <1>9, TupleAssumption, WorkerAssumption, CountAssumption
  DEF PassIsOnRow, ReadPlacements, Fault, Goto, Upset, facts, row, fga, lease, TypeOK,
      Pass, Step, Exclusive, StoresAreMade
<1>10. ASSUME NEW p \in Proc, ReadMembers(p) PROVE PassIsOnRow'
  BY <1>10, NoPassKnows DEF PassIsOnRow, ReadMembers, Goto, facts, row, fga, lease, bounds
<1>11. ASSUME NEW p \in Proc, WaitForModel(p) PROVE PassIsOnRow'
  BY <1>11, NoPassKnows
  DEF PassIsOnRow, WaitForModel, Goto, facts, row, fga, lease, bounds, Fault, Upset, Exclusive,
      StoresAreMade, TypeOK
<1>12. ASSUME NEW p \in Proc, Diff(p) PROVE PassIsOnRow'
  BY <1>12, NoPassKnows
  DEF PassIsOnRow, Diff, Goto, facts, row, fga, lease, bounds, Exclusive, StoresAreMade,
      TypeOK
<1>13. ASSUME NEW p \in Proc, NEW t \in w[p].left, WriteTuple(p, t) PROVE PassIsOnRow'
  BY <1>13, NoPassKnows DEF PassIsOnRow, WriteTuple, Goto, facts, row, lease, bounds
<1>drop. ASSUME NEW p \in Proc, NEW t \in w[p].left, WriteDropped(p, t) PROVE PassIsOnRow'
  BY <1>drop, NoPassKnows
  DEF PassIsOnRow, WriteDropped, Goto, Fault, Upset, facts, row, fga, lease, TypeOK, Calm
<1>14. ASSUME NEW p \in Proc, Record(p) PROVE PassIsOnRow'
  BY <1>14, NoPassKnows
  DEF PassIsOnRow, Record, recordGrants, Goto, facts, fga, lease, bounds
<1>15. ASSUME NEW p \in Proc, Finish(p) PROVE PassIsOnRow'
  BY <1>15, NoPassKnows DEF PassIsOnRow, Finish, Goto, facts, fga, lease, bounds
<1>16. ASSUME NEW p \in Proc, Mark(p) PROVE PassIsOnRow'
  BY <1>16, NoPassKnows DEF PassIsOnRow, Mark, End, facts, fga, lease, bounds
<1>17. ASSUME NEW p \in Proc, Throws(p) PROVE PassIsOnRow'
  BY <1>17, NoPassKnows DEF PassIsOnRow, Throws, Fault, Goto, Upset, facts, row, fga, lease
<1>18. ASSUME NEW p \in Proc, Stop(p) PROVE PassIsOnRow'
  BY <1>18, NoPassKnows DEF PassIsOnRow, Stop, End, facts, row, fga
<1>19. ASSUME NEW p \in Proc, Unreachable(p) PROVE PassIsOnRow'
  BY <1>19, NoPassKnows DEF PassIsOnRow, Unreachable, Fault, Goto, Upset, facts, fga, lease
<1>20. ASSUME NEW p \in Proc, RecordUnanswered(p) PROVE PassIsOnRow'
  BY <1>20, NoPassKnows
  DEF PassIsOnRow, RecordUnanswered, Fault, recordGrants, Goto, Upset, facts, fga, lease
<1>21. ASSUME NEW p \in Proc, PassThrows(p) PROVE PassIsOnRow'
  BY <1>21, NoPassKnows
  DEF PassIsOnRow, PassThrows, Fault, Goto, Upset, facts, row, fga, lease
<1>22. ASSUME NEW p \in Proc, Crash(p) PROVE PassIsOnRow'
  BY <1>22, NoPassKnows
  DEF PassIsOnRow, Crash, Fault, End, Upset, NoPass, facts, row, fga, lease, Exclusive,
      StoresAreMade, TypeOK
<1>23. ASSUME NEW s \in StoreId, StoreLost(s) PROVE PassIsOnRow'
  BY <1>23, NoPassKnows DEF PassIsOnRow, StoreLost, facts, row, lease, bounds
<1>24. ASSUME LeaseExpires PROVE PassIsOnRow'
  BY <1>24, NoPassKnows
  DEF PassIsOnRow, LeaseExpires, Upset, facts, row, fga, Exclusive, StoresAreMade, TypeOK
<1>25. CASE UNCHANGED <<fgaStoreId, exists, pc, w, late>>
  BY <1>25 DEF PassIsOnRow
<1>26. QED
  BY <1>drop, <1>1, <1>2, <1>3, <1>4, <1>5, <1>6, <1>7, <1>8, <1>9, <1>10, <1>11, <1>12, <1>13,
     <1>14, <1>15, <1>16, <1>17, <1>18, <1>19, <1>20, <1>21, <1>22, <1>23, <1>24, <1>25
  DEF Next, WorkerStep, vars, facts, row, fga, lease, bounds, Place, ReconcileNow,
      SetMember, Request, RequestLost, Age, ScanAge, UploadModel, Change, requestReconcile,
      Fault

(* An adopted store is configured next. *)
LEMMA ConfiguredIsRowStep == TypeOK /\ Exclusive /\ PassIsOnRow /\ ConfiguredIsRow /\ [Next]_vars => ConfiguredIsRow'
<1> SUFFICES ASSUME TypeOK, Exclusive, PassIsOnRow, ConfiguredIsRow, [Next]_vars PROVE ConfiguredIsRow'
  OBVIOUS
<1>1. ASSUME NEW k \in {"tenant", "cluster"}, RequestLost(k) PROVE ConfiguredIsRow'
  BY <1>1, NoPassKnows
  DEF ConfiguredIsRow, Calm, RequestLost, Fault, Upset, row, fga, lease, Exclusive,
      PassIsOnRow, TypeOK
<1>2. ASSUME NEW p \in Proc, Acquire(p) PROVE ConfiguredIsRow'
  BY <1>2, NoPassKnows
  DEF ConfiguredIsRow, Calm, Acquire, acquireLease, Goto, mayAcquire, facts, row, fga,
      bounds
<1>3. ASSUME NEW p \in Proc, Select(p) PROVE ConfiguredIsRow'
  BY <1>3, NoPassKnows
  DEF ConfiguredIsRow, Calm, Select, Goto, End, NoPass, facts, row, fga, lease, bounds,
      Exclusive, PassIsOnRow, TypeOK
<1>4. ASSUME NEW p \in Proc, Renew(p) PROVE ConfiguredIsRow'
  BY <1>4, NoPassKnows
  DEF ConfiguredIsRow, Calm, Renew, acquireLease, Goto, mayAcquire, End, NoPass, facts,
      row, fga, lease, bounds, Exclusive, PassIsOnRow, TypeOK
<1>5. ASSUME NEW p \in Proc, Load(p) PROVE ConfiguredIsRow'
  BY <1>5, NoPassKnows DEF ConfiguredIsRow, Calm, Load, Goto, facts, row, fga, lease, bounds
<1>6. ASSUME NEW p \in Proc, Open(p) PROVE ConfiguredIsRow'
  BY <1>6, NoPassKnows
  DEF ConfiguredIsRow, Calm, Open, Goto, facts, row, fga, lease, bounds, Exclusive,
      PassIsOnRow, TypeOK
<1>7. ASSUME NEW p \in Proc, Create(p) PROVE ConfiguredIsRow'
  BY <1>7, NoPassKnows DEF ConfiguredIsRow, Calm, Create, Goto, facts, row, lease, bounds
<1>8. ASSUME NEW p \in Proc, Adopt(p) PROVE ConfiguredIsRow'
  BY <1>8, NoPassKnows
  DEF ConfiguredIsRow, Calm, Adopt, Goto, facts, fga, lease, bounds, Exclusive,
      PassIsOnRow, TypeOK
<1>9. ASSUME NEW p \in Proc, Config(p) PROVE ConfiguredIsRow'
  BY <1>9, NoPassKnows
  DEF ConfiguredIsRow, Calm, Config, Goto, facts, row, fga, lease, bounds, Exclusive,
      PassIsOnRow
<1>10. ASSUME NEW p \in Proc, ReadPlacements(p) PROVE ConfiguredIsRow'
  BY <1>10, NoPassKnows
  DEF ConfiguredIsRow, Calm, ReadPlacements, Fault, Goto, Upset, facts, row, fga, lease,
      Exclusive, PassIsOnRow, TypeOK
<1>11. ASSUME NEW p \in Proc, ReadMembers(p) PROVE ConfiguredIsRow'
  BY <1>11, NoPassKnows
  DEF ConfiguredIsRow, Calm, ReadMembers, Goto, facts, row, fga, lease, bounds
<1>12. ASSUME NEW p \in Proc, WaitForModel(p) PROVE ConfiguredIsRow'
  BY <1>12, NoPassKnows
  DEF ConfiguredIsRow, Calm, WaitForModel, Goto, facts, row, fga, lease, bounds, Fault, Upset,
      Exclusive, PassIsOnRow, TypeOK
<1>13. ASSUME NEW p \in Proc, Diff(p) PROVE ConfiguredIsRow'
  BY <1>13, NoPassKnows
  DEF ConfiguredIsRow, Calm, Diff, Goto, facts, row, fga, lease, bounds
<1>14. ASSUME NEW p \in Proc, NEW t \in w[p].left, WriteTuple(p, t) PROVE ConfiguredIsRow'
  BY <1>14, NoPassKnows
  DEF ConfiguredIsRow, Calm, WriteTuple, Goto, facts, row, lease, bounds
<1>drop. ASSUME NEW p \in Proc, NEW t \in w[p].left, WriteDropped(p, t) PROVE ConfiguredIsRow'
  BY <1>drop, NoPassKnows
  DEF ConfiguredIsRow, WriteDropped, Goto, Fault, Upset, facts, row, fga, lease, TypeOK, Calm
<1>15. ASSUME NEW p \in Proc, Record(p) PROVE ConfiguredIsRow'
  BY <1>15, NoPassKnows
  DEF ConfiguredIsRow, Calm, Record, recordGrants, Goto, facts, fga, lease, bounds
<1>16. ASSUME NEW p \in Proc, Finish(p) PROVE ConfiguredIsRow'
  BY <1>16, NoPassKnows DEF ConfiguredIsRow, Calm, Finish, Goto, facts, fga, lease, bounds
<1>17. ASSUME NEW p \in Proc, Mark(p) PROVE ConfiguredIsRow'
  BY <1>17, NoPassKnows DEF ConfiguredIsRow, Calm, Mark, End, facts, fga, lease, bounds
<1>18. ASSUME NEW p \in Proc, Throws(p) PROVE ConfiguredIsRow'
  BY <1>18, NoPassKnows
  DEF ConfiguredIsRow, Calm, Throws, Fault, Goto, Upset, facts, row, fga, lease,
      Exclusive, PassIsOnRow, TypeOK
<1>19. ASSUME NEW p \in Proc, Stop(p) PROVE ConfiguredIsRow'
  BY <1>19, NoPassKnows DEF ConfiguredIsRow, Calm, Stop, End, facts, row, fga
<1>20. ASSUME NEW p \in Proc, Unreachable(p) PROVE ConfiguredIsRow'
  BY <1>20, NoPassKnows
  DEF ConfiguredIsRow, Calm, Unreachable, Fault, Goto, Upset, facts, fga, lease,
      Exclusive, PassIsOnRow, TypeOK
<1>21. ASSUME NEW p \in Proc, RecordUnanswered(p) PROVE ConfiguredIsRow'
  BY <1>21, NoPassKnows
  DEF ConfiguredIsRow, Calm, RecordUnanswered, Fault, recordGrants, Goto, Upset, facts,
      fga, lease, Exclusive, PassIsOnRow, TypeOK
<1>22. ASSUME NEW p \in Proc, PassThrows(p) PROVE ConfiguredIsRow'
  BY <1>22, NoPassKnows
  DEF ConfiguredIsRow, Calm, PassThrows, Fault, Goto, Upset, facts, row, fga, lease,
      Exclusive, PassIsOnRow, TypeOK
<1>23. ASSUME NEW p \in Proc, Crash(p) PROVE ConfiguredIsRow'
  BY <1>23, NoPassKnows
  DEF ConfiguredIsRow, Calm, Crash, Fault, End, Upset, NoPass, facts, row, fga, lease,
      Exclusive, PassIsOnRow, TypeOK
<1>24. ASSUME LeaseExpires PROVE ConfiguredIsRow'
  BY <1>24, NoPassKnows
  DEF ConfiguredIsRow, Calm, LeaseExpires, Upset, facts, row, fga, Exclusive, PassIsOnRow,
      TypeOK
<1>25. CASE UNCHANGED <<fgaStoreId, configured, pc, faults, late>>
  BY <1>25 DEF ConfiguredIsRow, Calm
<1>26. QED
  BY <1>drop, <1>1, <1>2, <1>3, <1>4, <1>5, <1>6, <1>7, <1>8, <1>9, <1>10, <1>11, <1>12, <1>13,
     <1>14, <1>15, <1>16, <1>17, <1>18, <1>19, <1>20, <1>21, <1>22, <1>23, <1>24, <1>25
  DEF Next, WorkerStep, vars, facts, row, fga, lease, bounds, Place, ReconcileNow,
      SetMember, Request, StoreLost, Age, ScanAge, UploadModel, Change, requestReconcile

(* Only the recorded store is written, and another is recorded only when it is lost. *)
LEMMA UnrecordedIsEmptyStep == TypeOK /\ Exclusive /\ StoresAreMade /\ PassIsOnRow /\ UnrecordedIsEmpty /\ [Next]_vars => UnrecordedIsEmpty'
<1> SUFFICES ASSUME TypeOK, Exclusive, StoresAreMade, PassIsOnRow, UnrecordedIsEmpty, [Next]_vars PROVE UnrecordedIsEmpty'
  OBVIOUS
<1>1. ASSUME NEW k \in {"tenant", "cluster"}, RequestLost(k) PROVE UnrecordedIsEmpty'
  BY <1>1, NoPassKnows
  DEF UnrecordedIsEmpty, Calm, readManaged, isManaged, RequestLost, Fault, Upset, row,
      fga, lease, Exclusive, StoresAreMade, PassIsOnRow, TypeOK
<1>2. ASSUME NEW p \in Proc, Create(p) PROVE UnrecordedIsEmpty'
  <2>1. /\ exists' = exists \cup {made + 1} /\ made + 1 \in StoreId
        /\ UNCHANGED <<late, faults, fgaStoreId, tuples>>
    BY <1>2, CountAssumption DEF Create, TypeOK, bounds, row, StoreId
  <2>2. made + 1 \notin exists
    <3>1. \A s \in exists : s <= made /\ s \in Nat
      BY CountAssumption DEF StoresAreMade, TypeOK, StoreId
    <3>2. made \in Nat
      BY CountAssumption DEF TypeOK
    <3>3. QED
      BY <3>1, <3>2
  <2>3. readManaged(made + 1) = {}
    BY <2>1, <2>2 DEF StoresAreMade, readManaged
  <2>4. \A s : readManaged(s)' = readManaged(s)
    BY <2>1 DEF readManaged
  <2>5. QED
    BY <2>1, <2>3, <2>4 DEF UnrecordedIsEmpty, Calm
<1>3. ASSUME NEW p \in Proc, Adopt(p) PROVE UnrecordedIsEmpty'
  BY <1>3, NoPassKnows
  DEF UnrecordedIsEmpty, Calm, readManaged, isManaged, Adopt, Goto, facts, fga, lease,
      bounds, Exclusive, StoresAreMade, PassIsOnRow, TypeOK
<1>4. ASSUME NEW p \in Proc, ReadPlacements(p) PROVE UnrecordedIsEmpty'
  BY <1>4, NoPassKnows
  DEF UnrecordedIsEmpty, Calm, readManaged, isManaged, ReadPlacements, Fault, Goto, Upset,
      facts, row, fga, lease, Exclusive, StoresAreMade, PassIsOnRow, TypeOK
<1>5. ASSUME NEW p \in Proc, NEW t \in w[p].left, WriteTuple(p, t) PROVE UnrecordedIsEmpty'
  BY <1>5, NoPassKnows
  DEF UnrecordedIsEmpty, Calm, readManaged, isManaged, WriteTuple, Goto, facts, row,
      lease, bounds, Exclusive, StoresAreMade, PassIsOnRow, TypeOK
<1>model. ASSUME NEW p \in Proc, WaitForModel(p) PROVE UnrecordedIsEmpty'
  BY <1>model
  DEF UnrecordedIsEmpty, readManaged, isManaged, WaitForModel, Goto, Fault, Upset, facts, row,
      fga, lease, TypeOK, Calm
<1>drop. ASSUME NEW p \in Proc, NEW t \in w[p].left, WriteDropped(p, t) PROVE UnrecordedIsEmpty'
  BY <1>drop, NoPassKnows
  DEF UnrecordedIsEmpty, readManaged, isManaged, WriteDropped, Goto, Fault, Upset, facts, row, fga, lease, TypeOK, Calm
<1>6. ASSUME NEW p \in Proc, Throws(p) PROVE UnrecordedIsEmpty'
  BY <1>6, NoPassKnows
  DEF UnrecordedIsEmpty, Calm, readManaged, isManaged, Throws, Fault, Goto, Upset, facts,
      row, fga, lease, Exclusive, StoresAreMade, PassIsOnRow, TypeOK
<1>7. ASSUME NEW p \in Proc, Unreachable(p) PROVE UnrecordedIsEmpty'
  BY <1>7, NoPassKnows
  DEF UnrecordedIsEmpty, Calm, readManaged, isManaged, Unreachable, Fault, Goto, Upset,
      facts, fga, lease, Exclusive, StoresAreMade, PassIsOnRow, TypeOK
<1>8. ASSUME NEW p \in Proc, RecordUnanswered(p) PROVE UnrecordedIsEmpty'
  BY <1>8, NoPassKnows
  DEF UnrecordedIsEmpty, Calm, readManaged, isManaged, RecordUnanswered, Fault,
      recordGrants, Goto, Upset, facts, fga, lease, Exclusive, StoresAreMade, PassIsOnRow,
      TypeOK
<1>9. ASSUME NEW p \in Proc, PassThrows(p) PROVE UnrecordedIsEmpty'
  BY <1>9, NoPassKnows
  DEF UnrecordedIsEmpty, Calm, readManaged, isManaged, PassThrows, Fault, Goto, Upset,
      facts, row, fga, lease, Exclusive, StoresAreMade, PassIsOnRow, TypeOK
<1>10. ASSUME NEW p \in Proc, Crash(p) PROVE UnrecordedIsEmpty'
  BY <1>10, NoPassKnows
  DEF UnrecordedIsEmpty, Calm, readManaged, isManaged, Crash, Fault, End, Upset, NoPass,
      facts, row, fga, lease, Exclusive, StoresAreMade, PassIsOnRow, TypeOK
<1>11. ASSUME NEW s \in StoreId, StoreLost(s) PROVE UnrecordedIsEmpty'
  BY <1>11, NoPassKnows
  DEF UnrecordedIsEmpty, Calm, readManaged, isManaged, StoreLost, facts, row, lease,
      bounds
<1>12. ASSUME LeaseExpires PROVE UnrecordedIsEmpty'
  BY <1>12, NoPassKnows
  DEF UnrecordedIsEmpty, Calm, readManaged, isManaged, LeaseExpires, Upset, facts, row,
      fga, Exclusive, StoresAreMade, PassIsOnRow, TypeOK
<1>13. ASSUME UploadModel PROVE UnrecordedIsEmpty'
  <2>1. \A s \in StoreId, t \in Tuple : t \in tuples'[s] <=> t \in tuples[s]
    BY <1>13, NoGrant DEF UploadModel, TypeOK
  <2>2. UNCHANGED <<late, faults, exists, fgaStoreId>> /\ exists \subseteq StoreId
    BY <1>13 DEF UploadModel, bounds, row, TypeOK
  <2>3. \A s \in exists : readManaged(s)' = readManaged(s)
    BY <2>1, <2>2 DEF readManaged, isManaged
  <2>4. QED
    BY <2>2, <2>3 DEF UnrecordedIsEmpty, Calm
<1>14. CASE UNCHANGED <<fgaStoreId, exists, tuples, faults, late>>
  BY <1>14 DEF UnrecordedIsEmpty, Calm, readManaged, isManaged
<1>15. (Place \/ ReconcileNow \/ Age \/ ScanAge) => UNCHANGED <<fgaStoreId, exists, tuples, faults, late>>
  BY DEF Place, ReconcileNow, Age, ScanAge, Change, facts, row, fga, lease, bounds
<1>16. ASSUME NEW m \in Member, SetMember(m) PROVE UNCHANGED <<fgaStoreId, exists, tuples, faults, late>>
  BY <1>16 DEF SetMember, Change, row, fga, lease
<1>17. ASSUME NEW k \in {"tenant", "cluster"}, Request(k) PROVE UNCHANGED <<fgaStoreId, exists, tuples, faults, late>>
  BY <1>17 DEF Request, requestReconcile, fga, lease, bounds
<1>18. ASSUME NEW p \in Proc, Acquire(p) \/ Select(p) \/ Renew(p) \/ Load(p) \/ Open(p) \/ Config(p) \/ ReadMembers(p) PROVE UNCHANGED <<fgaStoreId, exists, tuples, faults, late>>
  BY <1>18
  DEF Acquire, Select, Renew, Load, Open, Config, ReadMembers, acquireLease,
      Goto, End, facts, row, fga, lease, bounds
<1>19. ASSUME NEW p \in Proc, Diff(p) \/ Record(p) \/ Finish(p) \/ Mark(p) \/ Stop(p) PROVE UNCHANGED <<fgaStoreId, exists, tuples, faults, late>>
  BY <1>19
  DEF Diff, Record, Finish, Mark, Stop, Goto, recordGrants, End, facts, row, fga, lease,
      bounds
<1>20. QED
  BY <1>drop, <1>model, <1>1, <1>2, <1>3, <1>4, <1>5, <1>6, <1>7, <1>8, <1>9, <1>10, <1>11, <1>12, <1>13,
     <1>14, <1>15, <1>16, <1>17, <1>18, <1>19
  DEF Next, WorkerStep, vars, facts, row, fga, lease, bounds

(* The difference is to the store, and its tuples land one by one. *)
LEMMA AppliedStep == TypeOK /\ Exclusive /\ PassIsOnRow /\ RecordIsStore /\ Applied /\ [Next]_vars => Applied'
<1> SUFFICES ASSUME TypeOK, Exclusive, PassIsOnRow, RecordIsStore, Applied, [Next]_vars PROVE Applied'
  OBVIOUS
<1>1. ASSUME NEW k \in {"tenant", "cluster"}, RequestLost(k) PROVE Applied'
  BY <1>1, NoPassKnows
  DEF Applied, RequestLost, Fault, Upset, row, fga, lease, Exclusive, PassIsOnRow,
      RecordIsStore, TypeOK
<1>2. ASSUME NEW p \in Proc, Acquire(p) PROVE Applied'
  BY <1>2, NoPassKnows
  DEF Applied, Acquire, acquireLease, Goto, mayAcquire, facts, row, fga, bounds
<1>3. ASSUME NEW p \in Proc, Select(p) PROVE Applied'
  BY <1>3, TupleAssumption, WorkerAssumption, CountAssumption
  DEF Applied, Select, Goto, End, NoPass, facts, row, fga, lease, bounds, TypeOK, Pass,
      Step, Exclusive, PassIsOnRow, RecordIsStore
<1>4. ASSUME NEW p \in Proc, Renew(p) PROVE Applied'
  BY <1>4, NoPassKnows
  DEF Applied, Renew, acquireLease, Goto, mayAcquire, End, NoPass, facts, row, fga, lease,
      bounds, Exclusive, PassIsOnRow, RecordIsStore, TypeOK
<1>5. ASSUME NEW p \in Proc, Load(p) PROVE Applied'
  BY <1>5, NoPassKnows
  DEF Applied, Load, Goto, facts, row, fga, lease, bounds, Exclusive, PassIsOnRow,
      RecordIsStore, TypeOK
<1>6. ASSUME NEW p \in Proc, Open(p) PROVE Applied'
  BY <1>6, TupleAssumption, WorkerAssumption, CountAssumption
  DEF Applied, Open, Goto, facts, row, fga, lease, bounds, TypeOK, Pass, Step, Exclusive,
      PassIsOnRow, RecordIsStore
<1>7. ASSUME NEW p \in Proc, Create(p) PROVE Applied'
  <2>1. \A q \in Proc : q # p => pc'[q] = pc[q] /\ w'[q] = w[q]
    BY <1>7 DEF Create, Goto, TypeOK
  <2>2. pc[p] = "create" /\ pc'[p] = "adopt" /\ UNCHANGED <<late, faults, tuples>>
    BY <1>7 DEF Create, Goto, TypeOK, bounds
  <2>3. late = 0 => \A q \in Proc : q # p => pc[q] = "idle"
    BY <2>2, OnlyOne DEF Busy
  <2>4. QED
    BY <2>1, <2>2, <2>3 DEF Applied
<1>8. ASSUME NEW p \in Proc, Adopt(p) PROVE Applied'
  BY <1>8, NoPassKnows DEF Applied, Adopt, Goto, facts, fga, lease, bounds
<1>9. ASSUME NEW p \in Proc, Config(p) PROVE Applied'
  BY <1>9, NoPassKnows DEF Applied, Config, Goto, facts, row, fga, lease, bounds
<1>10. ASSUME NEW p \in Proc, ReadPlacements(p) PROVE Applied'
  BY <1>10, TupleAssumption, WorkerAssumption, CountAssumption
  DEF Applied, ReadPlacements, Fault, Goto, Upset, facts, row, fga, lease, TypeOK, Pass,
      Step, Exclusive, PassIsOnRow, RecordIsStore
<1>11. ASSUME NEW p \in Proc, ReadMembers(p) PROVE Applied'
  <2>1. \A q \in Proc : q # p => pc'[q] = pc[q] /\ w'[q] = w[q]
    BY <1>11 DEF ReadMembers, Goto, TypeOK
  <2>2. pc[p] = "members" /\ pc'[p] = "model" /\ UNCHANGED <<late, faults, tuples, exists>>
    BY <1>11 DEF ReadMembers, Goto, TypeOK, bounds, fga
  <2>3. QED
    BY <2>1, <2>2 DEF Applied
<1>12. ASSUME NEW p \in Proc, WaitForModel(p) PROVE Applied'
  BY <1>12, TupleAssumption, WorkerAssumption, CountAssumption
  DEF Applied, WaitForModel, Goto, facts, row, fga, lease, bounds, Fault, Upset, TypeOK, Pass, Step,
      Exclusive, PassIsOnRow, RecordIsStore
<1>13. ASSUME NEW p \in Proc, Diff(p) PROVE Applied'
  <2> DEFINE have == IF w[p].scan THEN readManaged(w[p].store) ELSE record
             wr == diffWrites(w[p].want, have)
             de == diffDeletes(w[p].want, have)
  <2>1. \A q \in Proc : q # p => pc'[q] = pc[q] /\ w'[q] = w[q]
    BY <1>13 DEF Diff, Goto, TypeOK
  <2>2. pc[p] = "diff" /\ UNCHANGED <<late, faults, tuples, exists>>
    BY <1>13 DEF Diff, bounds, fga
  <2>3. /\ w'[p].left = wr \cup de /\ w'[p].writes = wr /\ w'[p].want = w[p].want
        /\ w'[p].store = w[p].store /\ w'[p].scan = w[p].scan /\ w'[p].dropped = w[p].dropped
    BY <1>13 DEF Diff, TypeOK, Pass
  <2>4. pc'[p] \in {"record", "finish"} => wr \cup de = {}
    BY <1>13 DEF Diff, Goto, TypeOK
  <2>5. \A t \in wr \cup de : t \in wr <=> t \in w[p].want
    BY DEF diffWrites, diffDeletes
  <2>6. ASSUME late = 0, w[p].scan \/ faults = 0, w[p].store \in exists
        PROVE  \A t \in Tuple : t \in have <=> t \in tuples[w[p].store]
    <3>1. CASE w[p].scan
      BY <3>1 DEF readManaged, isManaged
    <3>2. CASE ~w[p].scan
      <4>1. w[p].store = fgaStoreId
        BY <2>2, <2>6 DEF PassIsOnRow
      <4>2. \A q \in Proc : pc[q] \notin {"write", "record"}
        BY <2>2, <2>6, OnlyOne DEF Busy
      <4>3. {t \in tuples[fgaStoreId] : t \in Tuple} = record
        BY <2>6, <3>2, <4>1, <4>2 DEF RecordIsStore
      <4>4. QED
        BY <3>2, <4>1, <4>3
    <3>3. QED
      BY <3>1, <3>2
  <2>7. ASSUME late = 0, w[p].scan \/ faults = 0, w[p].store \in exists
        PROVE  \A t \in Tuple \ (wr \cup de) : t \in tuples[w[p].store] <=> t \in w[p].want
    BY <2>6, <2>7 DEF diffWrites, diffDeletes, isManaged
  <2> HIDE DEF have, wr, de
  <2>8. QED
    BY <2>1, <2>2, <2>3, <2>4, <2>5, <2>7 DEF Applied
<1>14. ASSUME NEW p \in Proc, NEW t \in w[p].left, WriteTuple(p, t) PROVE Applied'
  <2>1. \A q \in Proc : q # p => pc'[q] = pc[q] /\ w'[q] = w[q]
    BY <1>14 DEF WriteTuple, Goto, TypeOK
  <2>2. pc[p] = "write" /\ UNCHANGED <<late, faults, exists>>
    BY <1>14 DEF WriteTuple, bounds
  <2>3. /\ w'[p].left = w[p].left \ {t} /\ w'[p].writes = w[p].writes /\ w'[p].want = w[p].want
        /\ w'[p].store = w[p].store /\ w'[p].scan = w[p].scan /\ w'[p].ok = w[p].ok
        /\ w'[p].dropped = w[p].dropped
    BY <1>14 DEF WriteTuple, TypeOK, Pass
  <2>4. pc'[p] \in {"write", "record"} /\ (pc'[p] = "record" => w'[p].left = {})
    BY <1>14, <2>3 DEF WriteTuple, Goto, TypeOK
  <2>5. /\ \A x : x # t => (x \in tuples'[w[p].store] <=> x \in tuples[w[p].store])
        /\ t \in tuples'[w[p].store] <=> t \in w[p].writes
    BY <1>14 DEF WriteTuple, TypeOK
  <2>6. late = 0 => \A q \in Proc : q # p => pc[q] = "idle"
    BY <2>2, OnlyOne DEF Busy
  <2>7. QED
    BY <2>1, <2>2, <2>3, <2>4, <2>5, <2>6 DEF Applied
<1>drop. ASSUME NEW p \in Proc, NEW t \in w[p].left, WriteDropped(p, t) PROVE Applied'
  <2>1. \A q \in Proc : q # p => pc'[q] = pc[q] /\ w'[q] = w[q]
    BY <1>drop DEF WriteDropped, Goto, TypeOK
  <2>2. pc[p] = "write" /\ UNCHANGED <<late, exists, tuples>>
    BY <1>drop DEF WriteDropped, fga
  <2>3. /\ w'[p].left = w[p].left \ {t} /\ w'[p].writes = w[p].writes /\ w'[p].want = w[p].want
        /\ w'[p].store = w[p].store /\ w'[p].dropped
    BY <1>drop DEF WriteDropped, TypeOK, Pass
  <2>4. pc'[p] \in {"write", "record"} /\ (pc'[p] = "record" => w'[p].left = {})
    BY <1>drop, <2>3 DEF WriteDropped, Goto, TypeOK
  <2>5. w[p].store \in exists => faults' # 0
    BY <1>drop DEF WriteDropped, Fault, TypeOK
  <2>6. late = 0 => \A q \in Proc : q # p => pc[q] = "idle"
    BY <2>2, OnlyOne DEF Busy
  <2>7. QED
    BY <2>1, <2>2, <2>3, <2>4, <2>5, <2>6 DEF Applied
<1>15. ASSUME NEW p \in Proc, Record(p) PROVE Applied'
  BY <1>15, NoPassKnows DEF Applied, Record, recordGrants, Goto, facts, fga, lease, bounds
<1>16. ASSUME NEW p \in Proc, Finish(p) PROVE Applied'
  BY <1>16, NoPassKnows DEF Applied, Finish, Goto, facts, fga, lease, bounds
<1>17. ASSUME NEW p \in Proc, Mark(p) PROVE Applied'
  BY <1>17, NoPassKnows DEF Applied, Mark, End, facts, fga, lease, bounds
<1>18. ASSUME NEW p \in Proc, Throws(p) PROVE Applied'
  BY <1>18, NoPassKnows
  DEF Applied, Throws, Fault, Goto, Upset, facts, row, fga, lease, Exclusive, PassIsOnRow,
      RecordIsStore, TypeOK
<1>19. ASSUME NEW p \in Proc, Stop(p) PROVE Applied'
  BY <1>19, NoPassKnows DEF Applied, Stop, End, facts, row, fga
<1>20. ASSUME NEW p \in Proc, Unreachable(p) PROVE Applied'
  BY <1>20, NoPassKnows
  DEF Applied, Unreachable, Fault, Goto, Upset, facts, fga, lease, Exclusive, PassIsOnRow,
      RecordIsStore, TypeOK
<1>21. ASSUME NEW p \in Proc, RecordUnanswered(p) PROVE Applied'
  BY <1>21, NoPassKnows
  DEF Applied, RecordUnanswered, Fault, recordGrants, Goto, Upset, facts, fga, lease,
      Exclusive, PassIsOnRow, RecordIsStore, TypeOK
<1>22. ASSUME NEW p \in Proc, PassThrows(p) PROVE Applied'
  BY <1>22, NoPassKnows
  DEF Applied, PassThrows, Fault, Goto, Upset, facts, row, fga, lease, Exclusive,
      PassIsOnRow, RecordIsStore, TypeOK
<1>23. ASSUME NEW p \in Proc, Crash(p) PROVE Applied'
  BY <1>23, NoPassKnows
  DEF Applied, Crash, Fault, End, Upset, NoPass, facts, row, fga, lease, Exclusive,
      PassIsOnRow, RecordIsStore, TypeOK
<1>24. ASSUME NEW s \in StoreId, StoreLost(s) PROVE Applied'
  BY <1>24, NoPassKnows DEF Applied, StoreLost, facts, row, lease, bounds
<1>25. ASSUME LeaseExpires PROVE Applied'
  BY <1>25, NoPassKnows
  DEF Applied, LeaseExpires, Upset, facts, row, fga, Exclusive, PassIsOnRow,
      RecordIsStore, TypeOK
<1>26. ASSUME UploadModel PROVE Applied'
  <2>1. \A s \in StoreId, t \in Tuple : t \in tuples'[s] <=> t \in tuples[s]
    BY <1>26, NoGrant DEF UploadModel, TypeOK
  <2>2. UNCHANGED <<late, faults, exists, pc, w>> /\ exists \subseteq StoreId
    BY <1>26 DEF UploadModel, bounds, TypeOK
  <2>3. QED
    BY <2>1, <2>2 DEF Applied
<1>27. CASE UNCHANGED <<exists, tuples, pc, w, faults, late>>
  BY <1>27 DEF Applied
<1>28. QED
  BY <1>drop, <1>1, <1>2, <1>3, <1>4, <1>5, <1>6, <1>7, <1>8, <1>9, <1>10, <1>11, <1>12, <1>13,
     <1>14, <1>15, <1>16, <1>17, <1>18, <1>19, <1>20, <1>21, <1>22, <1>23, <1>24, <1>25, <1>26,
     <1>27
  DEF Next, WorkerStep, vars, facts, row, fga, lease, bounds, Place, ReconcileNow,
      SetMember, Request, Age, ScanAge, Change, requestReconcile

(* The record is replaced when the store holds what it says. *)
LEMMA RecordIsStoreStep == TypeOK /\ Exclusive /\ StoresAreMade /\ PassIsOnRow /\ UnrecordedIsEmpty /\ Applied /\ RecordIsStore /\ [Next]_vars => RecordIsStore'
<1> SUFFICES ASSUME TypeOK, Exclusive, StoresAreMade, PassIsOnRow, UnrecordedIsEmpty, Applied, RecordIsStore, [Next]_vars PROVE RecordIsStore'
  OBVIOUS
<1>1. ASSUME NEW k \in {"tenant", "cluster"}, RequestLost(k) PROVE RecordIsStore'
  BY <1>1, NoPassKnows
  DEF RecordIsStore, RequestLost, Fault, Upset, row, fga, lease, Exclusive, StoresAreMade,
      PassIsOnRow, UnrecordedIsEmpty, Applied, TypeOK
<1>2. ASSUME NEW p \in Proc, Acquire(p) PROVE RecordIsStore'
  BY <1>2, NoPassKnows
  DEF RecordIsStore, Acquire, acquireLease, Goto, mayAcquire, facts, row, fga, bounds
<1>3. ASSUME NEW p \in Proc, Select(p) PROVE RecordIsStore'
  BY <1>3, NoPassKnows
  DEF RecordIsStore, Select, Goto, End, NoPass, facts, row, fga, lease, bounds, Exclusive,
      StoresAreMade, PassIsOnRow, UnrecordedIsEmpty, Applied, TypeOK
<1>4. ASSUME NEW p \in Proc, Renew(p) PROVE RecordIsStore'
  BY <1>4, NoPassKnows
  DEF RecordIsStore, Renew, acquireLease, Goto, mayAcquire, End, NoPass, facts, row, fga,
      lease, bounds, Exclusive, StoresAreMade, PassIsOnRow, UnrecordedIsEmpty, Applied, TypeOK
<1>5. ASSUME NEW p \in Proc, Load(p) PROVE RecordIsStore'
  BY <1>5, NoPassKnows DEF RecordIsStore, Load, Goto, facts, row, fga, lease, bounds
<1>6. ASSUME NEW p \in Proc, Open(p) PROVE RecordIsStore'
  BY <1>6, NoPassKnows
  DEF RecordIsStore, Open, Goto, facts, row, fga, lease, bounds, Exclusive, StoresAreMade,
      PassIsOnRow, UnrecordedIsEmpty, Applied, TypeOK
<1>7. ASSUME NEW p \in Proc, Create(p) PROVE RecordIsStore'
  <2>1. pc[p] = "create" /\ UNCHANGED <<late, faults, record, fgaStoreId>>
    BY <1>7 DEF Create, bounds, row
  <2>2. exists' = exists \cup {made + 1}
    BY <1>7 DEF Create
  <2>3. late = 0 => exists = {}
    BY <2>1 DEF PassIsOnRow
  <2>4. fgaStoreId # made + 1
    <3>1. fgaStoreId <= made /\ fgaStoreId \in Nat /\ made \in Nat
      BY CountAssumption DEF StoresAreMade, TypeOK, StoreId, NoStore
    <3>2. QED
      BY <3>1
  <2>5. QED
    BY <2>1, <2>2, <2>3, <2>4 DEF RecordIsStore
<1>8. ASSUME NEW p \in Proc, Adopt(p) PROVE RecordIsStore'
  <2>1. /\ pc[p] = "adopt" /\ fgaStoreId' = w[p].store /\ record' = {}
        /\ UNCHANGED <<late, faults, exists, tuples>>
    BY <1>8 DEF Adopt, bounds, fga
  <2>2. late = 0 => fgaStoreId \notin exists
    BY <2>1 DEF PassIsOnRow
  <2>3. Calm /\ w[p].store \in exists => readManaged(w[p].store) = {}
    BY <2>2 DEF UnrecordedIsEmpty, Calm
  <2>4. QED
    BY <2>1, <2>3 DEF RecordIsStore, Calm, readManaged, isManaged
<1>9. ASSUME NEW p \in Proc, Config(p) PROVE RecordIsStore'
  BY <1>9, NoPassKnows DEF RecordIsStore, Config, Goto, facts, row, fga, lease, bounds
<1>10. ASSUME NEW p \in Proc, ReadPlacements(p) PROVE RecordIsStore'
  BY <1>10, NoPassKnows
  DEF RecordIsStore, ReadPlacements, Fault, Goto, Upset, facts, row, fga, lease,
      Exclusive, StoresAreMade, PassIsOnRow, UnrecordedIsEmpty, Applied, TypeOK
<1>11. ASSUME NEW p \in Proc, ReadMembers(p) PROVE RecordIsStore'
  BY <1>11, NoPassKnows DEF RecordIsStore, ReadMembers, Goto, facts, row, fga, lease, bounds
<1>12. ASSUME NEW p \in Proc, WaitForModel(p) PROVE RecordIsStore'
  BY <1>12, NoPassKnows
  DEF RecordIsStore, WaitForModel, Goto, facts, row, fga, lease, bounds, Fault, Upset, Exclusive,
      StoresAreMade, PassIsOnRow, UnrecordedIsEmpty, Applied, TypeOK
<1>13. ASSUME NEW p \in Proc, Diff(p) PROVE RecordIsStore'
  BY <1>13, NoPassKnows DEF RecordIsStore, Diff, Goto, facts, row, fga, lease, bounds
<1>14. ASSUME NEW p \in Proc, NEW t \in w[p].left, WriteTuple(p, t) PROVE RecordIsStore'
  BY <1>14, NoPassKnows DEF RecordIsStore, WriteTuple, Goto, facts, row, lease, bounds
<1>drop. ASSUME NEW p \in Proc, NEW t \in w[p].left, WriteDropped(p, t) PROVE RecordIsStore'
  BY <1>drop, NoPassKnows
  DEF RecordIsStore, WriteDropped, Goto, Fault, Upset, facts, row, fga, lease, TypeOK, Calm
<1>15. ASSUME NEW p \in Proc, Record(p) PROVE RecordIsStore'
  BY <1>15, TupleAssumption, WorkerAssumption, CountAssumption
  DEF RecordIsStore, Record, recordGrants, Goto, facts, fga, lease, bounds, TypeOK, Pass,
      Step, Exclusive, StoresAreMade, PassIsOnRow, UnrecordedIsEmpty, Applied
<1>16. ASSUME NEW p \in Proc, Finish(p) PROVE RecordIsStore'
  BY <1>16, NoPassKnows DEF RecordIsStore, Finish, Goto, facts, fga, lease, bounds
<1>17. ASSUME NEW p \in Proc, Mark(p) PROVE RecordIsStore'
  BY <1>17, NoPassKnows DEF RecordIsStore, Mark, End, facts, fga, lease, bounds
<1>18. ASSUME NEW p \in Proc, Throws(p) PROVE RecordIsStore'
  BY <1>18, NoPassKnows
  DEF RecordIsStore, Throws, Fault, Goto, Upset, facts, row, fga, lease, Exclusive,
      StoresAreMade, PassIsOnRow, UnrecordedIsEmpty, Applied, TypeOK
<1>19. ASSUME NEW p \in Proc, Stop(p) PROVE RecordIsStore'
  BY <1>19, NoPassKnows DEF RecordIsStore, Stop, End, facts, row, fga
<1>20. ASSUME NEW p \in Proc, Unreachable(p) PROVE RecordIsStore'
  BY <1>20, NoPassKnows
  DEF RecordIsStore, Unreachable, Fault, Goto, Upset, facts, fga, lease, Exclusive,
      StoresAreMade, PassIsOnRow, UnrecordedIsEmpty, Applied, TypeOK
<1>21. ASSUME NEW p \in Proc, RecordUnanswered(p) PROVE RecordIsStore'
  BY <1>21, NoPassKnows
  DEF RecordIsStore, RecordUnanswered, Fault, recordGrants, Goto, Upset, facts, fga,
      lease, Exclusive, StoresAreMade, PassIsOnRow, UnrecordedIsEmpty, Applied, TypeOK
<1>22. ASSUME NEW p \in Proc, PassThrows(p) PROVE RecordIsStore'
  BY <1>22, NoPassKnows
  DEF RecordIsStore, PassThrows, Fault, Goto, Upset, facts, row, fga, lease, Exclusive,
      StoresAreMade, PassIsOnRow, UnrecordedIsEmpty, Applied, TypeOK
<1>23. ASSUME NEW p \in Proc, Crash(p) PROVE RecordIsStore'
  BY <1>23, NoPassKnows
  DEF RecordIsStore, Crash, Fault, End, Upset, NoPass, facts, row, fga, lease, Exclusive,
      StoresAreMade, PassIsOnRow, UnrecordedIsEmpty, Applied, TypeOK
<1>24. ASSUME NEW s \in StoreId, StoreLost(s) PROVE RecordIsStore'
  BY <1>24, NoPassKnows DEF RecordIsStore, StoreLost, facts, row, lease, bounds
<1>25. ASSUME LeaseExpires PROVE RecordIsStore'
  BY <1>25, NoPassKnows
  DEF RecordIsStore, LeaseExpires, Upset, facts, row, fga, Exclusive, StoresAreMade,
      PassIsOnRow, UnrecordedIsEmpty, Applied, TypeOK
<1>26. ASSUME UploadModel PROVE RecordIsStore'
  <2>1. \A s \in StoreId, t \in Tuple : t \in tuples'[s] <=> t \in tuples[s]
    BY <1>26, NoGrant DEF UploadModel, TypeOK
  <2>2. UNCHANGED <<late, faults, exists, pc, record, fgaStoreId>> /\ exists \subseteq StoreId
    BY <1>26 DEF UploadModel, bounds, row, TypeOK
  <2>3. QED
    BY <2>1, <2>2 DEF RecordIsStore
<1>27. CASE UNCHANGED <<fgaStoreId, record, exists, tuples, pc, faults, late>>
  BY <1>27 DEF RecordIsStore
<1>28. QED
  BY <1>drop, <1>1, <1>2, <1>3, <1>4, <1>5, <1>6, <1>7, <1>8, <1>9, <1>10, <1>11, <1>12, <1>13,
     <1>14, <1>15, <1>16, <1>17, <1>18, <1>19, <1>20, <1>21, <1>22, <1>23, <1>24, <1>25, <1>26,
     <1>27
  DEF Next, WorkerStep, vars, facts, row, fga, lease, bounds, Place, ReconcileNow,
      SetMember, Request, Age, ScanAge, Change, requestReconcile

(* A pass that changed nothing found the record as it wanted it. *)
LEMMA PassIsRecordedStep == TypeOK /\ Exclusive /\ PassIsRecorded /\ [Next]_vars => PassIsRecorded'
<1> SUFFICES ASSUME TypeOK, Exclusive, PassIsRecorded, [Next]_vars PROVE PassIsRecorded'
  OBVIOUS
<1>1. ASSUME NEW k \in {"tenant", "cluster"}, RequestLost(k) PROVE PassIsRecorded'
  BY <1>1, NoPassKnows
  DEF PassIsRecorded, Calm, RequestLost, Fault, Upset, row, fga, lease, Exclusive, TypeOK
<1>2. ASSUME NEW p \in Proc, Acquire(p) PROVE PassIsRecorded'
  BY <1>2, NoPassKnows
  DEF PassIsRecorded, Calm, Acquire, acquireLease, Goto, mayAcquire, facts, row, fga,
      bounds
<1>3. ASSUME NEW p \in Proc, Select(p) PROVE PassIsRecorded'
  BY <1>3, NoPassKnows
  DEF PassIsRecorded, Calm, Select, Goto, End, NoPass, facts, row, fga, lease, bounds,
      Exclusive, TypeOK
<1>4. ASSUME NEW p \in Proc, Renew(p) PROVE PassIsRecorded'
  BY <1>4, NoPassKnows
  DEF PassIsRecorded, Calm, Renew, acquireLease, Goto, mayAcquire, End, NoPass, facts,
      row, fga, lease, bounds, Exclusive, TypeOK
<1>5. ASSUME NEW p \in Proc, Load(p) PROVE PassIsRecorded'
  BY <1>5, NoPassKnows
  DEF PassIsRecorded, Calm, Load, Goto, facts, row, fga, lease, bounds, Exclusive, TypeOK
<1>6. ASSUME NEW p \in Proc, Open(p) PROVE PassIsRecorded'
  BY <1>6, NoPassKnows
  DEF PassIsRecorded, Calm, Open, Goto, facts, row, fga, lease, bounds, Exclusive, TypeOK
<1>7. ASSUME NEW p \in Proc, Create(p) PROVE PassIsRecorded'
  BY <1>7, NoPassKnows DEF PassIsRecorded, Calm, Create, Goto, facts, row, lease, bounds
<1>8. ASSUME NEW p \in Proc, Adopt(p) PROVE PassIsRecorded'
  <2>1. \A q \in Proc : q # p => pc'[q] = pc[q] /\ w'[q] = w[q]
    BY <1>8 DEF Adopt, Goto, TypeOK
  <2>2. pc[p] = "adopt" /\ pc'[p] = "config" /\ UNCHANGED <<late, faults, status>>
    BY <1>8 DEF Adopt, Goto, TypeOK, bounds
  <2>3. late = 0 => \A q \in Proc : q # p => pc[q] = "idle"
    BY <2>2, OnlyOne DEF Busy
  <2>4. QED
    BY <2>1, <2>2, <2>3 DEF PassIsRecorded, Calm
<1>9. ASSUME NEW p \in Proc, Config(p) PROVE PassIsRecorded'
  BY <1>9, NoPassKnows
  DEF PassIsRecorded, Calm, Config, Goto, facts, row, fga, lease, bounds
<1>10. ASSUME NEW p \in Proc, ReadPlacements(p) PROVE PassIsRecorded'
  BY <1>10, NoPassKnows
  DEF PassIsRecorded, Calm, ReadPlacements, Fault, Goto, Upset, facts, row, fga, lease,
      Exclusive, TypeOK
<1>11. ASSUME NEW p \in Proc, ReadMembers(p) PROVE PassIsRecorded'
  BY <1>11, NoPassKnows
  DEF PassIsRecorded, Calm, ReadMembers, Goto, facts, row, fga, lease, bounds
<1>12. ASSUME NEW p \in Proc, WaitForModel(p) PROVE PassIsRecorded'
  BY <1>12, TupleAssumption, WorkerAssumption, CountAssumption
  DEF PassIsRecorded, Calm, WaitForModel, Goto, facts, row, fga, lease, bounds, Fault, Upset, TypeOK,
      Pass, Step, Exclusive
<1>13. ASSUME NEW p \in Proc, Diff(p) PROVE PassIsRecorded'
  <2>1. \A q \in Proc : q # p => pc'[q] = pc[q] /\ w'[q] = w[q]
    BY <1>13 DEF Diff, Goto, TypeOK
  <2>2. pc[p] = "diff" /\ UNCHANGED <<late, faults, status, record>>
    BY <1>13 DEF Diff, bounds, row
  <2>3. w'[p].want = w[p].want
    BY <1>13 DEF Diff, TypeOK, Pass
  <2>4. pc'[p] # "mark"
    BY <1>13 DEF Diff, Goto, TypeOK
  <2>5. pc'[p] = "finish" => diffWrites(w[p].want, record) \cup diffDeletes(w[p].want, record) = {}
    BY <1>13 DEF Diff, Goto, TypeOK
  <2>6. pc'[p] = "finish" => record = w[p].want
    BY <2>5, PassFields DEF diffWrites, diffDeletes, isManaged, TypeOK
  <2>7. QED
    BY <2>1, <2>2, <2>3, <2>4, <2>6 DEF PassIsRecorded, Calm
<1>14. ASSUME NEW p \in Proc, NEW t \in w[p].left, WriteTuple(p, t) PROVE PassIsRecorded'
  BY <1>14, NoPassKnows
  DEF PassIsRecorded, Calm, WriteTuple, Goto, facts, row, lease, bounds
<1>drop. ASSUME NEW p \in Proc, NEW t \in w[p].left, WriteDropped(p, t) PROVE PassIsRecorded'
  BY <1>drop, NoPassKnows
  DEF PassIsRecorded, WriteDropped, Goto, Fault, Upset, facts, row, fga, lease, TypeOK, Calm
<1>15. ASSUME NEW p \in Proc, Record(p) PROVE PassIsRecorded'
  <2>1. \A q \in Proc : q # p => pc'[q] = pc[q]
    BY <1>15 DEF Record, Goto, TypeOK
  <2>2. pc[p] = "record" /\ pc'[p] = "finish" /\ UNCHANGED <<late, faults, w>>
    BY <1>15 DEF Record, Goto, TypeOK, bounds
  <2>3. record' = w[p].want
    BY <1>15 DEF Record, recordGrants
  <2>4. late = 0 => \A q \in Proc : q # p => pc[q] = "idle"
    BY <2>2, OnlyOne DEF Busy
  <2>5. QED
    BY <2>1, <2>2, <2>3, <2>4 DEF PassIsRecorded, Calm
<1>16. ASSUME NEW p \in Proc, Finish(p) PROVE PassIsRecorded'
  <2>1. \A q \in Proc : q # p => pc'[q] = pc[q]
    BY <1>16 DEF Finish, Goto, TypeOK
  <2>2. pc[p] = "finish" /\ pc'[p] = "mark" /\ UNCHANGED <<late, faults, w, record>>
    BY <1>16 DEF Finish, Goto, TypeOK, bounds
  <2>3. status' = "ready" => w[p].ok
    BY <1>16 DEF Finish
  <2>4. late = 0 => \A q \in Proc : q # p => pc[q] = "idle"
    BY <2>2, OnlyOne DEF Busy
  <2>5. QED
    BY <2>1, <2>2, <2>3, <2>4 DEF PassIsRecorded, Calm
<1>17. ASSUME NEW p \in Proc, Mark(p) PROVE PassIsRecorded'
  BY <1>17, NoPassKnows
  DEF PassIsRecorded, Calm, Mark, End, NoPass, facts, fga, lease, bounds, Exclusive,
      TypeOK
<1>18. ASSUME NEW p \in Proc, Throws(p) PROVE PassIsRecorded'
  BY <1>18, NoPassKnows
  DEF PassIsRecorded, Calm, Throws, Fault, Goto, Upset, facts, row, fga, lease, Exclusive,
      TypeOK
<1>19. ASSUME NEW p \in Proc, Stop(p) PROVE PassIsRecorded'
  BY <1>19, NoPassKnows DEF PassIsRecorded, Calm, Stop, End, facts, row, fga
<1>20. ASSUME NEW p \in Proc, Unreachable(p) PROVE PassIsRecorded'
  BY <1>20, NoPassKnows
  DEF PassIsRecorded, Calm, Unreachable, Fault, Goto, Upset, facts, fga, lease, Exclusive,
      TypeOK
<1>21. ASSUME NEW p \in Proc, RecordUnanswered(p) PROVE PassIsRecorded'
  BY <1>21, NoPassKnows
  DEF PassIsRecorded, Calm, RecordUnanswered, Fault, recordGrants, Goto, Upset, facts,
      fga, lease, Exclusive, TypeOK
<1>22. ASSUME NEW p \in Proc, PassThrows(p) PROVE PassIsRecorded'
  BY <1>22, NoPassKnows
  DEF PassIsRecorded, Calm, PassThrows, Fault, Goto, Upset, facts, row, fga, lease,
      Exclusive, TypeOK
<1>23. ASSUME NEW p \in Proc, Crash(p) PROVE PassIsRecorded'
  BY <1>23, NoPassKnows
  DEF PassIsRecorded, Calm, Crash, Fault, End, Upset, NoPass, facts, row, fga, lease,
      Exclusive, TypeOK
<1>24. ASSUME LeaseExpires PROVE PassIsRecorded'
  BY <1>24, NoPassKnows
  DEF PassIsRecorded, Calm, LeaseExpires, Upset, facts, row, fga, Exclusive, TypeOK
<1>25. CASE UNCHANGED <<status, record, pc, w, faults, late>>
  BY <1>25 DEF PassIsRecorded, Calm
<1>26. QED
  BY <1>drop, <1>1, <1>2, <1>3, <1>4, <1>5, <1>6, <1>7, <1>8, <1>9, <1>10, <1>11, <1>12, <1>13,
     <1>14, <1>15, <1>16, <1>17, <1>18, <1>19, <1>20, <1>21, <1>22, <1>23, <1>24, <1>25
  DEF Next, WorkerStep, vars, facts, row, fga, lease, bounds, Place, ReconcileNow,
      SetMember, Request, StoreLost, Age, ScanAge, UploadModel, Change, requestReconcile

(* A change of what was read is followed by a request. *)
LEMMA ReadIsCoveredStep == TypeOK /\ Exclusive /\ ServedWasAsked /\ ReadIsCovered /\ [Next]_vars => ReadIsCovered'
<1> SUFFICES ASSUME TypeOK, Exclusive, ServedWasAsked, ReadIsCovered, [Next]_vars PROVE ReadIsCovered'
  OBVIOUS
<1>1. ASSUME Place PROVE ReadIsCovered'
  BY <1>1, NoPassKnows
  DEF ReadIsCovered, Calm, Covered, Wanted, Place, Change, row, fga, lease, Exclusive,
      ServedWasAsked, TypeOK
<1>2. ASSUME ReconcileNow PROVE ReadIsCovered'
  BY <1>2, NoPassKnows
  DEF ReadIsCovered, Calm, Covered, Wanted, ReconcileNow, Change, row, fga, lease,
      Exclusive, ServedWasAsked, TypeOK
<1>3. ASSUME NEW m \in Member, SetMember(m) PROVE ReadIsCovered'
  BY <1>3, NoPassKnows
  DEF ReadIsCovered, Calm, Covered, Wanted, SetMember, Change, row, fga, lease, Exclusive,
      ServedWasAsked, TypeOK
<1>4. ASSUME NEW k \in {"tenant", "cluster"}, Request(k) PROVE ReadIsCovered'
  <2>1. UNCHANGED <<pc, w, late, faults>>
    BY <1>4 DEF Request, bounds
  <2>2. \A p \in Proc : w[p].gen \in Nat /\ w[p].gen <= generation
    BY PassFields DEF TypeOK, ServedWasAsked
  <2>3. ASSUME NEW p \in Proc, Covered(w[p].want, w[p].gen)
        PROVE  \/ generation' > w[p].gen \/ asking'["cluster"] > 0
               \/ /\ placed' \/ w[p].want = {}
                  /\ w[p].want = desiredGrants(placed', members') \/ asking'["tenant"] > 0
    BY <1>4, <2>2, <2>3, RequestCovers
  <2>4. /\ placed' = placed /\ generation' \in Nat /\ generation <= generation'
        /\ generation' > generation \/ asking'["cluster"] = asking["cluster"]
    BY <1>4 DEF Request, requestReconcile, TypeOK
  <2>5. ASSUME NEW p \in Proc,
               generation > w[p].gen \/ asking["cluster"] > 0 \/ w[p].placed = placed
        PROVE  generation' > w[p].gen \/ asking'["cluster"] > 0 \/ w[p].placed = placed'
    BY <2>2, <2>4, <2>5 DEF TypeOK
  <2>6. QED
    BY <2>1, <2>3, <2>5 DEF ReadIsCovered, Calm, Covered, Wanted
<1>5. ASSUME NEW k \in {"tenant", "cluster"}, RequestLost(k) PROVE ReadIsCovered'
  BY <1>5, NoPassKnows
  DEF ReadIsCovered, Calm, Covered, Wanted, RequestLost, Fault, Upset, row, fga, lease,
      Exclusive, ServedWasAsked, TypeOK
<1>6. ASSUME NEW p \in Proc, Acquire(p) PROVE ReadIsCovered'
  BY <1>6, NoPassKnows
  DEF ReadIsCovered, Calm, Covered, Wanted, Acquire, acquireLease, Goto, mayAcquire,
      facts, row, fga, bounds
<1>7. ASSUME NEW p \in Proc, Select(p) PROVE ReadIsCovered'
  BY <1>7, NoPassKnows
  DEF ReadIsCovered, Calm, Covered, Wanted, Select, Goto, End, NoPass, facts, row, fga,
      lease, bounds, Exclusive, ServedWasAsked, TypeOK
<1>8. ASSUME NEW p \in Proc, Renew(p) PROVE ReadIsCovered'
  BY <1>8, NoPassKnows
  DEF ReadIsCovered, Calm, Covered, Wanted, Renew, acquireLease, Goto, mayAcquire, End,
      NoPass, facts, row, fga, lease, bounds, Exclusive, ServedWasAsked, TypeOK
<1>9. ASSUME NEW p \in Proc, Load(p) PROVE ReadIsCovered'
  BY <1>9, NoPassKnows
  DEF ReadIsCovered, Calm, Covered, Wanted, Load, Goto, facts, row, fga, lease, bounds,
      Exclusive, ServedWasAsked, TypeOK
<1>10. ASSUME NEW p \in Proc, Open(p) PROVE ReadIsCovered'
  BY <1>10, NoPassKnows
  DEF ReadIsCovered, Calm, Covered, Wanted, Open, Goto, facts, row, fga, lease, bounds,
      Exclusive, ServedWasAsked, TypeOK
<1>11. ASSUME NEW p \in Proc, Create(p) PROVE ReadIsCovered'
  BY <1>11, NoPassKnows
  DEF ReadIsCovered, Calm, Covered, Wanted, Create, Goto, facts, row, lease, bounds
<1>12. ASSUME NEW p \in Proc, Adopt(p) PROVE ReadIsCovered'
  BY <1>12, NoPassKnows
  DEF ReadIsCovered, Calm, Covered, Wanted, Adopt, Goto, facts, fga, lease, bounds
<1>13. ASSUME NEW p \in Proc, Config(p) PROVE ReadIsCovered'
  BY <1>13, NoPassKnows
  DEF ReadIsCovered, Calm, Covered, Wanted, Config, Goto, facts, row, fga, lease, bounds
<1>14. ASSUME NEW p \in Proc, ReadPlacements(p) PROVE ReadIsCovered'
  BY <1>14, TupleAssumption, WorkerAssumption, CountAssumption
  DEF ReadIsCovered, Calm, Covered, Wanted, ReadPlacements, Fault, Goto, Upset, facts,
      row, fga, lease, TypeOK, Pass, Step, Exclusive, ServedWasAsked
<1>15. ASSUME NEW p \in Proc, ReadMembers(p) PROVE ReadIsCovered'
  <2>1. \A q \in Proc : q # p => pc'[q] = pc[q] /\ w'[q] = w[q]
    BY <1>15 DEF ReadMembers, Goto, TypeOK
  <2>2. /\ pc[p] = "members" /\ pc'[p] = "model"
        /\ UNCHANGED <<late, faults, generation, asking, placed, members>>
    BY <1>15 DEF ReadMembers, Goto, TypeOK, bounds, row, facts
  <2>3. w'[p].gen = w[p].gen /\ w'[p].want = desiredGrants(w[p].placed, members)
    BY <1>15 DEF ReadMembers, TypeOK, Pass
  <2>4. Calm => generation > w[p].gen \/ asking["cluster"] > 0 \/ w[p].placed = placed
    BY <2>2 DEF ReadIsCovered
  <2>5. Calm => Covered(w[p].want, w[p].gen)' \/ w[p].placed # placed
    BY <2>2, <2>3 DEF Covered, Wanted, desiredGrants
  <2>6. Calm => Covered(w[p].want, w[p].gen)'
    BY <2>2, <2>3, <2>4, <2>5 DEF Covered
  <2>7. QED
    BY <2>1, <2>2, <2>6 DEF ReadIsCovered, Calm, Covered, Wanted
<1>16. ASSUME NEW p \in Proc, WaitForModel(p) PROVE ReadIsCovered'
  BY <1>16, TupleAssumption, WorkerAssumption, CountAssumption
  DEF ReadIsCovered, Calm, Covered, Wanted, WaitForModel, Goto, facts, row, fga, lease,
      bounds, Fault, Upset, TypeOK, Pass, Step, Exclusive, ServedWasAsked
<1>17. ASSUME NEW p \in Proc, Diff(p) PROVE ReadIsCovered'
  BY <1>17, NoPassKnows
  DEF ReadIsCovered, Calm, Covered, Wanted, Diff, Goto, facts, row, fga, lease, bounds,
      Exclusive, ServedWasAsked, TypeOK
<1>18. ASSUME NEW p \in Proc, NEW t \in w[p].left, WriteTuple(p, t) PROVE ReadIsCovered'
  BY <1>18, NoPassKnows
  DEF ReadIsCovered, Calm, Covered, Wanted, WriteTuple, Goto, facts, row, lease, bounds
<1>drop. ASSUME NEW p \in Proc, NEW t \in w[p].left, WriteDropped(p, t) PROVE ReadIsCovered'
  BY <1>drop, NoPassKnows
  DEF ReadIsCovered, Covered, Wanted, WriteDropped, Goto, Fault, Upset, facts, row, fga, lease, TypeOK, Calm
<1>19. ASSUME NEW p \in Proc, Record(p) PROVE ReadIsCovered'
  BY <1>19, NoPassKnows
  DEF ReadIsCovered, Calm, Covered, Wanted, Record, recordGrants, Goto, facts, fga, lease,
      bounds
<1>20. ASSUME NEW p \in Proc, Finish(p) PROVE ReadIsCovered'
  BY <1>20, NoPassKnows
  DEF ReadIsCovered, Calm, Covered, Wanted, Finish, Goto, facts, fga, lease, bounds
<1>21. ASSUME NEW p \in Proc, Mark(p) PROVE ReadIsCovered'
  BY <1>21, NoPassKnows
  DEF ReadIsCovered, Calm, Covered, Wanted, Mark, End, NoPass, facts, fga, lease, bounds,
      Exclusive, ServedWasAsked, TypeOK
<1>22. ASSUME NEW p \in Proc, Throws(p) PROVE ReadIsCovered'
  BY <1>22, NoPassKnows
  DEF ReadIsCovered, Calm, Covered, Wanted, Throws, Fault, Goto, Upset, facts, row, fga,
      lease, Exclusive, ServedWasAsked, TypeOK
<1>23. ASSUME NEW p \in Proc, Stop(p) PROVE ReadIsCovered'
  BY <1>23, NoPassKnows DEF ReadIsCovered, Calm, Covered, Wanted, Stop, End, facts, row, fga
<1>24. ASSUME NEW p \in Proc, Unreachable(p) PROVE ReadIsCovered'
  BY <1>24, NoPassKnows
  DEF ReadIsCovered, Calm, Covered, Wanted, Unreachable, Fault, Goto, Upset, facts, fga,
      lease, Exclusive, ServedWasAsked, TypeOK
<1>25. ASSUME NEW p \in Proc, RecordUnanswered(p) PROVE ReadIsCovered'
  BY <1>25, NoPassKnows
  DEF ReadIsCovered, Calm, Covered, Wanted, RecordUnanswered, Fault, recordGrants, Goto,
      Upset, facts, fga, lease, Exclusive, ServedWasAsked, TypeOK
<1>26. ASSUME NEW p \in Proc, PassThrows(p) PROVE ReadIsCovered'
  BY <1>26, NoPassKnows
  DEF ReadIsCovered, Calm, Covered, Wanted, PassThrows, Fault, Goto, Upset, facts, row,
      fga, lease, Exclusive, ServedWasAsked, TypeOK
<1>27. ASSUME NEW p \in Proc, Crash(p) PROVE ReadIsCovered'
  BY <1>27, NoPassKnows
  DEF ReadIsCovered, Calm, Covered, Wanted, Crash, Fault, End, Upset, NoPass, facts, row,
      fga, lease, Exclusive, ServedWasAsked, TypeOK
<1>28. ASSUME LeaseExpires PROVE ReadIsCovered'
  BY <1>28, NoPassKnows
  DEF ReadIsCovered, Calm, Covered, Wanted, LeaseExpires, Upset, facts, row, fga,
      Exclusive, ServedWasAsked, TypeOK
<1>29. CASE UNCHANGED <<placed, members, asking, generation, pc, w, faults, late>>
  BY <1>29 DEF ReadIsCovered, Calm, Covered, Wanted
<1>30. QED
  BY <1>drop, <1>1, <1>2, <1>3, <1>4, <1>5, <1>6, <1>7, <1>8, <1>9, <1>10, <1>11, <1>12, <1>13,
     <1>14, <1>15, <1>16, <1>17, <1>18, <1>19, <1>20, <1>21, <1>22, <1>23, <1>24, <1>25, <1>26,
     <1>27, <1>28, <1>29
  DEF Next, WorkerStep, vars, facts, row, fga, lease, bounds, StoreLost, Age, ScanAge,
      UploadModel

(* A pass is marked served when its record is what it read. *)
LEMMA RecordIsCoveredStep == TypeOK /\ Exclusive /\ ServedWasAsked /\ PassIsRecorded /\ ReadIsCovered /\ RecordIsCovered /\ [Next]_vars => RecordIsCovered'
<1> SUFFICES ASSUME TypeOK, Exclusive, ServedWasAsked, PassIsRecorded, ReadIsCovered, RecordIsCovered, [Next]_vars PROVE RecordIsCovered'
  OBVIOUS
<1>1. ASSUME Place PROVE RecordIsCovered'
  BY <1>1, NoPassKnows
  DEF RecordIsCovered, Calm, Covered, Wanted, Place, Change, row, fga, lease, Exclusive,
      ServedWasAsked, PassIsRecorded, ReadIsCovered, TypeOK
<1>2. ASSUME ReconcileNow PROVE RecordIsCovered'
  BY <1>2, NoPassKnows
  DEF RecordIsCovered, Calm, Covered, Wanted, ReconcileNow, Change, row, fga, lease,
      Exclusive, ServedWasAsked, PassIsRecorded, ReadIsCovered, TypeOK
<1>3. ASSUME NEW m \in Member, SetMember(m) PROVE RecordIsCovered'
  BY <1>3, NoPassKnows
  DEF RecordIsCovered, Calm, Covered, Wanted, SetMember, Change, row, fga, lease,
      Exclusive, ServedWasAsked, PassIsRecorded, ReadIsCovered, TypeOK
<1>4. ASSUME NEW k \in {"tenant", "cluster"}, Request(k) PROVE RecordIsCovered'
  <2>1. UNCHANGED <<pc, late, faults, record, reconciledGeneration, status>>
    BY <1>4 DEF Request, bounds
  <2>2. reconciledGeneration \in Nat /\ reconciledGeneration <= generation
    BY DEF TypeOK, ServedWasAsked
  <2>3. ASSUME Covered(record, reconciledGeneration)
        PROVE  \/ generation' > reconciledGeneration \/ asking'["cluster"] > 0
               \/ /\ placed' \/ record = {}
                  /\ record = desiredGrants(placed', members') \/ asking'["tenant"] > 0
    BY <1>4, <2>2, <2>3, RequestCovers
  <2>4. QED
    BY <2>1, <2>3 DEF RecordIsCovered, Calm, Covered, Wanted
<1>5. ASSUME NEW k \in {"tenant", "cluster"}, RequestLost(k) PROVE RecordIsCovered'
  BY <1>5, NoPassKnows
  DEF RecordIsCovered, Calm, Covered, Wanted, RequestLost, Fault, Upset, row, fga, lease,
      Exclusive, ServedWasAsked, PassIsRecorded, ReadIsCovered, TypeOK
<1>6. ASSUME NEW p \in Proc, Acquire(p) PROVE RecordIsCovered'
  BY <1>6, NoPassKnows
  DEF RecordIsCovered, Calm, Covered, Wanted, Acquire, acquireLease, Goto, mayAcquire,
      facts, row, fga, bounds
<1>7. ASSUME NEW p \in Proc, Select(p) PROVE RecordIsCovered'
  BY <1>7, NoPassKnows
  DEF RecordIsCovered, Calm, Covered, Wanted, Select, Goto, End, NoPass, facts, row, fga,
      lease, bounds, Exclusive, ServedWasAsked, PassIsRecorded, ReadIsCovered, TypeOK
<1>8. ASSUME NEW p \in Proc, Renew(p) PROVE RecordIsCovered'
  BY <1>8, NoPassKnows
  DEF RecordIsCovered, Calm, Covered, Wanted, Renew, acquireLease, Goto, mayAcquire, End,
      NoPass, facts, row, fga, lease, bounds, Exclusive, ServedWasAsked, PassIsRecorded,
      ReadIsCovered, TypeOK
<1>9. ASSUME NEW p \in Proc, Load(p) PROVE RecordIsCovered'
  BY <1>9, NoPassKnows
  DEF RecordIsCovered, Calm, Covered, Wanted, Load, Goto, facts, row, fga, lease, bounds
<1>10. ASSUME NEW p \in Proc, Open(p) PROVE RecordIsCovered'
  BY <1>10, NoPassKnows
  DEF RecordIsCovered, Calm, Covered, Wanted, Open, Goto, facts, row, fga, lease, bounds,
      Exclusive, ServedWasAsked, PassIsRecorded, ReadIsCovered, TypeOK
<1>11. ASSUME NEW p \in Proc, Create(p) PROVE RecordIsCovered'
  BY <1>11, NoPassKnows
  DEF RecordIsCovered, Calm, Covered, Wanted, Create, Goto, facts, row, lease, bounds
<1>12. ASSUME NEW p \in Proc, Adopt(p) PROVE RecordIsCovered'
  BY <1>12, NoPassKnows
  DEF RecordIsCovered, Calm, Covered, Wanted, Adopt, Goto, facts, fga, lease, bounds
<1>13. ASSUME NEW p \in Proc, Config(p) PROVE RecordIsCovered'
  BY <1>13, NoPassKnows
  DEF RecordIsCovered, Calm, Covered, Wanted, Config, Goto, facts, row, fga, lease, bounds
<1>14. ASSUME NEW p \in Proc, ReadPlacements(p) PROVE RecordIsCovered'
  BY <1>14, NoPassKnows
  DEF RecordIsCovered, Calm, Covered, Wanted, ReadPlacements, Fault, Goto, Upset, facts,
      row, fga, lease
<1>15. ASSUME NEW p \in Proc, ReadMembers(p) PROVE RecordIsCovered'
  BY <1>15, NoPassKnows
  DEF RecordIsCovered, Calm, Covered, Wanted, ReadMembers, Goto, facts, row, fga, lease,
      bounds
<1>16. ASSUME NEW p \in Proc, WaitForModel(p) PROVE RecordIsCovered'
  BY <1>16, NoPassKnows
  DEF RecordIsCovered, Calm, Covered, Wanted, WaitForModel, Goto, facts, row, fga, lease,
      bounds, Fault, Upset, Exclusive, ServedWasAsked, PassIsRecorded, ReadIsCovered, TypeOK
<1>17. ASSUME NEW p \in Proc, Diff(p) PROVE RecordIsCovered'
  BY <1>17, NoPassKnows
  DEF RecordIsCovered, Calm, Covered, Wanted, Diff, Goto, facts, row, fga, lease, bounds
<1>18. ASSUME NEW p \in Proc, NEW t \in w[p].left, WriteTuple(p, t) PROVE RecordIsCovered'
  BY <1>18, NoPassKnows
  DEF RecordIsCovered, Calm, Covered, Wanted, WriteTuple, Goto, facts, row, lease, bounds
<1>drop. ASSUME NEW p \in Proc, NEW t \in w[p].left, WriteDropped(p, t) PROVE RecordIsCovered'
  BY <1>drop, NoPassKnows
  DEF RecordIsCovered, WriteDropped, Goto, Fault, Upset, facts, row, fga, lease, TypeOK, Calm
<1>19. ASSUME NEW p \in Proc, Record(p) PROVE RecordIsCovered'
  BY <1>19, NoPassKnows
  DEF RecordIsCovered, Calm, Covered, Wanted, Record, recordGrants, Goto, facts, fga,
      lease, bounds
<1>20. ASSUME NEW p \in Proc, Finish(p) PROVE RecordIsCovered'
  BY <1>20, NoPassKnows
  DEF RecordIsCovered, Calm, Covered, Wanted, Finish, Goto, facts, fga, lease, bounds
<1>21. ASSUME NEW p \in Proc, Mark(p) PROVE RecordIsCovered'
  BY <1>21, NoPassKnows
  DEF RecordIsCovered, Calm, Covered, Wanted, Mark, End, NoPass, facts, fga, lease,
      bounds, Exclusive, ServedWasAsked, PassIsRecorded, ReadIsCovered
<1>22. ASSUME NEW p \in Proc, Throws(p) PROVE RecordIsCovered'
  BY <1>22, NoPassKnows
  DEF RecordIsCovered, Calm, Covered, Wanted, Throws, Fault, Goto, Upset, facts, row, fga,
      lease
<1>23. ASSUME NEW p \in Proc, Stop(p) PROVE RecordIsCovered'
  BY <1>23, NoPassKnows
  DEF RecordIsCovered, Calm, Covered, Wanted, Stop, End, facts, row, fga
<1>24. ASSUME NEW p \in Proc, Unreachable(p) PROVE RecordIsCovered'
  BY <1>24, NoPassKnows
  DEF RecordIsCovered, Calm, Covered, Wanted, Unreachable, Fault, Goto, Upset, facts, fga,
      lease
<1>25. ASSUME NEW p \in Proc, RecordUnanswered(p) PROVE RecordIsCovered'
  BY <1>25, NoPassKnows
  DEF RecordIsCovered, Calm, Covered, Wanted, RecordUnanswered, Fault, recordGrants, Goto,
      Upset, facts, fga, lease
<1>26. ASSUME NEW p \in Proc, PassThrows(p) PROVE RecordIsCovered'
  BY <1>26, NoPassKnows
  DEF RecordIsCovered, Calm, Covered, Wanted, PassThrows, Fault, Goto, Upset, facts, row,
      fga, lease, Exclusive, ServedWasAsked, PassIsRecorded, ReadIsCovered, TypeOK
<1>27. ASSUME NEW p \in Proc, Crash(p) PROVE RecordIsCovered'
  BY <1>27, NoPassKnows
  DEF RecordIsCovered, Calm, Covered, Wanted, Crash, Fault, End, Upset, NoPass, facts,
      row, fga, lease, Exclusive, ServedWasAsked, PassIsRecorded, ReadIsCovered, TypeOK
<1>28. ASSUME LeaseExpires PROVE RecordIsCovered'
  BY <1>28, NoPassKnows
  DEF RecordIsCovered, Calm, Covered, Wanted, LeaseExpires, Upset, facts, row, fga,
      Exclusive, ServedWasAsked, PassIsRecorded, ReadIsCovered, TypeOK
<1>29. CASE UNCHANGED <<placed, members, asking, generation, reconciledGeneration, status, record, pc, faults, late>>
  BY <1>29 DEF RecordIsCovered, Calm, Covered, Wanted
<1>30. QED
  BY <1>drop, <1>1, <1>2, <1>3, <1>4, <1>5, <1>6, <1>7, <1>8, <1>9, <1>10, <1>11, <1>12, <1>13,
     <1>14, <1>15, <1>16, <1>17, <1>18, <1>19, <1>20, <1>21, <1>22, <1>23, <1>24, <1>25, <1>26,
     <1>27, <1>28, <1>29
  DEF Next, WorkerStep, vars, facts, row, fga, lease, bounds, StoreLost, Age, ScanAge,
      UploadModel

-----------------------------------------------------------------------------
(* A cluster just enrolled has no store and no pass: the invariant holds. *)
LEMMA InitIInv == Init => IInv
<1> SUFFICES ASSUME Init PROVE IInv
  OBVIOUS
<1>1. TypeOK
  <2>1. made \in 0..MaxStores /\ changes \in 0..MaxChanges
        /\ faults \in 0..MaxUpsets /\ late \in 0..MaxUpsets
    BY CountAssumption DEF Init
  <2>2. pc \in [Proc -> Step] /\ w \in [Proc -> Pass]
    BY NoPassKnows DEF Init, Step
  <2>3. QED
    BY <2>1, <2>2 DEF Init, TypeOK
<1>2. \A p \in Proc : pc[p] = "idle" /\ w[p] = NoPass
  BY DEF Init
<1>3. Exclusive /\ PassIsOnRow /\ PassIsRecorded /\ ReadIsCovered
  BY <1>2 DEF Exclusive, Busy, PassIsOnRow, PassIsRecorded, ReadIsCovered
<1>4. ServedWasAsked
  BY <1>2, NoPassKnows DEF Init, ServedWasAsked
<1>5. StoresAreMade
  BY <1>2, NoPassKnows DEF Init, StoresAreMade, NoStore
<1>6. IncusIsKept /\ UnrecordedIsEmpty /\ ConfiguredIsRow /\ RecordIsStore /\ RecordIsCovered
  BY DEF Init, IncusIsKept, UnrecordedIsEmpty, ConfiguredIsRow, RecordIsStore, RecordIsCovered
<1>7. Applied
  BY <1>2 DEF Applied
<1>8. QED
  BY <1>1, <1>3, <1>4, <1>5, <1>6, <1>7 DEF IInv

(* The inductive invariant of the reconciler. *)
THEOREM Invariance == Spec => []IInv
<1>1. IInv /\ [Next]_vars => IInv'
  BY TypeStep, ExclusiveStep, ServedWasAskedStep, StoresAreMadeStep, IncusIsKeptStep,
     PassIsOnRowStep, UnrecordedIsEmptyStep, ConfiguredIsRowStep, AppliedStep,
     RecordIsStoreStep, PassIsRecordedStep, ReadIsCoveredStep, RecordIsCoveredStep
  DEF IInv
<1>2. QED
  BY InitIInv, <1>1, PTL DEF Spec

(* The variables keep their types: facts, row, stores, lease, passes. *)
THEOREM TypeCorrect == Spec => []TypeOK
<1>1. IInv => TypeOK
  BY DEF IInv
<1>2. QED
  BY Invariance, <1>1, PTL

(* Until something fails, cluster_grants says what the recorded store holds. *)
THEOREM RecordMatchesStore == Spec => []RecordIsStore
<1>1. IInv => RecordIsStore
  BY DEF IInv
<1>2. QED
  BY Invariance, <1>1, PTL

(* A scanning pass without a problem whose own writes arrived leaves exactly what it
   wanted, whatever failed or was silently not written before, and Incus's own tuple. *)
THEOREM ScansRepair == Spec => []ScanRepairs
<1>1. IInv => ScanRepairs
  <2> SUFFICES ASSUME IInv, NEW p \in Proc, late = 0, ScannedWell(p), ~w[p].dropped
               PROVE  /\ tuples[w[p].store] \ {IncusTuple} = w[p].want
                      /\ w[p].store \in modelled => IncusTuple \in tuples[w[p].store]
    BY DEF ScanRepairs
  <2>1. w[p].left = {} /\ \A t \in Tuple \ w[p].left : t \in tuples[w[p].store] <=> t \in w[p].want
    BY DEF IInv, Applied, ScannedWell
  <2>2. tuples[w[p].store] \subseteq Tuple \cup {IncusTuple} /\ w[p].want \subseteq Tuple
    BY PassFields DEF IInv, TypeOK, ScannedWell
  <2>3. tuples[w[p].store] \ {IncusTuple} = w[p].want
    BY <2>1, <2>2, NoGrant
  <2>4. QED
    BY <2>3 DEF IInv, IncusIsKept
<1>2. QED
  BY Invariance, <1>1, PTL

(* When all requests are served, the cluster is ready and nothing has failed, its
   store holds exactly the grants the facts ask for. *)
THEOREM SettledIsAppliedAlways == Spec => []SettledIsApplied
<1>1. IInv => SettledIsApplied
  <2> SUFFICES ASSUME IInv, Calm, NoneAsks, generation = reconciledGeneration,
                      status = "ready", \A p \in Proc : ~Busy(p), fgaStoreId \in exists
               PROVE  configured = fgaStoreId /\ readManaged(fgaStoreId) = Wanted
    BY DEF SettledIsApplied, Calm
  <2>1. \A p \in Proc : pc[p] = "idle"
    BY DEF Busy
  <2>2. configured = fgaStoreId
    BY <2>1 DEF IInv, ConfiguredIsRow
  <2>3. readManaged(fgaStoreId) = record
    BY <2>1 DEF IInv, RecordIsStore, Calm, readManaged, isManaged
  <2>4. Covered(record, reconciledGeneration)
    BY <2>1 DEF IInv, RecordIsCovered
  <2>5. asking["tenant"] = 0 /\ asking["cluster"] = 0 /\ generation \in Nat
    BY DEF IInv, TypeOK, NoneAsks
  <2>6. record = Wanted
    BY <2>4, <2>5 DEF Covered
  <2>7. QED
    BY <2>2, <2>3, <2>6
<1>2. QED
  BY Invariance, <1>1, PTL
=============================================================================
