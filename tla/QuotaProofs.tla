---------------------------- MODULE QuotaProofs ----------------------------
(***************************************************************************)
(* Proofs about Quota, for any finite sets of clusters and instances, any  *)
(* quotas and shares and any number of upsets.                             *)
(***************************************************************************)
EXTENDS Quota, TLAPS, FiniteSetTheorems

(* An idle reconciler holds nothing. *)
LEMMA IdlePass ==
  Idle \in PassState /\ Idle.step = "idle" /\ Idle.seen = {} /\ Idle.quota = 0 /\ Idle.limit = 0
BY DEF Idle, PassState

(* The fields of a pass. *)
LEMMA PassFields ==
  ASSUME pass \in PassState
  PROVE  /\ pass.step \in {"idle", "record", "split", "apply"}
         /\ pass.at \in Cluster \cup {Nowhere} /\ pass.seen \subseteq Instance
         /\ pass.quota \in Nat /\ pass.limit \in Nat
BY DEF PassState

(* Instances are finitely many, so every set of them has a size, and smaller sets a
   smaller one. *)
LEMMA Sizes ==
  ASSUME NEW S, S \subseteq Instance
  PROVE  /\ IsFiniteSet(S) /\ Cardinality(S) \in Nat
         /\ \A R : R \subseteq S => IsFiniteSet(R) /\ Cardinality(R) \in Nat
                                    /\ Cardinality(R) <= Cardinality(S)
BY QuotaAssumption, FS_Subset, FS_CardinalityType

(* What is split off for a project is its usage and what the quota leaves. *)
LEMMA LimitIsCount ==
  ASSUME TypeOK, NEW c \in Cluster, NEW q \in Nat
  PROVE  /\ splitLimits(c, q) \in Nat
         /\ \/ splitLimits(c, q) = Cardinality(usage[c])
            \/ splitLimits(c, q) <= q
<1>1. UNION {usage[x] : x \in Cluster} \subseteq Instance /\ usage[c] \subseteq Instance
      /\ usage[c] \subseteq UNION {usage[x] : x \in Cluster}
  BY DEF TypeOK
<1>2. sumUsage \in Nat /\ Cardinality(usage[c]) \in Nat /\ Cardinality(usage[c]) <= sumUsage
  BY <1>1, Sizes DEF sumUsage, Counted
<1>3. QED
  BY <1>2 DEF splitLimits

(* The steps of an admission up to its end only read. *)
LEMMA DecidesOnly ==
  Decides => UNCHANGED <<where, live, op, limit, quota, ceiling, usage, status, listed,
                         owned, asker, pc, seen, pass, missed, unlisted, upsets>>
BY DEF Decides, Decide, DecideUsage, DecidePending, DecideOwned, DecideShare, Refuse,
       incus, tenant, rows, jobs, history

(* The fields of an admission. *)
LEMMA DecisionFields ==
  /\ NoDecision \in Decision /\ NoDecision.step = "idle" /\ NoDecision.quota = 0
  /\ NoDecision.used = {}
  /\ decision \in Decision
       => /\ decision.step \in {"idle", "usage", "pending", "owned", "running", "enqueue"}
          /\ decision.by \in User \cup {Service} /\ decision.quota \in Nat
          /\ decision.used \subseteq Instance
BY DEF NoDecision, Decision

(* What fits in a bound fits when it shrinks, and when the bound grows. *)
LEMMA StillFits ==
  ASSUME NEW S, S \subseteq Instance, NEW R, R \subseteq S, NEW n \in Nat, NEW m \in Nat,
         Cardinality(S) <= n, n <= m
  PROVE  Cardinality(R) <= m
<1>1. Cardinality(R) \in Nat /\ Cardinality(S) \in Nat /\ Cardinality(R) <= Cardinality(S)
  BY Sizes
<1>2. QED
  BY <1>1

(* One more instance adds at most one. *)
LEMMA OneMore ==
  ASSUME NEW S, S \subseteq Instance, NEW i \in Instance, NEW R, R \subseteq S \cup {i}
  PROVE  Cardinality(R) \in Nat /\ Cardinality(S) \in Nat /\ Cardinality(R) <= Cardinality(S) + 1
<1>1. IsFiniteSet(S) /\ Cardinality(S) \in Nat
  BY Sizes
<1>2. Cardinality(S \cup {i}) = IF i \in S THEN Cardinality(S) ELSE Cardinality(S) + 1
  BY <1>1, FS_AddElement
<1>3. S \cup {i} \subseteq Instance
  OBVIOUS
<1>4. /\ Cardinality(R) \in Nat /\ Cardinality(S \cup {i}) \in Nat
      /\ Cardinality(R) <= Cardinality(S \cup {i})
  BY <1>3, Sizes
<1>5. QED
  BY <1>1, <1>2, <1>4

(* A union has at most as many instances as its parts together. *)
LEMMA UnionFits ==
  ASSUME NEW S, S \subseteq Instance, NEW T, T \subseteq Instance, NEW R, R \subseteq S \cup T
  PROVE  Cardinality(R) <= Cardinality(S) + Cardinality(T)
<1>1. IsFiniteSet(S) /\ IsFiniteSet(T)
  BY Sizes
<1>2. Cardinality(S \cup T) = Cardinality(S) + Cardinality(T) - Cardinality(S \cap T)
  BY <1>1, FS_Union
<1>3. S \cup T \subseteq Instance /\ S \cap T \subseteq Instance
  OBVIOUS
<1>4. Cardinality(S) \in Nat /\ Cardinality(T) \in Nat /\ Cardinality(S \cap T) \in Nat
  BY <1>3, Sizes
<1>5. /\ Cardinality(R) \in Nat /\ Cardinality(S \cup T) \in Nat
      /\ Cardinality(R) <= Cardinality(S \cup T)
  BY <1>3, Sizes
<1>6. QED
  BY <1>2, <1>4, <1>5

(* The quotas are numbers, and the ceiling does not come down. *)
LEMMA CeilingGrows ==
  ASSUME TypeOK, [Next]_vars
  PROVE  ceiling \in Nat /\ quota \in Nat /\ ceiling' \in Nat /\ ceiling <= ceiling'
<1>1. ceiling \in Nat /\ quota \in Nat
  BY QuotaAssumption DEF TypeOK
<1>2. CASE SetQuota
  <2>1. quota' \in Nat
    BY <1>2, QuotaAssumption DEF SetQuota
  <2>2. QED
    BY <1>1, <1>2, <2>1 DEF SetQuota
<1>3. CASE ceiling' = ceiling
  BY <1>1, <1>3
<1>4. ASSUME NEW j \in Create, Admit(j) \/ Launch(j) \/ Wait(j) \/ ReadUsage(j) \/ RecordUsage(j)
                               \/ Finish(j) \/ Operation(j)
      PROVE  ceiling' = ceiling
  BY <1>4 DEF Admit, Launch, Wait, ReadUsage, RecordUsage, Finish, Operation, tenant
<1>5. ASSUME NEW c \in Cluster, PassRead(c) \/ Collect(c) PROVE ceiling' = ceiling
  BY <1>5 DEF PassRead, Collect, tenant
<1>6. PassRecord \/ PassSplit \/ PassApply \/ PassFails => ceiling' = ceiling
  BY DEF PassRecord, PassSplit, PassApply, PassFails, tenant
<1>7. ASSUME NEW i \in Instance, Delete(i) PROVE ceiling' = ceiling
  BY <1>7 DEF Delete, tenant
<1>8. ASSUME NEW d \in Direct, CreateDirectly(d) PROVE ceiling' = ceiling
  BY <1>8 DEF CreateDirectly, tenant
<1>9. QED
  BY <1>2, <1>3, <1>4, <1>5, <1>6, <1>7, <1>8, DecidesOnly DEF Next, Job, vars, tenant

(* What the accounts count are instances. *)
LEMMA PendingInstances == TypeOK => Held \subseteq Instance
BY DEF TypeOK, pendingOf, Instance, Held

LEMMA SharedInstances == ASSUME TypeOK, NEW u PROVE Shared(u) \subseteq Instance
BY DEF TypeOK, pendingOf, Instance, Shared

LEMMA ProjectInstances == ASSUME TypeOK, NEW c PROVE projectUsage(c) \subseteq Instance
BY DEF TypeOK, projectUsage

(* A project below its limit takes one more instance within the quota. *)
LEMMA GrowsToLimit ==
  ASSUME TypeOK, CountsWithinQuota, NEW c \in Cluster, NEW i \in Instance, NEW R,
         R \subseteq projectUsage(c) \cup {i}, Cardinality(projectUsage(c)) < limit[c]
  PROVE  Cardinality(R) <= ceiling
<1>1. limit[c] \in Int /\ limit[c] <= ceiling /\ ceiling \in Nat
  BY QuotaAssumption DEF TypeOK, CountsWithinQuota, NoProject
<1>2. /\ Cardinality(R) \in Nat /\ Cardinality(projectUsage(c)) \in Nat
      /\ Cardinality(R) <= Cardinality(projectUsage(c)) + 1
  BY ProjectInstances, OneMore
<1>3. QED
  BY <1>1, <1>2

(* Nothing fits in every quota. *)
LEMMA EmptyFits == TypeOK => Cardinality({}) <= ceiling /\ 0 <= ceiling
BY FS_EmptySet, QuotaAssumption DEF TypeOK

(* A create job that goes on, or ends, was pending before. *)
LEMMA JobStepShrinks ==
  ASSUME TypeOK, NEW j \in Create, Job(j)
  PROVE  j \in pendingOf /\ pendingOf' \subseteq pendingOf /\ asker' = asker /\ live' = live
<1>1. pc[j] \in Active
  BY DEF Job, Launch, Wait, ReadUsage, RecordUsage, Finish, Active
<1>2. PICK x : pc' = [pc EXCEPT ![j] = x]
  BY DEF Job, Launch, Wait, ReadUsage, RecordUsage, Finish, Go
<1>3. pendingOf' \subseteq pendingOf
  BY <1>1, <1>2 DEF pendingOf, TypeOK
<1>4. asker' = asker /\ live' = live
  BY DEF Job, Launch, Wait, ReadUsage, RecordUsage, Finish, incus
<1>5. QED
  BY <1>1, <1>3, <1>4 DEF pendingOf

(* Every action keeps the variables in their types. *)
LEMMA TypeStep == TypeOK /\ StepsMatch /\ [Next]_vars => TypeOK'
<1> SUFFICES ASSUME TypeOK, StepsMatch, [Next]_vars PROVE TypeOK'
  OBVIOUS
<1>where. where \in [Instance -> Cluster \cup {Nowhere}]
  BY DEF TypeOK
<1>live. live \subseteq Instance
  BY DEF TypeOK
<1>op. op \in [Create -> {"none", "running", "done", "failed"}]
  BY DEF TypeOK
<1>limit. limit \in [Cluster -> {NoProject} \cup Nat]
  BY DEF TypeOK
<1>quota. quota \in Quotas
  BY DEF TypeOK
<1>ceiling. ceiling \in Quotas
  BY DEF TypeOK
<1>usage. usage \in [Cluster -> SUBSET Instance]
  BY DEF TypeOK
<1>status. status \in [Cluster -> {"pending", "ready", "error"}]
  BY DEF TypeOK
<1>listed. listed \subseteq Create
  BY DEF TypeOK
<1>owned. owned \subseteq Create
  BY DEF TypeOK
<1>decision. decision \in Decision
  BY DEF TypeOK
<1>pc. pc \in [Create -> Step]
  BY DEF TypeOK
<1>asker. asker \in [Create -> User \cup {Service}]
  BY DEF TypeOK
<1>seen. seen \in [Create -> SUBSET Instance]
  BY DEF TypeOK
<1>pass. pass \in PassState
  BY DEF TypeOK
<1>missed. missed \subseteq Instance
  BY DEF TypeOK
<1>unlisted. unlisted \subseteq Create
  BY DEF TypeOK
<1>upsets. upsets \in 0 .. MaxUpsets
  BY DEF TypeOK
<1>sets. Create \subseteq Instance /\ Direct \subseteq Instance
  BY DEF Instance
<1>project. \A c : projectUsage(c) \subseteq Instance
  BY <1>live DEF projectUsage
<1>1. ASSUME NEW j \in Create, Admit(j) PROVE TypeOK'
  <2>1. where' \in [Instance -> Cluster \cup {Nowhere}]
    BY <1>where, <1>1, IdlePass DEF Admit, Active
  <2>2. pc' \in [Create -> Step]
    BY <1>pc, <1>sets, <1>project, <1>1, IdlePass DEF Admit, Active, Step
  <2>3. asker' \in [Create -> User \cup {Service}] /\ decision' \in Decision
    BY <1>asker, <1>decision, <1>1, DecisionFields DEF Admit
  <2> QED
    BY <2>1, <2>2, <2>3, <1>1 DEF TypeOK, Admit, tenant, rows, history
<1>2. ASSUME NEW j \in Create, Launch(j) PROVE TypeOK'
  <2>1. op' \in [Create -> {"none", "running", "done", "failed"}]
    BY <1>op, <1>2, IdlePass DEF Launch, Go, Upset
  <2>2. pc' \in [Create -> Step]
    BY <1>pc, <1>sets, <1>project, <1>2, IdlePass DEF Launch, Go, Upset, Step, Active
  <2>3. missed' \subseteq Instance
    BY <1>missed, <1>sets, <1>project, <1>2 DEF Launch, Go, Upset
  <2>4. upsets' \in 0 .. MaxUpsets
    BY <1>upsets, <1>2, IdlePass, QuotaAssumption DEF Launch, Go, Upset
  <2> QED
    BY <2>1, <2>2, <2>3, <2>4, <1>2 DEF TypeOK, Launch, Go, Upset, tenant, rows
<1>3. ASSUME NEW j \in Create, Wait(j) PROVE TypeOK'
  <2>1. owned' \subseteq Create
    BY <1>owned, <1>3, IdlePass DEF Wait, Go, Upset
  <2>2. pc' \in [Create -> Step]
    BY <1>pc, <1>sets, <1>project, <1>3, IdlePass DEF Wait, Go, Upset, Step, Active
  <2>3. missed' \subseteq Instance
    BY <1>missed, <1>sets, <1>project, <1>3 DEF Wait, Go, Upset
  <2>4. upsets' \in 0 .. MaxUpsets
    BY <1>upsets, <1>3, IdlePass, QuotaAssumption DEF Wait, Go, Upset
  <2> QED
    BY <2>1, <2>2, <2>3, <2>4, <1>3 DEF TypeOK, Wait, Go, Upset, incus, tenant
<1>4. ASSUME NEW j \in Create, ReadUsage(j) PROVE TypeOK'
  <2>1. pc' \in [Create -> Step]
    BY <1>pc, <1>sets, <1>project, <1>4, IdlePass DEF ReadUsage, Go, Upset, Step, Active
  <2>2. seen' \in [Create -> SUBSET Instance]
    BY <1>seen, <1>sets, <1>project, <1>4 DEF ReadUsage, Go, Upset
  <2>3. missed' \subseteq Instance
    BY <1>missed, <1>sets, <1>project, <1>4 DEF ReadUsage, Go, Upset
  <2>4. upsets' \in 0 .. MaxUpsets
    BY <1>upsets, <1>4, IdlePass, QuotaAssumption DEF ReadUsage, Go, Upset
  <2> QED
    BY <2>1, <2>2, <2>3, <2>4, <1>4 DEF TypeOK, ReadUsage, Go, Upset, incus, tenant, rows
<1>5. ASSUME NEW j \in Create, RecordUsage(j) PROVE TypeOK'
  <2>1. usage' \in [Cluster -> SUBSET Instance]
    BY <1>usage, <1>where, <1>live, <1>op, <1>limit, <1>quota, <1>ceiling, <1>status,
       <1>listed, <1>owned, <1>pc, <1>asker, <1>seen, <1>pass, <1>missed, <1>unlisted,
       <1>upsets, <1>5
    DEF RecordUsage, Go, WriteUsage
  <2>2. pc' \in [Create -> Step]
    BY <1>pc, <1>sets, <1>project, <1>5, IdlePass
    DEF RecordUsage, Go, WriteUsage, Step, Active
  <2>3. seen' \in [Create -> SUBSET Instance]
    BY <1>seen, <1>5, IdlePass DEF RecordUsage, Go, WriteUsage
  <2>4. missed' \subseteq Instance
    BY <1>missed, <1>where, <1>live, <1>op, <1>limit, <1>quota, <1>ceiling, <1>usage,
       <1>status, <1>listed, <1>owned, <1>pc, <1>asker, <1>seen, <1>pass, <1>unlisted,
       <1>upsets, <1>5
    DEF RecordUsage, Go, WriteUsage
  <2> QED
    BY <2>1, <2>2, <2>3, <2>4, <1>5 DEF TypeOK, RecordUsage, Go, WriteUsage, incus, tenant
<1>6. ASSUME NEW j \in Create, Finish(j) PROVE TypeOK'
  <2>1. pc' \in [Create -> Step]
    BY <1>pc, <1>sets, <1>project, <1>6, IdlePass DEF Finish, Go, Step, Active
  <2>2. unlisted' \subseteq Create
    BY <1>unlisted, <1>6, IdlePass DEF Finish, Go
  <2>3. missed' \subseteq Instance
    BY <1>missed, <1>sets, <1>6 DEF Finish
  <2> QED
    BY <2>1, <2>2, <2>3, <1>6 DEF TypeOK, Finish, Go, incus, tenant, rows
<1>7. ASSUME NEW j \in Create, Operation(j) PROVE TypeOK'
  <2>1. live' \subseteq Instance
    BY <1>live, <1>sets, <1>project, <1>7 DEF Operation
  <2>2. op' \in [Create -> {"none", "running", "done", "failed"}]
    BY <1>op, <1>7, IdlePass DEF Operation
  <2> QED
    BY <2>1, <2>2, <1>7 DEF TypeOK, Operation, tenant, rows, jobs, history
<1>8. ASSUME NEW c \in Cluster, PassRead(c) PROVE TypeOK'
  <2>1. pass' \in PassState
    <3>1. quota \in Nat
      BY <1>quota, QuotaAssumption
    <3>2. QED
      BY <1>8, <1>project, <3>1 DEF PassRead, PassState, Idle
  <2> QED
    BY <2>1, <1>8 DEF TypeOK, PassRead, incus, tenant, rows, jobs, history
<1>9. ASSUME NEW c \in Cluster, Collect(c) PROVE TypeOK'
  <2>1. listed' \subseteq Create
    BY <1>listed, <1>9, IdlePass DEF Collect
  <2> QED
    BY <2>1, <1>9 DEF TypeOK, Collect, incus, tenant, jobs, history
<1>10. ASSUME PassRecord PROVE TypeOK'
  <2>1. usage' \in [Cluster -> SUBSET Instance]
    BY <1>usage, <1>where, <1>live, <1>op, <1>limit, <1>quota, <1>ceiling, <1>status,
       <1>listed, <1>owned, <1>pc, <1>asker, <1>seen, <1>pass, <1>missed, <1>unlisted,
       <1>upsets, <1>10, QuotaAssumption
    DEF PassRecord, WriteUsage, Step, Active, PassState
  <2>2. pass' \in PassState
    BY <1>pass, <1>10, IdlePass, QuotaAssumption DEF PassRecord, WriteUsage, PassState
  <2>3. missed' \subseteq Instance
    BY <1>missed, <1>where, <1>live, <1>op, <1>limit, <1>quota, <1>ceiling, <1>usage,
       <1>status, <1>listed, <1>owned, <1>pc, <1>asker, <1>seen, <1>pass, <1>unlisted,
       <1>upsets, <1>10
    DEF PassRecord, WriteUsage
  <2> QED
    BY <2>1, <2>2, <2>3, <1>10 DEF TypeOK, PassRecord, WriteUsage, incus, tenant, jobs
<1>11. ASSUME PassSplit PROVE TypeOK'
  <2>1. pass' \in PassState
    <3>1. pass.at \in Cluster /\ pass.quota \in Nat
      BY <1>11, <1>pass, PassFields DEF PassSplit, StepsMatch
    <3>2. splitLimits(pass.at, pass.quota) \in Nat
      BY <3>1, LimitIsCount
    <3>3. QED
      BY <1>11, <1>pass, <3>2 DEF PassSplit, PassState
  <2> QED
    BY <2>1, <1>11 DEF TypeOK, PassSplit, incus, tenant, rows, jobs, history
<1>12. ASSUME PassApply PROVE TypeOK'
  <2>1. limit' \in [Cluster -> {NoProject} \cup Nat]
    BY <1>limit, <1>where, <1>live, <1>op, <1>quota, <1>ceiling, <1>usage, <1>status,
       <1>listed, <1>owned, <1>pc, <1>asker, <1>seen, <1>pass, <1>missed, <1>unlisted,
       <1>upsets, <1>12, QuotaAssumption
    DEF PassApply, Idle, Step, Active, PassState
  <2>2. status' \in [Cluster -> {"pending", "ready", "error"}]
    BY <1>status, <1>12, IdlePass DEF PassApply
  <2>3. pass' \in PassState
    BY <1>pass, <1>12, IdlePass DEF PassApply
  <2> QED
    BY <2>1, <2>2, <2>3, <1>12 DEF TypeOK, PassApply, tenant, jobs, history
<1>13. ASSUME PassFails PROVE TypeOK'
  <2>1. limit' \in [Cluster -> {NoProject} \cup Nat]
    BY <1>limit, <1>where, <1>live, <1>op, <1>quota, <1>ceiling, <1>usage, <1>status,
       <1>listed, <1>owned, <1>pc, <1>asker, <1>seen, <1>pass, <1>missed, <1>unlisted,
       <1>upsets, <1>13, QuotaAssumption
    DEF PassFails, Upset, Idle, Step, Active, PassState
  <2>2. status' \in [Cluster -> {"pending", "ready", "error"}]
    BY <1>status, <1>13, IdlePass DEF PassFails, Upset
  <2>3. pass' \in PassState
    BY <1>pass, <1>13, IdlePass DEF PassFails, Upset
  <2>4. upsets' \in 0 .. MaxUpsets
    BY <1>upsets, <1>13, IdlePass, QuotaAssumption DEF PassFails, Upset
  <2> QED
    BY <2>1, <2>2, <2>3, <2>4, <1>13 DEF TypeOK, PassFails, Upset, tenant, jobs
<1>14. ASSUME SetQuota PROVE TypeOK'
  <2>1. quota' \in Quotas
    BY <1>quota, <1>14, IdlePass DEF SetQuota, Upset
  <2>2. ceiling' \in Quotas
    BY <1>ceiling, <1>14, IdlePass DEF SetQuota, Upset
  <2>3. upsets' \in 0 .. MaxUpsets
    BY <1>upsets, <1>14, IdlePass, QuotaAssumption DEF SetQuota, Upset
  <2> QED
    BY <2>1, <2>2, <2>3, <1>14 DEF TypeOK, SetQuota, Upset, incus, rows, jobs
<1>15. ASSUME NEW d \in Direct, CreateDirectly(d) PROVE TypeOK'
  <2>1. where' \in [Instance -> Cluster \cup {Nowhere}]
    BY <1>where, <1>15, IdlePass DEF CreateDirectly, Upset
  <2>2. live' \subseteq Instance
    BY <1>live, <1>sets, <1>project, <1>15 DEF CreateDirectly, Upset
  <2>3. missed' \subseteq Instance
    BY <1>missed, <1>sets, <1>project, <1>15 DEF CreateDirectly, Upset
  <2>4. upsets' \in 0 .. MaxUpsets
    BY <1>upsets, <1>15, IdlePass, QuotaAssumption DEF CreateDirectly, Upset
  <2> QED
    BY <2>1, <2>2, <2>3, <2>4, <1>15 DEF TypeOK, CreateDirectly, Upset, tenant, rows, jobs
<1>16. ASSUME NEW i \in Instance, Delete(i) PROVE TypeOK'
  <2>1. live' \subseteq Instance
    BY <1>live, <1>16, IdlePass DEF Delete
  <2>2. missed' \subseteq Instance
    BY <1>missed, <1>16, IdlePass DEF Delete
  <2>3. unlisted' \subseteq Create
    BY <1>unlisted, <1>16, IdlePass DEF Delete
  <2> QED
    BY <2>1, <2>2, <2>3, <1>16 DEF TypeOK, Delete, tenant, rows, jobs
<1>17. CASE UNCHANGED vars
  BY <1>17 DEF TypeOK, vars, incus, tenant, rows, jobs, history
<1>18. ASSUME Decides PROVE TypeOK'
  <2>1. Counted \subseteq Instance /\ owned \cap listed \subseteq Instance /\ quota \in Nat
    BY <1>usage, <1>owned, <1>quota, <1>sets, QuotaAssumption DEF Counted
  <2>2. decision' \in Decision
    <3>1. Decide => decision' \in Decision
      BY <2>1 DEF Decide, Decision, NoDecision
    <3>2. DecideUsage => decision' \in Decision
      BY <1>decision, <2>1 DEF DecideUsage, Decision
    <3>3. DecidePending => decision' \in Decision
      <4>1. ASSUME NEW u \in User \cup {Service}, NEW x \in {"enqueue", "owned"}
            PROVE  [NoDecision EXCEPT !.step = x, !.by = u] \in Decision
        BY DEF Decision, NoDecision
      <4>2. QED
        BY <4>1 DEF DecidePending
    <3>4. DecideOwned => decision' \in Decision
      <4>1. {j \in owned \cap listed : asker[j] = decision.by} \subseteq Instance
        BY <2>1
      <4>2. QED
        BY <1>decision, <4>1 DEF DecideOwned, Decision
    <3>5. DecideShare => decision' \in Decision
      BY <1>decision DEF DecideShare, Decision
    <3>6. Refuse => decision' \in Decision
      BY DecisionFields DEF Refuse
    <3>7. QED
      BY <1>18, <3>1, <3>2, <3>3, <3>4, <3>5, <3>6 DEF Decides
  <2>3. QED
    BY <1>18, <2>2, DecidesOnly DEF TypeOK
<1> QED
  BY <1>1, <1>2, <1>3, <1>4, <1>5, <1>6, <1>7, <1>8, <1>9, <1>10, <1>11, <1>12, <1>13,
     <1>14, <1>15, <1>16, <1>17, <1>18
  DEF Next, Job

(* An instance lives once its operation is done, and a create is placed when it is admitted. *)
LEMMA StepsMatchStep == TypeOK /\ StepsMatch /\ [Next]_vars => StepsMatch'
<1> SUFFICES ASSUME TypeOK, StepsMatch, [Next]_vars PROVE StepsMatch'
  OBVIOUS
<1>1. ASSUME NEW j \in Create, Admit(j) PROVE StepsMatch'
  <2>1. /\ \A x \in Create : x # j => pc'[x] = pc[x]
        /\ pc'[j] = "queued" /\ pc[j] = "none"
    BY <1>1 DEF Admit, TypeOK
  <2>2. /\ \A x \in Instance : x # j => where'[x] = where[x]
        /\ where'[j] \in Cluster
    BY <1>1 DEF Admit, TypeOK, Instance
  <2>3. UNCHANGED <<op, live, owned, missed, pass>>
    BY <1>1 DEF Admit, rows, history
  <2>4. \A i \in live : i \in Instance
    BY DEF TypeOK
  <2>5. QED
    BY <2>1, <2>2, <2>3, <2>4 DEF StepsMatch, Instance
<1>2. ASSUME NEW j \in Create, Launch(j) PROVE StepsMatch'
  BY <1>2, IdlePass DEF StepsMatch, Launch, Go, Upset, tenant, rows, TypeOK
<1>3. ASSUME NEW j \in Create, Wait(j) PROVE StepsMatch'
  BY <1>3, IdlePass DEF StepsMatch, Wait, Go, Upset, incus, tenant, TypeOK
<1>4. ASSUME NEW j \in Create, ReadUsage(j) PROVE StepsMatch'
  BY <1>4, IdlePass DEF StepsMatch, ReadUsage, Go, Upset, incus, tenant, rows, TypeOK
<1>5. ASSUME NEW j \in Create, RecordUsage(j) PROVE StepsMatch'
  BY <1>5, IdlePass DEF StepsMatch, RecordUsage, Go, WriteUsage, incus, tenant
<1>6. ASSUME NEW j \in Create, Finish(j) PROVE StepsMatch'
  BY <1>6, IdlePass DEF StepsMatch, Finish, Go, incus, tenant, rows
<1>7. ASSUME NEW j \in Create, Operation(j) PROVE StepsMatch'
  BY <1>7, IdlePass DEF StepsMatch, Operation, tenant, rows, jobs, history, TypeOK
<1>8. ASSUME NEW c \in Cluster, PassRead(c) PROVE StepsMatch'
  BY <1>8, IdlePass DEF StepsMatch, PassRead, incus, tenant, rows, jobs, history
<1>9. ASSUME PassRecord PROVE StepsMatch'
  BY <1>9, IdlePass DEF StepsMatch, PassRecord, WriteUsage, incus, tenant, jobs
<1>10. ASSUME PassSplit PROVE StepsMatch'
  BY <1>10, IdlePass DEF StepsMatch, PassSplit, incus, tenant, rows, jobs, history
<1>11. ASSUME PassApply PROVE StepsMatch'
  BY <1>11, IdlePass DEF StepsMatch, PassApply, tenant, jobs, history
<1>12. ASSUME PassFails PROVE StepsMatch'
  BY <1>12, IdlePass DEF StepsMatch, PassFails, Upset, tenant, jobs
<1>13. ASSUME NEW d \in Direct, CreateDirectly(d) PROVE StepsMatch'
  <2>1. /\ \A x \in Instance : x # d => where'[x] = where[x]
        /\ where'[d] \in Cluster
    BY <1>13 DEF CreateDirectly, TypeOK, Instance
  <2>2. UNCHANGED <<op, owned, pass, pc>> /\ missed \subseteq missed' /\ live' = live \cup {d}
    BY <1>13 DEF CreateDirectly, rows, jobs
  <2>3. d \notin Create /\ \A i \in live : i \in Instance
    BY QuotaAssumption DEF TypeOK
  <2>4. QED
    BY <2>1, <2>2, <2>3 DEF StepsMatch, Instance
<1>14. ASSUME NEW i \in Instance, Delete(i) PROVE StepsMatch'
  BY <1>14, IdlePass DEF StepsMatch, Delete, tenant, rows, jobs
<1>15. CASE UNCHANGED <<where, live, op, owned, pc, pass, missed>>
  BY <1>15 DEF StepsMatch
<1>16. QED
  BY <1>1, <1>2, <1>3, <1>4, <1>5, <1>6, <1>7, <1>8, <1>9, <1>10, <1>11, <1>12, <1>13,
     <1>14, <1>15, DecidesOnly
  DEF Next, Job, vars, incus, tenant, rows, jobs, history, Collect, SetQuota, Upset

(* Incus lets a project grow only below its limit. *)
LEMMA ProjectWithinQuotaStep == TypeOK /\ StepsMatch /\ CountsWithinQuota /\ ProjectWithinQuota /\ [Next]_vars => ProjectWithinQuota'
<1> SUFFICES ASSUME TypeOK, StepsMatch, CountsWithinQuota, ProjectWithinQuota, [Next]_vars PROVE ProjectWithinQuota'
  OBVIOUS
<1>1. ASSUME NEW j \in Create, Admit(j) PROVE ProjectWithinQuota'
  <2>1. j \notin live
    BY <1>1 DEF Admit, StepsMatch
  <2>2. UNCHANGED <<live, ceiling>> /\ \A i \in live : where'[i] = where[i]
    BY <1>1, <2>1 DEF Admit, tenant, TypeOK
  <2>3. QED
    BY <2>2 DEF ProjectWithinQuota, projectUsage
<1>2. ASSUME NEW j \in Create, Operation(j) PROVE ProjectWithinQuota'
  <2>1. UNCHANGED <<where, ceiling>>
    BY <1>2 DEF Operation, tenant
  <2>2. CASE live' = live
    BY <2>1, <2>2 DEF ProjectWithinQuota, projectUsage
  <2>3. CASE Cardinality(projectUsage(where[j])) < limit[where[j]] /\ live' = live \cup {j}
    <3>1. where[j] \in Cluster
      BY <1>2 DEF Operation, StepsMatch
    <3>2. \A c \in Cluster : projectUsage(c)' \subseteq projectUsage(c) \cup {j}
      BY <2>1, <2>3 DEF projectUsage
    <3>3. \A c \in Cluster : c # where[j] => projectUsage(c)' \subseteq projectUsage(c)
      BY <2>1, <2>3 DEF projectUsage
    <3>4. \A c \in Cluster : c = where[j] => Cardinality(projectUsage(c)') <= ceiling
      BY <2>3, <3>2, GrowsToLimit DEF Instance
    <3>5. \A c \in Cluster : c # where[j] => Cardinality(projectUsage(c)') <= ceiling
      BY <3>3, ProjectInstances, StillFits, CeilingGrows DEF ProjectWithinQuota
    <3>6. QED
      BY <2>1, <3>1, <3>4, <3>5 DEF ProjectWithinQuota, projectUsage
  <2>4. QED
    BY <1>2, <2>2, <2>3 DEF Operation
<1>3. ASSUME SetQuota PROVE ProjectWithinQuota'
  <2>1. \A c \in Cluster : projectUsage(c)' = projectUsage(c)
    BY <1>3 DEF SetQuota, incus, projectUsage
  <2>2. QED
    BY <2>1, ProjectInstances, StillFits, CeilingGrows DEF ProjectWithinQuota
<1>4. ASSUME NEW d \in Direct, CreateDirectly(d) PROVE ProjectWithinQuota'
  <2>1. PICK c \in Cluster : /\ Cardinality(projectUsage(c)) < limit[c]
                             /\ where' = [where EXCEPT ![d] = c]
    BY <1>4 DEF CreateDirectly
  <2>2. live' = live \cup {d} /\ ceiling' = ceiling
    BY <1>4 DEF CreateDirectly, tenant
  <2>3. projectUsage(c)' \subseteq projectUsage(c) \cup {d}
    BY <2>1, <2>2 DEF projectUsage, TypeOK
  <2>4. \A x \in Cluster : x # c => projectUsage(x)' \subseteq projectUsage(x)
    BY <2>1, <2>2 DEF projectUsage, TypeOK, Instance
  <2>5. Cardinality(projectUsage(c)') <= ceiling
    BY <2>1, <2>3, GrowsToLimit DEF Instance
  <2>6. \A x \in Cluster : x # c => Cardinality(projectUsage(x)') <= ceiling
    BY <2>4, ProjectInstances, StillFits, CeilingGrows DEF ProjectWithinQuota
  <2>7. QED
    BY <2>2, <2>5, <2>6 DEF ProjectWithinQuota
<1>5. ASSUME NEW i \in Instance, Delete(i) PROVE ProjectWithinQuota'
  <2>1. \A c \in Cluster : projectUsage(c)' \subseteq projectUsage(c)
    BY <1>5 DEF Delete, projectUsage
  <2>2. QED
    BY <2>1, ProjectInstances, StillFits, CeilingGrows DEF ProjectWithinQuota
<1>6. CASE UNCHANGED <<where, live, ceiling>>
  BY <1>6 DEF ProjectWithinQuota, projectUsage
<1>7. ASSUME NEW j \in Create, Launch(j) \/ Wait(j) \/ ReadUsage(j) \/ RecordUsage(j) \/ Finish(j) PROVE UNCHANGED <<where, live, ceiling>>
  BY <1>7
  DEF Launch, Wait, ReadUsage, RecordUsage, Finish, Go, Upset, WriteUsage, incus, tenant,
      rows
<1>8. ASSUME NEW c \in Cluster, PassRead(c) \/ Collect(c) PROVE UNCHANGED <<where, live, ceiling>>
  BY <1>8 DEF PassRead, Collect, incus, tenant, rows, jobs, history
<1>9. (PassRecord \/ PassSplit \/ PassApply \/ PassFails) => UNCHANGED <<where, live, ceiling>>
  BY DEF PassRecord, PassSplit, PassApply, PassFails, WriteUsage, Upset, incus, tenant,
     rows, jobs, history
<1>10. QED
  BY <1>1, <1>2, <1>3, <1>4, <1>5, <1>6, <1>7, <1>8, <1>9, DecidesOnly
  DEF Next, Job, vars, incus, tenant, rows, jobs, history

(* What is counted is what a project held, and a limit is such a count or fits in a quota. *)
LEMMA CountsWithinQuotaStep == TypeOK /\ StepsMatch /\ ProjectWithinQuota /\ CountsWithinQuota /\ [Next]_vars => CountsWithinQuota'
<1> SUFFICES ASSUME TypeOK, StepsMatch, ProjectWithinQuota, CountsWithinQuota, [Next]_vars PROVE CountsWithinQuota'
  OBVIOUS
<1>1. ASSUME NEW j \in Create, ReadUsage(j) PROVE CountsWithinQuota'
  <2>1. where[j] \in Cluster /\ UNCHANGED <<decision, quota, ceiling, pass, usage, limit>>
    BY <1>1 DEF ReadUsage, StepsMatch, tenant, rows, incus
  <2>2. Cardinality(projectUsage(where[j])) <= ceiling
    BY <2>1 DEF ProjectWithinQuota
  <2>3. seen' = seen \/ seen' = [seen EXCEPT ![j] = projectUsage(where[j])]
    BY <1>1 DEF ReadUsage
  <2>4. \A x \in Create : seen'[x] = seen[x] \/ seen'[x] = projectUsage(where[j])
    BY <2>3 DEF TypeOK
  <2>5. QED
    BY <2>1, <2>2, <2>4 DEF CountsWithinQuota
<1>2. ASSUME NEW j \in Create, RecordUsage(j) PROVE CountsWithinQuota'
  <2>1. where[j] \in Cluster /\ UNCHANGED <<decision, quota, ceiling, pass, limit>>
    BY <1>2 DEF RecordUsage, StepsMatch, tenant, incus
  <2>2. \A c \in Cluster : usage'[c] = usage[c] \/ usage'[c] = seen[j]
    BY <1>2, <2>1 DEF RecordUsage, WriteUsage, TypeOK
  <2>3. \A x \in Create : seen'[x] = seen[x] \/ seen'[x] = {}
    BY <1>2 DEF RecordUsage, TypeOK
  <2>4. QED
    BY <2>1, <2>2, <2>3, EmptyFits DEF CountsWithinQuota
<1>3. ASSUME NEW c \in Cluster, PassRead(c) PROVE CountsWithinQuota'
  <2>1. UNCHANGED <<decision, quota, ceiling, seen, usage, limit>>
    BY <1>3 DEF PassRead, tenant, rows, incus, jobs
  <2>2. pass'.quota = quota /\ pass'.limit = 0 /\ pass'.seen = projectUsage(c)
    BY <1>3 DEF PassRead, Idle
  <2>3. QED
    BY <2>1, <2>2, EmptyFits DEF CountsWithinQuota, ProjectWithinQuota
<1>4. ASSUME PassRecord PROVE CountsWithinQuota'
  <2>1. pass.at \in Cluster /\ UNCHANGED <<decision, quota, ceiling, seen, limit>>
    BY <1>4 DEF PassRecord, StepsMatch, tenant, incus, jobs
  <2>2. \A c \in Cluster : usage'[c] = usage[c] \/ usage'[c] = pass.seen
    BY <1>4, <2>1 DEF PassRecord, WriteUsage, TypeOK
  <2>3. pass'.quota = pass.quota /\ pass'.limit = pass.limit /\ pass'.seen = {}
    BY <1>4 DEF PassRecord, TypeOK, PassState
  <2>4. QED
    BY <2>1, <2>2, <2>3, EmptyFits DEF CountsWithinQuota
<1>5. ASSUME PassSplit PROVE CountsWithinQuota'
  <2>1. pass.at \in Cluster /\ UNCHANGED <<decision, quota, ceiling, seen, usage, limit>>
    BY <1>5 DEF PassSplit, StepsMatch, tenant, incus, jobs, rows
  <2>2. pass.quota \in Nat /\ pass.quota <= ceiling /\ ceiling \in Nat
    BY PassFields, CeilingGrows DEF TypeOK, CountsWithinQuota
  <2>3. /\ splitLimits(pass.at, pass.quota) \in Nat
        /\ splitLimits(pass.at, pass.quota) <= ceiling
    BY <2>1, <2>2, LimitIsCount DEF CountsWithinQuota
  <2>4. /\ pass'.quota = 0 /\ pass'.limit = splitLimits(pass.at, pass.quota)
        /\ pass'.seen = pass.seen
    BY <1>5 DEF PassSplit, TypeOK, PassState
  <2>5. QED
    BY <2>1, <2>2, <2>3, <2>4, EmptyFits DEF CountsWithinQuota
<1>6. ASSUME PassApply PROVE CountsWithinQuota'
  <2>1. UNCHANGED <<decision, quota, ceiling, seen, usage>>
    BY <1>6 DEF PassApply, tenant, jobs
  <2>2. \A c \in Cluster : limit'[c] = limit[c] \/ limit'[c] = pass.limit
    BY <1>6 DEF PassApply, TypeOK
  <2>3. pass'.quota = 0 /\ pass'.limit = 0 /\ pass'.seen = {}
    BY <1>6, IdlePass DEF PassApply
  <2>4. QED
    BY <2>1, <2>2, <2>3, EmptyFits DEF CountsWithinQuota
<1>7. ASSUME PassFails PROVE CountsWithinQuota'
  <2>1. UNCHANGED <<decision, quota, ceiling, seen, usage>>
    BY <1>7 DEF PassFails, tenant, jobs
  <2>2. \A c \in Cluster : limit'[c] = limit[c] \/ limit'[c] = pass.limit
    BY <1>7 DEF PassFails, TypeOK
  <2>3. pass'.quota = 0 /\ pass'.limit = 0 /\ pass'.seen = {}
    BY <1>7, IdlePass DEF PassFails
  <2>4. QED
    BY <2>1, <2>2, <2>3, EmptyFits DEF CountsWithinQuota
<1>8. ASSUME SetQuota PROVE CountsWithinQuota'
  <2>1. UNCHANGED <<decision, seen, usage, limit, pass>>
    BY <1>8 DEF SetQuota, incus, rows, jobs
  <2>2. quota' <= ceiling' /\ quota' \in Nat /\ ceiling' \in Nat /\ ceiling <= ceiling'
    <3>1. quota' \in Nat
      BY <1>8, QuotaAssumption DEF SetQuota
    <3>2. QED
      BY <1>8, <3>1, CeilingGrows DEF SetQuota
  <2>3. \A n \in Int : n <= ceiling => n <= ceiling'
    BY <2>2, CeilingGrows
  <2>4. /\ decision.quota \in Int /\ pass.quota \in Int /\ pass.limit \in Int /\ Cardinality(pass.seen) \in Int
        /\ \A j \in Create : Cardinality(seen[j]) \in Int
        /\ \A c \in Cluster : Cardinality(usage[c]) \in Int /\ limit[c] \in Int
    <3>1. pass.seen \subseteq Instance /\ pass.quota \in Int /\ pass.limit \in Int
      BY PassFields DEF TypeOK
    <3>2. \A j \in Create : seen[j] \subseteq Instance
      BY DEF TypeOK
    <3>3. \A c \in Cluster : usage[c] \subseteq Instance /\ limit[c] \in Int
      BY DEF TypeOK, NoProject
    <3>4. QED
      BY <3>1, <3>2, <3>3, Sizes, DecisionFields DEF TypeOK
  <2>5. QED
    BY <2>1, <2>2, <2>3, <2>4 DEF CountsWithinQuota
<1>9. CASE UNCHANGED <<limit, quota, decision, usage, seen, pass, ceiling>>
  BY <1>9 DEF CountsWithinQuota
<1>dec. ASSUME Decides PROVE CountsWithinQuota'
  <2>1. decision'.quota \in {decision.quota, quota, 0}
    <3>1. Decide \/ DecidePending \/ Refuse => decision'.quota \in {quota, 0}
      <4>1. \A x, u : [NoDecision EXCEPT !.step = x, !.by = u].quota = 0
        BY DEF NoDecision
      <4>2. DecidePending => decision'.quota = 0
        BY <4>1 DEF DecidePending
      <4>3. Decide => decision'.quota = quota
        BY DEF Decide, NoDecision
      <4>4. Refuse => decision'.quota = 0
        BY DEF Refuse, NoDecision
      <4>5. QED
        BY <4>2, <4>3, <4>4
    <3>2. DecideUsage \/ DecideOwned \/ DecideShare => decision'.quota = decision.quota
      BY DEF DecideUsage, DecideOwned, DecideShare, TypeOK, Decision
    <3>3. QED
      BY <1>dec, <3>1, <3>2 DEF Decides
  <2>2. QED
    BY <1>dec, <2>1, DecidesOnly, EmptyFits DEF CountsWithinQuota
<1>admit. ASSUME NEW j \in Create, Admit(j) PROVE CountsWithinQuota'
  BY <1>admit, DecisionFields, EmptyFits DEF Admit, CountsWithinQuota, tenant, rows
<1>10. QED
  BY <1>1, <1>2, <1>3, <1>4, <1>5, <1>6, <1>7, <1>8, <1>9, <1>dec, <1>admit
  DEF Next, Job, vars, incus, tenant, rows, jobs, history, Admit, Launch, Wait, Finish,
      Operation, Collect, CreateDirectly, Delete, Go, Upset

(* Whoever drops a living instance from the usage notes it, and a job counts its own. *)
LEMMA AccountedStep == TypeOK /\ StepsMatch /\ Accounted /\ [Next]_vars => Accounted'
<1> SUFFICES ASSUME TypeOK, StepsMatch, Accounted, [Next]_vars PROVE Accounted'
  OBVIOUS
<1>1. ASSUME NEW j \in Create, Admit(j) PROVE Accounted'
  BY <1>1, IdlePass
  DEF Accounted, ToCount, Counted, Admit, pendingOf, Active, tenant, rows, history
<1>2. ASSUME NEW j \in Create, Launch(j) PROVE Accounted'
  BY <1>2, IdlePass
  DEF Accounted, ToCount, Counted, Launch, Go, Upset, tenant, rows, StepsMatch, TypeOK
<1>3. ASSUME NEW j \in Create, Wait(j) PROVE Accounted'
  BY <1>3, IdlePass
  DEF Accounted, ToCount, Counted, Wait, Go, Upset, incus, tenant, StepsMatch, TypeOK
<1>4. ASSUME NEW j \in Create, ReadUsage(j) PROVE Accounted'
  BY <1>4, IdlePass
  DEF Accounted, ToCount, Counted, ReadUsage, Go, projectUsage, Upset, incus, tenant,
      rows, StepsMatch, TypeOK
<1>5. ASSUME NEW j \in Create, RecordUsage(j) PROVE Accounted'
  BY <1>5, IdlePass
  DEF Accounted, ToCount, Counted, RecordUsage, Go, WriteUsage, incus, tenant, StepsMatch,
      TypeOK
<1>6. ASSUME NEW j \in Create, Finish(j) PROVE Accounted'
  BY <1>6, IdlePass DEF Accounted, ToCount, Counted, Finish, Go, incus, tenant, rows
<1>7. ASSUME NEW j \in Create, Operation(j) PROVE Accounted'
  BY <1>7, IdlePass
  DEF Accounted, ToCount, Counted, Operation, projectUsage, tenant, rows, jobs, history,
      StepsMatch
<1>8. ASSUME PassRecord PROVE Accounted'
  BY <1>8, IdlePass
  DEF Accounted, ToCount, Counted, PassRecord, WriteUsage, incus, tenant, jobs
<1>9. ASSUME NEW d \in Direct, CreateDirectly(d) PROVE Accounted'
  BY <1>9, IdlePass, QuotaAssumption
  DEF Accounted, ToCount, Counted, CreateDirectly, Upset, projectUsage, tenant, rows,
      jobs, StepsMatch, TypeOK
<1>10. ASSUME NEW i \in Instance, Delete(i) PROVE Accounted'
  BY <1>10, IdlePass DEF Accounted, ToCount, Counted, Delete, tenant, rows, jobs
<1>11. CASE UNCHANGED <<live, usage, pc, seen, missed>>
  BY <1>11 DEF Accounted, ToCount, Counted
<1>12. QED
  BY <1>1, <1>2, <1>3, <1>4, <1>5, <1>6, <1>7, <1>8, <1>9, <1>10, <1>11, DecidesOnly
  DEF Next, Job, vars, incus, tenant, rows, jobs, history, PassRead, Collect, PassSplit,
      PassApply, PassFails, SetQuota, Upset

(* Only an admission adds to what is counted or pending. *)
LEMMA HeldShrinks ==
  ASSUME TypeOK, StepsMatch, [Next]_vars, \A j \in Create : ~Admit(j) PROVE Held' \subseteq Held
<1>2. ASSUME NEW j \in Create, Launch(j) PROVE Held' \subseteq Held
  <2>1. pendingOf' \subseteq pendingOf /\ live' = live
    BY <1>2, JobStepShrinks DEF Job
  <2>2. missed \subseteq missed'
    BY <1>2 DEF Launch
  <2>3. QED
    BY <2>1, <2>2 DEF Held
<1>3. ASSUME NEW j \in Create, Wait(j) PROVE Held' \subseteq Held
  <2>1. pendingOf' \subseteq pendingOf /\ live' = live
    BY <1>3, JobStepShrinks DEF Job
  <2>2. missed \subseteq missed'
    BY <1>3 DEF Wait
  <2>3. QED
    BY <2>1, <2>2 DEF Held
<1>4. ASSUME NEW j \in Create, ReadUsage(j) PROVE Held' \subseteq Held
  <2>1. pendingOf' \subseteq pendingOf /\ live' = live
    BY <1>4, JobStepShrinks DEF Job
  <2>2. missed \subseteq missed'
    BY <1>4 DEF ReadUsage
  <2>3. QED
    BY <2>1, <2>2 DEF Held
<1>5. ASSUME NEW j \in Create, RecordUsage(j) PROVE Held' \subseteq Held
  <2>1. pendingOf' \subseteq pendingOf /\ live' = live
    BY <1>5, JobStepShrinks DEF Job
  <2>2. missed \subseteq missed'
    BY <1>5 DEF RecordUsage, WriteUsage
  <2>3. QED
    BY <2>1, <2>2 DEF Held
<1>6. ASSUME NEW j \in Create, Finish(j) PROVE Held' \subseteq Held
  <2>1. pendingOf' \subseteq pendingOf /\ live' = live
    BY <1>6, JobStepShrinks DEF Job
  <2>2. missed \subseteq missed'
    BY <1>6 DEF Finish
  <2>3. QED
    BY <2>1, <2>2 DEF Held
<1>7. ASSUME NEW j \in Create, Operation(j) PROVE Held' \subseteq Held
  <2>1. pendingOf' = pendingOf /\ missed' = missed /\ live' \subseteq live \cup {j}
    BY <1>7 DEF Operation, jobs, history, pendingOf
  <2>2. j \in pendingOf \cup missed
    BY <1>7 DEF Operation, StepsMatch, pendingOf, Active
  <2>3. QED
    BY <2>1, <2>2 DEF Held
<1>8. ASSUME PassRecord PROVE Held' \subseteq Held
  BY <1>8 DEF PassRecord, WriteUsage, incus, tenant, jobs, pendingOf, TypeOK, Held
<1>9. ASSUME SetQuota PROVE Held' \subseteq Held
  BY <1>9 DEF SetQuota, Upset, incus, rows, jobs, pendingOf, TypeOK, Held
<1>10. ASSUME NEW d \in Direct, CreateDirectly(d) PROVE Held' \subseteq Held
  BY <1>10 DEF CreateDirectly, Upset, tenant, rows, jobs, pendingOf, TypeOK, Held
<1>11. ASSUME NEW i \in Instance, Delete(i) PROVE Held' \subseteq Held
  BY <1>11 DEF Delete, tenant, rows, jobs, pendingOf, TypeOK, Held
<1>12. CASE UNCHANGED <<live, pc, missed>>
  BY <1>12 DEF Held, pendingOf
<1>13. QED
  BY <1>2, <1>3, <1>4, <1>5, <1>6, <1>7, <1>8, <1>9, <1>10, <1>11, <1>12, DecidesOnly
  DEF Next, Job, vars, incus, tenant, rows, jobs, history, PassRead, Collect, PassSplit,
      PassApply, PassFails, Upset

(* An admission has counted everything that counts, and one more fits. *)
LEMMA PendingBoundedStep ==
  TypeOK /\ StepsMatch /\ DecisionSees /\ PendingBounded /\ [Next]_vars => PendingBounded'
<1> SUFFICES ASSUME TypeOK, StepsMatch, DecisionSees, PendingBounded, [Next]_vars
             PROVE  PendingBounded'
  OBVIOUS
<1>1. ASSUME NEW j \in Create, Admit(j) PROVE PendingBounded'
  <2>1. Held' \subseteq Held \cup {j} /\ j \in Instance
    BY <1>1 DEF Admit, history, Active, pendingOf, TypeOK, Held, Instance
  <2>2. Cardinality(Held) + 1 <= ceiling
    BY <1>1 DEF Admit, DecisionSees
  <2>3. /\ Cardinality(Held) \in Nat /\ Cardinality(Held') \in Nat
        /\ Cardinality(Held') <= Cardinality(Held) + 1
    BY <2>1, PendingInstances, OneMore
  <2>4. QED
    BY <2>2, <2>3, CeilingGrows DEF PendingBounded
<1>2. CASE \A j \in Create : ~Admit(j)
  BY <1>2, HeldShrinks, PendingInstances, CeilingGrows, StillFits DEF PendingBounded
<1>3. QED
  BY <1>1, <1>2

(* A job that ends before its instance is listed notes it, and the inventory drops only what is gone. *)
LEMMA ListedOrPendingStep == TypeOK /\ StepsMatch /\ ListedOrPending /\ [Next]_vars => ListedOrPending'
<1> SUFFICES ASSUME TypeOK, StepsMatch, ListedOrPending, [Next]_vars PROVE ListedOrPending'
  OBVIOUS
<1>1. ASSUME NEW j \in Create, Admit(j) PROVE ListedOrPending'
  BY <1>1, IdlePass
  DEF ListedOrPending, pendingOf, Active, Admit, tenant, rows, history, StepsMatch
<1>2. ASSUME NEW j \in Create, Launch(j) PROVE ListedOrPending'
  BY <1>2, IdlePass
  DEF ListedOrPending, pendingOf, Active, Launch, Go, Upset, tenant, rows, StepsMatch,
      TypeOK
<1>3. ASSUME NEW j \in Create, Wait(j) PROVE ListedOrPending'
  <2>1. UNCHANGED <<live, unlisted, asker, listed>> /\ owned' \subseteq owned \cup {j}
    BY <1>3 DEF Wait, incus
  <2>2. \A x \in Create : x # j => (x \in pendingOf' <=> x \in pendingOf)
    BY <1>3 DEF Wait, Go, pendingOf, TypeOK
  <2>3. CASE j \in pendingOf'
    BY <2>1, <2>2, <2>3 DEF ListedOrPending, TypeOK
  <2>4. CASE owned' = owned
    <3>1. j \notin owned
      BY <1>3 DEF Wait, StepsMatch
    <3>2. QED
      BY <2>1, <2>2, <2>4, <3>1 DEF ListedOrPending, TypeOK
  <2>5. pc'[j] = "usage" => j \in pendingOf'
    BY DEF pendingOf, Active
  <2>6. QED
    BY <1>3, <2>3, <2>4, <2>5 DEF Wait, Go, TypeOK
<1>4. ASSUME NEW j \in Create, ReadUsage(j) PROVE ListedOrPending'
  BY <1>4, IdlePass
  DEF ListedOrPending, pendingOf, Active, ReadUsage, Go, projectUsage, Upset, incus,
      tenant, rows, StepsMatch, TypeOK
<1>5. ASSUME NEW j \in Create, RecordUsage(j) PROVE ListedOrPending'
  BY <1>5, IdlePass
  DEF ListedOrPending, pendingOf, Active, RecordUsage, Go, WriteUsage, incus, tenant
<1>6. ASSUME NEW j \in Create, Finish(j) PROVE ListedOrPending'
  BY <1>6, IdlePass DEF ListedOrPending, pendingOf, Active, Finish, Go, incus, tenant, rows
<1>7. ASSUME NEW j \in Create, Operation(j) PROVE ListedOrPending'
  BY <1>7, IdlePass
  DEF ListedOrPending, pendingOf, Active, Operation, projectUsage, tenant, rows, jobs,
      history, StepsMatch
<1>8. ASSUME NEW c \in Cluster, Collect(c) PROVE ListedOrPending'
  BY <1>8, IdlePass
  DEF ListedOrPending, pendingOf, Active, Collect, projectUsage, incus, tenant, jobs,
      history, StepsMatch, TypeOK
<1>9. ASSUME NEW d \in Direct, CreateDirectly(d) PROVE ListedOrPending'
  BY <1>9, IdlePass, QuotaAssumption
  DEF ListedOrPending, pendingOf, Active, CreateDirectly, Upset, projectUsage, tenant,
      rows, jobs, StepsMatch, TypeOK
<1>10. ASSUME NEW i \in Instance, Delete(i) PROVE ListedOrPending'
  BY <1>10, IdlePass DEF ListedOrPending, pendingOf, Active, Delete, tenant, rows, jobs
<1>11. CASE UNCHANGED <<live, listed, owned, asker, pc, unlisted>>
  BY <1>11 DEF ListedOrPending, pendingOf, Active
<1>12. QED
  BY <1>1, <1>2, <1>3, <1>4, <1>5, <1>6, <1>7, <1>8, <1>9, <1>10, <1>11, DecidesOnly
  DEF Next, Job, vars, incus, tenant, rows, jobs, history, PassRead, PassRecord,
      PassSplit, PassApply, PassFails, SetQuota, WriteUsage, Upset

(* Only an admission adds to a user's share. *)
LEMMA SharedShrinks ==
  ASSUME TypeOK, StepsMatch, [Next]_vars, \A j \in Create : ~Admit(j), NEW u \in User
  PROVE  Shared(u)' \subseteq Shared(u)
<1>2. ASSUME NEW j \in Create, Launch(j) PROVE Shared(u)' \subseteq Shared(u)
  <2>1. /\ j \in pendingOf /\ pendingOf' \subseteq pendingOf
        /\ asker' = asker /\ live' = live
    BY <1>2, JobStepShrinks DEF Job
  <2>2. owned' = owned /\ unlisted' = unlisted
    BY <1>2 DEF Launch, rows
  <2>3. QED
    BY <2>1, <2>2 DEF Shared
<1>3. ASSUME NEW j \in Create, Wait(j) PROVE Shared(u)' \subseteq Shared(u)
  <2>1. /\ j \in pendingOf /\ pendingOf' \subseteq pendingOf
        /\ asker' = asker /\ live' = live
    BY <1>3, JobStepShrinks DEF Job
  <2>2. owned' \subseteq owned \cup {j} /\ unlisted' = unlisted
    BY <1>3 DEF Wait
  <2>3. QED
    BY <2>1, <2>2 DEF Shared
<1>4. ASSUME NEW j \in Create, ReadUsage(j) PROVE Shared(u)' \subseteq Shared(u)
  <2>1. /\ j \in pendingOf /\ pendingOf' \subseteq pendingOf
        /\ asker' = asker /\ live' = live
    BY <1>4, JobStepShrinks DEF Job
  <2>2. owned' = owned /\ unlisted' = unlisted
    BY <1>4 DEF ReadUsage, rows
  <2>3. QED
    BY <2>1, <2>2 DEF Shared
<1>5. ASSUME NEW j \in Create, RecordUsage(j) PROVE Shared(u)' \subseteq Shared(u)
  <2>1. /\ j \in pendingOf /\ pendingOf' \subseteq pendingOf
        /\ asker' = asker /\ live' = live
    BY <1>5, JobStepShrinks DEF Job
  <2>2. owned' = owned /\ unlisted' = unlisted
    BY <1>5 DEF RecordUsage
  <2>3. QED
    BY <2>1, <2>2 DEF Shared
<1>6. ASSUME NEW j \in Create, Finish(j) PROVE Shared(u)' \subseteq Shared(u)
  <2>1. /\ j \in pendingOf /\ pendingOf' \subseteq pendingOf
        /\ asker' = asker /\ live' = live
    BY <1>6, JobStepShrinks DEF Job
  <2>2. owned' = owned /\ unlisted \subseteq unlisted'
    BY <1>6 DEF Finish, rows
  <2>3. QED
    BY <2>1, <2>2 DEF Shared
<1>7. ASSUME NEW j \in Create, Operation(j) PROVE Shared(u)' \subseteq Shared(u)
  <2>1. /\ pendingOf' = pendingOf /\ UNCHANGED <<owned, unlisted, asker>>
        /\ live' \subseteq live \cup {j} /\ j \notin owned
    BY <1>7 DEF Operation, jobs, rows, history, pendingOf, StepsMatch
  <2>2. QED
    BY <2>1 DEF Shared
<1>8. ASSUME NEW d \in Direct, CreateDirectly(d) PROVE Shared(u)' \subseteq Shared(u)
  <2>1. /\ pendingOf' = pendingOf /\ UNCHANGED <<owned, unlisted, asker>>
        /\ live' = live \cup {d} /\ d \notin owned
    BY <1>8, QuotaAssumption DEF CreateDirectly, jobs, rows, pendingOf, TypeOK
  <2>2. QED
    BY <2>1 DEF Shared
<1>9. ASSUME NEW i \in Instance, Delete(i) PROVE Shared(u)' \subseteq Shared(u)
  <2>1. /\ pendingOf' = pendingOf /\ UNCHANGED <<owned, asker>>
        /\ live' = live \ {i} /\ unlisted' = unlisted \ {i}
    BY <1>9 DEF Delete, jobs, rows, pendingOf
  <2>2. QED
    BY <2>1 DEF Shared
<1>10. CASE UNCHANGED <<live, owned, asker, pc, unlisted>>
  BY <1>10 DEF Shared, pendingOf
<1>11. QED
  BY <1>2, <1>3, <1>4, <1>5, <1>6, <1>7, <1>8, <1>9, <1>10, DecidesOnly
  DEF Next, Job, vars, incus, tenant, rows, jobs, history, PassRead, Collect, PassRecord,
      PassSplit, PassApply, PassFails, SetQuota, WriteUsage, Upset

(* An admission has counted all of its user's share, and one more fits. *)
LEMMA ShareBoundedStep ==
  TypeOK /\ StepsMatch /\ DecisionSees /\ ShareBounded /\ [Next]_vars => ShareBounded'
<1> SUFFICES ASSUME TypeOK, StepsMatch, DecisionSees, ShareBounded, [Next]_vars, NEW u \in User
             PROVE  Cardinality(Shared(u)') <= Share
  BY DEF ShareBounded
<1>1. ASSUME NEW j \in Create, Admit(j) PROVE Cardinality(Shared(u)') <= Share
  <2>1. j \notin owned /\ j \notin pendingOf /\ j \in Instance
    BY <1>1 DEF Admit, StepsMatch, pendingOf, Active, Instance
  <2>2. /\ UNCHANGED <<owned, live, unlisted>> /\ pendingOf' \subseteq pendingOf \cup {j}
        /\ asker'[j] = decision.by /\ \A x \in Create : x # j => asker'[x] = asker[x]
    BY <1>1 DEF Admit, rows, history, pendingOf, Active, TypeOK
  <2>3. CASE u # decision.by
    <3>1. Shared(u)' \subseteq Shared(u)
      BY <2>1, <2>2, <2>3 DEF Shared, pendingOf, TypeOK
    <3>2. QED
      BY <3>1, SharedInstances, StillFits, QuotaAssumption DEF ShareBounded
  <2>4. CASE u = decision.by
    <3>1. Shared(u)' \subseteq Shared(u) \cup {j}
      BY <2>2 DEF Shared, pendingOf, TypeOK
    <3>2. Cardinality(Shared(u)) + 1 <= Share
      BY <1>1, <2>4 DEF Admit, DecisionSees
    <3>3. /\ Cardinality(Shared(u)') \in Nat /\ Cardinality(Shared(u)) \in Nat
          /\ Cardinality(Shared(u)') <= Cardinality(Shared(u)) + 1
      BY <2>1, <3>1, SharedInstances, OneMore
    <3>4. QED
      BY <3>2, <3>3, QuotaAssumption
  <2>5. QED
    BY <2>3, <2>4
<1>2. CASE \A j \in Create : ~Admit(j)
  BY <1>2, SharedShrinks, SharedInstances, StillFits, QuotaAssumption DEF ShareBounded
<1>3. QED
  BY <1>1, <1>2

(* An admission does not change while anything else happens. *)
LEMMA OthersLeaveDecision ==
  ASSUME [Next]_vars, ~Decides, \A j \in Create : ~Admit(j) PROVE decision' = decision
<1>1. ASSUME NEW j \in Create, Job(j) \/ Operation(j) PROVE decision' = decision
  BY <1>1 DEF Job, Launch, Wait, ReadUsage, RecordUsage, Finish, Operation
<1>2. ASSUME NEW c \in Cluster, PassRead(c) \/ Collect(c) PROVE decision' = decision
  BY <1>2 DEF PassRead, Collect
<1>3. PassRecord \/ PassSplit \/ PassApply \/ PassFails \/ SetQuota => decision' = decision
  BY DEF PassRecord, PassSplit, PassApply, PassFails, SetQuota
<1>4. ASSUME NEW i \in Instance, Delete(i) PROVE decision' = decision
  BY <1>4 DEF Delete
<1>5. ASSUME NEW d \in Direct, CreateDirectly(d) PROVE decision' = decision
  BY <1>5 DEF CreateDirectly
<1>6. QED
  BY <1>1, <1>2, <1>3, <1>4, <1>5 DEF Next, vars

(* A create that ends was made nowhere, is noted as left out, or is seen. *)
LEMMA EndsAreNoted ==
  ASSUME TypeOK, StepsMatch, NEW j \in Create, Job(j), j \notin pendingOf'
  PROVE  /\ j \notin live \/ j \in missed' \/ decision.step # "pending" \/ j \in decision.used
         /\ j \notin owned' \/ j \in unlisted' \/ asker[j] \notin User
            \/ decision.step # "running" \/ j \in decision.used
<1>1. pc'[j] \notin Active
  BY DEF pendingOf
<1>2. CASE Launch(j)
  BY <1>1, <1>2 DEF Launch, Go, StepsMatch, TypeOK, Active, rows
<1>3. CASE Wait(j)
  BY <1>1, <1>3 DEF Wait, Go, StepsMatch, TypeOK, Active
<1>4. CASE Finish(j)
  BY <1>4 DEF Finish
<1>5. QED
  BY <1>1, <1>2, <1>3, <1>4 DEF Job, ReadUsage, RecordUsage, Go, Active, TypeOK

(* Only a create job's own step takes a create off the pending ones. *)
LEMMA PendingStays ==
  ASSUME TypeOK, [Next]_vars, NEW j \in Create, ~Job(j), j \in pendingOf
  PROVE  j \in pendingOf'
<1>1. ASSUME NEW k \in Create, Admit(k) PROVE pc'[j] \in Active
  BY <1>1 DEF Admit, pendingOf, Active, TypeOK
<1>2. ASSUME NEW k \in Create, Job(k) PROVE pc'[j] = pc[j]
  BY <1>2 DEF Job, Launch, Wait, ReadUsage, RecordUsage, Finish, Go, TypeOK
<1>3. CASE pc' = pc
  BY <1>3 DEF pendingOf
<1>4. QED
  BY <1>1, <1>2, <1>3, DecidesOnly
  DEF Next, vars, pendingOf, jobs, Operation, PassRead, Collect, PassRecord, PassSplit, PassApply,
      PassFails, SetQuota, CreateDirectly, Delete

(* What lives and is not left out was so before, or is being created. *)
LEMMA LiveShrinks ==
  ASSUME TypeOK, StepsMatch, [Next]_vars, \A j \in Create : ~Admit(j)
  PROVE  \A x \in (live \ missed)' : x \in live \ missed \/ (x \in pendingOf /\ x \in pendingOf')
<1> SUFFICES ASSUME NEW x \in (live \ missed)', x \notin live \ missed
             PROVE  x \in pendingOf /\ x \in pendingOf'
  OBVIOUS
<1>1. Held' \subseteq Held
  BY HeldShrinks
<1>2. x \in pendingOf
  BY <1>1 DEF Held
<1>3. x \in Create /\ pc[x] \in Active
  BY <1>2 DEF pendingOf
<1>4. CASE Job(x)
  BY <1>3, <1>4 DEF Job, Launch, Wait, ReadUsage, RecordUsage, Finish, incus, WriteUsage
<1>5. CASE ~Job(x)
  BY <1>2, <1>3, <1>5, PendingStays
<1>6. QED
  BY <1>2, <1>4, <1>5

(* What an admission has read stays all there is to count, and what it found stays so. *)
LEMMA DecisionSeesStep ==
  TypeOK /\ StepsMatch /\ CountsWithinQuota /\ Accounted /\ ListedOrPending /\ DecisionSees
    /\ [Next]_vars => DecisionSees'
<1> SUFFICES ASSUME TypeOK, StepsMatch, CountsWithinQuota, Accounted, ListedOrPending, DecisionSees,
                    [Next]_vars
             PROVE  DecisionSees'
  OBVIOUS
<1>1. ASSUME NEW j \in Create, Admit(j) PROVE DecisionSees'
  BY <1>1, DecisionFields DEF Admit, DecisionSees
<1>2. ASSUME Decides PROVE DecisionSees'
  <2>1. /\ UNCHANGED <<live, missed, ceiling, pendingOf, Held>>
        /\ \A u : Shared(u)' = Shared(u) /\ running(u)' = running(u)
    BY <1>2, DecidesOnly DEF pendingOf, Held, Shared, running
  <2>2. CASE Decide
    BY <2>2 DEF Decide, NoDecision, DecisionSees
  <2>3. CASE DecideUsage
    <3>1. decision'.step = "pending" /\ decision'.used = Counted
      BY <2>3 DEF DecideUsage, TypeOK, Decision
    <3>2. live \ missed \subseteq Counted \cup pendingOf
      BY DEF Accounted, ToCount, pendingOf, Active
    <3>3. QED
      BY <2>1, <3>1, <3>2 DEF DecisionSees
  <2>4. CASE DecidePending
    <3>1. PICK u \in User \cup {Service} :
            /\ decision'.step = IF u = Service THEN "enqueue" ELSE "owned"
            /\ decision'.by = u
      BY <2>4 DEF DecidePending, NoDecision
    <3>2. decision.step = "pending" /\ ~exceeds(decision.used, decision.quota)
      BY <2>4 DEF DecidePending
    <3>3. Held \subseteq decision.used \cup pendingOf
      BY <3>2 DEF DecisionSees, Held
    <3>4. decision.used \subseteq Instance /\ pendingOf \subseteq Instance /\ decision.quota \in Nat
      BY DecisionFields DEF TypeOK, pendingOf, Instance
    <3>5. Cardinality(Held) <= Cardinality(decision.used) + Cardinality(pendingOf)
      BY <3>3, <3>4, UnionFits
    <3>6. Cardinality(decision.used) \in Nat /\ Cardinality(pendingOf) \in Nat /\ Cardinality(Held) \in Nat
      BY <3>4, Sizes, PendingInstances
    <3>7. Cardinality(Held) + 1 <= ceiling
      BY <3>2, <3>4, <3>5, <3>6, CeilingGrows DEF exceeds, CountsWithinQuota
    <3>8. QED
      BY <2>1, <3>1, <3>7, QuotaAssumption DEF DecisionSees
  <2>5. CASE DecideOwned
    <3>1. /\ decision'.step = "running" /\ decision'.by = decision.by /\ decision.step = "owned"
          /\ decision'.used = {j \in owned \cap listed : asker[j] = decision.by}
      BY <2>5 DEF DecideOwned, TypeOK, Decision
    <3>2. decision.by \in User /\ Cardinality(Held) + 1 <= ceiling
      BY <3>1 DEF DecisionSees
    <3>3. Shared(decision.by) \subseteq decision'.used \cup running(decision.by)
      BY <3>1, <3>2 DEF Shared, running, ListedOrPending
    <3>4. QED
      BY <2>1, <3>1, <3>2, <3>3 DEF DecisionSees
  <2>6. CASE DecideShare
    <3>1. /\ decision'.step = "enqueue" /\ decision'.by = decision.by /\ decision.step = "running"
          /\ userUsage(decision.by, decision.used) + 1 <= Share
      BY <2>6 DEF DecideShare, TypeOK, Decision
    <3>2. /\ Cardinality(Held) + 1 <= ceiling
          /\ Shared(decision.by) \subseteq decision.used \cup running(decision.by)
      BY <3>1 DEF DecisionSees
    <3>3. decision.used \subseteq Instance /\ running(decision.by) \subseteq Instance
      BY DecisionFields DEF TypeOK, running, pendingOf, Instance
    <3>4. /\ Cardinality(Shared(decision.by))
               <= Cardinality(decision.used) + Cardinality(running(decision.by))
          /\ Cardinality(decision.used) \in Nat /\ Cardinality(running(decision.by)) \in Nat
          /\ Cardinality(Shared(decision.by)) \in Nat
      BY <3>2, <3>3, UnionFits, Sizes, SharedInstances
    <3>5. Cardinality(Shared(decision.by)) + 1 <= Share
      BY <3>1, <3>4, QuotaAssumption DEF userUsage
    <3>6. QED
      BY <2>1, <3>1, <3>2, <3>5 DEF DecisionSees
  <2>7. CASE Refuse
    BY <2>7, DecisionFields DEF Refuse, DecisionSees
  <2>8. QED
    BY <1>2, <2>2, <2>3, <2>4, <2>5, <2>6, <2>7 DEF Decides
<1>3. ASSUME ~Decides, \A j \in Create : ~Admit(j) PROVE DecisionSees'
  <2>1. decision' = decision
    BY <1>3, OthersLeaveDecision
  <2>2. ASSUME decision.step = "pending" PROVE (live \ missed)' \subseteq decision.used \cup pendingOf'
    <3> SUFFICES ASSUME NEW x \in (live \ missed)', x \notin pendingOf' PROVE x \in decision.used
      OBVIOUS
    <3>1. x \in live \ missed
      BY <1>3, LiveShrinks
    <3>2. x \in decision.used \cup pendingOf
      BY <2>2, <3>1 DEF DecisionSees
    <3>3. CASE x \in pendingOf
      <4>1. x \in Create
        BY <3>3 DEF pendingOf
      <4>2. Job(x)
        BY <3>3, <4>1, PendingStays
      <4>3. QED
        BY <2>2, <3>1, <4>1, <4>2, EndsAreNoted
    <3>4. QED
      BY <3>2, <3>3
  <2>3. ASSUME Cardinality(Held) + 1 <= ceiling PROVE Cardinality(Held') + 1 <= ceiling'
    <3>1. /\ Cardinality(Held') \in Nat /\ Cardinality(Held) \in Nat
          /\ Cardinality(Held') <= Cardinality(Held)
      BY <1>3, HeldShrinks, PendingInstances, Sizes
    <3>2. QED
      BY <2>3, <3>1, CeilingGrows
  <2>4. ASSUME decision.step = "running"
        PROVE  Shared(decision.by)' \subseteq decision.used \cup running(decision.by)'
    <3>1. decision.by \in User /\ Shared(decision.by) \subseteq decision.used \cup running(decision.by)
      BY <2>4 DEF DecisionSees
    <3> SUFFICES ASSUME NEW x \in Shared(decision.by)', x \notin decision.used
                 PROVE  x \in running(decision.by)'
      BY <2>1
    <3>2. x \in pendingOf /\ asker[x] = decision.by
      BY <1>3, <2>1, <3>1, SharedShrinks DEF running
    <3>3. asker'[x] = decision.by
      BY <2>1 DEF Shared
    <3>4. CASE x \in pendingOf'
      BY <2>1, <3>3, <3>4 DEF running
    <3>5. CASE x \notin pendingOf'
      <4>1. x \in Create /\ Job(x)
        BY <3>2, <3>5, PendingStays DEF pendingOf
      <4>2. x \in owned' /\ x \notin unlisted'
        BY <3>5 DEF Shared
      <4>3. QED
        BY <2>4, <3>1, <3>2, <3>5, <4>1, <4>2, EndsAreNoted
    <3>6. QED
      BY <3>4, <3>5
  <2>5. ASSUME decision.by \in User, Cardinality(Shared(decision.by)) + 1 <= Share
        PROVE  Cardinality(Shared(decision.by)') + 1 <= Share
    <3>1. Shared(decision.by)' \subseteq Shared(decision.by)
      BY <1>3, <2>1, <2>5, SharedShrinks
    <3>2. /\ Cardinality(Shared(decision.by)') \in Nat /\ Cardinality(Shared(decision.by)) \in Nat
          /\ Cardinality(Shared(decision.by)') <= Cardinality(Shared(decision.by))
      BY <3>1, SharedInstances, Sizes
    <3>3. QED
      BY <2>5, <3>2, QuotaAssumption
  <2>6. QED
    BY <2>1, <2>2, <2>3, <2>4, <2>5 DEF DecisionSees
<1>4. QED
  BY <1>1, <1>2, <1>3

-----------------------------------------------------------------------------
(* Before the first create nothing is counted: the invariant holds. *)
LEMMA InitIInv == Init => IInv
<1> SUFFICES ASSUME Init PROVE IInv
  OBVIOUS
<1>1. TypeOK
  BY QuotaAssumption, IdlePass, DecisionFields DEF Init, TypeOK, Step
<1>2. StepsMatch
  BY IdlePass DEF Init, StepsMatch
<1>3. live = {} /\ owned = {} /\ pendingOf = {} /\ \A c : projectUsage(c) = {}
  BY DEF Init, pendingOf, Active, projectUsage
<1>4. Accounted /\ ListedOrPending
  BY <1>3 DEF Accounted, ListedOrPending
<1>5. Cardinality({}) = 0 /\ ceiling \in Nat /\ quota = ceiling
  BY FS_EmptySet, QuotaAssumption DEF Init
<1>6. CountsWithinQuota
  BY <1>5, IdlePass, DecisionFields DEF Init, CountsWithinQuota, NoProject
<1>7. Held = {} /\ (\A u : Shared(u) = {}) /\ DecisionSees
  BY <1>3, DecisionFields DEF Shared, Held, Init, DecisionSees
<1>8. PendingBounded /\ ShareBounded /\ ProjectWithinQuota
  BY <1>3, <1>5, <1>7, QuotaAssumption DEF PendingBounded, ShareBounded, ProjectWithinQuota
<1>9. QED
  BY <1>1, <1>2, <1>4, <1>6, <1>7, <1>8 DEF IInv

(* The inductive invariant of a tenant's accounts. *)
THEOREM Invariance == Spec => []IInv
<1>1. IInv /\ [Next]_vars => IInv'
  BY TypeStep, StepsMatchStep, ProjectWithinQuotaStep, CountsWithinQuotaStep, AccountedStep,
     PendingBoundedStep, ListedOrPendingStep, DecisionSeesStep, ShareBoundedStep
  DEF IInv
<1>2. QED
  BY InitIInv, <1>1, PTL DEF Spec

(* The variables keep their types: clusters, rows, jobs, pass, histories. *)
THEOREM TypeCorrect == Spec => []TypeOK
<1>1. IInv => TypeOK
  BY DEF IInv
<1>2. QED
  BY Invariance, <1>1, PTL

(* A tenant exceeds its highest quota by no more than what the accounts left out. *)
THEOREM OverrunIsBounded == Spec => []OverrunBounded
<1>1. IInv => OverrunBounded
  <2> SUFFICES ASSUME IInv PROVE OverrunBounded
    OBVIOUS
  <2>1. (live \cup pendingOf) \ missed \subseteq Held
    BY DEF Held
  <2>2. Held \subseteq Instance /\ ceiling \in Nat
    BY PendingInstances, QuotaAssumption DEF IInv, TypeOK
  <2>3. Cardinality(Held) <= ceiling
    BY DEF IInv, PendingBounded
  <2>4. QED
    BY <2>1, <2>2, <2>3, StillFits DEF OverrunBounded
<1>2. QED
  BY Invariance, <1>1, PTL

(* A user exceeds their share by no more than the creates that ended unlisted. *)
THEOREM ShareIsKept == Spec => []ShareKept
<1>1. IInv => ShareKept
  <2> SUFFICES ASSUME IInv, NEW u \in User
               PROVE  Cardinality({j \in (owned \cap live) \ unlisted : asker[j] = u}) <= Share
    BY DEF ShareKept
  <2>1. {j \in (owned \cap live) \ unlisted : asker[j] = u} \subseteq Shared(u)
    BY DEF Shared
  <2>2. Shared(u) \subseteq Instance /\ Cardinality(Shared(u)) <= Share
    BY SharedInstances DEF IInv, ShareBounded
  <2>3. QED
    BY <2>1, <2>2, StillFits, QuotaAssumption
<1>2. QED
  BY Invariance, <1>1, PTL

(* No project alone outgrows the quota. *)
THEOREM ProjectsAreWithinQuota == Spec => []ProjectWithinQuota
<1>1. IInv => ProjectWithinQuota
  BY DEF IInv
<1>2. QED
  BY Invariance, <1>1, PTL
=============================================================================
