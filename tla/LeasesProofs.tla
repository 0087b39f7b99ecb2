---------------------------- MODULE LeasesProofs ----------------------------
(***************************************************************************)
(* Proofs about Leases, for any number of callers and of instances that    *)
(* have the name one after the other, any policy limit and any number of   *)
(* calls, failures and lost events.  Each conjunct of IInv has its own     *)
(* preservation lemma, with one step per action that can disturb it.       *)
(***************************************************************************)
EXTENDS Leases, TLAPS

(* 0 stands for no instance, and a new lease has no extensions. *)
LEMMA Zeros == 0 \in Number /\ 0 \in Count
BY LeasesAssumption DEF Number, Count

(* The null records have their types. *)
LEMMA Nulls ==
  /\ NoLease \in LeaseRow /\ NoPass \in PassState /\ NoRun \in JobState /\ NoCall \in CallState
BY Zeros DEF LeaseRow, NoLease, PassState, NoPass, JobState, NoRun, CallState, NoCall

(* Every action keeps the variables in their types. *)
LEMMA TypeStep == TypeOK /\ ExtensionAllowed /\ [Next]_vars => TypeOK'
<1> SUFFICES ASSUME TypeOK, ExtensionAllowed, [Next]_vars PROVE TypeOK'
  OBVIOUS
<1>incus. current \in Number /\ made \in Number /\ current <= made
  BY DEF TypeOK
<1>running. running \in BOOLEAN /\ (running => current # 0)
  BY DEF TypeOK
<1>listed. listed \in Listing
  BY DEF TypeOK
<1>snap. snap \in Listing \cup {NoPass}
  BY DEF TypeOK
<1>tenant. policy \in {"none", "stop", "delete"} /\ dropping \in Nat
  BY DEF TypeOK
<1>lease. lease \in LeaseRow
  BY DEF TypeOK
<1>pass. pass \in PassState
  BY DEF TypeOK
<1>job. job \in JobState
  BY DEF TypeOK
<1>call. call \in [Caller -> CallState]
  BY DEF TypeOK
<1>deleted. deleted \subseteq Number
  BY DEF TypeOK
<1>upsets. upsets \in 0 .. MaxUpsets
  BY DEF TypeOK
<1>1. ASSUME PassBegin PROVE TypeOK'
  <2>1. pass' \in PassState
    BY <1>pass, <1>incus, <1>running, <1>listed, <1>snap, <1>tenant, <1>lease, <1>job,
       <1>call, <1>deleted, <1>upsets, <1>1, Zeros, LeasesAssumption
    DEF PassBegin, NoPass, Due, PassState, Listing, LeaseRow, JobState, CallState
  <2> QED
    BY <2>1, <1>1 DEF TypeOK, PassBegin, incus, fleet, tenant
<1>2. ASSUME PassInsert PROVE TypeOK'
  <2>1. lease' \in LeaseRow
    BY <1>lease, <1>incus, <1>running, <1>listed, <1>snap, <1>tenant, <1>pass, <1>job,
       <1>call, <1>deleted, <1>upsets, <1>2, Zeros, LeasesAssumption
    DEF PassInsert, Given, NoLease, LeaseRow, Listing, PassState, JobState, CallState
  <2>2. pass' \in PassState
    BY <1>pass, <1>2, Nulls, Zeros, LeasesAssumption DEF PassInsert, PassState
  <2> QED
    BY <2>1, <2>2, <1>2 DEF TypeOK, PassInsert, incus, fleet, tenant
<1>3. ASSUME PassSelect PROVE TypeOK'
  <2>1. pass' \in PassState
    BY <1>pass, <1>incus, <1>running, <1>listed, <1>snap, <1>tenant, <1>lease, <1>job,
       <1>call, <1>deleted, <1>upsets, <1>3, Nulls, Zeros, LeasesAssumption
    DEF PassSelect, Due, PassState
  <2> QED
    BY <2>1, <1>3 DEF TypeOK, PassSelect, incus, fleet, tenant
<1>4. ASSUME PassEnqueue PROVE TypeOK'
  <2>1. pass' \in PassState
    BY <1>pass, <1>4, Nulls, Zeros, LeasesAssumption DEF PassEnqueue, PassState
  <2>2. job' \in JobState
    BY <1>job, <1>incus, <1>running, <1>listed, <1>snap, <1>tenant, <1>lease, <1>pass,
       <1>call, <1>deleted, <1>upsets, <1>4, Zeros, LeasesAssumption
    DEF PassEnqueue, NoRun, NoPass, JobState, Listing, LeaseRow, PassState, CallState
  <2> QED
    BY <2>1, <2>2, <1>4 DEF TypeOK, PassEnqueue, incus, fleet, tenant
<1>5. ASSUME PassMark PROVE TypeOK'
  <2>1. lease' \in LeaseRow
    BY <1>lease, <1>5, Nulls, Zeros, LeasesAssumption DEF PassMark, LeaseRow
  <2>2. pass' \in PassState
    BY <1>pass, <1>5, Nulls DEF PassMark
  <2> QED
    BY <2>1, <2>2, <1>5 DEF TypeOK, PassMark, incus, fleet, tenant
<1>6. ASSUME PassFails PROVE TypeOK'
  <2>1. pass' \in PassState
    BY <1>pass, <1>6, Nulls DEF PassFails
  <2>2. upsets' \in 0 .. MaxUpsets
    BY <1>upsets, <1>6, Nulls, Zeros, LeasesAssumption DEF PassFails, Upset
  <2> QED
    BY <2>1, <2>2, <1>6 DEF TypeOK, PassFails, incus, fleet, tenant
<1>7. ASSUME Look PROVE TypeOK'
  <2>1. job' \in JobState
    BY <1>job, <1>7, Nulls, Zeros, LeasesAssumption DEF Look, JobState
  <2> QED
    BY <2>1, <1>7 DEF TypeOK, Look, incus, fleet, tenant
<1>8. ASSUME Read PROVE TypeOK'
  <2>1. job' \in JobState
    BY <1>job, <1>8, Nulls, Zeros, LeasesAssumption DEF Read, Last, JobState
  <2> QED
    BY <2>1, <1>8 DEF TypeOK, Read, incus, fleet, tenant
<1>9. ASSUME Stop PROVE TypeOK'
  <2>1. running' \in BOOLEAN /\ (running' => current' # 0)
    BY <1>running, <1>9, Nulls DEF Stop
  <2>2. job' \in JobState
    BY <1>job, <1>9, Nulls, Zeros, LeasesAssumption DEF Stop, Last, JobState
  <2> QED
    BY <2>1, <2>2, <1>9 DEF TypeOK, Stop, fleet, tenant
<1>10. ASSUME Delete PROVE TypeOK'
  <2>1. current' \in Number /\ made' \in Number /\ current' <= made'
    BY <1>incus, <1>running, <1>listed, <1>snap, <1>tenant, <1>lease, <1>pass, <1>job,
       <1>call, <1>deleted, <1>upsets, <1>10, Zeros, LeasesAssumption
    DEF Delete, Goes, GoesUnheard, Upset, Listing, LeaseRow, PassState, JobState,
        CallState, Number, Count
  <2>2. running' \in BOOLEAN /\ (running' => current' # 0)
    <3>1. running' = FALSE \/ (running' = running /\ current' = current)
      BY <1>10 DEF Delete, Goes, GoesUnheard
    <3>2. CASE running' = FALSE
      BY <3>2
    <3>3. CASE running' = running /\ current' = current
      BY <3>3, <1>running
    <3>4. QED
      BY <3>1, <3>2, <3>3
  <2>3. lease' \in LeaseRow
    BY <1>lease, <1>10, Nulls, Zeros, LeasesAssumption DEF Delete, Goes, GoesUnheard,
       LeaseRow
  <2>4. job' \in JobState
    BY <1>job, <1>10, Nulls, Zeros, LeasesAssumption DEF Delete, JobState
  <2>5. deleted' \subseteq Number
    BY <1>deleted, <1>incus, <1>running, <1>listed, <1>snap, <1>tenant, <1>lease, <1>pass,
       <1>job, <1>call, <1>upsets, <1>10
    DEF Delete, Goes, GoesUnheard, Upset
  <2>6. upsets' \in 0 .. MaxUpsets
    BY <1>upsets, <1>10, Nulls, Zeros, LeasesAssumption DEF Delete, Upset
  <2> QED
    BY <2>1, <2>2, <2>3, <2>4, <2>5, <2>6, <1>10 DEF TypeOK, Delete, fleet, tenant
<1>11. ASSUME Forget PROVE TypeOK'
  <2>1. lease' \in LeaseRow
    BY <1>lease, <1>11, Nulls DEF Forget
  <2>2. job' \in JobState
    BY <1>job, <1>11, Nulls DEF Forget
  <2> QED
    BY <2>1, <2>2, <1>11 DEF TypeOK, Forget, incus, fleet, tenant
<1>12. ASSUME Mark PROVE TypeOK'
  <2>1. lease' \in LeaseRow
    BY <1>lease, <1>12, Nulls, Zeros, LeasesAssumption DEF Mark, LeaseRow
  <2>2. job' \in JobState
    BY <1>job, <1>12, Nulls DEF Mark
  <2> QED
    BY <2>1, <2>2, <1>12 DEF TypeOK, Mark, incus, fleet, tenant
<1>13. ASSUME JobFails PROVE TypeOK'
  <2>1. current' \in Number /\ made' \in Number /\ current' <= made'
    BY <1>incus, <1>running, <1>listed, <1>snap, <1>tenant, <1>lease, <1>pass, <1>job,
       <1>call, <1>deleted, <1>upsets, <1>13, Zeros, LeasesAssumption
    DEF JobFails, Upset, Goes, Listing, LeaseRow, PassState, JobState, CallState, Number,
        Count
  <2>2. running' \in BOOLEAN /\ (running' => current' # 0)
    <3>1. running' = FALSE \/ (running' = running /\ current' = current)
      BY <1>13 DEF JobFails, Goes
    <3>2. CASE running' = FALSE
      BY <3>2
    <3>3. CASE running' = running /\ current' = current
      BY <3>3, <1>running
    <3>4. QED
      BY <3>1, <3>2, <3>3
  <2>3. job' \in JobState
    BY <1>job, <1>13, Nulls DEF JobFails
  <2>4. deleted' \subseteq Number
    BY <1>deleted, <1>incus, <1>running, <1>listed, <1>snap, <1>tenant, <1>lease, <1>pass,
       <1>job, <1>call, <1>upsets, <1>13
    DEF JobFails, Upset, Goes
  <2>5. upsets' \in 0 .. MaxUpsets
    BY <1>upsets, <1>13, Nulls, Zeros, LeasesAssumption DEF JobFails, Upset
  <2> QED
    BY <2>1, <2>2, <2>3, <2>4, <2>5, <1>13 DEF TypeOK, JobFails, Goes, fleet, tenant
<1>14. ASSUME NEW c \in Caller, Extend(c) PROVE TypeOK'
  <2>1. lease' \in LeaseRow
    <3>1. call[c] \in CallState /\ call[c].extensions \in Count
      BY <1>call DEF CallState
    <3>2. call[c].extensions + 1 \in Count
      BY <1>14, <3>1, LeasesAssumption DEF Extend, ExtensionAllowed, Count
    <3>3. lease.granted + 1 \in Nat
      BY <1>lease DEF LeaseRow
    <3>4. QED
      BY <1>14, <1>lease, <3>2, <3>3 DEF Extend, LeaseRow
  <2>2. call' \in [Caller -> CallState]
    BY <1>call, <1>14, Nulls DEF Extend
  <2> QED
    BY <2>1, <2>2, <1>14 DEF TypeOK, Extend, incus, fleet, tenant
<1>15. ASSUME NEW c \in Caller, SetLease(c) PROVE TypeOK'
  <2>1. lease' \in LeaseRow
    <3>1. call[c] \in CallState /\ call[c].of \in Number
      BY <1>call DEF CallState
    <3>2. Given(call[c].of, "valid", call[c].old) \in LeaseRow
      BY <3>1, Nulls, Zeros DEF Given, LeaseRow
    <3>3. Given(call[c].of, "never", call[c].old) \in LeaseRow
      BY <3>1, Nulls, Zeros DEF Given, LeaseRow
    <3>4. [lease EXCEPT !.end = "valid", !.acted = "no"] \in LeaseRow
      BY <1>lease DEF LeaseRow
    <3>5. [lease EXCEPT !.end = "never", !.acted = "no"] \in LeaseRow
      BY <1>lease DEF LeaseRow
    <3>6. QED
      BY <1>15, <3>2, <3>3, <3>4, <3>5 DEF SetLease
  <2>2. call' \in [Caller -> CallState]
    BY <1>call, <1>15, Nulls DEF SetLease
  <2> QED
    BY <2>1, <2>2, <1>15 DEF TypeOK, SetLease, incus, fleet, tenant
<1>16. ASSUME NEW c \in Caller, NEW what \in {"extend", "set"}, Ask(c, what) PROVE TypeOK'
  <2>1. call' \in [Caller -> CallState]
    BY <1>call, <1>incus, <1>running, <1>listed, <1>snap, <1>tenant, <1>lease, <1>pass,
       <1>job, <1>deleted, <1>upsets, <1>16, Zeros, LeasesAssumption
    DEF Ask, Upset, NoCall, CallState, Listing, LeaseRow, PassState, JobState
  <2>2. upsets' \in 0 .. MaxUpsets
    BY <1>upsets, <1>16, Nulls, Zeros, LeasesAssumption DEF Ask, Upset
  <2> QED
    BY <2>1, <2>2, <1>16 DEF TypeOK, Ask, incus, fleet, tenant
<1>17. ASSUME NEW action \in {"none", "stop", "delete"}, SetPolicy(action) PROVE TypeOK'
  <2>1. policy' \in {"none", "stop", "delete"} /\ dropping' \in Nat
    BY <1>tenant, <1>17, Nulls DEF SetPolicy
  <2>2. lease' \in LeaseRow
    BY <1>lease, <1>17, Nulls, Zeros, LeasesAssumption DEF SetPolicy, LeaseRow
  <2>3. pass' \in PassState
    BY <1>pass, <1>17, Nulls, Zeros, LeasesAssumption DEF SetPolicy, PassState
  <2>4. call' \in [Caller -> CallState]
    <3>1. ASSUME NEW c \in Caller
          PROVE  [call[c] EXCEPT !.old = call[c].what = "set"] \in CallState
      BY <1>call DEF CallState
    <3>2. QED
      BY <1>17, <1>call, <3>1 DEF SetPolicy
  <2>5. upsets' \in 0 .. MaxUpsets
    BY <1>upsets, <1>17, Nulls, Zeros, LeasesAssumption DEF SetPolicy, Upset
  <2> QED
    BY <2>1, <2>2, <2>3, <2>4, <2>5, <1>17 DEF TypeOK, SetPolicy, incus, fleet
<1>cut. ASSUME DropFails PROVE TypeOK'
  <2>1. policy' \in {"none", "stop", "delete"} /\ dropping' \in Nat
    BY <1>tenant, <1>cut DEF DropFails
  <2>2. lease' \in LeaseRow
    BY <1>lease, <1>cut DEF DropFails, LeaseRow
  <2>3. upsets' \in 0 .. MaxUpsets
    BY <1>upsets, <1>cut, LeasesAssumption DEF DropFails, Upset
  <2> QED
    BY <2>1, <2>2, <2>3, <1>cut DEF TypeOK, DropFails, incus, fleet
<1>18. ASSUME DropLeases PROVE TypeOK'
  <2>1. policy' \in {"none", "stop", "delete"} /\ dropping' \in Nat
    BY <1>tenant, <1>18, Nulls DEF DropLeases
  <2>2. lease' \in LeaseRow
    BY <1>lease, <1>18, Nulls DEF DropLeases, dropTenantLeases
  <2> QED
    BY <2>1, <2>2, <1>18 DEF TypeOK, DropLeases, incus, fleet
<1>19. ASSUME Collect PROVE TypeOK'
  <2>1. snap' \in Listing \cup {NoPass}
    BY <1>snap, <1>incus, <1>running, <1>listed, <1>tenant, <1>lease, <1>pass, <1>job,
       <1>call, <1>deleted, <1>upsets, <1>19, Nulls, Zeros, LeasesAssumption
    DEF Collect, Seen, Listing
  <2> QED
    BY <2>1, <1>19 DEF TypeOK, Collect, incus, tenant
<1>20. ASSUME Store PROVE TypeOK'
  <2>1. listed' \in Listing
    BY <1>listed, <1>incus, <1>running, <1>snap, <1>tenant, <1>lease, <1>pass, <1>job,
       <1>call, <1>deleted, <1>upsets, <1>20
    DEF Store
  <2>2. snap' \in Listing \cup {NoPass}
    BY <1>snap, <1>20, Nulls DEF Store
  <2>3. lease' \in LeaseRow
    BY <1>lease, <1>20, Nulls, Zeros, LeasesAssumption DEF Store, LeaseRow
  <2>4. pass' \in PassState
    BY <1>pass, <1>20, Nulls, Zeros, LeasesAssumption DEF Store, PassState
  <2> QED
    BY <2>1, <2>2, <2>3, <2>4, <1>20 DEF TypeOK, Store, incus, tenant
<1>21. ASSUME NEW n \in deleted, OnDeleted(n) PROVE TypeOK'
  <2>1. lease' \in LeaseRow
    BY <1>lease, <1>21, Nulls DEF OnDeleted
  <2>2. deleted' \subseteq Number
    BY <1>deleted, <1>21, Nulls DEF OnDeleted
  <2> QED
    BY <2>1, <2>2, <1>21 DEF TypeOK, OnDeleted, incus, fleet, tenant
<1>22. ASSUME Make PROVE TypeOK'
  <2>1. current' \in Number /\ made' \in Number /\ current' <= made'
    BY <1>incus, <1>running, <1>listed, <1>snap, <1>tenant, <1>lease, <1>pass, <1>job,
       <1>call, <1>deleted, <1>upsets, <1>22, Zeros, LeasesAssumption
    DEF Make, Listing, LeaseRow, PassState, JobState, CallState, Number, Count
  <2>2. running' \in BOOLEAN /\ (running' => current' # 0)
    BY <1>running, <1>incus, <1>listed, <1>snap, <1>tenant, <1>lease, <1>pass, <1>job,
       <1>call, <1>deleted, <1>upsets, <1>22
    DEF Make
  <2> QED
    BY <2>1, <2>2, <1>22 DEF TypeOK, Make, fleet, tenant
<1>23. ASSUME Remove PROVE TypeOK'
  <2>1. current' \in Number /\ made' \in Number /\ current' <= made'
    BY <1>incus, <1>running, <1>listed, <1>snap, <1>tenant, <1>lease, <1>pass, <1>job,
       <1>call, <1>deleted, <1>upsets, <1>23, Zeros, LeasesAssumption
    DEF Remove, Upset, Goes, GoesUnheard, Listing, LeaseRow, PassState, JobState,
        CallState, Number, Count
  <2>2. running' \in BOOLEAN /\ (running' => current' # 0)
    BY <1>running, <1>23, Nulls DEF Remove, Goes, GoesUnheard
  <2>3. lease' \in LeaseRow
    BY <1>lease, <1>23, Nulls, Zeros, LeasesAssumption DEF Remove, Goes, GoesUnheard,
       LeaseRow
  <2>4. deleted' \subseteq Number
    BY <1>deleted, <1>incus, <1>running, <1>listed, <1>snap, <1>tenant, <1>lease, <1>pass,
       <1>job, <1>call, <1>upsets, <1>23
    DEF Remove, Upset, Goes, GoesUnheard
  <2>5. upsets' \in 0 .. MaxUpsets
    BY <1>upsets, <1>23, Nulls, Zeros, LeasesAssumption DEF Remove, Upset
  <2> QED
    BY <2>1, <2>2, <2>3, <2>4, <2>5, <1>23 DEF TypeOK, Remove, fleet, tenant
<1>24. ASSUME Start PROVE TypeOK'
  <2>1. running' \in BOOLEAN /\ (running' => current' # 0)
    BY <1>running, <1>24, Nulls DEF Start
  <2>2. upsets' \in 0 .. MaxUpsets
    BY <1>upsets, <1>24, Nulls, Zeros, LeasesAssumption DEF Start, Upset
  <2> QED
    BY <2>1, <2>2, <1>24 DEF TypeOK, Start, fleet, tenant
<1>25. ASSUME Expire PROVE TypeOK'
  <2>1. lease' \in LeaseRow
    BY <1>lease, <1>25, Nulls, Zeros, LeasesAssumption DEF Expire, LeaseRow
  <2> QED
    BY <2>1, <1>25 DEF TypeOK, Expire, incus, fleet, tenant
<1>26. CASE UNCHANGED vars
  BY <1>26 DEF TypeOK, vars, incus, fleet, tenant
<1> QED
  BY <1>1, <1>2, <1>3, <1>4, <1>5, <1>6, <1>7, <1>8, <1>9, <1>10, <1>11, <1>12, <1>13,
     <1>14, <1>15, <1>16, <1>17, <1>18, <1>19, <1>20, <1>21, <1>22, <1>23, <1>24, <1>25, <1>26,
     <1>cut
  DEF Next, Pass, Handler, API

(* An extension raises both counts of the row it has matched; a new row has neither. *)
LEMMA GrantedIsCountedStep == TypeOK /\ GrantedIsCounted /\ [Next]_vars => GrantedIsCounted'
<1> SUFFICES ASSUME TypeOK, GrantedIsCounted, [Next]_vars PROVE GrantedIsCounted'
  OBVIOUS
<1>1. ASSUME PassInsert PROVE GrantedIsCounted'
  BY <1>1 DEF GrantedIsCounted, PassInsert, Given, NoLease
<1>2. ASSUME PassMark PROVE GrantedIsCounted'
  BY <1>2 DEF GrantedIsCounted, PassMark
<1>3. ASSUME Delete PROVE GrantedIsCounted'
  BY <1>3 DEF GrantedIsCounted, Delete, Goes, GoesUnheard, TypeOK, LeaseRow
<1>4. ASSUME Forget PROVE GrantedIsCounted'
  BY <1>4 DEF GrantedIsCounted, Forget, NoLease
<1>5. ASSUME Mark PROVE GrantedIsCounted'
  BY <1>5 DEF GrantedIsCounted, Mark
<1>6. ASSUME NEW c \in Caller, Extend(c) PROVE GrantedIsCounted'
  BY <1>6 DEF GrantedIsCounted, Extend, Matches
<1>7. ASSUME NEW c \in Caller, SetLease(c) PROVE GrantedIsCounted'
  BY <1>7 DEF GrantedIsCounted, SetLease, Given, NoLease
<1>8. ASSUME NEW action \in {"none", "stop", "delete"}, SetPolicy(action) PROVE GrantedIsCounted'
  BY <1>8 DEF GrantedIsCounted, SetPolicy, TypeOK, LeaseRow
<1>9. ASSUME DropLeases PROVE GrantedIsCounted'
  BY <1>9 DEF GrantedIsCounted, DropLeases, dropTenantLeases, NoLease
<1>10. ASSUME Store PROVE GrantedIsCounted'
  BY <1>10 DEF GrantedIsCounted, Store
<1>11. ASSUME NEW n \in deleted, OnDeleted(n) PROVE GrantedIsCounted'
  BY <1>11 DEF GrantedIsCounted, OnDeleted, NoLease
<1>12. ASSUME Remove PROVE GrantedIsCounted'
  BY <1>12 DEF GrantedIsCounted, Remove, Goes, GoesUnheard, TypeOK, LeaseRow
<1>13. ASSUME Expire PROVE GrantedIsCounted'
  BY <1>13 DEF GrantedIsCounted, Expire
<1>cut. ASSUME DropFails PROVE GrantedIsCounted'
  BY <1>cut DEF GrantedIsCounted, DropFails, TypeOK, LeaseRow
<1>14. CASE UNCHANGED lease
  BY <1>14 DEF GrantedIsCounted
<1>15. QED
  BY <1>cut, <1>1, <1>2, <1>3, <1>4, <1>5, <1>6, <1>7, <1>8, <1>9, <1>10, <1>11, <1>12, <1>13, <1>14
     DEF Next, Pass, Handler, API, vars, PassBegin, PassSelect, PassEnqueue, PassFails,
     Look, Read, Stop, JobFails, Ask, Collect, Make, Start, Goes

(* A call begins only while the row's count is below the limit. *)
LEMMA ExtensionAllowedStep == TypeOK /\ ExtensionAllowed /\ [Next]_vars => ExtensionAllowed'
<1> SUFFICES ASSUME TypeOK, ExtensionAllowed, [Next]_vars PROVE ExtensionAllowed'
  OBVIOUS
<1>1. ASSUME NEW c \in Caller, Extend(c) PROVE ExtensionAllowed'
  BY <1>1 DEF ExtensionAllowed, Extend, NoCall
<1>2. ASSUME NEW c \in Caller, SetLease(c) PROVE ExtensionAllowed'
  BY <1>2 DEF ExtensionAllowed, SetLease, NoCall
<1>3. ASSUME NEW c \in Caller, NEW what \in {"extend", "set"}, Ask(c, what) PROVE ExtensionAllowed'
  BY <1>3 DEF ExtensionAllowed, Ask
<1>4. ASSUME NEW action \in {"none", "stop", "delete"}, SetPolicy(action) PROVE ExtensionAllowed'
  BY <1>4 DEF ExtensionAllowed, SetPolicy, TypeOK, LeaseRow, CallState
<1>5. CASE UNCHANGED call
  BY <1>5 DEF ExtensionAllowed
<1>6. QED
  BY <1>1, <1>2, <1>3, <1>4, <1>5 DEF Next, Pass, Handler, API, vars, PassBegin, PassInsert,
     PassSelect, PassEnqueue, PassMark, PassFails, Look, Read, Stop, Delete, Forget, Mark,
     JobFails, DropLeases, DropFails, Collect, Store, OnDeleted, Make, Remove, Start, Expire

(* However an instance goes, its event is on the way or its lease is marked stray. *)
LEMMA GoingIsNoted ==
  TypeOK /\ LeaseFollowsInstance /\ (Goes \/ GoesUnheard) => LeaseFollowsInstance'
<1> SUFFICES ASSUME TypeOK, LeaseFollowsInstance, Goes \/ GoesUnheard
             PROVE  LeaseFollowsInstance'
  OBVIOUS
<1>1. CASE Goes
  BY <1>1 DEF Goes, LeaseFollowsInstance
<1>2. CASE GoesUnheard
  <2>1. lease'.of = lease.of /\ ((lease.stray \/ lease.of = current) => lease'.stray)
    BY <1>2 DEF GoesUnheard, TypeOK, LeaseRow
  <2>2. QED
    BY <2>1, <1>2 DEF GoesUnheard, LeaseFollowsInstance
<1>3. QED
  BY <1>1, <1>2

(* An instance that goes has its event sent, or its lease becomes stray. *)
LEMMA LeaseFollowsInstanceStep == TypeOK /\ LeaseFollowsInstance /\ [Next]_vars => LeaseFollowsInstance'
<1> SUFFICES ASSUME TypeOK, LeaseFollowsInstance, [Next]_vars PROVE LeaseFollowsInstance'
  OBVIOUS
<1>1. ASSUME PassInsert PROVE LeaseFollowsInstance'
  BY <1>1 DEF LeaseFollowsInstance, PassInsert, Given, NoLease, incus
<1>2. ASSUME PassMark PROVE LeaseFollowsInstance'
  BY <1>2 DEF LeaseFollowsInstance, PassMark, incus
<1>3. ASSUME Delete PROVE LeaseFollowsInstance'
  <2>1. (Goes \/ GoesUnheard) \/ UNCHANGED <<current, deleted, lease>>
    BY <1>3 DEF Delete
  <2>2. QED
    BY <2>1, GoingIsNoted DEF LeaseFollowsInstance
<1>4. ASSUME Forget PROVE LeaseFollowsInstance'
  BY <1>4 DEF LeaseFollowsInstance, Forget, NoLease
<1>5. ASSUME Mark PROVE LeaseFollowsInstance'
  BY <1>5 DEF LeaseFollowsInstance, Mark, incus
<1>6. ASSUME JobFails PROVE LeaseFollowsInstance'
  BY <1>6 DEF LeaseFollowsInstance, JobFails, Goes
<1>7. ASSUME NEW c \in Caller, Extend(c) PROVE LeaseFollowsInstance'
  BY <1>7 DEF LeaseFollowsInstance, Extend, incus
<1>8. ASSUME NEW c \in Caller, SetLease(c) PROVE LeaseFollowsInstance'
  <2>1. CASE lease.end = "none"
    <3>1. ASSUME NEW end PROVE
            LET given == Given(call[c].of, end, call[c].old)
            IN  given.of # current => given.stray
      BY DEF Given, NoLease
    <3>2. QED
      BY <1>8, <2>1, <3>1 DEF SetLease, LeaseFollowsInstance, incus
  <2>2. CASE lease.end # "none"
    BY <1>8, <2>2 DEF SetLease, LeaseFollowsInstance, incus
  <2>3. QED
    BY <2>1, <2>2
<1>9. ASSUME NEW action \in {"none", "stop", "delete"}, SetPolicy(action) PROVE LeaseFollowsInstance'
  BY <1>9 DEF LeaseFollowsInstance, SetPolicy, incus, TypeOK, LeaseRow
<1>10. ASSUME DropLeases PROVE LeaseFollowsInstance'
  BY <1>10 DEF LeaseFollowsInstance, DropLeases, dropTenantLeases, NoLease
<1>11. ASSUME Store PROVE LeaseFollowsInstance'
  BY <1>11 DEF LeaseFollowsInstance, Store, incus
<1>12. ASSUME NEW n \in deleted, OnDeleted(n) PROVE LeaseFollowsInstance'
  BY <1>12 DEF LeaseFollowsInstance, OnDeleted, NoLease
<1>13. ASSUME Make PROVE LeaseFollowsInstance'
  BY <1>13 DEF LeaseFollowsInstance, Make
<1>14. ASSUME Remove PROVE LeaseFollowsInstance'
  BY <1>14, GoingIsNoted DEF Remove
<1>15. ASSUME Expire PROVE LeaseFollowsInstance'
  BY <1>15 DEF LeaseFollowsInstance, Expire, incus
<1>cut. ASSUME DropFails PROVE LeaseFollowsInstance'
  BY <1>cut DEF LeaseFollowsInstance, DropFails, incus, TypeOK, LeaseRow
<1>16. CASE UNCHANGED <<current, lease, deleted>>
  BY <1>16 DEF LeaseFollowsInstance
<1>17. QED
  BY <1>cut, <1>1, <1>2, <1>3, <1>4, <1>5, <1>6, <1>7, <1>8, <1>9, <1>10, <1>11, <1>12, <1>13,
     <1>14, <1>15, <1>16
  DEF Next, Pass, Handler, API, vars, incus, fleet, tenant, PassBegin, PassSelect,
      PassEnqueue, PassFails, Look, Read, Stop, Ask, Collect, Start, Upset

(* The call that removes the policy drops the leases, or is cut and has them marked. *)
LEMMA RemovedIsDroppingStep == TypeOK /\ RemovedIsDropping /\ [Next]_vars => RemovedIsDropping'
<1> SUFFICES ASSUME TypeOK, RemovedIsDropping, [Next]_vars PROVE RemovedIsDropping'
  OBVIOUS
<1>1. ASSUME PassInsert PROVE RemovedIsDropping'
  BY <1>1 DEF RemovedIsDropping, PassInsert, Given, tenant
<1>2. ASSUME PassMark PROVE RemovedIsDropping'
  BY <1>2 DEF RemovedIsDropping, PassMark, tenant
<1>3. ASSUME Delete PROVE RemovedIsDropping'
  BY <1>3 DEF RemovedIsDropping, Delete, Goes, GoesUnheard, tenant, TypeOK, LeaseRow
<1>4. ASSUME Forget PROVE RemovedIsDropping'
  BY <1>4 DEF RemovedIsDropping, Forget, NoLease
<1>5. ASSUME Mark PROVE RemovedIsDropping'
  BY <1>5 DEF RemovedIsDropping, Mark, tenant
<1>6. ASSUME NEW c \in Caller, Extend(c) PROVE RemovedIsDropping'
  BY <1>6 DEF RemovedIsDropping, Extend, tenant
<1>7. ASSUME NEW c \in Caller, SetLease(c) PROVE RemovedIsDropping'
  BY <1>7 DEF RemovedIsDropping, SetLease, Given, tenant
<1>8. ASSUME NEW action \in {"none", "stop", "delete"}, SetPolicy(action) PROVE RemovedIsDropping'
  BY <1>8 DEF RemovedIsDropping, SetPolicy, TypeOK
<1>9. ASSUME DropLeases PROVE RemovedIsDropping'
  BY <1>9 DEF RemovedIsDropping, DropLeases, dropTenantLeases, NoLease
<1>10. ASSUME Store PROVE RemovedIsDropping'
  BY <1>10 DEF RemovedIsDropping, Store, tenant
<1>11. ASSUME NEW n \in deleted, OnDeleted(n) PROVE RemovedIsDropping'
  BY <1>11 DEF RemovedIsDropping, OnDeleted, NoLease
<1>12. ASSUME Remove PROVE RemovedIsDropping'
  BY <1>12 DEF RemovedIsDropping, Remove, Goes, GoesUnheard, tenant, TypeOK, LeaseRow
<1>13. ASSUME Expire PROVE RemovedIsDropping'
  BY <1>13 DEF RemovedIsDropping, Expire, tenant
<1>cut. ASSUME DropFails PROVE RemovedIsDropping'
  BY <1>cut DEF RemovedIsDropping, DropFails, TypeOK, LeaseRow
<1>14. CASE UNCHANGED <<policy, dropping, lease>>
  BY <1>14 DEF RemovedIsDropping
<1>15. QED
  BY <1>cut, <1>1, <1>2, <1>3, <1>4, <1>5, <1>6, <1>7, <1>8, <1>9, <1>10, <1>11, <1>12, <1>13, <1>14
     DEF Next, Pass, Handler, API, vars, tenant, PassBegin, PassSelect, PassEnqueue,
     PassFails, Look, Read, Stop, JobFails, Ask, Collect, Make, Start, Goes

-----------------------------------------------------------------------------
(* No instance, no lease, no call: the invariant holds. *)
LEMMA InitIInv == Init => IInv
<1> SUFFICES ASSUME Init PROVE IInv
  OBVIOUS
<1>1. TypeOK
  <2>1. listed \in Listing
    BY Zeros DEF Init, Seen, Listing
  <2>2. call \in [Caller -> CallState]
    BY Nulls DEF Init
  <2>3. current \in Number /\ made \in Number /\ current <= made
    BY Zeros DEF Init
  <2>4. lease \in LeaseRow /\ pass \in PassState /\ job \in JobState
    BY Nulls DEF Init
  <2>5. upsets \in 0 .. MaxUpsets
    BY LeasesAssumption DEF Init
  <2>6. QED
    BY <2>1, <2>2, <2>3, <2>4, <2>5 DEF Init, TypeOK
<1>2. GrantedIsCounted /\ LeaseFollowsInstance /\ RemovedIsDropping
  BY DEF Init, GrantedIsCounted, LeaseFollowsInstance, RemovedIsDropping, NoLease
<1>3. ExtensionAllowed
  BY DEF Init, ExtensionAllowed, NoCall
<1>4. QED
  BY <1>1, <1>2, <1>3 DEF IInv

(* The inductive invariant of the leases. *)
THEOREM Invariance == Spec => []IInv
<1>1. IInv /\ [Next]_vars => IInv'
  BY TypeStep, GrantedIsCountedStep, ExtensionAllowedStep, LeaseFollowsInstanceStep,
     RemovedIsDroppingStep DEF IInv
<1>2. QED
  BY InitIInv, <1>1, PTL DEF Spec

(* The variables keep their types: the row of the table and what passes, jobs and
   calls carry of it between their statements. *)
THEOREM TypeCorrect == Spec => []TypeOK
<1>1. IInv => TypeOK
  BY DEF IInv
<1>2. QED
  BY Invariance, <1>1, PTL

(* No lease is extended more often than the policy allows, whatever calls race:
   the count is checked, and is still the row's when it is written. *)
THEOREM ExtensionsAreBounded == Spec => []ExtensionsBounded
<1>1. IInv => ExtensionsBounded
  BY LeasesAssumption DEF IInv, TypeOK, LeaseRow, Count, GrantedIsCounted, ExtensionsBounded
<1>2. QED
  BY Invariance, <1>1, PTL

(* A lease does not outlive its instance or its policy, except in the ways the
   property names: an event that is pending or lost, a stale inventory, a call
   that was cut short or a write that came late. *)
THEOREM LeasesAreCurrent == Spec => []LeaseIsCurrent
<1>1. IInv => LeaseIsCurrent
  BY DEF IInv, LeaseFollowsInstance, RemovedIsDropping, LeaseIsCurrent
<1>2. QED
  BY Invariance, <1>1, PTL
=============================================================================
