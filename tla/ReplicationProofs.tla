-------------------------- MODULE ReplicationProofs --------------------------
(***************************************************************************)
(* Proofs about Replication, for any number of runs and failovers, any     *)
(* amount of data and any number of user steps and failures.               *)
(***************************************************************************)
EXTENDS Replication, TLAPS

(* Nothing at the target name. *)
LEMMA NothingThere ==
  /\ Gone \in Instance /\ Gone.who = "none" /\ Gone.job = NoJob /\ Gone.data = Partial
  /\ ~Gone.running
BY DEF Gone, Instance

(* What users do at the target name: remove, make, start and stop. *)
LEMMA UserTouches ==
  ASSUME TypeOK, UserActs
  PROVE  /\ op = NoJob /\ op' = NoJob /\ UNCHANGED <<policy, synced, pc, refresh, trusted, broken>>
         /\ \/ inst' = Gone
            \/ inst.who = "none" /\ inst'.who = "user" /\ inst'.job = NoJob
            \/ inst'.who = inst.who /\ inst'.job = inst.job /\ inst'.data = inst.data
<1>1. /\ op = NoJob /\ op' = NoJob /\ UNCHANGED <<policy, synced, pc, refresh, trusted, broken>>
  BY DEF UserActs, row, memory
<1>2. CASE inst' = Gone
  BY <1>1, <1>2
<1>3. CASE inst.who = "none" /\ inst' = [Gone EXCEPT !.who = "user", !.data = 0]
  BY <1>1, <1>3 DEF Gone
<1>4. CASE inst' = [inst EXCEPT !.running = ~@]
  <2>1. inst \in Instance
    BY DEF TypeOK
  <2>2. inst'.who = inst.who /\ inst'.job = inst.job /\ inst'.data = inst.data
    BY <1>4, <2>1 DEF Instance
  <2>3. QED
    BY <1>1, <1>4, <2>2
<1>5. QED
  BY <1>2, <1>3, <1>4 DEF UserActs

(* Every action keeps the variables in their types. *)
LEMMA TypeStep == TypeOK /\ [Next]_vars => TypeOK'
<1> SUFFICES ASSUME TypeOK, [Next]_vars PROVE TypeOK'
  OBVIOUS
<1>data. data \in Amount
  BY DEF TypeOK
<1>inst. inst \in Instance
  BY DEF TypeOK
<1>op. op \in Run \cup {NoJob}
  BY DEF TypeOK
<1>policy. policy \in {"active", "failed-over", "deleted"}
  BY DEF TypeOK
<1>enabled. enabled \in BOOLEAN
  BY DEF TypeOK
<1>synced. synced \in BOOLEAN
  BY DEF TypeOK
<1>pc. pc \in [Run \cup Failover -> Step]
  BY DEF TypeOK
<1>refresh. refresh \in [Run -> BOOLEAN]
  BY DEF TypeOK
<1>wasRunning. wasRunning \in [Failover -> BOOLEAN]
  BY DEF TypeOK
<1>trusted. trusted \subseteq Failover
  BY DEF TypeOK
<1>broken. broken \in BOOLEAN
  BY DEF TypeOK
<1>userSteps. userSteps \in 0 .. MaxUserSteps
  BY DEF TypeOK
<1>faults. faults \in 0 .. MaxFaults
  BY DEF TypeOK
<1>1. ASSUME NEW r \in Run, Enqueue(r) PROVE TypeOK'
  <2>1. pc' \in [Run \cup Failover -> Step]
    BY <1>pc, <1>1, NothingThere, ReplicationAssumption
    DEF Enqueue, Go, RunSteps, Step, FailoverSteps
  <2>3. trusted' \subseteq Failover
    BY <1>trusted, <1>1, NothingThere DEF Enqueue, Go, RunSteps
  <2> QED
    BY <2>1, <2>3, <1>1 DEF TypeOK, Enqueue, Go, target, row, memory, bounds
<1>2. ASSUME NEW r \in Run, Check(r) PROVE TypeOK'
  <2>1. pc' \in [Run \cup Failover -> Step]
    BY <1>pc, <1>2, NothingThere, ReplicationAssumption
    DEF Check, Go, Step, RunSteps, FailoverSteps
  <2>2. refresh' \in [Run -> BOOLEAN]
    BY <1>refresh, <1>2, NothingThere DEF Check, Go
  <2> QED
    BY <2>1, <2>2, <1>2 DEF TypeOK, Check, Go, target, row, past, bounds
<1>3. ASSUME NEW r \in Run, Start(r) PROVE TypeOK'
  <2>1. inst' \in Instance
    <3>1. CASE inst' = [Gone EXCEPT !.who = "replica", !.job = IF refresh[r] THEN NoJob ELSE r]
      BY <3>1 DEF Instance, Gone
    <3>2. CASE inst' = [inst EXCEPT !.data = Partial]
      BY <3>2, <1>inst DEF Instance
    <3>3. CASE inst' = inst
      BY <3>3, <1>inst
    <3>4. QED
      BY <1>3, <3>1, <3>2, <3>3 DEF Start, target
  <2>2. op' \in Run \cup {NoJob}
    BY <1>op, <1>3, ZenonT(30) DEF Start, Go, Fault, target, row, memory, past, bounds
  <2>3. pc' \in [Run \cup Failover -> Step]
    BY <1>pc, <1>3, NothingThere, ReplicationAssumption
    DEF Start, Go, Fault, Step, RunSteps, FailoverSteps
  <2>4. faults' \in 0 .. MaxFaults
    BY <1>faults, <1>3, NothingThere, ReplicationAssumption DEF Start, Go, Fault
  <2> QED
    BY <2>1, <2>2, <2>3, <2>4, <1>3 DEF TypeOK, Start, Go, target, Fault, row, memory, past
<1>4. ASSUME NEW r \in Run, Succeed(r) PROVE TypeOK'
  <2>1. synced' \in BOOLEAN
    BY <1>synced, <1>4, NothingThere DEF Succeed, End, Go
  <2>2. pc' \in [Run \cup Failover -> Step]
    BY <1>pc, <1>4, NothingThere, ReplicationAssumption
    DEF Succeed, End, Go, Step, RunSteps, FailoverSteps
  <2>3. refresh' \in [Run -> BOOLEAN]
    BY <1>refresh, <1>4, NothingThere DEF Succeed, End, Go
  <2>4. wasRunning' \in [Failover -> BOOLEAN]
    BY <1>wasRunning, <1>4, NothingThere DEF Succeed, End, Go
  <2> QED
    BY <2>1, <2>2, <2>3, <2>4, <1>4 DEF TypeOK, Succeed, End, target, past, bounds, Go
<1>5. ASSUME NEW r \in Run, Cut(r) PROVE TypeOK'
  <2>1. pc' \in [Run \cup Failover -> Step]
    BY <1>pc, <1>5, NothingThere, ReplicationAssumption
    DEF Cut, Fault, Go, Step, RunSteps, FailoverSteps
  <2>2. faults' \in 0 .. MaxFaults
    BY <1>faults, <1>5, NothingThere, ReplicationAssumption DEF Cut, Fault, Go
  <2> QED
    BY <2>1, <2>2, <1>5 DEF TypeOK, Cut, Fault, Go, target, row, memory, past
<1>6. ASSUME NEW r \in Run, Catch(r) PROVE TypeOK'
  <2>1. pc' \in [Run \cup Failover -> Step]
    BY <1>pc, <1>6, NothingThere, ReplicationAssumption
    DEF Catch, Go, Fault, Step, RunSteps, FailoverSteps
  <2>2. faults' \in 0 .. MaxFaults
    BY <1>faults, <1>6, NothingThere, ReplicationAssumption DEF Catch, Go, Fault
  <2> QED
    BY <2>1, <2>2, <1>6 DEF TypeOK, Catch, Go, Fault, target, row, memory, past
<1>7. ASSUME NEW r \in Run, Delete(r) PROVE TypeOK'
  <2>1. inst' \in Instance
    BY <1>inst, <1>7, NothingThere DEF Delete, Go, Fault
  <2>2. pc' \in [Run \cup Failover -> Step]
    BY <1>pc, <1>7, NothingThere, ReplicationAssumption
    DEF Delete, Go, Fault, Step, RunSteps, FailoverSteps
  <2>3. faults' \in 0 .. MaxFaults
    BY <1>faults, <1>7, NothingThere, ReplicationAssumption DEF Delete, Go, Fault
  <2> QED
    BY <2>1, <2>2, <2>3, <1>7 DEF TypeOK, Delete, Go, Fault, row, memory, past
<1>8. ASSUME NEW r \in Run, Fail(r) PROVE TypeOK'
  <2>1. synced' \in BOOLEAN
    BY <1>synced, <1>8, NothingThere DEF Fail, End, Go
  <2>2. pc' \in [Run \cup Failover -> Step]
    BY <1>pc, <1>8, NothingThere, ReplicationAssumption
    DEF Fail, End, Go, Step, RunSteps, FailoverSteps
  <2>3. refresh' \in [Run -> BOOLEAN]
    BY <1>refresh, <1>8, NothingThere DEF Fail, End, Go
  <2>4. wasRunning' \in [Failover -> BOOLEAN]
    BY <1>wasRunning, <1>8, NothingThere DEF Fail, End, Go
  <2> QED
    BY <2>1, <2>2, <2>3, <2>4, <1>8 DEF TypeOK, Fail, End, target, past, bounds, Go
<1>9. ASSUME NEW j \in Run \cup Failover, Crash(j) PROVE TypeOK'
  <2>1. synced' \in BOOLEAN
    BY <1>synced, <1>9, NothingThere DEF Crash, Fault, End, Go
  <2>2. pc' \in [Run \cup Failover -> Step]
    BY <1>pc, <1>9, NothingThere, ReplicationAssumption
    DEF Crash, Fault, End, Go, Step, RunSteps, FailoverSteps
  <2>3. refresh' \in [Run -> BOOLEAN]
    BY <1>refresh, <1>9, NothingThere DEF Crash, Fault, End, Go
  <2>4. wasRunning' \in [Failover -> BOOLEAN]
    BY <1>wasRunning, <1>9, NothingThere DEF Crash, Fault, End, Go
  <2>5. broken' \in BOOLEAN
    BY <1>broken, <1>9, NothingThere DEF Crash, Fault, End, Go
  <2>6. faults' \in 0 .. MaxFaults
    BY <1>faults, <1>9, NothingThere, ReplicationAssumption DEF Crash, Fault, End, Go
  <2> QED
    BY <2>1, <2>2, <2>3, <2>4, <2>5, <2>6, <1>9 DEF TypeOK, Crash, Fault, End, target, Go
<1>10. ASSUME NEW f \in Failover, Ask(f) PROVE TypeOK'
  <2>1. pc' \in [Run \cup Failover -> Step]
    BY <1>pc, <1>10, NothingThere, ReplicationAssumption
    DEF Ask, Go, Step, RunSteps, FailoverSteps
  <2> QED
    BY <2>1, <1>10 DEF TypeOK, Ask, Go, target, row, memory, past, bounds
<1>11. ASSUME NEW f \in Failover, Read(f) PROVE TypeOK'
  <2>1. pc' \in [Run \cup Failover -> Step]
    BY <1>pc, <1>11, NothingThere, ReplicationAssumption
    DEF Read, Go, RunSteps, Step, FailoverSteps
  <2>2. wasRunning' \in [Failover -> BOOLEAN]
    BY <1>wasRunning, <1>data, <1>inst, <1>op, <1>policy, <1>enabled, <1>synced, <1>pc,
       <1>refresh, <1>trusted, <1>broken, <1>userSteps, <1>faults, <1>11,
       ReplicationAssumption
    DEF Read, Go, RunSteps, Amount, Instance, Step, FailoverSteps
  <2>3. trusted' \subseteq Failover
    BY <1>trusted, <1>11, NothingThere DEF Read, Go, RunSteps
  <2> QED
    BY <2>1, <2>2, <2>3, <1>11 DEF TypeOK, Read, Go, target, row, bounds
<1>12. ASSUME NEW f \in Failover, Promote(f) PROVE TypeOK'
  <2>1. inst' \in Instance
    BY <1>inst, <1>12, NothingThere, ReplicationAssumption
    DEF Promote, Go, End, Fault, Instance, Amount
  <2>2. pc' \in [Run \cup Failover -> Step]
    BY <1>pc, <1>12, NothingThere, ReplicationAssumption
    DEF Promote, Go, End, Fault, Step, RunSteps, FailoverSteps
  <2>3. refresh' \in [Run -> BOOLEAN]
    BY <1>refresh, <1>12, ZenonT(30)
    DEF Promote, Go, End, Fault, target, row, memory, past, bounds
  <2>4. wasRunning' \in [Failover -> BOOLEAN]
    BY <1>wasRunning, <1>12, ZenonT(30)
    DEF Promote, Go, End, Fault, target, row, memory, past, bounds
  <2>6. faults' \in 0 .. MaxFaults
    BY <1>faults, <1>12, NothingThere, ReplicationAssumption
    DEF Promote, Go, End, Fault
  <2> QED
    BY <2>1, <2>2, <2>3, <2>4, <2>6, <1>12
    DEF TypeOK, Promote, Go, memory, End, Fault, row
<1>13. ASSUME NEW f \in Failover, Boot(f) PROVE TypeOK'
  <2>1. inst' \in Instance
    BY <1>inst, <1>13, NothingThere, ReplicationAssumption
    DEF Boot, Go, End, Fault, Instance, Amount
  <2>2. pc' \in [Run \cup Failover -> Step]
    BY <1>pc, <1>13, NothingThere, ReplicationAssumption
    DEF Boot, Go, End, Fault, Step, RunSteps, FailoverSteps
  <2>3. refresh' \in [Run -> BOOLEAN]
    BY <1>refresh, <1>13, ZenonT(30)
    DEF Boot, Go, End, Fault, target, row, memory, past, bounds
  <2>4. wasRunning' \in [Failover -> BOOLEAN]
    BY <1>wasRunning, <1>13, ZenonT(30)
    DEF Boot, Go, End, Fault, target, row, memory, past, bounds
  <2>5. broken' \in BOOLEAN
    BY <1>broken, <1>13, NothingThere DEF Boot, Go, End, Fault
  <2>6. faults' \in 0 .. MaxFaults
    BY <1>faults, <1>13, NothingThere, ReplicationAssumption DEF Boot, Go, End, Fault
  <2> QED
    BY <2>1, <2>2, <2>3, <2>4, <2>5, <2>6, <1>13
    DEF TypeOK, Boot, Go, memory, End, Fault, row
<1>14. ASSUME NEW f \in Failover, Close(f) PROVE TypeOK'
  <2>1. policy' \in {"active", "failed-over", "deleted"}
    BY <1>policy, <1>14, NothingThere DEF Close, End, Go
  <2>2. enabled' \in BOOLEAN
    BY <1>enabled, <1>14, NothingThere DEF Close, End, Go
  <2>3. pc' \in [Run \cup Failover -> Step]
    BY <1>pc, <1>14, NothingThere, ReplicationAssumption
    DEF Close, End, Go, Step, RunSteps, FailoverSteps
  <2>4. refresh' \in [Run -> BOOLEAN]
    BY <1>refresh, <1>14, NothingThere DEF Close, End, Go
  <2>5. wasRunning' \in [Failover -> BOOLEAN]
    BY <1>wasRunning, <1>14, NothingThere DEF Close, End, Go
  <2> QED
    BY <2>1, <2>2, <2>3, <2>4, <2>5, <1>14 DEF TypeOK, Close, End, target, past, bounds, Go
<1>15. ASSUME Land PROVE TypeOK'
  <2>1. inst' \in Instance
    <3>1. CASE inst' = [inst EXCEPT !.data = data]
      BY <3>1, <1>inst, <1>data DEF Instance
    <3>2. CASE inst' = Gone \/ inst' = inst
      BY <3>2, <1>inst, NothingThere
    <3>3. QED
      BY <1>15, <3>1, <3>2 DEF Land
  <2>2. op' \in Run \cup {NoJob}
    BY <1>op, <1>15, NothingThere DEF Land, Fault
  <2>3. pc' \in [Run \cup Failover -> Step]
    BY <1>pc, <1>15, NothingThere, ReplicationAssumption
    DEF Land, Fault, Step, RunSteps, FailoverSteps
  <2>5. faults' \in 0 .. MaxFaults
    BY <1>faults, <1>15, NothingThere, ReplicationAssumption DEF Land, Fault
  <2> QED
    BY <2>1, <2>2, <2>3, <2>5, <1>15 DEF TypeOK, Land, Fault, row, memory
<1>16. ASSUME Write PROVE TypeOK'
  <2>1. data' \in Amount
    BY <1>data, <1>16, NothingThere, ReplicationAssumption DEF Write, Amount
  <2> QED
    BY <2>1, <1>16 DEF TypeOK, Write, target, row, memory, past, bounds
<1>17. ASSUME UserActs PROVE TypeOK'
  <2>1. inst' \in Instance
    <3>1. CASE inst' = Gone
      BY <3>1, NothingThere
    <3>2. CASE inst' = [Gone EXCEPT !.who = "user", !.data = 0]
      <4>1. 0 \in Amount
        BY ReplicationAssumption DEF Amount
      <4>2. QED
        BY <3>2, <4>1 DEF Gone, Instance
    <3>3. CASE inst' = [inst EXCEPT !.running = ~@]
      BY <3>3, <1>inst DEF Instance
    <3>4. QED
      BY <1>17, <3>1, <3>2, <3>3 DEF UserActs
  <2>3. userSteps' \in 0 .. MaxUserSteps
    BY <1>userSteps, <1>17, NothingThere, ReplicationAssumption
    DEF UserActs, UserStep
  <2> QED
    BY <2>1, <2>3, <1>17 DEF TypeOK, UserActs, UserStep, row, memory
<1>18. ASSUME Patch PROVE TypeOK'
  <2>1. policy' \in {"active", "failed-over", "deleted"}
    BY <1>policy, <1>18, NothingThere DEF Patch, UserStep
  <2>2. enabled' \in BOOLEAN
    BY <1>enabled, <1>18, NothingThere DEF Patch, UserStep
  <2>3. userSteps' \in 0 .. MaxUserSteps
    BY <1>userSteps, <1>18, NothingThere, ReplicationAssumption DEF Patch, UserStep
  <2> QED
    BY <2>1, <2>2, <2>3, <1>18 DEF TypeOK, Patch, UserStep, target, memory, past
<1>19. CASE UNCHANGED vars
  BY <1>19 DEF TypeOK, vars, target, row, memory, past, bounds
<1> QED
  BY <1>1, <1>2, <1>3, <1>4, <1>5, <1>6, <1>7, <1>8, <1>9, <1>10, <1>11, <1>12, <1>13,
     <1>14, <1>15, <1>16, <1>17, <1>18, <1>19
  DEF Next, RunStep, FailoverStep

(* A run is queued only when none is active. *)
LEMMA OneRunStep == TypeOK /\ OneRun /\ [Next]_vars => OneRun'
<1> SUFFICES ASSUME TypeOK, OneRun, [Next]_vars PROVE OneRun'
  OBVIOUS
<1>1. ASSUME NEW r \in Run, Enqueue(r) PROVE OneRun'
  BY <1>1, NothingThere
  DEF OneRun, RunSteps, Active, Enqueue, Go, target, row, memory, bounds
<1>2. ASSUME NEW r \in Run, Check(r) PROVE OneRun'
  BY <1>2, NothingThere
  DEF OneRun, RunSteps, Active, Check, Go, target, row, past, bounds, TypeOK
<1>3. ASSUME NEW r \in Run, Start(r) PROVE OneRun'
  BY <1>3, NothingThere
  DEF OneRun, RunSteps, Active, Start, Gone, Go, Fault, target, row, memory, past, TypeOK
<1>4. ASSUME NEW r \in Run, Succeed(r) PROVE OneRun'
  BY <1>4, NothingThere DEF OneRun, RunSteps, Active, Succeed, End, Go, target, past, bounds
<1>5. ASSUME NEW r \in Run, Cut(r) PROVE OneRun'
  BY <1>5, NothingThere
  DEF OneRun, RunSteps, Active, Cut, Fault, Go, target, row, memory, past
<1>6. ASSUME NEW r \in Run, Catch(r) PROVE OneRun'
  BY <1>6, NothingThere
  DEF OneRun, RunSteps, Active, Catch, Go, Fault, target, row, memory, past, TypeOK
<1>7. ASSUME NEW r \in Run, Delete(r) PROVE OneRun'
  BY <1>7, NothingThere DEF OneRun, RunSteps, Active, Delete, Go, Fault, row, memory, past
<1>8. ASSUME NEW r \in Run, Fail(r) PROVE OneRun'
  BY <1>8, NothingThere DEF OneRun, RunSteps, Active, Fail, End, Go, target, past, bounds
<1>9. ASSUME NEW j \in Run \cup Failover, Crash(j) PROVE OneRun'
  BY <1>9, NothingThere DEF OneRun, RunSteps, Active, Crash, Fault, End, Go, target
<1>10. ASSUME NEW f \in Failover, Ask(f) PROVE OneRun'
  BY <1>10, NothingThere, ReplicationAssumption
  DEF OneRun, RunSteps, Active, Ask, Go, target, row, memory, past, bounds, TypeOK
<1>11. ASSUME NEW f \in Failover, Read(f) PROVE OneRun'
  BY <1>11, NothingThere DEF OneRun, RunSteps, Active, Read, Go, target, row, bounds, TypeOK
<1>12. ASSUME NEW f \in Failover, Promote(f) PROVE OneRun'
  BY <1>12, NothingThere
  DEF OneRun, RunSteps, Active, Promote, Go, End, Fault, row, memory, TypeOK
<1>13. ASSUME NEW f \in Failover, Boot(f) PROVE OneRun'
  BY <1>13, NothingThere
  DEF OneRun, RunSteps, Active, Boot, Go, End, Fault, row, memory, TypeOK
<1>14. ASSUME NEW f \in Failover, Close(f) PROVE OneRun'
  BY <1>14, NothingThere DEF OneRun, RunSteps, Active, Close, End, Go, target, past, bounds
<1>15. ASSUME Land PROVE OneRun'
  BY <1>15, NothingThere
  DEF OneRun, RunSteps, Active, Land, Fault, Gone, row, memory, TypeOK
<1>16. CASE UNCHANGED pc
  BY <1>16 DEF OneRun, RunSteps, Active
<1>17. QED
  BY <1>1, <1>2, <1>3, <1>4, <1>5, <1>6, <1>7, <1>8, <1>9, <1>10, <1>11, <1>12, <1>13,
     <1>14, <1>15, <1>16
  DEF Next, RunStep, FailoverStep, vars, target, row, memory, past, bounds, Write,
      UserActs, Patch, UserStep

(* A transfer is answered when Incus has ended it, whole or into the catch. *)
LEMMA AnsweredIsWholeStep == TypeOK /\ OneRun /\ AnsweredIsWhole /\ [Next]_vars => AnsweredIsWhole'
<1> SUFFICES ASSUME TypeOK, OneRun, AnsweredIsWhole, [Next]_vars PROVE AnsweredIsWhole'
  OBVIOUS
<1>1. ASSUME NEW r \in Run, Enqueue(r) PROVE AnsweredIsWhole'
  BY <1>1, NothingThere
  DEF AnsweredIsWhole, Enqueue, Active, Go, RunSteps, target, row, memory, bounds
<1>2. ASSUME NEW r \in Run, Check(r) PROVE AnsweredIsWhole'
  BY <1>2, NothingThere
  DEF AnsweredIsWhole, Check, Go, target, row, past, bounds, OneRun, TypeOK
<1>3. ASSUME NEW r \in Run, Start(r) PROVE AnsweredIsWhole'
  <2>1. \A q \in Run : q # r => pc'[q] = pc[q]
    BY <1>3 DEF Start, Go, TypeOK
  <2>2. pc[r] = "start"
    BY <1>3 DEF Start
  <2>3. \A q \in Run : q # r => pc'[q] # "transfer"
    BY <2>1, <2>2 DEF OneRun, Active, RunSteps
  <2>4. pc'[r] = "transfer" => op' = r
    BY <1>3 DEF Start, Go, TypeOK
  <2>5. QED
    BY <2>3, <2>4 DEF AnsweredIsWhole
<1>4. ASSUME NEW r \in Run, Succeed(r) PROVE AnsweredIsWhole'
  BY <1>4, NothingThere DEF AnsweredIsWhole, Succeed, End, Go, target, past, bounds
<1>5. ASSUME NEW r \in Run, Cut(r) PROVE AnsweredIsWhole'
  BY <1>5, NothingThere DEF AnsweredIsWhole, Cut, Fault, Go, target, row, memory, past
<1>6. ASSUME NEW r \in Run, Catch(r) PROVE AnsweredIsWhole'
  BY <1>6, NothingThere
  DEF AnsweredIsWhole, Catch, Go, Fault, target, row, memory, past, OneRun, TypeOK
<1>7. ASSUME NEW r \in Run, Delete(r) PROVE AnsweredIsWhole'
  BY <1>7, NothingThere DEF AnsweredIsWhole, Delete, Go, Fault, row, memory, past
<1>8. ASSUME NEW r \in Run, Fail(r) PROVE AnsweredIsWhole'
  BY <1>8, NothingThere DEF AnsweredIsWhole, Fail, End, Go, target, past, bounds
<1>9. ASSUME NEW j \in Run \cup Failover, Crash(j) PROVE AnsweredIsWhole'
  BY <1>9, NothingThere DEF AnsweredIsWhole, Crash, Fault, End, Go, target
<1>10. ASSUME NEW f \in Failover, Ask(f) PROVE AnsweredIsWhole'
  BY <1>10, NothingThere DEF AnsweredIsWhole, Ask, Go, target, row, memory, past, bounds
<1>11. ASSUME NEW f \in Failover, Read(f) PROVE AnsweredIsWhole'
  BY <1>11, NothingThere
  DEF AnsweredIsWhole, Read, Go, Active, RunSteps, target, row, bounds, OneRun, TypeOK
<1>12. ASSUME NEW f \in Failover, Promote(f) PROVE AnsweredIsWhole'
  BY <1>12
  DEF AnsweredIsWhole, Promote, Go, End, Fault, row, memory, TypeOK, Instance,
      Step
<1>13. ASSUME NEW f \in Failover, Boot(f) PROVE AnsweredIsWhole'
  BY <1>13 DEF AnsweredIsWhole, Boot, Go, End, Fault, row, memory, TypeOK, Instance, Step
<1>14. ASSUME NEW f \in Failover, Close(f) PROVE AnsweredIsWhole'
  BY <1>14, NothingThere DEF AnsweredIsWhole, Close, End, Go, target, past, bounds
<1>15. ASSUME Land PROVE AnsweredIsWhole'
  <2>1. op \in Run /\ op' = NoJob
    BY <1>15 DEF Land, TypeOK
  <2>2. \A q \in Run : q # op => pc'[q] = pc[q]
    BY <1>15, <2>1 DEF Land, TypeOK
  <2>3. \A q \in Run : q # op => pc[q] # "transfer"
    BY <2>1, ReplicationAssumption DEF AnsweredIsWhole
  <2>4. CASE inst' = [inst EXCEPT !.data = data]
    <3>1. inst'.data = data /\ data # Partial
      BY <2>4, ReplicationAssumption DEF TypeOK, Instance, Amount, Partial
    <3>2. QED
      BY <2>1, <3>1 DEF AnsweredIsWhole
  <2>5. CASE pc' = [pc EXCEPT ![op] = IF @ = "transfer" THEN "catch" ELSE @]
    <3>1. pc'[op] # "transfer"
      BY <2>1, <2>5 DEF TypeOK
    <3>2. QED
      BY <2>1, <2>2, <2>3, <3>1 DEF AnsweredIsWhole
  <2>6. QED
    BY <1>15, <2>4, <2>5 DEF Land
<1>16. ASSUME Write PROVE AnsweredIsWhole'
  BY <1>16, NothingThere DEF AnsweredIsWhole, Write, target, row, memory, past, bounds
<1>17. ASSUME UserActs PROVE AnsweredIsWhole'
  BY <1>17, UserTouches, NothingThere DEF AnsweredIsWhole
<1>18. CASE UNCHANGED <<data, inst, op, pc>>
  BY <1>18 DEF AnsweredIsWhole
<1>19. QED
  BY <1>1, <1>2, <1>3, <1>4, <1>5, <1>6, <1>7, <1>8, <1>9, <1>10, <1>11, <1>12, <1>13,
     <1>14, <1>15, <1>16, <1>17, <1>18
  DEF Next, RunStep, FailoverStep, vars, target, row, memory, past, bounds, Patch,
      UserStep

(* Every run but a succeeding one ends with its error recorded. *)
LEMMA SyncedIsWholeStep == TypeOK /\ OneRun /\ AnsweredIsWhole /\ SyncedIsWhole /\ [Next]_vars => SyncedIsWhole'
<1> SUFFICES ASSUME TypeOK, OneRun, AnsweredIsWhole, SyncedIsWhole, [Next]_vars PROVE SyncedIsWhole'
  OBVIOUS
<1>1. ASSUME NEW r \in Run, Enqueue(r) PROVE SyncedIsWhole'
  BY <1>1, NothingThere
  DEF SyncedIsWhole, RunSteps, Enqueue, Active, Go, target, row, memory, bounds
<1>2. ASSUME NEW r \in Run, Check(r) PROVE SyncedIsWhole'
  BY <1>2, NothingThere
  DEF SyncedIsWhole, RunSteps, Check, Go, target, row, past, bounds, OneRun,
      AnsweredIsWhole, TypeOK
<1>3. ASSUME NEW r \in Run, Start(r) PROVE SyncedIsWhole'
  BY <1>3, NothingThere
  DEF SyncedIsWhole, RunSteps, Start, Gone, Go, Fault, target, row, memory, past, OneRun,
      AnsweredIsWhole, TypeOK
<1>4. ASSUME NEW r \in Run, Succeed(r) PROVE SyncedIsWhole'
  BY <1>4, NothingThere
  DEF SyncedIsWhole, RunSteps, Succeed, End, Go, target, past, bounds, OneRun,
      AnsweredIsWhole
<1>5. ASSUME NEW r \in Run, Cut(r) PROVE SyncedIsWhole'
  BY <1>5, NothingThere
  DEF SyncedIsWhole, RunSteps, Cut, Fault, Go, target, row, memory, past
<1>6. ASSUME NEW r \in Run, Catch(r) PROVE SyncedIsWhole'
  BY <1>6, NothingThere
  DEF SyncedIsWhole, RunSteps, Catch, Go, Fault, target, row, memory, past, OneRun,
      AnsweredIsWhole, TypeOK
<1>7. ASSUME NEW r \in Run, Delete(r) PROVE SyncedIsWhole'
  BY <1>7, NothingThere DEF SyncedIsWhole, RunSteps, Delete, Go, Fault, row, memory, past
<1>8. ASSUME NEW r \in Run, Fail(r) PROVE SyncedIsWhole'
  BY <1>8, NothingThere DEF SyncedIsWhole, RunSteps, Fail, End, Go, target, past, bounds
<1>9. ASSUME NEW j \in Run \cup Failover, Crash(j) PROVE SyncedIsWhole'
  BY <1>9, NothingThere
  DEF SyncedIsWhole, RunSteps, Crash, Fault, End, Go, target, OneRun, AnsweredIsWhole,
      TypeOK
<1>10. ASSUME NEW f \in Failover, Ask(f) PROVE SyncedIsWhole'
  BY <1>10, NothingThere
  DEF SyncedIsWhole, RunSteps, Ask, Go, target, row, memory, past, bounds
<1>11. ASSUME NEW f \in Failover, Read(f) PROVE SyncedIsWhole'
  BY <1>11, NothingThere
  DEF SyncedIsWhole, RunSteps, Read, Go, Active, target, row, bounds, OneRun,
      AnsweredIsWhole, TypeOK
<1>12. ASSUME NEW f \in Failover, Promote(f) PROVE SyncedIsWhole'
  BY <1>12
  DEF SyncedIsWhole, RunSteps, Promote, Go, End, Fault, row, memory, TypeOK,
      Instance, Step
<1>13. ASSUME NEW f \in Failover, Boot(f) PROVE SyncedIsWhole'
  BY <1>13
  DEF SyncedIsWhole, RunSteps, Boot, Go, End, Fault, row, memory, TypeOK, Instance, Step
<1>14. ASSUME NEW f \in Failover, Close(f) PROVE SyncedIsWhole'
  BY <1>14, NothingThere DEF SyncedIsWhole, RunSteps, Close, End, Go, target, past, bounds
<1>15. ASSUME Land PROVE SyncedIsWhole'
  BY <1>15
  DEF SyncedIsWhole, RunSteps, Land, Fault, Gone, row, memory, TypeOK, Instance,
      Step
<1>16. ASSUME Write PROVE SyncedIsWhole'
  BY <1>16, NothingThere
  DEF SyncedIsWhole, RunSteps, Write, target, row, memory, past, bounds
<1>17. ASSUME UserActs PROVE SyncedIsWhole'
  BY <1>17, UserTouches, NothingThere DEF SyncedIsWhole
<1>18. CASE UNCHANGED <<data, inst, op, synced, pc>>
  BY <1>18 DEF SyncedIsWhole, RunSteps
<1>19. QED
  BY <1>1, <1>2, <1>3, <1>4, <1>5, <1>6, <1>7, <1>8, <1>9, <1>10, <1>11, <1>12, <1>13,
     <1>14, <1>15, <1>16, <1>17, <1>18
  DEF Next, RunStep, FailoverStep, vars, target, row, memory, past, bounds, Patch,
      UserStep

(* A new run ends the trust. *)
LEMMA TrustedIsQuietStep == TypeOK /\ OneRun /\ TrustedIsQuiet /\ [Next]_vars => TrustedIsQuiet'
<1> SUFFICES ASSUME TypeOK, OneRun, TrustedIsQuiet, [Next]_vars PROVE TrustedIsQuiet'
  OBVIOUS
<1>1. ASSUME NEW r \in Run, Enqueue(r) PROVE TrustedIsQuiet'
  BY <1>1, NothingThere
  DEF TrustedIsQuiet, Active, RunSteps, Enqueue, Go, target, row, memory, bounds
<1>2. ASSUME NEW r \in Run, Check(r) PROVE TrustedIsQuiet'
  BY <1>2, NothingThere
  DEF TrustedIsQuiet, Active, RunSteps, Check, Go, target, row, past, bounds
<1>3. ASSUME NEW r \in Run, Start(r) PROVE TrustedIsQuiet'
  BY <1>3, NothingThere
  DEF TrustedIsQuiet, Active, RunSteps, Start, Go, Fault, target, row, memory, past
<1>4. ASSUME NEW r \in Run, Succeed(r) PROVE TrustedIsQuiet'
  BY <1>4, NothingThere
  DEF TrustedIsQuiet, Active, RunSteps, Succeed, End, Go, target, past, bounds
<1>5. ASSUME NEW r \in Run, Cut(r) PROVE TrustedIsQuiet'
  BY <1>5, NothingThere
  DEF TrustedIsQuiet, Active, RunSteps, Cut, Fault, Go, target, row, memory, past
<1>6. ASSUME NEW r \in Run, Catch(r) PROVE TrustedIsQuiet'
  BY <1>6, NothingThere
  DEF TrustedIsQuiet, Active, RunSteps, Catch, Go, Fault, target, row, memory, past
<1>7. ASSUME NEW r \in Run, Delete(r) PROVE TrustedIsQuiet'
  BY <1>7, NothingThere
  DEF TrustedIsQuiet, Active, RunSteps, Delete, Go, Fault, row, memory, past
<1>8. ASSUME NEW r \in Run, Fail(r) PROVE TrustedIsQuiet'
  BY <1>8, NothingThere
  DEF TrustedIsQuiet, Active, RunSteps, Fail, End, Go, target, past, bounds
<1>9. ASSUME NEW j \in Run \cup Failover, Crash(j) PROVE TrustedIsQuiet'
  <2>1. trusted' = trusted /\ synced' = (synced /\ j \notin Run)
    BY <1>9 DEF Crash
  <2>2. \A r \in Run : pc'[r] = pc[r] \/ pc'[r] = "none"
    BY <1>9 DEF Crash, End, Go, TypeOK
  <2>3. ASSUME trusted # {} PROVE j \notin Run
    <3>1. \A r \in Run : ~Active(r)
      BY <2>3 DEF TrustedIsQuiet
    <3>2. j \in Run => pc[j] = "none"
      BY <3>1 DEF Active, OneRun
    <3>3. QED
      BY <1>9, <3>2 DEF Crash
  <2>4. \A r \in Run : Active(r)' => Active(r)
    BY <2>2 DEF Active, RunSteps
  <2>5. QED
    BY <2>1, <2>3, <2>4 DEF TrustedIsQuiet
<1>10. ASSUME NEW f \in Failover, Ask(f) PROVE TrustedIsQuiet'
  BY <1>10, NothingThere
  DEF TrustedIsQuiet, Active, RunSteps, Ask, Go, target, row, memory, past, bounds
<1>11. ASSUME NEW f \in Failover, Read(f) PROVE TrustedIsQuiet'
  BY <1>11, NothingThere
  DEF TrustedIsQuiet, Active, RunSteps, Read, Go, target, row, bounds, OneRun, TypeOK
<1>12. ASSUME NEW f \in Failover, Promote(f) PROVE TrustedIsQuiet'
  BY <1>12, NothingThere
  DEF TrustedIsQuiet, Active, RunSteps, Promote, Go, End, Fault, row, memory,
      OneRun, TypeOK
<1>13. ASSUME NEW f \in Failover, Boot(f) PROVE TrustedIsQuiet'
  BY <1>13, NothingThere
  DEF TrustedIsQuiet, Active, RunSteps, Boot, Go, End, Fault, row, memory, OneRun, TypeOK
<1>14. ASSUME NEW f \in Failover, Close(f) PROVE TrustedIsQuiet'
  BY <1>14, NothingThere
  DEF TrustedIsQuiet, Active, RunSteps, Close, End, Go, target, past, bounds
<1>15. ASSUME Land PROVE TrustedIsQuiet'
  BY <1>15, NothingThere
  DEF TrustedIsQuiet, Active, RunSteps, Land, Fault, Gone, row, memory, OneRun,
      TypeOK
<1>16. CASE UNCHANGED <<synced, pc, trusted>>
  BY <1>16 DEF TrustedIsQuiet, Active, RunSteps
<1>17. QED
  BY <1>1, <1>2, <1>3, <1>4, <1>5, <1>6, <1>7, <1>8, <1>9, <1>10, <1>11, <1>12, <1>13,
     <1>14, <1>15, <1>16
  DEF Next, RunStep, FailoverStep, vars, target, row, memory, past, bounds, Write,
      UserActs, Patch, UserStep

(* A failover leaves its promotion behind only by closing the policy or breaking off. *)
LEMMA PromotedEndsStep == TypeOK /\ PromotedEnds /\ [Next]_vars => PromotedEnds'
<1> SUFFICES ASSUME TypeOK, PromotedEnds, [Next]_vars PROVE PromotedEnds'
  OBVIOUS
<1>1. ASSUME NEW r \in Run, Enqueue(r) PROVE PromotedEnds'
  BY <1>1, NothingThere, ReplicationAssumption
  DEF PromotedEnds, Enqueue, Active, Go, RunSteps, target, row, memory, bounds, TypeOK
<1>2. ASSUME NEW r \in Run, Check(r) PROVE PromotedEnds'
  BY <1>2, NothingThere DEF PromotedEnds, Check, Go, target, row, past, bounds, TypeOK
<1>3. ASSUME NEW r \in Run, Start(r) PROVE PromotedEnds'
  BY <1>3
  DEF PromotedEnds, Start, Gone, Go, Fault, target, row, memory, past, TypeOK, Instance,
      Step
<1>4. ASSUME NEW r \in Run, Succeed(r) PROVE PromotedEnds'
  BY <1>4, NothingThere DEF PromotedEnds, Succeed, End, Go, target, past, bounds
<1>5. ASSUME NEW r \in Run, Cut(r) PROVE PromotedEnds'
  BY <1>5, NothingThere DEF PromotedEnds, Cut, Fault, Go, target, row, memory, past
<1>6. ASSUME NEW r \in Run, Catch(r) PROVE PromotedEnds'
  BY <1>6, NothingThere
  DEF PromotedEnds, Catch, Go, Fault, target, row, memory, past, TypeOK
<1>7. ASSUME NEW r \in Run, Delete(r) PROVE PromotedEnds'
  BY <1>7, NothingThere DEF PromotedEnds, Delete, Go, Fault, row, memory, past
<1>8. ASSUME NEW r \in Run, Fail(r) PROVE PromotedEnds'
  BY <1>8, NothingThere DEF PromotedEnds, Fail, End, Go, target, past, bounds
<1>9. ASSUME NEW j \in Run \cup Failover, Crash(j) PROVE PromotedEnds'
  BY <1>9, NothingThere DEF PromotedEnds, Crash, Fault, End, Go, target, TypeOK
<1>10. ASSUME NEW f \in Failover, Ask(f) PROVE PromotedEnds'
  BY <1>10, NothingThere DEF PromotedEnds, Ask, Go, target, row, memory, past, bounds
<1>11. ASSUME NEW f \in Failover, Read(f) PROVE PromotedEnds'
  BY <1>11, NothingThere
  DEF PromotedEnds, Read, Go, Active, RunSteps, target, row, bounds, TypeOK
<1>12. ASSUME NEW f \in Failover, Promote(f) PROVE PromotedEnds'
  BY <1>12, NothingThere
  DEF PromotedEnds, Promote, Go, End, Fault, row, memory, TypeOK
<1>13. ASSUME NEW f \in Failover, Boot(f) PROVE PromotedEnds'
  BY <1>13, NothingThere DEF PromotedEnds, Boot, Go, End, Fault, row, memory, TypeOK
<1>14. ASSUME NEW f \in Failover, Close(f) PROVE PromotedEnds'
  BY <1>14, NothingThere DEF PromotedEnds, Close, End, Go, target, past, bounds
<1>15. ASSUME Land PROVE PromotedEnds'
  BY <1>15 DEF PromotedEnds, Land, Fault, Gone, row, memory, TypeOK, Instance, Step
<1>16. ASSUME UserActs PROVE PromotedEnds'
  BY <1>16, UserTouches, NothingThere DEF PromotedEnds
<1>17. ASSUME Patch PROVE PromotedEnds'
  BY <1>17, NothingThere DEF PromotedEnds, Patch, UserStep, target, memory, past
<1>18. CASE UNCHANGED <<inst, policy, pc, broken>>
  BY <1>18 DEF PromotedEnds
<1>19. QED
  BY <1>1, <1>2, <1>3, <1>4, <1>5, <1>6, <1>7, <1>8, <1>9, <1>10, <1>11, <1>12, <1>13,
     <1>14, <1>15, <1>16, <1>17, <1>18
  DEF Next, RunStep, FailoverStep, vars, target, row, memory, past, bounds, Write

-----------------------------------------------------------------------------
(* Before the first run there is nothing at the target: the invariant holds. *)
LEMMA InitIInv == Init => IInv
<1> SUFFICES ASSUME Init PROVE IInv
  OBVIOUS
<1>1. TypeOK
  <2>1. data \in Amount /\ userSteps \in 0 .. MaxUserSteps /\ faults \in 0 .. MaxFaults
    BY ReplicationAssumption DEF Init, Amount
  <2>2. pc \in [Run \cup Failover -> Step] /\ inst \in Instance
    BY NothingThere DEF Init, Step
  <2>3. QED
    BY <2>1, <2>2 DEF Init, TypeOK
<1>2. \A j \in Run \cup Failover : pc[j] = "none"
  BY DEF Init
<1>3. OneRun /\ TrustedIsQuiet
  BY <1>2 DEF Init, OneRun, TrustedIsQuiet, Active, RunSteps
<1>4. AnsweredIsWhole /\ SyncedIsWhole /\ PromotedEnds
  BY <1>2, NothingThere, ReplicationAssumption
  DEF Init, AnsweredIsWhole, SyncedIsWhole, PromotedEnds
<1>5. QED
  BY <1>1, <1>3, <1>4 DEF IInv

(* The inductive invariant of a replication policy. *)
THEOREM Invariance == Spec => []IInv
<1>1. IInv /\ [Next]_vars => IInv'
  BY TypeStep, OneRunStep, AnsweredIsWholeStep,
     SyncedIsWholeStep, TrustedIsQuietStep, PromotedEndsStep
  DEF IInv
<1>2. QED
  BY InitIInv, <1>1, PTL DEF Spec

(* The variables keep their types: target, policy, jobs, histories. *)
THEOREM TypeCorrect == Spec => []TypeOK
<1>1. IInv => TypeOK
  BY DEF IInv
<1>2. QED
  BY Invariance, <1>1, PTL

(* A promoted instance of an active policy has a failover on its way, or one broke
   off. *)
THEOREM PromotionsEnd == Spec => []PromotedEnds
<1>1. IInv => PromotedEnds
  BY DEF IInv
<1>2. QED
  BY Invariance, <1>1, PTL

(* What a trusted failover promotes is whole: no run touches the replica between a
   run that ended well and the promotion. *)
THEOREM PromotionIsWhole == Spec => PromotedWhole
<1>1. ASSUME IInv, NEW f \in Failover, pc[f] = "promote", f \in trusted, inst.who = "replica"
      PROVE  inst.data # Partial
  BY <1>1 DEF IInv, TrustedIsQuiet, SyncedIsWhole, Active
<1>2. IInv /\ [Next]_vars =>
        [\A f \in Failover :
           (pc[f] = "promote" /\ pc'[f] = "boot" /\ f \in trusted /\ inst.who = "replica")
             => inst.data # Partial]_vars
  BY <1>1
<1>3. QED
  BY Invariance, <1>2, PTL DEF Spec, PromotedWhole
=============================================================================
