---------------------------- MODULE BackupsProofs ----------------------------
(***************************************************************************)
(* Proofs about Backups, for any number of backups, any retention and any  *)
(* number of failures, cancels, crashes and deletes.                       *)
(***************************************************************************)
EXTENDS Backups, TLAPS, FiniteSetTheorems, WellFoundedInduction

(* A set of naturals has a least element, and a bounded one a greatest. *)
LEMMA LeastExists ==
  ASSUME NEW S, S \subseteq Nat, S # {}
  PROVE  \E m \in S : \A x \in S : m <= x
<1>1. \E m \in S : \A x \in S : ~ (<<x, m>> \in OpToRel(<, Nat))
  BY WFMin, NatLessThanWellFounded
<1>2. PICK m \in S : \A x \in S : ~ (<<x, m>> \in OpToRel(<, Nat))
  BY <1>1
<1>3. \A x \in S : ~ (x < m)
  BY <1>2 DEF OpToRel
<1>4. QED
  BY <1>3

(* Retention goes by the newest of what is left, and there is one. *)
LEMMA NewestIsLeft ==
  ASSUME job.left \subseteq Backup, job.left # {}
  PROVE  Newest \in job.left /\ Newest \in Backup
<1> DEFINE S == {MaxBackups - x : x \in job.left}
<1>1. S \subseteq Nat /\ S # {}
  BY BackupsAssumption DEF Backup
<1>2. PICK m \in S : \A x \in S : m <= x
  BY <1>1, LeastExists
<1>3. PICK b \in job.left : m = MaxBackups - b
  BY <1>2
<1>4. \A x \in job.left : ~ (x > b)
  <2> TAKE x \in job.left
  <2>1. m <= MaxBackups - x
    BY <1>2
  <2>2. x \in Nat /\ b \in Nat
    BY DEF Backup
  <2>3. QED
    BY <2>1, <2>2, <1>3, BackupsAssumption
<1>5. NewerThan(b, job.left) = {}
  BY <1>4 DEF NewerThan
<1>6. QED
  BY <1>5 DEF Newest

(* The null records have their types. *)
LEMMA Nulls == 0 \in Number /\ NoJob \in JobState /\ NoCall \in CallState
<1>1. 0 \in Number
  BY BackupsAssumption DEF Number
<1>2. QED
  BY <1>1 DEF JobState, NoJob, CallState, NoCall, Steps

(* Every action keeps the variables in their types. *)
LEMMA TypeStep == TypeOK /\ JobIsNewest /\ MakingIsCreating /\ [Next]_vars => TypeOK'
<1> SUFFICES ASSUME TypeOK, JobIsNewest, MakingIsCreating, [Next]_vars PROVE TypeOK'
  OBVIOUS
<1>made. made \in Number
  BY DEF TypeOK
<1>scheduled. scheduled \subseteq Backup
  BY DEF TypeOK
<1>row. row \in [Backup -> RowState]
  BY DEF TypeOK
<1>object. object \subseteq Backup
  BY DEF TypeOK
<1>upload. upload \subseteq Backup
  BY DEF TypeOK
<1>local. local \subseteq Backup
  BY DEF TypeOK
<1>job. job \in JobState
  BY DEF TypeOK
<1>deleter. deleter \in CallState
  BY DEF TypeOK
<1>late. late \subseteq Backup
  BY DEF TypeOK
<1>abandoned. abandoned \subseteq Backup
  BY DEF TypeOK
<1>dropped. dropped \subseteq Backup
  BY DEF TypeOK
<1>had. had \in BOOLEAN
  BY DEF TypeOK
<1>undone. undone \in BOOLEAN
  BY DEF TypeOK
<1>upsets. upsets \in 0 .. MaxUpsets
  BY DEF TypeOK
<1>of. (job.step # "none" => job.of \in Backup) /\ (deleter.step # "none" => deleter.of \in Backup)
  BY DEF JobIsNewest, MakingIsCreating
<1>1. ASSUME NEW byPolicy \in BOOLEAN, NEW path \in {"direct", "auto", "relay"}, Enqueue(byPolicy, path) PROVE TypeOK'
  <2>1. made' \in Number
    BY <1>made, <1>scheduled, <1>row, <1>object, <1>upload, <1>local, <1>job, <1>deleter,
       <1>late, <1>abandoned, <1>dropped, <1>had, <1>undone, <1>upsets, <1>1, BackupsAssumption
    DEF Enqueue, RowState, JobState, Steps, CallState, Number, Backup
  <2>2. scheduled' \subseteq Backup
    BY <1>scheduled, <1>made, <1>row, <1>object, <1>upload, <1>local, <1>job, <1>deleter,
       <1>late, <1>abandoned, <1>dropped, <1>had, <1>undone, <1>upsets, <1>1, BackupsAssumption
    DEF Enqueue, RowState, JobState, Steps, CallState, Number, Backup
  <2>3. job' \in JobState
    <3>1. made + 1 \in Number
      BY <1>1, <1>made, BackupsAssumption DEF Enqueue, Number
    <3>2. [NoJob EXCEPT !.of = made + 1, !.step = "insert", !.path = path] \in JobState
      BY <3>1, Nulls DEF JobState, Steps
    <3>3. QED
      BY <1>1, <3>2 DEF Enqueue
  <2> QED
    BY <2>1, <2>2, <2>3, <1>1 DEF TypeOK, Enqueue, store, history
<1>2. ASSUME Insert PROVE TypeOK'
  <2>1. row' \in [Backup -> RowState]
    BY <1>row, <1>of, <1>2, Nulls DEF Insert, At, Go, RowState
  <2>2. job' \in JobState
    BY <1>job, <1>of, <1>2, Nulls DEF Insert, At, Go, JobState, Steps
  <2> QED
    BY <2>1, <2>2, <1>2 DEF TypeOK, Insert, Go, history
<1>3. ASSUME Direct PROVE TypeOK'
  <2>1. upload' \subseteq Backup
    BY <1>upload, <1>of, <1>3 DEF Direct, At, Go
  <2>2. job' \in JobState
    BY <1>job, <1>of, <1>3, Nulls DEF Direct, At, Go, JobState, Steps
  <2> QED
    BY <2>1, <2>2, <1>3 DEF TypeOK, Direct, Go, history
<1>4. ASSUME Wait PROVE TypeOK'
  <2>1. job' \in JobState
    BY <1>job, <1>of, <1>4, Nulls DEF Wait, At, Go, GiveUpDirect, Upset, JobState, Steps
  <2>2. upsets' \in 0 .. MaxUpsets
    BY <1>upsets, <1>4, Nulls, BackupsAssumption DEF Wait, At, Go, GiveUpDirect, Upset
  <2> QED
    BY <2>1, <2>2, <1>4 DEF TypeOK, Wait, Go, Upset, store, history
<1>5. ASSUME Appear PROVE TypeOK'
  <2>1. job' \in JobState
    BY <1>job, <1>of, <1>5, Nulls DEF Appear, At, Go, GiveUpDirect, JobState, Steps
  <2> QED
    BY <2>1, <1>5 DEF TypeOK, Appear, Go, store, history
<1>6. ASSUME Fallback PROVE TypeOK'
  <2>1. object' \subseteq Backup
    BY <1>object, <1>6, Nulls DEF Fallback, At, Go, deleteObject, Upset
  <2>2. job' \in JobState
    BY <1>job, <1>of, <1>6, Nulls DEF Fallback, At, Go, deleteObject, Upset, JobState, Steps
  <2>3. late' \subseteq Backup
    BY <1>late, <1>of, <1>6 DEF Fallback, At, Go, deleteObject, Upset
  <2>4. dropped' \subseteq Backup
    BY <1>dropped, <1>of, <1>6 DEF Fallback, At, Go, deleteObject, Upset
  <2>5. upsets' \in 0 .. MaxUpsets
    BY <1>upsets, <1>6, Nulls, BackupsAssumption DEF Fallback, At, Go, deleteObject, Upset
  <2> QED
    BY <2>1, <2>2, <2>3, <2>4, <2>5, <1>6 DEF TypeOK, Fallback, Go, deleteObject, Upset
<1>7. ASSUME Relay PROVE TypeOK'
  <2>1. local' \subseteq Backup
    BY <1>local, <1>of, <1>7 DEF Relay, At, Go
  <2>2. job' \in JobState
    BY <1>job, <1>of, <1>7, Nulls DEF Relay, At, Go, JobState, Steps
  <2> QED
    BY <2>1, <2>2, <1>7 DEF TypeOK, Relay, Go, history
<1>8. ASSUME Upload PROVE TypeOK'
  <2>1. object' \subseteq Backup
    BY <1>object, <1>of, <1>8 DEF Upload, At, Go
  <2>2. job' \in JobState
    BY <1>job, <1>of, <1>8, Nulls DEF Upload, At, Go, JobState, Steps
  <2>3. dropped' \subseteq Backup
    BY <1>dropped, <1>8, Nulls DEF Upload, At, Go
  <2> QED
    BY <2>1, <2>2, <2>3, <1>8 DEF TypeOK, Upload, Go
<1>9. ASSUME Ready PROVE TypeOK'
  <2>1. row' \in [Backup -> RowState]
    BY <1>row, <1>of, <1>9, Nulls DEF Ready, At, Go, RowState
  <2>2. job' \in JobState
    BY <1>job, <1>of, <1>9, Nulls DEF Ready, At, Go, JobState, Steps
  <2>3. had' \in BOOLEAN
    BY <1>had, <1>9, Nulls DEF Ready, At, Go
  <2> QED
    BY <2>1, <2>2, <2>3, <1>9 DEF TypeOK, Ready, Go
<1>10. ASSUME Select PROVE TypeOK'
  <2>1. job' \in JobState
    BY <1>job, <1>made, <1>scheduled, <1>row, <1>object, <1>upload, <1>local, <1>deleter,
       <1>late, <1>abandoned, <1>dropped, <1>had, <1>undone, <1>upsets, <1>10, Nulls,
       BackupsAssumption
    DEF Select, At, Extra, ReadyOnes, NewerThan, JobState, Steps
  <2> QED
    BY <2>1, <1>10 DEF TypeOK, Select, store, history
<1>11. ASSUME Prune PROVE TypeOK'
  <2>1. object' \subseteq Backup
    BY <1>object, <1>11, Nulls
    DEF Prune, At, Go, deleteObject, Newest, Upset, PassOver, NewerThan
  <2>2. job' \in JobState
    <3>1. job.left \ {Newest} \in SUBSET Backup
      BY <1>job DEF JobState
    <3>2. [job EXCEPT !.step = "record"] \in JobState /\ [job EXCEPT !.step = "pruneRow"] \in JobState
      BY <1>job DEF JobState, Steps
    <3>3. [job EXCEPT !.step = "prune", !.left = @ \ {Newest}, !.clean = FALSE] \in JobState
      BY <1>job, <3>1 DEF JobState, Steps
    <3>4. QED
      BY <1>11, <3>2, <3>3 DEF Prune, Go, PassOver
  <2>3. late' \subseteq Backup
    BY <1>late, <1>made, <1>scheduled, <1>row, <1>object, <1>upload, <1>local, <1>job,
       <1>deleter, <1>abandoned, <1>dropped, <1>had, <1>undone, <1>upsets, <1>11
    DEF Prune, At, Go, deleteObject, Newest, Upset, PassOver, NewerThan
  <2>4. dropped' \subseteq Backup
    BY <1>11, <1>job, <1>dropped, NewestIsLeft DEF Prune, deleteObject, JobState
  <2>5. upsets' \in 0 .. MaxUpsets
    BY <1>upsets, <1>11, Nulls, BackupsAssumption
    DEF Prune, At, Go, deleteObject, Newest, Upset, PassOver, NewerThan
  <2> QED
    BY <2>1, <2>2, <2>3, <2>4, <2>5, <1>11
    DEF TypeOK, Prune, Go, deleteObject, Upset, PassOver
<1>12. ASSUME PruneRow PROVE TypeOK'
  <2>1. row' \in [Backup -> RowState]
    BY <1>row, <1>of, <1>12, Nulls
    DEF PruneRow, At, Newest, Upset, PassOver, Standing, NewerThan, RowState
  <2>2. job' \in JobState
    <3>1. job.left \ {Newest} \in SUBSET Backup
      BY <1>job DEF JobState
    <3>2. [job EXCEPT !.step = "prune", !.left = @ \ {Newest}] \in JobState
      BY <1>job, <3>1 DEF JobState, Steps
    <3>3. [job EXCEPT !.step = "prune", !.left = @ \ {Newest}, !.clean = FALSE] \in JobState
      BY <1>job, <3>1 DEF JobState, Steps
    <3>4. QED
      BY <1>12, <3>2, <3>3 DEF PruneRow, PassOver
  <2>3. dropped' \subseteq Backup
    BY <1>dropped, <1>12, Nulls
    DEF PruneRow, At, Newest, Upset, PassOver, Standing, NewerThan
  <2>4. upsets' \in 0 .. MaxUpsets
    BY <1>upsets, <1>12, Nulls, BackupsAssumption
    DEF PruneRow, At, Newest, Upset, PassOver, Standing, NewerThan
  <2> QED
    BY <2>1, <2>2, <2>3, <2>4, <1>12 DEF TypeOK, PruneRow, Upset, PassOver, Standing
<1>13. ASSUME Record PROVE TypeOK'
  <2>1. job' \in JobState
    BY <1>job, <1>of, <1>13, Nulls DEF Record, At, JobState, Steps
  <2> QED
    BY <2>1, <1>13 DEF TypeOK, Record, store, history
<1>14. ASSUME Catch PROVE TypeOK'
  <2>1. object' \subseteq Backup
    BY <1>object, <1>14, Nulls DEF Catch, At, Go, deleteObject, Upset, Abandon
  <2>2. job' \in JobState
    BY <1>job, <1>of, <1>14, Nulls
    DEF Catch, At, Go, deleteObject, Upset, Abandon, JobState, Steps
  <2>3. late' \subseteq Backup
    BY <1>late, <1>of, <1>14 DEF Catch, At, Go, deleteObject, Upset, Abandon
  <2>4. abandoned' \subseteq Backup
    BY <1>abandoned, <1>of, <1>14 DEF Catch, At, Go, deleteObject, Upset, Abandon
  <2>5. dropped' \subseteq Backup
    BY <1>dropped, <1>of, <1>14 DEF Catch, At, Go, deleteObject, Upset, Abandon
  <2>6. upsets' \in 0 .. MaxUpsets
    BY <1>upsets, <1>14, Nulls, BackupsAssumption
    DEF Catch, At, Go, deleteObject, Upset, Abandon
  <2> QED
    BY <2>1, <2>2, <2>3, <2>4, <2>5, <2>6, <1>14
    DEF TypeOK, Catch, Go, deleteObject, Upset, Abandon
<1>15. ASSUME Fail PROVE TypeOK'
  <2>1. row' \in [Backup -> RowState]
    BY <1>row, <1>of, <1>15, Nulls DEF Fail, At, Go, Upset, Abandon, Standing, RowState
  <2>2. job' \in JobState
    BY <1>job, <1>of, <1>15, Nulls
    DEF Fail, At, Go, Upset, Abandon, Standing, JobState, Steps
  <2>3. abandoned' \subseteq Backup
    BY <1>abandoned, <1>of, <1>15 DEF Fail, At, Go, Upset, Abandon, Standing
  <2>4. dropped' \subseteq Backup
    BY <1>dropped, <1>15, Nulls DEF Fail, At, Go, Upset, Abandon, Standing
  <2>5. upsets' \in 0 .. MaxUpsets
    BY <1>upsets, <1>15, Nulls, BackupsAssumption DEF Fail, At, Go, Upset, Abandon, Standing
  <2> QED
    BY <2>1, <2>2, <2>3, <2>4, <2>5, <1>15 DEF TypeOK, Fail, Go, Upset, Abandon, Standing
<1>16. ASSUME Drop PROVE TypeOK'
  <2>1. local' \subseteq Backup
    BY <1>local, <1>16, Nulls DEF Drop, At, Upset, Abandon
  <2>2. job' \in JobState
    BY <1>job, <1>16, Nulls DEF Drop, At, Upset, Abandon
  <2>3. abandoned' \subseteq Backup
    BY <1>abandoned, <1>of, <1>16 DEF Drop, At, Upset, Abandon
  <2>4. upsets' \in 0 .. MaxUpsets
    BY <1>upsets, <1>16, Nulls, BackupsAssumption DEF Drop, At, Upset, Abandon
  <2> QED
    BY <2>1, <2>2, <2>3, <2>4, <1>16 DEF TypeOK, Drop, Upset, Abandon
<1>17. ASSUME Throws PROVE TypeOK'
  <2>1. upload' \subseteq Backup
    BY <1>upload, <1>17, Nulls DEF Throws, Upset, Go
  <2>2. job' \in JobState
    BY <1>job, <1>of, <1>17, Nulls DEF Throws, Upset, Go, JobState, Steps
  <2>3. undone' \in BOOLEAN
    BY <1>undone, <1>17, Nulls DEF Throws, Upset, Go
  <2>4. upsets' \in 0 .. MaxUpsets
    BY <1>upsets, <1>17, Nulls, BackupsAssumption DEF Throws, Upset, Go
  <2> QED
    BY <2>1, <2>2, <2>3, <2>4, <1>17 DEF TypeOK, Throws, Upset, Go
<1>18. ASSUME Crash PROVE TypeOK'
  <2>1. job' \in JobState
    BY <1>job, <1>18, Nulls DEF Crash, Upset, Abandon
  <2>2. abandoned' \subseteq Backup
    BY <1>18, <1>abandoned DEF Crash, Abandon, JobIsNewest
  <2>3. upsets' \in 0 .. MaxUpsets
    BY <1>upsets, <1>18, Nulls, BackupsAssumption DEF Crash, Upset, Abandon
  <2> QED
    BY <2>1, <2>2, <2>3, <1>18 DEF TypeOK, Crash, Upset, Abandon, store
<1>19. ASSUME NEW b \in Backup, Land(b) PROVE TypeOK'
  <2>1. object' \subseteq Backup
    BY <1>object, <1>19, Nulls DEF Land
  <2>2. upload' \subseteq Backup
    BY <1>upload, <1>19, Nulls DEF Land
  <2>3. late' \subseteq Backup
    BY <1>late, <1>19, Nulls DEF Land
  <2> QED
    BY <2>1, <2>2, <2>3, <1>19 DEF TypeOK, Land
<1>20. ASSUME NEW b \in Backup, AskDelete(b) PROVE TypeOK'
  <2>1. deleter' \in CallState
    BY <1>deleter, <1>made, <1>scheduled, <1>row, <1>object, <1>upload, <1>local, <1>job,
       <1>late, <1>abandoned, <1>dropped, <1>had, <1>undone, <1>upsets, <1>20,
       BackupsAssumption
    DEF AskDelete, Upset, CallState, RowState, JobState, Steps, Number, Backup
  <2>2. undone' \in BOOLEAN
    BY <1>undone, <1>20, Nulls DEF AskDelete, Upset
  <2>3. upsets' \in 0 .. MaxUpsets
    BY <1>upsets, <1>20, Nulls, BackupsAssumption DEF AskDelete, Upset
  <2> QED
    BY <2>1, <2>2, <2>3, <1>20 DEF TypeOK, AskDelete, Upset, store
<1>21. ASSUME DeleteObject PROVE TypeOK'
  <2>1. object' \subseteq Backup
    BY <1>object, <1>21, Nulls DEF DeleteObject, deleteObject
  <2>2. deleter' \in CallState
    BY <1>deleter, <1>of, <1>21, Nulls DEF DeleteObject, deleteObject, CallState
  <2>3. late' \subseteq Backup
    BY <1>late, <1>of, <1>21 DEF DeleteObject, deleteObject
  <2>4. dropped' \subseteq Backup
    BY <1>dropped, <1>of, <1>21 DEF DeleteObject, deleteObject
  <2> QED
    BY <2>1, <2>2, <2>3, <2>4, <1>21 DEF TypeOK, DeleteObject, deleteObject
<1>22. ASSUME DeleteRow PROVE TypeOK'
  <2>1. row' \in [Backup -> RowState]
    BY <1>row, <1>of, <1>22, Nulls DEF DeleteRow, Standing, RowState
  <2>2. deleter' \in CallState
    BY <1>deleter, <1>22, Nulls DEF DeleteRow, Standing
  <2>3. dropped' \subseteq Backup
    BY <1>dropped, <1>22, Nulls DEF DeleteRow, Standing
  <2> QED
    BY <2>1, <2>2, <2>3, <1>22 DEF TypeOK, DeleteRow, Standing
<1>23. ASSUME DeleteFails PROVE TypeOK'
  <2>1. deleter' \in CallState
    BY <1>deleter, <1>23, Nulls DEF DeleteFails, Upset
  <2>2. upsets' \in 0 .. MaxUpsets
    BY <1>upsets, <1>23, Nulls, BackupsAssumption DEF DeleteFails, Upset
  <2> QED
    BY <2>1, <2>2, <1>23 DEF TypeOK, DeleteFails, Upset, store, history
<1>24. CASE UNCHANGED vars
  BY <1>24 DEF TypeOK, vars, history, store
<1> QED
  BY <1>1, <1>2, <1>3, <1>4, <1>5, <1>6, <1>7, <1>8, <1>9, <1>10, <1>11, <1>12, <1>13,
     <1>14, <1>15, <1>16, <1>17, <1>18, <1>19, <1>20, <1>21, <1>22, <1>23, <1>24
  DEF Next, Handler

(* A job that goes on to another step keeps the rest. *)
LEMMA GoingOn ==
  ASSUME TypeOK, NEW step, Go(step)
  PROVE  job' = [job EXCEPT !.step = step] /\ job'.step = step /\ job'.of = job.of
         /\ job'.left = job.left /\ job'.clean = job.clean /\ job'.path = job.path
BY DEF TypeOK, JobState, Go

(* One job at a time: a job is queued for the next backup when none is active. *)
LEMMA JobIsNewestStep == TypeOK /\ JobIsNewest /\ [Next]_vars => JobIsNewest'
<1> SUFFICES ASSUME TypeOK, JobIsNewest, [Next]_vars PROVE JobIsNewest'
  OBVIOUS
<1>1. ASSUME NEW byPolicy \in BOOLEAN, NEW path \in {"direct", "auto", "relay"}, Enqueue(byPolicy, path) PROVE JobIsNewest'
  BY <1>1, GoingOn, BackupsAssumption
  DEF JobIsNewest, Pruning, Enqueue, NoJob, history, store, TypeOK, Number, Backup
<1>2. ASSUME Insert PROVE JobIsNewest'
  BY <1>2, GoingOn DEF JobIsNewest, Pruning, Insert, At, history
<1>3. ASSUME Direct PROVE JobIsNewest'
  BY <1>3, GoingOn DEF JobIsNewest, Pruning, Direct, At, history
<1>4. ASSUME Wait PROVE JobIsNewest'
  BY <1>4, GoingOn DEF JobIsNewest, Pruning, Wait, At, GiveUpDirect, Upset, history, store
<1>5. ASSUME Appear PROVE JobIsNewest'
  BY <1>5, GoingOn DEF JobIsNewest, Pruning, Appear, At, GiveUpDirect, history, store
<1>6. ASSUME Fallback PROVE JobIsNewest'
  BY <1>6, GoingOn DEF JobIsNewest, Pruning, Fallback, At, deleteObject, Upset
<1>7. ASSUME Relay PROVE JobIsNewest'
  BY <1>7, GoingOn DEF JobIsNewest, Pruning, Relay, At, history
<1>8. ASSUME Upload PROVE JobIsNewest'
  BY <1>8, GoingOn DEF JobIsNewest, Pruning, Upload, At
<1>9. ASSUME Ready PROVE JobIsNewest'
  BY <1>9, GoingOn DEF JobIsNewest, Pruning, Ready, At
<1>10. ASSUME Select PROVE JobIsNewest'
  BY <1>10 DEF JobIsNewest, Pruning, Select, At, Extra, ReadyOnes, NewerThan, history, store
<1>11. ASSUME Prune PROVE JobIsNewest'
  BY <1>11
  DEF JobIsNewest, Pruning, Prune, At, Go, deleteObject, Newest, Upset, PassOver,
      NewerThan, TypeOK, JobState, CallState, RowState, Steps
<1>12. ASSUME PruneRow PROVE JobIsNewest'
  BY <1>12
  DEF JobIsNewest, Pruning, PruneRow, At, Newest, Upset, PassOver, Standing, NewerThan,
      TypeOK, JobState, CallState, RowState, Steps
<1>13. ASSUME Record PROVE JobIsNewest'
  BY <1>13, GoingOn DEF JobIsNewest, Pruning, Record, At, NoJob, history, store
<1>14. ASSUME Catch PROVE JobIsNewest'
  BY <1>14, GoingOn DEF JobIsNewest, Pruning, Catch, At, deleteObject, Upset, Abandon
<1>15. ASSUME Fail PROVE JobIsNewest'
  BY <1>15, GoingOn DEF JobIsNewest, Pruning, Fail, At, Upset, Abandon, Standing
<1>16. ASSUME Drop PROVE JobIsNewest'
  BY <1>16, GoingOn DEF JobIsNewest, Pruning, Drop, At, NoJob, Upset, Abandon
<1>17. ASSUME Throws PROVE JobIsNewest'
  BY <1>17
  DEF JobIsNewest, Pruning, Throws, Upset, NoJob, Go, TypeOK, JobState, CallState,
      RowState, Steps
<1>18. ASSUME Crash PROVE JobIsNewest'
  BY <1>18, GoingOn DEF JobIsNewest, Pruning, Crash, NoJob, Upset, Abandon, store
<1>19. CASE UNCHANGED <<made, job>>
  BY <1>19 DEF JobIsNewest, Pruning
<1>20. QED
  BY <1>1, <1>2, <1>3, <1>4, <1>5, <1>6, <1>7, <1>8, <1>9, <1>10, <1>11, <1>12, <1>13,
     <1>14, <1>15, <1>16, <1>17, <1>18, <1>19
  DEF Next, Handler, vars, history, store, Land, AskDelete, DeleteObject, DeleteRow,
      DeleteFails, Upset, deleteObject, Standing

(* A backup's number is new when its job is queued, and its row is the first trace. *)
LEMMA NotBegunStep == TypeOK /\ JobIsNewest /\ MakingIsCreating /\ NotBegun /\ [Next]_vars => NotBegun'
<1> SUFFICES ASSUME TypeOK, JobIsNewest, MakingIsCreating, NotBegun, [Next]_vars PROVE NotBegun'
  OBVIOUS
<1>1. ASSUME NEW byPolicy \in BOOLEAN, NEW path \in {"direct", "auto", "relay"}, Enqueue(byPolicy, path) PROVE NotBegun'
  BY <1>1, GoingOn, BackupsAssumption
  DEF NotBegun, Unbegun, At, Enqueue, NoJob, history, store, JobIsNewest,
      MakingIsCreating, TypeOK, Number, Backup
<1>2. ASSUME Insert PROVE NotBegun'
  BY <1>2, GoingOn, BackupsAssumption
  DEF NotBegun, Unbegun, At, Insert, history, JobIsNewest, MakingIsCreating, TypeOK,
      Number, Backup
<1>3. ASSUME Direct PROVE NotBegun'
  BY <1>3, GoingOn, BackupsAssumption
  DEF NotBegun, Unbegun, At, Direct, history, JobIsNewest, MakingIsCreating, TypeOK,
      Number, Backup
<1>4. ASSUME Wait PROVE NotBegun'
  BY <1>4, GoingOn DEF NotBegun, Unbegun, At, Wait, GiveUpDirect, Upset, history, store
<1>5. ASSUME Appear PROVE NotBegun'
  BY <1>5, GoingOn DEF NotBegun, Unbegun, At, Appear, GiveUpDirect, history, store
<1>6. ASSUME Fallback PROVE NotBegun'
  BY <1>6, GoingOn DEF NotBegun, Unbegun, At, Fallback, deleteObject, Upset
<1>7. ASSUME Relay PROVE NotBegun'
  BY <1>7, GoingOn DEF NotBegun, Unbegun, At, Relay, history
<1>8. ASSUME Upload PROVE NotBegun'
  BY <1>8, GoingOn, BackupsAssumption
  DEF NotBegun, Unbegun, At, Upload, JobIsNewest, MakingIsCreating, TypeOK, Number, Backup
<1>9. ASSUME Ready PROVE NotBegun'
  BY <1>9, GoingOn, BackupsAssumption
  DEF NotBegun, Unbegun, At, Ready, JobIsNewest, MakingIsCreating, TypeOK, Number, Backup
<1>10. ASSUME Select PROVE NotBegun'
  BY <1>10 DEF NotBegun, Unbegun, At, Select, Extra, ReadyOnes, NewerThan, history, store
<1>11. ASSUME Prune PROVE NotBegun'
  BY <1>11
  DEF NotBegun, Unbegun, At, Prune, Go, deleteObject, Newest, Upset, PassOver, NewerThan,
      TypeOK, JobState, CallState, RowState, Steps
<1>12. ASSUME PruneRow PROVE NotBegun'
  <2>1. \A b \in Backup : row'[b] \in {row[b], "none"}
    BY <1>12 DEF PruneRow, TypeOK
  <2>2. job'.step = "prune" /\ UNCHANGED <<made, object, upload, deleter>>
    BY <1>12 DEF PruneRow, PassOver, TypeOK, JobState
  <2>3. QED
    BY <2>1, <2>2 DEF NotBegun, Unbegun, At
<1>13. ASSUME Record PROVE NotBegun'
  BY <1>13, GoingOn DEF NotBegun, Unbegun, At, Record, history, store
<1>14. ASSUME Catch PROVE NotBegun'
  BY <1>14, GoingOn DEF NotBegun, Unbegun, At, Catch, deleteObject, Upset, Abandon
<1>15. ASSUME Fail PROVE NotBegun'
  BY <1>15, GoingOn
  DEF NotBegun, Unbegun, At, Fail, Upset, Abandon, Standing, JobIsNewest,
      MakingIsCreating, TypeOK
<1>16. ASSUME Drop PROVE NotBegun'
  BY <1>16, GoingOn
  DEF NotBegun, Unbegun, At, Drop, NoJob, Upset, Abandon, JobIsNewest, MakingIsCreating
<1>17. ASSUME Throws PROVE NotBegun'
  BY <1>17
  DEF NotBegun, Unbegun, At, Throws, Upset, NoJob, Go, TypeOK, JobState, CallState,
      RowState, Steps
<1>18. ASSUME Crash PROVE NotBegun'
  BY <1>18, GoingOn
  DEF NotBegun, Unbegun, At, Crash, NoJob, Upset, Abandon, store, JobIsNewest,
      MakingIsCreating
<1>19. ASSUME NEW b \in Backup, Land(b) PROVE NotBegun'
  BY <1>19, GoingOn DEF NotBegun, Unbegun, At, Land
<1>20. ASSUME NEW b \in Backup, AskDelete(b) PROVE NotBegun'
  BY <1>20, GoingOn DEF NotBegun, Unbegun, At, AskDelete, Upset, store
<1>21. ASSUME DeleteObject PROVE NotBegun'
  BY <1>21, GoingOn DEF NotBegun, Unbegun, At, DeleteObject, deleteObject
<1>22. ASSUME DeleteRow PROVE NotBegun'
  BY <1>22, GoingOn, BackupsAssumption
  DEF NotBegun, Unbegun, At, DeleteRow, NoCall, Standing, JobIsNewest, MakingIsCreating,
      TypeOK, Number, Backup
<1>23. ASSUME DeleteFails PROVE NotBegun'
  BY <1>23, GoingOn, BackupsAssumption
  DEF NotBegun, Unbegun, At, DeleteFails, NoCall, Upset, history, store, JobIsNewest,
      MakingIsCreating, TypeOK, Number, Backup
<1>24. CASE UNCHANGED <<made, row, object, upload, job, deleter>>
  BY <1>24 DEF NotBegun, Unbegun, At
<1>25. QED
  BY <1>1, <1>2, <1>3, <1>4, <1>5, <1>6, <1>7, <1>8, <1>9, <1>10, <1>11, <1>12, <1>13,
     <1>14, <1>15, <1>16, <1>17, <1>18, <1>19, <1>20, <1>21, <1>22, <1>23, <1>24
  DEF Next, Handler, vars, history, store

(* Only the job changes its row before it is ready, and DELETE refuses it. *)
LEMMA MakingIsCreatingStep == TypeOK /\ JobIsNewest /\ NotBegun /\ MakingIsCreating /\ [Next]_vars => MakingIsCreating'
<1> SUFFICES ASSUME TypeOK, JobIsNewest, NotBegun, MakingIsCreating, [Next]_vars PROVE MakingIsCreating'
  OBVIOUS
<1>1. ASSUME NEW byPolicy \in BOOLEAN, NEW path \in {"direct", "auto", "relay"}, Enqueue(byPolicy, path) PROVE MakingIsCreating'
  BY <1>1, GoingOn DEF MakingIsCreating, Making, Enqueue, history, store
<1>2. ASSUME Insert PROVE MakingIsCreating'
  <2>1. job.of \in Backup /\ job.of # deleter.of
    BY <1>2 DEF Insert, At, JobIsNewest, NotBegun, Unbegun
  <2>2. row'[job.of] = "creating" /\ \A b \in Backup : b # job.of => row'[b] = row[b]
    BY <1>2, <2>1 DEF Insert, TypeOK
  <2>3. job'.of = job.of /\ deleter' = deleter
    BY <1>2, GoingOn DEF Insert
  <2>4. QED
    BY <2>1, <2>2, <2>3 DEF MakingIsCreating
<1>3. ASSUME Direct PROVE MakingIsCreating'
  BY <1>3, GoingOn DEF MakingIsCreating, Making, Direct, At, history
<1>4. ASSUME Wait PROVE MakingIsCreating'
  BY <1>4, GoingOn
  DEF MakingIsCreating, Making, Wait, At, GiveUpDirect, Upset, history, store
<1>5. ASSUME Appear PROVE MakingIsCreating'
  BY <1>5, GoingOn DEF MakingIsCreating, Making, Appear, At, GiveUpDirect, history, store
<1>6. ASSUME Fallback PROVE MakingIsCreating'
  BY <1>6, GoingOn DEF MakingIsCreating, Making, Fallback, At, deleteObject, Upset
<1>7. ASSUME Relay PROVE MakingIsCreating'
  BY <1>7, GoingOn DEF MakingIsCreating, Making, Relay, At, history
<1>8. ASSUME Upload PROVE MakingIsCreating'
  BY <1>8, GoingOn DEF MakingIsCreating, Making, Upload, At
<1>9. ASSUME Ready PROVE MakingIsCreating'
  BY <1>9, GoingOn DEF MakingIsCreating, Making, Ready, At
<1>10. ASSUME Select PROVE MakingIsCreating'
  BY <1>10
  DEF MakingIsCreating, Making, Select, At, Extra, ReadyOnes, NewerThan, history, store
<1>11. ASSUME Prune PROVE MakingIsCreating'
  BY <1>11
  DEF MakingIsCreating, Making, Prune, At, Go, deleteObject, Newest, Upset, PassOver,
      NewerThan, TypeOK, JobState, CallState, RowState, Steps
<1>12. ASSUME PruneRow PROVE MakingIsCreating'
  BY <1>12
  DEF MakingIsCreating, Making, PruneRow, At, Newest, Upset, PassOver, Standing,
      NewerThan, TypeOK, JobState, CallState, RowState, Steps
<1>13. ASSUME Record PROVE MakingIsCreating'
  BY <1>13, GoingOn DEF MakingIsCreating, Making, Record, At, history, store
<1>14. ASSUME Catch PROVE MakingIsCreating'
  BY <1>14, GoingOn DEF MakingIsCreating, Making, Catch, At, deleteObject, Upset, Abandon
<1>15. ASSUME Fail PROVE MakingIsCreating'
  BY <1>15, GoingOn
  DEF MakingIsCreating, Making, Fail, At, Upset, Abandon, Standing, JobIsNewest, NotBegun,
      TypeOK
<1>16. ASSUME Drop PROVE MakingIsCreating'
  BY <1>16, GoingOn
  DEF MakingIsCreating, Making, Drop, At, NoJob, Upset, Abandon, JobIsNewest, NotBegun
<1>17. ASSUME Throws PROVE MakingIsCreating'
  BY <1>17, GoingOn
  DEF MakingIsCreating, Making, Throws, Upset, NoJob, JobIsNewest, NotBegun
<1>18. ASSUME Crash PROVE MakingIsCreating'
  BY <1>18, GoingOn
  DEF MakingIsCreating, Making, Crash, NoJob, Upset, Abandon, store, JobIsNewest, NotBegun
<1>19. ASSUME NEW b \in Backup, AskDelete(b) PROVE MakingIsCreating'
  BY <1>19, GoingOn DEF MakingIsCreating, Making, AskDelete, Upset, store
<1>20. ASSUME DeleteObject PROVE MakingIsCreating'
  BY <1>20, GoingOn DEF MakingIsCreating, Making, DeleteObject, deleteObject
<1>21. ASSUME DeleteRow PROVE MakingIsCreating'
  BY <1>21, GoingOn
  DEF MakingIsCreating, Making, DeleteRow, NoCall, Standing, JobIsNewest, NotBegun
<1>22. ASSUME DeleteFails PROVE MakingIsCreating'
  BY <1>22, GoingOn
  DEF MakingIsCreating, Making, DeleteFails, NoCall, Upset, history, store, JobIsNewest,
      NotBegun
<1>23. CASE UNCHANGED <<row, job, deleter>>
  BY <1>23 DEF MakingIsCreating, Making
<1>24. QED
  BY <1>1, <1>2, <1>3, <1>4, <1>5, <1>6, <1>7, <1>8, <1>9, <1>10, <1>11, <1>12, <1>13,
     <1>14, <1>15, <1>16, <1>17, <1>18, <1>19, <1>20, <1>21, <1>22, <1>23
  DEF Next, Handler, vars, history, store, Land

(* The object was seen or uploaded, and nobody deletes it while the row is creating. *)
LEMMA ReadyIsStoredStep == TypeOK /\ JobIsNewest /\ MakingIsCreating /\ ReadyIsStored /\ [Next]_vars => ReadyIsStored'
<1> SUFFICES ASSUME TypeOK, JobIsNewest, MakingIsCreating, ReadyIsStored, [Next]_vars PROVE ReadyIsStored'
  OBVIOUS
<1>1. ASSUME NEW byPolicy \in BOOLEAN, NEW path \in {"direct", "auto", "relay"}, Enqueue(byPolicy, path) PROVE ReadyIsStored'
  BY <1>1, GoingOn DEF ReadyIsStored, At, Enqueue, history, store
<1>2. ASSUME Insert PROVE ReadyIsStored'
  BY <1>2, GoingOn DEF ReadyIsStored, At, Insert, history
<1>3. ASSUME Direct PROVE ReadyIsStored'
  BY <1>3, GoingOn DEF ReadyIsStored, At, Direct, history
<1>4. ASSUME Wait PROVE ReadyIsStored'
  BY <1>4, GoingOn DEF ReadyIsStored, At, Wait, GiveUpDirect, Upset, history, store
<1>5. ASSUME Appear PROVE ReadyIsStored'
  BY <1>5, GoingOn DEF ReadyIsStored, At, Appear, GiveUpDirect, history, store
<1>6. ASSUME Fallback PROVE ReadyIsStored'
  BY <1>6, GoingOn DEF ReadyIsStored, At, Fallback, deleteObject, Upset
<1>7. ASSUME Relay PROVE ReadyIsStored'
  BY <1>7, GoingOn DEF ReadyIsStored, At, Relay, history
<1>8. ASSUME Upload PROVE ReadyIsStored'
  BY <1>8, GoingOn DEF ReadyIsStored, At, Upload
<1>9. ASSUME Ready PROVE ReadyIsStored'
  BY <1>9, GoingOn DEF ReadyIsStored, At, Ready
<1>10. ASSUME Select PROVE ReadyIsStored'
  BY <1>10 DEF ReadyIsStored, At, Select, Extra, ReadyOnes, NewerThan, history, store
<1>11. ASSUME Prune PROVE ReadyIsStored'
  BY <1>11
  DEF ReadyIsStored, At, Prune, Go, deleteObject, Newest, Upset, PassOver, NewerThan,
      TypeOK, JobState, CallState, RowState, Steps
<1>12. ASSUME PruneRow PROVE ReadyIsStored'
  BY <1>12
  DEF ReadyIsStored, At, PruneRow, Newest, Upset, PassOver, Standing, NewerThan, TypeOK,
      JobState, CallState, RowState, Steps
<1>13. ASSUME Record PROVE ReadyIsStored'
  BY <1>13, GoingOn DEF ReadyIsStored, At, Record, history, store
<1>14. ASSUME Catch PROVE ReadyIsStored'
  BY <1>14, GoingOn DEF ReadyIsStored, At, Catch, deleteObject, Upset, Abandon
<1>15. ASSUME Fail PROVE ReadyIsStored'
  BY <1>15, GoingOn DEF ReadyIsStored, At, Fail, Upset, Abandon, Standing
<1>16. ASSUME Drop PROVE ReadyIsStored'
  BY <1>16, GoingOn
  DEF ReadyIsStored, At, Drop, NoJob, Upset, Abandon, JobIsNewest, MakingIsCreating
<1>17. ASSUME Throws PROVE ReadyIsStored'
  BY <1>17
  DEF ReadyIsStored, At, Throws, Upset, NoJob, Go, TypeOK, JobState, CallState, RowState,
      Steps
<1>18. ASSUME Crash PROVE ReadyIsStored'
  BY <1>18, GoingOn
  DEF ReadyIsStored, At, Crash, NoJob, Upset, Abandon, store, JobIsNewest,
      MakingIsCreating
<1>19. ASSUME NEW b \in Backup, Land(b) PROVE ReadyIsStored'
  BY <1>19, GoingOn DEF ReadyIsStored, At, Land
<1>20. ASSUME DeleteObject PROVE ReadyIsStored'
  <2>1. At("ready") => row[job.of] = "creating"
    BY DEF MakingIsCreating, At, Making
  <2>2. row[deleter.of] # "creating"
    BY <1>20 DEF DeleteObject, MakingIsCreating
  <2>3. QED
    BY <1>20, <2>1, <2>2 DEF DeleteObject, deleteObject, ReadyIsStored, At
<1>21. CASE UNCHANGED <<object, job>>
  BY <1>21 DEF ReadyIsStored, At
<1>22. QED
  BY <1>1, <1>2, <1>3, <1>4, <1>5, <1>6, <1>7, <1>8, <1>9, <1>10, <1>11, <1>12, <1>13,
     <1>14, <1>15, <1>16, <1>17, <1>18, <1>19, <1>20, <1>21
  DEF Next, Handler, vars, history, store, AskDelete, DeleteRow, DeleteFails, Upset,
      Standing

(* Whoever deletes the object of a ready row is on record until the row goes. *)
LEMMA ReadyHasObjectStep == TypeOK /\ JobIsNewest /\ ReadyIsStored /\ ReadyHasObject /\ [Next]_vars => ReadyHasObject'
<1> SUFFICES ASSUME TypeOK, JobIsNewest, ReadyIsStored, ReadyHasObject, [Next]_vars PROVE ReadyHasObject'
  OBVIOUS
<1>1. ASSUME Insert PROVE ReadyHasObject'
  BY <1>1, GoingOn DEF ReadyHasObject, Insert, At, history
<1>2. ASSUME Fallback PROVE ReadyHasObject'
  BY <1>2, GoingOn DEF ReadyHasObject, Fallback, At, deleteObject, Upset
<1>3. ASSUME Upload PROVE ReadyHasObject'
  BY <1>3, GoingOn DEF ReadyHasObject, Upload, At
<1>4. ASSUME Ready PROVE ReadyHasObject'
  BY <1>4, GoingOn DEF ReadyHasObject, Ready, At, JobIsNewest, ReadyIsStored
<1>5. ASSUME Prune PROVE ReadyHasObject'
  BY <1>5, GoingOn
  DEF ReadyHasObject, Prune, At, deleteObject, Newest, Upset, PassOver, NewerThan
<1>6. ASSUME PruneRow PROVE ReadyHasObject'
  BY <1>6, GoingOn
  DEF ReadyHasObject, PruneRow, At, Newest, Upset, PassOver, Standing, NewerThan,
      JobIsNewest, ReadyIsStored, TypeOK
<1>7. ASSUME Catch PROVE ReadyHasObject'
  BY <1>7, GoingOn DEF ReadyHasObject, Catch, At, deleteObject, Upset, Abandon
<1>8. ASSUME Fail PROVE ReadyHasObject'
  BY <1>8, GoingOn
  DEF ReadyHasObject, Fail, At, Upset, Abandon, Standing, JobIsNewest, ReadyIsStored,
      TypeOK
<1>9. ASSUME NEW b \in Backup, Land(b) PROVE ReadyHasObject'
  BY <1>9, GoingOn DEF ReadyHasObject, Land
<1>10. ASSUME DeleteObject PROVE ReadyHasObject'
  BY <1>10, GoingOn DEF ReadyHasObject, DeleteObject, deleteObject
<1>11. ASSUME DeleteRow PROVE ReadyHasObject'
  BY <1>11, GoingOn DEF ReadyHasObject, DeleteRow, Standing
<1>12. CASE UNCHANGED <<row, object, dropped>>
  BY <1>12 DEF ReadyHasObject
<1>13. QED
  BY <1>1, <1>2, <1>3, <1>4, <1>5, <1>6, <1>7, <1>8, <1>9, <1>10, <1>11, <1>12
  DEF Next, Handler, vars, history, store, Enqueue, Direct, Wait, Appear, Relay, Select,
      Record, Drop, Throws, Crash, AskDelete, DeleteFails, Go, Upset, Abandon

(* The object goes before the row, so what is found later was still being uploaded. *)
LEMMA GoneIsLateStep == TypeOK /\ JobIsNewest /\ NotBegun /\ MakingIsCreating /\ GoneIsLate /\ [Next]_vars => GoneIsLate'
<1> SUFFICES ASSUME TypeOK, JobIsNewest, NotBegun, MakingIsCreating, GoneIsLate, [Next]_vars PROVE GoneIsLate'
  OBVIOUS
<1>1. ASSUME NEW byPolicy \in BOOLEAN, NEW path \in {"direct", "auto", "relay"}, Enqueue(byPolicy, path) PROVE GoneIsLate'
  BY <1>1, GoingOn DEF GoneIsLate, Deleted, At, Newest, NewerThan, Enqueue, history, store
<1>2. ASSUME Insert PROVE GoneIsLate'
  BY <1>2, GoingOn DEF GoneIsLate, Deleted, At, Newest, NewerThan, Insert, history
<1>3. ASSUME Direct PROVE GoneIsLate'
  <2>1. row[job.of] = "creating"
    BY <1>3 DEF Direct, At, MakingIsCreating, Making
  <2>2. job'.of = job.of /\ job'.step = "wait"
    BY <1>3, GoingOn DEF Direct
  <2>3. \A b \in Backup : Deleted(b)' => Deleted(b) /\ b # job.of
    BY <1>3, <2>1, <2>2 DEF Direct, Deleted, At, MakingIsCreating
  <2>4. QED
    BY <1>3, <2>3 DEF Direct, GoneIsLate, history
<1>4. ASSUME Wait PROVE GoneIsLate'
  BY <1>4, GoingOn
  DEF GoneIsLate, Deleted, At, Newest, NewerThan, Wait, GiveUpDirect, Upset, history,
      store
<1>5. ASSUME Appear PROVE GoneIsLate'
  BY <1>5, GoingOn
  DEF GoneIsLate, Deleted, At, Newest, NewerThan, Appear, GiveUpDirect, history, store
<1>6. ASSUME Fallback PROVE GoneIsLate'
  BY <1>6, GoingOn
  DEF GoneIsLate, Deleted, At, Newest, NewerThan, Fallback, deleteObject, Upset
<1>7. ASSUME Relay PROVE GoneIsLate'
  BY <1>7, GoingOn DEF GoneIsLate, Deleted, At, Newest, NewerThan, Relay, history
<1>8. ASSUME Upload PROVE GoneIsLate'
  <2>1. row[job.of] = "creating"
    BY <1>8 DEF Upload, At, MakingIsCreating, Making
  <2>2. job'.of = job.of /\ job'.step = "ready"
    BY <1>8, GoingOn DEF Upload
  <2>3. \A b \in Backup : Deleted(b)' => Deleted(b) /\ b # job.of
    BY <1>8, <2>1, <2>2 DEF Upload, Deleted, At, MakingIsCreating
  <2>4. QED
    BY <1>8, <2>3 DEF Upload, GoneIsLate
<1>9. ASSUME Ready PROVE GoneIsLate'
  BY <1>9, GoingOn DEF GoneIsLate, Deleted, At, Newest, NewerThan, Ready
<1>10. ASSUME Select PROVE GoneIsLate'
  BY <1>10
  DEF GoneIsLate, Deleted, At, Newest, NewerThan, Select, Extra, ReadyOnes, history, store
<1>11. ASSUME Prune PROVE GoneIsLate'
  <2>1. CASE /\ Go("pruneRow") /\ deleteObject(Newest)
    <3>1. Newest' = Newest /\ job'.step = "pruneRow"
      BY <2>1, GoingOn DEF Newest
    <3>2. \A b \in Backup : Deleted(b)' => Deleted(b) \/ b = Newest
      BY <1>11, <3>1 DEF Prune, Deleted, At
    <3>3. UNCHANGED <<upload, abandoned>>
      BY <1>11 DEF Prune
    <3>4. QED
      BY <2>1, <3>2, <3>3 DEF GoneIsLate, deleteObject
  <2>2. CASE job'.step \in {"record", "prune"} /\ UNCHANGED <<object, late>>
    <3>1. \A b \in Backup : Deleted(b)' => Deleted(b)
      BY <1>11, <2>2 DEF Prune, Deleted, At
    <3>2. QED
      BY <1>11, <2>2, <3>1 DEF Prune, GoneIsLate
  <2>3. Go("record") => job'.step = "record"
    BY GoingOn
  <2>4. PassOver => job'.step = "prune"
    BY DEF PassOver, TypeOK, JobState
  <2>5. QED
    BY <1>11, <2>1, <2>2, <2>3, <2>4 DEF Prune
<1>12. ASSUME PruneRow PROVE GoneIsLate'
  <2>1. job'.step = "prune"
    BY <1>12 DEF PruneRow, PassOver, TypeOK, JobState
  <2>2. \A b \in Backup : row'[b] = row[b] \/ b = Newest
    BY <1>12 DEF PruneRow, TypeOK
  <2>3. \A b \in Backup : Deleted(b)' => Deleted(b)
    BY <1>12, <2>1, <2>2 DEF PruneRow, Deleted, At
  <2>4. QED
    BY <1>12, <2>3 DEF PruneRow, GoneIsLate
<1>13. ASSUME Record PROVE GoneIsLate'
  BY <1>13, GoingOn DEF GoneIsLate, Deleted, At, Newest, NewerThan, Record, history, store
<1>14. ASSUME Catch PROVE GoneIsLate'
  BY <1>14, GoingOn
  DEF GoneIsLate, Deleted, At, Newest, NewerThan, Catch, deleteObject, Upset, Abandon
<1>15. ASSUME Fail PROVE GoneIsLate'
  BY <1>15, GoingOn
  DEF GoneIsLate, Deleted, At, Newest, NewerThan, Fail, Upset, Abandon, Standing,
      JobIsNewest, NotBegun, MakingIsCreating, TypeOK
<1>16. ASSUME Drop PROVE GoneIsLate'
  BY <1>16, GoingOn
  DEF GoneIsLate, Deleted, At, Newest, NewerThan, Drop, NoJob, Upset, Abandon,
      JobIsNewest, NotBegun, MakingIsCreating
<1>17. ASSUME Throws PROVE GoneIsLate'
  BY <1>17
  DEF GoneIsLate, Deleted, At, Newest, NewerThan, Throws, Upset, NoJob, Go, TypeOK,
      JobState, CallState, RowState, Steps
<1>18. ASSUME Crash PROVE GoneIsLate'
  BY <1>18, GoingOn
  DEF GoneIsLate, Deleted, At, Newest, NewerThan, Crash, NoJob, Upset, Abandon, store,
      JobIsNewest, NotBegun, MakingIsCreating
<1>19. ASSUME NEW b \in Backup, Land(b) PROVE GoneIsLate'
  BY <1>19, GoingOn DEF GoneIsLate, Deleted, At, Newest, NewerThan, Land
<1>20. ASSUME NEW b \in Backup, AskDelete(b) PROVE GoneIsLate'
  BY <1>20, GoingOn DEF GoneIsLate, Deleted, At, Newest, NewerThan, AskDelete, Upset, store
<1>21. ASSUME DeleteObject PROVE GoneIsLate'
  BY <1>21, GoingOn
  DEF GoneIsLate, Deleted, At, Newest, NewerThan, DeleteObject, deleteObject
<1>22. ASSUME DeleteRow PROVE GoneIsLate'
  BY <1>22, GoingOn
  DEF GoneIsLate, Deleted, At, Newest, NewerThan, DeleteRow, NoCall, Standing,
      JobIsNewest, NotBegun, MakingIsCreating
<1>23. ASSUME DeleteFails PROVE GoneIsLate'
  BY <1>23, GoingOn
  DEF GoneIsLate, Deleted, At, Newest, NewerThan, DeleteFails, NoCall, Upset, history,
      store, JobIsNewest, NotBegun, MakingIsCreating
<1>24. CASE UNCHANGED <<row, object, upload, job, deleter, late, abandoned>>
  BY <1>24 DEF GoneIsLate, Deleted, At, Newest, NewerThan
<1>25. QED
  BY <1>1, <1>2, <1>3, <1>4, <1>5, <1>6, <1>7, <1>8, <1>9, <1>10, <1>11, <1>12, <1>13,
     <1>14, <1>15, <1>16, <1>17, <1>18, <1>19, <1>20, <1>21, <1>22, <1>23, <1>24
  DEF Next, Handler, vars, history, store

(* A job drops its copy, or is counted among the abandoned. *)
LEMMA LocalIsJobsStep == TypeOK /\ JobIsNewest /\ LocalIsJobs /\ [Next]_vars => LocalIsJobs'
<1> SUFFICES ASSUME TypeOK, JobIsNewest, LocalIsJobs, [Next]_vars PROVE LocalIsJobs'
  OBVIOUS
<1>1. ASSUME NEW byPolicy \in BOOLEAN, NEW path \in {"direct", "auto", "relay"}, Enqueue(byPolicy, path) PROVE LocalIsJobs'
  BY <1>1, GoingOn, BackupsAssumption
  DEF LocalIsJobs, Enqueue, NoJob, history, store, JobIsNewest, TypeOK, Number, Backup
<1>2. ASSUME Insert PROVE LocalIsJobs'
  BY <1>2, GoingOn DEF LocalIsJobs, Insert, At, history
<1>3. ASSUME Direct PROVE LocalIsJobs'
  BY <1>3, GoingOn DEF LocalIsJobs, Direct, At, history
<1>4. ASSUME Wait PROVE LocalIsJobs'
  BY <1>4, GoingOn DEF LocalIsJobs, Wait, At, GiveUpDirect, Upset, history, store
<1>5. ASSUME Appear PROVE LocalIsJobs'
  BY <1>5, GoingOn DEF LocalIsJobs, Appear, At, GiveUpDirect, history, store
<1>6. ASSUME Fallback PROVE LocalIsJobs'
  BY <1>6, GoingOn DEF LocalIsJobs, Fallback, At, deleteObject, Upset
<1>7. ASSUME Relay PROVE LocalIsJobs'
  BY <1>7, GoingOn DEF LocalIsJobs, Relay, At, history
<1>8. ASSUME Upload PROVE LocalIsJobs'
  BY <1>8, GoingOn DEF LocalIsJobs, Upload, At
<1>9. ASSUME Ready PROVE LocalIsJobs'
  BY <1>9, GoingOn DEF LocalIsJobs, Ready, At
<1>10. ASSUME Select PROVE LocalIsJobs'
  BY <1>10 DEF LocalIsJobs, Select, At, Extra, ReadyOnes, NewerThan, history, store
<1>11. ASSUME Prune PROVE LocalIsJobs'
  BY <1>11
  DEF LocalIsJobs, Prune, At, Go, deleteObject, Newest, Upset, PassOver, NewerThan,
      TypeOK, JobState, CallState, RowState, Steps
<1>12. ASSUME PruneRow PROVE LocalIsJobs'
  BY <1>12
  DEF LocalIsJobs, PruneRow, At, Newest, Upset, PassOver, Standing, NewerThan, TypeOK,
      JobState, CallState, RowState, Steps
<1>13. ASSUME Record PROVE LocalIsJobs'
  BY <1>13, GoingOn DEF LocalIsJobs, Record, At, history, store
<1>14. ASSUME Catch PROVE LocalIsJobs'
  BY <1>14, GoingOn DEF LocalIsJobs, Catch, At, deleteObject, Upset, Abandon
<1>15. ASSUME Fail PROVE LocalIsJobs'
  BY <1>15, GoingOn DEF LocalIsJobs, Fail, At, Upset, Abandon, Standing
<1>16. ASSUME Drop PROVE LocalIsJobs'
  BY <1>16, GoingOn DEF LocalIsJobs, Drop, At, Upset, Abandon
<1>17. ASSUME Throws PROVE LocalIsJobs'
  BY <1>17, GoingOn DEF LocalIsJobs, Throws, Upset, NoJob, JobIsNewest
<1>18. ASSUME Crash PROVE LocalIsJobs'
  BY <1>18, GoingOn DEF LocalIsJobs, Crash, Upset, Abandon, store
<1>19. CASE UNCHANGED <<local, job, abandoned>>
  BY <1>19 DEF LocalIsJobs
<1>20. QED
  BY <1>1, <1>2, <1>3, <1>4, <1>5, <1>6, <1>7, <1>8, <1>9, <1>10, <1>11, <1>12, <1>13,
     <1>14, <1>15, <1>16, <1>17, <1>18, <1>19
  DEF Next, Handler, vars, history, store, Land, AskDelete, DeleteObject, DeleteRow,
      DeleteFails, Upset, deleteObject, Standing

(* A ready backup is taken back by a user, or by its own job once it is ready. *)
LEMMA NotUndoneStep == TypeOK /\ JobIsNewest /\ NotBegun /\ MakingIsCreating /\ ReadyIsStored /\ NotUndone /\ [Next]_vars => NotUndone'
<1> SUFFICES ASSUME TypeOK, JobIsNewest, NotBegun, MakingIsCreating, ReadyIsStored, NotUndone, [Next]_vars PROVE NotUndone'
  OBVIOUS
<1>1. ASSUME NEW byPolicy \in BOOLEAN, NEW path \in {"direct", "auto", "relay"}, Enqueue(byPolicy, path) PROVE NotUndone'
  <2>1. made + 1 \in Backup /\ made + 1 > made
    BY <1>1, BackupsAssumption DEF Enqueue, TypeOK, Number, Backup
  <2>2. made + 1 # deleter.of
    BY <2>1 DEF NotBegun, Unbegun
  <2>3. job'.step = "insert" /\ deleter' = deleter /\ undone' = undone
    BY <1>1 DEF Enqueue, NoJob, history
  <2>4. scheduled' \subseteq scheduled \cup {made + 1}
    BY <1>1 DEF Enqueue
  <2>5. QED
    BY <2>2, <2>3, <2>4 DEF NotUndone, At
<1>2. ASSUME Insert PROVE NotUndone'
  BY <1>2, GoingOn DEF NotUndone, At, Insert, history
<1>3. ASSUME Direct PROVE NotUndone'
  BY <1>3, GoingOn DEF NotUndone, At, Direct, history
<1>4. ASSUME Wait PROVE NotUndone'
  <2>1. row[job.of] = "creating"
    BY <1>4 DEF Wait, At, MakingIsCreating, Making
  <2>2. job'.of = job.of /\ job'.step # "select"
    BY <1>4, GoingOn DEF Wait, GiveUpDirect
  <2>3. QED
    BY <1>4, <2>1, <2>2 DEF Wait, NotUndone, At, store, history
<1>5. ASSUME Appear PROVE NotUndone'
  <2>1. row[job.of] = "creating"
    BY <1>5 DEF Appear, At, MakingIsCreating, Making
  <2>2. job'.of = job.of /\ job'.step # "select"
    BY <1>5, GoingOn DEF Appear, GiveUpDirect
  <2>3. QED
    BY <1>5, <2>1, <2>2 DEF Appear, NotUndone, At, store, history
<1>6. ASSUME Fallback PROVE NotUndone'
  BY <1>6, GoingOn DEF NotUndone, At, Fallback, deleteObject, Upset
<1>7. ASSUME Relay PROVE NotUndone'
  BY <1>7, GoingOn DEF NotUndone, At, Relay, history
<1>8. ASSUME Upload PROVE NotUndone'
  BY <1>8, GoingOn DEF NotUndone, At, Upload
<1>9. ASSUME Ready PROVE NotUndone'
  BY <1>9, GoingOn
  DEF NotUndone, At, Ready, JobIsNewest, NotBegun, MakingIsCreating, ReadyIsStored, TypeOK
<1>10. ASSUME Select PROVE NotUndone'
  BY <1>10 DEF NotUndone, At, Select, Extra, ReadyOnes, NewerThan, history, store
<1>11. ASSUME Prune PROVE NotUndone'
  BY <1>11, BackupsAssumption
  DEF NotUndone, At, Prune, Go, deleteObject, Newest, Upset, PassOver, NewerThan, TypeOK,
      JobState, CallState, RowState, Steps, JobIsNewest, NotBegun, MakingIsCreating,
      ReadyIsStored
<1>12. ASSUME PruneRow PROVE NotUndone'
  BY <1>12, BackupsAssumption
  DEF NotUndone, At, PruneRow, Newest, Upset, PassOver, Standing, NewerThan, TypeOK,
      JobState, CallState, RowState, Steps, JobIsNewest, NotBegun, MakingIsCreating,
      ReadyIsStored
<1>13. ASSUME Record PROVE NotUndone'
  BY <1>13, GoingOn DEF NotUndone, At, Record, history, store
<1>14. ASSUME Catch PROVE NotUndone'
  BY <1>14, GoingOn DEF NotUndone, At, Catch, deleteObject, Upset, Abandon
<1>15. ASSUME Fail PROVE NotUndone'
  BY <1>15, GoingOn DEF NotUndone, At, Fail, Upset, Abandon, Standing
<1>16. ASSUME Drop PROVE NotUndone'
  BY <1>16, GoingOn
  DEF NotUndone, At, Drop, NoJob, Upset, Abandon, JobIsNewest, NotBegun, MakingIsCreating,
      ReadyIsStored
<1>17. ASSUME Throws PROVE NotUndone'
  <2>1. job'.of = job.of /\ job'.step \in {"catch", "fallback"}
    BY <1>17, GoingOn DEF Throws, NoJob
  <2>2. row[job.of] # "ready" \/ undone'
    <3>1. CASE At("insert")
      BY <3>1 DEF JobIsNewest, NotBegun, Unbegun, At
    <3>2. CASE job.step \in Making
      BY <3>2 DEF MakingIsCreating
    <3>3. CASE job.step \in {"select", "record"}
      BY <1>17, <3>3 DEF Throws
    <3>4. QED
      BY <1>17, <3>1, <3>2, <3>3 DEF Throws, Making, At
  <2>3. undone => undone'
    BY <1>17 DEF Throws
  <2>4. UNCHANGED <<row, object, scheduled, deleter>>
    BY <1>17 DEF Throws
  <2>5. QED
    BY <2>1, <2>2, <2>3, <2>4 DEF NotUndone, At
<1>18. ASSUME Crash PROVE NotUndone'
  BY <1>18, GoingOn
  DEF NotUndone, At, Crash, NoJob, Upset, Abandon, store, JobIsNewest, NotBegun,
      MakingIsCreating, ReadyIsStored
<1>19. ASSUME NEW b \in Backup, Land(b) PROVE NotUndone'
  BY <1>19, GoingOn DEF NotUndone, At, Land
<1>20. ASSUME NEW b \in Backup, AskDelete(b) PROVE NotUndone'
  BY <1>20, GoingOn DEF NotUndone, At, AskDelete, Upset, store
<1>21. ASSUME DeleteObject PROVE NotUndone'
  BY <1>21, GoingOn DEF NotUndone, At, DeleteObject, deleteObject
<1>22. ASSUME DeleteRow PROVE NotUndone'
  BY <1>22, GoingOn, BackupsAssumption
  DEF NotUndone, At, DeleteRow, NoCall, Standing, JobIsNewest, NotBegun, MakingIsCreating,
      ReadyIsStored, TypeOK, Number, Backup
<1>23. ASSUME DeleteFails PROVE NotUndone'
  BY <1>23, GoingOn, BackupsAssumption
  DEF NotUndone, At, DeleteFails, NoCall, Upset, history, store, JobIsNewest, NotBegun,
      MakingIsCreating, ReadyIsStored, TypeOK, Number, Backup
<1>24. CASE UNCHANGED <<scheduled, row, object, job, deleter, undone>>
  BY <1>24 DEF NotUndone, At
<1>25. QED
  BY <1>1, <1>2, <1>3, <1>4, <1>5, <1>6, <1>7, <1>8, <1>9, <1>10, <1>11, <1>12, <1>13,
     <1>14, <1>15, <1>16, <1>17, <1>18, <1>19, <1>20, <1>21, <1>22, <1>23, <1>24
  DEF Next, Handler, vars, history, store

(* A row goes right after its object, both off the same list. *)
LEMMA LeftToPruneStep == TypeOK /\ LeftToPrune /\ [Next]_vars => LeftToPrune'
<1> SUFFICES ASSUME TypeOK, LeftToPrune, [Next]_vars PROVE LeftToPrune'
  OBVIOUS
<1>1. ASSUME NEW byPolicy \in BOOLEAN, NEW path \in {"direct", "auto", "relay"}, Enqueue(byPolicy, path) PROVE LeftToPrune'
  BY <1>1, GoingOn DEF LeftToPrune, At, Enqueue, history, store
<1>2. ASSUME Insert PROVE LeftToPrune'
  BY <1>2, GoingOn DEF LeftToPrune, At, Insert, history
<1>3. ASSUME Direct PROVE LeftToPrune'
  BY <1>3, GoingOn DEF LeftToPrune, At, Direct, history
<1>4. ASSUME Wait PROVE LeftToPrune'
  BY <1>4, GoingOn DEF LeftToPrune, At, Wait, GiveUpDirect, Upset, history, store
<1>5. ASSUME Appear PROVE LeftToPrune'
  BY <1>5, GoingOn DEF LeftToPrune, At, Appear, GiveUpDirect, history, store
<1>6. ASSUME Fallback PROVE LeftToPrune'
  BY <1>6, GoingOn DEF LeftToPrune, At, Fallback, deleteObject, Upset
<1>7. ASSUME Relay PROVE LeftToPrune'
  BY <1>7, GoingOn DEF LeftToPrune, At, Relay, history
<1>8. ASSUME Upload PROVE LeftToPrune'
  BY <1>8, GoingOn DEF LeftToPrune, At, Upload
<1>9. ASSUME Ready PROVE LeftToPrune'
  BY <1>9, GoingOn DEF LeftToPrune, At, Ready
<1>10. ASSUME Select PROVE LeftToPrune'
  BY <1>10 DEF LeftToPrune, At, Select, Extra, ReadyOnes, NewerThan, history, store
<1>11. ASSUME Prune PROVE LeftToPrune'
  BY <1>11
  DEF LeftToPrune, At, Prune, Go, deleteObject, Newest, Upset, PassOver, NewerThan,
      TypeOK, JobState, CallState, RowState, Steps
<1>12. ASSUME PruneRow PROVE LeftToPrune'
  BY <1>12
  DEF LeftToPrune, At, PruneRow, Newest, Upset, PassOver, Standing, NewerThan, TypeOK,
      JobState, CallState, RowState, Steps
<1>13. ASSUME Record PROVE LeftToPrune'
  BY <1>13, GoingOn DEF LeftToPrune, At, Record, history, store
<1>14. ASSUME Catch PROVE LeftToPrune'
  BY <1>14, GoingOn DEF LeftToPrune, At, Catch, deleteObject, Upset, Abandon
<1>15. ASSUME Fail PROVE LeftToPrune'
  BY <1>15, GoingOn DEF LeftToPrune, At, Fail, Upset, Abandon, Standing
<1>16. ASSUME Drop PROVE LeftToPrune'
  BY <1>16, GoingOn DEF LeftToPrune, At, Drop, NoJob, Upset, Abandon
<1>17. ASSUME Throws PROVE LeftToPrune'
  BY <1>17
  DEF LeftToPrune, At, Throws, Upset, NoJob, Go, TypeOK, JobState, CallState, RowState,
      Steps
<1>18. ASSUME Crash PROVE LeftToPrune'
  BY <1>18, GoingOn DEF LeftToPrune, At, Crash, NoJob, Upset, Abandon, store
<1>19. CASE UNCHANGED job
  BY <1>19 DEF LeftToPrune, At
<1>20. QED
  BY <1>1, <1>2, <1>3, <1>4, <1>5, <1>6, <1>7, <1>8, <1>9, <1>10, <1>11, <1>12, <1>13,
     <1>14, <1>15, <1>16, <1>17, <1>18, <1>19
  DEF Next, Handler, vars, history, store, Land, AskDelete, DeleteObject, DeleteRow,
      DeleteFails, Upset, deleteObject, Standing

(* Of a finite set of numbers at most k have fewer than k above them. *)
LEMMA FewAreNewest ==
  ASSUME NEW S, S \subseteq Nat, IsFiniteSet(S), NEW k \in Nat \ {0}
  PROVE  Cardinality({b \in S : ~ (Cardinality(NewerThan(b, S)) >= k)}) <= k
<1> DEFINE T == {b \in S : ~ (Cardinality(NewerThan(b, S)) >= k)}
<1>1. IsFiniteSet(T) /\ Cardinality(T) \in Nat
  BY FS_Subset, FS_CardinalityType
<1>2. CASE T = {}
  BY <1>2, FS_EmptySet
<1>3. CASE T # {}
  <2>1. PICK m \in T : \A x \in T : m <= x
    BY <1>3, LeastExists
  <2>2. IsFiniteSet(NewerThan(m, S)) /\ Cardinality(NewerThan(m, S)) \in Nat
    BY FS_Subset, FS_CardinalityType DEF NewerThan
  <2>3. T \ {m} \in SUBSET NewerThan(m, S)
    <3>1. ASSUME NEW x \in T \ {m} PROVE x \in S /\ x > m
      BY <2>1
    <3>2. QED
      BY <3>1 DEF NewerThan
  <2>4. Cardinality(T \ {m}) <= Cardinality(NewerThan(m, S))
    BY <2>2, <2>3, FS_Subset
  <2>5. Cardinality(T \ {m}) = Cardinality(T) - 1
    BY <1>1, <2>1, FS_RemoveElement
  <2>6. ~ (Cardinality(NewerThan(m, S)) >= k)
    BY <2>1
  <2>7. QED
    BY <1>1, <2>2, <2>4, <2>5, <2>6
<1>4. QED
  BY <1>2, <1>3

(* The policy's backups are finitely many. *)
LEMMA BackupsAreFinite ==
  ASSUME NEW S, S \subseteq Backup
  PROVE  IsFiniteSet(S) /\ Cardinality(S) \in Nat /\ S \subseteq Nat
<1>1. IsFiniteSet(Backup)
  BY BackupsAssumption, FS_Interval DEF Backup
<1>2. Backup \subseteq Nat
  BY DEF Backup
<1>3. QED
  BY <1>1, <1>2, FS_Subset, FS_CardinalityType

(* What retention goes for leaves no more than the policy keeps... *)
LEMMA ExtraLeavesKeep == TypeOK => Cardinality(ReadyOnes \ Extra) <= Keep
<1> SUFFICES ASSUME TypeOK PROVE Cardinality(ReadyOnes \ Extra) <= Keep
  OBVIOUS
<1>1. ReadyOnes \subseteq Backup
  BY DEF TypeOK, ReadyOnes
<1>2. ReadyOnes \ Extra = {b \in ReadyOnes : ~ (Cardinality(NewerThan(b, ReadyOnes)) >= Keep)}
  BY DEF Extra
<1>3. QED
  BY <1>1, <1>2, BackupsAreFinite, FewAreNewest, BackupsAssumption

(* ...and the newest is not among it. *)
LEMMA NewestIsKept ==
  ASSUME TypeOK, NotBegun, made \in ReadyOnes
  PROVE  made \notin Extra
<1>1. NewerThan(made, ReadyOnes) = {}
  <2> SUFFICES ASSUME NEW b \in ReadyOnes, b > made PROVE FALSE
    BY DEF NewerThan
  <2>1. b \in Backup /\ row[b] = "ready"
    BY DEF TypeOK, ReadyOnes
  <2>2. QED
    BY <2>1 DEF NotBegun, Unbegun
<1>2. Cardinality(NewerThan(made, ReadyOnes)) = 0
  BY <1>1, FS_EmptySet
<1>3. QED
  BY <1>2, BackupsAssumption DEF Extra

(* As long as no ready backup of the policy but the listed ones loses its row or its
   object, the policy keeps one. *)
LEMMA OneStays ==
  ASSUME KeepsOne, scheduled \subseteq scheduled', had' = had, undone => undone',
         \A b \in scheduled : row[b] = "ready" /\ b \in object /\ b \notin job.left
           => undone' \/ (row'[b] = "ready" /\ b \in object' /\ b \notin job'.left)
  PROVE  KeepsOne'
<1> SUFFICES ASSUME had', ~undone'
             PROVE  \E b \in scheduled' : row'[b] = "ready" /\ b \in object' /\ b \notin job'.left
  BY DEF KeepsOne
<1>1. PICK b \in scheduled : row[b] = "ready" /\ b \in object /\ b \notin job.left
  BY DEF KeepsOne
<1>2. QED
  BY <1>1

(* As long as nothing is added, what is left is no more than the policy keeps. *)
LEMMA FewerAreFew ==
  ASSUME TypeOK, NEW S, S \subseteq ReadyOnes \ job.left,
         Cardinality(ReadyOnes \ job.left) <= Keep
  PROVE  Cardinality(S) <= Keep
<1>1. ReadyOnes \ job.left \subseteq Backup
  BY DEF TypeOK, ReadyOnes
<1>2. /\ IsFiniteSet(ReadyOnes \ job.left) /\ Cardinality(ReadyOnes \ job.left) \in Nat
      /\ S \subseteq Backup
  BY <1>1, BackupsAreFinite
<1>3. Cardinality(S) <= Cardinality(ReadyOnes \ job.left) /\ Cardinality(S) \in Nat
  BY <1>2, FS_Subset, BackupsAreFinite
<1>4. QED
  BY <1>2, <1>3, BackupsAssumption

(* Only a new ready backup lets retention choose, and it is the newest then. *)
LEMMA KeepsOneStep == TypeOK /\ JobIsNewest /\ LeftToPrune /\ NotBegun /\ MakingIsCreating /\ ReadyIsStored /\ NotUndone /\ KeepsOne /\ [Next]_vars => KeepsOne'
<1> SUFFICES ASSUME TypeOK, JobIsNewest, LeftToPrune, NotBegun, MakingIsCreating, ReadyIsStored, NotUndone, KeepsOne, [Next]_vars PROVE KeepsOne'
  OBVIOUS
<1>1. ASSUME NEW byPolicy \in BOOLEAN, NEW path \in {"direct", "auto", "relay"}, Enqueue(byPolicy, path) PROVE KeepsOne'
  <2>1. job.left = {} /\ job'.left = {}
    BY <1>1 DEF Enqueue, NoJob
  <2>2. scheduled \subseteq scheduled' /\ UNCHANGED <<had, undone, row, object>>
    BY <1>1 DEF Enqueue, store, history
  <2>3. QED
    BY <2>1, <2>2, OneStays
<1>2. ASSUME Insert PROVE KeepsOne'
  <2>1. UNCHANGED <<scheduled, had, undone, object>> /\ job'.left = job.left
    BY <1>2, GoingOn DEF Insert, history
  <2>2. row[job.of] = "none" /\ job.of \in Backup
    BY <1>2 DEF Insert, At, JobIsNewest, NotBegun, Unbegun
  <2>3. \A b \in scheduled : row[b] = "ready" => row'[b] = "ready"
    BY <1>2, <2>2 DEF Insert, TypeOK
  <2>4. QED
    BY <2>1, <2>3, OneStays
<1>3. ASSUME Direct PROVE KeepsOne'
  <2>1. UNCHANGED <<scheduled, had, undone, row, object>> /\ job'.left = job.left
    BY <1>3, GoingOn DEF Direct, store, history
  <2>2. QED
    BY <2>1, OneStays
<1>4. ASSUME Wait PROVE KeepsOne'
  <2>1. UNCHANGED <<scheduled, had, undone, row, object>> /\ job'.left = job.left
    BY <1>4, GoingOn DEF Wait, GiveUpDirect, store, history
  <2>2. QED
    BY <2>1, OneStays
<1>5. ASSUME Appear PROVE KeepsOne'
  <2>1. UNCHANGED <<scheduled, had, undone, row, object>> /\ job'.left = job.left
    BY <1>5, GoingOn DEF Appear, GiveUpDirect, store, history
  <2>2. QED
    BY <2>1, OneStays
<1>6. ASSUME Fallback PROVE KeepsOne'
  <2>1. UNCHANGED <<scheduled, had, undone, row>> /\ job'.left = job.left
    BY <1>6, GoingOn DEF Fallback
  <2>2. row[job.of] = "creating"
    BY <1>6 DEF Fallback, At, MakingIsCreating, Making
  <2>3. \A b \in scheduled : row[b] = "ready" /\ b \in object => b \in object'
    BY <1>6, <2>2 DEF Fallback, deleteObject
  <2>4. QED
    BY <2>1, <2>3, OneStays
<1>7. ASSUME Relay PROVE KeepsOne'
  <2>1. UNCHANGED <<scheduled, had, undone, row, object>> /\ job'.left = job.left
    BY <1>7, GoingOn DEF Relay, store, history
  <2>2. QED
    BY <2>1, OneStays
<1>8. ASSUME Upload PROVE KeepsOne'
  <2>1. UNCHANGED <<scheduled, had, undone, row>> /\ job'.left = job.left /\ object \subseteq object'
    BY <1>8, GoingOn DEF Upload
  <2>2. QED
    BY <2>1, OneStays
<1>9. ASSUME Ready PROVE KeepsOne'
  <2>1. UNCHANGED <<scheduled, undone, object>> /\ job'.left = {} /\ job.left = {}
    BY <1>9, GoingOn DEF Ready, JobIsNewest, At, Pruning
  <2>2. job.of \in Backup /\ job.of \in object
    BY <1>9 DEF Ready, At, JobIsNewest, ReadyIsStored
  <2>3. row'[job.of] = "ready" /\ \A b \in scheduled : row[b] = "ready" => row'[b] = "ready"
    BY <1>9, <2>2 DEF Ready, TypeOK
  <2>4. CASE job.of \in scheduled
    BY <2>1, <2>2, <2>3, <2>4 DEF KeepsOne
  <2>5. CASE job.of \notin scheduled
    <3>1. had' => had
      BY <1>9, <2>5 DEF Ready
    <3>2. QED
      BY <2>1, <2>3, <3>1 DEF KeepsOne
  <2>6. QED
    BY <2>4, <2>5
<1>10. ASSUME Select PROVE KeepsOne'
  <2>1. UNCHANGED <<scheduled, had, undone, row, object>> /\ job'.left = Extra
    BY <1>10 DEF Select, store, history, TypeOK, JobState
  <2>2. CASE undone
    BY <2>1, <2>2 DEF KeepsOne
  <2>3. CASE ~undone
    <3>1. job.of = made /\ job.of \in scheduled /\ row[job.of] = "ready" /\ job.of \in object
      BY <1>10, <2>3 DEF Select, At, JobIsNewest, NotUndone
    <3>2. made \notin Extra
      BY <3>1, NewestIsKept DEF ReadyOnes
    <3>3. QED
      BY <2>1, <3>1, <3>2 DEF KeepsOne
  <2>4. QED
    BY <2>2, <2>3
<1>11. ASSUME Prune PROVE KeepsOne'
  <2>1. UNCHANGED <<scheduled, had, undone, row>>
    BY <1>11 DEF Prune
  <2>2. job'.left \subseteq job.left
    <3>1. PassOver => job'.left = job.left \ {Newest}
      BY DEF PassOver, TypeOK, JobState
    <3>2. QED
      BY <1>11, <3>1, GoingOn DEF Prune
  <2>3. job.left # {} => Newest \in job.left
    BY NewestIsLeft DEF TypeOK, JobState
  <2>4. object \ job.left \subseteq object'
    BY <1>11, <2>3 DEF Prune, deleteObject
  <2>5. QED
    BY <2>1, <2>2, <2>4, OneStays
<1>12. ASSUME PruneRow PROVE KeepsOne'
  <2>1. UNCHANGED <<scheduled, had, undone, object>>
    BY <1>12 DEF PruneRow
  <2>2. job'.left \subseteq job.left
    <3>1. job'.left = job.left \ {Newest}
      BY <1>12 DEF PruneRow, PassOver, TypeOK, JobState
    <3>2. QED
      BY <3>1
  <2>3. job.left # {}
    BY <1>12 DEF PruneRow, At, LeftToPrune
  <2>4. Newest \in job.left
    BY <2>3, NewestIsLeft DEF TypeOK, JobState
  <2>5. \A b \in scheduled \ job.left : row[b] = "ready" => row'[b] = "ready"
    BY <1>12, <2>4 DEF PruneRow, TypeOK
  <2>6. QED
    BY <2>1, <2>2, <2>5, OneStays
<1>13. ASSUME Record PROVE KeepsOne'
  <2>1. UNCHANGED <<scheduled, had, undone, row, object>> /\ job'.left = {}
    BY <1>13 DEF Record, NoJob, store, history
  <2>2. QED
    BY <2>1, OneStays
<1>14. ASSUME Catch PROVE KeepsOne'
  <2>1. UNCHANGED <<scheduled, had, undone, row>> /\ job'.left = job.left
    BY <1>14, GoingOn DEF Catch
  <2>2. undone \/ row[job.of] # "ready"
    BY <1>14 DEF Catch, At, NotUndone
  <2>3. object \ {job.of} \subseteq object'
    BY <1>14 DEF Catch, deleteObject
  <2>4. QED
    BY <2>1, <2>2, <2>3, OneStays
<1>15. ASSUME Fail PROVE KeepsOne'
  <2>1. UNCHANGED <<scheduled, had, undone, object>> /\ job'.left = job.left
    BY <1>15, GoingOn DEF Fail
  <2>2. undone \/ row[job.of] # "ready"
    BY <1>15 DEF Fail, At, NotUndone
  <2>3. \A b \in scheduled : b # job.of => row'[b] = row[b]
    BY <1>15 DEF Fail, TypeOK
  <2>4. QED
    BY <2>1, <2>2, <2>3, OneStays
<1>16. ASSUME Drop PROVE KeepsOne'
  <2>1. UNCHANGED <<scheduled, had, undone, row, object>> /\ job'.left = {}
    BY <1>16 DEF Drop, NoJob
  <2>2. QED
    BY <2>1, OneStays
<1>17. ASSUME Throws PROVE KeepsOne'
  <2>1. UNCHANGED <<scheduled, had, row, object>> /\ (undone => undone')
    BY <1>17 DEF Throws
  <2>2. job'.left \subseteq job.left
    BY <1>17, GoingOn DEF Throws, NoJob
  <2>3. QED
    BY <2>1, <2>2, OneStays
<1>18. ASSUME Crash PROVE KeepsOne'
  <2>1. UNCHANGED <<scheduled, had, undone, row, object>> /\ job'.left = {}
    BY <1>18 DEF Crash, NoJob, store
  <2>2. QED
    BY <2>1, OneStays
<1>19. ASSUME NEW b \in Backup, Land(b) PROVE KeepsOne'
  <2>1. UNCHANGED <<scheduled, had, undone, row, job>> /\ object \subseteq object'
    BY <1>19 DEF Land
  <2>2. QED
    BY <2>1, OneStays
<1>20. ASSUME NEW b \in Backup, AskDelete(b) PROVE KeepsOne'
  <2>1. UNCHANGED <<scheduled, had, row, object, job>> /\ (undone => undone')
    BY <1>20 DEF AskDelete, store
  <2>2. QED
    BY <2>1, OneStays
<1>21. ASSUME DeleteObject PROVE KeepsOne'
  <2>1. UNCHANGED <<scheduled, had, undone, row, job>> /\ object \ {deleter.of} \subseteq object'
    BY <1>21 DEF DeleteObject, deleteObject
  <2>2. undone \/ deleter.of \notin scheduled
    BY DEF NotUndone
  <2>3. QED
    BY <2>1, <2>2, OneStays
<1>22. ASSUME DeleteRow PROVE KeepsOne'
  <2>1. UNCHANGED <<scheduled, had, undone, object, job>>
    BY <1>22 DEF DeleteRow
  <2>2. undone \/ deleter.of \notin scheduled
    BY DEF NotUndone
  <2>3. \A b \in scheduled : b # deleter.of => row'[b] = row[b]
    BY <1>22 DEF DeleteRow, TypeOK
  <2>4. QED
    BY <2>1, <2>2, <2>3, OneStays
<1>23. CASE UNCHANGED <<scheduled, row, object, job, had, undone>>
  BY <1>23 DEF KeepsOne
<1>24. QED
  BY <1>1, <1>2, <1>3, <1>4, <1>5, <1>6, <1>7, <1>8, <1>9, <1>10, <1>11, <1>12, <1>13,
     <1>14, <1>15, <1>16, <1>17, <1>18, <1>19, <1>20, <1>21, <1>22, <1>23
  DEF Next, Handler, vars, history, store, DeleteFails, Upset

(* The list is all that is beyond what the policy keeps, and is worked off. *)
LEMMA PrunedEnoughStep == TypeOK /\ PrunedEnough /\ [Next]_vars => PrunedEnough'
<1> SUFFICES ASSUME TypeOK, PrunedEnough, [Next]_vars PROVE PrunedEnough'
  OBVIOUS
<1>1. ASSUME NEW byPolicy \in BOOLEAN, NEW path \in {"direct", "auto", "relay"}, Enqueue(byPolicy, path) PROVE PrunedEnough'
  BY <1>1, GoingOn DEF PrunedEnough, Pruning, ReadyOnes, Enqueue, history, store
<1>2. ASSUME Insert PROVE PrunedEnough'
  BY <1>2 DEF PrunedEnough, Pruning, ReadyOnes, Insert, At, Go, history
<1>3. ASSUME Direct PROVE PrunedEnough'
  BY <1>3 DEF PrunedEnough, Pruning, ReadyOnes, Direct, At, Go, history
<1>4. ASSUME Wait PROVE PrunedEnough'
  BY <1>4
  DEF PrunedEnough, Pruning, ReadyOnes, Wait, At, Go, GiveUpDirect, Upset, history, store,
      TypeOK, JobState, CallState, RowState, Steps
<1>5. ASSUME Appear PROVE PrunedEnough'
  BY <1>5
  DEF PrunedEnough, Pruning, ReadyOnes, Appear, At, Go, GiveUpDirect, history, store,
      TypeOK, JobState, CallState, RowState, Steps
<1>6. ASSUME Fallback PROVE PrunedEnough'
  BY <1>6 DEF PrunedEnough, Pruning, ReadyOnes, Fallback, At, Go, deleteObject, Upset
<1>7. ASSUME Relay PROVE PrunedEnough'
  BY <1>7 DEF PrunedEnough, Pruning, ReadyOnes, Relay, At, Go, history
<1>8. ASSUME Upload PROVE PrunedEnough'
  BY <1>8 DEF PrunedEnough, Pruning, ReadyOnes, Upload, At, Go
<1>9. ASSUME Ready PROVE PrunedEnough'
  BY <1>9 DEF PrunedEnough, Pruning, ReadyOnes, Ready, At, Go
<1>10. ASSUME Select PROVE PrunedEnough'
  <2>1. job'.left = Extra /\ ReadyOnes' = ReadyOnes
    BY <1>10 DEF Select, ReadyOnes, store, TypeOK, JobState
  <2>2. QED
    BY <2>1, ExtraLeavesKeep DEF PrunedEnough
<1>11. ASSUME Prune PROVE PrunedEnough'
  <2>1. ReadyOnes' = ReadyOnes
    BY <1>11 DEF Prune, ReadyOnes
  <2>2. (job'.left = job.left /\ job'.clean = job.clean) \/ job'.clean = FALSE
    BY <1>11, GoingOn DEF Prune, PassOver, TypeOK, JobState
  <2>3. QED
    BY <1>11, <2>1, <2>2 DEF Prune, At, PrunedEnough, Pruning
<1>12. ASSUME PruneRow PROVE PrunedEnough'
  <2>1. (job'.left = job.left \ {Newest} /\ job'.clean = job.clean) \/ job'.clean = FALSE
    BY <1>12 DEF PruneRow, PassOver, TypeOK, JobState
  <2>2. CASE job'.clean = FALSE
    BY <2>2 DEF PrunedEnough
  <2>3. CASE job'.clean /\ job'.clean = job.clean
    <3>1. row' = [row EXCEPT ![Newest] = "none"] /\ job'.left = job.left \ {Newest}
      BY <1>12, <2>3 DEF PruneRow, PassOver, TypeOK, JobState
    <3>2. ReadyOnes' \ job'.left \subseteq ReadyOnes \ job.left
      BY <1>12, <3>1 DEF PruneRow, ReadyOnes, TypeOK
    <3>3. Cardinality(ReadyOnes \ job.left) <= Keep
      BY <1>12, <2>3 DEF PruneRow, At, PrunedEnough, Pruning
    <3>4. QED
      BY <3>2, <3>3, FewerAreFew DEF PrunedEnough
  <2>4. QED
    BY <1>12, <2>1, <2>2, <2>3 DEF PruneRow, PassOver, TypeOK, JobState
<1>13. ASSUME Record PROVE PrunedEnough'
  BY <1>13, GoingOn DEF PrunedEnough, Pruning, ReadyOnes, Record, At, history, store
<1>14. ASSUME Catch PROVE PrunedEnough'
  BY <1>14 DEF PrunedEnough, Pruning, ReadyOnes, Catch, At, Go, deleteObject, Upset, Abandon
<1>15. ASSUME Fail PROVE PrunedEnough'
  BY <1>15 DEF PrunedEnough, Pruning, ReadyOnes, Fail, At, Go, Upset, Abandon, Standing
<1>16. ASSUME Drop PROVE PrunedEnough'
  BY <1>16, GoingOn DEF PrunedEnough, Pruning, ReadyOnes, Drop, At, NoJob, Upset, Abandon
<1>17. ASSUME Throws PROVE PrunedEnough'
  BY <1>17, GoingOn, BackupsAssumption
  DEF PrunedEnough, Pruning, ReadyOnes, Throws, Upset, NoJob, TypeOK, Number, Backup
<1>18. ASSUME Crash PROVE PrunedEnough'
  BY <1>18, GoingOn
  DEF PrunedEnough, Pruning, ReadyOnes, Crash, NoJob, Upset, Abandon, store
<1>19. ASSUME DeleteRow PROVE PrunedEnough'
  <2>1. ReadyOnes' \ job'.left \subseteq ReadyOnes \ job.left
    BY <1>19 DEF DeleteRow, ReadyOnes, TypeOK
  <2>2. job' = job
    BY <1>19 DEF DeleteRow
  <2>3. QED
    BY <2>1, <2>2, FewerAreFew DEF PrunedEnough
<1>20. CASE UNCHANGED <<scheduled, row, job>>
  BY <1>20 DEF PrunedEnough, Pruning, ReadyOnes
<1>21. QED
  BY <1>1, <1>2, <1>3, <1>4, <1>5, <1>6, <1>7, <1>8, <1>9, <1>10, <1>11, <1>12, <1>13,
     <1>14, <1>15, <1>16, <1>17, <1>18, <1>19, <1>20
  DEF Next, Handler, vars, history, store, Land, AskDelete, DeleteObject, DeleteFails,
      Upset, deleteObject

-----------------------------------------------------------------------------
(* No backup, no job: the invariant holds. *)
LEMMA InitIInv == Init => IInv
<1> SUFFICES ASSUME Init PROVE IInv
  OBVIOUS
<1>1. TypeOK
  <2>1. row \in [Backup -> RowState] /\ upsets \in 0 .. MaxUpsets
    BY BackupsAssumption DEF Init, RowState
  <2>2. QED
    BY <2>1, Nulls DEF Init, TypeOK
<1>2. job.step = "none" /\ job.left = {} /\ job = NoJob /\ deleter = NoCall /\ deleter.step = "none"
      /\ deleter.of = 0
  BY DEF Init, NoJob, NoCall
<1>3. JobIsNewest /\ MakingIsCreating /\ ReadyIsStored /\ PrunedEnough
  BY <1>2 DEF JobIsNewest, MakingIsCreating, ReadyIsStored, PrunedEnough, At, Pruning, Making
<1>4. NotBegun
  <2>1. \A b \in Backup : b # 0
    BY DEF Backup
  <2>2. QED
    BY <1>2, <2>1 DEF Init, NotBegun
<1>5. ReadyHasObject /\ GoneIsLate /\ LocalIsJobs
  BY DEF Init, ReadyHasObject, GoneIsLate, LocalIsJobs
<1>6. NotUndone /\ KeepsOne /\ LeftToPrune
  BY <1>2 DEF Init, NotUndone, KeepsOne, LeftToPrune, At
<1>7. QED
  BY <1>1, <1>3, <1>4, <1>5, <1>6 DEF IInv

(* The inductive invariant of the backups. *)
THEOREM Invariance == Spec => []IInv
<1>1. IInv /\ [Next]_vars => IInv'
  BY TypeStep, JobIsNewestStep, NotBegunStep, MakingIsCreatingStep, ReadyIsStoredStep,
     ReadyHasObjectStep, GoneIsLateStep, LocalIsJobsStep, NotUndoneStep, LeftToPruneStep,
     KeepsOneStep, PrunedEnoughStep
  DEF IInv
<1>2. QED
  BY InitIInv, <1>1, PTL DEF Spec

(* The variables keep their types: rows, objects, and what a job and a call carry. *)
THEOREM TypeCorrect == Spec => []TypeOK
<1>1. IInv => TypeOK
  BY DEF IInv
<1>2. QED
  BY Invariance, <1>1, PTL

(* A ready backup is in the target, however uploads, relays and failures raced. *)
THEOREM ReadyBackupsAreStored == Spec => []ReadyHasObject
<1>1. IInv => ReadyHasObject
  BY DEF IInv
<1>2. QED
  BY Invariance, <1>1, PTL

(* No object without a row that stands for it and no copy without its job, but for
   the named exceptions. *)
THEOREM NoSpaceIsLost == Spec => []NoLostSpace
<1>1. IInv => NoLostSpace
  <2> SUFFICES ASSUME IInv PROVE NoLostSpace
    OBVIOUS
  <2>1. \A b \in object : row[b] \in {"none", "failed"} => b \in late \cup abandoned
    BY DEF IInv, TypeOK, GoneIsLate, Deleted
  <2>2. QED
    BY <2>1 DEF IInv, LocalIsJobs, NoLostSpace
<1>2. QED
  BY Invariance, <1>1, PTL

(* The policy keeps a backup once it has one, and no more than it asks for after a
   run that pruned without failures. *)
THEOREM RetentionIsKept == Spec => []RetentionKeeps
<1>1. IInv => RetentionKeeps
  <2> SUFFICES ASSUME IInv PROVE RetentionKeeps
    OBVIOUS
  <2>1. had /\ ~undone => \E b \in scheduled : row[b] = "ready" /\ b \in object
    BY DEF IInv, KeepsOne
  <2>2. At("record") /\ job.clean => Cardinality(ReadyOnes) <= Keep
    <3> SUFFICES ASSUME At("record"), job.clean PROVE Cardinality(ReadyOnes) <= Keep
      OBVIOUS
    <3>1. job.left = {}
      BY DEF IInv, JobIsNewest, At, Pruning
    <3>2. ReadyOnes \ job.left = ReadyOnes
      BY <3>1
    <3>3. Cardinality(ReadyOnes \ job.left) <= Keep
      BY DEF IInv, PrunedEnough, At
    <3>4. QED
      BY <3>2, <3>3
  <2>3. QED
    BY <2>1, <2>2 DEF RetentionKeeps
<1>2. QED
  BY Invariance, <1>1, PTL
=============================================================================
