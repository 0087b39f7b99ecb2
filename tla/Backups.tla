------------------------------- MODULE Backups -------------------------------
(***************************************************************************)
(* The backups of one instance (backups/backup-job.ts, api/backups.ts):    *)
(* jobs that bring a backup to the target, uploaded by the cluster itself  *)
(* (direct) or streamed through the control plane (relay), retention by    *)
(* the policy, and deletion by users.                                      *)
(*                                                                         *)
(* A backup is a row and an object, written by separate requests, each one *)
(* step.  The job queue runs one job per instance.  The target and Incus   *)
(* are external: a direct upload is reported done before it has landed, or *)
(* goes on after its request was given up.                                 *)
(***************************************************************************)
EXTENDS Naturals, FiniteSets

CONSTANTS
  MaxBackups,     \* how many backups are ever made
  Keep,           \* the policy's retention
  MaxUpsets       \* failed requests, cancels, crashes, uploads reported done too
                  \* early and users' deletes, together

ASSUME BackupsAssumption ==
  MaxBackups \in Nat /\ Keep \in Nat \ {0} /\ MaxUpsets \in Nat

VARIABLES
  made,           \* how many backups were begun; they are numbered in that order
  scheduled,      \* those of the policy; the others were asked for
  row,            \* the row's state, or none
  object,         \* backups whose object is in the target
  upload,         \* backups Incus is uploading itself
  local,          \* backups the cluster has a copy of
  job,            \* the active job
  deleter,        \* a DELETE call under way
  late,           \* history: those whose object was deleted while Incus was
                  \* still uploading it
  abandoned,      \* history: those whose job was cut short or failed to clean up
  dropped,        \* history: those whose object somebody has deleted, as long as
                  \* the row is ready
  had,            \* history: the policy has had a ready backup
  undone,         \* history: a job failed after its backup was ready, or a user
                  \* deleted one of the policy's
  upsets

history == <<late, abandoned, dropped, had, undone>>
store   == <<row, object, upload, local>>
vars    == <<made, scheduled, store, job, deleter, history, upsets>>

Backup == 1 .. MaxBackups
NoJob  == [of |-> 0, step |-> "none", path |-> "relay", left |-> {}, clean |-> TRUE]
NoCall == [of |-> 0, step |-> "none"]
Steps  == {"none", "insert", "direct", "wait", "appear", "fallback", "relay", "upload",
           "ready", "select", "prune", "pruneRow", "record", "catch", "fail", "drop"}

Number   == 0 .. MaxBackups
RowState == {"none", "creating", "ready", "failed"}
JobState == [of : Number, step : Steps, path : {"direct", "auto", "relay"},
             left : SUBSET Backup, clean : BOOLEAN]
CallState == [of : Number, step : {"none", "object", "row"}]

TypeOK ==
  /\ made \in Number /\ scheduled \subseteq Backup /\ row \in [Backup -> RowState]
  /\ object \subseteq Backup /\ upload \subseteq Backup /\ local \subseteq Backup
  /\ job \in JobState /\ deleter \in CallState
  /\ late \subseteq Backup /\ abandoned \subseteq Backup /\ dropped \subseteq Backup
  /\ had \in BOOLEAN /\ undone \in BOOLEAN /\ upsets \in 0 .. MaxUpsets

Init ==
  /\ made = 0 /\ scheduled = {} /\ row = [b \in Backup |-> "none"]
  /\ object = {} /\ upload = {} /\ local = {} /\ job = NoJob /\ deleter = NoCall
  /\ late = {} /\ abandoned = {} /\ dropped = {} /\ had = FALSE /\ undone = FALSE
  /\ upsets = 0

Upset == upsets < MaxUpsets /\ upsets' = upsets + 1

At(step) == job.step = step
Go(step) == job' = [job EXCEPT !.step = step]

Standing == {b \in dropped : row'[b] # "none" /\ row'[b] # "failed"}

(* store.delete(key) takes effect: a missing object is no error. *)
deleteObject(b) ==
  /\ object' = object \ {b} /\ dropped' = dropped \cup {b}
  /\ late' = late \cup ({b} \cap upload)

-----------------------------------------------------------------------------
(* backupHandler *)

(* scheduleBackups, POST /instances/:id/backups: one active job per instance. *)
Enqueue(byPolicy, path) ==
  /\ job = NoJob /\ made < MaxBackups /\ made' = made + 1
  /\ scheduled' = IF byPolicy THEN scheduled \cup {made'} ELSE scheduled
  /\ job' = [NoJob EXCEPT !.of = made', !.step = "insert", !.path = path]
  /\ UNCHANGED <<store, deleter, history, upsets>>

Insert ==
  /\ At("insert") /\ row' = [row EXCEPT ![job.of] = "creating"]
  /\ Go(IF job.path = "relay" THEN "relay" ELSE "direct")
  /\ UNCHANGED <<made, scheduled, object, upload, local, deleter, history, upsets>>

Direct ==
  /\ At("direct") /\ upload' = upload \cup {job.of} /\ Go("wait")
  /\ UNCHANGED <<made, scheduled, row, object, local, deleter, history, upsets>>

GiveUpDirect == Go(IF job.path = "direct" THEN "catch" ELSE "fallback")

(* The operation ends when the upload has; older releases report it done too
   early, and done when it has failed. *)
Wait ==
  /\ At("wait")
  /\ \/ job.of \notin upload /\ Go("appear") /\ UNCHANGED upsets
     \/ job.of \notin upload \cup object /\ GiveUpDirect /\ UNCHANGED upsets
     \/ job.of \in upload /\ Go("appear") /\ Upset
  /\ UNCHANGED <<made, scheduled, store, deleter, history>>

(* Slip: what the operation reports is believed. *)
Appear_believed ==
  /\ At("appear") /\ Go("ready")
  /\ UNCHANGED <<made, scheduled, store, deleter, history, upsets>>

(* Slip: the object is waited for without end. *)
Appear_noTimeout ==
  /\ At("appear") /\ job.of \in object /\ Go("ready")
  /\ UNCHANGED <<made, scheduled, store, deleter, history, upsets>>

(* The object is waited for, for directWaitMs. *)
Appear ==
  /\ At("appear")
  /\ \/ job.of \in object /\ Go("ready")
     \/ job.of \notin object /\ GiveUpDirect
  /\ UNCHANGED <<made, scheduled, store, deleter, history, upsets>>

(* What may have been uploaded is deleted; a failure is ignored. *)
Fallback ==
  /\ At("fallback") /\ Go("relay")
  /\ \/ deleteObject(job.of) /\ UNCHANGED upsets
     \/ Upset /\ UNCHANGED <<object, dropped, late>>
  /\ UNCHANGED <<made, scheduled, row, upload, local, deleter, abandoned, had, undone>>

(* Streamed, or made on the cluster first. *)
Relay ==
  /\ At("relay") /\ Go("upload") /\ (local' = local \/ local' = local \cup {job.of})
  /\ UNCHANGED <<made, scheduled, row, object, upload, deleter, history, upsets>>

Upload ==
  /\ At("upload") /\ object' = object \cup {job.of} /\ Go("ready")
  /\ dropped' = dropped \ {job.of}
  /\ UNCHANGED <<made, scheduled, row, upload, local, deleter, late, abandoned, had, undone,
                 upsets>>

Ready ==
  /\ At("ready") /\ row' = [row EXCEPT ![job.of] = "ready"]
  /\ had' = (had \/ job.of \in scheduled)
  /\ Go(IF job.of \in scheduled THEN "select" ELSE "drop")
  /\ UNCHANGED <<made, scheduled, object, upload, local, deleter, late, abandoned, dropped,
                 undone, upsets>>

NewerThan(b, S) == {x \in S : x > b}
ReadyOnes == {b \in scheduled : row[b] = "ready"}

(* Slip: one less than the policy keeps is kept. *)
Extra_oneLess == {b \in ReadyOnes : Cardinality(NewerThan(b, ReadyOnes)) >= Keep - 1}

(* The policy's ready backups beyond keep. *)
Extra == {b \in ReadyOnes : Cardinality(NewerThan(b, ReadyOnes)) >= Keep}

Select ==
  /\ At("select") /\ job' = [job EXCEPT !.step = "prune", !.left = Extra]
  /\ UNCHANGED <<made, scheduled, store, deleter, history, upsets>>

(* The newest first, object and then row; a failure is noted and passed over. *)
Newest == CHOOSE b \in job.left : NewerThan(b, job.left) = {}
PassOver == job' = [job EXCEPT !.step = "prune", !.left = @ \ {Newest}, !.clean = FALSE]

Prune ==
  /\ At("prune")
  /\ \/ job.left = {} /\ Go("record") /\ UNCHANGED <<object, dropped, late, upsets>>
     \/ job.left # {} /\ deleteObject(Newest) /\ Go("pruneRow") /\ UNCHANGED upsets
     \/ job.left # {} /\ Upset /\ PassOver /\ UNCHANGED <<object, dropped, late>>
  /\ UNCHANGED <<made, scheduled, row, upload, local, deleter, abandoned, had, undone>>

PruneRow ==
  /\ At("pruneRow")
  /\ \/ /\ row' = [row EXCEPT ![Newest] = "none"] /\ UNCHANGED upsets
        /\ job' = [job EXCEPT !.step = "prune", !.left = @ \ {Newest}]
     \/ Upset /\ PassOver /\ UNCHANGED row
  /\ dropped' = Standing
  /\ UNCHANGED <<made, scheduled, object, upload, local, deleter, late, abandoned, had, undone>>

(* setPolicy: lastSuccessAt *)
Record ==
  /\ At("record") /\ job' = [NoJob EXCEPT !.of = job.of, !.step = "drop"]
  /\ UNCHANGED <<made, scheduled, store, deleter, history, upsets>>

(* A request or a statement fails, or the job is cancelled while it waits, which
   ends it; the cluster's operation is cancelled, or goes on. *)
Throws ==
  /\ job.step \in {"insert", "direct", "wait", "appear", "fallback", "relay", "upload", "ready",
                   "select", "record"}
  /\ Upset
  /\ \/ job' = [NoJob EXCEPT !.of = job.of, !.step = "catch"]
     \/ job.step \in {"direct", "wait", "appear"} /\ job.path = "auto" /\ Go("fallback")
  /\ upload' = upload \/ upload' = upload \ {job.of}
  /\ undone' = (undone \/ job.step \in {"select", "record"})
  /\ UNCHANGED <<made, scheduled, row, object, local, deleter, late, abandoned, dropped, had>>

Abandon == abandoned' = abandoned \cup {job.of}

(* The object goes, a failure is ignored... *)
Catch ==
  /\ At("catch") /\ Go("fail")
  /\ \/ deleteObject(job.of) /\ UNCHANGED <<abandoned, upsets>>
     \/ Upset /\ Abandon /\ UNCHANGED <<object, dropped, late>>
  /\ UNCHANGED <<made, scheduled, row, upload, local, deleter, had, undone>>

(* ...the row, if there is one, is marked... *)
Fail ==
  /\ At("fail") /\ Go("drop")
  /\ \/ /\ row' = [row EXCEPT ![job.of] = IF @ = "none" THEN @ ELSE "failed"]
        /\ UNCHANGED <<abandoned, upsets>>
     \/ Upset /\ Abandon /\ UNCHANGED row
  /\ dropped' = Standing
  /\ UNCHANGED <<made, scheduled, object, upload, local, deleter, late, had, undone>>

(* ...and the cluster's copy is removed in any case: dropLocal. *)
Drop ==
  /\ At("drop") /\ job' = NoJob
  /\ \/ local' = local \ {job.of} /\ UNCHANGED <<abandoned, upsets>>
     \/ Upset /\ Abandon /\ UNCHANGED local
  /\ UNCHANGED <<made, scheduled, row, object, upload, deleter, late, dropped, had, undone>>

(* The worker dies; the queue fails the job later and nobody resumes it. *)
Crash ==
  /\ job # NoJob /\ Upset /\ Abandon /\ job' = NoJob
  /\ UNCHANGED <<made, scheduled, store, deleter, late, dropped, had, undone>>

-----------------------------------------------------------------------------
(* The target, and users *)

(* A direct upload ends. *)
Land(b) ==
  /\ b \in upload /\ upload' = upload \ {b}
  /\ \/ object' = object \cup {b} /\ UNCHANGED late
     \/ late' = late \ {b} /\ UNCHANGED object
  /\ UNCHANGED <<made, scheduled, row, local, job, deleter, abandoned, dropped, had, undone, upsets>>

(* DELETE /backups/:id: the row is loaded and not "creating"... *)
AskDelete(b) ==
  /\ deleter = NoCall /\ row[b] \in {"ready", "failed"} /\ Upset
  /\ deleter' = [of |-> b, step |-> "object"]
  /\ undone' = (undone \/ b \in scheduled)
  /\ UNCHANGED <<made, scheduled, store, job, late, abandoned, dropped, had>>

(* Slip: the row goes first. *)
DeleteObject_rowFirst ==
  /\ deleter.step = "object" /\ deleter' = [deleter EXCEPT !.step = "row"]
  /\ row' = [row EXCEPT ![deleter.of] = "none"]
  /\ UNCHANGED <<made, scheduled, object, upload, local, job, history, upsets>>

(* ...the object goes... *)
DeleteObject ==
  /\ deleter.step = "object" /\ deleter' = [deleter EXCEPT !.step = "row"]
  /\ deleteObject(deleter.of)
  /\ UNCHANGED <<made, scheduled, row, upload, local, job, abandoned, had, undone, upsets>>

(* ...and then the row. *)
DeleteRow ==
  /\ deleter.step = "row" /\ deleter' = NoCall
  /\ row' = [row EXCEPT ![deleter.of] = "none"] /\ dropped' = Standing
  /\ UNCHANGED <<made, scheduled, object, upload, local, job, late, abandoned, had, undone, upsets>>

DeleteFails ==
  /\ deleter # NoCall /\ Upset /\ deleter' = NoCall
  /\ UNCHANGED <<made, scheduled, store, job, history>>

Handler ==
  \/ Insert \/ Direct \/ Wait \/ Appear \/ Fallback \/ Relay \/ Upload \/ Ready
  \/ Select \/ Prune \/ PruneRow \/ Record \/ Catch \/ Fail \/ Drop

Next ==
  \/ \E byPolicy \in BOOLEAN, path \in {"direct", "auto", "relay"} : Enqueue(byPolicy, path)
  \/ Handler \/ Throws \/ Crash
  \/ \E b \in Backup : Land(b) \/ AskDelete(b)
  \/ DeleteObject \/ DeleteRow \/ DeleteFails

Spec == Init /\ [][Next]_vars

(* The worker goes on with its job; the cluster's uploads end, well or not. *)
FairSpec == Spec /\ WF_vars(Handler) /\ \A b \in Backup : WF_vars(Land(b))

-----------------------------------------------------------------------------
(* A ready backup is in the target, however the cluster's upload, the relay and
   its own failures raced, unless somebody has begun to delete it. *)
ReadyHasObject == \A b \in Backup : row[b] = "ready" => b \in object \cup dropped

(* "Object first: a row without its object is harmless, an object without its
   row is lost space": no object is left without a row that stands for it, unless
   the cluster was still uploading it when it was deleted, and no copy on the
   cluster without the job that made it, unless the job was cut short or could not
   clean up. *)
NoLostSpace ==
  /\ \A b \in object : row[b] \in {"none", "failed"} => b \in late \cup abandoned
  /\ \A b \in local : b = job.of \/ b \in abandoned

(* Once the policy has a ready backup it always has one, as retention goes by
   what is ready after the new one is, unless a user deletes one, or a job fails
   after its backup was ready and takes it back; and a run that pruned without
   failures leaves no more than the policy keeps, whatever earlier runs left. *)
RetentionKeeps ==
  /\ had /\ ~undone => \E b \in scheduled : row[b] = "ready" /\ b \in object
  /\ At("record") /\ job.clean => Cardinality(ReadyOnes) <= Keep

(* A backup in the making becomes ready or fails, also when the cluster loses the
   error of its upload. *)
CreatingEnds ==
  \A b \in Backup : row[b] = "creating" ~> row[b] # "creating" \/ b \in abandoned
-----------------------------------------------------------------------------
(* The inductive invariant behind the safety properties (BackupsProofs). *)

Making  == {"direct", "wait", "appear", "fallback", "relay", "upload", "ready"}
Pruning == {"prune", "pruneRow"}

(* The active job is about the newest backup, and holds a list only to prune it. *)
JobIsNewest ==
  /\ IF job.step = "none" THEN job = NoJob ELSE job.of = made /\ job.of \in Backup
  /\ job.step \notin Pruning => job.left = {}

(* A row is pruned only off the list. *)
LeftToPrune == At("pruneRow") => job.left # {}

(* What is not begun has left nothing anywhere. *)
Unbegun(b) == b > made \/ (At("insert") /\ b = job.of)
NotBegun ==
  \A b \in Backup : Unbegun(b) =>
    row[b] = "none" /\ b \notin object \cup upload /\ b # deleter.of

(* From the row's insertion until it is ready or the job fails it is "creating",
   and no DELETE call is about it. *)
MakingIsCreating ==
  /\ job.step \in Making => row[job.of] = "creating"
  /\ IF deleter.step = "none" THEN deleter = NoCall
     ELSE deleter.of \in Backup /\ row[deleter.of] # "creating"

(* The row becomes ready only while its object is there. *)
ReadyIsStored == At("ready") => job.of \in object

(* The rows that are gone or about to go, their objects deleted.  An upload that
   is still under way then is late; what it leaves is the only object. *)
Deleted(b) ==
  \/ row[b] \in {"none", "failed"}
  \/ At("fail") /\ b = job.of
  \/ At("pruneRow") /\ b = Newest
  \/ deleter.step = "row" /\ b = deleter.of
GoneIsLate ==
  \A b \in Backup : Deleted(b) /\ b \in object \cup upload =>
    b \in abandoned \/ (b \in late /\ b \notin object \cap upload)

(* The copy on the cluster goes when its job ends. *)
LocalIsJobs == \A b \in local : b = job.of \/ b \in abandoned

(* Nothing takes back what is ready without being counted as undone... *)
NotUndone ==
  ~undone =>
    /\ deleter.of \notin scheduled
    /\ job.step \in {"catch", "fail"} => row[job.of] # "ready"
    /\ At("select") => job.of \in scheduled /\ row[job.of] = "ready" /\ job.of \in object

(* ...and one of the policy's backups is never on the list of what goes, which
   leaves no more than the policy keeps. *)
KeepsOne ==
  had /\ ~undone =>
    \E b \in scheduled : row[b] = "ready" /\ b \in object /\ b \notin job.left
PrunedEnough ==
  job.step \in Pruning \cup {"record"} /\ job.clean =>
    Cardinality(ReadyOnes \ job.left) <= Keep

IInv ==
  /\ TypeOK /\ JobIsNewest /\ LeftToPrune /\ NotBegun /\ MakingIsCreating /\ ReadyIsStored
  /\ ReadyHasObject /\ GoneIsLate /\ LocalIsJobs
  /\ NotUndone /\ KeepsOne /\ PrunedEnough
=============================================================================
