---------------------------- MODULE JobLifecycle ----------------------------
(***************************************************************************)
(* What the job queue promises its clients, without the workers that       *)
(* implement it: a job is queued, claimed once, and ends; two jobs on one  *)
(* instance are never queued or running together; a cancelled job stays    *)
(* cancelled; and any other outcome may be overturned only by a late word  *)
(* of the worker that ran the job, never by running it again.              *)
(***************************************************************************)
CONSTANTS
  Job,          \* rows of the jobs table
  Key,          \* instance keys, <clusterId>/<project>/<name>
  NoKey,        \* a job on no instance
  KeyOf         \* the instanceKey a job is inserted with

VARIABLE state

Active   == {"queued", "running"}
Terminal == {"succeeded", "failed", "cancelled"}
State    == {"none"} \cup Active \cup Terminal

KeyFree(j) ==
  KeyOf[j] # NoKey =>
    \A k \in Job : KeyOf[k] = KeyOf[j] => state[k] \notin Active

Init == state = [j \in Job |-> "none"]

Enqueue(j) ==
  /\ state[j] = "none"
  /\ KeyFree(j)
  /\ state' = [state EXCEPT ![j] = "queued"]

Claim(j) ==
  /\ state[j] = "queued"
  /\ state' = [state EXCEPT ![j] = "running"]

CancelQueued(j) ==
  /\ state[j] = "queued"
  /\ state' = [state EXCEPT ![j] = "cancelled"]

(* Sweeping is one statement: it may end several running jobs at once. *)
Interrupt(js) ==
  /\ \A j \in js : state[j] = "running"
  /\ state' = [j \in Job |-> IF j \in js THEN "failed" ELSE state[j]]

End(j, outcome) ==
  /\ state[j] = "running"
  /\ state' = [state EXCEPT ![j] = outcome]

(* A worker taken for dead reports after all, or one whose report of success
   was recorded but not acknowledged reports again. *)
Overturn(j, outcome) ==
  /\ state[j] \in {"failed", "succeeded"}
  /\ state' = [state EXCEPT ![j] = outcome]

Next ==
  \/ \E j \in Job : Enqueue(j) \/ Claim(j) \/ CancelQueued(j)
  \/ \E js \in SUBSET Job : Interrupt(js)
  \/ \E j \in Job, o \in Terminal : End(j, o) \/ Overturn(j, o)

Spec == Init /\ [][Next]_state
=============================================================================
