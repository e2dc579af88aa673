------------------------------ MODULE Webhooks ------------------------------
(***************************************************************************)
(* Outgoing webhooks: activity entries become events, Enqueue puts an      *)
(* event and a snapshot of the endpoints that want it into a bounded       *)
(* queue, one worker delivers it to one endpoint after the other with      *)
(* retries, and RecordDelivery keeps each endpoint's failure count and     *)
(* disables it at a threshold, while the administrator edits and deletes   *)
(* endpoints.                                                              *)
(***************************************************************************)
EXTENDS Naturals, Sequences

CONSTANTS
    Endpoints,
    Names,          \* event names, as sequences of components
    Filters,        \* values an endpoint's event filter may take
    Created,        \* the filter each endpoint was created with
    Capacity,       \* of the queue (1024)
    Attempts,       \* 1 + len(retrySchedule)
    AutoDisableThreshold,
    MaxEvents, MaxEdits, MaxRestarts,
    MaxErrors,      \* bound on failing statements of RecordDelivery
    NoRow, NoJob, NoTarget

ASSUME WebhookAssumption ==
    /\ Capacity \in Nat \ {0} /\ Attempts \in Nat \ {0}
    /\ AutoDisableThreshold \in Nat \ {0}
    /\ MaxEvents \in Nat /\ MaxEdits \in Nat /\ MaxRestarts \in Nat
    /\ MaxErrors \in Nat
    /\ NoTarget \notin Endpoints
    /\ Created \in [Endpoints -> Filters]

VARIABLES
    row,        \* webhook_endpoints
    queue,      \* the dispatcher's channel
    job,        \* the job the worker took, with the targets still to serve
    target,     \* the endpoint it is delivering to
    attempt,    \* attempts made for it
    event,      \* number of events so far
    last,       \* per endpoint: the last event it received (history)
    misses,     \* per endpoint: failed attempts since a good one was recorded
                \* (history)
    pending,    \* per endpoint: events accepted for it and not settled (history)
    auto,       \* endpoints RecordDelivery disabled and nobody touched (history)
    edits, restarts, errors

worker  == <<job, target, attempt>>
bounds  == <<event, edits, restarts>>
vars == <<row, queue, job, target, attempt, event, last, misses, pending, auto,
          edits, restarts, errors>>

Tolerated == AutoDisableThreshold * Attempts  \* misses counts no further
MaxFailures == MaxEvents        \* one failed delivery per event
Row == [enabled : BOOLEAN, filter : Filters,
        status : {"", "success", "failure", "auto_disabled"}, failures : 0..MaxFailures]
Job == [event : 1..MaxEvents, targets : SUBSET Endpoints]

TypeOK ==
    /\ row \in [Endpoints -> Row \cup {NoRow}]
    /\ queue \in Seq(Job) /\ Len(queue) <= Capacity
    /\ job \in Job \cup {NoJob}
    /\ target \in Endpoints \cup {NoTarget}
    /\ attempt \in 0..(Attempts - 1)
    /\ event \in 0..MaxEvents
    /\ last \in [Endpoints -> 0..MaxEvents]
    /\ misses \in [Endpoints -> 0..Tolerated]
    /\ pending \in [Endpoints -> SUBSET (1..MaxEvents)]
    /\ auto \in SUBSET Endpoints
    /\ edits \in 0..MaxEdits /\ restarts \in 0..MaxRestarts /\ errors \in 0..MaxErrors
    /\ target # NoTarget => job # NoJob
    /\ \A e \in auto : row[e] # NoRow /\ ~row[e].enabled

(* The administrator has created the endpoints.                            *)
Init ==
    /\ row = [e \in Endpoints |-> [enabled |-> TRUE, filter |-> Created[e],
                                   status |-> "", failures |-> 0]]
    /\ queue = <<>>
    /\ job = NoJob /\ target = NoTarget /\ attempt = 0
    /\ event = 0
    /\ last = [e \in Endpoints |-> 0]
    /\ misses = [e \in Endpoints |-> 0]
    /\ pending = [e \in Endpoints |-> {}]
    /\ auto = {}
    /\ edits = 0 /\ restarts = 0 /\ errors = 0

-----------------------------------------------------------------------------
(* matches: an empty filter wants everything; "*" stands for one component.*)
matches(filter, name) ==
    \/ filter = {}
    \/ \E f \in filter :
          /\ Len(f) = Len(name)
          /\ \A i \in DOMAIN f : f[i] \in {"*", name[i]}

(* Enqueue: the job is dropped when the queue is full.                     *)
Enqueue(targets) ==
    IF targets # {} /\ Len(queue) < Capacity
    THEN /\ queue' = Append(queue, [event |-> event', targets |-> targets])
         /\ pending' = [e \in Endpoints |->
                           IF e \in targets THEN pending[e] \cup {event'} ELSE pending[e]]
    ELSE UNCHANGED <<queue, pending>>

(* Subscribe's callback, and Dispatch: enqueueMatching.                    *)
Log(name) ==
    /\ event < MaxEvents
    /\ event' = event + 1
    /\ Enqueue({e \in Endpoints : /\ row[e] # NoRow
                                  /\ row[e].enabled
                                  /\ matches(row[e].filter, name)})
    /\ UNCHANGED <<row, worker, last, misses, auto, edits, restarts, errors>>

(* The Test button of one endpoint: neither filter nor enabled counts.     *)
DispatchTo(e) ==
    /\ event < MaxEvents
    /\ row[e] # NoRow
    /\ event' = event + 1
    /\ Enqueue({e})
    /\ UNCHANGED <<row, worker, last, misses, auto, edits, restarts, errors>>

-----------------------------------------------------------------------------
(* RecordDelivery.                                                         *)

(* Mutant: success does not reset the count. *)
Record_noReset(e, success) ==
    LET failures == row[e].failures + 1
        tipped   == failures >= AutoDisableThreshold /\ row[e].enabled
        new == IF success THEN [row[e] EXCEPT !.status = "success"]
               ELSE [row[e] EXCEPT !.failures = failures,
                        !.enabled = IF tipped THEN FALSE ELSE @,
                        !.status = IF tipped THEN "auto_disabled" ELSE "failure"]
    IN  /\ row' = IF row[e] = NoRow THEN row ELSE [row EXCEPT ![e] = new]
        /\ auto' = IF row[e] # NoRow /\ ~success /\ tipped THEN auto \cup {e} ELSE auto

(* Every statement succeeds.  An endpoint deleted meanwhile is not touched.*)
Record(e, success) ==
    LET failures == row[e].failures + 1
        tipped   == failures >= AutoDisableThreshold /\ row[e].enabled
        new == IF success THEN [row[e] EXCEPT !.status = "success", !.failures = 0]
               ELSE [row[e] EXCEPT !.failures = failures,
                        !.enabled = IF tipped THEN FALSE ELSE @,
                        !.status = IF tipped THEN "auto_disabled" ELSE "failure"]
    IN  /\ row' = IF row[e] = NoRow THEN row ELSE [row EXCEPT ![e] = new]
        /\ auto' = IF row[e] # NoRow /\ ~success /\ tipped THEN auto \cup {e} ELSE auto

(* The first UPDATE fails, or the one that disables the endpoint after the *)
(* failure was counted.  The error is logged, and that is all.             *)
RecordError(e, success) ==
    LET failures == row[e].failures + 1
        counted  == [row[e] EXCEPT !.failures = failures, !.status = "failure"]
    IN  /\ row[e] # NoRow
        /\ \/ UNCHANGED row
           \/ /\ ~success /\ failures >= AutoDisableThreshold
              /\ row' = [row EXCEPT ![e] = counted]
        /\ UNCHANGED auto

RecordDelivery(e, success) ==
    \/ Record(e, success) /\ UNCHANGED errors
    \/ errors < MaxErrors /\ RecordError(e, success) /\ errors' = errors + 1

-----------------------------------------------------------------------------
(* The worker.                                                             *)

TakeJob ==
    /\ job = NoJob
    /\ queue # <<>>
    /\ job' = Head(queue)
    /\ queue' = Tail(queue)
    /\ UNCHANGED <<row, target, attempt, bounds, errors, last, misses, pending, auto>>

(* Mutant: the loop over the targets ends after the first. *)
NextTarget_first(e) ==
    /\ job # NoJob
    /\ target = NoTarget
    /\ e \in job.targets
    /\ target' = e
    /\ job' = [job EXCEPT !.targets = {}]
    /\ UNCHANGED <<row, queue, attempt, bounds, errors, last, misses, pending, auto>>

NextTarget(e) ==
    /\ job # NoJob
    /\ target = NoTarget
    /\ e \in job.targets
    /\ target' = e
    /\ job' = [job EXCEPT !.targets = @ \ {e}]
    /\ UNCHANGED <<row, queue, attempt, bounds, errors, last, misses, pending, auto>>

EndJob ==
    /\ job # NoJob
    /\ target = NoTarget
    /\ job.targets = {}
    /\ job' = NoJob
    /\ UNCHANGED <<row, queue, target, attempt, bounds, errors, last, misses, pending, auto>>

Settle(e) ==
    /\ target' = NoTarget
    /\ attempt' = 0
    /\ pending' = [pending EXCEPT ![e] = @ \ {job.event}]

(* The receiver answers 2xx.                                               *)
Delivered(e) ==
    /\ target = e
    /\ last' = [last EXCEPT ![e] = job.event]
    /\ RecordDelivery(e, TRUE)
    /\ misses' = IF errors' = errors THEN [misses EXCEPT ![e] = 0] ELSE misses
    /\ Settle(e)
    /\ UNCHANGED <<queue, job, bounds>>

(* The attempt fails, with or without the receiver having seen the event:  *)
(* its answer may be lost, late or an error.                               *)
Missed(e) ==
    /\ last' \in {last, [last EXCEPT ![e] = job.event]}
    /\ misses' = [misses EXCEPT ![e] = IF @ < Tolerated THEN @ + 1 ELSE @]

(* Mutant: the event goes to the end of the queue for the next attempt. *)
Retry_requeue(e) ==
    /\ target = e
    /\ attempt + 1 < Attempts
    /\ Len(queue) < Capacity
    /\ Missed(e)
    /\ attempt' = 0
    /\ target' = NoTarget
    /\ queue' = Append(queue, [event |-> job.event, targets |-> {e}])
    /\ UNCHANGED <<row, job, bounds, errors, pending, auto>>

Retry(e) ==
    /\ target = e
    /\ attempt + 1 < Attempts
    /\ Missed(e)
    /\ attempt' = attempt + 1
    /\ UNCHANGED <<row, queue, job, target, bounds, errors, pending, auto>>

GiveUp(e) ==
    /\ target = e
    /\ attempt + 1 = Attempts
    /\ Missed(e)
    /\ RecordDelivery(e, FALSE)
    /\ Settle(e)
    /\ UNCHANGED <<queue, job, bounds>>

-----------------------------------------------------------------------------
(* The administrator, and the process.                                     *)

(* Update: the failure count and the last status are left alone.           *)
Update(e, enabled, filter) ==
    /\ edits < MaxEdits
    /\ row[e] # NoRow
    /\ edits' = edits + 1
    /\ row' = [row EXCEPT ![e].enabled = enabled, ![e].filter = filter]
    /\ auto' = auto \ {e}
    /\ UNCHANGED <<queue, worker, event, restarts, errors, last, misses, pending>>

Delete(e) ==
    /\ edits < MaxEdits
    /\ row[e] # NoRow
    /\ edits' = edits + 1
    /\ row' = [row EXCEPT ![e] = NoRow]
    /\ auto' = auto \ {e}
    /\ UNCHANGED <<queue, worker, event, restarts, errors, last, misses, pending>>

(* Stop and a new start: the queue and the job in hand are dropped.        *)
Restart ==
    /\ restarts < MaxRestarts
    /\ restarts' = restarts + 1
    /\ queue' = <<>>
    /\ job' = NoJob /\ target' = NoTarget /\ attempt' = 0
    /\ pending' = [e \in Endpoints |-> {}]
    /\ UNCHANGED <<row, event, edits, errors, last, misses, auto>>

-----------------------------------------------------------------------------
Attempt(e) == Delivered(e) \/ Retry(e) \/ GiveUp(e)

Worker ==
    \/ TakeJob \/ EndJob
    \/ \E e \in Endpoints : NextTarget(e) \/ Attempt(e)

Next ==
    \/ Worker
    \/ \E name \in Names : Log(name)
    \/ \E e \in Endpoints :
          \/ DispatchTo(e) \/ Delete(e)
          \/ \E enabled \in BOOLEAN, filter \in Filters : Update(e, enabled, filter)
    \/ Restart

(* The worker runs, and every request ends within its timeout.             *)
Spec == Init /\ [][Next]_vars /\ WF_vars(Worker)

-----------------------------------------------------------------------------
(* Correctness.                                                            *)

(* An endpoint never receives an older event after a newer one, however    *)
(* many retries, edits and restarts lie between them.                      *)
InOrder == [][\A e \in Endpoints : last'[e] >= last[e]]_vars

(* An endpoint is disabled on its own only after the attempts of           *)
(* AutoDisableThreshold full deliveries failed since a success was last    *)
(* recorded: "10 consecutive full failures", but for a success that the    *)
(* database could not take.                                                *)
DisabledAfterFullFailures ==
    [][\A e \in Endpoints :
          e \in auto' \ auto => misses'[e] = Tolerated]_vars

(* An event accepted by the queue is delivered or given up in the end,     *)
(* whatever the receivers before it in the queue do.                       *)
EventSettles ==
    \A e \in Endpoints, k \in 1..MaxEvents :
        k \in pending[e] ~> k \notin pending[e]
=============================================================================
