------------------------------- MODULE Alarms -------------------------------
(***************************************************************************)
(* One alarm definition and its instances: the evaluator goroutine that    *)
(* compares the live metrics with the definition's thresholds, the rows it *)
(* keeps in SQLite, the history and notifications it writes on a state     *)
(* change, and the API calls that acknowledge an alarm or change the       *)
(* definition under the evaluator's feet.                                  *)
(***************************************************************************)
EXTENDS Naturals

CONSTANTS
    Res,                \* the resources the definition's scope selects
    Values,             \* what the metric can be
    Rules,              \* conditions, thresholds and durations the API may set
    MaxCount,           \* consecutive_count is not followed further
    MaxErrors,          \* bound on failing statements of the evaluator
    MaxCrashes,         \* bound on restarts of the backend
    NoRow, NoValue, NoRes

State == {"normal", "warning", "critical"}
Row   == [state : State, count : 0..MaxCount, ack : {"none", "user"}]

ASSUME AlarmAssumption ==
    /\ MaxCount \in Nat /\ MaxErrors \in Nat /\ MaxCrashes \in Nat
    /\ Values \subseteq Nat
    /\ Rules \subseteq [condition : {"above", "below"}, warning : Nat,
                       critical : Nat, clear : Nat, duration : 1..MaxCount]
    /\ NoValue \notin Values
    /\ NoRes \notin Res /\ NoRow \notin Row

VARIABLES
    metric,     \* the state store: current value per resource, or NoValue
    defn,       \* the definition's row: on, off, or deleted
    rule,       \* its condition, thresholds and duration_samples
    row,        \* alarm_instances
    history,    \* per resource: new_state of its last alarm_history entry
    pc,         \* the evaluator: idle, pass, read, saved
    snap,       \* the rule as ListDefinitions returned it
    todo,       \* resources this pass has not looked at yet
    cur,        \* the resource being evaluated
    value,      \* the sample it is evaluated with
    seen,       \* the existing record the SELECT returned
    since,      \* violating samples stored since a clear one was (history)
    errors, crashes,
    gap         \* resources for which a crash, a failed read or a failed
                \* INSERT separated row from history

defVars  == <<defn, rule>>
evalVars == <<snap, todo, cur, value, seen>>
counts   == <<errors, crashes>>
vars == <<metric, defn, rule, row, history, pc, snap, todo, cur, value, seen,
          since, errors, crashes, gap>>

(* What evaluateAlarm assumes when its SELECT fails, for whatever reason.  *)
NewRow == [state |-> "normal", count |-> 0, ack |-> "none"]

TypeOK ==
    /\ metric \in [Res -> Values \cup {NoValue}]
    /\ defn \in {"on", "off", "deleted"}
    /\ rule \in Rules
    /\ row \in [Res -> Row \cup {NoRow}]
    /\ history \in [Res -> State]
    /\ pc \in {"idle", "pass", "read", "saved"}
    /\ snap \in Rules
    /\ todo \in SUBSET Res
    /\ cur \in Res \cup {NoRes}
    /\ value \in Values \cup {NoValue}
    /\ seen \in Row
    /\ since \in [Res -> 0..MaxCount]
    /\ errors \in 0..MaxErrors
    /\ crashes \in 0..MaxCrashes
    /\ gap \in SUBSET Res
    /\ defn = "deleted" => \A r \in Res : row[r] = NoRow
    /\ pc \in {"read", "saved"} => cur \in todo

Init ==
    /\ metric = [r \in Res |-> NoValue]
    /\ defn = "on"
    /\ rule \in Rules
    /\ row = [r \in Res |-> NoRow]
    /\ history = [r \in Res |-> "normal"]
    /\ pc = "idle"
    /\ snap = rule
    /\ todo = {}
    /\ cur = NoRes
    /\ value = NoValue
    /\ seen = NewRow
    /\ since = [r \in Res |-> 0]
    /\ errors = 0
    /\ crashes = 0
    /\ gap = {}

-----------------------------------------------------------------------------
(* Thresholds.                                                             *)

isViolation(v, threshold, cond) ==
    IF cond = "below" THEN v < threshold ELSE v > threshold

isClear(v, threshold, cond) ==
    IF cond = "below" THEN v >= threshold ELSE v <= threshold

(* The violation state of a sample; "band" is between clear and warning.   *)
Level(def, v) ==
    CASE isViolation(v, def.critical, def.condition) -> "critical"
      [] /\ ~isViolation(v, def.critical, def.condition)
         /\ isViolation(v, def.warning, def.condition) -> "warning"
      [] /\ ~isViolation(v, def.critical, def.condition)
         /\ ~isViolation(v, def.warning, def.condition)
         /\ isClear(v, def.clear, def.condition) -> "normal"
      [] OTHER -> "band"

Bump(n) == IF n < MaxCount THEN n + 1 ELSE n

(* Mutant: a sample that clears the alarm does not reset the count. *)
Next_row_noReset(old, lvl) ==
    LET count == IF lvl = "normal" THEN old.count ELSE Bump(old.count)
        state == IF lvl = "normal" THEN "normal"
                 ELSE IF count >= snap.duration THEN lvl ELSE old.state
    IN  [state |-> state, count |-> count,
         ack |-> IF state = old.state THEN old.ack ELSE "none"]

(* Mutant: the count restarts whenever the level differs from the state. *)
Next_row_restart(old, lvl) ==
    LET count == IF lvl # old.state THEN 0 ELSE Bump(old.count)
        state == IF lvl = "normal" THEN "normal"
                 ELSE IF count >= snap.duration THEN lvl ELSE old.state
    IN  [state |-> state, count |-> count,
         ack |-> IF state = old.state THEN old.ack ELSE "none"]

(* The instance evaluateAlarm writes, from the existing one and the sample.*)
Next_row(old, lvl) ==
    LET count == IF lvl = "normal" THEN 0 ELSE Bump(old.count)
        state == IF lvl = "normal" THEN "normal"
                 ELSE IF count >= snap.duration THEN lvl ELSE old.state
    IN  [state |-> state, count |-> count,
         ack |-> IF state = old.state THEN old.ack ELSE "none"]

-----------------------------------------------------------------------------
(* The evaluator.                                                          *)

(* evaluate: ListDefinitions, then the enabled definition's resources.     *)
evaluate ==
    /\ pc = "idle"
    /\ defn = "on"
    /\ pc' = "pass"
    /\ snap' = rule
    /\ todo' = Res
    /\ UNCHANGED <<metric, defVars, row, history, cur, value, seen, since,
                   counts, gap>>
EndPass ==
    /\ pc = "pass"
    /\ todo = {}
    /\ pc' = "idle"
    /\ UNCHANGED <<metric, defVars, row, history, evalVars, since,
                   counts, gap>>

(* The resource is gone or has no such metric, or its value is in the      *)
(* hysteresis band: nothing is read or written.                            *)
Skip(r) ==
    /\ pc = "pass"
    /\ r \in todo
    /\ \/ metric[r] = NoValue
       \/ metric[r] # NoValue /\ Level(snap, metric[r]) = "band"
    /\ todo' = todo \ {r}
    /\ UNCHANGED <<metric, defVars, row, history, pc, snap, cur, value, seen,
                   since, counts, gap>>

(* evaluateAlarm up to its SELECT.                                         *)
ReadExisting(r) ==
    /\ pc = "pass"
    /\ r \in todo
    /\ metric[r] # NoValue
    /\ Level(snap, metric[r]) # "band"
    /\ seen' = IF row[r] = NoRow THEN NewRow ELSE row[r]
    /\ pc' = "read"
    /\ cur' = r
    /\ value' = metric[r]
    /\ UNCHANGED <<metric, defVars, row, history, snap, todo, since,
                   counts, gap>>

(* Any error of the SELECT counts as "no existing record".                 *)
ReadError(r) ==
    /\ errors < MaxErrors
    /\ pc = "pass"
    /\ r \in todo
    /\ metric[r] # NoValue
    /\ Level(snap, metric[r]) # "band"
    /\ seen' = NewRow
    /\ pc' = "read"
    /\ cur' = r
    /\ value' = metric[r]
    /\ errors' = errors + 1
    /\ gap' = gap \cup {r}
    /\ UNCHANGED <<metric, defVars, row, history, snap, todo, since,
                   crashes>>

UpsertInstance ==
    /\ pc = "read"
    /\ defn # "deleted"
    /\ row' = [row EXCEPT ![cur] = Next_row(seen, Level(snap, value))]
    /\ IF row'[cur].state # seen.state
       THEN pc' = "saved" /\ UNCHANGED todo
       ELSE pc' = "pass" /\ todo' = todo \ {cur}
    /\ since' = [since EXCEPT ![cur] =
                    IF Level(snap, value) = "normal" THEN 0 ELSE Bump(@)]
    /\ UNCHANGED <<metric, defVars, history, snap, cur, value, seen, counts, gap>>

(* The upsert fails: on the foreign key once the definition is gone, or    *)
(* for any other reason.  The sample is dropped.                           *)
UpsertError ==
    /\ pc = "read"
    /\ \/ defn = "deleted" /\ UNCHANGED errors
       \/ defn # "deleted" /\ errors < MaxErrors /\ errors' = errors + 1
    /\ pc' = "pass"
    /\ todo' = todo \ {cur}
    /\ UNCHANGED <<metric, defVars, row, history, snap, cur, value, seen, since,
                   crashes, gap>>

(* Mutant: only a change away from normal is recorded. *)
RecordHistory_raiseOnly ==
    /\ pc = "saved"
    /\ history' = [history EXCEPT ![cur] = IF seen.state = "normal"
                                           THEN Next_row(seen, Level(snap, value)).state ELSE @]
    /\ pc' = "pass"
    /\ todo' = todo \ {cur}
    /\ gap' = gap \ {cur}
    /\ UNCHANGED <<metric, defVars, row, snap, cur, value, seen, since,
                   counts>>

(* The history entry and the notifications of a state change.              *)
RecordHistory ==
    /\ pc = "saved"
    /\ history' = [history EXCEPT ![cur] = Next_row(seen, Level(snap, value)).state]
    /\ pc' = "pass"
    /\ todo' = todo \ {cur}
    /\ gap' = gap \ {cur}
    /\ UNCHANGED <<metric, defVars, row, snap, cur, value, seen, since,
                   counts>>

(* The error of the INSERT is ignored; the notifications go out.           *)
HistoryError ==
    /\ pc = "saved"
    /\ errors < MaxErrors
    /\ errors' = errors + 1
    /\ gap' = gap \cup {cur}
    /\ pc' = "pass"
    /\ todo' = todo \ {cur}
    /\ UNCHANGED <<metric, defVars, row, history, snap, cur, value, seen, since,
                   crashes>>

(* The backend dies and comes back: only the database survives.            *)
Crash ==
    /\ crashes < MaxCrashes
    /\ pc # "idle"
    /\ crashes' = crashes + 1
    /\ gap' = IF pc = "saved" THEN gap \cup {cur} ELSE gap
    /\ pc' = "idle"
    /\ todo' = {}
    /\ UNCHANGED <<metric, defVars, row, history, snap, cur, value, seen, since,
                   errors>>
-----------------------------------------------------------------------------
(* The API and the world.                                                  *)

AcknowledgeAlarm(r) ==
    /\ row[r] # NoRow
    /\ row' = [row EXCEPT ![r].ack = "user"]
    /\ UNCHANGED <<metric, defVars, history, pc, evalVars, since, counts,
                   gap>>

(* Another scope or another kind of metric is, for the resource, the same  *)
(* as MetricChange.                                                        *)
UpdateDefinition(enabled, new) ==
    /\ defn # "deleted"
    /\ defn' = enabled
    /\ rule' = new
    /\ UNCHANGED <<metric, row, history, pc, evalVars, since, counts, gap>>

(* ON DELETE CASCADE takes the instances along.                            *)
DeleteDefinition ==
    /\ defn # "deleted"
    /\ defn' = "deleted"
    /\ row' = [r \in Res |-> NoRow]
    /\ UNCHANGED <<metric, rule, history, pc, evalVars, since, counts, gap>>

(* The pollers publish a new value, or the resource stops or disappears.   *)
MetricChange(r) ==
    /\ metric' \in {[metric EXCEPT ![r] = v] : v \in Values \cup {NoValue}}
    /\ UNCHANGED <<defVars, row, history, pc, evalVars, since, counts, gap>>

-----------------------------------------------------------------------------
Evaluator ==
    \/ evaluate \/ EndPass
    \/ \E r \in Res : Skip(r) \/ ReadExisting(r) \/ ReadError(r)
    \/ UpsertInstance \/ UpsertError \/ RecordHistory \/ HistoryError

Next ==
    \/ Evaluator
    \/ \E r \in Res : AcknowledgeAlarm(r) \/ MetricChange(r)
    \/ Crash
    \/ \E enabled \in {"on", "off"}, new \in Rules : UpdateDefinition(enabled, new)
    \/ DeleteDefinition

(* The ticker keeps the evaluator going.                                   *)
Spec == Init /\ [][Next]_vars /\ WF_vars(Evaluator)

-----------------------------------------------------------------------------
(* Correctness.                                                            *)

StateOf(r) == IF row[r] = NoRow THEN "normal" ELSE row[r].state

(* An alarm is raised, or changes level, only after DurationSamples        *)
(* violating samples were stored since a clear one was, also when the      *)
(* definition is edited, statements fail or the backend restarts in        *)
(* between.                                                                *)
RaisedAfterDuration ==
    [][\A r \in Res :
          row'[r] # NoRow /\ row'[r].state \notin {StateOf(r), "normal"}
          => since'[r] >= snap.duration]_vars

(* The history ends with the state the instance is in, except while the    *)
(* evaluator is between the two writes or died there, after the INSERT of  *)
(* a history entry has failed, or after it took an instance it could not   *)
(* read for a new one; the next entry ends the exception.                  *)
HistoryMatches ==
    \A r \in Res \ gap :
        row[r] # NoRow /\ ~(pc = "saved" /\ cur = r) => history[r] = row[r].state

(* A metric that stays critical under an enabled definition that is no     *)
(* longer edited ends in a critical alarm, whatever its history.           *)
CriticalIsRaised ==
    \A r \in Res, l \in Rules :
        <>[](/\ defn = "on" /\ rule = l
             /\ metric[r] # NoValue /\ Level(l, metric[r]) = "critical")
        => <>[](StateOf(r) = "critical")
=============================================================================
