---------------------------- MODULE AlarmsProofs ----------------------------
(***************************************************************************)
(* Proofs about the alarm evaluator, for any thresholds, metric values and *)
(* durations, any number of resources, failing statements and restarts.    *)
(***************************************************************************)
EXTENDS Alarms, TLAPS

(* The sample being evaluated is one the evaluator does not skip.          *)
SampleOK == pc \in {"read", "saved"} => value \in Values /\ Level(snap, value) # "band"

TypeInv == TypeOK /\ SampleOK

(* Between its SELECT and its upsert the evaluator holds the instance as   *)
(* it is, or a new one where the SELECT has failed: in a gap.              *)
ReadOK ==
    pc = "read" /\ defn # "deleted" =>
        \/ seen.state = StateOf(cur)
        \/ seen.state = "normal" /\ cur \in gap

(* Between the upsert and the history entry the row is what will be        *)
(* recorded.                                                               *)
SavedOK ==
    pc = "saved" /\ defn # "deleted" =>
        row[cur] # NoRow /\ row[cur].state = Next_row(seen, Level(snap, value)).state

(* HistoryMatches, also for a resource without an instance: only deleting  *)
(* the definition leaves a history that ends otherwise than normal.        *)
HistoryOK ==
    \A r \in Res \ gap :
        defn # "deleted" /\ ~(pc = "saved" /\ cur = r) => history[r] = StateOf(r)

(* No count exceeds the violating samples stored since a clear one was, in *)
(* the row or in the copy the evaluator holds.                             *)
CountOK ==
    /\ \A r \in Res : row[r] # NoRow => row[r].count <= since[r]
    /\ pc = "read" => seen.count <= since[cur]

-----------------------------------------------------------------------------
(* A sample that is neither clear nor in the band violates a threshold.    *)
LEMMA LevelType ==
    ASSUME NEW def, NEW v PROVE Level(def, v) \in {"critical", "warning", "normal", "band"}
  BY DEF Level

(* consecutive_count goes up by one or stays at its cap: a larger count    *)
(* stays the larger one.                                                   *)
LEMMA BumpOK ==
    ASSUME NEW m \in 0..MaxCount, NEW n \in 0..MaxCount
    PROVE  /\ Bump(n) \in 0..MaxCount
           /\ m <= n => Bump(m) <= Bump(n)
  BY AlarmAssumption DEF Bump

(* What evaluateAlarm writes is an instance; its count is reset by a clear *)
(* sample and goes up otherwise; and a state other than normal and other   *)
(* than the old one takes as many samples as the definition asks for.      *)
LEMMA NextRowOK ==
    ASSUME NEW old \in Row, NEW lvl \in State, snap.duration \in Nat
    PROVE  LET new == Next_row(old, lvl) IN
           /\ new \in Row
           /\ new.count = IF lvl = "normal" THEN 0 ELSE Bump(old.count)
           /\ new.state \notin {old.state, "normal"}
                 => lvl # "normal" /\ Bump(old.count) >= snap.duration
<1>1. old.count \in 0..MaxCount /\ old.state \in State /\ old.ack \in {"none", "user"}
  BY DEF Row
<1>2. Bump(old.count) \in 0..MaxCount /\ 0 \in 0..MaxCount
  <2>1. 0 \in 0..MaxCount
    BY AlarmAssumption
  <2>2. QED
    BY <1>1, <2>1, BumpOK
<1> DEFINE count == IF lvl = "normal" THEN 0 ELSE Bump(old.count)
           state == IF lvl = "normal" THEN "normal"
                    ELSE IF count >= snap.duration THEN lvl ELSE old.state
           ack == IF state = old.state THEN old.ack ELSE "none"
<1>3. count \in 0..MaxCount /\ state \in State /\ ack \in {"none", "user"}
  BY <1>1, <1>2 DEF State
<1>4. state \notin {old.state, "normal"} => lvl # "normal" /\ Bump(old.count) >= snap.duration
  OBVIOUS
<1>5. Next_row(old, lvl) = [state |-> state, count |-> count, ack |-> ack]
  BY DEF Next_row
<1>6. count = IF lvl = "normal" THEN 0 ELSE Bump(old.count)
  OBVIOUS
<1> HIDE DEF count, state, ack
<1>7. Next_row(old, lvl).count = count /\ Next_row(old, lvl).state = state
  BY <1>5
<1>8. Next_row(old, lvl) \in Row
  BY <1>3, <1>5 DEF Row
<1>9. QED
  BY <1>4, <1>6, <1>7, <1>8

(* What the evaluator looks at is a row: the existing one, or a new one.   *)
LEMMA NewRowType == NewRow \in Row
  BY AlarmAssumption DEF NewRow, Row, State

(* TypeInv is inductive.                                                   *)
LEMMA TypeStep == TypeInv /\ [Next]_vars => TypeInv'
<1> SUFFICES ASSUME TypeInv, [Next]_vars PROVE TypeInv'
  OBVIOUS
<1> USE AlarmAssumption DEF defVars, evalVars, counts
<1>t. TypeOK /\ SampleOK
  BY DEF TypeInv
<1>1. CASE evaluate
  BY <1>1, <1>t DEF evaluate, TypeInv, TypeOK, SampleOK
<1>2. CASE EndPass
  BY <1>2, <1>t DEF EndPass, TypeInv, TypeOK, SampleOK
<1>3. ASSUME NEW r \in Res, Skip(r) PROVE TypeInv'
  BY <1>3, <1>t DEF Skip, TypeInv, TypeOK, SampleOK
<1>4. ASSUME NEW r \in Res, ReadExisting(r) \/ ReadError(r) PROVE TypeInv'
  <2>1. /\ pc' = "read" /\ cur' = r /\ value' = metric[r] /\ r \in todo /\ todo' = todo
        /\ metric[r] # NoValue /\ Level(snap, metric[r]) # "band"
        /\ seen' \in Row /\ errors' \in 0..MaxErrors /\ gap' \in SUBSET Res
        /\ UNCHANGED <<metric, defVars, row, history, snap, since, crashes>>
    BY <1>4, <1>t, NewRowType DEF ReadExisting, ReadError, TypeOK
  <2>2. SampleOK'
    BY <2>1, <1>t DEF SampleOK, TypeOK
  <2>3. TypeOK'
    BY <2>1, <1>t DEF TypeOK
  <2>4. QED
    BY <2>2, <2>3 DEF TypeInv
<1>5. CASE UpsertInstance
  <2>1. Level(snap, value) \in State /\ cur \in Res /\ snap.duration \in Nat /\ seen \in Row
    BY <1>5, <1>t, LevelType DEF UpsertInstance, SampleOK, TypeOK, State
  <2>2. Next_row(seen, Level(snap, value)) \in Row
    BY <2>1, NextRowOK
  <2>3. row' \in [Res -> Row \cup {NoRow}] /\ defn # "deleted"
    BY <1>5, <2>1, <2>2, <1>t DEF UpsertInstance, TypeOK
  <2>4. since' \in [Res -> 0..MaxCount]
    BY <1>5, <2>1, <1>t, BumpOK DEF UpsertInstance, TypeOK
  <2>5. /\ pc' \in {"pass", "saved"} /\ todo' \in SUBSET Res
        /\ pc' = "saved" => todo' = todo
        /\ UNCHANGED <<metric, defVars, history, snap, cur, value, seen, counts, gap>>
    BY <1>5, <1>t DEF UpsertInstance, TypeOK
  <2>6. pc = "read"
    BY <1>5 DEF UpsertInstance
  <2>7. SampleOK'
    BY <2>5, <2>6, <1>t DEF SampleOK
  <2>8. TypeOK'
    BY <2>3, <2>4, <2>5, <2>6, <1>t DEF TypeOK
  <2>9. QED
    BY <2>7, <2>8 DEF TypeInv
<1>6. CASE RecordHistory
  <2>1. Level(snap, value) \in State /\ snap.duration \in Nat /\ seen \in Row
    BY <1>6, <1>t, LevelType DEF RecordHistory, SampleOK, TypeOK, State
  <2>2. Next_row(seen, Level(snap, value)).state \in State
    BY <2>1, NextRowOK DEF Row
  <2>3. history' \in [Res -> State]
    BY <1>6, <2>2, <1>t DEF RecordHistory, TypeOK
  <2>4. QED
    BY <1>6, <2>3, <1>t DEF RecordHistory, TypeInv, TypeOK, SampleOK
<1>7. CASE UpsertError \/ HistoryError \/ Crash
  BY <1>7, <1>t DEF UpsertError, HistoryError, Crash, TypeInv, TypeOK, SampleOK
<1>8. ASSUME NEW r \in Res, AcknowledgeAlarm(r) PROVE TypeInv'
  <2>1. row[r] \in Row /\ [row[r] EXCEPT !.ack = "user"] \in Row
    BY <1>8, <1>t DEF AcknowledgeAlarm, TypeOK, Row
  <2>2. row' = [row EXCEPT ![r] = [row[r] EXCEPT !.ack = "user"]] /\ row[r] # NoRow
    BY <1>8 DEF AcknowledgeAlarm
  <2>3. row' \in [Res -> Row \cup {NoRow}] /\ defn # "deleted"
    BY <2>1, <2>2, <1>t DEF TypeOK
  <2>4. QED
    BY <1>8, <2>3, <1>t DEF AcknowledgeAlarm, TypeInv, TypeOK, SampleOK
<1>9. ASSUME NEW enabled \in {"on", "off"}, NEW new \in Rules, UpdateDefinition(enabled, new)
      PROVE  TypeInv'
  BY <1>9, <1>t DEF UpdateDefinition, TypeInv, TypeOK, SampleOK
<1>10. CASE DeleteDefinition
  BY <1>10, <1>t DEF DeleteDefinition, TypeInv, TypeOK, SampleOK
<1>11. ASSUME NEW r \in Res, MetricChange(r) PROVE TypeInv'
  BY <1>11, <1>t DEF MetricChange, TypeInv, TypeOK, SampleOK
<1>12. CASE UNCHANGED vars
  BY <1>12, <1>t DEF vars, TypeInv, TypeOK, SampleOK
<1>13. QED
  BY <1>1, <1>2, <1>3, <1>4, <1>5, <1>6, <1>7, <1>8, <1>9, <1>10, <1>11, <1>12
  DEF Next, Evaluator

(* The evaluator, the database rows and the definition keep their types.   *)
LEMMA TypeInvariant == Spec => []TypeInv
<1>1. Init => TypeInv
  BY AlarmAssumption, NewRowType DEF Init, TypeInv, TypeOK, SampleOK, State
<1>2. QED
  BY <1>1, TypeStep, PTL DEF Spec

-----------------------------------------------------------------------------
(* History and counts are kept by every step of the evaluator, by failed   *)
(* reads, by restarts and by the API calls between them.                   *)
LEMMA HistoryStep ==
    TypeInv /\ ReadOK /\ SavedOK /\ HistoryOK /\ [Next]_vars
       => ReadOK' /\ SavedOK' /\ HistoryOK'
<1> SUFFICES ASSUME TypeInv, ReadOK, SavedOK, HistoryOK, [Next]_vars
             PROVE  ReadOK' /\ SavedOK' /\ HistoryOK'
  OBVIOUS
<1> USE AlarmAssumption DEF defVars, evalVars, counts
<1>t. TypeOK /\ SampleOK
  BY DEF TypeInv
<1>s. ASSUME UNCHANGED <<row, history, defn, gap>>, pc \notin {"read", "saved"},
             pc' \notin {"read", "saved"}
      PROVE  ReadOK' /\ SavedOK' /\ HistoryOK'
  BY <1>s DEF ReadOK, SavedOK, HistoryOK, StateOf
<1>1. CASE evaluate \/ EndPass
  BY <1>1, <1>s DEF evaluate, EndPass
<1>2. ASSUME NEW r \in Res, Skip(r) PROVE ReadOK' /\ SavedOK' /\ HistoryOK'
  BY <1>2, <1>s DEF Skip
<1>3. ASSUME NEW r \in Res, ReadExisting(r) \/ ReadError(r)
      PROVE  ReadOK' /\ SavedOK' /\ HistoryOK'
  <2>1. /\ pc = "pass" /\ pc' = "read" /\ cur' = r /\ UNCHANGED <<row, history, defn>>
        /\ gap \subseteq gap'
        /\ \/ seen' = IF row[r] = NoRow THEN NewRow ELSE row[r]
           \/ seen' = NewRow /\ r \in gap'
    BY <1>3 DEF ReadExisting, ReadError
  <2>2. ReadOK'
    <3>1. seen' = NewRow /\ r \in gap' => seen'.state = "normal"
      BY DEF NewRow
    <3>2. seen' = (IF row[r] = NoRow THEN NewRow ELSE row[r])
             => seen'.state = IF row'[r] = NoRow THEN "normal" ELSE row'[r].state
      BY <2>1 DEF NewRow
    <3>3. QED
      BY <2>1, <3>1, <3>2 DEF ReadOK, StateOf
  <2>3. HistoryOK'
    BY <2>1 DEF HistoryOK, StateOf
  <2>4. QED
    BY <2>1, <2>2, <2>3 DEF SavedOK
<1>4. CASE UpsertInstance
  <2> DEFINE new == Next_row(seen, Level(snap, value))
  <2>1. /\ pc = "read" /\ cur \in Res /\ UNCHANGED <<defn, history, cur, gap, seen, value, snap>>
        /\ pc' \in {"pass", "saved"}
    BY <1>4, <1>t DEF UpsertInstance, TypeOK
  <2>2. new # NoRow
    <3>1. Level(snap, value) \in State /\ snap.duration \in Nat /\ seen \in Row
      BY <2>1, <1>t, LevelType DEF SampleOK, TypeOK, State
    <3>2. new \in Row
      BY <3>1, NextRowOK
    <3>3. QED
      BY <3>2
  <2>3. /\ row' = [row EXCEPT ![cur] = new] /\ row'[cur] = new /\ defn # "deleted"
        /\ pc' = IF new.state # seen.state THEN "saved" ELSE "pass"
    BY <1>4, <2>1, <1>t DEF UpsertInstance, TypeOK
  <2>4. new' = new
    BY <2>1 DEF Next_row, Level, Bump
  <2> HIDE DEF new
  <2>5. SavedOK'
    BY <2>1, <2>2, <2>3, <2>4 DEF SavedOK, new
  <2>6. \A r \in Res : r # cur => StateOf(r)' = StateOf(r)
    BY <2>3, <1>t DEF StateOf, TypeOK
  <2>7. pc' # "saved" => StateOf(cur)' = seen.state
    BY <2>1, <2>2, <2>3 DEF StateOf
  <2>8. cur \notin gap => history[cur] = StateOf(cur) /\ seen.state = StateOf(cur)
    BY <2>1, <2>3 DEF HistoryOK, ReadOK
  <2>9. HistoryOK'
    BY <2>1, <2>3, <2>6, <2>7, <2>8 DEF HistoryOK
  <2>10. QED
    BY <2>1, <2>5, <2>9 DEF ReadOK
<1>5. CASE RecordHistory
  <2>1. /\ pc = "saved" /\ pc' = "pass" /\ UNCHANGED <<defn, row>> /\ gap' = gap \ {cur}
        /\ history' = [history EXCEPT ![cur] = Next_row(seen, Level(snap, value)).state]
    BY <1>5 DEF RecordHistory
  <2>2. defn # "deleted" => history'[cur] = StateOf(cur)
    BY <2>1, <1>t DEF SavedOK, StateOf, TypeOK
  <2>3. \A r \in Res : r # cur => history'[r] = history[r]
    BY <2>1, <1>t DEF TypeOK
  <2>4. HistoryOK'
    BY <2>1, <2>2, <2>3 DEF HistoryOK, StateOf
  <2>5. QED
    BY <2>1, <2>4 DEF ReadOK, SavedOK
<1>6. CASE UpsertError \/ HistoryError \/ Crash
  BY <1>6, <1>t DEF UpsertError, HistoryError, Crash, ReadOK, SavedOK, HistoryOK, StateOf
<1>7. ASSUME NEW r \in Res, AcknowledgeAlarm(r) PROVE ReadOK' /\ SavedOK' /\ HistoryOK'
  <2>1. /\ row[r] \in Row /\ row[r] # NoRow /\ UNCHANGED <<defn, history, pc, cur, gap, seen, value, snap>>
        /\ row' = [row EXCEPT ![r] = [row[r] EXCEPT !.ack = "user"]]
    BY <1>7, <1>t DEF AcknowledgeAlarm, TypeOK
  <2>2. [row[r] EXCEPT !.ack = "user"] \in Row
    BY <2>1 DEF Row
  <2>3. row'[r] # NoRow /\ row'[r].state = row[r].state
    <3>1. [row[r] EXCEPT !.ack = "user"].state = row[r].state
      BY <2>1 DEF Row
    <3>2. row'[r] = [row[r] EXCEPT !.ack = "user"]
      BY <2>1, <1>t DEF TypeOK
    <3>3. QED
      BY <2>2, <3>1, <3>2
  <2>4. \A q \in Res : StateOf(q)' = StateOf(q) /\ (row'[q] = NoRow <=> row[q] = NoRow)
    BY <2>1, <2>3, <1>t DEF StateOf, TypeOK
  <2>5. cur \in Res /\ row[cur] # NoRow => row'[cur].state = row[cur].state
    BY <2>4 DEF StateOf
  <2>6. Next_row(seen, Level(snap, value))' = Next_row(seen, Level(snap, value))
    BY <2>1 DEF Next_row, Level, Bump
  <2>7. pc \in {"read", "saved"} => cur \in Res
    BY <1>t DEF TypeOK
  <2>8. QED
    BY <2>1, <2>4, <2>5, <2>6, <2>7 DEF ReadOK, SavedOK, HistoryOK
<1>8. ASSUME NEW enabled \in {"on", "off"}, NEW new \in Rules, UpdateDefinition(enabled, new)
      PROVE  ReadOK' /\ SavedOK' /\ HistoryOK'
  <2>1. /\ defn # "deleted" /\ UNCHANGED <<row, history, pc, cur, gap, seen, value, snap>>
    BY <1>8 DEF UpdateDefinition
  <2>2. Next_row(seen, Level(snap, value))' = Next_row(seen, Level(snap, value))
    BY <2>1 DEF Next_row, Level, Bump
  <2>3. QED
    BY <2>1, <2>2 DEF ReadOK, SavedOK, HistoryOK, StateOf
<1>9. CASE DeleteDefinition
  BY <1>9 DEF DeleteDefinition, ReadOK, SavedOK, HistoryOK
<1>10. ASSUME UNCHANGED <<row, history, defn, pc, cur, gap, seen, value, snap>>
       PROVE  ReadOK' /\ SavedOK' /\ HistoryOK'
  <2>1. Next_row(seen, Level(snap, value))' = Next_row(seen, Level(snap, value))
    BY <1>10 DEF Next_row, Level, Bump
  <2>2. QED
    BY <1>10, <2>1 DEF ReadOK, SavedOK, HistoryOK, StateOf
<1>11. ASSUME NEW r \in Res, MetricChange(r) PROVE ReadOK' /\ SavedOK' /\ HistoryOK'
  BY <1>10, <1>11 DEF MetricChange
<1>12. CASE UNCHANGED vars
  BY <1>10, <1>12 DEF vars
<1>13. QED
  BY <1>1, <1>2, <1>3, <1>4, <1>5, <1>6, <1>7, <1>8, <1>9, <1>11, <1>12
  DEF Next, Evaluator

(* alarm_history ends with the state alarm_instances has, except while the *)
(* evaluator is between its two writes or died there, after the INSERT of  *)
(* an entry has failed, or after it took an instance it could not read for *)
(* a new one.                                                              *)
THEOREM HistoryCorrect == Spec => []HistoryMatches
<1>1. Init => ReadOK /\ SavedOK /\ HistoryOK
  BY DEF Init, ReadOK, SavedOK, HistoryOK, StateOf
<1>2. TypeInv /\ HistoryOK => HistoryMatches
  BY DEF TypeInv, TypeOK, HistoryOK, HistoryMatches, StateOf
<1>3. QED
  BY <1>1, <1>2, HistoryStep, TypeInvariant, PTL DEF Spec

-----------------------------------------------------------------------------
(* What the upsert does, for the proofs about counts: the new row, and the *)
(* samples counted.                                                        *)
LEMMA Upsert ==
    ASSUME TypeInv, UpsertInstance
    PROVE  LET new == Next_row(seen, Level(snap, value)) IN
           /\ pc = "read" /\ cur \in Res /\ seen \in Row /\ snap.duration \in Nat
           /\ new \in Row /\ new # NoRow
           /\ row' = [row EXCEPT ![cur] = new]
           /\ new.count = IF Level(snap, value) = "normal" THEN 0 ELSE Bump(seen.count)
           /\ new.state \notin {seen.state, "normal"}
                 => Level(snap, value) # "normal" /\ Bump(seen.count) >= snap.duration
           /\ since' = [since EXCEPT ![cur] =
                          IF Level(snap, value) = "normal" THEN 0 ELSE Bump(since[cur])]
<1>t. TypeOK /\ SampleOK /\ pc = "read"
  BY DEF TypeInv, UpsertInstance
<1>1. Level(snap, value) \in State /\ snap.duration \in Nat /\ seen \in Row /\ cur \in Res
  BY <1>t, LevelType, AlarmAssumption DEF SampleOK, TypeOK, State
<1> DEFINE new == Next_row(seen, Level(snap, value))
<1>2. /\ new \in Row
      /\ new.count = IF Level(snap, value) = "normal" THEN 0 ELSE Bump(seen.count)
      /\ new.state \notin {seen.state, "normal"}
            => Level(snap, value) # "normal" /\ Bump(seen.count) >= snap.duration
  BY <1>1, NextRowOK
<1>3. /\ row' = [row EXCEPT ![cur] = new]
      /\ since' = [since EXCEPT ![cur] =
                     IF Level(snap, value) = "normal" THEN 0 ELSE Bump(since[cur])]
  BY <1>t DEF UpsertInstance, TypeOK
<1> HIDE DEF new
<1>4. QED
  BY <1>t, <1>1, <1>2, <1>3, AlarmAssumption DEF new

(* No step makes a count larger than the number of violating samples.      *)
LEMMA CountStep == TypeInv /\ CountOK /\ [Next]_vars => CountOK'
<1> SUFFICES ASSUME TypeInv, CountOK, [Next]_vars PROVE CountOK'
  OBVIOUS
<1> USE AlarmAssumption DEF defVars, evalVars, counts
<1>t. TypeOK
  BY DEF TypeInv
<1>1. CASE UNCHANGED <<row, since>> /\ (pc' = "read" => UNCHANGED <<pc, seen, cur>>)
  BY <1>1 DEF CountOK
<1>2. ASSUME NEW r \in Res, ReadExisting(r) \/ ReadError(r) PROVE CountOK'
  <2>1. /\ UNCHANGED <<row, since>> /\ cur' = r /\ since[r] \in Nat
        /\ \/ seen' = NewRow
           \/ row[r] # NoRow /\ seen' = row[r]
    BY <1>2, <1>t DEF ReadExisting, ReadError, TypeOK
  <2>2. NewRow.count = 0
    BY DEF NewRow
  <2>3. QED
    BY <2>1, <2>2 DEF CountOK
<1>3. CASE UpsertInstance
  <2> DEFINE new == Next_row(seen, Level(snap, value))
  <2>1. /\ pc = "read" /\ cur \in Res /\ seen \in Row
        /\ row' = [row EXCEPT ![cur] = new]
        /\ new.count = IF Level(snap, value) = "normal" THEN 0 ELSE Bump(seen.count)
        /\ since' = [since EXCEPT ![cur] =
                       IF Level(snap, value) = "normal" THEN 0 ELSE Bump(since[cur])]
    BY <1>3, Upsert
  <2>2. /\ seen.count \in 0..MaxCount /\ since[cur] \in 0..MaxCount
        /\ seen.count <= since[cur]
    BY <2>1, <1>t DEF CountOK, TypeOK, Row
  <2>3. Bump(seen.count) <= Bump(since[cur])
    BY <2>2, BumpOK
  <2>4. pc' # "read"
    BY <1>3 DEF UpsertInstance
  <2> HIDE DEF new
  <2>5. new.count <= since'[cur]
    BY <2>1, <2>3, <1>t DEF TypeOK
  <2>6. \A r \in Res : r # cur => since'[r] = since[r]
    BY <2>1, <1>t DEF TypeOK
  <2>7. row'[cur] = new /\ \A r \in Res : r # cur => row'[r] = row[r]
    BY <2>1, <1>t DEF TypeOK
  <2>8. QED
    BY <2>4, <2>5, <2>6, <2>7 DEF CountOK
<1>4. ASSUME NEW r \in Res, AcknowledgeAlarm(r) PROVE CountOK'
  <2>1. /\ UNCHANGED <<since, pc, seen, cur>> /\ row[r] \in Row
        /\ row' = [row EXCEPT ![r] = [row[r] EXCEPT !.ack = "user"]] /\ row[r] # NoRow
    BY <1>4, <1>t DEF AcknowledgeAlarm, TypeOK
  <2>2. [row[r] EXCEPT !.ack = "user"].count = row[r].count
    BY <2>1 DEF Row
  <2>3. /\ row'[r] = [row[r] EXCEPT !.ack = "user"]
        /\ \A q \in Res : q # r => row'[q] = row[q]
    BY <2>1, <1>t DEF TypeOK
  <2>4. QED
    BY <2>1, <2>2, <2>3 DEF CountOK
<1>5. CASE DeleteDefinition
  BY <1>5 DEF DeleteDefinition, CountOK
<1>6. QED
  BY <1>1, <1>2, <1>3, <1>4, <1>5
  DEF Next, Evaluator, evaluate, EndPass, Skip, UpsertError, RecordHistory, HistoryError,
      Crash, MetricChange, UpdateDefinition, vars

(* An instance takes another state than normal only in the upsert of a     *)
(* violating sample, once the count has reached the duration the           *)
(* definition had when the pass began.                                     *)
LEMMA RaiseStep ==
    ASSUME TypeInv, ReadOK, CountOK, [Next]_vars, NEW r \in Res,
           row'[r] # NoRow, row'[r].state \notin {StateOf(r), "normal"}
    PROVE  since'[r] >= snap.duration
<1> USE AlarmAssumption DEF defVars, evalVars, counts
<1>t. TypeOK
  BY DEF TypeInv
<1>1. CASE UNCHANGED row
  BY <1>1 DEF StateOf
<1>2. CASE UpsertInstance
  <2> DEFINE new == Next_row(seen, Level(snap, value))
  <2>1. /\ pc = "read" /\ cur \in Res /\ seen \in Row /\ snap.duration \in Nat
        /\ row' = [row EXCEPT ![cur] = new]
        /\ new.state \notin {seen.state, "normal"}
              => Level(snap, value) # "normal" /\ Bump(seen.count) >= snap.duration
        /\ since' = [since EXCEPT ![cur] =
                       IF Level(snap, value) = "normal" THEN 0 ELSE Bump(since[cur])]
    BY <1>2, Upsert
  <2> HIDE DEF new
  <2>2. r = cur
    BY <2>1, <1>t DEF TypeOK, StateOf
  <2>3. row'[r] = new
    BY <2>1, <2>2, <1>t DEF TypeOK
  <2>4. new.state \notin {seen.state, "normal"}
    BY <1>2, <2>1, <2>2, <2>3 DEF ReadOK, UpsertInstance
  <2>5. /\ seen.count \in 0..MaxCount /\ since[cur] \in 0..MaxCount
        /\ seen.count <= since[cur]
    BY <2>1, <1>t DEF CountOK, TypeOK, Row
  <2>6. Bump(seen.count) <= Bump(since[cur]) /\ Bump(seen.count) \in Nat
        /\ Bump(since[cur]) \in Nat
    BY <2>5, BumpOK
  <2>7. since'[cur] = Bump(since[cur])
    BY <2>1, <2>4, <1>t DEF TypeOK
  <2>8. QED
    BY <2>1, <2>2, <2>4, <2>6, <2>7
<1>3. ASSUME NEW q \in Res, AcknowledgeAlarm(q) PROVE FALSE
  <2>1. /\ row[q] \in Row /\ row[q] # NoRow
        /\ row' = [row EXCEPT ![q] = [row[q] EXCEPT !.ack = "user"]]
    BY <1>3, <1>t DEF AcknowledgeAlarm, TypeOK
  <2>2. [row[q] EXCEPT !.ack = "user"].state = row[q].state
    BY <2>1 DEF Row
  <2>3. row'[q].state = StateOf(q) /\ (r # q => row'[r] = row[r])
    BY <2>1, <2>2, <1>t DEF TypeOK, StateOf
  <2>4. QED
    BY <2>3 DEF StateOf
<1>4. CASE DeleteDefinition
  BY <1>4 DEF DeleteDefinition
<1>5. QED
  BY <1>1, <1>2, <1>3, <1>4
  DEF Next, Evaluator, evaluate, EndPass, Skip, ReadExisting, ReadError, UpsertError,
      RecordHistory, HistoryError, Crash, MetricChange, UpdateDefinition, vars

(* An alarm is raised, or changes its level, only after duration_samples   *)
(* violating samples were stored since a clear one was, whatever the API   *)
(* changes, the database fails to read or write or a restart forgets.      *)
THEOREM RaisedCorrect == Spec => RaisedAfterDuration
<1> DEFINE Raised == \A r \in Res :
                        row'[r] # NoRow /\ row'[r].state \notin {StateOf(r), "normal"}
                        => since'[r] >= snap.duration
<1>1. Init => ReadOK /\ SavedOK /\ HistoryOK /\ CountOK
  BY AlarmAssumption DEF Init, ReadOK, SavedOK, HistoryOK, CountOK, StateOf
<1>2. TypeInv /\ ReadOK /\ CountOK /\ [Next]_vars => [Raised]_vars
  BY RaiseStep
<1>3. Spec => [][Raised]_vars
  BY <1>1, <1>2, HistoryStep, CountStep, TypeInvariant, PTL DEF Spec
<1>4. QED
  BY <1>3 DEF RaisedAfterDuration
=============================================================================
