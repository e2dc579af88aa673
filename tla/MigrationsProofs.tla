-------------------------- MODULE MigrationsProofs --------------------------
(***************************************************************************)
(* Proofs about the table of running migrations and disk moves, for any    *)
(* set of tasks, any number of phases and any number of failing queries.   *)
(***************************************************************************)
EXTENDS Migrations, TLAPS

(* An answer about a task that has ended stays true while the checker that *)
(* asked holds it: an ended task is final.                                 *)
AnswerOK(cur, ans) ==
    cur # NoTask /\ ans.status \in {"ok", "error"} => task[cur] = ans.status

(* What a checker still has to look at it has a copy of, and the task it   *)
(* asks about is one of those.                                             *)
WorkOK(todo, copy, cur) ==
    /\ cur # NoTask => cur \in todo
    /\ \A u \in todo : copy[u] \in Entry \ {NoEntry}

(* A table shows 100 and "completed" for a task that ended OK only.        *)
TruthOK(table) ==
    \A u \in Tasks : table[u] # NoEntry =>
        /\ table[u].status = "completed" => task[u] = "ok"
        /\ table[u].progress = Full => table[u].status = "completed"

(* The inductive invariant.  The copies are in it because the poller       *)
(* writes the progress of its copy back into the table.                    *)
TypeInv ==
    /\ TypeOK
    /\ AnswerOK(monCur, monAns) /\ AnswerOK(polCur, polAns)
    /\ WorkOK(monTodo, monCopy, monCur) /\ WorkOK(polTodo, polCopy, polCur)
    /\ monTodo # {} => pass \in {"migrations", "diskMoves"}
    /\ TruthOK(entry) /\ TruthOK(polCopy)

(* Once an outcome is logged, nothing that would make the monitor ask      *)
(* about the task again is left: neither the table nor its copy shows it   *)
(* as running, and it is not the one being asked about.                    *)
LogOK ==
    \A u \in Tasks : logged[u] > 0 =>
        /\ logged[u] = 1
        /\ task[u] \in {"ok", "error"}
        /\ Tracked(u) => entry[u].status # "running"
        /\ u \in monTodo => monCopy[u].status # "running"
        /\ monCur # u

-----------------------------------------------------------------------------
(* UpdateMigration and UpdateDiskMove keep the table well formed when what *)
(* they write is, and touch no other entry.                                *)
LEMMA UpdateOK ==
    ASSUME entry \in [Tasks -> Entry \cup {NoEntry}], TruthOK(entry),
           NEW u \in Tasks, NEW p \in 0..Full,
           NEW s \in {"running", "completed", "failed"}, Update(u, p, s),
           s = "completed" => task[u] = "ok", p = Full => s = "completed",
           UNCHANGED task
    PROVE  /\ entry' \in [Tasks -> Entry \cup {NoEntry}]
           /\ TruthOK(entry)'
           /\ \A v \in Tasks : v # u => entry'[v] = entry[v]
           /\ entry'[u] # NoEntry => entry'[u].status = s
<1>1. [status |-> s, progress |-> p] \in Entry
  BY DEF Entry
<1>2. CASE Tracked(u)
  BY <1>1, <1>2 DEF Update, TruthOK
<1>3. CASE ~Tracked(u)
  BY <1>3 DEF Update, TruthOK, Tracked
<1>4. QED
  BY <1>2, <1>3

(* What a query answers: the truth about a task that has ended.            *)
LEMMA SaysOK ==
    ASSUME TypeOK, NEW u \in Tasks, NEW ans \in Answers, Says(u, ans)
    PROVE  /\ ans \in Answer
           /\ ans.status \in {"ok", "error"} => task[u] = ans.status
           /\ errs' \in 0..MaxErrors
<1>1. PICK s \in {"running", "ok", "error", "err"}, p \in 0..MaxPhase :
         ans = [status |-> s, progress |-> p]
  BY DEF Answers
<1>2. ans \in Answer
  BY <1>1 DEF Answer
<1>3. ans.status \in {"ok", "error"} => task[u] = ans.status
  BY DEF Says
<1>4. errs' \in 0..MaxErrors
  BY MigrationAssumption DEF Says, TypeOK
<1>5. QED
  BY <1>2, <1>3, <1>4

-----------------------------------------------------------------------------
(* TypeInv is inductive.                                                   *)
LEMMA TypeInvariant == Spec => []TypeInv
<1> USE MigrationAssumption
<1>1. Init => TypeInv
  BY DEF Init, TypeInv, TypeOK, AnswerOK, WorkOK, TruthOK, NoAns, Answer, Full
<1>2. TypeInv /\ [Next]_vars => TypeInv'
  <2> SUFFICES ASSUME TypeInv, [Next]_vars PROVE TypeInv'
    OBVIOUS
  <2> USE DEF TypeInv, world, monitor, poller
  <2>a. NoAns \in Answer
    BY DEF NoAns, Answer
  <2>1. ASSUME NEW u \in Tasks, StartTask(u) PROVE TypeInv'
    <3>1. [status |-> "running", progress |-> 0] \in Entry
      BY DEF Entry, Full
    <3>2. TypeOK'
      BY <2>1, <3>1 DEF StartTask, TypeOK, Full
    <3>3. TruthOK(entry)' /\ TruthOK(polCopy)'
      BY <2>1 DEF StartTask, TypeOK, TruthOK, Full
    <3>4. (AnswerOK(monCur, monAns) /\ AnswerOK(polCur, polAns))'
      BY <2>1 DEF StartTask, TypeOK, AnswerOK
    <3>5. QED
      BY <2>1, <3>2, <3>3, <3>4 DEF StartTask, WorkOK
  <2>2. ASSUME NEW u \in Tasks, Clear(u) \/ Remove(u) PROVE TypeInv'
    <3>1. TypeOK' /\ TruthOK(entry)'
      BY <2>2 DEF Clear, Remove, TypeOK, TruthOK
    <3>2. QED
      BY <2>2, <3>1 DEF Clear, Remove, AnswerOK, WorkOK, TruthOK
  <2>3. CASE MonitorTick
    <3>1. monTodo' \subseteq Tasks /\ \A u \in monTodo' : entry[u] \in Entry \ {NoEntry}
      BY <2>3 DEF MonitorTick, Tracked, TypeOK, Tasks
    <3>2. monCopy' \in [Tasks -> Entry \cup {NoEntry}]
      BY <2>3, <3>1 DEF MonitorTick, TypeOK
    <3>3. TypeOK'
      BY <2>3, <3>1, <3>2 DEF MonitorTick, TypeOK
    <3>4. WorkOK(monTodo, monCopy, monCur)'
      <4>1. monCur = NoTask
        BY <2>3 DEF MonitorTick, WorkOK
      <4>2. QED
        BY <2>3, <3>1, <4>1 DEF MonitorTick, WorkOK, Tasks
    <3>5. QED
      BY <2>3, <3>3, <3>4 DEF MonitorTick, AnswerOK, WorkOK, TruthOK
  <2>4. CASE MonitorEnd
    BY <2>4 DEF MonitorEnd, TypeOK, AnswerOK, WorkOK, TruthOK
  <2>5. ASSUME NEW u \in Tasks, MonitorSkip(u) PROVE TypeInv'
    BY <2>5 DEF MonitorSkip, TypeOK, AnswerOK, WorkOK, TruthOK
  <2>6. ASSUME NEW u \in Tasks, MonitorQuery(u) PROVE TypeInv'
    <3>1. PICK ans \in Answers : Says(u, ans) /\ monAns' = ans
      BY <2>6 DEF MonitorQuery
    <3>2. TypeOK' /\ AnswerOK(monCur, monAns)'
      BY <2>6, <3>1, SaysOK DEF MonitorQuery, TypeOK, AnswerOK
    <3>3. QED
      BY <2>6, <3>2 DEF MonitorQuery, AnswerOK, WorkOK, TruthOK
  <2>7. CASE MonitorApply
    <3>1. monCur \in Tasks /\ UNCHANGED task /\ monAns \in Answer
      BY <2>7 DEF MonitorApply, TypeOK
    <3>2. /\ entry' \in [Tasks -> Entry \cup {NoEntry}]
          /\ TruthOK(entry)'
      <4>1. CASE MonitorErr
        BY <3>1, <4>1, UpdateOK DEF MonitorErr, TypeOK, Full, TruthOK
      <4>2. CASE MonitorRunning
        BY <3>1, <4>2, UpdateOK DEF MonitorRunning, TypeOK, Answer, Full, TruthOK
      <4>3. CASE MonitorStopped
        BY <3>1, <4>3, UpdateOK DEF MonitorStopped, TypeOK, AnswerOK, Full
      <4>4. QED
        BY <2>7, <4>1, <4>2, <4>3 DEF MonitorApply
    <3>3. /\ logged' \in [Tasks -> 0..2] /\ removal' \in SUBSET Tasks
          /\ \A u \in removal' : task[u] # "new"
      BY <2>7, <3>1
      DEF MonitorApply, MonitorErr, MonitorRunning, MonitorStopped, TypeOK, AnswerOK
    <3>4. TypeOK'
      BY <2>7, <2>a, <3>1, <3>2, <3>3 DEF MonitorApply, TypeOK, TruthOK
    <3>5. QED
      BY <2>7, <3>1, <3>2, <3>4 DEF MonitorApply, TypeOK, AnswerOK, WorkOK, TruthOK
  <2>8. CASE PollerTick
    <3>1. polTodo' \subseteq Moves /\ \A u \in polTodo' : entry[u] \in Entry \ {NoEntry}
      BY <2>8 DEF PollerTick, Tracked, TypeOK, Tasks
    <3>2. /\ polCopy' \in [Tasks -> Entry \cup {NoEntry}]
          /\ \A u \in polTodo' : polCopy'[u] = entry[u]
          /\ \A u \in Tasks : polCopy'[u] \in {entry[u], NoEntry}
      BY <2>8, <3>1 DEF PollerTick, TypeOK, Tasks
    <3>3. TypeOK'
      BY <2>8, <3>1, <3>2 DEF PollerTick, TypeOK
    <3>4. WorkOK(polTodo, polCopy, polCur)' /\ TruthOK(polCopy)'
      BY <2>8, <3>1, <3>2 DEF PollerTick, WorkOK, TruthOK
    <3>5. QED
      BY <2>8, <3>3, <3>4 DEF PollerTick, AnswerOK, WorkOK, TruthOK
  <2>9. ASSUME NEW u \in Moves, PollerSkip(u) PROVE TypeInv'
    <3>1. /\ polCopy' \in [Tasks -> Entry \cup {NoEntry}]
          /\ \A v \in Tasks : polCopy'[v] \in {polCopy[v], NoEntry}
          /\ \A v \in polTodo' : v # u /\ v \in polTodo /\ polCopy'[v] = polCopy[v]
      BY <2>9 DEF PollerSkip, TypeOK, Tasks
    <3>2. TypeOK'
      BY <2>9, <3>1 DEF PollerSkip, TypeOK
    <3>3. WorkOK(polTodo, polCopy, polCur)' /\ TruthOK(polCopy)'
      BY <2>9, <3>1 DEF PollerSkip, WorkOK, TruthOK
    <3>4. QED
      BY <2>9, <3>2, <3>3 DEF PollerSkip, AnswerOK, WorkOK, TruthOK
  <2>10. ASSUME NEW u \in Moves, PollerQuery(u) PROVE TypeInv'
    <3>1. PICK ans \in Answers : Says(u, ans) /\ polAns' = ans
      BY <2>10 DEF PollerQuery
    <3>2. TypeOK' /\ AnswerOK(polCur, polAns)'
      BY <2>10, <3>1, SaysOK DEF PollerQuery, TypeOK, AnswerOK, Tasks
    <3>3. QED
      BY <2>10, <3>2 DEF PollerQuery, AnswerOK, WorkOK, TruthOK
  <2>11. CASE PollerApply
    <3>1. /\ polCur \in Tasks /\ UNCHANGED task /\ polAns \in Answer
          /\ polCopy[polCur] \in Entry \ {NoEntry}
      BY <2>11 DEF PollerApply, TypeOK, WorkOK
    <3>2. /\ entry' \in [Tasks -> Entry \cup {NoEntry}]
          /\ TruthOK(entry)'
      <4>1. CASE UNCHANGED entry
        BY <3>1, <4>1 DEF TypeOK, TruthOK
      <4>2. CASE polAns.status = "ok" /\ Update(polCur, Full, "completed")
        BY <3>1, <4>2, UpdateOK DEF TypeOK, AnswerOK, Full
      <4>3. CASE /\ polAns.status = "error"
                 /\ Update(polCur, polCopy[polCur].progress, "failed")
        <5>1. /\ polCopy[polCur].progress \in 0..Full
              /\ polCopy[polCur].progress # Full
          BY <3>1, <4>3 DEF Entry, AnswerOK, TruthOK
        <5>2. QED
          BY <3>1, <4>3, <5>1, UpdateOK DEF TypeOK
      <4>4. QED
        BY <2>11, <4>1, <4>2, <4>3 DEF PollerApply
    <3>3. removal' \in SUBSET Tasks /\ \A u \in removal' : task[u] # "new"
      BY <2>11, <3>1 DEF PollerApply, TypeOK, AnswerOK
    <3>4. TypeOK'
      BY <2>11, <2>a, <3>1, <3>2, <3>3 DEF PollerApply, TypeOK, TruthOK
    <3>5. QED
      BY <2>11, <3>1, <3>2, <3>4 DEF PollerApply, TypeOK, AnswerOK, WorkOK, TruthOK
  <2>12. ASSUME NEW u \in Moves, TaskRuns(u) PROVE TypeInv'
    BY <2>12 DEF TaskRuns, TypeOK, AnswerOK, WorkOK, TruthOK, Tasks
  <2>13. ASSUME NEW u \in Tasks, TaskEnds(u) PROVE TypeInv'
    BY <2>13 DEF TaskEnds, TypeOK, AnswerOK, WorkOK, TruthOK
  <2>14. ASSUME NEW u \in Tasks, GrowsOld(u) PROVE TypeInv'
    BY <2>14 DEF GrowsOld, TypeOK, AnswerOK, WorkOK, TruthOK
  <2>15. ASSUME NEW u \in Moves, ClientsChange(u) PROVE TypeInv'
    BY <2>15 DEF ClientsChange, TypeOK, AnswerOK, WorkOK, TruthOK
  <2>16. CASE UNCHANGED vars
    BY <2>16 DEF vars, TypeOK, AnswerOK, WorkOK, TruthOK
  <2>17. QED
    BY <2>1, <2>2, <2>3, <2>4, <2>5, <2>6, <2>7, <2>8, <2>9, <2>10, <2>11,
       <2>12, <2>13, <2>14, <2>15, <2>16
    DEF Next, Monitor, Poller
<1>3. QED
  BY <1>1, <1>2, PTL DEF Spec

(* The tables keep their types, nothing that has not been started is       *)
(* scheduled for removal, and 100 is shown with "completed" only.          *)
THEOREM TypeCorrect == Spec => []TypeOK
<1>1. TypeInv => TypeOK
  BY DEF TypeInv
<1>2. QED
  BY <1>1, TypeInvariant, PTL

(* "completed" is true whoever wrote it: the monitor's and the poller's    *)
(* copies may be stale, but an answer that a task has ended never is.      *)
THEOREM CompletedCorrect == Spec => []CompletedIsTrue
<1>1. TypeInv => CompletedIsTrue
  BY DEF TypeInv, TruthOK, CompletedIsTrue, Tracked
<1>2. QED
  BY <1>1, TypeInvariant, PTL

-----------------------------------------------------------------------------
(* Every outcome is logged once: before MonitorStopped logs, it has taken  *)
(* the entry out of "running", and nobody puts it back.                    *)
THEOREM LogCorrect == Spec => []LoggedOnce
<1> USE MigrationAssumption
<1>1. Init => LogOK
  BY DEF Init, LogOK
<1>2. TypeInv /\ TypeInv' /\ LogOK /\ [Next]_vars => LogOK'
  <2> SUFFICES ASSUME TypeInv, TypeInv', LogOK, [Next]_vars PROVE LogOK'
    OBVIOUS
  <2> USE DEF TypeInv, TypeOK, LogOK, Tracked, world, monitor, poller
  <2>1. ASSUME NEW u \in Tasks, StartTask(u) PROVE LogOK'
    BY <2>1 DEF StartTask
  <2>2. ASSUME NEW u \in Tasks, Clear(u) \/ Remove(u) PROVE LogOK'
    BY <2>2 DEF Clear, Remove
  <2>3. CASE MonitorTick
    <3>1. monTodo' \subseteq Tasks /\ \A u \in monTodo' : monCopy'[u] = entry[u] /\ Tracked(u)
      BY <2>3 DEF MonitorTick, Tasks
    <3>2. QED
      BY <2>3, <3>1 DEF MonitorTick
  <2>4. CASE MonitorEnd
    BY <2>4 DEF MonitorEnd
  <2>5. ASSUME NEW u \in Tasks, MonitorSkip(u) \/ MonitorQuery(u) PROVE LogOK'
    BY <2>5 DEF MonitorSkip, MonitorQuery
  <2>6. CASE MonitorApply
    <3>1. /\ monCur \in Tasks /\ logged[monCur] = 0 /\ monAns \in Answer
          /\ AnswerOK(monCur, monAns) /\ UNCHANGED task
      BY <2>6 DEF MonitorApply
    <3>2. ASSUME NEW p \in 0..Full, NEW s \in {"running", "completed", "failed"},
                 Update(monCur, p, s)
          PROVE  /\ \A v \in Tasks : v # monCur => entry'[v] = entry[v]
                 /\ entry'[monCur] # NoEntry => entry'[monCur].status = s
      BY <3>1, <3>2 DEF Update
    <3>3. CASE MonitorErr
      BY <2>6, <3>1, <3>2, <3>3 DEF MonitorApply, MonitorErr, Full
    <3>4. CASE MonitorRunning
      <4>1. monAns.progress \in 0..Full
        BY <3>1 DEF Answer, Full
      <4>2. QED
        BY <2>6, <3>1, <3>2, <3>4, <4>1 DEF MonitorApply, MonitorRunning
    <3>5. CASE MonitorStopped
      <4>1. /\ task[monCur] \in {"ok", "error"}
            /\ logged' = [logged EXCEPT ![monCur] = 1]
        BY <3>1, <3>5 DEF MonitorStopped, AnswerOK
      <4>2. /\ \A v \in Tasks : v # monCur => entry'[v] = entry[v]
            /\ entry'[monCur] # NoEntry => entry'[monCur].status # "running"
        BY <3>2, <3>5 DEF MonitorStopped, Full
      <4>3. QED
        BY <2>6, <3>1, <4>1, <4>2 DEF MonitorApply
    <3>6. QED
      BY <2>6, <3>3, <3>4, <3>5 DEF MonitorApply
  <2>7. CASE PollerTick
    BY <2>7 DEF PollerTick
  <2>8. ASSUME NEW u \in Moves, PollerSkip(u) \/ PollerQuery(u) PROVE LogOK'
    BY <2>8 DEF PollerSkip, PollerQuery
  <2>9. CASE PollerApply
    BY <2>9 DEF PollerApply, Update
  <2>10. ASSUME NEW u \in Tasks, TaskEnds(u) \/ GrowsOld(u) PROVE LogOK'
    BY <2>10 DEF TaskEnds, GrowsOld
  <2>11. ASSUME NEW u \in Moves, TaskRuns(u) \/ ClientsChange(u) PROVE LogOK'
    BY <2>11 DEF TaskRuns, ClientsChange
  <2>12. CASE UNCHANGED vars
    BY <2>12 DEF vars
  <2>13. QED
    BY <2>1, <2>2, <2>3, <2>4, <2>5, <2>6, <2>7, <2>8, <2>9, <2>10, <2>11, <2>12
    DEF Next, Monitor, Poller
<1>3. LogOK /\ TypeInv => LoggedOnce
  BY DEF LogOK, LoggedOnce, TypeInv, TypeOK
<1>4. QED
  BY <1>1, <1>2, <1>3, TypeInvariant, PTL DEF Spec
=============================================================================
