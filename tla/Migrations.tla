----------------------------- MODULE Migrations -----------------------------
(***************************************************************************)
(* The table of running migrations and disk moves in the state store, and  *)
(* the three parties that write it: the API handler that starts a task     *)
(* and tracks it, migration.Monitor (every 3 s, migrations and disk        *)
(* moves), and the poller's checkMigrationStatuses (every 5 s, migrations  *)
(* only). Both checkers copy the table, ask Proxmox about one task after   *)
(* the other, and write back what they learnt from their copy.             *)
(***************************************************************************)
EXTENDS Naturals

CONSTANTS
    Moves,          \* tasks that migrate a guest to another node
    DiskMoves,      \* tasks that move a disk to another storage
    Configured,     \* tasks of clusters listed in config.yaml
    MaxPhase,       \* how many phases a task log shows
    MaxErrors,      \* bound on failing task queries
    NoEntry, NoTask

Tasks == Moves \cup DiskMoves
Full  == MaxPhase + 1           \* progress 100

ASSUME MigrationAssumption ==
    /\ Moves \cap DiskMoves = {} /\ Configured \subseteq Tasks
    /\ MaxPhase \in Nat /\ MaxErrors \in Nat
    /\ NoTask \notin Tasks

VARIABLES
    task,       \* the task as Proxmox knows it
    phase,      \* the last phase its log shows
    old,        \* tasks started more than 10 (30) minutes ago
    clients,    \* migrations whose cluster the poller has clients of
    entry,      \* Store.migrations and Store.diskMoves
    pass,       \* the monitor: idle, or the table it is working on
    monTodo, monCopy, monCur, monAns,
    polTodo, polCopy, polCur, polAns,
    removal,    \* tasks a sleeping goroutine will remove from the table
    logged,     \* activity entries written about each outcome
    errs

world   == <<task, phase, old, clients>>
monitor == <<pass, monTodo, monCopy, monCur, monAns>>
poller  == <<polTodo, polCopy, polCur, polAns>>
vars == <<task, phase, old, clients, entry, pass, monTodo, monCopy, monCur, monAns,
          polTodo, polCopy, polCur, polAns, removal, logged, errs>>

Entry  == [status : {"running", "completed", "failed"}, progress : 0..Full]
Answer == [status : {"none", "running", "ok", "error", "err"}, progress : 0..MaxPhase]
NoAns  == [status |-> "none", progress |-> 0]

TypeOK ==
    /\ task \in [Tasks -> {"new", "running", "ok", "error"}]
    /\ phase \in [Tasks -> 0..MaxPhase]
    /\ old \in SUBSET Tasks /\ clients \in SUBSET Moves
    /\ entry \in [Tasks -> Entry \cup {NoEntry}]
    /\ pass \in {"idle", "migrations", "moved", "diskMoves"}
    /\ monTodo \in SUBSET Tasks /\ polTodo \in SUBSET Moves
    /\ monCopy \in [Tasks -> Entry \cup {NoEntry}]
    /\ polCopy \in [Tasks -> Entry \cup {NoEntry}]
    /\ monCur \in Tasks \cup {NoTask} /\ polCur \in Tasks \cup {NoTask}
    /\ monAns \in Answer /\ polAns \in Answer
    /\ removal \in SUBSET Tasks
    /\ logged \in [Tasks -> 0..2]
    /\ errs \in 0..MaxErrors
    /\ \A u \in removal : task[u] # "new"
    /\ \A u \in Tasks : entry[u] # NoEntry /\ entry[u].progress = Full
                        => entry[u].status = "completed"

Init ==
    /\ task = [u \in Tasks |-> "new"]
    /\ phase = [u \in Tasks |-> 0]
    /\ old = {}
    /\ clients \in SUBSET Moves
    /\ entry = [u \in Tasks |-> NoEntry]
    /\ pass = "idle"
    /\ monTodo = {} /\ monCopy = [u \in Tasks |-> NoEntry]
    /\ monCur = NoTask /\ monAns = NoAns
    /\ polTodo = {} /\ polCopy = [u \in Tasks |-> NoEntry]
    /\ polCur = NoTask /\ polAns = NoAns
    /\ removal = {}
    /\ logged = [u \in Tasks |-> 0]
    /\ errs = 0

Tracked(u) == entry[u] # NoEntry

(* UpdateMigration, UpdateDiskMove: an entry that is gone stays gone.      *)
Update(u, progress, status) ==
    entry' = IF Tracked(u)
             THEN [entry EXCEPT ![u] = [status |-> status, progress |-> progress]]
             ELSE entry

-----------------------------------------------------------------------------
(* MigrateVM and its siblings: start the task, then AddMigration.          *)
StartTask(u) ==
    /\ task[u] = "new"
    /\ task' = [task EXCEPT ![u] = "running"]
    /\ entry' = [entry EXCEPT ![u] = [status |-> "running", progress |-> 0]]
    /\ UNCHANGED <<phase, old, clients, monitor, poller, removal, logged, errs>>

(* ClearMigration, ClearDiskMove.                                          *)
Clear(u) ==
    /\ Tracked(u)
    /\ entry' = [entry EXCEPT ![u] = NoEntry]
    /\ UNCHANGED <<world, monitor, poller, removal, logged, errs>>

-----------------------------------------------------------------------------
(* Asking Proxmox.                                                         *)

(* The answer to GetTaskStatus, and for a running task what its log shows; *)
(* or no answer: a timeout, or a task that Proxmox has forgotten.          *)
Says(u, ans) ==
    \/ /\ ans = [status |-> task[u], progress |-> phase[u]]
       /\ UNCHANGED errs
    \/ /\ errs < MaxErrors
       /\ ans = [status |-> "err", progress |-> 0]
       /\ errs' = errs + 1

Answers == {[status |-> s, progress |-> p] :
               s \in {"running", "ok", "error", "err"}, p \in 0..MaxPhase}

-----------------------------------------------------------------------------
(* migration.Monitor.                                                      *)

(* A tick: checkMigrations copies the table, later checkDiskMoves its own. *)
MonitorTick ==
    /\ \/ pass = "idle" /\ pass' = "migrations" /\ monTodo' = {u \in Moves : Tracked(u)}
       \/ pass = "moved" /\ pass' = "diskMoves" /\ monTodo' = {u \in DiskMoves : Tracked(u)}
    /\ monCopy' = [u \in Tasks |-> IF u \in monTodo' THEN entry[u] ELSE NoEntry]
    /\ UNCHANGED <<world, entry, monCur, monAns, poller, removal, logged, errs>>

MonitorEnd ==
    /\ pass \in {"migrations", "diskMoves"}
    /\ monTodo = {}
    /\ pass' = IF pass = "migrations" THEN "moved" ELSE "idle"
    /\ UNCHANGED <<world, entry, monTodo, monCopy, monCur, monAns, poller, removal,
                   logged, errs>>

(* Entries that were not running in the copy, and entries of a cluster     *)
(* getClient finds no configuration for, are passed over.                  *)
MonitorSkip(u) ==
    /\ monCur = NoTask
    /\ u \in monTodo
    /\ monCopy[u].status # "running" \/ u \notin Configured
    /\ monTodo' = monTodo \ {u}
    /\ monCopy' = [monCopy EXCEPT ![u] = NoEntry]
    /\ UNCHANGED <<world, entry, pass, monCur, monAns, poller, removal,
                   logged, errs>>

(* Mutant: the status of the entry is not looked at. *)
MonitorQuery_any(u) ==
    /\ monCur = NoTask
    /\ u \in monTodo
    /\ u \in Configured
    /\ monCur' = u
    /\ \E ans \in Answers : Says(u, ans) /\ monAns' = ans
    /\ UNCHANGED <<world, entry, pass, monTodo, monCopy, poller, removal, logged>>

MonitorQuery(u) ==
    /\ monCur = NoTask
    /\ u \in monTodo
    /\ monCopy[u].status = "running"
    /\ u \in Configured
    /\ monCur' = u
    /\ \E ans \in Answers : Says(u, ans) /\ monAns' = ans
    /\ UNCHANGED <<world, entry, pass, monTodo, monCopy, poller, removal, logged>>

(* What the monitor does with the answer.                                  *)
MonitorErr ==       \* no answer: failed, once the task is old enough
    /\ monAns.status = "err"
    /\ IF monCur \in old THEN Update(monCur, 0, "failed") ELSE UNCHANGED entry
    /\ UNCHANGED <<removal, logged>>

MonitorRunning ==   \* progress only moves forward, and only for migrations
    /\ monAns.status = "running"
    /\ IF monCur \in Moves /\ monAns.progress > monCopy[monCur].progress
       THEN Update(monCur, monAns.progress, "running") ELSE UNCHANGED entry
    /\ UNCHANGED <<removal, logged>>

(* Mutant: an unsuccessful task counts as completed. *)
MonitorStopped_alwaysOk ==
    /\ monAns.status \in {"ok", "error"}
    /\ Update(monCur, Full, "completed")
    /\ logged' = [logged EXCEPT ![monCur] = IF @ < 2 THEN @ + 1 ELSE @]
    /\ removal' = removal \cup {monCur}

MonitorStopped ==   \* final status, activity entry, removal in 5 or 30 s
    /\ monAns.status \in {"ok", "error"}
    /\ IF monAns.status = "ok" THEN Update(monCur, Full, "completed")
                               ELSE Update(monCur, 0, "failed")
    /\ logged' = [logged EXCEPT ![monCur] = IF @ < 2 THEN @ + 1 ELSE @]
    /\ removal' = removal \cup {monCur}

MonitorApply ==
    /\ monCur # NoTask
    /\ MonitorErr \/ MonitorRunning \/ MonitorStopped
    /\ monTodo' = monTodo \ {monCur}
    /\ monCopy' = [monCopy EXCEPT ![monCur] = NoEntry]
    /\ monCur' = NoTask
    /\ monAns' = NoAns
    /\ UNCHANGED <<world, pass, poller, errs>>

-----------------------------------------------------------------------------
(* Poller.checkMigrationStatuses.                                          *)

PollerTick ==
    /\ polTodo = {}
    /\ polTodo' = {u \in Moves : Tracked(u)}
    /\ polTodo' # {}
    /\ polCopy' = [u \in Tasks |-> IF u \in polTodo' THEN entry[u] ELSE NoEntry]
    /\ UNCHANGED <<world, entry, monitor, polCur, polAns, removal, logged, errs>>

(* A migration of a cluster that the poller does not know, or has not      *)
(* discovered a node of, is passed over.                                   *)
PollerSkip(u) ==
    /\ polCur = NoTask
    /\ u \in polTodo
    /\ u \notin clients
    /\ polTodo' = polTodo \ {u}
    /\ polCopy' = [polCopy EXCEPT ![u] = NoEntry]
    /\ UNCHANGED <<world, entry, monitor, polCur, polAns, removal, logged, errs>>

PollerQuery(u) ==
    /\ polCur = NoTask
    /\ u \in polTodo
    /\ u \in clients
    /\ polCur' = u
    /\ \E ans \in Answers : Says(u, ans) /\ polAns' = ans
    /\ UNCHANGED <<world, entry, monitor, polTodo, polCopy, removal, logged>>

(* Mutant: the final status is shown for ever. *)
PollerApply_keep ==
    /\ polCur # NoTask
    /\ \/ polAns.status \in {"running", "err"} /\ UNCHANGED entry
       \/ polAns.status = "ok" /\ Update(polCur, Full, "completed")
       \/ polAns.status = "error" /\ Update(polCur, polCopy[polCur].progress, "failed")
    /\ polTodo' = polTodo \ {polCur}
    /\ polCopy' = [polCopy EXCEPT ![polCur] = NoEntry]
    /\ polCur' = NoTask
    /\ polAns' = NoAns
    /\ UNCHANGED <<world, monitor, removal, logged, errs>>

(* Only a stopped task changes anything; it is removed in 10 s.            *)
PollerApply ==
    /\ polCur # NoTask
    /\ \/ polAns.status \in {"running", "err"} /\ UNCHANGED <<entry, removal>>
       \/ /\ polAns.status = "ok"
          /\ Update(polCur, Full, "completed")
          /\ removal' = removal \cup {polCur}
       \/ /\ polAns.status = "error"
          /\ Update(polCur, polCopy[polCur].progress, "failed")
          /\ removal' = removal \cup {polCur}
    /\ polTodo' = polTodo \ {polCur}
    /\ polCopy' = [polCopy EXCEPT ![polCur] = NoEntry]
    /\ polCur' = NoTask
    /\ polAns' = NoAns
    /\ UNCHANGED <<world, monitor, logged, errs>>

-----------------------------------------------------------------------------
(* RemoveMigration, RemoveDiskMove after the sleep.                        *)
Remove(u) ==
    /\ u \in removal
    /\ removal' = removal \ {u}
    /\ entry' = [entry EXCEPT ![u] = NoEntry]
    /\ UNCHANGED <<world, monitor, poller, logged, errs>>

(* Proxmox: a task moves on and ends; time passes.  Of disk moves nobody   *)
(* reads the log.                                                          *)
TaskRuns(u) ==
    /\ task[u] = "running"
    /\ phase[u] < MaxPhase
    /\ phase' = [phase EXCEPT ![u] = @ + 1]
    /\ UNCHANGED <<task, old, clients, entry, monitor, poller, removal, logged, errs>>

TaskEnds(u) ==
    /\ task[u] = "running"
    /\ \E s \in {"ok", "error"} : task' = [task EXCEPT ![u] = s]
    /\ UNCHANGED <<phase, old, clients, entry, monitor, poller, removal, logged, errs>>

GrowsOld(u) ==
    /\ task[u] # "new"
    /\ u \notin old
    /\ old' = old \cup {u}
    /\ UNCHANGED <<task, phase, clients, entry, monitor, poller, removal, logged, errs>>

(* AddCluster and its discovery, RemoveCluster: the clients come and go.   *)
ClientsChange(u) ==
    /\ clients' = IF u \in clients THEN clients \ {u} ELSE clients \cup {u}
    /\ UNCHANGED <<task, phase, old, entry, monitor, poller, removal, logged, errs>>

-----------------------------------------------------------------------------
Monitor ==
    \/ MonitorTick \/ MonitorEnd \/ MonitorApply
    \/ \E u \in Tasks : MonitorSkip(u) \/ MonitorQuery(u)

Poller ==
    \/ PollerTick \/ PollerApply
    \/ \E u \in Moves : PollerSkip(u) \/ PollerQuery(u)

Next ==
    \/ Monitor \/ Poller
    \/ \E u \in Tasks :
          \/ StartTask(u) \/ Clear(u) \/ Remove(u)
          \/ TaskEnds(u) \/ GrowsOld(u)
    \/ \E u \in Moves : TaskRuns(u) \/ ClientsChange(u)

(* Both tickers run and sleeps end; nothing is assumed of the tasks.       *)
Spec ==
    /\ Init /\ [][Next]_vars
    /\ WF_vars(Monitor) /\ WF_vars(Poller)
    /\ \A u \in Tasks : WF_vars(Remove(u))

-----------------------------------------------------------------------------
(* Correctness.                                                            *)

(* "completed" is shown only for a task that ended OK, whichever of the    *)
(* two checkers wrote it and however stale its copy was.                   *)
CompletedIsTrue ==
    \A u \in Tasks : Tracked(u) /\ entry[u].status = "completed"
                     => task[u] = "ok"

(* At most one activity entry, and so one webhook event, is written about  *)
(* the outcome of a task.                                                  *)
LoggedOnce == \A u \in Tasks : logged[u] <= 1

(* A tracked task that has ended is taken off the table in the end.  The   *)
(* poller does it for a migration whose cluster it keeps clients of,       *)
(* whatever queries failed and whatever the monitor made of them; the      *)
(* monitor for a task of a configured cluster, which it otherwise gives    *)
(* up as failed when a query fails and the task is old.  An entry of a     *)
(* cluster that neither of them knows stays.                               *)
TasksDrain ==
    /\ \A u \in Moves :
          <>[](u \in clients) => (task[u] \in {"ok", "error"} ~> ~Tracked(u))
    /\ \A u \in Configured :
          task[u] \in {"ok", "error"} ~> (~Tracked(u) \/ entry[u].status = "failed")
=============================================================================
