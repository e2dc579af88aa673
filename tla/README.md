# pCenter in TLA+

pCenter is a management server for Proxmox VE (PVE): a Go backend that polls
clusters, receives pushes from agents on the nodes, keeps the merged state in
memory, and runs operations (power actions, migrations, cluster formation)
through the PVE API or through an agent; a React frontend; and `pve-agent`, the
Go program on the nodes. This directory models the parts of the backend in
which goroutines, timers, requests and failures meet, and the web UI as what it
is on top of them: React components whose requests are answered in any order,
late, or never, while the user, other users and the session go on.

`PROJECT.json` maps every definition to the lines it models, and lists the
runs, the mutants that show each property can fail, the findings, the hazards
and the theorems.

## The system

| part | state it keeps | operations | what it talks to | what is hard |
|---|---|---|---|---|
| agent hub, command tracker (`agent/`, `api/agent_command.go`) | registry of connections, send buffers, pending commands | upgrade, register, read and write pumps, send command, complete, stale cleanup | agents by WebSocket; API handlers; state store | takeover by a new connection, late exits, results after a timeout, fallback to the API |
| poller (`poller/`) | registry of cluster pollers, one goroutine per cluster and per node | AddCluster, RemoveCluster, Reconcile, discovery, node loops, forced refresh | PVE API; state store; inventory; cluster jobs | add, remove and reconcile interleaved; half-done starts |
| state store (`state/`) | guests, nodes, errors, migrations, disk moves | UpdateNode, migration table | written by poller, hub, monitor; read by the API | reports merged out of order, partial reports |
| migration monitor (`migration/`) | none of its own; the store's tables | every 3 s: check tasks, write progress, log, schedule removal | PVE task API; store; activity log; the poller checks the same table | two checkers with stale copies, lost tasks |
| alarms (`alarms/`) | definitions, instances, history in SQLite | evaluation pass, acknowledge, edit definitions | reads the state store; notifies | read-modify-write against the user, hysteresis, restarts |
| webhooks (`webhooks/`) | endpoints in SQLite, in-memory queue | enqueue, deliver with retries, auto-disable, edit | activity log; HTTP receivers | full queue, retries, stale targets |
| PVE cluster jobs (`pvecluster/`) | jobs and their steps, in memory | form a cluster, join hosts, preflight, cleanup over SSH | PVE API, SSH, inventory, poller | many phases without rollback, restart in the middle, concurrent jobs |
| inventory, reconciler (`inventory/`) | datacenters, clusters, hosts in SQLite | CRUD, add host with routing, promote standalone hosts | poller, jobs | partial moves, two writers |
| agent (`pve-agent/`) | one connection, a queue of outgoing messages | reconnect loop, pumps, collector, executor | hub; PVE | pumps of an old connection after a reconnect |
| auth, rbac | users, sessions, roles | login, second factor, lockout; permission resolution | every API request | expiry, lockout counters |
| browser hub (`api/websocket.go`) | clients with a send channel each | register, broadcast, drop slow clients | browsers by WebSocket; publishers in poller, hub, alarms | messages built before and sent after newer ones, full channels |
| web UI: list panels, inventory tree (`pages/`, `components/`) | the list on display, loading, busy and form variables | load, create, change, delete, read again | API | overlapping loads, subjects that change, double presses, requests carried out after the browser gave up |
| web UI: signing in (`AuthContext`, `api/auth.ts`, `Login`) | AuthState, CSRF token, cookie | first check, login, second factor, registration, logout, 2FA settings | auth handlers; every 401 | answers of an old session, reloads, expiry |
| web UI: live state (`ClusterContext`, `useWebSocket`, consoles) | socket, state on display, clone tasks, console connections | connect, reconnect, fallback fetch, clone, console | browser hub; API; noVNC | unmounting with requests under way |
| web UI: wizards (create and join PVE cluster, install and destroy Ceph) | step, selection, preflight result, job, interval | check, start, poll, close | cluster and Ceph jobs | overlapping polls, restarts, dialogs closed early |
| web UI: configuration editor (`useConfigEditor`, `ConfigureTab`) | configuration and digest, changes | load, edit, apply, reload | PVE through the API | two editors of one guest, late loads |
| scheduler | scheduled tasks and runs | tick, run, record | API services | missed and double runs |
| DRS, metrics, ceph jobs, folders, tags, library, activity, console proxy, updater, config | see `PROJECT.json` | | | |

What makes the modelled parts correct, in one line each: the hub never loses a
live connection, never panics, and never runs an action twice; a removed
cluster is not polled and an added one is; the store shows what the nodes have;
a tracked task leaves the table with its true outcome, logged once; an alarm
is raised after its duration and cleared only by a clear sample; events arrive
in order or are given up; a cluster job is all or nothing towards the
inventory, and its success is real. For the web UI: what is on display becomes
what the server has; nothing is started twice by a button that guards itself;
no loading or applying text stays; nothing survives signing out; a job is
started for what was checked and its end is shown; a configuration changes only
from the one its editor saw.

## Modules

| module | models | state and actions against the code |
|---|---|---|
| `AgentHub` | hub registry, pumps, tracker, API callers | A connection is an `AgentConn`; `register`/`unregister` are the two critical sections of `Hub.mu`; `CompleteTake`/`CompleteSend` are the locked and unlocked halves of `Complete`; `LookupAgent`/`SendCommand` the two halves of `SendCommand`. The agent and the network are the environment: they may disconnect, drop a result, or answer on a later connection. `closes` counts `close(done)`, as a second close panics. |
| `AgentHubProofs` | proofs about `AgentHub` | see below |
| `PollerRegistry` | `Poller.clusters`, the life of each `ClusterPoller`, `Store.clusters` | `AddCluster` is three steps (store, register, start), `RemoveCluster` three (unregister, cancel, drop the store), the ticker reads the inventory, computes orphans and removes them one by one. |
| `PollerRegistryProofs` | proofs about `PollerRegistry` | see below |
| `ClusterState` | `UpdateNode` and the reports it merges | Reading a report and merging it are separate steps of each source (poll loop and refresh, agent), so a report can be stale when it is merged. Guests carry their node, which a report overwrites, and whether their NICs are known, which a report that lacks them keeps. |
| `Migrations` | the migration and disk-move tables, the monitor and the poller's checker | Each checker copies the table, queries one task at a time and writes its copy back; removals are timers of their own. `clients` are the migrations whose cluster the poller has clients for, which come and go with `AddCluster`, discovery and `RemoveCluster`; without them `checkMigrationStatuses` passes an entry over. |
| `MigrationsProofs` | proofs about `Migrations` | see below |
| `Alarms` | one definition, its instances and history | A pass evaluates the resources one by one: SELECT, upsert, history are separate steps, each of which may fail, and between which the user acts or the backend restarts. A rule is what an edit can change of a definition: condition, thresholds, duration. `since` and `gap` are history variables. |
| `AlarmsProofs` | proofs about `Alarms` | see below |
| `Webhooks` | endpoints, queue, worker | Matching is done on component sequences as in `matches`; an attempt may be received although its answer is lost. `RecordDelivery` is one critical section of several statements; the first, or the one that disables the endpoint, may fail. `last`, `misses`, `pending`, `auto` are history variables. |
| `PanelTable` | every list panel of the web UI | Data, not behaviour: one record per component with its load function, its handlers (what each changes, the variable it sets, what follows) and its buttons (where they are, what disables them). Handlers keep their names. |
| `Panels` | a mounted panel, its requests, the server's lists | `Press`/`WriteDone`/`WriteFailed` are a handler before and after its await, `BeginLoad`/`LoadDone` a load function; a closure keeps the subject of the render it was pressed in. Cards and dialogs are components of their own and lose their variables when unmounted; `inst` counts the mountings of each, and a handler of an earlier one changes nothing any more, as in React. An effect that cancels its load compares `epoch`. `srv` is what a GET returns. For the Ceph page that is the topology the poller last published: a change is made in `pve`, and `Publish` (`fetchCephTopology`) brings it to `srv` later. |
| `PanelsProofs` | proofs about `Panels` | see below |
| `Session` | AuthContext, `api/auth.ts`, the routes, the cookie; the auth handlers and middlewares | A request carries the cookie of the moment it is sent; `Serve` is the server, `Arrive` the code after the await. A session id stands for its cookie and its CSRF token. |
| `LiveState` | ClusterProvider, the browser hub, clones, consoles; extends `Session` | Composition: a step of `Session` that shows or hides the application mounts or unmounts everything (`Follow`). States of the cluster are numbered in the order the store has them. `hub` is the hub's client of the socket the provider has now: a client whose socket the browser has closed stays with the hub until its readPump ends, but the browser ignores what it sends and the hub never waits for it. A guest is a type and vmid, which is all the console's URLs (`/api/console/{type}/{vmid}/...`) and effects name. |
| `LiveStateProofs` | proofs about `LiveState` and the `Session` in it | see below |
| `Wizards` | the four dialogs that follow a job | A bag of requests, as polls overlap; `pollRef` and `ticking` keep apart the interval that can be cleared and the ones that run. The jobs are `PveClusterJobs` seen from outside. |
| `ConfigEditor` | ConfigureTab, useConfigEditor, the two config handlers | Editors in several browsers, others who edit, a digest that is equal for equal configurations. `saw` records what the page showed when Apply was pressed. |
| `ConfigEditorProofs` | proofs about `ConfigEditor` | see below |
| `OptimisticRegister` | what editing a configuration promises | The abstract specification: a write names the value its author saw and takes effect only on that value. |
| `PveClusterJobs` | both kinds of job, the inventory rows they change, the poller keys | One step per call that can fail; `pve` and `accepts` are what the hosts themselves hold (cluster configuration, accepted token), `passed` records whether the preflight would have accepted the request, which the server does not check; `probeHost` looks, as in the code, at the token and at the host's PVE cluster, not at the inventory or at other jobs. `Restart`, `ReconcileTick`/`Reconcile` and `ActivateHost`/`Activated` are the others that change `Poller.clusters`; the first two take the names from `GetClusterConfigs`, which leaves out what has no host online. `contested`, `unlisted` and `late` are history variables. |
| `PveClusterJobsProofs` | proofs about `PveClusterJobs` | see below |

Each has an `MC...` module with model values and, where only safety is checked
and it helps, symmetry. Operators whose name
ends in `_<word>`, marked "Mutant" and placed before the definition they
vary, are used by no specification; they are plausible mistakes that must break
a property.

`LiveState` composes the session with everything that lives while signed in,
and `ConfigEditor` implements `OptimisticRegister`. The backend modules do not
import each other: they meet in what one does to the state of another, which
appears in both (the poller keys in `PveClusterJobs` and `PollerRegistry`, the
store of a cluster in `PollerRegistry` and its contents in `ClusterState`, the
jobs in `PveClusterJobs` and `Wizards`).

### `calm`

`Panels`, `Session`, `Wizards` and `ConfigEditor` have a history variable
`calm`. The UI leaves some races open, by design or not, and nothing in its
code repairs them; a property that forbade them would be false, one that
ignored them would say nothing. `calm` becomes FALSE at the step where such a
race happens, each at the place of the model where it can be read off, and the
properties state what holds otherwise:

- `Panels`: a failed request; a second load while an awaited one runs; a change
  of subject over a load that is not cancelled; two filters of one list.
- `Session`: an answer that arrives under another cookie than it was sent with.
- `Wizards`: a selection changed under a running preflight; a second submit; an
  older poll answered after the end was shown.
- `ConfigEditor`, per browser: somebody else's write; a failed request; a guest
  selected over a load that is still under way.

`Panels` has a second one, `behind`, which is not for ever: a PVE task that ends,
a request carried out after the browser gave up, or a publication of the Ceph
topology has changed what a GET returns, and nothing that is under way will
read it. The next load clears it. `PanelSettles` is about the other states, so
it says of the Ceph page that it shows what was last published, once it has
read it; between a change and the next publication (up to 30 s) it shows the
old value, and after a publication it shows that of the poll before until its
own next poll. `contested`, `unlisted` and `late` of `PveClusterJobs` and `gap`
of `Alarms` are exceptions of the same kind, and are explained with the runs.

All of these behaviours remain in the models. `LoadingBacked`, `GuardedOnce`,
`BusyBacked`, `ImplementsRegister`, `NothingOutlives`, `CatchesUp`,
`SpinnerEnds` and `PollingEnds` hold without any such exception.

## Runs

Bounds are small on purpose: the interesting cases need two or three of
anything. Every count bound is a constant of the module, named `Max...`, and
stands in a guard.

| run | instance | shows |
|---|---|---|
| `hub_safety` | 1 agent, 2 successive connections, 2 commands, buffer of 1 | No panic, no dead or evicted registry entry, at most one execution, no lost wake-up; waits end, replaced or broken connections are torn down. Two connections are a takeover, with the late exit of the first; a buffer of one makes it full. The proofs cover any number of connections. |
| `poller_safety` | 1 name, also pushed by an agent, 2 pollers, a remover, the ticker | A registered poller is never cancelled; no store without a poller; orphans are collected. |
| `cluster_safety` | 2 nodes, 1 guest, polls and agent reports, 2 changes, 1 failing request | A guest that is shown rightly, with no stale report about it in flight, stays so until it changes or the guest list of its own node fails; the store converges once the cluster is quiet. |
| `migration_safety` | 1 migration, 1 disk move, 1 failing query, clears, clients that come and go | "completed" is true; one log entry; a migration that ended leaves the table if the poller keeps clients of its cluster, and any task of a configured cluster leaves it or is marked failed. |
| `alarm_safety` | 1 resource, 2 rules ("above" with duration 2, "below" with duration 1 and other thresholds), 4 values, 1 failing statement, 1 restart | No early alarm; the history ends with the state, but for an entry that was not written (a restart before it, a failed INSERT) or a row that could not be read, until the next entry; a lasting critical value is raised. |
| `webhook_safety` | 2 endpoints with different filters, 2 event names, queue of 2, 3 events, 2 attempts, threshold 2, 1 edit, 1 restart, 1 failing statement | Order, honest auto-disable, accepted events settle. Three events are the fewest with which a count that is not reset disables too early. |
| `job_safety` | 2 hosts, online or not, 1 name, 2 jobs, 2 attempts for the join information, 1 restart, tick of Reconcile or activation; requests unchecked | Success is complete and, in a cluster none of whose hosts was requested while in use, real; failure leaves the inventory; every host is polled once, with the exceptions below; every job moves towards its end. |
| `panels` | every panel of `PanelTable` in turn, 2 rows, 2 subjects, 3 requests in flight, 2 steps of the user, a timer or a failure | What is shown settles on what the server serves of the right subject, from its tables or from the last published Ceph topology; a button that guards itself starts nothing twice; no loading text stays. Two operations are what a double press, or an operation during a reload, needs; two rows what tells a wrong row from a wrong list. |
| `live_state` | 2 sessions, 2 requests in flight, 2 steps of users and failures, 1 publisher, 1 clone, 2 guests, send channel of 1 | The token on the page is that of the cookie; nothing outlives the application; the loading screen and the polling of a clone end; the state on display catches up. With a channel of one a second message finds it full, and two ids tell a console's guest from another. With two publishers the run becomes too long. |
| `wizards` | 4 dialogs, 1 host, 2 jobs, 2 requests in flight, 2 changes of the selection, 1 failure or restart | A job is started for what the last preflight allowed; polling stops; the end of the job is shown. One host can be selected or not, which is all a preflight's answer can be wrong about. |
| `config_editor` | 2 browsers, 2 guests, 1 key with 3 values, 2 requests in flight, 4 steps | The editors implement `OptimisticRegister`; no conflict is reported that nobody caused; neither busy state stays. Three values tell what an editor saw, what it writes and what somebody else has written. |

That every job ends follows from `JobAdvances`, a bound on the steps left that
each step lowers, and from each phase having a way on when its call fails; the
run can so use the symmetry of hosts and jobs.

`PolledOnce` has exceptions, each a behaviour of the code. A cluster without an
online member is missing from the list of a restart and stays unpolled; so is
one that `Reconcile` drops because its list was read before the row was there
(`unlisted`). Nothing adds them until a job or a restart does, as `Reconcile`
only removes. A host whose activation began before a job moved it is polled as
a standalone host beside its cluster, until the next `Reconcile` (`late`).

`SuccessIsReal` does not assume the preflight. Two requests that name one host
can both pass it, as it looks neither at the inventory membership of a host nor
at running jobs, and then the second job can undo what the first reports; so the
property is about clusters none of whose hosts was in a cluster or in a running
job when a request named it (`contested`), whatever happens to other hosts at
the same time. `job_cleanup` is about the requests that are left out.

One run is expected to be violated: it states what the repository says and the
code does not do, and has an entry under `findings`.

| run | a line of the repository says | the run shows |
|---|---|---|
| `job_cleanup` | the cleanup is for a failed attempt's leftovers | the second of two jobs wipes the cluster of the first |

Other differences between the code and its comments or documents that came up
while modelling; the models have these behaviours, no run states them:

- `RemoveCluster` "stops polling" (`poller.go:117`), but between the
  registration and the start of a poller it finds no cancel function, and the
  poller is then started and runs until the process ends; a second `AddCluster`
  of the same name leaves the first poller running in the same way.
- The merge is to "remove only what's gone" (`state.go:173`), but when only the
  guest request of a node fails, `fetchNode` goes on with an empty list
  (`poller.go:512`) and every guest of the node is removed until the next report.
- "Preserve acknowledgment if state hasn't changed" (`evaluator.go:297`): the
  upsert writes the acknowledgement as it was read; one made in between is lost.
- A page reloaded while the second factor is asked for: `HandleMe` answers 200
  with `requires_totp` and without a user (`auth/handlers.go:217`),
  `checkAuth` (`AuthContext.tsx:70`) takes every answer for signed in, and the
  application is shown although each of its requests is refused.
- The tree asks "Delete folder ...? Contents will be moved to parent."
  (`InventoryTree.tsx:1122`); `DeleteFolder` removes the children and
  memberships (`folders/db.go:362`, "CASCADE will remove children").
- A poll error after a snapshot that said running leaves the Ceph dialogs with
  polling ended and closing disabled (`Ceph.tsx:304`, `MayClose`).
- The buttons of the PVE cluster dialogs stay enabled while a request runs: a
  second submit starts a second job, and its interval takes the place of the
  first in `pollRef`.
- Changes typed while an apply is under way are dropped when it succeeds
  (`useConfigEditor.ts:139`).
- After the safety timeout of a clone the task shows running and the guest
  cannot be cloned again before a reload (`ClusterContext.tsx:344`).
- `AddCluster` picks the cluster's store before it takes `mu`, so `mu` does not
  serialise it against `RemoveCluster` as the comment on the field says.
- A poller whose discovery failed stays registered and is never restarted;
  `Reconcile` only removes, although `orchestrate.go:211` says that the poller
  "will catch up on next reconcile regardless".
- The migration monitor knows the clusters of `config.yaml` only: disk moves of
  clusters from the inventory are tracked and never checked; and a migration of
  such a cluster whose poller is removed or has not discovered a node is checked
  by nobody (`poller.go:889`) and stays in the table.
- A connection of an agent that breaks before it has registered leaves its
  `writePump` behind: `unregister` returns early (`hub.go:671`), nobody closes
  `done`, and nothing is ever sent to it. `ConnectionFreed` is about registered
  connections.
- The Ceph tabs read the list again after every change (`onRefresh`), but the
  answer is the topology of the last 30 s tick (`handlers.go:746`), so the
  change is not on it; the page shows it at one of its later polls. A part of
  the topology that could not be read is published as an empty list, although
  "a single endpoint hiccup shouldn't blank the whole topology view".
- A history entry whose INSERT fails is never written (`evaluator.go:317`); the
  notifications of the change go out.
- An entry that the monitor gives up because the task's status cannot be read
  is marked failed and never removed, unlike on the other failure path.
- The monitor may write `running` from a stale copy over a final status, so the
  delayed removal (`poller.go:930`, "so UI can see the final status") drops an
  entry that shows running; and when the poller sees the end first, no
  activity entry is written.
- Any error of the evaluator's SELECT is taken for a missing row, which resets
  an active alarm; samples in the hysteresis band neither count nor reset the
  "consecutive samples" of `alarms/types.go:41`.
- A delivery queued before an endpoint was auto-disabled overwrites the
  `auto_disabled` status that should explain it.

`PROJECT.json` lists the main hazards with the properties that cover them. Of
lesser weight, and met while modelling: `ForceRefresh` walks the poller registry
without its lock (`poller.go:268`); an alarm of a resource that stops, or of a
definition that is disabled, is never evaluated again (`evaluator.go:100`);
`ReconcileLegacy` deletes a host row and adds it again (`reconciler.go:258`);
the agent's old pumps may close a new connection or drop a result
(`client/websocket.go:136`, `:185`), which to the hub is a disconnect or a lost
answer; two revocations at once bring a row back (`Settings.tsx:365`); a list
read two seconds after a snapshot task was started may be read too early
(`SnapshotsTab.tsx:56`); `createRole`, `createTask` and the folder dialog have
no busy variable; overlapping clone polls free the id of a later clone
(`ClusterContext.tsx:326`); the first activity fetch replaces pushed entries
(`:213`); a failed logout keeps the session (`AuthContext.tsx:172`); a guest
action names no cluster (`ObjectDetail.tsx:129`); the hosts file is saved with
an empty digest (`ObjectDetail.tsx:676`); two folder moves at once can form a
cycle (`folders/service.go:118`).

Deadlock is checked where the system never rests. It is not checked where
connections, commands, AddCluster calls, events or jobs are bounded and may all
have ended (`AgentHub`, `PollerRegistry`, `Webhooks`, `PveClusterJobs`, and the modules
of the web UI, where the user may just look), and in `Alarms`, where a deleted
definition leaves nothing to do.

### Fairness

Weak fairness is assumed of goroutines that can run (pumps, handlers, checkers,
the worker, the job goroutines), of tickers (stale cleanup, reconcile,
evaluation) and of sleeping removal timers; Go schedules every runnable
goroutine, and each of the calls they make is bounded by a timeout. Nothing is
assumed of agents, users, receivers, the network or PVE: the properties that
need a task to have ended or a cluster to be quiet say so. In `ClusterState` a
node that is up answers, except for the bounded failures. In the browser,
requests are answered or fail (`fetchAPI` gives up after 30 s), timers and
intervals fire, and the event loop runs the code behind them; publishers
publish with every poll. `Tick` of `Wizards` has strong fairness because the
bound on requests in flight, which is the model's and not the program's,
disables it again and again. That jobs end is `JobAdvances` of
`PveClusterJobs`. `Panels` and `ConfigEditor` state no liveness: their
properties are about states at rest and about who will lower a flag.

## Proofs

What TLC checks on a small instance, the theorems state for every value of the
constants: any number of hosts, agents, jobs or browsers, any buffer, duration
or retry bound. The only assumptions are the `ASSUME` of each module: null
values are no members, bounds are numbers, and the few facts named below. Each
theorem has an inductive invariant, stated in the `...Proofs` module as a
conjunction of named parts, and a lemma that every action keeps it, with one
step per action.

`AgentHubProofs` (`HubAssumption`: commands have an agent; the send buffer holds
at least one):

- `TypeCorrect`: `Spec => []TypeOK`. `TypeOK` is not inductive: that a
  registration carries a key and comes first in an inbox (`InboxOK`), that a
  handler past its lookup has a connection (`TargetOK`), and that an unused
  connection has no goroutine (`FreshOK`) are needed with it.
- `RegistryCorrect`, `PanicCorrect`: `RegistryLive` and `NoPanic` strengthen
  each other. A connection can be closed once by `register` and once by
  `unregister`, and that never happens because the registry holds only
  connections that were not closed, each under its own key, so that being
  replaced and removing oneself exclude each other.
- `NewerSurvives`: the action property `NewerConnectionSurvives`, from the same
  invariant.
- `ResultCorrect`: `NoLostWakeup`, which a run checks, and `OneResult`, which is
  only proved, with the strengthening `UnsentIdle` that a command is pending,
  held by a readPump or in its channel only after its handler has sent it.
- `OnceCorrect`: `AtMostOnce`. A command is in at most one position of one send
  buffer or of one wire (`PlaceOK`), and what is in one of them was sent by its
  handler and has not been executed (`QueuedOK`). Without the first, moving a
  command from a buffer to a wire could leave a second copy behind.

`PollerRegistryProofs` (`RegistryAssumption`: names and pollers are different
things; the ticker is none of the goroutines that remove on request):

- `TypeCorrect`, with `NamesOK`: a remover has a name exactly while it removes.
- `RegisteredCorrect`: `RegisteredNotCancelled`. `RegisteredOK` says that a
  poller that was taken out of the registry is in it under no name, and that a
  context is cancelled only after it was set, after the registration.
- `StoreCorrect`: `StoreBacked`, whose exception for an `AddCluster` under way
  is first narrowed (`StoreInv`) to the steps before the registration, as from
  there on only a removal can take the poller away.

`MigrationsProofs` (`MigrationAssumption`: a task is a migration or a disk move):

- `TypeCorrect`; `CompletedCorrect`: `CompletedIsTrue`. The checkers write
  their stale copies back, so the truth of a table (`TruthOK`) must be stated
  of the poller's copy too, with `AnswerOK`: an answer that a task has ended
  stays true while it is held, as the end of a task is final.
- `LogCorrect`: `LoggedOnce`. Once an outcome is logged neither the table nor
  the monitor's copy lets the monitor ask about the task again (`LogOK`).

`AlarmsProofs` (`AlarmAssumption`: thresholds and values are numbers, durations
are between 1 and the cap `MaxCount`; the set of rules is any):

- `HistoryCorrect`: `HistoryMatches`, with any number of failing statements and
  restarts. Between its SELECT and its upsert the
  evaluator holds the instance as it is, or a new one if the SELECT failed,
  which puts the resource into `gap` (`ReadOK`); between the upsert and the
  history entry the row is what will be recorded (`SavedOK`); an entry that is
  not written puts it into `gap` as well, and the next one takes it out.
- `RaisedCorrect`: the action property `RaisedAfterDuration`. `CountOK` bounds
  the count, in the row and in the evaluator's hands, by the violating samples
  since the last clear one; `NextRowOK` says what `evaluateAlarm` writes.
- `TypeInvariant` (a lemma) is the typing both rest on.

`PveClusterJobsProofs` (`JobAssumption`: hosts and cluster names differ, the
hosts are finitely many). A lemma per step of `runJob` would repeat each proof
twenty times; instead `Transitions` shows once that whatever `runJob` does is a
move along `Edges`, a retry, taking or leaving a joiner, a failure or the
success (`Result`), and the invariants are proved over these:

- `TypeCorrect`: `TypeInv` adds to the types that a running job has its own
  hosts, a row from its inventory phase on, and joiners still to come that are
  among those it was given (`RunningOK`), that only a form job past its
  inventory has a row (`JobOK`), and that cluster names are unique (`RowsOK`).
- `FailedCorrect`: `FailedLeavesInventory`, from `TypeInv`.
- `PolledCorrect`: `PolledOnce`. Rewiring takes two steps, in one order for a
  new cluster and in the other for one that grows; `Undropped` and `Unadded`
  say which is still to come, and `PolledOK` excuses a host for exactly that,
  besides `late` and `unlisted`. `Beside` sums up `Reconcile` and `ActivateHost`,
  which touch nothing of a job.
- `AdvancesCorrect`: the action property `JobAdvances`. A variant over the
  phases and the number of joiners still to come goes down at every step, for
  any number of joiners; that is why the hosts must be finitely many.
- `SuccessCorrect`: `SuccessIsReal`. `StepsOK` names the steps a job has not
  been through (`Open`); all others have succeeded or were never seeded. For the
  membership the invariant speaks of single hosts and single clusters, so that
  what happens elsewhere does not matter. A host that was not `contested` is in
  one running job at most (`Alone`), in no inventory cluster before the job's
  inventory phase and in the job's after it (`Standing`); as a founder it is in
  the PVE cluster from the creation on and accepts the job's token
  (`FounderOK`), as a joiner it is there once the founder has listed it
  (`JoinerOK`). A cluster none of whose hosts was contested (`Clean`) has only
  nodes of its own jobs, which accept the founder's token, and its members are
  nodes whose rows hold it (`ClusterOK`). `Created` and `InTeam` say where PVE
  clusters and members come from, also of contested hosts: without them a
  foreign job could put a host into a clean cluster.

`LiveStateProofs` (`SessionAssumption`, `LiveAssumption`: there is a session, a
request may be in flight, a send channel holds at least one):

- `TypeCorrect`: types of the session and of what lives in it. `IdsOK` says that
  requests in flight have different ids and that the bound leaves one free.
- `TokenCorrect`: `TokenOfCookie`. `CallOK` says what the server's answers carry
  (the session of the request's cookie, or of the login; always one when the
  answer signs the page in); `SignedOK` is the property for a page that is
  signed in without being displayed, as it may become displayed by an answer
  that brings no token. `Answered` and `Page` sum up the handlers of the server
  and the continuations of the browser.
- `OutlivesCorrect`: `NothingOutlives`, which is inductive with the types: every step that opens a socket or connects a console is one of something
  that is mounted, and unmounting takes it away.

`ConfigEditorProofs` (`EditorAssumption`):

- `RegisterImplemented`: the refinement `ImplementsRegister`. A put that PVE has
  not decided stands for a write of the register; `CallOK` and `EditorOK` say
  that a digest belongs to the configuration shown with it, so that PVE's
  comparison of digests is the register's comparison of values. `IdsOK` counts
  the ids: there is always a fresh one, so that no request takes another's
  place. Every other step is a stutter.
- `BusyCorrect`: `BusyBacked`, from `Backed` and from `Single`: an editor has at
  most one apply or reload after it under way.
- `ConflictCorrect`: `NoFalseConflict`. While a browser is `calm`, what was
  loaded, what is to be applied and what is displayed are the configuration
  PVE has (`CalmCall`, `CalmEditor`), except while an answer of its own is
  still on its way (`Settled`).

`PanelsProofs` (`PanelsAssumption`: a request may be in flight; "none" is no
row). The theorems hold for every panel of the table, so what the descriptions
have in common is stated first: `WellFormed`, which `TableWellFormed` proves of
each of the forty, among it that a button that waits has a variable to wait
on, that the handlers sharing the variable have such buttons too and in the
same component, and that every handler that changes a list does something about
it afterwards. `Settles` and `OneCallAtATime` are therefore false of a table in
which one handler forgets.

- `TypeCorrect`, of the page and of the cache, with `CallsApart`: requests have numbers of their own, so that
  the answer to one takes no other away. The bound on requests counts those the
  user starts; the reading that follows a handler is made besides, and `IdsOK`
  shows that a number is left for it.
- `LoadingIsBacked`: `LoadingBacked`, inductive with the types.
- `OneCallAtATime`: `GuardedOnce`. A handler that runs belongs to a mounting
  that exists or existed (`BoundOK`), as long as its component stands its
  variable is set (`HeldOK`), and no other handler has the variable (`AloneOK`):
  two handlers that share one variable exclude each other, which is more than
  the property says and is what its induction needs.
- `Settles`: `PanelSettles`. While the panel is `calm`, one load is awaited at
  most (`OneWaiting`), the list is the server's or will be read again
  (`Catching`), and what a load has read is the server's list or will
  be read again (`FreshRead`); "will be read again" (`Owed`) is a timer, an
  answered request whose handler has still to read, or `behind`.
  `OutdatedList` shows that a list that changes behind the panel's back is
  `behind` or on its way to be read, `PublishList` that this covers the Ceph
  cache. A panel that filters its list instead of reading
  it needs an invariant of its own (`FilterInv`): its first load is alone, and
  the one handler that runs saw the list on display.

The attempt to prove `GuardedOnce` showed an error of the model, since
corrected: after a failed load has unmounted a tab of the Ceph page
(`Ceph.tsx:147`), a handler of the old mounting reset the variable of the new
one, and the button could be pressed a second time. In React setting the state
of an unmounted component does nothing. TLC had not found it because two steps
of the user are too few for it (with six, on the OSD tab alone, it does).
Mountings are now counted per component, and the property has no exception for
dialogs any more.

Only model-checked, and why:

- All liveness needs ENABLED and fairness, which the provers cannot handle:
  `WaitEnds`, `ConnectionFreed`, `OrphansCollected`, `StoreSettles`, `TasksDrain`,
  `CriticalIsRaised`, `EventSettles`, `SpinnerEnds`, `PollingEnds`, `CatchesUp`,
  `PollingStops`, `EndIsShown`.
- `CleansLeftoverOnly` is violated by the code.
- Not proved yet, though nothing stands in the way: `GuestSurvives`; `InOrder`
  and `DisabledAfterFullFailures`; `SubmittedWasChecked`.

No module uses RECURSIVE, so all of them can be proved about. The type
invariants of the backend modules are proved, but only the hub's is a property
of a run: a wrong type would break the properties that rest on it.

## Not modelled

Contents of messages and reports beyond what a property tells apart; ceph, HA,
SDN and summary fields of the store (plain overwrites); notification channels;
signatures; HTML, HTTP and JSON. Of the web UI: views that only display
(monitor tabs, charts, topology, task bar, activity list), the fields of forms
beyond what a list can tell apart (new, gone, changed), the form of
`CloneDialog` (the clone itself is in `LiveState`), the creation of a tag,
noVNC (third-party code). Of auth: lockout counters, password hashing and the
codes of the second factor. `PROJECT.json` gives the reason for every part. The effects of the PVE API are modelled from how the backend
uses it and marked external.

`PveClusterJobs` does not yet contain the inventory's membership reconciler,
which may promote a founder while its job is running, nor hosts that are added
or deleted; the statements about jobs are about jobs among themselves and beside
`Reconcile` of the poller, activations and restarts.

## Plan

1. Done: `AgentHub` with proofs, `PollerRegistry`, `ClusterState`,
   `Migrations`, `Alarms`, `Webhooks`, `PveClusterJobs`; `PanelTable`, `Panels`,
   `Session`, `LiveState`, `Wizards`, `ConfigEditor`, `OptimisticRegister`.
2. `AgentClient`: the agent's reconnect loop and pumps, then its composition
   with an abstract hub; an abstract command channel (a command is executed at
   most once, answered or expired) that `AgentHub` implements by refinement.
3. `Inventory`: hosts, clusters, routing of added hosts, the reconciler;
   composed with `PveClusterJobs` (both write cluster rows) and with
   `PollerRegistry` (Reconcile reads a stale list).
4. `Scheduler`, `CephJobs`, `Rollup`; operators checked against reference definitions for
   `Rbac`, `Drs` and the folder tree.
5. Proofs. Done: all safety properties of `AgentHub`, `PollerRegistry`,
   `Migrations`, `Alarms`, `PveClusterJobs` (but the one the code violates),
   `LiveState`, `ConfigEditor` and `Panels`. To do: `GuestSurvives`, the order
   of the webhook queue, `SubmittedWasChecked`.
