--------------------------- MODULE PveClusterJobs ---------------------------
(***************************************************************************)
(* Forming a Proxmox cluster out of standalone hosts, and joining more     *)
(* hosts to it: the jobs of pvecluster.Manager, each one a goroutine that  *)
(* works through its phases against the hosts, the inventory and the       *)
(* poller, with no rollback.  Jobs live in memory: a restart loses them    *)
(* wherever they are, and sets the poller up from the inventory; beside    *)
(* them Reconcile drops pollers, and ActivateHost adds one.                *)
(***************************************************************************)
EXTENDS Naturals, FiniteSets

CONSTANTS
    Hosts, Names, Jobs,
    MaxTries,       \* attempts to fetch the join information (8 and 5)
    MaxEvents,      \* bound on restarts, activations and ticks of Reconcile
    Leftover,       \* PVE cluster configuration of an earlier failed attempt
    NoName, NoHost, NoList, None

ASSUME JobAssumption ==
    /\ MaxTries \in Nat \ {0} /\ MaxEvents \in Nat
    /\ NoName \notin Names /\ NoHost \notin Hosts
    /\ Leftover \notin Jobs /\ None \notin Jobs /\ Leftover # None
    /\ Hosts \cap Names = {} /\ IsFiniteSet(Hosts)
    /\ \A names \in SUBSET (Hosts \cup Names) : NoList # names

VARIABLES
    job,        \* Manager.jobs: state, place in runJob, request
    step,       \* Job.Steps: per job, host and phase
    pve,        \* the PVE cluster each host is in, named after the job
    accepts,    \* /etc/pve/priv/token.cfg: whose token each host accepts
    cname,      \* clusters table: the name of the row a job created
    clusterOf,  \* inventory_hosts.cluster_id
    token,      \* inventory_hosts.token_*: the host that minted it
    contested,  \* hosts that a request named while they were in use (history)
    polled,     \* Poller.clusters; a host stands for "standalone:<id>"
    online,     \* inventory_hosts.status; the others are skipped
    listed,     \* the names Reconcile is about to be called with
    activating, \* the standalone host ActivateHost is testing
    unlisted,   \* clusters not on the list last applied (history)
    late,       \* hosts polled by an activation older than their move (history)
    events

inventory == <<cname, clusterOf, token>>
world == <<pve, accepts>>
setup == <<online, listed, activating, unlisted, late, events>>
vars == <<job, step, pve, accepts, cname, clusterOf, token, contested, polled,
          online, listed, activating, unlisted, late, events>>

Phases == {"create", "cleanup", "info", "join", "reauth", "inventory"}
PCs == {"auth", "create", "cleanup", "recreate", "await", "info", "next", "join",
        "wait", "reauth", "inventory", "addPoller", "dropPollers", "end"}

Job == [state : {"none", "running", "succeeded", "failed", "lost"},
        pc : PCs, kind : {"form", "join"}, name : Names \cup {NoName},
        cluster : Jobs \cup {None}, founder : Hosts \cup {NoHost},
        joiners : SUBSET Hosts, todo : SUBSET Hosts, cur : Hosts \cup {NoHost},
        tries : 0..MaxTries, tok : Hosts \cup {NoHost}, passed : BOOLEAN]

NewJob == [state |-> "none", pc |-> "end", kind |-> "form", name |-> NoName,
           cluster |-> None, founder |-> NoHost, joiners |-> {}, todo |-> {},
           cur |-> NoHost, tries |-> 0, tok |-> NoHost, passed |-> TRUE]

Rows == {c \in Jobs : cname[c] # NoName}

(* A step that was never seeded, such as the cleanup, is "none".           *)
TypeOK ==
    /\ job \in [Jobs -> Job]
    /\ step \in [Jobs -> [Hosts \X Phases ->
                    {"none", "pending", "running", "succeeded", "failed"}]]
    /\ pve \in [Hosts -> Jobs \cup {Leftover, None}]
    /\ accepts \in [Hosts -> Hosts]
    /\ cname \in [Jobs -> Names \cup {NoName}]
    /\ clusterOf \in [Hosts -> Jobs \cup {None}]
    /\ token \in [Hosts -> Hosts]
    /\ polled \in SUBSET (Hosts \cup Names)
    /\ contested \in SUBSET Hosts /\ online \in SUBSET Hosts
    /\ listed = NoList \/ listed \in SUBSET (Hosts \cup Names)
    /\ activating \in Hosts \cup {NoHost}
    /\ unlisted \in SUBSET Jobs /\ late \in SUBSET Hosts
    /\ events \in 0..MaxEvents
    /\ \A h \in Hosts : clusterOf[h] # None => clusterOf[h] \in Rows

(* Standalone hosts, polled as such if they are online; some carry the     *)
(* corosync configuration of an attempt that failed.                       *)
Init ==
    /\ job = [j \in Jobs |-> NewJob]
    /\ step = [j \in Jobs |-> [s \in Hosts \X Phases |-> "none"]]
    /\ pve \in [Hosts -> {Leftover, None}]
    /\ accepts = [h \in Hosts |-> h]
    /\ cname = [j \in Jobs |-> NoName]
    /\ clusterOf = [h \in Hosts |-> None]
    /\ token = [h \in Hosts |-> h]
    /\ contested = {}
    /\ online \in SUBSET Hosts /\ polled = online
    /\ listed = NoList /\ activating = NoHost
    /\ unlisted = {} /\ late = {}
    /\ events = 0

-----------------------------------------------------------------------------
(* Job bookkeeping.                                                        *)

At(j, pc) == job[j].state = "running" /\ job[j].pc = pc
HostsOf(j) == job[j].joiners \cup (IF job[j].kind = "form" THEN {job[j].founder} ELSE {})

Founder(j) == job[j].founder
Goto(j, pc) == job' = [job EXCEPT ![j].pc = pc]

(* Manager.fail.                                                           *)
Fail(j) == job' = [job EXCEPT ![j].state = "failed", ![j].pc = "end"]

(* startStep, succeedStep and failStep.                                    *)
SetStep(j, h, phase, s) == step' = [step EXCEPT ![j][<<h, phase>>] = s]
Advance(j, h, phase, h2, phase2) ==
    step' = [step EXCEPT ![j][<<h, phase>>] = "succeeded", ![j][<<h2, phase2>>] = "running"]

(* The API-token client built from the founder's row can talk to it.       *)
TokenOk(j) == job[j].tok = accepts[job[j].founder]

(* The steps the frontend shows from the first poll.                       *)
Seed(kind, f, joiners) ==
    [s \in Hosts \X Phases |->
        IF \/ s[1] = f /\ s[2] \in {"info", "inventory"}
           \/ s[1] = f /\ s[2] = "create" /\ kind = "form"
           \/ s[1] \in joiners /\ s[2] \in {"join", "reauth"}
        THEN "pending" ELSE "none"]

(* probeHost: the host answers its token, and its PVE cluster has no other *)
(* node.  Neither the inventory nor the running jobs are looked at.        *)
probeHost(h) ==
    /\ token[h] = accepts[h]
    /\ pve[h] \in Jobs => \A g \in Hosts : pve[g] = pve[h] => g = h

(* The dialog asks for the preflight, the server does not: a job records   *)
(* whether its request would have passed.                                  *)
Preflight(f, joiners) == f \notin joiners /\ \A h \in joiners \cup {f} : probeHost(h)
JoinHostsPreflight(joiners) == \A h \in joiners : clusterOf[h] = None /\ probeHost(h)

InUse(h) ==
    \/ clusterOf[h] # None
    \/ \E i \in Jobs : job[i].state = "running" /\ h \in HostsOf(i)

(* The hosts of a request are any hosts; only the name is looked up.       *)
StartJob(j, n, f, joiners) ==
    /\ job[j].state = "none"
    /\ \A c \in Jobs : cname[c] # n
    /\ job' = [job EXCEPT ![j] = [NewJob EXCEPT !.state = "running", !.pc = "auth",
                  !.name = n, !.cluster = j, !.founder = f, !.joiners = joiners,
                  !.tok = token[f], !.passed = Preflight(f, joiners)]]
    /\ step' = [step EXCEPT ![j] = Seed("form", f, joiners)]
    /\ contested' = contested \cup {h \in joiners \cup {f} : InUse(h)}
    /\ UNCHANGED <<world, inventory, polled, setup>>

(* The source is any member that is online; joiners are in no cluster yet. *)
StartJoinHostsJob(j, c, source, joiners) ==
    /\ job[j].state = "none"
    /\ c \in Rows
    /\ clusterOf[source] = c /\ source \in online
    /\ joiners # {}
    /\ \A h \in joiners : clusterOf[h] = None
    /\ job' = [job EXCEPT ![j] = [NewJob EXCEPT !.state = "running", !.pc = "info",
                  !.kind = "join", !.name = cname[c], !.cluster = c,
                  !.founder = source, !.joiners = joiners, !.todo = joiners,
                  !.tok = token[source], !.passed = JoinHostsPreflight(joiners)]]
    /\ step' = [step EXCEPT ![j] = [Seed("join", source, joiners)
                                      EXCEPT ![<<source, "info">>] = "running"]]
    /\ contested' = contested \cup {h \in joiners : InUse(h)}
    /\ UNCHANGED <<world, inventory, polled, setup>>

-----------------------------------------------------------------------------
(* Phase 1: create the cluster on the founder.                             *)

Authenticate(j) ==
    /\ At(j, "auth")
    /\ \/ Goto(j, "create") /\ SetStep(j, Founder(j), "create", "running")
       \/ Fail(j) /\ UNCHANGED step
    /\ UNCHANGED <<world, inventory, contested, polled, setup>>

CreateRejected(j) ==
    /\ Fail(j)
    /\ SetStep(j, Founder(j), "create", "failed")
    /\ UNCHANGED pve

(* PVE accepts the request only on a host without a cluster configuration; *)
(* "already exists" leads to the cleanup.                                  *)
Create(j) ==
    /\ At(j, "create")
    /\ \/ /\ pve[Founder(j)] = None
          /\ pve' = [pve EXCEPT ![Founder(j)] = j]
          /\ Goto(j, "await")
          /\ UNCHANGED step
       \/ /\ pve[Founder(j)] # None
          /\ Goto(j, "cleanup")
          /\ SetStep(j, Founder(j), "cleanup", "running")
          /\ UNCHANGED pve
       \/ CreateRejected(j)
    /\ UNCHANGED <<accepts, inventory, contested, polled, setup>>

(* cleanupCorosyncOverSSH; a script that fails may have done its work.     *)
Cleanup(j) ==
    /\ At(j, "cleanup")
    /\ \/ /\ pve' = [pve EXCEPT ![Founder(j)] = None]
          /\ Goto(j, "recreate")
          /\ SetStep(j, Founder(j), "cleanup", "succeeded")
       \/ /\ pve' \in {pve, [pve EXCEPT ![Founder(j)] = None]}
          /\ Fail(j)
          /\ step' = [step EXCEPT ![j][<<Founder(j), "cleanup">>] = "failed",
                                  ![j][<<Founder(j), "create">>] = "failed"]
    /\ UNCHANGED <<accepts, inventory, contested, polled, setup>>

(* Re-authenticate and create once more; a second "already exists" is an   *)
(* error like any other.                                                   *)
Recreate(j) ==
    /\ At(j, "recreate")
    /\ \/ /\ pve[Founder(j)] = None
          /\ pve' = [pve EXCEPT ![Founder(j)] = j]
          /\ Goto(j, "await")
          /\ UNCHANGED step
       \/ CreateRejected(j)
    /\ UNCHANGED <<accepts, inventory, contested, polled, setup>>

(* WaitForTask, 90 s.  A task that fails or is not seen to end leaves the  *)
(* configuration behind or not.                                            *)
AwaitCreate(j) ==
    /\ At(j, "await")
    /\ \/ /\ TokenOk(j)
          /\ Goto(j, "info")
          /\ Advance(j, Founder(j), "create", Founder(j), "info")
          /\ UNCHANGED pve
       \/ /\ Fail(j)
          /\ SetStep(j, Founder(j), "create", "failed")
          /\ pve' \in {pve, [pve EXCEPT ![Founder(j)] = IF @ = j THEN None ELSE @]}
    /\ UNCHANGED <<accepts, inventory, contested, polled, setup>>

-----------------------------------------------------------------------------
(* Phase 2: the join information, in a bounded number of attempts.         *)

FetchJoinInfo(j) ==
    /\ At(j, "info")
    /\ pve[Founder(j)] # None
    /\ job[j].kind = "join" => TokenOk(j)
    /\ job' = [job EXCEPT ![j].pc = "next", ![j].todo = job[j].joiners,
                            ![j].tries = 0]
    /\ SetStep(j, Founder(j), "info", "succeeded")
    /\ UNCHANGED <<world, inventory, contested, polled, setup>>

(* Mutant: the attempts start over. *)
FetchFails_forever(j) ==
    /\ At(j, "info")
    /\ job' = [job EXCEPT ![j].tries = (@ + 1) % MaxTries]
    /\ UNCHANGED <<step, world, inventory, contested, polled, setup>>

(* Try again, give up after the last attempt, or end with the context,     *)
(* which leaves the step running.                                          *)
FetchFails(j) ==
    /\ At(j, "info")
    /\ \/ /\ job[j].tries + 1 < MaxTries
          /\ job' = [job EXCEPT ![j].tries = @ + 1]
          /\ UNCHANGED step
       \/ /\ job[j].tries + 1 = MaxTries
          /\ Fail(j)
          /\ SetStep(j, Founder(j), "info", "failed")
       \/ /\ Fail(j)
          /\ UNCHANGED step
    /\ UNCHANGED <<world, inventory, contested, polled, setup>>

-----------------------------------------------------------------------------
(* Phase 3: joinOne for one joiner after the other.                        *)

NextJoiner(j, h) ==
    /\ At(j, "next")
    /\ h \in job[j].todo
    /\ job' = [job EXCEPT ![j].pc = "join", ![j].cur = h, ![j].todo = @ \ {h}]
    /\ SetStep(j, h, "join", "running")
    /\ UNCHANGED <<world, inventory, contested, polled, setup>>

(* The joiner's /etc/pve, tokens included, is replaced by the founder's.   *)
Joined(j) ==
    /\ pve[job[j].cur] = None
    /\ pve[Founder(j)] # None
    /\ pve' = [pve EXCEPT ![job[j].cur] = pve[Founder(j)]]
    /\ accepts' = [accepts EXCEPT ![job[j].cur] = accepts[Founder(j)]]

JoinFailed(j) == Fail(j) /\ SetStep(j, job[j].cur, "join", "failed")

(* PVE takes only a host without a cluster into the founder's cluster.     *)
(* An error that looks like the proxy restarting counts as submitted; any  *)
(* other error ends the job, although the join may have gone through.      *)
Join(j) ==
    /\ At(j, "join")
    /\ Joined(j) \/ UNCHANGED world
    /\ \/ Goto(j, "wait") /\ UNCHANGED step
       \/ JoinFailed(j)
    /\ UNCHANGED <<inventory, contested, polled, setup>>

(* Mutant: the joiner is not waited for. *)
WaitForMembership_skip(j) ==
    /\ At(j, "wait")
    /\ Goto(j, "reauth")
    /\ Advance(j, job[j].cur, "join", job[j].cur, "reauth")
    /\ UNCHANGED <<world, inventory, contested, polled, setup>>

(* waitForMembership: the founder lists the joiner as online, or 180 s     *)
(* pass.                                                                   *)
WaitForMembership(j) ==
    /\ At(j, "wait")
    /\ \/ /\ TokenOk(j)
          /\ pve[job[j].cur] = pve[Founder(j)] /\ pve[Founder(j)] # None
          /\ Goto(j, "reauth")
          /\ Advance(j, job[j].cur, "join", job[j].cur, "reauth")
       \/ JoinFailed(j)
    /\ UNCHANGED <<world, inventory, contested, polled, setup>>

(* The joiner's row gets the token the founder's row had when the job      *)
(* started; UpdateHost may fail.  The row is read back at once for         *)
(* TokenUpdates.                                                           *)
Reauth(j) ==
    /\ At(j, "reauth")
    /\ \/ /\ token' = [token EXCEPT ![job[j].cur] = job[j].tok]
          /\ job' = [job EXCEPT ![j].pc = "next", ![j].cur = NoHost]
          /\ SetStep(j, job[j].cur, "reauth", "succeeded")
       \/ /\ Fail(j)
          /\ SetStep(j, job[j].cur, "reauth", "failed")
          /\ UNCHANGED token
    /\ UNCHANGED <<world, cname, clusterOf, contested, polled, setup>>

JoinersDone(j) ==
    /\ At(j, "next")
    /\ job[j].todo = {}
    /\ Goto(j, "inventory")
    /\ SetStep(j, Founder(j), "inventory", "running")
    /\ UNCHANGED <<world, inventory, contested, polled, setup>>

-----------------------------------------------------------------------------
(* Phases 4 and 5: the inventory, in one transaction, then the poller.     *)

MoveHosts(j) ==
    /\ clusterOf' = [h \in Hosts |-> IF h \in HostsOf(j) THEN job[j].cluster
                                                         ELSE clusterOf[h]]
    /\ token' = [h \in Hosts |-> IF h \in job[j].joiners THEN job[j].tok ELSE token[h]]

(* Mutant: the row is inserted outside the transaction that moves the      *)
(* hosts. *)
FormClusterFromHosts_noTx(j) ==
    /\ At(j, "inventory")
    /\ job[j].kind = "form"
    /\ \A c \in Rows : cname[c] # job[j].name
    /\ cname' = [cname EXCEPT ![j] = job[j].name]
    /\ \/ /\ MoveHosts(j)
          /\ Goto(j, "addPoller")
          /\ SetStep(j, Founder(j), "inventory", "succeeded")
       \/ /\ Fail(j)
          /\ SetStep(j, Founder(j), "inventory", "failed")
          /\ UNCHANGED <<clusterOf, token>>
    /\ UNCHANGED <<world, contested, polled, setup>>

(* The name is UNIQUE in the clusters table.                               *)
FormClusterFromHosts(j) ==
    /\ At(j, "inventory")
    /\ job[j].kind = "form"
    /\ \A c \in Rows : cname[c] # job[j].name
    /\ cname' = [cname EXCEPT ![j] = job[j].name]
    /\ MoveHosts(j)
    /\ Goto(j, "addPoller")
    /\ SetStep(j, Founder(j), "inventory", "succeeded")
    /\ UNCHANGED <<world, contested, polled, setup>>

AddHostsToCluster(j) ==
    /\ At(j, "inventory")
    /\ job[j].kind = "join"
    /\ MoveHosts(j)
    /\ Goto(j, "dropPollers")
    /\ SetStep(j, Founder(j), "inventory", "succeeded")
    /\ UNCHANGED <<world, cname, contested, polled, setup>>

(* A taken name, a host row that is gone, or any other database error: the *)
(* transaction is rolled back.                                             *)
InventoryFails(j) ==
    /\ At(j, "inventory")
    /\ Fail(j)
    /\ SetStep(j, Founder(j), "inventory", "failed")
    /\ UNCHANGED <<world, inventory, contested, polled, setup>>

Succeed(j) == job' = [job EXCEPT ![j].state = "succeeded", ![j].pc = "end"]

(* A new cluster is added before the pseudo-clusters of its hosts go; an   *)
(* existing one is removed and added to force a new discovery.             *)
AddPoller(j) ==
    /\ At(j, "addPoller")
    /\ polled' = polled \cup {job[j].name}
    /\ unlisted' = unlisted \ {job[j].cluster}
    /\ IF job[j].kind = "form" THEN Goto(j, "dropPollers") ELSE Succeed(j)
    /\ UNCHANGED <<step, world, inventory, contested, online, listed, activating, late,
                   events>>

(* Mutant: the pollers of the standalone hosts go on. *)
DropPollers_keep(j) ==
    /\ At(j, "dropPollers")
    /\ polled' = polled \ (IF job[j].kind = "join" THEN {job[j].name} ELSE {})
    /\ late' = late \ HostsOf(j)
    /\ IF job[j].kind = "form" THEN Succeed(j) ELSE Goto(j, "addPoller")
    /\ UNCHANGED <<step, world, inventory, contested, online, listed, activating, unlisted,
                   events>>

DropPollers(j) ==
    /\ At(j, "dropPollers")
    /\ polled' = polled \ (HostsOf(j) \cup
                           (IF job[j].kind = "join" THEN {job[j].name} ELSE {}))
    /\ late' = late \ HostsOf(j)
    /\ IF job[j].kind = "form" THEN Succeed(j) ELSE Goto(j, "addPoller")
    /\ UNCHANGED <<step, world, inventory, contested, online, listed, activating, unlisted,
                   events>>

-----------------------------------------------------------------------------
(* The others that set pollers up.                                         *)

(* GetClusterConfigs: clusters with a member that is online, and online    *)
(* standalone hosts.  Clusters that jobs form are active and enabled; a    *)
(* host without a stored secret counts as not online.                      *)
GetClusterConfigs ==
    {h \in online : clusterOf[h] = None} \cup
    {cname[c] : c \in {c \in Rows : \E h \in online : clusterOf[h] = c}}

Missing(names) == {c \in Rows : cname[c] \notin names}

(* Every 60 s the names are read, and then Reconcile drops what is not     *)
(* among them.  It adds nothing.                                           *)
ReconcileTick ==
    /\ events < MaxEvents
    /\ listed = NoList
    /\ events' = events + 1
    /\ listed' = GetClusterConfigs
    /\ UNCHANGED <<job, step, world, inventory, contested, polled, online, activating,
                   unlisted, late>>

Reconcile ==
    /\ listed # NoList
    /\ polled' = polled \cap listed
    /\ unlisted' = unlisted \cup Missing(listed)
    /\ late' = late \cap listed
    /\ listed' = NoList
    /\ UNCHANGED <<job, step, world, inventory, contested, online, activating,
                   events>>

(* ActivateHost reads the host's row, tests the connection for up to 15 s, *)
(* sets the status and, for what was a standalone host, adds a poller.     *)
ActivateHost(h) ==
    /\ events < MaxEvents
    /\ activating = NoHost
    /\ events' = events + 1
    /\ IF clusterOf[h] = None
       THEN activating' = h /\ UNCHANGED online
       ELSE online' \in {online \ {h}, online \cup {h}} /\ UNCHANGED activating
    /\ UNCHANGED <<job, step, world, inventory, contested, polled, listed, unlisted,
                   late>>

Activated ==
    /\ activating # NoHost
    /\ \/ online' = online \ {activating} /\ UNCHANGED <<polled, late>>
       \/ /\ online' = online \cup {activating}
          /\ polled' = polled \cup {activating}
          /\ late' = IF clusterOf[activating] = None THEN late
                     ELSE late \cup {activating}
    /\ activating' = NoHost
    /\ UNCHANGED <<job, step, world, inventory, contested, listed, unlisted, events>>

(* The backend restarts: the jobs are gone, the poller is set up from the  *)
(* inventory.                                                              *)
Restart ==
    /\ events < MaxEvents
    /\ events' = events + 1
    /\ job' = [j \in Jobs |-> IF job[j].state = "running"
                              THEN [job[j] EXCEPT !.state = "lost", !.pc = "end"]
                              ELSE job[j]]
    /\ polled' = GetClusterConfigs
    /\ unlisted' = Missing(GetClusterConfigs)
    /\ listed' = NoList /\ activating' = NoHost /\ late' = {}
    /\ UNCHANGED <<step, world, inventory, contested, online>>

-----------------------------------------------------------------------------
runJob(j) ==
    \/ Authenticate(j) \/ Create(j) \/ Cleanup(j) \/ Recreate(j) \/ AwaitCreate(j)
    \/ FetchJoinInfo(j) \/ FetchFails(j)
    \/ \E h \in Hosts : NextJoiner(j, h)
    \/ Join(j) \/ WaitForMembership(j) \/ Reauth(j) \/ JoinersDone(j)
    \/ FormClusterFromHosts(j) \/ AddHostsToCluster(j) \/ InventoryFails(j)
    \/ AddPoller(j) \/ DropPollers(j)

Next ==
    \/ \E j \in Jobs :
          \/ runJob(j)
          \/ \E n \in Names, f \in Hosts, joiners \in SUBSET Hosts :
                StartJob(j, n, f, joiners)
          \/ \E c \in Jobs, f \in Hosts, joiners \in SUBSET Hosts :
                StartJoinHostsJob(j, c, f, joiners)
    \/ ReconcileTick \/ Reconcile
    \/ (\E h \in Hosts : ActivateHost(h)) \/ Activated
    \/ Restart

(* The goroutine of a job runs, and every call it makes ends with an       *)
(* answer or a timeout.                                                    *)
Spec == Init /\ [][Next]_vars /\ \A j \in Jobs : WF_vars(runJob(j))

-----------------------------------------------------------------------------
(* Correctness.                                                            *)

Rewiring(j) == job[j].state = "running" /\ job[j].pc \in {"addPoller", "dropPollers"}

(* The inventory is all or nothing: a job that failed created no row and   *)
(* no host belongs to it.                                                  *)
FailedLeavesInventory ==
    \A j \in Jobs : job[j].state = "failed" =>
        cname[j] = NoName /\ \A h \in Hosts : clusterOf[h] # j

(* A host that belongs to a cluster is not polled as a standalone host as  *)
(* well ("surface in the UI as duplicates"), unless an activation that     *)
(* read its row before it was moved adds the poller afterwards.  A cluster *)
(* with members is polled, unless the list of a restart or of Reconcile    *)
(* lacked it: no member was online, or the list was older than the row.    *)
(* Both but for a job that is just rewiring the poller, and also after a   *)
(* restart in the middle of a job.                                         *)
PolledOnce ==
    /\ \A h \in Hosts :
          clusterOf[h] # None /\ (\A j \in Jobs : ~(Rewiring(j) /\ h \in HostsOf(j)))
          => h \notin polled \/ h \in late
    /\ \A h \in Hosts :
          clusterOf[h] # None
          /\ (\A j \in Jobs : ~(Rewiring(j) /\ job[j].cluster = clusterOf[h]))
          => cname[clusterOf[h]] \in polled \/ clusterOf[h] \in unlisted

(* A bound on the steps a running job has left: the phases before the      *)
(* joins, four steps for each joiner, the phases after them, and the       *)
(* attempts of phase 2.                                                    *)
Place(j) ==
    LET place == [auth |-> 11, create |-> 10, cleanup |-> 9, recreate |-> 8, await |-> 7,
                  info |-> 6, join |-> 7, wait |-> 6, reauth |-> 5, next |-> 4,
                  inventory |-> 3, addPoller |-> IF job[j].kind = "form" THEN 2 ELSE 1,
                  dropPollers |-> IF job[j].kind = "form" THEN 1 ELSE 2, end |-> 0]
    IN  place[job[j].pc]

StepsLeft(j) ==
    Place(j) + IF job[j].pc \in {"auth", "create", "cleanup", "recreate", "await", "info"}
               THEN 4 * Cardinality(job[j].joiners) + (MaxTries - job[j].tries)
               ELSE 4 * Cardinality(job[j].todo)

(* Every step of a job brings it closer to its end, the retries and the    *)
(* detour over the cleanup included: no phase loops.                       *)
JobAdvances ==
    [][\A j \in Jobs :
          job[j].state = "running" /\ job'[j].state = "running" /\ job'[j] # job[j]
          => StepsLeft(j)' < StepsLeft(j)]_vars

(* The hosts of all jobs about one cluster.                                *)
Team(c) == UNION {HostsOf(j) : j \in {j \in Jobs : job[j].cluster = c}}

(* Success is real: a job that reports it has every one of its steps       *)
(* succeeded, the cleanup it may have inserted included, and its hosts are *)
(* members of one PVE cluster and of one inventory cluster, with rows that *)
(* hold a token they accept, although joining replaced the one they had.   *)
(* The membership is lost only in a cluster one of whose hosts was named   *)
(* by a request while it belonged to a cluster or to a running job, which  *)
(* neither the server nor the preflight looks at (see CleansLeftoverOnly); *)
(* what other requests do to other hosts, and what earlier attempts left   *)
(* on these, does not matter.                                              *)
SuccessIsReal ==
    \A j \in Jobs : job[j].state = "succeeded" =>
        /\ \A s \in Hosts \X Phases : step[j][s] \in {"none", "succeeded"}
        /\ Team(job[j].cluster) \cap contested = {} =>
             \A h \in HostsOf(j) :
                /\ clusterOf[h] = job[j].cluster
                /\ pve[h] = job[j].cluster
                /\ token[h] = accepts[h]

(* The cleanup is for what "a previous failed attempt left": as long as    *)
(* every request passes the preflight, it never takes a host out of a      *)
(* cluster that a job has formed or is forming.                            *)
CleansLeftoverOnly ==
    [][\A h \in Hosts :
          (\A j \in Jobs : job[j].passed) /\ pve[h] \in Jobs /\ pve'[h] = None
          => job'[pve[h]].state \in {"failed", "lost"}]_vars
=============================================================================
