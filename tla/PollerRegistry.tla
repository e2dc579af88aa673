--------------------------- MODULE PollerRegistry ---------------------------
(***************************************************************************)
(* Which clusters the backend polls: the poller's registry of              *)
(* ClusterPollers, the state store's registry of ClusterStores, and the    *)
(* goroutines that add clusters (API handlers, the membership reconciler,  *)
(* cluster-formation jobs), remove them (jobs) and drop those that left    *)
(* the inventory (the 60 s Reconcile ticker).                              *)
(*                                                                         *)
(* The model starts where main has called Poller.Start: API server,        *)
(* reconciler and ticker only run after that.                              *)
(***************************************************************************)
EXTENDS Naturals, FiniteSets

CONSTANTS
    Names,      \* poller keys: PVE cluster names and "standalone:<id>"
    Insts,      \* AddCluster calls, each with the ClusterPoller it creates
    Removers,   \* goroutines that call RemoveCluster
    Ticker,     \* the one goroutine that calls Reconcile
    NoInst, NoName

ASSUME RegistryAssumption ==
    /\ NoInst \notin Insts /\ NoName \notin Names
    /\ Names \cap Insts = {}
    /\ Ticker \notin Removers

VARIABLES
    inventory,  \* names GetClusterConfigs returns
    clusters,   \* Poller.clusters
    store,      \* Store.clusters; a ClusterStore is named after its creator
    inst,       \* per ClusterPoller: its name
    phase,      \* per ClusterPoller: where its goroutine is
    hasCancel,  \* ClusterPollers whose cancel field is set
    cancelled,  \* ClusterPollers whose context has been cancelled
    rpc,        \* per removing goroutine: where it is in RemoveCluster
    rname,      \* the name it removes
    rinst,      \* the ClusterPoller it took out of the registry
    expected,   \* Ticker: the inventory names it read
    orphans     \* Ticker: the names it still has to remove

regVars == <<inst, phase, hasCancel>>
remVars == <<rpc, rname, rinst>>
tickVars == <<expected, orphans>>
vars == <<inventory, clusters, store, inst, phase, hasCancel,
          cancelled, rpc, rname, rinst, expected, orphans>>

Threads == Removers \cup {Ticker}

TypeOK ==
    /\ inventory \in SUBSET Names
    /\ clusters \in [Names -> Insts \cup {NoInst}]
    /\ store \in [Names -> Insts \cup Names \cup {NoInst}]
    /\ inst \in [Insts -> Names \cup {NoName}]
    /\ phase \in [Insts -> {"unused", "made", "registered", "discovering",
                            "polling", "exited"}]
    /\ hasCancel \in SUBSET Insts
    /\ cancelled \in SUBSET hasCancel
    /\ rpc \in [Threads -> {"idle", "read", "cancel", "drop"}]
    /\ rname \in [Threads -> Names \cup {NoName}]
    /\ rinst \in [Threads -> Insts \cup {NoInst}]
    /\ expected \in SUBSET Names
    /\ orphans \in SUBSET Names

Init ==
    /\ inventory = {}
    /\ clusters = [n \in Names |-> NoInst]
    /\ store = [n \in Names |-> NoInst]
    /\ inst = [i \in Insts |-> NoName]
    /\ phase = [i \in Insts |-> "unused"]
    /\ hasCancel = {}
    /\ cancelled = {}
    /\ rpc = [t \in Threads |-> "idle"]
    /\ rname = [t \in Threads |-> NoName]
    /\ rinst = [t \in Threads |-> NoInst]
    /\ expected = {}
    /\ orphans = {}

-----------------------------------------------------------------------------
(* The inventory and the agents.                                           *)

(* A host row that makes GetClusterConfigs return n appears or goes.       *)
InventoryChange(n) ==
    /\ inventory' \in {inventory \cup {n}, inventory \ {n}}
    /\ inventory' # inventory
    /\ UNCHANGED <<clusters, store, regVars, cancelled, remVars, tickVars>>

(* Store.GetOrCreateCluster: by is the identity of the ClusterStore it     *)
(* creates when there is none.                                             *)
GetOrCreateCluster(n, by) ==
    store' = [store EXCEPT ![n] = IF @ = NoInst THEN by ELSE @]

(* Hub.handleStatus writes a pushed status into the store.                 *)
AgentPush(n) ==
    /\ GetOrCreateCluster(n, n)
    /\ store' # store
    /\ UNCHANGED <<inventory, clusters, regVars, cancelled, remVars, tickVars>>

-----------------------------------------------------------------------------
(* AddCluster, in its three critical sections.  Its callers have written   *)
(* the inventory row before.                                               *)

AddCluster(i, n) ==
    /\ phase[i] = "unused"
    /\ n \in inventory
    /\ GetOrCreateCluster(n, i)
    /\ inst' = [inst EXCEPT ![i] = n]
    /\ phase' = [phase EXCEPT ![i] = "made"]
    /\ UNCHANGED <<inventory, clusters, hasCancel, cancelled, remVars, tickVars>>

(* Under Poller.mu; whatever was registered under the name is forgotten.   *)
AddRegister(i) ==
    /\ phase[i] = "made"
    /\ clusters' = [clusters EXCEPT ![inst[i]] = i]
    /\ phase' = [phase EXCEPT ![i] = "registered"]
    /\ UNCHANGED <<inventory, store, inst, hasCancel, cancelled,
                   remVars, tickVars>>

AddStart(i) ==
    /\ phase[i] = "registered"
    /\ hasCancel' = hasCancel \cup {i}
    /\ phase' = [phase EXCEPT ![i] = "discovering"]
    /\ UNCHANGED <<inventory, clusters, store, inst, cancelled,
                   remVars, tickVars>>

-----------------------------------------------------------------------------
(* The goroutines of a ClusterPoller.                                      *)

(* run: discoverNodes answers and the polling loops start, or it fails and *)
(* run returns.  With a cancelled context it fails.                        *)
Discover(i) ==
    /\ phase[i] = "discovering"
    /\ i \notin cancelled
    /\ phase' = [phase EXCEPT ![i] = "polling"]
    /\ UNCHANGED <<inventory, clusters, store, inst, hasCancel,
                   cancelled, remVars, tickVars>>

DiscoverFails(i) ==
    /\ phase[i] = "discovering"
    /\ phase' = [phase EXCEPT ![i] = "exited"]
    /\ UNCHANGED <<inventory, clusters, store, inst, hasCancel,
                   cancelled, remVars, tickVars>>

(* Every polling loop returns on ctx.Done and run's wg.Wait does.          *)
LoopsExit(i) ==
    /\ phase[i] = "polling"
    /\ i \in cancelled
    /\ phase' = [phase EXCEPT ![i] = "exited"]
    /\ UNCHANGED <<inventory, clusters, store, inst, hasCancel,
                   cancelled, remVars, tickVars>>

-----------------------------------------------------------------------------
(* RemoveCluster, in its three critical sections.                          *)

(* Mutant: the entry is looked up but not deleted. *)
RemoveLock_noDelete(t, n) ==
    /\ rpc[t] = "idle"
    /\ rpc' = [rpc EXCEPT ![t] = "cancel"]
    /\ rname' = [rname EXCEPT ![t] = n]
    /\ rinst' = [rinst EXCEPT ![t] = clusters[n]]
    /\ UNCHANGED clusters

RemoveLock(t, n) ==
    /\ rpc[t] = "idle"
    /\ rpc' = [rpc EXCEPT ![t] = "cancel"]
    /\ rname' = [rname EXCEPT ![t] = n]
    /\ rinst' = [rinst EXCEPT ![t] = clusters[n]]
    /\ clusters' = [clusters EXCEPT ![n] = NoInst]

(* An unknown name, or a ClusterPoller whose cancel is still nil, is not   *)
(* cancelled.                                                              *)
RemoveCancel(t) ==
    /\ rpc[t] = "cancel"
    /\ cancelled' = cancelled \cup ({rinst[t]} \cap hasCancel)
    /\ rpc' = [rpc EXCEPT ![t] = "drop"]
    /\ UNCHANGED <<inventory, clusters, store, regVars, rname, rinst, tickVars>>

(* Mutant: the accumulated state is kept. *)
RemoveStore_keep(t) ==
    /\ rpc[t] = "drop"
    /\ rpc' = [rpc EXCEPT ![t] = "idle"]
    /\ rname' = [rname EXCEPT ![t] = NoName]
    /\ rinst' = [rinst EXCEPT ![t] = NoInst]
    /\ UNCHANGED <<inventory, clusters, store, regVars, cancelled, tickVars>>

RemoveStore(t) ==
    /\ rpc[t] = "drop"
    /\ store' = [store EXCEPT ![rname[t]] = NoInst]
    /\ rpc' = [rpc EXCEPT ![t] = "idle"]
    /\ rname' = [rname EXCEPT ![t] = NoName]
    /\ rinst' = [rinst EXCEPT ![t] = NoInst]
    /\ UNCHANGED <<inventory, clusters, regVars, cancelled, tickVars>>

(* A formation or join job removes a pseudo-cluster or the cluster it is   *)
(* about to re-add.                                                        *)
RemoveCluster(t, n) ==
    /\ t \in Removers
    /\ RemoveLock(t, n)
    /\ UNCHANGED <<inventory, store, regVars, cancelled, tickVars>>

-----------------------------------------------------------------------------
(* The ticker: read the inventory, list the orphans under Poller.mu, then  *)
(* call RemoveCluster for each of them.                                    *)

TickRead ==
    /\ rpc[Ticker] = "idle"
    /\ orphans = {}
    /\ expected' = inventory
    /\ rpc' = [rpc EXCEPT ![Ticker] = "read"]
    /\ UNCHANGED <<inventory, clusters, store, regVars, cancelled, rname, rinst,
                   orphans>>

(* Mutant: the registered clusters that are expected are dropped. *)
Reconcile_inverted ==
    /\ rpc[Ticker] = "read"
    /\ orphans' = {n \in expected : clusters[n] # NoInst}
    /\ expected' = {}
    /\ rpc' = [rpc EXCEPT ![Ticker] = "idle"]
    /\ UNCHANGED <<inventory, clusters, store, regVars, cancelled, rname, rinst>>

Reconcile ==
    /\ rpc[Ticker] = "read"
    /\ orphans' = {n \in Names \ expected : clusters[n] # NoInst}
    /\ expected' = {}
    /\ rpc' = [rpc EXCEPT ![Ticker] = "idle"]
    /\ UNCHANGED <<inventory, clusters, store, regVars, cancelled, rname, rinst>>

ReconcileRemove(n) ==
    /\ n \in orphans
    /\ RemoveLock(Ticker, n)
    /\ orphans' = orphans \ {n}
    /\ UNCHANGED <<inventory, store, regVars, cancelled, expected>>

-----------------------------------------------------------------------------
Poll(i) == AddRegister(i) \/ AddStart(i) \/ Discover(i) \/ LoopsExit(i)
Remove(t) == RemoveCancel(t) \/ RemoveStore(t)
Tick == TickRead \/ Reconcile \/ \E n \in Names : ReconcileRemove(n)

Next ==
    \/ \E n \in Names : InventoryChange(n) \/ AgentPush(n)
    \/ \E i \in Insts, n \in Names : AddCluster(i, n)
    \/ \E i \in Insts : Poll(i)
    \/ \E i \in Insts : DiscoverFails(i)
    \/ \E t \in Removers, n \in Names : RemoveCluster(t, n)
    \/ \E t \in Threads : Remove(t)
    \/ Tick

(* Goroutines run; the ticker keeps ticking.  Whether discovery succeeds   *)
(* and what the inventory does is left open.                               *)
Fairness ==
    /\ \A i \in Insts : /\ WF_vars(Poll(i))
                        /\ WF_vars(i \in cancelled /\ DiscoverFails(i))
    /\ \A t \in Threads : WF_vars(Remove(t))
    /\ WF_vars(TickRead) /\ WF_vars(Reconcile)
    /\ \A n \in Names : WF_vars(ReconcileRemove(n))

Spec == Init /\ [][Next]_vars /\ Fairness

-----------------------------------------------------------------------------
(* Correctness.                                                            *)

Adding(n) == \E i \in Insts : inst[i] = n /\ phase[i] \in {"made", "registered"}
Removing(n) == \E t \in Threads : rname[t] = n

(* RemoveCluster never cancels a ClusterPoller that is registered: it      *)
(* cancels what it took out of the map, even when the name has been added  *)
(* again in the meantime.                                                  *)
RegisteredNotCancelled ==
    \A n \in Names : clusters[n] \notin cancelled

(* No stale state lingers: a cluster that AddCluster put into the state    *)
(* store belongs to a registered poller, unless a call that will change    *)
(* one of the two is under way; what agents push is not bound to a poller. *)
StoreBacked ==
    \A n \in Names :
        store[n] \in Insts => clusters[n] # NoInst \/ Adding(n) \/ Removing(n)

(* Reconcile collects the pollers of clusters that left the inventory for  *)
(* good: such a name does not stay registered.                             *)
OrphansCollected ==
    \A n \in Names :
        <>[](n \notin inventory) => <>[](clusters[n] = NoInst)
=============================================================================
