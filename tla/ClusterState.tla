---------------------------- MODULE ClusterState ----------------------------
(***************************************************************************)
(* The in-memory picture of one Proxmox cluster (ClusterStore) and the     *)
(* reports that keep it up to date. A report is what one node says about   *)
(* itself: pollNodeLoop fetches one per tick, ForceRefresh starts another  *)
(* fetch of every node beside it, and the agent on the node pushes its     *)
(* own. A report is read from the node at one moment and merged into the   *)
(* store at a later one, in whatever order the goroutines get there.       *)
(* VMs and containers are merged by the same code: a guest is either.      *)
(***************************************************************************)
EXTENDS Naturals

CONSTANTS
    Nodes, Guests,
    Sources,        \* a subset of {"poll", "refresh", "agent"}
    MaxChanges,     \* bound on what happens to guests and nodes
    MaxFailures,    \* bound on failing requests to a node that is up
    NoNode, Absent, Idle

ASSUME ClusterAssumption ==
    /\ "poll" \in Sources /\ Sources \subseteq {"poll", "refresh", "agent"}
    /\ MaxChanges \in Nat /\ MaxFailures \in Nat
    /\ NoNode \notin Nodes

VARIABLES
    world,      \* where each guest is and whether it has NICs
    up,         \* the nodes that answer
    vms,        \* ClusterStore.vms and .containers
    errors,     \* ClusterStore.errors: the nodes with an error
    report,     \* per source and node: the report read and not yet merged
    changes, failures

vars  == <<world, up, vms, errors, report, changes, failures>>
store == <<vms, errors>>

Slot   == Nodes \X Sources
Guest  == [node : Nodes, nics : BOOLEAN]
Report == [ok : BOOLEAN, vms : SUBSET Guests, nics : SUBSET Guests]

(* A report names only guests with NICs that it lists.                     *)
TypeOK ==
    /\ world \in [Guests -> [node : Nodes \cup {NoNode}, nics : BOOLEAN]]
    /\ up \in SUBSET Nodes
    /\ vms \in [Guests -> Guest \cup {Absent}]
    /\ errors \in SUBSET Nodes
    /\ report \in [Slot -> Report \cup {Idle}]
    /\ changes \in 0..MaxChanges
    /\ failures \in 0..MaxFailures
    /\ \A s \in Slot : report[s] # Idle => report[s].nics \subseteq report[s].vms

Init ==
    /\ world \in [Guests -> [node : Nodes \cup {NoNode}, nics : BOOLEAN]]
    /\ up = Nodes
    /\ vms = [g \in Guests |-> Absent]
    /\ errors = {}
    /\ report = [s \in Slot |-> Idle]
    /\ changes = 0
    /\ failures = 0

-----------------------------------------------------------------------------
(* Reading a node.                                                         *)

OnNode(n)   == {g \in Guests : world[g].node = n}
WithNICs(n) == {g \in OnNode(n) : world[g].nics}

Got(ok, list, nics) == [ok |-> ok, vms |-> list, nics |-> nics]

(* Every request of the fetch succeeds.                                    *)
FetchOk(n, src) ==
    /\ report[n, src] = Idle
    /\ n \in up
    /\ report' = [report EXCEPT ![n, src] = Got(TRUE, OnNode(n), WithNICs(n))]
    /\ UNCHANGED <<world, up, store, changes, failures>>

(* The node status request of fetchNode fails: always while the node is    *)
(* down, and now and then because of the ten-second timeout. The agent     *)
(* cannot report then, or reports the rest of its data all the same.       *)
FetchNodeErr(n, src) ==
    /\ src # "agent"
    /\ report[n, src] = Idle
    /\ \/ n \notin up /\ UNCHANGED failures
       \/ n \in up /\ failures < MaxFailures /\ failures' = failures + 1
    /\ report' = [report EXCEPT ![n, src] = Got(FALSE, {}, {})]
    /\ UNCHANGED <<world, up, store, changes>>

(* GetVMs (or GetContainers) fails. It is "non-critical": the error is     *)
(* logged, the list stays nil and the report is merged as it is.           *)
FetchVMsErr(n, src) ==
    /\ failures < MaxFailures
    /\ report[n, src] = Idle
    /\ n \in up
    /\ failures' = failures + 1
    /\ report' = [report EXCEPT ![n, src] = Got(TRUE, {}, {})]
    /\ UNCHANGED <<world, up, store, changes>>

(* fetchVMNICs: the config of some guest cannot be read.                   *)
FetchNICsErr(n, src, g) ==
    /\ failures < MaxFailures
    /\ report[n, src] = Idle
    /\ n \in up
    /\ g \in WithNICs(n)
    /\ failures' = failures + 1
    /\ report' = [report EXCEPT ![n, src] = Got(TRUE, OnNode(n), WithNICs(n) \ {g})]
    /\ UNCHANGED <<world, up, store, changes>>

-----------------------------------------------------------------------------
(* Merging a report.                                                       *)

(* Mutant: whatever the report does not list is removed. *)
Merge_removeAny(n, r) ==
    [g \in Guests |->
        IF g \in r.vms
        THEN [node |-> n,
              nics |-> g \in r.nics \/ (vms[g] # Absent /\ vms[g].nics)]
        ELSE Absent]

(* Mutant: nothing is removed. *)
Merge_keepAll(n, r) ==
    [g \in Guests |->
        IF g \in r.vms
        THEN [node |-> n,
              nics |-> g \in r.nics \/ (vms[g] # Absent /\ vms[g].nics)]
        ELSE vms[g]]

(* UpdateNode: update existing, add new, remove what was on this node.     *)
Merge(n, r) ==
    [g \in Guests |->
        IF g \in r.vms
        THEN [node |-> n,
              nics |-> g \in r.nics \/ (vms[g] # Absent /\ vms[g].nics)]
        ELSE IF vms[g] # Absent /\ vms[g].node = n THEN Absent
        ELSE vms[g]]

(* The end of fetchNode, and handleStatus: SetNodeError or UpdateNode.     *)
Apply(n, src) ==
    /\ report[n, src] # Idle
    /\ vms' = IF report[n, src].ok THEN Merge(n, report[n, src]) ELSE vms
    /\ errors' = IF report[n, src].ok THEN errors \ {n} ELSE errors \cup {n}
    /\ report' = [report EXCEPT ![n, src] = Idle]
    /\ UNCHANGED <<world, up, changes, failures>>

-----------------------------------------------------------------------------
(* What happens in the cluster: a guest is created, destroyed, migrated or *)
(* reconfigured; a node goes down or comes back (HA moves its guests).     *)

GuestChange(g) ==
    /\ changes < MaxChanges
    /\ changes' = changes + 1
    /\ \E n \in Nodes \cup {NoNode}, nics \in BOOLEAN :
          world' = [world EXCEPT ![g] = [node |-> n, nics |-> nics]]
    /\ world' # world
    /\ UNCHANGED <<up, store, report, failures>>

NodeChange(n) ==
    /\ changes < MaxChanges
    /\ changes' = changes + 1
    /\ up' = IF n \in up THEN up \ {n} ELSE up \cup {n}
    /\ UNCHANGED <<world, store, report, failures>>

-----------------------------------------------------------------------------
Poll(n) == FetchOk(n, "poll") \/ FetchNodeErr(n, "poll")

Next ==
    \/ \E n \in Nodes, src \in Sources :
          \/ FetchOk(n, src) \/ FetchNodeErr(n, src) \/ FetchVMsErr(n, src)
          \/ Apply(n, src)
          \/ \E g \in Guests : FetchNICsErr(n, src, g)
    \/ \E g \in Guests : GuestChange(g)
    \/ \E n \in Nodes : NodeChange(n)

(* pollNodeLoop polls every node again and again, and a report that was    *)
(* read is merged; refreshes and agents may be silent.                     *)
Spec ==
    /\ Init /\ [][Next]_vars
    /\ \A n \in Nodes : WF_vars(Poll(n))
    /\ \A n \in Nodes, src \in Sources : WF_vars(Apply(n, src))

-----------------------------------------------------------------------------
(* Correctness.                                                            *)

(* The store shows a guest where it is, with its NICs if it has any.       *)
Shown(g) ==
    /\ vms[g] # Absent
    /\ vms[g].node = world[g].node
    /\ world[g].nics => vms[g].nics

(* A report that is still to be merged places the guest elsewhere, or does *)
(* not list it on the node it is on.                                       *)
Contradicted(g) ==
    \E s \in Slot : /\ report[s] # Idle /\ report[s].ok
                    /\ (g \in report[s].vms) # (world[g].node = s[1])

(* A guest that the store shows rightly, with no stale report about it in  *)
(* flight, stays shown rightly until the guest itself changes or GetVMs    *)
(* of its own node fails.  Nothing else takes it out, moves it back or     *)
(* loses its NICs: no report of another node, full or empty, no node that  *)
(* goes down, no failing node status, no failing config request.           *)
GuestSurvives ==
    [][\A g \in Guests :
          Shown(g) /\ ~Contradicted(g)
          => \/ (Shown(g) /\ ~Contradicted(g))'
             \/ world'[g] # world[g]
             \/ \E src \in Sources : FetchVMsErr(world[g].node, src)]_vars

(* The store converges, however many stale reports are still being merged: *)
(* a guest that has come to rest on a node that stays up ends up on that   *)
(* node, a destroyed one disappears once all nodes answer, and a node has  *)
(* an error in the end just when it stays down.                            *)
StoreSettles ==
    /\ \A g \in Guests, n \in Nodes :
          <>[](world[g].node = n /\ n \in up)
          => <>[](vms[g] # Absent /\ vms[g].node = n)
    /\ \A g \in Guests :
          <>[](world[g].node = NoNode /\ up = Nodes) => <>[](vms[g] = Absent)
    /\ \A n \in Nodes : /\ <>[](n \in up) => <>[](n \notin errors)
                        /\ <>[](n \notin up) => <>[](n \in errors)
=============================================================================
