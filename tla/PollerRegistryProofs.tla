------------------------ MODULE PollerRegistryProofs ------------------------
(***************************************************************************)
(* Proofs about the poller registry, for any number of cluster names,      *)
(* AddCluster calls and removing goroutines.                               *)
(***************************************************************************)
EXTENDS PollerRegistry, TLAPS

(* A goroutine has a name exactly while it is inside RemoveCluster, and an *)
(* AddCluster call that has made its ClusterPoller knows the name.         *)
NamesOK ==
    /\ \A t \in Threads : /\ rpc[t] \in {"idle", "read"} => rname[t] = NoName
                          /\ rpc[t] \in {"cancel", "drop"} => rname[t] \in Names
    /\ \A i \in Insts : phase[i] # "unused" => inst[i] \in Names

TypeInv == TypeOK /\ NamesOK

(* What is in the registry has been registered under its own name; what a  *)
(* remover holds has been registered once and is in the registry no more.  *)
RegisteredOK ==
    /\ \A n \in Names : clusters[n] # NoInst =>
          /\ inst[clusters[n]] = n
          /\ phase[clusters[n]] \notin {"unused", "made"}
    /\ \A t \in Threads : rinst[t] # NoInst =>
          /\ phase[rinst[t]] \notin {"unused", "made"}
          /\ \A n \in Names : clusters[n] # rinst[t]
    /\ \A i \in hasCancel : phase[i] \notin {"unused", "made", "registered"}

(* StoreBacked without its appeal to an AddCluster that has registered:    *)
(* from there on only a RemoveCluster takes the poller away again.         *)
StoreInv ==
    \A n \in Names :
        store[n] \in Insts =>
            \/ clusters[n] # NoInst
            \/ \E i \in Insts : inst[i] = n /\ phase[i] = "made"
            \/ Removing(n)

-----------------------------------------------------------------------------
(* TypeInv is inductive: RemoveStore and AddRegister index by a name they  *)
(* took from another step, and NamesOK says that it is one.                *)
LEMMA TypeInvariant == Spec => []TypeInv
<1>1. Init => TypeInv
  BY RegistryAssumption DEF Init, TypeInv, TypeOK, NamesOK
<1>2. TypeInv /\ [Next]_vars => TypeInv'
  <2> SUFFICES ASSUME TypeInv, [Next]_vars PROVE TypeInv'
    OBVIOUS
  <2> USE RegistryAssumption
      DEF TypeInv, TypeOK, NamesOK, Threads, regVars, remVars, tickVars
  <2>1. ASSUME NEW n \in Names, InventoryChange(n) PROVE TypeInv'
    BY <2>1 DEF InventoryChange
  <2>2. ASSUME NEW n \in Names, AgentPush(n) PROVE TypeInv'
    BY <2>2 DEF AgentPush, GetOrCreateCluster
  <2>3. ASSUME NEW i \in Insts, NEW n \in Names, AddCluster(i, n) PROVE TypeInv'
    BY <2>3 DEF AddCluster, GetOrCreateCluster
  <2>4. ASSUME NEW i \in Insts, AddRegister(i) PROVE TypeInv'
    BY <2>4 DEF AddRegister
  <2>5. ASSUME NEW i \in Insts, AddStart(i) PROVE TypeInv'
    BY <2>5 DEF AddStart
  <2>6. ASSUME NEW i \in Insts, Discover(i) \/ DiscoverFails(i) \/ LoopsExit(i)
        PROVE  TypeInv'
    BY <2>6 DEF Discover, DiscoverFails, LoopsExit
  <2>7. ASSUME NEW t \in Threads, NEW n \in Names, RemoveLock(t, n),
               UNCHANGED <<inventory, store, regVars, cancelled, expected>>,
               orphans' \in SUBSET Names
        PROVE  TypeInv'
    BY <2>7 DEF RemoveLock
  <2>8. ASSUME NEW t \in Threads, RemoveCancel(t) PROVE TypeInv'
    BY <2>8 DEF RemoveCancel
  <2>9. ASSUME NEW t \in Threads, RemoveStore(t) PROVE TypeInv'
    BY <2>9 DEF RemoveStore
  <2>10. CASE TickRead
    BY <2>10 DEF TickRead
  <2>11. CASE Reconcile
    BY <2>11 DEF Reconcile
  <2>12. ASSUME NEW t \in Removers, NEW n \in Names, RemoveCluster(t, n)
         PROVE  TypeInv'
    BY <2>7, <2>12 DEF RemoveCluster
  <2>13. ASSUME NEW n \in Names, ReconcileRemove(n) PROVE TypeInv'
    BY <2>7, <2>13 DEF ReconcileRemove
  <2>14. CASE UNCHANGED vars
    BY <2>14 DEF vars
  <2>15. QED
    BY <2>1, <2>2, <2>3, <2>4, <2>5, <2>6, <2>8, <2>9, <2>10, <2>11, <2>12,
       <2>13, <2>14
    DEF Next, Poll, Remove, Tick
<1>3. QED
  BY <1>1, <1>2, PTL DEF Spec

(* The registry keeps its types: every entry of Poller.clusters, of the    *)
(* state store and of a removing goroutine's locals is what the code       *)
(* declares, and a context is cancelled only through a cancel that is set. *)
THEOREM TypeCorrect == Spec => []TypeOK
<1>1. TypeInv => TypeOK
  BY DEF TypeInv
<1>2. QED
  BY <1>1, TypeInvariant, PTL

-----------------------------------------------------------------------------
(* RemoveCluster cancels what it took out of Poller.clusters under the     *)
(* lock; however AddCluster, Reconcile and other removers interleave with  *)
(* its later steps, that is never a poller the registry holds.             *)
THEOREM RegisteredCorrect == Spec => []RegisteredNotCancelled
<1> DEFINE Inv == RegisteredOK /\ RegisteredNotCancelled
<1>1. Init => Inv
  BY RegistryAssumption DEF Init, RegisteredOK, RegisteredNotCancelled
<1>2. TypeInv /\ Inv /\ [Next]_vars => Inv'
  <2> SUFFICES ASSUME TypeInv, Inv, [Next]_vars PROVE Inv'
    OBVIOUS
  <2> USE RegistryAssumption
      DEF RegisteredOK, RegisteredNotCancelled, TypeInv, TypeOK, NamesOK,
          Threads, regVars, remVars, tickVars
  <2>1. ASSUME NEW n \in Names, InventoryChange(n) \/ AgentPush(n) PROVE Inv'
    BY <2>1 DEF InventoryChange, AgentPush
  <2>2. ASSUME NEW i \in Insts, NEW n \in Names, AddCluster(i, n) PROVE Inv'
    BY <2>2 DEF AddCluster
  <2>3. ASSUME NEW i \in Insts, AddRegister(i) PROVE Inv'
    BY <2>3 DEF AddRegister
  <2>4. ASSUME NEW i \in Insts, AddStart(i) PROVE Inv'
    BY <2>4 DEF AddStart
  <2>5. ASSUME NEW i \in Insts, Discover(i) \/ DiscoverFails(i) \/ LoopsExit(i)
        PROVE  Inv'
    BY <2>5 DEF Discover, DiscoverFails, LoopsExit
  <2>6. ASSUME NEW t \in Threads, NEW n \in Names, RemoveLock(t, n),
               UNCHANGED <<inst, phase, hasCancel, cancelled>>
        PROVE  Inv'
    BY <2>6 DEF RemoveLock
  <2>7. ASSUME NEW t \in Threads, RemoveCancel(t) PROVE Inv'
    BY <2>7 DEF RemoveCancel
  <2>8. ASSUME NEW t \in Threads, RemoveStore(t) PROVE Inv'
    BY <2>8 DEF RemoveStore
  <2>9. CASE TickRead \/ Reconcile
    BY <2>9 DEF TickRead, Reconcile
  <2>10. ASSUME NEW t \in Removers, NEW n \in Names, RemoveCluster(t, n)
         PROVE  Inv'
    BY <2>6, <2>10 DEF RemoveCluster
  <2>11. ASSUME NEW n \in Names, ReconcileRemove(n) PROVE Inv'
    BY <2>6, <2>11 DEF ReconcileRemove
  <2>12. CASE UNCHANGED vars
    BY <2>12 DEF vars
  <2>13. QED
    BY <2>1, <2>2, <2>3, <2>4, <2>5, <2>7, <2>8, <2>9, <2>10, <2>11, <2>12
    DEF Next, Poll, Remove, Tick
<1>3. QED
  BY <1>1, <1>2, TypeInvariant, PTL DEF Spec

-----------------------------------------------------------------------------
(* A ClusterStore that AddCluster created is never left behind: while it   *)
(* is in the state store, its name is polled or an AddCluster or a         *)
(* RemoveCluster of that name is under way.                                *)
THEOREM StoreCorrect == Spec => []StoreBacked
<1>1. Init => StoreInv
  BY RegistryAssumption DEF Init, StoreInv
<1>2. TypeInv /\ StoreInv /\ [Next]_vars => StoreInv'
  <2> SUFFICES ASSUME TypeInv, StoreInv, [Next]_vars,
                      NEW n \in Names, store'[n] \in Insts
               PROVE  \/ clusters'[n] # NoInst
                      \/ \E i \in Insts : inst'[i] = n /\ phase'[i] = "made"
                      \/ Removing(n)'
    BY DEF StoreInv
  <2> DEFINE Goal == \/ clusters'[n] # NoInst
                     \/ \E i \in Insts : inst'[i] = n /\ phase'[i] = "made"
                     \/ Removing(n)'
  <2> USE RegistryAssumption
      DEF StoreInv, Removing, TypeInv, TypeOK, NamesOK, Threads, regVars, remVars
  <2>1. ASSUME NEW m \in Names, InventoryChange(m) PROVE Goal
    BY <2>1 DEF InventoryChange
  <2>2. ASSUME NEW m \in Names, AgentPush(m) PROVE Goal
    BY <2>2 DEF AgentPush, GetOrCreateCluster
  <2>3. ASSUME NEW i \in Insts, NEW m \in Names, AddCluster(i, m) PROVE Goal
    <3>1. CASE m = n
      BY <2>3, <3>1 DEF AddCluster
    <3>2. CASE m # n
      BY <2>3, <3>2 DEF AddCluster, GetOrCreateCluster
    <3>3. QED
      BY <3>1, <3>2
  <2>4. ASSUME NEW i \in Insts, AddRegister(i) PROVE Goal
    BY <2>4 DEF AddRegister
  <2>5. ASSUME NEW i \in Insts,
               AddStart(i) \/ Discover(i) \/ DiscoverFails(i) \/ LoopsExit(i)
        PROVE  Goal
    BY <2>5 DEF AddStart, Discover, DiscoverFails, LoopsExit
  <2>6. ASSUME NEW t \in Threads, NEW m \in Names, RemoveLock(t, m),
               UNCHANGED <<store, inst, phase>>
        PROVE  Goal
    <3>1. CASE m = n
      BY <2>6, <3>1 DEF RemoveLock
    <3>2. CASE m # n
      BY <2>6, <3>2 DEF RemoveLock
    <3>3. QED
      BY <3>1, <3>2
  <2>7. ASSUME NEW t \in Threads, RemoveCancel(t) PROVE Goal
    BY <2>7 DEF RemoveCancel
  <2>8. ASSUME NEW t \in Threads, RemoveStore(t) PROVE Goal
    BY <2>8 DEF RemoveStore
  <2>9. CASE TickRead \/ Reconcile
    BY <2>9 DEF TickRead, Reconcile
  <2>10. ASSUME NEW t \in Removers, NEW m \in Names, RemoveCluster(t, m)
         PROVE  Goal
    BY <2>6, <2>10 DEF RemoveCluster
  <2>11. ASSUME NEW m \in Names, ReconcileRemove(m) PROVE Goal
    BY <2>6, <2>11 DEF ReconcileRemove
  <2>12. CASE UNCHANGED vars
    BY <2>12 DEF vars
  <2>13. QED
    BY <2>1, <2>2, <2>3, <2>4, <2>5, <2>7, <2>8, <2>9, <2>10, <2>11, <2>12
    DEF Next, Poll, Remove, Tick
<1>3. StoreInv => StoreBacked
  BY DEF StoreInv, StoreBacked, Adding
<1>4. QED
  BY <1>1, <1>2, <1>3, TypeInvariant, PTL DEF Spec
=============================================================================
