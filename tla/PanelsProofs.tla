---------------------------- MODULE PanelsProofs ----------------------------
(***************************************************************************)
(* Proofs about the list panels: for every panel of the table, any rows    *)
(* and subjects and any bound on the calls and steps.                      *)
(***************************************************************************)
EXTENDS Panels, FiniteSetTheorems, TLAPS

-----------------------------------------------------------------------------
(* The table *)

(* What the descriptions have in common.  A button that waits for its      *)
(* handler has a variable to wait on, and handlers that share the variable *)
(* have such buttons too, in one component.  Unless its lists are pushed,  *)
(* every handler that changes them does something about it afterwards.  A  *)
(* panel that filters its list never reads it a second time and does       *)
(* nothing else to it, and its list is not served from a cache.            *)
WellFormed(p) ==
    /\ None \notin DOMAIN p.handlers
    /\ DOMAIN p.buttons = DOMAIN p.handlers
    /\ p.load.error \in {"banner", "blocks", "unmounts"}
    /\ \A o \in DOMAIN p.handlers :
          /\ p.handlers[o].does \in {"add", "del", "put", "nop"}
          /\ p.handlers[o].then \in
                {"read", "await", "hold", "later", "drop", "filter", "none", "page"}
          /\ p.buttons[o].off = "busy" => p.handlers[o].flag # None
          /\ p.load.again # "push" /\ p.handlers[o].then = "none"
                => p.handlers[o].does = "nop"
          /\ p.handlers[o].then = "filter"
                => p.load.hides # "never" /\ p.load.subject = "one" /\ p.load.again = "never"
    /\ \A o, q \in DOMAIN p.handlers :
          /\ p.handlers[o].flag = p.handlers[q].flag /\ p.buttons[o].off = "busy"
                => /\ p.buttons[q].off = "busy"
                   /\ (p.buttons[o].at \in {"card", "dialog"})
                         <=> (p.buttons[q].at \in {"card", "dialog"})
          /\ p.handlers[o].then = "filter"
                => /\ p.handlers[q].then = "filter" /\ p.handlers[q].does = "del"
                   /\ ~p.handlers[q].task /\ ~p.load.cached

(* Buttons of two components, together.                                    *)
LEMMA TogetherButtons ==
    /\ Together(RBACRoleButtons, RBACAssignmentButtons) =
        [createRole |-> Form("free"), deleteRole |-> Row("free"),
         assignRole |-> Form("free"), deleteAssignment |-> Row("free")]
    /\ Together(SchedulerForm, SchedulerList.buttons) =
        [createTask |-> Form("free"), deleteTask |-> Row("free"),
         toggleTask |-> Row("free")]
    /\ Together(GuestButtons, AlarmBadge) =
        [performAction |-> Row("free"), convertToTemplate |-> Row("free"),
         setHA |-> Row("free"), deleteGuest |-> Row("free"),
         acknowledge |-> Row("free")]
<1>1. Together(RBACRoleButtons, RBACAssignmentButtons) =
        [createRole |-> Form("free"), deleteRole |-> Row("free"),
         assignRole |-> Form("free"), deleteAssignment |-> Row("free")]
  BY DEF Together, RBACRoleButtons, RBACAssignmentButtons
<1>2. Together(SchedulerForm, SchedulerList.buttons) =
        [createTask |-> Form("free"), deleteTask |-> Row("free"),
         toggleTask |-> Row("free")]
  BY DEF Together, SchedulerForm, SchedulerList
<1>3. Together(GuestButtons, AlarmBadge) =
        [performAction |-> Row("free"), convertToTemplate |-> Row("free"),
         setHA |-> Row("free"), deleteGuest |-> Row("free"),
         acknowledge |-> Row("free")]
  BY DEF Together, GuestButtons, AlarmBadge
<1>4. QED
  BY <1>1, <1>2, <1>3

(* Every panel of the web UI is described so.                              *)
LEMMA TableWellFormed == \A p \in AllPanels : WellFormed(p)
<1> USE DEF WellFormed, Panel, Reader, Load, H, Task, Button, Row, Page, Form,
            Card, Dialog, Together, None
<1>1. WellFormed(Panel(SessionsView.load, SessionsTab,
         SessionsView.buttons))
  BY SMTT(20) DEF SessionsView, SessionsTab
<1>2. WellFormed(Panel(AlarmsView.load, AlarmsTab, AlarmsView.buttons))
  BY SMTT(20) DEF AlarmsView, AlarmsTab
<1>3. WellFormed(Panel(AlarmsConfigView.load, AlarmsConfig,
         AlarmsConfigView.buttons))
  BY SMTT(20) DEF AlarmsConfigView, AlarmsView, AlarmsConfig, AlarmsTab
<1>4. WellFormed(Panel(NotificationsView.load, NotificationsTab,
         NotificationsView.buttons))
  BY SMTT(20) DEF NotificationsView, NotificationsTab
<1>5. WellFormed(Panel(NotificationsConfigView.load, NotificationsConfig,
         NotificationsConfigView.buttons))
  BY SMTT(20) DEF NotificationsConfigView, NotificationsView, NotificationsConfig,
         NotificationsTab
<1>6. WellFormed(Panel(RBACLoad, RBACTab,
        [createRole |-> Form("free"), deleteRole |-> Row("free"),
         assignRole |-> Form("free"), deleteAssignment |-> Row("free")]))
  BY SMTT(20) DEF RBACLoad, RBACTab
<1>7. WellFormed(Panel(SchedulerList.load, SchedulerTab,
        [createTask |-> Form("free"), deleteTask |-> Row("free"),
         toggleTask |-> Row("free")]))
  BY SMTT(20) DEF SchedulerList, SchedulerTab
<1>8. WellFormed(Panel(WebhooksView.load, WebhooksPanel,
         Together(WebhooksView.buttons, [submit |-> WebhookDialog])))
  BY SMTT(20) DEF WebhooksView, WebhooksPanel, WebhookDialog
<1>9. WellFormed(Panel(PoolsView.load, PoolsTab, Together(PoolsView.buttons,
         Together(PoolRow, [onSave |-> AddPoolDialog]))))
  BY SMTT(20) DEF PoolsView, PoolsTab, PoolRow, AddPoolDialog
<1>10. WellFormed(Panel(ClusterACMEView.load, ClusterACMETab,
         Together(ClusterACMEView.buttons, [saveAccount |->
         ACMEAccountDialog, savePlugin |-> ACMEPluginDialog])))
  BY SMTT(20) DEF ClusterACMEView, ClusterACMETab, ACMEAccountDialog,
         ACMEPluginDialog
<1>11. WellFormed(Panel(NodeCertificatesView.load, NodeCertificatesTab,
         Together(NodeCertificatesView.buttons, [upload |->
         UploadCustomCertDialog, saveDomains |-> NodeDomainsDialog])))
  BY SMTT(20) DEF NodeCertificatesView, NodeCertificatesTab,
         UploadCustomCertDialog, NodeDomainsDialog
<1>12. WellFormed(Panel(DRSRulesView.load, DRSRulesPanel,
         DRSRulesView.buttons))
  BY SMTT(20) DEF DRSRulesView, DRSRulesPanel
<1>13. WellFormed(Panel(DRSView.load, DRSPanel, DRSView.buttons))
  BY SMTT(20) DEF DRSView, DRSPanel
<1>14. WellFormed(Panel(LibraryView.load, ContentLibrary,
         Together(LibraryView.buttons, [saveNew |-> AddItemDialog, saveEdit
         |-> EditItemDialog, handleDeploy |-> DeployDialog])))
  BY SMTT(20) DEF LibraryView, ContentLibrary, AddItemDialog, EditItemDialog,
         DeployDialog
<1>15. WellFormed(Panel(CephPage, OSDsTab, Together(OSDsView, [addOSD |->
         AddOSDDialog])))
  BY SMTT(20) DEF CephPage, OSDsTab, OSDsView, AddOSDDialog
<1>16. WellFormed(Panel(CephPage, CephPoolsTab, Together(CephPoolsView,
         [createPool |-> PoolCreateDialog, editPool |-> PoolEditDialog])))
  BY SMTT(20) DEF CephPage, CephPoolsTab, CephPoolsView, PoolCreateDialog,
         PoolEditDialog
<1>17. WellFormed(Panel(CephPage, MonitorsTab, Together(DaemonSection,
         [addDaemon |-> DaemonAddDialog])))
  BY SMTT(20) DEF CephPage, MonitorsTab, DaemonSection, DaemonAddDialog
<1>18. WellFormed(Panel(CephPage, CephFSTab, Together(CephFSView, [createFS
         |-> CephFSCreateDialog])))
  BY SMTT(20) DEF CephPage, CephFSTab, CephFSView, CephFSCreateDialog
<1>19. WellFormed(Panel(CephPage, FlagsTab, FlagsView))
  BY SMTT(20) DEF CephPage, FlagsTab, FlagsView
<1>20. WellFormed(Panel(NodeConfigureTab, [saveDNS |-> NodeDNSCard, saveTime
         |-> NodeTimeCard, saveHosts |-> NodeHostsCard], [saveDNS |->
         Card("busy"), saveTime |-> Card("busy"), saveHosts |->
         Card("busy")]))
  BY SMTT(20) DEF NodeConfigureTab, NodeDNSCard, NodeTimeCard, NodeHostsCard
<1>21. WellFormed(Panel(NodeConfigureTab, NodeNetworkCard, NodeNetworkView))
  BY SMTT(20) DEF NodeConfigureTab, NodeNetworkCard, NodeNetworkView
<1>22. WellFormed(Panel(SnapshotsView.load, SnapshotsTab,
         Together(SnapshotsView.buttons, [handleCreate |->
         CreateSnapshotDialog, handleRollback |-> RollbackSnapshotDialog])))
  BY SMTT(20) DEF SnapshotsView, SnapshotsTab, CreateSnapshotDialog,
         RollbackSnapshotDialog
<1>23. WellFormed(Panel(fetchDatacenterTree, DatacenterMenu,
         DatacenterButtons))
  BY SMTT(20) DEF fetchDatacenterTree, DatacenterMenu, AddHost, DatacenterButtons,
         DatacenterDialog, AddHostDialog
<1>24. WellFormed(Panel(fetchDatacenterTree, ClusterMenu, ClusterButtons))
  BY SMTT(20) DEF fetchDatacenterTree, ClusterMenu, ClusterButtons
<1>25. WellFormed(Panel(fetchDatacenterTree, HostMenu, HostButtons))
  BY SMTT(20) DEF fetchDatacenterTree, HostMenu, HostButtons, SSHSetupDialog
<1>26. WellFormed(Panel(FolderProvider, FolderTree, FolderButtons))
  BY SMTT(20) DEF FolderProvider, FolderTree, FolderButtons, FolderDialog
<1>27. WellFormed(Panel(refreshTags, GuestSummary, TagPicker))
  BY SMTT(20) DEF refreshTags, GuestSummary, TagPicker
<1>28. WellFormed(Panel(clusterState, GuestMenu,
        [performAction |-> Row("free"), convertToTemplate |-> Row("free"),
         setHA |-> Row("free"), deleteGuest |-> Row("free"),
         acknowledge |-> Row("free")]))
  BY SMTT(20) DEF clusterState, GuestMenu
<1>29. WellFormed(Panel(clusterState, GuestDialogs, [handleMigrate |->
         MigrateDialog, moveStorage |-> MoveStorageDialog, createBackup |->
         BackupDialog]))
  BY SMTT(20) DEF clusterState, GuestDialogs, MigrateDialog, MoveStorageDialog,
         BackupDialog
<1>30. WellFormed(Panel(clusterState, NodeDialogs, [createVM |->
         CreateVMDialog, createContainer |-> CreateContainerDialog,
         handleUpload |-> UploadDialog]))
  BY SMTT(20) DEF clusterState, NodeDialogs, CreateVM, CreateContainer,
         CreateVMDialog, CreateContainerDialog, UploadDialog
<1>31. WellFormed(Reader(useMetrics))
  BY DEF useMetrics
<1>32. WellFormed(Reader(fetchNetworkData))
  BY DEF fetchNetworkData
<1>33. WellFormed(Reader(CrushTab))
  BY DEF CrushTab
<1>34. WellFormed(Reader(NetworkPage))
  BY DEF NetworkPage
<1>35. WellFormed(Reader(ClusterHA))
  BY DEF ClusterHA
<1>36. WellFormed(Reader(StorageVMs))
  BY DEF StorageVMs
<1>37. WellFormed(Reader(NetworkSummary))
  BY DEF NetworkSummary
<1>38. WellFormed(Reader(SmartPanel))
  BY DEF SmartPanel
<1>39. WellFormed(Reader(CertExpiryBanner))
  BY DEF CertExpiryBanner
<1>40. WellFormed(Reader(DatacenterDetail))
  BY DEF DatacenterDetail
<1> HIDE DEF WellFormed, Panel, Reader, Load, H, Task, Button, Row, Page, Form,
             Card, Dialog, Together, None
<1>41. /\ WellFormed(Panel(RBACLoad, RBACTab, Together(RBACRoleButtons,
           RBACAssignmentButtons)))
       /\ WellFormed(Panel(SchedulerList.load, SchedulerTab,
           Together(SchedulerForm, SchedulerList.buttons)))
       /\ WellFormed(Panel(clusterState, GuestMenu, Together(GuestButtons,
           AlarmBadge)))
  BY <1>6, <1>7, <1>28, TogetherButtons
<1> QED
  BY <1>1, <1>2, <1>3, <1>4, <1>5, <1>8, <1>9, <1>10, <1>11,
     <1>12, <1>13, <1>14, <1>15, <1>16, <1>17, <1>18, <1>19, <1>20, <1>21,
     <1>22, <1>23, <1>24, <1>25, <1>26, <1>27, <1>41, <1>29, <1>30, <1>31,
     <1>32, <1>33, <1>34, <1>35, <1>36, <1>37, <1>38, <1>39, <1>40 DEF
     AllPanels

-----------------------------------------------------------------------------
(* Types, and the numbers of calls *)

Parts == {"child", "content"}
Lists == [Rows -> 0..2]

UiState ==
    [subject : Subjects, shown : Lists, of : Subjects \cup {None},
     loading : BOOLEAN, error : BOOLEAN, form : Ops \cup {None},
     busy : [Flags -> Rows \cup {None}], inst : [Parts -> Nat], epoch : Nat,
     timers : [Subjects -> Nat], calm : BOOLEAN]

Call ==
    [id : 1..(2 * MaxCalls), kind : {"load", "op", "effect"},
     st : {"sent", "ok", "err"}, subject : Subjects, inst : Nat,
     guarded : BOOLEAN, op : Ops \cup {None}, row : Rows \cup {None},
     val : 0..2, seen : Lists \cup {<<>>}]

(* A handler's call names the handler and a row; a load that was answered  *)
(* carries a list; a guarded load belongs to this or an earlier effect.    *)
CallOK(c) ==
    /\ c \in Call
    /\ c.kind # "load" => /\ c.op \in Ops /\ c.row \in Rows /\ c.seen \in Lists
                          /\ ~c.guarded /\ c.val # 0
    /\ c.guarded => c.op = None /\ c.inst <= ui.epoch
    /\ c.kind = "load" /\ c.st = "ok" => c.seen \in Lists
    /\ c.kind = "effect" => c.st = "sent"

TypeOK ==
    /\ panel \in AllPanels
    /\ ui \in UiState
    /\ srv \in [Subjects -> Lists]
    /\ IsFiniteSet(net)
    /\ \A c \in net : CallOK(c)
    /\ used \in 0..MaxSteps

CacheOK == pve \in [Subjects -> Lists] /\ behind \in BOOLEAN

(* Two calls the browser waits for have different numbers, and so have two *)
(* effects, and an effect and a call the server has still to answer.  The  *)
(* numbers in use and those of the handlers' calls, which a call of its    *)
(* own may follow, never exceed the numbers there are.                     *)
IdsOf(C) == {c.id : c \in C}
Apart(n) ==
    \A c, d \in n :
        (/\ c.id = d.id
         /\ \/ c.kind # "effect" /\ d.kind # "effect"
            \/ c.kind = "effect" /\ d.kind = "effect"
            \/ c.kind = "effect" /\ d.kind = "op" /\ d.st = "sent")
            => c = d
IdsOK ==
    /\ Apart(net)
    /\ Cardinality(IdsOf(net)) + Cardinality(IdsOf(Writes)) <= 2 * MaxCalls

(* The panel that is mounted is one of the table.                          *)
LEMMA MountedWellFormed == TypeOK => WellFormed(panel)
  BY TableWellFormed DEF TypeOK

(* There are no more numbers than calls.                                   *)
LEMMA IdsFinite ==
    ASSUME TypeOK
    PROVE  /\ IsFiniteSet(IdsOf(net)) /\ Cardinality(net) \in Nat
           /\ Cardinality(IdsOf(net)) \in Nat /\ Cardinality(IdsOf(net)) <= Cardinality(net)
           /\ IsFiniteSet(IdsOf(Writes)) /\ Cardinality(IdsOf(Writes)) \in Nat
           /\ Cardinality(IdsOf(Writes)) <= Cardinality(IdsOf(net))
<1> DEFINE f == [c \in net |-> c.id]
<1>1. f \in Surjection(net, IdsOf(net))
  BY DEF Surjection, IdsOf
<1>2. IsFiniteSet(net)
  BY DEF TypeOK
<1>3. /\ IsFiniteSet(IdsOf(net)) /\ Cardinality(net) \in Nat
      /\ Cardinality(IdsOf(net)) \in Nat /\ Cardinality(IdsOf(net)) <= Cardinality(net)
  BY <1>1, <1>2, FS_Surjection, FS_CardinalityType
<1>4. IdsOf(Writes) \in SUBSET IdsOf(net)
  BY DEF IdsOf, Writes
<1>5. QED
  BY <1>3, <1>4, FS_Subset, FS_CardinalityType

(* There is a number for a new call whenever the code makes one: there is  *)
(* room, or a handler's call is answered.                                  *)
LEMMA FreshId ==
    ASSUME TypeOK, IdsOK, Cardinality(net) < MaxCalls \/ Writes # {}
    PROVE  Fresh \in 1..(2 * MaxCalls) /\ \A c \in net : c.id # Fresh
<1> DEFINE All == 1..(2 * MaxCalls)
<1>1. /\ Cardinality(IdsOf(net)) \in Nat /\ Cardinality(net) \in Nat
      /\ Cardinality(IdsOf(net)) <= Cardinality(net)
      /\ IsFiniteSet(IdsOf(Writes)) /\ Cardinality(IdsOf(Writes)) \in Nat
  BY IdsFinite
<1>2. /\ MaxCalls \in Nat /\ MaxCalls >= 1 /\ 2 * MaxCalls \in Int
      /\ 1 \in Int /\ ~(1 > 2 * MaxCalls) /\ 2 * MaxCalls - 1 + 1 = 2 * MaxCalls
  BY PanelsAssumption
<1>3. Cardinality(All) = 2 * MaxCalls
  BY <1>2, FS_Interval
<1>4. Cardinality(IdsOf(net)) < 2 * MaxCalls
  <2>1. CASE Cardinality(net) < MaxCalls
    BY <1>1, <1>2, <2>1
  <2>2. CASE Writes # {}
    <3>1. IdsOf(Writes) # {}
      BY <2>2 DEF IdsOf
    <3>2. Cardinality(IdsOf(Writes)) # 0
      BY <1>1, <3>1, FS_EmptySet
    <3>3. QED
      BY <1>1, <1>2, <3>2 DEF IdsOK
  <2>3. QED
    BY <2>1, <2>2
<1>5. IdsOf(net) # All
  BY <1>1, <1>2, <1>3, <1>4
<1>6. IdsOf(net) \subseteq All
  BY DEF IdsOf, TypeOK, CallOK, Call
<1>7. \E i \in All : \A c \in net : c.id # i
  BY <1>5, <1>6 DEF IdsOf
<1>8. QED
  BY <1>7 DEF Fresh

(* The numbers after a step that starts no call.                           *)
LEMMA IdsKept ==
    ASSUME TypeOK, IdsOK, IdsOf(net)' \subseteq IdsOf(net),
           IdsOf(Writes)' \subseteq IdsOf(Writes)
    PROVE  Cardinality(IdsOf(net)') + Cardinality(IdsOf(Writes)') <= 2 * MaxCalls
<1>1. /\ IsFiniteSet(IdsOf(net)) /\ IsFiniteSet(IdsOf(Writes))
      /\ Cardinality(IdsOf(net)) \in Nat /\ Cardinality(IdsOf(Writes)) \in Nat
  BY IdsFinite
<1>2. /\ Cardinality(IdsOf(net)') \in Nat /\ Cardinality(IdsOf(Writes)') \in Nat
      /\ Cardinality(IdsOf(net)') <= Cardinality(IdsOf(net))
      /\ Cardinality(IdsOf(Writes)') <= Cardinality(IdsOf(Writes))
  BY <1>1, FS_Subset, FS_CardinalityType
<1>3. 2 * MaxCalls \in Nat
  BY PanelsAssumption
<1>4. QED
  BY <1>1, <1>2, <1>3 DEF IdsOK

(* A set with one element more.                                            *)
LEMMA OneMore ==
    ASSUME NEW S, NEW T, NEW x, IsFiniteSet(S), T \subseteq S \cup {x}
    PROVE  Cardinality(S) \in Nat /\ Cardinality(T) \in Nat
           /\ Cardinality(T) <= Cardinality(S) + 1
<1>1. /\ IsFiniteSet(S \cup {x}) /\ Cardinality(S) \in Nat
      /\ Cardinality(S \cup {x}) =
            IF x \in S THEN Cardinality(S) ELSE Cardinality(S) + 1
  BY FS_AddElement, FS_CardinalityType
<1>2. /\ Cardinality(T) <= Cardinality(S \cup {x}) /\ Cardinality(T) \in Nat
      /\ Cardinality(S \cup {x}) \in Nat
  BY <1>1, FS_Subset, FS_CardinalityType
<1>3. QED
  BY <1>1, <1>2

(* The numbers after a step that starts a call when there is room.         *)
LEMMA IdsTaken ==
    ASSUME TypeOK, IdsOK, Cardinality(net) < MaxCalls, NEW i,
           IdsOf(net)' \subseteq IdsOf(net) \cup {i},
           IdsOf(Writes)' \subseteq IdsOf(Writes) \cup {i}
    PROVE  Cardinality(IdsOf(net)') + Cardinality(IdsOf(Writes)') <= 2 * MaxCalls
<1>1. /\ IsFiniteSet(IdsOf(net)) /\ IsFiniteSet(IdsOf(Writes)) /\ Cardinality(net) \in Nat
      /\ Cardinality(IdsOf(net)) \in Nat /\ Cardinality(IdsOf(Writes)) \in Nat
      /\ Cardinality(IdsOf(net)) <= Cardinality(net)
      /\ Cardinality(IdsOf(Writes)) <= Cardinality(IdsOf(net))
  BY IdsFinite
<1>2. /\ Cardinality(IdsOf(net)') \in Nat
      /\ Cardinality(IdsOf(net)') <= Cardinality(IdsOf(net)) + 1
  BY <1>1, OneMore
<1>3. /\ Cardinality(IdsOf(Writes)') \in Nat
      /\ Cardinality(IdsOf(Writes)') <= Cardinality(IdsOf(Writes)) + 1
  BY <1>1, OneMore
<1>4. MaxCalls \in Nat
  BY PanelsAssumption
<1>5. QED
  BY <1>1, <1>2, <1>3, <1>4

(* The numbers after a handler's call has been followed by another call.   *)
LEMMA IdsPassedOn ==
    ASSUME TypeOK, IdsOK, NEW i, NEW w \in IdsOf(Writes),
           IdsOf(net)' \subseteq IdsOf(net) \cup {i},
           IdsOf(Writes)' \subseteq IdsOf(Writes) \ {w}
    PROVE  Cardinality(IdsOf(net)') + Cardinality(IdsOf(Writes)') <= 2 * MaxCalls
<1>1. /\ IsFiniteSet(IdsOf(net)) /\ IsFiniteSet(IdsOf(Writes))
      /\ Cardinality(IdsOf(net)) \in Nat /\ Cardinality(IdsOf(Writes)) \in Nat
  BY IdsFinite
<1>2. /\ Cardinality(IdsOf(net)') \in Nat
      /\ Cardinality(IdsOf(net)') <= Cardinality(IdsOf(net)) + 1
  BY <1>1, OneMore
<1>3. /\ IsFiniteSet(IdsOf(Writes) \ {w})
      /\ Cardinality(IdsOf(Writes) \ {w}) = Cardinality(IdsOf(Writes)) - 1
  BY <1>1, FS_RemoveElement
<1>4. /\ Cardinality(IdsOf(Writes)') \in Nat
      /\ Cardinality(IdsOf(Writes)') <= Cardinality(IdsOf(Writes) \ {w})
  BY <1>3, FS_Subset, FS_CardinalityType
<1>5. MaxCalls \in Nat
  BY PanelsAssumption
<1>6. QED
  BY <1>1, <1>2, <1>3, <1>4, <1>5 DEF IdsOK

-----------------------------------------------------------------------------
(* What the functions of the browser do to its state *)

(* The list, what it is of and what is to be read are as they were.        *)
SameList(u, v) ==
    /\ v.subject = u.subject /\ v.shown = u.shown /\ v.of = u.of
    /\ v.epoch = u.epoch /\ v.timers = u.timers

(* A handler that runs belongs to this mounting of the component that      *)
(* holds its variable, or to an earlier one.                               *)
BoundOK(u) == \A c \in Running : c.inst <= u.inst[Holder(c.op)]

(* A button that waits for its handler's variable finds it set for as long *)
(* as the handler runs, unless the component has been mounted anew.        *)
HeldOK(u, R) ==
    \A c \in R :
        (ButtonOf(c.op).off = "busy" /\ c.inst = u.inst[Holder(c.op)])
            => u.busy[Handler(c.op).flag] # None

(* A handler that runs is one of the panel's.                              *)
LEMMA RunningOps ==
    ASSUME TypeOK
    PROVE  \A c \in Running : c \in net /\ c.op \in Ops /\ c.inst \in Nat
                              /\ Handler(c.op).flag \in Flags /\ Holder(c.op) \in Parts
  BY DEF TypeOK, CallOK, Call, Running, Flags, Holder, Parts

(* Remount gives a number no handler that runs has.                        *)
LEMMA RemountOK ==
    ASSUME TypeOK, NEW u \in UiState, NEW part \in Parts
    PROVE  /\ Remount(u, part) \in [Parts -> Nat]
           /\ \A q \in Parts : q # part => Remount(u, part)[q] = u.inst[q]
           /\ Remount(u, part)[part] >= u.inst[part]
           /\ BoundOK(u) => \A c \in Running :
                               Holder(c.op) = part => c.inst < Remount(u, part)[part]
<1>1. u.inst \in [Parts -> Nat]
  BY DEF UiState
<1> DEFINE taken == \E c \in Running : Holder(c.op) = part /\ c.inst = u.inst[part]
<1>2. Remount(u, part) =
        [u.inst EXCEPT ![part] = IF taken THEN u.inst[part] + 1 ELSE u.inst[part]]
  BY DEF Remount
<1>3. /\ Remount(u, part) \in [Parts -> Nat]
      /\ \A q \in Parts : q # part => Remount(u, part)[q] = u.inst[q]
      /\ Remount(u, part)[part] = IF taken THEN u.inst[part] + 1 ELSE u.inst[part]
  BY <1>1, <1>2
<1>4. ASSUME BoundOK(u), NEW c \in Running, Holder(c.op) = part
      PROVE  c.inst < Remount(u, part)[part]
  <2>1. c.inst \in Nat /\ c.inst <= u.inst[part] /\ u.inst[part] \in Nat
    BY <1>1, <1>4, RunningOps DEF BoundOK
  <2>2. CASE taken
    BY <1>3, <2>1, <2>2
  <2>3. CASE ~taken
    BY <1>3, <1>4, <2>1, <2>3
  <2>4. QED
    BY <2>2, <2>3
<1>5. Remount(u, part)[part] >= u.inst[part]
  BY <1>1, <1>3
<1>6. QED
  BY <1>3, <1>4, <1>5

(* HideContent changes the children's mounting and variables.              *)
LEMMA HideContentOK ==
    ASSUME TypeOK, NEW u \in UiState
    PROVE  LET v == HideContent(u)
           IN  /\ v \in UiState /\ SameList(u, v) /\ v.loading = u.loading
               /\ v.error = u.error /\ v.calm = u.calm /\ v.form = u.form
               /\ v.inst = Remount(u, "child")
               /\ \A f \in Flags : v.busy[f] = IF f \in ChildFlags THEN None ELSE u.busy[f]
<1> DEFINE i == Remount(u, "child")
           b == [f \in Flags |-> IF f \in ChildFlags THEN None ELSE u.busy[f]]
           v == [u EXCEPT !.inst = i, !.busy = b]
<1>1. u.busy \in [Flags -> Rows \cup {None}]
  BY DEF UiState
<1>2. i \in [Parts -> Nat]
  BY RemountOK DEF Parts
<1>3. b \in [Flags -> Rows \cup {None}]
  BY <1>1
<1>4. HideContent(u) = v
  BY <1>1 DEF HideContent
<1> HIDE DEF i, b
<1>5. v \in UiState /\ SameList(u, v) /\ v.loading = u.loading /\ v.error = u.error
      /\ v.calm = u.calm /\ v.form = u.form /\ v.inst = i /\ v.busy = b
  BY <1>2, <1>3 DEF UiState, SameList
<1>6. QED
  BY <1>4, <1>5 DEF i, b

(* HideContent leaves no handler that runs in a child.                     *)
LEMMA HideContentMounts ==
    ASSUME TypeOK, NEW u \in UiState, BoundOK(u),
           NEW R \in SUBSET Running, HeldOK(u, R)
    PROVE  LET v == HideContent(u)
           IN  /\ BoundOK(v) /\ HeldOK(v, R)
               /\ \A c \in Running : Holder(c.op) = "child" => c.inst < v.inst["child"]
<1> DEFINE v == HideContent(u)
<1>1. /\ v.inst = Remount(u, "child") /\ u.inst \in [Parts -> Nat]
      /\ \A f \in Flags : v.busy[f] = IF f \in ChildFlags THEN None ELSE u.busy[f]
  BY HideContentOK DEF UiState
<1>2. /\ v.inst \in [Parts -> Nat] /\ v.inst["content"] = u.inst["content"]
      /\ \A c \in Running : Holder(c.op) = "child" => c.inst < v.inst["child"]
  BY <1>1, RemountOK DEF Parts
<1> HIDE DEF v
<1>3. BoundOK(v)
  <2>1. SUFFICES ASSUME NEW c \in Running PROVE c.inst <= v.inst[Holder(c.op)]
    BY DEF BoundOK
  <2>2. CASE Holder(c.op) = "child"
    BY <1>2, <2>2, RunningOps DEF Parts
  <2>3. CASE Holder(c.op) = "content"
    BY <1>2, <2>3 DEF BoundOK
  <2>4. QED
    BY <2>2, <2>3, RunningOps DEF Parts
<1>4. HeldOK(v, R)
  <2>1. SUFFICES ASSUME NEW c \in R, ButtonOf(c.op).off = "busy",
                        c.inst = v.inst[Holder(c.op)]
                 PROVE  v.busy[Handler(c.op).flag] # None
    BY DEF HeldOK
  <2>2. c \in Running /\ c.op \in Ops /\ c.inst \in Nat /\ Handler(c.op).flag \in Flags
    BY RunningOps
  <2>3. Holder(c.op) # "child"
    BY <1>2, <2>1, <2>2 DEF Parts
  <2>4. Holder(c.op) = "content" /\ ~InChild(c.op)
    BY <2>3 DEF Holder
  <2>5. Handler(c.op).flag \notin ChildFlags
    BY <2>1, <2>2, <2>4, MountedWellFormed
       DEF WellFormed, ChildFlags, InChild, Handler, ButtonOf, Ops
  <2>6. v.busy[Handler(c.op).flag] = u.busy[Handler(c.op).flag]
    BY <1>1, <2>2, <2>5
  <2>7. QED
    BY <1>2, <2>1, <2>4, <2>6 DEF HeldOK
<1>5. QED
  BY <1>2, <1>3, <1>4 DEF v

(* UnmountContent changes the mountings, the form and the variables.       *)
LEMMA UnmountContentOK ==
    ASSUME TypeOK, NEW u \in UiState
    PROVE  LET v == UnmountContent(u)
           IN  /\ v \in UiState /\ SameList(u, v) /\ v.loading = u.loading
               /\ v.error = u.error /\ v.calm = u.calm
               /\ v.inst = Remount(HideContent(u), "content")
<1> DEFINE h == HideContent(u)
           i == Remount(h, "content")
           b == [f \in Flags |-> None]
           v == [h EXCEPT !.inst = i, !.form = None, !.busy = b]
<1>1. /\ h \in UiState /\ SameList(u, h) /\ h.loading = u.loading
      /\ h.error = u.error /\ h.calm = u.calm
  BY HideContentOK
<1> HIDE DEF h
<1>2. i \in [Parts -> Nat]
  BY <1>1, RemountOK DEF Parts
<1>3. b \in [Flags -> Rows \cup {None}] /\ h.busy \in [Flags -> Rows \cup {None}]
  BY <1>1 DEF UiState
<1>4. UnmountContent(u) = v
  BY <1>3 DEF UnmountContent, h
<1> HIDE DEF i, b
<1>5. v \in UiState /\ SameList(h, v) /\ v.loading = h.loading /\ v.error = h.error
      /\ v.calm = h.calm /\ v.inst = i
  BY <1>1, <1>2, <1>3 DEF UiState, SameList
<1>6. SameList(u, v)
  BY <1>1, <1>5 DEF SameList
<1>7. QED
  BY <1>1, <1>4, <1>5, <1>6 DEF i, h

(* UnmountContent gives both mountings numbers no handler that runs has.   *)
LEMMA UnmountContentMounts ==
    ASSUME TypeOK, NEW u \in UiState, BoundOK(u)
    PROVE  LET v == UnmountContent(u)
           IN  \A c \in Running : c.inst < v.inst[Holder(c.op)]
<1> DEFINE h == HideContent(u)
           v == UnmountContent(u)
<1>1. h \in UiState /\ v.inst = Remount(h, "content")
  BY HideContentOK, UnmountContentOK
<1>2. /\ BoundOK(h)
      /\ \A c \in Running : Holder(c.op) = "child" => c.inst < h.inst["child"]
  <2>1. {} \in SUBSET Running /\ HeldOK(u, {})
    BY DEF HeldOK
  <2>2. QED
    BY <2>1, HideContentMounts
<1> HIDE DEF h, v
<1>3. v.inst["child"] = h.inst["child"]
      /\ \A c \in Running : Holder(c.op) = "content" => c.inst < v.inst["content"]
  BY <1>1, <1>2, RemountOK DEF Parts
<1>4. \A c \in Running : c.inst < v.inst[Holder(c.op)]
  BY <1>2, <1>3, RunningOps DEF Parts
<1>5. QED
  BY <1>4 DEF v

(* Of the handlers that run, those whose button waits for a variable have  *)
(* it to themselves.                                                       *)
AloneOK ==
    \A c, d \in Running :
        (/\ ButtonOf(c.op).off = "busy" /\ Handler(c.op).flag = Handler(d.op).flag
         /\ c.inst = d.inst)
            => c = d

(* The mountings and the variables are as they were.                       *)
SamePlace(u, v) == v.inst = u.inst /\ v.busy = u.busy

(* Only the mountings and the variables matter to the two.                 *)
LEMMA SamePlaceMounts ==
    ASSUME NEW u, NEW v, SamePlace(u, v), BoundOK(u), NEW R, HeldOK(u, R)
    PROVE  BoundOK(v) /\ HeldOK(v, R)
  BY DEF SamePlace, BoundOK, HeldOK

(* A form that closes.                                                     *)
LEMMA FormClosed ==
    ASSUME NEW u \in UiState
    PROVE  LET v == [u EXCEPT !.form = None]
           IN  /\ v \in UiState /\ SameList(u, v) /\ SamePlace(u, v)
               /\ v.loading = u.loading /\ v.error = u.error /\ v.calm = u.calm
  BY DEF UiState, SameList, SamePlace

(* CloseOwnForm closes a form, with its component when that is a dialog.   *)
LEMMA CloseOwnFormOK ==
    ASSUME TypeOK, NEW u \in UiState, NEW c
    PROVE  LET v == CloseOwnForm(u, c)
           IN  /\ v \in UiState /\ SameList(u, v) /\ v.loading = u.loading
               /\ v.error = u.error /\ v.calm = u.calm
<1> DEFINE w == [u EXCEPT !.form = None]
<1>1. /\ w \in UiState /\ SameList(u, w) /\ w.loading = u.loading
      /\ w.error = u.error /\ w.calm = u.calm
  BY FormClosed
<1>2. \/ CloseOwnForm(u, c) = u
      \/ CloseOwnForm(u, c) = HideContent(w)
      \/ CloseOwnForm(u, c) = w
  BY DEF CloseOwnForm
<1> HIDE DEF w
<1> DEFINE h == HideContent(w)
<1>3. /\ h \in UiState /\ SameList(w, h) /\ h.loading = w.loading
      /\ h.error = w.error /\ h.calm = w.calm
  BY <1>1, HideContentOK
<1> HIDE DEF h
<1>4. SameList(u, h) /\ SameList(u, u)
  BY <1>1, <1>3 DEF SameList
<1>5. QED
  BY <1>1, <1>2, <1>3, <1>4 DEF h

(* Closing a form resets no variable of a handler that still runs.         *)
LEMMA CloseOwnFormMounts ==
    ASSUME TypeOK, NEW u \in UiState, BoundOK(u),
           NEW R \in SUBSET Running, HeldOK(u, R), NEW c
    PROVE  BoundOK(CloseOwnForm(u, c)) /\ HeldOK(CloseOwnForm(u, c), R)
<1> DEFINE w == [u EXCEPT !.form = None]
<1>1. w \in UiState /\ SamePlace(u, w)
  BY FormClosed
<1>2. \/ CloseOwnForm(u, c) = u
      \/ CloseOwnForm(u, c) = HideContent(w)
      \/ CloseOwnForm(u, c) = w
  BY DEF CloseOwnForm
<1> HIDE DEF w
<1>3. BoundOK(w) /\ HeldOK(w, R)
  BY <1>1, SamePlaceMounts
<1>4. BoundOK(HideContent(w)) /\ HeldOK(HideContent(w), R)
  BY <1>1, <1>3, HideContentMounts
<1>5. QED
  BY <1>2, <1>3, <1>4

(* Release resets one variable.                                            *)
LEMMA ReleaseOK ==
    ASSUME TypeOK, NEW u \in UiState, NEW c
    PROVE  LET v == Release(u, c)
           IN  /\ v \in UiState /\ SameList(u, v) /\ v.loading = u.loading
               /\ v.error = u.error /\ v.calm = u.calm /\ v.inst = u.inst
               /\ \/ v.busy = u.busy
                  \/ /\ c.inst = u.inst[Holder(c.op)]
                     /\ v.busy = [u.busy EXCEPT ![Handler(c.op).flag] = None]
<1> DEFINE b == [u.busy EXCEPT ![Handler(c.op).flag] = None]
           w == [u EXCEPT !.busy = b]
<1>1. u.busy \in [Flags -> Rows \cup {None}]
  BY DEF UiState
<1>2. b \in [Flags -> Rows \cup {None}]
  BY <1>1
<1>3. \/ Release(u, c) = u
      \/ c.inst = u.inst[Holder(c.op)] /\ Release(u, c) = w
  BY DEF Release
<1> HIDE DEF b
<1>4. /\ w \in UiState /\ SameList(u, w) /\ w.loading = u.loading
      /\ w.error = u.error /\ w.calm = u.calm /\ w.inst = u.inst /\ w.busy = b
  BY <1>2 DEF UiState, SameList
<1>5. SameList(u, u)
  BY DEF SameList
<1> HIDE DEF w
<1>6. QED
  BY <1>3, <1>4, <1>5 DEF b

(* The handler that ends resets no variable another waits for.             *)
LEMMA ReleaseMounts ==
    ASSUME TypeOK, AloneOK, NEW u \in UiState, BoundOK(u),
           NEW R \in SUBSET Running, HeldOK(u, R), NEW c \in Running
    PROVE  BoundOK(Release(u, c)) /\ HeldOK(Release(u, c), R \ {c})
<1> DEFINE v == Release(u, c)
<1>1. /\ v.inst = u.inst
      /\ \/ v.busy = u.busy
         \/ /\ c.inst = u.inst[Holder(c.op)]
            /\ v.busy = [u.busy EXCEPT ![Handler(c.op).flag] = None]
  BY ReleaseOK
<1> HIDE DEF v
<1>2. BoundOK(v)
  BY <1>1 DEF BoundOK
<1>3. ASSUME NEW d \in R \ {c}, ButtonOf(d.op).off = "busy",
             d.inst = v.inst[Holder(d.op)]
      PROVE  v.busy[Handler(d.op).flag] # None
  <2>1. u.busy[Handler(d.op).flag] # None /\ d \in Running /\ d # c
    BY <1>1, <1>3 DEF HeldOK
  <2>2. CASE v.busy = u.busy
    BY <2>1, <2>2
  <2>3. CASE /\ c.inst = u.inst[Holder(c.op)]
             /\ v.busy = [u.busy EXCEPT ![Handler(c.op).flag] = None]
    <3>1. Handler(d.op).flag # Handler(c.op).flag
      <4>1. SUFFICES ASSUME Handler(d.op).flag = Handler(c.op).flag PROVE FALSE
        OBVIOUS
      <4>2. c.op \in Ops /\ d.op \in Ops
        BY <2>1, RunningOps
      <4>3. Holder(d.op) = Holder(c.op)
        BY <1>3, <4>1, <4>2, MountedWellFormed
           DEF WellFormed, Holder, InChild, Handler, ButtonOf, Ops
      <4>4. d.inst = c.inst
        BY <1>1, <1>3, <2>3, <4>3
      <4>5. QED
        BY <1>3, <2>1, <4>1, <4>4 DEF AloneOK
    <3>2. u.busy \in [Flags -> Rows \cup {None}] /\ Handler(d.op).flag \in Flags
      BY <2>1, RunningOps DEF UiState
    <3>3. QED
      BY <2>1, <2>3, <3>1, <3>2
  <2>4. QED
    BY <1>1, <2>2, <2>3
<1>4. QED
  BY <1>2, <1>3 DEF HeldOK, v

(* A load function that ends ends the loading text with it, and changes    *)
(* nothing the list depends on.                                            *)
LEMMA FinishLoadOK ==
    ASSUME TypeOK, NEW u \in UiState, NEW c
    PROVE  LET v == FinishLoad(u, c)
           IN  /\ v \in UiState /\ SameList(u, v) /\ v.loading = FALSE
               /\ v.error = u.error /\ v.calm = u.calm
<1> DEFINE w == [u EXCEPT !.loading = FALSE]
<1>1. /\ w \in UiState /\ SameList(u, w) /\ w.loading = FALSE
      /\ w.error = u.error /\ w.calm = u.calm
  BY DEF UiState, SameList
<1>2. \/ FinishLoad(u, c) = w
      \/ FinishLoad(u, c) = CloseOwnForm(w, c)
      \/ FinishLoad(u, c) = Release(w, c)
  BY DEF FinishLoad
<1> HIDE DEF w
<1> DEFINE x == CloseOwnForm(w, c)
           y == Release(w, c)
<1>3. /\ x \in UiState /\ SameList(w, x) /\ x.loading = w.loading
      /\ x.error = w.error /\ x.calm = w.calm
  BY <1>1, CloseOwnFormOK
<1>4. /\ y \in UiState /\ SameList(w, y) /\ y.loading = w.loading
      /\ y.error = w.error /\ y.calm = w.calm
  BY <1>1, ReleaseOK
<1> HIDE DEF x, y
<1>5. SameList(u, x) /\ SameList(u, y)
  BY <1>1, <1>3, <1>4 DEF SameList
<1>6. QED
  BY <1>1, <1>2, <1>3, <1>4, <1>5 DEF x, y

(* The handler that awaited the load ends with it.                         *)
LEMMA FinishLoadMounts ==
    ASSUME TypeOK, AloneOK, NEW u \in UiState, BoundOK(u), HeldOK(u, Running),
           NEW c \in Loads
    PROVE  BoundOK(FinishLoad(u, c)) /\ HeldOK(FinishLoad(u, c), Running \ {c})
<1> DEFINE w == [u EXCEPT !.loading = FALSE]
<1>1. w \in UiState /\ SamePlace(u, w)
  BY DEF UiState, SamePlace
<1>2. BoundOK(w) /\ HeldOK(w, Running)
  BY <1>1, SamePlaceMounts
<1>3. \/ FinishLoad(u, c) = w
      \/ FinishLoad(u, c) = CloseOwnForm(w, c)
      \/ FinishLoad(u, c) = Release(w, c) /\ c.op # None
  BY DEF FinishLoad
<1> HIDE DEF w
<1>4. HeldOK(w, Running \ {c})
  BY <1>2 DEF HeldOK
<1>5. BoundOK(CloseOwnForm(w, c)) /\ HeldOK(CloseOwnForm(w, c), Running \ {c})
  BY <1>1, <1>2, <1>4, CloseOwnFormMounts
<1>6. CASE c.op # None
  <2>1. c \in Running
    BY <1>6 DEF Loads, Running
  <2>2. BoundOK(Release(w, c)) /\ HeldOK(Release(w, c), Running \ {c})
    BY <1>1, <1>2, <2>1, ReleaseMounts
  <2>3. QED
    BY <1>2, <1>3, <1>4, <1>5, <2>2
<1>7. CASE c.op = None
  BY <1>2, <1>3, <1>4, <1>5, <1>7
<1>8. QED
  BY <1>6, <1>7

(* The head of a load function: where the loading text takes the list's    *)
(* place it is shown, and the panel stays calm only if no load whose       *)
(* answer will be used is under way.                                       *)
LEMMA BeginLoadOK ==
    ASSUME TypeOK, NEW u \in UiState
    PROVE  LET v == BeginLoad(u)
           IN  /\ v \in UiState /\ SameList(u, v)
               /\ v.loading \in {TRUE, u.loading}
               /\ v.calm => u.calm /\ \A c \in Loads : ~Awaited(c)
<1> DEFINE k == u.calm /\ ~\E c \in Loads : Awaited(c)
           w == [u EXCEPT !.calm = k]
           x == [w EXCEPT !.loading = TRUE, !.error = FALSE]
           h == HideContent(x)
<1>1. BeginLoad(u) = w \/ BeginLoad(u) = h
  BY DEF BeginLoad
<1>2. k \in BOOLEAN /\ (k => u.calm /\ \A c \in Loads : ~Awaited(c))
  OBVIOUS
<1> HIDE DEF k
<1>3. w \in UiState /\ SameList(u, w) /\ w.loading = u.loading /\ w.calm = k
  BY <1>2 DEF UiState, SameList
<1> HIDE DEF w
<1>4. x \in UiState /\ SameList(w, x) /\ x.loading = TRUE /\ x.calm = w.calm
  BY <1>3 DEF UiState, SameList
<1> HIDE DEF x
<1>5. h \in UiState /\ SameList(x, h) /\ h.loading = x.loading /\ h.calm = x.calm
  BY <1>4, HideContentOK
<1> HIDE DEF h
<1>6. SameList(u, h)
  BY <1>3, <1>4, <1>5 DEF SameList
<1>7. QED
  BY <1>1, <1>2, <1>3, <1>4, <1>5, <1>6

(* A reload that hides the list unmounts the children and resets what they *)
(* hold, not what a handler that still runs holds.                         *)
LEMMA BeginLoadMounts ==
    ASSUME TypeOK, NEW u \in UiState, BoundOK(u),
           NEW R \in SUBSET Running, HeldOK(u, R)
    PROVE  BoundOK(BeginLoad(u)) /\ HeldOK(BeginLoad(u), R)
<1> DEFINE w == [u EXCEPT !.calm = @ /\ ~\E c \in Loads : Awaited(c)]
           x == [w EXCEPT !.loading = TRUE, !.error = FALSE]
<1>1. BeginLoad(u) = w \/ BeginLoad(u) = HideContent(x)
  BY DEF BeginLoad
<1>2. w \in UiState /\ SamePlace(u, w)
  BY DEF UiState, SamePlace
<1>3. BoundOK(w) /\ HeldOK(w, R)
  BY <1>2, SamePlaceMounts
<1> HIDE DEF w
<1>4. x \in UiState /\ SamePlace(w, x)
  BY <1>2 DEF UiState, SamePlace
<1> HIDE DEF x
<1>5. BoundOK(x) /\ HeldOK(x, R)
  BY <1>3, <1>4, SamePlaceMounts
<1>6. BoundOK(HideContent(x)) /\ HeldOK(HideContent(x), R)
  BY <1>4, <1>5, HideContentMounts
<1>7. QED
  BY <1>1, <1>3, <1>6

-----------------------------------------------------------------------------
(* Type correctness *)

TypeInv == TypeOK /\ IdsOK

(* The panel does not change, and so neither do the values of its state.   *)
LEMMA SamePanel ==
    ASSUME panel' = panel
    PROVE  /\ UiState' = UiState /\ Call' = Call /\ Ops' = Ops
           /\ \A o : /\ Handler(o)' = Handler(o) /\ ButtonOf(o)' = ButtonOf(o)
                     /\ Holder(o)' = Holder(o)
<1>1. Ops' = Ops /\ Flags' = Flags
  BY DEF Ops, Flags, Handler
<1>2. UiState' = UiState /\ Call' = Call
  BY <1>1 DEF UiState, Call
<1>3. \A o : /\ Handler(o)' = Handler(o) /\ ButtonOf(o)' = ButtonOf(o)
             /\ Holder(o)' = Holder(o)
  BY DEF Handler, ButtonOf, Holder, InChild
<1>4. QED
  BY <1>1, <1>2, <1>3

(* A call is as it should be as long as the epoch does not go back.        *)
LEMMA CallKept ==
    ASSUME panel' = panel, NEW c, CallOK(c), ui \in UiState, ui' \in UiState,
           ui'.epoch >= ui.epoch \/ ~c.guarded
    PROVE  CallOK(c)'
<1>1. Call' = Call /\ Ops' = Ops
  BY SamePanel
<1>2. c.guarded => c.inst <= ui'.epoch
  <2>1. ASSUME c.guarded PROVE c.inst <= ui'.epoch
    <3>1. ui.epoch \in Nat /\ ui'.epoch \in Nat /\ c.inst \in Nat /\ c.inst <= ui.epoch
      BY <2>1 DEF UiState, Call, CallOK
    <3>2. QED
      BY <2>1, <3>1
  <2>2. QED
    BY <2>1
<1>3. QED
  BY <1>1, <1>2 DEF CallOK

(* The answer to a call, and what the server still has to do for it.       *)
LEMMA AnsweredOK ==
    ASSUME NEW c, CallOK(c)
    PROVE  /\ \A st \in {"ok", "err"} :
                 c.kind = "op" \/ (c.kind = "load" /\ st = "err") => CallOK([c EXCEPT !.st = st])
           /\ c.kind = "op" /\ c.st = "sent" => CallOK([c EXCEPT !.kind = "effect"])
           /\ \A l \in Lists :
                 c.kind = "load" => CallOK([c EXCEPT !.st = "ok", !.seen = l])
<1>1. ASSUME NEW st \in {"ok", "err"},
             c.kind = "op" \/ (c.kind = "load" /\ st = "err")
      PROVE  CallOK([c EXCEPT !.st = st])
  BY <1>1 DEF CallOK, Call
<1>2. ASSUME c.kind = "op", c.st = "sent" PROVE CallOK([c EXCEPT !.kind = "effect"])
  BY <1>2 DEF CallOK, Call
<1>3. ASSUME NEW l \in Lists, c.kind = "load"
      PROVE  CallOK([c EXCEPT !.st = "ok", !.seen = l])
  BY <1>3 DEF CallOK, Call
<1>4. QED
  BY <1>1, <1>2, <1>3

(* A step that starts no call and ends some.                               *)
LEMMA FewerCalls ==
    ASSUME TypeInv, panel' = panel, net' \subseteq net, ui' \in UiState,
           ui'.epoch = ui.epoch, srv' \in [Subjects -> Lists], used' \in 0..MaxSteps
    PROVE  TypeInv'
<1>1. /\ \A c \in net : CallOK(c)
      /\ ui \in UiState /\ ui.epoch \in Nat /\ IsFiniteSet(net) /\ panel \in AllPanels
  BY DEF TypeInv, TypeOK, UiState
<1>2. \A c \in net' : CallOK(c)'
  <2>1. SUFFICES ASSUME NEW c \in net' PROVE CallOK(c)'
    OBVIOUS
  <2>2. ui'.epoch >= ui.epoch
    BY <1>1
  <2>3. QED
    BY <1>1, <2>2, CallKept
<1>3. IsFiniteSet(net') /\ UiState' = UiState
  BY <1>1, FS_Subset, SamePanel
<1>4. TypeOK'
  BY <1>1, <1>2, <1>3 DEF TypeOK
<1>5. Cardinality(IdsOf(net)') + Cardinality(IdsOf(Writes)') <= 2 * MaxCalls
  <2>1. IdsOf(net)' \subseteq IdsOf(net) /\ IdsOf(Writes)' \subseteq IdsOf(Writes)
    BY DEF IdsOf, Writes
  <2>2. QED
    BY <2>1, IdsKept DEF TypeInv
<1>6. Apart(net')
  BY DEF TypeInv, IdsOK, Apart
<1>7. QED
  BY <1>4, <1>5, <1>6 DEF TypeInv, IdsOK, Apart

(* A step of the network or the server: a call is answered, with or        *)
(* without an effect that is still to come.                                *)
LEMMA CallAnswered ==
    ASSUME TypeInv, UNCHANGED <<panel, ui>>, NEW c \in net, c.kind # "effect",
           c.st = "sent", NEW a, CallOK(a), a.id = c.id, a.kind = c.kind, a.st # "sent",
           NEW E, E = {} \/ (c.kind = "op" /\ E = {[c EXCEPT !.kind = "effect"]}),
           net' = ((net \ {c}) \cup {a}) \cup E,
           srv' \in [Subjects -> Lists], used' \in 0..MaxSteps
    PROVE  TypeInv'
<1>1. /\ \A d \in net : CallOK(d)
      /\ ui \in UiState /\ ui.epoch \in Nat /\ IsFiniteSet(net) /\ panel \in AllPanels
  BY DEF TypeInv, TypeOK, UiState
<1>2. \A e \in E : CallOK(e) /\ e.id = c.id /\ e.kind = "effect" /\ c.kind = "op"
  <2>1. CASE E = {}
    BY <2>1
  <2>2. CASE c.kind = "op" /\ E = {[c EXCEPT !.kind = "effect"]}
    <3> DEFINE e == [c EXCEPT !.kind = "effect"]
    <3>1. CallOK(c) /\ c \in Call
      BY <1>1 DEF CallOK
    <3>2. CallOK(e)
      BY <2>2, <3>1, AnsweredOK
    <3>3. e.id = c.id /\ e.kind = "effect"
      BY <3>1 DEF Call
    <3>4. QED
      BY <2>2, <3>2, <3>3
  <2>3. QED
    BY <2>1, <2>2
<1>3. \A d \in net' : CallOK(d)'
  <2>1. SUFFICES ASSUME NEW d \in net' PROVE CallOK(d)'
    OBVIOUS
  <2>2. CallOK(d) /\ ui'.epoch >= ui.epoch
    BY <1>1, <1>2
  <2>3. QED
    BY <1>1, <2>2, CallKept
<1>4. IsFiniteSet(net')
  <2>1. IsFiniteSet(net \ {c})
    BY <1>1, FS_RemoveElement
  <2>2. IsFiniteSet((net \ {c}) \cup {a})
    BY <2>1, FS_AddElement
  <2>3. IsFiniteSet(E)
    <3>1. IsFiniteSet({}) /\ IsFiniteSet({[c EXCEPT !.kind = "effect"]})
      BY FS_Singleton, FS_EmptySet
    <3>2. QED
      BY <3>1
  <2>4. QED
    BY <2>2, <2>3, FS_Union
<1>5. TypeOK'
  BY <1>1, <1>3, <1>4, SamePanel DEF TypeOK
<1>6. Cardinality(IdsOf(net)') + Cardinality(IdsOf(Writes)') <= 2 * MaxCalls
  <2>1. IdsOf(net)' \subseteq IdsOf(net)
    BY <1>2 DEF IdsOf
  <2>2. IdsOf(Writes)' \subseteq IdsOf(Writes)
    BY <1>2 DEF IdsOf, Writes
  <2>3. QED
    BY <2>1, <2>2, IdsKept DEF TypeInv
<1>7. Apart(net')
  <2>1. \A d \in net \ {c} : d.id = c.id => d.kind = "effect" /\ c.kind # "op"
    BY DEF TypeInv, IdsOK, Apart
  <2>2. \A d, e \in E : d = e
    OBVIOUS
  <2>3. ASSUME NEW d \in net', NEW e \in net', d.id = e.id,
               \/ d.kind # "effect" /\ e.kind # "effect"
               \/ d.kind = "effect" /\ e.kind = "effect"
               \/ d.kind = "effect" /\ e.kind = "op" /\ e.st = "sent"
        PROVE  d = e
    <3>1. CASE d \in net \ {c} /\ e \in net \ {c}
      BY <2>3, <3>1 DEF TypeInv, IdsOK, Apart
    <3>2. CASE d \in {a} \cup E /\ e \in net \ {c}
      BY <1>2, <2>1, <2>3, <3>2
    <3>3. CASE d \in net \ {c} /\ e \in {a} \cup E
      BY <1>2, <2>1, <2>3, <3>3
    <3>4. CASE d \in {a} \cup E /\ e \in {a} \cup E
      BY <1>2, <2>2, <2>3, <3>4
    <3>5. QED
      BY <3>1, <3>2, <3>3, <3>4
  <2>4. QED
    BY <2>3 DEF Apart
<1>8. QED
  BY <1>5, <1>6, <1>7 DEF TypeInv, IdsOK, Apart

(* A step that starts a call: there is room for it, or it follows a        *)
(* handler's call, which ends.                                             *)
LEMMA CallStarted ==
    ASSUME TypeInv, panel' = panel, NEW n, n.id = Fresh, n.kind # "effect",
           NEW D, \/ D = {} /\ Cardinality(net) < MaxCalls
                  \/ n.kind # "op" /\ \E c \in Writes : D = {c},
           net' = (net \ D) \cup {n}, CallOK(n)',
           ui' \in UiState, ui'.epoch >= ui.epoch,
           srv' \in [Subjects -> Lists], used' \in 0..MaxSteps
    PROVE  TypeInv'
<1>1. /\ \A d \in net : CallOK(d)
      /\ ui \in UiState /\ IsFiniteSet(net) /\ panel \in AllPanels
  BY DEF TypeInv, TypeOK
<1>2. Fresh \in 1..(2 * MaxCalls) /\ \A d \in net : d.id # Fresh
  BY FreshId DEF TypeInv
<1>3. \A d \in net' : CallOK(d)'
  <2>1. SUFFICES ASSUME NEW d \in net \ D PROVE CallOK(d)'
    OBVIOUS
  <2>2. QED
    BY <1>1, CallKept
<1>4. IsFiniteSet(net')
  <2>1. IsFiniteSet(net \ D)
    BY <1>1, FS_Subset
  <2>2. QED
    BY <2>1, FS_AddElement
<1>5. TypeOK'
  BY <1>1, <1>3, <1>4, SamePanel DEF TypeOK
<1>6. Cardinality(IdsOf(net)') + Cardinality(IdsOf(Writes)') <= 2 * MaxCalls
  <2>1. IdsOf(net)' \subseteq IdsOf(net) \cup {Fresh}
    BY DEF IdsOf
  <2>2. CASE D = {} /\ Cardinality(net) < MaxCalls
    <3>1. IdsOf(Writes)' \subseteq IdsOf(Writes) \cup {Fresh}
      BY DEF IdsOf, Writes
    <3>2. QED
      BY <2>1, <2>2, <3>1, IdsTaken DEF TypeInv
  <2>3. ASSUME NEW c \in Writes, D = {c}, n.kind # "op"
        PROVE  Cardinality(IdsOf(net)') + Cardinality(IdsOf(Writes)') <= 2 * MaxCalls
    <3>1. c.id \in IdsOf(Writes)
      BY DEF IdsOf
    <3>2. \A d \in Writes : d # c => d.id # c.id
      BY DEF Writes, TypeInv, IdsOK, Apart
    <3>3. IdsOf(Writes)' \subseteq IdsOf(Writes) \ {c.id}
      BY <2>3, <3>2 DEF IdsOf, Writes
    <3>4. QED
      BY <2>1, <3>1, <3>3, IdsPassedOn DEF TypeInv
  <2>4. QED
    BY <2>2, <2>3
<1>7. Apart(net')
  BY <1>2 DEF TypeInv, IdsOK, Apart
<1>8. QED
  BY <1>5, <1>6, <1>7 DEF TypeInv, IdsOK, Apart

(* What an effect does to the lists.                                       *)
LEMMA EffectOK ==
    ASSUME TypeOK, NEW c \in net, c.kind # "load", NEW L \in [Subjects -> Lists]
    PROVE  /\ Effect(L, c) \in [Subjects -> Lists]
           /\ \A s \in Subjects : s # c.subject => Effect(L, c)[s] = L[s]
           /\ Handler(c.op).does = "nop" => Effect(L, c) = L
           /\ Handler(c.op).does = "del"
                => Effect(L, c)[c.subject] = [L[c.subject] EXCEPT ![c.row] = Absent]
<1> DEFINE s == c.subject
           r == c.row
           old == L[s][r]
           does == Handler(c.op).does
           new == CASE does = "add" -> IF old = Absent THEN 1 ELSE old
                    [] does = "del" -> Absent
                    [] does = "put" -> IF old = Absent THEN Absent ELSE c.val
                    [] does = "nop" -> old
           l == [L[s] EXCEPT ![r] = new]
<1>1. /\ s \in Subjects /\ r \in Rows /\ c.op \in Ops /\ c.val \in 0..2
  BY DEF TypeOK, CallOK, Call
<1>2. does \in {"add", "del", "put", "nop"}
  BY <1>1, MountedWellFormed DEF WellFormed, Handler, Ops
<1>3. L[s] \in Lists /\ old \in 0..2
  BY <1>1 DEF Lists
<1>4. new \in 0..2 /\ (does = "nop" => new = old) /\ (does = "del" => new = Absent)
  BY <1>1, <1>2, <1>3 DEF Absent
<1>5. Effect(L, c) = [L EXCEPT ![s] = l]
  BY DEF Effect
<1> HIDE DEF new, does
<1>6. l \in Lists /\ (does = "nop" => l = L[s])
      /\ (does = "del" => l = [L[s] EXCEPT ![r] = Absent])
  BY <1>1, <1>3, <1>4 DEF Lists
<1> HIDE DEF l
<1>7. QED
  BY <1>1, <1>5, <1>6 DEF does

(* And to what GETs return: nothing yet, if that is a cache.               *)
LEMMA ChangeOK ==
    ASSUME TypeOK, NEW c \in net, c.kind # "load", Change(c)
    PROVE  /\ srv' \in [Subjects -> Lists]
           /\ \A s \in Subjects : s # c.subject => srv'[s] = srv[s]
           /\ Handler(c.op).does = "nop" => srv' = srv
           /\ Handler(c.op).does = "del" /\ ~panel.load.cached
                => srv'[c.subject] = [srv[c.subject] EXCEPT ![c.row] = Absent]
           /\ pve \in [Subjects -> Lists] => pve' \in [Subjects -> Lists]
<1>1. srv \in [Subjects -> Lists]
  BY DEF TypeOK
<1>2. CASE panel.load.cached
  <2>1. pve' = Effect(pve, c) /\ srv' = srv
    BY <1>2 DEF Change
  <2>2. pve \in [Subjects -> Lists] => Effect(pve, c) \in [Subjects -> Lists]
    BY EffectOK
  <2>3. QED
    BY <1>1, <1>2, <2>1, <2>2
<1>3. CASE ~panel.load.cached
  <2>1. srv' = Effect(srv, c) /\ pve' = pve
    BY <1>3 DEF Change
  <2>2. QED
    BY <1>1, <2>1, EffectOK
<1>4. QED
  BY <1>2, <1>3

(* The server answers a load with the list it has then.                    *)
LEMMA ServeLoadTypes ==
    ASSUME TypeInv, NEW c \in net, ServeLoad(c)
    PROVE  TypeInv'
<1> DEFINE a == [c EXCEPT !.st = "ok", !.seen = srv[c.subject]]
<1>1. /\ c \in Call /\ CallOK(c) /\ c.subject \in Subjects /\ srv \in [Subjects -> Lists]
      /\ used \in 0..MaxSteps
  BY DEF TypeInv, TypeOK, CallOK, Call
<1>2. a.id = c.id /\ a.kind = c.kind /\ a.st = "ok"
  BY <1>1 DEF Call
<1>3. CallOK(a)
  BY <1>1, AnsweredOK DEF ServeLoad
<1>4. net' = ((net \ {c}) \cup {a}) \cup {}
  BY DEF ServeLoad
<1> HIDE DEF a
<1>5. /\ UNCHANGED <<panel, ui>> /\ c.kind # "effect" /\ c.st = "sent"
      /\ srv' \in [Subjects -> Lists] /\ used' \in 0..MaxSteps
  BY <1>1 DEF ServeLoad
<1>6. QED
  BY <1>2, <1>3, <1>4, <1>5, CallAnswered

(* The server answers a handler's call, and carries it out or starts a    *)
(* task.                                                                   *)
LEMMA ServeWriteTypes ==
    ASSUME TypeInv, NEW c \in net, ServeWrite(c)
    PROVE  TypeInv'
<1> DEFINE a == [c EXCEPT !.st = "ok"]
           E == IF Handler(c.op).task THEN {[c EXCEPT !.kind = "effect"]} ELSE {}
<1>1. c \in Call /\ CallOK(c) /\ srv \in [Subjects -> Lists] /\ used \in 0..MaxSteps
  BY DEF TypeInv, TypeOK, CallOK
<1>2. a.id = c.id /\ a.kind = c.kind /\ a.st = "ok"
  BY <1>1 DEF Call
<1>3. CallOK(a)
  BY <1>1, AnsweredOK DEF ServeWrite
<1>4. net' = ((net \ {c}) \cup {a}) \cup E
  BY DEF ServeWrite, Answer
<1>5. E = {} \/ (c.kind = "op" /\ E = {[c EXCEPT !.kind = "effect"]})
  BY DEF ServeWrite
<1> HIDE DEF a, E
<1>6. /\ UNCHANGED <<panel, ui>> /\ c.kind # "effect" /\ c.st = "sent"
      /\ srv' \in [Subjects -> Lists] /\ used' \in 0..MaxSteps
  BY <1>1, ChangeOK DEF ServeWrite, TypeInv
<1>7. QED
  BY <1>2, <1>3, <1>4, <1>5, <1>6, CallAnswered

(* A call fails, and may have been carried out or not.                     *)
LEMMA FailTypes ==
    ASSUME TypeInv, NEW c \in net, Fail(c)
    PROVE  TypeInv'
<1> DEFINE a == [c EXCEPT !.st = "err"]
           e == [c EXCEPT !.kind = "effect"]
<1>1. c \in Call /\ CallOK(c) /\ srv \in [Subjects -> Lists] /\ used \in 0..MaxSteps
      /\ c.kind \in {"op", "load"} /\ c.st = "sent"
  BY DEF TypeInv, TypeOK, CallOK, Call, Fail
<1>2. a.id = c.id /\ a.kind = c.kind /\ a.st = "err"
  BY <1>1 DEF Call
<1>3. CallOK(a)
  BY <1>1, AnsweredOK
<1>4. PICK E : /\ E = {} \/ (c.kind = "op" /\ E = {e})
               /\ net' = ((net \ {c}) \cup {a}) \cup E
  <2>1. CASE net' = Answer(c, "err")
    <3>1. net' = ((net \ {c}) \cup {a}) \cup {}
      BY <2>1 DEF Answer
    <3>2. QED
      BY <3>1
  <2>2. CASE c.kind = "op" /\ net' = Answer(c, "err") \cup {e}
    BY <2>2 DEF Answer
  <2>3. QED
    BY <2>1, <2>2 DEF Fail
<1> HIDE DEF a
<1>5. /\ UNCHANGED <<panel, ui>> /\ c.kind # "effect"
      /\ srv' \in [Subjects -> Lists] /\ used' \in 0..MaxSteps
  BY <1>1, PanelsAssumption DEF Fail
<1>6. QED
  BY <1>1, <1>2, <1>3, <1>4, <1>5, CallAnswered

(* An effect lands.                                                        *)
LEMMA LandTypes ==
    ASSUME TypeInv, NEW c \in net, Land(c)
    PROVE  TypeInv'
<1>1. ui \in UiState /\ used \in 0..MaxSteps
  BY DEF TypeInv, TypeOK
<1>2. /\ net' \subseteq net /\ srv' \in [Subjects -> Lists]
      /\ UNCHANGED <<panel, ui, used>>
  <2>1. c.kind = "effect" /\ Change(c) /\ net' = net \ {c} /\ UNCHANGED <<panel, ui, used>>
    BY DEF Land
  <2>2. QED
    BY <2>1, ChangeOK DEF TypeInv
<1>3. QED
  BY <1>1, <1>2, FewerCalls

(* The poller publishes a list.                                            *)
LEMMA PublishTypes ==
    ASSUME TypeInv, CacheOK, NEW s \in Subjects, Publish(s)
    PROVE  TypeInv'
<1>1. /\ ui \in UiState /\ used \in 0..MaxSteps /\ srv \in [Subjects -> Lists]
      /\ pve[s] \in Lists
  BY DEF TypeInv, TypeOK, CacheOK
<1>2. /\ net' \subseteq net /\ UNCHANGED <<panel, ui>>
      /\ \/ srv' = [srv EXCEPT ![s] = pve[s]] /\ used' = used
         \/ /\ srv' = [srv EXCEPT ![s] = [r \in Rows |-> Absent]]
            /\ used < MaxSteps /\ used' = used + 1
  BY DEF Publish
<1>3. [r \in Rows |-> Absent] \in Lists
  BY DEF Lists, Absent
<1>4. srv' \in [Subjects -> Lists]
  BY <1>1, <1>2, <1>3
<1>5. used' \in 0..MaxSteps
  BY <1>1, <1>2, PanelsAssumption
<1>6. QED
  BY <1>1, <1>2, <1>4, <1>5, FewerCalls

(* A load function goes on: with the list, without it, or it was cancelled *)
(* and changes nothing.                                                    *)
LEMMA LoadDoneTypes ==
    ASSUME TypeInv, NEW c \in net, LoadDone(c)
    PROVE  /\ TypeInv' /\ net' = net \ {c} /\ UNCHANGED <<panel, srv, used>>
           /\ ui'.subject = ui.subject /\ ui'.epoch = ui.epoch /\ ui'.timers = ui.timers
           /\ \/ ~Awaited(c) /\ ui' = ui
              \/ /\ Awaited(c) /\ c.st = "err" /\ ui'.loading = FALSE /\ ~ui'.calm
              \/ /\ Awaited(c) /\ c.st = "ok" /\ ui'.loading = FALSE
                 /\ ui'.shown = c.seen /\ ui'.of = c.subject
                 /\ ui'.calm => ui.calm /\ c.subject = ui.subject
<1> DEFINE done == FinishLoad(ui, c)
           good == [done EXCEPT !.shown = c.seen, !.of = c.subject, !.error = FALSE,
                                !.calm = @ /\ c.subject = ui.subject]
           bad == [done EXCEPT !.error = TRUE, !.calm = FALSE]
<1>1. /\ ui \in UiState /\ used \in 0..MaxSteps /\ srv \in [Subjects -> Lists]
      /\ CallOK(c) /\ c.subject \in Subjects /\ TypeOK
  BY DEF TypeInv, TypeOK, CallOK, Call
<1>2. done \in UiState /\ SameList(ui, done) /\ done.loading = FALSE /\ done.calm = ui.calm
  BY <1>1, FinishLoadOK
<1>3. /\ c.kind = "load" /\ c.st \in {"ok", "err"} /\ net' = net \ {c}
      /\ UNCHANGED <<panel, srv, used>>
      /\ Awaited(c) /\ c.st = "ok" => ui' = good
      /\ ~Awaited(c) => ui' = ui
  BY DEF LoadDone
<1>4. Awaited(c) /\ c.st = "err" => ui' \in {UnmountContent(bad), HideContent(bad), bad}
  <2>1. panel.load.error \in {"banner", "blocks", "unmounts"}
    BY <1>1, MountedWellFormed DEF WellFormed
  <2>2. QED
    BY <2>1, <1>3 DEF LoadDone
<1> HIDE DEF done
<1>5. bad \in UiState /\ SameList(ui, bad) /\ bad.loading = FALSE /\ bad.calm = FALSE
  BY <1>2 DEF UiState, SameList
<1> HIDE DEF bad
<1>6. CASE ~Awaited(c)
  <2>1. ui' = ui
    BY <1>3, <1>6
  <2>2. QED
    BY <1>1, <1>3, <1>6, <2>1, FewerCalls
<1>7. CASE Awaited(c) /\ c.st = "err"
  <2>1. ui' \in UiState /\ SameList(ui, ui') /\ ui'.loading = FALSE /\ ui'.calm = FALSE
    <3>1. CASE ui' = bad
      BY <1>5, <3>1
    <3>2. CASE ui' = HideContent(bad)
      BY <1>1, <1>5, <3>2, HideContentOK DEF SameList
    <3>3. CASE ui' = UnmountContent(bad)
      BY <1>1, <1>5, <3>3, UnmountContentOK DEF SameList
    <3>4. QED
      BY <1>4, <1>7, <3>1, <3>2, <3>3
  <2>2. TypeInv'
    BY <1>1, <1>3, <2>1, FewerCalls DEF SameList
  <2>3. QED
    BY <1>3, <1>7, <2>1, <2>2 DEF SameList
<1>8. CASE Awaited(c) /\ c.st = "ok"
  <2>1. ui' = good /\ c.seen \in Lists
    BY <1>1, <1>3, <1>8 DEF CallOK
  <2> DEFINE k == done.calm /\ c.subject = ui.subject
             x == [done EXCEPT !.shown = c.seen]
             y == [x EXCEPT !.of = c.subject]
             z == [y EXCEPT !.error = FALSE]
             w == [z EXCEPT !.calm = k]
  <2>2. good = w
    BY <1>2 DEF UiState
  <2>3. k \in BOOLEAN /\ (k => ui.calm /\ c.subject = ui.subject)
    BY <1>2 DEF UiState
  <2> HIDE DEF k, good
  <2>4. x \in UiState /\ x.shown = c.seen /\ x.subject = ui.subject /\ x.epoch = ui.epoch
        /\ x.timers = ui.timers /\ x.loading = FALSE
    BY <1>2, <2>1 DEF UiState, SameList
  <2> HIDE DEF x
  <2>5. y \in UiState /\ y.of = c.subject /\ y.shown = c.seen /\ y.subject = ui.subject
        /\ y.epoch = ui.epoch /\ y.timers = ui.timers /\ y.loading = FALSE
    BY <1>1, <2>4 DEF UiState
  <2> HIDE DEF y
  <2>6. z \in UiState /\ z.of = c.subject /\ z.shown = c.seen /\ z.subject = ui.subject
        /\ z.epoch = ui.epoch /\ z.timers = ui.timers /\ z.loading = FALSE
    BY <2>5 DEF UiState
  <2> HIDE DEF z
  <2>7. w \in UiState /\ w.of = c.subject /\ w.shown = c.seen /\ w.subject = ui.subject
        /\ w.epoch = ui.epoch /\ w.timers = ui.timers /\ w.loading = FALSE /\ w.calm = k
    BY <2>3, <2>6 DEF UiState
  <2>8. ui' = w
    BY <2>1, <2>2
  <2> HIDE DEF w
  <2>9. TypeInv'
    BY <1>1, <1>3, <2>7, <2>8, FewerCalls
  <2>10. QED
    BY <1>3, <1>8, <2>3, <2>7, <2>8, <2>9
<1>9. QED
  BY <1>3, <1>6, <1>7, <1>8

(* A handler goes on after its call has failed.                            *)
LEMMA WriteFailedTypes ==
    ASSUME TypeInv, NEW c \in net, WriteFailed(c)
    PROVE  TypeInv' /\ SameList(ui, ui') /\ ui'.loading = ui.loading /\ ~ui'.calm
<1> DEFINE r == Release(ui, c)
<1>1. /\ ui \in UiState /\ used \in 0..MaxSteps /\ srv \in [Subjects -> Lists] /\ TypeOK
  BY DEF TypeInv, TypeOK
<1>2. r \in UiState /\ SameList(ui, r) /\ r.loading = ui.loading
  BY <1>1, ReleaseOK
<1>3. /\ net' \subseteq net /\ UNCHANGED <<panel, srv, used>>
      /\ ui' = [r EXCEPT !.calm = FALSE]
  BY DEF WriteFailed
<1> HIDE DEF r
<1>4. ui' \in UiState /\ SameList(ui, ui') /\ ui'.loading = ui.loading /\ ui'.calm = FALSE
  BY <1>2, <1>3 DEF UiState, SameList
<1>5. QED
  BY <1>1, <1>3, <1>4, FewerCalls DEF SameList

(* A load function that starts sends a load.                               *)
LEMMA LoadStarted ==
    ASSUME TypeInv, panel' = panel, NEW s \in Subjects, NEW g \in BOOLEAN, NEW i \in Nat,
           NEW h \in Ops \cup {None}, g => h = None /\ i <= ui'.epoch,
           NEW D, \/ D = {} /\ Cardinality(net) < MaxCalls
                  \/ \E c \in Writes : D = {c},
           net' = (net \ D) \cup {LoadCall(s, g, i, h)},
           ui' \in UiState, ui'.epoch >= ui.epoch,
           srv' \in [Subjects -> Lists], used' \in 0..MaxSteps
    PROVE  TypeInv'
<1>0. PICK n : n = LoadCall(s, g, i, h)
  OBVIOUS
<1>1. /\ n.id = Fresh /\ n.kind = "load" /\ n.st = "sent" /\ n.inst = i /\ n.op = h
      /\ n.guarded = g
  BY <1>0 DEF LoadCall
<1>2. Fresh \in 1..(2 * MaxCalls)
  <2>1. Cardinality(net) < MaxCalls \/ Writes # {}
    OBVIOUS
  <2>2. QED
    BY <2>1, FreshId DEF TypeInv
<1>3. n \in Call
  BY <1>0, <1>2 DEF LoadCall, Call, Absent
<1>4. CallOK(n)'
  BY <1>1, <1>3, SamePanel DEF CallOK
<1>5. /\ n.kind # "effect" /\ n.kind # "op" /\ net' = (net \ D) \cup {n}
      /\ \/ D = {} /\ Cardinality(net) < MaxCalls
         \/ n.kind # "op" /\ \E c \in Writes : D = {c}
  BY <1>0, <1>1
<1>6. QED
  BY <1>1, <1>4, <1>5, CallStarted

(* A form is opened.                                                       *)
LEMMA OpenFormTypes ==
    ASSUME TypeInv, NEW o \in Ops, OpenForm(o)
    PROVE  /\ TypeInv' /\ SameList(ui, ui') /\ SamePlace(ui, ui')
           /\ ui'.loading = ui.loading /\ ui'.calm = ui.calm
<1>1. ui \in UiState /\ used \in 0..MaxSteps /\ srv \in [Subjects -> Lists]
  BY DEF TypeInv, TypeOK
<1>2. ui' = [ui EXCEPT !.form = o] /\ UNCHANGED <<panel, srv, net, used>>
  BY DEF OpenForm
<1>3. /\ ui' \in UiState /\ SameList(ui, ui') /\ SamePlace(ui, ui')
      /\ ui'.loading = ui.loading /\ ui'.calm = ui.calm
  BY <1>1, <1>2 DEF UiState, SameList, SamePlace
<1>4. QED
  BY <1>1, <1>2, <1>3, FewerCalls DEF SameList

(* A form is closed; a dialog goes with its variables.                     *)
LEMMA CloseFormTypes ==
    ASSUME TypeInv, CloseForm
    PROVE  /\ TypeInv' /\ SameList(ui, ui') /\ ui'.loading = ui.loading
           /\ ui'.calm = ui.calm
<1> DEFINE v == [ui EXCEPT !.form = None]
<1>1. /\ ui \in UiState /\ used \in 0..MaxSteps /\ srv \in [Subjects -> Lists] /\ TypeOK
  BY DEF TypeInv, TypeOK
<1>2. ui' \in {v, HideContent(v)} /\ UNCHANGED <<panel, srv, net, used>>
  BY DEF CloseForm
<1>3. /\ v \in UiState /\ SameList(ui, v) /\ v.loading = ui.loading /\ v.calm = ui.calm
  BY <1>1, FormClosed
<1> HIDE DEF v
<1>4. /\ ui' \in UiState /\ SameList(ui, ui') /\ ui'.loading = ui.loading
      /\ ui'.calm = ui.calm
  BY <1>1, <1>2, <1>3, HideContentOK DEF SameList
<1>5. QED
  BY <1>1, <1>2, <1>4, FewerCalls DEF SameList

(* A list is pushed.                                                       *)
LEMMA PushTypes ==
    ASSUME TypeInv, Push
    PROVE  TypeInv' /\ SamePlace(ui, ui') /\ ui'.loading = ui.loading
           /\ panel.load.again = "push"
<1>1. /\ ui \in UiState /\ used \in 0..MaxSteps /\ srv \in [Subjects -> Lists]
      /\ ui.subject \in Subjects
  BY DEF TypeInv, TypeOK, UiState
<1>2. /\ ui' = [ui EXCEPT !.shown = srv[ui.subject], !.of = ui.subject]
      /\ UNCHANGED <<panel, srv, net, used>> /\ panel.load.again = "push"
  BY DEF Push
<1>3. srv[ui.subject] \in Lists
  BY <1>1
<1>4. ui' \in UiState /\ SamePlace(ui, ui') /\ ui'.loading = ui.loading
      /\ ui'.epoch = ui.epoch
  BY <1>1, <1>2, <1>3 DEF UiState, SamePlace
<1>5. QED
  BY <1>1, <1>2, <1>4, FewerCalls

(* A handler is pressed: its call carries the subject, the mounting, the   *)
(* row and the list it saw.                                                *)
LEMMA PressCall ==
    ASSUME NEW o \in Ops, NEW r \in Rows, Press(o, r)
    PROVE  \E n : /\ net' = net \cup {n} /\ n.kind = "op" /\ n.st = "sent"
                  /\ n.subject = ui.subject /\ n.seen = ui.shown /\ n.op = o
                  /\ n.row = r /\ n.inst = ui.inst[Holder(o)]
<1>1. PICK n : n = [id |-> Fresh, kind |-> "op", st |-> "sent", subject |-> ui.subject,
                    inst |-> ui.inst[Holder(o)], guarded |-> FALSE, op |-> o, row |-> r,
                    val |-> IF Handler(o).does = "put" /\ ui.shown[r] = 1 THEN 2 ELSE 1,
                    seen |-> ui.shown]
  OBVIOUS
<1>2. net' = net \cup {n}
  BY <1>1 DEF Press
<1>3. /\ n.kind = "op" /\ n.st = "sent" /\ n.subject = ui.subject /\ n.seen = ui.shown
      /\ n.op = o /\ n.row = r /\ n.inst = ui.inst[Holder(o)]
  BY <1>1
<1>4. QED
  BY <1>2, <1>3

(* Its variable is set, and the list stays.                                *)
LEMMA PressTypes ==
    ASSUME TypeInv, NEW o \in Ops, NEW r \in Rows, Press(o, r)
    PROVE  /\ TypeInv' /\ SameList(ui, ui') /\ ui'.loading = ui.loading
           /\ UNCHANGED <<panel, srv>> /\ ~ui.loading
           /\ ui'.calm => ui.calm /\ (Handler(o).then = "filter" => Writes = {})
           /\ ui'.inst = ui.inst
           /\ ui'.busy = [f \in Flags |-> IF f = Handler(o).flag /\ f # None
                                          THEN r ELSE ui.busy[f]]
<1>0. PICK n : n = [id |-> Fresh, kind |-> "op", st |-> "sent", subject |-> ui.subject,
                    inst |-> ui.inst[Holder(o)], guarded |-> FALSE, op |-> o, row |-> r,
                    val |-> IF Handler(o).does = "put" /\ ui.shown[r] = 1 THEN 2 ELSE 1,
                    seen |-> ui.shown]
  OBVIOUS
<1> DEFINE b == [f \in Flags |-> IF f = Handler(o).flag /\ f # None THEN r ELSE ui.busy[f]]
           k == ui.calm /\ (Handler(o).then = "filter" => Writes = {})
<1>1. /\ ui \in UiState /\ used \in 0..MaxSteps /\ srv \in [Subjects -> Lists]
      /\ ui.busy \in [Flags -> Rows \cup {None}] /\ ui.inst \in [Parts -> Nat]
      /\ ui.subject \in Subjects /\ ui.shown \in Lists /\ ui.epoch \in Nat
  BY DEF TypeInv, TypeOK, UiState
<1>2. /\ used < MaxSteps /\ Cardinality(net) < MaxCalls /\ used' = used + 1
      /\ net' = net \cup {n} /\ UNCHANGED <<panel, srv>> /\ ~ui.loading
      /\ ui' = [ui EXCEPT !.busy = b, !.calm = k]
  BY <1>0, <1>1 DEF Press, Visible
<1>3. b \in [Flags -> Rows \cup {None}]
  BY <1>1
<1>4. k \in BOOLEAN /\ (k => ui.calm /\ (Handler(o).then = "filter" => Writes = {}))
  BY <1>1 DEF UiState
<1>5. Fresh \in 1..(2 * MaxCalls) /\ ui.inst[Holder(o)] \in Nat
  BY <1>1, <1>2, FreshId DEF TypeInv, Holder, Parts
<1>6. n \in Call
  BY <1>0, <1>1, <1>5 DEF Call
<1>7. /\ n.kind = "op" /\ n.st = "sent" /\ n.subject = ui.subject /\ n.seen = ui.shown
      /\ n.op = o /\ n.row = r /\ n.inst = ui.inst[Holder(o)] /\ n.id = Fresh
      /\ ~n.guarded /\ n.val # 0
  BY <1>0
<1> HIDE DEF b, k
<1>8. /\ ui' \in UiState /\ SameList(ui, ui') /\ ui'.loading = ui.loading
      /\ ui'.inst = ui.inst /\ ui'.busy = b /\ ui'.calm = k
  BY <1>1, <1>2, <1>3, <1>4 DEF UiState, SameList
<1>9. CallOK(n)'
  BY <1>1, <1>2, <1>6, <1>7, SamePanel DEF CallOK
<1>10. used' \in 0..MaxSteps
  BY <1>1, <1>2, PanelsAssumption
<1>11. TypeInv'
  <2>1. net' = (net \ {}) \cup {n} /\ n.kind # "effect" /\ ui'.epoch >= ui.epoch
    BY <1>1, <1>2, <1>7, <1>8 DEF SameList
  <2>2. QED
    BY <1>1, <1>2, <1>7, <1>8, <1>9, <1>10, <2>1, CallStarted
<1>12. QED
  BY <1>2, <1>4, <1>7, <1>8, <1>11 DEF b

(* A timer fires: the list of the handler's render is read.                *)
LEMMA TimerFiresTypes ==
    ASSUME TypeInv, NEW s \in Subjects, TimerFires(s)
    PROVE  /\ TypeInv' /\ UNCHANGED <<panel, srv>>
           /\ ui'.subject = ui.subject /\ ui'.shown = ui.shown /\ ui'.of = ui.of
           /\ ui'.epoch = ui.epoch /\ SamePlace(BeginLoad(ui), ui')
           /\ ui.timers[s] > 0
           /\ ui'.calm => ui.calm /\ \A c \in Loads : ~Awaited(c)
           /\ net' = net \cup {LoadCall(s, FALSE, 0, None)}
<1> DEFINE b == BeginLoad(ui)
           t == [ui.timers EXCEPT ![s] = @ - 1]
           w == [b EXCEPT !.timers = t]
<1>1. /\ ui \in UiState /\ used \in 0..MaxSteps /\ srv \in [Subjects -> Lists] /\ TypeOK
      /\ ui.timers \in [Subjects -> Nat] /\ ui.epoch \in Nat
  BY DEF TypeInv, TypeOK, UiState
<1>2. /\ b \in UiState /\ SameList(ui, b)
      /\ b.calm => ui.calm /\ \A c \in Loads : ~Awaited(c)
  BY <1>1, BeginLoadOK
<1>3. /\ ui.timers[s] > 0 /\ Cardinality(net) < MaxCalls /\ UNCHANGED <<panel, srv, used>>
      /\ net' = net \cup {LoadCall(s, FALSE, 0, None)}
      /\ ui' = [b EXCEPT !.timers[s] = @ - 1]
  BY DEF TimerFires
<1> HIDE DEF b
<1>4. t \in [Subjects -> Nat]
  BY <1>1, <1>3
<1>5. ui' = w
  BY <1>2, <1>3 DEF SameList
<1> HIDE DEF t
<1>6. /\ w \in UiState /\ w.subject = b.subject /\ w.shown = b.shown /\ w.of = b.of
      /\ w.epoch = b.epoch /\ SamePlace(b, w) /\ w.calm = b.calm
  BY <1>2, <1>4 DEF UiState, SamePlace
<1> HIDE DEF w
<1>7. net' = (net \ {}) \cup {LoadCall(s, FALSE, 0, None)} /\ ui'.epoch >= ui.epoch
  BY <1>1, <1>2, <1>3, <1>5, <1>6 DEF SameList
<1>8. TypeInv'
  BY <1>1, <1>3, <1>5, <1>6, <1>7, LoadStarted
<1>9. QED
  BY <1>2, <1>3, <1>5, <1>6, <1>8 DEF SameList, b

(* The list is read again unprompted.                                      *)
LEMMA ReadAgainTypes ==
    ASSUME TypeInv, ReadAgain
    PROVE  /\ TypeInv' /\ UNCHANGED <<panel, srv>> /\ ui' = BeginLoad(ui)
           /\ SameList(ui, ui') /\ panel.load.again # "never"
           /\ ui'.calm => ui.calm /\ \A c \in Loads : ~Awaited(c)
           /\ net' = net \cup {LoadCall(ui.subject, panel.load.subject = "cancelled",
                                        ui.epoch, None)}
<1>1. /\ ui \in UiState /\ used \in 0..MaxSteps /\ srv \in [Subjects -> Lists] /\ TypeOK
      /\ ui.epoch \in Nat /\ ui.subject \in Subjects
  BY DEF TypeInv, TypeOK, UiState
<1>2. /\ panel.load.again # "never" /\ Cardinality(net) < MaxCalls /\ ui' = BeginLoad(ui)
      /\ used < MaxSteps /\ used' = used + 1 /\ UNCHANGED <<panel, srv>>
      /\ net' = net \cup {LoadCall(ui.subject, panel.load.subject = "cancelled",
                                   ui.epoch, None)}
  BY DEF ReadAgain
<1>3. /\ ui' \in UiState /\ SameList(ui, ui')
      /\ ui'.calm => ui.calm /\ \A c \in Loads : ~Awaited(c)
  BY <1>1, <1>2, BeginLoadOK
<1>4. PICK s \in Subjects, i \in Nat : s = ui.subject /\ i = ui.epoch
  BY <1>1
<1>5. PICK g \in BOOLEAN : g = (panel.load.subject = "cancelled")
  OBVIOUS
<1>6. /\ net' = (net \ {}) \cup {LoadCall(s, g, i, None)} /\ ui'.epoch >= ui.epoch
      /\ g => i <= ui'.epoch
  BY <1>1, <1>2, <1>3, <1>4, <1>5 DEF SameList
<1>7. used' \in 0..MaxSteps
  BY <1>1, <1>2, PanelsAssumption
<1>8. TypeInv'
  <2>0. /\ ui' \in UiState /\ ui'.epoch >= ui.epoch /\ panel' = panel
        /\ srv' \in [Subjects -> Lists] /\ Cardinality(net) < MaxCalls
    BY <1>1, <1>2, <1>3, <1>6
  <2>1. CASE g
    <3>1. net' = (net \ {}) \cup {LoadCall(s, TRUE, i, None)} /\ i <= ui'.epoch
      BY <1>6, <2>1
    <3>2. QED
      BY <1>4, <1>7, <2>0, <3>1, LoadStarted
  <2>2. CASE ~g
    <3>1. net' = (net \ {}) \cup {LoadCall(s, FALSE, i, None)}
      BY <1>6, <2>2
    <3>2. QED
      BY <1>4, <1>7, <2>0, <3>1, LoadStarted
  <2>3. QED
    BY <2>1, <2>2
<1>9. QED
  BY <1>2, <1>3, <1>8

(* The subject changes: a new epoch begins with a load of its own.         *)
LEMMA ChangeSubjectTypes ==
    ASSUME TypeInv, NEW s \in Subjects, ChangeSubject(s)
    PROVE  /\ TypeInv' /\ UNCHANGED <<panel, srv>> /\ panel.load.subject # "one"
           /\ ui'.subject = s /\ ui'.epoch = ui.epoch + 1 /\ ui'.timers = ui.timers
           /\ ui'.calm => ui.calm /\ \A c \in Loads : c.guarded
           /\ SamePlace(BeginLoad([ui EXCEPT !.subject = s, !.epoch = @ + 1]), ui')
           /\ net' = net \cup {LoadCall(s, panel.load.subject = "cancelled",
                                        ui.epoch + 1, None)}
<1> DEFINE u == [ui EXCEPT !.subject = s, !.epoch = @ + 1]
           b == BeginLoad(u)
           k == ui.calm /\ ~\E c \in Loads : ~c.guarded
           w == [b EXCEPT !.calm = k]
<1>1. /\ ui \in UiState /\ used \in 0..MaxSteps /\ srv \in [Subjects -> Lists] /\ TypeOK
      /\ ui.epoch \in Nat
  BY DEF TypeInv, TypeOK, UiState
<1>2. /\ panel.load.subject # "one" /\ Cardinality(net) < MaxCalls /\ ui' = w
      /\ used < MaxSteps /\ used' = used + 1 /\ UNCHANGED <<panel, srv>>
      /\ net' = net \cup {LoadCall(s, panel.load.subject = "cancelled",
                                   ui.epoch + 1, None)}
  BY DEF ChangeSubject
<1>3. /\ u \in UiState /\ u.subject = s /\ u.epoch = ui.epoch + 1 /\ u.timers = ui.timers
  <2> DEFINE e == ui.epoch + 1
  <2>1. e \in Nat /\ u = [ui EXCEPT !.subject = s, !.epoch = e]
    BY <1>1
  <2> HIDE DEF e, u
  <2>2. u \in UiState /\ u.subject = s /\ u.epoch = e /\ u.timers = ui.timers
    BY <1>1, <2>1 DEF UiState
  <2>3. QED
    BY <2>2 DEF e
<1>4. k \in BOOLEAN /\ (k => ui.calm /\ \A c \in Loads : c.guarded)
  BY <1>1 DEF UiState
<1> HIDE DEF u, k
<1>5. b \in UiState /\ SameList(u, b)
  BY <1>1, <1>3, BeginLoadOK
<1> HIDE DEF b
<1>6. /\ w \in UiState /\ w.subject = s /\ w.epoch = ui.epoch + 1 /\ w.timers = ui.timers
      /\ SamePlace(b, w) /\ w.calm = k
  BY <1>3, <1>4, <1>5 DEF UiState, SameList, SamePlace
<1> HIDE DEF w
<1>7. PICK i \in Nat : i = ui.epoch + 1
  BY <1>1
<1>8. PICK g \in BOOLEAN : g = (panel.load.subject = "cancelled")
  OBVIOUS
<1>9. /\ net' = (net \ {}) \cup {LoadCall(s, g, i, None)} /\ ui'.epoch >= ui.epoch
      /\ g => i <= ui'.epoch
  BY <1>1, <1>2, <1>6, <1>7, <1>8
<1>10. used' \in 0..MaxSteps
  BY <1>1, <1>2, PanelsAssumption
<1>11. TypeInv'
  <2>0. /\ ui' \in UiState /\ ui'.epoch >= ui.epoch /\ panel' = panel
        /\ srv' \in [Subjects -> Lists] /\ Cardinality(net) < MaxCalls
    BY <1>1, <1>2, <1>6, <1>9
  <2>1. CASE g
    <3>1. net' = (net \ {}) \cup {LoadCall(s, TRUE, i, None)} /\ i <= ui'.epoch
      BY <1>9, <2>1
    <3>2. QED
      BY <1>7, <1>10, <2>0, <3>1, LoadStarted
  <2>2. CASE ~g
    <3>1. net' = (net \ {}) \cup {LoadCall(s, FALSE, i, None)}
      BY <1>9, <2>2
    <3>2. QED
      BY <1>7, <1>10, <2>0, <3>1, LoadStarted
  <2>3. QED
    BY <2>1, <2>2
<1>12. QED
  BY <1>2, <1>4, <1>6, <1>11 DEF b, u

(* A handler goes on after its call: it starts a load, or sets a timer, or *)
(* changes the list it shows, or does neither.                             *)
LEMMA WriteDoneTypes ==
    ASSUME TypeInv, NEW c \in net, WriteDone(c)
    PROVE  /\ TypeInv' /\ UNCHANGED <<panel, srv, used>> /\ c \in Writes /\ c.st = "ok"
           /\ ui'.subject = ui.subject /\ ui'.of = ui.of /\ ui'.epoch = ui.epoch
           /\ ui'.calm => ui.calm
           /\ \/ /\ Handler(c.op).then \in {"read", "await", "hold"}
                 /\ ui'.calm => \A d \in Loads : ~Awaited(d)
                 /\ ui'.timers = ui.timers
                 /\ \E i \in Nat, h \in Ops \cup {None} :
                       /\ net' = (net \ {c}) \cup {LoadCall(c.subject, FALSE, i, h)}
                       /\ h # None => h = c.op /\ i = c.inst
              \/ /\ Handler(c.op).then \in {"later", "drop"} /\ net' = net \ {c}
                 /\ ui'.loading = ui.loading
                 /\ ui'.timers = [ui.timers EXCEPT ![c.subject] = @ + 1]
              \/ /\ Handler(c.op).then = "filter" /\ net' = net \ {c}
                 /\ ui'.loading = ui.loading /\ ui'.timers = ui.timers
                 /\ ui'.shown = [c.seen EXCEPT ![c.row] = Absent]
              \/ /\ Handler(c.op).then = "none" /\ net' = net \ {c}
                 /\ ui'.loading = ui.loading /\ SameList(ui, ui')
<1> DEFINE then == Handler(c.op).then
           u == IF then = "hold" THEN ui ELSE CloseOwnForm(ui, c)
           r == Release(u, c)
           t == [ui.timers EXCEPT ![c.subject] = @ + 1]
           l == [r.shown EXCEPT ![c.row] = Absent]
           f == [c.seen EXCEPT ![c.row] = Absent]
           One(x) == (net \ {c}) \cup {x}
<1>1. /\ ui \in UiState /\ used \in 0..MaxSteps /\ srv \in [Subjects -> Lists] /\ TypeOK
      /\ ui.timers \in [Subjects -> Nat] /\ ui.epoch \in Nat
  BY DEF TypeInv, TypeOK, UiState
<1>2. /\ c.kind = "op" /\ c.st = "ok" /\ then # "page" /\ UNCHANGED <<panel, srv, used>>
      /\ c \in Writes
  BY DEF WriteDone, Writes
<1>3. /\ c.op \in Ops /\ c.subject \in Subjects /\ c.row \in Rows /\ c.seen \in Lists
      /\ c.inst \in Nat
  BY <1>1, <1>2 DEF TypeOK, CallOK, Call
<1>4. then \in {"read", "await", "hold", "later", "drop", "filter", "none"}
  BY <1>1, <1>2, <1>3, MountedWellFormed DEF WellFormed, Handler, Ops
<1>5. /\ u \in UiState /\ SameList(ui, u) /\ u.loading = ui.loading /\ u.calm = ui.calm
  BY <1>1, CloseOwnFormOK DEF SameList
<1> HIDE DEF u
<1>6. /\ r \in UiState /\ SameList(u, r) /\ r.loading = u.loading /\ r.calm = u.calm
  BY <1>1, <1>5, ReleaseOK
<1>7. SameList(ui, r) /\ r.loading = ui.loading /\ r.calm = ui.calm /\ r.shown \in Lists
  BY <1>5, <1>6 DEF SameList, UiState
<1>8. t \in [Subjects -> Nat] /\ r.timers = ui.timers
  BY <1>1, <1>3, <1>7 DEF SameList
<1>9. l \in Lists /\ f \in Lists
  BY <1>3, <1>7 DEF Lists, Absent
<1>10. /\ then = "read" => /\ ui' = BeginLoad(r)
                           /\ net' = One(LoadCall(c.subject, FALSE, 0, None))
       /\ then \in {"await", "hold"} =>
             /\ ui' = BeginLoad(u)
             /\ net' = One(LoadCall(c.subject, FALSE, c.inst, c.op))
       /\ then \in {"later", "drop", "filter", "none"} => net' = net \ {c}
       /\ then = "later" => ui' = [r EXCEPT !.timers[c.subject] = @ + 1]
       /\ then = "drop" => ui' = [r EXCEPT !.shown[c.row] = Absent,
                                           !.timers[c.subject] = @ + 1]
       /\ then = "filter" => ui' = [r EXCEPT !.shown = f]
       /\ then = "none" => ui' = r
  BY DEF WriteDone, u
<1> HIDE DEF r
<1>11. CASE then \in {"read", "await", "hold"}
  <2>1. PICK v \in {u, r}, i \in {0, c.inst}, h \in {None, c.op} :
           /\ ui' = BeginLoad(v)
           /\ net' = (net \ {c}) \cup {LoadCall(c.subject, FALSE, i, h)}
           /\ h # None => h = c.op /\ i = c.inst
    <3>1. CASE then = "read"
      BY <1>10, <3>1
    <3>2. CASE then \in {"await", "hold"}
      BY <1>10, <3>2
    <3>3. QED
      BY <1>11, <3>1, <3>2
  <2>2. v \in UiState /\ SameList(ui, v) /\ v.calm = ui.calm
    BY <1>5, <1>6, <1>7, <2>1
  <2>3. /\ ui' \in UiState /\ SameList(v, ui')
        /\ ui'.calm => v.calm /\ \A d \in Loads : ~Awaited(d)
    BY <1>1, <2>1, <2>2, BeginLoadOK
  <2>4. SameList(ui, ui') /\ ui'.epoch >= ui.epoch /\ i \in Nat /\ h \in Ops \cup {None}
    <3>1. SameList(ui, ui')
      BY <2>2, <2>3 DEF SameList
    <3>2. ui'.epoch >= ui.epoch
      BY <1>1, <3>1 DEF SameList
    <3>3. i \in Nat /\ h \in Ops \cup {None}
      BY <1>3, <2>1
    <3>4. QED
      BY <3>1, <3>2, <3>3
  <2>5. TypeInv'
    <3>1. /\ net' = (net \ {c}) \cup {LoadCall(c.subject, FALSE, i, h)}
          /\ c.subject \in Subjects /\ panel' = panel /\ ui' \in UiState
          /\ srv' \in [Subjects -> Lists] /\ used' \in 0..MaxSteps
          /\ \E d \in Writes : {c} = {d}
      BY <1>1, <1>2, <1>3, <2>1, <2>3
    <3>2. QED
      BY <2>4, <3>1, LoadStarted
  <2>6. QED
    BY <1>2, <1>11, <2>1, <2>2, <2>3, <2>4, <2>5 DEF SameList
<1>12. CASE then \in {"later", "drop"}
  <2> DEFINE x == IF then = "drop" THEN [r EXCEPT !.shown = l] ELSE r
             y == [x EXCEPT !.timers = t]
  <2>1. ui' = y
    BY <1>6, <1>8, <1>10, <1>12 DEF UiState
  <2> HIDE DEF l, t
  <2>2. /\ x \in UiState /\ x.subject = r.subject /\ x.of = r.of /\ x.epoch = r.epoch
        /\ x.loading = r.loading /\ x.calm = r.calm
    BY <1>6, <1>9 DEF UiState
  <2> HIDE DEF x
  <2>3. /\ y \in UiState /\ y.subject = x.subject /\ y.of = x.of /\ y.epoch = x.epoch
        /\ y.loading = x.loading /\ y.calm = x.calm /\ y.timers = t
    BY <1>8, <2>2 DEF UiState
  <2> HIDE DEF y
  <2>4. /\ ui' \in UiState /\ ui'.subject = ui.subject /\ ui'.of = ui.of
        /\ ui'.epoch = ui.epoch /\ ui'.loading = ui.loading /\ ui'.calm = ui.calm
        /\ ui'.timers = t /\ net' = net \ {c}
    BY <1>7, <1>10, <1>12, <2>1, <2>2, <2>3 DEF SameList
  <2>5. TypeInv'
    BY <1>1, <1>2, <2>4, FewerCalls
  <2>6. QED
    BY <1>2, <1>12, <2>4, <2>5 DEF t
<1>13. CASE then = "filter"
  <2> HIDE DEF f
  <2>1. /\ ui' \in UiState /\ ui'.subject = r.subject /\ ui'.of = r.of
        /\ ui'.epoch = r.epoch /\ ui'.loading = r.loading /\ ui'.calm = r.calm
        /\ ui'.timers = r.timers /\ ui'.shown = f /\ net' = net \ {c}
    BY <1>6, <1>9, <1>10, <1>13 DEF UiState
  <2>2. /\ ui'.subject = ui.subject /\ ui'.of = ui.of /\ ui'.epoch = ui.epoch
        /\ ui'.loading = ui.loading /\ ui'.calm = ui.calm /\ ui'.timers = ui.timers
    BY <1>7, <2>1 DEF SameList
  <2>3. TypeInv'
    BY <1>1, <1>2, <2>1, <2>2, FewerCalls
  <2>4. QED
    BY <1>2, <1>13, <2>1, <2>2, <2>3 DEF f
<1>14. CASE then = "none"
  <2>1. ui' = r /\ net' = net \ {c}
    BY <1>10, <1>14
  <2>2. TypeInv'
    BY <1>1, <1>2, <1>6, <1>7, <2>1, FewerCalls DEF SameList
  <2>3. QED
    BY <1>2, <1>7, <1>14, <2>1, <2>2 DEF SameList
<1>15. QED
  BY <1>4, <1>11, <1>12, <1>13, <1>14

(* A panel that has just been mounted, and its first load.                 *)
LEMMA MountedOK ==
    ASSUME NEW s \in Subjects
    PROVE  LET m == Mounted(s)
               l == FirstLoad(s)
           IN  /\ m \in UiState /\ m.subject = s /\ m.epoch = 0 /\ m.calm = TRUE
               /\ m.timers = [x \in Subjects |-> 0]
               /\ m.loading = (panel.load.hides # "never")
               /\ l \in Call /\ l.id = 1 /\ l.kind = "load" /\ l.st = "sent"
               /\ l.op = None /\ l.inst = 0 /\ l.subject = s
<1>1. 1 \in 1..(2 * MaxCalls)
  BY PanelsAssumption
<1>2. /\ [r \in Rows |-> Absent] \in Lists /\ [f \in Flags |-> None] \in [Flags -> Rows \cup {None}]
      /\ [part \in {"child", "content"} |-> 0] \in [Parts -> Nat]
      /\ [x \in Subjects |-> 0] \in [Subjects -> Nat]
  BY DEF Lists, Absent, Parts
<1>3. Mounted(s) \in UiState
  BY <1>2 DEF Mounted, UiState
<1>4. FirstLoad(s) \in Call
  BY <1>1 DEF FirstLoad, Call, Absent
<1>5. QED
  BY <1>3, <1>4 DEF Mounted, FirstLoad

(* The page is loaded again: the browser forgets its calls, the server     *)
(* still carries out those that reached it.                                *)
LEMMA ReloadPageTypes ==
    ASSUME TypeInv, NEW c \in net, ReloadPage(c)
    PROVE  /\ TypeInv' /\ UNCHANGED <<panel, srv, used>> /\ Handler(c.op).then = "page"
           /\ ui' = [Mounted(ui.subject) EXCEPT !.calm = ui.calm]
           /\ ui'.subject = ui.subject /\ ui'.calm = ui.calm
           /\ \E l \in net' : /\ l = FirstLoad(ui.subject)
                              /\ \A d \in net' : d # l => d.kind = "effect"
<1> DEFINE sent == {e \in Writes : e.st = "sent"}
           old == {d \in net : d.kind = "effect"}
           m == Mounted(ui.subject)
<1>1. /\ ui \in UiState /\ used \in 0..MaxSteps /\ srv \in [Subjects -> Lists] /\ TypeOK
      /\ ui.subject \in Subjects /\ ui.calm \in BOOLEAN /\ IsFiniteSet(net)
      /\ panel \in AllPanels /\ \A d \in net : CallOK(d)
  BY DEF TypeInv, TypeOK, UiState
<1>2. /\ c.kind = "op" /\ c.st = "ok" /\ Handler(c.op).then = "page"
      /\ UNCHANGED <<panel, srv, used>> /\ ui' = [m EXCEPT !.calm = ui.calm]
      /\ net' = ({FirstLoad(ui.subject)} \cup {[d EXCEPT !.kind = "effect"] : d \in sent}) \cup old
  BY DEF ReloadPage
<1>3. PICK l : l = FirstLoad(ui.subject)
  OBVIOUS
<1>4. PICK E : E = {[d EXCEPT !.kind = "effect"] : d \in sent}
  OBVIOUS
<1>5. PICK O : O = old
  OBVIOUS
<1>6. net' = ({l} \cup E) \cup O
  BY <1>2, <1>3, <1>4, <1>5
<1>7. /\ m \in UiState /\ m.subject = ui.subject
      /\ l \in Call /\ l.id = 1 /\ l.kind = "load" /\ l.st = "sent"
      /\ l.op = None /\ l.inst = 0 /\ l.subject = ui.subject
  BY <1>1, <1>3, MountedOK
<1> HIDE DEF m
<1>8. ui' \in UiState /\ ui'.subject = ui.subject /\ ui'.calm = ui.calm
  BY <1>1, <1>2, <1>7 DEF UiState
<1>9. \A e \in E : /\ CallOK(e) /\ e.kind = "effect" /\ ~e.guarded
                   /\ \E d \in sent : e = [d EXCEPT !.kind = "effect"] /\ e.id = d.id
  <2>1. SUFFICES ASSUME NEW d \in sent, NEW e, e = [d EXCEPT !.kind = "effect"]
                 PROVE  /\ CallOK(e) /\ e.kind = "effect" /\ ~e.guarded /\ e.id = d.id
    BY <1>4
  <2>2. CallOK(d) /\ d \in Call /\ d.kind = "op" /\ d.st = "sent" /\ ~d.guarded
    BY <1>1 DEF CallOK, Writes
  <2>3. CallOK(e)
    BY <2>1, <2>2, AnsweredOK
  <2>4. QED
    BY <2>1, <2>2, <2>3 DEF Call
<1>10. \A d \in O : CallOK(d) /\ ~d.guarded /\ d.kind = "effect" /\ d \in net
  BY <1>1, <1>5 DEF CallOK
<1>11. \A d \in net' : CallOK(d)'
  <2>1. CallOK(l)'
    <3>1. /\ ui' \in UiState /\ ui'.epoch \in Nat /\ 0 <= ui'.epoch
      BY <1>8 DEF UiState
    <3>2. QED
      BY <1>2, <1>7, <3>1, SamePanel DEF CallOK
  <2>2. \A d \in E \cup O : CallOK(d)'
    BY <1>1, <1>2, <1>8, <1>9, <1>10, CallKept
  <2>3. QED
    BY <1>6, <2>1, <2>2
<1>12. IsFiniteSet(net')
  <2>1. IsFiniteSet(sent) /\ IsFiniteSet(O)
    BY <1>1, <1>5, FS_Subset DEF Writes
  <2> DEFINE f == [d \in sent |-> [d EXCEPT !.kind = "effect"]]
  <2>2. f \in Surjection(sent, E)
    BY <1>4 DEF Surjection
  <2>3. IsFiniteSet(E)
    BY <2>1, <2>2, FS_Surjection
  <2>4. IsFiniteSet({l} \cup E)
    BY <2>3, FS_Singleton, FS_Union
  <2>5. QED
    BY <1>6, <2>1, <2>4, FS_Union
<1>13. TypeOK'
  BY <1>1, <1>2, <1>8, <1>11, <1>12, SamePanel DEF TypeOK
<1>14. Cardinality(IdsOf(net)') + Cardinality(IdsOf(Writes)') <= 2 * MaxCalls
  <2>1. IdsOf(net)' \subseteq IdsOf(net) \cup {1}
    BY <1>6, <1>7, <1>9, <1>10 DEF IdsOf, Writes
  <2>2. IdsOf(Writes)' = {}
    BY <1>6, <1>7, <1>9, <1>10 DEF IdsOf, Writes
  <2>3. c.id \in IdsOf(Writes)
    BY <1>2 DEF IdsOf, Writes
  <2>4. IdsOf(Writes)' \subseteq IdsOf(Writes) \ {c.id}
    BY <2>2
  <2>5. QED
    BY <2>1, <2>3, <2>4, IdsPassedOn DEF TypeInv
<1>15. Apart(net')
  <2>1. \A e \in E : e \notin O /\ \A d \in O : d.id # e.id
    <3>1. SUFFICES ASSUME NEW e \in E, NEW d \in O PROVE d.id # e.id
      OBVIOUS
    <3>2. PICK w \in sent : e.id = w.id
      BY <1>9
    <3>3. w \in net /\ w.kind = "op" /\ w.st = "sent"
      BY <3>2 DEF Writes
    <3>4. QED
      BY <1>10, <3>2, <3>3 DEF TypeInv, IdsOK, Apart
  <2>2. \A d, e \in E : d.id = e.id => d = e
    <3>1. SUFFICES ASSUME NEW d \in E, NEW e \in E, d.id = e.id PROVE d = e
      OBVIOUS
    <3>2. PICK w \in sent : d = [w EXCEPT !.kind = "effect"] /\ d.id = w.id
      BY <1>9
    <3>3. PICK x \in sent : e = [x EXCEPT !.kind = "effect"] /\ e.id = x.id
      BY <1>9
    <3>4. w = x
      BY <3>1, <3>2, <3>3 DEF TypeInv, IdsOK, Apart, Writes
    <3>5. QED
      BY <3>2, <3>3, <3>4
  <2>3. \A d, e \in O : d.id = e.id => d = e
    BY <1>10 DEF TypeInv, IdsOK, Apart
  <2>4. QED
    BY <1>6, <1>7, <1>9, <1>10, <2>1, <2>2, <2>3 DEF Apart
<1>16. TypeInv'
  BY <1>13, <1>14, <1>15 DEF TypeInv, IdsOK, Apart
<1>17. \E k \in net' : /\ k = FirstLoad(ui.subject)
                       /\ \A d \in net' : d # k => d.kind = "effect"
  BY <1>3, <1>6, <1>9, <1>10
<1>18. QED
  BY <1>2, <1>8, <1>16, <1>17 DEF m

(* The first load takes the first number.                                  *)
LEMMA InitTypes == Init => TypeInv
<1> SUFFICES ASSUME Init PROVE TypeInv
  OBVIOUS
<1>1. PICK s \in Subjects : ui = Mounted(s) /\ net = {FirstLoad(s)}
  BY DEF Init
<1> DEFINE l == FirstLoad(s)
<1>2. /\ ui \in UiState /\ ui.epoch = 0 /\ l \in Call /\ l.id = 1 /\ l.kind = "load"
      /\ l.st = "sent" /\ l.op = None /\ l.inst = 0
  BY <1>1, MountedOK
<1>3. net = {l}
  BY <1>1
<1> HIDE DEF l
<1>4. \A c \in net : CallOK(c)
  BY <1>2, <1>3 DEF CallOK
<1>5. srv \in [Subjects -> Lists] /\ used \in 0..MaxSteps /\ panel \in AllPanels
  BY PanelsAssumption DEF Init, Lists
<1>6. IsFiniteSet(net)
  BY <1>3, FS_Singleton
<1>7. IdsOf(net) = {1} /\ IdsOf(Writes) = {}
  BY <1>2, <1>3 DEF IdsOf, Writes
<1>8. Cardinality(IdsOf(net)) = 1 /\ Cardinality(IdsOf(Writes)) = 0
  BY <1>7, FS_Singleton, FS_EmptySet
<1>9. IdsOK
  BY <1>3, <1>8, PanelsAssumption DEF IdsOK, Apart
<1>10. QED
  BY <1>2, <1>4, <1>5, <1>6, <1>9 DEF TypeInv, TypeOK

(* Every step keeps the types and the numbers.                             *)
LEMMA TypeStep == TypeInv /\ CacheOK /\ [Next]_vars => TypeInv'
<1> SUFFICES ASSUME TypeInv, CacheOK, [Next]_vars PROVE TypeInv'
  OBVIOUS
<1>1. ASSUME NEW c \in net,
             \/ ServeLoad(c) \/ ServeWrite(c) \/ Land(c)
             \/ LoadDone(c) \/ WriteDone(c) \/ ReloadPage(c) \/ WriteFailed(c)
      PROVE  TypeInv'
  BY <1>1, ServeLoadTypes, ServeWriteTypes, LandTypes, LoadDoneTypes, WriteDoneTypes,
     ReloadPageTypes, WriteFailedTypes
<1>2. ASSUME NEW s \in Subjects, TimerFires(s) \/ Publish(s) \/ ChangeSubject(s)
      PROVE  TypeInv'
  BY <1>2, TimerFiresTypes, PublishTypes, ChangeSubjectTypes
<1>3. ASSUME NEW c \in net, Fail(c) PROVE TypeInv'
  BY <1>3, FailTypes
<1>4. ASSUME NEW o \in Ops, OpenForm(o) PROVE TypeInv'
  BY <1>4, OpenFormTypes
<1>5. ASSUME NEW o \in Ops, NEW r \in Rows, Press(o, r) PROVE TypeInv'
  BY <1>5, PressTypes
<1>6. ASSUME CloseForm \/ ReadAgain \/ Push PROVE TypeInv'
  BY <1>6, CloseFormTypes, ReadAgainTypes, PushTypes
<1>7. CASE UNCHANGED vars
  <2>1. net' \subseteq net /\ UNCHANGED <<panel, ui, srv, used>>
    BY <1>7 DEF vars
  <2>2. ui \in UiState /\ srv \in [Subjects -> Lists] /\ used \in 0..MaxSteps
    BY DEF TypeInv, TypeOK
  <2>3. QED
    BY <2>1, <2>2, FewerCalls
<1>8. QED
  BY <1>1, <1>2, <1>3, <1>4, <1>5, <1>6, <1>7 DEF Next, Progress

(* Only an operation of the server changes what the cluster has; what is   *)
(* behind is touched by a load that is served, an effect and the poller.   *)
LEMMA CacheStep == TypeInv /\ CacheOK /\ [Next]_vars => CacheOK'
<1> SUFFICES ASSUME TypeInv, CacheOK, [Next]_vars PROVE CacheOK'
  OBVIOUS
<1>1. ASSUME NEW c \in net, ServeWrite(c) PROVE CacheOK'
  <2>1. c.kind = "op" /\ behind' = behind /\ (pve' = pve \/ Change(c))
    BY <1>1 DEF ServeWrite
  <2>2. QED
    BY <2>1, ChangeOK DEF CacheOK, TypeInv
<1>2. ASSUME NEW c \in net, Land(c) PROVE CacheOK'
  <2>1. c.kind = "effect" /\ Change(c) /\ behind' \in BOOLEAN
    BY <1>2 DEF Land, Outdate
  <2>2. QED
    BY <2>1, ChangeOK DEF CacheOK, TypeInv
<1>3. ASSUME NEW c \in net, ServeLoad(c) PROVE CacheOK'
  BY <1>3 DEF ServeLoad, CacheOK
<1>4. ASSUME NEW s \in Subjects, Publish(s) PROVE CacheOK'
  BY <1>4 DEF Publish, Outdate, CacheOK
<1>5. ASSUME NEW c \in net,
             Fail(c) \/ LoadDone(c) \/ WriteDone(c) \/ ReloadPage(c) \/ WriteFailed(c)
      PROVE  CacheOK'
  BY <1>5 DEF Fail, LoadDone, WriteDone, ReloadPage, WriteFailed, CacheOK
<1>6. CASE \/ \E s \in Subjects : TimerFires(s) \/ ChangeSubject(s)
           \/ \E o \in Ops : OpenForm(o) \/ \E r \in Rows : Press(o, r)
           \/ CloseForm \/ ReadAgain \/ Push \/ UNCHANGED vars
  BY <1>6 DEF TimerFires, ChangeSubject, OpenForm, Press, CloseForm, ReadAgain, Push,
     vars, CacheOK
<1>7. QED
  BY <1>1, <1>2, <1>3, <1>4, <1>5, <1>6 DEF Next, Progress

(* At first the cache is what the cluster has.                             *)
LEMMA InitCache == Init => CacheOK
<1>1. \A l \in [Rows -> {0, 1}] : l \in Lists
  BY DEF Lists
<1>2. QED
  BY <1>1 DEF Init, CacheOK

(* The panels' types are correct.                                          *)
THEOREM TypeCorrect == Spec => [](TypeOK /\ CacheOK)
<1>1. TypeInv => TypeOK
  BY DEF TypeInv
<1>2. QED
  BY <1>1, InitTypes, InitCache, TypeStep, CacheStep, PTL DEF Spec

(* No two calls are taken for one: a new call never gets the number of one *)
(* the browser or the server still has to deal with.                       *)
THEOREM CallsApart == Spec => []Apart(net)
<1>1. TypeInv => Apart(net)
  BY DEF TypeInv, IdsOK
<1>2. QED
  BY <1>1, InitTypes, InitCache, TypeStep, CacheStep, PTL DEF Spec

-----------------------------------------------------------------------------
(* The loading text *)

(* A load that starts is awaited: it is not guarded, or of this epoch.     *)
LEMMA StartedAwaited ==
    ASSUME NEW s, NEW g, NEW i, NEW h, g => i = ui'.epoch,
           LoadCall(s, g, i, h) \in net'
    PROVE  (\E c \in Loads : Awaited(c))'
<1>1. PICK n : n = LoadCall(s, g, i, h)
  OBVIOUS
<1>2. n \in net' /\ n.kind = "load" /\ n.guarded = g /\ n.inst = i
  BY <1>1 DEF LoadCall
<1>3. QED
  BY <1>2 DEF Loads, Awaited

(* While the loading text is shown, every step leaves a load under way     *)
(* whose answer will be used, or ends the text.                            *)
LEMMA LoadingStep == TypeInv /\ LoadingBacked /\ [Next]_vars => LoadingBacked'
<1> SUFFICES ASSUME TypeInv, LoadingBacked, [Next]_vars, ui'.loading
             PROVE  (\E c \in Loads : Awaited(c))'
  BY DEF LoadingBacked
<1>t. \A c \in net : CallOK(c)
  BY DEF TypeInv, TypeOK
<1>k. ASSUME ui.loading, ui'.epoch = ui.epoch, NEW C, C \subseteq net' ,
             \A c \in Loads : Awaited(c) =>
                \E d \in C : d.kind = "load" /\ d.guarded = c.guarded /\ d.inst = c.inst
      PROVE  (\E c \in Loads : Awaited(c))'
  <2>1. PICK c \in Loads : Awaited(c)
    BY <1>k DEF LoadingBacked
  <2>2. PICK d \in net' : d.kind = "load" /\ d.guarded = c.guarded /\ d.inst = c.inst
    BY <1>k, <2>1
  <2>3. QED
    BY <1>k, <2>1, <2>2 DEF Loads, Awaited
<1>1. ASSUME NEW c \in net, ServeLoad(c) PROVE (\E d \in Loads : Awaited(d))'
  <2>1. PICK a : a = [c EXCEPT !.st = "ok", !.seen = srv[c.subject]]
    OBVIOUS
  <2>2. net' = (net \ {c}) \cup {a} /\ ui' = ui
    BY <1>1, <2>1 DEF ServeLoad
  <2>3. a.kind = c.kind /\ a.guarded = c.guarded /\ a.inst = c.inst
    BY <1>t, <2>1 DEF CallOK, Call
  <2>4. QED
    BY <1>k, <2>2, <2>3 DEF Loads
<1>2. ASSUME NEW c \in net, ServeWrite(c) PROVE (\E d \in Loads : Awaited(d))'
  <2>1. net \ {c} \subseteq net' /\ ui' = ui /\ c.kind = "op"
    BY <1>2 DEF ServeWrite, Answer
  <2>2. QED
    BY <1>k, <2>1 DEF Loads
<1>3. ASSUME NEW c \in net, Fail(c) PROVE (\E d \in Loads : Awaited(d))'
  <2>1. PICK a : a = [c EXCEPT !.st = "err"]
    OBVIOUS
  <2>2. (net \ {c}) \cup {a} \subseteq net' /\ ui' = ui
    BY <1>3, <2>1 DEF Fail, Answer
  <2>3. a.kind = c.kind /\ a.guarded = c.guarded /\ a.inst = c.inst
    BY <1>t, <2>1 DEF CallOK, Call
  <2>4. QED
    BY <1>k, <2>2, <2>3 DEF Loads
<1>4. ASSUME NEW c \in net, Land(c) PROVE (\E d \in Loads : Awaited(d))'
  <2>1. net' = net \ {c} /\ c.kind = "effect" /\ ui' = ui
    BY <1>4 DEF Land
  <2>2. QED
    BY <1>k, <2>1 DEF Loads
<1>5. ASSUME NEW c \in net, LoadDone(c) PROVE (\E d \in Loads : Awaited(d))'
  <2>1. net' = net \ {c} /\ ~Awaited(c) /\ ui' = ui
    BY <1>5, LoadDoneTypes
  <2>2. QED
    BY <1>k, <2>1 DEF Loads
<1>6. ASSUME NEW c \in net, WriteDone(c) PROVE (\E d \in Loads : Awaited(d))'
  <2>1. c.kind = "op" /\ ui'.epoch = ui.epoch
    BY <1>6, WriteDoneTypes DEF Writes
  <2>2. CASE net' = net \ {c} /\ ui'.loading = ui.loading
    BY <1>k, <2>1, <2>2 DEF Loads
  <2>3. ASSUME NEW i, NEW h, net' = (net \ {c}) \cup {LoadCall(c.subject, FALSE, i, h)}
        PROVE  (\E d \in Loads : Awaited(d))'
    <3>1. PICK s : s = c.subject
      OBVIOUS
    <3>2. LoadCall(s, FALSE, i, h) \in net'
      BY <2>3, <3>1
    <3>3. QED
      BY <3>2, StartedAwaited
  <2>4. \/ net' = net \ {c} /\ ui'.loading = ui.loading
        \/ \E i \in Nat, h \in Ops \cup {None} :
              net' = (net \ {c}) \cup {LoadCall(c.subject, FALSE, i, h)}
    BY <1>6, WriteDoneTypes
  <2>5. QED
    BY <2>2, <2>3, <2>4
<1>7. ASSUME NEW c \in net, ReloadPage(c) PROVE (\E d \in Loads : Awaited(d))'
  <2>1. /\ TypeInv' /\ ui' = [Mounted(ui.subject) EXCEPT !.calm = ui.calm]
        /\ FirstLoad(ui.subject) \in net' /\ ui.subject \in Subjects
    BY <1>7, ReloadPageTypes DEF TypeInv, TypeOK, UiState
  <2>2. ui'.epoch = 0
    BY <2>1 DEF Mounted
  <2>3. PICK l : l = FirstLoad(ui.subject)
    OBVIOUS
  <2>4. l \in net' /\ l.kind = "load" /\ l.inst = 0
    BY <2>1, <2>3 DEF FirstLoad
  <2>5. QED
    BY <2>2, <2>4 DEF Loads, Awaited
<1>8. ASSUME NEW c \in net, WriteFailed(c) PROVE (\E d \in Loads : Awaited(d))'
  <2>1. net' = net \ {c} /\ c.kind = "op"
    BY <1>8 DEF WriteFailed
  <2>2. ui.loading /\ ui'.epoch = ui.epoch
    BY <1>8, WriteFailedTypes DEF SameList
  <2>3. QED
    BY <1>k, <2>1, <2>2 DEF Loads
<1>9. ASSUME NEW s \in Subjects, TimerFires(s) PROVE (\E d \in Loads : Awaited(d))'
  BY <1>9, TimerFiresTypes, StartedAwaited
<1>10. ASSUME NEW o \in Ops, OpenForm(o) PROVE (\E d \in Loads : Awaited(d))'
  <2>1. net' = net
    BY <1>10 DEF OpenForm
  <2>2. QED
    BY <1>10, <1>k, <2>1, OpenFormTypes DEF SameList, Loads
<1>11. ASSUME NEW o \in Ops, NEW r \in Rows, Press(o, r)
       PROVE  (\E d \in Loads : Awaited(d))'
  BY <1>11, PressTypes
<1>12. ASSUME CloseForm PROVE (\E d \in Loads : Awaited(d))'
  <2>1. net' = net
    BY <1>12 DEF CloseForm
  <2>2. QED
    BY <1>12, <1>k, <2>1, CloseFormTypes DEF SameList, Loads
<1>13. ASSUME ReadAgain PROVE (\E d \in Loads : Awaited(d))'
  <2>1. PICK g : g = (panel.load.subject = "cancelled")
    OBVIOUS
  <2>2. PICK s, i : s = ui.subject /\ i = ui.epoch
    OBVIOUS
  <2>3. LoadCall(s, g, i, None) \in net' /\ i = ui'.epoch
    BY <1>13, <2>1, <2>2, ReadAgainTypes DEF SameList
  <2>4. QED
    BY <2>3, StartedAwaited
<1>14. ASSUME Push PROVE (\E d \in Loads : Awaited(d))'
  <2>1. net' = net /\ ui'.epoch = ui.epoch
    <3>1. ui \in UiState
      BY DEF TypeInv, TypeOK
    <3>2. QED
      BY <1>14, <3>1 DEF Push, UiState
  <2>2. QED
    BY <1>14, <1>k, <2>1, PushTypes DEF Loads
<1>15. ASSUME NEW s \in Subjects, ChangeSubject(s) PROVE (\E d \in Loads : Awaited(d))'
  <2>1. PICK g : g = (panel.load.subject = "cancelled")
    OBVIOUS
  <2>2. PICK i : i = ui.epoch + 1
    OBVIOUS
  <2>3. LoadCall(s, g, i, None) \in net' /\ i = ui'.epoch
    BY <1>15, <2>1, <2>2, ChangeSubjectTypes
  <2>4. QED
    BY <2>3, StartedAwaited
<1>16. ASSUME UNCHANGED vars \/ \E s \in Subjects : Publish(s)
       PROVE  (\E d \in Loads : Awaited(d))'
  BY <1>16, <1>k DEF vars, Publish, Loads
<1>17. QED
  BY <1>1, <1>2, <1>3, <1>4, <1>5, <1>6, <1>7, <1>8, <1>9, <1>10, <1>11, <1>12,
     <1>13, <1>14, <1>15, <1>16 DEF Next, Progress

(* The loading text never stays: while it is shown a load is under way     *)
(* whose answer will be used.                                              *)
THEOREM LoadingIsBacked == Spec => []LoadingBacked
<1>1. Init => LoadingBacked
  <2> SUFFICES ASSUME Init PROVE LoadingBacked
    OBVIOUS
  <2>1. PICK s \in Subjects : ui = Mounted(s) /\ net = {FirstLoad(s)}
    BY DEF Init
  <2>2. FirstLoad(s) \in Loads /\ FirstLoad(s).inst = ui.epoch
    BY <2>1 DEF Loads, FirstLoad, Mounted
  <2>3. QED
    BY <2>2 DEF LoadingBacked, Awaited
<1>2. QED
  BY <1>1, InitTypes, InitCache, TypeStep, CacheStep, LoadingStep, PTL DEF Spec

-----------------------------------------------------------------------------
(* One call at a time *)

(* The mountings, the variables and the handlers that run agree.           *)
MountInv == BoundOK(ui) /\ HeldOK(ui, Running) /\ AloneOK

(* A step after which only handlers that ran before it run.                *)
LEMMA HandlersEnded ==
    ASSUME MountInv, panel' = panel, NEW R \in SUBSET Running,
           Running' \subseteq R, BoundOK(ui'), HeldOK(ui', R)
    PROVE  MountInv'
<1>1. \A o : /\ Handler(o)' = Handler(o) /\ ButtonOf(o)' = ButtonOf(o)
             /\ Holder(o)' = Holder(o)
  BY SamePanel
<1>2. BoundOK(ui)'
  BY <1>1 DEF BoundOK
<1>3. HeldOK(ui, Running)'
  BY <1>1 DEF HeldOK
<1>4. AloneOK'
  BY <1>1 DEF AloneOK, MountInv
<1>5. QED
  BY <1>2, <1>3, <1>4 DEF MountInv

(* A step in which the call a handler awaits is answered, or followed by   *)
(* the reading the handler awaits next.                                    *)
LEMMA HandlerGoesOn ==
    ASSUME MountInv, panel' = panel, NEW a, NEW n,
           Running' \subseteq (Running \ {a}) \cup {n},
           n \in Running' => a \in Running /\ n.op = a.op /\ n.inst = a.inst,
           BoundOK(ui'), HeldOK(ui', Running)
    PROVE  MountInv'
<1>1. \A o : /\ Handler(o)' = Handler(o) /\ ButtonOf(o)' = ButtonOf(o)
             /\ Holder(o)' = Holder(o)
  BY SamePanel
<1>2. BoundOK(ui)'
  BY <1>1 DEF BoundOK
<1>3. HeldOK(ui, Running)'
  BY <1>1 DEF HeldOK
<1>4. AloneOK'
  <2>1. SUFFICES ASSUME NEW c \in Running', NEW d \in Running',
                        ButtonOf(c.op).off = "busy",
                        Handler(c.op).flag = Handler(d.op).flag, c.inst = d.inst
                 PROVE  c = d
    BY <1>1 DEF AloneOK
  <2>2. CASE c # n /\ d # n
    BY <2>1, <2>2 DEF AloneOK, MountInv
  <2>3. CASE c = n /\ d # n
    <3>1. a = d
      BY <2>1, <2>3 DEF AloneOK, MountInv
    <3>2. QED
      BY <2>1, <2>3, <3>1
  <2>4. CASE c # n /\ d = n
    <3>1. c = a
      BY <2>1, <2>4 DEF AloneOK, MountInv
    <3>2. QED
      BY <2>1, <2>4, <3>1
  <2>5. QED
    BY <2>2, <2>3, <2>4
<1>5. QED
  BY <1>2, <1>3, <1>4 DEF MountInv

(* A call is answered: its handler runs on, and nothing changes in the     *)
(* browser.                                                                *)
LEMMA AnswerMounts ==
    ASSUME TypeInv, MountInv, UNCHANGED <<panel, ui>>, NEW c \in net,
           NEW a, a.kind = c.kind, a.op = c.op, a.inst = c.inst,
           NEW E, \A e \in E : e.kind = "effect",
           net' = ((net \ {c}) \cup {a}) \cup E
    PROVE  MountInv'
<1>1. Running' \subseteq (Running \ {c}) \cup {a}
  BY DEF Running
<1>2. a \in Running' => c \in Running
  BY DEF Running
<1>3. BoundOK(ui') /\ HeldOK(ui', Running)
  BY DEF MountInv
<1>4. QED
  BY <1>1, <1>2, <1>3, HandlerGoesOn

(* The server and the network leave the handlers as they are.              *)
LEMMA ServerMounts ==
    ASSUME TypeInv, MountInv, NEW c \in net,
           ServeLoad(c) \/ ServeWrite(c) \/ Fail(c) \/ Land(c)
    PROVE  MountInv'
<1>1. c \in Call
  BY DEF TypeInv, TypeOK, CallOK
<1>2. CASE ServeLoad(c)
  <2>1. PICK a : a = [c EXCEPT !.st = "ok", !.seen = srv[c.subject]]
    OBVIOUS
  <2>2. a.kind = c.kind /\ a.op = c.op /\ a.inst = c.inst
    BY <1>1, <2>1 DEF Call
  <2>3. PICK E : E = {}
    OBVIOUS
  <2>4. /\ net' = ((net \ {c}) \cup {a}) \cup E /\ UNCHANGED <<panel, ui>>
        /\ \A x \in E : x.kind = "effect"
    BY <1>2, <2>1, <2>3 DEF ServeLoad
  <2>5. QED
    BY <2>2, <2>4, AnswerMounts
<1>3. ASSUME UNCHANGED <<panel, ui>>, NEW st,
             \/ net' = Answer(c, st)
             \/ net' = Answer(c, st) \cup {[c EXCEPT !.kind = "effect"]}
      PROVE  MountInv'
  <2>1. PICK a : a = [c EXCEPT !.st = st]
    OBVIOUS
  <2>2. a.kind = c.kind /\ a.op = c.op /\ a.inst = c.inst
    BY <1>1, <2>1 DEF Call
  <2>3. PICK e : e = [c EXCEPT !.kind = "effect"]
    OBVIOUS
  <2>4. e.kind = "effect"
    BY <1>1, <2>3 DEF Call
  <2>5. CASE net' = Answer(c, st)
    <3>1. PICK E : E = {}
      OBVIOUS
    <3>2. /\ net' = ((net \ {c}) \cup {a}) \cup E /\ UNCHANGED <<panel, ui>>
          /\ \A x \in E : x.kind = "effect"
      BY <1>3, <2>1, <2>5, <3>1 DEF Answer
    <3>3. QED
      BY <2>2, <3>2, AnswerMounts
  <2>6. CASE net' = Answer(c, st) \cup {e}
    <3>1. PICK E : E = {e}
      OBVIOUS
    <3>2. /\ net' = ((net \ {c}) \cup {a}) \cup E /\ UNCHANGED <<panel, ui>>
          /\ \A x \in E : x.kind = "effect"
      BY <1>3, <2>1, <2>4, <2>6, <3>1 DEF Answer
    <3>3. QED
      BY <2>2, <3>2, AnswerMounts
  <2>7. QED
    BY <1>3, <2>3, <2>5, <2>6
<1>4. CASE ServeWrite(c)
  <2>1. /\ UNCHANGED <<panel, ui>>
        /\ \/ net' = Answer(c, "ok")
           \/ net' = Answer(c, "ok") \cup {[c EXCEPT !.kind = "effect"]}
    BY <1>4 DEF ServeWrite
  <2>2. QED
    BY <1>3, <2>1
<1>5. CASE Fail(c)
  <2>1. /\ UNCHANGED <<panel, ui>>
        /\ \/ net' = Answer(c, "err")
           \/ net' = Answer(c, "err") \cup {[c EXCEPT !.kind = "effect"]}
    BY <1>5 DEF Fail
  <2>2. QED
    BY <1>3, <2>1
<1>6. CASE Land(c)
  <2>1. Running' \subseteq Running /\ panel' = panel
    BY <1>6 DEF Land, Running
  <2>2. SamePlace(ui, ui')
    BY <1>6 DEF Land, SamePlace
  <2>3. BoundOK(ui') /\ HeldOK(ui', Running)
    BY <2>2, SamePlaceMounts DEF MountInv
  <2>4. QED
    BY <2>1, <2>3, HandlersEnded
<1>7. QED
  BY <1>2, <1>4, <1>5, <1>6

(* A load that no handler awaits starts.                                   *)
LEMMA StartedRunning ==
    ASSUME NEW D, NEW s, NEW g, NEW i,
           net' = (net \ D) \cup {LoadCall(s, g, i, None)}
    PROVE  Running' \subseteq Running \ D
<1>1. PICK n : n = LoadCall(s, g, i, None)
  OBVIOUS
<1>2. n.kind = "load" /\ n.op = None /\ net' = (net \ D) \cup {n}
  BY <1>1 DEF LoadCall
<1>3. QED
  BY <1>2 DEF Running

(* A load function that goes on ends the handler that awaited it.          *)
LEMMA LoadDoneMounts ==
    ASSUME TypeInv, MountInv, NEW c \in net, LoadDone(c)
    PROVE  MountInv'
<1> DEFINE done == FinishLoad(ui, c)
           good == [done EXCEPT !.shown = c.seen, !.of = c.subject, !.error = FALSE,
                                !.calm = @ /\ c.subject = ui.subject]
           bad == [done EXCEPT !.error = TRUE, !.calm = FALSE]
           R == Running \ {c}
<1>1. TypeOK /\ ui \in UiState /\ AloneOK /\ BoundOK(ui) /\ HeldOK(ui, Running)
  BY DEF TypeInv, TypeOK, MountInv
<1>2. /\ c \in Loads /\ panel' = panel /\ Running' \subseteq R
      /\ Awaited(c) /\ c.st = "ok" => ui' = good
      /\ ~Awaited(c) => ui' = ui
  BY DEF LoadDone, Loads, Running
<1>3. Awaited(c) /\ c.st = "err" => ui' \in {UnmountContent(bad), HideContent(bad), bad}
  <2>1. panel.load.error \in {"banner", "blocks", "unmounts"}
    BY <1>1, MountedWellFormed DEF WellFormed
  <2>2. QED
    BY <2>1 DEF LoadDone
<1>4. done \in UiState
  BY <1>1, FinishLoadOK
<1>5. BoundOK(done) /\ HeldOK(done, R)
  BY <1>1, <1>2, FinishLoadMounts
<1> HIDE DEF done
<1>6. R \in SUBSET Running
  OBVIOUS
<1>7. BoundOK(good) /\ HeldOK(good, R)
  <2>1. SamePlace(done, good)
    BY <1>4 DEF UiState, SamePlace
  <2>2. QED
    BY <1>5, <2>1, SamePlaceMounts
<1>8. bad \in UiState /\ BoundOK(bad) /\ HeldOK(bad, R)
  <2>1. bad \in UiState /\ SamePlace(done, bad)
    BY <1>4 DEF UiState, SamePlace
  <2>2. QED
    BY <1>5, <2>1, SamePlaceMounts
<1> HIDE DEF good, bad
<1>9. BoundOK(HideContent(bad)) /\ HeldOK(HideContent(bad), R)
  BY <1>1, <1>6, <1>8, HideContentMounts
<1>10. BoundOK(UnmountContent(bad)) /\ HeldOK(UnmountContent(bad), R)
  <2>1. PICK v : v = UnmountContent(bad)
    OBVIOUS
  <2>2. v \in UiState /\ v.inst \in [Parts -> Nat]
    BY <1>1, <1>8, <2>1, UnmountContentOK DEF UiState
  <2>3. \A d \in Running : d.inst < v.inst[Holder(d.op)]
    BY <1>1, <1>8, <2>1, UnmountContentMounts
  <2>4. \A d \in Running : d.inst \in Nat /\ v.inst[Holder(d.op)] \in Nat
    BY <1>1, <2>2, RunningOps
  <2>5. \A d \in Running : d.inst <= v.inst[Holder(d.op)] /\ d.inst # v.inst[Holder(d.op)]
    BY <2>3, <2>4
  <2>6. BoundOK(v) /\ HeldOK(v, R)
    BY <2>5 DEF BoundOK, HeldOK
  <2>7. QED
    BY <2>1, <2>6
<1>11. BoundOK(ui) /\ HeldOK(ui, R)
  BY <1>1 DEF HeldOK
<1>12. c.st \in {"ok", "err"}
  BY DEF LoadDone
<1>13. BoundOK(ui') /\ HeldOK(ui', R)
  <2>1. CASE ~Awaited(c)
    BY <1>2, <1>11, <2>1
  <2>2. CASE Awaited(c) /\ c.st = "ok"
    BY <1>2, <1>7, <2>2
  <2>3. CASE Awaited(c) /\ c.st = "err"
    BY <1>3, <1>8, <1>9, <1>10, <2>3
  <2>4. QED
    BY <1>12, <2>1, <2>2, <2>3
<1>14. QED
  BY <1>2, <1>6, <1>13, HandlersEnded

(* A handler that goes on after its call ends, or awaits the reading that  *)
(* follows.                                                                *)
LEMMA WriteDoneMounts ==
    ASSUME TypeInv, MountInv, NEW c \in net, WriteDone(c)
    PROVE  MountInv'
<1> DEFINE then == Handler(c.op).then
           u == IF then = "hold" THEN ui ELSE CloseOwnForm(ui, c)
           r == Release(u, c)
           R == Running \ {c}
<1>1. TypeOK /\ ui \in UiState /\ AloneOK /\ BoundOK(ui) /\ HeldOK(ui, Running)
  BY DEF TypeInv, TypeOK, MountInv
<1>2. /\ c.kind = "op" /\ c.op \in Ops /\ panel' = panel /\ then # "page"
      /\ R \in SUBSET Running /\ Running \in SUBSET Running
  BY <1>1 DEF WriteDone, TypeOK, CallOK
<1>3. c \in Running
  BY <1>1, <1>2, MountedWellFormed DEF Running, WellFormed, Ops
<1>4. then \in {"read", "await", "hold", "later", "drop", "filter", "none"}
  BY <1>1, <1>2, MountedWellFormed DEF WellFormed, Handler, Ops
<1>5. u \in UiState /\ BoundOK(u) /\ HeldOK(u, Running)
  <2>1. CASE then = "hold"
    BY <1>1, <2>1
  <2>2. CASE then # "hold"
    <3>1. /\ CloseOwnForm(ui, c) \in UiState
          /\ BoundOK(CloseOwnForm(ui, c)) /\ HeldOK(CloseOwnForm(ui, c), Running)
      BY <1>1, <1>2, CloseOwnFormOK, CloseOwnFormMounts
    <3>2. QED
      BY <2>2, <3>1
  <2>3. QED
    BY <2>1, <2>2
<1>6. /\ then = "read" => /\ ui' = BeginLoad(r)
                          /\ net' = (net \ {c}) \cup {LoadCall(c.subject, FALSE, 0, None)}
      /\ then \in {"await", "hold"} =>
            /\ ui' = BeginLoad(u)
            /\ net' = (net \ {c}) \cup {LoadCall(c.subject, FALSE, c.inst, c.op)}
      /\ then \in {"later", "drop", "filter", "none"} => net' = net \ {c}
      /\ then = "later" => ui' = [r EXCEPT !.timers[c.subject] = @ + 1]
      /\ then = "drop" => ui' = [r EXCEPT !.shown[c.row] = Absent,
                                          !.timers[c.subject] = @ + 1]
      /\ then = "filter" => ui' = [r EXCEPT !.shown = [c.seen EXCEPT ![c.row] = Absent]]
      /\ then = "none" => ui' = r
  BY DEF WriteDone
<1> HIDE DEF u
<1>7. r \in UiState /\ BoundOK(r) /\ HeldOK(r, R)
  BY <1>1, <1>2, <1>3, <1>5, ReleaseOK, ReleaseMounts
<1> HIDE DEF r
<1>8. CASE then = "read"
  <2>1. Running' \subseteq R
    <3>1. PICK D, s, i : D = {c} /\ s = c.subject /\ i = 0
      OBVIOUS
    <3>2. net' = (net \ D) \cup {LoadCall(s, FALSE, i, None)}
      BY <1>6, <1>8, <3>1
    <3>3. Running' \subseteq Running \ D
      BY <3>2, StartedRunning
    <3>4. QED
      BY <3>1, <3>3
  <2>2. BoundOK(ui') /\ HeldOK(ui', R)
    <3>1. BoundOK(BeginLoad(r)) /\ HeldOK(BeginLoad(r), R)
      BY <1>1, <1>2, <1>7, BeginLoadMounts
    <3>2. QED
      BY <1>6, <1>8, <3>1
  <2>3. QED
    BY <1>2, <2>1, <2>2, HandlersEnded
<1>9. CASE then \in {"await", "hold"}
  <2>1. PICK n : n = LoadCall(c.subject, FALSE, c.inst, c.op)
    OBVIOUS
  <2>2. n.op = c.op /\ n.inst = c.inst
    BY <2>1 DEF LoadCall
  <2>3. net' = (net \ {c}) \cup {n}
    BY <1>6, <1>9, <2>1
  <2>4. Running' \subseteq (Running \ {c}) \cup {n}
    BY <2>3 DEF Running
  <2>5. BoundOK(ui') /\ HeldOK(ui', Running)
    <3>1. BoundOK(BeginLoad(u)) /\ HeldOK(BeginLoad(u), Running)
      BY <1>1, <1>2, <1>5, BeginLoadMounts
    <3>2. QED
      BY <1>6, <1>9, <3>1
  <2>6. QED
    BY <1>2, <1>3, <2>2, <2>4, <2>5, HandlerGoesOn
<1>10. CASE then \in {"later", "drop", "filter", "none"}
  <2>1. Running' \subseteq R
    BY <1>6, <1>10 DEF Running
  <2>2. SamePlace(r, ui')
    BY <1>6, <1>7, <1>10 DEF SamePlace, UiState
  <2>3. BoundOK(ui') /\ HeldOK(ui', R)
    BY <1>7, <2>2, SamePlaceMounts
  <2>4. QED
    BY <1>2, <2>1, <2>3, HandlersEnded
<1>11. QED
  BY <1>4, <1>8, <1>9, <1>10

(* A handler whose call failed ends.                                       *)
LEMMA WriteFailedMounts ==
    ASSUME TypeInv, MountInv, NEW c \in net, WriteFailed(c)
    PROVE  MountInv'
<1> DEFINE r == Release(ui, c)
           R == Running \ {c}
<1>1. TypeOK /\ ui \in UiState /\ AloneOK /\ BoundOK(ui) /\ HeldOK(ui, Running)
  BY DEF TypeInv, TypeOK, MountInv
<1>2. /\ c.kind = "op" /\ c.op \in Ops /\ panel' = panel /\ R \in SUBSET Running
      /\ Running \in SUBSET Running /\ Running' \subseteq R /\ ui' = [r EXCEPT !.calm = FALSE]
  BY <1>1 DEF WriteFailed, TypeOK, CallOK, Running
<1>3. c \in Running
  BY <1>1, <1>2, MountedWellFormed DEF Running, WellFormed, Ops
<1>4. r \in UiState /\ BoundOK(r) /\ HeldOK(r, R)
  BY <1>1, <1>2, <1>3, ReleaseOK, ReleaseMounts
<1> HIDE DEF r
<1>5. SamePlace(r, ui')
  BY <1>2, <1>4 DEF SamePlace, UiState
<1>6. BoundOK(ui') /\ HeldOK(ui', R)
  BY <1>4, <1>5, SamePlaceMounts
<1>7. QED
  BY <1>2, <1>6, HandlersEnded

(* The page is loaded again: no handler of it runs on.                     *)
LEMMA ReloadPageMounts ==
    ASSUME TypeInv, MountInv, NEW c \in net, ReloadPage(c)
    PROVE  MountInv'
<1>1. PICK l \in net' : /\ l = FirstLoad(ui.subject)
                        /\ \A d \in net' : d # l => d.kind = "effect"
  BY ReloadPageTypes
<1>2. l.op = None
  BY <1>1 DEF FirstLoad
<1>3. Running' = {}
  BY <1>1, <1>2 DEF Running
<1>4. QED
  BY <1>3 DEF MountInv, BoundOK, HeldOK, AloneOK

(* A handler is pressed: if its button waits for a variable, no handler    *)
(* that runs holds it.                                                     *)
LEMMA PressMounts ==
    ASSUME TypeInv, MountInv, NEW o \in Ops, NEW r \in Rows, Press(o, r)
    PROVE  MountInv'
<1>1. /\ TypeOK /\ ui \in UiState /\ ui.busy \in [Flags -> Rows \cup {None}]
      /\ ui.inst \in [Parts -> Nat] /\ WellFormed(panel)
      /\ AloneOK /\ BoundOK(ui) /\ HeldOK(ui, Running)
  BY MountedWellFormed DEF TypeInv, TypeOK, MountInv, UiState
<1>2. ButtonOf(o).off = "busy" => ui.busy[Handler(o).flag] = None
  BY DEF Press, Enabled
<1>3. /\ panel' = panel /\ ui'.inst = ui.inst
      /\ ui'.busy = [f \in Flags |-> IF f = Handler(o).flag /\ f # None
                                     THEN r ELSE ui.busy[f]]
  BY PressTypes
<1>4. PICK n : /\ net' = net \cup {n} /\ n.kind = "op" /\ n.st = "sent"
               /\ n.subject = ui.subject /\ n.seen = ui.shown /\ n.op = o
               /\ n.row = r /\ n.inst = ui.inst[Holder(o)]
  BY PressCall
<1>5. Running' \subseteq Running \cup {n}
  BY <1>4 DEF Running
<1>6. r # None
  BY PanelsAssumption DEF None
<1>7. ASSUME NEW d \in Running, Handler(d.op).flag = Handler(o).flag, d.inst = n.inst,
             ButtonOf(d.op).off = "busy" \/ ButtonOf(o).off = "busy"
      PROVE  FALSE
  <2>1. d.op \in Ops
    BY <1>1, RunningOps
  <2>2. /\ ButtonOf(d.op).off = "busy" /\ ButtonOf(o).off = "busy"
        /\ InChild(d.op) <=> InChild(o)
    BY <1>1, <1>7, <2>1 DEF WellFormed, InChild, Handler, ButtonOf, Ops
  <2>3. d.inst = ui.inst[Holder(d.op)]
    BY <1>4, <1>7, <2>2 DEF Holder
  <2>4. ui.busy[Handler(d.op).flag] # None
    BY <1>1, <2>2, <2>3 DEF HeldOK
  <2>5. QED
    BY <1>2, <1>7, <2>2, <2>4
<1>8. \A p : /\ Handler(p)' = Handler(p) /\ ButtonOf(p)' = ButtonOf(p)
             /\ Holder(p)' = Holder(p)
  BY <1>3, SamePanel
<1>9. BoundOK(ui)'
  <2>1. \A d \in Running \cup {n} : d.inst <= ui.inst[Holder(d.op)]
    <3>1. ui.inst[Holder(o)] \in Nat
      BY <1>1 DEF Holder, Parts
    <3>2. QED
      BY <1>1, <1>4, <3>1 DEF BoundOK
  <2>2. QED
    BY <1>3, <1>5, <1>8, <2>1 DEF BoundOK
<1>10. HeldOK(ui, Running)'
  <2>1. SUFFICES ASSUME NEW d \in Running', ButtonOf(d.op).off = "busy",
                        d.inst = ui.inst[Holder(d.op)]
                 PROVE  ui'.busy[Handler(d.op).flag] # None
    BY <1>3, <1>8 DEF HeldOK
  <2>2. d.op \in Ops /\ Handler(d.op).flag \in Flags
    BY <1>1, <1>4, <1>5, RunningOps DEF Flags
  <2>3. CASE d \in Running
    <3>1. ui.busy[Handler(d.op).flag] # None
      BY <1>1, <2>1, <2>3 DEF HeldOK
    <3>2. QED
      BY <1>3, <1>6, <2>2, <3>1
  <2>4. CASE d = n
    <3>1. Handler(d.op).flag = Handler(o).flag /\ Handler(o).flag # None
      BY <1>1, <1>4, <2>1, <2>2, <2>4 DEF WellFormed, Handler, ButtonOf, Ops
    <3>2. QED
      BY <1>3, <1>6, <2>2, <3>1
  <2>5. QED
    BY <1>5, <2>3, <2>4
<1>11. AloneOK'
  <2>1. SUFFICES ASSUME NEW d \in Running', NEW e \in Running',
                        ButtonOf(d.op).off = "busy",
                        Handler(d.op).flag = Handler(e.op).flag, d.inst = e.inst
                 PROVE  d = e
    BY <1>8 DEF AloneOK
  <2>2. CASE d \in Running /\ e \in Running
    BY <1>1, <2>1, <2>2 DEF AloneOK
  <2>3. CASE d \in Running /\ e = n
    BY <1>4, <1>7, <2>1, <2>3
  <2>4. CASE d = n /\ e \in Running
    BY <1>4, <1>7, <2>1, <2>4
  <2>5. QED
    BY <1>5, <2>2, <2>3, <2>4
<1>12. QED
  BY <1>9, <1>10, <1>11 DEF MountInv

(* The other steps of the browser end no handler: they unmount components, *)
(* start loads no handler awaits, or neither.                              *)
LEMMA BrowserMounts ==
    ASSUME TypeInv, MountInv,
           \/ \E s \in Subjects : TimerFires(s) \/ ChangeSubject(s)
           \/ \E o \in Ops : OpenForm(o)
           \/ CloseForm \/ ReadAgain \/ Push
    PROVE  MountInv'
<1>1. TypeOK /\ ui \in UiState /\ BoundOK(ui) /\ HeldOK(ui, Running)
  BY DEF TypeInv, TypeOK, MountInv
<1>2. Running \in SUBSET Running
  OBVIOUS
<1>3. BoundOK(BeginLoad(ui)) /\ HeldOK(BeginLoad(ui), Running)
  BY <1>1, <1>2, BeginLoadMounts
<1>4. ASSUME NEW s, NEW g, NEW i, net' = net \cup {LoadCall(s, g, i, None)}
      PROVE  Running' \subseteq Running
  <2>1. PICK D : D = {}
    OBVIOUS
  <2>2. net' = (net \ D) \cup {LoadCall(s, g, i, None)}
    BY <1>4, <2>1
  <2>3. QED
    BY <2>2, StartedRunning
<1>5. ASSUME NEW s \in Subjects, TimerFires(s) PROVE MountInv'
  <2>1. SamePlace(BeginLoad(ui), ui') /\ panel' = panel
        /\ net' = net \cup {LoadCall(s, FALSE, 0, None)}
    BY <1>5, TimerFiresTypes
  <2>2. Running' \subseteq Running
    BY <1>4, <2>1
  <2>3. BoundOK(ui') /\ HeldOK(ui', Running)
    BY <1>3, <2>1, SamePlaceMounts
  <2>4. QED
    BY <1>2, <2>1, <2>2, <2>3, HandlersEnded
<1>6. ASSUME NEW s \in Subjects, ChangeSubject(s) PROVE MountInv'
  <2>1. PICK u : u = [ui EXCEPT !.subject = s, !.epoch = @ + 1]
    OBVIOUS
  <2>2. SamePlace(BeginLoad(u), ui') /\ panel' = panel
    BY <1>6, <2>1, ChangeSubjectTypes
  <2>3. Running' \subseteq Running
    <3>1. PICK g, i : g = (panel.load.subject = "cancelled") /\ i = ui.epoch + 1
      OBVIOUS
    <3>2. net' = net \cup {LoadCall(s, g, i, None)}
      BY <1>6, <3>1, ChangeSubjectTypes
    <3>3. QED
      BY <1>4, <3>2
  <2>4. u \in UiState /\ SamePlace(ui, u)
    <3>1. ui.epoch \in Nat
      BY <1>1 DEF UiState
    <3>2. PICK e \in Nat : e = ui.epoch + 1
      BY <3>1
    <3>3. u = [ui EXCEPT !.subject = s, !.epoch = e]
      BY <2>1, <3>2
    <3>4. QED
      BY <1>1, <3>2, <3>3 DEF UiState, SamePlace
  <2>5. BoundOK(u) /\ HeldOK(u, Running)
    BY <1>1, <2>4, SamePlaceMounts
  <2>6. BoundOK(BeginLoad(u)) /\ HeldOK(BeginLoad(u), Running)
    BY <1>1, <1>2, <2>4, <2>5, BeginLoadMounts
  <2>7. BoundOK(ui') /\ HeldOK(ui', Running)
    BY <2>2, <2>6, SamePlaceMounts
  <2>8. QED
    BY <1>2, <2>2, <2>3, <2>7, HandlersEnded
<1>7. CASE ReadAgain
  <2>1. ui' = BeginLoad(ui) /\ panel' = panel
    BY <1>7, ReadAgainTypes
  <2>2. Running' \subseteq Running
    <3>1. PICK s, g, i : /\ s = ui.subject /\ i = ui.epoch
                         /\ g = (panel.load.subject = "cancelled")
      OBVIOUS
    <3>2. net' = net \cup {LoadCall(s, g, i, None)}
      BY <1>7, <3>1, ReadAgainTypes
    <3>3. QED
      BY <1>4, <3>2
  <2>3. QED
    BY <1>2, <1>3, <2>1, <2>2, HandlersEnded
<1>8. ASSUME SamePlace(ui, ui'), UNCHANGED <<panel, net>> PROVE MountInv'
  <2>1. BoundOK(ui') /\ HeldOK(ui', Running) /\ Running' \subseteq Running
    BY <1>1, <1>8, SamePlaceMounts DEF Running
  <2>2. QED
    BY <1>2, <1>8, <2>1, HandlersEnded
<1>9. ASSUME NEW o \in Ops, OpenForm(o) PROVE MountInv'
  BY <1>8, <1>9, OpenFormTypes DEF OpenForm
<1>10. CASE Push
  BY <1>8, <1>10, PushTypes DEF Push
<1>11. CASE CloseForm
  <2>1. PICK v : v = [ui EXCEPT !.form = None]
    OBVIOUS
  <2>2. v \in UiState /\ SamePlace(ui, v)
    BY <1>1, <2>1, FormClosed
  <2>3. ui' \in {v, HideContent(v)} /\ UNCHANGED <<panel, net>>
    BY <1>11, <2>1 DEF CloseForm
  <2>4. BoundOK(v) /\ HeldOK(v, Running)
    BY <1>1, <2>2, SamePlaceMounts
  <2>5. BoundOK(HideContent(v)) /\ HeldOK(HideContent(v), Running)
    BY <1>1, <1>2, <2>2, <2>4, HideContentMounts
  <2>6. BoundOK(ui') /\ HeldOK(ui', Running) /\ Running' \subseteq Running
    BY <2>3, <2>4, <2>5 DEF Running
  <2>7. QED
    BY <1>2, <2>3, <2>6, HandlersEnded
<1>12. QED
  BY <1>5, <1>6, <1>7, <1>9, <1>10, <1>11

(* Every step keeps the mountings, the variables and the handlers in       *)
(* agreement.                                                              *)
LEMMA MountStep == TypeInv /\ MountInv /\ [Next]_vars => MountInv'
<1> SUFFICES ASSUME TypeInv, MountInv, [Next]_vars PROVE MountInv'
  OBVIOUS
<1>1. ASSUME NEW c \in net,
             \/ ServeLoad(c) \/ ServeWrite(c) \/ Fail(c) \/ Land(c)
             \/ LoadDone(c) \/ WriteDone(c) \/ ReloadPage(c) \/ WriteFailed(c)
      PROVE  MountInv'
  BY <1>1, ServerMounts, LoadDoneMounts, WriteDoneMounts, ReloadPageMounts,
     WriteFailedMounts
<1>2. ASSUME NEW o \in Ops, NEW r \in Rows, Press(o, r) PROVE MountInv'
  BY <1>2, PressMounts
<1>3. CASE \/ \E s \in Subjects : TimerFires(s) \/ ChangeSubject(s)
           \/ \E o \in Ops : OpenForm(o)
           \/ CloseForm \/ ReadAgain \/ Push
  BY <1>3, BrowserMounts
<1>4. ASSUME UNCHANGED vars \/ \E s \in Subjects : Publish(s) PROVE MountInv'
  <2>1. Running' \subseteq Running /\ Running \in SUBSET Running /\ panel' = panel
        /\ BoundOK(ui') /\ HeldOK(ui', Running)
    BY <1>4 DEF vars, Publish, Running, MountInv
  <2>2. QED
    BY <2>1, HandlersEnded
<1>5. QED
  BY <1>1, <1>2, <1>3, <1>4 DEF Next, Progress

(* No handler runs on a page that has just been opened.                    *)
LEMMA InitMounts == Init => MountInv
<1> SUFFICES ASSUME Init PROVE MountInv
  OBVIOUS
<1>1. PICK s \in Subjects : net = {FirstLoad(s)}
  BY DEF Init
<1>2. Running = {}
  BY <1>1 DEF FirstLoad, Running
<1>3. QED
  BY <1>2 DEF MountInv, BoundOK, HeldOK, AloneOK

(* A button disabled by its handler's variable starts no second call while *)
(* the first runs, for as long as the component that holds the variable    *)
(* stands: no unmounting and no other handler resets it too early.         *)
THEOREM OneCallAtATime == Spec => []GuardedOnce
<1>1. MountInv => GuardedOnce
  BY DEF MountInv, AloneOK, GuardedOnce
<1>2. QED
  BY <1>1, InitTypes, InitCache, TypeStep, CacheStep, InitMounts, MountStep, PTL DEF Spec

-----------------------------------------------------------------------------
(* A panel at rest shows the server's list *)

(* The list on the page is the server's; a reading is owed: a timer runs,  *)
(* a handler has still to go on after its call, or the list has changed    *)
(* behind the panel's back; a load is under way whose answer will be used; *)
(* the run is one PanelSettles speaks of.                                  *)
Current == ui.of = ui.subject /\ ui.shown = srv[ui.subject]
Owed ==
    \/ \E s \in Subjects : ui.timers[s] > 0
    \/ \E c \in Writes : c.st = "err" \/ (c.st = "ok" /\ Handler(c.op).then # "none")
    \/ behind
Waiting == {c \in Loads : Awaited(c)}
Calm == ui.calm /\ panel.load.again # "push"

(* Only one load is awaited; the list is the server's, or will be read     *)
(* again; a list that has been read is the server's, or will be read again.*)
OneWaiting == \A c, d \in Waiting : c = d
Catching == Current \/ Owed \/ Waiting # {}
Read(c) == c.st = "ok" /\ c.subject = ui.subject
FreshRead == \A c \in Waiting : Read(c) => (c.seen = srv[ui.subject] \/ Owed)
ListInv == Calm => OneWaiting /\ Catching /\ FreshRead

(* A panel that filters its list reads it once, and while it does nothing  *)
(* else is under way; at most one handler runs, and it saw the list that   *)
(* is shown, which without its row is the server's when it is done, unless *)
(* the list has changed in another way.                                    *)
Filters == \E o \in Ops : Handler(o).then = "filter"
ReadsOnce ==
    /\ Loads # {} => ui.loading /\ net = Loads
    /\ \A c, d \in Loads : c = d
    /\ \A s \in Subjects : ui.timers[s] = 0
    /\ \A c \in net : c.subject = ui.subject
FilterOK(c) ==
    /\ c.seen = ui.shown /\ ui.of = ui.subject
    /\ c.st = "sent" => ui.shown = srv[ui.subject]
    /\ c.st = "ok" => srv[ui.subject] = [ui.shown EXCEPT ![c.row] = Absent]
FilterInv ==
    Filters => /\ ReadsOnce
               /\ Calm /\ ~behind => \A c \in Writes : Writes = {c} /\ FilterOK(c)

(* What the table says of panels that filter.                              *)
LEMMA FilterPanels ==
    ASSUME TypeOK, Filters
    PROVE  /\ panel.load.hides # "never" /\ panel.load.subject = "one"
           /\ panel.load.again = "never" /\ ~panel.load.cached
           /\ \A o \in Ops : /\ Handler(o).then = "filter" /\ Handler(o).does = "del"
                             /\ ~Handler(o).task
  BY MountedWellFormed DEF WellFormed, Filters, Handler, Ops

(* The panel stays what it is.                                             *)
LEMMA SameFilters ==
    ASSUME panel' = panel
    PROVE  Filters' = Filters /\ (Calm' => ui'.calm /\ panel.load.again # "push")
           /\ \A o : Handler(o)' = Handler(o)
  BY SamePanel DEF Filters, Calm

(* A load starts, and it is the only one that is awaited.                  *)
LEMMA ListLoading ==
    ASSUME NEW n \in net', n.kind = "load", n.st = "sent",
           n.guarded => n.inst = ui'.epoch,
           \A c \in net' : c # n /\ c.kind = "load" => c.guarded /\ c.inst # ui'.epoch
    PROVE  ListInv'
<1>1. Waiting' = {n}
  BY DEF Waiting, Loads, Awaited
<1>2. QED
  BY <1>1 DEF ListInv, OneWaiting, Catching, FreshRead, Read

(* The same loads are awaited, and a reading is owed.                      *)
LEMMA ListOwed ==
    ASSUME ListInv, Calm, Waiting' = Waiting, Owed'
    PROVE  ListInv'
  BY DEF ListInv, OneWaiting, Catching, FreshRead

(* Nothing the list depends on changes.                                    *)
LEMMA ListSame ==
    ASSUME ListInv, Calm, Waiting' = Waiting, Owed => Owed', SameList(ui, ui'),
           srv'[ui.subject] = srv[ui.subject]
    PROVE  ListInv'
<1>1. Current' = Current /\ \A c : Read(c)' = Read(c)
  BY DEF SameList, Current, Read
<1>2. QED
  BY <1>1 DEF ListInv, OneWaiting, Catching, FreshRead, SameList

(* A load is answered: if with a list, with the one the server has.        *)
LEMMA ListAnswered ==
    ASSUME ListInv, Calm, SameList(ui, ui'), srv' = srv,
           NEW c \in Loads, Awaited(c) \/ (Owed => Owed'), NEW a, a.kind = "load", a.guarded = c.guarded, a.inst = c.inst,
           a.subject = c.subject, a.st = "ok" => a.seen = srv[c.subject],
           Loads' = (Loads \ {c}) \cup {a}
    PROVE  ListInv'
<1>1. Current' = Current /\ (\A d : Read(d)' = Read(d)) /\ (\A d : Awaited(d)' = Awaited(d))
  BY DEF SameList, Current, Read, Awaited
<1>2. /\ Awaited(c) => Waiting' = (Waiting \ {c}) \cup {a}
      /\ ~Awaited(c) => Waiting' = Waiting
  BY <1>1 DEF Waiting, Awaited
<1>3. ui'.subject = ui.subject
  BY DEF SameList
<1>4. CASE Awaited(c)
  <2>1. c \in Waiting /\ Waiting' = {a}
    BY <1>2, <1>4 DEF ListInv, OneWaiting, Waiting
  <2>2. OneWaiting' /\ Catching'
    BY <2>1 DEF OneWaiting, Catching
  <2>3. FreshRead'
    BY <1>1, <1>3, <2>1 DEF FreshRead, Read
  <2>4. QED
    BY <2>2, <2>3 DEF ListInv
<1>5. CASE ~Awaited(c)
  BY <1>2, <1>5, ListSame
<1>6. QED
  BY <1>4, <1>5

(* The same loads are under way, and the epoch is the same.                *)
LEMMA WaitingSame ==
    ASSUME Loads' = Loads, ui'.epoch = ui.epoch
    PROVE  Waiting' = Waiting
  BY DEF Waiting, Awaited

(* What is owed stays owed when nothing is taken that a reading depends    *)
(* on.                                                                     *)
LEMMA OwedKept ==
    ASSUME panel' = panel, ui'.timers = ui.timers, behind' = behind, NEW c,
           c.st = "sent" \/ c.kind # "op" \/ (c.st = "ok" /\ Handler(c.op).then = "none"),
           net \ {c} \subseteq net'
    PROVE  Owed => Owed'
<1>1. \A o : Handler(o)' = Handler(o)
  BY SameFilters
<1>2. \A d \in Writes : (d.st = "err" \/ (d.st = "ok" /\ Handler(d.op).then # "none"))
                           => d \in Writes'
  BY DEF Writes
<1>3. QED
  BY <1>1, <1>2 DEF Owed

(* A load answered, with the server's list or not at all.                  *)
LEMMA LoadAnsweredList ==
    ASSUME TypeInv, CacheOK, ListInv, Calm, NEW c \in net,
           ServeLoad(c) \/ (c.kind = "load" /\ Fail(c))
    PROVE  ListInv'
<1>1. c \in Call /\ c \in Loads /\ c.st = "sent" /\ UNCHANGED <<panel, ui, srv>>
  BY DEF TypeInv, TypeOK, CallOK, ServeLoad, Fail, Loads
<1>2. PICK a : /\ net' = (net \ {c}) \cup {a}
               /\ \/ a = [c EXCEPT !.st = "ok", !.seen = srv[c.subject]]
                  \/ a = [c EXCEPT !.st = "err"]
  BY <1>1 DEF ServeLoad, Fail, Answer, Loads
<1>3. /\ a.kind = "load" /\ a.guarded = c.guarded /\ a.inst = c.inst
      /\ a.subject = c.subject
      /\ a.st = "ok" => a.seen = srv[c.subject]
  BY <1>1, <1>2 DEF Call, Loads
<1>4. Loads' = (Loads \ {c}) \cup {a}
  BY <1>2, <1>3 DEF Loads
<1>5. Awaited(c) \/ (Owed => Owed')
  <2>1. Awaited(c) \/ behind' = behind
    BY DEF ServeLoad, Fail, CacheOK
  <2>2. QED
    BY <1>1, <1>2, <2>1, OwedKept
<1>6. SameList(ui, ui') /\ srv' = srv
  BY <1>1 DEF SameList
<1>7. QED
  BY <1>1, <1>3, <1>4, <1>5, <1>6, ListAnswered

(* A handler's call answered: unless the handler does nothing about it     *)
(* afterwards, a reading is owed; and a handler that does nothing has      *)
(* changed no list.                                                        *)
LEMMA WriteAnsweredList ==
    ASSUME TypeInv, ListInv, Calm, NEW c \in net,
           ServeWrite(c) \/ (c.kind = "op" /\ Fail(c))
    PROVE  ListInv'
<1>1. /\ c \in Call /\ c.kind = "op" /\ c.op \in Ops /\ c.st = "sent"
      /\ UNCHANGED <<panel, ui>> /\ TypeOK
  BY DEF TypeInv, TypeOK, CallOK, ServeWrite, Fail
<1>2. PICK st \in {"ok", "err"} :
         /\ \/ net' = Answer(c, st)
            \/ net' = Answer(c, st) \cup {[c EXCEPT !.kind = "effect"]}
         /\ st = "err" => srv' = srv
  BY <1>1 DEF ServeWrite, Fail
<1>3. PICK a : a = [c EXCEPT !.st = st]
  OBVIOUS
<1>4. a.kind = "op" /\ a.st = st /\ a.op = c.op
  BY <1>1, <1>3 DEF Call
<1>5. PICK e : e = [c EXCEPT !.kind = "effect"]
  OBVIOUS
<1>6. /\ e.kind = "effect"
      /\ net' \in {(net \ {c}) \cup {a}, ((net \ {c}) \cup {a}) \cup {e}}
  BY <1>1, <1>2, <1>3, <1>5 DEF Answer, Call
<1>7. Loads' = Loads
  BY <1>1, <1>4, <1>5, <1>6 DEF Loads
<1>8. Waiting' = Waiting
  BY <1>1, <1>7, WaitingSame
<1>9. CASE st = "err" \/ Handler(c.op).then # "none"
  <2>1. a \in Writes'
    BY <1>4, <1>6 DEF Writes
  <2>2. Handler(c.op)' = Handler(c.op)
    BY <1>1, SameFilters
  <2>3. Owed'
    BY <1>2, <1>4, <1>9, <2>1, <2>2 DEF Owed
  <2>4. QED
    BY <1>8, <2>3, ListOwed
<1>10. CASE st = "ok" /\ Handler(c.op).then = "none"
  <2>1. Handler(c.op).does = "nop"
    BY <1>1, <1>10, MountedWellFormed DEF Calm, WellFormed, Handler, Ops
  <2>2. behind' = behind /\ (srv' = srv \/ Change(c))
    BY DEF ServeWrite, Fail
  <2>3. srv' = srv
    BY <1>1, <2>1, <2>2, ChangeOK
  <2>4. Owed => Owed'
    BY <1>1, <1>6, <2>2, OwedKept
  <2>5. SameList(ui, ui')
    BY <1>1 DEF SameList
  <2>6. QED
    BY <1>8, <2>3, <2>4, <2>5, ListSame
<1>11. QED
  BY <1>2, <1>9, <1>10

(* The list changes, but not by a call that is being answered: it is still *)
(* to be read, or will be read later, or the panel is behind.              *)
LEMMA OutdatedList ==
    ASSUME TypeInv, ListInv, Calm, NEW s \in Subjects, Outdate(s),
           \A t \in Subjects : t # s => srv'[t] = srv[t],
           UNCHANGED <<panel, ui>>, Loads' = Loads, Writes' = Writes
    PROVE  ListInv'
<1>1. Waiting' = Waiting
  BY WaitingSame
<1>2. ui.subject \in Subjects
  BY DEF TypeInv, TypeOK, UiState
<1>3. CASE srv'[ui.subject] = srv[ui.subject]
  <2>1. behind => behind'
    BY DEF Outdate
  <2>2. Owed => Owed'
    BY <2>1, SameFilters DEF Owed
  <2>3. QED
    BY <1>1, <1>3, <2>2, ListSame DEF SameList
<1>4. CASE behind'
  BY <1>1, <1>4, ListOwed DEF Owed
<1>5. CASE ui.timers[s] > 0
  <2>1. Owed'
    BY <1>5 DEF Owed
  <2>2. QED
    BY <1>1, <2>1, ListOwed
<1>6. ASSUME NEW d \in Loads, d.st = "sent", Awaited(d) PROVE ListInv'
  <2>1. Waiting' = {d}
    BY <1>1, <1>6 DEF ListInv, OneWaiting, Waiting
  <2>2. QED
    BY <1>6, <2>1 DEF ListInv, OneWaiting, Catching, FreshRead, Read
<1>7. \/ srv'[ui.subject] = srv[ui.subject] \/ behind' \/ WillRead(s)
  <2>1. CASE s = ui.subject
    BY <2>1 DEF Outdate
  <2>2. CASE s # ui.subject
    BY <1>2, <2>2
  <2>3. QED
    BY <2>1, <2>2
<1>8. QED
  BY <1>3, <1>4, <1>5, <1>6, <1>7 DEF WillRead

(* An effect lands, or a list is published.                                *)
LEMMA LandList ==
    ASSUME TypeInv, ListInv, Calm, NEW c \in net, Land(c)
    PROVE  ListInv'
<1>1. /\ c.kind = "effect" /\ c.subject \in Subjects /\ Change(c) /\ Outdate(c.subject)
      /\ net' = net \ {c} /\ UNCHANGED <<panel, ui>>
  BY DEF TypeInv, TypeOK, CallOK, Call, Land
<1>2. \A t \in Subjects : t # c.subject => srv'[t] = srv[t]
  BY <1>1, ChangeOK DEF TypeInv
<1>3. Loads' = Loads /\ Writes' = Writes
  BY <1>1 DEF Loads, Writes
<1>4. PICK s \in Subjects : s = c.subject
  BY <1>1
<1>5. Outdate(s) /\ \A t \in Subjects : t # s => srv'[t] = srv[t]
  BY <1>1, <1>2, <1>4
<1>6. QED
  BY <1>1, <1>3, <1>5, OutdatedList

LEMMA PublishList ==
    ASSUME TypeInv, ListInv, Calm, NEW s \in Subjects, Publish(s)
    PROVE  ListInv'
<1>1. UNCHANGED <<panel, ui, net>> /\ Outdate(s)
  BY DEF Publish
<1>2. \A t \in Subjects : t # s => srv'[t] = srv[t]
  BY DEF Publish, TypeInv, TypeOK
<1>3. Loads' = Loads /\ Writes' = Writes
  BY <1>1 DEF Loads, Writes
<1>4. QED
  BY <1>1, <1>2, <1>3, OutdatedList

(* A load function goes on: with the only list that is awaited, or with    *)
(* one nobody waits for.                                                   *)
LEMMA LoadDoneList ==
    ASSUME TypeInv, ListInv, Calm, NEW c \in net, LoadDone(c), Calm'
    PROVE  ListInv'
<1>1. /\ net' = net \ {c} /\ UNCHANGED <<panel, srv>> /\ c.kind = "load"
      /\ ui'.subject = ui.subject /\ ui'.epoch = ui.epoch /\ ui'.timers = ui.timers
      /\ behind' = behind
  BY LoadDoneTypes DEF LoadDone
<1>2. Owed => Owed'
  BY <1>1, OwedKept
<1>3. Waiting' = Waiting \ {c}
  BY <1>1 DEF Waiting, Loads, Awaited
<1>4. CASE ~Awaited(c) /\ ui' = ui
  <2>1. Waiting' = Waiting /\ SameList(ui, ui')
    BY <1>3, <1>4 DEF Waiting, SameList
  <2>2. QED
    BY <1>1, <1>2, <2>1, ListSame
<1>5. CASE /\ Awaited(c) /\ c.st = "ok" /\ ui'.shown = c.seen /\ ui'.of = c.subject
           /\ c.subject = ui.subject
  <2>1. c \in Waiting
    BY <1>1, <1>5 DEF Waiting, Loads
  <2>2. Waiting' = {}
    BY <1>3, <2>1 DEF ListInv, OneWaiting
  <2>3. c.seen = srv[ui.subject] \/ Owed
    BY <1>5, <2>1 DEF ListInv, FreshRead, Read
  <2>4. Current' \/ Owed'
    BY <1>1, <1>2, <1>5, <2>3 DEF Current
  <2>5. QED
    BY <2>2, <2>4 DEF ListInv, OneWaiting, Catching, FreshRead
<1>6. ui'.calm
  BY DEF Calm
<1>7. QED
  BY <1>4, <1>5, <1>6, LoadDoneTypes

(* A load starts when none is awaited.                                     *)
LEMMA ListReading ==
    ASSUME \A d \in Loads : ~Awaited(d), ui'.epoch = ui.epoch,
           NEW s, NEW g, NEW i, NEW h, g => i = ui.epoch,
           NEW D, net' = (net \ D) \cup {LoadCall(s, g, i, h)}
    PROVE  ListInv'
<1>1. PICK n : n = LoadCall(s, g, i, h)
  OBVIOUS
<1>2. n.kind = "load" /\ n.st = "sent" /\ n.guarded = g /\ n.inst = i
  BY <1>1 DEF LoadCall
<1>3. net' = (net \ D) \cup {n}
  BY <1>1
<1>4. n \in net' /\ (n.guarded => n.inst = ui'.epoch)
  BY <1>2, <1>3
<1>5. \A c \in net' : c # n /\ c.kind = "load" => c.guarded /\ c.inst # ui'.epoch
  BY <1>3 DEF Loads, Awaited
<1>6. QED
  BY <1>2, <1>4, <1>5, ListLoading

(* A handler goes on: it reads the list, owes a reading, has filtered the  *)
(* list it saw, or had nothing to do.                                      *)
LEMMA WriteDoneList ==
    ASSUME TypeInv, ListInv, FilterInv, Calm, NEW c \in net, WriteDone(c), Calm'
    PROVE  ListInv'
<1>1. /\ UNCHANGED <<panel, srv>> /\ c \in Writes /\ c.st = "ok" /\ c.kind = "op"
      /\ ui'.subject = ui.subject /\ ui'.of = ui.of /\ ui'.epoch = ui.epoch
      /\ ui'.calm /\ TypeOK /\ behind' = behind
  BY WriteDoneTypes DEF WriteDone, Writes, Calm, TypeInv
<1>2. /\ c.op \in Ops /\ c.subject \in Subjects /\ ui.timers \in [Subjects -> Nat]
  BY <1>1 DEF TypeOK, CallOK, Call, UiState
<1>3. ASSUME net' = net \ {c} PROVE Waiting' = Waiting
  <2>1. Loads' = Loads
    BY <1>1, <1>3 DEF Loads
  <2>2. QED
    BY <1>1, <2>1, WaitingSame
<1>4. CASE /\ \A d \in Loads : ~Awaited(d)
           /\ \E i \in Nat, h \in Ops \cup {None} :
                 net' = (net \ {c}) \cup {LoadCall(c.subject, FALSE, i, h)}
  <2>1. PICK i \in Nat, h \in Ops \cup {None} :
           net' = (net \ {c}) \cup {LoadCall(c.subject, FALSE, i, h)}
    BY <1>4
  <2>2. PICK D, s : D = {c} /\ s = c.subject
    OBVIOUS
  <2>3. net' = (net \ D) \cup {LoadCall(s, FALSE, i, h)}
    BY <2>1, <2>2
  <2>4. QED
    BY <1>1, <1>4, <2>3, ListReading
<1>5. CASE net' = net \ {c} /\ ui'.timers = [ui.timers EXCEPT ![c.subject] = @ + 1]
  <2>1. ui'.timers[c.subject] > 0
    BY <1>2, <1>5
  <2>2. Owed'
    BY <1>2, <2>1 DEF Owed
  <2>3. QED
    BY <1>3, <1>5, <2>2, ListOwed
<1>6. CASE /\ Handler(c.op).then = "filter" /\ net' = net \ {c}
           /\ ui'.shown = [c.seen EXCEPT ![c.row] = Absent]
  <2>1. Filters
    BY <1>2, <1>6 DEF Filters
  <2>2. Loads = {} /\ (behind \/ FilterOK(c))
    BY <1>1, <2>1 DEF FilterInv, ReadsOnce, Loads
  <2>3. behind \/ Current'
    BY <1>1, <1>6, <2>2 DEF Current, FilterOK
  <2>4. Waiting' = {}
    BY <1>3, <1>6, <2>2 DEF Waiting
  <2>5. behind => Owed'
    BY <1>1 DEF Owed
  <2>6. QED
    BY <2>3, <2>4, <2>5 DEF ListInv, OneWaiting, Catching, FreshRead
<1>7. CASE Handler(c.op).then = "none" /\ net' = net \ {c} /\ SameList(ui, ui')
  <2>1. Owed => Owed'
    BY <1>1, <1>7, OwedKept DEF SameList
  <2>2. QED
    BY <1>1, <1>3, <1>7, <2>1, ListSame
<1>8. \/ /\ \A d \in Loads : ~Awaited(d)
         /\ \E i \in Nat, h \in Ops \cup {None} :
               net' = (net \ {c}) \cup {LoadCall(c.subject, FALSE, i, h)}
      \/ net' = net \ {c} /\ ui'.timers = [ui.timers EXCEPT ![c.subject] = @ + 1]
      \/ /\ Handler(c.op).then = "filter" /\ net' = net \ {c}
         /\ ui'.shown = [c.seen EXCEPT ![c.row] = Absent]
      \/ Handler(c.op).then = "none" /\ net' = net \ {c} /\ SameList(ui, ui')
  <2>1. ui'.calm
    BY <1>1
  <2>2. QED
    BY <2>1, WriteDoneTypes
<1>9. QED
  BY <1>4, <1>5, <1>6, <1>7, <1>8

(* The page is loaded again: its first load is the only one.               *)
LEMMA ReloadPageList ==
    ASSUME TypeInv, NEW c \in net, ReloadPage(c)
    PROVE  ListInv'
<1>1. /\ ui' = [Mounted(ui.subject) EXCEPT !.calm = ui.calm]
      /\ \E l \in net' : /\ l = FirstLoad(ui.subject)
                         /\ \A d \in net' : d # l => d.kind = "effect"
  BY ReloadPageTypes
<1>2. ui'.epoch = 0
  BY <1>1 DEF Mounted
<1>3. PICK l \in net' : /\ l = FirstLoad(ui.subject)
                        /\ \A d \in net' : d # l => d.kind = "effect"
  BY <1>1
<1>4. l.kind = "load" /\ l.st = "sent" /\ l.inst = 0
  BY <1>3 DEF FirstLoad
<1>5. QED
  BY <1>2, <1>3, <1>4, ListLoading

(* The other steps of the browser: a load starts when none is awaited, in  *)
(* a new epoch if the subject changes; or neither the list nor what is     *)
(* owed is touched.                                                        *)
LEMMA TimerFiresList ==
    ASSUME TypeInv, NEW s \in Subjects, TimerFires(s), Calm'
    PROVE  ListInv'
<1>1. PICK D, i : D = {} /\ i = 0
  OBVIOUS
<1>2. net' = (net \ D) \cup {LoadCall(s, FALSE, i, None)}
  BY <1>1, TimerFiresTypes
<1>3. (\A d \in Loads : ~Awaited(d)) /\ ui'.epoch = ui.epoch
  BY TimerFiresTypes DEF Calm
<1>4. QED
  BY <1>2, <1>3, ListReading

(* The list is read again unprompted, when no reading is awaited.          *)
LEMMA ReadAgainList ==
    ASSUME TypeInv, ReadAgain, Calm'
    PROVE  ListInv'
<1>1. PICK D, s, g, i : /\ D = {} /\ s = ui.subject /\ i = ui.epoch
                        /\ g = (panel.load.subject = "cancelled")
  OBVIOUS
<1>2. net' = (net \ D) \cup {LoadCall(s, g, i, None)}
  BY <1>1, ReadAgainTypes
<1>3. (\A d \in Loads : ~Awaited(d)) /\ ui'.epoch = ui.epoch
  BY ReadAgainTypes DEF Calm, SameList
<1>4. g => i = ui.epoch
  BY <1>1
<1>5. QED
  BY <1>2, <1>3, <1>4, ListReading

(* The subject changes: what was under way belongs to earlier epochs.      *)
LEMMA ChangeSubjectList ==
    ASSUME TypeInv, NEW s \in Subjects, ChangeSubject(s), Calm'
    PROVE  ListInv'
<1>1. /\ ui'.epoch = ui.epoch + 1 /\ ui.epoch \in Nat
      /\ \A c \in Loads : c.guarded
  BY ChangeSubjectTypes DEF Calm, TypeInv, TypeOK, UiState
<1>2. \A c \in Loads : c.inst # ui'.epoch
  <2>1. \A c \in Loads : c.inst \in Nat /\ c.inst <= ui.epoch
    BY <1>1 DEF TypeInv, TypeOK, CallOK, Call, Loads
  <2>2. QED
    BY <1>1, <2>1
<1>3. PICK n : n = LoadCall(s, panel.load.subject = "cancelled", ui.epoch + 1, None)
  OBVIOUS
<1>4. n.kind = "load" /\ n.st = "sent" /\ n.inst = ui.epoch + 1
  BY <1>3 DEF LoadCall
<1>5. net' = net \cup {n}
  BY <1>3, ChangeSubjectTypes
<1>6. n \in net' /\ (n.guarded => n.inst = ui'.epoch)
  BY <1>1, <1>4, <1>5
<1>7. \A c \in net' : c # n /\ c.kind = "load" => c.guarded /\ c.inst # ui'.epoch
  BY <1>1, <1>2, <1>5 DEF Loads
<1>8. QED
  BY <1>4, <1>6, <1>7, ListLoading

(* A form is opened or closed, or a handler is pressed.                    *)
LEMMA BrowserList ==
    ASSUME TypeInv, ListInv, Calm,
           \/ \E o \in Ops : OpenForm(o)
           \/ CloseForm
           \/ \E o \in Ops, r \in Rows : Press(o, r)
    PROVE  ListInv'
<1>b. behind' = behind
  BY DEF OpenForm, CloseForm, Press
<1>1. /\ SameList(ui, ui') /\ panel' = panel /\ srv' = srv
      /\ net' = net \/ \E n : net' = net \cup {n} /\ n.kind = "op" /\ n.st = "sent"
  <2>1. CASE CloseForm
    BY <2>1, CloseFormTypes DEF CloseForm
  <2>2. ASSUME NEW o \in Ops, OpenForm(o)
        PROVE  SameList(ui, ui') /\ UNCHANGED <<panel, srv, net>>
    BY <2>2, OpenFormTypes DEF OpenForm
  <2>3. ASSUME NEW o \in Ops, NEW r \in Rows, Press(o, r)
        PROVE  /\ SameList(ui, ui') /\ panel' = panel /\ srv' = srv
               /\ \E n : net' = net \cup {n} /\ n.kind = "op" /\ n.st = "sent"
    <3>1. SameList(ui, ui') /\ panel' = panel /\ srv' = srv
      BY <2>3, PressTypes
    <3>2. PICK n : net' = net \cup {n} /\ n.kind = "op" /\ n.st = "sent"
      BY <2>3, PressCall
    <3>3. QED
      BY <3>1, <3>2
  <2>4. QED
    BY <2>1, <2>2, <2>3
<1>2. Loads' = Loads
  BY <1>1 DEF Loads
<1>3. Waiting' = Waiting
  BY <1>1, <1>2, WaitingSame DEF SameList
<1>4. \A d \in Writes : d \in Writes'
  BY <1>1 DEF Writes
<1>5. Owed => Owed'
  BY <1>b, <1>1, <1>4, SameFilters DEF Owed, SameList
<1>6. QED
  BY <1>1, <1>3, <1>5, ListSame

(* A filtering panel, step by step: while its load is under way nothing    *)
(* else is.                                                                *)
LEMMA FilterAlone ==
    ASSUME FilterInv, Filters, NEW c \in net
    PROVE  IF c.kind = "load" THEN net = {c} ELSE Loads = {}
  BY DEF FilterInv, ReadsOnce, Loads

(* Its load is answered.                                                   *)
LEMMA FilterLoadAnswered ==
    ASSUME TypeInv, FilterInv, Filters, NEW c \in net,
           ServeLoad(c) \/ (c.kind = "load" /\ Fail(c))
    PROVE  FilterInv'
<1>1. /\ c \in Call /\ c.kind = "load" /\ UNCHANGED <<panel, ui>> /\ net = {c}
  BY FilterAlone DEF TypeInv, TypeOK, CallOK, ServeLoad, Fail
<1>2. PICK a : /\ net' = (net \ {c}) \cup {a}
               /\ \/ a = [c EXCEPT !.st = "ok", !.seen = srv[c.subject]]
                  \/ a = [c EXCEPT !.st = "err"]
  BY <1>1 DEF ServeLoad, Fail, Answer
<1>3. a.kind = "load" /\ a.subject = c.subject /\ net' = {a}
  BY <1>1, <1>2 DEF Call
<1>4. Loads' = {a} /\ Writes' = {}
  BY <1>3 DEF Loads, Writes
<1>5. c \in Loads
  BY <1>1 DEF Loads
<1>6. /\ Loads # {} => ui.loading /\ net = Loads
      /\ \A s \in Subjects : ui.timers[s] = 0
      /\ \A d \in net : d.subject = ui.subject
  BY DEF FilterInv, ReadsOnce
<1>7. ReadsOnce'
  BY <1>1, <1>3, <1>4, <1>5, <1>6 DEF ReadsOnce
<1>8. QED
  BY <1>4, <1>7 DEF FilterInv

(* A deletion is answered: the server's list is the one shown without the  *)
(* row.                                                                    *)
LEMMA FilterWriteAnswered ==
    ASSUME TypeInv, FilterInv, Filters, NEW c \in net,
           ServeWrite(c) \/ (c.kind = "op" /\ Fail(c))
    PROVE  FilterInv'
<1>1. /\ c \in Call /\ c.kind = "op" /\ c.op \in Ops /\ c.st = "sent" /\ c.row \in Rows
      /\ UNCHANGED <<panel, ui>> /\ TypeOK /\ Loads = {} /\ c \in Writes
  BY FilterAlone DEF TypeInv, TypeOK, CallOK, ServeWrite, Fail, Writes
<1>2. Handler(c.op).does = "del" /\ ~Handler(c.op).task /\ ~panel.load.cached
  BY <1>1, FilterPanels
<1>3. PICK st \in {"ok", "err"} :
         /\ \/ net' = Answer(c, st)
            \/ net' = Answer(c, st) \cup {[c EXCEPT !.kind = "effect"]}
         /\ st = "ok" => Change(c)
         /\ behind' = behind
  BY <1>1, <1>2 DEF ServeWrite, Fail
<1>4. PICK a : a = [c EXCEPT !.st = st]
  OBVIOUS
<1>5. /\ a.kind = "op" /\ a.st = st /\ a.op = c.op /\ a.subject = c.subject
      /\ a.seen = c.seen /\ a.row = c.row
  BY <1>1, <1>4 DEF Call
<1>6. PICK e : e = [c EXCEPT !.kind = "effect"]
  OBVIOUS
<1>7. /\ e.kind = "effect" /\ e.subject = c.subject
      /\ net' \in {(net \ {c}) \cup {a}, ((net \ {c}) \cup {a}) \cup {e}}
  BY <1>1, <1>3, <1>4, <1>6 DEF Answer, Call
<1>8. Loads' = {} /\ Writes' = (Writes \ {c}) \cup {a}
  BY <1>1, <1>5, <1>7 DEF Loads, Writes
<1>9. /\ \A s \in Subjects : ui.timers[s] = 0
      /\ \A d \in net : d.subject = ui.subject
  BY DEF FilterInv, ReadsOnce
<1>10. ReadsOnce'
  BY <1>1, <1>5, <1>7, <1>8, <1>9 DEF ReadsOnce
<1>11. ASSUME Calm', ~behind' PROVE Writes' = {a} /\ FilterOK(a)'
  <2>1. Calm /\ ~behind
    BY <1>1, <1>3, <1>11 DEF Calm
  <2>2. Writes = {c} /\ FilterOK(c)
    BY <1>1, <2>1 DEF FilterInv
  <2>3. st = "ok" => srv'[ui.subject] = [ui.shown EXCEPT ![c.row] = Absent]
    <3>1. st = "ok" => srv'[c.subject] = [srv[c.subject] EXCEPT ![c.row] = Absent]
      BY <1>1, <1>2, <1>3, ChangeOK
    <3>2. c.subject = ui.subject /\ ui.shown = srv[ui.subject]
      BY <1>1, <1>9, <2>2 DEF FilterOK
    <3>3. QED
      BY <1>3, <3>1, <3>2
  <2>4. FilterOK(a)'
    BY <1>1, <1>5, <2>2, <2>3 DEF FilterOK
  <2>5. QED
    BY <1>8, <2>2, <2>4
<1>12. QED
  BY <1>10, <1>11 DEF FilterInv

(* The other steps: an effect lands too late, the load function or the     *)
(* handler goes on, or a form is opened or closed.                         *)
LEMMA FilterEnds ==
    ASSUME TypeInv, FilterInv, Filters, NEW c \in net,
           Land(c) \/ LoadDone(c) \/ WriteDone(c) \/ WriteFailed(c)
    PROVE  FilterInv'
<1>1. /\ TypeOK /\ ui \in UiState
      /\ \A s \in Subjects : ui.timers[s] = 0
      /\ \A d \in net : d.subject = ui.subject
  BY DEF TypeInv, TypeOK, FilterInv, ReadsOnce
<1>2. ASSUME net' = net \ {c}, ui'.timers = ui.timers, ui'.subject = ui.subject
      PROVE  ReadsOnce'
  <2>1. Loads' = {}
    BY <1>2, FilterAlone DEF Loads
  <2>2. QED
    BY <1>1, <1>2, <2>1 DEF ReadsOnce
<1>3. CASE Land(c)
  <2>1. /\ c.kind = "effect" /\ c.subject = ui.subject /\ c.subject \in Subjects
        /\ net' = net \ {c} /\ UNCHANGED <<panel, ui>> /\ Outdate(c.subject)
    BY <1>1, <1>3 DEF Land, TypeOK, CallOK, Call
  <2>2. ~WillRead(c.subject)
    <3>1. Loads = {} /\ ~(ui.timers[c.subject] > 0)
      BY <1>1, <2>1, FilterAlone
    <3>2. QED
      BY <3>1 DEF WillRead
  <2>3. behind' \/ (srv'[ui.subject] = srv[ui.subject] /\ ~behind)
    BY <2>1, <2>2 DEF Outdate
  <2>4. Writes' = Writes /\ (Calm' => Calm)
    BY <2>1 DEF Writes, Calm
  <2>5. srv'[ui.subject] = srv[ui.subject] => \A d : FilterOK(d)' = FilterOK(d)
    BY <2>1 DEF FilterOK
  <2>6. QED
    BY <1>2, <2>1, <2>3, <2>4, <2>5 DEF FilterInv
<1>4. CASE LoadDone(c)
  <2>1. /\ net' = net \ {c} /\ ui'.timers = ui.timers /\ ui'.subject = ui.subject
        /\ c.kind = "load"
    BY <1>4, LoadDoneTypes DEF LoadDone
  <2>2. Writes' = {}
    BY <2>1, FilterAlone DEF Writes
  <2>3. QED
    BY <1>2, <2>1, <2>2 DEF FilterInv
<1>5. CASE WriteDone(c)
  <2>1. panel' = panel /\ c \in Writes /\ (ui'.calm => ui.calm) /\ behind' = behind
    BY <1>5, WriteDoneTypes DEF WriteDone
  <2>2. Handler(c.op).then = "filter"
    BY <1>1, <2>1, FilterPanels DEF TypeOK, CallOK, Writes
  <2>3. net' = net \ {c} /\ ui'.timers = ui.timers /\ ui'.subject = ui.subject
    BY <1>5, <2>2, WriteDoneTypes
  <2>4. Calm' /\ ~behind' => Writes' = {}
    <3>1. Calm' /\ ~behind' => Writes = {c}
      BY <2>1 DEF Calm, FilterInv
    <3>2. QED
      BY <2>3, <3>1 DEF Writes
  <2>5. QED
    BY <1>2, <2>3, <2>4 DEF FilterInv
<1>6. CASE WriteFailed(c)
  <2>1. ~ui'.calm /\ net' = net \ {c} /\ ui'.timers = ui.timers /\ ui'.subject = ui.subject
    BY <1>6, WriteFailedTypes DEF WriteFailed, SameList
  <2>2. QED
    BY <1>2, <2>1 DEF FilterInv, Calm
<1>7. QED
  BY <1>3, <1>4, <1>5, <1>6

(* A handler is pressed when the list is there and no other handler runs:  *)
(* it sees the server's list.                                              *)
LEMMA FilterPress ==
    ASSUME TypeInv, ListInv, FilterInv, Filters, NEW o \in Ops, NEW r \in Rows, Press(o, r)
    PROVE  FilterInv'
<1>1. PICK n : /\ net' = net \cup {n} /\ n.kind = "op" /\ n.st = "sent"
               /\ n.subject = ui.subject /\ n.seen = ui.shown /\ n.op = o
               /\ n.row = r /\ n.inst = ui.inst[Holder(o)]
  BY PressCall
<1>2. /\ SameList(ui, ui') /\ UNCHANGED <<panel, srv>> /\ ~ui.loading
      /\ ui'.calm => ui.calm /\ (Handler(o).then = "filter" => Writes = {})
      /\ behind' = behind
  BY PressTypes DEF Press
<1>3. /\ Loads = {}
      /\ \A s \in Subjects : ui.timers[s] = 0
      /\ \A d \in net : d.subject = ui.subject
  BY <1>2 DEF FilterInv, ReadsOnce
<1>4. Loads' = {}
  BY <1>1, <1>3 DEF Loads
<1>5. ReadsOnce'
  BY <1>1, <1>2, <1>3, <1>4 DEF ReadsOnce, SameList
<1>6. ASSUME Calm', ~behind' PROVE Writes' = {n} /\ FilterOK(n)'
  <2>1. Calm /\ ~behind /\ Writes = {}
    <3>1. Handler(o).then = "filter"
      BY FilterPanels DEF TypeInv
    <3>2. QED
      BY <1>2, <1>6, <3>1 DEF Calm
  <2>2. Waiting = {} /\ ~Owed
    <3>1. Waiting = {}
      BY <1>3 DEF Waiting
    <3>2. \A s \in Subjects : ~(ui.timers[s] > 0)
      BY <1>3
    <3>3. QED
      BY <2>1, <3>1, <3>2 DEF Owed
  <2>3. Current
    BY <2>1, <2>2 DEF ListInv, Catching
  <2>4. Writes' = {n}
    BY <1>1, <2>1 DEF Writes
  <2>5. FilterOK(n)'
    BY <1>1, <1>2, <2>3 DEF Current, FilterOK, SameList
  <2>6. QED
    BY <2>4, <2>5
<1>7. QED
  BY <1>5, <1>6 DEF FilterInv

(* A form is opened or closed, or nothing happens.                         *)
LEMMA FilterSame ==
    ASSUME FilterInv, Filters, UNCHANGED <<panel, srv, behind, net>>, SameList(ui, ui'),
           ui'.loading = ui.loading, ui'.calm = ui.calm
    PROVE  FilterInv'
<1>1. Loads' = Loads /\ Writes' = Writes
  BY DEF Loads, Writes
<1>2. ReadsOnce'
  BY <1>1 DEF FilterInv, ReadsOnce, SameList
<1>3. Calm' => Calm
  BY DEF Calm
<1>4. \A c : FilterOK(c)' <=> FilterOK(c)
  BY DEF FilterOK, SameList
<1>5. QED
  BY <1>1, <1>2, <1>3, <1>4 DEF FilterInv

(* No step makes a run calm again.                                         *)
LEMMA CalmBefore == TypeInv /\ [Next]_vars => panel' = panel /\ (Calm' => Calm)
<1> SUFFICES ASSUME TypeInv, [Next]_vars PROVE panel' = panel /\ (ui'.calm => ui.calm)
  BY DEF Calm
<1>1. ASSUME NEW c \in net, ServeLoad(c) \/ ServeWrite(c) \/ Fail(c)
      PROVE  panel' = panel /\ (ui'.calm => ui.calm)
  BY <1>1 DEF ServeLoad, ServeWrite, Fail
<1>2. ASSUME NEW c \in net, Land(c) \/ WriteFailed(c)
      PROVE  panel' = panel /\ (ui'.calm => ui.calm)
  BY <1>2, WriteFailedTypes DEF Land, WriteFailed
<1>3. ASSUME NEW c \in net, LoadDone(c) PROVE panel' = panel /\ (ui'.calm => ui.calm)
  BY <1>3, LoadDoneTypes
<1>4. ASSUME NEW c \in net, WriteDone(c) PROVE panel' = panel /\ (ui'.calm => ui.calm)
  BY <1>4, WriteDoneTypes
<1>5. ASSUME NEW c \in net, ReloadPage(c) PROVE panel' = panel /\ (ui'.calm => ui.calm)
  BY <1>5, ReloadPageTypes
<1>6. ASSUME NEW s \in Subjects, TimerFires(s) PROVE panel' = panel /\ (ui'.calm => ui.calm)
  BY <1>6, TimerFiresTypes
<1>7. ASSUME NEW s \in Subjects, ChangeSubject(s)
      PROVE  panel' = panel /\ (ui'.calm => ui.calm)
  BY <1>7, ChangeSubjectTypes
<1>8. ASSUME NEW o \in Ops, NEW r \in Rows, Press(o, r)
      PROVE  panel' = panel /\ (ui'.calm => ui.calm)
  BY <1>8, PressTypes
<1>9. CASE ReadAgain
  BY <1>9, ReadAgainTypes
<1>10. ASSUME NEW o \in Ops, OpenForm(o) PROVE panel' = panel /\ (ui'.calm => ui.calm)
  BY <1>10, OpenFormTypes DEF OpenForm
<1>11. CASE CloseForm
  BY <1>11, CloseFormTypes DEF CloseForm
<1>12. CASE Push
  <2>1. ui \in UiState
    BY DEF TypeInv, TypeOK
  <2>2. QED
    BY <1>12, <2>1 DEF Push, UiState
<1>13. CASE UNCHANGED vars \/ \E s \in Subjects : Publish(s)
  BY <1>13 DEF vars, Publish
<1>14. QED
  BY <1>1, <1>2, <1>3, <1>4, <1>5, <1>6, <1>7, <1>8, <1>9, <1>10, <1>11, <1>12,
     <1>13 DEF Next, Progress

(* Every step keeps what is shown, read and owed in agreement.             *)
LEMMA ListStep == TypeInv /\ CacheOK /\ ListInv /\ FilterInv /\ [Next]_vars => ListInv'
<1> SUFFICES ASSUME TypeInv, CacheOK, ListInv, FilterInv, [Next]_vars, Calm' PROVE ListInv'
  BY DEF ListInv
<1>c. Calm /\ panel' = panel
  BY CalmBefore
<1>1. ASSUME NEW c \in net, ServeLoad(c) \/ Fail(c) PROVE ListInv'
  <2>1. CASE ServeLoad(c) \/ c.kind = "load"
    BY <1>c, <1>1, <2>1, LoadAnsweredList
  <2>2. CASE c.kind = "op"
    BY <1>c, <1>1, <2>2, WriteAnsweredList DEF ServeLoad
  <2>3. c.kind \in {"load", "op"}
    BY <1>1 DEF ServeLoad, Fail, TypeInv, TypeOK, CallOK, Call
  <2>4. QED
    BY <1>1, <2>1, <2>2, <2>3
<1>2. ASSUME NEW c \in net, ServeWrite(c) PROVE ListInv'
  BY <1>c, <1>2, WriteAnsweredList
<1>3. ASSUME NEW c \in net, Land(c) PROVE ListInv'
  BY <1>c, <1>3, LandList
<1>4. ASSUME NEW c \in net, LoadDone(c) PROVE ListInv'
  BY <1>c, <1>4, LoadDoneList
<1>5. ASSUME NEW c \in net, WriteDone(c) PROVE ListInv'
  BY <1>c, <1>5, WriteDoneList
<1>6. ASSUME NEW c \in net, ReloadPage(c) PROVE ListInv'
  BY <1>6, ReloadPageList
<1>7. ASSUME NEW c \in net, WriteFailed(c) PROVE ListInv'
  BY <1>7, WriteFailedTypes DEF Calm
<1>8. ASSUME NEW s \in Subjects, TimerFires(s) \/ Publish(s) PROVE ListInv'
  BY <1>c, <1>8, TimerFiresList, PublishList
<1>9. ASSUME NEW s \in Subjects, ChangeSubject(s) PROVE ListInv'
  BY <1>9, ChangeSubjectList
<1>10. CASE ReadAgain
  BY <1>10, ReadAgainList
<1>11. CASE \/ \E o \in Ops : OpenForm(o)
            \/ CloseForm
            \/ \E o \in Ops, r \in Rows : Press(o, r)
  BY <1>c, <1>11, BrowserList
<1>12. CASE Push
  BY <1>c, <1>12, PushTypes DEF Calm
<1>13. CASE UNCHANGED vars
  <2>1. Waiting' = Waiting /\ (Owed => Owed') /\ SameList(ui, ui') /\ srv' = srv
    <3>1. Loads' = Loads /\ Writes' = Writes /\ ui' = ui /\ srv' = srv /\ behind' = behind
      BY <1>13 DEF vars, Loads, Writes
    <3>2. Waiting' = Waiting
      BY <3>1, WaitingSame
    <3>3. Owed => Owed'
      BY <1>c, <3>1, SameFilters DEF Owed
    <3>4. QED
      BY <3>1, <3>2, <3>3 DEF SameList
  <2>2. QED
    BY <1>c, <2>1, ListSame
<1>14. QED
  BY <1>1, <1>2, <1>3, <1>4, <1>5, <1>6, <1>7, <1>8, <1>9, <1>10, <1>11, <1>12,
     <1>13 DEF Next, Progress

(* And of a filtering panel: reading again, a page that reloads and a      *)
(* subject that changes are not among its steps.                           *)
LEMMA FilterStep == TypeInv /\ ListInv /\ FilterInv /\ [Next]_vars => FilterInv'
<1> SUFFICES ASSUME TypeInv, ListInv, FilterInv, [Next]_vars, Filters PROVE FilterInv'
  <2>1. Filters' = Filters \/ ~(TypeInv /\ [Next]_vars)
    BY CalmBefore, SameFilters
  <2>2. ~Filters' => FilterInv'
    BY DEF FilterInv
  <2>3. QED
    BY <2>1, <2>2
<1>t. /\ TypeOK /\ ui \in UiState
      /\ panel.load.subject = "one" /\ panel.load.again = "never" /\ ~panel.load.cached
      /\ \A o \in Ops : Handler(o).then = "filter"
      /\ \A s \in Subjects : ui.timers[s] = 0
  BY FilterPanels DEF TypeInv, TypeOK, FilterInv, ReadsOnce
<1>1. ASSUME NEW c \in net, ServeLoad(c) \/ Fail(c) PROVE FilterInv'
  <2>1. CASE ServeLoad(c) \/ c.kind = "load"
    BY <1>1, <2>1, FilterLoadAnswered
  <2>2. CASE c.kind = "op"
    BY <1>1, <2>2, FilterWriteAnswered DEF ServeLoad
  <2>3. c.kind \in {"load", "op"}
    BY <1>1, <1>t DEF ServeLoad, Fail, TypeOK, CallOK, Call
  <2>4. QED
    BY <1>1, <2>1, <2>2, <2>3
<1>2. ASSUME NEW c \in net, ServeWrite(c) PROVE FilterInv'
  BY <1>2, FilterWriteAnswered
<1>3. ASSUME NEW c \in net, Land(c) \/ LoadDone(c) \/ WriteDone(c) \/ WriteFailed(c)
      PROVE  FilterInv'
  BY <1>3, FilterEnds
<1>4. ASSUME NEW c \in net, ReloadPage(c) PROVE FALSE
  <2>1. c.op \in Ops /\ Handler(c.op).then = "page"
    BY <1>4, <1>t DEF ReloadPage, TypeOK, CallOK
  <2>2. QED
    BY <1>t, <2>1
<1>5. ASSUME NEW s \in Subjects, TimerFires(s) \/ ChangeSubject(s) \/ Publish(s) PROVE FALSE
  <2>1. ui.timers[s] = 0
    BY <1>t
  <2>2. QED
    BY <1>5, <1>t, <2>1 DEF TimerFires, ChangeSubject, Publish
<1>6. ~ReadAgain /\ ~Push
  BY <1>t DEF ReadAgain, Push
<1>7. ASSUME NEW o \in Ops, NEW r \in Rows, Press(o, r) PROVE FilterInv'
  BY <1>7, FilterPress
<1>8. ASSUME NEW o \in Ops, OpenForm(o) PROVE FilterInv'
  <2>1. UNCHANGED <<panel, srv, behind, net>>
    BY <1>8 DEF OpenForm
  <2>2. QED
    BY <1>8, <2>1, OpenFormTypes, FilterSame
<1>9. CASE CloseForm
  <2>1. UNCHANGED <<panel, srv, behind, net>>
    BY <1>9 DEF CloseForm
  <2>2. QED
    BY <1>9, <2>1, CloseFormTypes, FilterSame
<1>10. CASE UNCHANGED vars
  BY <1>10, FilterSame DEF vars, SameList
<1>11. QED
  BY <1>1, <1>2, <1>3, <1>4, <1>5, <1>6, <1>7, <1>8, <1>9, <1>10 DEF Next, Progress

(* A panel that has just been mounted waits for its first load.            *)
LEMMA InitList == Init => ListInv /\ FilterInv
<1> SUFFICES ASSUME Init PROVE ListInv /\ FilterInv
  OBVIOUS
<1>1. PICK s \in Subjects : ui = Mounted(s) /\ net = {FirstLoad(s)}
  BY DEF Init
<1>2. PICK l : l = FirstLoad(s)
  OBVIOUS
<1>3. /\ net = {l} /\ l.kind = "load" /\ l.st = "sent" /\ l.subject = s /\ l.inst = 0
      /\ ui.epoch = 0 /\ ui.subject = s /\ ui.timers = [x \in Subjects |-> 0]
      /\ ui.loading = (panel.load.hides # "never")
  BY <1>1, <1>2 DEF FirstLoad, Mounted
<1>4. Loads = {l} /\ Writes = {} /\ Waiting = {l}
  BY <1>3 DEF Loads, Writes, Waiting, Awaited
<1>5. ListInv
  BY <1>3, <1>4 DEF ListInv, OneWaiting, Catching, FreshRead, Read
<1>6. FilterInv
  <2>1. SUFFICES ASSUME Filters PROVE ReadsOnce
    BY <1>4 DEF FilterInv
  <2>2. ui.loading
    BY <1>3, <2>1, InitTypes, FilterPanels DEF TypeInv
  <2>3. QED
    BY <1>3, <1>4, <2>2 DEF ReadsOnce
<1>7. QED
  BY <1>5, <1>6

(* At rest, a panel shows the list a GET of its subject returns: every     *)
(* handler that changes the list reads it again, or changes it the same    *)
(* way, and only a failed call, one of the races the code leaves open, or  *)
(* a task or a publication nothing has read yet makes the two differ.      *)
THEOREM Settles == Spec => []PanelSettles
<1>1. ListInv => PanelSettles
  <2> SUFFICES ASSUME ListInv, net = {}, \A s \in Subjects : ui.timers[s] = 0, Calm, ~behind
               PROVE  Current
    BY DEF PanelSettles, Current, Calm
  <2>1. Waiting = {}
    BY DEF Waiting, Loads
  <2>2. ~Owed
    <3>1. Writes = {} /\ \A s \in Subjects : ~(ui.timers[s] > 0)
      BY DEF Writes
    <3>2. QED
      BY <3>1 DEF Owed
  <2>3. QED
    BY <2>1, <2>2 DEF ListInv, Catching
<1>2. QED
  BY <1>1, InitTypes, InitCache, TypeStep, CacheStep, InitList, ListStep, FilterStep, PTL DEF Spec
=============================================================================
