----------------------------- MODULE PanelTable -----------------------------
(***************************************************************************)
(* The list panels of the web UI, one description each.  A panel loads a   *)
(* list, offers operations on it, and after an operation reads the list    *)
(* again.  Panels.tla gives the descriptions their meaning; what differs   *)
(* from one component to the next, and only that, is written here:         *)
(*                                                                         *)
(*  - Load: how the component reads its list                               *)
(*      hides    the loading text takes the list's place "first" only, on  *)
(*               every reload ("always"), or "never"                       *)
(*      error    a failed load is reported above the list ("banner"), in   *)
(*               its place ("blocks"), or in place of the component that   *)
(*               holds the list and its state ("unmounts")                 *)
(*      subject  what the list is of is fixed ("one"), or a prop that may  *)
(*               change, the old load's answer then being "kept" (it is    *)
(*               applied whenever it comes) or "cancelled"                 *)
(*      again    the list is also read on a "timer", when the user comes   *)
(*               back to the view ("visit"), or on a "button" that is      *)
(*               disabled while a load runs, or "never"; or the server     *)
(*               sends it over the socket whenever it polls ("push")       *)
(*      cached   the server answers from what its poller last published    *)
(*  - H: a handler: what it does to the list on the server, the state      *)
(*      variable it sets while it runs, and what follows its success       *)
(*      ("read" the list again, "await" that reading before the variable   *)
(*      is reset, or before the dialog closes ("hold"), read it "later"    *)
(*      after a timeout, "filter" the row out of the list the handler saw  *)
(*      when it was pressed, "drop" it from the current list and read      *)
(*      later, "none", "page" reload)                                      *)
(*  - Row, Page, Form, Card, Dialog: where its button is, what disables it:*)
(*      its handler's variable ("busy"), that variable naming this row     *)
(*      ("same"), or nothing ("free").  A Card or a Dialog is a component  *)
(*      of its own: it loses the variable when it is unmounted, a Dialog   *)
(*      also when it closes; it is "locked" if it cannot be closed while   *)
(*      its handler runs.  Two handlers may share a dialog.                *)
(*                                                                         *)
(* Handlers are named as in the source.  Of the forms' fields only what    *)
(* the list can tell apart is kept: an entry that is new, gone or changed. *)
(***************************************************************************)

Load(hides, error, subject, again) ==
    [hides |-> hides, error |-> error, subject |-> subject, again |-> again,
     cached |-> FALSE]

H(does, flag, then) == [does |-> does, flag |-> flag, then |-> then, task |-> FALSE]

\* The answer carries the UPID of a PVE task: the effect comes later.
Task(does, flag, then) == [does |-> does, flag |-> flag, then |-> then, task |-> TRUE]

Button(at, off) == [at |-> at, off |-> off, locked |-> FALSE, shared |-> FALSE]

Row(off)     == Button("row", off)
Page(off)    == Button("page", off)
Form(off)    == Button("form", off)
Card(off)    == Button("card", off)
Dialog(lock) == [Button("dialog", "busy") EXCEPT !.locked = lock]

-----------------------------------------------------------------------------
(* Settings *)

SessionsTab == [handleRevoke |-> H("del", "none", "filter")]
SessionsView == [load |-> Load("first", "banner", "one", "never"),
                 buttons |-> [handleRevoke |-> Row("free")]]

\* Mutant: the list is not read again after a deletion.
AlarmsTab_noReload == [handleCreate |-> H("add", "creating", "read"),
                       handleDelete |-> H("del", "none", "none"),
                       handleToggle |-> H("put", "none", "read")]

\* Mutant: nothing is set while the request runs.
AlarmsTab_noFlag == [handleCreate |-> H("add", "none", "read"),
                     handleDelete |-> H("del", "none", "read"),
                     handleToggle |-> H("put", "none", "read")]

AlarmsTab == [handleCreate |-> H("add", "creating", "read"),
              handleDelete |-> H("del", "none", "read"),
              handleToggle |-> H("put", "none", "read")]
AlarmsView == [load |-> Load("first", "banner", "one", "never"),
               buttons |-> [handleCreate |-> Form("busy"),
                            handleDelete |-> Row("free"),
                            handleToggle |-> Row("free")]]

NotificationsTab == [handleCreate |-> H("add", "creating", "read"),
                     handleDelete |-> H("del", "none", "read"),
                     handleTest   |-> H("nop", "testing", "none")]
NotificationsView == [load |-> Load("first", "banner", "one", "never"),
                      buttons |-> [handleCreate |-> Form("busy"),
                                   handleDelete |-> Row("free"),
                                   handleTest   |-> Row("same")]]

\* Roles and assignments are read by one reload; neither create is disabled
\* while it runs.
RBACTab == [createRole |-> H("add", "none", "read"),
            deleteRole |-> H("del", "none", "read"),
            assignRole |-> H("add", "none", "read"),
            deleteAssignment |-> H("del", "none", "read")]
RBACRoleButtons == [createRole |-> Form("free"), deleteRole |-> Row("free")]
RBACAssignmentButtons == [assignRole |-> Form("free"), deleteAssignment |-> Row("free")]
RBACLoad == Load("always", "banner", "one", "never")

SchedulerTab == [createTask |-> H("add", "none", "read"),
                 deleteTask |-> H("del", "none", "read"),
                 toggleTask |-> H("put", "none", "read")]
SchedulerForm == [createTask |-> Form("free")]
SchedulerList == [load |-> Load("always", "banner", "one", "never"),
                  buttons |-> [deleteTask |-> Row("free"), toggleTask |-> Row("free")]]

WebhooksPanel == [submit |-> H("add", "busy", "read"),
                  onDelete |-> H("del", "none", "read"),
                  onToggleEnabled |-> H("put", "none", "read"),
                  onTest |-> H("nop", "none", "later")]
WebhooksView == [load |-> Load("first", "banner", "one", "never"),
                 buttons |-> [onDelete |-> Row("free"), onToggleEnabled |-> Row("free"),
                              onTest |-> Row("free")]]
WebhookDialog == Dialog(FALSE)

\* The alarm and notification sections of the root object's Configure tab.
AlarmsConfig == AlarmsTab
AlarmsConfigView == AlarmsView
NotificationsConfig == NotificationsTab
NotificationsConfigView == NotificationsView

-----------------------------------------------------------------------------
(* A cluster: pools, ACME, DRS rules and recommendations *)

PoolsTab == [onSave |-> H("add", "loading", "read"),
             onDelete |-> H("del", "none", "read"),
             removeMember |-> H("put", "none", "read")]
PoolsView == [load |-> Load("first", "blocks", "kept", "never"),
              buttons |-> [onDelete |-> Row("free")]]
PoolRow == [removeMember |-> Row("free")]
AddPoolDialog == Dialog(TRUE)

ClusterACMETab == [saveAccount |-> H("add", "loading", "read"),
                   onDeleteAccount |-> H("del", "none", "read"),
                   savePlugin |-> H("put", "loading", "read"),
                   onDeletePlugin |-> H("del", "none", "read"),
                   onRenewAll |-> H("nop", "renewAll", "none")]
ClusterACMEView == [load |-> Load("first", "blocks", "kept", "never"),
                    buttons |-> [onDeleteAccount |-> Row("free"),
                                 onDeletePlugin |-> Row("free"),
                                 onRenewAll |-> Page("busy")]]
ACMEAccountDialog == Dialog(TRUE)
ACMEPluginDialog == Dialog(TRUE)

NodeCertificatesTab == [onRenew |-> Task("put", "renewing", "later"),
                        onDeleteCustom |-> H("del", "none", "later"),
                        upload |-> H("add", "loading", "later"),
                        saveDomains |-> H("put", "saving", "read")]
NodeCertificatesView == [load |-> Load("first", "blocks", "kept", "never"),
                         buttons |-> [onRenew |-> Page("busy"), onDeleteCustom |-> Page("free")]]
UploadCustomCertDialog == Dialog(TRUE)
NodeDomainsDialog == Dialog(TRUE)

DRSRulesPanel == [handleCreate |-> H("add", "creating", "read"),
                  handleDelete |-> H("del", "none", "read"),
                  handleToggle |-> H("put", "none", "read")]
DRSRulesView == [load |-> Load("first", "banner", "kept", "never"),
                 buttons |-> [handleCreate |-> Form("busy"),
                              handleDelete |-> Row("free"),
                              handleToggle |-> Row("free")]]

\* Both handlers share one variable holding the row they work on.
DRSPanel == [handleApply |-> H("del", "loading", "page"),
             handleDismiss |-> H("del", "loading", "page")]
DRSView == [load |-> Load("first", "banner", "one", "never"),
            buttons |-> [handleApply |-> Row("same"), handleDismiss |-> Row("same")]]

-----------------------------------------------------------------------------
(* Content library: the filters are what the list is of *)

ContentLibrary == [saveNew |-> H("add", "saving", "read"),
                   saveEdit |-> H("put", "saving", "read"),
                   handleDelete |-> H("del", "none", "read"),
                   handleDeploy |-> H("nop", "none", "none")]
LibraryView == [load |-> Load("first", "banner", "kept", "never"),
                buttons |-> [handleDelete |-> Row("free")]]
AddItemDialog == Dialog(FALSE)
EditItemDialog == Dialog(FALSE)
DeployDialog == Button("dialog", "free")

-----------------------------------------------------------------------------
(* Ceph: every tab acts on the topology the page has loaded *)

\* GetClusterCeph returns the topology pollCephLoop published last.
CephPage == [Load("first", "unmounts", "kept", "timer") EXCEPT !.cached = TRUE]

\* addOSD is answered when pveceph has ended, the other creations by a task.
OSDsTab == [setOut |-> H("put", "busy", "await"),
            scrub |-> H("nop", "busy", "await"),
            deleteOSD |-> Task("del", "busy", "await"),
            addOSD |-> H("add", "osdBusy", "read")]
OSDsView == [setOut |-> Row("busy"), scrub |-> Row("busy"), deleteOSD |-> Row("busy")]
AddOSDDialog == Dialog(TRUE)

CephPoolsTab == [deletePool |-> Task("del", "busy", "await"),
                 createPool |-> Task("add", "submitting", "read"),
                 editPool |-> H("put", "submitting", "read")]
CephPoolsView == [deletePool |-> Row("busy")]
PoolCreateDialog == Dialog(TRUE)
PoolEditDialog == Dialog(TRUE)

MonitorsTab == [remove |-> Task("del", "busy", "await"),
                addDaemon |-> Task("add", "submitting", "read")]
\* A row's own daemon disables it: {kind}-{id} is what the variable holds.
DaemonSection == [remove |-> Row("same")]
DaemonAddDialog == Dialog(TRUE)

CephFSTab == [deleteFS |-> Task("del", "busy", "await"),
              createFS |-> Task("add", "submitting", "read")]
CephFSView == [deleteFS |-> Row("busy")]
CephFSCreateDialog == Dialog(TRUE)

FlagsTab == [toggle |-> H("put", "busy", "await")]
FlagsView == [toggle |-> Row("busy")]

\* Read only, with a Reload button that is disabled while it loads.
CrushTab == Load("first", "banner", "kept", "button")

-----------------------------------------------------------------------------
(* A node's configuration, and a guest's snapshots *)

NodeConfigureTab == Load("always", "blocks", "cancelled", "never")

NodeDNSCard == H("put", "saving", "read")
NodeTimeCard == H("put", "saving", "read")
NodeHostsCard == H("put", "saving", "read")
NodeNetworkCard == [saveEdit |-> H("add", "saving", "read"),
                    deleteIface |-> H("del", "none", "read"),
                    applyChanges |-> H("nop", "applying", "read"),
                    revertChanges |-> H("put", "none", "read")]
NodeNetworkView == [saveEdit |-> Card("busy"), deleteIface |-> Row("free"),
                    applyChanges |-> Page("busy"), revertChanges |-> Row("free")]

SnapshotsTab == [handleDelete |-> Task("del", "actionLoading", "drop"),
                 handleCreate |-> Task("add", "loading", "later"),
                 handleRollback |-> Task("nop", "loading", "read")]
SnapshotsView == [load |-> Load("always", "banner", "kept", "never"),
                  buttons |-> [handleDelete |-> Row("same")]]
CreateSnapshotDialog == Dialog(TRUE)
RollbackSnapshotDialog == Dialog(TRUE)

-----------------------------------------------------------------------------
(* The inventory tree: datacenters, clusters and hosts of the hosts view *)

fetchDatacenterTree == Load("never", "banner", "one", "visit")

AddHost == H("add", "addingHost", "read")
DatacenterMenu == [createDatacenter |-> H("add", "saving", "read"),
                   editDatacenter |-> H("put", "saving", "read"),
                   addHost |-> AddHost,
                   deleteDatacenter |-> H("del", "none", "read")]
\* Closed by Escape or a click outside even while it saves.
DatacenterDialog == [Dialog(FALSE) EXCEPT !.shared = TRUE]
AddHostDialog == Dialog(TRUE)
DatacenterButtons == [createDatacenter |-> DatacenterDialog, editDatacenter |-> DatacenterDialog,
                      addHost |-> AddHostDialog, deleteDatacenter |-> Row("free")]

ClusterMenu == [moveCluster |-> H("put", "none", "read"),
                toggleCluster |-> H("put", "none", "read"),
                deleteCluster |-> H("del", "none", "read")]
ClusterButtons == [moveCluster |-> Row("free"), toggleCluster |-> Row("free"),
                   deleteCluster |-> Row("free")]

\* One agent is deployed at a time, whatever the host.
HostMenu == [deployAgent |-> H("nop", "deployingAgent", "read"),
             setupSSH |-> H("nop", "loading", "none"),
             moveHost |-> H("put", "none", "read"),
             deleteHost |-> H("del", "none", "read")]
SSHSetupDialog == Dialog(FALSE)
HostButtons == [deployAgent |-> Row("busy"), setupSSH |-> SSHSetupDialog,
                moveHost |-> Row("free"), deleteHost |-> Row("free")]

(* The folders of the VMs view, and a guest's tags *)

FolderProvider == Load("never", "banner", "one", "never")

\* The dialog stays open until the tree has been read, and nothing disables it.
FolderTree == [createFolder |-> H("add", "none", "hold"),
               renameFolder |-> H("put", "none", "hold"),
               deleteFolder |-> H("del", "none", "read"),
               moveFolder |-> H("put", "none", "read"),
               moveResource |-> H("put", "none", "read")]
FolderDialog == [Button("dialog", "free") EXCEPT !.shared = TRUE]
FolderButtons == [createFolder |-> FolderDialog, renameFolder |-> FolderDialog,
                  deleteFolder |-> Row("free"), moveFolder |-> Row("free"),
                  moveResource |-> Row("free")]

refreshTags == Load("never", "banner", "one", "never")
GuestSummary == [handleAssign |-> H("add", "none", "read"),
                 handleUnassign |-> H("del", "none", "read")]
TagPicker == [handleAssign |-> Row("free"), handleUnassign |-> Row("free")]

(* Guests, alarms and storages come over the socket: no handler reads them *)

clusterState == Load("never", "banner", "one", "push")

GuestMenu == [performAction |-> Task("put", "none", "none"),
              convertToTemplate |-> Task("put", "none", "none"),
              setHA |-> H("put", "none", "none"),
              deleteGuest |-> Task("del", "none", "none"),
              acknowledge |-> H("put", "none", "none")]
GuestButtons == [performAction |-> Row("free"), convertToTemplate |-> Row("free"),
                 setHA |-> Row("free"), deleteGuest |-> Row("free")]
AlarmBadge == [acknowledge |-> Row("free")]

GuestDialogs == [handleMigrate |-> Task("put", "loading", "none"),
                 moveStorage |-> Task("put", "loading", "none"),
                 createBackup |-> Task("nop", "loading", "none")]
MigrateDialog == Dialog(TRUE)
MoveStorageDialog == Dialog(TRUE)
BackupDialog == Dialog(TRUE)

CreateVM == Task("add", "loading", "none")
CreateContainer == Task("add", "loading", "none")
NodeDialogs == [createVM |-> CreateVM, createContainer |-> CreateContainer,
                handleUpload |-> H("nop", "uploading", "none")]
CreateVMDialog == Dialog(TRUE)
CreateContainerDialog == Dialog(TRUE)
\* Cancel is disabled during the upload, a click outside is not.
UploadDialog == Dialog(FALSE)

-----------------------------------------------------------------------------
(* Views that only read *)

\* Its interval belongs to the effect: a change of range cancels it too.
useMetrics == Load("first", "banner", "cancelled", "timer")
fetchNetworkData == Load("never", "banner", "kept", "never")

NetworkPage == Load("first", "blocks", "kept", "timer")
ClusterHA == Load("first", "blocks", "kept", "never")
StorageVMs == Load("always", "blocks", "kept", "never")
NetworkSummary == Load("always", "blocks", "kept", "never")
SmartPanel == Load("first", "blocks", "one", "never")
CertExpiryBanner == Load("first", "banner", "cancelled", "never")
DatacenterDetail == Load("first", "banner", "kept", "never")

-----------------------------------------------------------------------------
Panel(load, handlers, buttons) ==
    [load |-> load, handlers |-> handlers, buttons |-> buttons]

\* The buttons of a component and those of the components in it.
Together(f, g) ==
    [x \in DOMAIN f \cup DOMAIN g |-> IF x \in DOMAIN f THEN f[x] ELSE g[x]]

Reader(load) == Panel(load, <<>>, <<>>)

AllPanels ==
  {Panel(SessionsView.load, SessionsTab, SessionsView.buttons),
   Panel(AlarmsView.load, AlarmsTab, AlarmsView.buttons),
   Panel(AlarmsConfigView.load, AlarmsConfig, AlarmsConfigView.buttons),
   Panel(NotificationsView.load, NotificationsTab, NotificationsView.buttons),
   Panel(NotificationsConfigView.load, NotificationsConfig, NotificationsConfigView.buttons),
   Panel(RBACLoad, RBACTab, Together(RBACRoleButtons, RBACAssignmentButtons)),
   Panel(SchedulerList.load, SchedulerTab, Together(SchedulerForm, SchedulerList.buttons)),
   Panel(WebhooksView.load, WebhooksPanel,
         Together(WebhooksView.buttons, [submit |-> WebhookDialog])),
   Panel(PoolsView.load, PoolsTab,
         Together(PoolsView.buttons, Together(PoolRow, [onSave |-> AddPoolDialog]))),
   Panel(ClusterACMEView.load, ClusterACMETab,
         Together(ClusterACMEView.buttons,
                  [saveAccount |-> ACMEAccountDialog, savePlugin |-> ACMEPluginDialog])),
   Panel(NodeCertificatesView.load, NodeCertificatesTab,
         Together(NodeCertificatesView.buttons,
                  [upload |-> UploadCustomCertDialog, saveDomains |-> NodeDomainsDialog])),
   Panel(DRSRulesView.load, DRSRulesPanel, DRSRulesView.buttons),
   Panel(DRSView.load, DRSPanel, DRSView.buttons),
   Panel(LibraryView.load, ContentLibrary,
         Together(LibraryView.buttons,
                  [saveNew |-> AddItemDialog, saveEdit |-> EditItemDialog,
                   handleDeploy |-> DeployDialog])),
   Panel(CephPage, OSDsTab, Together(OSDsView, [addOSD |-> AddOSDDialog])),
   Panel(CephPage, CephPoolsTab,
         Together(CephPoolsView, [createPool |-> PoolCreateDialog, editPool |-> PoolEditDialog])),
   Panel(CephPage, MonitorsTab, Together(DaemonSection, [addDaemon |-> DaemonAddDialog])),
   Panel(CephPage, CephFSTab, Together(CephFSView, [createFS |-> CephFSCreateDialog])),
   Panel(CephPage, FlagsTab, FlagsView),
   Panel(NodeConfigureTab, [saveDNS |-> NodeDNSCard, saveTime |-> NodeTimeCard,
                            saveHosts |-> NodeHostsCard],
         [saveDNS |-> Card("busy"), saveTime |-> Card("busy"), saveHosts |-> Card("busy")]),
   Panel(NodeConfigureTab, NodeNetworkCard, NodeNetworkView),
   Panel(SnapshotsView.load, SnapshotsTab,
         Together(SnapshotsView.buttons,
                  [handleCreate |-> CreateSnapshotDialog,
                   handleRollback |-> RollbackSnapshotDialog])),
   Panel(fetchDatacenterTree, DatacenterMenu, DatacenterButtons),
   Panel(fetchDatacenterTree, ClusterMenu, ClusterButtons),
   Panel(fetchDatacenterTree, HostMenu, HostButtons),
   Panel(FolderProvider, FolderTree, FolderButtons),
   Panel(refreshTags, GuestSummary, TagPicker),
   Panel(clusterState, GuestMenu, Together(GuestButtons, AlarmBadge)),
   Panel(clusterState, GuestDialogs, [handleMigrate |-> MigrateDialog,
         moveStorage |-> MoveStorageDialog, createBackup |-> BackupDialog]),
   Panel(clusterState, NodeDialogs, [createVM |-> CreateVMDialog,
         createContainer |-> CreateContainerDialog, handleUpload |-> UploadDialog]),
   Reader(useMetrics), Reader(fetchNetworkData), Reader(CrushTab), Reader(NetworkPage),
   Reader(ClusterHA), Reader(StorageVMs), Reader(NetworkSummary), Reader(SmartPanel),
   Reader(CertExpiryBanner), Reader(DatacenterDetail)}

=============================================================================
