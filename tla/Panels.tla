------------------------------- MODULE Panels -------------------------------
(***************************************************************************)
(* A mounted list panel, the calls it has in flight and the lists on the   *)
(* server.  Calls are answered in any order; a call may fail, or fail in   *)
(* the browser (the 30 s timeout of fetchAPI) and still be carried out.    *)
(* The panels are described in PanelTable.tla; api.* of client.ts is a     *)
(* call, React's batching makes the code between two awaits one step.      *)
(*                                                                         *)
(* Two things are not state of the program.  ui.calm becomes FALSE when a  *)
(* call fails and when one of the races the code leaves open happens.      *)
(* behind says that the list GETs return has changed since it was last     *)
(* read, and that nothing under way reads it again.                        *)
(***************************************************************************)
EXTENDS Naturals, FiniteSets, PanelTable

CONSTANTS
    Rows,        \* the entries a list can have
    Subjects,    \* what a list can be of: clusters, nodes, guests, filters
    MaxCalls,    \* bound on the calls in flight
    MaxSteps     \* bound on what starts from outside: operations the user
                 \* starts, changes of subject, unprompted reloads, failures

ASSUME PanelsAssumption ==
    /\ MaxCalls \in Nat \ {0} /\ MaxSteps \in Nat
    /\ "none" \notin Rows

VARIABLES
    panel,       \* the panel that is mounted
    ui,          \* its React state
    srv,         \* what a GET returns: per subject and row, 0 (no such row), 1 or 2
    pve,         \* what the cluster has, of a list that is served from a cache
    behind,      \* srv[ui.subject] is not what was last read of it
    net,         \* calls in flight, and effects the server still has to apply
    used         \* how much of MaxSteps has been spent

vars == <<panel, ui, srv, pve, behind, net, used>>

Absent == 0
None == "none"
Ops == DOMAIN panel.handlers
Handler(o) == panel.handlers[o]
ButtonOf(o) == panel.buttons[o]
Flags == {Handler(o).flag : o \in Ops}
InChild(o) == ButtonOf(o).at \in {"card", "dialog"}
ChildFlags == {Handler(o).flag : o \in {p \in Ops : InChild(p)}}

\* The component whose state holds a handler's variable: a card or a dialog, or
\* the one that has the list.
Holder(o) == IF InChild(o) THEN "child" ELSE "content"

Loads == {c \in net : c.kind = "load"}
Writes == {c \in net : c.kind = "op"}

\* What a handler is awaiting: its own call, or the reading that follows it.
Running == {c \in net : c.kind \in {"op", "load"} /\ c.op # None}

\* An effect's answer will be used: the load is not one a later effect cancelled.
Awaited(c) == ~c.guarded \/ c.inst = ui.epoch

Fresh == CHOOSE i \in 1..(2 * MaxCalls) : \A c \in net : c.id # i

\* inst is the epoch of a guarded load, else the mounting of its handler.
LoadCall(s, guarded, inst, handler) ==
    [id |-> Fresh, kind |-> "load", st |-> "sent", subject |-> s, inst |-> inst,
     guarded |-> guarded, op |-> handler, row |-> None, val |-> Absent, seen |-> <<>>]

-----------------------------------------------------------------------------
(* The state after parts of the panel are unmounted *)

\* The next mounting of a component: one no handler that runs belongs to.
Remount(u, part) ==
    [u.inst EXCEPT ![part] =
        IF \E c \in Running : Holder(c.op) = part /\ c.inst = @ THEN @ + 1 ELSE @]

\* The panel shows something else: its dialogs and cards lose their state.
HideContent(u) ==
    [u EXCEPT !.inst = Remount(u, "child"),
              !.busy = [f \in DOMAIN @ |-> IF f \in ChildFlags THEN None ELSE @[f]]]

\* The component with the buttons is unmounted, and what is in it.
UnmountContent(u) ==
    LET v == HideContent(u)
    IN  [v EXCEPT !.inst = Remount(v, "content"), !.form = None,
                  !.busy = [f \in DOMAIN @ |-> None]]

\* The head of every load function, up to its first await.
BeginLoad(u) ==
    LET v == [u EXCEPT !.calm = @ /\ ~\E c \in Loads : Awaited(c)]
    IN  IF panel.load.hides = "always" THEN HideContent([v EXCEPT !.loading = TRUE, !.error = FALSE])
        ELSE v

Mounted(s) ==
    [subject |-> s, shown |-> [r \in Rows |-> Absent], of |-> None,
     loading |-> panel.load.hides # "never",
     error |-> FALSE, form |-> None, busy |-> [f \in Flags |-> None],
     inst |-> [part \in {"child", "content"} |-> 0],
     epoch |-> 0, timers |-> [x \in Subjects |-> 0], calm |-> TRUE]

FirstLoad(s) ==
    [id |-> 1, kind |-> "load", st |-> "sent", subject |-> s, inst |-> 0,
     guarded |-> panel.load.subject = "cancelled",
     op |-> None, row |-> None, val |-> Absent, seen |-> <<>>]

Init ==
    /\ panel \in AllPanels
    /\ \E s \in Subjects : ui = Mounted(s) /\ net = {FirstLoad(s)}
    /\ srv \in [Subjects -> [Rows -> {0, 1}]]
    /\ pve = srv /\ behind = FALSE
    /\ used = 0

-----------------------------------------------------------------------------
(* The server *)

\* What a handler of the server does to the lists.
Effect(lists, c) ==
    LET old == lists[c.subject][c.row]
        does == Handler(c.op).does
        new == CASE does = "add" -> IF old = Absent THEN 1 ELSE old
                 [] does = "del" -> Absent
                 [] does = "put" -> IF old = Absent THEN Absent ELSE c.val
                 [] does = "nop" -> old
    IN  [lists EXCEPT ![c.subject][c.row] = new]

\* A change is made in the cluster; a GET shows it, or the next publication does.
Change(c) ==
    IF panel.load.cached THEN pve' = Effect(pve, c) /\ UNCHANGED srv
    ELSE srv' = Effect(srv, c) /\ UNCHANGED pve

\* A load that has still to be served will read it, or a timer's will.
WillRead(s) ==
    \/ \E d \in Loads : d.st = "sent" /\ d.subject = s /\ Awaited(d)
    \/ ui.timers[s] > 0

\* The list changes, but not by a call whose handler reads it afterwards.
Outdate(s) ==
    behind' = (behind \/ (s = ui.subject /\ srv'[s] # srv[s] /\ ~WillRead(s)))

Answer(c, st) == (net \ {c}) \cup {[c EXCEPT !.st = st]}

ServeLoad(c) ==
    /\ c.kind = "load" /\ c.st = "sent"
    /\ net' = (net \ {c}) \cup {[c EXCEPT !.st = "ok", !.seen = srv[c.subject]]}
    /\ behind' = (behind /\ ~(Awaited(c) /\ c.subject = ui.subject))
    /\ UNCHANGED <<panel, ui, srv, pve, used>>

\* A handler of the server is done; a PVE task goes on.
ServeWrite(c) ==
    /\ c.kind = "op" /\ c.st = "sent"
    /\ IF Handler(c.op).task
       THEN /\ net' = Answer(c, "ok") \cup {[c EXCEPT !.kind = "effect"]}
            /\ UNCHANGED <<srv, pve>>
       ELSE /\ net' = Answer(c, "ok")
            /\ Change(c)
    /\ UNCHANGED <<panel, ui, behind, used>>

Fail(c) ==
    /\ c.st = "sent" /\ c.kind # "effect" /\ used < MaxSteps
    /\ used' = used + 1
    /\ \/ net' = Answer(c, "err")
       \/ \* the browser gives up first, the server carries it out later
          /\ c.kind = "op"
          /\ net' = Answer(c, "err") \cup {[c EXCEPT !.kind = "effect"]}
    /\ UNCHANGED <<panel, ui, srv, pve, behind>>

\* A task ends, or a call the browser gave up on is carried out.
Land(c) ==
    /\ c.kind = "effect"
    /\ Change(c)
    /\ net' = net \ {c}
    /\ Outdate(c.subject)
    /\ UNCHANGED <<panel, ui, used>>

\* fetchCephTopology publishes what it has read; a part it could not read is empty.
\* When no node answers there is nothing to serve, and loads end as in Fail.
Publish(s) ==
    /\ panel.load.cached
    /\ \/ /\ srv' = [srv EXCEPT ![s] = pve[s]]
          /\ UNCHANGED used
       \/ /\ used < MaxSteps /\ used' = used + 1
          /\ srv' = [srv EXCEPT ![s] = [r \in Rows |-> Absent]]
    /\ Outdate(s)
    /\ UNCHANGED <<panel, ui, pve, net>>

-----------------------------------------------------------------------------
(* The browser *)

Visible == ~ui.loading /\ ~(ui.error /\ panel.load.error # "banner")

\* What is open is the handler's own form, or the dialog it shares with another.
OwnForm(u, o) ==
    \/ u.form = o
    \/ u.form \in Ops /\ ButtonOf(u.form).shared /\ ButtonOf(o).shared

CloseOwnForm(u, c) ==
    IF ~OwnForm(u, c.op) \/ (ButtonOf(c.op).at = "card" /\ c.inst # u.inst["child"]) THEN u
    ELSE IF ButtonOf(c.op).at = "dialog" THEN HideContent([u EXCEPT !.form = None])
    ELSE [u EXCEPT !.form = None]

\* The handler's variable is reset: its own, if its component still stands.
Release(u, c) ==
    LET f == Handler(c.op).flag
    IN  IF f = None \/ c.inst # u.inst[Holder(c.op)] THEN u
        ELSE [u EXCEPT !.busy[f] = None]

\* Mutant: the loading text goes only with a list.
FinishLoad_onSuccess(u, c) ==
    LET v == [u EXCEPT !.loading = (c.st # "ok")]
    IN  IF c.op = None THEN v ELSE Release(v, c)

\* The finally of a load function, and of the handler that has awaited it.
FinishLoad(u, c) ==
    LET v == [u EXCEPT !.loading = FALSE]
    IN  IF c.op = None THEN v
        ELSE IF Handler(c.op).then = "hold" THEN CloseOwnForm(v, c)
        ELSE Release(v, c)

\* A load function after its await.
LoadDone(c) ==
    LET done == FinishLoad(ui, c)
    IN  /\ c.kind = "load" /\ c.st \in {"ok", "err"}
        /\ net' = net \ {c}
        /\ ui' = CASE ~Awaited(c) -> ui
                   [] Awaited(c) /\ c.st = "ok" ->
                        [done EXCEPT !.shown = c.seen, !.of = c.subject, !.error = FALSE,
                                     !.calm = @ /\ c.subject = ui.subject]
                   [] Awaited(c) /\ c.st = "err" ->
                        LET bad == [done EXCEPT !.error = TRUE, !.calm = FALSE]
                        IN  CASE panel.load.error = "unmounts" -> UnmountContent(bad)
                              [] panel.load.error = "blocks" -> HideContent(bad)
                              [] panel.load.error = "banner" -> bad
        /\ UNCHANGED <<panel, srv, pve, behind, used>>

OpenForm(o) ==
    /\ Visible /\ ui.form = None
    /\ ButtonOf(o).at \in {"form", "card", "dialog"}
    /\ used < MaxSteps
    /\ ui' = [ui EXCEPT !.form = o]
    /\ UNCHANGED <<panel, srv, pve, behind, net, used>>

CloseForm ==
    /\ Visible /\ ui.form # None
    /\ ButtonOf(ui.form).locked => ui.busy[Handler(ui.form).flag] = None
    /\ LET v == [ui EXCEPT !.form = None]
       IN  ui' = IF ButtonOf(ui.form).at = "dialog" THEN HideContent(v) ELSE v
    /\ UNCHANGED <<panel, srv, pve, behind, net, used>>

Enabled(o, r) ==
    /\ ButtonOf(o).at \in {"row", "page"} \/ ui.form = o
    /\ CASE Handler(o).does = "add" -> ui.shown[r] = Absent
         [] Handler(o).does # "add" -> ui.shown[r] # Absent \/ ButtonOf(o).at = "page"
    /\ CASE ButtonOf(o).off = "busy" -> ui.busy[Handler(o).flag] = None
         [] ButtonOf(o).off = "same" -> ui.busy[Handler(o).flag] # r
         [] ButtonOf(o).off = "free" -> TRUE

\* A handler up to its await.
Press(o, r) ==
    LET h == Handler(o)
    IN  /\ Visible /\ Enabled(o, r)
        /\ used < MaxSteps /\ Cardinality(net) < MaxCalls
        /\ used' = used + 1
        /\ net' = net \cup
             {[id |-> Fresh, kind |-> "op", st |-> "sent", subject |-> ui.subject,
               inst |-> ui.inst[Holder(o)], guarded |-> FALSE, op |-> o, row |-> r,
               val |-> IF h.does = "put" /\ ui.shown[r] = 1 THEN 2 ELSE 1, seen |-> ui.shown]}
        /\ ui' = [ui EXCEPT !.busy = [f \in DOMAIN @ |-> IF f = h.flag /\ f # None
                                                         THEN r ELSE @[f]],
                            !.calm = @ /\ (h.then = "filter" => Writes = {})]
        /\ UNCHANGED <<panel, srv, pve, behind>>

\* A handler after its await; load and the timers are those of the render in
\* which it was pressed, and so of that render's subject.
WriteDone(c) ==
    LET then == Handler(c.op).then
        u == IF then = "hold" THEN ui ELSE CloseOwnForm(ui, c)
        rest == net \ {c}
    IN  /\ c.kind = "op" /\ c.st = "ok" /\ then # "page"
        /\ ui' = CASE then = "read"   -> BeginLoad(Release(u, c))
                   [] then \in {"await", "hold"} -> BeginLoad(u)
                   [] then = "later"  -> [Release(u, c) EXCEPT !.timers[c.subject] = @ + 1]
                   [] then = "drop"   -> [Release(u, c) EXCEPT !.shown[c.row] = Absent,
                                                              !.timers[c.subject] = @ + 1]
                   [] then = "filter" -> [Release(u, c) EXCEPT !.shown = [c.seen EXCEPT ![c.row] = Absent]]
                   [] then = "none"   -> Release(u, c)
        /\ net' = CASE then = "read" -> rest \cup {LoadCall(c.subject, FALSE, 0, None)}
                    [] then \in {"await", "hold"} ->
                         rest \cup {LoadCall(c.subject, FALSE, c.inst, c.op)}
                    [] OTHER -> rest
        /\ UNCHANGED <<panel, srv, pve, behind, used>>

\* onRefresh is window.location.reload(): nothing of the page survives.
ReloadPage(c) ==
    /\ c.kind = "op" /\ c.st = "ok" /\ Handler(c.op).then = "page"
    /\ ui' = [Mounted(ui.subject) EXCEPT !.calm = ui.calm]
    /\ net' = {FirstLoad(ui.subject)} \cup
              {[d EXCEPT !.kind = "effect"] : d \in {e \in Writes : e.st = "sent"}}
              \cup {d \in net : d.kind = "effect"}
    /\ UNCHANGED <<panel, srv, pve, behind, used>>

WriteFailed(c) ==
    /\ c.kind = "op" /\ c.st = "err"
    /\ ui' = [Release(ui, c) EXCEPT !.calm = FALSE]
    /\ net' = net \ {c}
    /\ UNCHANGED <<panel, srv, pve, behind, used>>

TimerFires(s) ==
    /\ ui.timers[s] > 0 /\ Cardinality(net) < MaxCalls
    /\ ui' = [BeginLoad(ui) EXCEPT !.timers[s] = @ - 1]
    /\ net' = net \cup {LoadCall(s, FALSE, 0, None)}
    /\ UNCHANGED <<panel, srv, pve, behind, used>>

ReadAgain ==
    /\ panel.load.again \notin {"never", "push"} /\ used < MaxSteps /\ Cardinality(net) < MaxCalls
    /\ panel.load.again = "button" => Loads = {}
    /\ used' = used + 1
    /\ ui' = BeginLoad(ui)
    /\ net' = net \cup
         {LoadCall(ui.subject, panel.load.subject = "cancelled", ui.epoch, None)}
    /\ UNCHANGED <<panel, srv, pve, behind>>

\* The server polls and broadcasts (LiveState.tla has the socket in detail).
Push ==
    /\ panel.load.again = "push" /\ ui.shown # srv[ui.subject]
    /\ ui' = [ui EXCEPT !.shown = srv[ui.subject], !.of = ui.subject]
    /\ UNCHANGED <<panel, srv, pve, behind, net, used>>

\* The selection, the URL or a filter changes: the effect runs again.
ChangeSubject(s) ==
    LET u == [ui EXCEPT !.subject = s, !.epoch = @ + 1]
        stale == \E c \in Loads : ~c.guarded
    IN  /\ panel.load.subject # "one" /\ s # ui.subject
        /\ used < MaxSteps /\ Cardinality(net) < MaxCalls
        /\ used' = used + 1
        /\ ui' = [BeginLoad(u) EXCEPT !.calm = ui.calm /\ ~stale]
        /\ net' = net \cup
             {LoadCall(s, panel.load.subject = "cancelled", ui.epoch + 1, None)}
        /\ UNCHANGED <<panel, srv, pve, behind>>

-----------------------------------------------------------------------------
\* What the network, the server and the event loop will get round to.
Progress ==
    \/ \E c \in net : \/ ServeLoad(c) \/ ServeWrite(c) \/ Land(c)
                      \/ LoadDone(c) \/ WriteDone(c) \/ ReloadPage(c) \/ WriteFailed(c)
    \/ \E s \in Subjects : TimerFires(s) \/ Publish(s)

Next ==
    \/ Progress
    \/ \E c \in net : Fail(c)
    \/ \E o \in Ops : OpenForm(o) \/ \E r \in Rows : Press(o, r)
    \/ CloseForm
    \/ ReadAgain
    \/ Push
    \/ \E s \in Subjects : ChangeSubject(s)

Spec == Init /\ [][Next]_vars

-----------------------------------------------------------------------------
(* Properties *)

\* At rest, a panel shows the list a GET of the subject it is about returns:
\* every handler that changes the list reads it again (or changes it the same
\* way), and nothing else makes the two differ but a failed call, a race the
\* code leaves open (two loads at once, a load of an old subject, two filters
\* of one list), or a change behind the panel's back that nothing has read yet:
\* a PVE task that ends, or the Ceph topology that is published, after the list
\* was read again.  A reading that follows puts that right.  Lists that are
\* pushed are left to LiveState.
PanelSettles ==
    (/\ net = {} /\ (\A s \in Subjects : ui.timers[s] = 0) /\ ui.calm /\ ~behind
     /\ panel.load.again # "push")
        => (ui.of = ui.subject /\ ui.shown = srv[ui.subject])

\* A button disabled by its handler's variable starts no second call while the
\* first runs, for as long as the component that holds the variable stands.
GuardedOnce ==
    \A c, d \in Running :
        (c.op = d.op /\ c.inst = d.inst /\ ButtonOf(c.op).off = "busy") => c = d

\* The loading text never stays: while it is shown a load is under way whose
\* answer will be used, and every load function resets it on success and failure.
LoadingBacked == ui.loading => \E c \in Loads : Awaited(c)
=============================================================================
