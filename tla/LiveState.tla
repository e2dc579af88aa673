----------------------------- MODULE LiveState ------------------------------
(***************************************************************************)
(* What lives as long as the application is shown: ClusterProvider with    *)
(* its websocket to the browser hub, the state it displays, the clones it  *)
(* follows, and the console of a guest.  Signing out unmounts all of it,   *)
(* at any moment; what was asked of the network before is answered after.  *)
(* States of the cluster are numbered as the pollers produce them.         *)
(*                                                                         *)
(* hub is the client of the provider's present socket.  When the browser   *)
(* closes a socket the hub keeps that client until its readPump ends; by   *)
(* then the browser hears nothing of it (isMounted), and Run never waits   *)
(* for a client, so it is left out from the moment its socket is closed.   *)
(***************************************************************************)
EXTENDS Session, Sequences

CONSTANTS
    Publishers,  \* goroutines that call BroadcastState (pollers, alarms, agents)
    Vmids,       \* guests, as the console's URLs and effects tell them apart:
                 \* by type and vmid, whatever their cluster
    Clones,      \* the clone operations of a behaviour
    SendCap      \* capacity of the send channel of a client

ASSUME LiveAssumption == SendCap \in Nat \ {0}

VARIABLES
    prov,        \* the provider: mount number, socket, reconnect timer, its state
    hub,         \* the hub's client of this socket: registered, its send channel
    world,       \* the state of the store
    pub,         \* per publisher, the message it has built and not yet sent
    reads,       \* the fallback fetches in flight
    active,      \* activeCloneVMIDs
    clone,       \* per clone: the PVE task, the task shown, its interval
    polls,       \* poll answers on their way
    view         \* the console: its effect's runs and their connections

liveVars == <<prov, hub, world, pub, reads, active, clone, polls, view>>

NoClient == [on |-> FALSE, q |-> <<>>, shut |-> FALSE]
NoView == [on |-> FALSE, run |-> 0, vmid |-> None, pending |-> {}, conns |-> {}]
Unmounted(n) ==
    [mount |-> n, sock |-> "none", retry |-> FALSE, conn |-> FALSE,
     loading |-> TRUE, ver |-> None]
NoClone == [vmid |-> None, mount |-> 0, pve |-> "none", st |-> "none",
            interval |-> FALSE]

LiveInit ==
    /\ prov = Unmounted(0) /\ hub = NoClient /\ world = 1
    /\ pub = [p \in Publishers |-> None] /\ reads = {}
    /\ active = {} /\ clone = [k \in Clones |-> NoClone] /\ polls = {}
    /\ view = NoView

-----------------------------------------------------------------------------
(* Mounting and unmounting *)

\* useWebSocket's effect connects, the fallback effect fetches.
Mount ==
    /\ prov' = [Unmounted(prov.mount + 1) EXCEPT !.sock = "opening"]
    /\ reads' = {[st |-> "sent", ver |-> None]}
    /\ UNCHANGED <<hub, world, pub, active, clone, polls, view>>

\* The effect of Console, ConsolePage and ConsoleTab is cleaned up: its run
\* is no longer "mounted", and rfbRef's connection is closed.
CleanUpView(v) == [v EXCEPT !.on = FALSE, !.conns = @ \ {v.run}]

\* The cleanups of useWebSocket and of the provider.
Unmount ==
    /\ prov' = Unmounted(prov.mount)
    /\ hub' = NoClient
    /\ reads' = {}
    /\ active' = {}
    /\ clone' = [k \in Clones |->
                   IF clone[k].mount = prov.mount
                   THEN [clone[k] EXCEPT !.interval = FALSE]
                   ELSE clone[k]]
    /\ view' = CleanUpView(view)
    /\ UNCHANGED <<world, pub, polls>>

\* A step of Session may show or hide the application.
Follow ==
    IF Shown(auth)' = Shown(auth) THEN UNCHANGED liveVars
    ELSE IF Shown(auth)' THEN Mount ELSE Unmount

-----------------------------------------------------------------------------
(* The hub *)

WorldChanges ==
    /\ used < MaxSteps
    /\ used' = used + 1
    /\ world' = world + 1
    /\ UNCHANGED <<prov, hub, pub, reads, active, clone, polls, view>>

\* BroadcastState: the message is built first, and goes to the hub later.
BuildState(p) ==
    /\ pub[p] = None
    /\ pub' = [pub EXCEPT ![p] = world]
    /\ UNCHANGED <<prov, hub, world, reads, active, clone, polls, view>>

\* The broadcast case of Run: a client that does not keep up is dropped.
Broadcast(p) ==
    /\ pub[p] # None
    /\ pub' = [pub EXCEPT ![p] = None]
    /\ hub' = IF ~hub.on \/ hub.shut THEN hub
              ELSE IF Len(hub.q) < SendCap THEN [hub EXCEPT !.q = Append(@, pub[p])]
              ELSE [hub EXCEPT !.shut = TRUE]
    /\ UNCHANGED <<prov, world, reads, active, clone, polls, view>>

-----------------------------------------------------------------------------
(* The socket and the state the provider shows *)

\* AuthenticatedWebSocket admits a full session; the hub's register case
\* sends the state as it is.
SocketOpens ==
    /\ prov.sock = "opening" /\ Admitted(cookie)
    /\ prov' = [prov EXCEPT !.sock = "open", !.conn = TRUE]
    /\ hub' = [on |-> TRUE, q |-> <<world>>, shut |-> FALSE]
    /\ UNCHANGED <<world, pub, reads, active, clone, polls, view>>

\* Mutant: no reconnect timer.
Closed_final == [prov EXCEPT !.sock = "none", !.conn = FALSE]

Closed == [prov EXCEPT !.sock = "none", !.conn = FALSE, !.retry = TRUE]

\* onclose; the fallback effect runs again if isConnected has changed.
OnClose ==
    /\ prov' = Closed
    /\ reads' = IF prov.conn /\ prov.loading
                THEN reads \cup {[st |-> "sent", ver |-> None]} ELSE reads
    /\ hub' = NoClient
    /\ UNCHANGED <<world, pub, active, clone, polls, view>>

SocketRefused ==
    /\ prov.sock = "opening" /\ ~Admitted(cookie)
    /\ OnClose

SocketDrops ==
    /\ prov.sock # "none" /\ used < MaxSteps
    /\ used' = used + 1
    /\ OnClose

\* writePump has drained the channel the hub closed.
HubCloses ==
    /\ hub.on /\ hub.shut /\ hub.q = <<>>
    /\ OnClose

Reconnect ==
    /\ prov.retry
    /\ prov' = [prov EXCEPT !.retry = FALSE, !.sock = "opening"]
    /\ UNCHANGED <<hub, world, pub, reads, active, clone, polls, view>>

handleMessage ==
    /\ hub.on /\ hub.q # <<>>
    /\ prov' = [prov EXCEPT !.ver = Head(hub.q), !.loading = FALSE]
    /\ hub' = [hub EXCEPT !.q = Tail(@)]
    /\ UNCHANGED <<world, pub, reads, active, clone, polls, view>>

FetchServed(r) ==
    /\ r.st = "sent"
    /\ reads' = (reads \ {r}) \cup {[st |-> "ok", ver |-> world]}
    /\ UNCHANGED <<prov, hub, world, pub, active, clone, polls, view>>

\* fetchData after its await, failed or not: it applies its answer even if
\* the socket has brought a later state.
FetchData(r) ==
    /\ r.st = "ok"
    /\ \/ prov' = [prov EXCEPT !.loading = FALSE, !.ver = r.ver]
       \/ prov' = [prov EXCEPT !.loading = FALSE]
    /\ reads' = reads \ {r}
    /\ UNCHANGED <<hub, world, pub, active, clone, polls, view>>

-----------------------------------------------------------------------------
(* Clones *)

startClone(k, v) ==
    /\ Shown(auth) /\ clone[k] = NoClone /\ v \notin active /\ used < MaxSteps
    /\ used' = used + 1
    /\ active' = active \cup {v}
    /\ clone' = [clone EXCEPT ![k] =
         [NoClone EXCEPT !.vmid = v, !.mount = prov.mount, !.pve = "asked", !.st = "running"]]
    /\ UNCHANGED <<prov, hub, world, pub, reads, polls, view>>

\* The refs and the task list of the provider that started clone k still stand.
Own(k) == clone[k].mount = prov.mount /\ Shown(auth)
Freed(k) == IF Own(k) THEN active \ {clone[k].vmid} ELSE active

\* clonePromise resolves: the interval starts, also after an unmount.
CloneAccepted(k) ==
    /\ clone[k].pve = "asked"
    /\ clone' = [clone EXCEPT ![k].pve = "run", ![k].interval = TRUE]
    /\ UNCHANGED <<prov, hub, world, pub, reads, active, polls, view>>

CloneRefused(k) ==
    /\ clone[k].pve = "asked"
    /\ active' = Freed(k)
    /\ clone' = [clone EXCEPT ![k].pve = "bad", ![k].st = "failed"]
    /\ UNCHANGED <<prov, hub, world, pub, reads, polls, view>>

TaskEnds(k) ==
    /\ clone[k].pve = "run"
    /\ \E end \in {"ok", "bad"} : clone' = [clone EXCEPT ![k].pve = end]
    /\ UNCHANGED <<prov, hub, world, pub, reads, active, polls, view>>

\* A tick of the interval; ticks overlap, the callback being async.  One that
\* finds the task running changes nothing.
PollTick(k) ==
    /\ clone[k].interval /\ clone[k].pve # "run"
    /\ \E i \in 1..2 :
         /\ \A p \in polls : p.id # i
         /\ polls' = polls \cup {[id |-> i, k |-> k, seen |-> clone[k].pve]}
    /\ UNCHANGED <<prov, hub, world, pub, reads, active, clone, view>>

Outcome(p) == IF p.seen = "ok" THEN "completed" ELSE "failed"

PollDone(p) ==
    /\ polls' = polls \ {p}
    /\ active' = Freed(p.k)
    /\ clone' = [clone EXCEPT ![p.k].interval = FALSE,
                             ![p.k].st = Outcome(p)]
    /\ UNCHANGED <<prov, hub, world, pub, reads, view>>

\* Mutant: the timeout is one of the provider's and goes with it.
SafetyTimeout_mounted(k) ==
    /\ clone[k].interval /\ Own(k)
    /\ clone' = [clone EXCEPT ![k].interval = FALSE]
    /\ UNCHANGED <<prov, hub, world, pub, reads, active, polls, view>>

\* The safety timeout stops the polling, and nothing else.
SafetyTimeout(k) ==
    /\ clone[k].interval
    /\ clone' = [clone EXCEPT ![k].interval = FALSE]
    /\ UNCHANGED <<prov, hub, world, pub, reads, active, polls, view>>

-----------------------------------------------------------------------------
(* The console *)

\* The effect runs: the first time, or again because type or vmid has changed.
\* A guest of another cluster with the same vmid is the same console to it.
ConnectView(v, on) ==
    LET w == CleanUpView(view)
    IN  /\ Shown(auth) /\ view.on = on /\ v # view.vmid /\ used < MaxSteps
        /\ used' = used + 1
        /\ view' = [w EXCEPT !.on = TRUE, !.run = @ + 1, !.vmid = v,
                             !.pending = @ \cup {[run |-> w.run + 1, at |-> "ticket"]}]
        /\ UNCHANGED <<prov, hub, world, pub, reads, active, clone, polls>>

openConsole(v) == ConnectView(v, FALSE)
ChangeGuest(v) == ConnectView(v, TRUE)

closeConsole ==
    /\ view.on
    /\ view' = [CleanUpView(view) EXCEPT !.vmid = None]
    /\ UNCHANGED <<prov, hub, world, pub, reads, active, clone, polls>>

\* Mutant: one flag for all runs of the effect.
Mounted_shared(p) == view.on

Mounted(p) == view.on /\ p.run = view.run

\* connect after the ticket: it goes on only if still mounted, to load noVNC.
TicketDone(p) ==
    /\ p \in view.pending /\ p.at = "ticket"
    /\ \/ view' = [view EXCEPT !.pending =
                     (@ \ {p}) \cup IF Mounted(p) THEN {[p EXCEPT !.at = "module"]} ELSE {}]
       \/ view' = [view EXCEPT !.pending = @ \ {p}]     \* no ticket: status "error"
    /\ UNCHANGED <<prov, hub, world, pub, reads, active, clone, polls>>

\* connect after the import: new RFB, if still mounted.
ModuleDone(p) ==
    /\ p \in view.pending /\ p.at = "module"
    /\ view' = [view EXCEPT !.pending = @ \ {p},
                            !.conns = IF Mounted(p) THEN @ \cup {p.run} ELSE @]
    /\ UNCHANGED <<prov, hub, world, pub, reads, active, clone, polls>>

\* The guest stops or the proxy goes away: nobody reconnects.
Disconnected(n) ==
    /\ n \in view.conns
    /\ view' = [view EXCEPT !.conns = @ \ {n}]
    /\ UNCHANGED <<prov, hub, world, pub, reads, active, clone, polls>>

-----------------------------------------------------------------------------
Socket == SocketOpens \/ SocketRefused \/ HubCloses \/ Reconnect
Fetch == \E r \in reads : FetchServed(r) \/ FetchData(r)
CloneRuns(k) == CloneAccepted(k) \/ CloneRefused(k) \/ TaskEnds(k) \/ PollTick(k)
PollDones == \E p \in polls : PollDone(p)
ViewRuns == \E p \in view.pending : TicketDone(p) \/ ModuleDone(p)

LiveUser ==
    \/ WorldChanges \/ SocketDrops
    \/ \E k \in Clones, v \in Vmids : startClone(k, v)
    \/ \E v \in Vmids : openConsole(v) \/ ChangeGuest(v)

LiveAlone ==
    \/ closeConsole
    \/ \E p \in Publishers : BuildState(p) \/ Broadcast(p)
    \/ Socket \/ handleMessage \/ Fetch
    \/ \E k \in Clones : CloneRuns(k) \/ SafetyTimeout(k)
    \/ PollDones \/ ViewRuns
    \/ \E n \in view.conns : Disconnected(n)

exceptUsed == <<auth, path, token, cookie, redirecting, calls, sessions, site, calm>>
vars == <<sessionVars, liveVars>>

Init == SessionInit /\ LiveInit

Next ==
    \/ SessionNext /\ Follow
    \/ LiveUser /\ UNCHANGED exceptUsed
    \/ LiveAlone /\ UNCHANGED sessionVars

\* The network answers, timers fire, the publishers publish on every poll.
Fairness ==
    /\ WF_vars(SessionProgress /\ Follow)
    /\ WF_vars(Socket /\ UNCHANGED sessionVars)
    /\ WF_vars(handleMessage /\ UNCHANGED sessionVars)
    /\ WF_vars(Fetch /\ UNCHANGED sessionVars)
    /\ \A p \in Publishers : WF_vars((BuildState(p) \/ Broadcast(p)) /\ UNCHANGED sessionVars)
    /\ WF_vars(PollDones /\ UNCHANGED sessionVars)
    /\ \A k \in Clones : WF_vars(SafetyTimeout(k) /\ UNCHANGED sessionVars)

Spec == Init /\ [][Next]_vars /\ Fairness

-----------------------------------------------------------------------------
\* Nothing outlives the application it belongs to: signed out, there is no
\* socket, no reconnect timer and no console connection, whatever was under
\* way; signed in, a console connection is that of the type and vmid on display.
NothingOutlives ==
    /\ ~Shown(auth) => (prov.sock = "none" /\ ~prov.retry)
    /\ view.conns \subseteq (IF view.on THEN {view.run} ELSE {})

\* Polling a clone ends, also when its answer came after the unmount and the
\* provider's cleanup has missed it.
PollingEnds == \A k \in Clones : clone[k].interval ~> ~clone[k].interval

\* The state shown ends up the state of the store, in spite of messages built
\* before and sent after newer ones, a late fallback fetch, a dropped client
\* and a lost socket; the session must last.
CatchesUp ==
    <>[](prov.ver = world \/ ~Shown(auth) \/ ~Admitted(cookie))
=============================================================================
