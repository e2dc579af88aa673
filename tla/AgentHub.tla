------------------------------ MODULE AgentHub ------------------------------
(***************************************************************************)
(* The backend side of the pve-agent channel: the hub's registry of agent  *)
(* WebSocket connections, the two goroutines (readPump, writePump) of each *)
(* connection, the tracker of in-flight commands, and the API callers that *)
(* either run an action through an agent or fall back to the poller's      *)
(* direct PVE client.                                                      *)
(*                                                                         *)
(* The agents are the environment: an agent registers once, as the first   *)
(* message of each connection it opens, executes the commands it receives, *)
(* and queues their results in a buffer that outlives its connections.     *)
(***************************************************************************)
EXTENDS Naturals, Sequences, FiniteSets

CONSTANTS
    Keys,       \* registry keys, the code's "cluster/node" strings
    Conns,      \* AgentConn objects; each stands for one WebSocket
    Cmds,       \* commands; the code's ids are unique per request
    Routed,     \* commands issued by tryAgentAction, the others by AgentCommand
    KeyOf,      \* the agent a command is addressed to
    SendCap,    \* capacity of AgentConn.send (64 in the code)
    NoConn, NoKey, NoCmd

ASSUME HubAssumption ==
    /\ NoConn \notin Conns /\ NoKey \notin Keys /\ NoCmd \notin Cmds
    /\ Routed \subseteq Cmds
    /\ KeyOf \in [Cmds -> Keys]
    /\ SendCap \in Nat \ {0}

VARIABLES
    agents,     \* Hub.agents: the registered connection of each key
    node,       \* AgentConn.node/cluster: the key set by handleRegister
    closes,     \* how often close() was called on a connection's done
    sock,       \* per connection: none, open, broken (peer gone), closed
    reader,     \* readPump: none, loop, exited
    held,       \* the result Complete took from pending, not yet sent on
    writer,     \* writePump: none, loop, exited
    send,       \* AgentConn.send
    inbox,      \* messages from the agent that readPump has not read
    wire,       \* commands written to the socket, not yet read by the agent
    pending,    \* CommandTracker.pending
    result,     \* the result channel of each command, capacity 1
    caller,     \* where the API handler of each command is
    target,     \* the AgentConn pointer SendCommand read under its lock
    executed,   \* per command: how often an agent has executed it
    outbuf      \* per agent: results waiting in the client's sendCh

connVars   == <<agents, node, closes, sock, reader, held, writer>>
callVars   == <<pending, result, caller, target>>
agentVars  == <<executed, outbuf>>
vars == <<agents, node, closes, sock, reader, held, writer, send, inbox, wire,
          pending, result, caller, target, executed, outbuf>>

Register(k) == [type |-> "register", key |-> k, cmd |-> NoCmd]
Result(m)   == [type |-> "command_result", key |-> NoKey, cmd |-> m]
Message     == [type : {"register", "command_result"},
                key : Keys \cup {NoKey}, cmd : Cmds \cup {NoCmd}]

TypeOK ==
    /\ agents \in [Keys -> Conns \cup {NoConn}]
    /\ node \in [Conns -> Keys \cup {NoKey}]
    /\ closes \in [Conns -> Nat]
    /\ sock \in [Conns -> {"none", "open", "broken", "closed"}]
    /\ reader \in [Conns -> {"none", "loop", "exited"}]
    /\ held \in [Conns -> Cmds \cup {NoCmd}]
    /\ writer \in [Conns -> {"none", "loop", "exited"}]
    /\ send \in [Conns -> Seq(Cmds)]
    /\ \A c \in Conns : Len(send[c]) <= SendCap
    /\ inbox \in [Conns -> Seq(Message)]
    /\ wire \in [Conns -> Seq(Cmds)]
    /\ pending \in SUBSET Cmds
    /\ result \in [Cmds -> {"empty", "answer", "stale"}]
    /\ caller \in [Cmds -> {"idle", "checked", "found", "waiting", "answered",
                            "expired", "gaveup", "rejected", "fallback"}]
    /\ target \in [Cmds -> Conns \cup {NoConn}]
    /\ executed \in [Cmds -> Nat]
    /\ outbuf \in [Keys -> Seq(Cmds)]

Init ==
    /\ agents = [k \in Keys |-> NoConn]
    /\ node = [c \in Conns |-> NoKey]
    /\ closes = [c \in Conns |-> 0]
    /\ sock = [c \in Conns |-> "none"]
    /\ reader = [c \in Conns |-> "none"]
    /\ held = [c \in Conns |-> NoCmd]
    /\ writer = [c \in Conns |-> "none"]
    /\ send = [c \in Conns |-> <<>>]
    /\ inbox = [c \in Conns |-> <<>>]
    /\ wire = [c \in Conns |-> <<>>]
    /\ pending = {}
    /\ result = [m \in Cmds |-> "empty"]
    /\ caller = [m \in Cmds |-> "idle"]
    /\ target = [m \in Cmds |-> NoConn]
    /\ executed = [m \in Cmds |-> 0]
    /\ outbuf = [k \in Keys |-> <<>>]

-----------------------------------------------------------------------------
(* Connections.                                                            *)

(* The agent dials, the hub authenticates the request, upgrades it and     *)
(* starts both pumps.  first is what the agent managed to write before     *)
(* anything else: its registration, or nothing when that write failed or   *)
(* the hub refuses it for a missing node or cluster.                       *)
HandleWebSocket(c) ==
    /\ sock[c] = "none"
    /\ \E first \in {<<>>} \cup {<<Register(k)>> : k \in Keys} :
          inbox' = [inbox EXCEPT ![c] = first]
    /\ sock' = [sock EXCEPT ![c] = "open"]
    /\ reader' = [reader EXCEPT ![c] = "loop"]
    /\ writer' = [writer EXCEPT ![c] = "loop"]
    /\ UNCHANGED <<agents, node, closes, held, send, wire, callVars, agentVars>>

(* close(c.done).  In Go a second close of a channel panics.               *)
Close(c) == closes' = [closes EXCEPT ![c] = @ + 1]

(* Mutant: the replaced connection is not told to stop. *)
register_noStop(c, k) ==
    /\ node' = [node EXCEPT ![c] = k]
    /\ agents' = [agents EXCEPT ![k] = c]
    /\ UNCHANGED closes

(* Hub.register, under Hub.mu: the connection it replaces is told to stop  *)
(* through its done channel.                                               *)
register(c, k) ==
    /\ node' = [node EXCEPT ![c] = k]
    /\ agents' = [agents EXCEPT ![k] = c]
    /\ IF agents[k] # NoConn THEN Close(agents[k])
                             ELSE UNCHANGED closes

(* Mutant: unregister without the "existing == a" test. *)
unregister_anyOwner(c) ==
    IF node[c] # NoKey
    THEN /\ agents' = [agents EXCEPT ![node[c]] = NoConn]
         /\ Close(c)
    ELSE UNCHANGED <<agents, closes>>

(* Mutant: the entry stays in the registry. *)
unregister_noDelete(c) ==
    IF node[c] # NoKey /\ agents[node[c]] = c
    THEN Close(c) /\ UNCHANGED agents
    ELSE UNCHANGED <<agents, closes>>

(* Hub.unregister, under Hub.mu: only the connection the key still maps to *)
(* is removed and told to stop.                                            *)
unregister(c) ==
    IF node[c] # NoKey /\ agents[node[c]] = c
    THEN /\ agents' = [agents EXCEPT ![node[c]] = NoConn]
         /\ Close(c)
    ELSE UNCHANGED <<agents, closes>>

CanRead(c) ==
    /\ reader[c] = "loop"
    /\ held[c] = NoCmd
    /\ sock[c] \in {"open", "broken"}
    /\ inbox[c] # <<>>

handleRegister(c) ==
    /\ CanRead(c)
    /\ Head(inbox[c]).type = "register"
    /\ register(c, Head(inbox[c]).key)
    /\ inbox' = [inbox EXCEPT ![c] = Tail(@)]
    /\ UNCHANGED <<sock, reader, held, writer, send, wire, callVars, agentVars>>

(* CommandTracker.Complete, first half: take the entry under the lock.     *)
(* A result of a command that is not pending is logged and dropped.        *)
CompleteTake(c) ==
    /\ CanRead(c)
    /\ Head(inbox[c]).type = "command_result"
    /\ LET m == Head(inbox[c]).cmd IN
          /\ pending' = pending \ {m}
          /\ held' = [held EXCEPT ![c] = IF m \in pending THEN m ELSE NoCmd]
    /\ inbox' = [inbox EXCEPT ![c] = Tail(@)]
    /\ UNCHANGED <<agents, node, closes, sock, reader, writer, send, wire,
                   result, caller, target, agentVars>>

(* A send on a result channel that is full is skipped (select, default).   *)
Offer(m, r) ==
    result' = [result EXCEPT ![m] = IF @ = "empty" THEN r ELSE @]

(* CommandTracker.Complete, second half: hand the result over, unlocked.   *)
CompleteSend(c) ==
    /\ held[c] # NoCmd
    /\ Offer(held[c], "answer")
    /\ held' = [held EXCEPT ![c] = NoCmd]
    /\ UNCHANGED <<agents, node, closes, sock, reader, writer, send, inbox, wire,
                   pending, caller, target, agentVars>>

(* ReadMessage fails: readPump's deferred unregister and conn.Close run.   *)
ReadError(c) ==
    /\ reader[c] = "loop"
    /\ held[c] = NoCmd
    /\ sock[c] \in {"broken", "closed"}
    /\ unregister(c)
    /\ reader' = [reader EXCEPT ![c] = "exited"]
    /\ sock' = [sock EXCEPT ![c] = "closed"]
    /\ inbox' = [inbox EXCEPT ![c] = <<>>]
    /\ UNCHANGED <<node, held, writer, send, wire, callVars, agentVars>>

(* writePump takes a command off send and writes it.  A write on a broken  *)
(* socket may still succeed locally, and the command is lost.              *)
WriteMessage(c) ==
    /\ writer[c] = "loop"
    /\ send[c] # <<>>
    /\ sock[c] \in {"open", "broken"}
    /\ send' = [send EXCEPT ![c] = Tail(@)]
    /\ wire' = IF sock[c] = "open"
               THEN [wire EXCEPT ![c] = Append(@, Head(send[c]))]
               ELSE wire
    /\ UNCHANGED <<connVars, inbox, callVars, agentVars>>

(* writePump leaves its loop on a failed write, or on the closed done      *)
(* channel; its deferred conn.Close unblocks readPump.                     *)
WriterExit(c) ==
    /\ writer[c] = "loop"
    /\ \/ closes[c] > 0
       \/ send[c] # <<>> /\ sock[c] \in {"broken", "closed"}
    /\ writer' = [writer EXCEPT ![c] = "exited"]
    /\ sock' = [sock EXCEPT ![c] = "closed"]
    /\ UNCHANGED <<agents, node, closes, reader, held, send, inbox, wire,
                   callVars, agentVars>>

-----------------------------------------------------------------------------
(* API callers.                                                            *)

(* tryAgentAction falls back to the poller; AgentCommand answers 503.      *)
Unsent(m) == IF m \in Routed THEN "fallback" ELSE "rejected"

(* An action that is not in AllowedAgentActions, or a malformed request.   *)
NotAllowed(m) ==
    /\ caller[m] = "idle"
    /\ caller' = [caller EXCEPT ![m] = Unsent(m)]
    /\ UNCHANGED <<connVars, send, inbox, wire, pending, result, target,
                   agentVars>>

(* tryAgentAction's look at GetConnectedAgents, a copy of the keys.        *)
CheckConnected(m) ==
    /\ caller[m] = "idle"
    /\ caller' = [caller EXCEPT ![m] =
          IF m \in Routed /\ agents[KeyOf[m]] = NoConn THEN "fallback"
                                                       ELSE "checked"]
    /\ UNCHANGED <<connVars, send, inbox, wire, pending, result, target,
                   agentVars>>

(* SendCommand reads the connection under Hub.mu.RLock and unlocks.        *)
LookupAgent(m) ==
    /\ caller[m] = "checked"
    /\ target' = [target EXCEPT ![m] = agents[KeyOf[m]]]
    /\ caller' = [caller EXCEPT ![m] =
          IF agents[KeyOf[m]] = NoConn THEN Unsent(m) ELSE "found"]
    /\ UNCHANGED <<connVars, send, inbox, wire, pending, result, agentVars>>

(* Mutant: the send ignores that the buffer is full. *)
SendCommand_noCap(m) ==
    /\ caller[m] = "found"
    /\ pending' = pending \cup {m}
    /\ send' = [send EXCEPT ![target[m]] = Append(@, m)]
    /\ caller' = [caller EXCEPT ![m] = "waiting"]
    /\ UNCHANGED <<connVars, inbox, wire, result, target, agentVars>>

(* SendCommand, the rest: Add, then the non-blocking send on the channel   *)
(* of the connection it looked up, whatever became of that connection; a   *)
(* full buffer takes the entry out of pending again.                       *)
SendCommand(m) ==
    LET c == target[m] IN
    /\ caller[m] = "found"
    /\ \/ /\ Len(send[c]) < SendCap
          /\ pending' = pending \cup {m}
          /\ send' = [send EXCEPT ![c] = Append(@, m)]
          /\ caller' = [caller EXCEPT ![m] = "waiting"]
       \/ /\ Len(send[c]) >= SendCap
          /\ pending' = pending \ {m}
          /\ caller' = [caller EXCEPT ![m] = Unsent(m)]
          /\ UNCHANGED send
    /\ UNCHANGED <<connVars, inbox, wire, result, target, agentVars>>

(* The caller receives from its result channel.                            *)
ReceiveResult(m) ==
    /\ caller[m] = "waiting"
    /\ result[m] # "empty"
    /\ caller' = [caller EXCEPT ![m] =
          IF result[m] = "answer" THEN "answered" ELSE "expired"]
    /\ result' = [result EXCEPT ![m] = "empty"]
    /\ UNCHANGED <<connVars, send, inbox, wire, pending, target, agentVars>>

(* Mutant: a handler that timed out falls back to the poller as well. *)
CallerTimeout_fallsBack(m) ==
    /\ caller[m] = "waiting"
    /\ caller' = [caller EXCEPT ![m] = Unsent(m)]
    /\ UNCHANGED <<connVars, send, inbox, wire, pending, result, target,
                   agentVars>>

(* The caller's context ends first: the 30 s timeout of AgentCommand, or   *)
(* the client's disconnect.  The pending entry stays.                      *)
CallerTimeout(m) ==
    /\ caller[m] = "waiting"
    /\ caller' = [caller EXCEPT ![m] = "gaveup"]
    /\ UNCHANGED <<connVars, send, inbox, wire, pending, result, target,
                   agentVars>>

(* Mutant: stale entries are dropped without a timeout result. *)
CleanupStale_silent ==
    \E old \in SUBSET pending \ {{}} :
       /\ pending' = pending \ old
       /\ UNCHANGED <<connVars, send, inbox, wire, result, caller, target,
                      agentVars>>

(* CleanupStale, under the tracker's lock: the entries older than 60 s get *)
(* a timeout result and are dropped.                                       *)
CleanupStale ==
    \E old \in SUBSET pending \ {{}} :
       /\ pending' = pending \ old
       /\ result' = [m \in Cmds |-> IF m \in old /\ result[m] = "empty"
                                    THEN "stale" ELSE result[m]]
       /\ UNCHANGED <<connVars, send, inbox, wire, caller, target, agentVars>>

-----------------------------------------------------------------------------
(* The agents and the network.                                             *)

(* The agent reads a command, runs it, and queues the result.              *)
AgentExecute(c) ==
    /\ wire[c] # <<>>
    /\ sock[c] \in {"open", "closed"}
    /\ LET m == Head(wire[c]) IN
          /\ executed' = [executed EXCEPT ![m] = @ + 1]
          /\ outbuf' = [outbuf EXCEPT ![KeyOf[m]] = Append(@, m)]
    /\ wire' = [wire EXCEPT ![c] = Tail(@)]
    /\ UNCHANGED <<connVars, send, inbox, callVars>>

(* The agent's writePump sends the oldest queued result on whichever       *)
(* connection it has now.                                                  *)
AgentReply(c, k) ==
    /\ sock[c] = "open"
    /\ node[c] = k
    /\ outbuf[k] # <<>>
    /\ inbox' = [inbox EXCEPT ![c] = Append(@, Result(Head(outbuf[k])))]
    /\ outbuf' = [outbuf EXCEPT ![k] = Tail(@)]
    /\ UNCHANGED <<connVars, send, wire, callVars, executed>>

(* A queued result is lost: the agent's sendCh was full, or a writePump    *)
(* took it and found its connection gone.                                  *)
AgentDrop(k) ==
    /\ outbuf[k] # <<>>
    /\ outbuf' = [outbuf EXCEPT ![k] = Tail(@)]
    /\ UNCHANGED <<connVars, send, inbox, wire, callVars, executed>>

(* The agent closes, crashes, or the network drops the connection: what    *)
(* the agent had not read is lost, what it wrote may still arrive.         *)
Disconnect(c) ==
    /\ sock[c] = "open"
    /\ sock' = [sock EXCEPT ![c] = "broken"]
    /\ wire' = [wire EXCEPT ![c] = <<>>]
    /\ UNCHANGED <<agents, node, closes, reader, held, writer, send, inbox,
                   callVars, agentVars>>

-----------------------------------------------------------------------------
ReadPump(c)  == handleRegister(c) \/ CompleteTake(c) \/ CompleteSend(c)
                \/ ReadError(c)
WritePump(c) == WriteMessage(c) \/ WriterExit(c)
Handler(m)   == CheckConnected(m) \/ LookupAgent(m) \/ SendCommand(m)
                \/ ReceiveResult(m)

Next ==
    \/ \E c \in Conns : HandleWebSocket(c) \/ Disconnect(c) \/ AgentExecute(c)
    \/ \E c \in Conns : ReadPump(c)
    \/ \E c \in Conns : WritePump(c)
    \/ \E m \in Cmds : Handler(m)
    \/ \E m \in Cmds : NotAllowed(m) \/ CallerTimeout(m)
    \/ \E c \in Conns, k \in Keys : AgentReply(c, k)
    \/ \E k \in Keys : AgentDrop(k)
    \/ CleanupStale

(* Goroutines that can run do run, and the cleanup ticker fires until no   *)
(* entry is left; nothing is assumed of agents, network or timeouts.       *)
Fairness ==
    /\ \A c \in Conns : WF_vars(ReadPump(c)) /\ WF_vars(WritePump(c))
    /\ \A m \in Cmds : WF_vars(Handler(m))
    /\ WF_vars(CleanupStale)

Spec == Init /\ [][Next]_vars /\ Fairness

-----------------------------------------------------------------------------
(* Correctness.                                                            *)

(* No close() of a closed channel, in any order of takeovers and           *)
(* disconnects: register closes the done channel of the connection it      *)
(* replaces, unregister that of the one it removes, and a connection is    *)
(* never subject to both.                                                  *)
NoPanic == \A c \in Conns : closes[c] <= 1

(* The registry holds only connections whose readPump still runs and whose *)
(* writePump has not been told to stop: what SendCommand looks up is never *)
(* a connection the hub itself has already given up.                       *)
RegistryLive ==
    \A k \in Keys : agents[k] # NoConn =>
        /\ node[agents[k]] = k
        /\ closes[agents[k]] = 0
        /\ reader[agents[k]] = "loop"

(* An action runs at most once: never twice on the agent, and never on the *)
(* agent at all once the handler has fallen back to the poller's direct    *)
(* API call or told the user that nothing was sent.                        *)
AtMostOnce ==
    \A m \in Cmds :
        executed[m] <= (IF caller[m] \in {"fallback", "rejected"} THEN 0 ELSE 1)

(* A handler that waits has something to wait for: its entry is pending,   *)
(* its result sits in the channel, or a readPump is about to put it there. *)
NoLostWakeup ==
    \A m \in Cmds : caller[m] = "waiting" =>
        m \in pending \/ result[m] # "empty" \/ \E c \in Conns : held[c] = m

(* The answer of the agent and the timeout of CleanupStale never compete   *)
(* for the one slot of a result channel, so the select's default branches  *)
(* never throw away a result a handler waits for.                          *)
OneResult ==
    \A m \in Cmds :
        /\ m \in pending => result[m] = "empty" /\ \A c \in Conns : held[c] # m
        /\ \A c \in Conns : held[c] = m => result[m] = "empty"
        /\ \A c, d \in Conns : held[c] = m /\ held[d] = m => c = d

(* A connection leaves the registry without a successor only when its own  *)
(* readPump exits: the late exit of a replaced connection does not drop    *)
(* the newer one.                                                          *)
NewerConnectionSurvives ==
    [][\A k \in Keys : agents[k] # NoConn /\ agents'[k] = NoConn =>
          reader[agents[k]] = "loop" /\ reader'[agents[k]] = "exited"]_vars

(* Every API request that waits for an agent gets out of its wait, whether *)
(* the agent answers, disconnects, or loses the command.                   *)
WaitEnds ==
    \A m \in Cmds : caller[m] = "waiting" ~> caller[m] # "waiting"

(* A registered connection that is replaced or breaks is torn down: both   *)
(* pumps exit and the socket is closed.                                    *)
ConnectionFreed ==
    \A c \in Conns :
        closes[c] > 0 \/ (node[c] # NoKey /\ sock[c] \in {"broken", "closed"})
        ~> reader[c] = "exited" /\ writer[c] = "exited" /\ sock[c] = "closed"
=============================================================================
