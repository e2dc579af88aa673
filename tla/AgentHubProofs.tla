--------------------------- MODULE AgentHubProofs ---------------------------
(***************************************************************************)
(* Proofs about the agent hub, for any number of agents, connections and   *)
(* commands and any buffer size.                                           *)
(***************************************************************************)
EXTENDS AgentHub, TLAPS

(* What a connection's inbox may hold: the registration, if any, is its    *)
(* first message, and none is left once the connection has registered.     *)
InboxOK ==
    \A c \in Conns : \A i \in 1..Len(inbox[c]) :
        LET msg == inbox[c][i] IN
        /\ msg.type = "register" => i = 1 /\ node[c] = NoKey /\ msg.key \in Keys
        /\ msg.type = "command_result" => msg.cmd \in Cmds

(* A command is on its way to an agent only after its handler has found a  *)
(* connection for it.                                                      *)
TargetOK ==
    \A m \in Cmds : caller[m] = "found" => target[m] \in Conns

(* A connection that does not exist yet has no goroutine and no key.       *)
FreshOK ==
    \A c \in Conns : sock[c] = "none" => reader[c] = "none" /\ node[c] = NoKey

TypeInv == TypeOK /\ InboxOK /\ TargetOK /\ FreshOK

(* Most actions touch neither an inbox nor a key.                          *)
LEMMA InboxSame == InboxOK /\ UNCHANGED <<inbox, node>> => InboxOK'
  BY DEF InboxOK

(* TypeInv is inductive; the parts that say more than TypeOK are what      *)
(* handleRegister, CompleteTake and SendCommand need to stay well typed.   *)
LEMMA TypeInvariant == Spec => []TypeInv
<1>1. Init => TypeInv
  BY HubAssumption DEF Init, TypeInv, TypeOK, InboxOK, TargetOK, FreshOK
<1>2. TypeInv /\ [Next]_vars => TypeInv'
  <2> SUFFICES ASSUME TypeInv, [Next]_vars PROVE TypeInv'
    OBVIOUS
  <2> USE HubAssumption DEF TypeInv, connVars, callVars, agentVars
  <2>1. ASSUME NEW c \in Conns, HandleWebSocket(c) PROVE TypeInv'
    <3>a1. <<>> \in Seq(Message) /\ \A k \in Keys : <<Register(k)>> \in Seq(Message)
      BY DEF Message, Register
    <3>1. TypeOK'
      <4>1. PICK first \in Seq(Message) : inbox' = [inbox EXCEPT ![c] = first]
        BY <3>a1, <2>1 DEF HandleWebSocket
      <4>1a. inbox' \in [Conns -> Seq(Message)]
        BY <4>1 DEF TypeOK
      <4>2. QED
        BY <4>1a, <2>1 DEF HandleWebSocket, TypeOK
    <3>2. InboxOK'
      <4>1. PICK first \in {<<>>} \cup {<<Register(k)>> : k \in Keys} :
               inbox' = [inbox EXCEPT ![c] = first]
        BY <2>1 DEF HandleWebSocket
      <4>2. node' = node /\ node[c] = NoKey
        BY <2>1 DEF HandleWebSocket, FreshOK
      <4>3. \A i \in 1..Len(first) :
               i = 1 /\ first[i].type = "register" /\ first[i].key \in Keys
        <5>1. CASE first = <<>>
          BY <5>1
        <5>2. ASSUME NEW k \in Keys, first = <<Register(k)>>
              PROVE  \A i \in 1..Len(first) :
                        i = 1 /\ first[i].type = "register" /\ first[i].key \in Keys
          BY <5>2 DEF Register
        <5>3. QED
          BY <5>1, <5>2
      <4>4. QED
        BY <4>1, <4>2, <4>3 DEF InboxOK, TypeOK
    <3>3. TargetOK' /\ FreshOK'
      BY <3>a1, <2>1 DEF HandleWebSocket, Register, TypeOK, TargetOK, FreshOK
    <3>4. QED
      BY <3>1, <3>2, <3>3
  <2>2. ASSUME NEW c \in Conns, Disconnect(c) PROVE TypeInv'
    <3>a1. <<>> \in Seq(Cmds)
      OBVIOUS
    <3>1. TypeOK'
      BY <3>a1, <2>2 DEF Disconnect, TypeOK
    <3>2. InboxOK'
      BY InboxSame, <2>2 DEF Disconnect
    <3>3. TargetOK' /\ FreshOK'
      BY <3>a1, <2>2 DEF Disconnect, TypeOK, TargetOK, FreshOK
    <3>4. QED
      BY <3>1, <3>2, <3>3
  <2>3. ASSUME NEW c \in Conns, AgentExecute(c) PROVE TypeInv'
    <3>a1. /\ Head(wire[c]) \in Cmds /\ Tail(wire[c]) \in Seq(Cmds)
          /\ \A k \in Keys : Append(outbuf[k], Head(wire[c])) \in Seq(Cmds)
      BY <2>3 DEF AgentExecute, TypeOK
    <3>1. TypeOK'
      <4>1. executed' \in [Cmds -> Nat]
        <5>1. executed' = [executed EXCEPT ![Head(wire[c])] = @ + 1]
          BY <2>3 DEF AgentExecute
        <5>2. executed \in [Cmds -> Nat]
          BY DEF TypeOK
        <5>3. QED
          BY <3>a1, <5>1, <5>2
      <4>2. outbuf' \in [Keys -> Seq(Cmds)]
        <5>1. outbuf' = [outbuf EXCEPT ![KeyOf[Head(wire[c])]] =
                            Append(outbuf[KeyOf[Head(wire[c])]], Head(wire[c]))]
          BY <2>3 DEF AgentExecute
        <5>2. KeyOf[Head(wire[c])] \in Keys /\ outbuf \in [Keys -> Seq(Cmds)]
          BY <3>a1 DEF TypeOK
        <5>3. QED
          BY <3>a1, <5>1, <5>2
      <4>3. QED
        BY <3>a1, <4>1, <4>2, <2>3 DEF AgentExecute, TypeOK
    <3>2. InboxOK'
      BY InboxSame, <2>3 DEF AgentExecute
    <3>3. TargetOK' /\ FreshOK'
      BY <3>a1, <2>3 DEF AgentExecute, TypeOK, TargetOK, FreshOK
    <3>4. QED
      BY <3>1, <3>2, <3>3
  <2>4. ASSUME NEW c \in Conns, handleRegister(c) PROVE TypeInv'
    <3>a1. inbox[c] # <<>> /\ inbox[c] \in Seq(Message)
      BY <2>4 DEF handleRegister, CanRead, TypeOK
    <3>a2. /\ Head(inbox[c]) = inbox[c][1] /\ 1 \in 1..Len(inbox[c])
          /\ Tail(inbox[c]) \in Seq(Message) /\ Len(Tail(inbox[c])) = Len(inbox[c]) - 1
          /\ \A i \in 1..Len(Tail(inbox[c])) :
                /\ Tail(inbox[c])[i] = inbox[c][i+1] /\ i+1 \in 1..Len(inbox[c])
                /\ i + 1 # 1
      BY <3>a1
    <3>a3. Head(inbox[c]).key \in Keys /\ node[c] = NoKey
      BY <3>a2, <2>4 DEF handleRegister, InboxOK
    <3>1. TypeOK'
      <4>1. /\ agents' \in [Keys -> Conns \cup {NoConn}]
            /\ node' \in [Conns -> Keys \cup {NoKey}]
            /\ closes' \in [Conns -> Nat]
        <5>1. register(c, Head(inbox[c]).key)
          BY <2>4 DEF handleRegister
        <5>2. agents' \in [Keys -> Conns \cup {NoConn}]
          BY <5>1 DEF register, TypeOK
        <5>3. node' \in [Conns -> Keys \cup {NoKey}]
          BY <5>1, <3>a3 DEF register, TypeOK
        <5>4. CASE agents[Head(inbox[c]).key] = NoConn
          BY <5>1, <5>2, <5>3, <5>4 DEF register, TypeOK
        <5>5. CASE agents[Head(inbox[c]).key] # NoConn
          <6>1. closes' = [closes EXCEPT ![agents[Head(inbox[c]).key]] = @ + 1]
            BY <5>1, <5>5 DEF register, Close
          <6>2. agents[Head(inbox[c]).key] \in Conns /\ closes \in [Conns -> Nat]
            BY <5>5, <3>a3 DEF TypeOK
          <6>3. closes' \in [Conns -> Nat]
            BY <6>1, <6>2
          <6>4. QED
            BY <5>2, <5>3, <6>3
        <5>6. QED
          BY <5>4, <5>5
      <4>2. QED
        BY <3>a2, <4>1, <2>4 DEF handleRegister, TypeOK
    <3>2. InboxOK'
      <4>1. /\ inbox' = [inbox EXCEPT ![c] = Tail(inbox[c])]
            /\ \A d \in Conns : d # c => node'[d] = node[d]
        BY <2>4 DEF handleRegister, register, TypeOK
      <4>2. \A d \in Conns : inbox'[d] = IF d = c THEN Tail(inbox[c]) ELSE inbox[d]
        BY <4>1 DEF TypeOK
      <4>3. \A i \in 1..Len(Tail(inbox[c])) :
               /\ Tail(inbox[c])[i].type # "register"
               /\ Tail(inbox[c])[i].type = "command_result" =>
                     Tail(inbox[c])[i].cmd \in Cmds
        BY <3>a2 DEF InboxOK
      <4>4. SUFFICES ASSUME NEW d \in Conns, NEW i \in 1..Len(inbox'[d])
                     PROVE  LET msg == inbox'[d][i] IN
                            /\ msg.type = "register" =>
                                  i = 1 /\ node'[d] = NoKey /\ msg.key \in Keys
                            /\ msg.type = "command_result" => msg.cmd \in Cmds
        BY DEF InboxOK
      <4>5. CASE d = c
        <5>1. inbox'[d] = Tail(inbox[c])
          BY <4>2, <4>5
        <5>2. QED
          BY <4>3, <5>1
      <4>6. CASE d # c
        <5>1. inbox'[d] = inbox[d] /\ node'[d] = node[d]
          BY <4>1, <4>2, <4>6
        <5>2. QED
          BY <5>1 DEF InboxOK
      <4>7. QED
        BY <4>5, <4>6
    <3>3. TargetOK' /\ FreshOK'
      <4>1. /\ UNCHANGED <<caller, target, sock, reader>>
            /\ \A d \in Conns : d # c => node'[d] = node[d]
            /\ sock[c] # "none"
        BY <2>4 DEF handleRegister, CanRead, register, TypeOK
      <4>2. QED
        BY <4>1 DEF TargetOK, FreshOK
    <3>4. QED
      BY <3>1, <3>2, <3>3
  <2>5. ASSUME NEW c \in Conns, CompleteTake(c) PROVE TypeInv'
    <3>a1. inbox[c] # <<>> /\ inbox[c] \in Seq(Message)
      BY <2>5 DEF CompleteTake, CanRead, TypeOK
    <3>a2. /\ Head(inbox[c]) = inbox[c][1] /\ 1 \in 1..Len(inbox[c])
          /\ Tail(inbox[c]) \in Seq(Message) /\ Len(Tail(inbox[c])) = Len(inbox[c]) - 1
          /\ \A i \in 1..Len(Tail(inbox[c])) :
                /\ Tail(inbox[c])[i] = inbox[c][i+1] /\ i+1 \in 1..Len(inbox[c])
                /\ i + 1 # 1
      BY <3>a1
    <3>a3. Head(inbox[c]).cmd \in Cmds
      BY <3>a2, <2>5 DEF CompleteTake, InboxOK
    <3>1. TypeOK'
      BY <3>a1, <3>a2, <3>a3, <2>5 DEF CompleteTake, CanRead, TypeOK
    <3>2. InboxOK'
      BY <3>a1, <3>a2, <3>a3, <2>5 DEF CompleteTake, CanRead, TypeOK, InboxOK
    <3>3. TargetOK' /\ FreshOK'
      BY <3>a1, <3>a2, <3>a3, <2>5 DEF CompleteTake, CanRead, TypeOK, TargetOK, FreshOK
    <3>4. QED
      BY <3>1, <3>2, <3>3
  <2>6. ASSUME NEW c \in Conns, CompleteSend(c) PROVE TypeInv'
    <3>1. TypeOK'
      BY <2>6 DEF CompleteSend, Offer, TypeOK
    <3>2. InboxOK'
      BY InboxSame, <2>6 DEF CompleteSend
    <3>3. TargetOK' /\ FreshOK'
      BY <2>6 DEF CompleteSend, Offer, TypeOK, TargetOK, FreshOK
    <3>4. QED
      BY <3>1, <3>2, <3>3
  <2>7. ASSUME NEW c \in Conns, ReadError(c) PROVE TypeInv'
    <3>a1. <<>> \in Seq(Message) /\ Len(<<>>) = 0
      OBVIOUS
    <3>1. TypeOK'
      <4>1. /\ agents' \in [Keys -> Conns \cup {NoConn}]
            /\ closes' \in [Conns -> Nat]
        <5>1. unregister(c)
          BY <2>7 DEF ReadError
        <5>2. CASE node[c] # NoKey /\ agents[node[c]] = c
          <6>1. /\ agents' = [agents EXCEPT ![node[c]] = NoConn]
                /\ closes' = [closes EXCEPT ![c] = @ + 1]
            BY <5>1, <5>2 DEF unregister, Close
          <6>2. closes' \in [Conns -> Nat]
            <7>1. closes \in [Conns -> Nat]
              BY DEF TypeOK
            <7>2. QED
              BY <6>1, <7>1
          <6>3. QED
            BY <6>1, <6>2 DEF TypeOK
        <5>3. CASE ~(node[c] # NoKey /\ agents[node[c]] = c)
          BY <5>1, <5>3 DEF unregister, TypeOK
        <5>4. QED
          BY <5>2, <5>3
      <4>2. QED
        BY <3>a1, <4>1, <2>7 DEF ReadError, TypeOK
    <3>2. InboxOK'
      <4>1. /\ \A d \in Conns : inbox'[d] = IF d = c THEN <<>> ELSE inbox[d]
            /\ node' = node
        BY <2>7 DEF ReadError, TypeOK
      <4>2. QED
        BY <3>a1, <4>1 DEF InboxOK
    <3>3. TargetOK' /\ FreshOK'
      <4>1. /\ UNCHANGED <<caller, target, node>>
            /\ \A d \in Conns : d # c => sock'[d] = sock[d] /\ reader'[d] = reader[d]
            /\ sock'[c] # "none"
        BY <2>7 DEF ReadError, TypeOK
      <4>2. QED
        BY <4>1 DEF TargetOK, FreshOK
    <3>4. QED
      BY <3>1, <3>2, <3>3
  <2>8. ASSUME NEW c \in Conns, WriteMessage(c) PROVE TypeInv'
    <3>a1. /\ Head(send[c]) \in Cmds /\ Tail(send[c]) \in Seq(Cmds)
          /\ Len(Tail(send[c])) <= SendCap
          /\ Append(wire[c], Head(send[c])) \in Seq(Cmds)
      BY <2>8 DEF WriteMessage, TypeOK
    <3>1. TypeOK'
      BY <3>a1, <2>8 DEF WriteMessage, TypeOK
    <3>2. InboxOK'
      BY InboxSame, <2>8 DEF WriteMessage
    <3>3. TargetOK' /\ FreshOK'
      BY <3>a1, <2>8 DEF WriteMessage, TypeOK, TargetOK, FreshOK
    <3>4. QED
      BY <3>1, <3>2, <3>3
  <2>9. ASSUME NEW c \in Conns, WriterExit(c) PROVE TypeInv'
    <3>1. TypeOK'
      BY <2>9 DEF WriterExit, TypeOK
    <3>2. InboxOK'
      BY InboxSame, <2>9 DEF WriterExit
    <3>3. TargetOK' /\ FreshOK'
      BY <2>9 DEF WriterExit, TypeOK, TargetOK, FreshOK
    <3>4. QED
      BY <3>1, <3>2, <3>3
  <2>10. ASSUME NEW m \in Cmds, CheckConnected(m) PROVE TypeInv'
    <3>1. TypeOK'
      BY <2>10 DEF CheckConnected, TypeOK
    <3>2. InboxOK'
      BY InboxSame, <2>10 DEF CheckConnected
    <3>3. TargetOK' /\ FreshOK'
      BY <2>10 DEF CheckConnected, TypeOK, TargetOK, FreshOK
    <3>4. QED
      BY <3>1, <3>2, <3>3
  <2>11. ASSUME NEW m \in Cmds, LookupAgent(m) PROVE TypeInv'
    <3>1. TypeOK'
      BY <2>11 DEF LookupAgent, Unsent, TypeOK
    <3>2. InboxOK'
      BY InboxSame, <2>11 DEF LookupAgent
    <3>3. TargetOK' /\ FreshOK'
      BY <2>11 DEF LookupAgent, Unsent, TypeOK, TargetOK, FreshOK
    <3>4. QED
      BY <3>1, <3>2, <3>3
  <2>12. ASSUME NEW m \in Cmds, SendCommand(m) PROVE TypeInv'
    <3>a1. target[m] \in Conns
      BY <2>12 DEF SendCommand, TargetOK
    <3>a2. /\ Append(send[target[m]], m) \in Seq(Cmds)
          /\ Len(Append(send[target[m]], m)) = Len(send[target[m]]) + 1
          /\ Len(send[target[m]]) \in Nat
      BY <3>a1 DEF TypeOK
    <3>1. TypeOK'
      <4>1. /\ send' \in [Conns -> Seq(Cmds)]
            /\ \A c \in Conns : Len(send'[c]) <= SendCap
        <5>1. CASE Len(send[target[m]]) < SendCap
          <6>1. send' = [send EXCEPT ![target[m]] = Append(@, m)]
            BY <5>1, <3>a2, <2>12 DEF SendCommand
          <6>2. QED
            BY <5>1, <6>1, <3>a1, <3>a2 DEF TypeOK
        <5>2. CASE Len(send[target[m]]) >= SendCap
          BY <5>2, <3>a2, <2>12 DEF SendCommand, TypeOK
        <5>3. QED
          BY <5>1, <5>2, <3>a2
      <4>2. pending' \in SUBSET Cmds
        BY <2>12 DEF SendCommand, TypeOK
      <4>3. QED
        BY <4>1, <4>2, <2>12 DEF SendCommand, Unsent, TypeOK
    <3>2. InboxOK'
      BY InboxSame, <2>12 DEF SendCommand
    <3>3. TargetOK' /\ FreshOK'
      BY <3>a1, <3>a2, <2>12 DEF SendCommand, Unsent, TypeOK, TargetOK, FreshOK
    <3>4. QED
      BY <3>1, <3>2, <3>3
  <2>13. ASSUME NEW m \in Cmds, ReceiveResult(m) PROVE TypeInv'
    <3>1. TypeOK'
      BY <2>13 DEF ReceiveResult, TypeOK
    <3>2. InboxOK'
      BY InboxSame, <2>13 DEF ReceiveResult
    <3>3. TargetOK' /\ FreshOK'
      BY <2>13 DEF ReceiveResult, TypeOK, TargetOK, FreshOK
    <3>4. QED
      BY <3>1, <3>2, <3>3
  <2>14. ASSUME NEW m \in Cmds, NotAllowed(m) PROVE TypeInv'
    <3>1. TypeOK'
      BY <2>14 DEF NotAllowed, Unsent, TypeOK
    <3>2. InboxOK'
      BY InboxSame, <2>14 DEF NotAllowed
    <3>3. TargetOK' /\ FreshOK'
      BY <2>14 DEF NotAllowed, Unsent, TypeOK, TargetOK, FreshOK
    <3>4. QED
      BY <3>1, <3>2, <3>3
  <2>15. ASSUME NEW m \in Cmds, CallerTimeout(m) PROVE TypeInv'
    <3>1. TypeOK'
      BY <2>15 DEF CallerTimeout, TypeOK
    <3>2. InboxOK'
      BY InboxSame, <2>15 DEF CallerTimeout
    <3>3. TargetOK' /\ FreshOK'
      BY <2>15 DEF CallerTimeout, TypeOK, TargetOK, FreshOK
    <3>4. QED
      BY <3>1, <3>2, <3>3
  <2>16. ASSUME NEW c \in Conns, NEW k \in Keys, AgentReply(c, k) PROVE TypeInv'
    <3>a1. Head(outbuf[k]) \in Cmds /\ Tail(outbuf[k]) \in Seq(Cmds)
      BY <2>16 DEF AgentReply, TypeOK
    <3>a2. Result(Head(outbuf[k])) \in Message
      BY <3>a1 DEF Result, Message
    <3>a3. /\ inbox[c] \in Seq(Message)
          /\ Append(inbox[c], Result(Head(outbuf[k]))) \in Seq(Message)
          /\ Len(Append(inbox[c], Result(Head(outbuf[k])))) = Len(inbox[c]) + 1
          /\ \A i \in 1..Len(inbox[c]) :
                Append(inbox[c], Result(Head(outbuf[k])))[i] = inbox[c][i]
          /\ Append(inbox[c], Result(Head(outbuf[k])))[Len(inbox[c]) + 1]
                = Result(Head(outbuf[k]))
      BY <3>a1, <3>a2 DEF TypeOK
    <3>1. TypeOK'
      BY <3>a1, <3>a2, <3>a3, <2>16 DEF AgentReply, Result, TypeOK
    <3>2. InboxOK'
      <4> SUFFICES ASSUME NEW d \in Conns, NEW i \in 1..Len(inbox'[d])
                   PROVE  LET msg == inbox'[d][i] IN
                          /\ msg.type = "register" =>
                                i = 1 /\ node'[d] = NoKey /\ msg.key \in Keys
                          /\ msg.type = "command_result" => msg.cmd \in Cmds
        BY DEF InboxOK
      <4>1. CASE d = c /\ i = Len(inbox[c]) + 1
        BY <3>a1, <3>a3, <4>1, <2>16 DEF AgentReply, TypeOK, Result
      <4>2. CASE ~(d = c /\ i = Len(inbox[c]) + 1)
        <5>1. node' = node
          BY <2>16 DEF AgentReply, connVars
        <5>2. inbox' = [inbox EXCEPT ![c] = Append(@, Result(Head(outbuf[k])))]
          BY <2>16 DEF AgentReply
        <5>3. inbox \in [Conns -> Seq(Message)]
          BY DEF TypeOK
        <5>4. CASE d = c
          <6>1. inbox'[d] = Append(inbox[c], Result(Head(outbuf[k])))
            BY <5>2, <5>3, <5>4
          <6>2. i \in 1..Len(inbox[c])
            BY <6>1, <3>a3, <4>2, <5>4
          <6>3. inbox'[d][i] = inbox[d][i]
            BY <6>1, <6>2, <3>a3, <5>4
          <6>4. QED
            BY <5>1, <5>4, <6>2, <6>3 DEF InboxOK
        <5>5. CASE d # c
          <6>1. inbox'[d] = inbox[d]
            BY <5>2, <5>3, <5>5
          <6>2. QED
            BY <5>1, <6>1 DEF InboxOK
        <5>6. QED
          BY <5>4, <5>5
      <4>3. QED
        BY <4>1, <4>2
    <3>3. TargetOK' /\ FreshOK'
      BY <3>a1, <3>a2, <3>a3, <2>16 DEF AgentReply, Result, TypeOK, TargetOK, FreshOK
    <3>4. QED
      BY <3>1, <3>2, <3>3
  <2>17. ASSUME NEW k \in Keys, AgentDrop(k) PROVE TypeInv'
    <3>a1. Tail(outbuf[k]) \in Seq(Cmds)
      BY <2>17 DEF AgentDrop, TypeOK
    <3>1. TypeOK'
      BY <3>a1, <2>17 DEF AgentDrop, TypeOK
    <3>2. InboxOK'
      BY InboxSame, <2>17 DEF AgentDrop
    <3>3. TargetOK' /\ FreshOK'
      BY <3>a1, <2>17 DEF AgentDrop, TypeOK, TargetOK, FreshOK
    <3>4. QED
      BY <3>1, <3>2, <3>3
  <2>18. CASE CleanupStale
    <3>1. TypeOK'
      BY <2>18 DEF CleanupStale, TypeOK
    <3>2. InboxOK'
      BY InboxSame, <2>18 DEF CleanupStale
    <3>3. TargetOK' /\ FreshOK'
      BY <2>18 DEF CleanupStale, TypeOK, TargetOK, FreshOK
    <3>4. QED
      BY <3>1, <3>2, <3>3
  <2>19. CASE UNCHANGED vars
    BY <2>19 DEF vars, TypeOK, InboxOK, TargetOK, FreshOK
  <2>20. QED
    BY <2>1, <2>2, <2>3, <2>4, <2>5, <2>6, <2>7, <2>8, <2>9, <2>10,
       <2>11, <2>12, <2>13, <2>14, <2>15, <2>16, <2>17, <2>18, <2>19
    DEF Next, ReadPump, WritePump, Handler
<1>3. QED
  BY <1>1, <1>2, PTL DEF Spec
(* Every reachable state is well typed: in particular no connection's send *)
(* buffer ever exceeds its capacity, and handleRegister only ever stores   *)
(* keys that a register message carried.                                   *)
THEOREM TypeCorrect == Spec => []TypeOK
BY TypeInvariant, PTL DEF TypeInv

-----------------------------------------------------------------------------
(* A connection is told to stop only after it has registered.  With it,    *)
(* NoPanic and RegistryLive are inductive: a connection that enters the    *)
(* registry has never been in it (InboxOK), so its done channel is open,   *)
(* and the two places that close a done channel both take the connection   *)
(* out of the registry in the same critical section.                       *)
StoppedRegistered ==
    \A c \in Conns : closes[c] # 0 => node[c] # NoKey

RegistryInv == TypeInv /\ NoPanic /\ RegistryLive /\ StoppedRegistered

(* The steps of the hub that touch neither the registry, nor the channels, *)
(* nor leave a readPump's loop.                                            *)
RegistrySame ==
    /\ UNCHANGED <<agents, node, closes>>
    /\ \A c \in Conns : reader[c] = "loop" => reader'[c] = "loop"

LEMMA RegistryStep == RegistryInv /\ [Next]_vars => NoPanic' /\ RegistryLive'
                                                    /\ StoppedRegistered'
<1> SUFFICES ASSUME RegistryInv, [Next]_vars
             PROVE  NoPanic' /\ RegistryLive' /\ StoppedRegistered'
  OBVIOUS
<1> USE HubAssumption DEF connVars, callVars, agentVars
<1>t. TypeOK /\ InboxOK /\ FreshOK /\ NoPanic /\ RegistryLive /\ StoppedRegistered
  BY DEF RegistryInv, TypeInv
<1>1. ASSUME RegistrySame
      PROVE  NoPanic' /\ RegistryLive' /\ StoppedRegistered'
  BY <1>t, <1>1 DEF RegistrySame, NoPanic, RegistryLive, StoppedRegistered, TypeOK
<1>2. ASSUME NEW c \in Conns, handleRegister(c)
      PROVE  NoPanic' /\ RegistryLive' /\ StoppedRegistered'
  <2> DEFINE k == Head(inbox[c]).key
  <2>1. inbox[c] \in Seq(Message) /\ inbox[c] # <<>>
    BY <1>2, <1>t DEF handleRegister, CanRead, TypeOK
  <2>2. Head(inbox[c]) = inbox[c][1] /\ 1 \in 1..Len(inbox[c])
    BY <2>1
  <2>3. k \in Keys /\ node[c] = NoKey
    BY <1>2, <2>2, <1>t DEF handleRegister, InboxOK
  <2>4. reader[c] = "loop" /\ reader' = reader
    BY <1>2 DEF handleRegister, CanRead
  <2>5. closes[c] = 0 /\ \A l \in Keys : agents[l] # c
    <3>1. closes[c] = 0
      BY <2>3, <1>t DEF StoppedRegistered
    <3>2. ASSUME NEW l \in Keys, agents[l] = c PROVE FALSE
      BY <2>3, <3>2, <1>t DEF RegistryLive
    <3>3. QED
      BY <3>1, <3>2
  <2>6. /\ agents' = [agents EXCEPT ![k] = c]
        /\ node' = [node EXCEPT ![c] = k]
        /\ agents[k] = NoConn => closes' = closes
        /\ agents[k] # NoConn => closes' = [closes EXCEPT ![agents[k]] = @ + 1]
    BY <1>2 DEF handleRegister, register, Close
  <2> HIDE DEF k
  <2>7. CASE agents[k] = NoConn
    BY <2>3, <2>4, <2>5, <2>6, <2>7, <1>t
    DEF NoPanic, RegistryLive, StoppedRegistered, TypeOK
  <2>8. CASE agents[k] # NoConn
    <3> DEFINE d == agents[k]
    <3>1. d \in Conns /\ d # c /\ node[d] = k /\ closes[d] = 0
      BY <2>3, <2>5, <2>8, <1>t DEF RegistryLive, TypeOK
    <3>2. closes' = [closes EXCEPT ![d] = @ + 1]
      BY <2>6, <2>8
    <3> HIDE DEF d
    <3>3. NoPanic'
      BY <3>1, <3>2, <1>t DEF NoPanic, TypeOK
    <3>4. StoppedRegistered'
      BY <2>3, <2>6, <3>1, <3>2, <1>t DEF StoppedRegistered, TypeOK
    <3>5. ASSUME NEW l \in Keys, agents'[l] # NoConn
          PROVE  /\ node'[agents'[l]] = l /\ closes'[agents'[l]] = 0
                 /\ reader'[agents'[l]] = "loop"
      <4>1. CASE l = k
        <5>1. agents'[l] = c /\ node'[c] = l /\ closes'[c] = 0
          BY <2>3, <2>5, <2>6, <3>1, <3>2, <4>1, <1>t DEF TypeOK
        <5>2. QED
          BY <2>4, <5>1
      <4>2. CASE l # k
        <5>1. PICK e \in Conns : e = agents[l] /\ agents'[l] = e
          BY <2>3, <2>6, <3>5, <4>2, <1>t DEF TypeOK
        <5>2. e # c /\ node[e] = l /\ closes[e] = 0 /\ reader[e] = "loop"
          BY <2>5, <5>1, <1>t DEF RegistryLive
        <5>3. e # d
          BY <3>1, <4>2, <5>2
        <5>4. node'[e] = l /\ closes'[e] = 0
          BY <2>6, <3>1, <3>2, <5>2, <5>3, <1>t DEF TypeOK
        <5>5. QED
          BY <2>4, <5>1, <5>2, <5>4
      <4>3. QED
        BY <4>1, <4>2
    <3>6. RegistryLive'
      BY <3>5 DEF RegistryLive
    <3>7. QED
      BY <3>3, <3>4, <3>6
  <2>9. QED
    BY <2>7, <2>8
<1>3. ASSUME NEW c \in Conns, ReadError(c)
      PROVE  NoPanic' /\ RegistryLive' /\ StoppedRegistered'
  <2>1. unregister(c) /\ node' = node /\ reader' = [reader EXCEPT ![c] = "exited"]
    BY <1>3 DEF ReadError
  <2>2. CASE node[c] # NoKey /\ agents[node[c]] = c
    <3>1. /\ agents' = [agents EXCEPT ![node[c]] = NoConn]
          /\ closes' = [closes EXCEPT ![c] = @ + 1]
      BY <2>1, <2>2 DEF unregister, Close
    <3>2. node[c] \in Keys /\ closes[c] = 0
      BY <2>2, <1>t DEF RegistryLive, TypeOK
    <3>3. NoPanic'
      BY <3>1, <3>2, <1>t DEF NoPanic, TypeOK
    <3>4. StoppedRegistered'
      BY <2>1, <2>2, <3>1, <1>t DEF StoppedRegistered, TypeOK
    <3>5. RegistryLive'
      BY <2>1, <3>1, <3>2, <1>t DEF RegistryLive, TypeOK
    <3>6. QED
      BY <3>3, <3>4, <3>5
  <2>3. CASE ~(node[c] # NoKey /\ agents[node[c]] = c)
    <3>1. agents' = agents /\ closes' = closes
      BY <2>1, <2>3 DEF unregister
    <3>2. ASSUME NEW l \in Keys, agents[l] = c PROVE FALSE
      BY <2>3, <3>2, <1>t DEF RegistryLive
    <3>3. QED
      BY <2>1, <3>1, <3>2, <1>t DEF NoPanic, RegistryLive, StoppedRegistered, TypeOK
  <2>4. QED
    BY <2>2, <2>3
<1>4. ASSUME NEW c \in Conns, HandleWebSocket(c) PROVE RegistrySame
  BY <1>4, <1>t DEF HandleWebSocket, RegistrySame, TypeOK
<1>5. ASSUME NEW c \in Conns,
             Disconnect(c) \/ AgentExecute(c) \/ CompleteTake(c) \/ CompleteSend(c)
             \/ WritePump(c)
      PROVE  RegistrySame
  BY <1>5 DEF Disconnect, AgentExecute, CompleteTake, CompleteSend, WritePump,
              WriteMessage, WriterExit, RegistrySame
<1>6. ASSUME NEW m \in Cmds, Handler(m) \/ NotAllowed(m) \/ CallerTimeout(m)
      PROVE  RegistrySame
  BY <1>6 DEF Handler, CheckConnected, LookupAgent, SendCommand, ReceiveResult,
              NotAllowed, CallerTimeout, RegistrySame
<1>7. ASSUME NEW k \in Keys, AgentDrop(k) \/ \E c \in Conns : AgentReply(c, k)
      PROVE  RegistrySame
  BY <1>7 DEF AgentDrop, AgentReply, RegistrySame
<1>8. CASE CleanupStale \/ UNCHANGED vars
  <2>1. RegistrySame
    BY <1>8 DEF CleanupStale, vars, RegistrySame
  <2>2. QED
    BY <2>1, <1>1
<1>9. QED
  BY <1>1, <1>2, <1>3, <1>4, <1>5, <1>6, <1>7, <1>8 DEF Next, ReadPump

(* Hub.register and Hub.unregister never close a done channel twice, and   *)
(* the registry never holds a connection the hub has given up, whatever    *)
(* the number of agents and connections and the order of takeovers.        *)
THEOREM RegistryCorrect == Spec => [](NoPanic /\ RegistryLive)
<1>1. Init => NoPanic /\ RegistryLive /\ StoppedRegistered
  BY DEF Init, NoPanic, RegistryLive, StoppedRegistered
<1>2. TypeInv /\ NoPanic /\ RegistryLive /\ StoppedRegistered /\ [Next]_vars
      => NoPanic' /\ RegistryLive' /\ StoppedRegistered'
  BY RegistryStep DEF RegistryInv
<1>3. QED
  BY <1>1, <1>2, TypeInvariant, PTL DEF Spec

(* Of the two: register and unregister never close a channel twice, which  *)
(* would panic the backend.                                                *)
THEOREM PanicCorrect == Spec => []NoPanic
  BY RegistryCorrect, PTL

(* A connection leaves the registry without a successor only when its own  *)
(* readPump exits, so the late exit of a replaced connection never drops   *)
(* the newer one.                                                          *)
THEOREM NewerSurvives == Spec => NewerConnectionSurvives
<1> DEFINE Kept == \A k \in Keys : agents[k] # NoConn /\ agents'[k] = NoConn =>
                      reader[agents[k]] = "loop" /\ reader'[agents[k]] = "exited"
<1>1. TypeInv /\ RegistryLive /\ [Next]_vars => [Kept]_vars
  <2> SUFFICES ASSUME TypeInv, RegistryLive, Next, NEW k \in Keys,
                      agents[k] # NoConn, agents'[k] = NoConn
               PROVE  reader[agents[k]] = "loop" /\ reader'[agents[k]] = "exited"
    OBVIOUS
  <2> USE HubAssumption DEF connVars, callVars, agentVars
  <2>t. TypeOK
    BY DEF TypeInv
  <2>1. ASSUME NEW c \in Conns, handleRegister(c) PROVE FALSE
    BY <2>1, <2>t DEF handleRegister, register, TypeOK
  <2>2. ASSUME NEW c \in Conns, ReadError(c)
        PROVE  reader[agents[k]] = "loop" /\ reader'[agents[k]] = "exited"
    <3>1. agents' # agents /\ unregister(c)
      BY <2>2 DEF ReadError
    <3>2. agents' = [agents EXCEPT ![node[c]] = NoConn] /\ agents[node[c]] = c
      BY <3>1 DEF unregister
    <3>3. agents[k] = c
      BY <3>2, <2>t DEF TypeOK
    <3>4. QED
      BY <3>3, <2>2, <2>t DEF ReadError, TypeOK
  <2>3. ASSUME agents' = agents PROVE FALSE
    BY <2>3
  <2>4. ASSUME NEW c \in Conns,
               HandleWebSocket(c) \/ Disconnect(c) \/ AgentExecute(c)
               \/ CompleteTake(c) \/ CompleteSend(c) \/ WritePump(c)
        PROVE  agents' = agents
    BY <2>4 DEF HandleWebSocket, Disconnect, AgentExecute, CompleteTake,
                CompleteSend, WritePump, WriteMessage, WriterExit
  <2>5. ASSUME NEW m \in Cmds, Handler(m) \/ NotAllowed(m) \/ CallerTimeout(m)
        PROVE  agents' = agents
    BY <2>5 DEF Handler, CheckConnected, LookupAgent, SendCommand, ReceiveResult,
                NotAllowed, CallerTimeout
  <2>6. ASSUME NEW l \in Keys, AgentDrop(l) \/ \E c \in Conns : AgentReply(c, l)
        PROVE  agents' = agents
    BY <2>6 DEF AgentDrop, AgentReply
  <2>7. CleanupStale => agents' = agents
    BY DEF CleanupStale
  <2>8. QED
    BY <2>1, <2>2, <2>3, <2>4, <2>5, <2>6, <2>7 DEF Next, ReadPump
<1>2. QED
  BY <1>1, TypeInvariant, RegistryCorrect, PTL DEF Spec, NewerConnectionSurvives
-----------------------------------------------------------------------------
(* Nothing is in flight for a command whose handler has not sent it: with  *)
(* it, OneResult and NoLostWakeup are inductive.                           *)
UnsentIdle ==
    \A m \in Cmds :
        caller[m] \notin {"waiting", "answered", "expired", "gaveup"} =>
            m \notin pending /\ result[m] = "empty" /\ \A c \in Conns : held[c] # m

ResultInv == OneResult /\ NoLostWakeup /\ UnsentIdle

(* Results are kept by every step of the hub and of the handlers.          *)
LEMMA ResultStep == TypeInv /\ ResultInv /\ [Next]_vars => ResultInv'
<1> SUFFICES ASSUME TypeInv, ResultInv, [Next]_vars PROVE ResultInv'
  OBVIOUS
<1> USE HubAssumption DEF connVars, callVars, agentVars
<1>t. TypeOK /\ InboxOK /\ OneResult /\ NoLostWakeup /\ UnsentIdle
  BY DEF TypeInv, ResultInv
<1>1. ASSUME NEW c \in Conns, CompleteTake(c) PROVE ResultInv'
  <2> DEFINE m == Head(inbox[c]).cmd
  <2>1. /\ held[c] = NoCmd /\ pending' = pending \ {m}
        /\ held' = [held EXCEPT ![c] = IF m \in pending THEN m ELSE NoCmd]
        /\ result' = result /\ caller' = caller
    BY <1>1 DEF CompleteTake, CanRead
  <2> HIDE DEF m
  <2>2. CASE m \in pending
    <3>1. m \in Cmds /\ result[m] = "empty" /\ \A d \in Conns : held[d] # m
      BY <2>2, <1>t DEF OneResult, TypeOK
    <3>2. held' = [held EXCEPT ![c] = m]
      BY <2>1, <2>2
    <3>3. OneResult'
      <4>1. \A d \in Conns : held'[d] = IF d = c THEN m ELSE held[d]
        BY <3>2, <1>t DEF TypeOK
      <4>2. QED
        BY <2>1, <3>1, <4>1, <1>t DEF OneResult
    <3>4. NoLostWakeup'
      BY <2>1, <3>1, <3>2, <1>t DEF NoLostWakeup, TypeOK
    <3>5. UnsentIdle'
      BY <2>1, <2>2, <3>1, <3>2, <1>t DEF UnsentIdle, TypeOK
    <3>6. QED
      BY <3>3, <3>4, <3>5 DEF ResultInv
  <2>3. CASE m \notin pending
    <3>1. held' = held /\ pending' = pending
      BY <2>1, <2>3, <1>t DEF TypeOK
    <3>2. QED
      BY <2>1, <3>1, <1>t DEF ResultInv, OneResult, NoLostWakeup, UnsentIdle
  <2>4. QED
    BY <2>2, <2>3
<1>2. ASSUME NEW c \in Conns, CompleteSend(c) PROVE ResultInv'
  <2> DEFINE m == held[c]
  <2>a. held[c] \in Cmds
    BY <1>2, <1>t DEF CompleteSend, TypeOK
  <2>1. m \in Cmds /\ result[m] = "empty" /\ m \notin pending
    BY <2>a, <1>t DEF OneResult
  <2>2. /\ result' = [result EXCEPT ![m] = "answer"]
        /\ held' = [held EXCEPT ![c] = NoCmd]
        /\ pending' = pending /\ caller' = caller
    BY <2>1, <1>2, <1>t DEF CompleteSend, Offer, TypeOK
  <2>3. caller[m] \in {"waiting", "answered", "expired", "gaveup"}
    BY <2>1, <1>t DEF UnsentIdle
  <2>4. \A d \in Conns : d # c => held[d] # m
    BY <2>1, <1>t DEF OneResult
  <2>5. \A d \in Conns : held'[d] = IF d = c THEN NoCmd ELSE held[d]
    BY <2>2, <1>t DEF TypeOK
  <2>6. \A n \in Cmds : result'[n] = IF n = m THEN "answer" ELSE result[n]
    BY <2>2, <1>t DEF TypeOK
  <2>7. m = held[c]
    OBVIOUS
  <2> HIDE DEF m
  <2>8. OneResult'
    BY <2>1, <2>2, <2>4, <2>5, <2>6, <1>t DEF OneResult
  <2>9. NoLostWakeup'
    BY <2>2, <2>5, <2>6, <2>7, <1>t DEF NoLostWakeup
  <2>10. UnsentIdle'
    BY <2>2, <2>3, <2>5, <2>6, <1>t DEF UnsentIdle
  <2>11. QED
    BY <2>8, <2>9, <2>10 DEF ResultInv
<1>3. ASSUME NEW m \in Cmds, SendCommand(m) PROVE ResultInv'
  <2>1. /\ m \notin pending /\ result[m] = "empty" /\ \A c \in Conns : held[c] # m
        /\ held' = held /\ result' = result
    BY <1>3, <1>t DEF SendCommand, UnsentIdle
  <2>2. CASE pending' = pending \cup {m} /\ caller' = [caller EXCEPT ![m] = "waiting"]
    BY <2>1, <2>2, <1>t DEF ResultInv, OneResult, NoLostWakeup, UnsentIdle, TypeOK
  <2>3. CASE pending' = pending \ {m} /\ caller' = [caller EXCEPT ![m] = Unsent(m)]
    <3>1. pending' = pending /\ Unsent(m) # "waiting"
      BY <2>1, <2>3 DEF Unsent
    <3>2. QED
      BY <2>1, <2>3, <3>1, <1>t DEF ResultInv, OneResult, NoLostWakeup, UnsentIdle, TypeOK
  <2>4. QED
    BY <2>2, <2>3, <1>3 DEF SendCommand
<1>4. ASSUME NEW m \in Cmds, ReceiveResult(m) PROVE ResultInv'
  <2>1. /\ m \notin pending /\ \A c \in Conns : held[c] # m
        /\ held' = held /\ pending' = pending
        /\ result' = [result EXCEPT ![m] = "empty"]
    BY <1>4, <1>t DEF ReceiveResult, OneResult
  <2>2. /\ \A n \in Cmds : n # m => caller'[n] = caller[n] /\ result'[n] = result[n]
        /\ caller'[m] # "waiting" /\ result'[m] = "empty"
    BY <2>1, <1>4, <1>t DEF ReceiveResult, TypeOK
  <2>3. QED
    BY <2>1, <2>2, <1>t DEF ResultInv, OneResult, NoLostWakeup, UnsentIdle
<1>5. ASSUME NEW m \in Cmds,
             NotAllowed(m) \/ CheckConnected(m) \/ LookupAgent(m) \/ CallerTimeout(m)
      PROVE  ResultInv'
  <2>1. held' = held /\ result' = result /\ pending' = pending
    BY <1>5 DEF NotAllowed, CheckConnected, LookupAgent, CallerTimeout
  <2>2. /\ \A n \in Cmds : n # m => caller'[n] = caller[n]
        /\ caller'[m] # "waiting"
        /\ \/ caller[m] = "waiting" /\ caller'[m] = "gaveup"
           \/ caller[m] \in {"idle", "checked"}
    BY <1>5, <1>t DEF NotAllowed, CheckConnected, LookupAgent, CallerTimeout,
                      Unsent, TypeOK
  <2>3. QED
    BY <2>1, <2>2, <1>t DEF ResultInv, OneResult, NoLostWakeup, UnsentIdle
<1>6. CASE CleanupStale
  <2>1. PICK old \in SUBSET pending :
           /\ pending' = pending \ old
           /\ result' = [m \in Cmds |-> IF m \in old /\ result[m] = "empty"
                                        THEN "stale" ELSE result[m]]
           /\ held' = held /\ caller' = caller
    BY <1>6 DEF CleanupStale
  <2>2. \A m \in Cmds : /\ m \in old => result'[m] # "empty" /\ m \in pending
                        /\ m \notin old => result'[m] = result[m]
    BY <2>1, <1>t DEF OneResult, TypeOK
  <2>3. QED
    BY <2>1, <2>2, <1>t DEF ResultInv, OneResult, NoLostWakeup, UnsentIdle
<1>7. ASSUME UNCHANGED <<pending, result, caller, held>> PROVE ResultInv'
  BY <1>7, <1>t DEF ResultInv, OneResult, NoLostWakeup, UnsentIdle
<1>8. ASSUME NEW c \in Conns,
             HandleWebSocket(c) \/ Disconnect(c) \/ AgentExecute(c)
             \/ handleRegister(c) \/ ReadError(c) \/ WritePump(c)
      PROVE  UNCHANGED <<pending, result, caller, held>>
  BY <1>8 DEF HandleWebSocket, Disconnect, AgentExecute, handleRegister, ReadError,
              WritePump, WriteMessage, WriterExit
<1>9. ASSUME NEW k \in Keys, AgentDrop(k) \/ \E c \in Conns : AgentReply(c, k)
      PROVE  UNCHANGED <<pending, result, caller, held>>
  BY <1>9 DEF AgentDrop, AgentReply
<1>10. CASE UNCHANGED vars
  BY <1>10, <1>7 DEF vars
<1>11. QED
  BY <1>1, <1>2, <1>3, <1>4, <1>5, <1>6, <1>7, <1>8, <1>9, <1>10
  DEF Next, ReadPump, Handler

(* CommandTracker loses no wake-up: a handler that waits is always pending,*)
(* answered or about to be, and the two producers of a result (Complete    *)
(* and CleanupStale) never compete for its channel's only slot.            *)
THEOREM ResultCorrect == Spec => [](NoLostWakeup /\ OneResult)
<1>1. Init => ResultInv
  BY HubAssumption DEF Init, ResultInv, OneResult, NoLostWakeup, UnsentIdle
<1>2. TypeInv /\ ResultInv /\ [Next]_vars => ResultInv'
  BY ResultStep
<1>3. ResultInv => NoLostWakeup /\ OneResult
  BY DEF ResultInv
<1>4. QED
  BY <1>1, <1>2, <1>3, TypeInvariant, PTL DEF Spec
-----------------------------------------------------------------------------
Sent == {"waiting", "answered", "expired", "gaveup"}

InSend(c, i, m) == i \in 1..Len(send[c]) /\ send[c][i] = m
InWire(c, i, m) == i \in 1..Len(wire[c]) /\ wire[c][i] = m

(* A command is in at most one place: one position of one connection's     *)
(* send buffer or one position of one wire.                                *)
PlaceOK ==
    \A m \in Cmds, c, d \in Conns, i, j \in Nat :
        /\ InSend(c, i, m) /\ InSend(d, j, m) => c = d /\ i = j
        /\ InWire(c, i, m) /\ InWire(d, j, m) => c = d /\ i = j
        /\ ~(InSend(c, i, m) /\ InWire(d, j, m))

(* A command in one of them has been sent by its handler and not yet been  *)
(* executed; what has been executed has been so once, and had been sent.   *)
QueuedOK ==
    /\ \A m \in Cmds, c \in Conns, i \in Nat :
          InSend(c, i, m) \/ InWire(c, i, m) => executed[m] = 0 /\ caller[m] \in Sent
    /\ \A m \in Cmds : executed[m] # 0 => executed[m] = 1 /\ caller[m] \in Sent

(* Taking the head off a queue, by position.                               *)
LEMMA Dequeue ==
    ASSUME NEW S, NEW s \in Seq(S), s # <<>>
    PROVE  /\ 1 \in 1..Len(s) /\ Head(s) = s[1] /\ s[1] \in S
           /\ Tail(s) \in Seq(S)
           /\ \A i \in 1..Len(Tail(s)) : i + 1 \in 1..Len(s) /\ Tail(s)[i] = s[i + 1]
  OBVIOUS

(* Putting an element at the end of a queue, by position.                  *)
LEMMA Enqueue ==
    ASSUME NEW S, NEW s \in Seq(S), NEW x \in S
    PROVE  \A i \in 1..Len(Append(s, x)) :
              \/ i \in 1..Len(s) /\ Append(s, x)[i] = s[i]
              \/ i = Len(s) + 1 /\ Append(s, x)[i] = x
  OBVIOUS

(* A step that leaves the queues and the executions alone keeps both, as   *)
(* long as no handler takes back that it has sent its command.             *)
LEMMA OnceSame ==
    ASSUME PlaceOK, QueuedOK, UNCHANGED <<send, wire, executed>>,
           \A m \in Cmds : caller[m] \in Sent => caller'[m] \in Sent
    PROVE  PlaceOK' /\ QueuedOK'
<1>1. \A m \in Cmds, c \in Conns, i \in Nat :
         /\ InSend(c, i, m)' <=> InSend(c, i, m)
         /\ InWire(c, i, m)' <=> InWire(c, i, m)
  BY DEF InSend, InWire
<1>2. QED
  BY <1>1 DEF PlaceOK, QueuedOK

(* Every step keeps each command in one place.                             *)
LEMMA OnceStep == TypeInv /\ PlaceOK /\ QueuedOK /\ [Next]_vars => PlaceOK' /\ QueuedOK'
<1> SUFFICES ASSUME TypeInv, PlaceOK, QueuedOK, [Next]_vars PROVE PlaceOK' /\ QueuedOK'
  OBVIOUS
<1> USE HubAssumption DEF connVars, callVars, agentVars
<1>t. TypeOK /\ TargetOK
  BY DEF TypeInv
<1>1. ASSUME NEW m \in Cmds, SendCommand(m) PROVE PlaceOK' /\ QueuedOK'
  <2>1. target[m] \in Conns /\ caller[m] = "found"
    BY <1>1, <1>t DEF SendCommand, TargetOK
  <2>2. wire' = wire /\ executed' = executed
    BY <1>1 DEF SendCommand
  <2>3. CASE send' = [send EXCEPT ![target[m]] = Append(@, m)]
             /\ caller' = [caller EXCEPT ![m] = "waiting"]
    <3>1. PICK c \in Conns : c = target[m]
      BY <2>1
    <3>2. PICK l \in Nat : l = Len(send[c]) + 1
      BY <3>1, <1>t DEF TypeOK
    <3>3. \A n \in Cmds, d \in Conns, i \in Nat :
             /\ InSend(d, i, n)' => InSend(d, i, n) \/ (d = c /\ i = l /\ n = m)
             /\ InWire(d, i, n)' <=> InWire(d, i, n)
      <4>1. \A d \in Conns : send'[d] = IF d = c THEN Append(send[c], m) ELSE send[d]
        BY <2>3, <3>1, <1>t DEF TypeOK
      <4>2. \A i \in 1..Len(Append(send[c], m)) :
               \/ i \in 1..Len(send[c]) /\ Append(send[c], m)[i] = send[c][i]
               \/ i = Len(send[c]) + 1 /\ Append(send[c], m)[i] = m
        <5>1. send[c] \in Seq(Cmds)
          BY <1>t DEF TypeOK
        <5>2. QED
          BY <5>1, Enqueue
      <4>3. QED
        BY <2>2, <3>2, <4>1, <4>2 DEF InSend, InWire
    <3>4. \A d \in Conns, i \in Nat : ~InSend(d, i, m) /\ ~InWire(d, i, m)
      BY <2>1 DEF QueuedOK, Sent
    <3>5. executed[m] = 0
      BY <2>1 DEF QueuedOK, Sent
    <3>6. \A n \in Cmds : caller'[n] = IF n = m THEN "waiting" ELSE caller[n]
      BY <2>3, <1>t DEF TypeOK
    <3>7. QED
      BY <2>2, <3>3, <3>4, <3>5, <3>6 DEF PlaceOK, QueuedOK, Sent
  <2>4. CASE send' = send /\ caller' = [caller EXCEPT ![m] = Unsent(m)]
    <3>1. \A n \in Cmds : caller[n] \in Sent => caller'[n] \in Sent
      BY <2>1, <2>4, <1>t DEF TypeOK, Sent
    <3>2. QED
      BY <2>2, <2>4, <3>1, OnceSame
  <2>5. QED
    BY <1>1, <2>3, <2>4 DEF SendCommand
<1>2. ASSUME NEW c \in Conns, WriteMessage(c) PROVE PlaceOK' /\ QueuedOK'
  <2>1. /\ send[c] \in Seq(Cmds) /\ send[c] # <<>> /\ wire[c] \in Seq(Cmds)
        /\ \A d \in Conns : send'[d] = IF d = c THEN Tail(send[c]) ELSE send[d]
        /\ \A d \in Conns :
              wire'[d] \in {wire[d], IF d = c THEN Append(wire[c], Head(send[c])) ELSE wire[d]}
        /\ executed' = executed /\ caller' = caller
    BY <1>2, <1>t DEF WriteMessage, TypeOK
  <2>2. PICK l \in Nat : l = Len(wire[c]) + 1
    BY <2>1
  <2>3. PICK m \in Cmds : m = Head(send[c]) /\ InSend(c, 1, m)
    BY <2>1, Dequeue DEF InSend
  <2>4. \A n \in Cmds, d \in Conns, i \in Nat :
           InSend(d, i, n)' => \/ d # c /\ InSend(d, i, n)
                               \/ d = c /\ i > 0 /\ InSend(c, i + 1, n)
    <3>1. \A i \in 1..Len(Tail(send[c])) :
             i + 1 \in 1..Len(send[c]) /\ Tail(send[c])[i] = send[c][i + 1]
      BY <2>1, Dequeue
    <3>2. ASSUME NEW n \in Cmds, NEW d \in Conns, NEW i \in Nat, InSend(d, i, n)'
          PROVE  \/ d # c /\ InSend(d, i, n)
                 \/ d = c /\ i > 0 /\ InSend(c, i + 1, n)
      <4>1. i \in 1..Len(send'[d]) /\ send'[d][i] = n
        BY <3>2 DEF InSend
      <4>2. CASE d = c
        <5>1. i \in 1..Len(Tail(send[c])) /\ Tail(send[c])[i] = n
          BY <2>1, <4>1, <4>2
        <5>2. QED
          BY <3>1, <4>2, <5>1 DEF InSend
      <4>3. CASE d # c
        BY <2>1, <4>1, <4>3 DEF InSend
      <4>4. QED
        BY <4>2, <4>3
    <3>3. QED
      BY <3>2
  <2>5. \A n \in Cmds, d \in Conns, i \in Nat :
           InWire(d, i, n)' => InWire(d, i, n) \/ (d = c /\ i = l /\ n = m)
    <3>1. \A i \in 1..Len(Append(wire[c], m)) :
             \/ i \in 1..Len(wire[c]) /\ Append(wire[c], m)[i] = wire[c][i]
             \/ i = Len(wire[c]) + 1 /\ Append(wire[c], m)[i] = m
      BY <2>1, Enqueue
    <3>2. QED
      BY <2>1, <2>2, <2>3, <3>1 DEF InWire
  <2>6. \A i \in Nat : i > 0 => i + 1 \in Nat /\ i + 1 # 1
    OBVIOUS
  <2>7. PlaceOK'
    <3> SUFFICES ASSUME NEW n \in Cmds, NEW d \in Conns, NEW e \in Conns,
                        NEW i \in Nat, NEW j \in Nat
                 PROVE  /\ InSend(d, i, n)' /\ InSend(e, j, n)' => d = e /\ i = j
                        /\ InWire(d, i, n)' /\ InWire(e, j, n)' => d = e /\ i = j
                        /\ ~(InSend(d, i, n)' /\ InWire(e, j, n)')
      BY DEF PlaceOK
    <3>1. InSend(d, i, n)' /\ InSend(e, j, n)' => d = e /\ i = j
      <4>1. InSend(c, i + 1, n) /\ InSend(c, j + 1, n) => i + 1 = j + 1
        BY DEF PlaceOK
      <4>2. QED
        BY <2>4, <2>6, <4>1 DEF PlaceOK
    <3>2. InWire(d, i, n)' /\ InWire(e, j, n)' => d = e /\ i = j
      BY <2>3, <2>5 DEF PlaceOK
    <3>3. ~(InSend(d, i, n)' /\ InWire(e, j, n)')
      BY <2>3, <2>4, <2>5, <2>6 DEF PlaceOK
    <3>4. QED
      BY <3>1, <3>2, <3>3
  <2>8. QueuedOK'
    <3>1. ASSUME NEW n \in Cmds, NEW d \in Conns, NEW i \in Nat,
                 InSend(d, i, n)' \/ InWire(d, i, n)'
          PROVE  executed[n] = 0 /\ caller[n] \in Sent
      <4>1. \E e \in Conns, j \in Nat : InSend(e, j, n) \/ InWire(e, j, n)
        <5>1. CASE InSend(d, i, n)'
          BY <2>4, <2>6, <5>1
        <5>2. CASE InWire(d, i, n)'
          BY <2>3, <2>5, <5>2
        <5>3. QED
          BY <3>1, <5>1, <5>2
      <4>2. QED
        BY <4>1 DEF QueuedOK
    <3>2. QED
      BY <2>1, <3>1 DEF QueuedOK
  <2>9. QED
    BY <2>7, <2>8
<1>3. ASSUME NEW c \in Conns, AgentExecute(c) PROVE PlaceOK' /\ QueuedOK'
  <2>1. /\ wire[c] \in Seq(Cmds) /\ wire[c] # <<>>
        /\ \A d \in Conns : wire'[d] = IF d = c THEN Tail(wire[c]) ELSE wire[d]
        /\ executed' = [executed EXCEPT ![Head(wire[c])] = @ + 1]
        /\ send' = send /\ caller' = caller
    BY <1>3, <1>t DEF AgentExecute, TypeOK
  <2>2. PICK m \in Cmds : m = Head(wire[c]) /\ InWire(c, 1, m)
    BY <2>1, Dequeue DEF InWire
  <2>3. \A n \in Cmds, d \in Conns, i \in Nat :
           /\ InWire(d, i, n)' => \/ d # c /\ InWire(d, i, n)
                                  \/ d = c /\ i > 0 /\ InWire(c, i + 1, n)
           /\ InSend(d, i, n)' <=> InSend(d, i, n)
    <3>1. \A i \in 1..Len(Tail(wire[c])) :
             i + 1 \in 1..Len(wire[c]) /\ Tail(wire[c])[i] = wire[c][i + 1]
      BY <2>1, Dequeue
    <3>2. ASSUME NEW n \in Cmds, NEW d \in Conns, NEW i \in Nat, InWire(d, i, n)'
          PROVE  \/ d # c /\ InWire(d, i, n)
                 \/ d = c /\ i > 0 /\ InWire(c, i + 1, n)
      <4>1. i \in 1..Len(wire'[d]) /\ wire'[d][i] = n
        BY <3>2 DEF InWire
      <4>2. CASE d = c
        <5>1. i \in 1..Len(Tail(wire[c])) /\ Tail(wire[c])[i] = n
          BY <2>1, <4>1, <4>2
        <5>2. QED
          BY <3>1, <4>2, <5>1 DEF InWire
      <4>3. CASE d # c
        BY <2>1, <4>1, <4>3 DEF InWire
      <4>4. QED
        BY <4>2, <4>3
    <3>3. \A n \in Cmds, d \in Conns, i \in Nat : InSend(d, i, n)' <=> InSend(d, i, n)
      BY <2>1 DEF InSend
    <3>4. QED
      BY <3>2, <3>3
  <2>4. \A i \in Nat : i > 0 => i + 1 \in Nat /\ i + 1 # 1
    OBVIOUS
  <2>5. PlaceOK'
    <3> SUFFICES ASSUME NEW n \in Cmds, NEW d \in Conns, NEW e \in Conns,
                        NEW i \in Nat, NEW j \in Nat
                 PROVE  /\ InSend(d, i, n)' /\ InSend(e, j, n)' => d = e /\ i = j
                        /\ InWire(d, i, n)' /\ InWire(e, j, n)' => d = e /\ i = j
                        /\ ~(InSend(d, i, n)' /\ InWire(e, j, n)')
      BY DEF PlaceOK
    <3>1. InWire(d, i, n)' /\ InWire(e, j, n)' => d = e /\ i = j
      <4>1. InWire(c, i + 1, n) /\ InWire(c, j + 1, n) => i + 1 = j + 1
        BY DEF PlaceOK
      <4>2. QED
        BY <2>3, <2>4, <4>1 DEF PlaceOK
    <3>2. QED
      BY <2>3, <2>4, <3>1 DEF PlaceOK
  <2>6. executed[m] = 0 /\ caller[m] \in Sent
    BY <2>2 DEF QueuedOK
  <2>7. \A n \in Cmds : executed'[n] = IF n = m THEN 1 ELSE executed[n]
    BY <2>1, <2>2, <2>6, <1>t DEF TypeOK
  <2>8. \A d \in Conns, i \in Nat : ~InWire(d, i, m)' /\ ~InSend(d, i, m)'
    BY <2>2, <2>3, <2>4 DEF PlaceOK
  <2>9. QueuedOK'
    BY <2>1, <2>3, <2>4, <2>6, <2>7, <2>8 DEF QueuedOK
  <2>10. QED
    BY <2>5, <2>9
<1>4. ASSUME NEW c \in Conns, Disconnect(c) PROVE PlaceOK' /\ QueuedOK'
  <2>1. /\ \A d \in Conns : wire'[d] = IF d = c THEN <<>> ELSE wire[d]
        /\ UNCHANGED <<send, executed, caller>>
    BY <1>4, <1>t DEF Disconnect, TypeOK
  <2>2. \A n \in Cmds, d \in Conns, i \in Nat :
           /\ InWire(d, i, n)' => InWire(d, i, n)
           /\ InSend(d, i, n)' <=> InSend(d, i, n)
    BY <2>1 DEF InSend, InWire
  <2>3. QED
    BY <2>1, <2>2 DEF PlaceOK, QueuedOK
<1>5. ASSUME NEW m \in Cmds,
             NotAllowed(m) \/ CheckConnected(m) \/ LookupAgent(m)
             \/ CallerTimeout(m) \/ ReceiveResult(m)
      PROVE  PlaceOK' /\ QueuedOK'
  <2>1. UNCHANGED <<send, wire, executed>>
    BY <1>5 DEF NotAllowed, CheckConnected, LookupAgent, CallerTimeout, ReceiveResult
  <2>2. \A n \in Cmds : caller[n] \in Sent => caller'[n] \in Sent
    BY <1>5, <1>t DEF NotAllowed, CheckConnected, LookupAgent, CallerTimeout,
                      ReceiveResult, Sent, TypeOK
  <2>3. QED
    BY <2>1, <2>2, OnceSame
<1>6. ASSUME UNCHANGED <<send, wire, executed, caller>> PROVE PlaceOK' /\ QueuedOK'
  BY <1>6, OnceSame
<1>7. ASSUME NEW c \in Conns,
             HandleWebSocket(c) \/ ReadPump(c) \/ WriterExit(c)
      PROVE  UNCHANGED <<send, wire, executed, caller>>
  BY <1>7 DEF HandleWebSocket, ReadPump, handleRegister, CompleteTake,
              CompleteSend, ReadError, WriterExit
<1>8. ASSUME NEW k \in Keys, AgentDrop(k) \/ \E c \in Conns : AgentReply(c, k)
      PROVE  UNCHANGED <<send, wire, executed, caller>>
  BY <1>8 DEF AgentDrop, AgentReply
<1>9. CASE CleanupStale \/ UNCHANGED vars
  BY <1>6, <1>9 DEF CleanupStale, vars
<1>10. QED
  BY <1>1, <1>2, <1>3, <1>4, <1>5, <1>6, <1>7, <1>8, <1>9
  DEF Next, WritePump, Handler

(* An action is executed at most once by the agent, and not at all when    *)
(* its handler fell back to the poller or reported that nothing was sent:  *)
(* SendCommand puts it into one send buffer, writePump moves it to one     *)
(* wire, and no reconnect ever sends it again.                             *)
THEOREM OnceCorrect == Spec => []AtMostOnce
<1>1. Init => PlaceOK /\ QueuedOK
  BY DEF Init, PlaceOK, QueuedOK, InSend, InWire
<1>2. TypeInv /\ PlaceOK /\ QueuedOK /\ [Next]_vars => PlaceOK' /\ QueuedOK'
  BY OnceStep
<1>3. QueuedOK => AtMostOnce
  <2>1. QueuedOK => \A m \in Cmds : \/ executed[m] = 0
                                    \/ executed[m] = 1 /\ caller[m] \in Sent
    BY DEF QueuedOK
  <2>2. QED
    BY <2>1 DEF AtMostOnce, Sent
<1>4. QED
  BY <1>1, <1>2, <1>3, TypeInvariant, PTL DEF Spec
=============================================================================
