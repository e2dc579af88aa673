------------------------ MODULE PveClusterJobsProofs ------------------------
(***************************************************************************)
(* Proofs about the cluster jobs, for any number of hosts, names and jobs  *)
(* running side by side, any number of attempts, restarts, activations and *)
(* ticks of Reconcile.                                                     *)
(***************************************************************************)
EXTENDS PveClusterJobs, FiniteSetTheorems, TLAPS

Running(j) == job[j].state = "running"

(* Where runJob is: before the new cluster exists, before the join         *)
(* information is there, at a joiner, past the inventory.                  *)
Forming == {"auth", "create", "cleanup", "recreate", "await"}
Early == Forming \cup {"info"}
AtJoiner == {"join", "wait", "reauth"}
Late == {"addPoller", "dropPollers"}

(* A running job: its request, the row it is about, which a new cluster    *)
(* has from the inventory phase on, and the joiners still to come.         *)
RunningOK(j) ==
    /\ job[j].founder \in Hosts /\ job[j].name \in Names /\ job[j].tok \in Hosts
    /\ job[j].tries < MaxTries
    /\ job[j].kind = "form" => /\ job[j].cluster = j
                               /\ job[j].pc \notin Late => cname[j] = NoName
                               /\ job[j].pc \in Late => cname[j] = job[j].name
    /\ job[j].kind = "join" => /\ job[j].cluster \in Rows
                               /\ job[j].name = cname[job[j].cluster]
                               /\ job[j].pc \notin Forming
    /\ job[j].pc \notin Early => job[j].todo \subseteq job[j].joiners
    /\ job[j].pc \in AtJoiner => job[j].cur \in job[j].joiners \ job[j].todo
    /\ job[j].pc \in Late \cup {"inventory"} => job[j].todo = {}

(* Only a form job that has come past the inventory has a row, its own.    *)
JobOK(j) ==
    /\ job[j].state = "none" => job[j] = NewJob
    /\ Running(j) <=> job[j].pc # "end"
    /\ Running(j) => RunningOK(j)
    /\ cname[j] # NoName => /\ job[j].kind = "form"
                            /\ job[j].state \in {"running", "succeeded", "lost"}
                            /\ job[j].cluster = j
    /\ job[j].state # "none" => job[j].founder \in Hosts

(* Cluster names are unique.                                               *)
RowsOK == \A c, d \in Rows : cname[c] = cname[d] => c = d

TypeInv == TypeOK /\ RowsOK /\ \A j \in Jobs : JobOK(j)

-----------------------------------------------------------------------------
(* The steps of runJob, as moves from one place in it to another.          *)

(* What a job is about does not change while it runs.                      *)
SameRequest(x, y) ==
    /\ y.kind = x.kind /\ y.name = x.name /\ y.cluster = x.cluster
    /\ y.founder = x.founder /\ y.joiners = x.joiners
    /\ y.tok = x.tok /\ y.passed = x.passed

Edges == {<<"auth", "create">>, <<"create", "await">>, <<"create", "cleanup">>,
          <<"cleanup", "recreate">>, <<"recreate", "await">>, <<"await", "info">>,
          <<"join", "wait">>, <<"wait", "reauth">>, <<"next", "inventory">>,
          <<"inventory", "addPoller">>, <<"inventory", "dropPollers">>,
          <<"addPoller", "dropPollers">>, <<"dropPollers", "addPoller">>}

(* One phase follows another and nothing else of the job changes.          *)
MovesOn(x, y) ==
    /\ <<x.pc, y.pc>> \in Edges
    /\ y.todo = x.todo /\ y.cur = x.cur /\ y.tries = x.tries
    /\ y.pc = "inventory" => x.todo = {}
    /\ x.kind = "form" => <<x.pc, y.pc>> \notin {<<"inventory", "dropPollers">>,
                                                 <<"dropPollers", "addPoller">>}
    /\ x.kind = "join" => <<x.pc, y.pc>> \notin {<<"inventory", "addPoller">>,
                                                 <<"addPoller", "dropPollers">>}

RetriesInfo(x, y) ==
    /\ x.pc = "info" /\ y.pc = "info" /\ y.todo = x.todo /\ y.cur = x.cur
    /\ y.tries = x.tries + 1 /\ y.tries < MaxTries

GetsInfo(x, y) ==
    /\ x.pc = "info" /\ y.pc = "next" /\ y.todo = x.joiners /\ y.cur = x.cur
    /\ y.tries = 0

TakesJoiner(x, y) ==
    /\ x.pc = "next" /\ y.pc = "join" /\ y.cur \in x.todo /\ y.todo = x.todo \ {y.cur}
    /\ y.tries = x.tries

DoneWithJoiner(x, y) ==
    /\ x.pc = "reauth" /\ y.pc = "next" /\ y.todo = x.todo /\ y.cur = NoHost
    /\ y.tries = x.tries

GoesOn(x, y) ==
    /\ y.state = "running"
    /\ \/ MovesOn(x, y) \/ RetriesInfo(x, y) \/ GetsInfo(x, y)
       \/ TakesJoiner(x, y) \/ DoneWithJoiner(x, y)

(* Nothing fails once the inventory is written.                            *)
Fails(x, y) == y.state = "failed" /\ y.pc = "end" /\ x.pc \notin Late

Succeeds(x, y) ==
    /\ y.state = "succeeded" /\ y.pc = "end" /\ x.pc \in Late
    /\ x.pc = "dropPollers" <=> x.kind = "form"

(* A job ends: the assignments of Fail and of Succeed, field by field.     *)
LEMMA Ended ==
    ASSUME job \in [Jobs -> Job], NEW j \in Jobs, NEW s \in {"succeeded", "failed"},
           job' = [job EXCEPT ![j].state = s, ![j].pc = "end"]
    PROVE  /\ job'[j].state = s /\ job'[j].pc = "end"
           /\ SameRequest(job[j], job'[j])
           /\ \A i \in Jobs : i # j => job'[i] = job[i]
           /\ job' \in [Jobs -> Job]
<1> DEFINE z == [job[j] EXCEPT !.state = s]
           y == [z EXCEPT !.pc = "end"]
<1>1. job[j] \in Job
  OBVIOUS
<1>2. z \in Job /\ z.state = s
  BY <1>1 DEF Job
<1>3. SameRequest(job[j], z)
  BY <1>1 DEF Job, SameRequest
<1>4. job' = [job EXCEPT ![j] = y]
  OBVIOUS
<1> HIDE DEF z
<1>5. y \in Job /\ y.pc = "end" /\ y.state = z.state
  BY <1>2 DEF Job, PCs
<1>6. SameRequest(z, y)
  BY <1>2 DEF Job, SameRequest
<1> HIDE DEF y
<1>7. SameRequest(job[j], y)
  BY <1>3, <1>6 DEF SameRequest
<1>8. /\ job'[j] = y /\ job' \in [Jobs -> Job]
      /\ \A i \in Jobs : i # j => job'[i] = job[i]
  BY <1>4, <1>5
<1>9. QED
  BY <1>2, <1>5, <1>7, <1>8

(* Goto: a job that runs is somewhere else.                                *)
LEMMA GoneTo ==
    ASSUME job \in [Jobs -> Job], NEW j \in Jobs, NEW p \in PCs, Goto(j, p)
    PROVE  /\ job'[j].state = job[j].state /\ job'[j].pc = p
           /\ SameRequest(job[j], job'[j])
           /\ job'[j].todo = job[j].todo /\ job'[j].cur = job[j].cur
           /\ job'[j].tries = job[j].tries
           /\ \A i \in Jobs : i # j => job'[i] = job[i]
           /\ job' \in [Jobs -> Job]
<1> DEFINE y == [job[j] EXCEPT !.pc = p]
<1>1. job[j] \in Job
  OBVIOUS
<1>2. /\ y.state = job[j].state /\ y.pc = p /\ SameRequest(job[j], y) /\ y \in Job
      /\ y.todo = job[j].todo /\ y.cur = job[j].cur /\ y.tries = job[j].tries
  BY <1>1 DEF Job, SameRequest
<1>3. job' = [job EXCEPT ![j] = y]
  BY DEF Goto
<1> HIDE DEF y
<1>4. QED
  BY <1>2, <1>3

(* Whatever runJob does, it does to its own job, which goes on, fails or   *)
(* succeeds.                                                               *)
Result(j) ==
    /\ Running(j) /\ job' \in [Jobs -> Job]
    /\ \A i \in Jobs : i # j => job'[i] = job[i]
    /\ SameRequest(job[j], job'[j])
    /\ GoesOn(job[j], job'[j]) \/ Fails(job[j], job'[j]) \/ Succeeds(job[j], job'[j])

(* What runJob can do to its job, whichever phase it is in.                *)
LEMMA Transitions == ASSUME TypeInv, NEW j \in Jobs, runJob(j) PROVE Result(j)
<1>t. job \in [Jobs -> Job] /\ job[j] \in Job /\ JobOK(j)
  BY DEF TypeInv, TypeOK
<1>f. ASSUME Running(j), job[j].pc \notin Late, Fail(j) PROVE Result(j)
  BY <1>f, <1>t, Ended DEF Fail, Result, Fails
<1>g. ASSUME NEW p \in PCs, Running(j), Goto(j, p), <<job[j].pc, p>> \in Edges,
             p = "inventory" => job[j].todo = {},
             job[j].kind = "form" => <<job[j].pc, p>> \notin {<<"inventory", "dropPollers">>,
                                                            <<"dropPollers", "addPoller">>},
             job[j].kind = "join" => <<job[j].pc, p>> \notin {<<"inventory", "addPoller">>,
                                                            <<"addPoller", "dropPollers">>}
      PROVE  Result(j)
  <2>1. MovesOn(job[j], job'[j])
    BY <1>g, <1>t, GoneTo DEF MovesOn
  <2>2. QED
    BY <1>g, <1>t, <2>1, GoneTo DEF Result, GoesOn, Running
<1>1. CASE Authenticate(j)
  BY <1>1, <1>f, <1>g DEF Authenticate, At, Running, Edges, PCs, Late
<1>2. CASE Create(j)
  BY <1>2, <1>f, <1>g DEF Create, CreateRejected, At, Running, Edges, PCs, Late
<1>3. CASE Cleanup(j)
  BY <1>3, <1>f, <1>g DEF Cleanup, At, Running, Edges, PCs, Late
<1>4. CASE Recreate(j)
  BY <1>4, <1>f, <1>g DEF Recreate, CreateRejected, At, Running, Edges, PCs, Late
<1>5. CASE AwaitCreate(j)
  BY <1>5, <1>f, <1>g DEF AwaitCreate, At, Running, Edges, PCs, Late
<1>6. CASE FetchJoinInfo(j)
  <2> DEFINE x == [job[j] EXCEPT !.pc = "next", !.todo = job[j].joiners]
             y == [x EXCEPT !.tries = 0]
  <2>1. job' = [job EXCEPT ![j] = y] /\ At(j, "info")
    BY <1>6 DEF FetchJoinInfo
  <2>2. /\ x \in Job /\ SameRequest(job[j], x) /\ x.state = job[j].state
        /\ x.pc = "next" /\ x.todo = job[j].joiners /\ x.cur = job[j].cur
    BY <1>t, <2>1 DEF Job, PCs, SameRequest, At
  <2>4. 0 \in 0..MaxTries
    BY JobAssumption
  <2> HIDE DEF x
  <2>5. /\ y \in Job /\ SameRequest(x, y) /\ y.state = x.state /\ y.pc = x.pc
        /\ y.todo = x.todo /\ y.cur = x.cur /\ y.tries = 0
    BY <2>2, <2>4 DEF Job, SameRequest
  <2> HIDE DEF y
  <2>6. SameRequest(job[j], y) /\ GetsInfo(job[j], y) /\ y.state = job[j].state
    BY <2>1, <2>2, <2>5 DEF SameRequest, GetsInfo, At
  <2>3. QED
    BY <2>1, <2>5, <2>6, <1>t DEF Result, GoesOn, Running, At
<1>7. CASE FetchFails(j)
  <2>1. CASE Fail(j)
    BY <1>7, <2>1, <1>f DEF FetchFails, At, Running, Late
  <2>2. CASE job[j].tries + 1 < MaxTries /\ job' = [job EXCEPT ![j].tries = @ + 1]
    <3> DEFINE y == [job[j] EXCEPT !.tries = job[j].tries + 1]
    <3>1. job' = [job EXCEPT ![j] = y] /\ At(j, "info") /\ job[j].tries + 1 < MaxTries
      BY <1>7, <2>2 DEF FetchFails
    <3>2. y \in Job /\ SameRequest(job[j], y) /\ y.state = job[j].state
          /\ RetriesInfo(job[j], y)
      BY <1>t, <3>1, JobAssumption DEF Job, SameRequest, RetriesInfo, At
    <3> HIDE DEF y
    <3>3. QED
      BY <3>1, <3>2, <1>t DEF Result, GoesOn, Running, At
  <2>3. QED
    BY <1>7, <2>1, <2>2 DEF FetchFails
<1>8. ASSUME NEW h \in Hosts, NextJoiner(j, h) PROVE Result(j)
  <2> DEFINE y == [job[j] EXCEPT !.pc = "join", !.cur = h, !.todo = job[j].todo \ {h}]
  <2>1. job' = [job EXCEPT ![j] = y] /\ At(j, "next") /\ h \in job[j].todo
    BY <1>8 DEF NextJoiner
  <2>2. y \in Job /\ SameRequest(job[j], y) /\ y.state = job[j].state
        /\ TakesJoiner(job[j], y)
    BY <1>t, <2>1 DEF Job, PCs, SameRequest, TakesJoiner, At
  <2> HIDE DEF y
  <2>3. QED
    BY <2>1, <2>2, <1>t DEF Result, GoesOn, Running, At
<1>9. CASE Join(j)
  BY <1>9, <1>f, <1>g DEF Join, JoinFailed, At, Running, Edges, PCs, Late
<1>10. CASE WaitForMembership(j)
  BY <1>10, <1>f, <1>g DEF WaitForMembership, JoinFailed, At, Running, Edges, PCs, Late
<1>11. CASE Reauth(j)
  <2>1. CASE Fail(j)
    BY <1>11, <2>1, <1>f DEF Reauth, At, Running, Late
  <2>2. CASE job' = [job EXCEPT ![j].pc = "next", ![j].cur = NoHost]
    <3> DEFINE y == [job[j] EXCEPT !.pc = "next", !.cur = NoHost]
    <3>1. job' = [job EXCEPT ![j] = y] /\ At(j, "reauth")
      BY <1>11, <2>2, <1>t DEF Reauth
    <3>2. y \in Job /\ SameRequest(job[j], y) /\ y.state = job[j].state
          /\ DoneWithJoiner(job[j], y)
      BY <1>t, <3>1 DEF Job, PCs, SameRequest, DoneWithJoiner, At
    <3> HIDE DEF y
    <3>3. QED
      BY <3>1, <3>2, <1>t DEF Result, GoesOn, Running, At
  <2>3. QED
    BY <1>11, <2>1, <2>2 DEF Reauth
<1>12. CASE JoinersDone(j)
  BY <1>12, <1>g DEF JoinersDone, At, Running, Edges, PCs
<1>13. CASE FormClusterFromHosts(j)
  BY <1>13, <1>g DEF FormClusterFromHosts, At, Running, Edges, PCs
<1>14. CASE AddHostsToCluster(j)
  BY <1>14, <1>g DEF AddHostsToCluster, At, Running, Edges, PCs
<1>15. CASE InventoryFails(j)
  BY <1>15, <1>f DEF InventoryFails, At, Running, Late
<1>16. CASE AddPoller(j)
  <2>1. Running(j) /\ job[j].pc = "addPoller"
        /\ IF job[j].kind = "form" THEN Goto(j, "dropPollers") ELSE Succeed(j)
    BY <1>16 DEF AddPoller, At, Running
  <2>2. CASE job[j].kind = "form"
    BY <2>1, <2>2, <1>g DEF Edges, PCs
  <2>3. CASE job[j].kind # "form"
    BY <2>1, <2>3, <1>t, Ended DEF Succeed, Result, Succeeds, Late
  <2>4. QED
    BY <2>2, <2>3
<1>17. CASE DropPollers(j)
  <2>1. Running(j) /\ job[j].pc = "dropPollers"
        /\ IF job[j].kind = "form" THEN Succeed(j) ELSE Goto(j, "addPoller")
    BY <1>17 DEF DropPollers, At, Running
  <2>2. CASE job[j].kind # "form"
    <3>1. job[j].kind = "join"
      BY <1>t, <2>2 DEF Job
    <3>2. QED
      BY <2>1, <3>1, <1>g DEF Edges, PCs
  <2>3. CASE job[j].kind = "form"
    BY <2>1, <2>3, <1>t, Ended DEF Succeed, Result, Succeeds, Late
  <2>4. QED
    BY <2>2, <2>3
<1>18. QED
  BY <1>1, <1>2, <1>3, <1>4, <1>5, <1>6, <1>7, <1>8, <1>9, <1>10, <1>11, <1>12, <1>13,
     <1>14, <1>15, <1>16, <1>17 DEF runJob

(* A cluster row is inserted by the inventory phase of a form job, under a *)
(* name no other row has; rows never go.                                   *)
LEMMA RowStep ==
    ASSUME TypeInv, NEW j \in Jobs, runJob(j)
    PROVE  \/ /\ job[j].pc = "inventory" /\ job'[j].pc = "addPoller" /\ job[j].kind = "form"
              /\ cname' = [cname EXCEPT ![j] = job[j].name]
              /\ \A c \in Rows : cname[c] # job[j].name
              /\ FormClusterFromHosts(j)
           \/ /\ ~(job[j].pc = "inventory" /\ job'[j].pc = "addPoller")
              /\ cname' = cname
<1>t. job \in [Jobs -> Job] /\ job[j] \in Job
  BY DEF TypeInv, TypeOK
<1>1. CASE FormClusterFromHosts(j)
  <2>1. Goto(j, "addPoller") /\ "addPoller" \in PCs
    BY <1>1 DEF FormClusterFromHosts, PCs
  <2>2. job'[j].pc = "addPoller"
    BY <2>1, <1>t, GoneTo
  <2>3. QED
    BY <1>1, <2>2 DEF FormClusterFromHosts, At
<1>2. CASE AddHostsToCluster(j)
  <2>1. Goto(j, "dropPollers") /\ "dropPollers" \in PCs /\ cname' = cname
    BY <1>2 DEF AddHostsToCluster, PCs
  <2>2. job'[j].pc = "dropPollers"
    BY <2>1, <1>t, GoneTo
  <2>3. QED
    BY <2>1, <2>2
<1>3. CASE InventoryFails(j)
  <2>1. Fail(j) /\ cname' = cname
    BY <1>3 DEF InventoryFails, inventory
  <2>2. job'[j].pc = "end"
    BY <2>1, <1>t, Ended DEF Fail
  <2>3. QED
    BY <2>1, <2>2
<1>4. CASE ~(FormClusterFromHosts(j) \/ AddHostsToCluster(j) \/ InventoryFails(j))
  <2>1. cname' = cname /\ job[j].pc # "inventory"
    BY <1>4 DEF runJob, inventory, world, At, Authenticate, Create, Cleanup, Recreate, AwaitCreate,
       FetchJoinInfo, FetchFails, NextJoiner, Join, WaitForMembership, Reauth, JoinersDone,
       AddPoller, DropPollers
  <2>2. QED
    BY <2>1
<1>5. QED
  BY <1>1, <1>2, <1>3, <1>4

StepState == {"none", "pending", "running", "succeeded", "failed"}
StepsType == [Jobs -> [Hosts \X Phases -> StepState]]

(* startStep, succeedStep and failStep change one step of one job.         *)
LEMMA StepSet ==
    ASSUME step \in StepsType, NEW j \in Jobs, NEW h \in Hosts, NEW p \in Phases,
           NEW s \in StepState, SetStep(j, h, p, s)
    PROVE  /\ step' \in StepsType
           /\ \A i \in Jobs, x \in Hosts, q \in Phases :
                 step'[i][<<x, q>>] = IF i = j /\ x = h /\ q = p THEN s ELSE step[i][<<x, q>>]
           /\ \A i \in Jobs : i # j => step'[i] = step[i]
<1> DEFINE row == [step[j] EXCEPT ![<<h, p>>] = s]
<1>1. <<h, p>> \in Hosts \X Phases /\ step[j] \in [Hosts \X Phases -> StepState]
  BY DEF StepsType
<1>2. row \in [Hosts \X Phases -> StepState]
  BY <1>1
<1>3. \A x \in Hosts, q \in Phases :
         row[<<x, q>>] = IF x = h /\ q = p THEN s ELSE step[j][<<x, q>>]
  BY <1>1
<1>4. step' = [step EXCEPT ![j] = row]
  BY DEF SetStep
<1> HIDE DEF row
<1>5. QED
  BY <1>2, <1>3, <1>4 DEF StepsType

(* One step succeeds and the next one starts.                              *)
LEMMA StepAdvanced ==
    ASSUME step \in StepsType, NEW j \in Jobs, NEW h \in Hosts, NEW p \in Phases,
           NEW h2 \in Hosts, NEW p2 \in Phases, Advance(j, h, p, h2, p2)
    PROVE  /\ step' \in StepsType
           /\ \A i \in Jobs, x \in Hosts, q \in Phases :
                 step'[i][<<x, q>>] = IF i = j /\ x = h2 /\ q = p2 THEN "running"
                                      ELSE IF i = j /\ x = h /\ q = p THEN "succeeded"
                                      ELSE step[i][<<x, q>>]
           /\ \A i \in Jobs : i # j => step'[i] = step[i]
<1> DEFINE row == [step[j] EXCEPT ![<<h, p>>] = "succeeded"]
           row2 == [row EXCEPT ![<<h2, p2>>] = "running"]
<1>1. <<h, p>> \in Hosts \X Phases /\ step[j] \in [Hosts \X Phases -> StepState]
      /\ <<h2, p2>> \in Hosts \X Phases
  BY DEF StepsType
<1>2. row \in [Hosts \X Phases -> StepState]
  BY <1>1 DEF StepState
<1>3. \A x \in Hosts, q \in Phases :
         row[<<x, q>>] = IF x = h /\ q = p THEN "succeeded" ELSE step[j][<<x, q>>]
  BY <1>1
<1>4. step' = [step EXCEPT ![j] = row2]
  BY DEF Advance, StepsType
<1> HIDE DEF row
<1>5. row2 \in [Hosts \X Phases -> StepState]
  BY <1>1, <1>2 DEF StepState
<1>6. \A x \in Hosts, q \in Phases :
         row2[<<x, q>>] = IF x = h2 /\ q = p2 THEN "running" ELSE row[<<x, q>>]
  BY <1>1, <1>2
<1> HIDE DEF row2
<1>7. QED
  BY <1>3, <1>4, <1>5, <1>6 DEF StepsType

(* The steps a job x has not been through: they may be pending or running, *)
(* all others were never seeded or have succeeded.                         *)
Open(x, h, q) ==
    \/ q = "create" /\ h = x.founder /\ x.pc \in Forming
    \/ q = "cleanup" /\ h = x.founder /\ x.pc = "cleanup"
    \/ q = "info" /\ h = x.founder /\ x.pc \in Early
    \/ q = "inventory" /\ h = x.founder /\ x.pc \notin Late
    \/ /\ q = "join" /\ h \in x.joiners
       /\ x.pc \in Early \/ h \in x.todo \/ (x.pc \in {"join", "wait"} /\ h = x.cur)
    \/ /\ q = "reauth" /\ h \in x.joiners
       /\ x.pc \in Early \/ h \in x.todo \/ (x.pc \in AtJoiner /\ h = x.cur)

StepDone(j, h, q) == step[j][<<h, q>>] \in {"none", "succeeded"}

StepsOK(j) ==
    /\ Running(j) => \A h \in Hosts, q \in Phases : Open(job[j], h, q) \/ StepDone(j, h, q)
    /\ job[j].state = "succeeded" => \A h \in Hosts, q \in Phases : StepDone(j, h, q)

(* What runJob does to the steps: those of its own job only, and a phase   *)
(* is left only with its step succeeded.                                   *)
LEMMA StepStep ==
    ASSUME TypeInv, NEW j \in Jobs, runJob(j)
    PROVE  /\ step' \in StepsType
           /\ \A i \in Jobs : i # j => step'[i] = step[i]
           /\ StepsOK(j) => StepsOK(j)'
<1> DEFINE Goal == /\ step' \in StepsType
                   /\ \A i \in Jobs : i # j => step'[i] = step[i]
                   /\ StepsOK(j) => StepsOK(j)'
           Others == step' \in StepsType /\ \A i \in Jobs : i # j => step'[i] = step[i]
           Closed(h, q) == step[j][<<h, q>>] \in {"none", "succeeded"}
           Moves(p) == /\ job'[j].state = "running" /\ job'[j].pc = p
                       /\ job'[j].founder = job[j].founder /\ job'[j].joiners = job[j].joiners
                       /\ job'[j].todo = job[j].todo /\ job'[j].cur = job[j].cur
<1>t. /\ job \in [Jobs -> Job] /\ job[j] \in Job /\ JobOK(j) /\ step \in StepsType
  BY DEF TypeInv, TypeOK, StepsType, StepState
<1>r. Result(j)
  BY Transitions
<1>o. /\ Running(j) /\ RunningOK(j) /\ job[j].founder \in Hosts
      /\ job[j].pc \in AtJoiner => job[j].cur \in Hosts
  BY <1>t, <1>r DEF Result, JobOK, RunningOK, Job
<1>f. ASSUME Fail(j), Others PROVE Goal
  <2>1. job'[j].state = "failed"
    BY <1>f, <1>t, Ended DEF Fail
  <2>2. QED
    BY <1>f, <2>1 DEF StepsOK, Running
<1>s. ASSUME NEW h \in Hosts, NEW p \in Phases, NEW s \in StepState, SetStep(j, h, p, s)
      PROVE  /\ Others
             /\ \A x \in Hosts, q \in Phases :
                   step'[j][<<x, q>>] = IF x = h /\ q = p THEN s ELSE step[j][<<x, q>>]
  <2>1. step \in StepsType
    BY <1>t
  <2>2. /\ Others
        /\ \A i \in Jobs, x \in Hosts, q \in Phases :
              step'[i][<<x, q>>] = IF i = j /\ x = h /\ q = p THEN s ELSE step[i][<<x, q>>]
    BY <1>s, <2>1, StepSet
  <2>3. QED
    BY <2>2
<1>g. ASSUME Others, job'[j].state = "running",
             \A x \in Hosts, q \in Phases :
                Open(job[j], x, q) \/ Closed(x, q) => Open(job'[j], x, q) \/ Closed(x, q)'
      PROVE  Goal
  BY <1>g, <1>o DEF StepsOK, StepDone, Running
<1>h. job[j].founder \in Hosts
  BY <1>o
<1>k. /\ {"create", "cleanup", "info", "join", "reauth", "inventory"} \subseteq Phases
      /\ {"running", "succeeded"} \subseteq StepState
  BY DEF Phases, StepState
<1>u. ASSUME NEW h \in Hosts, NEW p \in Phases, NEW s \in StepState, SetStep(j, h, p, s),
             job'[j].state = "running", s = "succeeded" \/ Open(job'[j], h, p),
             \A x \in Hosts, q \in Phases :
                Open(job[j], x, q) => Open(job'[j], x, q) \/ (x = h /\ q = p)
      PROVE  Goal
  <2>0. SetStep(j, h, p, s)
    BY <1>u
  <2>1. Others /\ \A x \in Hosts, q \in Phases :
           step'[j][<<x, q>>] = IF x = h /\ q = p THEN s ELSE step[j][<<x, q>>]
    BY ONLY <2>0, <1>s, h \in Hosts, p \in Phases, s \in StepState
  <2>2. Others
    BY <2>1
  <2>3. ASSUME NEW x \in Hosts, NEW q \in Phases, Open(job[j], x, q) \/ Closed(x, q)
        PROVE  Open(job'[j], x, q) \/ Closed(x, q)'
    <3>1. CASE x = h /\ q = p
      BY <1>u, <2>1, <3>1
    <3>2. CASE ~(x = h /\ q = p)
      BY <1>u, <2>1, <2>3, <3>2
    <3>3. QED
      BY <3>1, <3>2
  <2>4. QED
    BY <1>u, <1>g, <2>2, <2>3
<1>v. ASSUME NEW h \in Hosts, NEW p \in Phases, NEW h2 \in Hosts, NEW p2 \in Phases,
             Advance(j, h, p, h2, p2), job'[j].state = "running", Open(job'[j], h2, p2),
             \A x \in Hosts, q \in Phases :
                Open(job[j], x, q) => Open(job'[j], x, q) \/ (x = h /\ q = p)
      PROVE  Goal
  <2>1. Others /\ \A x \in Hosts, q \in Phases :
           step'[j][<<x, q>>] = IF x = h2 /\ q = p2 THEN "running"
                                ELSE IF x = h /\ q = p THEN "succeeded"
                                ELSE step[j][<<x, q>>]
    BY <1>v, <1>t, StepAdvanced
  <2>2. QED
    BY <1>v, <1>g, <2>1
<1>m. ASSUME NEW p \in PCs, Goto(j, p) PROVE Moves(p)
  BY <1>m, <1>t, <1>o, GoneTo DEF SameRequest, Running
<1> USE DEF At
<1>1. CASE Authenticate(j)
  <2>1. CASE Fail(j) /\ UNCHANGED step
    BY <1>f, <1>t, <2>1
  <2>2. CASE Goto(j, "create") /\ SetStep(j, Founder(j), "create", "running")
    <3>1. Moves("create") /\ job[j].pc = "auth"
      BY <1>1, <2>2, <1>m DEF Authenticate, PCs
    <3>2. Open(job'[j], job[j].founder, "create")
      BY <3>1 DEF Open, Forming
    <3>3. \A x \in Hosts, q \in Phases : Open(job[j], x, q) => Open(job'[j], x, q)
      BY <3>1 DEF Open, Forming, Early, AtJoiner, Late
    <3>4. QED
      BY <2>2, <3>1, <3>2, <3>3, <1>u, <1>h, <1>k DEF Founder
  <2>3. QED
    BY <1>1, <2>1, <2>2 DEF Authenticate
<1>2. CASE Create(j) \/ Recreate(j)
  <2>1. CASE CreateRejected(j)
    BY <1>f, <1>s, <1>o, <2>1 DEF CreateRejected, Founder, Phases, StepState
  <2>2. CASE Goto(j, "await") /\ UNCHANGED step
    <3>1. Moves("await") /\ job[j].pc \in {"create", "recreate"}
      BY <1>2, <2>2, <1>m DEF Create, Recreate, PCs
    <3>2. \A x \in Hosts, q \in Phases : Open(job[j], x, q) => Open(job'[j], x, q)
      BY <3>1 DEF Open, Forming, Early, AtJoiner, Late
    <3>3. QED
      BY <2>2, <3>1, <3>2, <1>g, <1>t
  <2>3. CASE Goto(j, "cleanup") /\ SetStep(j, Founder(j), "cleanup", "running")
    <3>1. Moves("cleanup") /\ job[j].pc \in {"create", "recreate"}
      BY <1>2, <2>3, <1>m DEF Create, Recreate, PCs
    <3>2. Open(job'[j], job[j].founder, "cleanup")
      BY <3>1 DEF Open
    <3>3. \A x \in Hosts, q \in Phases : Open(job[j], x, q) => Open(job'[j], x, q)
      BY <3>1 DEF Open, Forming, Early, AtJoiner, Late
    <3>4. QED
      BY <2>3, <3>1, <3>2, <3>3, <1>u, <1>h, <1>k DEF Founder
  <2>4. QED
    BY <1>2, <2>1, <2>2, <2>3 DEF Create, Recreate
<1>3. CASE Cleanup(j)
  <2>1. CASE Goto(j, "recreate") /\ SetStep(j, Founder(j), "cleanup", "succeeded")
    <3>1. Moves("recreate") /\ job[j].pc = "cleanup"
      BY <1>3, <2>1, <1>m DEF Cleanup, PCs
    <3>2. \A x \in Hosts, q \in Phases :
             Open(job[j], x, q) => Open(job'[j], x, q) \/ (x = job[j].founder /\ q = "cleanup")
      BY <3>1 DEF Open, Forming, Early, AtJoiner, Late
    <3>3. QED
      BY <2>1, <3>1, <3>2, <1>u, <1>h, <1>k DEF Founder
  <2>2. ASSUME Fail(j), step' = [step EXCEPT ![j][<<Founder(j), "cleanup">>] = "failed",
                                            ![j][<<Founder(j), "create">>] = "failed"]
        PROVE  Goal
    <3> DEFINE row == [step[j] EXCEPT ![<<Founder(j), "cleanup">>] = "failed"]
               row2 == [row EXCEPT ![<<Founder(j), "create">>] = "failed"]
    <3>1. row \in [Hosts \X Phases -> StepState]
      BY <1>t DEF StepsType, Phases, StepState
    <3>2. step' = [step EXCEPT ![j] = row2]
      BY <2>2, <1>t DEF StepsType
    <3> HIDE DEF row
    <3>3. row2 \in [Hosts \X Phases -> StepState]
      BY <3>1 DEF Phases, StepState
    <3> HIDE DEF row2
    <3>4. Others
      BY <3>2, <3>3, <1>t DEF StepsType
    <3>5. QED
      BY <1>f, <2>2, <3>4
  <2>3. QED
    BY <1>3, <2>1, <2>2 DEF Cleanup
<1>4. CASE AwaitCreate(j)
  <2>1. CASE Fail(j) /\ SetStep(j, Founder(j), "create", "failed")
    BY <1>f, <1>s, <1>o, <2>1 DEF Founder, Phases, StepState
  <2>2. CASE Goto(j, "info") /\ Advance(j, Founder(j), "create", Founder(j), "info")
    <3>1. Moves("info") /\ job[j].pc = "await"
      BY <1>4, <2>2, <1>m DEF AwaitCreate, PCs
    <3>2. Open(job'[j], job[j].founder, "info")
      BY <3>1 DEF Open, Early
    <3>3. \A x \in Hosts, q \in Phases :
             Open(job[j], x, q) => Open(job'[j], x, q) \/ (x = job[j].founder /\ q = "create")
      BY <3>1 DEF Open, Forming, Early, AtJoiner, Late
    <3>4. QED
      BY <2>2, <3>1, <3>2, <3>3, <1>v, <1>o DEF Founder, Phases
  <2>3. QED
    BY <1>4, <2>1, <2>2 DEF AwaitCreate
<1>5. CASE FetchJoinInfo(j)
  <2>1. At(j, "info") /\ SetStep(j, Founder(j), "info", "succeeded")
        /\ job' = [job EXCEPT ![j] = [job[j] EXCEPT !.pc = "next", !.todo = job[j].joiners,
                                                    !.tries = 0]]
    BY <1>5 DEF FetchJoinInfo
  <2>2. /\ job'[j].state = "running" /\ job'[j].pc = "next" /\ job'[j].todo = job[j].joiners
        /\ job'[j].founder = job[j].founder /\ job'[j].joiners = job[j].joiners
    BY <2>1, <1>t, <1>o DEF Job, Running
  <2>3. \A x \in Hosts, q \in Phases :
           Open(job[j], x, q) => Open(job'[j], x, q) \/ (x = job[j].founder /\ q = "info")
    BY <2>1, <2>2 DEF Open, Forming, Early, AtJoiner, Late
  <2>4. QED
    BY <2>1, <2>2, <2>3, <1>u, <1>h, <1>k DEF Founder
<1>6. CASE FetchFails(j)
  <2>1. CASE Fail(j) /\ (UNCHANGED step \/ SetStep(j, Founder(j), "info", "failed"))
    BY <1>f, <1>s, <1>o, <1>t, <2>1 DEF Founder, Phases, StepState
  <2>2. CASE job' = [job EXCEPT ![j].tries = @ + 1] /\ UNCHANGED step
    <3>1. /\ job'[j].state = "running" /\ job'[j].pc = job[j].pc /\ job'[j].todo = job[j].todo
          /\ job'[j].founder = job[j].founder /\ job'[j].joiners = job[j].joiners
          /\ job'[j].cur = job[j].cur
      BY <2>2, <1>t, <1>o DEF Job, Running
    <3>2. QED
      BY <2>2, <3>1, <1>g, <1>t DEF Open
  <2>3. QED
    BY <1>6, <2>1, <2>2 DEF FetchFails
<1>7. ASSUME NEW h \in Hosts, NextJoiner(j, h) PROVE Goal
  <2>1. /\ At(j, "next") /\ SetStep(j, h, "join", "running") /\ h \in job[j].todo
        /\ job' = [job EXCEPT ![j] = [job[j] EXCEPT !.pc = "join", !.cur = h,
                                                    !.todo = job[j].todo \ {h}]]
    BY <1>7 DEF NextJoiner
  <2>2. /\ job'[j].state = "running" /\ job'[j].pc = "join" /\ job'[j].cur = h
        /\ job'[j].todo = job[j].todo \ {h}
        /\ job'[j].founder = job[j].founder /\ job'[j].joiners = job[j].joiners
    BY <2>1, <1>t, <1>o DEF Job, Running
  <2>3. h \in job[j].joiners
    BY <2>1, <1>o DEF RunningOK, Early, Forming
  <2>4. Open(job'[j], h, "join")
    BY <2>2, <2>3 DEF Open
  <2>5. ASSUME NEW x \in Hosts, NEW q \in Phases, Open(job[j], x, q)
        PROVE  Open(job'[j], x, q)
    <3>1. \/ q = "inventory" /\ x = job[j].founder
          \/ q \in {"join", "reauth"} /\ x \in job[j].joiners /\ x \in job[j].todo
      BY <2>1, <2>5 DEF Open, Forming, Early, AtJoiner
    <3>2. CASE q = "inventory"
      BY <2>2, <3>1, <3>2 DEF Open, Late
    <3>3. CASE q \in {"join", "reauth"} /\ x \in job[j].joiners /\ x \in job[j].todo
      <4>1. x \in job'[j].joiners /\ (x \in job'[j].todo \/ x = job'[j].cur)
        BY <2>2, <3>3
      <4>2. QED
        BY <2>2, <3>3, <4>1 DEF Open, AtJoiner
    <3>4. QED
      BY <3>1, <3>2, <3>3
  <2>6. QED
    <3>1. "join" \in Phases /\ "running" \in StepState
      BY DEF Phases, StepState
    <3>2. QED
      BY <2>1, <2>2, <2>4, <2>5, <3>1, <1>u
<1>8. CASE Join(j)
  <2>0. At(j, "join") /\ job[j].cur \in Hosts
    BY <1>8, <1>o DEF Join, AtJoiner
  <2>1. CASE JoinFailed(j)
    BY <1>f, <1>s, <2>0, <2>1 DEF JoinFailed, Phases, StepState
  <2>2. CASE Goto(j, "wait") /\ UNCHANGED step
    <3>1. Moves("wait")
      BY <2>2, <1>m DEF PCs
    <3>2. \A x \in Hosts, q \in Phases : Open(job[j], x, q) => Open(job'[j], x, q)
      BY <2>0, <3>1 DEF Open, Forming, Early, AtJoiner, Late
    <3>3. QED
      BY <2>2, <3>1, <3>2, <1>g, <1>t
  <2>3. QED
    BY <1>8, <2>1, <2>2 DEF Join
<1>9. CASE WaitForMembership(j)
  <2>0. At(j, "wait") /\ job[j].cur \in Hosts
    BY <1>9, <1>o DEF WaitForMembership, AtJoiner
  <2>1. CASE JoinFailed(j)
    BY <1>f, <1>s, <2>0, <2>1 DEF JoinFailed, Phases, StepState
  <2>2. CASE Goto(j, "reauth") /\ Advance(j, job[j].cur, "join", job[j].cur, "reauth")
    <3>1. job[j].cur \in job[j].joiners
      BY <2>0, <1>o DEF RunningOK, AtJoiner
    <3>2. Moves("reauth")
      BY <2>2, <1>m DEF PCs
    <3>3. Open(job'[j], job[j].cur, "reauth")
      BY <3>1, <3>2 DEF Open, AtJoiner
    <3>4. \A x \in Hosts, q \in Phases :
             Open(job[j], x, q) => Open(job'[j], x, q) \/ (x = job[j].cur /\ q = "join")
      BY <2>0, <3>2 DEF Open, Forming, Early, AtJoiner, Late
    <3>5. QED
      BY <2>0, <2>2, <3>2, <3>3, <3>4, <1>v DEF Phases
  <2>3. QED
    BY <1>9, <2>1, <2>2 DEF WaitForMembership
<1>10. CASE Reauth(j)
  <2>0. At(j, "reauth") /\ job[j].cur \in Hosts
    BY <1>10, <1>o DEF Reauth, AtJoiner
  <2>1. CASE Fail(j) /\ SetStep(j, job[j].cur, "reauth", "failed")
    BY <1>f, <1>s, <2>0, <2>1 DEF Phases, StepState
  <2>2. CASE /\ job' = [job EXCEPT ![j].pc = "next", ![j].cur = NoHost]
             /\ SetStep(j, job[j].cur, "reauth", "succeeded")
    <3>1. /\ job'[j].state = "running" /\ job'[j].pc = "next" /\ job'[j].todo = job[j].todo
          /\ job'[j].founder = job[j].founder /\ job'[j].joiners = job[j].joiners
      BY <2>2, <1>t, <1>o DEF Job, Running
    <3>2. \A x \in Hosts, q \in Phases :
             Open(job[j], x, q) => Open(job'[j], x, q) \/ (x = job[j].cur /\ q = "reauth")
      BY <2>0, <3>1 DEF Open, Forming, Early, AtJoiner, Late
    <3>3. QED
      BY <2>0, <2>2, <3>1, <3>2, <1>u DEF Phases, StepState
  <2>3. QED
    BY <1>10, <2>1, <2>2 DEF Reauth
<1>11. CASE JoinersDone(j)
  <2>1. Moves("inventory") /\ job[j].pc = "next"
    BY <1>11, <1>m DEF JoinersDone, PCs
  <2>2. Open(job'[j], job[j].founder, "inventory")
    BY <2>1 DEF Open, Late
  <2>3. \A x \in Hosts, q \in Phases : Open(job[j], x, q) => Open(job'[j], x, q)
    BY <2>1 DEF Open, Forming, Early, AtJoiner, Late
  <2>4. QED
    BY <1>11, <2>1, <2>2, <2>3, <1>u, <1>h, <1>k DEF JoinersDone, Founder
<1>12. CASE FormClusterFromHosts(j) \/ AddHostsToCluster(j)
  <2>1. PICK p \in Late : /\ Goto(j, p) /\ At(j, "inventory")
                          /\ SetStep(j, Founder(j), "inventory", "succeeded")
    BY <1>12 DEF FormClusterFromHosts, AddHostsToCluster, Late
  <2>2. Moves(p)
    BY <2>1, <1>m DEF Late, PCs
  <2>3. \A x \in Hosts, q \in Phases :
           Open(job[j], x, q) => Open(job'[j], x, q) \/ (x = job[j].founder /\ q = "inventory")
    BY <2>1, <2>2 DEF Open, Forming, Early, AtJoiner, Late
  <2>4. QED
    BY <2>1, <2>2, <2>3, <1>u, <1>h, <1>k DEF Founder
<1>13. CASE InventoryFails(j)
  BY <1>13, <1>f, <1>s, <1>o DEF InventoryFails, Founder, Phases, StepState
<1>14. CASE AddPoller(j) \/ DropPollers(j)
  <2>1. /\ job[j].pc \in Late /\ UNCHANGED step /\ job[j].todo = {}
        /\ (\E p \in Late : Goto(j, p)) \/ Succeed(j)
    BY <1>14, <1>o DEF AddPoller, DropPollers, Late, RunningOK
  <2>2. \A x \in Hosts, q \in Phases : ~Open(job[j], x, q)
    BY <2>1 DEF Open, Forming, Early, AtJoiner, Late
  <2>3. CASE Succeed(j)
    <3>1. job'[j].state = "succeeded"
      BY <2>3, <1>t, Ended DEF Succeed
    <3>2. QED
      BY <2>1, <2>2, <3>1, <1>o, <1>t DEF StepsOK, StepDone, Running
  <2>4. CASE \E p \in Late : Goto(j, p)
    <3>1. job'[j].state = "running"
      BY <2>4, <1>m DEF Late, PCs
    <3>2. QED
      BY <2>1, <2>2, <3>1, <1>g, <1>t
  <2>5. QED
    BY <2>1, <2>3, <2>4
<1>15. QED
  BY <1>1, <1>2, <1>3, <1>4, <1>5, <1>6, <1>7, <1>8, <1>9, <1>10, <1>11, <1>12, <1>13,
     <1>14 DEF runJob

-----------------------------------------------------------------------------
(* The type invariant.                                                     *)

(* The hosts a job is about are hosts of the inventory.                    *)
LEMMA HostsTyped ==
    ASSUME TypeInv, NEW j \in Jobs, Running(j)
    PROVE  /\ job[j].founder \in Hosts /\ job[j].joiners \subseteq Hosts
           /\ HostsOf(j) \subseteq Hosts /\ job[j].name \in Names
           /\ job[j].pc \in AtJoiner => job[j].cur \in Hosts
  BY DEF TypeInv, TypeOK, Job, JobOK, RunningOK, HostsOf

(* What the calls of runJob leave on the hosts and in the poller has its   *)
(* type.                                                                   *)
LEMMA WorldTyped ==
    ASSUME TypeInv, NEW j \in Jobs, runJob(j)
    PROVE  /\ pve' \in [Hosts -> Jobs \cup {Leftover, None}]
           /\ accepts' \in [Hosts -> Hosts]
           /\ polled' \in SUBSET (Hosts \cup Names)
           /\ unlisted' \in SUBSET Jobs /\ late' \in SUBSET Hosts
           /\ UNCHANGED <<contested, online, listed, activating, events>>
<1>t. /\ pve \in [Hosts -> Jobs \cup {Leftover, None}] /\ accepts \in [Hosts -> Hosts]
      /\ polled \in SUBSET (Hosts \cup Names)
      /\ unlisted \in SUBSET Jobs /\ late \in SUBSET Hosts
  BY DEF TypeInv, TypeOK
<1>r. Running(j)
  BY Transitions DEF Result
<1>h. /\ job[j].founder \in Hosts /\ job[j].name \in Names
      /\ job[j].pc \in AtJoiner => job[j].cur \in Hosts
  BY <1>r, HostsTyped
<1>1. CASE Create(j) \/ Cleanup(j) \/ Recreate(j) \/ AwaitCreate(j)
  <2>1. \/ pve' = pve \/ pve' = [pve EXCEPT ![job[j].founder] = j]
        \/ pve' = [pve EXCEPT ![job[j].founder] = None]
        \/ pve' = [pve EXCEPT ![job[j].founder] = IF @ = j THEN None ELSE @]
    BY <1>1 DEF Create, Cleanup, Recreate, AwaitCreate, CreateRejected, Founder
  <2>2. pve' \in [Hosts -> Jobs \cup {Leftover, None}]
    BY <2>1, <1>t, <1>h
  <2>3. UNCHANGED <<accepts, polled, contested, online, listed, activating, unlisted, late, events>>
    BY <1>1 DEF setup, Create, Cleanup, Recreate, AwaitCreate
  <2>4. QED
    BY <1>t, <2>2, <2>3
<1>2. CASE Join(j)
  BY <1>2, <1>t, <1>h DEF Join, Joined, At, AtJoiner, Founder, world, setup
<1>3. CASE AddPoller(j) \/ DropPollers(j)
  BY <1>3, <1>t, <1>h DEF AddPoller, DropPollers, world
<1>4. CASE ~(\/ Create(j) \/ Cleanup(j) \/ Recreate(j) \/ AwaitCreate(j) \/ Join(j)
            \/ AddPoller(j) \/ DropPollers(j))
  <2>1. UNCHANGED <<pve, accepts, polled, contested, online, listed, activating, unlisted, late,
                    events>>
    BY <1>4 DEF runJob, world, setup, Authenticate, FetchJoinInfo, FetchFails, NextJoiner,
       WaitForMembership, Reauth, JoinersDone, FormClusterFromHosts, AddHostsToCluster,
       InventoryFails
  <2>2. QED
    BY <1>t, <2>1
<1>5. QED
  BY <1>1, <1>2, <1>3, <1>4

(* What runJob does to the inventory: reauth hands a joiner the token of   *)
(* the job, the inventory phase moves all hosts at once.                   *)
LEMMA InventoryStep ==
    ASSUME TypeInv, NEW j \in Jobs, runJob(j)
    PROVE  \/ /\ FormClusterFromHosts(j) \/ AddHostsToCluster(j)
              /\ job[j].pc = "inventory" /\ job'[j].pc \in Late /\ MoveHosts(j)
           \/ /\ Reauth(j) /\ clusterOf' = clusterOf
              /\ job[j].pc = "reauth" /\ job'[j].pc = "next"
              /\ token' = [token EXCEPT ![job[j].cur] = job[j].tok]
           \/ /\ ~(job[j].pc = "inventory" /\ job'[j].pc \in Late)
              /\ UNCHANGED <<clusterOf, token>>
<1>t. job \in [Jobs -> Job] /\ job[j] \in Job
  BY DEF TypeInv, TypeOK
<1>1. CASE FormClusterFromHosts(j) \/ AddHostsToCluster(j)
  <2>1. PICK p \in Late : Goto(j, p) /\ p \in PCs
    BY <1>1 DEF FormClusterFromHosts, AddHostsToCluster, PCs, Late
  <2>2. job'[j].pc \in Late
    BY <2>1, <1>t, GoneTo
  <2>3. QED
    BY <1>1, <2>2 DEF FormClusterFromHosts, AddHostsToCluster, At
<1>2. CASE InventoryFails(j)
  <2>1. Fail(j) /\ UNCHANGED <<clusterOf, token>>
    BY <1>2 DEF InventoryFails, inventory
  <2>2. job'[j].pc = "end"
    BY <2>1, <1>t, Ended DEF Fail
  <2>3. QED
    BY <2>1, <2>2 DEF Late
<1>3. CASE Reauth(j)
  <2>1. job[j].pc = "reauth" /\ clusterOf' = clusterOf
    BY <1>3 DEF Reauth, At
  <2>2. CASE token' = token
    BY <2>1, <2>2
  <2>3. CASE /\ token' = [token EXCEPT ![job[j].cur] = job[j].tok]
             /\ job' = [job EXCEPT ![j].pc = "next", ![j].cur = NoHost]
    <3>1. job'[j].pc = "next"
      BY <2>3, <1>t DEF Job
    <3>2. QED
      BY <1>3, <2>1, <2>3, <3>1
  <2>4. QED
    BY <1>3, <2>2, <2>3 DEF Reauth
<1>4. CASE ~(\/ FormClusterFromHosts(j) \/ AddHostsToCluster(j) \/ InventoryFails(j)
            \/ Reauth(j))
  <2>1. UNCHANGED <<clusterOf, token>> /\ job[j].pc # "inventory"
    BY <1>4 DEF runJob, inventory, At, Authenticate, Create, Cleanup, Recreate, AwaitCreate,
       FetchJoinInfo, FetchFails, NextJoiner, Join, WaitForMembership, JoinersDone,
       AddPoller, DropPollers
  <2>2. QED
    BY <2>1
<1>5. QED
  BY <1>1, <1>2, <1>3, <1>4

(* Rows are inserted and never change: a new one belongs to the job that   *)
(* inserts it.                                                             *)
LEMMA RowsKept ==
    ASSUME TypeInv, NEW j \in Jobs, runJob(j)
    PROVE  /\ \A c \in Rows : cname'[c] = cname[c] /\ c \in Rows'
           /\ \A i \in Jobs : i # j => cname'[i] = cname[i]
           /\ cname' \in [Jobs -> Names \cup {NoName}]
           /\ RowsOK'
<1>t. cname \in [Jobs -> Names \cup {NoName}] /\ RowsOK /\ JobOK(j)
  BY DEF TypeInv, TypeOK
<1>1. CASE cname' = cname
  BY <1>1, <1>t DEF Rows, RowsOK
<1>2. CASE /\ job[j].pc = "inventory" /\ job[j].kind = "form"
           /\ cname' = [cname EXCEPT ![j] = job[j].name]
           /\ \A c \in Rows : cname[c] # job[j].name
  <2>1. Running(j)
    BY Transitions DEF Result
  <2>2. cname[j] = NoName /\ job[j].name \in Names
    BY <1>t, <1>2, <2>1 DEF JobOK, RunningOK, Late
  <2>3. /\ cname' \in [Jobs -> Names \cup {NoName}] /\ cname'[j] = job[j].name
        /\ \A i \in Jobs : i # j => cname'[i] = cname[i]
    BY <1>t, <1>2, <2>2
  <2>4. Rows' = Rows \cup {j}
    BY <2>2, <2>3, JobAssumption DEF Rows
  <2>5. QED
    BY <1>t, <1>2, <2>2, <2>3, <2>4 DEF Rows, RowsOK
<1>3. QED
  BY <1>1, <1>2, RowStep

(* A host that is a member is a member of a row.                           *)
LEMMA MembersTyped ==
    ASSUME TypeInv, NEW j \in Jobs, runJob(j)
    PROVE  /\ clusterOf' \in [Hosts -> Jobs \cup {None}]
           /\ token' \in [Hosts -> Hosts]
           /\ \A h \in Hosts : clusterOf'[h] # None => clusterOf'[h] \in Rows'
<1>t. /\ clusterOf \in [Hosts -> Jobs \cup {None}] /\ token \in [Hosts -> Hosts]
      /\ \A h \in Hosts : clusterOf[h] # None => clusterOf[h] \in Rows
      /\ job[j] \in Job /\ JobOK(j)
  BY DEF TypeInv, TypeOK
<1>r. Running(j) /\ RunningOK(j)
  BY <1>t, Transitions DEF Result, JobOK
<1>k. \A c \in Rows : c \in Rows'
  BY RowsKept
<1>1. CASE UNCHANGED <<clusterOf, token>>
  BY <1>1, <1>t, <1>k
<1>2. ASSUME job[j].tok \in Hosts
      PROVE  /\ MoveHosts(j) => token' \in [Hosts -> Hosts]
             /\ token' = [token EXCEPT ![job[j].cur] = job[j].tok] => token' \in [Hosts -> Hosts]
  BY <1>2, <1>t DEF MoveHosts
<1>3. job[j].tok \in Hosts
  BY <1>t, <1>r DEF RunningOK
<1>4. CASE clusterOf' = clusterOf /\ token' = [token EXCEPT ![job[j].cur] = job[j].tok]
  BY <1>2, <1>3, <1>4, <1>t, <1>k
<1>5. CASE (FormClusterFromHosts(j) \/ AddHostsToCluster(j)) /\ MoveHosts(j)
  <2>1. job[j].cluster \in Rows' /\ job[j].cluster \in Jobs
    <3>1. CASE AddHostsToCluster(j)
      BY <3>1, <1>r, <1>k DEF AddHostsToCluster, RunningOK, Rows
    <3>2. CASE FormClusterFromHosts(j)
      <4>1. /\ job[j].cluster = j /\ job[j].name \in Names
            /\ cname' = [cname EXCEPT ![j] = job[j].name]
        BY <3>2, <1>r DEF FormClusterFromHosts, RunningOK
      <4>2. cname \in [Jobs -> Names \cup {NoName}]
        BY DEF TypeInv, TypeOK
      <4>3. QED
        BY <4>1, <4>2, JobAssumption DEF Rows
    <3>3. QED
      BY <1>5, <3>1, <3>2
  <2>2. \A h \in Hosts : clusterOf'[h] \in {clusterOf[h], job[j].cluster}
    BY <1>5 DEF MoveHosts
  <2>3. clusterOf' \in [Hosts -> Jobs \cup {None}]
    BY <1>5, <1>t, <2>1 DEF MoveHosts
  <2>4. QED
    BY <1>2, <1>3, <1>5, <1>k, <1>t, <2>1, <2>2, <2>3
<1>6. QED
  BY <1>1, <1>4, <1>5, InventoryStep

(* A job that has not moved keeps its invariant when rows are added.       *)
LEMMA JobFrame ==
    ASSUME TypeInv, NEW i \in Jobs, job'[i] = job[i], cname'[i] = cname[i],
           \A c \in Rows : cname'[c] = cname[c] /\ c \in Rows'
    PROVE  JobOK(i)'
<1>1. JobOK(i)
  BY DEF TypeInv
<1>2. Running(i) => RunningOK(i)'
  BY <1>1 DEF JobOK, RunningOK, Running
<1>3. QED
  BY <1>1, <1>2 DEF JobOK, Running

(* The job that runs keeps its own.                                        *)
LEMMA JobKept ==
    ASSUME TypeInv, NEW j \in Jobs, runJob(j) PROVE JobOK(j)'
<1>t. JobOK(j) /\ job[j] \in Job /\ cname \in [Jobs -> Names \cup {NoName}]
  BY DEF TypeInv, TypeOK
<1>r. /\ Running(j) /\ RunningOK(j) /\ SameRequest(job[j], job'[j]) /\ job'[j] \in Job
      /\ GoesOn(job[j], job'[j]) \/ Fails(job[j], job'[j]) \/ Succeeds(job[j], job'[j])
  BY <1>t, Transitions DEF Result, JobOK
<1>k. \A c \in Rows : cname'[c] = cname[c] /\ c \in Rows'
  BY RowsKept
<1>n. CASE Fails(job[j], job'[j])
  <2>1. cname'[j] = NoName \/ (cname'[j] = cname[j] /\ job[j].kind # "form")
    <3>1. cname' = cname
      BY <1>n, RowStep DEF Fails
    <3>2. QED
      BY <1>n, <1>r, <3>1 DEF Fails, RunningOK
  <2>2. cname[j] # NoName => job[j].kind = "form"
    BY <1>t DEF JobOK
  <2>3. QED
    BY <1>n, <1>r, <2>1, <2>2 DEF Fails, JobOK, RunningOK, Running, SameRequest
<1>s. CASE Succeeds(job[j], job'[j])
  <2>1. cname' = cname
    BY <1>s, RowStep DEF Succeeds, Late
  <2>2. QED
    BY <1>s, <1>t, <1>r, <2>1 DEF Succeeds, JobOK, RunningOK, Running, SameRequest
<1>g. CASE GoesOn(job[j], job'[j])
  <2>1. job'[j].state = "running" /\ job'[j].pc # "end" /\ job'[j].kind = job[j].kind
    BY <1>g, <1>r DEF GoesOn, MovesOn, RetriesInfo, GetsInfo, TakesJoiner, DoneWithJoiner, Edges,
       SameRequest
  <2>2. /\ job[j].kind = "form" => /\ job[j].cluster = j
                                   /\ job'[j].pc \notin Late => cname'[j] = NoName
                                   /\ job'[j].pc \in Late => cname'[j] = job[j].name
        /\ cname'[j] # NoName => job[j].kind = "form"
    <3>1. CASE job[j].pc = "inventory" /\ job'[j].pc = "addPoller"
      BY <3>1, <1>r, <1>t, RowStep DEF RunningOK, Late
    <3>2. CASE ~(job[j].pc = "inventory" /\ job'[j].pc = "addPoller")
      <4>1. cname' = cname
        BY <3>2, RowStep
      <4>2. job[j].kind = "form" => (job[j].pc \in Late <=> job'[j].pc \in Late)
        BY <3>2, <1>g DEF GoesOn, MovesOn, RetriesInfo, GetsInfo, TakesJoiner, DoneWithJoiner,
           Edges, Late
      <4>3. QED
        BY <4>1, <4>2, <1>t, <1>r DEF RunningOK, JobOK
    <3>3. QED
      BY <3>1, <3>2
  <2>3. job[j].kind = "join" => /\ job[j].cluster \in Rows'
                                /\ job[j].name = cname'[job[j].cluster]
                                /\ job'[j].pc \notin Forming
    <3>1. job[j].pc \notin Forming => job'[j].pc \notin Forming
      BY <1>g DEF GoesOn, MovesOn, RetriesInfo, GetsInfo, TakesJoiner, DoneWithJoiner,
           Edges, Forming
    <3>2. QED
      BY <3>1, <1>r, <1>k DEF RunningOK
  <2>4. /\ job'[j].pc \notin Early => job'[j].todo \subseteq job[j].joiners
        /\ job'[j].pc \in AtJoiner => job'[j].cur \in job[j].joiners \ job'[j].todo
        /\ job'[j].pc \in Late \cup {"inventory"} => job'[j].todo = {}
        /\ job'[j].tries < MaxTries
    <3>1. CASE MovesOn(job[j], job'[j])
      BY <3>1, <1>r DEF MovesOn, Edges, RunningOK, Early, Forming, AtJoiner, Late
    <3>2. CASE ~MovesOn(job[j], job'[j])
      BY <3>2, <1>g, <1>r, JobAssumption DEF GoesOn, RetriesInfo, GetsInfo, TakesJoiner, DoneWithJoiner,
         RunningOK, Early, Forming, AtJoiner, Late
    <3>3. QED
      BY <3>1, <3>2
  <2>5. RunningOK(j)'
    BY <1>r, <2>1, <2>2, <2>3, <2>4 DEF RunningOK, SameRequest
  <2>6. QED
    BY <2>1, <2>2, <2>5 DEF JobOK, RunningOK, Running
<1>q. QED
  BY <1>r, <1>n, <1>s, <1>g

(* Every step of a job keeps the type invariant.                           *)
LEMMA RunTyped == ASSUME TypeInv, NEW j \in Jobs, runJob(j) PROVE TypeInv'
<1>1. TypeOK'
  <2>1. job' \in [Jobs -> Job]
    BY Transitions DEF Result
  <2>2. step' \in StepsType
    BY StepStep
  <2>3. /\ events \in 0..MaxEvents /\ contested \in SUBSET Hosts /\ online \in SUBSET Hosts
        /\ listed = NoList \/ listed \in SUBSET (Hosts \cup Names)
        /\ activating \in Hosts \cup {NoHost}
    BY DEF TypeInv, TypeOK
  <2>4. QED
    BY <2>1, <2>2, <2>3, WorldTyped, MembersTyped, RowsKept DEF TypeOK, StepsType, StepState
<1>2. ASSUME NEW i \in Jobs PROVE JobOK(i)'
  <2>1. CASE i = j
    BY <2>1, JobKept
  <2>2. CASE i # j
    <3>1. job'[i] = job[i]
      BY <2>2, Transitions DEF Result
    <3>2. QED
      BY <2>2, <3>1, RowsKept, JobFrame
  <2>3. QED
    BY <2>1, <2>2
<1>3. QED
  BY <1>1, <1>2, RowsKept DEF TypeInv

(* A request: the new job has the hosts and the row it was given, and      *)
(* every other job is left alone.                                          *)
Request(j, f, joiners) ==
    /\ job[j].state = "none" /\ job' \in [Jobs -> Job] /\ job'[j].state = "running"
    /\ job'[j].founder = f /\ job'[j].joiners = joiners /\ job'[j].tok = token[f]
    /\ job'[j].tries = 0 /\ job'[j].name \in Names
    /\ \/ /\ job'[j].kind = "form" /\ job'[j].pc = "auth" /\ job'[j].cluster = j
          /\ \A c \in Jobs : cname[c] # job'[j].name
          /\ contested' = contested \cup {h \in joiners \cup {f} : InUse(h)}
       \/ /\ job'[j].kind = "join" /\ job'[j].pc = "info" /\ job'[j].cluster \in Rows
          /\ job'[j].name = cname[job'[j].cluster] /\ clusterOf[f] = job'[j].cluster
          /\ job'[j].todo = joiners /\ \A h \in joiners : clusterOf[h] = None
          /\ contested' = contested \cup {h \in joiners : InUse(h)}
    /\ \A i \in Jobs : i # j => job'[i] = job[i]
    /\ step' \in StepsType /\ \A i \in Jobs : i # j => step'[i] = step[i]
    /\ \A h \in Hosts, q \in Phases : Open(job'[j], h, q) \/ step'[j][<<h, q>>] = "none"
    /\ UNCHANGED <<world, inventory, polled, setup>>

Starts(j, f, joiners) ==
    \/ \E n \in Names : StartJob(j, n, f, joiners)
    \/ \E c \in Jobs : StartJoinHostsJob(j, c, f, joiners)

(* What StartJob and StartJoinHostsJob have in common.                     *)
LEMMA Requested ==
    ASSUME TypeInv, NEW j \in Jobs, NEW f \in Hosts, NEW joiners \in SUBSET Hosts,
           Starts(j, f, joiners)
    PROVE  Request(j, f, joiners)
<1>t. /\ job \in [Jobs -> Job] /\ step \in StepsType /\ token \in [Hosts -> Hosts]
      /\ cname \in [Jobs -> Names \cup {NoName}]
  BY DEF TypeInv, TypeOK, StepsType, StepState
<1>m. 0 \in 0..MaxTries
  BY JobAssumption
<1>1. ASSUME NEW n \in Names, StartJob(j, n, f, joiners)
      PROVE  /\ job[j].state = "none" /\ job' \in [Jobs -> Job] /\ job'[j].state = "running"
             /\ job'[j].founder = f /\ job'[j].joiners = joiners /\ job'[j].tok = token[f]
             /\ job'[j].tries = 0 /\ job'[j].name \in Names
             /\ job'[j].kind = "form" /\ job'[j].pc = "auth" /\ job'[j].cluster = j
             /\ \A c \in Jobs : cname[c] # job'[j].name
             /\ contested' = contested \cup {h \in joiners \cup {f} : InUse(h)}
             /\ \A i \in Jobs : i # j => job'[i] = job[i]
             /\ step' \in StepsType /\ \A i \in Jobs : i # j => step'[i] = step[i]
             /\ \A h \in Hosts, q \in Phases : Open(job'[j], h, q) \/ step'[j][<<h, q>>] = "none"
             /\ UNCHANGED <<world, inventory, polled, setup>>
  <2> DEFINE ok == Preflight(f, joiners)
             y == [NewJob EXCEPT !.state = "running", !.pc = "auth",
                  !.name = n, !.cluster = j, !.founder = f, !.joiners = joiners,
                  !.tok = token[f], !.passed = ok]
             z == Seed("form", f, joiners)
  <2>1. /\ job[j].state = "none" /\ \A c \in Jobs : cname[c] # n
        /\ contested' = contested \cup {h \in joiners \cup {f} : InUse(h)}
        /\ job' = [job EXCEPT ![j] = y] /\ step' = [step EXCEPT ![j] = z]
        /\ UNCHANGED <<world, inventory, polled, setup>>
    BY <1>1 DEF StartJob
  <2>2. ok \in BOOLEAN
    BY DEF Preflight
  <2> HIDE DEF ok
  <2>3. /\ y \in Job /\ y.state = "running" /\ y.pc = "auth" /\ y.kind = "form"
        /\ y.name = n /\ y.cluster = j /\ y.founder = f /\ y.joiners = joiners
        /\ y.tok = token[f] /\ y.tries = 0 /\ y.passed = ok
    BY <1>t, <1>m, <2>2 DEF NewJob, Job, PCs
  <2>4. z \in [Hosts \X Phases -> StepState]
    BY DEF Seed, StepState
  <2>9. \A h \in Hosts, q \in Phases : Open(y, h, q) \/ z[<<h, q>>] = "none"
    BY <2>3 DEF Seed, Open, Forming, Early, Late
  <2> HIDE DEF y, z
  <2>5. /\ job' \in [Jobs -> Job] /\ job'[j] = y /\ \A i \in Jobs : i # j => job'[i] = job[i]
    BY <1>t, <2>1, <2>3
  <2>6. step' \in StepsType /\ \A i \in Jobs : i # j => step'[i] = step[i]
    BY <1>t, <2>1, <2>4 DEF StepsType
  <2>10. \A h \in Hosts, q \in Phases : Open(job'[j], h, q) \/ step'[j][<<h, q>>] = "none"
    <3>1. step'[j] = z
      BY <1>t, <2>1 DEF StepsType
    <3>2. QED
      BY <3>1, <2>5, <2>9
  <2>8. QED
    BY <2>1, <2>3, <2>5, <2>6, <2>10
<1>2. ASSUME NEW c \in Jobs, StartJoinHostsJob(j, c, f, joiners)
      PROVE  /\ job[j].state = "none" /\ job' \in [Jobs -> Job] /\ job'[j].state = "running"
             /\ job'[j].founder = f /\ job'[j].joiners = joiners /\ job'[j].tok = token[f]
             /\ job'[j].tries = 0 /\ job'[j].name \in Names
             /\ job'[j].kind = "join" /\ job'[j].pc = "info" /\ job'[j].cluster \in Rows
             /\ job'[j].name = cname[job'[j].cluster] /\ clusterOf[f] = job'[j].cluster
             /\ job'[j].todo = joiners /\ \A h \in joiners : clusterOf[h] = None
             /\ contested' = contested \cup {h \in joiners : InUse(h)}
             /\ \A i \in Jobs : i # j => job'[i] = job[i]
             /\ step' \in StepsType /\ \A i \in Jobs : i # j => step'[i] = step[i]
             /\ \A h \in Hosts, q \in Phases : Open(job'[j], h, q) \/ step'[j][<<h, q>>] = "none"
             /\ UNCHANGED <<world, inventory, polled, setup>>
  <2> DEFINE ok == JoinHostsPreflight(joiners)
             y == [NewJob EXCEPT !.state = "running", !.pc = "info",
                  !.kind = "join", !.name = cname[c], !.cluster = c,
                  !.founder = f, !.joiners = joiners, !.todo = joiners,
                  !.tok = token[f], !.passed = ok]
             w == Seed("join", f, joiners)
             z == [w EXCEPT ![<<f, "info">>] = "running"]
  <2>1. /\ job[j].state = "none" /\ c \in Rows /\ clusterOf[f] = c
        /\ \A h \in joiners : clusterOf[h] = None
        /\ contested' = contested \cup {h \in joiners : InUse(h)}
        /\ job' = [job EXCEPT ![j] = y] /\ step' = [step EXCEPT ![j] = z]
        /\ UNCHANGED <<world, inventory, polled, setup>>
    BY <1>2 DEF StartJoinHostsJob
  <2>2. ok \in BOOLEAN
    BY DEF JoinHostsPreflight
  <2>n. cname[c] \in Names
    BY <1>t, <2>1 DEF Rows
  <2> HIDE DEF ok
  <2>3. /\ y \in Job /\ y.state = "running" /\ y.pc = "info" /\ y.kind = "join"
        /\ y.name = cname[c] /\ y.cluster = c /\ y.founder = f /\ y.joiners = joiners
        /\ y.tok = token[f] /\ y.tries = 0 /\ y.passed = ok /\ y.todo = joiners
    BY <1>t, <1>m, <2>2, <2>n DEF NewJob, Job, PCs
  <2>w. w \in [Hosts \X Phases -> StepState]
    BY DEF Seed, StepState
  <2>v. \A h \in Hosts, q \in Phases : Open(y, h, q) \/ w[<<h, q>>] = "none"
    BY <2>3 DEF Seed, Open, Forming, Early, Late
  <2>u. Open(y, f, "info")
    BY <2>3 DEF Open, Early
  <2> HIDE DEF w
  <2>4. z \in [Hosts \X Phases -> StepState]
    BY <2>w DEF StepState
  <2>9. \A h \in Hosts, q \in Phases : Open(y, h, q) \/ z[<<h, q>>] = "none"
    <3> HIDE DEF y
    <3>1. \A h \in Hosts, q \in Phases :
             z[<<h, q>>] = IF h = f /\ q = "info" THEN "running" ELSE w[<<h, q>>]
      BY <2>w
    <3> HIDE DEF z
    <3>2. ASSUME NEW h \in Hosts, NEW q \in Phases PROVE Open(y, h, q) \/ z[<<h, q>>] = "none"
      BY <3>1, <2>v, <2>u
    <3>3. QED
      BY <3>2
  <2> HIDE DEF y, z
  <2>5. /\ job' \in [Jobs -> Job] /\ job'[j] = y /\ \A i \in Jobs : i # j => job'[i] = job[i]
    BY <1>t, <2>1, <2>3
  <2>6. step' \in StepsType /\ \A i \in Jobs : i # j => step'[i] = step[i]
    BY <1>t, <2>1, <2>4 DEF StepsType
  <2>10. \A h \in Hosts, q \in Phases : Open(job'[j], h, q) \/ step'[j][<<h, q>>] = "none"
    <3>1. step'[j] = z
      BY <1>t, <2>1 DEF StepsType
    <3>2. QED
      BY <3>1, <2>5, <2>9
  <2>8. QED
    BY <2>1, <2>3, <2>5, <2>6, <2>10, <2>n
<1>3. QED
  BY <1>1, <1>2 DEF Starts, Request

(* A restart ends every running job where it is and leaves the others, the *)
(* hosts and the inventory alone.                                          *)
LEMMA Restarted ==
    ASSUME TypeInv, Restart
    PROVE  /\ job' \in [Jobs -> Job]
           /\ \A j \in Jobs : Running(j) => /\ job'[j].state = "lost" /\ job'[j].pc = "end"
                                            /\ SameRequest(job[j], job'[j])
           /\ \A j \in Jobs : ~Running(j) => job'[j] = job[j]
           /\ UNCHANGED <<step, pve, accepts, cname, clusterOf, token, contested>>
<1>t. job \in [Jobs -> Job]
  BY DEF TypeInv, TypeOK
<1>1. job' = [j \in Jobs |-> IF job[j].state = "running"
                             THEN [job[j] EXCEPT !.state = "lost", !.pc = "end"] ELSE job[j]]
  BY DEF Restart
<1>2. ASSUME NEW j \in Jobs, Running(j)
      PROVE  /\ job'[j] \in Job /\ job'[j].state = "lost" /\ job'[j].pc = "end"
             /\ SameRequest(job[j], job'[j])
  <2> DEFINE z == [job[j] EXCEPT !.state = "lost"]
             y == [z EXCEPT !.pc = "end"]
  <2>1. job[j] \in Job
    BY <1>t
  <2>2. z \in Job /\ z.state = "lost"
    BY <2>1 DEF Job
  <2>3. SameRequest(job[j], z)
    BY <2>1 DEF Job, SameRequest
  <2>4. job'[j] = y
    BY <1>1, <1>2 DEF Running
  <2> HIDE DEF z
  <2>5. y \in Job /\ y.pc = "end" /\ y.state = z.state
    BY <2>2 DEF Job, PCs
  <2>6. SameRequest(z, y)
    BY <2>2 DEF Job, SameRequest
  <2> HIDE DEF y
  <2>7. SameRequest(job[j], y)
    BY <2>3, <2>6 DEF SameRequest
  <2>8. QED
    BY <2>2, <2>4, <2>5, <2>7
<1>3. ASSUME NEW j \in Jobs, ~Running(j) PROVE job'[j] = job[j] /\ job'[j] \in Job
  BY <1>1, <1>3, <1>t DEF Running
<1>4. job' \in [Jobs -> Job]
  <2>1. job' = [j \in Jobs |-> job'[j]]
    BY <1>1
  <2>2. \A j \in Jobs : job'[j] \in Job
    BY <1>2, <1>3
  <2>3. QED
    BY <2>1, <2>2
<1>5. UNCHANGED <<step, pve, accepts, cname, clusterOf, token, contested>>
  BY DEF Restart, world, inventory
<1>6. QED
  BY <1>2, <1>3, <1>4, <1>5

(* The list of the clusters to poll names hosts and clusters.              *)
LEMMA ConfigsTyped ==
    ASSUME TypeInv
    PROVE  /\ GetClusterConfigs \in SUBSET (Hosts \cup Names)
           /\ \A names : Missing(names) \subseteq Jobs
<1>1. cname \in [Jobs -> Names \cup {NoName}] /\ online \in SUBSET Hosts
  BY DEF TypeInv, TypeOK
<1>2. \A c \in Rows : cname[c] \in Names
  BY <1>1 DEF Rows
<1>3. QED
  BY <1>1, <1>2 DEF GetClusterConfigs, Missing, Rows

(* What goes on beside the jobs: Reconcile and the activation of hosts.    *)
Beside == ReconcileTick \/ Reconcile \/ (\E h \in Hosts : ActivateHost(h)) \/ Activated

(* It leaves the jobs, the hosts and the inventory alone.                  *)
LEMMA BesideTyped ==
    ASSUME TypeInv, Beside
    PROVE  /\ UNCHANGED <<job, step, pve, accepts, cname, clusterOf, token, contested>>
           /\ polled' \in SUBSET (Hosts \cup Names) /\ online' \in SUBSET Hosts
           /\ listed' = NoList \/ listed' \in SUBSET (Hosts \cup Names)
           /\ activating' \in Hosts \cup {NoHost}
           /\ unlisted' \in SUBSET Jobs /\ late' \in SUBSET Hosts
           /\ events' \in 0..MaxEvents
<1>t. /\ polled \in SUBSET (Hosts \cup Names) /\ online \in SUBSET Hosts
      /\ listed = NoList \/ listed \in SUBSET (Hosts \cup Names)
      /\ activating \in Hosts \cup {NoHost}
      /\ unlisted \in SUBSET Jobs /\ late \in SUBSET Hosts
      /\ events \in 0..MaxEvents /\ MaxEvents \in Nat
  BY JobAssumption DEF TypeInv, TypeOK
<1>1. CASE ReconcileTick
  BY <1>1, <1>t, ConfigsTyped DEF ReconcileTick, world, inventory
<1>2. CASE Reconcile
  <2>1. unlisted' \in SUBSET Jobs
    BY <1>2, <1>t, ConfigsTyped DEF Reconcile
  <2>2. QED
    BY <1>2, <1>t, <2>1 DEF Reconcile, world, inventory
<1>3. ASSUME NEW h \in Hosts, ActivateHost(h)
      PROVE  /\ UNCHANGED <<job, step, pve, accepts, cname, clusterOf, token, contested>>
             /\ UNCHANGED <<polled, listed, unlisted, late>>
             /\ online' \in SUBSET Hosts /\ activating' \in Hosts \cup {NoHost}
             /\ events' \in 0..MaxEvents
  BY <1>3, <1>t DEF ActivateHost, world, inventory
<1>4. CASE Activated
  BY <1>4, <1>t DEF Activated, world, inventory
<1>5. QED
  BY <1>1, <1>2, <1>3, <1>4, <1>t DEF Beside

(* Jobs, steps, hosts, inventory and poller keep their types; a host that  *)
(* is a member has a row, rows have names of their own, and a job has a    *)
(* row of its own only from its inventory phase on.                        *)
LEMMA TypeStep == TypeInv /\ [Next]_vars => TypeInv'
<1> SUFFICES ASSUME TypeInv, [Next]_vars PROVE TypeInv'
  OBVIOUS
<1>t. TypeOK /\ RowsOK
  BY DEF TypeInv
<1>1. ASSUME NEW j \in Jobs, runJob(j) PROVE TypeInv'
  BY <1>1, RunTyped
<1>2. ASSUME NEW j \in Jobs, NEW f \in Hosts, NEW joiners \in SUBSET Hosts,
             Starts(j, f, joiners)
      PROVE  TypeInv'
  <2>0. Request(j, f, joiners)
    BY <1>2, Requested
  <2>1. /\ job[j].state = "none" /\ job' \in [Jobs -> Job] /\ job'[j].state = "running"
        /\ job'[j].founder = f /\ job'[j].joiners = joiners /\ job'[j].tok = token[f]
        /\ job'[j].tries = 0 /\ job'[j].name \in Names
        /\ \/ job'[j].kind = "form" /\ job'[j].pc = "auth" /\ job'[j].cluster = j
           \/ /\ job'[j].kind = "join" /\ job'[j].pc = "info" /\ job'[j].cluster \in Rows
              /\ job'[j].name = cname[job'[j].cluster]
        /\ \A i \in Jobs : i # j => job'[i] = job[i]
        /\ step' \in StepsType
    BY <2>0 DEF Request
  <2>2. UNCHANGED <<pve, accepts, cname, clusterOf, token, polled, online, listed, activating,
                    unlisted, late, events>>
    BY <2>0 DEF Request, world, inventory, setup
  <2>c. contested' \in SUBSET Hosts
    BY <1>t, <2>0 DEF Request, TypeOK
  <2>3. TypeOK' /\ RowsOK'
    BY <1>t, <2>1, <2>2, <2>c DEF TypeOK, RowsOK, Rows, StepsType, StepState
  <2>4. JobOK(j) /\ f \in Hosts /\ token[f] \in Hosts
    BY <1>t DEF TypeInv, TypeOK
  <2>5. cname[j] = NoName
    BY <2>1, <2>4 DEF JobOK
  <2>6. RunningOK(j)'
    BY <2>1, <2>2, <2>4, <2>5, JobAssumption
    DEF RunningOK, Late, Early, Forming, AtJoiner, Rows
  <2>7. JobOK(j)'
    BY <2>1, <2>2, <2>4, <2>5, <2>6 DEF JobOK, Running
  <2>8. \A i \in Jobs : i # j => JobOK(i)'
    BY <2>1, <2>2, JobFrame DEF Rows
  <2>9. QED
    BY <2>3, <2>7, <2>8 DEF TypeInv
<1>3. CASE Restart
  <2>1. /\ polled' \in SUBSET (Hosts \cup Names) /\ unlisted' \in SUBSET Jobs
        /\ listed' = NoList /\ activating' = NoHost /\ late' = {} /\ online' = online
    BY <1>3, <1>t, ConfigsTyped DEF Restart
  <2>2. events' \in 0..MaxEvents
    <3>1. events \in 0..MaxEvents /\ events < MaxEvents /\ events' = events + 1
      BY <1>3, <1>t DEF Restart, TypeOK
    <3>2. QED
      BY <3>1, JobAssumption
  <2>3. TypeOK' /\ RowsOK'
    <3>1. /\ job' \in [Jobs -> Job]
          /\ UNCHANGED <<step, pve, accepts, cname, clusterOf, token, contested>>
      BY <1>3, Restarted
    <3>2. QED
      BY <1>t, <2>1, <2>2, <3>1 DEF TypeOK, RowsOK, Rows
  <2>4. ASSUME NEW j \in Jobs, Running(j) PROVE JobOK(j)'
    <3>1. JobOK(j) /\ job'[j].state = "lost" /\ job'[j].pc = "end" /\ cname' = cname
          /\ job'[j].kind = job[j].kind /\ job'[j].cluster = job[j].cluster
          /\ job'[j].founder = job[j].founder
      BY <1>3, <2>4, Restarted DEF TypeInv, SameRequest
    <3>2. QED
      BY <3>1, <2>4 DEF JobOK, RunningOK, Running
  <2>5. ASSUME NEW j \in Jobs, ~Running(j) PROVE JobOK(j)'
    BY <1>3, <2>5, Restarted, JobFrame DEF Rows
  <2>6. QED
    BY <2>3, <2>4, <2>5 DEF TypeInv
<1>4. CASE UNCHANGED vars
  <2>1. UNCHANGED <<job, step, pve, accepts, cname, clusterOf, token, contested, polled, online,
                    listed, activating, unlisted, late, events>>
    BY <1>4 DEF vars
  <2>2. TypeOK' /\ RowsOK'
    BY <1>t, <2>1 DEF TypeOK, RowsOK, Rows
  <2>3. \A i \in Jobs : JobOK(i)'
    BY <2>1, JobFrame DEF Rows
  <2>4. QED
    BY <2>2, <2>3 DEF TypeInv
<1>5. CASE Beside
  <2>1. /\ UNCHANGED <<job, step, pve, accepts, cname, clusterOf, token, contested>>
        /\ polled' \in SUBSET (Hosts \cup Names) /\ online' \in SUBSET Hosts
        /\ listed' = NoList \/ listed' \in SUBSET (Hosts \cup Names)
        /\ activating' \in Hosts \cup {NoHost}
        /\ unlisted' \in SUBSET Jobs /\ late' \in SUBSET Hosts
        /\ events' \in 0..MaxEvents
    BY <1>5, BesideTyped
  <2>2. TypeOK' /\ RowsOK'
    BY <1>t, <2>1 DEF TypeOK, RowsOK, Rows
  <2>3. \A i \in Jobs : JobOK(i)'
    BY <2>1, JobFrame DEF Rows
  <2>4. QED
    BY <2>2, <2>3 DEF TypeInv
<1>6. QED
  BY <1>1, <1>2, <1>3, <1>4, <1>5 DEF Next, Starts, Beside

(* The manager starts without jobs and the inventory without clusters.     *)
LEMMA TypeInit == Init => TypeInv
<1> SUFFICES ASSUME Init PROVE TypeInv
  OBVIOUS
<1>1. NewJob \in Job /\ NewJob.state = "none" /\ NewJob.pc = "end"
  BY JobAssumption DEF NewJob, Job, PCs
<1>2. TypeOK
  BY <1>1, JobAssumption DEF Init, TypeOK, Rows
<1>3. QED
  BY <1>1, <1>2 DEF Init, TypeInv, RowsOK, Rows, JobOK, Running

(* The type invariant holds throughout, whatever the jobs do.              *)
THEOREM TypeCorrect == Spec => []TypeInv
  BY TypeInit, TypeStep, PTL DEF Spec

(* All or nothing: whatever happens to a job, at whichever phase, one that *)
(* failed has left no row in the clusters table and no host in it.         *)
THEOREM FailedCorrect == Spec => []FailedLeavesInventory
<1>1. TypeInv => FailedLeavesInventory
  BY JobAssumption DEF TypeInv, TypeOK, JobOK, Rows, FailedLeavesInventory
<1>2. QED
  BY <1>1, TypeCorrect, PTL

-----------------------------------------------------------------------------
(* The poller.  Rewiring takes two steps, in one order for a new cluster   *)
(* and in the other for one that grows: which of the two is still to come. *)

Undropped(j) ==
    /\ Running(j)
    /\ job[j].pc = "dropPollers" \/ (job[j].kind = "form" /\ job[j].pc = "addPoller")

Unadded(j, c) ==
    /\ Running(j) /\ job[j].cluster = c
    /\ job[j].pc = "addPoller" \/ (job[j].kind = "join" /\ job[j].pc = "dropPollers")

Dropped(h) ==
    clusterOf[h] # None /\ (\A j \in Jobs : ~(Undropped(j) /\ h \in HostsOf(j)))
    => h \notin polled \/ h \in late

Added(h) ==
    clusterOf[h] # None /\ (\A j \in Jobs : ~Unadded(j, clusterOf[h]))
    => cname[clusterOf[h]] \in polled \/ clusterOf[h] \in unlisted

PolledOK == \A h \in Hosts : Dropped(h) /\ Added(h)

(* A job that does not move has as much rewiring before it as it had.      *)
LEMMA RewiringKept ==
    ASSUME NEW i \in Jobs, job'[i] = job[i]
    PROVE  /\ Undropped(i)' <=> Undropped(i)
           /\ HostsOf(i)' = HostsOf(i)
           /\ \A c \in Jobs : Unadded(i, c)' <=> Unadded(i, c)
  BY DEF Undropped, Unadded, Running, HostsOf

(* The pollers of a host that changes hands are dropped and the one of its *)
(* cluster is added, whichever other jobs run at the same time.            *)
LEMMA PolledStep == TypeInv /\ PolledOK /\ [Next]_vars => PolledOK'
<1> SUFFICES ASSUME TypeInv, PolledOK, [Next]_vars PROVE PolledOK'
  OBVIOUS
<1>t. /\ cname \in [Jobs -> Names \cup {NoName}] /\ clusterOf \in [Hosts -> Jobs \cup {None}]
      /\ \A h \in Hosts : clusterOf[h] # None =>
            clusterOf[h] \in Rows /\ clusterOf[h] \in Jobs /\ cname[clusterOf[h]] \in Names
      /\ RowsOK
  BY DEF TypeInv, TypeOK, Rows
<1>o. \A h \in Hosts : Dropped(h) /\ Added(h)
  BY DEF PolledOK
<1>d. \A x \in Hosts : x \notin Names
  BY JobAssumption
<1>1. ASSUME NEW j \in Jobs, runJob(j) PROVE PolledOK'
  <2>r. Result(j)
    BY <1>1, Transitions
  <2>j. /\ Running(j) /\ job[j] \in Job /\ RunningOK(j) /\ job[j].name \in Names
        /\ job[j].cluster \in Jobs
        /\ job[j].pc \in Late => cname[job[j].cluster] = job[j].name
        /\ job[j].pc \in Late => job[j].cluster \in Rows
    <3>1. Running(j) /\ RunningOK(j) /\ job[j] \in Job
      BY <2>r DEF TypeInv, TypeOK, JobOK, Result
    <3>2. job[j].kind \in {"form", "join"}
      BY <3>1 DEF Job
    <3>3. QED
      BY <3>1, <3>2, JobAssumption DEF RunningOK, Rows
  <2>q. /\ job'[j].kind = job[j].kind /\ job'[j].cluster = job[j].cluster
        /\ HostsOf(j)' = HostsOf(j)
    BY <2>r DEF Result, SameRequest, HostsOf
  <2>i. \A i \in Jobs : i # j => /\ Undropped(i)' <=> Undropped(i)
                                 /\ HostsOf(i)' = HostsOf(i)
                                 /\ \A c \in Jobs : Unadded(i, c)' <=> Unadded(i, c)
    BY <2>r, RewiringKept DEF Result
  <2>k. \A c \in Rows : cname'[c] = cname[c]
    BY <1>1, RowsKept
  <2>1. CASE AddPoller(j)
    <3>1. /\ job[j].pc = "addPoller" /\ polled' = polled \cup {job[j].name}
          /\ unlisted' = unlisted \ {job[j].cluster}
          /\ UNCHANGED <<clusterOf, cname, late>>
      BY <2>1 DEF AddPoller, At, inventory
    <3>2. Undropped(j) => Undropped(j)'
      <4>1. Undropped(j) => Goto(j, "dropPollers")
        BY <2>1, <3>1 DEF AddPoller, Undropped
      <4>2. Goto(j, "dropPollers") => job'[j].pc = "dropPollers" /\ job'[j].state = "running"
        BY <2>j, GoneTo DEF TypeInv, TypeOK, PCs, Running
      <4>3. QED
        BY <4>1, <4>2 DEF Undropped, Running
    <3>3. ASSUME NEW h \in Hosts PROVE Dropped(h)'
      BY <1>o, <1>d, <2>i, <2>j, <2>q, <3>1, <3>2 DEF Dropped
    <3>4. ASSUME NEW h \in Hosts, clusterOf[h] # None,
                 \A i \in Jobs : ~Unadded(i, clusterOf[h])'
          PROVE  cname[clusterOf[h]] \in polled' \/ clusterOf[h] \in unlisted'
      <4>1. CASE clusterOf[h] = job[j].cluster
        BY <4>1, <3>1, <2>j DEF Late
      <4>2. CASE clusterOf[h] # job[j].cluster
        <5>1. ~Unadded(j, clusterOf[h])
          BY <4>2 DEF Unadded
        <5>2. \A i \in Jobs : ~Unadded(i, clusterOf[h])
          BY <3>4, <5>1, <2>i, <1>t, <3>1
        <5>3. QED
          BY <4>2, <5>2, <3>4, <3>1, <1>o DEF Added
      <4>3. QED
        BY <4>1, <4>2
    <3>5. QED
      BY <3>1, <3>3, <3>4 DEF PolledOK, Added
  <2>2. CASE DropPollers(j)
    <3>1. /\ job[j].pc = "dropPollers" /\ UNCHANGED <<clusterOf, cname, unlisted>>
          /\ late' = late \ HostsOf(j)
          /\ polled' = polled \ (HostsOf(j) \cup
                                 (IF job[j].kind = "join" THEN {job[j].name} ELSE {}))
      BY <2>2 DEF DropPollers, At, inventory
    <3>2. \A c \in Jobs : Unadded(j, c) => Unadded(j, c)'
      <4>1. job[j].kind = "join" => Goto(j, "addPoller")
        BY <2>2, <3>1 DEF DropPollers
      <4>2. Goto(j, "addPoller") => job'[j].pc = "addPoller" /\ job'[j].state = "running"
        BY <2>j, GoneTo DEF TypeInv, TypeOK, PCs, Running
      <4>3. QED
        BY <2>q, <3>1, <4>1, <4>2 DEF Unadded, Running
    <3>3. ASSUME NEW h \in Hosts PROVE Dropped(h)'
      <4>1. CASE h \in HostsOf(j)
        BY <4>1, <3>1 DEF Dropped
      <4>2. CASE h \notin HostsOf(j)
        BY <1>o, <4>2, <2>i, <2>q, <3>1 DEF Dropped
      <4>3. QED
        BY <4>1, <4>2
    <3>4. ASSUME NEW h \in Hosts, clusterOf[h] # None,
                 \A i \in Jobs : ~Unadded(i, clusterOf[h])'
          PROVE  cname[clusterOf[h]] \in polled' \/ clusterOf[h] \in unlisted'
      <4>1. \A i \in Jobs : ~Unadded(i, clusterOf[h])
        BY <3>4, <3>1, <3>2, <2>i, <1>t
      <4>2. cname[clusterOf[h]] \in polled \/ clusterOf[h] \in unlisted
        BY <4>1, <3>4, <1>o DEF Added
      <4>3. cname[clusterOf[h]] \notin HostsOf(j)
        BY <3>4, <1>t, <1>d, <2>j, HostsTyped
      <4>4. job[j].kind = "join" => cname[clusterOf[h]] # job[j].name
        <5>1. job[j].kind = "join" => clusterOf[h] # job[j].cluster
          BY <4>1, <2>j, <3>1 DEF Unadded
        <5>2. QED
          BY <5>1, <2>j, <3>1, <3>4, <1>t DEF RowsOK, Late
      <4>5. QED
        BY <4>2, <4>3, <4>4, <3>1
    <3>5. QED
      BY <3>1, <3>3, <3>4 DEF PolledOK, Added
  <2>3. CASE ~(AddPoller(j) \/ DropPollers(j))
    <3>1. UNCHANGED <<polled, unlisted, late>> /\ job[j].pc \notin Late
      BY <1>1, <2>3 DEF runJob, setup, At, Authenticate, Create, Cleanup, Recreate, AwaitCreate,
         FetchJoinInfo, FetchFails, NextJoiner, Join, WaitForMembership, Reauth, JoinersDone,
         FormClusterFromHosts, AddHostsToCluster, InventoryFails, Late
    <3>2. \A c \in Jobs : ~Undropped(j) /\ ~Unadded(j, c)
      BY <3>1 DEF Undropped, Unadded, Late
    <3>3. CASE clusterOf' = clusterOf
      <4>1. ASSUME NEW h \in Hosts PROVE Dropped(h)'
        BY <3>1, <3>2, <3>3, <2>i, <2>q, <1>o, <1>t DEF Dropped
      <4>2. ASSUME NEW h \in Hosts PROVE Added(h)'
        <5>1. clusterOf[h] # None => cname'[clusterOf[h]] = cname[clusterOf[h]]
          BY <1>t, <2>k
        <5>2. clusterOf[h] # None /\ (\A i \in Jobs : ~Unadded(i, clusterOf[h])')
                 => (\A i \in Jobs : ~Unadded(i, clusterOf[h]))
          BY <3>2, <3>3, <2>i, <1>t
        <5>3. QED
          BY <3>1, <3>3, <5>1, <5>2, <1>o DEF Added
      <4>3. QED
        BY <4>1, <4>2 DEF PolledOK
    <3>4. CASE /\ FormClusterFromHosts(j) \/ AddHostsToCluster(j)
               /\ MoveHosts(j)
      <4>1. /\ \A c \in Jobs : c = job[j].cluster => Unadded(j, c)'
            /\ Undropped(j)'
        <5>1. /\ job[j].kind = "form" => Goto(j, "addPoller")
              /\ job[j].kind = "join" => Goto(j, "dropPollers")
              /\ job[j].kind \in {"form", "join"}
          BY <3>4 DEF FormClusterFromHosts, AddHostsToCluster
        <5>2. \A p \in Late : Goto(j, p) => job'[j].pc = p /\ job'[j].state = "running"
          BY <2>j, GoneTo DEF TypeInv, TypeOK, PCs, Late, Running
        <5>3. QED
          BY <2>q, <5>1, <5>2 DEF Undropped, Unadded, Running, Late
      <4>2. \A h \in Hosts : clusterOf'[h] = IF h \in HostsOf(j) THEN job[j].cluster
                                                                 ELSE clusterOf[h]
        BY <3>4 DEF MoveHosts
      <4>3. ASSUME NEW h \in Hosts PROVE Dropped(h)'
        <5>1. CASE h \in HostsOf(j)
          BY <5>1, <4>1, <2>q DEF Dropped
        <5>2. CASE h \notin HostsOf(j)
          BY <5>2, <4>2, <3>1, <3>2, <2>i, <2>q, <1>o DEF Dropped
        <5>3. QED
          BY <5>1, <5>2
      <4>4. ASSUME NEW h \in Hosts, clusterOf'[h] # None,
                   \A i \in Jobs : ~Unadded(i, clusterOf[h])'
            PROVE  cname'[clusterOf'[h]] \in polled' \/ clusterOf'[h] \in unlisted'
        <5>1. clusterOf'[h] # job[j].cluster
          BY <4>4, <4>1, <2>j
        <5>2. clusterOf'[h] = clusterOf[h]
          BY <5>1, <4>2
        <5>3. \A i \in Jobs : ~Unadded(i, clusterOf[h])
          BY <5>2, <4>4, <3>2, <2>i, <1>t
        <5>4. /\ cname[clusterOf[h]] \in polled \/ clusterOf[h] \in unlisted
              /\ cname'[clusterOf[h]] = cname[clusterOf[h]]
          BY <5>2, <5>3, <4>4, <1>o, <1>t, <2>k DEF Added
        <5>5. QED
          BY <5>2, <5>4, <3>1
      <4>5. QED
        BY <4>3, <4>4 DEF PolledOK, Added
    <3>5. QED
      BY <1>1, <3>3, <3>4, InventoryStep
  <2>4. QED
    BY <2>1, <2>2, <2>3
<1>2. ASSUME NEW j \in Jobs, NEW f \in Hosts, NEW joiners \in SUBSET Hosts,
             Starts(j, f, joiners)
      PROVE  PolledOK'
  <2>0. Request(j, f, joiners)
    BY <1>2, Requested
  <2>1. /\ job[j].state = "none" /\ job'[j].pc \notin Late
        /\ \A i \in Jobs : i # j => job'[i] = job[i]
        /\ UNCHANGED <<cname, clusterOf, polled, unlisted, late>>
    BY <2>0 DEF Request, Late, inventory, setup
  <2>2. \A c \in Jobs : ~Undropped(j) /\ ~Unadded(j, c)
    BY <2>1 DEF Undropped, Unadded, Running
  <2>3. \A i \in Jobs : i # j => /\ Undropped(i)' <=> Undropped(i)
                                 /\ HostsOf(i)' = HostsOf(i)
                                 /\ \A c \in Jobs : Unadded(i, c)' <=> Unadded(i, c)
    BY <2>1, RewiringKept
  <2>4. ASSUME NEW h \in Hosts PROVE Dropped(h)'
    BY <2>1, <2>2, <2>3, <1>o, <1>t DEF Dropped
  <2>5. ASSUME NEW h \in Hosts PROVE Added(h)'
    BY <2>1, <2>2, <2>3, <1>o, <1>t DEF Added
  <2>6. QED
    BY <2>4, <2>5 DEF PolledOK
<1>3. CASE Restart
  <2>1. /\ UNCHANGED <<cname, clusterOf>>
        /\ polled' = GetClusterConfigs /\ unlisted' = Missing(GetClusterConfigs)
    BY <1>3 DEF Restart, inventory
  <2>2. \A c \in Rows : cname[c] \in Names
    BY <1>t DEF Rows
  <2>3. ASSUME NEW h \in Hosts, clusterOf[h] # None PROVE h \notin GetClusterConfigs
    BY <2>2, <2>3, <1>d DEF GetClusterConfigs
  <2>4. ASSUME NEW h \in Hosts, clusterOf[h] # None
        PROVE  cname[clusterOf[h]] \in polled' \/ clusterOf[h] \in unlisted'
    BY <2>1, <2>4, <1>t DEF Missing
  <2>5. QED
    BY <2>1, <2>3, <2>4 DEF PolledOK, Dropped, Added
<1>4. CASE UNCHANGED vars
  BY <1>4, <1>o DEF vars, PolledOK, Dropped, Added, Undropped, Unadded, Running, HostsOf
<1>5. CASE Beside
  <2>0. UNCHANGED <<job, clusterOf, cname>>
    BY <1>5, BesideTyped
  <2>u. ASSUME NEW i \in Jobs
        PROVE  /\ Undropped(i)' <=> Undropped(i)
               /\ HostsOf(i)' = HostsOf(i)
               /\ \A c \in Jobs : Unadded(i, c)' <=> Unadded(i, c)
    BY <2>0, RewiringKept
  <2>h. ASSUME \A h \in Hosts : (clusterOf[h] # None /\ (h \notin polled \/ h \in late))
                               => (h \notin polled' \/ h \in late'),
               \A h \in Hosts :
                  (clusterOf[h] # None
                     /\ (cname[clusterOf[h]] \in polled \/ clusterOf[h] \in unlisted))
                  => (cname[clusterOf[h]] \in polled' \/ clusterOf[h] \in unlisted')
        PROVE  PolledOK'
    <3>1. ASSUME NEW h \in Hosts PROVE Dropped(h)'
      <4>1. (\A i \in Jobs : ~(Undropped(i) /\ h \in HostsOf(i))')
               => \A i \in Jobs : ~(Undropped(i) /\ h \in HostsOf(i))
        BY <2>u
      <4>2. Dropped(h)
        BY <1>o
      <4>3. QED
        BY <2>0, <2>h, <4>1, <4>2 DEF Dropped
    <3>2. ASSUME NEW h \in Hosts PROVE Added(h)'
      <4>1. clusterOf[h] # None /\ (\A i \in Jobs : ~Unadded(i, clusterOf[h])')
               => \A i \in Jobs : ~Unadded(i, clusterOf[h])
        BY <2>0, <2>u, <1>t
      <4>2. Added(h)
        BY <1>o
      <4>3. QED
        BY <2>0, <2>h, <4>1, <4>2 DEF Added
    <3>3. QED
      BY <3>1, <3>2 DEF PolledOK
  <2>1. CASE ReconcileTick \/ \E h \in Hosts : ActivateHost(h)
    <3>1. UNCHANGED <<polled, unlisted, late>>
      BY <2>1 DEF ReconcileTick, ActivateHost
    <3>2. QED
      BY <3>1, <2>h
  <2>2. CASE Reconcile
    <3>1. /\ polled' = polled \cap listed /\ late' = late \cap listed
          /\ unlisted' = unlisted \cup Missing(listed)
      BY <2>2 DEF Reconcile
    <3>2. ASSUME NEW h \in Hosts, clusterOf[h] # None
          PROVE  cname[clusterOf[h]] \in listed \/ clusterOf[h] \in Missing(listed)
      BY <3>2, <1>t DEF Missing
    <3>3. QED
      BY <3>1, <3>2, <2>h
  <2>3. CASE Activated
    <3>1. /\ unlisted' = unlisted
          /\ \/ UNCHANGED <<polled, late>>
             \/ /\ polled' = polled \cup {activating}
                /\ late' = IF clusterOf[activating] = None THEN late ELSE late \cup {activating}
      BY <2>3 DEF Activated
    <3>2. QED
      BY <3>1, <2>h
  <2>4. QED
    BY <1>5, <2>1, <2>2, <2>3 DEF Beside
<1>6. QED
  BY <1>1, <1>2, <1>3, <1>4, <1>5 DEF Next, Starts, Beside

(* A member is not polled as a standalone host as well and its cluster is  *)
(* polled, unless a job is rewiring the poller just then, an activation    *)
(* that read the host's row before it was moved came late, or the list of  *)
(* a restart or of Reconcile lacked the cluster; whichever jobs run side   *)
(* by side, and whenever the backend restarts.                             *)
THEOREM PolledCorrect == Spec => []PolledOnce
<1>1. Init => PolledOK
  BY DEF Init, PolledOK, Dropped, Added
<1>2. TypeInv /\ PolledOK => PolledOnce
  <2> SUFFICES ASSUME TypeInv, PolledOK PROVE PolledOnce
    OBVIOUS
  <2>1. \A j \in Jobs : /\ Undropped(j) => Rewiring(j)
                        /\ \A c \in Jobs : Unadded(j, c) => Rewiring(j) /\ job[j].cluster = c
    BY DEF Undropped, Unadded, Rewiring, Running
  <2>2. \A h \in Hosts : clusterOf[h] # None => clusterOf[h] \in Jobs
    BY DEF TypeInv, TypeOK
  <2>3. QED
    BY <2>1, <2>2 DEF PolledOnce, PolledOK, Dropped, Added
<1>3. QED
  BY <1>1, <1>2, TypeCorrect, PolledStep, PTL DEF Spec

-----------------------------------------------------------------------------
(* Progress.                                                               *)

(* The attempts left in phase 2.                                           *)
Attempts(x) ==
    IF x.pc \in {"auth", "create", "cleanup", "recreate", "await", "info"}
    THEN MaxTries - x.tries ELSE 0

(* What is left of a job that is at x.pc.                                  *)
PlaceIs(n, x) ==
    /\ x.pc = "auth" => n = 11
    /\ x.pc = "create" => n = 10
    /\ x.pc = "cleanup" => n = 9
    /\ x.pc = "recreate" => n = 8
    /\ x.pc \in {"await", "join"} => n = 7
    /\ x.pc \in {"info", "wait"} => n = 6
    /\ x.pc = "reauth" => n = 5
    /\ x.pc = "next" => n = 4
    /\ x.pc = "inventory" => n = 3
    /\ x.pc = "addPoller" => n = IF x.kind = "form" THEN 2 ELSE 1
    /\ x.pc = "dropPollers" => n = IF x.kind = "form" THEN 1 ELSE 2

(* The joiners still to come.                                              *)
Ahead(x) ==
    IF x.pc \in {"auth", "create", "cleanup", "recreate", "await", "info"}
    THEN x.joiners ELSE x.todo

(* A job that goes on has fewer steps left: it moves to a later phase, or  *)
(* uses up an attempt, or a joiner.                                        *)
LEMMA FewerSteps ==
    ASSUME TypeInv, NEW j \in Jobs, Running(j), job'[j] \in Job,
           SameRequest(job[j], job'[j]), GoesOn(job[j], job'[j])
    PROVE  StepsLeft(j)' < StepsLeft(j)
<1> DEFINE x == job[j]
           y == job'[j]
           m == Cardinality(Ahead(x))
           n == Cardinality(Ahead(y))
<1>t. x \in Job /\ RunningOK(j)
  BY DEF TypeInv, TypeOK, JobOK
<1>1. PlaceIs(Place(j), x)
  BY DEF Place, PlaceIs
<1>2. PlaceIs(Place(j)', y)
  BY DEF Place, PlaceIs
<1>5. IsFiniteSet(Ahead(x)) /\ IsFiniteSet(Ahead(y))
  <2>1. Ahead(x) \subseteq Hosts /\ Ahead(y) \subseteq Hosts
    BY <1>t DEF Ahead, Job
  <2>2. QED
    BY <2>1, JobAssumption, FS_Subset
<1>6. m \in Nat /\ n \in Nat
  BY <1>5, FS_CardinalityType
<1>7. /\ MaxTries \in Nat /\ x.tries \in Nat /\ y.tries \in Nat /\ x.tries < MaxTries
      /\ Attempts(x) \in Int /\ Attempts(y) \in Int
  BY <1>t, JobAssumption DEF Job, RunningOK, Attempts
<1>8. x.kind \in {"form", "join"} /\ y.kind = x.kind /\ y.joiners = x.joiners
  BY <1>t DEF Job, SameRequest
<1>p. Place(j) \in Nat /\ Place(j)' \in Nat
  <2>1. x.pc \in PCs \ {"end"}
    BY <1>t DEF Job, TypeInv, JobOK
  <2>2. y.pc \in PCs \ {"end"}
    <3>1. y.pc # "end"
      BY DEF GoesOn, MovesOn, Edges, RetriesInfo, GetsInfo, TakesJoiner, DoneWithJoiner
    <3>2. QED
      BY <3>1 DEF Job
  <2>3. QED
    BY <1>1, <1>2, <1>8, <2>1, <2>2 DEF PlaceIs, PCs
<1>3. StepsLeft(j) = Place(j) + 4 * m + Attempts(x)
  BY <1>6, <1>7, <1>p DEF StepsLeft, Ahead, Attempts
<1>4. StepsLeft(j)' = Place(j)' + 4 * n + Attempts(y)
  BY <1>6, <1>7, <1>p DEF StepsLeft, Ahead, Attempts
<1>9. CASE MovesOn(x, y)
  <2>1. Ahead(y) = Ahead(x) /\ Attempts(y) = Attempts(x)
    BY <1>8, <1>9 DEF MovesOn, Edges, Ahead, Attempts
  <2>2. Place(j)' < Place(j)
    BY <1>1, <1>2, <1>8, <1>9 DEF MovesOn, Edges, PlaceIs
  <2> HIDE DEF x, y
  <2>3. QED
    BY <1>3, <1>4, <1>6, <1>7, <1>p, <2>1, <2>2
<1>10. CASE RetriesInfo(x, y)
  <2>1. Ahead(y) = Ahead(x) /\ Attempts(x) = MaxTries - x.tries
        /\ Attempts(y) = MaxTries - (x.tries + 1)
    BY <1>8, <1>10 DEF RetriesInfo, Ahead, Attempts
  <2>2. Place(j) = 6 /\ Place(j)' = 6
    BY <1>1, <1>2, <1>10 DEF RetriesInfo, PlaceIs
  <2> HIDE DEF x, y
  <2>3. QED
    BY <1>3, <1>4, <1>6, <1>7, <2>1, <2>2
<1>11. CASE GetsInfo(x, y) \/ DoneWithJoiner(x, y)
  <2>1. Ahead(y) = Ahead(x) /\ Attempts(y) = 0 /\ Attempts(x) >= 0
    BY <1>7, <1>8, <1>11 DEF GetsInfo, DoneWithJoiner, Ahead, Attempts
  <2>2. Place(j) \in {5, 6} /\ Place(j)' = 4
    BY <1>1, <1>2, <1>11 DEF GetsInfo, DoneWithJoiner, PlaceIs
  <2> HIDE DEF x, y
  <2>3. QED
    BY <1>3, <1>4, <1>6, <1>7, <2>1, <2>2
<1>12. CASE TakesJoiner(x, y)
  <2>1. y.cur \in Ahead(x) /\ Ahead(y) = Ahead(x) \ {y.cur}
        /\ Attempts(x) = 0 /\ Attempts(y) = 0
    BY <1>12 DEF TakesJoiner, Ahead, Attempts
  <2>2. Place(j) = 4 /\ Place(j)' = 7
    BY <1>1, <1>2, <1>12 DEF TakesJoiner, PlaceIs
  <2>3. n = m - 1
    BY <1>5, <2>1, FS_RemoveElement
  <2> HIDE DEF x, y, m, n
  <2>4. QED
    BY <1>3, <1>4, <1>6, <1>7, <2>1, <2>2, <2>3
<1>13. QED
  BY <1>9, <1>10, <1>11, <1>12 DEF GoesOn

(* No phase loops: whatever a job does next, retries, the detour over the  *)
(* cleanup and the next joiner included, brings it closer to its end.      *)
THEOREM AdvancesCorrect == Spec => JobAdvances
<1> DEFINE A == \A j \in Jobs :
          job[j].state = "running" /\ job'[j].state = "running" /\ job'[j] # job[j]
          => StepsLeft(j)' < StepsLeft(j)
<1>1. TypeInv /\ [Next]_vars => [A]_vars
  <2> SUFFICES ASSUME TypeInv, [Next]_vars, NEW j \in Jobs,
                      Running(j), job'[j].state = "running", job'[j] # job[j]
               PROVE  StepsLeft(j)' < StepsLeft(j)
    BY DEF Running
  <2>1. ASSUME NEW i \in Jobs, runJob(i) PROVE StepsLeft(j)' < StepsLeft(j)
    <3>1. Result(i)
      BY <2>1, Transitions
    <3>2. i = j
      BY <3>1 DEF Result
    <3>3. GoesOn(job[j], job'[j]) /\ SameRequest(job[j], job'[j]) /\ job'[j] \in Job
      BY <3>1, <3>2 DEF Result, Fails, Succeeds
    <3>4. QED
      BY <3>3, FewerSteps
  <2>2. ASSUME NEW i \in Jobs, NEW f \in Hosts, NEW joiners \in SUBSET Hosts,
               Starts(i, f, joiners)
        PROVE  FALSE
    <3>1. Request(i, f, joiners)
      BY <2>2, Requested
    <3>2. QED
      BY <3>1 DEF Request, Running
  <2>3. CASE Restart
    BY <2>3, Restarted
  <2>4. CASE UNCHANGED vars
    BY <2>4 DEF vars
  <2>5. CASE Beside
    BY <2>5, BesideTyped
  <2>6. QED
    BY <2>1, <2>2, <2>3, <2>4, <2>5 DEF Next, Starts, Beside
<1>2. QED
  BY <1>1, TypeCorrect, PTL DEF Spec, JobAdvances

-----------------------------------------------------------------------------
(* Success is real, first part: the steps.                                 *)

(* No step is left behind: a request seeds the steps that are open, runJob *)
(* closes them in order, and a job succeeds when none is open any more.    *)
LEMMA StepsKept ==
    TypeInv /\ (\A i \in Jobs : StepsOK(i)) /\ [Next]_vars => \A i \in Jobs : StepsOK(i)'
<1> SUFFICES ASSUME TypeInv, \A i \in Jobs : StepsOK(i), [Next]_vars, NEW k \in Jobs
             PROVE  StepsOK(k)'
  OBVIOUS
<1>f. ASSUME job'[k] = job[k], step'[k] = step[k] PROVE StepsOK(k)'
  BY <1>f DEF StepsOK, StepDone, Running
<1>1. ASSUME NEW j \in Jobs, runJob(j) PROVE StepsOK(k)'
  <2>1. CASE k = j
    BY <1>1, <2>1, StepStep
  <2>2. CASE k # j
    <3>1. job'[k] = job[k]
      BY <1>1, <2>2, Transitions DEF Result
    <3>2. step'[k] = step[k]
      BY <1>1, <2>2, StepStep
    <3>3. QED
      BY <3>1, <3>2, <1>f
  <2>3. QED
    BY <2>1, <2>2
<1>2. ASSUME NEW j \in Jobs, NEW f \in Hosts, NEW joiners \in SUBSET Hosts,
             Starts(j, f, joiners)
      PROVE  StepsOK(k)'
  <2>0. Request(j, f, joiners)
    BY <1>2, Requested
  <2>1. CASE k = j
    BY <2>0, <2>1 DEF Request, StepsOK, StepDone, Running
  <2>2. CASE k # j
    BY <2>0, <2>2, <1>f DEF Request
  <2>3. QED
    BY <2>1, <2>2
<1>3. CASE Restart
  <2>1. CASE Running(k)
    BY <1>3, <2>1, Restarted DEF StepsOK, Running
  <2>2. CASE ~Running(k)
    BY <1>3, <2>2, <1>f, Restarted
  <2>3. QED
    BY <2>1, <2>2
<1>4. CASE UNCHANGED vars
  BY <1>4, <1>f DEF vars
<1>5. CASE Beside
  BY <1>5, <1>f, BesideTyped
<1>6. QED
  BY <1>1, <1>2, <1>3, <1>4, <1>5 DEF Next, Starts, Beside

-----------------------------------------------------------------------------
(* Success is real, second part: the membership.  A host is its job's own  *)
(* as long as no request has named it while it was in use; the membership  *)
(* of a cluster is real as long as that holds of every host of its jobs.   *)

Before(j) == Running(j) /\ job[j].pc \notin Late
Moved(j) == \/ job[j].state = "succeeded"
            \/ Running(j) /\ job[j].pc \in Late
            \/ j \in Rows

Clean(c) == Team(c) \cap contested = {}
Live(c) == Running(c) \/ c \in Rows

NotCreated == {"auth", "create", "cleanup", "recreate"}

(* Joiners that the founder has not been seen to list yet.                 *)
Waiting(x) ==
    IF x.pc \in Early THEN x.joiners
    ELSE x.todo \cup IF x.pc \in {"join", "wait"} THEN {x.cur} ELSE {}

(* At most one running job is about the host.                              *)
Alone(h) ==
    \A i, k \in Jobs :
        Running(i) /\ Running(k) /\ h \in HostsOf(i) /\ h \in HostsOf(k) => i = k

(* A host enters the inventory cluster of its job with the inventory       *)
(* phase, and stays there.                                                 *)
Standing(i, h) ==
    /\ Before(i) => clusterOf[h] = None
    /\ Moved(i) => clusterOf[h] = job[i].cluster /\ job[i].cluster \in Jobs

(* The founder: from the creation on it is in the cluster of its job, and  *)
(* from the end of the task on it is known to accept the token of the job. *)
FounderOK(i) ==
    LET f == job[i].founder
    IN  /\ token[f] = job[i].tok
        /\ job[i].kind = "form" =>
             /\ job[i].pc \notin NotCreated => pve[f] = i
             /\ job[i].pc \notin Forming => job[i].tok = accepts[f]
        /\ job[i].kind = "join" => clusterOf[f] = job[i].cluster

(* PVE clusters are those that form jobs have created.                     *)
Created(h) ==
    pve[h] \in Jobs =>
        LET x == job[pve[h]]
        IN  x.state # "none" /\ x.kind = "form" /\ (x.state = "running" => x.pc \notin NotCreated)

InTeam ==
    /\ \A h \in Hosts : clusterOf[h] # None => h \in Team(clusterOf[h])
    /\ \A i \in Jobs : Running(i) => job[i].founder \in Team(job[i].cluster)

(* A cluster: the nodes of the PVE cluster accept the token its founder    *)
(* accepts, and the members are nodes of it whose rows hold that token.    *)
Node(c, h) ==
    /\ h \in Team(c) /\ accepts[h] = accepts[job[c].founder]
    /\ clusterOf[h] \in {None, c}

ClusterOK(c) ==
    /\ \A h \in Hosts : pve[h] = c => Node(c, h)
    /\ \A h \in Hosts : clusterOf[h] = c => pve[h] = c /\ token[h] = accepts[h]

(* A joiner that the founder has listed is in the founder's cluster.       *)
JoinerOK(i, h) ==
    /\ Clean(job[i].cluster) => pve[h] = job[i].cluster
    /\ \A c \in Jobs : Clean(c) /\ Live(c) /\ pve[h] = c => c = job[i].cluster

Listed(i, h) == Before(i) /\ h \in job[i].joiners /\ h \notin Waiting(job[i])

HostsOK ==
    /\ \A h \in Hosts : h \notin contested => Alone(h)
    /\ \A i \in Jobs, h \in Hosts : h \notin contested /\ h \in HostsOf(i) => Standing(i, h)
    /\ \A i \in Jobs : Before(i) /\ job[i].founder \notin contested => FounderOK(i)
    /\ \A i \in Jobs, h \in Hosts : h \notin contested /\ Listed(i, h) => JoinerOK(i, h)

MembershipOK ==
    /\ HostsOK
    /\ \A h \in Hosts : Created(h)
    /\ InTeam
    /\ \A c \in Jobs : Clean(c) /\ Live(c) => ClusterOK(c)

(* Who is in a team.                                                       *)
LEMMA TeamIs ==
    ASSUME NEW c
    PROVE  /\ \A h : h \in Team(c) <=> \E i \in Jobs : job[i].cluster = c /\ h \in HostsOf(i)
           /\ \A h : h \in Team(c)' <=> \E i \in Jobs : job'[i].cluster = c /\ h \in HostsOf(i)'
  BY DEF Team

(* What runJob does on the hosts, whether the job goes on or fails.        *)
LEMMA WorldStep ==
    ASSUME TypeInv, NEW j \in Jobs, runJob(j)
    PROVE  \/ /\ job[j].pc \in {"create", "recreate"} /\ job'[j].pc = "await"
              /\ pve' = [pve EXCEPT ![job[j].founder] = j] /\ accepts' = accepts
           \/ /\ job[j].pc \in {"cleanup", "await"} /\ job'[j].pc \in {"recreate", "end"}
              /\ pve' = [pve EXCEPT ![job[j].founder] = None] /\ accepts' = accepts
           \/ job[j].pc = "join" /\ job'[j].pc \in {"wait", "end"} /\ Joined(j)
           \/ /\ job'[j].pc # "await" /\ pve' = pve /\ accepts' = accepts
              /\ job[j].pc = "await" /\ job'[j].pc # "end" => TokenOk(j)
              /\ job[j].pc = "wait" /\ job'[j].pc # "end" =>
                   pve[job[j].cur] = pve[job[j].founder] /\ pve[job[j].founder] # None
<1>t. /\ job \in [Jobs -> Job] /\ job[j] \in Job
      /\ pve \in [Hosts -> Jobs \cup {Leftover, None}]
  BY DEF TypeInv, TypeOK
<1>f. Fail(j) => job'[j].pc = "end"
  BY <1>t, Ended DEF Fail
<1>g. \A p \in PCs : Goto(j, p) => job'[j].pc = p
  BY <1>t, GoneTo
<1>1. CASE Create(j) \/ Recreate(j)
  BY <1>1, <1>f, <1>g DEF Create, Recreate, CreateRejected, At, Founder, PCs
<1>2. CASE Cleanup(j)
  BY <1>2, <1>f, <1>g DEF Cleanup, At, Founder, PCs
<1>3. CASE AwaitCreate(j)
  <2>1. job[j].pc = "await" /\ accepts' = accepts
    BY <1>3 DEF AwaitCreate, At
  <2>2. CASE TokenOk(j) /\ Goto(j, "info") /\ pve' = pve
    BY <2>1, <2>2, <1>g DEF PCs
  <2>3. CASE /\ Fail(j)
             /\ pve' \in {pve, [pve EXCEPT ![Founder(j)] = IF @ = j THEN None ELSE @]}
    <3>1. pve' = pve \/ pve' = [pve EXCEPT ![Founder(j)] = None]
      BY <2>3, <1>t
    <3>2. QED
      BY <2>1, <2>3, <3>1, <1>f DEF Founder
  <2>4. QED
    BY <1>3, <2>2, <2>3 DEF AwaitCreate
<1>4. CASE Join(j)
  BY <1>4, <1>f, <1>g DEF Join, JoinFailed, At, PCs, world
<1>5. CASE WaitForMembership(j)
  BY <1>5, <1>f, <1>g DEF WaitForMembership, JoinFailed, At, PCs, world, Founder
<1>6. CASE ~(Create(j) \/ Recreate(j) \/ Cleanup(j) \/ AwaitCreate(j) \/ Join(j)
             \/ WaitForMembership(j))
  <2>1. UNCHANGED <<pve, accepts>> /\ job[j].pc \notin {"create", "recreate", "await", "wait"}
    BY <1>6 DEF runJob, At, Authenticate, FetchJoinInfo, FetchFails, NextJoiner, Reauth,
       JoinersDone, FormClusterFromHosts, AddHostsToCluster, InventoryFails, AddPoller,
       DropPollers, world
  <2>2. job'[j].pc # "await"
    BY <2>1, Transitions DEF Result, GoesOn, MovesOn, Edges, RetriesInfo, GetsInfo, TakesJoiner,
       DoneWithJoiner, Fails, Succeeds
  <2>3. QED
    BY <2>1, <2>2
<1>7. QED
  BY <1>1, <1>2, <1>3, <1>4, <1>5, <1>6

(* A job touches no host but its own, and none once the inventory is       *)
(* written.                                                                *)
LEMMA OwnHosts ==
    ASSUME TypeInv, NEW j \in Jobs, runJob(j), NEW h \in Hosts,
           h \notin HostsOf(j) \/ job[j].pc \in Late
    PROVE  /\ pve'[h] = pve[h] /\ accepts'[h] = accepts[h]
           /\ clusterOf'[h] = clusterOf[h] /\ token'[h] = token[h]
<1>t. /\ pve \in [Hosts -> Jobs \cup {Leftover, None}] /\ accepts \in [Hosts -> Hosts]
      /\ clusterOf \in [Hosts -> Jobs \cup {None}] /\ token \in [Hosts -> Hosts]
      /\ job[j] \in Job
  BY DEF TypeInv, TypeOK
<1>r. Running(j) /\ RunningOK(j)
  BY Transitions DEF Result, TypeInv, JobOK
<1>j. job[j].joiners \subseteq HostsOf(j) /\ job[j].joiners \subseteq Hosts
  BY <1>t DEF HostsOf, Job
<1>k. job[j].pc \in Forming => job[j].founder \in HostsOf(j)
  BY <1>t, <1>r DEF HostsOf, RunningOK, Job
<1>c. job[j].pc \in AtJoiner => job[j].cur \in HostsOf(j)
  BY <1>r, <1>j DEF RunningOK
<1>1. pve'[h] = pve[h] /\ accepts'[h] = accepts[h]
  <2>1. CASE Create(j) \/ Cleanup(j) \/ Recreate(j) \/ AwaitCreate(j)
    <3>1. job[j].pc \in Forming /\ job[j].pc \notin Late /\ accepts' = accepts
      BY <2>1 DEF Create, Cleanup, Recreate, AwaitCreate, At, Forming, Late
    <3>2. job[j].founder # h
      BY <3>1, <1>k
    <3>3. \/ pve' = pve \/ pve' = [pve EXCEPT ![job[j].founder] = j]
          \/ pve' = [pve EXCEPT ![job[j].founder] = None]
          \/ pve' = [pve EXCEPT ![job[j].founder] = IF @ = j THEN None ELSE @]
      BY <2>1 DEF Create, Cleanup, Recreate, AwaitCreate, CreateRejected, Founder
    <3>4. QED
      BY <3>1, <3>2, <3>3, <1>t
  <2>2. CASE Join(j)
    BY <2>2, <1>c, <1>t DEF Join, Joined, At, AtJoiner, Late, world
  <2>3. CASE ~(Create(j) \/ Cleanup(j) \/ Recreate(j) \/ AwaitCreate(j) \/ Join(j))
    BY <2>3 DEF runJob, world, Authenticate, FetchJoinInfo, FetchFails, NextJoiner,
       WaitForMembership, Reauth, JoinersDone, FormClusterFromHosts, AddHostsToCluster,
       InventoryFails, AddPoller, DropPollers
  <2>4. QED
    BY <2>1, <2>2, <2>3
<1>2. clusterOf'[h] = clusterOf[h] /\ token'[h] = token[h]
  <2>1. CASE job[j].pc = "inventory" /\ MoveHosts(j)
    BY <2>1, <1>j DEF MoveHosts, Late
  <2>2. CASE /\ clusterOf' = clusterOf /\ job[j].pc = "reauth"
             /\ token' = [token EXCEPT ![job[j].cur] = job[j].tok]
    BY <2>2, <1>c, <1>t DEF Late, AtJoiner
  <2>3. QED
    BY <2>1, <2>2, InventoryStep
<1>3. QED
  BY <1>1, <1>2

(* What does not change about the jobs when one of them takes a step.      *)
LEMMA RunFrame ==
    ASSUME TypeInv, NEW j \in Jobs, runJob(j)
    PROVE  /\ contested' = contested
           /\ \A i \in Jobs : /\ SameRequest(job[i], job'[i]) /\ HostsOf(i)' = HostsOf(i)
                              /\ Running(i)' => Running(i)
                              /\ Before(i)' => Before(i)
           /\ \A i \in Jobs : i # j => job'[i] = job[i]
           /\ \A c \in Jobs : /\ Clean(c)' <=> Clean(c)
                              /\ Live(c)' => Live(c)
           /\ \A c, h : h \in Team(c)' <=> h \in Team(c)
<1>r. Result(j)
  BY Transitions
<1>1. contested' = contested
  BY WorldTyped
<1>2. \A i \in Jobs : i # j => job'[i] = job[i]
  BY <1>r DEF Result
<1>3. ASSUME NEW i \in Jobs
      PROVE  /\ SameRequest(job[i], job'[i]) /\ HostsOf(i)' = HostsOf(i)
             /\ Running(i)' => Running(i)
             /\ Before(i)' => Before(i)
  <2>1. SameRequest(job[i], job'[i])
    BY <1>r, <1>2 DEF Result, SameRequest
  <2>2. CASE i # j
    BY <1>2, <2>1, <2>2 DEF SameRequest, HostsOf, Running, Before
  <2>3. CASE i = j
    <3>1. HostsOf(j)' = HostsOf(j) /\ Running(j)
      BY <2>1, <2>3, <1>r DEF SameRequest, HostsOf, Result
    <3>2. Before(j)' => job[j].pc \notin Late
      BY <1>r DEF Result, Before, GoesOn, Fails, Succeeds, MovesOn, Edges, RetriesInfo, GetsInfo,
         TakesJoiner, DoneWithJoiner, Late, Running
    <3>3. QED
      BY <2>1, <2>3, <3>1, <3>2 DEF Before
  <2>4. QED
    BY <2>2, <2>3
<1>4. ASSUME NEW c PROVE \A h : h \in Team(c)' <=> h \in Team(c)
  <2>1. \A i \in Jobs : job'[i].cluster = job[i].cluster /\ HostsOf(i)' = HostsOf(i)
    BY <1>3 DEF SameRequest
  <2>2. QED
    BY <2>1, TeamIs
<1>5. ASSUME NEW c \in Jobs PROVE (Clean(c)' <=> Clean(c)) /\ (Live(c)' => Live(c))
  <2>1. Clean(c)' <=> Clean(c)
    BY <1>1, <1>4 DEF Clean
  <2>2. CASE c # j
    <3>1. c \in Rows' => c \in Rows
      BY <2>2, RowsKept DEF Rows
    <3>2. QED
      BY <2>1, <3>1, <1>3 DEF Live
  <2>3. CASE c = j
    BY <2>1, <2>3, <1>r DEF Live, Result
  <2>4. QED
    BY <2>2, <2>3
<1>6. QED
  BY <1>1, <1>2, <1>3, <1>4, <1>5

(* The founder of a cluster that has nodes is one of them.                 *)
LEMMA Seat ==
    ASSUME TypeInv, MembershipOK, NEW c \in Jobs, Clean(c), Live(c), NEW h \in Hosts, pve[h] = c
    PROVE  job[c].founder \in Hosts /\ pve[job[c].founder] = c
<1> DEFINE f == job[c].founder
<1>1. /\ job[c].state # "none" /\ job[c].kind = "form"
      /\ Running(c) => job[c].pc \notin NotCreated
  BY DEF MembershipOK, Created, Running
<1>t. JobOK(c) /\ job[c] \in Job
  BY DEF TypeInv, TypeOK
<1>2. CASE Before(c)
  <2>1. job[c].cluster = c /\ f \in Hosts
    BY <1>1, <1>2, <1>t DEF Before, JobOK, RunningOK
  <2>2. f \in HostsOf(c)
    BY <1>1 DEF HostsOf
  <2>3. f \notin contested
    BY <2>1, <2>2, TeamIs DEF Clean
  <2>4. QED
    BY <1>1, <1>2, <2>1, <2>3 DEF MembershipOK, HostsOK, FounderOK, Before
<1>3. CASE ~Before(c)
  <2>1. Moved(c)
    BY <1>3 DEF Live, Before, Moved
  <2>2. c \in Rows
    BY <1>1, <1>3, <1>t, JobAssumption DEF Live, Before, Rows, JobOK, RunningOK
  <2>3. f \in HostsOf(c)
    BY <1>1 DEF HostsOf
  <2>4. job[c].cluster = c /\ f \in Hosts
    BY <2>2, <1>t DEF JobOK, Rows
  <2>5. f \notin contested
    BY <2>3, <2>4, TeamIs DEF Clean
  <2>6. clusterOf[f] = c
    BY <2>1, <2>3, <2>4, <2>5 DEF MembershipOK, HostsOK, Standing
  <2>7. QED
    BY <2>4, <2>6 DEF MembershipOK, ClusterOK
<1>4. QED
  BY <1>2, <1>3

(* The token a job works with is the one its cluster accepts, and its      *)
(* founder is a node of the cluster.                                       *)
LEMMA TokenSeat ==
    ASSUME TypeInv, MembershipOK, NEW j \in Jobs, Before(j), job[j].pc \notin Forming,
           Clean(job[j].cluster)
    PROVE  /\ job[j].cluster \in Jobs /\ Live(job[j].cluster)
           /\ job[j].founder \in Hosts /\ job[j].founder \notin contested
           /\ pve[job[j].founder] = job[j].cluster
           /\ job[j].tok = accepts[job[j].founder]
           /\ job[j].tok = accepts[job[job[j].cluster].founder]
<1> DEFINE f == job[j].founder
           c == job[j].cluster
<1>r. Running(j) /\ RunningOK(j) /\ job[j] \in Job
  BY DEF Before, TypeInv, TypeOK, JobOK
<1>1. f \notin contested
  <2>1. f \in Team(c)
    BY <1>r DEF MembershipOK, InTeam
  <2>2. QED
    BY <2>1 DEF Clean
<1>2. FounderOK(j)
  BY <1>1 DEF MembershipOK, HostsOK
<1>3. CASE job[j].kind = "form"
  BY <1>1, <1>2, <1>3, <1>r DEF FounderOK, NotCreated, Forming, RunningOK, Live
<1>4. CASE job[j].kind = "join"
  <2>1. c \in Rows /\ c \in Jobs /\ f \in Hosts /\ clusterOf[f] = c /\ token[f] = job[j].tok
    BY <1>2, <1>4, <1>r DEF FounderOK, RunningOK, Rows
  <2>2. ClusterOK(c)
    BY <2>1 DEF MembershipOK, Live
  <2>3. pve[f] = c /\ token[f] = accepts[f]
    BY <2>1, <2>2 DEF ClusterOK
  <2>4. accepts[f] = accepts[job[c].founder]
    BY <2>1, <2>2, <2>3 DEF ClusterOK, Node
  <2>5. QED
    BY <1>1, <2>1, <2>3, <2>4 DEF Live
<1>5. QED
  BY <1>3, <1>4, <1>r DEF Job

(* Nobody joins hosts to a cluster but the jobs that are about it.         *)
LEMMA Source ==
    ASSUME TypeInv, MembershipOK, NEW j \in Jobs, Before(j), job[j].pc \notin Forming,
           NEW c \in Jobs, Clean(c), Live(c), pve[job[j].founder] = c
    PROVE  job[j].cluster = c
<1> DEFINE f == job[j].founder
<1>r. Running(j) /\ RunningOK(j) /\ job[j] \in Job /\ f \in Hosts
  BY DEF Before, TypeInv, TypeOK, JobOK, RunningOK
<1>1. Node(c, f)
  BY <1>r DEF MembershipOK, ClusterOK
<1>2. f \notin contested
  BY <1>1 DEF Node, Clean
<1>3. FounderOK(j)
  BY <1>2 DEF MembershipOK, HostsOK
<1>4. CASE job[j].kind = "form"
  BY <1>3, <1>4, <1>r DEF FounderOK, NotCreated, Forming, RunningOK
<1>5. CASE job[j].kind = "join"
  <2>1. clusterOf[f] = job[j].cluster /\ job[j].cluster \in Jobs
    BY <1>3, <1>5, <1>r DEF FounderOK, RunningOK, Rows
  <2>2. QED
    BY <1>1, <2>1, JobAssumption DEF Node
<1>6. QED
  BY <1>4, <1>5, <1>r DEF Job

(* A host that no other job may touch and that is a member is left alone.  *)
LEMMA MemberUntouched ==
    ASSUME TypeInv, MembershipOK, NEW j \in Jobs, runJob(j), NEW h \in Hosts, h \notin contested,
           clusterOf[h] # None
    PROVE  /\ pve'[h] = pve[h] /\ accepts'[h] = accepts[h]
           /\ clusterOf'[h] = clusterOf[h] /\ token'[h] = token[h]
<1>1. Running(j)
  BY Transitions DEF Result
<1>2. h \notin HostsOf(j) \/ job[j].pc \in Late
  BY <1>1 DEF MembershipOK, HostsOK, Standing, Before
<1>3. QED
  BY <1>2, OwnHosts

(* The host of another running job is left alone.                          *)
LEMMA OtherUntouched ==
    ASSUME TypeInv, MembershipOK, NEW j \in Jobs, runJob(j), NEW h \in Hosts, h \notin contested,
           NEW i \in Jobs, i # j, Running(i), h \in HostsOf(i)
    PROVE  /\ pve'[h] = pve[h] /\ accepts'[h] = accepts[h]
           /\ clusterOf'[h] = clusterOf[h] /\ token'[h] = token[h]
<1>1. Running(j)
  BY Transitions DEF Result
<1>2. h \notin HostsOf(j)
  BY <1>1 DEF MembershipOK, HostsOK, Alone
<1>3. QED
  BY <1>2, OwnHosts

(* Hosts enter the inventory cluster of their job, and stay.               *)
LEMMA StandingKept ==
    ASSUME TypeInv, MembershipOK, NEW j \in Jobs, runJob(j), NEW i \in Jobs, NEW h \in Hosts,
           h \notin contested, h \in HostsOf(i)
    PROVE  Standing(i, h)'
<1>s. Standing(i, h)
  BY DEF MembershipOK, HostsOK
<1>f. /\ SameRequest(job[i], job'[i]) /\ (Before(i)' => Before(i))
      /\ i # j => job'[i] = job[i]
  BY RunFrame
<1>1. CASE i # j
  <2>1. Before(i)' => clusterOf'[h] = None
    BY <1>1, <1>s, <1>f, OtherUntouched DEF Standing, Before
  <2>2. Moved(i)' => Moved(i)
    <3>1. i \in Rows' => i \in Rows
      BY <1>1, RowsKept DEF Rows
    <3>2. QED
      BY <1>1, <1>f, <3>1 DEF Moved, Running
  <2>3. Moved(i)' => clusterOf'[h] = job'[i].cluster /\ job'[i].cluster \in Jobs
    BY <1>1, <1>s, <1>f, <2>2, MemberUntouched, JobAssumption DEF Standing
  <2>4. QED
    BY <2>1, <2>3 DEF Standing
<1>2. CASE i = j
  <2>r. Result(j) /\ Running(j) /\ RunningOK(j) /\ job[j] \in Job /\ JobOK(j)
    BY Transitions DEF Result, TypeInv, TypeOK, JobOK
  <2>c. job'[j].cluster = job[j].cluster
    BY <1>2, <1>f DEF SameRequest
  <2>1. CASE job[j].pc \in Late
    <3>1. clusterOf'[h] = clusterOf[h]
      BY <2>1, OwnHosts
    <3>2. Moved(j) /\ ~Before(j)
      BY <2>1, <2>r DEF Moved, Before
    <3>3. QED
      BY <1>2, <1>s, <1>f, <2>c, <3>1, <3>2 DEF Standing
  <2>2. CASE job[j].pc = "inventory" /\ job'[j].pc \in Late /\ MoveHosts(j)
    <3>1. clusterOf'[h] = job[j].cluster
      BY <1>2, <2>2 DEF MoveHosts
    <3>2. job[j].cluster \in Jobs
      BY <2>r DEF RunningOK, Job, Rows
    <3>3. ~Before(j)'
      BY <2>2 DEF Before
    <3>4. QED
      BY <1>2, <2>c, <3>1, <3>2, <3>3 DEF Standing
  <2>3. CASE /\ job[j].pc \notin Late /\ clusterOf' = clusterOf
             /\ ~(job[j].pc = "inventory" /\ job'[j].pc \in Late)
    <3>1. ~Moved(j)'
      <4>1. ~Succeeds(job[j], job'[j]) /\ job'[j].pc \notin Late
        BY <2>3, <2>r DEF Succeeds, Result, GoesOn, MovesOn, Edges, RetriesInfo, GetsInfo,
           TakesJoiner, DoneWithJoiner, Fails, Late
      <4>2. job'[j].state # "succeeded"
        BY <4>1, <2>r DEF Result, GoesOn, Fails
      <4>3. j \notin Rows
        BY <2>3, <2>r DEF JobOK, RunningOK, Rows
      <4>4. cname' = cname
        BY <4>1, RowStep DEF Late
      <4>5. QED
        BY <4>1, <4>2, <4>3, <4>4 DEF Moved, Rows
    <3>2. QED
      BY <1>2, <1>f, <1>s, <2>3, <3>1 DEF Standing
  <2>4. QED
    BY <2>1, <2>2, <2>3, InventoryStep DEF Late
<1>3. QED
  BY <1>1, <1>2

(* A job that still runs has gone on.                                      *)
LEMMA Onward ==
    ASSUME NEW j \in Jobs, Result(j), job'[j].state = "running"
    PROVE  GoesOn(job[j], job'[j]) /\ job'[j].pc # "end"
<1>1. GoesOn(job[j], job'[j])
  BY DEF Result, Fails, Succeeds
<1>2. QED
  BY <1>1 DEF GoesOn, MovesOn, Edges, RetriesInfo, GetsInfo, TakesJoiner, DoneWithJoiner

(* The founder stays in the cluster it has created, or belongs to.         *)
LEMMA FounderKept ==
    ASSUME TypeInv, MembershipOK, NEW j \in Jobs, runJob(j), NEW i \in Jobs, Before(i)',
           job[i].founder \notin contested
    PROVE  FounderOK(i)'
<1> DEFINE f == job[i].founder
<1>f. /\ SameRequest(job[i], job'[i]) /\ Before(i)
      /\ i # j => job'[i] = job[i]
  BY RunFrame
<1>o. FounderOK(i)
  BY <1>f DEF MembershipOK, HostsOK
<1>r. Running(i) /\ RunningOK(i) /\ job[i] \in Job /\ f \in Hosts
  BY <1>f DEF Before, TypeInv, TypeOK, JobOK, RunningOK
<1>t. /\ pve \in [Hosts -> Jobs \cup {Leftover, None}] /\ accepts \in [Hosts -> Hosts]
      /\ token \in [Hosts -> Hosts]
  BY DEF TypeInv, TypeOK
<1>1. CASE job[i].kind = "join"
  <2>1. clusterOf[f] # None
    BY <1>1, <1>o, <1>r, JobAssumption DEF FounderOK, RunningOK, Rows
  <2>2. clusterOf'[f] = clusterOf[f] /\ token'[f] = token[f]
    BY <2>1, <1>r, MemberUntouched
  <2>3. QED
    BY <1>1, <1>f, <1>o, <2>2 DEF FounderOK, SameRequest
<1>2. CASE job[i].kind = "form" /\ i # j
  <2>1. f \in HostsOf(i)
    BY <1>2 DEF HostsOf
  <2>2. pve'[f] = pve[f] /\ accepts'[f] = accepts[f] /\ token'[f] = token[f]
    BY <1>2, <1>r, <2>1, OtherUntouched
  <2>3. QED
    BY <1>2, <1>f, <1>o, <2>2 DEF FounderOK
<1>3. CASE job[i].kind = "form" /\ i = j
  <2>r. /\ job'[j].pc \notin Late /\ job'[j].pc # "end" /\ Result(j)
        /\ GoesOn(job[j], job'[j])
    <3>1. Result(j) /\ job'[j].pc \notin Late /\ job'[j].state = "running"
      BY <1>3, Transitions DEF Before, Running
    <3>2. QED
      BY <3>1, Onward
  <2>1. token'[f] = job[j].tok
    <3>1. token' = token \/ token' = [token EXCEPT ![job[j].cur] = job[j].tok]
      BY <2>r, InventoryStep
    <3>2. QED
      BY <1>3, <1>o, <1>r, <1>t, <3>1 DEF FounderOK
  <2>2. job'[j].pc \notin NotCreated => pve'[f] = j
    <3>1. CASE pve' = [pve EXCEPT ![f] = j]
      BY <3>1, <1>r, <1>t
    <3>2. CASE job'[j].pc \in {"recreate", "end"}
      BY <3>2, <2>r DEF NotCreated
    <3>3. CASE job[j].pc = "join" /\ Joined(j)
      <4>1. pve[f] = j /\ pve[job[j].cur] = None
        BY <1>3, <1>o, <3>3 DEF FounderOK, NotCreated, Joined
      <4>2. QED
        BY <3>3, <4>1, <1>t, JobAssumption DEF Joined
    <3>4. CASE job'[j].pc # "await" /\ pve' = pve
      <4>1. job'[j].pc \notin NotCreated => job[j].pc \notin NotCreated
        BY <2>r, <3>4 DEF GoesOn, MovesOn, Edges, RetriesInfo, GetsInfo, TakesJoiner,
           DoneWithJoiner, NotCreated
      <4>2. QED
        BY <1>3, <1>o, <3>4, <4>1 DEF FounderOK
    <3>5. QED
      BY <1>3, <3>1, <3>2, <3>3, <3>4, WorldStep
  <2>3. job'[j].pc \notin Forming => job[j].tok = accepts'[f]
    <3>1. CASE job[j].pc = "join" /\ Joined(j)
      <4>1. pve[f] = j /\ pve[job[j].cur] = None /\ job[j].tok = accepts[f]
        BY <1>3, <1>o, <3>1 DEF FounderOK, NotCreated, Forming, Joined
      <4>2. QED
        BY <3>1, <4>1, <1>t, JobAssumption DEF Joined
    <3>2. CASE accepts' = accepts /\ (job[j].pc = "await" => TokenOk(j) \/ job'[j].pc \in Forming)
      <4>1. job'[j].pc \notin Forming => job[j].pc = "await" \/ job[j].pc \notin Forming
        BY <2>r DEF GoesOn, MovesOn, Edges, RetriesInfo, GetsInfo, TakesJoiner,
           DoneWithJoiner, Forming
      <4>2. QED
        BY <1>3, <1>o, <3>2, <4>1 DEF FounderOK, TokenOk
    <3>3. QED
      BY <2>r, <3>1, <3>2, WorldStep DEF Forming
  <2>4. QED
    BY <1>3, <1>f, <2>1, <2>2, <2>3 DEF FounderOK, SameRequest
<1>4. QED
  BY <1>1, <1>2, <1>3, <1>r DEF Job

(* A PVE cluster comes from the creation, or from another host.            *)
LEMMA CreatedKept ==
    ASSUME TypeInv, MembershipOK, NEW j \in Jobs, runJob(j), NEW h \in Hosts
    PROVE  Created(h)'
<1>r. Result(j) /\ Running(j) /\ RunningOK(j) /\ job[j] \in Job
  BY Transitions DEF Result, TypeInv, TypeOK, JobOK
<1>t. pve \in [Hosts -> Jobs \cup {Leftover, None}]
  BY DEF TypeInv, TypeOK
<1>f. \A i \in Jobs : SameRequest(job[i], job'[i]) /\ (i # j => job'[i] = job[i])
  BY RunFrame
<1>c. ASSUME NEW g \in Hosts, pve'[h] = pve[g] PROVE Created(h)'
  <2>1. SUFFICES ASSUME pve[g] \in Jobs
                 PROVE  /\ job'[pve[g]].state # "none" /\ job'[pve[g]].kind = "form"
                        /\ job'[pve[g]].state = "running" => job'[pve[g]].pc \notin NotCreated
    BY <1>c DEF Created
  <2>2. /\ job[pve[g]].state # "none" /\ job[pve[g]].kind = "form"
        /\ job[pve[g]].state = "running" => job[pve[g]].pc \notin NotCreated
    BY <2>1 DEF MembershipOK, Created
  <2>3. CASE pve[g] # j
    BY <2>1, <2>2, <2>3, <1>f
  <2>4. CASE pve[g] = j
    <3>1. job[j].pc \notin NotCreated /\ job'[j].kind = "form"
      BY <2>2, <2>4, <1>r, <1>f DEF Running, SameRequest
    <3>2. job'[j].state # "none" /\ (job'[j].state = "running" => job'[j].pc \notin NotCreated)
      BY <3>1, <1>r DEF Result, Fails, Succeeds, GoesOn, MovesOn, Edges, RetriesInfo, GetsInfo,
         TakesJoiner, DoneWithJoiner, NotCreated
    <3>3. QED
      BY <2>4, <3>1, <3>2
  <2>5. QED
    BY <2>3, <2>4
<1>1. CASE /\ job[j].pc \in {"create", "recreate"} /\ job'[j].pc = "await"
           /\ pve' = [pve EXCEPT ![job[j].founder] = j]
  <2>1. CASE h = job[j].founder
    <3>1. pve'[h] = j
      BY <1>1, <1>t, <2>1
    <3>2. job[j].kind = "form"
      BY <1>1, <1>r DEF RunningOK, Forming, Job
    <3>3. job'[j].state = "running" /\ job'[j].kind = "form"
      BY <1>1, <1>r, <1>f, <3>2 DEF Result, Fails, Succeeds, GoesOn, SameRequest
    <3>4. QED
      BY <1>1, <3>1, <3>3 DEF Created, NotCreated
  <2>2. CASE h # job[j].founder
    BY <1>1, <1>c, <1>t, <2>2
  <2>3. QED
    BY <2>1, <2>2
<1>2. CASE pve' = [pve EXCEPT ![job[j].founder] = None]
  <2>1. CASE h = job[j].founder
    <3>1. pve'[h] = None
      BY <1>2, <1>t, <2>1
    <3>2. QED
      BY <3>1, JobAssumption DEF Created
  <2>2. CASE h # job[j].founder
    BY <1>2, <1>c, <1>t, <2>2
  <2>3. QED
    BY <2>1, <2>2
<1>3. CASE Joined(j)
  <2>1. pve'[h] = pve[h] \/ pve'[h] = pve[job[j].founder]
    BY <1>3, <1>t DEF Joined, Founder
  <2>2. job[j].founder \in Hosts
    BY <1>r DEF RunningOK
  <2>3. QED
    BY <1>c, <2>1, <2>2
<1>4. CASE pve' = pve
  BY <1>4, <1>c
<1>5. QED
  BY <1>1, <1>2, <1>3, <1>4, WorldStep

(* What a founder lists is in the founder's cluster.                       *)
LEMMA JoinerKept ==
    ASSUME TypeInv, MembershipOK, NEW j \in Jobs, runJob(j), NEW i \in Jobs, NEW h \in Hosts,
           h \notin contested, Listed(i, h)'
    PROVE  JoinerOK(i, h)'
<1>f. /\ SameRequest(job[i], job'[i]) /\ Before(i)
      /\ i # j => job'[i] = job[i]
      /\ \A c \in Jobs : (Clean(c)' <=> Clean(c)) /\ (Live(c)' => Live(c))
  BY RunFrame DEF Listed
<1>r. Running(i) /\ RunningOK(i) /\ job[i] \in Job /\ job[i].cluster \in Jobs
  BY <1>f DEF Before, TypeInv, TypeOK, JobOK, RunningOK, Rows, Job
<1>t. pve \in [Hosts -> Jobs \cup {Leftover, None}]
  BY DEF TypeInv, TypeOK
<1>h. h \in job[i].joiners /\ h \in HostsOf(i)
  BY <1>f DEF Listed, SameRequest, HostsOf
<1>k. ASSUME JoinerOK(i, h), pve'[h] = pve[h] PROVE JoinerOK(i, h)'
  BY <1>k, <1>f, <1>r DEF JoinerOK, SameRequest
<1>1. CASE i # j
  <2>1. Listed(i, h)
    BY <1>1, <1>f DEF Listed
  <2>2. pve'[h] = pve[h]
    BY <1>1, <1>h, <1>r, OtherUntouched
  <2>3. QED
    BY <2>1, <2>2, <1>k DEF MembershipOK, HostsOK
<1>2. CASE i = j
  <2>r. /\ job'[j].pc \notin Late /\ job'[j].pc # "end" /\ job'[j].joiners = job[j].joiners
        /\ GoesOn(job[j], job'[j])
    <3>1. Result(j) /\ job'[j].pc \notin Late /\ job'[j].state = "running"
      BY <1>2, Transitions DEF Listed, Before, Running
    <3>2. QED
      BY <1>2, <1>f, <3>1, Onward DEF SameRequest
  <2>1. CASE Listed(j, h)
    <3>1. job[j].pc \notin Early /\ (job[j].pc = "join" => h # job[j].cur)
      BY <1>h, <1>2, <2>1 DEF Listed, Waiting
    <3>2. pve'[h] = pve[h]
      <4>1. CASE Joined(j) /\ job[j].pc = "join"
        BY <4>1, <3>1, <1>t DEF Joined
      <4>2. CASE pve' = pve
        BY <4>2
      <4>3. QED
        BY <3>1, <4>1, <4>2, WorldStep DEF Early, Forming
    <3>3. QED
      BY <1>2, <2>1, <3>2, <1>k DEF MembershipOK, HostsOK
  <2>2. CASE ~Listed(j, h)
    <3>1. job[j].pc = "wait" /\ job'[j].pc = "reauth" /\ h = job[j].cur
      <4>1. h \in Waiting(job[j]) /\ h \notin Waiting(job'[j])
        BY <1>f, <1>h, <1>2, <2>2 DEF Listed
      <4>2. CASE MovesOn(job[j], job'[j])
        BY <4>1, <4>2, <2>r DEF MovesOn, Edges, Waiting, Early, Forming
      <4>3. CASE RetriesInfo(job[j], job'[j]) \/ GetsInfo(job[j], job'[j])
        BY <4>1, <4>3, <2>r DEF RetriesInfo, GetsInfo, Waiting, Early, Forming
      <4>4. CASE TakesJoiner(job[j], job'[j]) \/ DoneWithJoiner(job[j], job'[j])
        BY <4>1, <4>4, <2>r DEF TakesJoiner, DoneWithJoiner, Waiting, Early, Forming
      <4>5. QED
        BY <2>r, <4>2, <4>3, <4>4 DEF GoesOn
    <3>2. pve' = pve /\ pve[h] = pve[job[j].founder]
      BY <3>1, WorldStep
    <3>3. job[j].pc \notin Forming /\ Before(j)
      BY <1>2, <1>f, <3>1 DEF Forming
    <3>4. Clean(job[j].cluster) => pve[h] = job[j].cluster
      BY <3>2, <3>3, TokenSeat
    <3>5. \A c \in Jobs : Clean(c) /\ Live(c) /\ pve[h] = c => c = job[j].cluster
      BY <3>2, <3>3, Source
    <3>6. QED
      BY <1>2, <1>k, <3>2, <3>4, <3>5 DEF JoinerOK
  <2>3. QED
    BY <2>1, <2>2
<1>3. QED
  BY <1>1, <1>2

(* The nodes of a cluster stay what they are; the creation and the joins   *)
(* of its own jobs add nodes, the inventory phase makes members of them.   *)
LEMMA ClusterKept ==
    ASSUME TypeInv, MembershipOK, NEW j \in Jobs, runJob(j), NEW c \in Jobs, Clean(c), Live(c)
    PROVE  ClusterOK(c)'
<1> DEFINE f == job[j].founder
           d == job[c].founder
<1>r. Result(j) /\ Running(j) /\ RunningOK(j) /\ job[j] \in Job /\ f \in Hosts
  <2>1. Result(j) /\ Running(j) /\ JobOK(j) /\ job[j] \in Job
    BY Transitions DEF Result, TypeInv, TypeOK
  <2>2. QED
    BY <2>1 DEF JobOK, RunningOK
<1>t. /\ pve \in [Hosts -> Jobs \cup {Leftover, None}] /\ accepts \in [Hosts -> Hosts]
      /\ clusterOf \in [Hosts -> Jobs \cup {None}] /\ token \in [Hosts -> Hosts]
  BY DEF TypeInv, TypeOK
<1>f. /\ \A i \in Jobs : SameRequest(job[i], job'[i])
      /\ \A h : h \in Team(c)' <=> h \in Team(c)
      /\ job'[c].founder = d
  BY RunFrame DEF SameRequest
<1>o. ClusterOK(c)
  BY DEF MembershipOK
<1>h. ASSUME NEW h \in HostsOf(j), job[j].cluster = c PROVE h \in Team(c) /\ h \notin contested
  BY <1>h, TeamIs DEF Clean
<1>u. \A h \in Team(c) : h \notin contested
  BY DEF Clean
<1>n. ASSUME NEW h \in Hosts, h \in Team(c), accepts'[h] = accepts'[d], clusterOf'[h] \in {None, c}
      PROVE  Node(c, h)'
  BY <1>n, <1>f DEF Node
<1>1. ASSUME NEW h \in Hosts, pve'[h] = c PROVE Node(c, h)'
  <2>1. CASE /\ job[j].pc \in {"create", "recreate"} /\ job'[j].pc = "await"
             /\ pve' = [pve EXCEPT ![f] = j] /\ accepts' = accepts
    <3>0. job[j].kind = "form" /\ job[j].cluster = j /\ clusterOf' = clusterOf
      <4>1. job[j].kind = "form"
        BY <2>1, <1>r DEF RunningOK, Forming, Job
      <4>2. clusterOf' = clusterOf
        BY <2>1, InventoryStep
      <4>3. QED
        BY <4>1, <4>2, <1>r DEF RunningOK
    <3>1. CASE c = j
      <4>1. h = f
        <5>1. \A g \in Hosts : pve[g] # j
          BY <2>1, <1>r DEF MembershipOK, Created, NotCreated, Running
        <5>2. QED
          BY <1>1, <2>1, <3>1, <5>1, <1>t
      <4>2. h \in HostsOf(j)
        BY <3>0, <4>1 DEF HostsOf
      <4>3. h \in Team(c) /\ h \notin contested
        BY <1>h, <3>0, <3>1, <4>2
      <4>4. clusterOf[h] = None
        BY <4>2, <4>3, <2>1, <1>r DEF MembershipOK, HostsOK, Standing, Before, Late
      <4>5. QED
        BY <1>n, <3>0, <3>1, <4>1, <4>3, <4>4
    <3>2. CASE c # j
      <4>1. pve[h] = c
        BY <1>1, <1>t, <2>1, <3>2
      <4>2. Node(c, h)
        BY <1>o, <4>1 DEF ClusterOK
      <4>3. QED
        BY <1>n, <2>1, <3>0, <4>2 DEF Node
    <3>3. QED
      BY <3>1, <3>2
  <2>2. CASE /\ job[j].pc \in {"cleanup", "await"}
             /\ pve' = [pve EXCEPT ![f] = None] /\ accepts' = accepts
    <3>1. pve[h] = c
      BY <1>1, <1>t, <2>2, JobAssumption
    <3>2. Node(c, h)
      BY <1>o, <3>1 DEF ClusterOK
    <3>3. clusterOf' = clusterOf
      BY <2>2, InventoryStep
    <3>4. QED
      BY <1>n, <2>2, <3>2, <3>3 DEF Node
  <2>3. CASE job[j].pc = "join" /\ Joined(j)
    <3>0. /\ clusterOf' = clusterOf /\ job[j].pc \notin Forming /\ Before(j)
          /\ job[j].cur \in job[j].joiners /\ job[j].cur \in Hosts
      BY <2>3, <1>r, InventoryStep DEF Forming, Before, Late, RunningOK, AtJoiner, Job
    <3>j. /\ pve[job[j].cur] = None
          /\ pve' = [pve EXCEPT ![job[j].cur] = pve[f]]
          /\ accepts' = [accepts EXCEPT ![job[j].cur] = accepts[f]]
      BY <2>3 DEF Joined, Founder
    <3>1. CASE h = job[j].cur
      <4>1. pve[f] = c
        BY <1>1, <1>t, <3>0, <3>1, <3>j
      <4>2. job[j].cluster = c
        BY <3>0, <4>1, Source
      <4>3. h \in HostsOf(j)
        BY <3>0, <3>1 DEF HostsOf
      <4>4. h \in Team(c) /\ h \notin contested
        BY <1>h, <4>2, <4>3
      <4>5. clusterOf[h] = None
        BY <3>0, <4>3, <4>4 DEF MembershipOK, HostsOK, Standing
      <4>6. accepts[f] = accepts[d]
        BY <1>o, <1>r, <4>1 DEF ClusterOK, Node
      <4>7. pve[d] = c /\ d \in Hosts
        BY <1>r, <4>1, Seat
      <4>8. d # h
        BY <4>7, <3>1, <3>j, JobAssumption
      <4>9. accepts'[h] = accepts[f] /\ accepts'[d] = accepts[d]
        BY <3>1, <3>j, <4>7, <4>8, <1>t
      <4>10. QED
        BY <1>n, <3>0, <4>4, <4>5, <4>6, <4>9
    <3>2. CASE h # job[j].cur
      <4>1. pve[h] = c /\ accepts'[h] = accepts[h]
        BY <1>1, <1>t, <3>2, <3>j
      <4>2. pve[d] = c /\ d \in Hosts
        BY <4>1, Seat
      <4>3. accepts'[d] = accepts[d]
        BY <3>j, <4>2, <1>t, JobAssumption
      <4>4. Node(c, h)
        BY <1>o, <4>1 DEF ClusterOK
      <4>5. QED
        BY <1>n, <3>0, <4>1, <4>3, <4>4 DEF Node
    <3>3. QED
      BY <3>1, <3>2
  <2>4. CASE pve' = pve /\ accepts' = accepts
    <3>1. Node(c, h)
      BY <1>1, <1>o, <2>4 DEF ClusterOK
    <3>2. CASE clusterOf' = clusterOf \/ h \notin HostsOf(j)
      <4>1. clusterOf'[h] = clusterOf[h]
        BY <3>2, OwnHosts
      <4>2. QED
        BY <1>n, <2>4, <3>1, <4>1 DEF Node
    <3>3. CASE h \in HostsOf(j) /\ job[j].pc = "inventory" /\ MoveHosts(j)
      <4>1. clusterOf'[h] = job[j].cluster
        BY <3>3 DEF MoveHosts
      <4>2. h \notin contested /\ Before(j)
        BY <3>1, <3>3, <1>u, <1>r DEF Node, Before, Late
      <4>3. CASE h \in job[j].joiners
        <5>1. Listed(j, h)
          BY <3>3, <4>2, <4>3, <1>r DEF Listed, Waiting, RunningOK, Early, Forming
        <5>2. JoinerOK(j, h)
          BY <4>2, <5>1 DEF MembershipOK, HostsOK
        <5>3. c = job[j].cluster
          BY <1>1, <2>4, <5>2 DEF JoinerOK
        <5>4. QED
          BY <1>n, <2>4, <3>1, <4>1, <5>3 DEF Node
      <4>4. CASE h \notin job[j].joiners
        <5>1. job[j].kind = "form" /\ h = f
          BY <3>3, <4>4 DEF HostsOf
        <5>2. FounderOK(j)
          BY <4>2, <5>1 DEF MembershipOK, HostsOK
        <5>3. c = j /\ job[j].cluster = j
          BY <1>1, <2>4, <3>3, <5>1, <5>2, <1>r DEF FounderOK, NotCreated, RunningOK
        <5>4. QED
          BY <1>n, <2>4, <3>1, <4>1, <5>3 DEF Node
      <4>5. QED
        BY <4>3, <4>4
    <3>4. QED
      BY <3>2, <3>3, InventoryStep
  <2>5. QED
    BY <2>1, <2>2, <2>3, <2>4, WorldStep
<1>2. ASSUME NEW h \in Hosts, clusterOf'[h] = c PROVE pve'[h] = c /\ token'[h] = accepts'[h]
  <2>1. CASE clusterOf[h] = c
    <3>1. h \in Team(c) /\ clusterOf[h] # None
      BY <2>1, JobAssumption DEF MembershipOK, InTeam
    <3>2. /\ pve'[h] = pve[h] /\ accepts'[h] = accepts[h] /\ token'[h] = token[h]
      BY <1>u, <3>1, MemberUntouched
    <3>3. QED
      BY <1>o, <2>1, <3>2 DEF ClusterOK
  <2>2. CASE clusterOf[h] # c
    <3>1. /\ FormClusterFromHosts(j) \/ AddHostsToCluster(j)
          /\ job[j].pc = "inventory" /\ MoveHosts(j)
      BY <1>2, <2>2, InventoryStep
    <3>2. pve' = pve /\ accepts' = accepts
      BY <3>1 DEF FormClusterFromHosts, AddHostsToCluster, world
    <3>3. h \in HostsOf(j) /\ job[j].cluster = c
      BY <1>2, <2>2, <3>1 DEF MoveHosts
    <3>4. h \notin contested /\ Before(j) /\ job[j].pc \notin Forming
      BY <1>h, <3>1, <3>3, <1>r DEF Before, Late, Forming
    <3>5. job[j].tok = accepts[d] /\ job[j].tok = accepts[f] /\ pve[f] = c /\ f \notin contested
      BY <3>3, <3>4, TokenSeat
    <3>6. CASE h \in job[j].joiners
      <4>1. Listed(j, h)
        BY <3>1, <3>4, <3>6, <1>r DEF Listed, Waiting, RunningOK, Early, Forming
      <4>2. pve[h] = c
        BY <3>3, <3>4, <4>1 DEF MembershipOK, HostsOK, JoinerOK
      <4>3. accepts[h] = accepts[d]
        BY <1>o, <4>2 DEF ClusterOK, Node
      <4>4. token'[h] = job[j].tok
        BY <3>1, <3>6 DEF MoveHosts
      <4>5. QED
        BY <3>2, <3>5, <4>2, <4>3, <4>4
    <3>7. CASE h \notin job[j].joiners
      <4>1. h = f
        BY <3>3, <3>7 DEF HostsOf
      <4>2. token'[h] = token[h]
        BY <3>1, <3>7 DEF MoveHosts
      <4>3. token[f] = job[j].tok
        BY <3>4, <3>5 DEF MembershipOK, HostsOK, FounderOK
      <4>4. QED
        BY <3>2, <3>5, <4>1, <4>2, <4>3
    <3>8. QED
      BY <3>6, <3>7
  <2>3. QED
    BY <2>1, <2>2
<1>3. QED
  BY <1>1, <1>2 DEF ClusterOK

(* The step of a job, all of it.                                           *)
LEMMA MembershipRun ==
    ASSUME TypeInv, MembershipOK, NEW j \in Jobs, runJob(j)
    PROVE  MembershipOK'
<1>f. /\ contested' = contested
      /\ \A i \in Jobs : /\ SameRequest(job[i], job'[i]) /\ HostsOf(i)' = HostsOf(i)
                         /\ Running(i)' => Running(i)
      /\ \A c \in Jobs : (Clean(c)' <=> Clean(c)) /\ (Live(c)' => Live(c))
      /\ \A c, h : h \in Team(c)' <=> h \in Team(c)
  BY RunFrame
<1>1. HostsOK'
  <2>1. ASSUME NEW h \in Hosts, h \notin contested' PROVE Alone(h)'
    <3>1. Alone(h)
      BY <1>f, <2>1 DEF MembershipOK, HostsOK
    <3>2. QED
      BY <1>f, <3>1 DEF Alone
  <2>2. ASSUME NEW i \in Jobs, NEW h \in Hosts, h \notin contested', h \in HostsOf(i)'
        PROVE  Standing(i, h)'
    BY <1>f, <2>2, StandingKept
  <2>3. ASSUME NEW i \in Jobs, Before(i)', job'[i].founder \notin contested'
        PROVE  FounderOK(i)'
    BY <1>f, <2>3, FounderKept DEF SameRequest
  <2>4. ASSUME NEW i \in Jobs, NEW h \in Hosts, h \notin contested', Listed(i, h)'
        PROVE  JoinerOK(i, h)'
    BY <1>f, <2>4, JoinerKept
  <2>5. QED
    BY <2>1, <2>2, <2>3, <2>4 DEF HostsOK
<1>2. \A h \in Hosts : Created(h)'
  BY CreatedKept
<1>3. InTeam'
  <2>1. ASSUME NEW h \in Hosts, clusterOf'[h] # None PROVE h \in Team(clusterOf'[h])
    <3>1. CASE clusterOf'[h] = clusterOf[h]
      BY <2>1, <3>1 DEF MembershipOK, InTeam
    <3>2. CASE clusterOf'[h] # clusterOf[h]
      <4>1. MoveHosts(j)
        BY <3>2, InventoryStep
      <4>2. h \in HostsOf(j) /\ clusterOf'[h] = job[j].cluster
        BY <3>2, <4>1 DEF MoveHosts
      <4>3. QED
        BY <4>2, TeamIs
    <3>3. QED
      BY <3>1, <3>2
  <2>2. ASSUME NEW i \in Jobs, Running(i)' PROVE job'[i].founder \in Team(job'[i].cluster)
    BY <1>f, <2>2 DEF MembershipOK, InTeam, SameRequest
  <2>3. ASSUME NEW h \in Hosts, clusterOf'[h] # None PROVE (h \in Team(clusterOf[h]))'
    <3>1. h \in Team(clusterOf'[h])
      BY <2>1, <2>3
    <3>2. \A c, g : g \in Team(c)' <=> g \in Team(c)
      BY <1>f
    <3>3. QED
      BY <3>1, <1>f, TeamIs DEF Team, SameRequest
  <2>4. ASSUME NEW i \in Jobs, Running(i)' PROVE (job[i].founder \in Team(job[i].cluster))'
    BY <2>2, <2>4, <1>f, TeamIs DEF Team, SameRequest
  <2>5. QED
    BY <2>3, <2>4 DEF InTeam
<1>4. ASSUME NEW c \in Jobs, Clean(c)', Live(c)' PROVE ClusterOK(c)'
  BY <1>4, <1>f, ClusterKept
<1>5. QED
  BY <1>1, <1>2, <1>3, <1>4 DEF MembershipOK

(* A request makes the team of its cluster larger and, of the hosts it     *)
(* names, contested those in use: the others are in no cluster, and no     *)
(* running job is about them.                                              *)
LEMMA MembershipStart ==
    ASSUME TypeInv, MembershipOK, NEW j \in Jobs, NEW f \in Hosts, NEW joiners \in SUBSET Hosts,
           Request(j, f, joiners)
    PROVE  MembershipOK'
<1>u. UNCHANGED <<pve, accepts, cname, clusterOf, token>>
  BY DEF Request, world, inventory
<1>o. \A i \in Jobs : i # j => /\ job'[i] = job[i] /\ HostsOf(i)' = HostsOf(i)
                               /\ Running(i)' <=> Running(i)
                               /\ Before(i)' <=> Before(i)
                               /\ Moved(i)' <=> Moved(i)
  BY <1>u DEF Request, HostsOf, Running, Before, Moved, Rows
<1>j. /\ job[j].state = "none" /\ job'[j].state = "running" /\ job'[j].joiners = joiners
      /\ job'[j].founder = f /\ job'[j].tok = token[f] /\ job'[j].pc \in {"auth", "info"}
  BY DEF Request
<1>k. \/ job'[j].kind = "form" /\ job'[j].pc = "auth" /\ job'[j].cluster = j
      \/ /\ job'[j].kind = "join" /\ job'[j].cluster \in Rows
         /\ clusterOf[f] = job'[j].cluster
  BY DEF Request
<1>n. job[j] = NewJob /\ cname[j] = NoName /\ j \notin Rows
  BY <1>j DEF TypeInv, JobOK, Rows
<1>c. contested \subseteq contested' /\ \A h \in HostsOf(j)' : h \in contested' \/ ~InUse(h)
  BY DEF Request, HostsOf
<1>t. \A c \in Jobs : \A h : h \in Team(c) => h \in Team(c)'
  <2>1. \A c \in Jobs : job[j].cluster # c
    BY <1>n, JobAssumption DEF NewJob
  <2>2. QED
    BY <1>o, <2>1, TeamIs
<1>l. \A c \in Jobs : /\ Clean(c)' => Clean(c)
                      /\ c # j /\ Live(c)' => Live(c)
  BY <1>c, <1>t, <1>o, <1>u DEF Clean, Live, Rows
<1>p. \A h \in Hosts : pve[h] # j
  BY <1>n DEF MembershipOK, Created, NewJob
<1>q. \A h \in Hosts : clusterOf[h] # j
  BY <1>n, JobAssumption DEF TypeInv, TypeOK
<1>1. HostsOK'
  <2>1. ASSUME NEW h \in Hosts, h \notin contested' PROVE Alone(h)'
    <3>1. Alone(h) /\ h \notin contested
      BY <1>c, <2>1 DEF MembershipOK, HostsOK
    <3>2. h \in HostsOf(j)' => \A i \in Jobs : ~(Running(i) /\ h \in HostsOf(i))
      BY <1>c, <2>1 DEF InUse, Running
    <3>3. QED
      BY <1>o, <3>1, <3>2 DEF Alone
  <2>2. ASSUME NEW i \in Jobs, NEW h \in Hosts, h \notin contested', h \in HostsOf(i)'
        PROVE  Standing(i, h)'
    <3>1. CASE i = j
      <4>1. clusterOf[h] = None
        BY <1>c, <2>2, <3>1 DEF InUse
      <4>2. ~Moved(j)'
        BY <1>j, <1>n, <1>u DEF Moved, Rows, Late
      <4>3. QED
        BY <1>u, <3>1, <4>1, <4>2 DEF Standing
    <3>2. CASE i # j
      <4>1. Standing(i, h)
        BY <1>c, <1>o, <2>2, <3>2 DEF MembershipOK, HostsOK
      <4>2. QED
        BY <1>o, <1>u, <3>2, <4>1 DEF Standing
    <3>3. QED
      BY <3>1, <3>2
  <2>3. ASSUME NEW i \in Jobs, Before(i)', job'[i].founder \notin contested'
        PROVE  FounderOK(i)'
    <3>1. CASE i = j
      BY <1>j, <1>k, <1>u, <3>1 DEF FounderOK, NotCreated, Forming
    <3>2. CASE i # j
      <4>1. FounderOK(i)
        BY <1>c, <1>o, <2>3, <3>2 DEF MembershipOK, HostsOK
      <4>2. QED
        BY <1>o, <1>u, <3>2, <4>1 DEF FounderOK
    <3>3. QED
      BY <3>1, <3>2
  <2>4. ASSUME NEW i \in Jobs, NEW h \in Hosts, h \notin contested', Listed(i, h)'
        PROVE  JoinerOK(i, h)'
    <3>1. i # j
      BY <1>j, <2>4 DEF Listed, Waiting, Early, Forming
    <3>2. JoinerOK(i, h) /\ Before(i) /\ job'[i] = job[i]
      BY <1>c, <1>o, <2>4, <3>1 DEF MembershipOK, HostsOK, Listed
    <3>3. job[i].cluster \in Jobs
      BY <3>2 DEF Before, TypeInv, TypeOK, JobOK, RunningOK, Rows, Job
    <3>4. QED
      BY <1>l, <1>p, <1>u, <3>2, <3>3 DEF JoinerOK
  <2>5. QED
    BY <2>1, <2>2, <2>3, <2>4 DEF HostsOK
<1>2. ASSUME NEW h \in Hosts PROVE Created(h)'
  BY <1>o, <1>p, <1>u DEF MembershipOK, Created
<1>3. InTeam'
  <2>1. ASSUME NEW h \in Hosts, clusterOf'[h] # None PROVE (h \in Team(clusterOf[h]))'
    <3>1. clusterOf[h] \in Jobs /\ h \in Team(clusterOf[h])
      BY <1>u, <2>1 DEF MembershipOK, InTeam, TypeInv, TypeOK
    <3>2. QED
      BY <1>t, <1>u, <3>1 DEF Team
  <2>2. ASSUME NEW i \in Jobs, Running(i)' PROVE (job[i].founder \in Team(job[i].cluster))'
    <3>1. CASE i # j
      <4>1. job[i].cluster \in Jobs /\ job[i].founder \in Team(job[i].cluster)
        BY <1>o, <2>2, <3>1
        DEF MembershipOK, InTeam, TypeInv, TypeOK, JobOK, RunningOK, Rows, Job
      <4>2. job[i].founder \in Team(job[i].cluster)'
        BY <4>1, <1>o, <3>1, <1>n, JobAssumption DEF Team, NewJob
      <4>3. QED
        BY <4>2, <1>o, <3>1 DEF Team
    <3>2. CASE i = j /\ job'[j].kind = "form"
      <4>1. f \in HostsOf(j)'
        BY <1>j, <3>2 DEF HostsOf
      <4>2. QED
        BY <1>j, <3>2, <4>1 DEF Team
    <3>3. CASE i = j /\ job'[j].kind = "join"
      <4>1. f \in Team(job'[j].cluster) /\ job'[j].cluster \in Jobs
        BY <1>k, <3>3, JobAssumption DEF MembershipOK, InTeam, Rows
      <4>2. PICK k \in Jobs : job[k].cluster = job'[j].cluster /\ f \in HostsOf(k)
        BY <4>1, TeamIs
      <4>3. k # j
        BY <4>1, <4>2, <1>n, JobAssumption DEF NewJob
      <4>4. job'[k].cluster = job'[j].cluster /\ f \in HostsOf(k)'
        BY <4>2, <4>3, <1>o
      <4>5. QED
        BY <1>j, <3>3, <4>4 DEF Team
    <3>4. QED
      BY <1>k, <3>1, <3>2, <3>3
  <2>3. QED
    BY <2>1, <2>2 DEF InTeam
<1>4. ASSUME NEW c \in Jobs, Clean(c)', Live(c)' PROVE ClusterOK(c)'
  <2>1. CASE c = j
    BY <1>p, <1>q, <1>u, <2>1 DEF ClusterOK
  <2>2. CASE c # j
    <3>1. ClusterOK(c) /\ job'[c] = job[c]
      BY <1>l, <1>o, <1>4, <2>2 DEF MembershipOK
    <3>2. ASSUME NEW h \in Hosts, pve'[h] = c PROVE Node(c, h)'
      <4>1. Node(c, h)
        BY <1>u, <3>1, <3>2 DEF ClusterOK
      <4>2. QED
        BY <1>t, <1>u, <3>1, <4>1 DEF Node
    <3>3. QED
      BY <1>u, <3>1, <3>2 DEF ClusterOK
  <2>3. QED
    BY <2>1, <2>2
<1>5. QED
  BY <1>1, <1>2, <1>3, <1>4 DEF MembershipOK

(* Nothing happens to the hosts and the inventory; jobs stay where they    *)
(* are or are lost.                                                        *)
LEMMA MembershipFrame ==
    ASSUME TypeInv, MembershipOK, UNCHANGED <<pve, accepts, cname, clusterOf, token, contested>>,
           \A i \in Jobs : \/ job'[i] = job[i]
                           \/ /\ Running(i) /\ job'[i].state = "lost"
                              /\ SameRequest(job[i], job'[i])
    PROVE  MembershipOK'
<1>1. ASSUME NEW i \in Jobs
      PROVE  /\ SameRequest(job[i], job'[i]) /\ HostsOf(i)' = HostsOf(i)
             /\ Running(i)' => Running(i) /\ job'[i] = job[i]
             /\ Before(i)' => Before(i)
             /\ Moved(i)' => Moved(i)
             /\ \A h \in Hosts : Listed(i, h)' => Listed(i, h)
  <2>1. SameRequest(job[i], job'[i])
    BY DEF SameRequest
  <2>2. HostsOf(i)' = HostsOf(i)
    BY <2>1 DEF SameRequest, HostsOf
  <2>3. Running(i)' => Running(i) /\ job'[i] = job[i]
    BY DEF Running
  <2>4. Before(i)' => Before(i)
    BY <2>3 DEF Before
  <2>5. Moved(i)' => Moved(i)
    BY <2>3 DEF Moved, Rows
  <2>6. ASSUME NEW h \in Hosts, Listed(i, h)' PROVE Listed(i, h)
    BY <2>3, <2>4, <2>6 DEF Listed, Before
  <2>7. QED
    BY <2>1, <2>2, <2>3, <2>4, <2>5, <2>6
<1>2. \A c : Team(c)' = Team(c)
  <2>1. \A i \in Jobs : job'[i].cluster = job[i].cluster /\ HostsOf(i)' = HostsOf(i)
    BY <1>1 DEF SameRequest
  <2>2. QED
    BY <2>1 DEF Team
<1>3. \A c \in Jobs : (Clean(c)' <=> Clean(c)) /\ (Live(c)' => Live(c))
  BY <1>1, <1>2 DEF Clean, Live, Rows
<1>4. HostsOK'
  <2>1. ASSUME NEW h \in Hosts, h \notin contested' PROVE Alone(h)'
    <3>1. Alone(h)
      BY <2>1 DEF MembershipOK, HostsOK
    <3>2. QED
      BY <1>1, <3>1 DEF Alone
  <2>2. ASSUME NEW i \in Jobs, NEW h \in Hosts, h \notin contested', h \in HostsOf(i)'
        PROVE  Standing(i, h)'
    <3>1. Standing(i, h) /\ job'[i].cluster = job[i].cluster
      BY <1>1, <2>2 DEF MembershipOK, HostsOK, SameRequest
    <3>2. QED
      BY <1>1, <3>1 DEF Standing
  <2>3. ASSUME NEW i \in Jobs, Before(i)', job'[i].founder \notin contested'
        PROVE  FounderOK(i)'
    <3>1. Before(i) /\ job'[i] = job[i]
      BY <1>1, <2>3 DEF Before
    <3>2. FounderOK(i)
      BY <2>3, <3>1 DEF MembershipOK, HostsOK
    <3>3. QED
      BY <3>1, <3>2 DEF FounderOK
  <2>4. ASSUME NEW i \in Jobs, NEW h \in Hosts, h \notin contested', Listed(i, h)'
        PROVE  JoinerOK(i, h)'
    <3>1. JoinerOK(i, h) /\ job'[i].cluster = job[i].cluster
      BY <1>1, <2>4 DEF MembershipOK, HostsOK, SameRequest
    <3>2. job[i].cluster \in Jobs
      BY <1>1, <2>4 DEF Listed, Before, TypeInv, TypeOK, JobOK, RunningOK, Rows, Job
    <3>3. QED
      BY <1>3, <3>1, <3>2 DEF JoinerOK
  <2>5. QED
    BY <2>1, <2>2, <2>3, <2>4 DEF HostsOK
<1>5. ASSUME NEW h \in Hosts PROVE Created(h)'
  <2>1. Created(h)
    BY DEF MembershipOK
  <2>2. CASE pve[h] \in Jobs
    BY <1>1, <2>1, <2>2 DEF Created, SameRequest, Running
  <2>3. CASE pve[h] \notin Jobs
    BY <2>3 DEF Created
  <2>4. QED
    BY <2>2, <2>3
<1>6. InTeam'
  <2>1. ASSUME NEW i \in Jobs, Running(i)' PROVE (job[i].founder \in Team(job[i].cluster))'
    <3>1. job'[i] = job[i] /\ job[i].founder \in Team(job[i].cluster)
      BY <1>1, <2>1 DEF MembershipOK, InTeam
    <3>2. job[i].founder \in Team(job[i].cluster)'
      BY <1>2, <3>1
    <3>3. QED
      BY <3>1, <3>2 DEF Team
  <2>2. ASSUME NEW h \in Hosts, clusterOf'[h] # None PROVE (h \in Team(clusterOf[h]))'
    <3>1. h \in Team(clusterOf[h])
      BY <2>2 DEF MembershipOK, InTeam
    <3>2. QED
      BY <1>2, <3>1 DEF Team
  <2>3. QED
    BY <2>1, <2>2 DEF InTeam
<1>7. ASSUME NEW c \in Jobs, Clean(c)', Live(c)' PROVE ClusterOK(c)'
  <2>1. ClusterOK(c) /\ job'[c].founder = job[c].founder
    BY <1>1, <1>3, <1>7 DEF MembershipOK, SameRequest
  <2>2. QED
    BY <1>2, <2>1 DEF ClusterOK, Node
<1>8. QED
  BY <1>4, <1>5, <1>6, <1>7 DEF MembershipOK

(* Whatever jobs run side by side: hosts, PVE clusters, inventory and      *)
(* tokens agree where no host is contested.                                *)
LEMMA MembershipStep == TypeInv /\ MembershipOK /\ [Next]_vars => MembershipOK'
<1> SUFFICES ASSUME TypeInv, MembershipOK, [Next]_vars PROVE MembershipOK'
  OBVIOUS
<1>1. ASSUME NEW j \in Jobs, runJob(j) PROVE MembershipOK'
  BY <1>1, MembershipRun
<1>2. ASSUME NEW j \in Jobs, NEW f \in Hosts, NEW joiners \in SUBSET Hosts,
             Starts(j, f, joiners)
      PROVE  MembershipOK'
  BY <1>2, Requested, MembershipStart
<1>3. CASE Restart
  BY <1>3, Restarted, MembershipFrame
<1>4. CASE UNCHANGED vars
  BY <1>4, MembershipFrame DEF vars
<1>5. CASE Beside
  BY <1>5, BesideTyped, MembershipFrame
<1>6. QED
  BY <1>1, <1>2, <1>3, <1>4, <1>5 DEF Next, Starts, Beside

(* Success is real: a job that reports it has every step succeeded and its *)
(* hosts in one PVE cluster and in one inventory cluster, with rows that   *)
(* hold a token they accept; for any hosts and any jobs side by side, on   *)
(* whatever other hosts and with whatever leftovers, unless a host of its  *)
(* cluster was named by a request while it was in use.                     *)
THEOREM SuccessCorrect == Spec => []SuccessIsReal
<1>1. Init => (\A i \in Jobs : StepsOK(i)) /\ MembershipOK
  <2> SUFFICES ASSUME Init PROVE (\A i \in Jobs : StepsOK(i)) /\ MembershipOK
    OBVIOUS
  <2>1. /\ \A i \in Jobs : job[i].state = "none" /\ job[i].cluster = None
        /\ \A i \in Jobs : cname[i] = NoName
    BY DEF Init, NewJob
  <2>2. \A i \in Jobs : StepsOK(i)
    BY <2>1 DEF StepsOK, Running
  <2>3. \A h \in Hosts : clusterOf[h] = None /\ pve[h] \notin Jobs
    BY JobAssumption DEF Init
  <2>4. \A i \in Jobs : ~Running(i) /\ ~Before(i) /\ ~Moved(i) /\ ~Live(i)
    BY <2>1 DEF Running, Before, Moved, Live, Rows
  <2>5. HostsOK
    BY <2>4 DEF HostsOK, Alone, Standing, Listed
  <2>6. QED
    BY <2>2, <2>3, <2>4, <2>5 DEF MembershipOK, Created, InTeam
<1>2. TypeInv /\ (\A i \in Jobs : StepsOK(i)) /\ MembershipOK => SuccessIsReal
  <2> SUFFICES ASSUME TypeInv, \A i \in Jobs : StepsOK(i), MembershipOK,
                      NEW j \in Jobs, job[j].state = "succeeded"
               PROVE  /\ \A s \in Hosts \X Phases : step[j][s] \in {"none", "succeeded"}
                      /\ Team(job[j].cluster) \cap contested = {} =>
                           \A h \in HostsOf(j) : /\ clusterOf[h] = job[j].cluster
                                                 /\ pve[h] = job[j].cluster
                                                 /\ token[h] = accepts[h]
    BY DEF SuccessIsReal
  <2>1. \A h \in Hosts, q \in Phases : step[j][<<h, q>>] \in {"none", "succeeded"}
    BY DEF StepsOK, StepDone
  <2>2. ASSUME NEW s \in Hosts \X Phases PROVE step[j][s] \in {"none", "succeeded"}
    <3>1. PICK h \in Hosts, q \in Phases : s = <<h, q>>
      OBVIOUS
    <3>2. QED
      BY <2>1, <3>1
  <2>3. ASSUME Clean(job[j].cluster), NEW h \in HostsOf(j)
        PROVE  /\ clusterOf[h] = job[j].cluster /\ pve[h] = job[j].cluster
               /\ token[h] = accepts[h]
    <3>1. h \in Hosts
      <4>1. job[j].founder \in Hosts /\ job[j].joiners \subseteq Hosts
        BY DEF TypeInv, TypeOK, JobOK, Job
      <4>2. QED
        BY <4>1 DEF HostsOf
    <3>2. h \notin contested
      BY <2>3, TeamIs DEF Clean
    <3>3. clusterOf[h] = job[j].cluster /\ job[j].cluster \in Jobs
      BY <3>1, <3>2 DEF MembershipOK, HostsOK, Standing, Moved
    <3>4. job[j].cluster \in Rows
      BY <3>1, <3>3, JobAssumption DEF TypeInv, TypeOK
    <3>5. ClusterOK(job[j].cluster)
      BY <2>3, <3>3, <3>4 DEF MembershipOK, Live
    <3>6. QED
      BY <3>1, <3>3, <3>5 DEF ClusterOK
  <2>4. QED
    BY <2>2, <2>3 DEF Clean
<1>3. QED
  <2> DEFINE S == \A i \in Jobs : StepsOK(i)
  <2>1. Init => S /\ MembershipOK
    BY <1>1
  <2>2. TypeInv /\ S /\ [Next]_vars => S'
    BY StepsKept
  <2>3. TypeInv /\ S /\ MembershipOK => SuccessIsReal
    BY <1>2
  <2> HIDE DEF S
  <2>4. QED
    BY <2>1, <2>2, <2>3, MembershipStep, TypeCorrect, PTL DEF Spec
=============================================================================
