------------------------------ MODULE Wizards -------------------------------
(***************************************************************************)
(* The dialogs that start a long job on the server and follow it: forming  *)
(* a PVE cluster, adding members to one, installing and destroying Ceph.   *)
(* Two families: the PVE dialogs poll on an interval kept in pollRef, the  *)
(* Ceph dialogs schedule each poll after the answer to the last.  The jobs *)
(* are those of PveClusterJobs, seen from outside: they run, and succeed,  *)
(* fail, or are forgotten when pcenter restarts.                           *)
(***************************************************************************)
EXTENDS Naturals, FiniteSets, Bags

CONSTANTS
    Hosts,       \* what the first step selects from
    Jobs,        \* job ids
    MaxCalls,    \* bound on the requests in flight
    MaxEdits,    \* bound on the changes of the selection and steps back
    MaxErrors,   \* bound on requests that fail and restarts of pcenter
    None

VARIABLES
    kind,        \* the dialog
    dlg,         \* its React state
    pollRef,     \* the interval pollRef.current names
    ticking,     \* jobs an interval or timeout will poll again
    net,         \* the bag of requests in flight
    jobs,        \* the jobs of the server: running, ended, or forgotten by a restart
    calm,        \* none of the races below has happened
    edits, errors

vars == <<kind, dlg, pollRef, ticking, net, jobs, calm, edits, errors>>

\* checks: a preflight comes first.  least: hosts to be selected.  locks: the
\* buttons are disabled while a request runs, and closing while the job runs.
\* starts: what is selected when the dialog opens.
CreateProxmoxClusterDialog == [checks |-> TRUE, least |-> 0, locks |-> FALSE, starts |-> {}]
JoinPveClusterDialog == [checks |-> TRUE, least |-> 1, locks |-> FALSE, starts |-> {}]
CephInstallWizard == [checks |-> TRUE, least |-> 1, locks |-> TRUE, starts |-> Hosts]
\* What is selected here is typed: the name of the cluster.
CephDestroyDialog == [checks |-> FALSE, least |-> 1, locks |-> TRUE, starts |-> {}]

Dialogs == {CreateProxmoxClusterDialog, JoinPveClusterDialog,
            CephInstallWizard, CephDestroyDialog}
Interval == ~kind.locks

Final == {"succeeded", "failed"}
One(c) == SetToBag({c})
Request(what, sel, j) == One([what |-> what, sel |-> sel, job |-> j, st |-> "sent"])
InFlight == BagToSet(net)
Room == BagCardinality(net) < MaxCalls

Unused(open) ==
    [open |-> open, step |-> "pick", sel |-> kind.starts, checked |-> None, can |-> FALSE,
     busy |-> FALSE, job |-> None, shown |-> None, error |-> FALSE, done |-> 0]

Init ==
    /\ kind \in Dialogs
    /\ dlg = Unused(TRUE)
    /\ pollRef = None /\ ticking = {} /\ net = EmptyBag
    /\ jobs = [j \in Jobs |-> "none"]
    /\ calm = TRUE /\ edits = 0 /\ errors = 0

-----------------------------------------------------------------------------
(* The server *)

Answer(c, st) == net' = (net (-) One(c)) (+) One([c EXCEPT !.st = st])

ServePreflight(c) ==
    /\ c.what = "preflight" /\ c.st = "sent"
    /\ \E st \in {"yes", "no"} : Answer(c, st)
    /\ UNCHANGED jobs

\* Nothing keeps two jobs off the same hosts.
ServeStart(c) ==
    /\ c.what = "start" /\ c.st = "sent"
    /\ \E j \in Jobs :
         /\ jobs[j] = "none" /\ \A i \in Jobs : jobs[i] = "none" => j <= i
         /\ jobs' = [jobs EXCEPT ![j] = "running"]
         /\ net' = (net (-) One(c)) (+) One([c EXCEPT !.st = "yes", !.job = j])

ServePoll(c) ==
    /\ c.what = "poll" /\ c.st = "sent"
    /\ Answer(c, jobs[c.job])
    /\ UNCHANGED jobs

Serve(c) ==
    /\ ServePreflight(c) \/ ServeStart(c) \/ ServePoll(c)
    /\ UNCHANGED <<kind, dlg, pollRef, ticking, calm, edits, errors>>

JobEnds(j) ==
    /\ jobs[j] = "running"
    /\ \E st \in Final : jobs' = [jobs EXCEPT ![j] = st]
    /\ UNCHANGED <<kind, dlg, pollRef, ticking, net, calm, edits, errors>>

\* The job table is in memory.
Restart ==
    /\ errors < MaxErrors /\ \E j \in Jobs : jobs[j] \notin {"none", "lost"}
    /\ errors' = errors + 1
    /\ jobs' = [j \in Jobs |-> IF jobs[j] = "none" THEN "none" ELSE "lost"]
    /\ UNCHANGED <<kind, dlg, pollRef, ticking, net, calm, edits>>

RequestFails(c) ==
    /\ c.st = "sent" /\ errors < MaxErrors
    /\ errors' = errors + 1
    /\ Answer(c, "error")
    /\ UNCHANGED <<kind, dlg, pollRef, ticking, jobs, calm, edits>>

-----------------------------------------------------------------------------
(* Selecting, checking, submitting *)

\* The checkboxes stay enabled while a preflight runs: the answer may be about
\* another selection than the one now on display.
toggle(h) ==
    /\ dlg.open /\ dlg.step = "pick" /\ edits < MaxEdits
    /\ edits' = edits + 1
    /\ dlg' = [dlg EXCEPT !.sel = IF h \in @ THEN @ \ {h} ELSE @ \cup {h}]
    /\ calm' = (calm /\ \A c \in InFlight : c.what # "preflight")
    /\ UNCHANGED <<kind, pollRef, ticking, net, jobs, errors>>

runPreflight ==
    /\ dlg.open /\ dlg.step = "pick" /\ kind.checks /\ ~dlg.busy /\ Room
    /\ Cardinality(dlg.sel) >= kind.least
    /\ dlg' = [dlg EXCEPT !.busy = TRUE, !.error = FALSE]
    /\ net' = net (+) Request("preflight", dlg.sel, None)
    /\ UNCHANGED <<kind, pollRef, ticking, jobs, calm, edits, errors>>

PreflightDone(c) ==
    /\ c.what = "preflight" /\ c.st # "sent"
    /\ net' = net (-) One(c)
    /\ dlg' = IF ~dlg.open THEN dlg
              ELSE IF c.st = "error" THEN [dlg EXCEPT !.busy = FALSE, !.error = TRUE]
              ELSE [dlg EXCEPT !.busy = FALSE, !.step = "preflight",
                               !.checked = c.sel, !.can = (c.st = "yes")]
    /\ UNCHANGED <<kind, pollRef, ticking, jobs, calm, edits, errors>>

\* Only the PVE dialogs ask for passwords in between.
Proceed ==
    /\ dlg.open /\ dlg.step = "preflight" /\ ~kind.locks /\ dlg.can
    /\ dlg' = [dlg EXCEPT !.step = "creds"]
    /\ UNCHANGED <<kind, pollRef, ticking, net, jobs, calm, edits, errors>>

Back ==
    /\ dlg.open /\ dlg.step \in {"preflight", "creds"} /\ edits < MaxEdits
    /\ kind.locks => ~dlg.busy
    /\ edits' = edits + 1
    /\ dlg' = [dlg EXCEPT !.step = IF @ = "creds" THEN "preflight" ELSE "pick"]
    /\ UNCHANGED <<kind, pollRef, ticking, net, jobs, calm, errors>>

\* Mutant: the result of the preflight is not looked at.
MaySubmit_uncheckedCeph ==
    IF ~kind.checks THEN dlg.step = "pick" /\ ~dlg.busy /\ Cardinality(dlg.sel) >= kind.least
    ELSE IF kind.locks THEN dlg.step = "preflight" /\ ~dlg.busy
    ELSE dlg.step = "creds"

MaySubmit ==
    IF ~kind.checks THEN dlg.step = "pick" /\ ~dlg.busy /\ Cardinality(dlg.sel) >= kind.least
    ELSE IF kind.locks THEN dlg.step = "preflight" /\ ~dlg.busy /\ dlg.can
    ELSE dlg.step = "creds"

\* Bound: as many jobs as there are ids.
JobLeft ==
    LET starts == {c \in InFlight : c.what = "start"}
    IN  BagCardinality([c \in starts |-> net[c]]) < Cardinality({j \in Jobs : jobs[j] = "none"})

\* The PVE dialogs' button is not disabled while it runs: a second press
\* starts a second job.
submit ==
    /\ dlg.open /\ MaySubmit /\ Room /\ JobLeft
    /\ dlg' = [dlg EXCEPT !.error = FALSE, !.busy = kind.locks]
    /\ net' = net (+) Request("start", dlg.sel, None)
    /\ calm' = (calm /\ (\A j \in Jobs : jobs[j] = "none") /\ \A c \in InFlight : c.what # "start")
    /\ UNCHANGED <<kind, pollRef, ticking, jobs, edits, errors>>

-----------------------------------------------------------------------------
(* Following the job *)

\* startPolling of the PVE dialogs, mounted or not; the Ceph dialogs' effect.
StartDone(c) ==
    LET polls == Interval \/ dlg.open
    IN  /\ c.what = "start" /\ c.st # "sent"
        /\ dlg' = IF ~dlg.open THEN dlg
                  ELSE IF c.st = "error" THEN [dlg EXCEPT !.busy = FALSE, !.error = TRUE]
                  ELSE [dlg EXCEPT !.step = "progress", !.job = c.job]
        /\ net' = (net (-) One(c)) (+) IF c.st = "yes" /\ polls
                                        THEN Request("poll", {}, c.job) ELSE EmptyBag
        /\ ticking' = IF c.st = "yes" /\ Interval THEN ticking \cup {c.job} ELSE ticking
        /\ pollRef' = IF c.st = "yes" /\ Interval THEN c.job ELSE pollRef
        /\ UNCHANGED <<kind, jobs, calm, edits, errors>>

\* An interval ticks though the last poll is unanswered; a timeout ends with it.
Tick(j) ==
    /\ j \in ticking /\ Room
    /\ net' = net (+) Request("poll", {}, j)
    /\ ticking' = IF Interval THEN ticking ELSE ticking \ {j}
    /\ UNCHANGED <<kind, dlg, pollRef, jobs, calm, edits, errors>>

\* Mutant: a forgotten job is polled on.
EndsPolling_final(c) == c.st \in Final

\* 404 means that pcenter was restarted; any other failure is tried again.
EndsPolling(c) == c.st \in Final \cup {"lost"}
ToldDone(c) == c.st = "succeeded"

\* poll of the PVE dialogs: clearInterval(pollRef.current), whichever that is.
\* A late answer may be older than the one on display.
PollDone(c) ==
    /\ Interval /\ c.what = "poll" /\ c.st # "sent"
    /\ net' = net (-) One(c)
    /\ ticking' = IF EndsPolling(c) THEN ticking \ {pollRef} ELSE ticking
    /\ dlg' = IF ~dlg.open THEN dlg
              ELSE CASE c.st = "error" -> dlg
                     [] c.st = "lost"  -> [dlg EXCEPT !.error = TRUE]
                     [] OTHER -> [dlg EXCEPT !.shown = c.st,
                                             !.done = IF ToldDone(c) /\ @ = 0 THEN 1 ELSE @]
    /\ calm' = (calm /\ ~(dlg.shown \in Final /\ c.st = "running"))
    /\ UNCHANGED <<kind, pollRef, jobs, edits, errors>>

\* Mutant: only a 404 is an error.
PollFails_lost(c) == c.st = "lost"

PollFails(c) == c.st \in {"error", "lost"}

\* tick of the Ceph dialogs: any error ends the polling.
SnapDone(c) ==
    /\ ~Interval /\ c.what = "poll" /\ c.st # "sent"
    /\ net' = net (-) One(c)
    /\ ticking' = IF dlg.open /\ c.st = "running" THEN ticking \cup {c.job} ELSE ticking
    /\ dlg' = IF ~dlg.open THEN dlg
              ELSE IF PollFails(c) THEN [dlg EXCEPT !.error = TRUE]
              ELSE [dlg EXCEPT !.shown = c.st]
    /\ UNCHANGED <<kind, pollRef, jobs, calm, edits, errors>>

\* 800 ms after a success was polled: the tree is read again, "Done".
Done ==
    /\ dlg.open /\ dlg.done = 1
    /\ dlg' = [dlg EXCEPT !.step = "done", !.done = 2]
    /\ UNCHANGED <<kind, pollRef, ticking, net, jobs, calm, edits, errors>>

\* Modal's cross, Cancel, Hide, Close; the cleanup of the effect.
MayClose ==
    \/ ~kind.locks \/ ~dlg.busy \/ dlg.shown \in Final
    \/ dlg.step = "progress" /\ dlg.shown = None

Close ==
    /\ dlg.open /\ MayClose
    /\ dlg' = Unused(FALSE)
    /\ ticking' = IF Interval THEN ticking \ {pollRef} ELSE {}
    /\ UNCHANGED <<kind, pollRef, net, jobs, calm, edits, errors>>

-----------------------------------------------------------------------------
Progress ==
    \/ \E c \in InFlight : Serve(c) \/ PreflightDone(c) \/ StartDone(c) \/ PollDone(c) \/ SnapDone(c)
    \/ Done

Next ==
    \/ Progress
    \/ \E j \in Jobs : JobEnds(j) \/ Tick(j)
    \/ \E c \in InFlight : RequestFails(c)
    \/ Restart
    \/ \E h \in Hosts : toggle(h)
    \/ runPreflight \/ Proceed \/ Back \/ submit \/ Close

\* Requests are answered, jobs end (each phase of theirs has a deadline),
\* intervals and timeouts fire.
Fairness ==
    /\ WF_vars(Progress)
    /\ \A j \in Jobs : WF_vars(JobEnds(j)) /\ SF_vars(Tick(j))

Spec == Init /\ [][Next]_vars /\ Fairness

-----------------------------------------------------------------------------
\* A job works on the hosts that passed the last preflight, whatever the user
\* selected, checked, went back from and selected again, unless the selection
\* was changed under a running preflight.
SubmittedWasChecked ==
    [][(kind.checks /\ calm) =>
          \A c \in BagToSet(net' (-) net) : (c.what = "start" /\ c.st = "sent")
                                  => (dlg.checked = c.sel /\ dlg.can)]_vars

\* Polling stops: when the job has ended or been forgotten, when the dialog is
\* closed, and when the job's id arrives at a dialog already closed.  (A second
\* job's interval takes the place of the first in pollRef, which then goes on.)
PollingStops ==
    \A j \in Jobs : j \in ticking ~> (j \notin ticking \/ ~calm)

\* The end of a job reaches the open dialog, as a result or as an error.
EndIsShown ==
    \A j \in Jobs :
        (dlg.job = j /\ jobs[j] \in Final)
            ~> (~dlg.open \/ dlg.shown \in Final \/ dlg.error \/ ~calm)
=============================================================================
