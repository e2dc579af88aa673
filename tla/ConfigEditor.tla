---------------------------- MODULE ConfigEditor ----------------------------
(***************************************************************************)
(* The Configure tab of a guest, in several browsers: ConfigureTab loads   *)
(* the configuration, useConfigEditor keeps the changes and applies them   *)
(* with the digest PVE gave for what was loaded.  Answers come in any      *)
(* order; a request may fail, or be given up by the browser and be carried *)
(* out all the same; others edit the guests by other means.                *)
(*                                                                         *)
(* saw and calm are not state of the program: what the page gave as the    *)
(* old values when Apply was pressed, and whether what an editor holds has *)
(* only been changed by itself.                                            *)
(***************************************************************************)
EXTENDS Naturals, FiniteSets

CONSTANTS
    Browsers,
    Guests,
    Keys,        \* keys of a configuration that can be edited
    Vals,        \* their values
    NaN,         \* what parseInt makes of an emptied number field
    MaxCalls,    \* bound on the requests in flight
    MaxSteps,    \* bound on what users, others and failures start
    None

VARIABLES
    srv,         \* per guest, its configuration in PVE
    tab,         \* per browser, the state of ConfigureTab
    ed,          \* per browser, the state of useConfigEditor, None if not mounted
    calls,       \* requests in flight
    calm,
    used         \* how much of MaxSteps has been spent

vars == <<srv, tab, ed, calls, calm, used>>

Configs == [Keys -> Vals]

\* PVE's digest, a hash of the configuration: equal for equal contents.
Digest(config) == <<"sha1", config>>
Digests == {Digest(config) : config \in Configs}

\* What the user has changed: values for some of the keys.
Changes == UNION {[D -> Vals \cup {NaN}] : D \in SUBSET Keys}

EditorState ==
    [orig : Configs, digest : Digests, changes : Changes,
     applying : BOOLEAN, error : BOOLEAN, conflict : BOOLEAN]

ASSUME EditorAssumption ==
    /\ None \notin Browsers /\ None \notin EditorState
    /\ MaxCalls \in Nat /\ MaxSteps \in Nat

Ids == 1..(MaxCalls + MaxSteps + 1)
Fresh == CHOOSE i \in Ids : \A c \in calls : c.id # i
Room == Cardinality(calls) < MaxCalls

Get(b, g, kind) ==
    [id |-> Fresh, by |-> b, kind |-> kind, guest |-> g, st |-> "sent",
     digest |-> None, changes |-> <<>>, saw |-> None, config |-> None]

Merge(config, changes) ==
    [k \in Keys |-> IF k \in DOMAIN changes THEN changes[k] ELSE config[k]]

Editor(config, digest) ==
    [orig |-> config, digest |-> digest, changes |-> <<>>,
     applying |-> FALSE, error |-> FALSE, conflict |-> FALSE]

\* Where nobody has opened the tab yet: the first one opens it.
Closed == [guest |-> None, loading |-> FALSE, error |-> FALSE]

Init ==
    /\ srv \in [Guests -> Configs]
    /\ tab = [b \in Browsers |-> Closed]
    /\ ed = [b \in Browsers |-> None]
    /\ calls = {}
    /\ calm = [b \in Browsers |-> TRUE]
    /\ used = 0

-----------------------------------------------------------------------------
(* pcenter and PVE *)

Answer(c, d) == calls' = (calls \ {c}) \cup {d}

GetClusterVMConfig(c) ==
    /\ c.kind \in {"load", "reload"} /\ c.st = "sent"
    /\ Answer(c, [c EXCEPT !.st = "ok", !.config = srv[c.guest],
                           !.digest = Digest(srv[c.guest])])
    /\ UNCHANGED <<srv, tab, ed, calm, used>>

Accepts(c) == c.digest = Digest(srv[c.guest])

\* A put nobody waits for any more leaves no answer.
Respond(c, st) ==
    calls' = (calls \ {c}) \cup IF c.by = None THEN {} ELSE {[c EXCEPT !.st = st]}

\* PVE compares the digest and refuses values it cannot read.
UpdateClusterVMConfig(c) ==
    /\ c.kind = "put" /\ c.st = "sent"
    /\ IF ~Accepts(c) THEN Respond(c, "conflict") /\ UNCHANGED <<srv, calm>>
       ELSE IF \E k \in DOMAIN c.changes : c.changes[k] = NaN
       THEN Respond(c, "err") /\ UNCHANGED <<srv, calm>>
       ELSE /\ srv' = [srv EXCEPT ![c.guest] = Merge(@, c.changes)]
            /\ calm' = [b \in Browsers |-> calm[b] /\ (b = c.by \/ tab[b].guest # c.guest)]
            /\ Respond(c, "ok")
    /\ UNCHANGED <<tab, ed, used>>

Disturb(b) == calm' = [calm EXCEPT ![b] = FALSE]

Fail(c) ==
    /\ c.st = "sent" /\ c.by # None /\ used < MaxSteps
    /\ used' = used + 1
    /\ Answer(c, [c EXCEPT !.st = "err"])
    /\ Disturb(c.by)
    /\ UNCHANGED <<srv, tab, ed>>

\* fetchAPI's timeout: the request may still be carried out.
Timeout(c) ==
    /\ c.st = "sent" /\ c.by # None /\ c.kind = "put" /\ used < MaxSteps
    /\ used' = used + 1
    /\ calls' = (calls \ {c}) \cup {[c EXCEPT !.by = None], [c EXCEPT !.st = "err", !.id = Fresh]}
    /\ Disturb(c.by)
    /\ UNCHANGED <<srv, tab, ed>>

OthersEdit(g, k, v) ==
    /\ used < MaxSteps /\ srv[g][k] # v
    /\ used' = used + 1
    /\ srv' = [srv EXCEPT ![g][k] = v]
    /\ calm' = [b \in Browsers |-> calm[b] /\ tab[b].guest # g]
    /\ UNCHANGED <<tab, ed, calls>>

-----------------------------------------------------------------------------
(* ConfigureTab *)

\* The continuations of an editor that is gone set the state of nobody.
Orphaned(b, kinds) ==
    {IF c.by = b /\ c.kind \in kinds THEN [c EXCEPT !.by = None] ELSE c :
        c \in {d \in calls : d.by = b /\ d.kind \in kinds => d.kind = "put" /\ d.st = "sent"}}

\* The effect of ConfigureTab: loading, and with it no editor.
Load(b, g, rest) ==
    /\ used < MaxSteps /\ Room
    /\ used' = used + 1
    /\ tab' = [tab EXCEPT ![b] = [guest |-> g, loading |-> TRUE, error |-> FALSE]]
    /\ ed' = [ed EXCEPT ![b] = None]
    /\ calls' = rest \cup {Get(b, g, "load")}
    /\ UNCHANGED srv

\* The tab is opened, or left and opened again: mounted anew.
OpenTab(b, g) ==
    /\ Load(b, g, Orphaned(b, {"load", "put", "reload"}))
    /\ calm' = [calm EXCEPT ![b] = TRUE]

\* A guest with the same vmid in another cluster is selected: ObjectDetail keeps
\* its tab, and the same component still takes the answer to its last load.
SelectGuest(b, g) ==
    /\ tab[b].guest \notin {None, g}
    /\ Load(b, g, Orphaned(b, {"put", "reload"}))
    /\ calm' = [calm EXCEPT ![b] = \A c \in calls : c.by = b => c.kind # "load"]

\* fetchConfig after its await.  ConfigureTabContent is mounted once there is
\* a configuration; one that is mounted keeps what it was mounted with.
FetchConfig(c) ==
    LET b == c.by
        failed == tab[b].error \/ c.st # "ok"
    IN  /\ c.kind = "load" /\ c.st # "sent"
        /\ tab' = [tab EXCEPT ![b] = [@ EXCEPT !.loading = FALSE, !.error = failed]]
        /\ ed' = [ed EXCEPT ![b] =
             IF failed THEN None
             ELSE IF ed[b] = None THEN Editor(c.config, c.digest) ELSE ed[b]]
        /\ calls' = (IF failed THEN Orphaned(b, {"put", "reload"}) ELSE calls) \ {c}
        /\ UNCHANGED <<srv, calm, used>>

-----------------------------------------------------------------------------
(* useConfigEditor *)

\* The inputs are enabled at all times; a value equal to the original one is
\* no change.
setValue(b, k, v) ==
    LET old == ed[b].changes
        new == IF v = ed[b].orig[k]
               THEN [x \in DOMAIN old \ {k} |-> old[x]]
               ELSE [x \in DOMAIN old \cup {k} |-> IF x = k THEN v ELSE old[x]]
    IN  /\ ed[b] # None
        /\ ed' = [ed EXCEPT ![b] = [@ EXCEPT
                    !.changes = new,
                    !.error = FALSE, !.conflict = FALSE]]
        /\ UNCHANGED <<srv, tab, calls, calm, used>>

\* A key is a number or a flag; which of them is which makes no difference here.
EditableNumberRow == Vals \cup {NaN}
EditableCheckboxRow == Vals

HardwareSection(b) == \E k \in Keys, v \in EditableNumberRow : setValue(b, k, v)
OptionsSection(b) == \E k \in Keys, v \in EditableCheckboxRow : setValue(b, k, v)

Dirty(b) == ed[b] # None /\ ed[b].changes # <<>>

discard(b) ==
    /\ Dirty(b) /\ ~ed[b].applying
    /\ ed' = [ed EXCEPT ![b] = [@ EXCEPT !.changes = <<>>, !.error = FALSE, !.conflict = FALSE]]
    /\ UNCHANGED <<srv, tab, calls, calm, used>>

apply(b) ==
    /\ Dirty(b) /\ ~ed[b].applying /\ used < MaxSteps /\ Room
    /\ used' = used + 1
    /\ ed' = [ed EXCEPT ![b] = [@ EXCEPT !.applying = TRUE, !.error = FALSE, !.conflict = FALSE]]
    /\ calls' = calls \cup
         {[Get(b, tab[b].guest, "put") EXCEPT
             !.digest = ed[b].digest, !.changes = ed[b].changes, !.saw = ed[b].orig]}
    /\ UNCHANGED <<srv, tab, calm>>

\* Mutant: there is no finally.
Caught_noFinally(e, c) ==
    [e EXCEPT !.error = TRUE, !.conflict = (c.st = "conflict")]

\* The catch and the finally of apply.
Caught(e, c) ==
    [e EXCEPT !.applying = FALSE, !.error = TRUE, !.conflict = (c.st = "conflict")]

\* apply after its first await: every change goes, also one made meanwhile.
PutDone(c) ==
    /\ c.kind = "put" /\ c.st # "sent"
    /\ IF c.st = "ok"
       THEN /\ ed' = [ed EXCEPT ![c.by].changes = <<>>]
            /\ calls' = (calls \ {c}) \cup {Get(c.by, c.guest, "reload")}
       ELSE /\ ed' = [ed EXCEPT ![c.by] = Caught(@, c)]
            /\ calls' = calls \ {c}
    /\ UNCHANGED <<srv, tab, calm, used>>

\* Mutant: the values on display stay the old ones.
Adopt_digest(e, c) == [e EXCEPT !.digest = c.digest, !.applying = FALSE]

\* Mutant: the old digest is kept after a change.
Adopt_neither(e, c) == [e EXCEPT !.applying = FALSE]

\* setOriginalConfig and setDigest.
Adopt(e, c) == [e EXCEPT !.orig = c.config, !.digest = c.digest, !.applying = FALSE]

\* apply after its second await.
ReloadDone(c) ==
    /\ c.kind = "reload" /\ c.st # "sent"
    /\ ed' = [ed EXCEPT ![c.by] = IF c.st = "ok" THEN Adopt(@, c) ELSE Caught(@, c)]
    /\ calls' = calls \ {c}
    /\ UNCHANGED <<srv, tab, calm, used>>

-----------------------------------------------------------------------------
Next ==
    \/ \E c \in calls :
         \/ GetClusterVMConfig(c) \/ UpdateClusterVMConfig(c) \/ Fail(c) \/ Timeout(c)
         \/ FetchConfig(c) \/ PutDone(c) \/ ReloadDone(c)
    \/ \E g \in Guests, k \in Keys, v \in Vals : OthersEdit(g, k, v)
    \/ \E b \in Browsers :
         \/ \E g \in Guests : OpenTab(b, g) \/ SelectGuest(b, g)
         \/ HardwareSection(b) \/ OptionsSection(b)
         \/ discard(b) \/ apply(b)

Spec == Init /\ [][Next]_vars

-----------------------------------------------------------------------------
\* The writes under way, as their authors meant them.
Asked ==
    {[id |-> c.id, register |-> c.guest, from |-> c.saw, to |-> Merge(c.saw, c.changes)] :
        c \in {d \in calls : d.kind = "put" /\ d.st = "sent"}}

Register == INSTANCE OptimisticRegister WITH
    Registers <- Guests, Values <- Configs,
    Writes <- [id : Ids, register : Guests, from : Configs, to : [Keys -> Vals \cup {NaN}]],
    value <- srv, asked <- Asked

\* The editors implement OptimisticRegister: whatever is loaded, reloaded, late
\* or given up, a change takes effect only on the very configuration the page
\* showed as the old one when Apply was pressed.
ImplementsRegister == Register!Spec

\* An editor reports a conflict only if somebody else has written, or if a
\* request of its own has failed or was one of another guest: after its own
\* change it goes on with the digest of what it has written.
NoFalseConflict ==
    \A b \in Browsers : (calm[b] /\ ed[b] # None) => ~ed[b].conflict

\* "Loading configuration..." and "Applying..." never stay: while they are shown
\* a request is under way whose answer takes them away, also when a load has
\* been overtaken by another and when the configuration cannot be read again.
BusyBacked ==
    \A b \in Browsers :
        /\ tab[b].loading => \E c \in calls : c.by = b /\ c.kind = "load"
        /\ (ed[b] # None /\ ed[b].applying)
              => \E c \in calls : c.by = b /\ c.kind \in {"put", "reload"}
=============================================================================
