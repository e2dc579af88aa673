------------------------- MODULE ConfigEditorProofs -------------------------
(***************************************************************************)
(* Proofs about the configuration editor, for any number of browsers,      *)
(* guests, keys and values and any bound on requests and steps.            *)
(***************************************************************************)
EXTENDS ConfigEditor, FiniteSetTheorems, TLAPS

Call ==
    [id : Ids, by : Browsers \cup {None}, kind : {"load", "put", "reload"},
     guest : Guests, st : {"sent", "ok", "err", "conflict"},
     digest : Digests \cup {None}, changes : Changes,
     saw : Configs \cup {None}, config : Configs \cup {None}]

TabState == [guest : Guests \cup {None}, loading : BOOLEAN, error : BOOLEAN]

TypeOK ==
    /\ srv \in [Guests -> Configs]
    /\ tab \in [Browsers -> TabState]
    /\ ed \in [Browsers -> EditorState \cup {None}]
    /\ calls \in SUBSET Call
    /\ calm \in [Browsers -> BOOLEAN]
    /\ used \in 0..MaxSteps

(* What a request carries: a put the digest of what its page showed, an    *)
(* answered load the digest of what it brings.  A put or reload of a       *)
(* browser belongs to the editor that browser has now.                     *)
CallOK(c) ==
    /\ c.by = None => c.kind = "put" /\ c.st = "sent"
    /\ c.by # None => tab[c.by].guest \in Guests
    /\ c.kind = "put" => c.saw \in Configs /\ c.digest = Digest(c.saw)
    /\ c.kind # "put" /\ c.st = "ok"
          => c.config \in Configs /\ c.digest = Digest(c.config)
    /\ c.kind \in {"put", "reload"} /\ c.by # None
          => ed[c.by] \in EditorState /\ tab[c.by].guest = c.guest

(* What an editor shows as the original values and its digest belong       *)
(* together.                                                               *)
EditorOK(b) ==
    ed[b] # None => ed[b].digest = Digest(ed[b].orig) /\ tab[b].guest \in Guests

(* Requests have different ids, and there are fewer than there are ids.    *)
IdsOf(C) == {c.id : c \in C}
IdsOK ==
    /\ \A c, d \in calls : c.id = d.id => c = d
    /\ Cardinality(IdsOf(calls)) <= MaxCalls + used

TypeInv ==
    /\ TypeOK
    /\ \A c \in calls : CallOK(c)
    /\ \A b \in Browsers : EditorOK(b)
    /\ IdsOK

-----------------------------------------------------------------------------
(* A digest tells configurations apart.                                    *)
LEMMA DigestOf == \A f, g : Digest(f) = Digest(g) => f = g
  BY DEF Digest

(* useConfigEditor starts without changes.                                 *)
LEMMA NoChanges == <<>> \in Changes /\ DOMAIN <<>> = {}
<1>1. <<>> = [k \in {} |-> NaN]
  OBVIOUS
<1>2. [k \in {} |-> NaN] \in [{} -> Vals \cup {NaN}]
  OBVIOUS
<1>3. {} \in SUBSET Keys
  OBVIOUS
<1>4. QED
  BY <1>1, <1>2, <1>3 DEF Changes

(* PVE merges the changes of a put into the configuration.                 *)
LEMMA MergeType ==
    ASSUME NEW f \in Configs, NEW ch \in Changes
    PROVE  /\ Merge(f, ch) \in [Keys -> Vals \cup {NaN}]
           /\ (\A k \in DOMAIN ch : ch[k] # NaN) => Merge(f, ch) \in Configs
<1>1. PICK D \in SUBSET Keys : ch \in [D -> Vals \cup {NaN}]
  BY DEF Changes
<1>2. Merge(f, ch) = [k \in Keys |-> IF k \in D THEN ch[k] ELSE f[k]]
  BY <1>1 DEF Merge, Configs
<1>3. QED
  BY <1>1, <1>2 DEF Configs

(* setValue keeps the changes a set of values for keys.                    *)
LEMMA ChangeType ==
    ASSUME NEW ch \in Changes, NEW k \in Keys, NEW v \in Vals \cup {NaN}
    PROVE  /\ [x \in DOMAIN ch \ {k} |-> ch[x]] \in Changes
           /\ [x \in DOMAIN ch \cup {k} |-> IF x = k THEN v ELSE ch[x]] \in Changes
<1>1. PICK D \in SUBSET Keys : ch \in [D -> Vals \cup {NaN}]
  BY DEF Changes
<1>2. DOMAIN ch = D /\ D \ {k} \in SUBSET Keys /\ D \cup {k} \in SUBSET Keys
  BY <1>1
<1>3. [x \in D \ {k} |-> ch[x]] \in [D \ {k} -> Vals \cup {NaN}]
  BY <1>1
<1>4. [x \in D \cup {k} |-> IF x = k THEN v ELSE ch[x]] \in [D \cup {k} -> Vals \cup {NaN}]
  BY <1>1
<1>5. QED
  BY <1>2, <1>3, <1>4 DEF Changes

(* The bound on requests leaves an id for the next one.                    *)
LEMMA FreshId ==
    ASSUME TypeOK, IdsOK
    PROVE  /\ Fresh \in Ids /\ Fresh \notin IdsOf(calls)
           /\ IsFiniteSet(calls) /\ IsFiniteSet(IdsOf(calls))
           /\ Cardinality(IdsOf(calls)) \in Nat
           /\ Cardinality(IdsOf(calls)) <= Cardinality(calls)
<1> USE EditorAssumption
<1>1. MaxCalls + MaxSteps + 1 \in Int /\ used \in Nat /\ used <= MaxSteps
  BY DEF TypeOK
<1>2. IsFiniteSet(Ids) /\ Cardinality(Ids) = MaxCalls + MaxSteps + 1
  BY <1>1, FS_Interval DEF Ids
<1>3. IdsOf(calls) \in SUBSET Ids
  BY DEF IdsOf, TypeOK, Call
<1>4. IsFiniteSet(IdsOf(calls)) /\ Cardinality(IdsOf(calls)) \in Nat
  BY <1>2, <1>3, FS_Subset, FS_CardinalityType
<1>5. IdsOf(calls) # Ids
  BY <1>1, <1>2, <1>4 DEF IdsOK
<1>6. \E i \in Ids : \A c \in calls : c.id # i
  BY <1>3, <1>5 DEF IdsOf
<1>7. Fresh \in Ids /\ \A c \in calls : c.id # Fresh
  BY <1>6 DEF Fresh
<1> DEFINE f == [c \in calls |-> c.id]
<1>8. f \in Injection(calls, IdsOf(calls)) /\ f \in Surjection(calls, IdsOf(calls))
  BY DEF Injection, Surjection, IsInjective, IdsOf, IdsOK
<1>9. IsFiniteSet(calls) /\ Cardinality(IdsOf(calls)) <= Cardinality(calls)
  BY <1>4, <1>8, FS_Injection, FS_Surjection
<1>10. QED
  BY <1>4, <1>7, <1>9 DEF IdsOf

(* Requests that are only answered, given up or dropped need no new id.    *)
LEMMA IdsKept ==
    ASSUME TypeOK, IdsOK, IdsOf(calls)' \subseteq IdsOf(calls),
           \A c, d \in calls' : c.id = d.id => c = d,
           used' \in Nat, used <= used'
    PROVE  IdsOK'
<1>1. IsFiniteSet(IdsOf(calls)) /\ Cardinality(IdsOf(calls)) \in Nat
  BY FreshId
<1>2. /\ Cardinality(IdsOf(calls)') <= Cardinality(IdsOf(calls))
      /\ Cardinality(IdsOf(calls)') \in Nat
  BY <1>1, FS_Subset, FS_CardinalityType
<1>3. QED
  BY <1>1, <1>2, EditorAssumption DEF IdsOK, TypeOK

(* A new request takes one id: within the bound on requests, in exchange   *)
(* for another, or paid for with a step.                                   *)
LEMMA IdsTaken ==
    ASSUME TypeOK, IdsOK, NEW rest, rest \subseteq IdsOf(calls),
           IdsOf(calls)' \subseteq rest \cup {Fresh},
           \/ Room
           \/ \E i \in IdsOf(calls) : rest = IdsOf(calls) \ {i}
           \/ used < used',
           \A c, d \in calls' : c.id = d.id => c = d,
           used' \in Nat, used <= used'
    PROVE  IdsOK'
<1> USE EditorAssumption
<1>1. /\ IsFiniteSet(IdsOf(calls)) /\ Cardinality(IdsOf(calls)) \in Nat
      /\ Cardinality(IdsOf(calls)) <= Cardinality(calls) /\ IsFiniteSet(calls)
      /\ Cardinality(calls) \in Nat
  BY FreshId, FS_CardinalityType
<1>2. /\ IsFiniteSet(rest) /\ Cardinality(rest) \in Nat
      /\ Cardinality(rest) <= Cardinality(IdsOf(calls))
  BY <1>1, FS_Subset, FS_CardinalityType
<1>3. /\ IsFiniteSet(rest \cup {Fresh})
      /\ Cardinality(rest \cup {Fresh}) <= Cardinality(rest) + 1
      /\ Cardinality(rest \cup {Fresh}) \in Nat
  <2>1. /\ IsFiniteSet(rest \cup {Fresh})
        /\ Cardinality(rest \cup {Fresh}) =
              IF Fresh \in rest THEN Cardinality(rest) ELSE Cardinality(rest) + 1
    BY <1>2, FS_AddElement
  <2>2. QED
    BY <1>2, <2>1
<1>4. /\ Cardinality(IdsOf(calls)') <= Cardinality(rest \cup {Fresh})
      /\ Cardinality(IdsOf(calls)') \in Nat
  BY <1>3, FS_Subset, FS_CardinalityType
<1>5. Cardinality(rest) + 1 <= MaxCalls + used'
  <2>1. CASE Room
    BY <1>1, <1>2, <2>1 DEF Room
  <2>2. ASSUME NEW i \in IdsOf(calls), rest = IdsOf(calls) \ {i}
        PROVE  Cardinality(rest) + 1 <= MaxCalls + used'
    <3>1. Cardinality(rest) = Cardinality(IdsOf(calls)) - 1
      BY <1>1, <2>2, FS_RemoveElement
    <3>2. QED
      BY <1>1, <1>2, <3>1 DEF IdsOK, TypeOK
  <2>3. CASE used < used'
    BY <1>1, <1>2, <2>3 DEF IdsOK, TypeOK
  <2>4. QED
    BY <2>1, <2>2, <2>3
<1>6. QED
  BY <1>2, <1>3, <1>4, <1>5 DEF IdsOK

(* When an editor goes, its unanswered puts are given up, its other        *)
(* requests are dropped, and those of others stay.                         *)
LEMMA OrphanedAre ==
    ASSUME NEW b, NEW kinds
    PROVE  /\ \A d \in Orphaned(b, kinds) : \E c \in calls :
                 \/ d = c /\ ~(c.by = b /\ c.kind \in kinds)
                 \/ /\ c.by = b /\ c.kind \in kinds /\ c.kind = "put" /\ c.st = "sent"
                    /\ d = [c EXCEPT !.by = None]
           /\ \A c \in calls :
                 /\ ~(c.by = b /\ c.kind \in kinds) => c \in Orphaned(b, kinds)
                 /\ c.kind = "put" /\ c.st = "sent"
                       => c \in Orphaned(b, kinds)
                          \/ [c EXCEPT !.by = None] \in Orphaned(b, kinds)
  BY DEF Orphaned

(* They stay well formed, with the ids they had.                           *)
LEMMA OrphanedOK ==
    ASSUME TypeInv, NEW b \in Browsers, NEW kinds, {"put", "reload"} \subseteq kinds,
           \A x \in Browsers : x # b => ed'[x] = ed[x] /\ tab'[x] = tab[x],
           tab'[b].guest \in Guests
    PROVE  /\ Orphaned(b, kinds) \subseteq Call
           /\ IdsOf(Orphaned(b, kinds)) \subseteq IdsOf(calls)
           /\ \A d \in Orphaned(b, kinds) : CallOK(d)'
           /\ \A c, d \in Orphaned(b, kinds) : c.id = d.id => c = d
<1> DEFINE O == Orphaned(b, kinds)
<1>1. \A d \in O : \E c \in calls :
         /\ c \in Call /\ CallOK(c)
         /\ \/ d = c /\ ~(c.by = b /\ c.kind \in {"put", "reload"})
            \/ c.kind = "put" /\ c.st = "sent" /\ d = [c EXCEPT !.by = None]
  BY OrphanedAre DEF TypeInv, TypeOK
<1>2. ASSUME NEW d \in O PROVE d \in Call /\ CallOK(d)' /\ d.id \in IdsOf(calls)
  <2>1. PICK c \in calls :
           /\ c \in Call /\ CallOK(c)
           /\ \/ d = c /\ ~(c.by = b /\ c.kind \in {"put", "reload"})
              \/ c.kind = "put" /\ c.st = "sent" /\ d = [c EXCEPT !.by = None]
    BY <1>1, <1>2
  <2>2. CASE d = c /\ ~(c.by = b /\ c.kind \in {"put", "reload"})
    BY <2>1, <2>2 DEF Call, CallOK, IdsOf
  <2>3. CASE c.kind = "put" /\ c.st = "sent" /\ d = [c EXCEPT !.by = None]
    BY <2>1, <2>3 DEF Call, CallOK, IdsOf
  <2>4. QED
    BY <2>1, <2>2, <2>3
<1>3. ASSUME NEW d \in O, NEW e \in O, d.id = e.id PROVE d = e
  <2>1. PICK c \in calls :
           /\ c \in Call /\ CallOK(c)
           /\ \/ d = c /\ ~(c.by = b /\ c.kind \in kinds)
              \/ /\ c.by = b /\ c.kind \in kinds
                 /\ d = [c EXCEPT !.by = None]
    BY OrphanedAre DEF TypeInv, TypeOK
  <2>2. PICK f \in calls :
           /\ f \in Call /\ CallOK(f)
           /\ \/ e = f /\ ~(f.by = b /\ f.kind \in kinds)
              \/ /\ f.by = b /\ f.kind \in kinds
                 /\ e = [f EXCEPT !.by = None]
    BY OrphanedAre DEF TypeInv, TypeOK
  <2>3. d.id = c.id /\ e.id = f.id
    BY <2>1, <2>2 DEF Call
  <2>4. c = f
    BY <1>3, <2>3 DEF TypeInv, IdsOK
  <2>5. QED
    BY <2>1, <2>2, <2>4
<1>4. QED
  BY <1>2, <1>3 DEF IdsOf

(* A request that is answered keeps its id, one that is done with frees it.*)
LEMMA Replaced ==
    ASSUME TypeInv, NEW c \in calls, NEW d \in Call, d.id = c.id,
           calls' \subseteq (calls \ {c}) \cup {d}, used' \in Nat, used <= used'
    PROVE  calls' \subseteq Call /\ IdsOK'
<1>1. calls' \subseteq Call
  BY DEF TypeInv, TypeOK
<1>2. IdsOf(calls)' \subseteq IdsOf(calls)
  BY DEF IdsOf
<1>3. \A x, y \in calls' : x.id = y.id => x = y
  BY DEF TypeInv, IdsOK
<1>4. QED
  BY <1>1, <1>2, <1>3, IdsKept DEF TypeInv

(* A new request of browser b, as Get builds it.                           *)
LEMMA GetOK ==
    ASSUME TypeInv, NEW b \in Browsers, NEW g \in Guests,
           NEW kind \in {"load", "put", "reload"}
    PROVE  /\ Get(b, g, kind) \in Call
           /\ LET n == Get(b, g, kind) IN
              /\ n.id = Fresh /\ n.by = b /\ n.kind = kind /\ n.guest = g
              /\ n.st = "sent"
  BY FreshId, NoChanges DEF TypeInv, Get, Call

(* Disturbing an editor is a change of calm.                               *)
LEMMA DisturbType ==
    ASSUME calm \in [Browsers -> BOOLEAN], NEW b, Disturb(b)
    PROVE  calm' \in [Browsers -> BOOLEAN]
  BY DEF Disturb

(* TypeInv is inductive.                                                   *)
LEMMA TypeStep == TypeInv /\ [Next]_vars => TypeInv'
<1> SUFFICES ASSUME TypeInv, [Next]_vars PROVE TypeInv'
  OBVIOUS
<1> USE EditorAssumption
<1>t. /\ TypeOK /\ IdsOK /\ used \in Nat
      /\ \A c \in calls : c \in Call /\ CallOK(c)
      /\ \A b \in Browsers : EditorOK(b)
  BY DEF TypeInv, TypeOK
<1>1. ASSUME NEW c \in calls, GetClusterVMConfig(c) PROVE TypeInv'
  <2> DEFINE d == [c EXCEPT !.st = "ok", !.config = srv[c.guest],
                            !.digest = Digest(srv[c.guest])]
  <2>1. c \in Call /\ c.guest \in Guests /\ srv[c.guest] \in Configs
    BY <1>t DEF TypeOK, Call
  <2>2. d \in Call /\ d.id = c.id
    BY <2>1 DEF Call, Digests
  <2>3. CallOK(d)
    BY <2>1, <1>1, <1>t DEF GetClusterVMConfig, Call, CallOK
  <2>4. calls' = (calls \ {c}) \cup {d} /\ UNCHANGED <<srv, tab, ed, calm, used>>
    BY <1>1 DEF GetClusterVMConfig, Answer
  <2> HIDE DEF d
  <2>5. calls' \subseteq Call /\ IdsOK'
    BY <2>2, <2>4, <1>t, Replaced
  <2>6. \A x \in calls' : CallOK(x)'
    BY <2>3, <2>4, <1>t DEF CallOK
  <2>7. QED
    BY <2>4, <2>5, <2>6, <1>t DEF TypeInv, TypeOK, EditorOK
<1>2. ASSUME NEW c \in calls, UpdateClusterVMConfig(c) PROVE TypeInv'
  <2>1. c \in Call /\ c.kind = "put" /\ c.st = "sent"
    BY <1>2, <1>t DEF UpdateClusterVMConfig
  <2>2. PICK st \in {"ok", "err", "conflict"} : Respond(c, st)
    BY <1>2 DEF UpdateClusterVMConfig
  <2> DEFINE d == [c EXCEPT !.st = st]
  <2>3. d \in Call /\ d.id = c.id /\ (c.by # None => CallOK(d))
    BY <2>1, <1>t DEF Call, CallOK
  <2>4. /\ calls' \subseteq (calls \ {c}) \cup {d} /\ UNCHANGED <<tab, ed, used>>
        /\ c.by = None => d \notin calls'
    <3>1. c.by = None => d \notin calls
      BY <2>1, <2>3, <1>t DEF IdsOK, Call
    <3>2. QED
      BY <1>2, <2>2, <3>1 DEF UpdateClusterVMConfig, Respond
  <2> HIDE DEF d
  <2>5. calls' \subseteq Call /\ IdsOK'
    BY <2>3, <2>4, <1>t, Replaced
  <2>6. \A x \in calls' : CallOK(x)'
    BY <2>3, <2>4, <1>t DEF CallOK
  <2>7. srv' \in [Guests -> Configs]
    <3>1. CASE UNCHANGED srv
      BY <3>1, <1>t DEF TypeOK
    <3>2. CASE /\ srv' = [srv EXCEPT ![c.guest] = Merge(@, c.changes)]
               /\ \A k \in DOMAIN c.changes : c.changes[k] # NaN
      <4>1. c.guest \in Guests /\ c.changes \in Changes /\ srv[c.guest] \in Configs
        BY <2>1, <1>t DEF Call, TypeOK
      <4>2. Merge(srv[c.guest], c.changes) \in Configs
        BY <3>2, <4>1, MergeType
      <4>3. QED
        BY <3>2, <4>1, <4>2, <1>t DEF TypeOK
    <3>3. QED
      BY <1>2, <3>1, <3>2 DEF UpdateClusterVMConfig
  <2>8. calm' \in [Browsers -> BOOLEAN]
    BY <1>2, <1>t DEF UpdateClusterVMConfig, TypeOK
  <2>9. QED
    BY <2>4, <2>5, <2>6, <2>7, <2>8, <1>t DEF TypeInv, TypeOK, EditorOK
<1>3. ASSUME NEW c \in calls, Fail(c) PROVE TypeInv'
  <2> DEFINE d == [c EXCEPT !.st = "err"]
  <2>1. c \in Call /\ c.by # None /\ c.by \in Browsers
    BY <1>3, <1>t DEF Fail, Call
  <2>2. d \in Call /\ d.id = c.id /\ CallOK(d)
    BY <2>1, <1>t DEF Call, CallOK
  <2>3. /\ calls' = (calls \ {c}) \cup {d} /\ UNCHANGED <<srv, tab, ed>>
        /\ used' \in 0..MaxSteps /\ used <= used' /\ used' \in Nat
    BY <1>3, <1>t DEF Fail, Answer, TypeOK
  <2>a. calm' \in [Browsers -> BOOLEAN]
    BY <1>3, <1>t, DisturbType DEF Fail, TypeOK
  <2> HIDE DEF d
  <2>4. calls' \subseteq Call /\ IdsOK'
    BY <2>2, <2>3, <1>t, Replaced
  <2>5. \A x \in calls' : CallOK(x)'
    BY <2>2, <2>3, <1>t DEF CallOK
  <2>6. QED
    BY <2>3, <2>a, <2>4, <2>5, <1>t DEF TypeInv, TypeOK, EditorOK
<1>4. ASSUME NEW c \in calls, Timeout(c) PROVE TypeInv'
  <2> DEFINE d == [c EXCEPT !.by = None]
             e == [c EXCEPT !.st = "err", !.id = Fresh]
  <2>1. /\ c \in Call /\ c.kind = "put" /\ c.st = "sent"
        /\ c.by # None /\ c.by \in Browsers
    BY <1>4, <1>t DEF Timeout, Call
  <2>2. d \in Call /\ d.id = c.id /\ CallOK(d)
    BY <2>1, <1>t DEF Call, CallOK
  <2>3. e \in Call /\ e.id = Fresh /\ CallOK(e) /\ Fresh \notin IdsOf(calls)
    BY <2>1, <1>t, FreshId DEF Call, CallOK
  <2>4. /\ calls' = (calls \ {c}) \cup {d, e} /\ UNCHANGED <<srv, tab, ed>>
        /\ used' \in 0..MaxSteps /\ used < used' /\ used <= used' /\ used' \in Nat
    BY <1>4, <1>t DEF Timeout, TypeOK
  <2>a. calm' \in [Browsers -> BOOLEAN]
    BY <1>4, <1>t, DisturbType DEF Timeout, TypeOK
  <2> HIDE DEF d, e
  <2>5. /\ \A x, y \in calls' : x.id = y.id => x = y
        /\ IdsOf(calls)' \subseteq IdsOf(calls) \cup {Fresh}
    BY <2>2, <2>3, <2>4, <1>t DEF IdsOK, IdsOf
  <2>6. IdsOK'
    BY <2>4, <2>5, <1>t, IdsTaken
  <2>7. calls' \subseteq Call /\ \A x \in calls' : CallOK(x)'
    BY <2>2, <2>3, <2>4, <1>t DEF CallOK
  <2>8. QED
    BY <2>4, <2>a, <2>6, <2>7, <1>t DEF TypeInv, TypeOK, EditorOK
<1>5. ASSUME NEW g \in Guests, NEW k \in Keys, NEW v \in Vals, OthersEdit(g, k, v)
      PROVE  TypeInv'
  <2>1. srv' \in [Guests -> Configs] /\ calm' \in [Browsers -> BOOLEAN]
    <3>1. srv' = [srv EXCEPT ![g] = [srv[g] EXCEPT ![k] = v]] /\ srv[g] \in Configs
      BY <1>5, <1>t DEF OthersEdit, TypeOK
    <3>2. [srv[g] EXCEPT ![k] = v] \in Configs
      BY <3>1 DEF Configs
    <3>3. QED
      BY <1>5, <3>1, <3>2, <1>t DEF OthersEdit, TypeOK
  <2>2. /\ UNCHANGED <<tab, ed, calls>>
        /\ used' \in 0..MaxSteps /\ used <= used' /\ used' \in Nat
    BY <1>5, <1>t DEF OthersEdit, TypeOK
  <2>3. IdsOK'
    BY <2>2, <1>t, IdsKept DEF IdsOK, IdsOf
  <2>4. QED
    BY <2>1, <2>2, <2>3, <1>t DEF TypeInv, TypeOK, CallOK, EditorOK
<1>6. ASSUME NEW b \in Browsers, NEW g \in Guests, NEW kinds,
             {"put", "reload"} \subseteq kinds,
             Load(b, g, Orphaned(b, kinds)), calm' \in [Browsers -> BOOLEAN]
      PROVE  TypeInv'
  <2> DEFINE n == Get(b, g, "load")
             rest == Orphaned(b, kinds)
  <2>1. /\ calls' = rest \cup {n} /\ Room /\ srv' = srv
        /\ used' \in 0..MaxSteps /\ used <= used' /\ used' \in Nat
        /\ tab' \in [Browsers -> TabState]
        /\ ed' \in [Browsers -> EditorState \cup {None}]
        /\ ed'[b] = None /\ tab'[b].guest = g
        /\ \A x \in Browsers : x # b => ed'[x] = ed[x] /\ tab'[x] = tab[x]
    BY <1>6, <1>t DEF Load, TypeOK, TabState
  <2>2. n \in Call /\ n.id = Fresh /\ n.kind = "load" /\ n.st = "sent" /\ n.by = b
        /\ Fresh \notin IdsOf(calls)
    BY <1>t, GetOK, FreshId
  <2>3. /\ rest \subseteq Call /\ IdsOf(rest) \subseteq IdsOf(calls)
        /\ \A d \in rest : CallOK(d)'
        /\ \A x, y \in rest : x.id = y.id => x = y
    BY <2>1, <1>6, OrphanedOK
  <2> HIDE DEF n, rest
  <2>4. \A x, y \in calls' : x.id = y.id => x = y
    BY <2>1, <2>2, <2>3 DEF IdsOf
  <2>5. IdsOf(calls)' \subseteq IdsOf(calls) \cup {Fresh}
    BY <2>1, <2>2, <2>3 DEF IdsOf
  <2>6. IdsOK'
    BY <2>1, <2>4, <2>5, <1>t, IdsTaken
  <2>7. \A x \in calls' : CallOK(x)'
    BY <2>1, <2>2, <2>3, <1>6 DEF CallOK
  <2>8. \A x \in Browsers : EditorOK(x)'
    BY <2>1, <1>t DEF EditorOK
  <2>9. QED
    BY <1>6, <2>1, <2>2, <2>3, <2>6, <2>7, <2>8, <1>t DEF TypeInv, TypeOK
<1>7. ASSUME NEW b \in Browsers, NEW g \in Guests, OpenTab(b, g) \/ SelectGuest(b, g)
      PROVE  TypeInv'
  BY <1>6, <1>7, <1>t DEF OpenTab, SelectGuest, TypeOK
<1>8. ASSUME NEW c \in calls, FetchConfig(c) PROVE TypeInv'
  <2> DEFINE b == c.by
             failed == tab[b].error \/ c.st # "ok"
  <2>1. c \in Call /\ c.kind = "load" /\ c.st # "sent" /\ b \in Browsers
    BY <1>8, <1>t DEF FetchConfig, Call, CallOK
  <2>2. /\ UNCHANGED <<srv, calm, used>>
        /\ tab' = [tab EXCEPT ![b] = [@ EXCEPT !.loading = FALSE, !.error = failed]]
        /\ ed' = [ed EXCEPT ![b] = IF failed THEN None
                                   ELSE IF ed[b] = None THEN Editor(c.config, c.digest)
                                   ELSE ed[b]]
        /\ calls' = (IF failed THEN Orphaned(b, {"put", "reload"}) ELSE calls) \ {c}
    BY <1>8 DEF FetchConfig
  <2>3. /\ tab' \in [Browsers -> TabState] /\ tab'[b].guest \in Guests
        /\ tab'[b].guest = tab[b].guest
        /\ \A x \in Browsers : x # b => ed'[x] = ed[x] /\ tab'[x] = tab[x]
    <3>1. tab[b] \in TabState /\ tab[b].guest \in Guests
      BY <2>1, <1>t DEF TypeOK, CallOK
    <3>2. QED
      BY <2>1, <2>2, <3>1, <1>t DEF TypeOK, TabState
  <2>4. CASE failed
    <3>1. /\ ed' = [ed EXCEPT ![b] = None]
          /\ calls' = Orphaned(b, {"put", "reload"}) \ {c}
      BY <2>2, <2>4
    <3>2. /\ calls' \subseteq Call /\ IdsOf(calls)' \subseteq IdsOf(calls)
          /\ \A d \in calls' : CallOK(d)'
          /\ \A x, y \in calls' : x.id = y.id => x = y
      <4>1. /\ Orphaned(b, {"put", "reload"}) \subseteq Call
            /\ IdsOf(Orphaned(b, {"put", "reload"})) \subseteq IdsOf(calls)
            /\ \A d \in Orphaned(b, {"put", "reload"}) : CallOK(d)'
            /\ \A x, y \in Orphaned(b, {"put", "reload"}) : x.id = y.id => x = y
        BY <2>1, <2>3, OrphanedOK
      <4>2. calls' \subseteq Orphaned(b, {"put", "reload"})
        BY <3>1
      <4>3. QED
        BY <4>1, <4>2 DEF IdsOf
    <3>a. used' \in Nat /\ used <= used'
      BY <2>2, <1>t
    <3>3. IdsOK'
      BY <3>a, <3>2, <1>t, IdsKept
    <3>4. ed' \in [Browsers -> EditorState \cup {None}] /\ \A x \in Browsers : EditorOK(x)'
      BY <2>1, <2>3, <3>1, <1>t DEF TypeOK, EditorOK
    <3>5. QED
      BY <2>2, <2>3, <3>2, <3>3, <3>4, <1>t DEF TypeInv, TypeOK
  <2>5. CASE ~failed
    <3> DEFINE e == IF ed[b] = None THEN Editor(c.config, c.digest) ELSE ed[b]
    <3>1. ed' = [ed EXCEPT ![b] = e] /\ calls' = calls \ {c}
      BY <2>2, <2>5
    <3>2. c.config \in Configs /\ c.digest = Digest(c.config)
      BY <2>1, <2>5, <1>t DEF CallOK
    <3>3. /\ Editor(c.config, c.digest) \in EditorState
          /\ Editor(c.config, c.digest).orig = c.config
          /\ Editor(c.config, c.digest).digest = c.digest
      BY <3>2, NoChanges DEF Editor, EditorState, Digests
    <3>4. /\ e \in EditorState /\ e.digest = Digest(e.orig)
          /\ ed[b] \in EditorState => e \in EditorState
      BY <2>1, <3>2, <3>3, <1>t DEF TypeOK, EditorOK
    <3> HIDE DEF e
    <3>5. ed' \in [Browsers -> EditorState \cup {None}] /\ \A x \in Browsers : EditorOK(x)'
      BY <2>1, <2>3, <3>1, <3>4, <1>t DEF TypeOK, EditorOK
    <3>6. ASSUME NEW x \in calls' PROVE CallOK(x)'
      <4>1. x \in Call /\ CallOK(x) /\ x.by \in Browsers \cup {None}
        BY <3>1, <1>t DEF Call
      <4>2. CASE x.by = b
        <5>1. ed'[b] \in EditorState
          BY <2>1, <3>1, <3>4, <1>t DEF TypeOK
        <5>2. QED
          BY <2>3, <4>1, <4>2, <5>1 DEF CallOK
      <4>3. CASE x.by # b
        BY <2>3, <4>1, <4>3 DEF CallOK
      <4>4. QED
        BY <4>2, <4>3
    <3>7. calls' \subseteq Call /\ IdsOK'
      BY <2>1, <2>2, <3>1, <1>t, Replaced
    <3>8. QED
      BY <2>2, <2>3, <3>5, <3>6, <3>7, <1>t DEF TypeInv, TypeOK
  <2>6. QED
    BY <2>4, <2>5
<1>9. ASSUME NEW b \in Browsers, NEW e \in EditorState, e.digest = Digest(e.orig),
             ed[b] # None, ed' = [ed EXCEPT ![b] = e],
             UNCHANGED <<srv, tab, calm>>
      PROVE  /\ ed' \in [Browsers -> EditorState \cup {None}]
             /\ \A x \in Browsers : EditorOK(x)'
             /\ \A x \in calls : CallOK(x)'
  BY <1>9, <1>t DEF TypeOK, EditorOK, CallOK
<1>10. ASSUME NEW b \in Browsers, NEW k \in Keys, NEW v \in Vals \cup {NaN},
              setValue(b, k, v)
       PROVE  TypeInv'
  <2>1. ed[b] \in EditorState /\ ed[b].digest = Digest(ed[b].orig) /\ ed[b] # None
    BY <1>10, <1>t DEF setValue, TypeOK, EditorOK
  <2>2. PICK ch \in Changes :
           ed' = [ed EXCEPT ![b] = [@ EXCEPT !.changes = ch, !.error = FALSE,
                                             !.conflict = FALSE]]
    <3>1. ed[b].changes \in Changes
      BY <2>1 DEF EditorState
    <3>2. QED
      BY <1>10, <3>1, ChangeType DEF setValue
  <2> DEFINE e == [ed[b] EXCEPT !.changes = ch, !.error = FALSE, !.conflict = FALSE]
  <2>3. e \in EditorState /\ e.digest = Digest(e.orig) /\ ed' = [ed EXCEPT ![b] = e]
    BY <2>1, <2>2 DEF EditorState
  <2>4. UNCHANGED <<srv, tab, calls, calm, used>>
    BY <1>10 DEF setValue
  <2> HIDE DEF e
  <2>5. QED
    BY <1>9, <2>1, <2>3, <2>4, <1>t DEF TypeInv, TypeOK, IdsOK
<1>11. ASSUME NEW b \in Browsers, discard(b) PROVE TypeInv'
  <2> DEFINE e == [ed[b] EXCEPT !.changes = <<>>, !.error = FALSE, !.conflict = FALSE]
  <2>1. ed[b] \in EditorState /\ ed[b].digest = Digest(ed[b].orig) /\ ed[b] # None
    BY <1>11, <1>t DEF discard, Dirty, TypeOK, EditorOK
  <2>2. e \in EditorState /\ e.digest = Digest(e.orig)
    BY <2>1, NoChanges DEF EditorState
  <2>3. ed' = [ed EXCEPT ![b] = e] /\ UNCHANGED <<srv, tab, calls, calm, used>>
    BY <1>11 DEF discard
  <2> HIDE DEF e
  <2>4. QED
    BY <1>9, <2>1, <2>2, <2>3, <1>t DEF TypeInv, TypeOK, IdsOK
<1>12. ASSUME NEW b \in Browsers, apply(b) PROVE TypeInv'
  <2> DEFINE e == [ed[b] EXCEPT !.applying = TRUE, !.error = FALSE, !.conflict = FALSE]
             n == [Get(b, tab[b].guest, "put") EXCEPT
                     !.digest = ed[b].digest, !.changes = ed[b].changes, !.saw = ed[b].orig]
  <2>1. /\ ed[b] \in EditorState /\ ed[b].digest = Digest(ed[b].orig) /\ ed[b] # None
        /\ tab[b].guest \in Guests
    BY <1>12, <1>t DEF apply, Dirty, TypeOK, EditorOK
  <2>2. e \in EditorState /\ e.digest = Digest(e.orig)
    BY <2>1 DEF EditorState
  <2>3. /\ ed' = [ed EXCEPT ![b] = e] /\ UNCHANGED <<srv, tab, calm>>
        /\ calls' = calls \cup {n} /\ Room
        /\ used' \in 0..MaxSteps /\ used <= used' /\ used' \in Nat
    BY <1>12, <1>t DEF apply, TypeOK
  <2>4. /\ n \in Call /\ n.id = Fresh /\ n.kind = "put" /\ n.by = b
        /\ n.guest = tab[b].guest /\ n.saw = ed[b].orig /\ n.digest = ed[b].digest
    <3>1. PICK q \in Call : /\ q = Get(b, tab[b].guest, "put") /\ q.id = Fresh
                            /\ q.by = b /\ q.kind = "put" /\ q.guest = tab[b].guest
      BY <2>1, GetOK
    <3>2. n = [q EXCEPT !.digest = ed[b].digest, !.changes = ed[b].changes,
                        !.saw = ed[b].orig]
      BY <3>1
    <3>3. QED
      BY <2>1, <3>1, <3>2 DEF Call, EditorState
  <2>5. ed[b].orig \in Configs /\ ed'[b] = e
    BY <2>1, <2>3, <1>t DEF EditorState, TypeOK
  <2>6. Fresh \notin IdsOf(calls)
    BY <1>t, FreshId
  <2> HIDE DEF e, n
  <2>7. /\ ed' \in [Browsers -> EditorState \cup {None}]
        /\ \A x \in Browsers : EditorOK(x)'
        /\ \A x \in calls : CallOK(x)'
    BY <1>9, <2>1, <2>2, <2>3
  <2>8. \A x \in calls' : CallOK(x)'
    <3>1. ASSUME NEW x, x = n PROVE CallOK(x)'
      BY <2>1, <2>2, <2>3, <2>4, <2>5, <3>1 DEF CallOK
    <3>2. QED
      BY <2>3, <2>7, <3>1
  <2>9. /\ \A x, y \in calls' : x.id = y.id => x = y
        /\ IdsOf(calls)' \subseteq IdsOf(calls) \cup {Fresh}
    BY <2>3, <2>4, <2>6, <1>t DEF IdsOf, IdsOK
  <2>10. IdsOK'
    BY <2>3, <2>9, <1>t, IdsTaken
  <2>11. QED
    BY <2>3, <2>4, <2>7, <2>8, <2>10, <1>t DEF TypeInv, TypeOK
<1>13. ASSUME NEW c \in calls, PutDone(c) PROVE TypeInv'
  <2> DEFINE b == c.by
  <2>1. /\ c \in Call /\ c.kind = "put" /\ b \in Browsers /\ c.guest \in Guests
        /\ ed[b] \in EditorState /\ tab[b].guest = c.guest
    BY <1>13, <1>t DEF PutDone, Call, CallOK
  <2>a. ed[b] # None /\ ed[b].digest = Digest(ed[b].orig)
    BY <2>1, <1>t DEF EditorOK
  <2>2. UNCHANGED <<srv, tab, calm, used>>
    BY <1>13 DEF PutDone
  <2>3. CASE c.st = "ok"
    <3> DEFINE e == [ed[b] EXCEPT !.changes = <<>>]
               n == Get(b, c.guest, "reload")
    <3>1. ed' = [ed EXCEPT ![b] = e] /\ calls' = (calls \ {c}) \cup {n}
      BY <1>13, <2>3 DEF PutDone
    <3>2. e \in EditorState /\ e.orig = ed[b].orig /\ e.digest = ed[b].digest
      BY <2>1, NoChanges DEF EditorState
    <3>3. /\ n \in Call /\ n.id = Fresh /\ n.kind = "reload" /\ n.by = b
          /\ n.guest = c.guest /\ n.st = "sent"
      BY <2>1, GetOK
    <3>4. Fresh \notin IdsOf(calls)
      BY <1>t, FreshId
    <3> HIDE DEF e, n
    <3>5. /\ ed' \in [Browsers -> EditorState \cup {None}]
          /\ \A x \in Browsers : EditorOK(x)'
          /\ \A x \in calls : CallOK(x)'
      BY <2>1, <2>a, <2>2, <3>1, <3>2, <1>9
    <3>a. ed'[b] = e
      BY <2>1, <3>1, <1>t DEF TypeOK
    <3>6. \A x \in calls' : CallOK(x)'
      <4>1. ASSUME NEW x, x = n PROVE CallOK(x)'
        BY <2>1, <2>2, <3>2, <3>3, <3>a, <4>1 DEF CallOK
      <4>2. QED
        BY <3>1, <3>5, <4>1
    <3>7. /\ \A x, y \in calls' : x.id = y.id => x = y
          /\ IdsOf(calls)' \subseteq (IdsOf(calls) \ {c.id}) \cup {Fresh}
          /\ c.id \in IdsOf(calls)
      BY <3>1, <3>3, <3>4, <1>t DEF IdsOf, IdsOK
    <3>8. IdsOK'
      <4>1. /\ IdsOf(calls) \ {c.id} \subseteq IdsOf(calls)
            /\ used' \in Nat /\ used <= used'
        BY <2>2, <1>t
      <4>2. QED
        BY <3>7, <4>1, <1>t, IdsTaken
    <3>9. QED
      BY <2>2, <3>1, <3>3, <3>5, <3>6, <3>8, <1>t DEF TypeInv, TypeOK
  <2>4. CASE c.st # "ok"
    <3> DEFINE e == Caught(ed[b], c)
    <3>1. ed' = [ed EXCEPT ![b] = e] /\ calls' = calls \ {c}
      BY <1>13, <2>4 DEF PutDone
    <3>2. e \in EditorState /\ e.orig = ed[b].orig /\ e.digest = ed[b].digest
      BY <2>1 DEF EditorState, Caught
    <3> HIDE DEF e
    <3>3. /\ ed' \in [Browsers -> EditorState \cup {None}]
          /\ \A x \in Browsers : EditorOK(x)'
          /\ \A x \in calls : CallOK(x)'
      BY <2>1, <2>a, <2>2, <3>1, <3>2, <1>9
    <3>4. calls' \subseteq Call /\ IdsOK'
      BY <2>1, <2>2, <3>1, <1>t, Replaced
    <3>5. QED
      BY <2>2, <3>1, <3>3, <3>4, <1>t DEF TypeInv, TypeOK
  <2>5. QED
    BY <2>3, <2>4
<1>14. ASSUME NEW c \in calls, ReloadDone(c) PROVE TypeInv'
  <2> DEFINE b == c.by
             e == IF c.st = "ok" THEN Adopt(ed[b], c) ELSE Caught(ed[b], c)
  <2>1. /\ c \in Call /\ b \in Browsers /\ tab[b].guest \in Guests
        /\ ed[b] \in EditorState /\ ed[b] # None
        /\ c.st = "ok" => c.config \in Configs /\ c.digest = Digest(c.config)
    BY <1>14, <1>t DEF ReloadDone, Call, CallOK
  <2>a. ed[b].digest = Digest(ed[b].orig)
    BY <2>1, <1>t DEF EditorOK
  <2>2. /\ UNCHANGED <<srv, tab, calm, used>> /\ calls' = calls \ {c}
        /\ ed' = [ed EXCEPT ![b] = e]
    BY <1>14 DEF ReloadDone
  <2>3. e \in EditorState /\ e.digest = Digest(e.orig)
    <3>1. CASE c.st = "ok"
      BY <2>1, <3>1 DEF EditorState, Adopt, Digests
    <3>2. CASE c.st # "ok"
      BY <2>1, <2>a, <3>2 DEF EditorState, Caught
    <3>3. QED
      BY <3>1, <3>2
  <2> HIDE DEF e
  <2>4. /\ ed' \in [Browsers -> EditorState \cup {None}]
        /\ \A x \in Browsers : EditorOK(x)'
        /\ \A x \in calls : CallOK(x)'
    BY <2>1, <2>2, <2>3, <1>9
  <2>5. calls' \subseteq Call /\ IdsOK'
    BY <2>1, <2>2, <1>t, Replaced
  <2>6. QED
    BY <2>2, <2>4, <2>5, <1>t DEF TypeInv, TypeOK
<1>15. CASE UNCHANGED vars
  BY <1>15, <1>t DEF vars, TypeInv, TypeOK, CallOK, EditorOK, IdsOK
<1>16. QED
  BY <1>1, <1>2, <1>3, <1>4, <1>5, <1>7, <1>8, <1>10, <1>11, <1>12, <1>13, <1>14, <1>15
  DEF Next, HardwareSection, OptionsSection, EditableNumberRow, EditableCheckboxRow

(* What the requests, the editors and their ids satisfy throughout.        *)
LEMMA TypeInvariant == Spec => []TypeInv
<1>1. Init => TypeInv
  <2> SUFFICES ASSUME Init PROVE TypeInv
    OBVIOUS
  <2>1. TypeOK
    BY EditorAssumption DEF Init, TypeOK, Closed, TabState
  <2>2. IdsOf(calls) = {} /\ calls = {} /\ used = 0
    BY DEF Init, IdsOf
  <2>3. IdsOK
    BY <2>2, FS_EmptySet, EditorAssumption DEF IdsOK
  <2>4. QED
    BY <2>1, <2>2, <2>3 DEF Init, TypeInv, EditorOK
<1>2. QED
  BY <1>1, TypeStep, PTL DEF Spec

-----------------------------------------------------------------------------
(* The write a put stands for, and the puts PVE has not decided.           *)
Write(c) == [id |-> c.id, register |-> c.guest, from |-> c.saw,
             to |-> Merge(c.saw, c.changes)]
Undecided(c) == c.kind = "put" /\ c.st = "sent"

(* The writes asked for, before and after a step.                          *)
LEMMA AskedAre ==
    /\ \A w : w \in Asked <=> \E c \in calls : Undecided(c) /\ w = Write(c)
    /\ \A w : w \in Asked' <=> \E c \in calls' : Undecided(c) /\ w = Write(c)
  BY DEF Asked, Undecided, Write

(* Giving a put up, answering another request or sending a load changes no *)
(* write.                                                                  *)
LEMMA AskedSame ==
    ASSUME \A c \in calls : Undecided(c) =>
              \E d \in calls' : Undecided(d) /\ Write(d) = Write(c),
           \A d \in calls' : Undecided(d) =>
              \E c \in calls : Undecided(c) /\ Write(d) = Write(c)
    PROVE  Asked' = Asked
  BY AskedAre

(* A put that is answered takes its write, and no other, off the list.     *)
LEMMA AskedLess ==
    ASSUME TypeInv, NEW c \in calls, Undecided(c), NEW d, ~Undecided(d),
           calls' \subseteq (calls \ {c}) \cup {d}, calls \ {c} \subseteq calls'
    PROVE  Asked' = Asked \ {Write(c)} /\ Write(c) \in Asked
<1>1. \A x \in calls : Write(x) = Write(c) => x = c
  BY DEF Write, TypeInv, IdsOK
<1>2. \A x \in calls' : Undecided(x) <=> x \in calls \ {c} /\ Undecided(x)
  OBVIOUS
<1>3. QED
  BY <1>1, <1>2, AskedAre

(* Every step of the editors, of PVE and of others is a step of            *)
(* OptimisticRegister: Apply asks for a write, PVE commits it if the       *)
(* digest is that of the configuration in force and refuses it otherwise,  *)
(* others overwrite, and nothing else touches a configuration.             *)
LEMMA RegisterStep == TypeInv /\ [Next]_vars => [Register!Next]_(Register!vars)
<1> SUFFICES ASSUME TypeInv, [Next]_vars PROVE [Register!Next]_(Register!vars)
  OBVIOUS
<1> USE EditorAssumption
<1>t. /\ TypeOK /\ IdsOK /\ \A c \in calls : c \in Call /\ CallOK(c)
      /\ \A b \in Browsers : EditorOK(b)
  BY DEF TypeInv, TypeOK
<1>s. ASSUME srv' = srv, Asked' = Asked PROVE [Register!Next]_(Register!vars)
  BY <1>s DEF Register!vars
<1>r. ASSUME NEW c \in calls, Undecided(c), NEW d, ~Undecided(d), srv' = srv,
             calls' \subseteq (calls \ {c}) \cup {d}, calls \ {c} \subseteq calls'
      PROVE  [Register!Next]_(Register!vars)
  <2>1. Asked' = Asked \ {Write(c)} /\ Write(c) \in Asked
    BY <1>r, AskedLess
  <2>2. Register!Refuse(Write(c))
    BY <1>r, <2>1 DEF Register!Refuse
  <2>3. QED
    BY <2>1, <2>2 DEF Register!Next
<1>1. ASSUME NEW c \in calls, GetClusterVMConfig(c) PROVE [Register!Next]_(Register!vars)
  <2> DEFINE d == [c EXCEPT !.st = "ok", !.config = srv[c.guest],
                            !.digest = Digest(srv[c.guest])]
  <2>1. c \in Call /\ c.kind # "put"
    BY <1>1, <1>t DEF GetClusterVMConfig
  <2>2. ~Undecided(c) /\ ~Undecided(d)
    BY <2>1 DEF Undecided, Call
  <2>3. calls' = (calls \ {c}) \cup {d} /\ srv' = srv
    BY <1>1 DEF GetClusterVMConfig, Answer
  <2> HIDE DEF d
  <2>4. Asked' = Asked
    BY <2>2, <2>3, AskedSame
  <2>5. QED
    BY <1>s, <2>3, <2>4
<1>2. ASSUME NEW c \in calls, UpdateClusterVMConfig(c) PROVE [Register!Next]_(Register!vars)
  <2>1. c \in Call /\ Undecided(c)
    BY <1>2, <1>t DEF UpdateClusterVMConfig, Undecided
  <2>2. PICK st \in {"ok", "err", "conflict"} : Respond(c, st)
    BY <1>2 DEF UpdateClusterVMConfig
  <2> DEFINE d == [c EXCEPT !.st = st]
  <2>3. ~Undecided(d)
    BY <2>1 DEF Undecided, Call
  <2>4. calls' \subseteq (calls \ {c}) \cup {d} /\ calls \ {c} \subseteq calls'
    BY <2>2 DEF Respond
  <2> HIDE DEF d
  <2>5. CASE srv' = srv
    BY <1>r, <2>1, <2>3, <2>4, <2>5
  <2>6. CASE Accepts(c) /\ srv' = [srv EXCEPT ![c.guest] = Merge(@, c.changes)]
    <3>1. Asked' = Asked \ {Write(c)} /\ Write(c) \in Asked
      BY <2>1, <2>3, <2>4, AskedLess
    <3>2. c.digest = Digest(c.saw) /\ c.digest = Digest(srv[c.guest])
      BY <2>1, <2>6, <1>t DEF Accepts, CallOK, Undecided
    <3>3. srv[c.guest] = c.saw
      BY <3>2, DigestOf
    <3>4. /\ srv[Write(c).register] = Write(c).from
          /\ srv' = [srv EXCEPT ![Write(c).register] = Write(c).to]
      BY <2>6, <3>3 DEF Write
    <3>5. Register!Commit(Write(c))
      BY <3>1, <3>4 DEF Register!Commit
    <3>6. QED
      BY <3>1, <3>5 DEF Register!Next
  <2>7. QED
    BY <1>2, <2>5, <2>6 DEF UpdateClusterVMConfig
<1>3. ASSUME NEW c \in calls, Fail(c) PROVE [Register!Next]_(Register!vars)
  <2> DEFINE d == [c EXCEPT !.st = "err"]
  <2>1. /\ c \in Call /\ calls' = (calls \ {c}) \cup {d} /\ srv' = srv
    BY <1>3, <1>t DEF Fail, Answer
  <2>2. ~Undecided(d)
    BY <2>1 DEF Undecided, Call
  <2> HIDE DEF d
  <2>3. CASE Undecided(c)
    BY <1>r, <2>1, <2>2, <2>3
  <2>4. CASE ~Undecided(c)
    BY <1>s, <2>1, <2>2, <2>4, AskedSame
  <2>5. QED
    BY <2>3, <2>4
<1>4. ASSUME NEW c \in calls, Timeout(c) PROVE [Register!Next]_(Register!vars)
  <2> DEFINE d == [c EXCEPT !.by = None]
             e == [c EXCEPT !.st = "err", !.id = Fresh]
  <2>1. /\ c \in Call /\ calls' = (calls \ {c}) \cup {d, e} /\ srv' = srv
        /\ Undecided(c)
    BY <1>4, <1>t DEF Timeout, Undecided
  <2>2. Undecided(d) /\ Write(d) = Write(c) /\ ~Undecided(e)
    BY <2>1 DEF Undecided, Call, Write
  <2> HIDE DEF d, e
  <2>3. Asked' = Asked
    BY <2>1, <2>2, AskedSame
  <2>4. QED
    BY <1>s, <2>1, <2>3
<1>5. ASSUME NEW g \in Guests, NEW k \in Keys, NEW v \in Vals, OthersEdit(g, k, v)
      PROVE  [Register!Next]_(Register!vars)
  <2>1. srv' = [srv EXCEPT ![g] = [srv[g] EXCEPT ![k] = v]] /\ srv[g] \in Configs
    BY <1>5, <1>t DEF OthersEdit, TypeOK
  <2>2. [srv[g] EXCEPT ![k] = v] \in Configs
    BY <2>1 DEF Configs
  <2>3. Asked' = Asked
    BY <1>5, AskedSame DEF OthersEdit
  <2>4. Register!Overwrite(g, [srv[g] EXCEPT ![k] = v])
    BY <2>1, <2>3 DEF Register!Overwrite
  <2>5. QED
    BY <2>2, <2>4 DEF Register!Next
<1>o. ASSUME NEW b, NEW kinds,
             \A x \in calls' : Undecided(x) => x \in Orphaned(b, kinds),
             \A x \in Orphaned(b, kinds) : Undecided(x) => x \in calls'
      PROVE  Asked' = Asked
  <2>1. \A c \in calls : Undecided(c) =>
           \E d \in calls' : Undecided(d) /\ Write(d) = Write(c)
    <3> SUFFICES ASSUME NEW c \in calls, Undecided(c)
                 PROVE  \E d \in calls' : Undecided(d) /\ Write(d) = Write(c)
      OBVIOUS
    <3> DEFINE d == [c EXCEPT !.by = None]
    <3>1. c \in Orphaned(b, kinds) \/ d \in Orphaned(b, kinds)
      BY OrphanedAre DEF Undecided
    <3>2. Undecided(d) /\ Write(d) = Write(c)
      BY <1>t DEF Undecided, Write, Call
    <3> HIDE DEF d
    <3>3. QED
      BY <1>o, <3>1, <3>2
  <2>2. \A d \in calls' : Undecided(d) =>
           \E c \in calls : Undecided(c) /\ Write(d) = Write(c)
    <3> SUFFICES ASSUME NEW d \in calls', Undecided(d)
                 PROVE  \E c \in calls : Undecided(c) /\ Write(d) = Write(c)
      OBVIOUS
    <3>1. d \in Orphaned(b, kinds)
      BY <1>o
    <3>2. PICK c \in calls : \/ d = c
                             \/ c.kind = "put" /\ c.st = "sent" /\ d = [c EXCEPT !.by = None]
      BY <3>1, OrphanedAre
    <3>3. QED
      BY <3>2, <1>t DEF Undecided, Write, Call
  <2>3. QED
    BY <2>1, <2>2, AskedSame
<1>6. ASSUME NEW b \in Browsers, NEW g \in Guests, OpenTab(b, g) \/ SelectGuest(b, g)
      PROVE  [Register!Next]_(Register!vars)
  <2>1. PICK kinds : /\ calls' = Orphaned(b, kinds) \cup {Get(b, g, "load")}
                     /\ srv' = srv
    BY <1>6 DEF OpenTab, SelectGuest, Load
  <2>2. ~Undecided(Get(b, g, "load"))
    BY DEF Undecided, Get
  <2>3. Asked' = Asked
    BY <1>o, <2>1, <2>2
  <2>4. QED
    BY <1>s, <2>1, <2>3
<1>7. ASSUME NEW c \in calls, FetchConfig(c) PROVE [Register!Next]_(Register!vars)
  <2>1. /\ srv' = srv /\ ~Undecided(c)
        /\ \/ calls' = calls \ {c}
           \/ calls' = Orphaned(c.by, {"put", "reload"}) \ {c}
    BY <1>7 DEF FetchConfig, Undecided
  <2>2. CASE calls' = calls \ {c}
    BY <1>s, <2>1, <2>2, AskedSame
  <2>3. CASE calls' = Orphaned(c.by, {"put", "reload"}) \ {c}
    <3>1. Asked' = Asked
      BY <1>o, <2>1, <2>3
    <3>2. QED
      BY <1>s, <2>1, <3>1
  <2>4. QED
    BY <2>1, <2>2, <2>3
<1>8. ASSUME NEW b \in Browsers, NEW k, NEW v, setValue(b, k, v) \/ discard(b)
      PROVE  [Register!Next]_(Register!vars)
  <2>1. calls' = calls /\ srv' = srv
    BY <1>8 DEF setValue, discard
  <2>2. QED
    BY <1>s, <2>1, AskedSame
<1>9. ASSUME NEW b \in Browsers, apply(b) PROVE [Register!Next]_(Register!vars)
  <2> DEFINE n == [Get(b, tab[b].guest, "put") EXCEPT
                     !.digest = ed[b].digest, !.changes = ed[b].changes, !.saw = ed[b].orig]
  <2>1. /\ ed[b] \in EditorState /\ tab[b].guest \in Guests
        /\ ed[b].orig \in Configs /\ ed[b].changes \in Changes
    BY <1>9, <1>t DEF apply, Dirty, TypeOK, EditorOK, EditorState
  <2>2. calls' = calls \cup {n} /\ srv' = srv
    BY <1>9 DEF apply
  <2>3. /\ n.id = Fresh /\ n.kind = "put" /\ n.st = "sent"
        /\ n.guest = tab[b].guest /\ n.saw = ed[b].orig /\ n.changes = ed[b].changes
    BY DEF Get
  <2> HIDE DEF n
  <2>4. Fresh \in Ids /\ \A c \in calls : c.id # Fresh
    BY <1>t, FreshId DEF IdsOf
  <2>5. Merge(n.saw, n.changes) \in [Keys -> Vals \cup {NaN}]
    BY <2>1, <2>3, MergeType
  <2>6. Write(n) \in [id : Ids, register : Guests, from : Configs,
                      to : [Keys -> Vals \cup {NaN}]]
    BY <2>1, <2>3, <2>4, <2>5 DEF Write
  <2>7. Undecided(n) /\ \A c \in calls : Write(c) # Write(n)
    BY <2>3, <2>4 DEF Undecided, Write
  <2>8. Write(n) \notin Asked /\ Asked' = Asked \cup {Write(n)}
    BY <2>2, <2>7, AskedAre
  <2>9. Register!Ask(Write(n))
    BY <2>2, <2>8 DEF Register!Ask
  <2>10. QED
    BY <2>6, <2>9 DEF Register!Next
<1>10. ASSUME NEW c \in calls, PutDone(c) \/ ReloadDone(c)
       PROVE  [Register!Next]_(Register!vars)
  <2>1. /\ srv' = srv /\ ~Undecided(c)
        /\ \/ calls' = calls \ {c}
           \/ calls' = (calls \ {c}) \cup {Get(c.by, c.guest, "reload")}
    BY <1>10 DEF PutDone, ReloadDone, Undecided
  <2>2. ~Undecided(Get(c.by, c.guest, "reload"))
    BY DEF Undecided, Get
  <2>3. Asked' = Asked
    BY <2>1, <2>2, AskedSame
  <2>4. QED
    BY <1>s, <2>1, <2>3
<1>11. CASE UNCHANGED vars
  <2>1. srv' = srv /\ calls' = calls
    BY <1>11 DEF vars
  <2>2. QED
    BY <1>s, <2>1, AskedSame
<1>12. QED
  BY <1>1, <1>2, <1>3, <1>4, <1>5, <1>6, <1>7, <1>8, <1>9, <1>10, <1>11
  DEF Next, HardwareSection, OptionsSection

(* The editors implement OptimisticRegister: a change takes effect only on *)
(* the very configuration its page showed as the old one when Apply was    *)
(* pressed, whatever is loaded, reloaded, late, refused or given up.       *)
THEOREM RegisterImplemented == Spec => ImplementsRegister
<1>1. Init => Register!Init
  BY DEF Init, Register!Init, Asked
<1>2. QED
  BY <1>1, RegisterStep, TypeInvariant, PTL DEF Spec, ImplementsRegister, Register!Spec

-----------------------------------------------------------------------------
(* What is said of one browser.  The spinners are backed by requests; an   *)
(* editor has one apply under way at most; and as long as nobody else has  *)
(* written and nothing has failed, what was loaded, what is to be applied  *)
(* and what is on display are the configuration PVE has.                   *)
Backed(b) ==
    /\ tab[b].loading => \E c \in calls : c.by = b /\ c.kind = "load"
    /\ (ed[b] # None /\ ed[b].applying)
          => \E c \in calls : c.by = b /\ c.kind \in {"put", "reload"}

Single(b) ==
    \A c, d \in calls :
        c.by = b /\ c.kind # "load" /\ d.by = b /\ d.kind # "load"
           => c = d /\ ed[b].applying

CalmCall(b, c) ==
    /\ c.kind = "load" => ed[b] = None /\ c.guest = tab[b].guest
    /\ c.kind # "put" /\ c.st = "ok" => c.config = srv[c.guest]
    /\ c.kind = "reload" => c.st \in {"sent", "ok"}
    /\ c.kind = "put" => c.st # "conflict"
    /\ c.kind = "put" /\ c.st = "sent" => c.saw = srv[c.guest]

\* Nothing of b is under way that has changed, or will change, the original values.
Settled(b) == \A c \in calls : c.by = b => c.kind = "put" /\ c.st # "ok"

CalmEditor(b) ==
    ed[b] # None => /\ ~ed[b].conflict
                    /\ Settled(b) => ed[b].orig = srv[tab[b].guest]

CalmOK(b) ==
    calm[b] =>
        /\ CalmEditor(b)
        /\ \A c \in calls : c.by = b => CalmCall(b, c)
        /\ \A c, d \in calls :
              c.by = b /\ c.kind = "load" /\ d.by = b /\ d.kind = "load" => c = d

BrowserOK(b) == Backed(b) /\ Single(b) /\ CalmOK(b)

(* A browser whose page, whose requests and whose guest a step leaves      *)
(* alone keeps what is said of it.                                         *)
LEMMA Untouched ==
    ASSUME TypeInv, NEW b \in Browsers, BrowserOK(b),
           tab'[b] = tab[b], ed'[b] = ed[b],
           \A x \in calls : x.by = b => x \in calls',
           \A x \in calls' : x.by = b => x \in calls,
           calm'[b] => /\ calm[b]
                       /\ tab[b].guest \in Guests
                             => srv'[tab[b].guest] = srv[tab[b].guest]
    PROVE  BrowserOK(b)'
<1>1. Backed(b)' /\ Single(b)'
  BY DEF BrowserOK, Backed, Single
<1>2. ASSUME calm'[b], NEW c \in calls', c.by = b PROVE CalmCall(b, c)'
  <2>1. c \in calls /\ CalmCall(b, c) /\ CallOK(c) /\ c.by # None /\ c \in Call
    BY <1>2, EditorAssumption DEF BrowserOK, CalmOK, TypeInv, TypeOK
  <2>2. c.guest = tab[b].guest /\ c.guest \in Guests
    BY <1>2, <2>1 DEF CallOK, CalmCall, Call
  <2>3. QED
    BY <1>2, <2>1, <2>2 DEF CalmCall
<1>3. calm'[b] => CalmEditor(b)'
  BY DEF TypeInv, EditorOK, BrowserOK, CalmOK, CalmEditor, Settled
<1>4. CalmOK(b)'
  BY <1>2, <1>3 DEF BrowserOK, CalmOK
<1>5. QED
  BY <1>1, <1>4 DEF BrowserOK

(* What is said of each browser is inductive.                              *)
LEMMA BrowserStep ==
    ASSUME TypeInv, [Next]_vars, NEW b \in Browsers, BrowserOK(b)
    PROVE  BrowserOK(b)'
<1> USE EditorAssumption
<1>t. /\ TypeOK /\ IdsOK /\ b # None
      /\ \A c \in calls : c \in Call /\ CallOK(c)
      /\ \A c \in calls : c.by = b /\ calm[b] => CalmCall(b, c)
      /\ ed[b] \in EditorState \cup {None} /\ tab[b] \in TabState /\ EditorOK(b)
  BY DEF TypeInv, TypeOK, BrowserOK, CalmOK
<1>1. ASSUME NEW c \in calls, GetClusterVMConfig(c) PROVE BrowserOK(b)'
  <2> DEFINE d == [c EXCEPT !.st = "ok", !.config = srv[c.guest],
                            !.digest = Digest(srv[c.guest])]
  <2>1. /\ d.by = c.by /\ d.kind = c.kind /\ d.guest = c.guest /\ d.st = "ok"
        /\ d.config = srv[c.guest] /\ c.kind \in {"load", "reload"}
    BY <1>1, <1>t DEF GetClusterVMConfig, Call
  <2>2. calls' = (calls \ {c}) \cup {d} /\ UNCHANGED <<srv, tab, ed, calm, used>>
    BY <1>1 DEF GetClusterVMConfig, Answer
  <2> HIDE DEF d
  <2>3. CASE c.by # b
    BY <2>1, <2>2, <2>3, Untouched
  <2>4. CASE c.by = b
    <3>1. Backed(b)'
      BY <2>1, <2>2, <2>4 DEF BrowserOK, Backed
    <3>2. Single(b)'
      BY <2>1, <2>2, <2>4 DEF BrowserOK, Single
    <3>3. calm'[b] => \A x \in calls' : x.by = b => CalmCall(b, x)'
      BY <2>1, <2>2, <2>4, <1>t DEF CalmCall
    <3>4. CalmEditor(b) => CalmEditor(b)'
      BY <2>1, <2>2, <2>4 DEF CalmEditor, Settled
    <3>5. CalmOK(b)'
      BY <2>1, <2>2, <2>4, <3>3, <3>4 DEF BrowserOK, CalmOK
    <3>6. QED
      BY <3>1, <3>2, <3>5 DEF BrowserOK
  <2>5. QED
    BY <2>3, <2>4
<1>2. ASSUME NEW c \in calls, UpdateClusterVMConfig(c) PROVE BrowserOK(b)'
  <2>1. /\ c \in Call /\ c.kind = "put" /\ c.st = "sent" /\ UNCHANGED <<tab, ed, used>>
        /\ CallOK(c)
    BY <1>2, <1>t DEF UpdateClusterVMConfig
  <2>2. PICK st \in {"ok", "err", "conflict"} :
           /\ Respond(c, st)
           /\ st = "conflict" => ~Accepts(c)
           /\ st # "ok" => UNCHANGED <<srv, calm>>
           /\ st = "ok" =>
                 /\ srv' = [srv EXCEPT ![c.guest] = Merge(@, c.changes)]
                 /\ calm' = [x \in Browsers |-> calm[x] /\ (x = c.by \/ tab[x].guest # c.guest)]
    BY <1>2 DEF UpdateClusterVMConfig
  <2> DEFINE d == [c EXCEPT !.st = st]
  <2>3. /\ d.by = c.by /\ d.kind = "put" /\ d.guest = c.guest /\ d.st = st /\ d.saw = c.saw
    BY <2>1 DEF Call
  <2>4. /\ calls' \subseteq (calls \ {c}) \cup {d} /\ calls \ {c} \subseteq calls'
        /\ c.by # None => calls' = (calls \ {c}) \cup {d}
    BY <2>2 DEF Respond
  <2> HIDE DEF d
  <2>5. CASE c.by # b
    <3>1. calm'[b] => calm[b] /\ (st = "ok" => tab[b].guest # c.guest)
      BY <2>2, <2>5
    <3>2. calm'[b] /\ tab[b].guest \in Guests => srv'[tab[b].guest] = srv[tab[b].guest]
      BY <2>2, <3>1, <1>t DEF TypeOK
    <3>3. QED
      BY <2>1, <2>3, <2>4, <2>5, <3>1, <3>2, Untouched
  <2>6. CASE c.by = b
    <3>0. calls' = (calls \ {c}) \cup {d} /\ ed[b] # None /\ tab[b].guest = c.guest
      BY <2>1, <2>4, <2>6, <1>t DEF CallOK
    <3>1. Backed(b)'
      BY <2>1, <2>3, <2>6, <3>0 DEF BrowserOK, Backed
    <3>2. Single(b)'
      BY <2>1, <2>3, <2>6, <3>0 DEF BrowserOK, Single
    <3>a. \A x \in calls' : x.by = b /\ calm'[b] => x = d
      <4>1. ASSUME NEW x \in calls \ {c}, x.by = b, calm[b] PROVE FALSE
        <5>1. x.kind # "load"
          BY <3>0, <4>1, <1>t DEF CalmCall
        <5>2. QED
          BY <2>1, <2>6, <4>1, <5>1 DEF BrowserOK, Single
      <4>2. calm'[b] => calm[b]
        BY <2>2
      <4>3. QED
        BY <3>0, <4>1, <4>2
    <3>3. calm'[b] => CalmCall(b, d)'
      <4>1. ASSUME calm'[b] PROVE st # "conflict"
        <5>1. calm[b] /\ CalmCall(b, c)
          BY <2>2, <2>6, <4>1, <1>t
        <5>2. c.saw = srv[c.guest] /\ c.digest = Digest(c.saw)
          BY <2>1, <5>1 DEF CalmCall, CallOK
        <5>3. Accepts(c)
          BY <5>2 DEF Accepts
        <5>4. QED
          BY <2>2, <5>3
      <4>2. ASSUME calm'[b], st = "sent" PROVE FALSE
        BY <2>2, <4>2
      <4>3. QED
        BY <2>3, <4>1, <4>2 DEF CalmCall
    <3>4. calm'[b] => CalmEditor(b)'
      <4> SUFFICES ASSUME calm'[b], ed'[b] # None PROVE CalmEditor(b)'
        BY DEF CalmEditor
      <4>1. calm[b] /\ CalmEditor(b)
        BY <2>2 DEF BrowserOK, CalmOK
      <4>2. CASE st = "ok"
        BY <2>1, <2>3, <2>6, <3>0, <4>1, <4>2 DEF CalmEditor, Settled
      <4>3. CASE st # "ok"
        <5>1. Settled(b)
          <6>1. ASSUME NEW x \in calls, x.by = b PROVE x.kind = "put" /\ x.st # "ok"
            <7>1. x = c \/ x \in calls'
              BY <3>0
            <7>2. x = c \/ x = d
              BY <7>1, <3>a, <6>1
            <7>3. QED
              BY <7>2, <2>1, <2>3, <4>3
          <6>2. QED
            BY <6>1 DEF Settled
        <5>2. QED
          BY <2>1, <2>2, <4>1, <4>3, <5>1 DEF CalmEditor
      <4>4. QED
        BY <4>2, <4>3
    <3>5. CalmOK(b)'
      BY <3>3, <3>4, <3>a DEF CalmOK
    <3>6. QED
      BY <3>1, <3>2, <3>5 DEF BrowserOK
  <2>7. QED
    BY <2>5, <2>6
<1>3. ASSUME NEW c \in calls, Fail(c) \/ Timeout(c) PROVE BrowserOK(b)'
  <2>1. /\ c \in Call /\ c.by \in Browsers /\ Disturb(c.by) /\ UNCHANGED <<srv, tab, ed>>
    BY <1>3, <1>t DEF Fail, Timeout, Call
  <2>2. PICK d : /\ d.by = c.by /\ d.kind = c.kind
                 /\ calls \ {c} \subseteq calls' /\ d \in calls'
                 /\ \A x \in calls' : x \in calls \ {c} \/ x = d \/ x.by = None
    <3>1. CASE Fail(c)
      <4> DEFINE d == [c EXCEPT !.st = "err"]
      <4>1. d.by = c.by /\ d.kind = c.kind /\ calls' = (calls \ {c}) \cup {d}
        BY <2>1, <3>1 DEF Fail, Answer, Call
      <4>2. QED
        BY <4>1
    <3>2. CASE Timeout(c)
      <4> DEFINE d == [c EXCEPT !.st = "err", !.id = Fresh]
                 e == [c EXCEPT !.by = None]
      <4>1. /\ d.by = c.by /\ d.kind = c.kind /\ e.by = None
            /\ calls' = (calls \ {c}) \cup {e, d}
        BY <2>1, <3>2 DEF Timeout, Call
      <4> HIDE DEF d, e
      <4>2. QED
        BY <4>1
    <3>3. QED
      BY <1>3, <3>1, <3>2
  <2>3. CASE c.by # b
    <3>1. calm'[b] = calm[b]
      BY <2>1, <2>3, <1>t DEF Disturb, TypeOK
    <3>2. QED
      BY <2>1, <2>2, <2>3, <3>1, <1>t, Untouched
  <2>4. CASE c.by = b
    <3>1. ~calm'[b]
      BY <2>1, <2>4, <1>t DEF Disturb, TypeOK
    <3>2. Backed(b)'
      BY <2>1, <2>2, <2>4 DEF BrowserOK, Backed
    <3>3. Single(b)'
      BY <2>1, <2>2, <2>4, <1>t DEF BrowserOK, Single
    <3>4. QED
      BY <3>1, <3>2, <3>3 DEF BrowserOK, CalmOK
  <2>5. QED
    BY <2>3, <2>4
<1>4. ASSUME NEW g \in Guests, NEW k \in Keys, NEW v \in Vals, OthersEdit(g, k, v)
      PROVE  BrowserOK(b)'
  <2>1. /\ UNCHANGED <<tab, ed, calls>> /\ srv' = [srv EXCEPT ![g] = [srv[g] EXCEPT ![k] = v]]
        /\ calm'[b] => calm[b] /\ tab[b].guest # g
    BY <1>4 DEF OthersEdit
  <2>2. calm'[b] => srv'[tab[b].guest] = srv[tab[b].guest]
    BY <2>1, <1>t DEF TypeOK
  <2>3. QED
    BY <2>1, <2>2, Untouched
<1>5. ASSUME NEW a \in Browsers, NEW g \in Guests, OpenTab(a, g) \/ SelectGuest(a, g)
      PROVE  BrowserOK(b)'
  <2> DEFINE n == Get(a, g, "load")
  <2>1. PICK kinds : /\ {"put", "reload"} \subseteq kinds
                     /\ calls' = Orphaned(a, kinds) \cup {n}
                     /\ "load" \notin kinds /\ calm'[a]
                           => \A c \in calls : c.by = a => c.kind # "load"
    <3>1. CASE OpenTab(a, g)
      BY <3>1 DEF OpenTab, Load
    <3>2. CASE SelectGuest(a, g)
      BY <3>2, <1>t DEF SelectGuest, Load, TypeOK
    <3>3. QED
      BY <1>5, <3>1, <3>2
  <2>2. /\ srv' = srv /\ ed' = [ed EXCEPT ![a] = None]
        /\ tab' = [tab EXCEPT ![a] = [guest |-> g, loading |-> TRUE, error |-> FALSE]]
        /\ a # b => calm'[b] = calm[b]
    BY <1>5, <1>t DEF OpenTab, SelectGuest, Load, TypeOK
  <2>3. n.by = a /\ n.kind = "load" /\ n.guest = g /\ n.st = "sent"
    BY DEF Get
  <2> HIDE DEF n
  <2>4. \A x \in Orphaned(a, kinds) : x.by # None => x \in calls /\ ~(x.by = a /\ x.kind \in kinds)
    BY OrphanedAre, <1>t DEF Call
  <2>5. CASE a # b
    <3>1. \A x \in calls : x.by = b => x \in calls'
      BY <2>1, <2>5, OrphanedAre
    <3>2. \A x \in calls' : x.by = b => x \in calls
      BY <2>1, <2>3, <2>4, <2>5, <1>t
    <3>3. ed'[b] = ed[b] /\ tab'[b] = tab[b]
      BY <2>2, <2>5, <1>t DEF TypeOK
    <3>4. QED
      BY <2>2, <2>5, <3>1, <3>2, <3>3, Untouched
  <2>6. CASE a = b
    <3>1. /\ ed'[b] = None /\ tab'[b].guest = g /\ n \in calls'
      BY <2>1, <2>2, <2>6, <1>t DEF TypeOK
    <3>2. ASSUME NEW x \in calls', x.by = b PROVE x.kind = "load" /\ (calm'[b] => x = n)
      <4>1. CASE x = n
        BY <4>1, <2>3
      <4>2. CASE x \in Orphaned(a, kinds)
        <5>1. x \in calls /\ x.kind \notin kinds /\ x \in Call
          BY <3>2, <4>2, <2>4, <2>6, <1>t
        <5>2. x.kind = "load"
          BY <5>1, <2>1 DEF Call
        <5>3. QED
          BY <5>1, <5>2, <3>2, <2>1, <2>6
      <4>3. QED
        BY <2>1, <4>1, <4>2
    <3>3. Backed(b)' /\ Single(b)'
      BY <2>3, <2>6, <3>1, <3>2 DEF Backed, Single
    <3>4. \A x \in {n} : CalmCall(b, x)'
      BY <2>3, <3>1 DEF CalmCall
    <3>5. CalmOK(b)'
      BY <3>1, <3>2, <3>4 DEF CalmOK, CalmEditor
    <3>6. QED
      BY <3>3, <3>5 DEF BrowserOK
  <2>7. QED
    BY <2>5, <2>6
<1>6. ASSUME NEW c \in calls, FetchConfig(c) PROVE BrowserOK(b)'
  <2> DEFINE failed == tab[c.by].error \/ c.st # "ok"
  <2>1. /\ c \in Call /\ c.kind = "load" /\ c.by \in Browsers
        /\ srv' = srv /\ calm' = calm /\ c.st # "sent"
        /\ tab' = [tab EXCEPT ![c.by] = [tab[c.by] EXCEPT !.loading = FALSE, !.error = failed]]
        /\ ed' = [ed EXCEPT ![c.by] = IF failed THEN None
                    ELSE IF ed[c.by] = None THEN Editor(c.config, c.digest) ELSE ed[c.by]]
        /\ calls' = (IF failed THEN Orphaned(c.by, {"put", "reload"}) ELSE calls) \ {c}
    BY <1>6, <1>t DEF FetchConfig, Call, CallOK
  <2>2. \A x \in Orphaned(c.by, {"put", "reload"}) :
           x.by # None => x \in calls /\ ~(x.by = c.by /\ x.kind \in {"put", "reload"})
    BY OrphanedAre, <1>t DEF Call
  <2>3. \A x \in calls' : x.by # None => x \in calls /\ x # c
    BY <2>1, <2>2
  <2>4. CASE c.by # b
    <3>1. \A x \in calls : x.by = b => x \in calls'
      BY <2>1, <2>4, OrphanedAre
    <3>2. ed'[b] = ed[b] /\ tab'[b] = tab[b]
      BY <2>1, <2>4, <1>t DEF TypeOK
    <3>3. QED
      BY <2>1, <2>3, <2>4, <3>1, <3>2, <1>t, Untouched
  <2>5. CASE c.by = b
    <3>1. ~tab'[b].loading /\ tab'[b].guest = tab[b].guest
      BY <2>1, <2>5, <1>t DEF TypeOK, TabState
    <3>2. ed'[b] = IF failed THEN None
                   ELSE IF ed[b] = None THEN Editor(c.config, c.digest) ELSE ed[b]
      BY <2>1, <2>5, <1>t DEF TypeOK
    <3>3. failed => \A x \in calls' : x.by = b => x.kind = "load"
      BY <2>1, <2>2, <2>3, <2>5, <1>t DEF Call
    <3>4. ~failed => calls' = calls \ {c}
      BY <2>1
    <3>5. /\ ~Editor(c.config, c.digest).applying /\ ~Editor(c.config, c.digest).conflict
          /\ Editor(c.config, c.digest).orig = c.config
      BY DEF Editor
    <3> HIDE DEF failed
    <3>6. Backed(b)'
      <4>1. CASE failed
        BY <4>1, <3>1, <3>2 DEF Backed
      <4>2. CASE ~failed
        BY <4>2, <3>1, <3>2, <3>4, <3>5, <2>1 DEF BrowserOK, Backed
      <4>3. QED
        BY <4>1, <4>2
    <3>7. Single(b)'
      <4>1. CASE failed
        BY <4>1, <3>3 DEF Single
      <4>2. ASSUME ~failed, NEW x \in calls', NEW y \in calls',
                   x.by = b, x.kind # "load", y.by = b, y.kind # "load"
            PROVE  x = y /\ ed'[b].applying
        <5>1. x \in calls /\ y \in calls
          BY <4>2, <3>4
        <5>2. x = y /\ ed[b].applying
          BY <4>2, <5>1 DEF BrowserOK, Single
        <5>3. ed[b] # None
          BY <4>2, <5>1, <1>t DEF CallOK, Call
        <5>4. QED
          BY <4>2, <5>2, <5>3, <3>2
      <4>3. QED
        BY <4>1, <4>2 DEF Single
    <3>8. CalmOK(b)'
      <4> SUFFICES ASSUME calm[b] PROVE CalmOK(b)'
        BY <2>1 DEF CalmOK
      <4>1. ed[b] = None /\ c.guest = tab[b].guest /\ (c.st = "ok" => c.config = srv[c.guest])
        BY <2>1, <2>5, <1>t DEF CalmCall
      <4>2. ASSUME NEW x \in calls', x.by = b PROVE FALSE
        <5>1. x \in calls /\ x # c
          BY <4>2, <2>3, <1>t
        <5>2. x.kind = "load"
          BY <4>1, <4>2, <5>1, <1>t DEF CallOK, Call
        <5>3. QED
          BY <4>2, <5>1, <5>2, <2>1, <2>5 DEF BrowserOK, CalmOK
      <4>3. ~failed => c.st = "ok"
        BY DEF failed
      <4>4. CalmEditor(b)'
        BY <3>1, <3>2, <3>5, <4>1, <4>3, <2>1 DEF CalmEditor
      <4>5. QED
        BY <4>2, <4>4 DEF CalmOK
    <3>9. QED
      BY <3>6, <3>7, <3>8 DEF BrowserOK
  <2>6. QED
    BY <2>4, <2>5
<1>7. ASSUME NEW a \in Browsers, NEW k, NEW v, setValue(a, k, v) \/ discard(a)
      PROVE  BrowserOK(b)'
  <2>1. UNCHANGED <<srv, tab, calls, calm>> /\ ed[a] # None /\ ed[a] \in EditorState
    BY <1>7, <1>t DEF setValue, discard, Dirty, TypeOK
  <2>2. PICK ch : ed' = [ed EXCEPT ![a] =
                       [ed[a] EXCEPT !.changes = ch, !.error = FALSE, !.conflict = FALSE]]
    <3>1. CASE setValue(a, k, v)
      BY <3>1 DEF setValue
    <3>2. CASE discard(a)
      BY <3>2 DEF discard
    <3>3. QED
      BY <1>7, <3>1, <3>2
  <2>3. CASE a # b
    <3>1. ed'[b] = ed[b]
      BY <2>2, <2>3, <1>t DEF TypeOK
    <3>2. QED
      BY <2>1, <3>1, Untouched
  <2>4. CASE a = b
    <3>1. /\ ed[b] # None /\ ~ed'[b].conflict
          /\ ed'[b].orig = ed[b].orig /\ ed'[b].applying = ed[b].applying
      BY <2>1, <2>2, <2>4, <1>t DEF TypeOK, EditorState
    <3>2. Backed(b)' /\ Single(b)'
      BY <2>1, <3>1 DEF BrowserOK, Backed, Single
    <3>3. calm[b] => \A x \in calls : x.by = b => CalmCall(b, x)'
      BY <2>1, <3>1, <1>t DEF CalmCall
    <3>4. calm[b] => CalmEditor(b)'
      BY <2>1, <3>1 DEF BrowserOK, CalmOK, CalmEditor, Settled
    <3>5. QED
      BY <2>1, <3>2, <3>3, <3>4 DEF BrowserOK, CalmOK
  <2>5. QED
    BY <2>3, <2>4
<1>8. ASSUME NEW a \in Browsers, apply(a) PROVE BrowserOK(b)'
  <2> DEFINE n == [Get(a, tab[a].guest, "put") EXCEPT
                     !.digest = ed[a].digest, !.changes = ed[a].changes, !.saw = ed[a].orig]
  <2>1. /\ UNCHANGED <<srv, tab, calm>> /\ ed[a] # None /\ ed[a] \in EditorState
        /\ ~ed[a].applying /\ calls' = calls \cup {n}
        /\ ed' = [ed EXCEPT ![a] = [ed[a] EXCEPT !.applying = TRUE, !.error = FALSE,
                                                 !.conflict = FALSE]]
    BY <1>8, <1>t DEF apply, Dirty, TypeOK
  <2>2. /\ n.by = a /\ n.kind = "put" /\ n.st = "sent"
        /\ n.guest = tab[a].guest /\ n.saw = ed[a].orig
    BY DEF Get
  <2> HIDE DEF n
  <2>3. CASE a # b
    <3>1. ed'[b] = ed[b]
      BY <2>1, <2>3, <1>t DEF TypeOK
    <3>2. QED
      BY <2>1, <2>2, <2>3, <3>1, Untouched
  <2>4. CASE a = b
    <3>1. /\ ed[b] # None /\ ed'[b] # None /\ ~ed'[b].conflict
          /\ ed'[b].orig = ed[b].orig /\ ed'[b].applying
      BY <2>1, <2>4, <1>t DEF TypeOK, EditorState
    <3>2. ASSUME NEW x \in calls, x.by = b PROVE x.kind = "load"
      BY <2>1, <2>4, <3>2 DEF BrowserOK, Single
    <3>3. Backed(b)'
      BY <2>1, <2>2, <2>4 DEF BrowserOK, Backed
    <3>4. Single(b)'
      BY <2>1, <3>1, <3>2 DEF Single
    <3>5. CalmOK(b)'
      <4> SUFFICES ASSUME calm[b] PROVE CalmOK(b)'
        BY <2>1 DEF CalmOK
      <4>1. \A x \in calls : x.by # b
        BY <3>1, <3>2, <1>t DEF CalmCall
      <4>2. ed[b].orig = srv[tab[b].guest]
        BY <3>1, <4>1 DEF BrowserOK, CalmOK, CalmEditor, Settled
      <4>3. \A x \in {n} : CalmCall(b, x)'
        BY <2>1, <2>2, <2>4, <4>2 DEF CalmCall
      <4>4. CalmEditor(b)'
        BY <2>1, <3>1, <4>2 DEF CalmEditor
      <4>5. QED
        BY <2>1, <4>1, <4>3, <4>4 DEF CalmOK
    <3>6. QED
      BY <3>3, <3>4, <3>5 DEF BrowserOK
  <2>5. QED
    BY <2>3, <2>4
<1>9. ASSUME NEW c \in calls, PutDone(c) PROVE BrowserOK(b)'
  <2> DEFINE n == Get(c.by, c.guest, "reload")
  <2>1. /\ c \in Call /\ c.by \in Browsers /\ c.kind = "put" /\ c.st # "sent"
        /\ ed[c.by] \in EditorState /\ ed[c.by] # None /\ tab[c.by].guest = c.guest
        /\ UNCHANGED <<srv, tab, calm, used>>
    BY <1>9, <1>t DEF PutDone, Call, CallOK
  <2>2. IF c.st = "ok"
        THEN /\ ed' = [ed EXCEPT ![c.by] = [ed[c.by] EXCEPT !.changes = <<>>]]
             /\ calls' = (calls \ {c}) \cup {n}
        ELSE /\ ed' = [ed EXCEPT ![c.by] = Caught(ed[c.by], c)]
             /\ calls' = calls \ {c}
    BY <1>9 DEF PutDone
  <2>3. n.by = c.by /\ n.kind = "reload" /\ n.st = "sent" /\ n.guest = c.guest
    BY DEF Get
  <2> HIDE DEF n
  <2>4. CASE c.by # b
    <3>1. ed'[b] = ed[b]
      BY <2>1, <2>2, <2>4, <1>t DEF TypeOK
    <3>2. QED
      BY <2>1, <2>2, <2>3, <2>4, <3>1, Untouched
  <2>5. CASE c.by = b
    <3>1. \A x \in calls : x.by = b /\ x # c => x.kind = "load" /\ ~calm[b]
      BY <2>1, <2>5, <1>t DEF BrowserOK, Single, CalmCall
    <3>2. calm[b] => ~ed[b].conflict /\ c.st # "conflict"
      BY <2>1, <2>5, <1>t DEF BrowserOK, CalmOK, CalmEditor, CalmCall
    <3>3. CASE c.st = "ok"
      <4>1. /\ ed'[b].applying = ed[b].applying /\ ed'[b].conflict = ed[b].conflict
            /\ ed[b].applying /\ calls' = (calls \ {c}) \cup {n}
        BY <2>1, <2>2, <2>5, <3>3, <1>t DEF TypeOK, EditorState, BrowserOK, Single
      <4>2. Backed(b)'
        BY <2>1, <2>3, <2>5, <4>1 DEF BrowserOK, Backed
      <4>3. Single(b)'
        BY <3>1, <4>1 DEF Single
      <4>4. \A x \in {n} : CalmCall(b, x)'
        BY <2>3 DEF CalmCall
      <4>5. calm[b] => CalmEditor(b)'
        BY <2>3, <2>5, <3>2, <4>1 DEF CalmEditor, Settled
      <4>6. CalmOK(b)'
        BY <2>1, <3>1, <4>1, <4>4, <4>5 DEF CalmOK
      <4>7. QED
        BY <4>2, <4>3, <4>6 DEF BrowserOK
    <3>4. CASE c.st # "ok"
      <4>1. /\ ~ed'[b].applying /\ (ed'[b].conflict => c.st = "conflict")
            /\ ed'[b].orig = ed[b].orig /\ calls' = calls \ {c}
        <5>1. /\ ~Caught(ed[b], c).applying /\ Caught(ed[b], c).orig = ed[b].orig
              /\ Caught(ed[b], c).conflict => c.st = "conflict"
          BY <2>1, <2>5 DEF EditorState, Caught
        <5>2. ed'[b] = Caught(ed[b], c) /\ calls' = calls \ {c}
          BY <2>1, <2>2, <2>5, <3>4, <1>t DEF TypeOK
        <5>3. QED
          BY <5>1, <5>2
      <4>2. Backed(b)'
        BY <2>1, <4>1 DEF BrowserOK, Backed
      <4>3. Single(b)'
        BY <3>1, <4>1 DEF Single
      <4>4. calm[b] => ed[b].orig = srv[tab[b].guest]
        BY <2>1, <2>5, <3>1, <3>4 DEF BrowserOK, CalmOK, CalmEditor, Settled
      <4>5. calm[b] => CalmEditor(b)'
        BY <2>1, <3>2, <4>1, <4>4 DEF CalmEditor
      <4>6. CalmOK(b)'
        BY <2>1, <3>1, <4>1, <4>5 DEF CalmOK
      <4>7. QED
        BY <4>2, <4>3, <4>6 DEF BrowserOK
    <3>5. QED
      BY <3>3, <3>4
  <2>6. QED
    BY <2>4, <2>5
<1>10. ASSUME NEW c \in calls, ReloadDone(c) PROVE BrowserOK(b)'
  <2>1. /\ c \in Call /\ c.by \in Browsers /\ c.kind = "reload" /\ c.st # "sent"
        /\ ed[c.by] \in EditorState /\ ed[c.by] # None /\ tab[c.by].guest = c.guest
        /\ UNCHANGED <<srv, tab, calm, used>> /\ calls' = calls \ {c}
        /\ ed' = [ed EXCEPT ![c.by] =
                    IF c.st = "ok" THEN Adopt(ed[c.by], c) ELSE Caught(ed[c.by], c)]
    BY <1>10, <1>t DEF ReloadDone, Call, CallOK
  <2>2. CASE c.by # b
    <3>1. ed'[b] = ed[b]
      BY <2>1, <2>2, <1>t DEF TypeOK
    <3>2. QED
      BY <2>1, <2>2, <3>1, Untouched
  <2>3. CASE c.by = b
    <3>1. \A x \in calls : x.by = b /\ x # c => x.kind = "load" /\ ~calm[b]
      BY <2>1, <2>3, <1>t DEF BrowserOK, Single, CalmCall
    <3>2. calm[b] => ~ed[b].conflict /\ c.st = "ok" /\ c.config = srv[c.guest]
      BY <2>1, <2>3, <1>t DEF BrowserOK, CalmOK, CalmEditor, CalmCall
    <3>3. /\ ~ed'[b].applying
          /\ c.st = "ok" => ed'[b].orig = c.config /\ ed'[b].conflict = ed[b].conflict
      BY <2>1, <2>3, <1>t DEF TypeOK, EditorState, Adopt, Caught
    <3>4. Backed(b)'
      BY <2>1, <3>3 DEF BrowserOK, Backed
    <3>5. Single(b)'
      BY <2>1, <3>1 DEF Single
    <3>6. calm[b] => CalmEditor(b)'
      BY <2>1, <2>3, <3>2, <3>3 DEF CalmEditor
    <3>7. CalmOK(b)'
      BY <2>1, <3>1, <3>6 DEF CalmOK
    <3>8. QED
      BY <3>4, <3>5, <3>7 DEF BrowserOK
  <2>4. QED
    BY <2>2, <2>3
<1>11. CASE UNCHANGED vars
  BY <1>11, Untouched DEF vars
<1>12. QED
  BY <1>1, <1>2, <1>3, <1>4, <1>5, <1>6, <1>7, <1>8, <1>9, <1>10, <1>11
  DEF Next, HardwareSection, OptionsSection

(* What is said of a browser holds throughout.                             *)
LEMMA BrowsersOK == Spec => [](\A b \in Browsers : BrowserOK(b))
<1>1. Init => \A b \in Browsers : BrowserOK(b)
  BY DEF Init, Closed, BrowserOK, Backed, Single, CalmOK, CalmEditor
<1>2. TypeInv /\ (\A b \in Browsers : BrowserOK(b)) /\ [Next]_vars
         => (\A b \in Browsers : BrowserOK(b))'
  BY BrowserStep
<1>3. QED
  BY <1>1, <1>2, TypeInvariant, PTL DEF Spec

(* "Loading configuration..." and "Applying..." are shown only while a     *)
(* request is under way whose answer takes them away.                      *)
THEOREM BusyCorrect == Spec => []BusyBacked
<1>1. (\A b \in Browsers : BrowserOK(b)) => BusyBacked
  BY DEF BrowserOK, Backed, BusyBacked
<1>2. QED
  BY <1>1, BrowsersOK, PTL

(* An editor reports a conflict only if somebody else has written or a     *)
(* request of its own has failed or was for another guest: after apply it  *)
(* goes on with the digest of what it has written itself.                  *)
THEOREM ConflictCorrect == Spec => []NoFalseConflict
<1>1. (\A b \in Browsers : BrowserOK(b)) => NoFalseConflict
  BY DEF BrowserOK, CalmOK, CalmEditor, NoFalseConflict
<1>2. QED
  BY <1>1, BrowsersOK, PTL
=============================================================================
