------------------------- MODULE OptimisticRegister -------------------------
(***************************************************************************)
(* What editing a configuration promises: a write names the configuration  *)
(* its author was looking at and the one it is to become, and takes effect *)
(* only while the first is still in force.  Others may write at any time.  *)
(***************************************************************************)
CONSTANTS
    Registers,   \* the configurations there are
    Values,      \* what one can hold
    Writes       \* writes: which register, from which value, to which value

VARIABLES
    value,       \* per register, the configuration in force
    asked        \* writes asked for and not yet decided

vars == <<value, asked>>

Init ==
    /\ value \in [Registers -> Values]
    /\ asked = {}

Ask(w) ==
    /\ w \notin asked
    /\ asked' = asked \cup {w}
    /\ UNCHANGED value

Commit(w) ==
    /\ w \in asked /\ value[w.register] = w.from
    /\ value' = [value EXCEPT ![w.register] = w.to]
    /\ asked' = asked \ {w}

Refuse(w) ==
    /\ w \in asked
    /\ asked' = asked \ {w}
    /\ UNCHANGED value

Overwrite(r, v) ==
    /\ value' = [value EXCEPT ![r] = v]
    /\ UNCHANGED asked

Next ==
    \/ \E w \in Writes : Ask(w)
    \/ \E w \in asked : Commit(w) \/ Refuse(w)
    \/ \E r \in Registers, v \in Values : Overwrite(r, v)

Spec == Init /\ [][Next]_vars
=============================================================================
