------------------------------ MODULE MCAlarms ------------------------------
EXTENDS Alarms, TLC

CONSTANT r1

(* An alarm on a high value, and one on a low value that waits for nothing.*)
MCRules ==
    {[condition |-> "above", warning |-> 2, critical |-> 3, clear |-> 1, duration |-> 2],
     [condition |-> "below", warning |-> 2, critical |-> 2, clear |-> 3, duration |-> 1]}
=============================================================================
