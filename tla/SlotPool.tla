------------------------------- MODULE SlotPool -------------------------------
(***************************************************************************)
(* What the admission gate of the gateway promises, with its queue and its *)
(* wake-ups hidden: a pool of MaxConcurrent slots.  A caller takes a free  *)
(* slot, gives its slot back, or passes it straight on to another caller.  *)
(***************************************************************************)
EXTENDS Naturals, FiniteSets

CONSTANTS Callers, MaxConcurrent

VARIABLE inUse   \* the callers a slot is reserved for

Init == inUse = {}

Take(c) ==
    /\ c \notin inUse
    /\ Cardinality(inUse) < MaxConcurrent
    /\ inUse' = inUse \cup {c}

Give(c) ==
    /\ c \in inUse
    /\ inUse' = inUse \ {c}

\* The slot goes to a waiter without ever being free in between, so that a
\* newcomer cannot overtake the waiter.
PassOn(c, d) ==
    /\ c \in inUse
    /\ d \notin inUse
    /\ inUse' = (inUse \ {c}) \cup {d}

Next ==
    \/ \E c \in Callers : Take(c) \/ Give(c)
    \/ \E c, d \in Callers : PassOn(c, d)

Spec == Init /\ [][Next]_inUse
===============================================================================
