-------------------------------- MODULE Ledger --------------------------------
(***************************************************************************)
(* What the audit log promises those who read it, with its queue, its      *)
(* writer and its processes hidden: of the records offered to it, in this  *)
(* order, it keeps some for good.                                          *)
(***************************************************************************)
EXTENDS Naturals, Sequences

VARIABLES
    offered,    \* the number of records offered so far
    log         \* the records kept, oldest first

ledgerVars == <<offered, log>>

Init == offered = 0 /\ log = <<>>

Offer == offered' = offered + 1 /\ UNCHANGED log

\* A record is kept behind all those offered before it, or never.
Keep(r) ==
    /\ r \in 1..offered
    /\ \A i \in DOMAIN log : log[i] < r
    /\ log' = Append(log, r) /\ UNCHANGED offered

Next == Offer \/ \E r \in 1..offered : Keep(r)

Spec == Init /\ [][Next]_ledgerVars
===============================================================================
