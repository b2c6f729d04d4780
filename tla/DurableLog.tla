----------------------------- MODULE DurableLog -----------------------------
(***************************************************************************)
(* What the message store promises of one chat: the log only grows, holds  *)
(* what was said and nothing twice, and keeps the messages of each sender  *)
(* in the order in which they were said.  A message may be missing.        *)
(***************************************************************************)
EXTENDS Naturals, SequencesExt

CONSTANT Users

VARIABLES
    said,   \* user -> how many messages it has sent
    log     \* the messages in the store: who said it, and its how manieth

InOrder(l) ==
    \A i, j \in DOMAIN l : i < j /\ l[i].from = l[j].from => l[i].n < l[j].n

Init == said = [u \in Users |-> 0] /\ log = <<>>

Say(u) == said' = [said EXCEPT ![u] = @ + 1] /\ UNCHANGED log

Save ==
    /\ IsStrictPrefix(log, log')
    /\ InOrder(log')
    /\ \A i \in DOMAIN log' : log'[i].n \in 1..said[log'[i].from]
    /\ UNCHANGED said

Next == Save \/ \E u \in Users : Say(u)

Spec == Init /\ [][Next]_<<said, log>>
=============================================================================
