----------------------------- MODULE TagRegistry -----------------------------
(* What the release tags of one prefix promise (README, "release"): numbers  *)
(* are given out in order, a commit gets at most one, and a tag is only ever *)
(* added.                                                                    *)
EXTENDS Naturals

CONSTANTS Commits, NoCommit, Last

VARIABLE tag   \* tag[n]: the commit that carries number n at the fork

Numbers == 0..Last

Init == tag = [n \in Numbers |-> NoCommit]

Publish(c) ==
  \E n \in Numbers :
    /\ tag[n] = NoCommit
    /\ \A m \in Numbers : m < n => tag[m] # NoCommit
    /\ \A m \in Numbers : tag[m] # c
    /\ tag' = [tag EXCEPT ![n] = c]

Spec == Init /\ [][\E c \in Commits : Publish(c)]_tag
=============================================================================
