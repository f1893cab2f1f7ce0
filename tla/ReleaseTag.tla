----------------------------- MODULE ReleaseTag ------------------------------
(***************************************************************************)
(* ensure_release_tag, run by any number of publishers on one fork.        *)
(*                                                                         *)
(* A publisher is a worker of the service or a `termite sync` command that *)
(* has just pushed a branch.  It lists the tags at the fork, gives its     *)
(* HEAD the next number unless HEAD has one, and pushes; nothing keeps two *)
(* publishers from choosing one number.  The fork refuses to move a tag.   *)
(* People push tags of the same prefix by hand, in order or (Foreign) not. *)
(***************************************************************************)
EXTENDS Naturals

CONSTANTS Publishers,
          Commits,
          NoCommit,
          Last,       \* the largest number: u64::MAX, where the count saturates
          Attempts,   \* MAX_TAG_PUSH_ATTEMPTS
          Foreign     \* numbers somebody may tag by hand out of order

ASSUME LastAssumption == Last \in Nat
ASSUME AttemptsAssumption == Attempts \in Nat \ {0}
ASSUME ForeignAssumption == Foreign \subseteq 0..Last
ASSUME NoCommitAssumption == NoCommit \notin Commits

VARIABLES
  tag,      \* tag[n]: the commit with number n at the fork, annotated or not
  pc,       \* pc[p]: the next step of a publisher, or how it ended
  head,     \* head[p]: its HEAD
  number,   \* number[p]: the number it has chosen
  attempt   \* attempt[p]: rounds of the loop it has completed

vars == <<tag, pc, head, number, attempt>>

Numbers == 0..Last
Pcs == {"idle", "list", "push", "check", "tagged", "failed"}

Used == {n \in Numbers : tag[n] # NoCommit}
HasTag(c) == \E n \in Numbers : tag[n] = c

Init ==
  /\ tag = [n \in Numbers |-> NoCommit]
  /\ pc = [p \in Publishers |-> "idle"]
  /\ head = [p \in Publishers |-> NoCommit]
  /\ number = [p \in Publishers |-> 0]
  /\ attempt = [p \in Publishers |-> 0]

\* A branch has been pushed, or a failed publication is retried.
Start(p, c) ==
  /\ pc[p] \in {"idle", "tagged", "failed"}
  /\ pc' = [pc EXCEPT ![p] = "list"]
  /\ head' = [head EXCEPT ![p] = c]
  /\ number' = [number EXCEPT ![p] = 0]
  /\ attempt' = [attempt EXCEPT ![p] = 0]
  /\ UNCHANGED tag

\* Mutant: the first number is 1.
IsNextFromOne(n) ==
  /\ (n = 1 /\ Used = {}) \/ n - 1 \in Used \/ (n = Last /\ n \in Used)
  /\ \A m \in Used : m < n \/ n = Last

\* next_release_tag: one more than the largest number, saturating.
IsNext(n) ==
  /\ n = 0 \/ n - 1 \in Used \/ (n = Last /\ n \in Used)
  /\ \A m \in Used : m < n \/ n = Last

\* Mutant: HEAD's own tag is not looked for.
ListAlways(p) ==
  /\ pc[p] = "list"
  /\ \E n \in Numbers : IsNext(n) /\ number' = [number EXCEPT ![p] = n]
  /\ pc' = [pc EXCEPT ![p] = "push"]
  /\ UNCHANGED <<tag, head, attempt>>

\* remote_release_tags, then the early return or the choice of a number.
List(p) ==
  /\ pc[p] = "list"
  /\ \/ /\ HasTag(head[p])
        /\ pc' = [pc EXCEPT ![p] = "tagged"]
        /\ UNCHANGED number
     \/ /\ ~HasTag(head[p])
        /\ \E n \in Numbers : IsNext(n) /\ number' = [number EXCEPT ![p] = n]
        /\ pc' = [pc EXCEPT ![p] = "push"]
     \/ pc' = [pc EXCEPT ![p] = "failed"] /\ UNCHANGED number
  /\ UNCHANGED <<tag, head, attempt>>

\* git push HEAD:refs/tags/n.  A new tag is created even when the answer is
\* lost; an existing one is never moved, and is an error unless it is HEAD's.
Push(p) ==
  /\ pc[p] = "push"
  /\ \/ /\ tag[number[p]] = NoCommit
        /\ tag' = [tag EXCEPT ![number[p]] = head[p]]
        /\ \E q \in {"tagged", "check", "failed"} : pc' = [pc EXCEPT ![p] = q]
     \/ /\ tag[number[p]] = head[p]
        /\ pc' = [pc EXCEPT ![p] = "tagged"]
        /\ UNCHANGED tag
     \/ /\ \E q \in {"check", "failed"} : pc' = [pc EXCEPT ![p] = q]
        /\ UNCHANGED tag
  /\ UNCHANGED <<head, number, attempt>>

\* Mutant: a number that exists by now is taken for one's own.
CheckTrusting(p) ==
  /\ pc[p] = "check"
  /\ pc' = [pc EXCEPT ![p] = IF number[p] \in Used THEN "tagged" ELSE "failed"]
  /\ UNCHANGED <<tag, head, number, attempt>>

\* Mutant: the rounds are not counted.
CheckForever(p) ==
  /\ pc[p] = "check"
  /\ pc' = [pc EXCEPT ![p] = IF number[p] \in Used THEN "list" ELSE "failed"]
  /\ UNCHANGED <<tag, head, number, attempt>>

\* The tags are listed again: if the number has been taken, by whomever, the
\* next round starts, unless this was the last.
Check(p) ==
  /\ pc[p] = "check"
  /\ \/ /\ number[p] \in Used
        /\ attempt[p] + 1 < Attempts
        /\ pc' = [pc EXCEPT ![p] = "list"]
        /\ attempt' = [attempt EXCEPT ![p] = @ + 1]
     \/ pc' = [pc EXCEPT ![p] = "failed"] /\ UNCHANGED attempt
  /\ UNCHANGED <<tag, head, number>>

Step(p) == List(p) \/ Push(p) \/ Check(p)

\* Somebody tags a commit by hand: an untagged one with the first free number,
\* or any with a number of Foreign.
TagByHand(n, c) ==
  /\ tag[n] = NoCommit
  /\ n \in Foreign \/ (~HasTag(c) /\ \A m \in Numbers : m < n => m \in Used)
  /\ tag' = [tag EXCEPT ![n] = c]
  /\ UNCHANGED <<pc, head, number, attempt>>

Next ==
  \/ \E p \in Publishers : Step(p) \/ \E c \in Commits : Start(p, c)
  \/ \E n \in Numbers, c \in Commits : TagByHand(n, c)

Spec == Init /\ [][Next]_vars
FairSpec == Spec /\ \A p \in Publishers : WF_vars(Step(p))

-----------------------------------------------------------------------------
TypeOK ==
  /\ tag \in [Numbers -> Commits \cup {NoCommit}]
  /\ pc \in [Publishers -> Pcs]
  /\ head \in [Publishers -> Commits \cup {NoCommit}]
  /\ number \in [Publishers -> Numbers]
  /\ attempt \in [Publishers -> 0..Attempts - 1]
  /\ \A p \in Publishers : pc[p] # "idle" => head[p] \in Commits

\* "A commit that has a tag of the prefix is not published again" (README):
\* whatever the publishers race for, no commit gets two numbers, if Foreign
\* is empty.
OneTagPerCommit ==
  \A m, n \in Used : tag[m] = tag[n] => m = n

\* "Tags are only added, never overwritten" (README).
TagsOnlyAdded == [][\A n \in Used : tag'[n] = tag[n]]_vars

\* A publication reported as done, or as not needed, leaves HEAD tagged, also
\* when the push was answered by an error and found by the next round.
TaggedMeansPublished == \A p \in Publishers : pc[p] = "tagged" => HasTag(head[p])

\* A publisher always ends, even when the numbers are used up and every push
\* is refused.
PublisherEnds ==
  \A p \in Publishers : pc[p] = "list" ~> pc[p] \in {"tagged", "failed"}

\* The publishers together implement the registry, if Foreign is empty.
Registry == INSTANCE TagRegistry
ImplementsRegistry == Registry!Spec

\* Why: the numbers in use have no gap, and a publisher about to push knows
\* that every number below its own is taken, and not by its HEAD.
NoGaps == \A n \in Used, m \in Numbers : m < n => m \in Used
PushersKnow ==
  \A p \in Publishers : pc[p] = "push" =>
    \A m \in Numbers : m < number[p] => tag[m] \notin {NoCommit, head[p]}
TagInv == NoGaps /\ PushersKnow /\ OneTagPerCommit

=============================================================================
