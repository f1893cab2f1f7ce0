-------------------------- MODULE ReleaseTagProofs ---------------------------
(* Theorems about ReleaseTag, for any number of publishers and commits: tags *)
(* are only added and a reported publication is at the fork; if people tag   *)
(* in order, a commit gets at most one number and the publishers implement   *)
(* the registry.                                                             *)
EXTENDS ReleaseTag, TLAPS

\* Every reachable state is well typed, with or without tags made by hand.
THEOREM TagTypes == Spec => []TypeOK
<1> USE LastAssumption, AttemptsAssumption, ForeignAssumption DEF TypeOK, Numbers, Pcs
<1>1. Init => TypeOK
  BY DEF Init
<1>2. TypeOK /\ [Next]_vars => TypeOK'
  <2> SUFFICES ASSUME TypeOK, [Next]_vars PROVE TypeOK'
    OBVIOUS
  <2>1. ASSUME NEW p \in Publishers, NEW c \in Commits, Start(p, c) PROVE TypeOK'
    BY <2>1 DEF Start
  <2>2. ASSUME NEW p \in Publishers, List(p) PROVE TypeOK'
    BY <2>2 DEF List
  <2>3. ASSUME NEW p \in Publishers, Push(p) PROVE TypeOK'
    BY <2>3 DEF Push
  <2>4. ASSUME NEW p \in Publishers, Check(p) PROVE TypeOK'
    <3>1. attempt[p] + 1 < Attempts => attempt[p] + 1 \in 0..Attempts - 1
      OBVIOUS
    <3>2. attempt' \in [Publishers -> 0..Attempts - 1]
      BY <2>4, <3>1 DEF Check
    <3> QED
      BY <2>4, <3>2 DEF Check
  <2>5. ASSUME NEW n \in Numbers, NEW c \in Commits, TagByHand(n, c) PROVE TypeOK'
    BY <2>5 DEF TagByHand
  <2>6. CASE UNCHANGED vars
    BY <2>6 DEF vars
  <2> QED
    BY <2>1, <2>2, <2>3, <2>4, <2>5, <2>6 DEF Next, Step
<1> QED
  BY <1>1, <1>2, PTL DEF Spec

\* Tags are only ever added, whoever pushes them.
THEOREM OnlyAdded == Spec => TagsOnlyAdded
<1>1. TypeOK /\ [Next]_vars => [\A n \in Used : tag'[n] = tag[n]]_vars
  <2> SUFFICES ASSUME TypeOK, Next PROVE \A n \in Used : tag'[n] = tag[n]
    OBVIOUS
  <2> USE DEF Used, TypeOK
  <2>1. ASSUME NEW p \in Publishers, Push(p) PROVE \A n \in Used : tag'[n] = tag[n]
    BY <2>1, NoCommitAssumption DEF Push
  <2>2. ASSUME NEW n \in Numbers, NEW c \in Commits, TagByHand(n, c)
        PROVE  \A m \in Used : tag'[m] = tag[m]
    BY <2>2 DEF TagByHand
  <2>3. ASSUME NEW p \in Publishers, List(p) \/ Check(p) \/ \E c \in Commits : Start(p, c)
        PROVE  \A n \in Used : tag'[n] = tag[n]
    BY <2>3 DEF List, Check, Start
  <2> QED
    BY <2>1, <2>2, <2>3 DEF Next, Step
<1> QED
  BY <1>1, TagTypes, PTL DEF Spec, TagsOnlyAdded

\* A publisher that reports success, or that there is nothing to do, leaves its
\* HEAD tagged, whoever else pushes tags.
THEOREM TaggedIsPublished == Spec => []TaggedMeansPublished
<1>1. Init => TaggedMeansPublished
  BY DEF Init, TaggedMeansPublished
<1>2. TypeOK /\ TaggedMeansPublished /\ [Next]_vars => TaggedMeansPublished'
  <2> SUFFICES ASSUME TypeOK, TaggedMeansPublished, [Next]_vars PROVE TaggedMeansPublished'
    OBVIOUS
  <2> USE DEF TaggedMeansPublished, HasTag, TypeOK
  <2>1. ASSUME NEW p \in Publishers, Push(p) PROVE TaggedMeansPublished'
    <3>1. \A n \in Numbers : tag[n] # NoCommit => tag'[n] = tag[n]
      BY <2>1 DEF Push
    <3>2. \A q \in Publishers : pc[q] = "tagged" => HasTag(head[q])'
      BY <2>1, <3>1, NoCommitAssumption DEF Push
    <3>3. pc'[p] = "tagged" => HasTag(head[p])'
      BY <2>1 DEF Push
    <3> QED
      BY <2>1, <3>2, <3>3 DEF Push
  <2>2. ASSUME NEW n \in Numbers, NEW c \in Commits, TagByHand(n, c) PROVE TaggedMeansPublished'
    BY <2>2, NoCommitAssumption DEF TagByHand
  <2>3. ASSUME NEW p \in Publishers, List(p) \/ Check(p) \/ \E c \in Commits : Start(p, c)
        PROVE  TaggedMeansPublished'
    BY <2>3 DEF List, Check, Start
  <2>4. CASE UNCHANGED vars
    BY <2>4 DEF vars
  <2> QED
    BY <2>1, <2>2, <2>3, <2>4 DEF Next, Step
<1> QED
  BY <1>1, <1>2, TagTypes, PTL DEF Spec

-----------------------------------------------------------------------------
(* If people tag in order.                                                 *)

\* Every number below a chosen one is in use.
LEMMA NextIsFirstFree ==
  ASSUME TypeOK, NoGaps, NEW n \in Numbers, IsNext(n)
  PROVE  \A m \in Numbers : m < n => m \in Used
<1> USE LastAssumption DEF Numbers, NoGaps
<1>1. Used \subseteq Numbers
  BY DEF Used
<1>2. n = 0 \/ n - 1 \in Used \/ n \in Used
  BY DEF IsNext
<1>3. CASE n - 1 \in Used
  <2> SUFFICES ASSUME NEW m \in Numbers, m < n PROVE m \in Used
    OBVIOUS
  <2>1. m = n - 1 \/ m < n - 1
    OBVIOUS
  <2> QED
    BY <1>3, <2>1
<1> QED
  BY <1>2, <1>3

\* Choosing a number makes the publisher know what is below it.
LEMMA ListKeeps ==
  ASSUME TypeOK, TagInv, NEW p \in Publishers, List(p)
  PROVE  TagInv'
<1> USE DEF TagInv
<1>1. tag' = tag /\ head' = head /\ Used' = Used
  BY DEF List, Used
<1>2. NoGaps' /\ OneTagPerCommit'
  BY <1>1 DEF NoGaps, OneTagPerCommit
<1>3. PushersKnow'
  <2> SUFFICES ASSUME NEW q \in Publishers, pc'[q] = "push",
                      NEW m \in Numbers, m < number'[q]
               PROVE  tag[m] \notin {NoCommit, head[q]}
    BY <1>1 DEF PushersKnow
  <2>1. CASE q # p
    BY <2>1 DEF PushersKnow, List, TypeOK
  <2>2. CASE q = p
    <3>1. PICK n \in Numbers : IsNext(n) /\ number'[p] = n /\ ~HasTag(head[p])
      BY <2>2 DEF List, TypeOK
    <3>2. m \in Used
      BY <2>2, <3>1, NextIsFirstFree
    <3> QED
      BY <2>2, <3>1, <3>2 DEF HasTag, Used
  <2> QED
    BY <2>1, <2>2
<1> QED
  BY <1>2, <1>3

\* A push that creates a tag takes the first free number, for a commit that
\* has none.
LEMMA PushCreates ==
  ASSUME TypeOK, TagInv, NEW p \in Publishers, pc[p] = "push", tag[number[p]] = NoCommit
  PROVE  /\ number[p] \in Numbers /\ head[p] \in Commits
         /\ \A m \in Numbers : m < number[p] => tag[m] # NoCommit
         /\ \A m \in Numbers : tag[m] # head[p]
<1> USE LastAssumption, NoCommitAssumption DEF TagInv, TypeOK, Numbers
<1>1. number[p] \in Numbers /\ head[p] \in Commits
  OBVIOUS
<1>2. \A m \in Numbers : m < number[p] => tag[m] # NoCommit /\ tag[m] # head[p]
  BY DEF PushersKnow
<1>3. ASSUME NEW m \in Numbers, tag[m] = head[p] PROVE FALSE
  <2>1. m \in Used
    BY <1>1, <1>3 DEF Used
  <2>2. number[p] \notin Used
    BY DEF Used
  <2>3. m > number[p]
    BY <1>1, <1>2, <1>3, <2>1, <2>2
  <2> QED
    BY <1>1, <2>1, <2>2, <2>3 DEF NoGaps
<1> QED
  BY <1>1, <1>2, <1>3

\* So the push keeps the invariant.
LEMMA PushKeeps ==
  ASSUME TypeOK, TagInv, NEW p \in Publishers, Push(p)
  PROVE  TagInv'
<1> USE LastAssumption, NoCommitAssumption DEF TagInv, TypeOK, Numbers
<1>1. head' = head /\ number' = number /\ pc' \in [Publishers -> Pcs]
      /\ (\A q \in Publishers : pc'[q] = "push" => pc[q] = "push")
  BY DEF Push, Pcs
<1>2. CASE tag' = tag
  BY <1>1, <1>2 DEF NoGaps, PushersKnow, OneTagPerCommit, Used
<1>3. CASE tag[number[p]] = NoCommit /\ tag' = [tag EXCEPT ![number[p]] = head[p]]
  <2>1. /\ number[p] \in Numbers /\ head[p] \in Commits
        /\ \A m \in Numbers : m < number[p] => tag[m] # NoCommit
        /\ \A m \in Numbers : tag[m] # head[p]
    BY <1>3, PushCreates DEF Push
  <2>2. Used' = Used \cup {number[p]}
    BY <1>3, <2>1 DEF Used
  <2>3. NoGaps'
    <3>1. \A m \in Numbers : m < number[p] => m \in Used
      BY <2>1 DEF Used
    <3> QED
      BY <2>2, <3>1 DEF NoGaps
  <2>4. OneTagPerCommit'
    BY <1>3, <2>1, <2>2 DEF OneTagPerCommit, Used
  <2>5. PushersKnow'
    <3> SUFFICES ASSUME NEW q \in Publishers, pc[q] = "push", NEW m \in Numbers, m < number[q]
                 PROVE  tag'[m] \notin {NoCommit, head[q]}
      BY <1>1 DEF PushersKnow
    <3>1. tag[m] \notin {NoCommit, head[q]}
      BY DEF PushersKnow
    <3>2. m # number[p]
      BY <1>3, <3>1
    <3> QED
      BY <1>3, <3>1, <3>2
  <2> QED
    BY <2>3, <2>4, <2>5
<1> QED
  BY <1>2, <1>3 DEF Push

\* A tag made in order by hand keeps it too.
LEMMA HandKeeps ==
  ASSUME TypeOK, TagInv, Foreign = {},
         NEW n \in Numbers, NEW c \in Commits, TagByHand(n, c)
  PROVE  TagInv'
<1> USE LastAssumption, NoCommitAssumption DEF TagInv, TypeOK, Numbers, TagByHand
<1>1. Used' = Used \cup {n}
  BY DEF Used
<1>2. NoGaps'
  BY <1>1 DEF NoGaps
<1>3. OneTagPerCommit'
  BY <1>1 DEF OneTagPerCommit, Used, HasTag
<1>4. PushersKnow'
  <2> SUFFICES ASSUME NEW q \in Publishers, pc[q] = "push", NEW m \in Numbers, m < number[q]
               PROVE  tag'[m] \notin {NoCommit, head[q]}
    BY DEF PushersKnow
  <2>1. tag[m] \notin {NoCommit, head[q]}
    BY DEF PushersKnow
  <2> QED
    BY <2>1
<1> QED
  BY <1>2, <1>3, <1>4

\* The invariant holds throughout.
LEMMA TagInvariant ==
  ASSUME Foreign = {}
  PROVE  Spec => []TagInv
<1>1. Init => TagInv
  BY DEF Init, TagInv, NoGaps, PushersKnow, OneTagPerCommit, Used
<1>2. TypeOK /\ TagInv /\ [Next]_vars => TagInv'
  <2> SUFFICES ASSUME TypeOK, TagInv, [Next]_vars PROVE TagInv'
    OBVIOUS
  <2>1. ASSUME NEW p \in Publishers, Check(p) \/ \E c \in Commits : Start(p, c)
        PROVE  TagInv'
    <3>1. tag' = tag /\ (\A q \in Publishers : pc'[q] = "push" =>
                           pc[q] = "push" /\ head'[q] = head[q] /\ number'[q] = number[q])
      BY <2>1 DEF Check, Start, TypeOK
    <3> QED
      BY <3>1 DEF TagInv, NoGaps, PushersKnow, OneTagPerCommit, Used
  <2>2. CASE UNCHANGED vars
    BY <2>2 DEF vars, TagInv, NoGaps, PushersKnow, OneTagPerCommit, Used
  <2> QED
    BY <2>1, <2>2, ListKeeps, PushKeeps, HandKeeps DEF Next, Step
<1> QED
  BY <1>1, <1>2, TagTypes, PTL DEF Spec

\* However many publishers race, no commit gets two numbers, if people who tag
\* by hand continue the sequence.
THEOREM OneTag ==
  ASSUME Foreign = {}
  PROVE  Spec => []OneTagPerCommit
<1>1. TagInv => OneTagPerCommit
  BY DEF TagInv
<1> QED
  BY <1>1, TagInvariant, PTL

\* The publishers implement the registry: each creation is the registration of
\* an untagged commit under the first free number, and nothing else changes it.
THEOREM RegistryImplemented ==
  ASSUME Foreign = {}
  PROVE  Spec => ImplementsRegistry
<1>1. Init => Registry!Init
  BY DEF Init, Registry!Init, Numbers, Registry!Numbers
<1>2. TypeOK /\ TagInv /\ [Next]_vars => [\E c \in Commits : Registry!Publish(c)]_tag
  <2> SUFFICES ASSUME TypeOK, TagInv, Next, tag' # tag
               PROVE  \E c \in Commits : Registry!Publish(c)
    BY DEF vars
  <2> SUFFICES ASSUME NEW p \in Publishers, Push(p)
               PROVE  \E c \in Commits : Registry!Publish(c)
    <3>1. ASSUME NEW n \in Numbers, NEW c \in Commits, TagByHand(n, c)
          PROVE  Registry!Publish(c)
      BY <3>1 DEF TagByHand, Registry!Publish, Registry!Numbers, Numbers, Used, HasTag
    <3> QED
      BY <3>1 DEF Next, Step, List, Check, Start
  <2>2. tag[number[p]] = NoCommit /\ tag' = [tag EXCEPT ![number[p]] = head[p]]
    BY DEF Push
  <2>3. Registry!Publish(head[p]) /\ head[p] \in Commits
    BY <2>2, PushCreates DEF Push, Registry!Publish, Registry!Numbers, Numbers
  <2> QED
    BY <2>3
<1> QED
  BY <1>1, <1>2, TagTypes, TagInvariant, PTL DEF Spec, ImplementsRegistry, Registry!Spec

=============================================================================
