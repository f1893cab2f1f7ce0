-------------------------- MODULE BranchPushProofs ---------------------------
(* Theorems about BranchPush, for any jobs and any number of other people's  *)
(* changes: with force-with-lease the jobs implement the shared branch.      *)
EXTENDS BranchPush, TLAPS

\* The operations on heads return heads.
LEMMA HeadOperations ==
  ASSUME NEW h \in Heads
  PROVE  /\ \A c \in Jobs \cup Others : Append(h, c) \in Heads /\ <<c>> \o h \in Heads
         /\ h # <<>> => Front(h) \in Heads
  BY DEF Heads, Front

\* Every reachable state is well typed.
THEOREM PushTypes == Spec => []TypeOK
<1> USE DEF TypeOK, Pcs, Working
<1>1. Init => TypeOK
  BY DEF Init, Heads
<1>2. TypeOK /\ [Next]_vars => TypeOK'
  <2> SUFFICES ASSUME TypeOK, [Next]_vars PROVE TypeOK'
    OBVIOUS
  <2>1. ASSUME NEW j \in Jobs, Prepare(j) PROVE TypeOK'
    BY <2>1 DEF Prepare, Goto
  <2>2. ASSUME NEW j \in Jobs, Build(j) PROVE TypeOK'
    <3>1. <<j>> \o base[j] \in Heads /\ Append(base[j], j) \in Heads
      BY HeadOperations
    <3>2. cand' \in [Jobs -> Heads]
      BY <2>2, <3>1 DEF Build
    <3> QED
      BY <2>2, <3>2 DEF Build, Goto
  <2>3. ASSUME NEW j \in Jobs, PushReviewed(j) PROVE TypeOK'
    BY <2>3 DEF PushReviewed, Goto
  <2>4. ASSUME NEW j \in Jobs, PushFails(j) PROVE pc' \in [Jobs -> Pcs]
    BY <2>4 DEF PushFails, Goto
  <2>5. ASSUME NEW j \in Jobs, List(j) PROVE TypeOK'
    BY <2>4, <2>5 DEF List, Goto
  <2>6. ASSUME NEW j \in Jobs, Push(j) PROVE TypeOK'
    BY <2>4, <2>6 DEF Push, Goto
  <2>7. ASSUME NEW j \in Jobs, Record(j) PROVE TypeOK'
    BY <2>7 DEF Record, Goto
  <2>8. ASSUME NEW j \in Jobs, Tag(j) PROVE TypeOK'
    BY <2>4, <2>8 DEF Tag, Goto
  <2>9. CASE Restart
    BY <2>9 DEF Restart
  <2>10. CASE OtherRewind \/ \E o \in Others : OtherPush(o)
    BY <2>10, HeadOperations DEF OtherRewind, OtherPush, jobVars
  <2>11. CASE UNCHANGED vars
    BY <2>11 DEF vars, jobVars
  <2> QED
    BY <2>1, <2>2, <2>3, <2>5, <2>6, <2>7, <2>8, <2>9, <2>10, <2>11 DEF Next, Step
<1> QED
  BY <1>1, <1>2, PTL DEF Spec

-----------------------------------------------------------------------------
(* Before its push a job's lease is its base and its candidate is made from *)
(* the base.                                                                *)

\* The lease and the candidate stay those of the base a job was prepared from.
LEMMA LeaseIsBase == Spec => []LeaseInv
<1>1. Init => LeaseInv
  BY DEF Init, LeaseInv, Built
<1>2. TypeOK /\ LeaseInv /\ [Next]_vars => LeaseInv'
  <2> SUFFICES ASSUME TypeOK, LeaseInv, [Next]_vars PROVE LeaseInv'
    OBVIOUS
  <2> USE DEF TypeOK, LeaseInv, Goto, Built
  <2>1. ASSUME NEW j \in Jobs, Prepare(j) PROVE LeaseInv'
    BY <2>1 DEF Prepare
  <2>2. ASSUME NEW j \in Jobs, Build(j) PROVE LeaseInv'
    BY <2>2 DEF Build, Fork!Integrated
  <2>3. ASSUME NEW j \in Jobs, PushReviewed(j) PROVE LeaseInv'
    BY <2>3 DEF PushReviewed
  <2>4. ASSUME NEW j \in Jobs, List(j) PROVE LeaseInv'
    BY <2>4 DEF List, PushFails
  <2>5. ASSUME NEW j \in Jobs, Push(j) PROVE LeaseInv'
    BY <2>5 DEF Push, PushFails
  <2>6. ASSUME NEW j \in Jobs, Record(j) PROVE LeaseInv'
    BY <2>6 DEF Record
  <2>7. ASSUME NEW j \in Jobs, Tag(j) PROVE LeaseInv'
    BY <2>7 DEF Tag, PushFails
  <2>8. CASE Restart
    BY <2>8 DEF Restart
  <2>9. CASE OtherRewind \/ (\E o \in Others : OtherPush(o)) \/ UNCHANGED vars
    BY <2>9 DEF OtherRewind, OtherPush, jobVars, vars
  <2> QED
    BY <2>1, <2>2, <2>3, <2>4, <2>5, <2>6, <2>7, <2>8, <2>9 DEF Next, Step
<1> QED
  BY <1>1, <1>2, PushTypes, PTL DEF Spec

\* With force-with-lease every change a job makes to the fork's branch is the
\* integration of the head that is there at that moment: nothing of other
\* people is lost, and nothing they have withdrawn comes back.
THEOREM ForkImplemented ==
  ASSUME Lease
  PROVE  Spec => ImplementsFork
<1>1. Init => Fork!Init
  BY DEF Init, Fork!Init
<1>2. TypeOK /\ LeaseInv /\ [Next]_vars => [Fork!Next]_remote
  <2> SUFFICES ASSUME TypeOK, LeaseInv, Next, remote' # remote
               PROVE  Fork!Next
    BY DEF vars
  <2>1. ASSUME NEW j \in Jobs, Step(j) PROVE Fork!Integrate(j)
    <3>1. Push(j)
      BY <2>1 DEF Step, Prepare, Build, PushReviewed, List, Record, Tag
    <3>2. pc[j] = "push" /\ Accepts(j) /\ remote' = cand[j]
      BY <3>1 DEF Push
    <3>3. remote = base[j]
      BY <3>2 DEF Accepts, LeaseInv
    <3>4. cand[j] \in Fork!Integrated(base[j], j)
      BY <3>2, <3>3 DEF LeaseInv, Built
    <3> QED
      BY <3>2, <3>3, <3>4 DEF Fork!Integrate
  <2>2. ASSUME NEW o \in Others, OtherPush(o) PROVE Fork!OtherPush(o)
    BY <2>2 DEF OtherPush, Fork!OtherPush, ToSet, Fork!ToSet
  <2>3. CASE OtherRewind
    BY <2>3 DEF OtherRewind, Fork!OtherRewind, Front, Fork!Front, Fork!Next
  <2>4. ~Restart
    BY DEF Restart
  <2> QED
    BY <2>1, <2>2, <2>3, <2>4 DEF Next, Fork!Next
<1> QED
  BY <1>1, <1>2, PushTypes, LeaseIsBase, PTL DEF Spec, ImplementsFork, Fork!Spec

-----------------------------------------------------------------------------
(* Nothing is lost, with or without the lease.                             *)

\* Integrating a job's commit keeps every change of the head.
LEMMA IntegrationKeeps ==
  ASSUME NEW h \in Heads, NEW j \in Jobs, NEW c \in Fork!Integrated(h, j)
  PROVE  ToSet(h) \subseteq ToSet(c)
<1>1. CASE c = Append(h, j)
  BY <1>1 DEF Heads, ToSet
<1>2. CASE c = <<j>> \o h
  <2> SUFFICES ASSUME NEW i \in 1..Len(h) PROVE \E k \in DOMAIN c : c[k] = h[i]
    BY DEF ToSet, Heads
  <2>1. i + 1 \in DOMAIN c /\ c[i + 1] = h[i]
    BY <1>2 DEF Heads
  <2> QED
    BY <2>1
<1> QED
  BY <1>1, <1>2 DEF Fork!Integrated

\* A descendant of a head has every change of the head.
LEMMA DescendantKeeps ==
  ASSUME NEW h \in Heads, NEW c \in Heads, IsPrefix(h, c)
  PROVE  ToSet(h) \subseteq ToSet(c)
<1> SUFFICES ASSUME NEW i \in 1..Len(h) PROVE i \in DOMAIN c /\ c[i] = h[i]
  BY DEF ToSet, Heads
<1>1. i \in 1..Len(c) /\ SubSeq(h, 1, Len(h))[i] = h[i] /\ SubSeq(c, 1, Len(h))[i] = c[i]
  BY DEF IsPrefix, Heads
<1> QED
  BY <1>1 DEF IsPrefix, Heads

\* No push removes a change, whichever way the branch is configured: with a
\* lease because it replaces its own base, without because the fork accepts
\* only descendants of what it has.
THEOREM PushLosesNothing == Spec => NothingLost
<1>1. TypeOK /\ LeaseInv /\ [Next]_vars
        => [\A j \in Jobs : Step(j) => ToSet(remote) \subseteq ToSet(remote')]_vars
  <2> SUFFICES ASSUME TypeOK, LeaseInv, NEW j \in Jobs, Step(j)
               PROVE  ToSet(remote) \subseteq ToSet(remote')
    OBVIOUS
  <2>1. CASE remote' = remote
    BY <2>1
  <2>2. CASE remote' # remote
    <3>1. pc[j] = "push" /\ Accepts(j) /\ remote' = cand[j]
      BY <2>2 DEF Step, Push, Prepare, Build, PushReviewed, List, Record, Tag
    <3>2. cand[j] \in Heads /\ base[j] \in Heads /\ remote \in Heads
      BY DEF TypeOK
    <3>3. CASE remote = recorded[j]
      <4>1. remote = base[j] /\ cand[j] \in Fork!Integrated(base[j], j)
        BY <2>2, <3>1, <3>3 DEF LeaseInv, Built
      <4> QED
        BY <3>1, <3>2, <4>1, IntegrationKeeps
    <3>4. CASE IsPrefix(remote, cand[j])
      BY <3>1, <3>2, <3>4, DescendantKeeps
    <3> QED
      BY <3>1, <3>3, <3>4 DEF Accepts
  <2> QED
    BY <2>1, <2>2
<1> QED
  BY <1>1, PushTypes, LeaseIsBase, PTL DEF Spec, NothingLost

-----------------------------------------------------------------------------
(* What the row names was held.                                            *)

\* What is in a head after the operations on it.
LEMMA HeadContents ==
  ASSUME NEW h \in Heads, NEW c \in Jobs \cup Others
  PROVE  /\ ToSet(Append(h, c)) = ToSet(h) \cup {c}
         /\ ToSet(<<c>> \o h) = ToSet(h) \cup {c}
<1>1. ToSet(Append(h, c)) = ToSet(h) \cup {c}
  BY DEF Heads, ToSet
<1>2. ToSet(<<c>> \o h) = ToSet(h) \cup {c}
  <2> DEFINE s == <<c>> \o h
  <2>1. DOMAIN s = 1..(Len(h) + 1) /\ s[1] = c
    BY DEF Heads
  <2>2. \A i \in 1..Len(h) : i + 1 \in DOMAIN s /\ s[i + 1] = h[i]
    BY DEF Heads
  <2>3. \A i \in DOMAIN s : i = 1 \/ (i - 1 \in 1..Len(h) /\ s[i] = h[i - 1])
    BY DEF Heads
  <2>4. ToSet(s) \subseteq ToSet(h) \cup {c}
    BY <2>1, <2>3 DEF ToSet, Heads
  <2>5. c \in ToSet(s)
    BY <2>1 DEF ToSet, Heads
  <2>6. ToSet(h) \subseteq ToSet(s)
    <3> SUFFICES ASSUME NEW i \in 1..Len(h) PROVE \E k \in DOMAIN s : s[k] = h[i]
      BY DEF ToSet, Heads
    <3> HIDE DEF s
    <3> QED
      BY <2>2
  <2> QED
    BY <2>4, <2>5, <2>6
<1> QED
  BY <1>1, <1>2

\* A rewound head has nothing new.
LEMMA FrontContents ==
  ASSUME NEW h \in Heads, h # <<>>
  PROVE  ToSet(Front(h)) \subseteq ToSet(h)
<1>1. DOMAIN Front(h) = 1..(Len(h) - 1) /\ \A i \in DOMAIN Front(h) : i \in DOMAIN h /\ Front(h)[i] = h[i]
  BY DEF Heads, Front
<1> QED
  BY <1>1 DEF ToSet

\* Whatever answers were lost, the row names a candidate as the fork's head only when the
\* fork has had it, provided that a commit of a job is not also one of other people.
THEOREM RecordedHeld ==
  ASSUME Jobs \cap Others = {}
  PROVE  Spec => []RecordedWasHeld
<1>1. Init => HeldInv
  BY DEF Init, HeldInv, Built, ToSet
<1>2. TypeOK /\ LeaseInv /\ HeldInv /\ [Next]_vars => HeldInv'
  <2> SUFFICES ASSUME TypeOK, LeaseInv, HeldInv, [Next]_vars PROVE HeldInv'
    OBVIOUS
  <2> USE DEF TypeOK, HeldInv, Goto, Built
  <2>1. ASSUME NEW j \in Jobs, Prepare(j) PROVE HeldInv'
    BY <2>1 DEF Prepare
  <2>2. ASSUME NEW j \in Jobs, Build(j) PROVE HeldInv'
    <3>1. base[j] \in Heads /\ recorded[j] = base[j] /\ pc[j] = "build"
      BY <2>2 DEF Build, LeaseInv
    <3>2. ASSUME cand' = [cand EXCEPT ![j] = IF Rebase THEN <<j>> \o base[j] ELSE Append(base[j], j)],
                 held' = held
          PROVE  HeldInv'
      <4>1. ToSet(cand'[j]) = ToSet(base[j]) \cup {j}
        BY <3>1, <3>2, HeadContents
      <4>2. j \notin held => cand'[j] # base[j]
        BY <3>1, <4>1
      <4>3. \A k \in Jobs \ {j} : cand'[k] = cand[k] /\ pc'[k] = pc[k]
        BY <2>2, <3>2 DEF Build
      <4>4. pc'[j] \in {"list", "waiting_push"} /\ UNCHANGED <<remote, base, recorded>>
        BY <2>2 DEF Build
      <4> QED
        BY <3>1, <3>2, <4>1, <4>2, <4>3, <4>4
    <3>3. ASSUME cand' = [cand EXCEPT ![j] = base[j]], held' = held \cup {j}
          PROVE  HeldInv'
      <4>1. cand'[j] = base[j] /\ \A k \in Jobs \ {j} : cand'[k] = cand[k] /\ pc'[k] = pc[k]
        BY <2>2, <3>3 DEF Build
      <4>2. pc'[j] \in {"list", "waiting_push"} /\ UNCHANGED <<remote, base, recorded>>
        BY <2>2 DEF Build
      <4> QED
        BY <3>1, <3>3, <4>1, <4>2
    <3> QED
      BY <2>2, <3>2, <3>3 DEF Build
  <2>3. ASSUME NEW j \in Jobs, PushReviewed(j) PROVE HeldInv'
    BY <2>3 DEF PushReviewed
  <2>4. ASSUME NEW j \in Jobs, List(j) PROVE HeldInv'
    BY <2>4 DEF List, PushFails
  <2>5. ASSUME NEW j \in Jobs, Push(j) PROVE HeldInv'
    BY <2>5 DEF Push, PushFails
  <2>6. ASSUME NEW j \in Jobs, Record(j) PROVE HeldInv'
    BY <2>6 DEF Record
  <2>7. ASSUME NEW j \in Jobs, Tag(j) PROVE HeldInv'
    BY <2>7 DEF Tag, PushFails
  <2>8. CASE Restart
    BY <2>8 DEF Restart
  <2>9. CASE OtherRewind
    <3>1. ToSet(remote') \subseteq ToSet(remote)
      BY <2>9, FrontContents DEF OtherRewind
    <3> QED
      BY <2>9, <3>1 DEF OtherRewind, jobVars
  <2>10. ASSUME NEW o \in Others, OtherPush(o) PROVE HeldInv'
    <3>1. ToSet(remote') = ToSet(remote) \cup {o} /\ o \notin Jobs
      BY <2>10, HeadContents DEF OtherPush
    <3> QED
      BY <2>10, <3>1 DEF OtherPush, jobVars
  <2>11. CASE UNCHANGED vars
    BY <2>11 DEF vars, jobVars
  <2> QED
    BY <2>1, <2>2, <2>3, <2>4, <2>5, <2>6, <2>7, <2>8, <2>9, <2>10, <2>11 DEF Next, Step
<1>3. HeldInv => RecordedWasHeld
  BY DEF HeldInv, RecordedWasHeld
<1> QED
  BY <1>1, <1>2, <1>3, PushTypes, LeaseIsBase, PTL DEF Spec
=============================================================================
