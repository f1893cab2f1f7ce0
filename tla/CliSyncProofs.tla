---------------------------- MODULE CliSyncProofs ----------------------------
(* Theorems about CliSync, for any branches, changes and bounds: a run never *)
(* loses a change from a local branch, and no push loses one from the fork.  *)
EXTENDS CliSync, TLAPS

\* A rebase or a merge of a head with an upstream version is a head.
LEMMA IntegratedIsHead ==
  ASSUME NEW h \in Heads, NEW k \in Versions, conf \in Confs
  PROVE  Integrated(h, k) \in Heads
<1>1. Upstream(k) \in Heads
  BY BoundsAssumption DEF Upstream, Heads, Changes, Versions
<1>2. Rebased(h, k) \in Heads
  <2>1. \A c \in h : <<c[1], k>> \in Changes \X Versions
    BY DEF Heads
  <2> QED
    BY <1>1, <2>1 DEF Rebased, Heads
<1>3. Merged(h, k) \in Heads
  BY <1>1 DEF Merged, Heads, Changes
<1> QED
  BY <1>2, <1>3 DEF Integrated

\* It keeps every change of the head.
LEMMA IntegratedKeeps ==
  ASSUME NEW h, NEW k
  PROVE  ChangesOf(h) \subseteq ChangesOf(Integrated(h, k))
<1> SUFFICES ASSUME NEW c \in h PROVE c[1] \in ChangesOf(Integrated(h, k))
  BY DEF ChangesOf
<1>1. c[1] \in ChangesOf(Rebased(h, k))
  <2>1. CASE c \in Upstream(k)
    BY <2>1 DEF Rebased, ChangesOf
  <2>2. CASE c \notin Upstream(k)
    <3>1. <<c[1], k>> \in Rebased(h, k)
      BY <2>2 DEF Rebased
    <3>2. <<c[1], k>>[1] = c[1]
      OBVIOUS
    <3> QED
      BY <3>1, <3>2 DEF ChangesOf
  <2> QED
    BY <2>1, <2>2
<1>2. c[1] \in ChangesOf(Merged(h, k))
  BY DEF Merged, ChangesOf
<1> QED
  BY <1>1, <1>2 DEF Integrated

\* A subset has no more changes.
LEMMA SubsetChanges ==
  ASSUME NEW g, NEW h, g \subseteq h
  PROVE  ChangesOf(g) \subseteq ChangesOf(h)
  BY DEF ChangesOf

-----------------------------------------------------------------------------
(* Types.                                                                  *)

\* What the ends of a stopped rebase or merge leave.
ContinueTypes ==
  /\ local' \in [Branches -> Heads] /\ work' \in Works /\ unproven' \subseteq Branches
  /\ pc' \in {"next", "gate", "resolve"} /\ (pc' = "resolve" => work'.index = "conflict")

LEMMA GiveUpTypes ==
  ASSUME TypeOK, GiveUp
  PROVE  ContinueTypes
<1>1. CASE UNCHANGED <<local, work>>
  BY <1>1 DEF TypeOK, GiveUp, ContinueTypes, Report, Goto
<1>2. CASE work.op # "none" /\ local' = [local EXCEPT ![work.of] = work.orig] /\ work' = Clean
  BY <1>2 DEF TypeOK, GiveUp, ContinueTypes, Report, Goto, Works, Clean
<1> QED
  BY <1>1, <1>2 DEF GiveUp

\* A rebase that was left adds only changes of its branch.
LEMMA MixedAreHeads ==
  ASSUME TypeOK, work.op # "none", NEW h \in Mixed
  PROVE  /\ h \in Heads /\ local[cur] \subseteq h
         /\ ChangesOf(h) \subseteq ChangesOf(local[cur]) \cup ChangesOf(work.orig)
<1>1. PICK picked \in SUBSET (ChangesOf(work.orig) \ Versions) : h = local[cur] \cup {<<c, base>> : c \in picked}
  BY DEF Mixed
<1>2. work.orig \in Heads /\ local[cur] \in Heads /\ base \in Versions
  BY BoundsAssumption DEF TypeOK, Works, Clean, Versions
<1>3. ChangesOf(work.orig) \subseteq Changes
  BY <1>2 DEF ChangesOf, Heads
<1>4. h \in Heads
  BY <1>1, <1>2, <1>3 DEF Heads
<1>5. ChangesOf(h) \subseteq ChangesOf(local[cur]) \cup ChangesOf(work.orig)
  <2>1. ASSUME NEW c \in h PROVE c[1] \in ChangesOf(local[cur]) \cup ChangesOf(work.orig)
    <3>1. CASE c \in local[cur]
      BY <3>1 DEF ChangesOf
    <3>2. CASE c \in {<<x, base>> : x \in picked}
      <4>1. PICK x \in picked : c = <<x, base>>
        BY <3>2
      <4> QED
        BY <4>1, <1>1
    <3> QED
      BY <1>1, <3>1, <3>2
  <2> QED
    BY <2>1 DEF ChangesOf
<1> QED
  BY <1>1, <1>4, <1>5

LEMMA FinishTypes ==
  ASSUME TypeOK, Finish
  PROVE  ContinueTypes
<1>1. work.op # "none" /\ work.of \in Branches /\ cur \in Branches
  BY DEF Finish, TypeOK, Works, Clean
<1>2. local' \in [Branches -> Heads]
  <2>1. base \in Versions /\ local[cur] \in Heads /\ conf \in Confs
    BY BoundsAssumption DEF TypeOK, Versions
  <2>2. Integrated(local[cur], base) \in Heads
    BY <2>1, IntegratedIsHead
  <2>3. CASE work.op = "stopped"
    BY <2>2, <2>3 DEF TypeOK, Finish
  <2>4. CASE work.op = "left"
    <3>1. PICK h \in Mixed : local' = [local EXCEPT ![cur] = h, ![work.of] = h]
      BY <2>4 DEF Finish
    <3>2. h \in Heads
      BY <1>1, MixedAreHeads
    <3> QED
      BY <1>1, <3>1, <3>2 DEF TypeOK
  <2> QED
    BY <2>3, <2>4 DEF Finish
<1> QED
  BY <1>1, <1>2 DEF TypeOK, Finish, ContinueTypes, Goto, Works

LEMMA StopsAgainTypes ==
  ASSUME TypeOK, StopsAgain
  PROVE  ContinueTypes
<1>1. work.op # "none" /\ work # Clean /\ cur \in Branches
  BY DEF StopsAgain, TypeOK, Clean
<1>2. work' \in Works /\ work'.index = "conflict"
  BY <1>1 DEF StopsAgain, TypeOK, Works, Clean
<1>3. local' \in [Branches -> Heads] /\ unproven' \subseteq Branches
  <2>1. CASE work.op = "stopped"
    BY <2>1 DEF StopsAgain, TypeOK
  <2>2. CASE work.op = "left"
    <3>1. PICK h \in Mixed : local' = [local EXCEPT ![cur] = h]
      BY <2>2 DEF StopsAgain
    <3>2. h \in Heads
      BY <1>1, MixedAreHeads
    <3> QED
      BY <1>1, <2>2, <3>1, <3>2 DEF StopsAgain, TypeOK
  <2> QED
    BY <2>1, <2>2 DEF StopsAgain
<1> QED
  BY <1>2, <1>3 DEF StopsAgain, ContinueTypes, Goto

\* Every reachable state is well typed.
THEOREM CliTypes == Spec => []TypeOK
<1> USE BoundsAssumption DEF TypeOK, Versions
<1>1. Init => TypeOK
  <2>1. FirstHead \in Heads /\ {} \in Heads
    BY DEF FirstHead, Upstream, Heads, Changes
  <2>2. Init => remote \in [Branches -> Heads] /\ local \in [Branches -> Heads] /\ before \in Heads
    BY <2>1 DEF Init
  <2>3. 0 \in 0..MaxUpstream /\ 0 \in 0..MaxRetries /\ 0 \in 0..MaxRounds - 1 /\ 0 \in 0..0
    OBVIOUS
  <2> QED
    BY <2>2, <2>3 DEF Init, Pcs, Works
<1>2. TypeOK /\ [Next]_vars => TypeOK'
  <2> SUFFICES ASSUME TypeOK, [Next]_vars PROVE TypeOK'
    OBVIOUS
  <2> USE DEF envVars, runVars, Goto, Report, Pcs, Forget
  <2>1. CASE StartRun
    BY <2>1 DEF StartRun
  <2>0. attempt' = 0 /\ before' = {} /\ round' = 0 /\ resolved' = FALSE =>
          attempt' \in 0..MaxRetries /\ before' \in Heads /\ round' \in 0..MaxRounds - 1 /\ resolved' \in BOOLEAN
    <3>1. {} \in Heads /\ 0 \in 0..MaxRetries /\ 0 \in 0..MaxRounds - 1
      BY DEF Heads
    <3> QED
      BY <3>1
  <2>2. CASE NextBranch
    BY <2>0, <2>2 DEF NextBranch
  <2>3. CASE Prepare
    <3>1. PICK h \in Targets : Checkout(h)
      BY <2>3 DEF Prepare
    <3>2. h \in Heads
      BY DEF Targets
    <3>3. local' \in [Branches -> Heads] /\ pc' = "sync"
      BY <3>1, <3>2 DEF Checkout
    <3>6. work' \in Works
      <4>1. CASE conf.sync = "rebase" /\ work.op # "none"
        <5>1. PICK index \in {work.index, "clean"} : work' = [work EXCEPT !.index = index, !.op = "left"]
          BY <3>1, <4>1 DEF Checkout
        <5>2. work # Clean
          BY <4>1 DEF Clean
        <5> QED
          BY <5>1, <5>2 DEF Works
      <4>2. CASE work.index = "staged" /\ work' = [work EXCEPT !.op = "none"]
        <5>1. work # Clean
          BY <4>2 DEF Clean
        <5> QED
          BY <4>2, <5>1 DEF Works
      <4>3. CASE work' = Clean
        BY <4>3 DEF Works
      <4> QED
        BY <3>1, <4>1, <4>2, <4>3 DEF Checkout
    <3>4. before' \in Heads /\ round' \in 0..MaxRounds - 1 /\ resolved' \in BOOLEAN
      <4>1. 0 \in 0..MaxRounds - 1
        OBVIOUS
      <4> QED
        BY <2>3, <4>1 DEF Prepare
    <3>5. UNCHANGED <<envVars, base, todo, cur, attempt, unproven>>
      BY <2>3 DEF Prepare
    <3> QED
      BY <3>3, <3>4, <3>5, <3>6
  <2>4. CASE PrepareFails \/ Stop
    BY <2>0, <2>4 DEF PrepareFails, Stop
  <2>5. CASE Sync
    <3>1. Integrated(local[cur], base) \in Heads
      BY IntegratedIsHead
    <3> QED
      BY <2>5, <3>1 DEF Sync, Works, Clean
  <2>6. CASE Conflict \/ Resolve \/ Continue
    <3>1. GiveUp \/ Finish \/ StopsAgain => ContinueTypes
      BY GiveUpTypes, FinishTypes, StopsAgainTypes
    <3>2. CASE Conflict
      <4>1. CASE work.index = "conflict"
        BY <4>1, <3>2 DEF Conflict, Clean, GiveUp
      <4>2. CASE work.index # "conflict"
        <5>1. ContinueTypes /\ resolved' \in BOOLEAN
          BY <3>1, <3>2, <4>2 DEF Conflict
        <5> QED
          BY <3>2, <5>1 DEF Conflict, ContinueTypes
      <4> QED
        BY <4>1, <4>2
    <3>3. CASE Resolve
      <4>1. ASSUME NEW index \in {"staged", "clean"}, work' = [work EXCEPT !.index = index]
            PROVE  work' \in Works
        BY <3>3, <4>1 DEF Works, Clean, Resolve
      <4> QED
        BY <3>1, <3>3, <4>1 DEF Resolve, ContinueTypes
    <3>4. CASE Continue
      <4>1. round' \in 0..MaxRounds - 1
        BY <3>4 DEF Continue
      <4> QED
        BY <3>1, <3>4, <4>1 DEF Continue, ContinueTypes
    <3> QED
      BY <2>6, <3>2, <3>3, <3>4
  <2>7. CASE Gate \/ Tests \/ Tag
    BY <2>7 DEF Gate, Tests, Tag
  <2>8. CASE Verify
    BY <2>8 DEF Verify
  <2>9. CASE Push
    BY <2>9 DEF Push
  <2>10. CASE Environment
    <3>1. ASSUME NEW b \in Branches, NEW h \in Heads, NEW y \in Others \cup Mine
          PROVE  h \cup {<<y, 0>>} \in Heads
      BY DEF Heads, Changes
    <3>2. ASSUME NEW b \in Branches, NEW x \in Others, OtherPush(b, x) PROVE TypeOK'
      BY <3>1, <3>2 DEF OtherPush
    <3>3. ASSUME NEW b \in Branches, NEW y \in Mine, OwnerCommits(b, y) PROVE TypeOK'
      BY <3>1, <3>3 DEF OwnerCommits
    <3>4. ASSUME NEW b \in Branches, OtherDelete(b) \/ OwnerResets(b) PROVE TypeOK'
      <4>1. {} \in Heads
        BY DEF Heads
      <4> QED
        BY <3>4, <4>1 DEF OtherDelete, OwnerResets
    <3>5. CASE UpstreamGrows
      BY <3>5 DEF UpstreamGrows
    <3>6. CASE OwnerAborts
      <4>1. work.op # "none" => work.orig \in Heads
        BY DEF Works, Clean
      <4> QED
        BY <3>6, <4>1 DEF OwnerAborts, Works
    <3> QED
      BY <2>10, <3>2, <3>3, <3>4, <3>5, <3>6 DEF Environment, Owner
  <2>11. CASE UNCHANGED vars
    BY <2>11 DEF vars
  <2> QED
    BY <2>1, <2>2, <2>3, <2>4, <2>5, <2>6, <2>7, <2>8, <2>9, <2>10, <2>11 DEF Next, Step
<1> QED
  BY <1>1, <1>2, PTL DEF Spec

-----------------------------------------------------------------------------
(* What is left in the working copy, when it is of the branch taken next.   *)

\* The hypothesis, one step of it.
OwnLeftover == Prepare => work.of \in {None, cur}

\* The head to check out has all that the local branch has, and is one of the
\* two; it is the local one if the fork's does not count.
LEMMA TargetsAreLater ==
  ASSUME NEW h \in Targets
  PROVE  /\ local[cur] \subseteq h
         /\ h = local[cur] \/ (h = remote[cur] /\ (conf.push # "none" \/ local[cur] = {}))
         /\ conf.push # "none" => remote[cur] \subseteq h
  BY DEF Targets

\* A checkout of the branch whose leftover it is keeps Left.
LEMMA PrepareLeft ==
  ASSUME TypeOK, Leftovers, Prepare, OwnLeftover
  PROVE  Leftovers'
<1> USE DEF TypeOK, Leftovers, Goto
<1>1. PICK h \in Targets : Checkout(h)
  BY DEF Prepare
<1>2. /\ local'[cur] = h /\ local[cur] \subseteq h /\ pc' = "sync"
      /\ UNCHANGED <<conf, upstream, remote, base, cur>>
  BY <1>1, TargetsAreLater DEF Checkout, Prepare, envVars
<1>3. work' # Clean => work # Clean /\ work.of = cur /\ work'.of = work.of /\ work'.orig = work.orig
  <2>1. work # Clean => work.of \in Branches
    BY DEF Works
  <2>2. work # Clean => work.of = cur
    BY <2>1, NamesAssumption DEF OwnLeftover
  <2>3. CASE \E index \in {work.index, "clean"} : work.op # "none" /\ work' = [work EXCEPT !.index = index, !.op = "left"]
    BY <2>2, <2>3 DEF Works, Clean
  <2>4. CASE work.index = "staged" /\ work' = [work EXCEPT !.op = "none"]
    BY <2>2, <2>4 DEF Works, Clean
  <2>5. CASE work' = Clean
    BY <2>5
  <2> QED
    BY <1>1, <2>3, <2>4, <2>5 DEF Checkout
<1>4. conf.push # "none" => ChangesOf(remote'[cur]) \subseteq ChangesOf(local'[cur]) \cup Others
  <2>1. conf.push # "none" => remote[cur] \subseteq h
    BY TargetsAreLater
  <2> QED
    BY <1>2, <2>1, SubsetChanges
<1>5. ASSUME work' # Clean
      PROVE  /\ ~(ChangesOf(h) \subseteq Versions)
             /\ ChangesOf(h) \subseteq ChangesOf(work.orig) \cup Others
             /\ conf.push # "none" => ChangesOf(remote[cur]) \subseteq ChangesOf(work.orig) \cup Others
             /\ ~UpToDate(work.orig)
  <2>1. work # Clean /\ work.of = cur
    BY <1>3, <1>5
  <2>2. ChangesOf(local[cur]) \subseteq ChangesOf(h)
    BY <1>2, SubsetChanges
  <2>3. local[cur] # {}
    BY <2>1 DEF ChangesOf
  <2>4. h = local[cur] \/ (h = remote[cur] /\ conf.push # "none")
    BY <2>3, TargetsAreLater
  <2> QED
    BY <2>1, <2>2, <2>4
<1>7. work' # Clean => /\ ~(ChangesOf(local'[work'.of]) \subseteq Versions)
                       /\ ChangesOf(local'[work'.of]) \subseteq ChangesOf(work'.orig) \cup Others
                       /\ conf.push # "none" => ChangesOf(remote'[work'.of]) \subseteq ChangesOf(work'.orig) \cup Others
                       /\ ~(0..base \subseteq ChangesOf(work'.orig))
  BY <1>2, <1>3, <1>5 DEF UpToDate
<1> QED
  BY <1>2, <1>3, <1>4, <1>7 DEF UpToDate

\* Over its own leftover no rebase or merge begins; without one, it may stop.
LEMMA SyncLeft ==
  ASSUME TypeOK, Leftovers, Sync
  PROVE  Leftovers'
<1> USE DEF TypeOK, Leftovers, Goto, envVars, runVars
<1>1. ASSUME local' = [local EXCEPT ![cur] = IF UpToDate(@) THEN @ ELSE Integrated(@, base)],
             work.op = "none", pc' = "gate", UNCHANGED work,
             \/ work.index = "clean"
             \/ UpToDate(local[cur]) \/ ChangesOf(local[cur]) \subseteq Versions
      PROVE  Leftovers'
  <2>1. ASSUME work # Clean PROVE FALSE
    <3>1. work.index # "clean"
      BY <1>1, <2>1 DEF Works
    <3>2. work.of = cur
      BY <2>1 DEF Sync
    <3>3. PICK k \in 0..base : k \notin ChangesOf(work.orig)
      BY <2>1 DEF UpToDate
    <3>4. k \notin Others
      BY <3>3, NamesAssumption
    <3>5. ~UpToDate(local[cur])
      BY <2>1, <3>2, <3>3, <3>4 DEF UpToDate
    <3> QED
      BY <1>1, <2>1, <3>1, <3>2, <3>5
  <2> QED
    BY <1>1, <2>1
<1>2. ASSUME work = Clean, ~UpToDate(local[cur]), ~(ChangesOf(local[cur]) \subseteq Versions),
             NEW index, work' = [index |-> index, op |-> "stopped", of |-> cur, orig |-> local[cur]],
             pc' = "conflict", UNCHANGED <<local, envVars, runVars>>
      PROVE  Leftovers'
  <2>1. conf.push # "none" => ChangesOf(remote[cur]) \subseteq ChangesOf(local[cur]) \cup Others
    BY DEF Sync
  <2> QED
    BY <1>2, <2>1 DEF UpToDate
<1>3. ASSUME pc' = "conflict", UNCHANGED <<local, work, envVars, runVars>>
      PROVE  Leftovers'
  BY <1>3 DEF UpToDate, Sync
<1> QED
  BY <1>1, <1>2, <1>3 DEF Sync

\* An abort or the end of the operation clears it; another conflict does not.
LEMMA ContinueLeft ==
  ASSUME TypeOK, Leftovers, Conflict \/ Resolve \/ Continue
  PROVE  Leftovers'
<1> USE DEF TypeOK, Leftovers, Goto, envVars, runVars
<1>1. pc \in {"conflict", "resolve", "continue"} /\ UNCHANGED <<conf, remote, base, cur>>
  BY DEF Conflict, Resolve, Continue
<1>2. CASE GiveUp
  BY <1>1, <1>2 DEF GiveUp, Report, UpToDate
<1>3. CASE Finish
  BY <1>3 DEF Finish
<1>4. CASE StopsAgain
  <2>1. work # Clean /\ work.op # "none"
    BY <1>4 DEF StopsAgain, Clean
  <2>2. work.of = cur /\ cur \in Branches
    BY <1>1, <2>1
  <2>3. work'.of = cur /\ work'.orig = work.orig /\ pc' = "resolve"
    BY <1>4, <2>1, <2>2 DEF StopsAgain, Works
  <2>4. local[cur] \subseteq local'[cur] /\ ChangesOf(local'[cur]) \subseteq ChangesOf(local[cur]) \cup ChangesOf(work.orig)
    <3>1. CASE UNCHANGED local
      BY <3>1
    <3>2. CASE \E h \in Mixed : local' = [local EXCEPT ![cur] = h]
      BY <2>1, <2>2, <3>2, MixedAreHeads
    <3> QED
      BY <1>4, <3>1, <3>2 DEF StopsAgain
  <2>5. ~(ChangesOf(local'[cur]) \subseteq Versions)
    BY <2>1, <2>2, <2>4, SubsetChanges
  <2>6. ChangesOf(local'[cur]) \subseteq ChangesOf(work.orig) \cup Others
    BY <2>1, <2>2, <2>4
  <2>7. ~UpToDate(work.orig) /\ (conf.push # "none" => ChangesOf(remote[cur]) \subseteq ChangesOf(work.orig) \cup Others)
    BY <2>1, <2>2
  <2> QED
    BY <1>1, <2>3, <2>5, <2>6, <2>7 DEF UpToDate
<1>5. CASE Resolve /\ ~GiveUp
  <2>1. PICK index \in {"staged", "clean"} : work' = [work EXCEPT !.index = index]
    BY <1>5 DEF Resolve
  <2>2. work # Clean
    BY <1>5 DEF Resolve, Clean
  <2>3. work'.of = work.of /\ work'.orig = work.orig /\ pc' = "continue" /\ UNCHANGED local
    BY <1>5, <2>1, <2>2 DEF Resolve, Works
  <2> QED
    BY <1>1, <2>2, <2>3 DEF UpToDate
<1>6. CASE pc' = "resolve" /\ UNCHANGED <<local, work>>
  BY <1>1, <1>6 DEF UpToDate
<1> QED
  BY <1>2, <1>3, <1>4, <1>5, <1>6 DEF Conflict, Resolve, Continue

\* In the working copy there is nothing but such a leftover.
LEMMA LeftoversInvariant == Spec /\ LeftoversAreOwn => []Leftovers
<1>1. Init => Leftovers
  BY DEF Init, Leftovers
<1>2. TypeOK /\ Leftovers /\ [Next]_vars /\ [OwnLeftover]_vars => Leftovers'
  <2> SUFFICES ASSUME TypeOK, Leftovers, [Next]_vars, [OwnLeftover]_vars PROVE Leftovers'
    OBVIOUS
  <2> USE DEF TypeOK, Leftovers, envVars, runVars, Goto, Report, UpToDate
  <2>1. CASE Prepare
    <3>1. pc' # pc
      BY <2>1 DEF Prepare, Checkout
    <3>2. OwnLeftover
      BY <3>1 DEF vars
    <3> QED
      BY <2>1, <3>2, PrepareLeft
  <2>2. CASE Sync
    BY <2>2, SyncLeft
  <2>3. CASE Conflict \/ Resolve \/ Continue
    BY <2>3, ContinueLeft
  <2>4. CASE NextBranch \/ PrepareFails \/ Gate \/ Tests \/ Verify \/ Tag \/ Stop
    BY <2>4 DEF NextBranch, PrepareFails, Gate, Tests, Verify, Tag, Stop
  <2>5. CASE Push
    BY <2>5 DEF Push
  <2>6. CASE StartRun
    <3>1. 0..base \subseteq 0..base'
      BY <2>6, BoundsAssumption DEF StartRun, Versions
    <3> QED
      BY <2>6, <3>1 DEF StartRun
  <2>7. CASE Environment
    <3>1. ASSUME NEW b \in Branches, NEW x \in Others, OtherPush(b, x) PROVE Leftovers'
      <4>1. ASSUME NEW a \in Branches PROVE ChangesOf(remote'[a]) \subseteq ChangesOf(remote[a]) \cup Others
        BY <3>1 DEF OtherPush, ChangesOf
      <4>2. work # Clean => work.of \in Branches
        BY DEF Works
      <4> QED
        BY <3>1, <4>1, <4>2 DEF OtherPush
    <3>2. ASSUME NEW b \in Branches, OtherDelete(b) PROVE Leftovers'
      <4>1. ASSUME NEW a \in Branches PROVE ChangesOf(remote'[a]) \subseteq ChangesOf(remote[a])
        BY <3>2 DEF OtherDelete, ChangesOf
      <4>2. work # Clean => work.of \in Branches
        BY DEF Works
      <4> QED
        BY <3>2, <4>1, <4>2 DEF OtherDelete
    <3>3. CASE UpstreamGrows
      BY <3>3 DEF UpstreamGrows
    <3>4. CASE Owner
      BY <3>4 DEF Owner, OwnerCommits, OwnerResets, OwnerAborts
    <3> QED
      BY <2>7, <3>1, <3>2, <3>3, <3>4 DEF Environment
  <2>8. CASE UNCHANGED vars
    BY <2>8 DEF vars
  <2> QED
    BY <2>1, <2>2, <2>3, <2>4, <2>5, <2>6, <2>7, <2>8 DEF Next, Step
<1> QED
  BY <1>1, <1>2, CliTypes, PTL DEF Spec, LeftoversAreOwn, OwnLeftover

-----------------------------------------------------------------------------
(* Nothing is lost.                                                        *)

\* What a checkout, a rebase or merge, its end or its abort does to a branch.
LEMMA StepKeeps ==
  ASSUME TypeOK, Leftovers, Step, NEW b \in Branches
  PROVE  ChangesOf(local[b]) \ Others \subseteq ChangesOf(local'[b])
<1> USE DEF TypeOK, envVars, runVars
<1>1. CASE Prepare
  <2>1. ASSUME NEW h, Checkout(h), local[cur] \subseteq h
        PROVE  ChangesOf(local[b]) \subseteq ChangesOf(local'[b])
    BY <2>1, SubsetChanges DEF Checkout
  <2> QED
    BY <1>1, <2>1, TargetsAreLater DEF Prepare
<1>2. CASE Sync
  BY <1>2, IntegratedKeeps DEF Sync
<1>3. CASE Conflict \/ Resolve \/ Continue
  <2>1. pc \in {"conflict", "resolve", "continue"}
    BY <1>3 DEF Conflict, Resolve, Continue
  <2>2. work # Clean => work.of = cur /\ ChangesOf(local[cur]) \subseteq ChangesOf(work.orig) \cup Others
    BY <2>1 DEF Leftovers
  <2>3. work.op # "none" => work # Clean
    BY DEF Clean
  <2>4. ASSUME work.op # "none", NEW h \in Mixed, local'[cur] = h, b # cur => local'[b] = local[b]
        PROVE  ChangesOf(local[b]) \subseteq ChangesOf(local'[b])
    BY <2>4, MixedAreHeads, SubsetChanges
  <2>5. CASE GiveUp
    BY <2>2, <2>3, <2>5 DEF GiveUp
  <2>6. CASE Finish
    <3>1. CASE local' = [local EXCEPT ![cur] = Integrated(@, base)]
      BY <3>1, IntegratedKeeps
    <3>2. CASE work.op = "left" /\ \E h \in Mixed : local' = [local EXCEPT ![cur] = h, ![work.of] = h]
      BY <2>2, <2>3, <2>4, <3>2
    <3> QED
      BY <2>6, <3>1, <3>2 DEF Finish
  <2>7. CASE StopsAgain
    BY <2>4, <2>7 DEF StopsAgain
  <2>8. CASE UNCHANGED local
    BY <2>8
  <2> QED
    BY <1>3, <2>5, <2>6, <2>7, <2>8 DEF Conflict, Resolve, Continue
<1>4. CASE NextBranch \/ PrepareFails \/ Gate \/ Tests \/ Verify \/ Push \/ Tag
  BY <1>4 DEF NextBranch, PrepareFails, Gate, Tests, Verify, Push, Tag
<1> QED
  BY <1>1, <1>2, <1>3, <1>4 DEF Step

\* No run loses a change from a local branch, as long as a leftover is cleared
\* away or taken up by its own branch.
THEOREM LocalIsKept == Spec /\ LeftoversAreOwn => LocalKept
<1>1. TypeOK /\ Leftovers /\ [Next]_vars =>
        [Step => \A b \in Branches : ChangesOf(local[b]) \ Others \subseteq ChangesOf(local'[b])]_vars
  BY StepKeeps
<1> QED
  BY <1>1, CliTypes, LeftoversInvariant, PTL DEF Spec, LocalKept

\* From prepare to push the local branch has what the fork's branch had.
LEMMA BasedInvariant == Spec => []Based
<1>1. Init => Based
  BY DEF Init, Based
<1>2. TypeOK /\ Based /\ [Next]_vars => Based'
  <2> SUFFICES ASSUME TypeOK, Based, [Next]_vars PROVE Based'
    OBVIOUS
  <2> USE DEF TypeOK, Based, envVars, runVars, Goto, Report
  <2>1. CASE Prepare
    <3>1. conf.push # "none" => remote[cur] \subseteq local'[cur]
      <4>1. PICK h \in Targets : Checkout(h)
        BY <2>1 DEF Prepare
      <4> QED
        BY <4>1, TargetsAreLater DEF Checkout
    <3> QED
      BY <2>1, <3>1, SubsetChanges DEF Prepare
  <2>2. CASE Sync \/ Conflict \/ Resolve \/ Continue
    <3>1. cur' = cur /\ before' = before /\ conf' = conf
      BY <2>2 DEF Sync, Conflict, Resolve, Continue
    <3>2. pc \in {"sync", "conflict", "resolve", "continue"}
      BY <2>2 DEF Sync, Conflict, Resolve, Continue
    <3>3. pc' = "next" \/ ChangesOf(local[cur]) \subseteq ChangesOf(local'[cur])
      <4>1. CASE local' = [local EXCEPT ![cur] = Integrated(@, base)]
        BY <4>1, IntegratedKeeps
      <4>2. ASSUME work.op # "none", NEW h \in Mixed, local'[cur] = h
            PROVE  ChangesOf(local[cur]) \subseteq ChangesOf(local'[cur])
        BY <4>2, MixedAreHeads, SubsetChanges
      <4>3. CASE Sync
        BY <4>3, IntegratedKeeps DEF Sync
      <4>4. CASE Finish
        BY <4>1, <4>2, <4>4 DEF Finish
      <4>5. CASE StopsAgain
        BY <4>2, <4>5 DEF StopsAgain
      <4>6. CASE GiveUp \/ UNCHANGED local
        BY <4>6 DEF GiveUp
      <4> QED
        BY <2>2, <4>3, <4>4, <4>5, <4>6 DEF Conflict, Resolve, Continue
    <3> QED
      BY <3>1, <3>2, <3>3
  <2>3. CASE NextBranch \/ PrepareFails \/ Gate \/ Tests \/ Verify \/ Push \/ Tag \/ StartRun \/ Stop
    BY <2>3 DEF NextBranch, PrepareFails, Gate, Tests, Verify, Push, Tag, StartRun, Stop
  <2>4. CASE Environment
    BY <2>4 DEF Environment, Owner, UpstreamGrows, OtherPush, OtherDelete, OwnerCommits,
                OwnerResets, OwnerAborts
  <2>5. CASE UNCHANGED vars
    BY <2>5 DEF vars
  <2> QED
    BY <2>1, <2>2, <2>3, <2>4, <2>5 DEF Next, Step
<1> QED
  BY <1>1, <1>2, CliTypes, PTL DEF Spec

\* No push loses a change from the fork's branch.
THEOREM CliPushLosesNothing == Spec => NothingLost
<1>1. TypeOK /\ Based /\ [Next]_vars => [Push => ChangesOf(remote[cur]) \subseteq ChangesOf(remote'[cur])]_vars
  <2> SUFFICES ASSUME TypeOK, Based, Push
               PROVE  ChangesOf(remote[cur]) \subseteq ChangesOf(remote'[cur])
    OBVIOUS
  <2>1. CASE UNCHANGED remote
    BY <2>1
  <2>2. CASE Accepts /\ remote' = [remote EXCEPT ![cur] = local[cur]]
    <3>1. remote'[cur] = local[cur]
      BY <2>2 DEF TypeOK
    <3>2. ChangesOf(remote[cur]) \subseteq ChangesOf(local[cur])
      <4>1. CASE remote[cur] = before /\ conf.push # "none"
        BY <4>1 DEF Push, Based
      <4>2. CASE remote[cur] \subseteq local[cur]
        BY <4>2, SubsetChanges
      <4>3. CASE remote[cur] = {}
        BY <4>3 DEF ChangesOf
      <4> QED
        BY <2>2, <4>1, <4>2, <4>3 DEF Accepts, TypeOK, Confs
    <3> QED
      BY <3>1, <3>2
  <2> QED
    BY <2>1, <2>2 DEF Push
<1> QED
  BY <1>1, CliTypes, BasedInvariant, PTL DEF Spec, NothingLost

-----------------------------------------------------------------------------
(* An automatic resolution is tested before it is pushed.                   *)

\* On the way to the push an automatic resolution has passed the tests.
TestedInv == conf.tests /\ pc \in {"verify", "push", "tag"} => cur \notin unproven

\* With tests, no automatic resolution is pushed that has not passed them, as
\* long as a leftover is cleared away or taken up by its own branch: the tests
\* then see nothing but the branch.
THEOREM PushedIsTested == Spec /\ LeftoversAreOwn => []ResolvedIsTested
<1>1. Init => TestedInv
  BY DEF Init, TestedInv
<1>2. Leftovers /\ TestedInv /\ [Next]_vars => TestedInv'
  <2> SUFFICES ASSUME Leftovers, TestedInv, [Next]_vars PROVE TestedInv'
    OBVIOUS
  <2> USE DEF TestedInv, envVars, runVars, Goto, Report
  <2>1. CASE Prepare \/ Sync \/ Conflict \/ Resolve \/ Continue
    <3>1. pc' \notin {"verify", "push", "tag"}
      BY <2>1 DEF Prepare, Checkout, Sync, Conflict, Resolve, Continue, Finish, StopsAgain, GiveUp
    <3> QED
      BY <3>1
  <2>2. CASE Tests
    <3>1. work.index = "clean"
      BY <2>2 DEF Tests, Leftovers, Clean
    <3> QED
      BY <2>2, <3>1 DEF Tests
  <2>3. CASE NextBranch \/ PrepareFails \/ Gate \/ Verify \/ Push \/ Tag \/ StartRun \/ Stop
    BY <2>3 DEF NextBranch, PrepareFails, Gate, Verify, Push, Tag, StartRun, Stop
  <2>4. CASE Environment
    BY <2>4 DEF Environment, Owner, UpstreamGrows, OtherPush, OtherDelete, OwnerCommits,
                OwnerResets, OwnerAborts
  <2>5. CASE UNCHANGED vars
    BY <2>5 DEF vars
  <2> QED
    BY <2>1, <2>2, <2>3, <2>4, <2>5 DEF Next, Step
<1>3. TestedInv => ResolvedIsTested
  BY DEF TestedInv, ResolvedIsTested
<1> QED
  BY <1>1, <1>2, <1>3, LeftoversInvariant, PTL DEF Spec
=============================================================================
