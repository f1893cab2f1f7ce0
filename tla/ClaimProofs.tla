----------------------------- MODULE ClaimProofs ------------------------------
(* Theorems about the two claims with a lease that several processes share    *)
(* through SQLite: of a due task (Watch), for any runners, pull requests and  *)
(* contents, and of a draft (IssueDelivery), for any number of publishers and *)
(* pages and any lease that is not shorter than the window of a POST.         *)
EXTENDS Watch, IssueDelivery, TLAPS

\* The event of a comparison is an event, if there is one.
LEMMA NewsType ==
  ASSUME NEW r \in Runners, NEW p \in PRs, NEW c \in Contents
  PROVE  News(r, p, c) \subseteq Events
BY DEF News, Events

\* Every variable keeps its type, and each step of a run has what it works on.
THEOREM WatchTypes == Spec => []TypeOK
<1>1. ASSUME Init PROVE TypeOK
  <2> USE <1>1 DEF Init
  <2>1. active \in BOOLEAN /\ due \in BOOLEAN /\ initialized \in BOOLEAN /\ mixed \in BOOLEAN
    OBVIOUS
  <2>2. world \in [PRs -> Contents \cup {None, Closed}] /\ closings \in [PRs -> 0..MaxCloses]
    BY BoundAssumption
  <2>3. \A p \in PRs : world[p] = Closed => closings[p] > 0
    BY ContentAssumption
  <2>4. troubles \in 0..MaxTroubles
    BY BoundAssumption
  <2>5. snap \in [PRs -> Contents \cup {None}] /\ hand \in [Runners -> (PRs \X (Contents \cup {Closed})) \cup {None}]
    OBVIOUS
  <2> QED
    BY <2>1, <2>2, <2>3, <2>4, <2>5 DEF TypeOK
<1>2. TypeOK /\ [Next]_vars => TypeOK'
  <2> SUFFICES ASSUME TypeOK, [Next]_vars PROVE TypeOK'
    OBVIOUS
  <2> USE BoundAssumption, ContentAssumption
      DEF TypeOK, Goto, Trouble, worldVars, taskVars, storeVars, scanVars
  <2>1. ASSUME NEW r \in Runners, Claim(r) PROVE TypeOK'
    BY <2>1 DEF Claim
  <2>2. ASSUME NEW r \in Runners, StartScan(r) PROVE TypeOK'
    BY <2>2 DEF StartScan
  <2>3. ASSUME NEW r \in Runners, Compare(r) PROVE TypeOK'
    <3> DEFINE n == News(r, hand[r][1], hand[r][2])
    <3>1. n \subseteq Events
      BY <2>3, NewsType DEF Compare
    <3> HIDE DEF n
    <3>2. CASE n = {}
      BY <2>3, <3>1, <3>2 DEF Compare, n
    <3>3. CASE n # {}
      BY <2>3, <3>1, <3>3 DEF Compare, n
    <3> QED
      BY <3>2, <3>3
  <2>4. ASSUME NEW r \in Runners, Insert(r) PROVE TypeOK'
    BY <2>4 DEF Insert
  <2>5. ASSUME NEW r \in Runners, Store(r) PROVE TypeOK'
    BY <2>5 DEF Store
  <2>6. ASSUME NEW r \in Runners, Delete(r) PROVE TypeOK'
    BY <2>6 DEF Delete
  <2>7. ASSUME NEW r \in Runners, EndScan(r) PROVE TypeOK'
    BY <2>7 DEF EndScan
  <2>8. ASSUME NEW r \in Runners, Finish(r) PROVE TypeOK'
    BY <2>8 DEF Finish
  <2>9. ASSUME NEW r \in Runners, NEW p \in PRs, List(r, p) PROVE TypeOK'
    <3>1. CASE world[p] \in Contents /\ hand' = [hand EXCEPT ![r] = <<p, world[p]>>] /\ Goto(r, "compare")
                 /\ UNCHANGED <<absent, troubles>>
      BY <2>9, <3>1 DEF List
    <3>2. CASE world[p] \notin Contents /\ absent' = [absent EXCEPT ![r] = @ \cup {p}]
                 /\ UNCHANGED <<pc, hand, troubles>>
      BY <2>9, <3>2 DEF List
    <3>3. CASE Trouble /\ UNCHANGED <<pc, hand, absent>>
      BY <2>9, <3>3 DEF List
    <3> QED
      BY <2>9, <3>1, <3>2, <3>3 DEF List
  <2>10. ASSUME NEW r \in Runners, NEW p \in PRs, Lifecycle(r, p) PROVE TypeOK'
    <3>1. CASE world[p] = Closed /\ events' = events \cup {Gone(p, closings[p])}
                 /\ hand' = [hand EXCEPT ![r] = <<p, Closed>>] /\ Goto(r, "delete") /\ UNCHANGED troubles
      <4>1. closings[p] \in 1..MaxCloses
        BY <3>1
      <4>2. Gone(p, closings[p]) \in Events
        BY <4>1 DEF Events
      <4>3. events' \subseteq Events /\ assessed' \subseteq events'
        BY <2>10, <3>1, <4>2 DEF Lifecycle
      <4>4. queue' \in [Runners -> SUBSET events']
        BY <2>10, <3>1 DEF Lifecycle
      <4>5. hand' \in [Runners -> (PRs \X (Contents \cup {Closed})) \cup {None}]
        BY <3>1
      <4>6. before' \in [Runners -> SUBSET PRs]
        BY <2>10 DEF Lifecycle
      <4>7. pc' \in [Runners -> {"idle", "start", "list", "compare", "insert", "store", "delete",
                                 "assess", "finish"}]
        BY <3>1
      <4>8. hand'[r] \in PRs \X {Closed} /\ pc'[r] = "delete"
        BY <3>1
      <4>9. UNCHANGED <<worldVars, taskVars, initialized, snap, assessed, baseline, left, absent, news,
                        queue, troubles, mixed>>
        BY <2>10, <3>1 DEF Lifecycle
      <4>10. pc[r] = "list"
        BY <2>10 DEF Lifecycle
      <4> QED
        BY <3>1, <4>3, <4>4, <4>5, <4>6, <4>7, <4>8, <4>9, <4>10
    <3>2. CASE UNCHANGED <<events, hand, pc, troubles>>
      BY <2>10, <3>2 DEF Lifecycle
    <3>3. CASE Trouble /\ UNCHANGED <<events, hand, pc>>
      BY <2>10, <3>3 DEF Lifecycle
    <3> QED
      BY <2>10, <3>1, <3>2, <3>3 DEF Lifecycle
  <2>11. ASSUME NEW r \in Runners, NEW e \in queue[r], Assess(r, e) PROVE TypeOK'
    BY <2>11 DEF Assess
  <2>12. ASSUME NEW r \in Runners, Kill(r) PROVE TypeOK'
    BY <2>12 DEF Kill
  <2>13. ASSUME NEW p \in PRs, Change(p) PROVE TypeOK'
    BY <2>13 DEF Change
  <2>14. CASE Elapse
    BY <2>14 DEF Elapse
  <2>15. CASE Owner
    <3>1. active' \in BOOLEAN /\ due' \in BOOLEAN
      BY <2>15, Zenon DEF Owner
    <3>2. troubles' \in 0..MaxTroubles
      BY <2>15 DEF Owner
    <3> QED
      BY <2>15, <3>1, <3>2 DEF Owner
  <2>16. CASE UNCHANGED vars
    BY <2>16 DEF vars
  <2> QED
    BY <2>1, <2>2, <2>3, <2>4, <2>5, <2>6, <2>7, <2>8, <2>9, <2>10, <2>11, <2>12, <2>13, <2>14, <2>15, <2>16 DEF Next, RunStep
<1> QED
  BY <1>1, <1>2, PTL DEF Spec

-----------------------------------------------------------------------------
\* A run that is alone has an event for what it stores.
LEMMA StoreInductive == TypeOK /\ StoreInv /\ [Next]_vars => StoreInv'
<1> SUFFICES ASSUME TypeOK, StoreInv, [Next]_vars PROVE StoreInv'
  OBVIOUS
<1> USE ContentAssumption
    DEF TypeOK, StoreInv, Told, Busy, Changed, Goto, Trouble, worldVars, taskVars, storeVars, scanVars
<1>1. ASSUME NEW r \in Runners, Claim(r) PROVE StoreInv'
  <2>1. CASE \E q \in Runners : Busy(q)
    BY <1>1, <2>1 DEF Claim
  <2>2. CASE ~ \E q \in Runners : Busy(q)
    <3>1. \A q \in Runners : pc'[q] = IF q = r THEN "start" ELSE "idle"
      BY <1>1, <2>2 DEF Claim
    <3> QED
      BY <3>1
  <2> QED
    BY <2>1, <2>2
<1>2. ASSUME NEW r \in Runners, StartScan(r) PROVE StoreInv'
  BY <1>2 DEF StartScan
<1>3. ASSUME NEW r \in Runners, Compare(r) PROVE StoreInv'
  BY <1>3 DEF Compare, News
<1>4. ASSUME NEW r \in Runners, Insert(r) PROVE StoreInv'
  BY <1>4 DEF Insert
<1>5. ASSUME NEW r \in Runners, Store(r) PROVE StoreInv'
  BY <1>5 DEF Store
<1>6. ASSUME NEW r \in Runners, Delete(r) PROVE StoreInv'
  BY <1>6 DEF Delete
<1>7. ASSUME NEW r \in Runners, EndScan(r) PROVE StoreInv'
  BY <1>7 DEF EndScan
<1>8. ASSUME NEW r \in Runners, Finish(r) PROVE StoreInv'
  BY <1>8 DEF Finish
<1>9. ASSUME NEW r \in Runners, NEW p \in PRs, List(r, p) PROVE StoreInv'
  <2>1. CASE hand' = [hand EXCEPT ![r] = <<p, world[p]>>] /\ Goto(r, "compare")
    BY <1>9, <2>1 DEF List
  <2>2. CASE UNCHANGED <<pc, hand>>
    BY <1>9, <2>2 DEF List
  <2> QED
    BY <1>9, <2>1, <2>2 DEF List
<1>10. ASSUME NEW r \in Runners, NEW p \in PRs, Lifecycle(r, p) PROVE StoreInv'
  BY <1>10 DEF Lifecycle
<1>11. ASSUME NEW r \in Runners, NEW e \in queue[r], Assess(r, e) PROVE StoreInv'
  BY <1>11 DEF Assess
<1>12. ASSUME NEW r \in Runners, Kill(r) PROVE StoreInv'
  BY <1>12 DEF Kill
<1>13. ASSUME NEW p \in PRs, Change(p) PROVE StoreInv'
  BY <1>13 DEF Change
<1>14. CASE Elapse
  BY <1>14 DEF Elapse
<1>15. CASE Owner
  BY <1>15 DEF Owner
<1>16. CASE UNCHANGED vars
  BY <1>16 DEF vars
<1> QED
  BY <1>1, <1>2, <1>3, <1>4, <1>5, <1>6, <1>7, <1>8, <1>9, <1>10, <1>11, <1>12, <1>13, <1>14, <1>15, <1>16 DEF Next, RunStep

\* Without overlapping runs the store never gets ahead of the events, whatever
\* fails or is killed.
THEOREM StoredIsReported == Spec => ChangesReported
<1>1. Init => StoreInv
  BY DEF Init, StoreInv, Busy
<1>2. TypeOK /\ StoreInv /\ [Next]_vars =>
        [~mixed => \A p \in PRs :
           snap[p] # None => snap'[p] \in {None, snap[p]} \/ Changed(p, snap'[p]) \in events]_vars
  <2> SUFFICES ASSUME TypeOK, StoreInv, Next, ~mixed,
                      NEW p \in PRs, snap[p] # None, snap'[p] \notin {None, snap[p]}
               PROVE  Changed(p, snap'[p]) \in events
    OBVIOUS
  <2>1. PICK r \in Runners : Store(r) \/ Delete(r)
    BY Zenon DEF Next, RunStep, Claim, StartScan, List, Compare, Insert, Lifecycle, EndScan, Assess,
       Finish, Kill, Change, Elapse, Owner, storeVars
  <2>2. CASE Store(r)
    BY <2>2 DEF Store, StoreInv, Told, TypeOK
  <2>3. CASE Delete(r)
    BY <2>3 DEF Delete, TypeOK
  <2> QED
    BY <2>1, <2>2, <2>3
<1> QED
  BY <1>1, <1>2, WatchTypes, StoreInductive, PTL DEF Spec, ChangesReported

-----------------------------------------------------------------------------
(***************************************************************************)
(* The claim of a draft.                                                   *)
(***************************************************************************)

\* Every variable keeps its type.
THEOREM DeliveryTypes == DeliverySpec => []DeliveryTypeOK
<1> USE DEF DeliveryTypeOK, Steps, Ended, Holding
<1>1. DeliveryInit => DeliveryTypeOK
  <2>1. DeliveryInit => receipt \in BOOLEAN
    BY DEF DeliveryInit
  <2>2. DeliveryInit => pages \in [Publishers -> 0..MaxPages - 1] /\ since \in [Publishers -> 0..Window]
    BY TimesAssumption, PagesAssumption, NoOneAssumption
    DEF DeliveryInit
  <2> QED
    BY <2>1, <2>2, TimesAssumption, PagesAssumption, NoOneAssumption DEF DeliveryInit
<1>2. DeliveryTypeOK /\ [DeliveryNext]_deliveryVars => DeliveryTypeOK'
  <2> SUFFICES ASSUME DeliveryTypeOK, [DeliveryNext]_deliveryVars PROVE DeliveryTypeOK'
    OBVIOUS
  <2> USE TimesAssumption, PagesAssumption, NoOneAssumption
      DEF StepTo, store, search, net
  <2>1. ASSUME NEW p \in Publishers, Start(p) PROVE DeliveryTypeOK'
    BY <2>1 DEF Start
  <2>2. ASSUME NEW p \in Publishers, ClaimDelivery(p) PROVE DeliveryTypeOK'
    BY <2>2 DEF ClaimDelivery, Expired
  <2>3. ASSUME NEW p \in Publishers, Recheck(p) PROVE DeliveryTypeOK'
    BY <2>3 DEF Recheck, Release
  <2>4. ASSUME NEW p \in Publishers, RefreshForPage(p) PROVE DeliveryTypeOK'
    BY <2>4 DEF RefreshForPage, Refresh
  <2>5. ASSUME NEW p \in Publishers, Get(p) PROVE DeliveryTypeOK'
    BY <2>5 DEF Get, Release
  <2>6. ASSUME NEW p \in Publishers, RefreshForPost(p) PROVE DeliveryTypeOK'
    BY <2>6 DEF RefreshForPost, Refresh
  <2>7. ASSUME NEW p \in Publishers, Post(p) PROVE DeliveryTypeOK'
    BY <2>7 DEF Post
  <2>8. ASSUME NEW p \in Publishers, Deliver(p) PROVE DeliveryTypeOK'
    BY <2>8 DEF Deliver, Created, Rejected
  <2>9. ASSUME NEW p \in Publishers, GiveUp(p) PROVE DeliveryTypeOK'
    BY <2>9 DEF GiveUp
  <2>10. ASSUME NEW p \in Publishers, MarkComplete(p) PROVE DeliveryTypeOK'
    BY <2>10 DEF MarkComplete
  <2>11. ASSUME NEW p \in Publishers, FinishDelivery(p) PROVE DeliveryTypeOK'
    BY <2>11 DEF FinishDelivery, Release
  <2>12. ASSUME NEW p \in Publishers, Crash(p) PROVE DeliveryTypeOK'
    BY <2>12 DEF Crash
  <2>13. CASE Tick
    BY <2>13 DEF Tick, Expired, Pending
  <2>14. CASE UNCHANGED deliveryVars
    BY <2>14 DEF deliveryVars
  <2> QED
    BY <2>1, <2>2, <2>3, <2>4, <2>5, <2>6, <2>7, <2>8, <2>9, <2>10, <2>11, <2>12, <2>13, <2>14
       DEF DeliveryNext, Step
<1> QED
  BY <1>1, <1>2, PTL DEF DeliverySpec

-----------------------------------------------------------------------------
\* The only steps that open a window are a refresh by the holder of the claim,
\* who has found no issue, and the sending of the POST.
LEMMA StepKeeps ==
  ASSUME DeliveryTypeOK, DeliveryInv,
         NEW p \in Publishers, Start(p) \/ Step(p) \/ Crash(p)
  PROVE  DeliveryInv'
<1> USE TimesAssumption, PagesAssumption, NoOneAssumption
      DEF DeliveryTypeOK, DeliveryInv, OneIssue,
            PostHasClaim, WireIsPast, SearchIsTrue, Pending,
            StepTo, store, search, net
<1>1. CASE Start(p)
  BY <1>1 DEF Start, Holding, Ended
<1>2. CASE ClaimDelivery(p)
  BY <1>2 DEF ClaimDelivery, Expired, Holding
<1>3. CASE Recheck(p)
  <2>1. step' \in {[step EXCEPT ![p] = "done"], [step EXCEPT ![p] = "page"]}
    BY <1>3, Zenon DEF Recheck
  <2>2. /\ claim' = claim \/ (claim = p /\ claim' = NoOne)
        /\ claim' = claim => age' = age
    BY <1>3, Zenon DEF Recheck, Release
  <2>3. UNCHANGED <<search, net, since>> /\ step[p] = "recheck"
    BY <1>3 DEF Recheck
  <2>4. \A q \in Publishers : q # p => step'[q] = step[q]
    BY <2>1
  <2>5. step'[p] \in {"done", "page"} /\ p \notin Pending /\ p \notin Pending'
    BY <2>1, <2>3 DEF Holding
  <2>6. OneIssue' /\ WireIsPast'
    BY <2>1, <2>3, <2>4, <2>5
  <2>7. PostHasClaim'
    BY <2>2, <2>3, <2>4, <2>5
  <2>8. SearchIsTrue'
    <3> SUFFICES ASSUME NEW q \in Publishers
                 PROVE  /\ step'[q] \in {"claim", "recheck"} => pages'[q] = 0
                        /\ step'[q] = "refresh" => q \notin saw'
                        /\ claim' = q /\ q \notin saw'
                           /\ (step'[q] = "refresh" \/ (step'[q] \in {"page", "get"} /\ pages'[q] > 0))
                             => issues' = 0
      OBVIOUS
    <3> QED
      BY <2>2, <2>3, <2>4, <2>5
  <2> QED
    BY <2>6, <2>7, <2>8
<1>4. CASE RefreshForPage(p)
  BY <1>4 DEF RefreshForPage, Refresh, Holding
<1>5. CASE Get(p)
  BY <1>5 DEF Get, Release, Holding
<1>6. CASE RefreshForPost(p)
  BY <1>6 DEF RefreshForPost, Refresh, Holding
<1>7. CASE Post(p)
  BY <1>7 DEF Post, Holding
<1>8. CASE GiveUp(p)
  BY <1>8 DEF GiveUp, Holding
<1>9. CASE MarkComplete(p)
  BY <1>9 DEF MarkComplete, Holding
<1>10. CASE FinishDelivery(p)
  BY <1>10 DEF FinishDelivery, Release, Holding
<1>11. CASE Crash(p)
  BY <1>11 DEF Crash, Holding, Ended
<1> QED
  BY <1>1, <1>2, <1>3, <1>4, <1>5, <1>6, <1>7, <1>8, <1>9, <1>10, <1>11 DEF Step

\* GitHub acts on the only POST there is.
LEMMA DeliverKeeps ==
  ASSUME DeliveryTypeOK, DeliveryInv,
         NEW p \in Publishers, Deliver(p)
  PROVE  DeliveryInv'
<1> USE DEF DeliveryTypeOK, DeliveryInv, OneIssue, PostHasClaim,
            WireIsPast, SearchIsTrue, Pending,
            StepTo, store, search, net
<1>1. CASE Created(p)
  BY <1>1 DEF Created, Holding
<1>2. CASE Rejected(p)
  BY <1>2 DEF Rejected, Holding
<1> QED
  BY <1>1, <1>2 DEF Deliver

\* The claim ages with the POST that it covers.
LEMMA TickKeeps ==
  ASSUME DeliveryTypeOK, DeliveryInv, Tick
  PROVE  DeliveryInv'
BY TimesAssumption, PagesAssumption, NoOneAssumption
    DEF DeliveryTypeOK, DeliveryInv, OneIssue,
       PostHasClaim, WireIsPast, SearchIsTrue, Pending,
       Tick, Expired, store, search, net

\* A draft becomes at most one issue: a claim expires only after the POST that
\* was sent under it can have no effect any more (claim_delivery).
THEOREM AtMostOneIssue == DeliverySpec => []OneIssue
<1>1. DeliveryInit => DeliveryInv
  BY DEF DeliveryInit, DeliveryInv, OneIssue, PostHasClaim,
         WireIsPast, SearchIsTrue, Pending
<1>2. DeliveryTypeOK /\ DeliveryInv /\ [DeliveryNext]_deliveryVars => DeliveryInv'
  <2>1. ASSUME DeliveryTypeOK, DeliveryInv, UNCHANGED deliveryVars PROVE DeliveryInv'
    BY <2>1 DEF deliveryVars, DeliveryInv, OneIssue, PostHasClaim,
                WireIsPast, SearchIsTrue, Pending
  <2> QED
    BY <2>1, StepKeeps, DeliverKeeps, TickKeeps DEF DeliveryNext
<1>3. DeliveryInv => OneIssue
  BY DEF DeliveryInv
<1> QED
  BY <1>1, <1>2, <1>3, DeliveryTypes, PTL DEF DeliverySpec

-----------------------------------------------------------------------------
\* A publisher about to write the receipt has seen the issue.
ReceiptInv ==
  /\ DoneIsDelivered
  /\ \A p \in Publishers :
       /\ step[p] = "receipt" => issues > 0
       /\ step[p] = "release" => receipt

\* Success, by whichever path, means an issue at GitHub and a receipt.
THEOREM DoneMeansDelivered == DeliverySpec => []DoneIsDelivered
<1> USE DEF ReceiptInv, DoneIsDelivered
<1>1. DeliveryInit => ReceiptInv
  BY DEF DeliveryInit
<1>2. DeliveryTypeOK /\ ReceiptInv /\ [DeliveryNext]_deliveryVars => ReceiptInv'
  <2> SUFFICES ASSUME DeliveryTypeOK, ReceiptInv, [DeliveryNext]_deliveryVars PROVE ReceiptInv'
    OBVIOUS
  <2> USE DEF DeliveryTypeOK, StepTo, store, search, net
  <2>1. ASSUME NEW p \in Publishers, Start(p) PROVE ReceiptInv'
    BY <2>1 DEF Start
  <2>2. ASSUME NEW p \in Publishers, ClaimDelivery(p) \/ Recheck(p) PROVE ReceiptInv'
    BY <2>2 DEF ClaimDelivery, Recheck, Release
  <2>3. ASSUME NEW p \in Publishers, RefreshForPage(p) \/ RefreshForPost(p) PROVE ReceiptInv'
    BY <2>3 DEF RefreshForPage, RefreshForPost, Refresh
  <2>4. ASSUME NEW p \in Publishers, Get(p) PROVE ReceiptInv'
    BY <2>4 DEF Get, Release
  <2>5. ASSUME NEW p \in Publishers, Post(p) \/ GiveUp(p) \/ Crash(p) PROVE ReceiptInv'
    BY <2>5 DEF Post, GiveUp, Crash
  <2>6. ASSUME NEW p \in Publishers, Deliver(p) PROVE ReceiptInv'
    BY <2>6 DEF Deliver, Created, Rejected
  <2>7. ASSUME NEW p \in Publishers, MarkComplete(p) \/ FinishDelivery(p) PROVE ReceiptInv'
    BY <2>7 DEF MarkComplete, FinishDelivery, Release
  <2>8. CASE Tick
    BY <2>8 DEF Tick
  <2>9. CASE UNCHANGED deliveryVars
    BY <2>9 DEF deliveryVars
  <2> QED
    BY <2>1, <2>2, <2>3, <2>4, <2>5, <2>6, <2>7, <2>8, <2>9 DEF DeliveryNext, Step
<1> QED
  BY <1>1, <1>2, DeliveryTypes, PTL DEF DeliverySpec
===============================================================================
