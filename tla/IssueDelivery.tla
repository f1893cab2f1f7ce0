---------------------------- MODULE IssueDelivery ----------------------------
(***************************************************************************)
(* publish_github_issue: an approved draft becomes one issue at GitHub.    *)
(*                                                                         *)
(* Publishers (requests to the service and `termite` commands) share a     *)
(* claim on the draft in SQLite.  The holder looks through the issues for  *)
(* the draft's marker, posts if it is on no page, and writes a receipt.    *)
(* A claim not refreshed for Lease ticks may be taken; a request has a     *)
(* timeout, so a POST has no effect later than Window ticks after the      *)
(* refresh before it.  That relation is all that keeps a publisher whose   *)
(* answer was lost apart from the next.  There is one draft.               *)
(***************************************************************************)
EXTENDS Naturals

CONSTANTS Publishers,
          NoOne,
          Lease,      \* 2 minutes, in ticks
          Window,     \* refresh_delivery_claim, the POST and its delivery
          MaxPages    \* pages of issues at GitHub

ASSUME TimesAssumption == Lease \in Nat /\ Window \in Nat /\ Window <= Lease
ASSUME PagesAssumption == MaxPages \in Nat \ {0}
ASSUME NoOneAssumption == NoOne \notin Publishers

VARIABLES
  issues,   \* issues at GitHub with the draft's marker
  receipt,  \* delivery_receipts has a row for the draft
  claim,    \* who holds the draft in delivery_claims
  age,      \* time since claimed_at, not counted beyond Lease + 1
  step,     \* step[p]: the next step of the publisher, or how its call ended
  pages,    \* pages[p]: pages it has read without finding the marker
  saw,      \* publishers for whose first page an issue had the marker
  wire,     \* publishers whose POST may still take effect
  since     \* since[p]: time since it refreshed its claim for the POST

store == <<receipt, claim, age>>
search == <<pages, saw>>
net == <<issues, wire>>
deliveryVars == <<issues, receipt, claim, age, step, pages, saw, wire, since>>

Ended == {"idle", "done", "failed"}
Holding == {"recheck", "page", "get", "refresh", "post", "receipt", "release"}
Steps == Ended \cup Holding \cup {"claim", "answer"}

DeliveryInit ==
  /\ issues = 0 /\ receipt = FALSE
  /\ claim = NoOne /\ age = 0
  /\ step = [p \in Publishers |-> "idle"]
  /\ pages = [p \in Publishers |-> 0]
  /\ saw = {}
  /\ wire = {}
  /\ since = [p \in Publishers |-> 0]

StepTo(p, q) == step' = [step EXCEPT ![p] = q]

Expired == age > Lease

\* DELETE ... WHERE draft_id AND owner: nobody else's claim.
Release(p) ==
  /\ claim' = IF claim = p THEN NoOne ELSE claim
  /\ age' = IF claim = p THEN 0 ELSE age
  /\ UNCHANGED receipt

\* A call begins; a draft with a receipt is not published again.
Start(p) ==
  /\ step[p] \in Ended
  /\ StepTo(p, IF receipt THEN "done" ELSE "claim")
  /\ pages' = [pages EXCEPT ![p] = 0]
  /\ saw' = saw \ {p}
  /\ UNCHANGED <<store, net, since>>

\* claim_delivery: an expired claim is deleted, then the first one counts.
ClaimDelivery(p) ==
  /\ step[p] = "claim"
  /\ \/ /\ claim = NoOne \/ Expired
        /\ claim' = p /\ age' = 0 /\ StepTo(p, "recheck")
     \/ /\ claim # NoOne /\ ~Expired
        /\ StepTo(p, "failed") /\ UNCHANGED <<claim, age>>
  /\ UNCHANGED <<receipt, search, net, since>>

\* Another publisher may have finished between the first look and the claim.
Recheck(p) ==
  /\ step[p] = "recheck"
  /\ \/ receipt /\ Release(p) /\ StepTo(p, "done")
     \/ ~receipt /\ StepTo(p, "page") /\ UNCHANGED store
  /\ UNCHANGED <<search, net, since>>

\* refresh_delivery_claim: an error, which ends the call, if the claim is lost.
Refresh(p, next) ==
  /\ \/ claim = p /\ age' = 0 /\ StepTo(p, next)
     \/ claim # p /\ StepTo(p, "failed") /\ UNCHANGED age
  /\ UNCHANGED <<receipt, claim>>

RefreshForPage(p) ==
  /\ step[p] = "page"
  /\ Refresh(p, "get")
  /\ UNCHANGED <<search, net, since>>

\* Mutant: the same page is asked for again.
GetSamePage(p) ==
  /\ step[p] = "get"
  /\ saw' = IF pages[p] = 0 /\ issues > 0 THEN saw \cup {p} ELSE saw
  /\ StepTo(p, "page")
  /\ UNCHANGED <<store, net, since, pages>>

\* The issues are listed newest first, so that a later one only moves an
\* issue to a later page: one that was there at the first page is met.
Get(p) ==
  /\ step[p] = "get"
  /\ saw' = IF pages[p] = 0 /\ issues > 0 THEN saw \cup {p} ELSE saw
  /\ \/ issues > 0 /\ StepTo(p, "receipt") /\ UNCHANGED <<store, pages>>
     \/ /\ pages[p] + 1 < MaxPages
        /\ pages' = [pages EXCEPT ![p] = @ + 1]
        /\ StepTo(p, "page") /\ UNCHANGED store
     \/ p \notin saw' /\ StepTo(p, "refresh") /\ UNCHANGED <<store, pages>>
     \/ Release(p) /\ StepTo(p, "failed") /\ UNCHANGED pages
  /\ UNCHANGED <<net, since>>

RefreshForPost(p) ==
  /\ step[p] = "refresh"
  /\ Refresh(p, "post")
  /\ since' = [since EXCEPT ![p] = 0]
  /\ UNCHANGED <<search, net>>

Post(p) ==
  /\ step[p] = "post"
  /\ wire' = wire \cup {p}
  /\ StepTo(p, "answer")
  /\ UNCHANGED <<issues, store, search, since>>

\* GitHub creates the issue; the answer may be lost, or nobody waits for it.
Created(p) ==
  /\ p \in wire
  /\ wire' = wire \ {p}
  /\ issues' = issues + 1
  /\ \/ step[p] = "answer" /\ \E q \in {"receipt", "failed"} : StepTo(p, q)
     \/ step[p] # "answer" /\ UNCHANGED step
  /\ UNCHANGED <<store, search, since>>

\* Mutant: the status of the answer is not looked at.
RejectedUnseen(p) ==
  /\ p \in wire
  /\ wire' = wire \ {p}
  /\ IF step[p] = "answer" THEN StepTo(p, "receipt") ELSE UNCHANGED step
  /\ UNCHANGED <<issues, store, search, since>>

\* The request is rejected, or lost.
Rejected(p) ==
  /\ p \in wire
  /\ wire' = wire \ {p}
  /\ IF step[p] = "answer" THEN StepTo(p, "failed") ELSE UNCHANGED step
  /\ UNCHANGED <<issues, store, search, since>>

\* Mutant: after a timeout the claim is released for an immediate retry.
GiveUpReleasing(p) ==
  /\ step[p] = "answer"
  /\ Release(p) /\ StepTo(p, "failed")
  /\ UNCHANGED <<search, net, since>>

\* The timeout of the client: the claim stays, since the POST may have worked.
GiveUp(p) ==
  /\ step[p] = "answer"
  /\ StepTo(p, "failed")
  /\ UNCHANGED <<store, search, net, since>>

\* mark_delivery_complete, which does not ask for the claim.
MarkComplete(p) ==
  /\ step[p] = "receipt"
  /\ receipt' = TRUE
  /\ StepTo(p, "release")
  /\ UNCHANGED <<claim, age, search, net, since>>

FinishDelivery(p) ==
  /\ step[p] = "release"
  /\ Release(p) /\ StepTo(p, "done")
  /\ UNCHANGED <<search, net, since>>

\* The publisher's process is killed.
Crash(p) ==
  /\ step[p] \notin Ended
  /\ StepTo(p, "failed")
  /\ UNCHANGED <<store, search, net, since>>

\* Publishers for whose POST the window is open.
Pending == {p \in Publishers : step[p] = "post"} \cup wire

\* Time passes, but not beyond the window of a POST.
Tick ==
  /\ \A p \in Pending : since[p] < Window
  /\ age' = IF claim = NoOne THEN 0 ELSE IF Expired THEN age ELSE age + 1
  /\ since' = [p \in Publishers |-> IF p \in Pending THEN since[p] + 1 ELSE 0]
  /\ UNCHANGED <<issues, receipt, claim, step, search, wire>>

Step(p) ==
  \/ ClaimDelivery(p) \/ Recheck(p) \/ RefreshForPage(p) \/ Get(p) \/ RefreshForPost(p)
  \/ Post(p) \/ GiveUp(p) \/ MarkComplete(p) \/ FinishDelivery(p)
Deliver(p) == Created(p) \/ Rejected(p)

DeliveryNext ==
  \/ \E p \in Publishers : Start(p) \/ Step(p) \/ Deliver(p) \/ Crash(p)
  \/ Tick

DeliverySpec == DeliveryInit /\ [][DeliveryNext]_deliveryVars
FairDelivery ==
  /\ DeliverySpec /\ WF_deliveryVars(Tick)
  /\ \A p \in Publishers : WF_deliveryVars(Step(p)) /\ WF_deliveryVars(Deliver(p))

-----------------------------------------------------------------------------
DeliveryTypeOK ==
  /\ issues \in Nat /\ receipt \in BOOLEAN
  /\ claim \in Publishers \cup {NoOne} /\ age \in 0..Lease + 1
  /\ step \in [Publishers -> Steps]
  /\ pages \in [Publishers -> 0..MaxPages - 1]
  /\ saw \subseteq Publishers
  /\ wire \subseteq Publishers
  /\ since \in [Publishers -> 0..Window]

\* "A claim is taken over only when the request before can no longer be at
\* work" (claim_delivery): whatever answers are lost and whoever is killed, a
\* draft becomes at most one issue.
OneIssue == issues <= 1

\* A call that reports success, or finds that there is nothing to do, leaves
\* an issue at GitHub and a receipt of it.
DoneIsDelivered ==
  /\ receipt => issues > 0
  /\ \A p \in Publishers : step[p] = "done" => receipt

\* A claim does not outlive its publisher for ever: it is given back or can
\* be taken, although a POST with an unknown result does not release it.
ClaimEnds == claim # NoOne ~> claim = NoOne \/ Expired

\* Why: while a POST may take effect its publisher has the claim, as fresh as
\* the POST, and there is no issue; nor is there while the holder's search has
\* found none.
PostHasClaim ==
  \A p \in Pending : claim = p /\ age = since[p] /\ issues = 0
WireIsPast == \A p \in wire : step[p] \notin Holding
SearchIsTrue ==
  \A p \in Publishers :
    /\ step[p] \in {"claim", "recheck"} => pages[p] = 0
    /\ step[p] = "refresh" => p \notin saw
    /\ claim = p /\ p \notin saw /\ (step[p] = "refresh" \/ (step[p] \in {"page", "get"} /\ pages[p] > 0))
         => issues = 0
DeliveryInv == OneIssue /\ PostHasClaim /\ WireIsPast /\ SearchIsTrue
=============================================================================
