---------------------------- MODULE ProtectionGate ----------------------------
(***************************************************************************)
(* The protection gate: scan, review of every new commit, tests and        *)
(* verification of fixes, as `sync`, the apply jobs of the service and the *)
(* candidates of an investigation run it, over one store.                  *)
(*                                                                         *)
(* A gate is one run of it in a process of its own or a thread of the      *)
(* service: several overlap, as the commands and the apply jobs take no    *)
(* lock.  Every statement on the store is a step of its own, and a gate    *)
(* may be killed between any two.  What a gate reads and what the model    *)
(* answers may differ from gate to gate.  Each works in a tree of its own. *)
(* The admin edits the policy meanwhile; a gate keeps the one it started   *)
(* with.  protection.enabled is set.                                       *)
(***************************************************************************)
EXTENDS SecurityPolicy, StaticScan

CONSTANTS Gates,
          Commits,     \* commits a sync may bring
          Signals,     \* messages from outside
          Reports,     \* what static scans report
          Projects,    \* names protection.project.name may have
          Answers,     \* decisions of the model
          Outputs,     \* what passing tests print
          Github,      \* whether the fork is a GitHub remote, where issues can go
          MaxEdits,    \* bound: edits of the policy
          None

ASSUME GateAssumption ==
  /\ Answers \subseteq Decisions /\ MaxEdits \in Nat /\ Github \in BOOLEAN
  /\ None \notin Reports

VARIABLES
  policy, edits,    \* the configuration: project name, and whether the profile is strict
  run,              \* run[g]: step and local variables of the gate
  signals,          \* security_signals: id and dedupe key
  findings, drafts, \* protection_findings by dedupe key, and those with a draft
  cache,            \* commit_security_reviews, by dedupe key
  contracts,        \* security_contract_verifications, by dedupe key
  candidates,       \* candidates: the gate that made it and its finding
  verifications,    \* their verifications: gate and verdict
  said, confirmed   \* what the model has ever answered (history)

storeVars == <<signals, findings, drafts, cache, contracts, candidates, verifications>>
history == <<said, confirmed>>
vars == <<policy, edits, run, storeVars, history>>

Policies == [project : Projects, strict : BOOLEAN]
Fix(g) == <<"candidate", g>>
Final == {"passed", "unsaved", "ended"}

\* A gate that has not begun, or has ended and forgotten everything.
Blank(step) ==
  [pc       |-> step, kind |-> "sync", pol |-> None,
   report   |-> None,  \* of the static scan
   range    |-> {},    \* the commits to judge
   reviews  |-> {},    \* commit, decision and verdict
   asking   |-> None,  \* what the model is asked about
   output   |-> None,  \* of the tests
   proven   |-> {},    \* fixes that are verified
   signal   |-> None, decision |-> None, changes |-> FALSE]   \* of an investigation

Init ==
  /\ policy \in Policies /\ edits = 0
  /\ run = [g \in Gates |-> Blank("idle")]
  /\ signals = {} /\ findings = <<>> /\ drafts = {} /\ cache = <<>> /\ contracts = <<>>
  /\ candidates = {} /\ verifications = {}
  /\ said = {} /\ confirmed = {}

At(g, step) == run[g].pc = step
Continue(g, r) == run' = [run EXCEPT ![g] = r]
Goto(g, step) == Continue(g, [run[g] EXCEPT !.pc = step])
End(g, step) == Continue(g, Blank(step))

\* A sync reports the refusal; an investigation records it with its candidate.
Failed(g) == [Blank("failed") EXCEPT !.kind = run[g].kind, !.pol = run[g].pol, !.signal = run[g].signal,
                                     !.decision = run[g].decision]
Refuse(g) == IF run[g].kind = "sync" THEN End(g, "ended") ELSE Continue(g, Failed(g))

Put(f, key, value) == [k \in DOMAIN f \cup {key} |-> IF k = key THEN value ELSE f[k]]

\* An upsert gives way to a row with its dedupe key, not to one with its id.
Collides(row) == \E r \in signals : r.id = row.id /\ r.key # row.key

-----------------------------------------------------------------------------
(* Start.                                                                  *)

\* A sync, or the tests of an apply job, with the new commits of the branch.
StartSync(g) ==
  /\ At(g, "idle")
  /\ \E cs \in SUBSET Commits : Continue(g, [Blank("scan") EXCEPT !.pol = policy, !.range = cs])
  /\ UNCHANGED <<policy, edits, storeVars, history>>

\* An investigation: the model picks at most three of the tracked files and decides by them.
StartInvestigation(g) ==
  /\ At(g, "idle")
  /\ \/ End(g, "ended")
     \/ \E s \in Signals, d \in Answers, changes \in BOOLEAN :
          /\ Valid(Normalised(d, changes))
          /\ Continue(g, [Blank("investigated") EXCEPT !.kind = "candidate", !.pol = policy, !.signal = s,
                            !.decision = Normalised(d, changes), !.changes = changes])
  /\ UNCHANGED <<policy, edits, storeVars, history>>

SignalKey(g) == <<"signal", run[g].pol.project, run[g].signal>>

SaveSignal(g) ==
  /\ At(g, "investigated")
  /\ signals' = signals \cup {[id |-> SignalKey(g), key |-> SignalKey(g)]}
  /\ Goto(g, "signal_finding")
  /\ UNCHANGED <<policy, edits, findings, drafts, cache, contracts, candidates, verifications, history>>

SaveSignalFinding(g) ==
  /\ At(g, "signal_finding")
  /\ findings' = Put(findings, SignalKey(g), SignalFinding(run[g].decision, run[g].pol.strict))
  /\ Goto(g, "plan")
  /\ UNCHANGED <<policy, edits, signals, drafts, cache, contracts, candidates, verifications, history>>

\* The plan is stored.  If there is something to do and the automation may, a candidate
\* is written to a worktree at HEAD, given changes and a contract.
SavePlan(g) ==
  /\ At(g, "plan")
  /\ LET d == run[g].decision
         strict == run[g].pol.strict IN
     \/ Goto(g, "draft")
     \/ RequiresRemediation(d, strict) /\ Refuse(g)
     \/ /\ RequiresRemediation(d, strict) /\ run[g].changes /\ d.contract = "complete"
        /\ Continue(g, [run[g] EXCEPT !.pc = "scan", !.range = {Fix(g)}])
  /\ UNCHANGED <<policy, edits, storeVars, history>>

-----------------------------------------------------------------------------
(* Scan and reviews.                                                       *)

\* enforce_prebuild_gate: the scan ends without a report or with one.
Scan(g) ==
  /\ At(g, "scan")
  /\ \/ Refuse(g)
     \/ \E r \in Reports : Continue(g, [run[g] EXCEPT !.pc = "save_scan", !.report = r])
  /\ UNCHANGED <<policy, edits, storeVars, history>>

\* The id comes from the report alone, the dedupe key from the project's name as well.
ScanRow(g) ==
  [id |-> <<"scan", DedupeKey(run[g].report)>>,
   key |-> <<"scan", run[g].pol.project, DedupeKey(run[g].report)>>]

\* Mutant: a scan whose signal is there already is not saved again.
SaveScanOnce(g) ==
  /\ At(g, "save_scan")
  /\ \/ Refuse(g) /\ UNCHANGED signals
     \/ /\ Collides(ScanRow(g))
        /\ IF run[g].kind = "sync" THEN End(g, "unsaved") ELSE Refuse(g)
        /\ UNCHANGED signals
     \/ /\ ~Collides(ScanRow(g))
        /\ signals' = signals \cup {ScanRow(g)}
        /\ Goto(g, IF ScanRow(g) \in signals THEN "scanned" ELSE "scan_finding")
  /\ UNCHANGED <<policy, edits, findings, drafts, cache, contracts, candidates, verifications, history>>

\* The signal of the scan is stored; an error ends the gate.
SaveScan(g) ==
  /\ At(g, "save_scan")
  /\ \/ Refuse(g) /\ UNCHANGED signals
     \/ /\ Collides(ScanRow(g))
        /\ IF run[g].kind = "sync" THEN End(g, "unsaved") ELSE Refuse(g)
        /\ UNCHANGED signals
     \/ /\ ~Collides(ScanRow(g))
        /\ signals' = signals \cup {ScanRow(g)}
        /\ Goto(g, "scan_finding")
  /\ UNCHANGED <<policy, edits, findings, drafts, cache, contracts, candidates, verifications, history>>

ScanFinding(report) ==
  [state |-> IF BuildAllowed(report) THEN "unaffected" ELSE "affected", allowed |-> BuildAllowed(report)]

SaveScanFinding(g) ==
  /\ At(g, "scan_finding")
  /\ \/ Refuse(g) /\ UNCHANGED findings
     \/ /\ findings' = Put(findings, ScanRow(g).key, ScanFinding(run[g].report))
        /\ Goto(g, "scan_draft")
  /\ UNCHANGED <<policy, edits, signals, drafts, cache, contracts, candidates, verifications, history>>

\* A draft only for blockers, and only if there is a place for it.
SaveScanDraft(g) ==
  /\ At(g, "scan_draft")
  /\ \/ Refuse(g) /\ UNCHANGED drafts
     \/ /\ drafts' = IF Github /\ ~BuildAllowed(run[g].report) THEN drafts \cup {ScanRow(g).key} ELSE drafts
        /\ Goto(g, "scanned")
  /\ UNCHANGED <<policy, edits, signals, findings, cache, contracts, candidates, verifications, history>>

\* A blocker ends the gate once it is recorded.
CheckScan(g) ==
  /\ At(g, "scanned")
  /\ IF BuildAllowed(run[g].report) THEN Goto(g, "review") ELSE Refuse(g)
  /\ UNCHANGED <<policy, edits, storeVars, history>>

Reviewed(g) == {r.commit : r \in run[g].reviews}

\* The key of a review: project, fingerprint of the policy, commit.
ReviewKeyOfCommit(g, c) == <<"review", c>>
ReviewKey(g, c) == <<"review", run[g].pol, c>>

WithReview(g, r, step) == [run[g] EXCEPT !.pc = step, !.reviews = @ \cup {r}]

\* A review found in the store is taken, for any other the model is asked.
LookUp(g) ==
  /\ At(g, "review")
  /\ \E c \in run[g].range \ Reviewed(g) :
       IF ReviewKey(g, c) \in DOMAIN cache THEN Continue(g, WithReview(g, cache[ReviewKey(g, c)], "review"))
       ELSE Continue(g, [run[g] EXCEPT !.pc = "ask", !.asking = c])
  /\ UNCHANGED <<policy, edits, storeVars, history>>

\* The answer is judged and stored.  No answer, an invalid one or a patch too large refuses.
Ask(g) ==
  /\ At(g, "ask")
  /\ \/ Refuse(g) /\ UNCHANGED <<cache, said>>
     \/ \E d \in Answers :
          LET r == [commit |-> run[g].asking, decision |-> d, verdict |-> Evaluate(d, run[g].pol.strict)] IN
          /\ Valid(d)
          /\ said' = said \cup {<<run[g].pol, r.commit, r.verdict>>}
          /\ cache' = Put(cache, ReviewKey(g, r.commit), r)
          /\ Continue(g, WithReview(g, r, "persist"))
  /\ UNCHANGED <<policy, edits, signals, findings, drafts, contracts, candidates, verifications, confirmed>>

NeedsDraft(verdict) == verdict # "allow"

\* persist_review_finding: the signal, the finding, and a draft unless the commit is
\* allowed or there is no place for it.
PersistSignal(g) ==
  /\ At(g, "persist")
  /\ \/ Refuse(g) /\ UNCHANGED signals
     \/ /\ signals' = signals \cup {[id |-> ReviewKey(g, run[g].asking), key |-> ReviewKey(g, run[g].asking)]}
        /\ Goto(g, "persist_finding")
  /\ UNCHANGED <<policy, edits, findings, drafts, cache, contracts, candidates, verifications, history>>

PersistFinding(g) ==
  /\ At(g, "persist_finding")
  /\ \/ Refuse(g) /\ UNCHANGED findings
     \/ /\ \E r \in run[g].reviews :
             /\ r.commit = run[g].asking
             /\ findings' = Put(findings, ReviewKey(g, r.commit), ReviewFinding(r.verdict))
        /\ Goto(g, "persist_draft")
  /\ UNCHANGED <<policy, edits, signals, drafts, cache, contracts, candidates, verifications, history>>

PersistDraft(g) ==
  /\ At(g, "persist_draft")
  /\ \/ Refuse(g) /\ UNCHANGED drafts
     \/ /\ \E r \in run[g].reviews :
             /\ r.commit = run[g].asking
             /\ drafts' = IF Github /\ NeedsDraft(r.verdict) THEN drafts \cup {ReviewKey(g, r.commit)} ELSE drafts
        /\ Continue(g, [run[g] EXCEPT !.pc = "review", !.asking = None])
  /\ UNCHANGED <<policy, edits, signals, findings, cache, contracts, candidates, verifications, history>>

\* The range is judged by its worst commit.
Judge(g) ==
  /\ At(g, "review") /\ Reviewed(g) = run[g].range
  /\ IF CanProceed(Aggregate({r.verdict : r \in run[g].reviews})) THEN Goto(g, "tests") ELSE Refuse(g)
  /\ UNCHANGED <<policy, edits, storeVars, history>>

-----------------------------------------------------------------------------
(* Tests and fixes.                                                        *)

\* The tests run in the sandbox; missing or failing ones refuse.
RunTests(g) ==
  /\ At(g, "tests")
  /\ \/ Refuse(g)
     \/ \E o \in Outputs : Continue(g, [run[g] EXCEPT !.pc = "verify", !.output = o])
  /\ UNCHANGED <<policy, edits, storeVars, history>>

\* What has to be verified: the fixes of the reviews, then the one the message asked for.
Fixes(g) == {<<r.commit, r.decision>> : r \in {x \in run[g].reviews : x.verdict = "verify"}}
SignalFix(g) == IF run[g].kind = "sync" THEN {} ELSE {<<Fix(g), AsFix(run[g].decision)>>}
Unproven(g) ==
  IF Fixes(g) \subseteq run[g].proven THEN SignalFix(g) \ run[g].proven ELSE Fixes(g) \ run[g].proven

\* The key of a verification: commit and contract, test output, patch of the whole range.
ContractKeyOfFix(g, f) == <<f>>
ContractKey(g, f) == <<f, run[g].output, run[g].range>>

LookUpContract(g) ==
  /\ At(g, "verify")
  /\ \E f \in Unproven(g) :
       IF ContractKey(g, f) \notin DOMAIN contracts
       THEN Continue(g, [run[g] EXCEPT !.pc = "contract", !.asking = f])
       ELSE IF contracts[ContractKey(g, f)] THEN Continue(g, [run[g] EXCEPT !.proven = @ \cup {f}])
       ELSE Refuse(g)
  /\ UNCHANGED <<policy, edits, storeVars, history>>

\* The verifier's answer is stored, also when it fails; only a pass goes on.
AskContract(g) ==
  /\ At(g, "contract")
  /\ LET f == run[g].asking IN
     \/ Refuse(g) /\ UNCHANGED <<contracts, confirmed>>
     \/ /\ contracts' = Put(contracts, ContractKey(g, f), FALSE)
        /\ Refuse(g) /\ UNCHANGED confirmed
     \/ /\ contracts' = Put(contracts, ContractKey(g, f), TRUE)
        /\ confirmed' = confirmed \cup {<<f, run[g].output, run[g].range>>}
        /\ Continue(g, [run[g] EXCEPT !.pc = "verify", !.asking = None, !.proven = @ \cup {f}])
  /\ UNCHANGED <<policy, edits, signals, findings, drafts, cache, candidates, verifications, said>>

Pass(g) ==
  /\ At(g, "verify") /\ Unproven(g) = {}
  /\ Goto(g, IF run[g].kind = "sync" THEN "passed" ELSE "candidate")
  /\ UNCHANGED <<policy, edits, storeVars, history>>

-----------------------------------------------------------------------------
(* The end of an investigation.                                            *)

\* The candidate, whether it passed or not.
SaveCandidate(g) ==
  /\ At(g, "candidate") \/ At(g, "failed")
  /\ candidates' = candidates \cup {[gate |-> g, finding |-> SignalKey(g)]}
  /\ Goto(g, IF At(g, "candidate") THEN "verified" ELSE "rejected")
  /\ UNCHANGED <<policy, edits, signals, findings, drafts, cache, contracts, verifications, history>>

\* Mutant: whatever has a verification awaits delivery.
SaveVerificationAwaits(g) ==
  /\ At(g, "verified") \/ At(g, "rejected")
  /\ verifications' = verifications \cup {[gate |-> g, passed |-> At(g, "verified")]}
  /\ Goto(g, "await")
  /\ UNCHANGED <<policy, edits, signals, findings, drafts, cache, contracts, candidates, history>>

\* Its verification; only a passed one goes on to delivery.
SaveVerification(g) ==
  /\ At(g, "verified") \/ At(g, "rejected")
  /\ verifications' = verifications \cup {[gate |-> g, passed |-> At(g, "verified")]}
  /\ Goto(g, IF At(g, "verified") THEN "await" ELSE "draft")
  /\ UNCHANGED <<policy, edits, signals, findings, drafts, cache, contracts, candidates, history>>

Await(g) ==
  /\ At(g, "await")
  /\ findings' = Put(findings, SignalKey(g), [state |-> "awaiting", allowed |-> FALSE])
  /\ Goto(g, "draft")
  /\ UNCHANGED <<policy, edits, signals, drafts, cache, contracts, candidates, verifications, history>>

\* A draft only if the project is known to be affected.
SaveDraft(g) ==
  /\ At(g, "draft")
  /\ drafts' = IF Github /\ run[g].decision.affected = "yes" THEN drafts \cup {SignalKey(g)} ELSE drafts
  /\ End(g, "ended")
  /\ UNCHANGED <<policy, edits, signals, findings, cache, contracts, candidates, verifications, history>>

-----------------------------------------------------------------------------

EditPolicy ==
  /\ edits < MaxEdits
  /\ policy' \in Policies \ {policy}
  /\ edits' = edits + 1
  /\ UNCHANGED <<run, storeVars, history>>

\* A kill, or an error that ends an investigation, at any point.
Kill(g) ==
  /\ run[g].pc \notin Final \cup {"idle"}
  /\ End(g, "ended")
  /\ UNCHANGED <<policy, edits, storeVars, history>>

GateStep(g) ==
  \/ SaveSignal(g) \/ SaveSignalFinding(g) \/ SavePlan(g)
  \/ Scan(g) \/ SaveScan(g) \/ SaveScanFinding(g) \/ SaveScanDraft(g) \/ CheckScan(g)
  \/ LookUp(g) \/ Ask(g) \/ PersistSignal(g) \/ PersistFinding(g) \/ PersistDraft(g) \/ Judge(g)
  \/ RunTests(g) \/ LookUpContract(g) \/ AskContract(g) \/ Pass(g)
  \/ SaveCandidate(g) \/ SaveVerification(g) \/ Await(g) \/ SaveDraft(g)

Next ==
  \/ \E g \in Gates : StartSync(g) \/ StartInvestigation(g) \/ GateStep(g) \/ Kill(g)
  \/ EditPolicy

Spec == Init /\ [][Next]_vars

-----------------------------------------------------------------------------
(* Properties.                                                             *)

Steps ==
  {"idle", "investigated", "signal_finding", "plan",
   "scan", "save_scan", "scan_finding", "scan_draft", "scanned",
   "review", "ask", "persist", "persist_finding", "persist_draft",
   "tests", "verify", "contract", "candidate", "failed", "verified", "rejected", "await", "draft"} \cup Final
AllCommits == Commits \cup {Fix(g) : g \in Gates}
Reviews == [commit : AllCommits, decision : Decisions, verdict : Dispositions]
RunRecords ==
  [pc : Steps, kind : {"sync", "candidate"}, pol : Policies \cup {None}, report : Reports \cup {None},
   range : SUBSET AllCommits, reviews : SUBSET Reviews,
   asking : AllCommits \cup (AllCommits \X Decisions) \cup {None}, output : Outputs \cup {None},
   proven : SUBSET (AllCommits \X Decisions), signal : Signals \cup {None},
   decision : Decisions \cup {None}, changes : BOOLEAN]
TypeOK == policy \in Policies /\ edits \in 0..MaxEdits /\ run \in [Gates -> RunRecords]

ActedOn == {"scanned", "review", "ask", "persist", "persist_finding", "persist_draft",
            "tests", "verify", "contract", "passed", "candidate"}
Running == {"tests", "verify", "contract", "passed", "candidate"}

\* No code of a project runs, and nothing passes, unless the scan found no blocker and the
\* model has reviewed every commit of the range under the very policy of the gate, with a
\* verdict that lets it through (util.rs:113-121, candidate.rs:103-120, review.rs:58-80).
JudgedBeforeRun ==
  \A g \in Gates : run[g].pc \in Running =>
    /\ run[g].report \in Reports /\ BuildAllowed(run[g].report)
    /\ \A c \in run[g].range : \E v \in Dispositions : CanProceed(v) /\ <<run[g].pol, c, v>> \in said

\* What passes has every fix of its range, and the one its message asked for, confirmed by
\* the verifier for these test results and this patch (verify.rs:57-98, candidate.rs:139-166).
PassedIsVerified ==
  \A g \in Gates : run[g].pc \in {"passed", "candidate"} =>
    \A f \in Fixes(g) \cup SignalFix(g) : <<f, run[g].output, run[g].range>> \in confirmed

\* Once a gate acts on a scan, let it pass or refuse, the store has its signal, its finding
\* and, for a blocker that can be delivered, its draft, even if an earlier gate with the
\* same report was cut between these statements (runner.rs:152-156).
ScanIsRecorded ==
  \A g \in Gates : run[g].pc \in ActedOn =>
    /\ ScanRow(g) \in signals
    /\ ScanRow(g).key \in DOMAIN findings /\ findings[ScanRow(g).key] = ScanFinding(run[g].report)
    /\ Github /\ ~BuildAllowed(run[g].report) => ScanRow(g).key \in drafts

\* A finding awaits delivery only with a candidate in the store that passed everything,
\* also after a crash (investigate.rs:200-222).
AwaitingIsVerified ==
  \A key \in DOMAIN findings : findings[key].state = "awaiting" =>
    \E c \in candidates : c.finding = key /\ [gate |-> c.gate, passed |-> TRUE] \in verifications

\* README.md:367: signal, finding and draft of a scan are saved idempotently.
SavesAreIdempotent == \A g \in Gates : ~At(g, "unsaved")
=============================================================================
