------------------------- MODULE ProtectionGateProofs -------------------------
(***************************************************************************)
(* Proofs about the verdicts, the static scan and the protection gate.     *)
(***************************************************************************)
EXTENDS ProtectionGate, TLAPS

-----------------------------------------------------------------------------
(* The verdicts.                                                           *)

\* Every decision gets one of the four verdicts.
LEMMA VerdictType == \A d, strict : Evaluate(d, strict) \in Dispositions
  BY DEF Evaluate, Dispositions

\* The ranks of the four verdicts, worst last.
LEMMA Ranks ==
  /\ Rank("allow") = 0 /\ Rank("verify") = 1 /\ Rank("needs_review") = 2 /\ Rank("block") = 3
  /\ \A v \in Dispositions : Rank(v) \in 0..3
  BY DEF Rank, Dispositions

\* AcuteRiskNeverPasses, for every decision and profile.
THEOREM AcuteRiskStops == \A d \in Decisions, strict \in BOOLEAN : AcuteRiskNeverPasses(d, strict)
<1> SUFFICES ASSUME NEW d \in Decisions, NEW strict \in BOOLEAN, d.risk, Acute(d)
             PROVE  Evaluate(d, strict) \in {"needs_review", "block"}
  BY DEF AcuteRiskNeverPasses, CanProceed
<1> QED
  BY Zenon DEF Evaluate

\* FixIsVerified, for every decision and profile.
THEOREM FixesAreVerified == \A d \in Decisions, strict \in BOOLEAN : FixIsVerified(d, strict)
<1> SUFFICES ASSUME NEW d \in Decisions, NEW strict \in BOOLEAN, d.fix, d.severity \in {"P0", "P1", "P2"}, 
                    d.affected # "no", d.reachable # "no"
             PROVE  Evaluate(d, strict) # "allow" /\ (Evaluate(d, strict) = "verify" => d.contract # "none")
  BY DEF FixIsVerified
<1> QED
  BY DEF Evaluate

\* StrictIsStricter, for every decision and pair of profiles.
THEOREM StrictStricter ==
  \A d \in Decisions, strict \in BOOLEAN, lax \in BOOLEAN : StrictIsStricter(d, strict, lax)
<1> SUFFICES ASSUME NEW d \in Decisions, NEW strict \in BOOLEAN, NEW lax \in BOOLEAN, lax => strict
             PROVE  Rank(Evaluate(d, lax)) <= Rank(Evaluate(d, strict))
  BY DEF StrictIsStricter
<1>1. Evaluate(d, lax) = Evaluate(d, strict) \/ Evaluate(d, strict) = "block"
  BY DEF Evaluate
<1>2. PICK a \in Dispositions : a = Evaluate(d, lax)
  BY VerdictType
<1>3. PICK b \in Dispositions : b = Evaluate(d, strict)
  BY VerdictType
<1>4. Rank(a) <= Rank(b)
  BY <1>1, <1>2, <1>3, Ranks
<1> QED
  BY <1>2, <1>3, <1>4

\* BlockNeedsRemedy, for every decision and profile.
THEOREM BlockRemedy == \A d \in Decisions, strict \in BOOLEAN : BlockNeedsRemedy(d, strict)
  BY DEF BlockNeedsRemedy, RequiresRemediation, Evaluate

\* RangeIsWorst, for every set of verdicts.
THEOREM RangeWorst == \A ds \in SUBSET Dispositions : RangeIsWorst(ds)
<1> SUFFICES ASSUME NEW ds \in SUBSET Dispositions PROVE RangeIsWorst(ds)
  OBVIOUS
<1>1. Aggregate(ds) \in Dispositions
  BY DEF Aggregate, Dispositions
<1>2. \A v \in ds : Rank(v) <= Rank(Aggregate(ds))
  BY Ranks DEF Aggregate, Dispositions
<1>3. ds # {} => Aggregate(ds) \in ds
  BY DEF Aggregate, Dispositions
<1>4. CanProceed(Aggregate(ds)) <=> \A v \in ds : CanProceed(v)
  BY DEF CanProceed, Aggregate, Dispositions
<1> QED
  BY <1>2, <1>3, <1>4 DEF RangeIsWorst

-----------------------------------------------------------------------------
(* The static scan.                                                        *)

\* MergeHidesNothing, for every set of reports.
THEOREM MergesHideNothing == \A reports : MergeHidesNothing(reports)
  BY DEF MergeHidesNothing, BuildAllowed, Merge, Report

\* PassedIsClean, for every tree and every set of packages, of any size.
THEOREM PassedScansAreClean ==
  \A root, tree, packages : \A rust \in BOOLEAN : PassedIsClean(root, tree, packages, rust)
<1> SUFFICES ASSUME NEW root, NEW tree, NEW packages, NEW rust \in BOOLEAN,
                    ScanPasses(root, tree, packages, rust)
             PROVE  CleanTree(root, tree) /\ (rust => CleanPackages(packages))
  BY DEF PassedIsClean
<1>1. BuildAllowed(TreeReport(root, tree))
  <2>1. CASE WithDependencies(root, tree, rust)
    BY <2>1 DEF WithDependencies
  <2>2. CASE ~WithDependencies(root, tree, rust)
    BY <2>2 DEF ScanPasses, ScanReport
  <2> QED
    BY <2>1, <2>2
<1>2. CleanTree(root, tree)
  <2>1. \A f \in StaticFiles(root, tree) : BuildAllowed(FileReport(f))
    BY <1>1, MergesHideNothing DEF MergeHidesNothing, TreeReport
  <2> QED
    BY <2>1 DEF CleanTree, ScanPasses, ScanFails, TreeFails
<1>3. ASSUME rust PROVE CleanPackages(packages)
  <2>1. WithDependencies(root, tree, rust)
    BY <1>1, <1>3 DEF WithDependencies
  <2> DEFINE others == Report({<<"unscanned-source", q.id>> : q \in External(packages) \ Fetched(packages)}, {})
             all == {ArchiveReport(q) : q \in Fetched(packages)} \cup {others}
  <2>2. \A r \in all : BuildAllowed(r)
    <3>1. DependencyReport(packages) = Merge(all)
      BY DEF DependencyReport
    <3>2. BuildAllowed(Merge(all))
      BY <2>1, <3>1, MergesHideNothing DEF MergeHidesNothing, ScanPasses, ScanReport
    <3> QED
      <4> HIDE DEF all
      <4> QED
        BY <3>2, MergesHideNothing DEF MergeHidesNothing
  <2>3. ~DependenciesFail(packages)
    BY <2>1 DEF ScanPasses, ScanFails
  <2> SUFFICES ASSUME NEW p \in External(packages)
               PROVE /\ p.source = "crates.io" /\ p.checksum /\ Archive(p) = "match"
                     /\ \A e \in p.entries : e.kind = "file" /\ e.file.name \in {"Cargo.toml", "build.rs"} =>
                          Readable(e.file) /\ BuildAllowed(FileReport(e.file))
    BY DEF CleanPackages
  <2>4. p \in Fetched(packages)
    <3>1. BuildAllowed(others)
      BY <2>2
    <3>2. \A q \in External(packages) \ Fetched(packages) : <<"unscanned-source", q.id>> \in others.blockers
      BY DEF Report
    <3> QED
      <4> HIDE DEF others
      <4> QED
        BY <3>1, <3>2 DEF BuildAllowed
  <2>5. ~PackageFails(p)
    BY <2>3, <2>4 DEF DependenciesFail
  <2>6. BuildAllowed(ArchiveReport(p))
    BY <2>2, <2>4
  <2>7. ASSUME NEW e \in p.entries, e.kind = "file" /\ e.file.name \in {"Cargo.toml", "build.rs"}
        PROVE  Readable(e.file) /\ BuildAllowed(FileReport(e.file))
    <3>1. BuildAllowed(FileReport(e.file))
      BY <2>6, <2>7, MergesHideNothing DEF MergeHidesNothing, ArchiveReport
    <3>2. Readable(e.file)
      BY <2>5, <2>7 DEF PackageFails, ArchiveFails, EntryFails
    <3> QED
      BY <3>1, <3>2
  <2> QED
    BY <2>4, <2>5, <2>7 DEF Fetched, PackageFails
<1> QED
  BY <1>2, <1>3

-----------------------------------------------------------------------------
(* Types of the gate.                                                      *)

Busy == Steps \ (Final \cup {"idle"})

\* What the step of a gate says about its local variables.
Local(r) ==
  /\ r.pc \in Busy \cup {"passed"} => r.pol \in Policies
  /\ r.kind = "candidate" => r.decision \in Decisions
  /\ r.pc \in {"ask", "persist", "persist_finding", "persist_draft"} => r.asking \in AllCommits
  /\ r.pc = "ask" => \A x \in r.reviews : x.commit # r.asking
  /\ r.pc = "contract" => r.asking \in AllCommits \X Decisions
  /\ r.proven # {} => r.pc \in {"verify", "contract", "candidate", "verified", "await", "draft", "passed"}

\* A stored review is one of the model's, for the policy and the commit of its key.
CacheOK ==
  \A key \in DOMAIN cache : \E pol \in Policies, c \in AllCommits :
    /\ key = <<"review", pol, c>> /\ cache[key] \in Reviews /\ cache[key].commit = c
    /\ <<pol, c, cache[key].verdict>> \in said

TypeInv == TypeOK /\ CacheOK /\ \A g \in Gates : Local(run[g])

\* Normalising a decision yields a decision.
LEMMA NormalisedType == \A d \in Decisions, changes \in BOOLEAN : Normalised(d, changes) \in Decisions
<1> SUFFICES ASSUME NEW d \in Decisions, NEW changes \in BOOLEAN PROVE Normalised(d, changes) \in Decisions
  OBVIOUS
<1> DEFINE fix == d.fix \/ (d.affected = "yes" /\ changes /\ d.contract # "none")
<1>1. fix \in BOOLEAN
  BY DEF Decisions
<1>2. Normalised(d, changes) = [d EXCEPT !.fix = fix]
  BY DEF Normalised
<1> HIDE DEF fix
<1> QED
  BY <1>1, <1>2, Zenon DEF Decisions

\* What a candidate claims to fix is a decision.
LEMMA AsFixType == \A d \in Decisions : AsFix(d) \in Decisions
<1> SUFFICES ASSUME NEW d \in Decisions PROVE AsFix(d) \in Decisions
  OBVIOUS
<1>1. [d EXCEPT !.fix = TRUE] \in Decisions
  BY DEF Decisions
<1> QED
  BY <1>1 DEF AsFix, Decisions

\* A step of a gate changes its own local variables only.
LEMMA Moves ==
  ASSUME TypeOK, NEW g \in Gates, NEW r, Continue(g, r)
  PROVE  run'[g] = r /\ (\A h \in Gates \ {g} : run'[h] = run[h]) /\ DOMAIN run' = Gates
  BY DEF TypeOK, Continue

\* It keeps the types if its new record has them.
LEMMA Stays ==
  ASSUME TypeInv, NEW g \in Gates, NEW r \in RunRecords, Local(r), Continue(g, r)
  PROVE  run' \in [Gates -> RunRecords] /\ \A h \in Gates : Local(run'[h])
<1>1. run' \in [Gates -> RunRecords]
  BY DEF TypeInv, TypeOK, Continue
<1>2. \A h \in Gates : Local(run'[h])
  BY Moves DEF TypeInv
<1> QED
  BY <1>1, <1>2

\* A gate that ends keeps the type invariant, whatever state it ends in.
LEMMA EndStays ==
  ASSUME TypeInv, NEW g \in Gates, NEW step \in Final \ {"passed"}, End(g, step)
  PROVE  run' \in [Gates -> RunRecords] /\ \A h \in Gates : Local(run'[h])
<1>1. Blank(step) \in RunRecords
  BY DEF Blank, RunRecords, Final, Steps
<1>2. Local(Blank(step))
  BY DEF Blank, Local, Final, Busy, Steps
<1> QED
  BY <1>1, <1>2, Stays DEF End

\* A gate that only moves on keeps the type invariant.
LEMMA GotoStays ==
  ASSUME TypeInv, NEW g \in Gates, NEW step \in (Busy \ {"ask", "persist", "contract"}) \cup {"passed"},
         Goto(g, step), run[g].pc \in Busy,
         step \in {"persist_finding", "persist_draft"} => run[g].asking \in AllCommits,
         run[g].proven = {} \/ step \in {"verify", "candidate", "verified", "await", "draft", "passed"}
  PROVE  run' \in [Gates -> RunRecords] /\ \A h \in Gates : Local(run'[h])
<1> DEFINE r == [run[g] EXCEPT !.pc = step]
<1>0. run[g] \in RunRecords
  BY DEF TypeInv, TypeOK
<1>1. r \in RunRecords
  BY <1>0 DEF RunRecords, Busy, Final, Steps
<1>2. Local(r)
  BY <1>0 DEF TypeInv, Local, RunRecords, Busy, Final, Steps
<1> QED
  BY <1>1, <1>2, Stays DEF Goto

\* A refusal keeps the type invariant.
LEMMA RefuseStays ==
  ASSUME TypeInv, NEW g \in Gates, Refuse(g), run[g].pc \in Busy
  PROVE  run' \in [Gates -> RunRecords] /\ \A h \in Gates : Local(run'[h])
<1>1. CASE End(g, "ended")
  BY <1>1, EndStays DEF Final
<1>2. CASE Continue(g, Failed(g))
  <2>0. run[g] \in RunRecords /\ Local(run[g])
    BY DEF TypeInv, TypeOK
  <2> DEFINE r == Failed(g)
  <2>1. /\ r.pc = "failed" /\ r.kind = run[g].kind /\ r.pol = run[g].pol /\ r.decision = run[g].decision
        /\ r.proven = {} /\ r.reviews = {}
    BY DEF Failed, Blank
  <2>a. Blank("failed") \in RunRecords
    BY DEF Blank, RunRecords, Steps
  <2>b. /\ run[g].kind \in {"sync", "candidate"} /\ run[g].pol \in Policies \cup {None}
        /\ run[g].signal \in Signals \cup {None} /\ run[g].decision \in Decisions \cup {None}
    BY <2>0 DEF RunRecords
  <2>2. r \in RunRecords
    <3> DEFINE b == Blank("failed")
    <3>1. r = [b EXCEPT !.kind = run[g].kind, !.pol = run[g].pol, !.signal = run[g].signal,
                        !.decision = run[g].decision]
      BY DEF Failed
    <3> HIDE DEF b, r
    <3>2. b \in RunRecords
      BY <2>a DEF b
    <3> QED
      BY <2>b, <3>1, <3>2, ZenonT(40) DEF RunRecords
  <2>3. Local(r)
    <3> HIDE DEF r
    <3> QED
      BY <2>0, <2>1 DEF Local, Busy, Steps, Final
  <2> QED
    BY <1>2, <2>2, <2>3, Stays
<1> QED
  BY <1>1, <1>2 DEF Refuse

\* The store's reviews stay sound as long as only Ask adds one.
LEMMA CacheStays == ASSUME CacheOK, UNCHANGED <<cache, said>> PROVE CacheOK'
  BY DEF CacheOK

\* What is to be verified are decisions about commits.
LEMMA FixTypes ==
  ASSUME TypeInv, NEW g \in Gates
  PROVE  Fixes(g) \cup SignalFix(g) \subseteq AllCommits \X Decisions
<1>0. run[g] \in RunRecords
  BY DEF TypeInv, TypeOK
<1>1. Fixes(g) \subseteq AllCommits \X Decisions
  BY <1>0 DEF Fixes, RunRecords, Reviews
<1>2. Fix(g) \in AllCommits
  BY DEF AllCommits
<1>3. run[g].kind = "candidate" => AsFix(run[g].decision) \in Decisions
  BY AsFixType DEF TypeInv, Local
<1>4. run[g].kind = "candidate" \/ run[g].kind = "sync"
  BY <1>0 DEF RunRecords
<1>5. SignalFix(g) \subseteq AllCommits \X Decisions
  BY <1>2, <1>3, <1>4 DEF SignalFix
<1> QED
  BY <1>1, <1>5

\* Every step keeps the types.
LEMMA TypeStep == TypeInv /\ [Next]_vars => TypeInv'
<1> SUFFICES ASSUME TypeInv, [Next]_vars PROVE TypeInv'
  OBVIOUS
<1> DEFINE Kept == run' \in [Gates -> RunRecords] /\ \A h \in Gates : Local(run'[h])
<1>t. run \in [Gates -> RunRecords] /\ policy \in Policies
  BY DEF TypeInv, TypeOK
<1>r. \A g \in Gates : run[g] \in RunRecords
  BY <1>t
<1>s. {"scan", "investigated", "save_scan", "review", "ask", "persist", "verify", "contract"} \subseteq Steps
  BY DEF Steps
<1>a. AllCommits = Commits \cup {Fix(g) : g \in Gates}
  BY DEF AllCommits
<1>q. ASSUME Kept, CacheOK', UNCHANGED <<policy, edits>> PROVE TypeInv'
  BY <1>q DEF TypeInv, TypeOK
<1>1. ASSUME NEW g \in Gates, StartSync(g) PROVE TypeInv'
  <2>1. PICK cs \in SUBSET Commits : Continue(g, [Blank("scan") EXCEPT !.pol = policy, !.range = cs])
    BY <1>1 DEF StartSync
  <2> DEFINE r == [Blank("scan") EXCEPT !.pol = policy, !.range = cs]
  <2>2. r \in RunRecords
    BY <1>t, <1>a, <1>s DEF Blank, RunRecords
  <2>3. Local(r)
    BY <1>t DEF Blank, Local, Final, Busy, Steps
  <2> QED
    BY <1>1, <1>q, <2>1, <2>2, <2>3, Stays, CacheStays DEF StartSync, storeVars, history, TypeInv
<1>2. ASSUME NEW g \in Gates, StartInvestigation(g) PROVE TypeInv'
  <2>c. CacheOK' /\ UNCHANGED <<policy, edits>>
    BY <1>2, CacheStays DEF StartInvestigation, storeVars, history, TypeInv
  <2>1. CASE End(g, "ended")
    BY <1>q, <2>c, <2>1, EndStays DEF Final
  <2>2. CASE ~End(g, "ended")
    <3>1. PICK s \in Signals, d \in Answers, changes \in BOOLEAN :
            Continue(g, [Blank("investigated") EXCEPT !.kind = "candidate", !.pol = policy, !.signal = s,
                           !.decision = Normalised(d, changes), !.changes = changes])
      BY <1>2, <2>2 DEF StartInvestigation
    <3> DEFINE n == Normalised(d, changes)
               r == [Blank("investigated") EXCEPT !.kind = "candidate", !.pol = policy, !.signal = s,
                       !.decision = n, !.changes = changes]
    <3>2. n \in Decisions
      BY GateAssumption, NormalisedType
    <3> HIDE DEF n
    <3>3. r \in RunRecords
      BY <1>t, <1>a, <1>s, <3>2 DEF Blank, RunRecords
    <3>4. Local(r)
      BY <1>t, <3>2 DEF Blank, Local, Final, Busy, Steps
    <3> QED
      BY <1>q, <2>c, <3>1, <3>3, <3>4, Stays DEF n
  <2> QED
    BY <2>1, <2>2
<1>20. ASSUME NEW g \in Gates, SaveSignal(g) \/ SaveSignalFinding(g) PROVE TypeInv'
  <2>c. CacheOK' /\ UNCHANGED <<policy, edits>> /\ run[g].pc \in {"investigated", "signal_finding"}
          /\ run[g].proven = {}
    BY <1>20, CacheStays DEF SaveSignal, SaveSignalFinding, history, TypeInv, At, Local
  <2>1. Goto(g, "signal_finding") \/ Goto(g, "plan")
    BY <1>20 DEF SaveSignal, SaveSignalFinding
  <2> QED
    BY <1>q, <2>c, <2>1, GotoStays DEF Busy, Steps, Final
<1>3. ASSUME NEW g \in Gates, SavePlan(g) PROVE TypeInv'
  <2>c. CacheOK' /\ UNCHANGED <<policy, edits>> /\ run[g].pc = "plan" /\ run[g].proven = {}
    BY <1>3, CacheStays DEF SavePlan, storeVars, history, TypeInv, At, Local
  <2>1. CASE Goto(g, "draft")
    BY <1>q, <2>c, <2>1, GotoStays DEF Busy, Steps, Final
  <2>2. CASE Refuse(g)
    BY <1>q, <2>c, <2>2, RefuseStays DEF Busy, Steps, Final
  <2>3. CASE Continue(g, [run[g] EXCEPT !.pc = "scan", !.range = {Fix(g)}])
    <3> DEFINE r == [run[g] EXCEPT !.pc = "scan", !.range = {Fix(g)}]
    <3>0. {Fix(g)} \subseteq AllCommits
      BY <1>a
    <3>1. r \in RunRecords
      BY <1>r, <1>s, <3>0, ZenonT(40) DEF RunRecords
    <3>2. Local(r)
      BY <1>r, <2>c DEF Local, Final, Busy, Steps, RunRecords, TypeInv
    <3> QED
      BY <1>q, <2>c, <2>3, <3>1, <3>2, Stays
  <2> QED
    BY <1>3, <2>1, <2>2, <2>3 DEF SavePlan
<1>4. ASSUME NEW g \in Gates, Scan(g) PROVE TypeInv'
  <2>c. CacheOK' /\ UNCHANGED <<policy, edits>> /\ run[g].pc = "scan" /\ run[g].proven = {}
    BY <1>4, CacheStays DEF Scan, storeVars, history, TypeInv, At, Local
  <2>1. CASE Refuse(g)
    BY <1>q, <2>c, <2>1, RefuseStays DEF Busy, Steps, Final
  <2>2. CASE ~Refuse(g)
    <3>1. PICK rep \in Reports : Continue(g, [run[g] EXCEPT !.pc = "save_scan", !.report = rep])
      BY <1>4, <2>2 DEF Scan
    <3> DEFINE r == [run[g] EXCEPT !.pc = "save_scan", !.report = rep]
    <3>2. r \in RunRecords
      BY <1>r, <1>s, ZenonT(40) DEF RunRecords
    <3>3. Local(r)
      BY <1>r, <2>c DEF Local, Final, Busy, Steps, RunRecords, TypeInv
    <3> QED
      BY <1>q, <2>c, <3>1, <3>2, <3>3, Stays
  <2> QED
    BY <2>1, <2>2
<1>5. ASSUME NEW g \in Gates, SaveScan(g) PROVE TypeInv'
  <2>c. CacheOK' /\ UNCHANGED <<policy, edits>> /\ run[g].pc = "save_scan" /\ run[g].proven = {}
    BY <1>5, CacheStays DEF SaveScan, history, TypeInv, At, Local
  <2>1. CASE Refuse(g)
    BY <1>q, <2>c, <2>1, RefuseStays DEF Busy, Steps, Final
  <2>2. CASE End(g, "unsaved")
    BY <1>q, <2>c, <2>2, EndStays DEF Final
  <2>3. CASE Goto(g, "scan_finding")
    BY <1>q, <2>c, <2>3, GotoStays DEF Busy, Steps, Final
  <2> QED
    BY <1>5, <2>1, <2>2, <2>3 DEF SaveScan
<1>21. ASSUME NEW g \in Gates, SaveScanFinding(g) \/ SaveScanDraft(g) \/ CheckScan(g) PROVE TypeInv'
  <2>c. CacheOK' /\ UNCHANGED <<policy, edits>> /\ run[g].pc \in {"scan_finding", "scan_draft", "scanned"}
          /\ run[g].proven = {}
    BY <1>21, CacheStays DEF SaveScanFinding, SaveScanDraft, CheckScan, storeVars, history, TypeInv, At, Local
  <2>1. CASE Refuse(g)
    BY <1>q, <2>c, <2>1, RefuseStays DEF Busy, Steps, Final
  <2>2. CASE Goto(g, "scan_draft") \/ Goto(g, "scanned") \/ Goto(g, "review")
    BY <1>q, <2>c, <2>2, GotoStays DEF Busy, Steps, Final
  <2> QED
    BY <1>21, <2>1, <2>2 DEF SaveScanFinding, SaveScanDraft, CheckScan
<1>6. ASSUME NEW g \in Gates, LookUp(g) PROVE TypeInv'
  <2>c. CacheOK' /\ UNCHANGED <<policy, edits>> /\ run[g].pc = "review" /\ run[g].proven = {}
    BY <1>6, CacheStays DEF LookUp, storeVars, history, TypeInv, At, Local
  <2>1. PICK c \in run[g].range \ Reviewed(g) :
          IF ReviewKey(g, c) \in DOMAIN cache THEN Continue(g, WithReview(g, cache[ReviewKey(g, c)], "review"))
          ELSE Continue(g, [run[g] EXCEPT !.pc = "ask", !.asking = c])
    BY <1>6 DEF LookUp
  <2>2. c \in AllCommits
    BY <1>r DEF RunRecords
  <2>3. CASE ReviewKey(g, c) \in DOMAIN cache
    <3> DEFINE r == WithReview(g, cache[ReviewKey(g, c)], "review")
    <3>1. cache[ReviewKey(g, c)] \in Reviews
      BY <2>3 DEF TypeInv, CacheOK
    <3>2. r \in RunRecords
      BY <1>r, <1>s, <3>1, ZenonT(40) DEF RunRecords, WithReview
    <3>3. Local(r)
      BY <1>r, <2>c DEF Local, Final, Busy, Steps, RunRecords, TypeInv, WithReview
    <3> QED
      BY <1>q, <2>c, <2>1, <2>3, <3>2, <3>3, Stays
  <2>4. CASE ReviewKey(g, c) \notin DOMAIN cache
    <3> DEFINE r == [run[g] EXCEPT !.pc = "ask", !.asking = c]
    <3>1. r \in RunRecords
      BY <1>r, <1>s, <2>2, ZenonT(40) DEF RunRecords
    <3>2. \A x \in run[g].reviews : x.commit # c
      BY DEF Reviewed
    <3>3. Local(r)
      BY <1>r, <2>c, <2>2, <3>2 DEF Local, Final, Busy, Steps, RunRecords, TypeInv
    <3> QED
      BY <1>q, <2>c, <2>1, <2>4, <3>1, <3>3, Stays
  <2> QED
    BY <2>3, <2>4
<1>7. ASSUME NEW g \in Gates, Ask(g) PROVE TypeInv'
  <2>c. UNCHANGED <<policy, edits>> /\ run[g].pc = "ask" /\ run[g].proven = {} /\ run[g].asking \in AllCommits
          /\ run[g].pol \in Policies
    BY <1>7 DEF Ask, TypeInv, At, Local, Busy, Steps, Final
  <2>1. CASE Refuse(g) /\ UNCHANGED <<cache, said>>
    <3>1. CacheOK'
      BY <2>1, CacheStays DEF TypeInv
    <3> QED
      BY <1>q, <2>c, <2>1, <3>1, RefuseStays DEF Busy, Steps, Final
  <2>2. CASE ~(Refuse(g) /\ UNCHANGED <<cache, said>>)
    <3> DEFINE rev(d) == [commit |-> run[g].asking, decision |-> d, verdict |-> Evaluate(d, run[g].pol.strict)]
    <3>1. PICK d \in Answers :
            /\ said' = said \cup {<<run[g].pol, run[g].asking, rev(d).verdict>>}
            /\ cache' = Put(cache, ReviewKey(g, run[g].asking), rev(d))
            /\ Continue(g, WithReview(g, rev(d), "persist"))
      BY <1>7, <2>2 DEF Ask
    <3>2. rev(d) \in Reviews
      BY <2>c, VerdictType, GateAssumption DEF Reviews
    <3> DEFINE r == WithReview(g, rev(d), "persist")
    <3>3. r \in RunRecords
      <4> HIDE DEF rev
      <4> QED
        BY <1>r, <1>s, <3>2, ZenonT(40) DEF RunRecords, WithReview
    <3>4. Local(r)
      <4> HIDE DEF rev
      <4> QED
        BY <1>r, <2>c DEF Local, Final, Busy, Steps, RunRecords, TypeInv, WithReview
    <3>5. CacheOK'
      <4>1. rev(d).commit = run[g].asking
        OBVIOUS
      <4> HIDE DEF rev
      <4> QED
        BY <2>c, <3>1, <3>2, <4>1 DEF CacheOK, Put, ReviewKey, TypeInv
    <3> QED
      <4> HIDE DEF rev
      <4> QED
        BY <1>q, <2>c, <3>1, <3>3, <3>4, <3>5, Stays
  <2> QED
    BY <2>1, <2>2
<1>8. ASSUME NEW g \in Gates, PersistSignal(g) \/ PersistFinding(g) \/ PersistDraft(g) PROVE TypeInv'
  <2>c. CacheOK' /\ UNCHANGED <<policy, edits>> /\ run[g].pc \in {"persist", "persist_finding", "persist_draft"}
          /\ run[g].proven = {} /\ run[g].asking \in AllCommits
    BY <1>8, CacheStays DEF PersistSignal, PersistFinding, PersistDraft, history, TypeInv, At, Local
  <2> DEFINE r == [run[g] EXCEPT !.pc = "review", !.asking = None]
  <2>1. CASE Refuse(g)
    BY <1>q, <2>c, <2>1, RefuseStays DEF Busy, Steps, Final
  <2>2. CASE Goto(g, "persist_finding") \/ Goto(g, "persist_draft")
    BY <1>q, <2>c, <2>2, GotoStays DEF Busy, Steps, Final
  <2>3. CASE Continue(g, r)
    <3>1. r \in RunRecords
      BY <1>r, <1>s, ZenonT(40) DEF RunRecords
    <3>2. Local(r)
      BY <1>r, <2>c DEF Local, Final, Busy, Steps, RunRecords, TypeInv
    <3> QED
      BY <1>q, <2>c, <2>3, <3>1, <3>2, Stays
  <2> QED
    BY <1>8, <2>1, <2>2, <2>3 DEF PersistSignal, PersistFinding, PersistDraft
<1>9. ASSUME NEW g \in Gates, Judge(g) PROVE TypeInv'
  <2>c. CacheOK' /\ UNCHANGED <<policy, edits>> /\ run[g].pc = "review" /\ run[g].proven = {}
    BY <1>9, CacheStays DEF Judge, storeVars, history, TypeInv, At, Local
  <2>1. CASE Goto(g, "tests")
    BY <1>q, <2>c, <2>1, GotoStays DEF Busy, Steps, Final
  <2>2. CASE Refuse(g)
    BY <1>q, <2>c, <2>2, RefuseStays DEF Busy, Steps, Final
  <2> QED
    BY <1>9, <2>1, <2>2 DEF Judge
<1>10. ASSUME NEW g \in Gates, RunTests(g) PROVE TypeInv'
  <2>c. CacheOK' /\ UNCHANGED <<policy, edits>> /\ run[g].pc = "tests" /\ run[g].proven = {}
    BY <1>10, CacheStays DEF RunTests, storeVars, history, TypeInv, At, Local
  <2>1. CASE Refuse(g)
    BY <1>q, <2>c, <2>1, RefuseStays DEF Busy, Steps, Final
  <2>2. CASE ~Refuse(g)
    <3>1. PICK o \in Outputs : Continue(g, [run[g] EXCEPT !.pc = "verify", !.output = o])
      BY <1>10, <2>2 DEF RunTests
    <3> DEFINE r == [run[g] EXCEPT !.pc = "verify", !.output = o]
    <3>2. r \in RunRecords
      BY <1>r, <1>s, ZenonT(40) DEF RunRecords
    <3>3. Local(r)
      BY <1>r, <2>c DEF Local, Final, Busy, Steps, RunRecords, TypeInv
    <3> QED
      BY <1>q, <2>c, <3>1, <3>2, <3>3, Stays
  <2> QED
    BY <2>1, <2>2
<1>11. ASSUME NEW g \in Gates, LookUpContract(g) PROVE TypeInv'
  <2>c. CacheOK' /\ UNCHANGED <<policy, edits>> /\ run[g].pc = "verify"
    BY <1>11, CacheStays DEF LookUpContract, storeVars, history, TypeInv, At
  <2>1. PICK f \in Unproven(g) :
          IF ContractKey(g, f) \notin DOMAIN contracts
          THEN Continue(g, [run[g] EXCEPT !.pc = "contract", !.asking = f])
          ELSE IF contracts[ContractKey(g, f)] THEN Continue(g, [run[g] EXCEPT !.proven = @ \cup {f}])
          ELSE Refuse(g)
    BY <1>11 DEF LookUpContract
  <2>2. f \in AllCommits \X Decisions
    BY FixTypes DEF Unproven
  <2>3. CASE Continue(g, [run[g] EXCEPT !.pc = "contract", !.asking = f])
    <3> DEFINE r == [run[g] EXCEPT !.pc = "contract", !.asking = f]
    <3>1. r \in RunRecords
      BY <1>r, <1>s, <2>2, ZenonT(40) DEF RunRecords
    <3>2. Local(r)
      <4>1. /\ r.pc = "contract" /\ r.asking = f /\ r.pol = run[g].pol /\ r.kind = run[g].kind
            /\ r.decision = run[g].decision
        BY <1>r DEF RunRecords
      <4> HIDE DEF r
      <4> QED
        BY <2>c, <2>2, <4>1 DEF Local, Final, Busy, Steps, TypeInv
    <3> QED
      BY <1>q, <2>c, <2>3, <3>1, <3>2, Stays
  <2>4. CASE Continue(g, [run[g] EXCEPT !.proven = @ \cup {f}])
    <3> DEFINE r == [run[g] EXCEPT !.proven = @ \cup {f}]
    <3>1. r \in RunRecords
      BY <1>r, <2>2 DEF RunRecords
    <3>2. Local(r)
      BY <1>r, <2>c DEF Local, Final, Busy, Steps, RunRecords, TypeInv
    <3> QED
      BY <1>q, <2>c, <2>4, <3>1, <3>2, Stays
  <2>5. CASE Refuse(g)
    BY <1>q, <2>c, <2>5, RefuseStays DEF Busy, Steps, Final
  <2> QED
    BY <2>1, <2>3, <2>4, <2>5
<1>12. ASSUME NEW g \in Gates, AskContract(g) PROVE TypeInv'
  <2>c. CacheOK' /\ UNCHANGED <<policy, edits>> /\ run[g].pc = "contract"
          /\ run[g].asking \in AllCommits \X Decisions
    BY <1>12, CacheStays DEF AskContract, TypeInv, At, Local
  <2>1. CASE Refuse(g)
    BY <1>q, <2>c, <2>1, RefuseStays DEF Busy, Steps, Final
  <2>2. CASE ~Refuse(g)
    <3> DEFINE f == run[g].asking
               r == [run[g] EXCEPT !.pc = "verify", !.asking = None, !.proven = @ \cup {f}]
    <3>1. Continue(g, r)
      BY <1>12, <2>2 DEF AskContract
    <3>2. r \in RunRecords
      BY <1>r, <1>s, <2>c, ZenonT(40) DEF RunRecords
    <3>3. Local(r)
      BY <1>r, <2>c DEF Local, Final, Busy, Steps, RunRecords, TypeInv
    <3> QED
      BY <1>q, <2>c, <3>1, <3>2, <3>3, Stays
  <2> QED
    BY <2>1, <2>2
<1>13. ASSUME NEW g \in Gates, Pass(g) PROVE TypeInv'
  <2>c. CacheOK' /\ UNCHANGED <<policy, edits>> /\ run[g].pc = "verify"
    BY <1>13, CacheStays DEF Pass, storeVars, history, TypeInv, At
  <2>1. Goto(g, "passed") \/ Goto(g, "candidate")
    BY <1>13 DEF Pass
  <2> QED
    BY <1>q, <2>c, <2>1, GotoStays DEF Busy, Steps, Final
<1>14. ASSUME NEW g \in Gates, SaveCandidate(g) \/ SaveVerification(g) PROVE TypeInv'
  <2>c. CacheOK' /\ UNCHANGED <<policy, edits>> /\ run[g].pc \in {"candidate", "failed", "verified", "rejected"}
    BY <1>14, CacheStays DEF SaveCandidate, SaveVerification, history, TypeInv, At
  <2>1. CASE Goto(g, "verified") \/ Goto(g, "await") \/ Goto(g, "draft")
    BY <1>q, <2>c, <2>1, GotoStays DEF Busy, Steps, Final
  <2>2. CASE Goto(g, "rejected") /\ run[g].pc = "failed"
    <3>1. run[g].proven = {}
      BY <2>2 DEF TypeInv, Local
    <3> QED
      BY <1>q, <2>c, <2>2, <3>1, GotoStays DEF Busy, Steps, Final
  <2> QED
    BY <1>14, <2>1, <2>2 DEF SaveCandidate, SaveVerification, At
<1>15. ASSUME NEW g \in Gates, Await(g) PROVE TypeInv'
  <2>c. CacheOK' /\ UNCHANGED <<policy, edits>> /\ run[g].pc = "await" /\ Goto(g, "draft")
    BY <1>15, CacheStays DEF Await, history, TypeInv, At
  <2> QED
    BY <1>q, <2>c, GotoStays DEF Busy, Steps, Final
<1>16. ASSUME NEW g \in Gates, SaveDraft(g) PROVE TypeInv'
  <2>c. CacheOK' /\ UNCHANGED <<policy, edits>> /\ End(g, "ended")
    BY <1>16, CacheStays DEF SaveDraft, history, TypeInv
  <2> QED
    BY <1>q, <2>c, EndStays DEF Final
<1>17. ASSUME NEW g \in Gates, Kill(g) PROVE TypeInv'
  <2>c. CacheOK' /\ UNCHANGED <<policy, edits>> /\ End(g, "ended")
    BY <1>17, CacheStays DEF Kill, storeVars, history, TypeInv
  <2> QED
    BY <1>q, <2>c, EndStays DEF Final
<1>18. ASSUME EditPolicy PROVE TypeInv'
  <2>1. CacheOK' /\ run' = run /\ policy' \in Policies /\ edits' = edits + 1 /\ edits < MaxEdits
    BY <1>18, CacheStays DEF EditPolicy, storeVars, history, TypeInv
  <2>2. edits' \in 0..MaxEdits
    BY <2>1, GateAssumption DEF TypeInv, TypeOK
  <2> QED
    BY <2>1, <2>2 DEF TypeInv, TypeOK
<1>19. ASSUME UNCHANGED vars PROVE TypeInv'
  BY <1>19, <1>q, <1>t, CacheStays DEF vars, storeVars, history, TypeInv
<1> QED
  BY <1>1, <1>2, <1>3, <1>4, <1>5, <1>6, <1>7, <1>8, <1>9, <1>10, <1>11, <1>12, <1>13, <1>14, <1>15,
     <1>16, <1>17, <1>18, <1>19, <1>20, <1>21 DEF Next, GateStep

\* The types hold in every behaviour of the gates.
THEOREM GateTypes == Spec => []TypeInv
<1>1. Init => TypeInv
  <2> SUFFICES ASSUME Init PROVE TypeInv
    OBVIOUS
  <2>1. Blank("idle") \in RunRecords
    BY DEF Blank, RunRecords, Steps
  <2>2. Local(Blank("idle"))
    BY DEF Blank, Local, Busy, Steps, Final
  <2> QED
    BY <2>1, <2>2, GateAssumption DEF Init, TypeInv, TypeOK, CacheOK
<1> QED
  BY <1>1, TypeStep, PTL DEF Spec

-----------------------------------------------------------------------------
(* Nothing runs unjudged.                                                  *)

\* What a gate has scanned and reviewed, given what the model has said: the reviews of a gate
\* are the model's, and a gate past the judgement has one that may proceed for every commit.
Scanning == {"save_scan", "scan_finding", "scan_draft", "scanned"}
Reviewing == {"review", "ask", "persist", "persist_finding", "persist_draft"}
JudgedRec(r, sayings) ==
  /\ \A x \in r.reviews : <<r.pol, x.commit, x.verdict>> \in sayings
  /\ r.pc \in Scanning => r.report \in Reports
  /\ r.pc \in Reviewing \cup Running => r.report \in Reports /\ BuildAllowed(r.report)
  /\ r.pc \in Running => /\ \A c \in r.range : \E x \in r.reviews : x.commit = c
                         /\ \A x \in r.reviews : CanProceed(x.verdict)
Judged == \A g \in Gates : JudgedRec(run[g], said)

\* Judged holds on when one gate changes to a judged record and nothing said is forgotten.
LEMMA JudgedStays ==
  ASSUME TypeInv, Judged, said \subseteq said', NEW g \in Gates, NEW r, Continue(g, r), JudgedRec(r, said')
  PROVE  Judged'
BY Moves DEF TypeInv, Judged, JudgedRec

\* A gate that has ended without passing is judged.
LEMMA JudgedBlank == ASSUME NEW step \in Final \ {"passed"} PROVE JudgedRec(Blank(step), said)
  BY DEF JudgedRec, Blank, Running, Scanning, Reviewing, Final

\* A gate that moves on with the same scan and reviews, but not into what only they allow.
LEMMA JudgedGoto ==
  ASSUME TypeInv, Judged, said' = said, NEW g \in Gates, NEW step, Goto(g, step),
         \/ step \notin Scanning \cup Reviewing \cup Running
         \/ {run[g].pc, step} \subseteq Scanning
         \/ {run[g].pc, step} \subseteq Reviewing
         \/ {run[g].pc, step} \subseteq Running
  PROVE  Judged'
<1> DEFINE r == [run[g] EXCEPT !.pc = step]
<1>0. run[g] \in RunRecords
  BY DEF TypeInv, TypeOK
<1>1. /\ r.pc = step /\ r.reviews = run[g].reviews /\ r.pol = run[g].pol /\ r.report = run[g].report
      /\ r.range = run[g].range
  BY <1>0 DEF RunRecords
<1>2. JudgedRec(run[g], said)
  BY DEF Judged
<1>3. JudgedRec(r, said)
  <2> HIDE DEF r
  <2>1. CASE step \notin Scanning \cup Reviewing \cup Running
    BY <1>1, <1>2, <2>1 DEF JudgedRec
  <2>2. CASE {run[g].pc, step} \subseteq Running
    BY <1>1, <1>2, <2>2 DEF JudgedRec, Running, Scanning, Reviewing
  <2>3. CASE {run[g].pc, step} \subseteq Scanning
    BY <1>1, <1>2, <2>3 DEF JudgedRec, Running, Scanning, Reviewing
  <2>4. CASE {run[g].pc, step} \subseteq Reviewing
    BY <1>1, <1>2, <2>4 DEF JudgedRec, Running, Scanning, Reviewing
  <2> QED
    BY <2>1, <2>2, <2>3, <2>4
<1> QED
  BY <1>3, JudgedStays DEF Goto

\* A refusal keeps Judged.
LEMMA JudgedRefuse ==
  ASSUME TypeInv, Judged, said' = said, NEW g \in Gates, Refuse(g)
  PROVE  Judged'
<1>1. CASE End(g, "ended")
  BY <1>1, JudgedBlank, JudgedStays DEF End, Final
<1>2. CASE Continue(g, Failed(g))
  <2>1. Failed(g).pc = "failed" /\ Failed(g).reviews = {}
    BY DEF Failed, Blank
  <2>2. JudgedRec(Failed(g), said)
    BY <2>1 DEF JudgedRec, Running, Scanning, Reviewing
  <2> QED
    BY <1>2, <2>2, JudgedStays
<1> QED
  BY <1>1, <1>2 DEF Refuse

\* Every step keeps Judged.
LEMMA JudgedStep == TypeInv /\ Judged /\ [Next]_vars => Judged'
<1> SUFFICES ASSUME TypeInv, Judged, [Next]_vars PROVE Judged'
  OBVIOUS
<1>r. \A g \in Gates : run[g] \in RunRecords /\ JudgedRec(run[g], said)
  BY DEF TypeInv, TypeOK, Judged
<1>1. ASSUME NEW g \in Gates, StartSync(g) \/ StartInvestigation(g) PROVE Judged'
  <2>1. said' = said
    BY <1>1 DEF StartSync, StartInvestigation, history
  <2>2. CASE StartSync(g)
    <3>1. PICK cs \in SUBSET Commits : Continue(g, [Blank("scan") EXCEPT !.pol = policy, !.range = cs])
      BY <2>2 DEF StartSync
    <3>2. JudgedRec([Blank("scan") EXCEPT !.pol = policy, !.range = cs], said)
      BY DEF JudgedRec, Blank, Running, Scanning, Reviewing
    <3> QED
      BY <2>1, <3>1, <3>2, JudgedStays
  <2>3. CASE End(g, "ended")
    BY <2>1, <2>3, JudgedBlank, JudgedStays DEF End, Final
  <2>4. CASE StartInvestigation(g) /\ ~End(g, "ended")
    <3>1. PICK s, n, c : Continue(g, [Blank("investigated") EXCEPT !.kind = "candidate", !.pol = policy,
                                        !.signal = s, !.decision = n, !.changes = c])
      BY <2>4 DEF StartInvestigation
    <3>2. JudgedRec([Blank("investigated") EXCEPT !.kind = "candidate", !.pol = policy, !.signal = s,
                       !.decision = n, !.changes = c], said)
      BY DEF JudgedRec, Blank, Running, Scanning, Reviewing
    <3> QED
      BY <2>1, <3>1, <3>2, JudgedStays
  <2> QED
    BY <1>1, <2>2, <2>3, <2>4
<1>16. ASSUME NEW g \in Gates, SaveSignal(g) \/ SaveSignalFinding(g) PROVE Judged'
  <2>1. said' = said /\ (Goto(g, "signal_finding") \/ Goto(g, "plan"))
    BY <1>16 DEF SaveSignal, SaveSignalFinding, history
  <2> QED
    BY <2>1, JudgedGoto DEF Running, Scanning, Reviewing
<1>2. ASSUME NEW g \in Gates, SavePlan(g) PROVE Judged'
  <2>1. said' = said
    BY <1>2 DEF SavePlan, history
  <2>2. CASE Goto(g, "draft")
    BY <2>1, <2>2, JudgedGoto DEF Running, Scanning, Reviewing
  <2>3. CASE Refuse(g)
    BY <2>1, <2>3, JudgedRefuse
  <2>4. CASE Continue(g, [run[g] EXCEPT !.pc = "scan", !.range = {Fix(g)}])
    <3> DEFINE r == [run[g] EXCEPT !.pc = "scan", !.range = {Fix(g)}]
    <3>1. r.pc = "scan" /\ r.reviews = run[g].reviews /\ r.pol = run[g].pol
      BY <1>r DEF RunRecords
    <3>2. JudgedRec(r, said)
      <4> HIDE DEF r
      <4> QED
        BY <1>r, <3>1 DEF JudgedRec, Running, Scanning, Reviewing
    <3> QED
      BY <2>1, <2>4, <3>2, JudgedStays
  <2> QED
    BY <1>2, <2>2, <2>3, <2>4 DEF SavePlan
<1>3. ASSUME NEW g \in Gates, Scan(g) PROVE Judged'
  <2>1. said' = said
    BY <1>3 DEF Scan, history
  <2>2. CASE Refuse(g)
    BY <2>1, <2>2, JudgedRefuse
  <2>3. CASE ~Refuse(g)
    <3>1. PICK rep \in Reports : Continue(g, [run[g] EXCEPT !.pc = "save_scan", !.report = rep])
      BY <1>3, <2>3 DEF Scan
    <3> DEFINE r == [run[g] EXCEPT !.pc = "save_scan", !.report = rep]
    <3>2. r.pc = "save_scan" /\ r.reviews = run[g].reviews /\ r.pol = run[g].pol /\ r.report = rep
      BY <1>r DEF RunRecords
    <3>3. JudgedRec(r, said)
      <4> HIDE DEF r
      <4> QED
        BY <1>r, <3>2 DEF JudgedRec, Running, Scanning, Reviewing
    <3> QED
      BY <2>1, <3>1, <3>3, JudgedStays
  <2> QED
    BY <2>2, <2>3
<1>4. ASSUME NEW g \in Gates, SaveScan(g) \/ SaveScanFinding(g) \/ SaveScanDraft(g) PROVE Judged'
  <2>1. said' = said /\ run[g].pc \in Scanning
    BY <1>4 DEF SaveScan, SaveScanFinding, SaveScanDraft, history, At, Scanning
  <2>2. CASE Refuse(g)
    BY <2>1, <2>2, JudgedRefuse
  <2>3. CASE End(g, "unsaved")
    BY <2>1, <2>3, JudgedBlank, JudgedStays DEF End, Final
  <2>4. CASE Goto(g, "scan_finding") \/ Goto(g, "scan_draft") \/ Goto(g, "scanned")
    BY <2>1, <2>4, JudgedGoto DEF Scanning
  <2> QED
    BY <1>4, <2>2, <2>3, <2>4 DEF SaveScan, SaveScanFinding, SaveScanDraft
<1>17. ASSUME NEW g \in Gates, CheckScan(g) PROVE Judged'
  <2>1. said' = said /\ run[g].pc = "scanned"
    BY <1>17 DEF CheckScan, history, At
  <2>2. CASE Refuse(g)
    BY <2>1, <2>2, JudgedRefuse
  <2>3. CASE Goto(g, "review") /\ BuildAllowed(run[g].report)
    <3> DEFINE r == [run[g] EXCEPT !.pc = "review"]
    <3>1. r.pc = "review" /\ r.reviews = run[g].reviews /\ r.pol = run[g].pol /\ r.report = run[g].report
      BY <1>r DEF RunRecords
    <3>2. JudgedRec(r, said)
      <4> HIDE DEF r
      <4> QED
        BY <1>r, <2>1, <2>3, <3>1 DEF JudgedRec, Running, Scanning, Reviewing
    <3> QED
      BY <2>1, <2>3, <3>2, JudgedStays DEF Goto
  <2> QED
    BY <1>17, <2>2, <2>3 DEF CheckScan
<1>5. ASSUME NEW g \in Gates, LookUp(g) PROVE Judged'
  <2>1. said' = said /\ run[g].pc = "review"
    BY <1>5 DEF LookUp, history, At
  <2>2. PICK c \in run[g].range \ Reviewed(g) :
          IF ReviewKey(g, c) \in DOMAIN cache THEN Continue(g, WithReview(g, cache[ReviewKey(g, c)], "review"))
          ELSE Continue(g, [run[g] EXCEPT !.pc = "ask", !.asking = c])
    BY <1>5 DEF LookUp
  <2>3. CASE ReviewKey(g, c) \in DOMAIN cache
    <3> DEFINE x == cache[ReviewKey(g, c)]
               r == WithReview(g, x, "review")
    <3>1. <<run[g].pol, x.commit, x.verdict>> \in said
      BY <2>3 DEF TypeInv, CacheOK, ReviewKey
    <3>2. /\ r.pc = "review" /\ r.reviews = run[g].reviews \cup {x} /\ r.pol = run[g].pol
          /\ r.report = run[g].report
      BY <1>r DEF RunRecords, WithReview
    <3>3. JudgedRec(r, said)
      <4> HIDE DEF r, x
      <4> QED
        BY <1>r, <2>1, <3>1, <3>2 DEF JudgedRec, Running, Scanning, Reviewing
    <3> QED
      BY <2>1, <2>2, <2>3, <3>3, JudgedStays
  <2>4. CASE ReviewKey(g, c) \notin DOMAIN cache
    <3> DEFINE r == [run[g] EXCEPT !.pc = "ask", !.asking = c]
    <3>1. r.pc = "ask" /\ r.reviews = run[g].reviews /\ r.pol = run[g].pol /\ r.report = run[g].report
      BY <1>r DEF RunRecords
    <3>2. JudgedRec(r, said)
      <4> HIDE DEF r
      <4> QED
        BY <1>r, <2>1, <3>1 DEF JudgedRec, Running, Scanning, Reviewing
    <3> QED
      BY <2>1, <2>2, <2>4, <3>2, JudgedStays
  <2> QED
    BY <2>3, <2>4
<1>6. ASSUME NEW g \in Gates, Ask(g) PROVE Judged'
  <2>1. CASE Refuse(g) /\ UNCHANGED <<cache, said>>
    BY <2>1, JudgedRefuse
  <2>2. CASE ~(Refuse(g) /\ UNCHANGED <<cache, said>>)
    <3> DEFINE rev(d) == [commit |-> run[g].asking, decision |-> d, verdict |-> Evaluate(d, run[g].pol.strict)]
    <3>1. PICK d \in Answers :
            /\ said' = said \cup {<<run[g].pol, run[g].asking, rev(d).verdict>>}
            /\ Continue(g, WithReview(g, rev(d), "persist"))
      BY <1>6, <2>2 DEF Ask
    <3> DEFINE x == rev(d)
               r == WithReview(g, x, "persist")
    <3>2. /\ r.pc = "persist" /\ r.reviews = run[g].reviews \cup {x} /\ r.pol = run[g].pol
          /\ r.report = run[g].report /\ x.commit = run[g].asking
      BY <1>r DEF RunRecords, WithReview
    <3>3. JudgedRec(r, said')
      <4>1. run[g].pc = "ask"
        BY <1>6 DEF Ask, At
      <4> HIDE DEF r, rev
      <4> QED
        BY <1>r, <3>1, <3>2, <4>1 DEF JudgedRec, Running, Scanning, Reviewing
    <3> QED
      BY <3>1, <3>3, JudgedStays
  <2> QED
    BY <2>1, <2>2
<1>7. ASSUME NEW g \in Gates, PersistSignal(g) \/ PersistFinding(g) \/ PersistDraft(g) PROVE Judged'
  <2> DEFINE r == [run[g] EXCEPT !.pc = "review", !.asking = None]
  <2>1. said' = said /\ run[g].pc \in Reviewing
    BY <1>7 DEF PersistSignal, PersistFinding, PersistDraft, history, At, Reviewing
  <2>2. CASE Refuse(g)
    BY <2>1, <2>2, JudgedRefuse
  <2>3. CASE Goto(g, "persist_finding") \/ Goto(g, "persist_draft")
    BY <2>1, <2>3, JudgedGoto DEF Reviewing
  <2>4. CASE Continue(g, r)
    <3>1. r.pc = "review" /\ r.reviews = run[g].reviews /\ r.pol = run[g].pol /\ r.report = run[g].report
      BY <1>r DEF RunRecords
    <3>2. JudgedRec(r, said)
      <4> HIDE DEF r
      <4> QED
        BY <1>r, <2>1, <3>1 DEF JudgedRec, Running, Scanning, Reviewing
    <3> QED
      BY <2>1, <2>4, <3>2, JudgedStays
  <2> QED
    BY <1>7, <2>2, <2>3, <2>4 DEF PersistSignal, PersistFinding, PersistDraft
<1>8. ASSUME NEW g \in Gates, Judge(g) PROVE Judged'
  <2>1. said' = said /\ run[g].pc = "review" /\ Reviewed(g) = run[g].range
    BY <1>8 DEF Judge, history, At
  <2>2. CASE Refuse(g)
    BY <2>1, <2>2, JudgedRefuse
  <2>3. CASE Goto(g, "tests") /\ CanProceed(Aggregate({x.verdict : x \in run[g].reviews}))
    <3> DEFINE r == [run[g] EXCEPT !.pc = "tests"]
               ds == {x.verdict : x \in run[g].reviews}
    <3>1. /\ r.pc = "tests" /\ r.reviews = run[g].reviews /\ r.pol = run[g].pol
          /\ r.report = run[g].report /\ r.range = run[g].range
      BY <1>r DEF RunRecords
    <3>2. ds \in SUBSET Dispositions
      BY <1>r DEF RunRecords, Reviews
    <3>3. \A v \in ds : CanProceed(v)
      <4> HIDE DEF ds
      <4>1. RangeIsWorst(ds)
        BY <3>2, RangeWorst
      <4>2. CanProceed(Aggregate(ds))
        BY <2>3 DEF ds
      <4> QED
        BY <4>1, <4>2 DEF RangeIsWorst
    <3>4. /\ \A c \in run[g].range : \E x \in run[g].reviews : x.commit = c
          /\ \A x \in run[g].reviews : CanProceed(x.verdict)
      BY <2>1, <3>3 DEF Reviewed
    <3>5. JudgedRec(r, said)
      <4> HIDE DEF r, ds
      <4> QED
        BY <1>r, <2>1, <3>1, <3>4 DEF JudgedRec, Running, Scanning, Reviewing
    <3> QED
      BY <2>1, <2>3, <3>5, JudgedStays DEF Goto
  <2> QED
    BY <1>8, <2>2, <2>3 DEF Judge
<1>9. ASSUME NEW g \in Gates, RunTests(g) PROVE Judged'
  <2>1. said' = said /\ run[g].pc = "tests"
    BY <1>9 DEF RunTests, history, At
  <2>2. CASE Refuse(g)
    BY <2>1, <2>2, JudgedRefuse
  <2>3. CASE ~Refuse(g)
    <3>1. PICK o \in Outputs : Continue(g, [run[g] EXCEPT !.pc = "verify", !.output = o])
      BY <1>9, <2>3 DEF RunTests
    <3> DEFINE r == [run[g] EXCEPT !.pc = "verify", !.output = o]
    <3>2. /\ r.pc = "verify" /\ r.reviews = run[g].reviews /\ r.pol = run[g].pol
          /\ r.report = run[g].report /\ r.range = run[g].range
      BY <1>r DEF RunRecords
    <3>3. JudgedRec(r, said)
      <4> HIDE DEF r
      <4> QED
        BY <1>r, <2>1, <3>2 DEF JudgedRec, Running, Scanning, Reviewing
    <3> QED
      BY <2>1, <3>1, <3>3, JudgedStays
  <2> QED
    BY <2>2, <2>3
<1>10. ASSUME NEW g \in Gates, LookUpContract(g) PROVE Judged'
  <2>1. said' = said /\ run[g].pc = "verify"
    BY <1>10 DEF LookUpContract, history, At
  <2>2. CASE Refuse(g)
    BY <2>1, <2>2, JudgedRefuse
  <2>3. CASE ~Refuse(g)
    <3>1. PICK f : \/ Continue(g, [run[g] EXCEPT !.pc = "contract", !.asking = f])
                  \/ Continue(g, [run[g] EXCEPT !.proven = @ \cup {f}])
      BY <1>10, <2>3 DEF LookUpContract
    <3> DEFINE r == [run[g] EXCEPT !.pc = "contract", !.asking = f]
               q == [run[g] EXCEPT !.proven = @ \cup {f}]
    <3>2. /\ r.pc = "contract" /\ r.reviews = run[g].reviews /\ r.pol = run[g].pol
          /\ r.report = run[g].report /\ r.range = run[g].range
          /\ q.pc = "verify" /\ q.reviews = run[g].reviews /\ q.pol = run[g].pol
          /\ q.report = run[g].report /\ q.range = run[g].range
      BY <1>r, <2>1 DEF RunRecords
    <3>3. JudgedRec(r, said) /\ JudgedRec(q, said)
      <4> HIDE DEF r, q
      <4> QED
        BY <1>r, <2>1, <3>2 DEF JudgedRec, Running, Scanning, Reviewing
    <3> QED
      BY <2>1, <3>1, <3>3, JudgedStays
  <2> QED
    BY <2>2, <2>3
<1>11. ASSUME NEW g \in Gates, AskContract(g) PROVE Judged'
  <2>1. said' = said /\ run[g].pc = "contract"
    BY <1>11 DEF AskContract, At
  <2>2. CASE Refuse(g)
    BY <2>1, <2>2, JudgedRefuse
  <2>3. CASE ~Refuse(g)
    <3> DEFINE r == [run[g] EXCEPT !.pc = "verify", !.asking = None, !.proven = @ \cup {run[g].asking}]
    <3>1. Continue(g, r)
      BY <1>11, <2>3 DEF AskContract
    <3>2. /\ r.pc = "verify" /\ r.reviews = run[g].reviews /\ r.pol = run[g].pol
          /\ r.report = run[g].report /\ r.range = run[g].range
      BY <1>r DEF RunRecords
    <3>3. JudgedRec(r, said)
      <4> HIDE DEF r
      <4> QED
        BY <1>r, <2>1, <3>2 DEF JudgedRec, Running, Scanning, Reviewing
    <3> QED
      BY <2>1, <3>1, <3>3, JudgedStays
  <2> QED
    BY <2>2, <2>3
<1>12. ASSUME NEW g \in Gates, Pass(g) PROVE Judged'
  <2>1. said' = said /\ run[g].pc = "verify" /\ (Goto(g, "passed") \/ Goto(g, "candidate"))
    BY <1>12 DEF Pass, history, At
  <2> QED
    BY <2>1, JudgedGoto DEF Running, Scanning, Reviewing
<1>13. ASSUME NEW g \in Gates, SaveCandidate(g) \/ SaveVerification(g) \/ Await(g) PROVE Judged'
  <2>1. said' = said /\ (Goto(g, "verified") \/ Goto(g, "rejected") \/ Goto(g, "await") \/ Goto(g, "draft"))
    BY <1>13 DEF SaveCandidate, SaveVerification, Await, history
  <2> QED
    BY <2>1, JudgedGoto DEF Running, Scanning, Reviewing
<1>14. ASSUME NEW g \in Gates, SaveDraft(g) \/ Kill(g) PROVE Judged'
  <2>1. said' = said /\ End(g, "ended")
    BY <1>14 DEF SaveDraft, Kill, history
  <2> QED
    BY <2>1, JudgedBlank, JudgedStays DEF End, Final
<1>15. ASSUME EditPolicy \/ UNCHANGED vars PROVE Judged'
  BY <1>15 DEF EditPolicy, vars, history, Judged
<1> QED
  BY <1>1, <1>2, <1>3, <1>4, <1>5, <1>6, <1>7, <1>8, <1>9, <1>10, <1>11, <1>12, <1>13, <1>14, <1>15,
     <1>16, <1>17
  DEF Next, GateStep

\* JudgedBeforeRun: what runs or passes has been scanned without a blocker and reviewed, commit
\* by commit, under the policy of its gate.
THEOREM NothingRunsUnjudged == Spec => []JudgedBeforeRun
<1>1. Init => Judged
  BY DEF Init, Judged, JudgedRec, Blank, Running, Scanning, Reviewing
<1>2. TypeInv /\ Judged => JudgedBeforeRun
  <2> SUFFICES ASSUME TypeInv, Judged, NEW g \in Gates, run[g].pc \in Running
               PROVE  /\ run[g].report \in Reports /\ BuildAllowed(run[g].report)
                      /\ \A c \in run[g].range : \E v \in Dispositions :
                           CanProceed(v) /\ <<run[g].pol, c, v>> \in said
    BY DEF JudgedBeforeRun
  <2>1. run[g] \in RunRecords /\ JudgedRec(run[g], said)
    BY DEF TypeInv, TypeOK, Judged
  <2>2. \A x \in run[g].reviews : x.verdict \in Dispositions
    BY <2>1 DEF RunRecords, Reviews
  <2> QED
    BY <2>1, <2>2 DEF JudgedRec
<1> QED
  BY <1>1, <1>2, GateTypes, JudgedStep, PTL DEF Spec

-----------------------------------------------------------------------------
(* What passes is verified.                                                *)

\* The fixes a gate holds for proven are confirmed for its test results and its patch, and so is
\* every stored verification that passed; a gate that passes has proven all its fixes.
ProvenRec(r) == \A f \in r.proven : <<f, r.output, r.range>> \in confirmed
ContractsOK == \A key \in DOMAIN contracts : contracts[key] => key \in confirmed
Verified ==
  /\ ContractsOK
  /\ \A g \in Gates : ProvenRec(run[g])
  /\ \A g \in Gates : run[g].pc \in {"passed", "candidate"} => Fixes(g) \cup SignalFix(g) \subseteq run[g].proven

\* A verified record stays verified when more is confirmed.
LEMMA VerifiedGrows ==
  ASSUME TypeInv, Verified, ContractsOK', confirmed \subseteq confirmed', NEW g \in Gates, NEW r, Continue(g, r),
         \A f \in r.proven : <<f, r.output, r.range>> \in confirmed', r.pc \notin {"passed", "candidate"}
  PROVE  Verified'
BY Moves DEF TypeInv, Verified, ProvenRec, Fixes, SignalFix

\* Verified holds on when one gate changes to a verified record and nothing confirmed is lost.
LEMMA VerifiedStays ==
  ASSUME TypeInv, Verified, UNCHANGED <<contracts, confirmed>>, NEW g \in Gates, NEW r, Continue(g, r),
         \A f \in r.proven : <<f, r.output, r.range>> \in confirmed, r.pc \notin {"passed", "candidate"}
  PROVE  Verified'
BY VerifiedGrows DEF Verified, ContractsOK

\* A gate that has ended without passing is verified.
LEMMA VerifiedBlank ==
  ASSUME TypeInv, Verified, UNCHANGED <<contracts, confirmed>>, NEW g \in Gates, NEW step \in Final \ {"passed"},
         End(g, step)
  PROVE  Verified'
<1>1. Blank(step).proven = {} /\ Blank(step).pc = step
  BY DEF Blank
<1> QED
  BY <1>1, VerifiedStays DEF End, Final

\* A gate that moves on without passing stays verified.
LEMMA VerifiedGoto ==
  ASSUME TypeInv, Verified, UNCHANGED <<contracts, confirmed>>, NEW g \in Gates,
         NEW step \in Steps \ {"passed", "candidate"}, Goto(g, step)
  PROVE  Verified'
<1> DEFINE r == [run[g] EXCEPT !.pc = step]
<1>1. r.pc = step /\ r.proven = run[g].proven /\ r.output = run[g].output /\ r.range = run[g].range
  BY DEF TypeInv, TypeOK, RunRecords
<1>2. Continue(g, r)
  BY DEF Goto
<1> HIDE DEF r
<1> QED
  BY <1>1, <1>2, VerifiedStays DEF Verified, ProvenRec

\* A refusal keeps Verified, also when a verification is stored with it.
LEMMA VerifiedRefuse ==
  ASSUME TypeInv, Verified, ContractsOK', UNCHANGED confirmed, NEW g \in Gates, Refuse(g)
  PROVE  Verified'
<1>1. CASE End(g, "ended")
  <2>1. Blank("ended").proven = {} /\ Blank("ended").pc = "ended"
    BY DEF Blank
  <2> QED
    BY <1>1, <2>1, VerifiedGrows DEF End
<1>2. CASE Continue(g, Failed(g))
  <2>1. Failed(g).proven = {} /\ Failed(g).pc = "failed"
    BY DEF Failed, Blank
  <2> QED
    BY <1>2, <2>1, VerifiedGrows
<1> QED
  BY <1>1, <1>2 DEF Refuse

\* Every step keeps Verified.
LEMMA VerifiedStep == TypeInv /\ Verified /\ [Next]_vars => Verified'
<1> SUFFICES ASSUME TypeInv, Verified, [Next]_vars PROVE Verified'
  OBVIOUS
<1>r. \A g \in Gates : run[g] \in RunRecords /\ Local(run[g]) /\ ProvenRec(run[g])
  BY DEF TypeInv, TypeOK, Verified
<1>k. UNCHANGED <<contracts, confirmed>> => ContractsOK'
  BY DEF Verified, ContractsOK
<1>1. ASSUME NEW g \in Gates, StartSync(g) \/ StartInvestigation(g) PROVE Verified'
  <2>1. UNCHANGED <<contracts, confirmed>>
    BY <1>1 DEF StartSync, StartInvestigation, storeVars, history
  <2>2. CASE End(g, "ended")
    BY <2>1, <2>2, VerifiedBlank DEF Final
  <2>3. CASE ~End(g, "ended")
    <3>1. PICK cs, s, n, c :
            \/ Continue(g, [Blank("scan") EXCEPT !.pol = policy, !.range = cs])
            \/ Continue(g, [Blank("investigated") EXCEPT !.kind = "candidate", !.pol = policy, !.signal = s,
                              !.decision = n, !.changes = c])
      BY <1>1, <2>3 DEF StartSync, StartInvestigation
    <3> DEFINE r == [Blank("scan") EXCEPT !.pol = policy, !.range = cs]
               q == [Blank("investigated") EXCEPT !.kind = "candidate", !.pol = policy, !.signal = s,
                       !.decision = n, !.changes = c]
    <3>2. r.proven = {} /\ q.proven = {} /\ r.pc = "scan" /\ q.pc = "investigated"
      BY DEF Blank
    <3> HIDE DEF r, q
    <3> QED
      BY <2>1, <3>1, <3>2, VerifiedStays DEF r, q
  <2> QED
    BY <2>2, <2>3
<1>15. ASSUME NEW g \in Gates, SaveSignal(g) \/ SaveSignalFinding(g) PROVE Verified'
  <2>1. UNCHANGED <<contracts, confirmed>> /\ (Goto(g, "signal_finding") \/ Goto(g, "plan"))
    BY <1>15 DEF SaveSignal, SaveSignalFinding, history
  <2>2. {"signal_finding", "plan"} \subseteq Steps \ {"passed", "candidate"}
    BY DEF Steps
  <2> QED
    BY <2>1, <2>2, VerifiedGoto
<1>2. ASSUME NEW g \in Gates, SavePlan(g) PROVE Verified'
  <2>1. UNCHANGED <<contracts, confirmed>> /\ run[g].pc = "plan"
    BY <1>2 DEF SavePlan, storeVars, history, At
  <2>2. CASE Goto(g, "draft")
    BY <2>1, <2>2, VerifiedGoto DEF Steps
  <2>3. CASE Refuse(g)
    BY <2>1, <2>3, <1>k, VerifiedRefuse
  <2>4. CASE Continue(g, [run[g] EXCEPT !.pc = "scan", !.range = {Fix(g)}])
    <3> DEFINE r == [run[g] EXCEPT !.pc = "scan", !.range = {Fix(g)}]
    <3>1. r.pc = "scan" /\ r.proven = {}
      BY <1>r, <2>1 DEF RunRecords, Local
    <3> HIDE DEF r
    <3> QED
      BY <2>1, <2>4, <3>1, VerifiedStays DEF r
  <2> QED
    BY <1>2, <2>2, <2>3, <2>4 DEF SavePlan
<1>3. ASSUME NEW g \in Gates, Scan(g) PROVE Verified'
  <2>1. UNCHANGED <<contracts, confirmed>>
    BY <1>3 DEF Scan, storeVars, history
  <2>2. CASE Refuse(g)
    BY <2>1, <2>2, <1>k, VerifiedRefuse
  <2>3. CASE ~Refuse(g)
    <3>1. PICK rep : Continue(g, [run[g] EXCEPT !.pc = "save_scan", !.report = rep])
      BY <1>3, <2>3 DEF Scan
    <3> DEFINE r == [run[g] EXCEPT !.pc = "save_scan", !.report = rep]
    <3>2. r.pc = "save_scan" /\ r.proven = run[g].proven /\ r.output = run[g].output /\ r.range = run[g].range
      BY <1>r DEF RunRecords
    <3> HIDE DEF r
    <3> QED
      BY <1>r, <2>1, <3>1, <3>2, VerifiedStays DEF r, ProvenRec
  <2> QED
    BY <2>2, <2>3
<1>4. ASSUME NEW g \in Gates, SaveScan(g) \/ SaveScanFinding(g) \/ SaveScanDraft(g) \/ CheckScan(g)
      PROVE  Verified'
  <2>1. UNCHANGED <<contracts, confirmed>>
    BY <1>4 DEF SaveScan, SaveScanFinding, SaveScanDraft, CheckScan, storeVars, history
  <2>2. \/ Refuse(g) \/ End(g, "unsaved")
        \/ \E step \in {"scan_finding", "scan_draft", "scanned", "review"} : Goto(g, step)
    BY <1>4 DEF SaveScan, SaveScanFinding, SaveScanDraft, CheckScan
  <2>3. /\ "unsaved" \in Final \ {"passed"}
        /\ {"scan_finding", "scan_draft", "scanned", "review"} \subseteq Steps \ {"passed", "candidate"}
    BY DEF Final, Steps
  <2> QED
    BY <2>1, <2>2, <2>3, <1>k, VerifiedRefuse, VerifiedBlank, VerifiedGoto
<1>5. ASSUME NEW g \in Gates, LookUp(g) \/ Ask(g) PROVE Verified'
  <2>1. UNCHANGED <<contracts, confirmed>>
    BY <1>5 DEF LookUp, Ask, storeVars, history
  <2>2. CASE Refuse(g)
    BY <2>1, <2>2, <1>k, VerifiedRefuse
  <2>3. CASE ~Refuse(g)
    <3>1. PICK x, c : \/ Continue(g, WithReview(g, x, "review")) \/ Continue(g, WithReview(g, x, "persist"))
                     \/ Continue(g, [run[g] EXCEPT !.pc = "ask", !.asking = c])
      BY <1>5, <2>3 DEF LookUp, Ask
    <3> DEFINE r == WithReview(g, x, "review")
               q == WithReview(g, x, "persist")
               u == [run[g] EXCEPT !.pc = "ask", !.asking = c]
    <3>2. /\ r.pc = "review" /\ r.proven = run[g].proven /\ r.output = run[g].output /\ r.range = run[g].range
          /\ q.pc = "persist" /\ q.proven = run[g].proven /\ q.output = run[g].output /\ q.range = run[g].range
          /\ u.pc = "ask" /\ u.proven = run[g].proven /\ u.output = run[g].output /\ u.range = run[g].range
      BY <1>r DEF RunRecords, WithReview
    <3>3. Continue(g, r) \/ Continue(g, q) \/ Continue(g, u)
      BY <3>1
    <3> HIDE DEF r, q, u
    <3> QED
      BY <1>r, <2>1, <3>2, <3>3, VerifiedStays DEF ProvenRec
  <2> QED
    BY <2>2, <2>3
<1>6. ASSUME NEW g \in Gates, PersistSignal(g) \/ PersistFinding(g) \/ PersistDraft(g) PROVE Verified'
  <2> DEFINE r == [run[g] EXCEPT !.pc = "review", !.asking = None]
  <2>1. UNCHANGED <<contracts, confirmed>>
    BY <1>6 DEF PersistSignal, PersistFinding, PersistDraft, history
  <2>2. CASE Refuse(g)
    BY <2>1, <2>2, <1>k, VerifiedRefuse
  <2>3. CASE Goto(g, "persist_finding") \/ Goto(g, "persist_draft")
    BY <2>1, <2>3, VerifiedGoto DEF Steps
  <2>4. CASE Continue(g, r)
    <3>1. r.pc = "review" /\ r.proven = run[g].proven /\ r.output = run[g].output /\ r.range = run[g].range
      BY <1>r DEF RunRecords
    <3> HIDE DEF r
    <3> QED
      BY <1>r, <2>1, <2>4, <3>1, VerifiedStays DEF ProvenRec
  <2> QED
    BY <1>6, <2>2, <2>3, <2>4 DEF PersistSignal, PersistFinding, PersistDraft
<1>7. ASSUME NEW g \in Gates, Judge(g) PROVE Verified'
  <2>1. UNCHANGED <<contracts, confirmed>> /\ (Refuse(g) \/ Goto(g, "tests"))
    BY <1>7 DEF Judge, storeVars, history
  <2>2. "tests" \in Steps
    BY DEF Steps
  <2> QED
    BY <2>1, <2>2, <1>k, VerifiedRefuse, VerifiedGoto
<1>8. ASSUME NEW g \in Gates, RunTests(g) PROVE Verified'
  <2>1. UNCHANGED <<contracts, confirmed>> /\ run[g].pc = "tests"
    BY <1>8 DEF RunTests, storeVars, history, At
  <2>2. CASE Refuse(g)
    BY <2>1, <2>2, <1>k, VerifiedRefuse
  <2>3. CASE ~Refuse(g)
    <3>1. PICK o : Continue(g, [run[g] EXCEPT !.pc = "verify", !.output = o])
      BY <1>8, <2>3 DEF RunTests
    <3> DEFINE r == [run[g] EXCEPT !.pc = "verify", !.output = o]
    <3>2. r.pc = "verify" /\ r.proven = {}
      BY <1>r, <2>1 DEF RunRecords, Local
    <3> HIDE DEF r
    <3> QED
      BY <2>1, <3>1, <3>2, VerifiedStays DEF r
  <2> QED
    BY <2>2, <2>3
<1>9. ASSUME NEW g \in Gates, LookUpContract(g) PROVE Verified'
  <2>1. UNCHANGED <<contracts, confirmed>> /\ run[g].pc = "verify"
    BY <1>9 DEF LookUpContract, storeVars, history, At
  <2>2. PICK f \in Unproven(g) :
          IF ContractKey(g, f) \notin DOMAIN contracts
          THEN Continue(g, [run[g] EXCEPT !.pc = "contract", !.asking = f])
          ELSE IF contracts[ContractKey(g, f)] THEN Continue(g, [run[g] EXCEPT !.proven = @ \cup {f}])
          ELSE Refuse(g)
    BY <1>9 DEF LookUpContract
  <2>3. CASE Continue(g, [run[g] EXCEPT !.pc = "contract", !.asking = f])
    <3> DEFINE r == [run[g] EXCEPT !.pc = "contract", !.asking = f]
    <3>1. r.pc = "contract" /\ r.proven = run[g].proven /\ r.output = run[g].output /\ r.range = run[g].range
      BY <1>r DEF RunRecords
    <3> HIDE DEF r
    <3> QED
      BY <1>r, <2>1, <2>3, <3>1, VerifiedStays DEF r, ProvenRec
  <2>4. CASE Refuse(g)
    BY <2>1, <2>4, <1>k, VerifiedRefuse
  <2>5. CASE /\ ContractKey(g, f) \in DOMAIN contracts /\ contracts[ContractKey(g, f)]
             /\ Continue(g, [run[g] EXCEPT !.proven = @ \cup {f}])
    <3> DEFINE r == [run[g] EXCEPT !.proven = @ \cup {f}]
    <3>1. r.pc = "verify" /\ r.proven = run[g].proven \cup {f} /\ r.output = run[g].output /\ r.range = run[g].range
      BY <1>r, <2>1 DEF RunRecords
    <3>2. <<f, run[g].output, run[g].range>> \in confirmed
      BY <2>5 DEF Verified, ContractsOK, ContractKey
    <3> HIDE DEF r
    <3> QED
      BY <1>r, <2>1, <2>5, <3>1, <3>2, VerifiedStays DEF r, ProvenRec
  <2> QED
    BY <2>2, <2>3, <2>4, <2>5
<1>10. ASSUME NEW g \in Gates, AskContract(g) PROVE Verified'
  <2> DEFINE f == run[g].asking
             k == ContractKey(g, f)
             r == [run[g] EXCEPT !.pc = "verify", !.asking = None, !.proven = @ \cup {f}]
  <2>1. run[g].pc = "contract"
    BY <1>10 DEF AskContract, At
  <2>2. CASE Refuse(g) /\ UNCHANGED <<contracts, confirmed>>
    BY <2>2, <1>k, VerifiedRefuse
  <2>3. CASE Refuse(g) /\ contracts' = Put(contracts, k, FALSE) /\ UNCHANGED confirmed
    <3>1. ContractsOK'
      BY <2>3 DEF Put, ContractsOK, Verified
    <3> QED
      BY <2>3, <3>1, VerifiedRefuse
  <2>4. CASE /\ contracts' = Put(contracts, k, TRUE) /\ Continue(g, r)
             /\ confirmed' = confirmed \cup {<<f, run[g].output, run[g].range>>}
    <3>1. k = <<f, run[g].output, run[g].range>>
      BY DEF ContractKey
    <3>2. ContractsOK'
      <4> HIDE DEF k
      <4> QED
        BY <2>4, <3>1 DEF Put, ContractsOK, Verified
    <3>3. r.pc = "verify" /\ r.proven = run[g].proven \cup {f} /\ r.output = run[g].output /\ r.range = run[g].range
      BY <1>r DEF RunRecords
    <3> HIDE DEF r, k
    <3> QED
      BY <1>r, <2>4, <3>2, <3>3, VerifiedGrows DEF ProvenRec
  <2> QED
    BY <1>10, <2>2, <2>3, <2>4 DEF AskContract
<1>11. ASSUME NEW g \in Gates, Pass(g) PROVE Verified'
  <2>1. PICK step \in {"passed", "candidate"} : Goto(g, step)
    BY <1>11 DEF Pass
  <2> DEFINE r == [run[g] EXCEPT !.pc = step]
  <2>2. UNCHANGED <<contracts, confirmed>> /\ Unproven(g) = {}
    BY <1>11 DEF Pass, storeVars, history
  <2>3. /\ r.proven = run[g].proven /\ r.output = run[g].output /\ r.range = run[g].range
        /\ r.reviews = run[g].reviews /\ r.kind = run[g].kind /\ r.decision = run[g].decision
    BY <1>r DEF RunRecords
  <2>4. Fixes(g) \cup SignalFix(g) \subseteq run[g].proven
    BY <2>2 DEF Unproven
  <2>5. run'[g] = r /\ \A h \in Gates \ {g} : run'[h] = run[h]
    BY <2>1, Moves DEF Goto, TypeInv
  <2> HIDE DEF r
  <2>6. Fixes(g)' = Fixes(g) /\ SignalFix(g)' = SignalFix(g)
    BY <2>3, <2>5 DEF Fixes, SignalFix
  <2>7. ASSUME NEW h \in Gates
        PROVE /\ ProvenRec(run[h])'
              /\ run'[h].pc \in {"passed", "candidate"} => (Fixes(h) \cup SignalFix(h))' \subseteq run'[h].proven
    <3>1. CASE h = g
      BY <1>r, <2>2, <2>3, <2>4, <2>5, <2>6, <3>1 DEF ProvenRec
    <3>2. CASE h # g
      BY <2>2, <2>5, <3>2 DEF ProvenRec, Verified, Fixes, SignalFix
    <3> QED
      BY <3>1, <3>2
  <2> QED
    BY <2>2, <2>7 DEF Verified, ContractsOK
<1>12. ASSUME NEW g \in Gates, SaveCandidate(g) \/ SaveVerification(g) \/ Await(g) PROVE Verified'
  <2>1. PICK step \in {"verified", "rejected", "await", "draft"} : Goto(g, step)
    BY <1>12 DEF SaveCandidate, SaveVerification, Await
  <2>2. UNCHANGED <<contracts, confirmed>>
    BY <1>12 DEF SaveCandidate, SaveVerification, Await, history
  <2>3. step \in Steps \ {"passed", "candidate"}
    BY DEF Steps
  <2> QED
    BY <2>1, <2>2, <2>3, VerifiedGoto
<1>13. ASSUME NEW g \in Gates, SaveDraft(g) \/ Kill(g) PROVE Verified'
  <2>1. UNCHANGED <<contracts, confirmed>> /\ End(g, "ended")
    BY <1>13 DEF SaveDraft, Kill, storeVars, history
  <2> QED
    BY <2>1, VerifiedBlank DEF Final
<1>14. ASSUME EditPolicy \/ UNCHANGED vars PROVE Verified'
  BY <1>14 DEF EditPolicy, vars, storeVars, history, Verified, ContractsOK, ProvenRec, Fixes, SignalFix
<1> QED
  BY <1>1, <1>2, <1>3, <1>4, <1>5, <1>6, <1>7, <1>8, <1>9, <1>10, <1>11, <1>12, <1>13, <1>14,
     <1>15
  DEF Next, GateStep

\* PassedIsVerified: what passes has every fix confirmed for these tests and this patch.
THEOREM OnlyVerifiedPasses == Spec => []PassedIsVerified
<1>1. Init => Verified
  BY DEF Init, Verified, ContractsOK, ProvenRec, Blank
<1>2. Verified => PassedIsVerified
  BY DEF Verified, ProvenRec, PassedIsVerified
<1> QED
  BY <1>1, <1>2, GateTypes, VerifiedStep, PTL DEF Spec

-----------------------------------------------------------------------------
(* What awaits delivery has a verified candidate.                          *)

HasCandidate(key) == \E c \in candidates : c.finding = key /\ [gate |-> c.gate, passed |-> TRUE] \in verifications
Made(g) == [gate |-> g, finding |-> SignalKey(g)] \in candidates
Awaiting ==
  /\ AwaitingIsVerified
  /\ \A g \in Gates : At(g, "verified") => Made(g)
  /\ \A g \in Gates : At(g, "await") => Made(g) /\ [gate |-> g, passed |-> TRUE] \in verifications

\* Nothing stored is lost, no finding comes to wait, and no gate gets to where it would let one.
LEMMA AwaitingStays ==
  ASSUME TypeInv, Awaiting, candidates \subseteq candidates', verifications \subseteq verifications',
         NEW g \in Gates, NEW r, Continue(g, r), r.pc \notin {"verified", "await"},
         \A key \in DOMAIN findings' :
           findings'[key].state = "awaiting" => key \in DOMAIN findings /\ findings[key].state = "awaiting"
  PROVE  Awaiting'
<1>1. \A h \in Gates : (At(h, "await") \/ At(h, "verified"))' => h # g /\ run'[h] = run[h]
  BY Moves DEF TypeInv, At
<1>2. AwaitingIsVerified'
  BY DEF Awaiting, AwaitingIsVerified
<1>3. \A h \in Gates \ {g} : run'[h] = run[h] => (Made(h) => Made(h)') /\ (\A step : At(h, step)' <=> At(h, step))
  BY DEF Made, SignalKey, At
<1> QED
  BY <1>1, <1>2, <1>3 DEF Awaiting

\* The new step of a gate, by the form of its action.
LEMMA NewSteps ==
  ASSUME TypeInv, NEW g \in Gates
  PROVE  /\ \A step : Goto(g, step) => \E r : Continue(g, r) /\ r.pc = step
         /\ \A step : End(g, step) => \E r : Continue(g, r) /\ r.pc = step
         /\ Refuse(g) => \E r : Continue(g, r) /\ r.pc \in {"ended", "failed"}
<1>1. \A step : [run[g] EXCEPT !.pc = step].pc = step
  BY DEF TypeInv, TypeOK, RunRecords
<1>2. (\A step : Blank(step).pc = step) /\ Failed(g).pc = "failed"
  BY DEF Blank, Failed
<1> QED
  BY <1>1, <1>2 DEF Goto, End, Refuse

\* Every step keeps Awaiting.
LEMMA AwaitingStep == TypeInv /\ Awaiting /\ [Next]_vars => Awaiting'
<1> SUFFICES ASSUME TypeInv, Awaiting, [Next]_vars PROVE Awaiting'
  OBVIOUS
<1>r. \A g \in Gates : run[g] \in RunRecords
  BY DEF TypeInv, TypeOK
<1> DEFINE Quiet(g) == UNCHANGED <<findings, candidates, verifications>> /\ \E r : Continue(g, r) /\ r.pc \notin {"verified", "await"}
<1>q. ASSUME NEW g \in Gates, Quiet(g) PROVE Awaiting'
  BY <1>q, AwaitingStays
<1>1. ASSUME NEW g \in Gates, StartSync(g) PROVE Quiet(g)
  <2>1. PICK cs : Continue(g, [Blank("scan") EXCEPT !.pol = policy, !.range = cs])
    BY <1>1 DEF StartSync
  <2>2. [Blank("scan") EXCEPT !.pol = policy, !.range = cs].pc = "scan"
    BY DEF Blank
  <2> QED
    BY <1>1, <2>1, <2>2 DEF StartSync, storeVars
<1>2. ASSUME NEW g \in Gates, StartInvestigation(g) PROVE Quiet(g)
  <2>0. UNCHANGED <<findings, candidates, verifications>>
    BY <1>2 DEF StartInvestigation, storeVars
  <2>1. CASE End(g, "ended")
    BY <2>0, <2>1, NewSteps
  <2>2. CASE ~End(g, "ended")
    <3>1. PICK s, n, c : Continue(g, [Blank("investigated") EXCEPT !.kind = "candidate", !.pol = policy,
                                        !.signal = s, !.decision = n, !.changes = c])
      BY <1>2, <2>2 DEF StartInvestigation
    <3>2. [Blank("investigated") EXCEPT !.kind = "candidate", !.pol = policy,
             !.signal = s, !.decision = n, !.changes = c].pc = "investigated"
      BY DEF Blank
    <3> QED
      BY <2>0, <3>1, <3>2
  <2> QED
    BY <2>1, <2>2
<1>3. ASSUME NEW g \in Gates, Scan(g) PROVE Quiet(g)
  <2>0. UNCHANGED <<findings, candidates, verifications>>
    BY <1>3 DEF Scan, storeVars
  <2>1. ASSUME NEW rep, Continue(g, [run[g] EXCEPT !.pc = "save_scan", !.report = rep]) PROVE Quiet(g)
    <3>1. [run[g] EXCEPT !.pc = "save_scan", !.report = rep].pc = "save_scan"
      BY <1>r DEF RunRecords
    <3> QED
      BY <2>0, <2>1, <3>1
  <2> QED
    BY <1>3, <2>0, <2>1, NewSteps DEF Scan
<1>4. ASSUME NEW g \in Gates, SaveSignal(g) \/ SavePlan(g) PROVE Quiet(g)
  <2>0. UNCHANGED <<findings, candidates, verifications>>
    BY <1>4 DEF SaveSignal, SavePlan, storeVars
  <2>1. Continue(g, [run[g] EXCEPT !.pc = "scan", !.range = {Fix(g)}]) => Quiet(g)
    <3>1. [run[g] EXCEPT !.pc = "scan", !.range = {Fix(g)}].pc = "scan"
      BY <1>r DEF RunRecords
    <3> QED
      BY <2>0, <3>1
  <2> QED
    BY <1>4, <2>0, <2>1, NewSteps DEF SaveSignal, SavePlan
<1>16. ASSUME NEW g \in Gates, SaveScan(g) \/ SaveScanDraft(g) \/ CheckScan(g) PROVE Quiet(g)
  BY <1>16, NewSteps DEF SaveScan, SaveScanDraft, CheckScan, storeVars
<1>5. ASSUME NEW g \in Gates, LookUp(g) \/ Ask(g) PROVE Quiet(g)
  <2>0. UNCHANGED <<findings, candidates, verifications>>
    BY <1>5 DEF LookUp, Ask, storeVars
  <2>1. ASSUME NEW x, NEW step \in {"review", "persist"}, Continue(g, WithReview(g, x, step)) PROVE Quiet(g)
    <3>1. WithReview(g, x, step).pc = step
      BY <1>r DEF RunRecords, WithReview
    <3> QED
      BY <2>0, <2>1, <3>1
  <2>2. ASSUME NEW c, Continue(g, [run[g] EXCEPT !.pc = "ask", !.asking = c]) PROVE Quiet(g)
    <3>1. [run[g] EXCEPT !.pc = "ask", !.asking = c].pc = "ask"
      BY <1>r DEF RunRecords
    <3> QED
      BY <2>0, <2>2, <3>1
  <2>3. Refuse(g) => Quiet(g)
    BY <2>0, NewSteps
  <2> QED
    BY <1>5, <2>1, <2>2, <2>3 DEF LookUp, Ask
<1>6. ASSUME NEW g \in Gates, Judge(g) PROVE Quiet(g)
  BY <1>6, NewSteps DEF Judge, storeVars
<1>7. ASSUME NEW g \in Gates, RunTests(g) PROVE Quiet(g)
  <2>0. UNCHANGED <<findings, candidates, verifications>>
    BY <1>7 DEF RunTests, storeVars
  <2>1. ASSUME NEW o, Continue(g, [run[g] EXCEPT !.pc = "verify", !.output = o]) PROVE Quiet(g)
    <3>1. [run[g] EXCEPT !.pc = "verify", !.output = o].pc = "verify"
      BY <1>r DEF RunRecords
    <3> QED
      BY <2>0, <2>1, <3>1
  <2> QED
    BY <1>7, <2>0, <2>1, NewSteps DEF RunTests
<1>8. ASSUME NEW g \in Gates, LookUpContract(g) \/ AskContract(g) PROVE Quiet(g)
  <2>0. UNCHANGED <<findings, candidates, verifications>> /\ run[g].pc \in {"verify", "contract"}
    BY <1>8 DEF LookUpContract, AskContract, storeVars, At
  <2>1. ASSUME NEW f, Continue(g, [run[g] EXCEPT !.pc = "contract", !.asking = f]) PROVE Quiet(g)
    <3>1. [run[g] EXCEPT !.pc = "contract", !.asking = f].pc = "contract"
      BY <1>r DEF RunRecords
    <3> QED
      BY <2>0, <2>1, <3>1
  <2>2. ASSUME NEW f, Continue(g, [run[g] EXCEPT !.proven = @ \cup {f}]) PROVE Quiet(g)
    <3>1. [run[g] EXCEPT !.proven = @ \cup {f}].pc = run[g].pc
      BY <1>r DEF RunRecords
    <3> QED
      BY <2>0, <2>2, <3>1
  <2>3. ASSUME NEW f, Continue(g, [run[g] EXCEPT !.pc = "verify", !.asking = None, !.proven = @ \cup {f}])
        PROVE  Quiet(g)
    <3>1. [run[g] EXCEPT !.pc = "verify", !.asking = None, !.proven = @ \cup {f}].pc = "verify"
      BY <1>r DEF RunRecords
    <3> QED
      BY <2>0, <2>3, <3>1
  <2>4. Refuse(g) => Quiet(g)
    BY <2>0, NewSteps
  <2> QED
    BY <1>8, <2>1, <2>2, <2>3, <2>4 DEF LookUpContract, AskContract
<1>9. ASSUME NEW g \in Gates, Pass(g) PROVE Quiet(g)
  BY <1>9, NewSteps DEF Pass, storeVars
<1>10. ASSUME NEW g \in Gates, SaveDraft(g) \/ Kill(g) PROVE Quiet(g)
  BY <1>10, NewSteps DEF SaveDraft, Kill, storeVars
<1>17. ASSUME NEW g \in Gates, PersistSignal(g) \/ PersistDraft(g) PROVE Quiet(g)
  <2>0. UNCHANGED <<findings, candidates, verifications>>
    BY <1>17 DEF PersistSignal, PersistDraft
  <2> DEFINE r == [run[g] EXCEPT !.pc = "review", !.asking = None]
  <2>1. r.pc = "review"
    BY <1>r DEF RunRecords
  <2>2. Refuse(g) \/ Goto(g, "persist_finding") \/ Continue(g, r)
    BY <1>17 DEF PersistSignal, PersistDraft
  <2> HIDE DEF r
  <2> QED
    BY <2>0, <2>1, <2>2, NewSteps
<1>11. ASSUME NEW g \in Gates, SaveSignalFinding(g) \/ SaveScanFinding(g) PROVE Awaiting'
  <2>1. PICK r : Continue(g, r) /\ r.pc \notin {"verified", "await"}
    BY <1>11, NewSteps DEF SaveSignalFinding, SaveScanFinding
  <2>2. /\ \A d, strict : SignalFinding(d, strict).state # "awaiting"
        /\ \A report : ScanFinding(report).state # "awaiting"
    BY DEF SignalFinding, ScanFinding
  <2>3. /\ UNCHANGED <<candidates, verifications>>
        /\ findings' = findings \/ \E key, value : findings' = Put(findings, key, value) /\ value.state # "awaiting"
    BY <1>11, <2>2 DEF SaveSignalFinding, SaveScanFinding
  <2>4. \A key \in DOMAIN findings' :
          findings'[key].state = "awaiting" => key \in DOMAIN findings /\ findings[key].state = "awaiting"
    BY <2>3 DEF Put
  <2> QED
    BY <2>1, <2>3, <2>4, AwaitingStays
<1>12. ASSUME NEW g \in Gates, PersistFinding(g) PROVE Awaiting'
  <2>1. PICK r : Continue(g, r) /\ r.pc \notin {"verified", "await"}
    BY <1>12, NewSteps DEF PersistFinding
  <2>2. \A v \in Dispositions : ReviewFinding(v).state # "awaiting"
    BY DEF ReviewFinding, Dispositions
  <2>3. \A x \in run[g].reviews : x.verdict \in Dispositions
    BY <1>r DEF RunRecords, Reviews
  <2>4. /\ UNCHANGED <<candidates, verifications>>
        /\ findings' = findings \/ \E key, value : findings' = Put(findings, key, value) /\ value.state # "awaiting"
    BY <1>12, <2>2, <2>3 DEF PersistFinding
  <2>5. \A key \in DOMAIN findings' :
          findings'[key].state = "awaiting" => key \in DOMAIN findings /\ findings[key].state = "awaiting"
    BY <2>4 DEF Put
  <2> QED
    BY <2>1, <2>4, <2>5, AwaitingStays
<1>13. ASSUME NEW g \in Gates, SaveCandidate(g) PROVE Awaiting'
  <2>1. /\ candidates' = candidates \cup {[gate |-> g, finding |-> SignalKey(g)]}
        /\ UNCHANGED <<findings, verifications>>
    BY <1>13 DEF SaveCandidate
  <2>2. PICK step \in {"verified", "rejected"} : Goto(g, step)
    BY <1>13 DEF SaveCandidate
  <2>3. run'[g] = [run[g] EXCEPT !.pc = step] /\ \A h \in Gates \ {g} : run'[h] = run[h]
    BY <2>2, Moves DEF Goto, TypeInv
  <2>4. run'[g].pc = step /\ run'[g].pol = run[g].pol /\ run'[g].signal = run[g].signal
    BY <1>r, <2>3 DEF RunRecords
  <2>5. Made(g)' /\ ~At(g, "await")'
    BY <2>1, <2>4 DEF Made, SignalKey, At
  <2>6. \A h \in Gates \ {g} : (Made(h) => Made(h)') /\ (\A x : At(h, x)' <=> At(h, x))
    BY <2>1, <2>3 DEF Made, SignalKey, At
  <2>7. AwaitingIsVerified'
    BY <2>1 DEF Awaiting, AwaitingIsVerified
  <2> QED
    BY <2>1, <2>5, <2>6, <2>7 DEF Awaiting
<1>18. ASSUME NEW g \in Gates, SaveVerification(g) PROVE Awaiting'
  <2>1. /\ verifications' = verifications \cup {[gate |-> g, passed |-> At(g, "verified")]}
        /\ UNCHANGED <<findings, candidates>>
    BY <1>18 DEF SaveVerification
  <2>2. PICK step : Goto(g, step) /\ step = (IF At(g, "verified") THEN "await" ELSE "draft")
    BY <1>18 DEF SaveVerification
  <2>3. run'[g] = [run[g] EXCEPT !.pc = step] /\ \A h \in Gates \ {g} : run'[h] = run[h]
    BY <2>2, Moves DEF Goto, TypeInv
  <2>4. run'[g].pc = step /\ run'[g].pol = run[g].pol /\ run'[g].signal = run[g].signal
    BY <1>r, <2>3 DEF RunRecords
  <2>5. /\ ~At(g, "verified")'
        /\ At(g, "await")' => Made(g)' /\ ([gate |-> g, passed |-> TRUE] \in verifications)'
    <3>1. CASE At(g, "verified")
      <4>1. Made(g)
        BY <3>1 DEF Awaiting
      <4>2. Made(g)'
        BY <2>1, <2>4, <4>1 DEF Made, SignalKey
      <4>3. [gate |-> g, passed |-> TRUE] \in verifications'
        BY <2>1, <3>1
      <4> QED
        BY <2>2, <2>4, <3>1, <4>2, <4>3 DEF At
    <3>2. CASE ~At(g, "verified")
      BY <2>2, <2>4, <3>2 DEF At
    <3> QED
      BY <3>1, <3>2
  <2>6. \A h \in Gates \ {g} : (Made(h) => Made(h)') /\ (\A x : At(h, x)' <=> At(h, x))
    BY <2>1, <2>3 DEF Made, SignalKey, At
  <2>7. AwaitingIsVerified'
    BY <2>1 DEF Awaiting, AwaitingIsVerified
  <2> QED
    BY <2>1, <2>5, <2>6, <2>7 DEF Awaiting
<1>14. ASSUME NEW g \in Gates, Await(g) PROVE Awaiting'
  <2>1. /\ UNCHANGED <<candidates, verifications>> /\ At(g, "await") /\ Goto(g, "draft")
        /\ findings' = Put(findings, SignalKey(g), [state |-> "awaiting", allowed |-> FALSE])
    BY <1>14 DEF Await
  <2>2. HasCandidate(SignalKey(g))
    BY <2>1 DEF Awaiting, Made, HasCandidate
  <2>3. AwaitingIsVerified'
    BY <2>1, <2>2 DEF Awaiting, AwaitingIsVerified, HasCandidate, Put
  <2>4. run'[g] = [run[g] EXCEPT !.pc = "draft"] /\ \A h \in Gates \ {g} : run'[h] = run[h]
    BY <2>1, Moves DEF Goto, TypeInv
  <2>5. ~At(g, "verified")' /\ ~At(g, "await")'
    BY <1>r, <2>4 DEF RunRecords, At
  <2>6. \A h \in Gates \ {g} : (Made(h) => Made(h)') /\ (\A x : At(h, x)' <=> At(h, x))
    BY <2>1, <2>4 DEF Made, SignalKey, At
  <2> QED
    BY <2>1, <2>3, <2>5, <2>6 DEF Awaiting
<1>15. ASSUME EditPolicy \/ UNCHANGED vars PROVE Awaiting'
  BY <1>15 DEF EditPolicy, vars, storeVars, Awaiting, AwaitingIsVerified, Made, At, SignalKey
<1> QED
  <2> HIDE DEF Quiet
  <2> QED
    BY <1>q, <1>1, <1>2, <1>3, <1>4, <1>5, <1>6, <1>7, <1>8, <1>9, <1>10, <1>11, <1>12, <1>13, <1>14, <1>15,
       <1>16, <1>17, <1>18
    DEF Next, GateStep

\* AwaitingIsVerified: no finding awaits delivery without a stored candidate that passed.
THEOREM OnlyVerifiedAwaits == Spec => []AwaitingIsVerified
<1>1. Init => Awaiting
  BY DEF Init, Awaiting, AwaitingIsVerified, At, Blank
<1>2. Awaiting => AwaitingIsVerified
  BY DEF Awaiting
<1> QED
  BY <1>1, <1>2, GateTypes, AwaitingStep, PTL DEF Spec

-----------------------------------------------------------------------------
(* A scan that is acted on is recorded.                                    *)

SignalSaved(g) == ScanRow(g) \in signals
FindingSaved(g) ==
  ScanRow(g).key \in DOMAIN findings /\ findings[ScanRow(g).key] = ScanFinding(run[g].report)
DraftSaved(g) == Github /\ ~BuildAllowed(run[g].report) => ScanRow(g).key \in drafts

\* What the store has of the scan of a gate, statement by statement.
RecordedUpTo(g) ==
  /\ run[g].pc \in {"scan_finding", "scan_draft"} \cup ActedOn => SignalSaved(g)
  /\ run[g].pc \in {"scan_draft"} \cup ActedOn => FindingSaved(g)
  /\ run[g].pc \in ActedOn => DraftSaved(g)
Recorded == \A g \in Gates : RecordedUpTo(g)

\* Nothing of a scan is lost or changed in the store.
KeepsFindings ==
  \A project, report :
    LET key == <<"scan", project, DedupeKey(report)>> IN
    key \in DOMAIN findings /\ findings[key] = ScanFinding(report)
      => key \in DOMAIN findings' /\ findings'[key] = ScanFinding(report)
KeepsScans == signals \subseteq signals' /\ drafts \subseteq drafts' /\ KeepsFindings

\* Reports with the same digest have the same finding.
LEMMA DigestDecides ==
  \A one, other : DedupeKey(one) = DedupeKey(other) => ScanFinding(one) = ScanFinding(other)
  BY DEF DedupeKey, ScanFinding, BuildAllowed

\* A finding that is no scan's, or that is its scan's, changes no other scan's.
LEMMA KeepsOthers ==
  ASSUME NEW key, NEW value, findings' = Put(findings, key, value),
         \/ \E a, b : key = <<"review", a, b>>
         \/ \E a, b : key = <<"signal", a, b>>
         \/ \E p, report : key = <<"scan", p, DedupeKey(report)>> /\ value = ScanFinding(report)
  PROVE  KeepsFindings
<1> SUFFICES ASSUME NEW project, NEW report,
                    <<"scan", project, DedupeKey(report)>> \in DOMAIN findings,
                    findings[<<"scan", project, DedupeKey(report)>>] = ScanFinding(report)
             PROVE  /\ <<"scan", project, DedupeKey(report)>> \in DOMAIN findings'
                    /\ findings'[<<"scan", project, DedupeKey(report)>>] = ScanFinding(report)
  BY DEF KeepsFindings
<1> DEFINE k == <<"scan", project, DedupeKey(report)>>
<1>1. k = key => value = ScanFinding(report)
  <2>1. ASSUME NEW a, NEW b, key = <<"review", a, b>> \/ key = <<"signal", a, b>> PROVE k # key
    BY <2>1
  <2>2. ASSUME NEW p, NEW other, key = <<"scan", p, DedupeKey(other)>>, value = ScanFinding(other), k = key
        PROVE  value = ScanFinding(report)
    <3>1. DedupeKey(other) = DedupeKey(report)
      BY <2>2
    <3> QED
      BY <2>2, <3>1, DigestDecides
  <2> QED
    BY <2>1, <2>2
<1>2. k \in DOMAIN findings /\ findings[k] = ScanFinding(report)
  OBVIOUS
<1> HIDE DEF k
<1>3. k \in DOMAIN findings' /\ findings'[k] = ScanFinding(report)
  BY <1>1, <1>2 DEF Put
<1> QED
  BY <1>3 DEF k

\* A gate whose local variables stay keeps what is recorded of its scan.
LEMMA RecordStays ==
  ASSUME KeepsScans, NEW h \in Gates, RecordedUpTo(h), run'[h].report = run[h].report, run'[h].pol = run[h].pol,
         run'[h].pc = run[h].pc \/ {run[h].pc, run'[h].pc} \subseteq ActedOn
  PROVE  RecordedUpTo(h)'
<1>1. ScanRow(h)' = ScanRow(h)
  BY DEF ScanRow
<1>2. ScanRow(h).key = <<"scan", run[h].pol.project, DedupeKey(run[h].report)>>
  BY DEF ScanRow
<1>3. SignalSaved(h) => SignalSaved(h)'
  BY <1>1 DEF SignalSaved, KeepsScans
<1>4. FindingSaved(h) => FindingSaved(h)'
  BY <1>1, <1>2 DEF FindingSaved, KeepsScans, KeepsFindings
<1>5. DraftSaved(h) => DraftSaved(h)'
  BY <1>1 DEF DraftSaved, KeepsScans
<1> QED
  BY <1>3, <1>4, <1>5 DEF RecordedUpTo

\* It is enough to look at the gate that moves.
LEMMA OthersRecorded ==
  ASSUME TypeInv, Recorded, KeepsScans, NEW g \in Gates, NEW r, Continue(g, r), RecordedUpTo(g)'
  PROVE  Recorded'
<1>1. ASSUME NEW h \in Gates \ {g} PROVE RecordedUpTo(h)'
  <2>1. run'[h] = run[h]
    BY Moves DEF TypeInv
  <2> QED
    BY <2>1, RecordStays DEF Recorded
<1> QED
  BY <1>1 DEF Recorded

\* A gate that starts or stops, or has not saved its scan yet, has nothing to keep.
LEMMA RecordedLeaves ==
  ASSUME TypeInv, Recorded, KeepsScans, NEW g \in Gates, NEW r, Continue(g, r),
         r.pc \notin {"scan_finding", "scan_draft"} \cup ActedOn
  PROVE  Recorded'
<1>1. run'[g] = r
  BY Moves DEF TypeInv
<1>2. RecordedUpTo(g)'
  BY <1>1 DEF RecordedUpTo
<1> QED
  BY <1>2, OthersRecorded

\* A gate that acts on its scan and goes on keeps it.
LEMMA RecordedActs ==
  ASSUME TypeInv, Recorded, KeepsScans, NEW g \in Gates, NEW r, Continue(g, r),
         {run[g].pc, r.pc} \subseteq ActedOn, r.report = run[g].report, r.pol = run[g].pol
  PROVE  Recorded'
<1>1. run'[g] = r
  BY Moves DEF TypeInv
<1>2. RecordedUpTo(g)'
  BY <1>1, RecordStays DEF Recorded
<1> QED
  BY <1>2, OthersRecorded

\* Every step keeps Recorded.
LEMMA RecordedStep == TypeInv /\ Recorded /\ [Next]_vars => Recorded'
<1> SUFFICES ASSUME TypeInv, Recorded, [Next]_vars PROVE Recorded'
  OBVIOUS
<1>r. \A g \in Gates : run[g] \in RunRecords /\ RecordedUpTo(g)
  BY DEF TypeInv, TypeOK, Recorded
<1>k. UNCHANGED <<signals, findings, drafts>> => KeepsScans
  BY DEF KeepsScans, KeepsFindings
<1>f. ASSUME NEW g \in Gates, KeepsScans, Refuse(g) PROVE Recorded'
  <2>1. PICK r : Continue(g, r) /\ r.pc \in {"ended", "failed"}
    BY <1>f, NewSteps
  <2> QED
    BY <1>f, <2>1, RecordedLeaves DEF ActedOn
<1>e. ASSUME NEW g \in Gates, NEW step \in {"ended", "unsaved"}, KeepsScans, End(g, step) PROVE Recorded'
  <2>1. PICK r : Continue(g, r) /\ r.pc = step
    BY <1>e, NewSteps
  <2> QED
    BY <1>e, <2>1, RecordedLeaves DEF ActedOn
<1>g. ASSUME NEW g \in Gates, NEW step, KeepsScans, Goto(g, step),
             step \notin {"scan_finding", "scan_draft"} \cup ActedOn \/ {run[g].pc, step} \subseteq ActedOn
      PROVE  Recorded'
  <2> DEFINE r == [run[g] EXCEPT !.pc = step]
  <2>1. r.pc = step /\ r.report = run[g].report /\ r.pol = run[g].pol
    BY <1>r DEF RunRecords
  <2>2. Continue(g, r)
    BY <1>g DEF Goto
  <2> HIDE DEF r
  <2> QED
    BY <1>g, <2>1, <2>2, RecordedLeaves, RecordedActs
<1>1. ASSUME NEW g \in Gates, StartSync(g) PROVE Recorded'
  <2>1. PICK cs : Continue(g, [Blank("scan") EXCEPT !.pol = policy, !.range = cs])
    BY <1>1 DEF StartSync
  <2>2. [Blank("scan") EXCEPT !.pol = policy, !.range = cs].pc = "scan"
    BY DEF Blank
  <2>3. KeepsScans
    BY <1>1, <1>k DEF StartSync, storeVars
  <2> QED
    BY <2>1, <2>2, <2>3, RecordedLeaves DEF ActedOn
<1>2. ASSUME NEW g \in Gates, StartInvestigation(g) PROVE Recorded'
  <2>0. KeepsScans
    BY <1>2, <1>k DEF StartInvestigation, storeVars
  <2>1. CASE End(g, "ended")
    BY <2>0, <2>1, <1>e
  <2>2. CASE ~End(g, "ended")
    <3>1. PICK x, n, c : Continue(g, [Blank("investigated") EXCEPT !.kind = "candidate", !.pol = policy,
                                        !.signal = x, !.decision = n, !.changes = c])
      BY <1>2, <2>2 DEF StartInvestigation
    <3>2. [Blank("investigated") EXCEPT !.kind = "candidate", !.pol = policy,
             !.signal = x, !.decision = n, !.changes = c].pc = "investigated"
      BY DEF Blank
    <3> QED
      BY <2>0, <3>1, <3>2, RecordedLeaves DEF ActedOn
  <2> QED
    BY <2>1, <2>2
<1>3. ASSUME NEW g \in Gates, SaveSignal(g) \/ SaveSignalFinding(g) PROVE Recorded'
  <2>1. KeepsFindings
    <3>1. CASE findings' = findings
      BY <3>1 DEF KeepsFindings
    <3>2. CASE SaveSignalFinding(g)
      BY <3>2, KeepsOthers DEF SaveSignalFinding, SignalKey
    <3> QED
      BY <1>3, <3>1, <3>2 DEF SaveSignal
  <2>2. KeepsScans
    BY <1>3, <2>1 DEF SaveSignal, SaveSignalFinding, KeepsScans
  <2>3. Goto(g, "signal_finding") \/ Goto(g, "plan")
    BY <1>3 DEF SaveSignal, SaveSignalFinding
  <2> QED
    BY <2>2, <2>3, <1>g DEF ActedOn
<1>4. ASSUME NEW g \in Gates, SavePlan(g) PROVE Recorded'
  <2>0. KeepsScans
    BY <1>4, <1>k DEF SavePlan, storeVars
  <2>1. CASE Continue(g, [run[g] EXCEPT !.pc = "scan", !.range = {Fix(g)}])
    <3>1. [run[g] EXCEPT !.pc = "scan", !.range = {Fix(g)}].pc = "scan"
      BY <1>r DEF RunRecords
    <3> QED
      BY <2>0, <2>1, <3>1, RecordedLeaves DEF ActedOn
  <2>2. CASE Goto(g, "draft") \/ Refuse(g)
    BY <2>0, <2>2, <1>f, <1>g DEF ActedOn
  <2> QED
    BY <1>4, <2>1, <2>2 DEF SavePlan
<1>5. ASSUME NEW g \in Gates, Scan(g) PROVE Recorded'
  <2>0. KeepsScans
    BY <1>5, <1>k DEF Scan, storeVars
  <2>1. ASSUME NEW x, Continue(g, [run[g] EXCEPT !.pc = "save_scan", !.report = x]) PROVE Recorded'
    <3>1. [run[g] EXCEPT !.pc = "save_scan", !.report = x].pc = "save_scan"
      BY <1>r DEF RunRecords
    <3> QED
      BY <2>0, <2>1, <3>1, RecordedLeaves DEF ActedOn
  <2> QED
    BY <1>5, <2>0, <2>1, <1>f DEF Scan
<1>6. ASSUME NEW g \in Gates, SaveScan(g) PROVE Recorded'
  <2>0. KeepsScans
    BY <1>6 DEF SaveScan, KeepsScans, KeepsFindings
  <2>1. CASE Refuse(g) \/ End(g, "unsaved")
    BY <2>0, <2>1, <1>f, <1>e
  <2>2. CASE signals' = signals \cup {ScanRow(g)} /\ Goto(g, "scan_finding")
    <3> DEFINE r == [run[g] EXCEPT !.pc = "scan_finding"]
    <3>1. r.pc = "scan_finding" /\ r.report = run[g].report /\ r.pol = run[g].pol
      BY <1>r DEF RunRecords
    <3>2. Continue(g, r) /\ run'[g] = r
      BY <2>2, Moves DEF Goto, TypeInv
    <3> HIDE DEF r
    <3>3. ScanRow(g)' = ScanRow(g)
      BY <3>1, <3>2 DEF ScanRow
    <3>4. RecordedUpTo(g)'
      BY <2>2, <3>1, <3>2, <3>3 DEF RecordedUpTo, SignalSaved, ActedOn
    <3> QED
      BY <2>0, <3>2, <3>4, OthersRecorded
  <2> QED
    BY <1>6, <2>1, <2>2 DEF SaveScan
<1>7. ASSUME NEW g \in Gates, SaveScanFinding(g) PROVE Recorded'
  <2>1. CASE Refuse(g) /\ findings' = findings
    BY <1>7, <2>1, <1>k, <1>f DEF SaveScanFinding
  <2>2. CASE findings' = Put(findings, ScanRow(g).key, ScanFinding(run[g].report)) /\ Goto(g, "scan_draft")
    <3> DEFINE r == [run[g] EXCEPT !.pc = "scan_draft"]
    <3>1. r.pc = "scan_draft" /\ r.report = run[g].report /\ r.pol = run[g].pol
      BY <1>r DEF RunRecords
    <3>2. Continue(g, r) /\ run'[g] = r
      BY <2>2, Moves DEF Goto, TypeInv
    <3>3. run[g].pc = "scan_finding" /\ UNCHANGED <<signals, drafts>>
      BY <1>7 DEF SaveScanFinding, At
    <3> HIDE DEF r
    <3>4. ScanRow(g)' = ScanRow(g)
      BY <3>1, <3>2 DEF ScanRow
    <3>5. SignalSaved(g)'
      BY <1>r, <3>3, <3>4 DEF RecordedUpTo, SignalSaved
    <3>6. FindingSaved(g)'
      BY <2>2, <3>1, <3>2, <3>4 DEF FindingSaved, Put
    <3>7. RecordedUpTo(g)'
      BY <3>1, <3>2, <3>5, <3>6 DEF RecordedUpTo, ActedOn
    <3>8. KeepsFindings
      <4>1. ScanRow(g).key = <<"scan", run[g].pol.project, DedupeKey(run[g].report)>>
        BY DEF ScanRow
      <4> QED
        BY <2>2, <4>1, KeepsOthers
    <3>9. KeepsScans
      BY <3>3, <3>8 DEF KeepsScans
    <3> QED
      BY <3>2, <3>7, <3>9, OthersRecorded
  <2> QED
    BY <1>7, <2>1, <2>2 DEF SaveScanFinding
<1>8. ASSUME NEW g \in Gates, SaveScanDraft(g) PROVE Recorded'
  <2>0. KeepsScans
    BY <1>8 DEF SaveScanDraft, KeepsScans, KeepsFindings
  <2>1. CASE Refuse(g)
    BY <2>0, <2>1, <1>f
  <2>2. CASE ~Refuse(g)
    <3> DEFINE r == [run[g] EXCEPT !.pc = "scanned"]
    <3>0. /\ drafts' = IF Github /\ ~BuildAllowed(run[g].report) THEN drafts \cup {ScanRow(g).key} ELSE drafts
          /\ Goto(g, "scanned") /\ run[g].pc = "scan_draft" /\ UNCHANGED <<signals, findings>>
      BY <1>8, <2>2 DEF SaveScanDraft, At
    <3>1. r.pc = "scanned" /\ r.report = run[g].report /\ r.pol = run[g].pol
      BY <1>r DEF RunRecords
    <3>2. Continue(g, r) /\ run'[g] = r
      BY <3>0, Moves DEF Goto, TypeInv
    <3> HIDE DEF r
    <3>3. ScanRow(g)' = ScanRow(g)
      BY <3>1, <3>2 DEF ScanRow
    <3>4. SignalSaved(g)' /\ FindingSaved(g)'
      BY <1>r, <3>0, <3>1, <3>2, <3>3 DEF RecordedUpTo, SignalSaved, FindingSaved
    <3>5. DraftSaved(g)'
      BY <3>0, <3>1, <3>2, <3>3 DEF DraftSaved
    <3>6. RecordedUpTo(g)'
      BY <3>4, <3>5 DEF RecordedUpTo
    <3> QED
      BY <2>0, <3>2, <3>6, OthersRecorded
  <2> QED
    BY <2>1, <2>2
<1>9. ASSUME NEW g \in Gates, CheckScan(g) \/ Judge(g) \/ Pass(g) PROVE Recorded'
  <2>0. KeepsScans
    BY <1>9, <1>k DEF CheckScan, Judge, Pass, storeVars
  <2>1. run[g].pc \in ActedOn
    BY <1>9 DEF CheckScan, Judge, Pass, At, ActedOn
  <2>2. Refuse(g) \/ \E step \in {"review", "tests", "passed", "candidate"} : Goto(g, step)
    BY <1>9 DEF CheckScan, Judge, Pass
  <2> QED
    BY <2>0, <2>1, <2>2, <1>f, <1>g DEF ActedOn
<1>10. ASSUME NEW g \in Gates, LookUp(g) \/ Ask(g) \/ RunTests(g) \/ LookUpContract(g) \/ AskContract(g)
       PROVE  Recorded'
  <2>0. KeepsScans
    BY <1>10, <1>k DEF LookUp, Ask, RunTests, LookUpContract, AskContract, storeVars
  <2>1. run[g].pc \in ActedOn
    BY <1>10 DEF LookUp, Ask, RunTests, LookUpContract, AskContract, At, ActedOn
  <2>2. CASE Refuse(g)
    BY <2>0, <2>2, <1>f
  <2>3. ASSUME NEW x, NEW step \in {"review", "persist"}, Continue(g, WithReview(g, x, step)) PROVE Recorded'
    <3> DEFINE r == WithReview(g, x, step)
    <3>1. r.pc = step /\ r.report = run[g].report /\ r.pol = run[g].pol
      BY <1>r DEF RunRecords, WithReview
    <3> HIDE DEF r
    <3> QED
      BY <2>0, <2>1, <2>3, <3>1, RecordedActs DEF ActedOn, r
  <2>4. ASSUME NEW x, NEW step \in {"ask", "contract"},
               Continue(g, [run[g] EXCEPT !.pc = step, !.asking = x])
        PROVE  Recorded'
    <3> DEFINE r == [run[g] EXCEPT !.pc = step, !.asking = x]
    <3>1. r.pc = step /\ r.report = run[g].report /\ r.pol = run[g].pol
      BY <1>r DEF RunRecords
    <3> HIDE DEF r
    <3> QED
      BY <2>0, <2>1, <2>4, <3>1, RecordedActs DEF ActedOn, r
  <2>5. ASSUME NEW x, Continue(g, [run[g] EXCEPT !.pc = "verify", !.output = x]) PROVE Recorded'
    <3> DEFINE r == [run[g] EXCEPT !.pc = "verify", !.output = x]
    <3>1. r.pc = "verify" /\ r.report = run[g].report /\ r.pol = run[g].pol
      BY <1>r DEF RunRecords
    <3> HIDE DEF r
    <3> QED
      BY <2>0, <2>1, <2>5, <3>1, RecordedActs DEF ActedOn, r
  <2>6. ASSUME NEW x, Continue(g, [run[g] EXCEPT !.proven = @ \cup {x}]) PROVE Recorded'
    <3> DEFINE r == [run[g] EXCEPT !.proven = @ \cup {x}]
    <3>1. r.pc = run[g].pc /\ r.report = run[g].report /\ r.pol = run[g].pol
      BY <1>r DEF RunRecords
    <3> HIDE DEF r
    <3> QED
      BY <2>0, <2>1, <2>6, <3>1, RecordedActs DEF r
  <2>7. ASSUME NEW x, Continue(g, [run[g] EXCEPT !.pc = "verify", !.asking = None, !.proven = @ \cup {x}])
        PROVE  Recorded'
    <3> DEFINE r == [run[g] EXCEPT !.pc = "verify", !.asking = None, !.proven = @ \cup {x}]
    <3>1. r.pc = "verify" /\ r.report = run[g].report /\ r.pol = run[g].pol
      BY <1>r DEF RunRecords
    <3> HIDE DEF r
    <3> QED
      BY <2>0, <2>1, <2>7, <3>1, RecordedActs DEF ActedOn, r
  <2>8. CASE LookUp(g)
    BY <2>3, <2>4, <2>8 DEF LookUp
  <2>9. CASE Ask(g)
    BY <2>2, <2>3, <2>9 DEF Ask
  <2>10. CASE RunTests(g)
    BY <2>2, <2>5, <2>10 DEF RunTests
  <2>11. CASE LookUpContract(g)
    BY <2>2, <2>4, <2>6, <2>11 DEF LookUpContract
  <2>12. CASE AskContract(g)
    BY <2>2, <2>7, <2>12 DEF AskContract
  <2> QED
    BY <1>10, <2>8, <2>9, <2>10, <2>11, <2>12
<1>11. ASSUME NEW g \in Gates, PersistSignal(g) \/ PersistFinding(g) \/ PersistDraft(g) PROVE Recorded'
  <2> DEFINE r == [run[g] EXCEPT !.pc = "review", !.asking = None]
  <2>0. KeepsFindings
    <3>1. CASE findings' = findings
      BY <3>1 DEF KeepsFindings
    <3>2. CASE findings' # findings
      <4>1. PICK x \in run[g].reviews : findings' = Put(findings, ReviewKey(g, x.commit), ReviewFinding(x.verdict))
        BY <1>11, <3>2 DEF PersistSignal, PersistFinding, PersistDraft
      <4> QED
        BY <4>1, KeepsOthers DEF ReviewKey
    <3> QED
      BY <3>1, <3>2
  <2>1. KeepsScans
    BY <1>11, <2>0 DEF PersistSignal, PersistFinding, PersistDraft, KeepsScans
  <2>2. run[g].pc \in ActedOn
    BY <1>11 DEF PersistSignal, PersistFinding, PersistDraft, At, ActedOn
  <2>3. CASE Refuse(g)
    BY <2>1, <2>3, <1>f
  <2>4. CASE Goto(g, "persist_finding") \/ Goto(g, "persist_draft")
    BY <2>1, <2>2, <2>4, <1>g DEF ActedOn
  <2>5. CASE Continue(g, r)
    <3>1. r.pc = "review" /\ r.report = run[g].report /\ r.pol = run[g].pol
      BY <1>r DEF RunRecords
    <3> HIDE DEF r
    <3> QED
      BY <2>1, <2>2, <2>5, <3>1, RecordedActs DEF ActedOn
  <2> QED
    BY <1>11, <2>3, <2>4, <2>5 DEF PersistSignal, PersistFinding, PersistDraft
<1>12. ASSUME NEW g \in Gates, SaveCandidate(g) \/ SaveVerification(g) \/ Await(g) PROVE Recorded'
  <2>0. KeepsFindings
    <3>1. CASE findings' = findings
      BY <3>1 DEF KeepsFindings
    <3>2. CASE Await(g)
      BY <3>2, KeepsOthers DEF Await, SignalKey
    <3> QED
      BY <1>12, <3>1, <3>2 DEF SaveCandidate, SaveVerification
  <2>1. KeepsScans
    BY <1>12, <2>0 DEF SaveCandidate, SaveVerification, Await, KeepsScans
  <2>2. \E step \in {"verified", "rejected", "await", "draft"} : Goto(g, step)
    BY <1>12 DEF SaveCandidate, SaveVerification, Await
  <2> QED
    BY <2>1, <2>2, <1>g DEF ActedOn
<1>13. ASSUME NEW g \in Gates, SaveDraft(g) \/ Kill(g) PROVE Recorded'
  <2>1. KeepsScans
    BY <1>13 DEF SaveDraft, Kill, storeVars, KeepsScans, KeepsFindings
  <2>2. End(g, "ended")
    BY <1>13 DEF SaveDraft, Kill
  <2> QED
    BY <2>1, <2>2, <1>e
<1>14. ASSUME EditPolicy \/ UNCHANGED vars PROVE Recorded'
  <2>1. UNCHANGED <<run, signals, findings, drafts>>
    BY <1>14 DEF EditPolicy, vars, storeVars
  <2> QED
    BY <2>1 DEF Recorded, RecordedUpTo, SignalSaved, FindingSaved, DraftSaved, ScanRow
<1> QED
  BY <1>1, <1>2, <1>3, <1>4, <1>5, <1>6, <1>7, <1>8, <1>9, <1>10, <1>11, <1>12, <1>13, <1>14
  DEF Next, GateStep

\* ScanIsRecorded: no gate acts on a scan, to pass or to refuse, before its signal, its finding
\* and the draft for its blockers are in the store, whatever other gates and kills do.
THEOREM ActedOnScansAreRecorded == Spec => []ScanIsRecorded
<1>1. Init => Recorded
  BY DEF Init, Recorded, RecordedUpTo, Blank, ActedOn
<1>2. Recorded => ScanIsRecorded
  BY DEF Recorded, RecordedUpTo, SignalSaved, FindingSaved, DraftSaved, ScanIsRecorded
<1> QED
  BY <1>1, <1>2, GateTypes, RecordedStep, PTL DEF Spec
=============================================================================
