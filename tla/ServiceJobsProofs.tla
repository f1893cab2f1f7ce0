-------------------------- MODULE ServiceJobsProofs --------------------------
(* Theorems about ServiceJobs, for any number of jobs, workers, branches    *)
(* and conflict layers.                                                     *)
EXTENDS ServiceJobs, TLAPS

-----------------------------------------------------------------------------
(* Names and helpers.                                                      *)

\* The states the actions write are states of a row.
LEMMA StateNames ==
  {"queued", "running", "waiting_guidance", "generating_proposal", "applying",
   "test_failed", "waiting_push", "pushing", "abandoning", "completed",
   "failed", "abandoned", "unused", "deleted"} \subseteq States
  BY DEF States, Active, Terminal, NoRow

\* The steps the actions go to are steps of a worker.
LEMMA PcNames ==
  {"idle", "refresh_llm"} \cup SyncPc \cup OtherPc \cup GenPc \cup ApplyPc
    \cup ApplyTailPc \cup PushPc \cup AbandonPc \subseteq Pcs
  BY DEF Pcs

\* A rebase may have no conflicting layer left.
LEMMA NoLayer == 0 \in 0..Layers
  BY LayersAssumption

\* Writing a state into a row keeps the column's type.
LEMMA SetStateType ==
  ASSUME RowsOK, NEW j, NEW s \in States, SetState(j, s)
  PROVE  state' \in [Jobs -> States]
  BY DEF RowsOK, SetState

\* Moving, finishing or starting a worker keeps the threads' types.
LEMMA GotoType ==
  ASSUME ThreadsOK, NEW w \in Workers, pc[w] # "idle", NEW p \in Pcs, Goto(w, p)
  PROVE  ThreadsOK'
  BY LayersAssumption DEF ThreadsOK, Goto

\* A worker that ends keeps the threads' types.
LEMMA FinishType ==
  ASSUME ThreadsOK, NEW w \in Workers, Finish(w)
  PROVE  ThreadsOK'
  BY LayersAssumption DEF ThreadsOK, Finish, Pcs

\* A worker that starts keeps the threads' types.
LEMMA SpawnType ==
  ASSUME ThreadsOK, NEW w \in Workers, NEW p \in Pcs, NEW j \in Jobs,
         NEW l \in 0..Layers, Spawn(w, p, j, l)
  PROVE  ThreadsOK'
  BY DEF ThreadsOK, Spawn

\* Removing a worktree, or failing to, keeps the worktrees' types.
LEMMA TreeType ==
  ASSUME TreesOK, NEW j, RemoveWorktree(j) \/ UNCHANGED gitVars
  PROVE  TreesOK'
<1>1. CASE DropTree(j)
  <2>1. onDisk' \in [Jobs -> BOOLEAN] /\ tested' \in [Jobs -> BOOLEAN]
    BY <1>1, Zenon DEF TreesOK, DropTree
  <2>2. layer' \in [Jobs -> 0..Layers]
    BY <1>1, NoLayer, Zenon DEF TreesOK, DropTree
  <2> QED
    BY <1>1, <2>1, <2>2 DEF TreesOK, DropTree
<1>2. CASE UNCHANGED gitVars
  BY <1>2 DEF TreesOK, gitVars
<1> QED
  BY <1>1, <1>2 DEF RemoveWorktree

\* Publishing keeps the types of the rows and the fork.
LEMMA PublishType ==
  ASSUME TreesOK, NEW j \in Jobs, Publish(j)
  PROVE  TreesOK'
  BY DEF TreesOK, Publish

\* The sync pipeline and the background jobs keep the types.
LEMMA SyncType ==
  ASSUME TypeOK, NEW w \in Workers, Begin(w) \/ AcquireLock(w) \/ OtherWork(w) \/ SyncStep(w)
  PROVE  TypeOK'
<1> USE DEF TypeOK
<1>1. CASE Begin(w)
  <2>1. ThreadsOK'
    BY <1>1, GotoType, FinishType, PcNames, NoLayer DEF Begin, SyncPc, OtherPc
  <2>2. RowsOK'
    BY <1>1, SetStateType, StateNames, NoLayer DEF Begin, RowsOK, rowVars
  <2>3. TreesOK'
    BY <1>1, TreeType, PublishType, NoLayer DEF Begin, TreesOK, gitVars
  <2> QED
    BY <1>1, <2>1, <2>2, <2>3 DEF Begin, cleanVars
<1>2. CASE AcquireLock(w)
  <2>1. ThreadsOK'
    BY <1>2, GotoType, FinishType, PcNames, NoLayer DEF AcquireLock, SyncPc, OtherPc
  <2>2. RowsOK'
    BY <1>2, SetStateType, StateNames, NoLayer DEF AcquireLock, RowsOK, rowVars
  <2>3. TreesOK'
    BY <1>2, TreeType, PublishType, NoLayer DEF AcquireLock, TreesOK, gitVars
  <2> QED
    BY <1>2, <2>1, <2>2, <2>3 DEF AcquireLock, cleanVars
<1>3. CASE OtherWork(w)
  <2>1. ThreadsOK'
    BY <1>3, GotoType, FinishType, PcNames, NoLayer DEF OtherWork, SyncPc, OtherPc
  <2>2. RowsOK'
    BY <1>3, SetStateType, StateNames, NoLayer DEF OtherWork, RowsOK, rowVars
  <2>3. TreesOK'
    BY <1>3, TreeType, PublishType, NoLayer DEF OtherWork, TreesOK, gitVars
  <2> QED
    BY <1>3, <2>1, <2>2, <2>3 DEF OtherWork, cleanVars
<1>4. CASE SyncCheckout(w)
  <2>1. ThreadsOK'
    BY <1>4, GotoType, FinishType, PcNames, NoLayer DEF SyncCheckout, SyncPc, OtherPc
  <2>2. RowsOK'
    BY <1>4, SetStateType, StateNames, NoLayer DEF SyncCheckout, RowsOK, rowVars
  <2>3. TreesOK'
    BY <1>4, TreeType, PublishType, NoLayer DEF SyncCheckout, TreesOK, gitVars
  <2> QED
    BY <1>4, <2>1, <2>2, <2>3 DEF SyncCheckout, cleanVars
<1>5. CASE SyncRecord(w)
  <2>1. ThreadsOK'
    BY <1>5, GotoType, FinishType, PcNames, NoLayer DEF SyncRecord, SyncPc, OtherPc
  <2>2. RowsOK'
    BY <1>5, SetStateType, StateNames, NoLayer DEF SyncRecord, RowsOK, rowVars
  <2>3. TreesOK'
    BY <1>5, TreeType, PublishType, NoLayer DEF SyncRecord, TreesOK, gitVars
  <2> QED
    BY <1>5, <2>1, <2>2, <2>3 DEF SyncRecord, cleanVars
<1>6. CASE SyncGit(w)
  <2>1. ThreadsOK'
    BY <1>6, GotoType, FinishType, PcNames, NoLayer DEF SyncGit, SyncPc, OtherPc
  <2>2. RowsOK'
    BY <1>6, SetStateType, StateNames, NoLayer DEF SyncGit, RowsOK, rowVars
  <2>3. TreesOK'
    BY <1>6, TreeType, PublishType, NoLayer DEF SyncGit, TreesOK, gitVars
  <2> QED
    BY <1>6, <2>1, <2>2, <2>3 DEF SyncGit, cleanVars
<1>7. CASE SyncAutoResolve(w)
  <2>1. ThreadsOK'
    BY <1>7, GotoType, FinishType, PcNames, NoLayer DEF SyncAutoResolve, SyncPc, OtherPc
  <2>2. RowsOK'
    <3>1. job[w] \in Jobs
      BY <1>7 DEF SyncAutoResolve, ThreadsOK
    <3>2. state' \in [Jobs -> States]
      BY <1>7, SetStateType, StateNames DEF SyncAutoResolve, RowsOK
    <3>3. layer[job[w]] \in 0..Layers /\ layer[job[w]]..Layers \subseteq 0..Layers
      BY <3>1, LayersAssumption DEF TreesOK
    <3>4. conf' \in [Jobs -> 0..Layers]
      BY <1>7, <3>3 DEF SyncAutoResolve, RowsOK
    <3> QED
      BY <1>7, <3>2, <3>4 DEF SyncAutoResolve, RowsOK
  <2>3. TreesOK'
    BY <1>7, TreeType, PublishType, NoLayer DEF SyncAutoResolve, TreesOK, gitVars
  <2> QED
    BY <1>7, <2>1, <2>2, <2>3 DEF SyncAutoResolve, cleanVars
<1>8. CASE SyncOptions(w)
  <2>1. ThreadsOK'
    BY <1>8, GotoType, FinishType, PcNames, NoLayer DEF SyncOptions, SyncPc, OtherPc
  <2>2. RowsOK'
    <3>1. job[w] \in Jobs
      BY <1>8 DEF SyncOptions, ThreadsOK
    <3>2. opts' \in [Jobs -> 0..Layers]
      BY <1>8, <3>1, NoLayer DEF SyncOptions, RowsOK
    <3> QED
      BY <1>8, <3>2, SetStateType, StateNames DEF SyncOptions, RowsOK
  <2>3. TreesOK'
    BY <1>8, TreeType, PublishType, NoLayer DEF SyncOptions, TreesOK, gitVars
  <2> QED
    BY <1>8, <2>1, <2>2, <2>3 DEF SyncOptions, cleanVars
<1>9. CASE SyncTests(w)
  <2>1. ThreadsOK'
    BY <1>9, GotoType, FinishType, PcNames, NoLayer DEF SyncTests, SyncPc, OtherPc
  <2>2. RowsOK'
    BY <1>9, SetStateType, StateNames, NoLayer DEF SyncTests, RowsOK, rowVars
  <2>3. TreesOK'
    BY <1>9, TreeType, PublishType, NoLayer DEF SyncTests, TreesOK, gitVars
  <2> QED
    BY <1>9, <2>1, <2>2, <2>3 DEF SyncTests, cleanVars
<1>10. CASE SyncPush(w)
  <2>1. ThreadsOK'
    BY <1>10, GotoType, FinishType, PcNames, NoLayer DEF SyncPush, SyncPc, OtherPc
  <2>2. RowsOK'
    BY <1>10, SetStateType, StateNames, NoLayer DEF SyncPush, RowsOK, rowVars
  <2>3. TreesOK'
    <3>1. job[w] \in Jobs
      BY <1>10 DEF SyncPush, ThreadsOK
    <3> QED
      BY <1>10, <3>1, TreeType, PublishType DEF SyncPush
  <2> QED
    BY <1>10, <2>1, <2>2, <2>3 DEF SyncPush, cleanVars
<1>11. CASE SyncTag(w)
  <2>1. ThreadsOK'
    BY <1>11, GotoType, FinishType, PcNames, NoLayer DEF SyncTag, SyncPc, OtherPc
  <2>2. RowsOK'
    BY <1>11, SetStateType, StateNames, NoLayer DEF SyncTag, RowsOK, rowVars
  <2>3. TreesOK'
    BY <1>11, TreeType, PublishType, NoLayer DEF SyncTag, TreesOK, gitVars
  <2> QED
    BY <1>11, <2>1, <2>2, <2>3 DEF SyncTag, cleanVars
<1>12. CASE SyncReport(w)
  <2>1. ThreadsOK'
    BY <1>12, GotoType, FinishType, PcNames, NoLayer DEF SyncReport, SyncPc, OtherPc
  <2>2. RowsOK'
    BY <1>12, SetStateType, StateNames, NoLayer DEF SyncReport, RowsOK, rowVars
  <2>3. TreesOK'
    BY <1>12, TreeType, PublishType, NoLayer DEF SyncReport, TreesOK, gitVars
  <2> QED
    BY <1>12, <2>1, <2>2, <2>3 DEF SyncReport, cleanVars
<1>13. CASE SyncComplete(w)
  <2>1. ThreadsOK'
    BY <1>13, GotoType, FinishType, PcNames, NoLayer DEF SyncComplete, SyncPc, OtherPc
  <2>2. RowsOK'
    BY <1>13, SetStateType, StateNames, NoLayer DEF SyncComplete, RowsOK, rowVars
  <2>3. TreesOK'
    BY <1>13, TreeType, PublishType, NoLayer DEF SyncComplete, TreesOK, gitVars
  <2> QED
    BY <1>13, <2>1, <2>2, <2>3 DEF SyncComplete, cleanVars
<1>14. CASE SyncFail(w)
  <2>1. ThreadsOK'
    BY <1>14, GotoType, FinishType, PcNames, NoLayer DEF SyncFail, SyncPc, OtherPc
  <2>2. RowsOK'
    BY <1>14, SetStateType, StateNames, NoLayer DEF SyncFail, RowsOK, rowVars
  <2>3. TreesOK'
    BY <1>14, TreeType, PublishType, NoLayer DEF SyncFail, TreesOK, gitVars
  <2> QED
    BY <1>14, <2>1, <2>2, <2>3 DEF SyncFail, cleanVars
<1>15. CASE SyncFailed(w)
  <2>1. ThreadsOK'
    BY <1>15, GotoType, FinishType, PcNames, NoLayer DEF SyncFailed, SyncPc, OtherPc
  <2>2. RowsOK'
    BY <1>15, SetStateType, StateNames, NoLayer DEF SyncFailed, RowsOK, rowVars
  <2>3. TreesOK'
    BY <1>15, TreeType, PublishType, NoLayer DEF SyncFailed, TreesOK, gitVars
  <2> QED
    BY <1>15, <2>1, <2>2, <2>3 DEF SyncFailed, cleanVars
<1> QED
  BY <1>1, <1>2, <1>3, <1>4, <1>5, <1>6, <1>7, <1>8, <1>9, <1>10, <1>11, <1>12, <1>13, <1>14, <1>15 DEF SyncStep

\* New options and candidates keep the types.
LEMMA GuidanceType ==
  ASSUME TypeOK, NEW w \in Workers, RefreshLlm(w) \/ GenStep(w)
  PROVE  TypeOK'
<1> USE DEF TypeOK
<1>1. CASE RefreshLlm(w)
  <2>1. ThreadsOK'
    BY <1>1, GotoType, FinishType, PcNames, NoLayer DEF RefreshLlm, GenPc, ThreadsOK, RowsOK
  <2>2. RowsOK'
    BY <1>1, SetStateType, StateNames, NoLayer DEF RefreshLlm, RowsOK, rowVars, StoreOptions, ThreadsOK
  <2>3. TreesOK'
    BY <1>1, TreeType, PublishType, NoLayer DEF RefreshLlm, TreesOK, gitVars
  <2> QED
    BY <1>1, <2>1, <2>2, <2>3 DEF RefreshLlm, cleanVars
<1>2. CASE GenRead(w)
  <2>1. ThreadsOK'
    BY <1>2, GotoType, FinishType, PcNames, NoLayer DEF GenRead, GenPc, ThreadsOK, RowsOK
  <2>2. RowsOK'
    BY <1>2, SetStateType, StateNames, NoLayer DEF GenRead, RowsOK, rowVars
  <2>3. TreesOK'
    BY <1>2, TreeType, PublishType, NoLayer DEF GenRead, TreesOK, gitVars
  <2> QED
    BY <1>2, <2>1, <2>2, <2>3 DEF GenRead, cleanVars
<1>3. CASE GenLlm(w)
  <2>1. ThreadsOK'
    BY <1>3, GotoType, FinishType, PcNames, NoLayer DEF GenLlm, GenPc, ThreadsOK, RowsOK
  <2>2. RowsOK'
    BY <1>3, SetStateType, StateNames, NoLayer DEF GenLlm, RowsOK, rowVars, ThreadsOK
  <2>3. TreesOK'
    BY <1>3, TreeType, PublishType, NoLayer DEF GenLlm, TreesOK, gitVars
  <2> QED
    BY <1>3, <2>1, <2>2, <2>3 DEF GenLlm, cleanVars
<1>4. CASE GenEnd(w)
  <2>1. ThreadsOK'
    BY <1>4, GotoType, FinishType, PcNames, NoLayer DEF GenEnd, GenPc, ThreadsOK, RowsOK
  <2>2. RowsOK'
    BY <1>4, SetStateType, StateNames, NoLayer DEF GenEnd, RowsOK, rowVars
  <2>3. TreesOK'
    BY <1>4, TreeType, PublishType, NoLayer DEF GenEnd, TreesOK, gitVars
  <2> QED
    BY <1>4, <2>1, <2>2, <2>3 DEF GenEnd, cleanVars
<1> QED
  BY <1>1, <1>2, <1>3, <1>4 DEF GenStep

\* Applying a candidate keeps the types.
LEMMA ApplyType ==
  ASSUME TypeOK, NEW w \in Workers, ApplyStep(w)
  PROVE  TypeOK'
<1> USE DEF TypeOK
<1>1. CASE ApplyWrite(w)
  <2>1. ThreadsOK'
    BY <1>1, GotoType, FinishType, PcNames, NoLayer DEF ApplyWrite, ApplyPc, ApplyTailPc, PushPc, ThreadsOK, RowsOK
  <2>2. RowsOK'
    BY <1>1, SetStateType, StateNames, NoLayer DEF ApplyWrite, RowsOK, rowVars
  <2>3. TreesOK'
    BY <1>1, TreeType, PublishType, NoLayer DEF ApplyWrite, TreesOK, gitVars
  <2> QED
    BY <1>1, <2>1, <2>2, <2>3 DEF ApplyWrite, cleanVars
<1>2. CASE ApplyContinue(w)
  <2>1. ThreadsOK'
    BY <1>2, GotoType, FinishType, PcNames, NoLayer DEF ApplyContinue, ApplyPc, ApplyTailPc, PushPc, ThreadsOK, RowsOK
  <2>2. RowsOK'
    BY <1>2, SetStateType, StateNames, NoLayer DEF ApplyContinue, RowsOK, rowVars
  <2>3. TreesOK'
    <3>1. layer' \in [Jobs -> 0..Layers]
      BY <1>2, LayersAssumption DEF ApplyContinue, TreesOK
    <3>2. tested' \in [Jobs -> BOOLEAN]
      BY <1>2 DEF ApplyContinue, TreesOK
    <3> QED
      BY <1>2, <3>1, <3>2 DEF ApplyContinue, TreesOK
  <2> QED
    BY <1>2, <2>1, <2>2, <2>3 DEF ApplyContinue, cleanVars
<1>3. CASE ApplyFollow(w)
  <2>1. ThreadsOK'
    BY <1>3, GotoType, FinishType, PcNames, NoLayer DEF ApplyFollow, ApplyPc, ApplyTailPc, PushPc, ThreadsOK, RowsOK
  <2>2. RowsOK'
    <3>1. job[w] \in Jobs
      BY <1>3 DEF ApplyFollow, ThreadsOK
    <3>2. layer[job[w]] \in 0..Layers /\ layer[job[w]]..Layers \subseteq 0..Layers
      BY <3>1, LayersAssumption DEF TreesOK
    <3>3. conf' \in [Jobs -> 0..Layers]
      BY <1>3, <3>2 DEF ApplyFollow, RowsOK
    <3> QED
      BY <1>3, <3>3 DEF ApplyFollow, RowsOK
  <2>3. TreesOK'
    BY <1>3, TreeType, PublishType, NoLayer DEF ApplyFollow, TreesOK, gitVars
  <2> QED
    BY <1>3, <2>1, <2>2, <2>3 DEF ApplyFollow, cleanVars
<1>4. CASE ApplyOffer(w)
  <2>1. ThreadsOK'
    BY <1>4, GotoType, FinishType, PcNames, NoLayer DEF ApplyOffer, ApplyPc, ApplyTailPc, PushPc, ThreadsOK, RowsOK
  <2>2. RowsOK'
    BY <1>4, SetStateType, StateNames, NoLayer DEF ApplyOffer, RowsOK, rowVars
  <2>3. TreesOK'
    BY <1>4, TreeType, PublishType, NoLayer DEF ApplyOffer, TreesOK, gitVars
  <2> QED
    BY <1>4, <2>1, <2>2, <2>3 DEF ApplyOffer, cleanVars
<1>5. CASE ApplyRefresh(w)
  <2>1. ThreadsOK'
    BY <1>5, GotoType, FinishType, PcNames, NoLayer DEF ApplyRefresh, ApplyPc, ApplyTailPc, PushPc, ThreadsOK, RowsOK
  <2>2. RowsOK'
    BY <1>5, SetStateType, StateNames, NoLayer DEF ApplyRefresh, RowsOK, rowVars
  <2>3. TreesOK'
    BY <1>5, TreeType, PublishType, NoLayer DEF ApplyRefresh, TreesOK, gitVars
  <2> QED
    BY <1>5, <2>1, <2>2, <2>3 DEF ApplyRefresh, cleanVars
<1>6. CASE ApplyLlm(w)
  <2>1. ThreadsOK'
    BY <1>6, GotoType, FinishType, PcNames, NoLayer DEF ApplyLlm, ApplyPc, ApplyTailPc, PushPc, ThreadsOK, RowsOK
  <2>2. RowsOK'
    BY <1>6, SetStateType, StateNames, NoLayer DEF ApplyLlm, RowsOK, rowVars, StoreOptions, ThreadsOK
  <2>3. TreesOK'
    BY <1>6, TreeType, PublishType, NoLayer DEF ApplyLlm, TreesOK, gitVars
  <2> QED
    BY <1>6, <2>1, <2>2, <2>3 DEF ApplyLlm, cleanVars
<1>7. CASE ApplyErr(w)
  <2>1. ThreadsOK'
    BY <1>7, GotoType, FinishType, PcNames, NoLayer DEF ApplyErr, ApplyPc, ApplyTailPc, PushPc, ThreadsOK, RowsOK
  <2>2. RowsOK'
    BY <1>7, SetStateType, StateNames, NoLayer DEF ApplyErr, RowsOK, rowVars
  <2>3. TreesOK'
    BY <1>7, TreeType, PublishType, NoLayer DEF ApplyErr, TreesOK, gitVars
  <2> QED
    BY <1>7, <2>1, <2>2, <2>3 DEF ApplyErr, cleanVars
<1>8. CASE ApplyTests(w)
  <2>1. ThreadsOK'
    BY <1>8, GotoType, FinishType, PcNames, NoLayer DEF ApplyTests, ApplyPc, ApplyTailPc, PushPc, ThreadsOK, RowsOK
  <2>2. RowsOK'
    BY <1>8, SetStateType, StateNames, NoLayer DEF ApplyTests, RowsOK, rowVars
  <2>3. TreesOK'
    BY <1>8, TreeType, PublishType, NoLayer DEF ApplyTests, TreesOK, gitVars
  <2> QED
    BY <1>8, <2>1, <2>2, <2>3 DEF ApplyTests, cleanVars
<1>9. CASE ApplyPush(w)
  <2>1. ThreadsOK'
    BY <1>9, GotoType, FinishType, PcNames, NoLayer DEF ApplyPush, ApplyPc, ApplyTailPc, PushPc, ThreadsOK, RowsOK
  <2>2. RowsOK'
    BY <1>9, SetStateType, StateNames, NoLayer DEF ApplyPush, RowsOK, rowVars
  <2>3. TreesOK'
    BY <1>9, TreeType, PublishType, NoLayer DEF ApplyPush, TreesOK, gitVars
  <2> QED
    BY <1>9, <2>1, <2>2, <2>3 DEF ApplyPush, cleanVars
<1> QED
  BY <1>1, <1>2, <1>3, <1>4, <1>5, <1>6, <1>7, <1>8, <1>9 DEF ApplyStep

\* Pushing and abandoning keep the types.
LEMMA PushType ==
  ASSUME TypeOK, NEW w \in Workers, PushStep(w) \/ AbandonStep(w)
  PROVE  TypeOK'
<1> USE DEF TypeOK
<1>1. CASE PushBranch(w)
  <2>1. ThreadsOK'
    BY <1>1, GotoType, FinishType, PcNames, NoLayer DEF PushBranch, PushPc, AbandonPc
  <2>2. RowsOK'
    BY <1>1, SetStateType, StateNames, NoLayer DEF PushBranch, RowsOK, rowVars
  <2>3. TreesOK'
    <3>1. job[w] \in Jobs
      BY <1>1 DEF PushBranch, ThreadsOK
    <3> QED
      BY <1>1, <3>1, TreeType, PublishType DEF PushBranch
  <2> QED
    BY <1>1, <2>1, <2>2, <2>3 DEF PushBranch, cleanVars
<1>2. CASE PushTag(w)
  <2>1. ThreadsOK'
    BY <1>2, GotoType, FinishType, PcNames, NoLayer DEF PushTag, PushPc, AbandonPc
  <2>2. RowsOK'
    BY <1>2, SetStateType, StateNames, NoLayer DEF PushTag, RowsOK, rowVars
  <2>3. TreesOK'
    BY <1>2, TreeType, PublishType, NoLayer DEF PushTag, TreesOK, gitVars
  <2> QED
    BY <1>2, <2>1, <2>2, <2>3 DEF PushTag, cleanVars
<1>3. CASE PushClean(w)
  <2>1. ThreadsOK'
    BY <1>3, GotoType, FinishType, PcNames, NoLayer DEF PushClean, PushPc, AbandonPc
  <2>2. RowsOK'
    BY <1>3, SetStateType, StateNames, NoLayer DEF PushClean, RowsOK, rowVars
  <2>3. TreesOK'
    BY <1>3, TreeType, PublishType, NoLayer DEF PushClean, TreesOK, gitVars
  <2> QED
    BY <1>3, <2>1, <2>2, <2>3 DEF PushClean, cleanVars
<1>4. CASE PushDone(w)
  <2>1. ThreadsOK'
    BY <1>4, GotoType, FinishType, PcNames, NoLayer DEF PushDone, PushPc, AbandonPc
  <2>2. RowsOK'
    BY <1>4, SetStateType, StateNames, NoLayer DEF PushDone, RowsOK, rowVars
  <2>3. TreesOK'
    BY <1>4, TreeType, PublishType, NoLayer DEF PushDone, TreesOK, gitVars
  <2> QED
    BY <1>4, <2>1, <2>2, <2>3 DEF PushDone, cleanVars
<1>5. CASE AbandonClean(w)
  <2>1. ThreadsOK'
    BY <1>5, GotoType, FinishType, PcNames, NoLayer DEF AbandonClean, PushPc, AbandonPc
  <2>2. RowsOK'
    BY <1>5, SetStateType, StateNames, NoLayer DEF AbandonClean, RowsOK, rowVars
  <2>3. TreesOK'
    BY <1>5, TreeType, PublishType, NoLayer DEF AbandonClean, TreesOK, gitVars
  <2> QED
    BY <1>5, <2>1, <2>2, <2>3 DEF AbandonClean, cleanVars
<1>6. CASE AbandonDone(w)
  <2>1. ThreadsOK'
    BY <1>6, GotoType, FinishType, PcNames, NoLayer DEF AbandonDone, PushPc, AbandonPc
  <2>2. RowsOK'
    BY <1>6, SetStateType, StateNames, NoLayer DEF AbandonDone, RowsOK, rowVars
  <2>3. TreesOK'
    BY <1>6, TreeType, PublishType, NoLayer DEF AbandonDone, TreesOK, gitVars
  <2> QED
    BY <1>6, <2>1, <2>2, <2>3 DEF AbandonDone, cleanVars
<1> QED
  BY <1>1, <1>2, <1>3, <1>4, <1>5, <1>6 DEF PushStep, AbandonStep


\* A request, a cleanup and a restart keep the types.
LEMMA RequestType ==
  ASSUME TypeOK, NEW w \in Workers, Request(w)
  PROVE  TypeOK'
<1> USE DEF TypeOK
<1>1. PICK j \in Jobs :
        \/ \E b \in Branches : StartSync(w, j, b) \/ StartOther(w, j, b)
        \/ AddMessage(w, j) \/ GenerateProposal(w, j) \/ ApplyProposal(w, j)
        \/ RetryPush(w, j) \/ Abandon(w, j)
  BY DEF Request
<1>2. ASSUME NEW b \in Branches, StartSync(w, j, b) \/ StartOther(w, j, b)
      PROVE  TypeOK'
  <2> USE DEF StartSync, StartOther, CreateJob
  <2>1. ThreadsOK'
    BY <1>2, SpawnType, PcNames, NoLayer DEF SyncPc, OtherPc
  <2>2. RowsOK'
    BY <1>2, StateNames DEF RowsOK
  <2>3. TreesOK'
    BY <1>2 DEF TreesOK, gitVars
  <2> QED
    BY <1>2, <2>1, <2>2, <2>3 DEF cleanVars
<1>3. CASE AddMessage(w, j)
  <2>1. ThreadsOK'
    BY <1>3, SpawnType, PcNames, NoLayer DEF AddMessage, RowsOK
  <2>2. RowsOK'
    BY <1>3, SetStateType, StateNames, NoLayer DEF AddMessage, RowsOK, rowVars
  <2>3. TreesOK'
    BY <1>3 DEF AddMessage, TreesOK, gitVars
  <2> QED
    BY <1>3, <2>1, <2>2, <2>3 DEF AddMessage, cleanVars
<1>4. CASE GenerateProposal(w, j)
  <2>1. ThreadsOK'
    BY <1>4, SpawnType, PcNames, NoLayer DEF GenerateProposal, GenPc
  <2>2. RowsOK'
    BY <1>4, SetStateType, StateNames, NoLayer DEF GenerateProposal, RowsOK, rowVars
  <2>3. TreesOK'
    BY <1>4 DEF GenerateProposal, TreesOK, gitVars
  <2> QED
    BY <1>4, <2>1, <2>2, <2>3 DEF GenerateProposal, cleanVars
<1>5. CASE ApplyProposal(w, j)
  <2>1. ThreadsOK'
    BY <1>5, SpawnType, PcNames, NoLayer DEF ApplyProposal, ApplyPc
  <2>2. RowsOK'
    BY <1>5, SetStateType, StateNames, NoLayer DEF ApplyProposal, RowsOK, rowVars
  <2>3. TreesOK'
    BY <1>5 DEF ApplyProposal, TreesOK, gitVars
  <2> QED
    BY <1>5, <2>1, <2>2, <2>3 DEF ApplyProposal, cleanVars
<1>6. CASE RetryPush(w, j)
  <2>1. ThreadsOK'
    BY <1>6, SpawnType, PcNames, NoLayer DEF RetryPush, PushPc
  <2>2. RowsOK'
    BY <1>6, SetStateType, StateNames, NoLayer DEF RetryPush, RowsOK, rowVars
  <2>3. TreesOK'
    BY <1>6 DEF RetryPush, TreesOK, gitVars
  <2> QED
    BY <1>6, <2>1, <2>2, <2>3 DEF RetryPush, cleanVars
<1>7. CASE Abandon(w, j)
  <2>1. ThreadsOK'
    BY <1>7, SpawnType, PcNames, NoLayer DEF Abandon, AbandonPc
  <2>2. RowsOK'
    BY <1>7, SetStateType, StateNames, NoLayer DEF Abandon, RowsOK, rowVars
  <2>3. TreesOK'
    BY <1>7 DEF Abandon, TreesOK, gitVars
  <2> QED
    BY <1>7, <2>1, <2>2, <2>3 DEF Abandon, cleanVars
<1> QED
  BY <1>1, <1>2, <1>3, <1>4, <1>5, <1>6, <1>7

\* A cleanup keeps the types.
LEMMA CleanupType ==
  ASSUME TypeOK, CleanupStep \/ Restart
  PROVE  TypeOK'
<1> USE DEF TypeOK
<1>1. CASE CleanupSelect
  BY <1>1, StateNames, PcNames, NoLayer DEF CleanupSelect, RowsOK, TreesOK, ThreadsOK, rowVars,
                                              gitVars, threadVars
<1>2. CASE CleanupAbort
  BY <1>2, StateNames, PcNames, NoLayer DEF CleanupAbort, RowsOK, TreesOK, ThreadsOK, rowVars,
                                              gitVars, threadVars
<1>3. CASE CleanupDelete
  BY <1>3, StateNames, PcNames, NoLayer DEF CleanupDelete, RowsOK, TreesOK, ThreadsOK, rowVars,
                                              gitVars, threadVars
<1>4. CASE Restart
  BY <1>4, StateNames, PcNames, NoLayer DEF Restart, RowsOK, TreesOK, ThreadsOK, rowVars,
                                              gitVars, threadVars
<1>5. ASSUME NEW j \in Jobs, CleanupRemove(j)
     PROVE  TypeOK'
  BY <1>5, TreeType DEF CleanupRemove, RowsOK, ThreadsOK, rowVars, threadVars, cleanVars
<1> QED
  BY <1>1, <1>2, <1>3, <1>4, <1>5 DEF CleanupStep

\* Every reachable state is well typed, for any number of jobs and workers.
THEOREM TypeCorrect == Spec => []TypeOK
<1>1. Init => TypeOK
  <2> SUFFICES ASSUME Init PROVE TypeOK
    OBVIOUS
  <2>1. RowsOK
    BY NoLayer, StateNames DEF Init, RowsOK
  <2>2. TreesOK
    BY NoLayer DEF Init, TreesOK
  <2>3. ThreadsOK
    BY NoLayer, PcNames DEF Init, ThreadsOK
  <2> QED
    BY <2>1, <2>2, <2>3 DEF Init, TypeOK
<1>2. TypeOK /\ [Next]_vars => TypeOK'
  <2> SUFFICES ASSUME TypeOK, [Next]_vars PROVE TypeOK'
    OBVIOUS
  <2>1. ASSUME NEW w \in Workers, WorkerStep(w) PROVE TypeOK'
    BY <2>1, SyncType, GuidanceType, ApplyType, PushType DEF WorkerStep
  <2>2. CASE UNCHANGED vars
    BY <2>2 DEF vars, TypeOK, RowsOK, TreesOK, ThreadsOK, rowVars, gitVars,
                threadVars, cleanVars
  <2> QED
    BY <2>1, <2>2, RequestType, CleanupType DEF Next
<1> QED
  BY <1>1, <1>2, PTL DEF Spec

-----------------------------------------------------------------------------
(* Mutual exclusion of the sync pipelines, and transient states.           *)

\* The phases of a worker: as long as it stays in one, it drives the states
\* that belong to it.
Phases == {SyncPc \cup OtherPc, GenPc, ApplyPc, PushPc, AbandonPc}

\* What a step of a busy worker does to the rows and the threads, whatever its
\* action: it touches its own row and its own counter, and it moves on within
\* its phase, or starts to run, or puts the job into a state that waits or is
\* final, or takes up the push.
WorkerShape(w) ==
  LET j == job[w] IN
  /\ pc[w] # "idle"
  /\ \A v \in Workers \ {w} : pc'[v] = pc[v] /\ job'[v] = job[v]
  /\ \A i \in Jobs \ {j} : state'[i] = state[i]
  /\ branch' = branch
  /\ doomed' = doomed
  /\ pc'[w] # "idle" => job'[w] = j
  /\ pc'[w] \in PipelinePc => pc[w] \in PipelinePc
  /\ pc'[w] \in SyncPc => pc[w] \in SyncPc
  /\ \/ /\ state'[j] = state[j]
        /\ pc[w] \notin {"sync_begin", "other_begin"}
        /\ \A P \in Phases : pc[w] \in P => pc'[w] \in P
     \/ /\ pc[w] \in {"sync_begin", "other_begin"}
        /\ state'[j] = IF state[j] \in NoRow THEN state[j] ELSE "running"
        /\ pc'[w] \in PipelinePc
     \/ /\ state'[j] = state[j] \/ state'[j] # "unused"
        /\ state'[j] \notin Transient
        /\ pc'[w] \notin PipelinePc
     \/ /\ state'[j] = "pushing"
        /\ pc[w] \notin PipelinePc
        /\ pc'[w] \in PushPc

\* Every step of every worker has that shape.
LEMMA WorkerHasShape ==
  ASSUME TypeOK, NEW w \in Workers, WorkerStep(w)
  PROVE  WorkerShape(w)
<1>1. job[w] \in Jobs \/ pc[w] = "idle"
  BY DEF TypeOK, ThreadsOK
<1> USE <1>1 DEF TypeOK, RowsOK, ThreadsOK, WorkerShape, Phases, PipelinePc, SyncPc, OtherPc, GenPc, ApplyPc, ApplyTailPc, PushPc, AbandonPc, Transient, SetState, Goto, Finish, HasRow, NoRow, rowVars, cleanVars, threadVars
<1>2. CASE Begin(w)
  BY <1>2 DEF Begin
<1>3. CASE AcquireLock(w)
  BY <1>3 DEF AcquireLock
<1>4. CASE OtherWork(w)
  BY <1>4 DEF OtherWork
<1>5. CASE SyncCheckout(w)
  BY <1>5 DEF SyncCheckout
<1>6. CASE SyncRecord(w)
  BY <1>6 DEF SyncRecord
<1>7. CASE SyncGit(w)
  BY <1>7 DEF SyncGit
<1>8. CASE SyncAutoResolve(w)
  BY <1>8 DEF SyncAutoResolve
<1>9. CASE SyncOptions(w)
  BY <1>9 DEF SyncOptions
<1>10. CASE SyncTests(w)
  BY <1>10 DEF SyncTests
<1>11. CASE SyncPush(w)
  BY <1>11 DEF SyncPush
<1>12. CASE SyncTag(w)
  BY <1>12 DEF SyncTag
<1>13. CASE SyncReport(w)
  BY <1>13 DEF SyncReport
<1>14. CASE SyncComplete(w)
  BY <1>14 DEF SyncComplete
<1>15. CASE SyncFail(w)
  BY <1>15 DEF SyncFail
<1>16. CASE SyncFailed(w)
  BY <1>16 DEF SyncFailed
<1>17. CASE RefreshLlm(w)
  BY <1>17 DEF RefreshLlm
<1>18. CASE GenRead(w)
  BY <1>18 DEF GenRead
<1>19. CASE GenLlm(w)
  BY <1>19 DEF GenLlm
<1>20. CASE GenEnd(w)
  BY <1>20 DEF GenEnd
<1>21. CASE ApplyWrite(w)
  BY <1>21 DEF ApplyWrite
<1>22. CASE ApplyContinue(w)
  BY <1>22 DEF ApplyContinue
<1>23. CASE ApplyFollow(w)
  BY <1>23 DEF ApplyFollow
<1>24. CASE ApplyOffer(w)
  BY <1>24 DEF ApplyOffer
<1>25. CASE ApplyRefresh(w)
  BY <1>25 DEF ApplyRefresh
<1>26. CASE ApplyLlm(w)
  BY <1>26 DEF ApplyLlm
<1>27. CASE ApplyErr(w)
  BY <1>27 DEF ApplyErr
<1>28. CASE ApplyTests(w)
  BY <1>28 DEF ApplyTests
<1>29. CASE ApplyPush(w)
  BY <1>29 DEF ApplyPush
<1>30. CASE PushBranch(w)
  BY <1>30 DEF PushBranch
<1>31. CASE PushTag(w)
  BY <1>31 DEF PushTag
<1>32. CASE PushClean(w)
  BY <1>32 DEF PushClean
<1>33. CASE PushDone(w)
  BY <1>33 DEF PushDone
<1>34. CASE AbandonClean(w)
  BY <1>34 DEF AbandonClean
<1>35. CASE AbandonDone(w)
  BY <1>35 DEF AbandonDone
<1> QED
  BY <1>2, <1>3, <1>4, <1>5, <1>6, <1>7, <1>8, <1>9, <1>10, <1>11, <1>12, <1>13, <1>14, <1>15, <1>16, <1>17, <1>18, <1>19, <1>20, <1>21, <1>22, <1>23, <1>24, <1>25, <1>26, <1>27, <1>28, <1>29, <1>30, <1>31, <1>32, <1>33, <1>34, <1>35 DEF WorkerStep, SyncStep, GenStep, ApplyStep, PushStep, AbandonStep

-----------------------------------------------------------------------------
(* Requests of the admin, seen in the same way.                            *)

\* A request of the admin takes a job that waits or has failed and starts an
\* idle worker outside the pipelines; a worker takes over what it leaves in a
\* transient state.
RequestShape(w, j) ==
  /\ pc[w] = "idle"
  /\ \A v \in Workers \ {w} : pc'[v] = pc[v] /\ job'[v] = job[v]
  /\ \A i \in Jobs \ {j} : state'[i] = state[i]
  /\ branch' = branch
  /\ doomed' = doomed
  /\ job'[w] = j
  /\ pc'[w] \notin PipelinePc \cup {"idle"}
  /\ state[j] \in Abandonable
  /\ state'[j] \notin {"queued", "running", "unused"}
  /\ state'[j] \in Transient => Drives(w, j)'

\* What create_job does: a new row, and a worker at its first step.
CreateShape(w, j, k, b) ==
  /\ pc[w] = "idle"
  /\ \A v \in Workers \ {w} : pc'[v] = pc[v] /\ job'[v] = job[v]
  /\ \A i \in Jobs \ {j} : state'[i] = state[i] /\ branch'[i] = branch[i]
  /\ doomed' = doomed
  /\ job'[w] = j
  /\ state[j] = "unused"
  /\ state'[j] = "queued"
  /\ branch'[j] = b
  /\ pc'[w] = IF k = "sync" THEN "sync_begin" ELSE "other_begin"
  /\ k = "sync" => \A i \in Jobs : branch[i] = b => state[i] \notin Active

\* Every request has one of the two shapes.
LEMMA RequestHasShape ==
  ASSUME TypeOK, NEW w \in Workers, Request(w)
  PROVE  \E j \in Jobs :
           \/ RequestShape(w, j)
           \/ \E k \in {"sync", "other"}, b \in Branches : CreateShape(w, j, k, b)
<1> USE DEF TypeOK, RowsOK, ThreadsOK, rowVars, cleanVars
<1>1. PICK j \in Jobs :
        \/ \E b \in Branches : StartSync(w, j, b) \/ StartOther(w, j, b)
        \/ AddMessage(w, j) \/ GenerateProposal(w, j) \/ ApplyProposal(w, j)
        \/ RetryPush(w, j) \/ Abandon(w, j)
  BY DEF Request
<1>2. CASE \E b \in Branches : StartSync(w, j, b)
  BY <1>2 DEF StartSync, CreateJob, Spawn, CreateShape
<1>3. CASE \E b \in Branches : StartOther(w, j, b)
  BY <1>3 DEF StartOther, CreateJob, Spawn, CreateShape
<1> USE DEF RequestShape, Spawn, SetState, HasRow, NoRow, Guidable, Abandonable,
            PipelinePc, SyncPc, OtherPc, GenPc, ApplyPc, PushPc, AbandonPc, Transient, Drives
<1>4. CASE AddMessage(w, j)
  BY <1>4 DEF AddMessage
<1>5. CASE GenerateProposal(w, j)
  BY <1>5 DEF GenerateProposal
<1>6. CASE ApplyProposal(w, j)
  BY <1>6 DEF ApplyProposal
<1>7. CASE RetryPush(w, j)
  BY <1>7 DEF RetryPush
<1>8. CASE Abandon(w, j)
  BY <1>8 DEF Abandon
<1> QED
  BY <1>1, <1>2, <1>3, <1>4, <1>5, <1>6, <1>7, <1>8

-----------------------------------------------------------------------------
(* The pipelines of a branch exclude each other.                           *)

\* A step of a worker keeps what makes the pipelines exclude each other.
LEMMA WorkerPipeline ==
  ASSUME TypeOK, PipelineInv, NEW w \in Workers, WorkerShape(w)
  PROVE  PipelineInv'
<1> DEFINE j == job[w]
<1> USE DEF WorkerShape, PipelineInv
<1>1. j \in Jobs /\ (\A v \in Workers : pc[v] # "idle" => job[v] \in Jobs)
  BY DEF TypeOK, ThreadsOK
<1>2. pc[w] \in PipelinePc => (\A v \in Workers \ {w} : pc[v] # "idle" => job[v] # j)
  BY DEF PipelinePc
<1>3. "idle" \notin PipelinePc
  BY DEF PipelinePc, SyncPc, OtherPc
<1>4. state'[j] = state[j] \/ state'[j] \in {"running", "pushing"} \/ state'[j] \notin Transient
  OBVIOUS
<1>5. state[j] # "unused" => state'[j] # "unused"
  BY DEF NoRow
<1>6. \A v \in Workers : pc'[v] # "idle" => state'[job'[v]] # "unused"
  BY <1>1, <1>5
<1>7. \A v \in Workers : pc'[v] \in PipelinePc => state'[job'[v]] \in {"queued", "running"}
  <2>1. pc'[w] \in PipelinePc => state'[j] \in {"queued", "running"} /\ job'[w] = j
    BY <1>3 DEF NoRow
  <2>2. ASSUME NEW v \in Workers \ {w}, pc[v] \in PipelinePc
        PROVE  state'[job[v]] \in {"queued", "running"}
    BY <2>2, <1>1, <1>3
  <2> QED
    BY <2>1, <2>2
<1>8. \A u, v \in Workers :
        u # v /\ pc'[u] \in PipelinePc /\ pc'[v] # "idle" => job'[u] # job'[v]
  BY <1>2, <1>3
<1>9. \A i \in doomed' : state'[i] \notin {"queued", "running", "unused"}
  <2>1. doomed \subseteq Jobs
    BY DEF TypeOK
  <2>2. j \in doomed => pc[w] \notin PipelinePc
    OBVIOUS
  <2>3. j \in doomed => state'[j] \notin {"queued", "running", "unused"}
    BY <2>2, <1>5 DEF Transient, PipelinePc, SyncPc, OtherPc
  <2> QED
    BY <2>1, <2>3
<1>10. SyncPipelineExclusive'
  BY <1>3 DEF SyncPipelineExclusive, PipelinePc
<1> QED
  BY <1>6, <1>7, <1>8, <1>9, <1>10

\* So does a request.
LEMMA RequestPipeline ==
  ASSUME TypeOK, PipelineInv, NEW w \in Workers, Request(w)
  PROVE  PipelineInv'
<1> USE DEF PipelineInv
<1>1. \A v \in Workers : pc[v] # "idle" => job[v] \in Jobs
  BY DEF TypeOK, ThreadsOK
<1>2. SyncPc \subseteq PipelinePc /\ "idle" \notin PipelinePc
  BY DEF PipelinePc, SyncPc, OtherPc
<1>3. doomed \subseteq Jobs
  BY DEF TypeOK
<1>4. ASSUME NEW j \in Jobs, RequestShape(w, j)
      PROVE  PipelineInv'
  <2> USE <1>4 DEF RequestShape
  <2>1. \A v \in Workers : pc'[v] # "idle" => state'[job'[v]] # "unused"
    BY <1>1
  <2>2. \A v \in Workers \ {w} : pc[v] \in PipelinePc => job[v] # j
    BY DEF Abandonable
  <2>3. \A v \in Workers : pc'[v] \in PipelinePc => state'[job'[v]] \in {"queued", "running"}
    BY <1>1, <1>2, <2>2
  <2>4. \A u, v \in Workers :
          u # v /\ pc'[u] \in PipelinePc /\ pc'[v] # "idle" => job'[u] # job'[v]
    BY <1>2, <2>2
  <2>5. \A i \in doomed' : state'[i] \notin {"queued", "running", "unused"}
    BY <1>3
  <2>6. SyncPipelineExclusive'
    BY <1>2 DEF SyncPipelineExclusive
  <2> QED
    BY <2>1, <2>3, <2>4, <2>5, <2>6
<1>5. ASSUME NEW j \in Jobs, NEW k \in {"sync", "other"}, NEW b \in Branches,
             CreateShape(w, j, k, b)
      PROVE  PipelineInv'
  <2> USE <1>5 DEF CreateShape
  <2>1. \A v \in Workers \ {w} : pc[v] # "idle" => job[v] # j
    OBVIOUS
  <2>2. \A v \in Workers : pc'[v] # "idle" => state'[job'[v]] # "unused"
    BY <1>1, <2>1
  <2>3. \A v \in Workers : pc'[v] \in PipelinePc => state'[job'[v]] \in {"queued", "running"}
    BY <1>1, <1>2, <2>1
  <2>4. \A u, v \in Workers :
          u # v /\ pc'[u] \in PipelinePc /\ pc'[v] # "idle" => job'[u] # job'[v]
    BY <1>2, <2>1
  <2>5. \A i \in doomed' : state'[i] \notin {"queued", "running", "unused"}
    BY <1>3
  <2>6. k = "sync" => \A v \in Workers : pc[v] \in SyncPc => branch[job[v]] # b
    BY <1>1, <1>2 DEF Active
  <2>7. \A v \in Workers \ {w} : pc[v] \in SyncPc => branch'[job[v]] = branch[job[v]]
    BY <1>1, <1>2, <2>1
  <2>8. pc'[w] \in SyncPc => k = "sync"
    BY DEF SyncPc
  <2>9. SyncPipelineExclusive'
    BY <2>6, <2>7, <2>8 DEF SyncPipelineExclusive
  <2> QED
    BY <2>2, <2>3, <2>4, <2>5, <2>9
<1> QED
  BY <1>4, <1>5, RequestHasShape

\* So do a cleanup and a restart.
LEMMA CleanupPipeline ==
  ASSUME TypeOK, PipelineInv, CleanupStep \/ Restart
  PROVE  PipelineInv'
<1> USE DEF PipelineInv, rowVars, threadVars, cleanVars
<1>1. CASE CleanupSelect
  BY <1>1 DEF CleanupSelect, Terminal, SyncPipelineExclusive
<1>2. CASE CleanupAbort
  BY <1>2 DEF CleanupAbort, SyncPipelineExclusive
<1>3. CASE CleanupDelete
  <2>1. \A w \in Workers : pc[w] \in PipelinePc => job[w] \in Jobs \ doomed
    BY DEF TypeOK, ThreadsOK, PipelinePc, SyncPc, OtherPc
  <2>2. \A j \in Jobs : state'[j] = IF j \in doomed THEN "deleted" ELSE state[j]
    BY <1>3 DEF CleanupDelete
  <2>3. \A j \in Jobs : branch'[j] = IF j \in doomed THEN NoBranch ELSE branch[j]
    BY <1>3 DEF CleanupDelete
  <2>4. pc' = pc /\ job' = job /\ doomed' = {}
    BY <1>3 DEF CleanupDelete
  <2>5. \A w \in Workers : pc[w] # "idle" => job[w] \in Jobs
    BY DEF TypeOK, ThreadsOK
  <2>6. SyncPipelineExclusive'
    BY <2>1, <2>3, <2>4 DEF SyncPipelineExclusive, PipelinePc
  <2> QED
    BY <2>1, <2>2, <2>4, <2>5, <2>6
<1>4. CASE Restart
  BY <1>4 DEF Restart, SyncPipelineExclusive, PipelinePc, SyncPc, OtherPc
<1>5. ASSUME NEW j \in Jobs, CleanupRemove(j)
      PROVE  PipelineInv'
  BY <1>5 DEF CleanupRemove, SyncPipelineExclusive
<1> QED
  BY <1>1, <1>2, <1>3, <1>4, <1>5 DEF CleanupStep

\* PipelineInv holds throughout.
LEMMA PipelineAlways == Spec => []PipelineInv
<1>1. Init => PipelineInv
  BY DEF Init, PipelineInv, SyncPipelineExclusive, PipelinePc, SyncPc, OtherPc
<1>2. TypeOK /\ PipelineInv /\ [Next]_vars => PipelineInv'
  <2> SUFFICES ASSUME TypeOK, PipelineInv, [Next]_vars PROVE PipelineInv'
    OBVIOUS
  <2>1. CASE UNCHANGED vars
    BY <2>1 DEF vars, PipelineInv, SyncPipelineExclusive, rowVars, threadVars, cleanVars
  <2> QED
    BY <2>1, WorkerHasShape, WorkerPipeline, RequestPipeline, CleanupPipeline DEF Next
<1> QED
  BY <1>1, <1>2, TypeCorrect, PTL DEF Spec

\* For any number of jobs, workers and branches, two sync workers never work
\* on one branch at the same time.
THEOREM PipelinesExclusive == Spec => []SyncPipelineExclusive
<1>1. PipelineInv => SyncPipelineExclusive
  BY DEF PipelineInv
<1> QED
  BY <1>1, PipelineAlways, PTL

-----------------------------------------------------------------------------
(* Every transient state has its worker.                                   *)

\* A worker that is idle drives nothing.
LEMMA IdleDrivesNothing ==
  ASSUME NEW w \in Workers, NEW j \in Jobs, Drives(w, j)
  PROVE  pc[w] # "idle" /\ job[w] = j /\ state[j] \in Transient
  BY DEF Drives, Transient, SyncPc, OtherPc, GenPc, ApplyPc, PushPc, AbandonPc

\* A step that leaves a driver and its job alone leaves it the driver.
LEMMA DriverStays ==
  ASSUME NEW w \in Workers, NEW j \in Jobs, Drives(w, j),
         pc'[w] = pc[w], job'[w] = job[w], state'[j] = state[j]
  PROVE  Drives(w, j)'
  BY DEF Drives

\* A step of a worker passes no transient job on without a worker.
LEMMA WorkerDrives ==
  ASSUME TypeOK, TransientHasWorker, NEW w \in Workers, WorkerShape(w)
  PROVE  TransientHasWorker'
<1> DEFINE j == job[w]
<1> SUFFICES ASSUME NEW i \in Jobs, state'[i] \in Transient
             PROVE  \E v \in Workers : Drives(v, i)'
  BY DEF TransientHasWorker
<1>1. CASE i # j
  <2>1. state'[i] = state[i]
    BY <1>1 DEF WorkerShape
  <2>2. PICK v \in Workers : Drives(v, i)
    BY <2>1 DEF TransientHasWorker
  <2>3. v # w /\ pc'[v] = pc[v] /\ job'[v] = job[v]
    BY <1>1, <2>2, IdleDrivesNothing DEF WorkerShape
  <2> QED
    BY <2>1, <2>2, <2>3, DriverStays
<1>2. CASE i = j
  <2>1. CASE /\ state'[j] = state[j]
             /\ pc[w] \notin {"sync_begin", "other_begin"}
             /\ \A P \in Phases : pc[w] \in P => pc'[w] \in P
    <3>1. PICK v \in Workers : Drives(v, j)
      BY <1>2, <2>1 DEF TransientHasWorker
    <3>2. CASE v # w
      BY <1>2, <2>1, <3>1, <3>2, DriverStays DEF WorkerShape
    <3>3. CASE v = w
      <4>1. /\ pc[w] \in SyncPc \cup OtherPc => pc'[w] \in SyncPc \cup OtherPc
            /\ pc[w] \in GenPc => pc'[w] \in GenPc
            /\ pc[w] \in ApplyPc => pc'[w] \in ApplyPc
            /\ pc[w] \in PushPc => pc'[w] \in PushPc
            /\ pc[w] \in AbandonPc => pc'[w] \in AbandonPc
        BY <2>1 DEF Phases
      <4>2. pc'[w] # "idle" => job'[w] = j
        BY DEF WorkerShape
      <4>3. "idle" \notin SyncPc \cup OtherPc \cup GenPc \cup ApplyPc \cup PushPc \cup AbandonPc
        BY DEF SyncPc, OtherPc, GenPc, ApplyPc, PushPc, AbandonPc
      <4> QED
        BY <1>2, <2>1, <3>1, <3>3, <4>1, <4>2, <4>3 DEF Drives
    <3> QED
      BY <3>2, <3>3
  <2>2. CASE /\ pc[w] \in {"sync_begin", "other_begin"}
             /\ state'[j] = IF state[j] \in NoRow THEN state[j] ELSE "running"
             /\ pc'[w] \in PipelinePc
    BY <1>2, <2>2 DEF WorkerShape, Drives, PipelinePc, NoRow, Transient, SyncPc, OtherPc
  <2>3. CASE state'[j] = "pushing" /\ pc'[w] \in PushPc
    BY <1>2, <2>3 DEF WorkerShape, Drives, PushPc
  <2> QED
    BY <1>2, <2>1, <2>2, <2>3 DEF WorkerShape
<1> QED
  BY <1>1, <1>2

\* Neither does a request.
LEMMA RequestDrives ==
  ASSUME TypeOK, TransientHasWorker, NEW w \in Workers, Request(w)
  PROVE  TransientHasWorker'
<1> SUFFICES ASSUME NEW i \in Jobs, state'[i] \in Transient
             PROVE  \E v \in Workers : Drives(v, i)'
  BY DEF TransientHasWorker
<1>1. ASSUME pc[w] = "idle", state'[i] = state[i],
             \A v \in Workers \ {w} : pc'[v] = pc[v] /\ job'[v] = job[v]
      PROVE  \E v \in Workers : Drives(v, i)'
  <2>1. PICK v \in Workers : Drives(v, i)
    BY <1>1 DEF TransientHasWorker
  <2> QED
    BY <1>1, <2>1, IdleDrivesNothing, DriverStays
<1>2. ASSUME NEW j \in Jobs, RequestShape(w, j)
      PROVE  \E v \in Workers : Drives(v, i)'
  BY <1>1, <1>2 DEF RequestShape
<1>3. ASSUME NEW j \in Jobs, NEW k \in {"sync", "other"}, NEW b \in Branches,
             CreateShape(w, j, k, b)
      PROVE  \E v \in Workers : Drives(v, i)'
  BY <1>1, <1>3 DEF CreateShape, Drives
<1> QED
  BY <1>2, <1>3, RequestHasShape

\* A cleanup deletes no transient row while it stays transient, and a restart
\* leaves none behind.
LEMMA CleanupDrives ==
  ASSUME TypeOK, TransientHasWorker, CleanupStep \/ Restart
  PROVE  TransientHasWorker'
<1> USE DEF TransientHasWorker, rowVars, threadVars, cleanVars
<1>1. CASE CleanupSelect
  BY <1>1 DEF CleanupSelect, Drives
<1>2. CASE CleanupAbort
  BY <1>2 DEF CleanupAbort, Drives
<1>3. CASE CleanupDelete
  BY <1>3 DEF CleanupDelete, Drives, Transient
<1>4. CASE Restart
  BY <1>4 DEF Restart, Transient
<1>5. ASSUME NEW j \in Jobs, CleanupRemove(j)
      PROVE  TransientHasWorker'
  BY <1>5 DEF CleanupRemove, Drives
<1> QED
  BY <1>1, <1>2, <1>3, <1>4, <1>5 DEF CleanupStep

\* For any number of jobs and workers, a job in a transient state has a
\* worker that will end it: no interleaving of requests, workers, cleanups
\* and restarts leaves a branch blocked by a row nobody works on.
THEOREM TransientDriven == Spec => []TransientHasWorker
<1>1. Init => TransientHasWorker
  BY DEF Init, TransientHasWorker, Transient
<1>2. TypeOK /\ TransientHasWorker /\ [Next]_vars => TransientHasWorker'
  <2> SUFFICES ASSUME TypeOK, TransientHasWorker, [Next]_vars PROVE TransientHasWorker'
    OBVIOUS
  <2>1. CASE UNCHANGED vars
    BY <2>1 DEF vars, TransientHasWorker, Drives, rowVars, threadVars
  <2> QED
    BY <2>1, WorkerHasShape, WorkerDrives, RequestDrives, CleanupDrives DEF Next
<1> QED
  BY <1>1, <1>2, TypeCorrect, PTL DEF Spec

-----------------------------------------------------------------------------
(* Jobs with a single conflict.                                     *)

\* What a step of a worker leaves alone: the other workers, the other rows and
\* worktrees, and what the row is for.
WorkerFrame(w) ==
  LET j == job[w] IN
  /\ \A v \in Workers \ {w} : pc'[v] = pc[v] /\ job'[v] = job[v] /\ seen'[v] = seen[v]
  /\ \A i \in Jobs \ {j} :
       state'[i] = state[i] /\ onDisk'[i] = onDisk[i] /\ recorded'[i] = recorded[i] /\ tested'[i] = tested[i]
  /\ kind' = kind /\ branch' = branch /\ doomed' = doomed
  /\ pc'[w] # "idle" => job'[w] = j

\* Every step of every worker leaves that alone.
LEMMA WorkerHasFrame ==
  ASSUME TypeOK, NEW w \in Workers, WorkerStep(w)
  PROVE  WorkerFrame(w) /\ job[w] \in Jobs /\ pc[w] # "idle"
<1>1. pc[w] # "idle"
  BY WorkerHasShape DEF WorkerShape
<1>2. job[w] \in Jobs
  BY <1>1 DEF TypeOK, ThreadsOK
<1> USE <1>1, <1>2 DEF TypeOK, RowsOK, TreesOK, ThreadsOK, WorkerFrame, SetState, Goto, Finish, RemoveWorktree,
     DropTree, Publish, rowVars, gitVars, cleanVars
<1>3. CASE Begin(w)
  BY <1>3 DEF Begin
<1>4. CASE AcquireLock(w)
  BY <1>4 DEF AcquireLock
<1>5. CASE OtherWork(w)
  BY <1>5 DEF OtherWork
<1>6. CASE SyncCheckout(w)
  BY <1>6 DEF SyncCheckout
<1>7. CASE SyncRecord(w)
  BY <1>7 DEF SyncRecord
<1>8. CASE SyncGit(w)
  BY <1>8 DEF SyncGit
<1>9. CASE SyncAutoResolve(w)
  BY <1>9 DEF SyncAutoResolve
<1>10. CASE SyncOptions(w)
  BY <1>10 DEF SyncOptions
<1>11. CASE SyncTests(w)
  BY <1>11 DEF SyncTests
<1>12. CASE SyncPush(w)
  BY <1>12 DEF SyncPush
<1>13. CASE SyncTag(w)
  BY <1>13 DEF SyncTag
<1>14. CASE SyncReport(w)
  BY <1>14 DEF SyncReport
<1>15. CASE SyncComplete(w)
  BY <1>15 DEF SyncComplete
<1>16. CASE SyncFail(w)
  BY <1>16 DEF SyncFail
<1>17. CASE SyncFailed(w)
  BY <1>17 DEF SyncFailed
<1>18. CASE RefreshLlm(w)
  BY <1>18 DEF RefreshLlm
<1>19. CASE GenRead(w)
  BY <1>19 DEF GenRead
<1>20. CASE GenLlm(w)
  BY <1>20 DEF GenLlm
<1>21. CASE GenEnd(w)
  BY <1>21 DEF GenEnd
<1>22. CASE ApplyWrite(w)
  BY <1>22 DEF ApplyWrite
<1>23. CASE ApplyContinue(w)
  BY <1>23 DEF ApplyContinue
<1>24. CASE ApplyFollow(w)
  BY <1>24 DEF ApplyFollow
<1>25. CASE ApplyOffer(w)
  BY <1>25 DEF ApplyOffer
<1>26. CASE ApplyRefresh(w)
  BY <1>26 DEF ApplyRefresh
<1>27. CASE ApplyLlm(w)
  BY <1>27 DEF ApplyLlm
<1>28. CASE ApplyErr(w)
  BY <1>28 DEF ApplyErr
<1>29. CASE ApplyTests(w)
  BY <1>29 DEF ApplyTests
<1>30. CASE ApplyPush(w)
  BY <1>30 DEF ApplyPush
<1>31. CASE PushBranch(w)
  BY <1>31 DEF PushBranch
<1>32. CASE PushTag(w)
  BY <1>32 DEF PushTag
<1>33. CASE PushClean(w)
  BY <1>33 DEF PushClean
<1>34. CASE PushDone(w)
  BY <1>34 DEF PushDone
<1>35. CASE AbandonClean(w)
  BY <1>35 DEF AbandonClean
<1>36. CASE AbandonDone(w)
  BY <1>36 DEF AbandonDone
<1> QED
  BY <1>3, <1>4, <1>5, <1>6, <1>7, <1>8, <1>9, <1>10, <1>11, <1>12, <1>13, <1>14, <1>15, <1>16, <1>17, <1>18, <1>19, <1>20, <1>21, <1>22, <1>23, <1>24, <1>25, <1>26, <1>27, <1>28, <1>29, <1>30, <1>31, <1>32, <1>33, <1>34, <1>35, <1>36 DEF WorkerStep, SyncStep, GenStep, ApplyStep, PushStep, AbandonStep

\* What such a step does to its own row, worktree and counter when there is a single conflict.
SingleShape(w) ==
  LET j == job[w] IN
  /\ pc'[w] # "idle" => NoSecond(w)'
  /\ OwnsRow(pc'[w], state'[j])
  /\ WorkerHasTree(pc'[w], onDisk'[j], recorded'[j], tested'[j])
  /\ RowHasTree(state'[j], onDisk'[j], recorded'[j], tested'[j])
  /\ state'[j] # "unused"
  /\ untested' = {}
  /\ state'[j] \in Working => state[j] \in Working
  /\ state[j] \in Terminal \cup {"abandoning"} => state'[j] \in Terminal \cup {"abandoning"}
  /\ pc[w] \notin BusyPc =>
       /\ onDisk'[j] = onDisk[j] /\ recorded'[j] = recorded[j] /\ tested'[j] = tested[j]
       /\ \/ state'[j] = state[j] /\ pc'[w] \notin BusyPc
          \/ state[j] = "waiting_push" /\ state'[j] = "pushing"

\* Every step of every worker has that shape.
LEMMA WorkerIsSingle ==
  ASSUME TypeOK, SingleInv, Layers = 1, NEW w \in Workers, WorkerStep(w)
  PROVE  SingleShape(w)
<1>1. job[w] \in Jobs /\ pc[w] # "idle"
  BY WorkerHasFrame
<1>2. LET j == job[w] IN
      /\ NoSecond(w) /\ OwnsRow(pc[w], state[j])
      /\ WorkerHasTree(pc[w], onDisk[j], recorded[j], tested[j])
      /\ RowHasTree(state[j], onDisk[j], recorded[j], tested[j])
      /\ state[j] # "unused" /\ untested = {}
  BY <1>1 DEF SingleInv, OnlyTestedIsPushed
<1> USE <1>1, <1>2 DEF TypeOK, RowsOK, TreesOK, ThreadsOK, SingleShape, NoSecond, OwnsRow, WorkerHasTree, RowHasTree, BusyPc, PipelinePc, SyncPc,
     OtherPc, GenPc, ApplyPc, PushPc, AbandonPc, Guidable, Working, Active, Terminal, NoRow, HasRow, SetState, Goto, Finish, RemoveWorktree, DropTree,
     Publish, rowVars, gitVars, cleanVars
<1>3. CASE Begin(w)
  BY <1>3 DEF Begin
<1>4. CASE AcquireLock(w)
  BY <1>4 DEF AcquireLock
<1>5. CASE OtherWork(w)
  BY <1>5 DEF OtherWork
<1>6. CASE SyncCheckout(w)
  BY <1>6 DEF SyncCheckout
<1>7. CASE SyncRecord(w)
  BY <1>7 DEF SyncRecord
<1>8. CASE SyncGit(w)
  BY <1>8 DEF SyncGit
<1>9. CASE SyncAutoResolve(w)
  BY <1>9 DEF SyncAutoResolve
<1>10. CASE SyncOptions(w)
  BY <1>10 DEF SyncOptions
<1>11. CASE SyncTests(w)
  BY <1>11 DEF SyncTests
<1>12. CASE SyncPush(w)
  BY <1>12 DEF SyncPush
<1>13. CASE SyncTag(w)
  BY <1>13 DEF SyncTag
<1>14. CASE SyncReport(w)
  BY <1>14 DEF SyncReport
<1>15. CASE SyncComplete(w)
  BY <1>15 DEF SyncComplete
<1>16. CASE SyncFail(w)
  BY <1>16 DEF SyncFail
<1>17. CASE SyncFailed(w)
  BY <1>17 DEF SyncFailed
<1>18. CASE RefreshLlm(w)
  BY <1>18 DEF RefreshLlm
<1>19. CASE GenRead(w)
  BY <1>19 DEF GenRead
<1>20. CASE GenLlm(w)
  BY <1>20 DEF GenLlm
<1>21. CASE GenEnd(w)
  BY <1>21 DEF GenEnd
<1>22. CASE ApplyWrite(w)
  BY <1>22 DEF ApplyWrite
<1>23. CASE ApplyContinue(w)
  BY <1>23 DEF ApplyContinue
<1>24. CASE ApplyFollow(w)
  BY <1>24 DEF ApplyFollow
<1>25. CASE ApplyOffer(w)
  BY <1>25 DEF ApplyOffer
<1>26. CASE ApplyRefresh(w)
  BY <1>26 DEF ApplyRefresh
<1>27. CASE ApplyLlm(w)
  BY <1>27 DEF ApplyLlm
<1>28. CASE ApplyErr(w)
  BY <1>28 DEF ApplyErr
<1>29. CASE ApplyTests(w)
  BY <1>29 DEF ApplyTests
<1>30. CASE ApplyPush(w)
  BY <1>30 DEF ApplyPush
<1>31. CASE PushBranch(w)
  BY <1>31 DEF PushBranch
<1>32. CASE PushTag(w)
  BY <1>32 DEF PushTag
<1>33. CASE PushClean(w)
  BY <1>33 DEF PushClean
<1>34. CASE PushDone(w)
  BY <1>34 DEF PushDone
<1>35. CASE AbandonClean(w)
  BY <1>35 DEF AbandonClean
<1>36. CASE AbandonDone(w)
  BY <1>36 DEF AbandonDone
<1> QED
  BY <1>3, <1>4, <1>5, <1>6, <1>7, <1>8, <1>9, <1>10, <1>11, <1>12, <1>13, <1>14, <1>15, <1>16, <1>17, <1>18, <1>19, <1>20, <1>21, <1>22, <1>23, <1>24, <1>25, <1>26, <1>27, <1>28, <1>29, <1>30, <1>31, <1>32, <1>33, <1>34, <1>35, <1>36 DEF WorkerStep, SyncStep, GenStep, ApplyStep, PushStep, AbandonStep

\* A step of a worker keeps SingleInv.
LEMMA WorkerSingle ==
  ASSUME TypeOK, SingleInv, Layers = 1, NEW w \in Workers, WorkerStep(w)
  PROVE  SingleInv'
<1> DEFINE j == job[w]
<1>1. WorkerFrame(w) /\ j \in Jobs /\ pc[w] # "idle" /\ SingleShape(w)
  BY WorkerHasFrame, WorkerIsSingle
<1>2. \A v \in Workers : pc[v] # "idle" => job[v] \in Jobs
  BY DEF TypeOK, ThreadsOK
<1>3. ASSUME NEW v \in Workers \ {w}, pc[v] \in BusyPc, job[v] = j
      PROVE  /\ pc[w] \notin BusyPc /\ pc'[w] \notin BusyPc
             /\ state'[j] = state[j] /\ onDisk'[j] = onDisk[j]
             /\ recorded'[j] = recorded[j] /\ tested'[j] = tested[j]
  <2>1. pc[w] \notin BusyPc
    BY <1>3 DEF SingleInv
  <2>2. state[j] # "waiting_push"
    BY <1>3 DEF SingleInv, OwnsRow, BusyPc, PipelinePc, SyncPc, OtherPc, GenPc, ApplyPc, PushPc, AbandonPc
  <2> QED
    BY <1>1, <2>1, <2>2 DEF SingleShape
<1>4. ASSUME NEW v \in Workers, pc'[v] # "idle"
      PROVE  LET i == job'[v] IN
             /\ NoSecond(v)'
             /\ OwnsRow(pc'[v], state'[i])
             /\ WorkerHasTree(pc'[v], onDisk'[i], recorded'[i], tested'[i])
             /\ state'[i] # "unused"
  <2>1. CASE v = w
    BY <1>1, <1>4, <2>1 DEF WorkerFrame, SingleShape
  <2>2. CASE v # w
    <3> DEFINE i == job[v]
    <3>1. pc'[v] = pc[v] /\ job'[v] = i /\ seen'[v] = seen[v] /\ i \in Jobs
      BY <1>1, <1>2, <1>4, <2>2 DEF WorkerFrame
    <3>2. /\ NoSecond(v) /\ OwnsRow(pc[v], state[i])
          /\ WorkerHasTree(pc[v], onDisk[i], recorded[i], tested[i]) /\ state[i] # "unused"
      BY <1>4, <3>1 DEF SingleInv
    <3>3. NoSecond(v)'
      BY <3>1, <3>2 DEF NoSecond
    <3>4. CASE i # j
      BY <1>1, <3>1, <3>2, <3>3, <3>4 DEF WorkerFrame
    <3>5. CASE i = j /\ pc[v] \in BusyPc
      BY <1>3, <2>2, <3>1, <3>2, <3>3, <3>5
    <3>6. CASE i = j /\ pc[v] \notin BusyPc
      <4>1. state'[i] # "unused"
        BY <1>1, <3>6 DEF SingleShape
      <4> QED
        BY <3>1, <3>3, <3>6, <4>1 DEF OwnsRow, WorkerHasTree, BusyPc, PipelinePc, SyncPc, PushPc
    <3> QED
      BY <3>4, <3>5, <3>6
  <2> QED
    BY <2>1, <2>2
<1>5. \A i \in Jobs : RowHasTree(state'[i], onDisk'[i], recorded'[i], tested'[i])
  BY <1>1 DEF SingleInv, WorkerFrame, SingleShape
<1>6. \A u, v \in Workers :
        u # v /\ pc'[u] \in BusyPc /\ pc'[v] \in BusyPc => job'[u] # job'[v]
  <2>1. \A v \in Workers \ {w} : pc'[v] = pc[v] /\ job'[v] = job[v]
    BY <1>1 DEF WorkerFrame
  <2>2. ASSUME NEW v \in Workers \ {w}, pc[v] \in BusyPc, pc'[w] \in BusyPc
        PROVE  job'[w] # job[v]
    <3>1. job'[w] = j
      BY <1>1, <2>2 DEF WorkerFrame, BusyPc, PipelinePc, SyncPc, OtherPc, GenPc, ApplyPc, PushPc, AbandonPc
    <3> QED
      BY <1>3, <2>2, <3>1
  <2> QED
    BY <2>1, <2>2 DEF SingleInv
<1>7. \A i \in doomed' : state'[i] \in Terminal \cup {"abandoning"}
  BY <1>1 DEF SingleInv, WorkerFrame, SingleShape, TypeOK
<1>8. OneWorkingSyncPerBranch'
  BY <1>1 DEF SingleInv, OneWorkingSyncPerBranch, WorkerFrame, SingleShape
<1>9. OnlyTestedIsPushed'
  BY <1>1 DEF SingleShape, OnlyTestedIsPushed
<1> QED
  BY <1>4, <1>5, <1>6, <1>7, <1>8, <1>9 DEF SingleInv

\* What the requests leave alone, and what they need of the row they take.
RequestFrame(w, j) ==
  /\ onDisk' = onDisk /\ tested' = tested /\ untested' = untested /\ recorded' = recorded
  /\ \A v \in Workers \ {w} : seen'[v] = seen[v]
  /\ \A i \in Jobs \ {j} : kind'[i] = kind[i]

\* A request on a row: what it starts, and the state it leaves.
TakesRow(w, j) ==
  /\ RequestFrame(w, j) /\ RequestShape(w, j)
  /\ kind' = kind
  /\ \/ pc'[w] = "refresh_llm" /\ state[j] \in Guidable /\ state'[j] = state[j]
     \/ pc'[w] = "gen_read" /\ state[j] \in Guidable /\ state'[j] = "generating_proposal"
     \/ pc'[w] = "apply_write" /\ state[j] \in Guidable /\ state'[j] = "applying"
     \/ pc'[w] = "push_branch" /\ state[j] = "waiting_push" /\ state'[j] = "pushing"
     \/ pc'[w] = "abandon_clean" /\ state[j] \in Abandonable /\ state'[j] = "abandoning"

\* A request for a new job.
MakesRow(w, j, k, b) ==
  RequestFrame(w, j) /\ CreateShape(w, j, k, b) /\ kind'[j] = k

\* Every request is one of the two.
LEMMA RequestIsSingle ==
  ASSUME TypeOK, NEW w \in Workers, Request(w)
  PROVE  \E j \in Jobs :
           \/ TakesRow(w, j)
           \/ \E k \in {"sync", "other"}, b \in Branches : MakesRow(w, j, k, b)
<1> USE DEF TypeOK, RowsOK, ThreadsOK, rowVars, gitVars, cleanVars, RequestFrame
<1>1. PICK j \in Jobs :
        \/ \E b \in Branches : StartSync(w, j, b) \/ StartOther(w, j, b)
        \/ AddMessage(w, j) \/ GenerateProposal(w, j) \/ ApplyProposal(w, j)
        \/ RetryPush(w, j) \/ Abandon(w, j)
  BY DEF Request
<1>2. CASE \E b \in Branches : StartSync(w, j, b)
  BY <1>2 DEF StartSync, CreateJob, Spawn, CreateShape, MakesRow
<1>3. CASE \E b \in Branches : StartOther(w, j, b)
  BY <1>3 DEF StartOther, CreateJob, Spawn, CreateShape, MakesRow
<1> USE DEF TakesRow, RequestShape, Spawn, SetState, HasRow, NoRow, Guidable, Abandonable,
            PipelinePc, SyncPc, OtherPc, GenPc, ApplyPc, PushPc, AbandonPc, Transient, Drives
<1>4. CASE AddMessage(w, j)
  BY <1>4 DEF AddMessage
<1>5. CASE GenerateProposal(w, j)
  BY <1>5 DEF GenerateProposal
<1>6. CASE ApplyProposal(w, j)
  BY <1>6 DEF ApplyProposal
<1>7. CASE RetryPush(w, j)
  BY <1>7 DEF RetryPush
<1>8. CASE Abandon(w, j)
  BY <1>8 DEF Abandon
<1> QED
  BY <1>1, <1>2, <1>3, <1>4, <1>5, <1>6, <1>7, <1>8

\* A request keeps SingleInv.
LEMMA RequestSingle ==
  ASSUME TypeOK, SingleInv, NEW w \in Workers, Request(w)
  PROVE  SingleInv'
<1>1. \A v \in Workers : pc[v] # "idle" => job[v] \in Jobs
  BY DEF TypeOK, ThreadsOK
<1>2. doomed \subseteq Jobs
  BY DEF TypeOK
<1>3. "idle" \notin BusyPc
  BY DEF BusyPc, PipelinePc, SyncPc, OtherPc, GenPc, ApplyPc, PushPc, AbandonPc
<1>4. ASSUME NEW j \in Jobs, NEW v \in Workers \ {w}, job[v] # j, pc'[v] # "idle",
             \A u \in Workers \ {w} : pc'[u] = pc[u] /\ job'[u] = job[u],
             \A i \in Jobs \ {j} : state'[i] = state[i], RequestFrame(w, j)
      PROVE  LET i == job'[v] IN
             /\ NoSecond(v)' /\ OwnsRow(pc'[v], state'[i]) /\ state'[i] # "unused"
             /\ WorkerHasTree(pc'[v], onDisk'[i], recorded'[i], tested'[i])
  BY <1>1, <1>4 DEF SingleInv, NoSecond, RequestFrame
<1>5. ASSUME NEW j \in Jobs, TakesRow(w, j)
      PROVE  SingleInv'
  <2> USE <1>5 DEF TakesRow, RequestShape
  <2>1. \A v \in Workers : pc[v] \in BusyPc => job[v] # j
    BY <1>3 DEF SingleInv, OwnsRow, Abandonable, BusyPc
  <2>2. RowHasTree(state[j], onDisk[j], recorded[j], tested[j])
    BY DEF SingleInv
  <2>3. ASSUME NEW v \in Workers, pc'[v] # "idle"
        PROVE  LET i == job'[v] IN
               /\ NoSecond(v)' /\ OwnsRow(pc'[v], state'[i]) /\ state'[i] # "unused"
               /\ WorkerHasTree(pc'[v], onDisk'[i], recorded'[i], tested'[i])
    <3>1. CASE v = w
      BY <2>2, <3>1 DEF NoSecond, OwnsRow, WorkerHasTree, RowHasTree, RequestFrame, PipelinePc, SyncPc,
                        OtherPc, GenPc, ApplyPc, PushPc, AbandonPc
    <3>2. CASE v # w /\ job[v] # j
      BY <1>4, <2>3, <3>2
    <3>3. CASE v # w /\ job[v] = j
      <4>1. pc[v] \notin BusyPc /\ pc'[v] = pc[v] /\ job'[v] = j /\ NoSecond(v)
        BY <2>1, <2>3, <3>3 DEF SingleInv
      <4>2. NoSecond(v)'
        BY <3>3, <4>1 DEF NoSecond, RequestFrame
      <4> QED
        BY <4>1, <4>2 DEF OwnsRow, WorkerHasTree, BusyPc, PipelinePc, SyncPc, PushPc
    <3> QED
      BY <3>1, <3>2, <3>3
  <2>4. \A i \in Jobs : RowHasTree(state'[i], onDisk'[i], recorded'[i], tested'[i])
    BY DEF SingleInv, RowHasTree, RequestFrame, Guidable
  <2>5. \A u, v \in Workers :
          u # v /\ pc'[u] \in BusyPc /\ pc'[v] \in BusyPc => job'[u] # job'[v]
    BY <2>1 DEF SingleInv
  <2>6. \A i \in doomed' : state'[i] \in Terminal \cup {"abandoning"}
    BY <1>2 DEF SingleInv, Terminal, Guidable, Abandonable
  <2>7. OneWorkingSyncPerBranch'
    <3>1. state'[j] \in Working => state[j] \in Working
      BY DEF Working, Active, Guidable, Abandonable
    <3> QED
      BY <3>1 DEF SingleInv, OneWorkingSyncPerBranch
  <2>8. OnlyTestedIsPushed'
    BY DEF SingleInv, OnlyTestedIsPushed, RequestFrame
  <2> QED
    BY <2>3, <2>4, <2>5, <2>6, <2>7, <2>8 DEF SingleInv
<1>6. ASSUME NEW j \in Jobs, NEW k \in {"sync", "other"}, NEW b \in Branches, MakesRow(w, j, k, b)
      PROVE  SingleInv'
  <2> USE <1>6 DEF MakesRow, CreateShape
  <2>1. \A v \in Workers : pc[v] # "idle" => job[v] # j
    BY DEF SingleInv
  <2>2. ASSUME NEW v \in Workers, pc'[v] # "idle"
        PROVE  LET i == job'[v] IN
               /\ NoSecond(v)' /\ OwnsRow(pc'[v], state'[i]) /\ state'[i] # "unused"
               /\ WorkerHasTree(pc'[v], onDisk'[i], recorded'[i], tested'[i])
    <3>1. CASE v = w
      BY <3>1 DEF NoSecond, OwnsRow, WorkerHasTree, PipelinePc, SyncPc,
                  OtherPc, GenPc, ApplyPc, PushPc, AbandonPc
    <3>2. CASE v # w
      BY <1>4, <2>1, <2>2, <3>2
    <3> QED
      BY <3>1, <3>2
  <2>3. \A i \in Jobs : RowHasTree(state'[i], onDisk'[i], recorded'[i], tested'[i])
    BY DEF SingleInv, RowHasTree, RequestFrame, Guidable
  <2>4. \A u, v \in Workers :
          u # v /\ pc'[u] \in BusyPc /\ pc'[v] \in BusyPc => job'[u] # job'[v]
    BY <1>3, <2>1 DEF SingleInv
  <2>5. \A i \in doomed' : state'[i] \in Terminal \cup {"abandoning"}
    BY <1>2 DEF SingleInv, Terminal
  <2>6. OneWorkingSyncPerBranch'
    BY DEF SingleInv, OneWorkingSyncPerBranch, RequestFrame, Working
  <2>7. OnlyTestedIsPushed'
    BY DEF SingleInv, OnlyTestedIsPushed, RequestFrame
  <2> QED
    BY <2>2, <2>3, <2>4, <2>5, <2>6, <2>7 DEF SingleInv
<1> QED
  BY <1>5, <1>6, RequestIsSingle

\* So do a cleanup and a restart.
LEMMA CleanupSingle ==
  ASSUME TypeOK, SingleInv, CleanupStep \/ Restart
  PROVE  SingleInv'
<1> USE DEF rowVars, threadVars, gitVars, cleanVars
<1>1. \A v \in Workers : pc[v] # "idle" => job[v] \in Jobs
  BY DEF TypeOK, ThreadsOK
<1>2. CASE CleanupSelect
  BY <1>2 DEF CleanupSelect, SingleInv, NoSecond, OneWorkingSyncPerBranch, OnlyTestedIsPushed
<1>3. CASE CleanupAbort
  BY <1>3 DEF CleanupAbort, SingleInv, NoSecond, OneWorkingSyncPerBranch, OnlyTestedIsPushed
<1>4. CASE CleanupDelete
  <2>1. /\ \A j \in Jobs : /\ state'[j] = IF j \in doomed THEN "deleted" ELSE state[j]
                           /\ kind'[j] = IF j \in doomed THEN "sync" ELSE kind[j]
                           /\ branch'[j] = IF j \in doomed THEN NoBranch ELSE branch[j]
                           /\ recorded'[j] = IF j \in doomed THEN FALSE ELSE recorded[j]
        /\ doomed' = {} /\ UNCHANGED <<pc, job, seen, onDisk, tested, untested>>
    BY <1>4 DEF CleanupDelete
  <2>2. ASSUME NEW v \in Workers, pc[v] # "idle"
        PROVE  LET i == job[v] IN
               /\ NoSecond(v)' /\ OwnsRow(pc[v], state'[i]) /\ state'[i] # "unused"
               /\ WorkerHasTree(pc[v], onDisk'[i], recorded'[i], tested'[i])
    <3> DEFINE i == job[v]
    <3>1. /\ NoSecond(v) /\ OwnsRow(pc[v], state[i]) /\ state[i] # "unused" /\ i \in Jobs
          /\ WorkerHasTree(pc[v], onDisk[i], recorded[i], tested[i])
      BY <1>1, <2>2 DEF SingleInv
    <3>2. NoSecond(v)'
      BY <2>1, <3>1 DEF NoSecond
    <3>3. CASE i \notin doomed
      BY <2>1, <3>1, <3>2, <3>3
    <3>4. CASE i \in doomed
      <4>1. state[i] \in Terminal \cup {"abandoning"} /\ state'[i] = "deleted"
        BY <2>1, <3>1, <3>4 DEF SingleInv
      <4> QED
        BY <3>1, <3>2, <4>1 DEF OwnsRow, WorkerHasTree, Terminal, PipelinePc, SyncPc, PushPc, AbandonPc
    <3> QED
      BY <3>3, <3>4
  <2>3. \A i \in Jobs : RowHasTree(state'[i], onDisk'[i], recorded'[i], tested'[i])
    BY <2>1 DEF SingleInv, RowHasTree, Guidable
  <2>4. OneWorkingSyncPerBranch'
    <3>1. \A i \in Jobs : state'[i] \in Working =>
            state[i] \in Working /\ kind'[i] = kind[i] /\ branch'[i] = branch[i]
      BY <2>1 DEF Working, Active
    <3> QED
      BY <3>1 DEF SingleInv, OneWorkingSyncPerBranch
  <2> QED
    BY <2>1, <2>2, <2>3, <2>4 DEF SingleInv, OnlyTestedIsPushed
<1>5. ASSUME NEW j \in Jobs, CleanupRemove(j)
      PROVE  SingleInv'
  <2>1. /\ state[j] \in Terminal \cup {"abandoning"}
        /\ \A i \in Jobs \ {j} : onDisk'[i] = onDisk[i] /\ tested'[i] = tested[i]
        /\ UNCHANGED <<state, kind, branch, recorded, pc, job, seen, doomed, untested>>
    BY <1>5 DEF CleanupRemove, SingleInv, RemoveWorktree, DropTree, TypeOK, TreesOK
  <2>2. ASSUME NEW v \in Workers, pc[v] # "idle"
        PROVE  LET i == job[v] IN
               NoSecond(v)' /\ WorkerHasTree(pc[v], onDisk'[i], recorded'[i], tested'[i])
    <3>1. NoSecond(v)'
      BY <2>1, <2>2 DEF SingleInv, NoSecond
    <3>2. CASE job[v] # j
      BY <1>1, <2>1, <2>2, <3>1, <3>2 DEF SingleInv
    <3>3. CASE job[v] = j
      BY <2>1, <2>2, <3>1, <3>3 DEF SingleInv, OwnsRow, WorkerHasTree, Terminal, PipelinePc, SyncPc, PushPc
    <3> QED
      BY <3>2, <3>3
  <2>3. \A i \in Jobs : RowHasTree(state'[i], onDisk'[i], recorded'[i], tested'[i])
    BY <2>1 DEF SingleInv, RowHasTree, Guidable, Terminal
  <2> QED
    BY <2>1, <2>2, <2>3 DEF SingleInv, OneWorkingSyncPerBranch, OnlyTestedIsPushed
<1>6. CASE Restart
  <2>1. /\ \A j \in Jobs : state'[j] = IF state[j] \in Transient THEN "failed" ELSE state[j]
        /\ \A w \in Workers : pc'[w] = "idle"
        /\ doomed' = {} /\ UNCHANGED <<kind, branch, recorded, onDisk, tested, untested>>
    BY <1>6 DEF Restart
  <2>2. \A i \in Jobs : RowHasTree(state'[i], onDisk'[i], recorded'[i], tested'[i])
    BY <2>1 DEF SingleInv, RowHasTree, Guidable, Transient
  <2>3. OneWorkingSyncPerBranch'
    <3>1. \A i \in Jobs : state'[i] \in Working => state[i] \in Working
      BY <2>1 DEF Working, Active
    <3> QED
      BY <2>1, <3>1 DEF SingleInv, OneWorkingSyncPerBranch
  <2> QED
    BY <2>1, <2>2, <2>3 DEF SingleInv, OnlyTestedIsPushed, BusyPc, PipelinePc, SyncPc, OtherPc, GenPc,
                            ApplyPc, PushPc, AbandonPc
<1> QED
  BY <1>2, <1>3, <1>4, <1>5, <1>6 DEF CleanupStep

\* With a single conflict SingleInv holds throughout.
LEMMA SingleAlways == Spec => [](Layers = 1 => SingleInv)
<1>1. Init => SingleInv
  BY DEF Init, SingleInv, RowHasTree, Guidable, OneWorkingSyncPerBranch, OnlyTestedIsPushed, Working, Active,
         BusyPc, PipelinePc, SyncPc, OtherPc, GenPc, ApplyPc, PushPc, AbandonPc
<1>2. TypeOK /\ (Layers = 1 => SingleInv) /\ [Next]_vars => (Layers = 1 => SingleInv)'
  <2> SUFFICES ASSUME TypeOK, Layers = 1, SingleInv, [Next]_vars PROVE SingleInv'
    OBVIOUS
  <2>1. CASE UNCHANGED vars
    BY <2>1 DEF vars, SingleInv, NoSecond, OneWorkingSyncPerBranch, OnlyTestedIsPushed, rowVars, gitVars,
                threadVars, cleanVars
  <2> QED
    BY <2>1, WorkerSingle, RequestSingle, CleanupSingle DEF Next
<1> QED
  BY <1>1, <1>2, TypeCorrect, PTL DEF Spec

\* For any number of jobs, workers and branches, jobs that meet one conflict at
\* most never work on one branch at once.
THEOREM OneSyncPerBranch ==
  ASSUME Layers = 1
  PROVE  Spec => []OneWorkingSyncPerBranch
<1>1. (Layers = 1 => SingleInv) => OneWorkingSyncPerBranch
  BY DEF SingleInv
<1> QED
  BY <1>1, SingleAlways, PTL

\* Nor do two workers change or publish the worktree of one job.
THEOREM OneWriter ==
  ASSUME Layers = 1
  PROVE  Spec => []OneWriterPerJob
<1>1. (Layers = 1 => SingleInv) => OneWriterPerJob
  BY DEF SingleInv, OneWriterPerJob, WriterPc, BusyPc, PipelinePc
<1> QED
  BY <1>1, SingleAlways, PTL

\* What the admin can still guide, apply or push has its worktree.
THEOREM Resumable ==
  ASSUME Layers = 1
  PROVE  Spec => []ResumableHasWorktree
<1>1. (Layers = 1 => SingleInv) => ResumableHasWorktree
  BY DEF SingleInv, ResumableHasWorktree, RowHasTree
<1> QED
  BY <1>1, SingleAlways, PTL

\* Nothing reaches the fork that has not passed the tests as it is.
THEOREM TestedIsPushed ==
  ASSUME Layers = 1
  PROVE  Spec => []OnlyTestedIsPushed
<1>1. (Layers = 1 => SingleInv) => OnlyTestedIsPushed
  BY DEF SingleInv
<1> QED
  BY <1>1, SingleAlways, PTL

\* Where a step changes a candidate or the options, with a single conflict.
LEMMA WorkerKeepsCandidate ==
  ASSUME TypeOK, SingleInv, Layers = 1, NEW w \in Workers, WorkerStep(w)
  PROVE  LET j == job[w] IN
         /\ \A i \in Jobs \ {j} : prop'[i] = prop[i] /\ opts'[i] = opts[i]
         /\ state[j] = "applying" /\ state'[j] = "applying" => prop'[j] = prop[j] /\ opts'[j] = opts[j]
<1>1. job[w] \in Jobs /\ pc[w] # "idle"
  BY WorkerHasFrame
<1>2. NoSecond(w) /\ OwnsRow(pc[w], state[job[w]])
  BY <1>1 DEF SingleInv
<1> USE <1>1, <1>2 DEF TypeOK, RowsOK, NoSecond, OwnsRow, PipelinePc, SyncPc, OtherPc, GenPc, ApplyPc, SetState, StoreOptions, Guidable, HasRow, NoRow, rowVars
<1>3. CASE Begin(w)
  BY <1>3 DEF Begin
<1>4. CASE AcquireLock(w)
  BY <1>4 DEF AcquireLock
<1>5. CASE OtherWork(w)
  BY <1>5 DEF OtherWork
<1>6. CASE SyncCheckout(w)
  BY <1>6 DEF SyncCheckout
<1>7. CASE SyncRecord(w)
  BY <1>7 DEF SyncRecord
<1>8. CASE SyncGit(w)
  BY <1>8 DEF SyncGit
<1>9. CASE SyncAutoResolve(w)
  BY <1>9 DEF SyncAutoResolve
<1>10. CASE SyncOptions(w)
  BY <1>10 DEF SyncOptions
<1>11. CASE SyncTests(w)
  BY <1>11 DEF SyncTests
<1>12. CASE SyncPush(w)
  BY <1>12 DEF SyncPush
<1>13. CASE SyncTag(w)
  BY <1>13 DEF SyncTag
<1>14. CASE SyncReport(w)
  BY <1>14 DEF SyncReport
<1>15. CASE SyncComplete(w)
  BY <1>15 DEF SyncComplete
<1>16. CASE SyncFail(w)
  BY <1>16 DEF SyncFail
<1>17. CASE SyncFailed(w)
  BY <1>17 DEF SyncFailed
<1>18. CASE RefreshLlm(w)
  BY <1>18 DEF RefreshLlm
<1>19. CASE GenRead(w)
  BY <1>19 DEF GenRead
<1>20. CASE GenLlm(w)
  BY <1>20 DEF GenLlm
<1>21. CASE GenEnd(w)
  BY <1>21 DEF GenEnd
<1>22. CASE ApplyWrite(w)
  BY <1>22 DEF ApplyWrite
<1>23. CASE ApplyContinue(w)
  BY <1>23 DEF ApplyContinue
<1>24. CASE ApplyFollow(w)
  BY <1>24 DEF ApplyFollow
<1>25. CASE ApplyOffer(w)
  BY <1>25 DEF ApplyOffer
<1>26. CASE ApplyRefresh(w)
  BY <1>26 DEF ApplyRefresh
<1>27. CASE ApplyLlm(w)
  BY <1>27 DEF ApplyLlm
<1>28. CASE ApplyErr(w)
  BY <1>28 DEF ApplyErr
<1>29. CASE ApplyTests(w)
  BY <1>29 DEF ApplyTests
<1>30. CASE ApplyPush(w)
  BY <1>30 DEF ApplyPush
<1>31. CASE PushBranch(w)
  BY <1>31 DEF PushBranch
<1>32. CASE PushTag(w)
  BY <1>32 DEF PushTag
<1>33. CASE PushClean(w)
  BY <1>33 DEF PushClean
<1>34. CASE PushDone(w)
  BY <1>34 DEF PushDone
<1>35. CASE AbandonClean(w)
  BY <1>35 DEF AbandonClean
<1>36. CASE AbandonDone(w)
  BY <1>36 DEF AbandonDone
<1> QED
  BY <1>3, <1>4, <1>5, <1>6, <1>7, <1>8, <1>9, <1>10, <1>11, <1>12, <1>13, <1>14, <1>15, <1>16, <1>17, <1>18, <1>19, <1>20, <1>21, <1>22, <1>23, <1>24, <1>25, <1>26, <1>27, <1>28, <1>29, <1>30, <1>31, <1>32, <1>33, <1>34, <1>35, <1>36 DEF WorkerStep, SyncStep, GenStep, ApplyStep, PushStep, AbandonStep

\* While a job with a single conflict is applying, its candidate and options stay.
THEOREM CandidateKept ==
  ASSUME Layers = 1
  PROVE  Spec => CandidateStable
<1>1. TypeOK /\ (Layers = 1 => SingleInv) /\ [Next]_vars =>
        [\A j \in Jobs : state[j] = "applying" /\ state'[j] = "applying"
           => prop'[j] = prop[j] /\ opts'[j] = opts[j]]_vars
  <2> SUFFICES ASSUME TypeOK, SingleInv, [Next]_vars, NEW j \in Jobs,
                      state[j] = "applying", state'[j] = "applying"
               PROVE  prop'[j] = prop[j] /\ opts'[j] = opts[j]
    OBVIOUS
  <2>1. CASE UNCHANGED vars
    BY <2>1 DEF vars, rowVars
  <2>2. ASSUME NEW w \in Workers, WorkerStep(w)
        PROVE  prop'[j] = prop[j] /\ opts'[j] = opts[j]
    BY <2>2, WorkerKeepsCandidate
  <2>3. ASSUME NEW w \in Workers, Request(w)
        PROVE  prop'[j] = prop[j] /\ opts'[j] = opts[j]
    <3>1. PICK i \in Jobs :
            \/ \E b \in Branches : StartSync(w, i, b) \/ StartOther(w, i, b)
            \/ AddMessage(w, i) \/ GenerateProposal(w, i) \/ ApplyProposal(w, i)
            \/ RetryPush(w, i) \/ Abandon(w, i)
      BY <2>3 DEF Request
    <3> QED
      BY <3>1 DEF StartSync, StartOther, CreateJob, AddMessage, GenerateProposal, ApplyProposal, RetryPush,
                  Abandon, SetState, HasRow, NoRow, rowVars, TypeOK, RowsOK
  <2>4. CASE CleanupStep \/ Restart
    BY <2>4 DEF CleanupStep, CleanupSelect, CleanupAbort, CleanupDelete, CleanupRemove, Restart, rowVars, TypeOK, RowsOK
  <2> QED
    BY <2>1, <2>2, <2>3, <2>4 DEF Next
<1> QED
  BY <1>1, SingleAlways, TypeCorrect, PTL DEF Spec, CandidateStable

-----------------------------------------------------------------------------
(* No worktree is lost, with any number of layers.                         *)

\* What a step of a worker does to the path and the worktree of its row.
StrayShape(w) ==
  LET j == job[w] IN
  /\ RowHasPath(state'[j], onDisk'[j], recorded'[j])
  /\ WorkerHasPath(pc'[w], state'[j], onDisk'[j], recorded'[j])
  /\ pc[w] \notin PipelinePc =>
       /\ recorded'[j] = recorded[j]
       /\ onDisk'[j] => onDisk[j]
       /\ pc'[w] \notin PipelinePc
  /\ state'[j] \notin NoRow => state[j] \notin NoRow

\* Every step of every worker has that shape.
LEMMA WorkerIsStray ==
  ASSUME TypeOK, StrayInv, PipelineInv, NEW w \in Workers, WorkerStep(w)
  PROVE  StrayShape(w)
<1>1. job[w] \in Jobs /\ pc[w] # "idle"
  BY WorkerHasFrame
<1>2. LET j == job[w] IN
      /\ RowHasPath(state[j], onDisk[j], recorded[j])
      /\ WorkerHasPath(pc[w], state[j], onDisk[j], recorded[j])
      /\ state[j] # "unused"
      /\ pc[w] \in PipelinePc => state[j] \in {"queued", "running"}
  BY <1>1 DEF StrayInv, PipelineInv
<1> USE <1>1, <1>2 DEF TypeOK, RowsOK, TreesOK, ThreadsOK, StrayShape, RowHasPath, WorkerHasPath, PipelinePc, SyncPc,
     OtherPc, GenPc, ApplyPc, ApplyTailPc, PushPc, AbandonPc, Guidable, Active, Terminal, NoRow, HasRow, SetState,
     Goto, Finish, RemoveWorktree, DropTree, Publish, rowVars, gitVars, cleanVars
<1>3. CASE Begin(w)
  BY <1>3 DEF Begin
<1>4. CASE AcquireLock(w)
  BY <1>4 DEF AcquireLock
<1>5. CASE OtherWork(w)
  BY <1>5 DEF OtherWork
<1>6. CASE SyncCheckout(w)
  BY <1>6 DEF SyncCheckout
<1>7. CASE SyncRecord(w)
  BY <1>7 DEF SyncRecord
<1>8. CASE SyncGit(w)
  BY <1>8 DEF SyncGit
<1>9. CASE SyncAutoResolve(w)
  BY <1>9 DEF SyncAutoResolve
<1>10. CASE SyncOptions(w)
  BY <1>10 DEF SyncOptions
<1>11. CASE SyncTests(w)
  BY <1>11 DEF SyncTests
<1>12. CASE SyncPush(w)
  BY <1>12 DEF SyncPush
<1>13. CASE SyncTag(w)
  BY <1>13 DEF SyncTag
<1>14. CASE SyncReport(w)
  BY <1>14 DEF SyncReport
<1>15. CASE SyncComplete(w)
  BY <1>15 DEF SyncComplete
<1>16. CASE SyncFail(w)
  BY <1>16 DEF SyncFail
<1>17. CASE SyncFailed(w)
  BY <1>17 DEF SyncFailed
<1>18. CASE RefreshLlm(w)
  BY <1>18 DEF RefreshLlm
<1>19. CASE GenRead(w)
  BY <1>19 DEF GenRead
<1>20. CASE GenLlm(w)
  BY <1>20 DEF GenLlm
<1>21. CASE GenEnd(w)
  BY <1>21 DEF GenEnd
<1>22. CASE ApplyWrite(w)
  BY <1>22 DEF ApplyWrite
<1>23. CASE ApplyContinue(w)
  BY <1>23 DEF ApplyContinue
<1>24. CASE ApplyFollow(w)
  BY <1>24 DEF ApplyFollow
<1>25. CASE ApplyOffer(w)
  BY <1>25 DEF ApplyOffer
<1>26. CASE ApplyRefresh(w)
  BY <1>26 DEF ApplyRefresh
<1>27. CASE ApplyLlm(w)
  BY <1>27 DEF ApplyLlm
<1>28. CASE ApplyErr(w)
  BY <1>28 DEF ApplyErr
<1>29. CASE ApplyTests(w)
  BY <1>29 DEF ApplyTests
<1>30. CASE ApplyPush(w)
  BY <1>30 DEF ApplyPush
<1>31. CASE PushBranch(w)
  BY <1>31 DEF PushBranch
<1>32. CASE PushTag(w)
  BY <1>32 DEF PushTag
<1>33. CASE PushClean(w)
  BY <1>33 DEF PushClean
<1>34. CASE PushDone(w)
  BY <1>34 DEF PushDone
<1>35. CASE AbandonClean(w)
  BY <1>35 DEF AbandonClean
<1>36. CASE AbandonDone(w)
  BY <1>36 DEF AbandonDone
<1> QED
  BY <1>3, <1>4, <1>5, <1>6, <1>7, <1>8, <1>9, <1>10, <1>11, <1>12, <1>13, <1>14, <1>15, <1>16, <1>17, <1>18, <1>19, <1>20, <1>21, <1>22, <1>23, <1>24, <1>25, <1>26, <1>27, <1>28, <1>29, <1>30, <1>31, <1>32, <1>33, <1>34, <1>35, <1>36 DEF WorkerStep, SyncStep, GenStep, ApplyStep, PushStep, AbandonStep

\* A step of a worker keeps StrayInv.
LEMMA WorkerStray ==
  ASSUME TypeOK, StrayInv, PipelineInv, NEW w \in Workers, WorkerStep(w)
  PROVE  StrayInv'
<1> DEFINE j == job[w]
<1>1. WorkerFrame(w) /\ j \in Jobs /\ pc[w] # "idle" /\ StrayShape(w)
  BY WorkerHasFrame, WorkerIsStray
<1>2. \A i \in Jobs : RowHasPath(state'[i], onDisk'[i], recorded'[i])
  BY <1>1 DEF StrayInv, WorkerFrame, StrayShape
<1>3. ASSUME NEW v \in Workers, pc'[v] # "idle"
      PROVE  WorkerHasPath(pc'[v], state'[job'[v]], onDisk'[job'[v]], recorded'[job'[v]])
  <2>1. CASE v = w
    BY <1>1, <1>3, <2>1 DEF WorkerFrame, StrayShape
  <2>2. CASE v # w
    <3>1. /\ pc'[v] = pc[v] /\ job'[v] = job[v] /\ job[v] \in Jobs
          /\ WorkerHasPath(pc[v], state[job[v]], onDisk[job[v]], recorded[job[v]])
      BY <1>1, <1>3, <2>2 DEF WorkerFrame, StrayInv, TypeOK, ThreadsOK
    <3>2. CASE job[v] # j
      BY <1>1, <3>1, <3>2 DEF WorkerFrame
    <3>3. CASE job[v] = j
      <4>1. pc[v] \notin PipelinePc /\ pc[w] \notin PipelinePc
        BY <1>1, <1>3, <2>2, <3>1, <3>3 DEF PipelineInv
      <4> QED
        BY <1>1, <3>1, <3>3, <4>1 DEF StrayShape, WorkerHasPath, PipelinePc, SyncPc, OtherPc
    <3> QED
      BY <3>2, <3>3
  <2> QED
    BY <2>1, <2>2
<1> QED
  BY <1>2, <1>3 DEF StrayInv

\* So does a request.
LEMMA RequestStray ==
  ASSUME TypeOK, StrayInv, PipelineInv, NEW w \in Workers, Request(w)
  PROVE  StrayInv'
<1>1. ASSUME NEW j \in Jobs, TakesRow(w, j)
      PROVE  StrayInv'
  <2> USE <1>1 DEF TakesRow, RequestShape, RequestFrame
  <2>1. RowHasPath(state[j], onDisk[j], recorded[j])
    BY DEF StrayInv
  <2>2. RowHasPath(state'[j], onDisk'[j], recorded'[j])
    BY <2>1 DEF RowHasPath, Active, Guidable
  <2>3. WorkerHasPath(pc'[w], state'[j], onDisk'[j], recorded'[j])
    BY <2>1 DEF RowHasPath, WorkerHasPath, Active, Guidable, PipelinePc, SyncPc, OtherPc, GenPc, ApplyPc, ApplyTailPc, PushPc
  <2>4. ASSUME NEW v \in Workers \ {w}, pc[v] # "idle"
        PROVE  WorkerHasPath(pc[v], state'[job[v]], onDisk[job[v]], recorded[job[v]])
    <3>1. /\ WorkerHasPath(pc[v], state[job[v]], onDisk[job[v]], recorded[job[v]]) /\ job[v] \in Jobs
          /\ pc[v] \in PipelinePc => state[job[v]] \in {"queued", "running"}
      BY <2>4 DEF StrayInv, PipelineInv, TypeOK, ThreadsOK
    <3>2. CASE job[v] # j
      BY <3>1, <3>2
    <3>3. CASE job[v] = j
      BY <3>1, <3>3 DEF WorkerHasPath, Abandonable, NoRow, PipelinePc, SyncPc, OtherPc
    <3> QED
      BY <3>2, <3>3
  <2> QED
    BY <2>2, <2>3, <2>4 DEF StrayInv
<1>2. ASSUME NEW j \in Jobs, NEW k \in {"sync", "other"}, NEW b \in Branches, MakesRow(w, j, k, b)
      PROVE  StrayInv'
  <2> USE <1>2 DEF MakesRow, CreateShape, RequestFrame
  <2>1. ~onDisk[j]
    BY DEF StrayInv, RowHasPath
  <2>2. WorkerHasPath(pc'[w], state'[j], onDisk'[j], recorded'[j]) /\ RowHasPath(state'[j], onDisk'[j], recorded'[j])
    BY <2>1 DEF WorkerHasPath, RowHasPath, PipelinePc, SyncPc, OtherPc, GenPc, ApplyPc, ApplyTailPc, PushPc
  <2>3. \A v \in Workers \ {w} : pc[v] # "idle" => job[v] \in Jobs \ {j}
    BY DEF PipelineInv, TypeOK, ThreadsOK
  <2> QED
    BY <2>2, <2>3 DEF StrayInv
<1> QED
  BY <1>1, <1>2, RequestIsSingle

\* So do a cleanup and a restart.
LEMMA CleanupStray ==
  ASSUME TypeOK, StrayInv, PipelineInv, CleanupStep \/ Restart
  PROVE  StrayInv'
<1> USE DEF rowVars, threadVars, gitVars, cleanVars
<1>1. \A v \in Workers : pc[v] # "idle" => job[v] \in Jobs
  BY DEF TypeOK, ThreadsOK
<1>2. CASE CleanupSelect
  BY <1>2 DEF CleanupSelect, StrayInv
<1>3. CASE CleanupAbort
  BY <1>3 DEF CleanupAbort, StrayInv
<1>4. CASE CleanupDelete
  <2>1. /\ \A j \in Jobs : /\ state'[j] = IF j \in doomed THEN "deleted" ELSE state[j]
                           /\ recorded'[j] = IF j \in doomed THEN FALSE ELSE recorded[j]
        /\ UNCHANGED <<pc, job, onDisk>>
    BY <1>4 DEF CleanupDelete
  <2>2. \A j \in Jobs : RowHasPath(state'[j], onDisk'[j], recorded'[j])
    BY <2>1 DEF StrayInv, RowHasPath, Active
  <2>3. ASSUME NEW v \in Workers, pc[v] # "idle"
        PROVE  WorkerHasPath(pc[v], state'[job[v]], onDisk'[job[v]], recorded'[job[v]])
    <3>1. WorkerHasPath(pc[v], state[job[v]], onDisk[job[v]], recorded[job[v]])
      BY <2>3 DEF StrayInv
    <3>2. CASE job[v] \notin doomed
      BY <1>1, <2>1, <2>3, <3>1, <3>2
    <3>3. CASE job[v] \in doomed
      <4>1. pc[v] \notin PipelinePc /\ state'[job[v]] = "deleted"
        BY <1>1, <2>1, <2>3, <3>3 DEF PipelineInv
      <4> QED
        BY <4>1 DEF WorkerHasPath, PipelinePc, SyncPc, OtherPc, NoRow
    <3> QED
      BY <3>2, <3>3
  <2> QED
    BY <2>1, <2>2, <2>3 DEF StrayInv
<1>5. ASSUME NEW j \in Jobs, CleanupRemove(j)
      PROVE  StrayInv'
  <2>1. /\ \A i \in Jobs : onDisk'[i] => onDisk[i]
        /\ UNCHANGED <<state, recorded, pc, job>>
    BY <1>5 DEF CleanupRemove, RemoveWorktree, DropTree, TypeOK, TreesOK
  <2> QED
    BY <1>1, <2>1 DEF StrayInv, RowHasPath, WorkerHasPath
<1>6. CASE Restart
  <2>1. /\ \A j \in Jobs : state'[j] = IF state[j] \in Transient THEN "failed" ELSE state[j]
        /\ \A w \in Workers : pc'[w] = "idle"
        /\ UNCHANGED <<recorded, onDisk>>
    BY <1>6 DEF Restart
  <2> QED
    BY <2>1 DEF StrayInv, RowHasPath, Active, Transient
<1> QED
  BY <1>2, <1>3, <1>4, <1>5, <1>6 DEF CleanupStep

\* For any number of jobs, workers, branches and layers, a worktree that the row does not
\* name belongs to a sync that failed between `git worktree add` and the update of the row.
THEOREM NoStrayWorktree == Spec => []StrayWorktreeOnlyOfFailedSync
<1>1. Init => StrayInv
  BY DEF Init, StrayInv, RowHasPath, Active
<1>2. TypeOK /\ PipelineInv /\ StrayInv /\ [Next]_vars => StrayInv'
  <2> SUFFICES ASSUME TypeOK, PipelineInv, StrayInv, [Next]_vars PROVE StrayInv'
    OBVIOUS
  <2>1. CASE UNCHANGED vars
    BY <2>1 DEF vars, StrayInv, rowVars, gitVars, threadVars
  <2> QED
    BY <2>1, WorkerStray, RequestStray, CleanupStray DEF Next
<1>3. TypeOK /\ StrayInv /\ TransientHasWorker => StrayWorktreeOnlyOfFailedSync
  <2> SUFFICES ASSUME TypeOK, StrayInv, TransientHasWorker, NEW j \in Jobs, onDisk[j], ~recorded[j],
                      state[j] \notin {"failed", "abandoning", "abandoned", "deleted"}
               PROVE  \E w \in Workers : job[w] = j /\ pc[w] \in SyncPc
    BY DEF StrayWorktreeOnlyOfFailedSync
  <2>1. state[j] = "running"
    BY DEF TypeOK, RowsOK, StrayInv, RowHasPath, States, Active, Terminal, NoRow
  <2>2. PICK w \in Workers : job[w] = j /\ pc[w] \in SyncPc \cup OtherPc
    BY <2>1 DEF TransientHasWorker, Drives, Transient
  <2>3. pc[w] \notin OtherPc
    BY <2>2 DEF StrayInv, WorkerHasPath, OtherPc
  <2> QED
    BY <2>2, <2>3
<1> QED
  BY <1>1, <1>2, <1>3, TypeCorrect, PipelineAlways, TransientDriven, PTL DEF Spec

-----------------------------------------------------------------------------
(* The engine implements the job status seen over the socket.              *)

\* What a step of a worker does to the state of its row, with any number of layers.
RowShape(w) ==
  LET j == job[w] IN
  /\ state[j] \in NoRow => state'[j] = state[j]
  /\ state'[j] \in NoRow => state'[j] = state[j]
  /\ pc[w] \in AbandonPc => /\ state'[j] \in {state[j], "abandoned", "failed"}
                            /\ pc'[w] \in AbandonPc \cup {"idle"}

\* Every step of every worker has that shape.
LEMMA WorkerHasRowShape ==
  ASSUME TypeOK, NEW w \in Workers, WorkerStep(w)
  PROVE  RowShape(w)
<1>1. job[w] \in Jobs /\ pc[w] # "idle"
  BY WorkerHasFrame
<1> USE <1>1 DEF TypeOK, RowsOK, ThreadsOK, RowShape, SyncPc, OtherPc, GenPc, ApplyPc, ApplyTailPc, PushPc,
     AbandonPc, NoRow, HasRow, SetState, Goto, Finish, rowVars
<1>2. CASE Begin(w)
  BY <1>2 DEF Begin
<1>3. CASE AcquireLock(w)
  BY <1>3 DEF AcquireLock
<1>4. CASE OtherWork(w)
  BY <1>4 DEF OtherWork
<1>5. CASE SyncCheckout(w)
  BY <1>5 DEF SyncCheckout
<1>6. CASE SyncRecord(w)
  BY <1>6 DEF SyncRecord
<1>7. CASE SyncGit(w)
  BY <1>7 DEF SyncGit
<1>8. CASE SyncAutoResolve(w)
  BY <1>8 DEF SyncAutoResolve
<1>9. CASE SyncOptions(w)
  BY <1>9 DEF SyncOptions
<1>10. CASE SyncTests(w)
  BY <1>10 DEF SyncTests
<1>11. CASE SyncPush(w)
  BY <1>11 DEF SyncPush
<1>12. CASE SyncTag(w)
  BY <1>12 DEF SyncTag
<1>13. CASE SyncReport(w)
  BY <1>13 DEF SyncReport
<1>14. CASE SyncComplete(w)
  BY <1>14 DEF SyncComplete
<1>15. CASE SyncFail(w)
  BY <1>15 DEF SyncFail
<1>16. CASE SyncFailed(w)
  BY <1>16 DEF SyncFailed
<1>17. CASE RefreshLlm(w)
  BY <1>17 DEF RefreshLlm
<1>18. CASE GenRead(w)
  BY <1>18 DEF GenRead
<1>19. CASE GenLlm(w)
  BY <1>19 DEF GenLlm
<1>20. CASE GenEnd(w)
  BY <1>20 DEF GenEnd
<1>21. CASE ApplyWrite(w)
  BY <1>21 DEF ApplyWrite
<1>22. CASE ApplyContinue(w)
  BY <1>22 DEF ApplyContinue
<1>23. CASE ApplyFollow(w)
  BY <1>23 DEF ApplyFollow
<1>24. CASE ApplyOffer(w)
  BY <1>24 DEF ApplyOffer
<1>25. CASE ApplyRefresh(w)
  BY <1>25 DEF ApplyRefresh
<1>26. CASE ApplyLlm(w)
  BY <1>26 DEF ApplyLlm
<1>27. CASE ApplyErr(w)
  BY <1>27 DEF ApplyErr
<1>28. CASE ApplyTests(w)
  BY <1>28 DEF ApplyTests
<1>29. CASE ApplyPush(w)
  BY <1>29 DEF ApplyPush
<1>30. CASE PushBranch(w)
  BY <1>30 DEF PushBranch
<1>31. CASE PushTag(w)
  BY <1>31 DEF PushTag
<1>32. CASE PushClean(w)
  BY <1>32 DEF PushClean
<1>33. CASE PushDone(w)
  BY <1>33 DEF PushDone
<1>34. CASE AbandonClean(w)
  BY <1>34 DEF AbandonClean
<1>35. CASE AbandonDone(w)
  BY <1>35 DEF AbandonDone
<1> QED
  BY <1>2, <1>3, <1>4, <1>5, <1>6, <1>7, <1>8, <1>9, <1>10, <1>11, <1>12, <1>13, <1>14, <1>15, <1>16, <1>17, <1>18, <1>19, <1>20, <1>21, <1>22, <1>23, <1>24, <1>25, <1>26, <1>27, <1>28, <1>29, <1>30, <1>31, <1>32, <1>33, <1>34, <1>35 DEF WorkerStep, SyncStep, GenStep, ApplyStep, PushStep, AbandonStep

\* What a step does to the state of a job it changes.
Moves(s, t) ==
  \/ s = "unused" /\ t = "queued"
  \/ s \in Transient /\ t \notin NoRow
  \/ s \in Abandonable /\ t \in Transient
  \/ s \in Terminal \cup {"abandoning"} /\ t = "deleted"
  \/ Layers > 1 /\ s \notin NoRow /\ t \notin NoRow

\* Each of these changes is one that the abstract job may make.
LEMMA MovesAllowed ==
  ASSUME NEW s \in States, NEW t \in States, t = s \/ Moves(s, t)
  PROVE  StatusOf(t) \in Seen!Statuses /\ StatusOf(t) \in Seen!Follow(StatusOf(s)) \cup {StatusOf(s)}
<1> USE DEF Seen!Statuses, Seen!Rows, Seen!Orderly, Seen!Follow, States, Active, Terminal, NoRow
<1>1. StatusOf(s) \in Seen!Statuses /\ StatusOf(t) \in Seen!Statuses
  BY DEF StatusOf, Transient, Guidable
<1>2. CASE t = s
  BY <1>1, <1>2
<1>3. CASE s = "unused" /\ t = "queued"
  BY <1>3 DEF StatusOf, Transient, Guidable
<1>4. CASE s \in Transient /\ t \notin NoRow
  BY <1>4 DEF StatusOf, Transient, Guidable
<1>5. CASE s \in Abandonable /\ t \in Transient
  BY <1>5 DEF StatusOf, Transient, Guidable, Abandonable
<1>6. CASE s \in Terminal \cup {"abandoning"} /\ t = "deleted"
  BY <1>6 DEF StatusOf, Transient, Guidable
<1>7. CASE Layers > 1 /\ s \notin NoRow /\ t \notin NoRow
  BY <1>7 DEF StatusOf, Transient, Guidable
<1> QED
  BY <1>2, <1>3, <1>4, <1>5, <1>6, <1>7 DEF Moves

\* Selected rows are taken up by nobody but a worker that abandons them.
LEMMA DoomedAlways == Spec => []DoomedInv
<1>1. Init => DoomedInv
  BY DEF Init, DoomedInv
<1>2. TypeOK /\ DoomedInv /\ [Next]_vars => DoomedInv'
  <2> SUFFICES ASSUME TypeOK, DoomedInv, [Next]_vars PROVE DoomedInv'
    OBVIOUS
  <2> USE DEF DoomedInv, rowVars, threadVars, cleanVars
  <2>1. doomed \subseteq Jobs
    BY DEF TypeOK
  <2>2. CASE UNCHANGED vars
    BY <2>2 DEF vars
  <2>3. ASSUME NEW w \in Workers, WorkerStep(w) PROVE DoomedInv'
    <3>1. WorkerFrame(w) /\ RowShape(w) /\ pc[w] # "idle"
      BY <2>3, WorkerHasFrame, WorkerHasRowShape
    <3>2. job[w] \in doomed => pc[w] \in AbandonPc
      BY <3>1
    <3>3. \A j \in doomed' : state'[j] \in Terminal \cup {"abandoning"}
      BY <2>1, <3>1, <3>2 DEF WorkerFrame, RowShape, Terminal
    <3>4. \A v \in Workers : pc'[v] # "idle" /\ job'[v] \in doomed' => pc'[v] \in AbandonPc
      BY <3>1, <3>2 DEF WorkerFrame, RowShape
    <3> QED
      BY <3>3, <3>4
  <2>4. ASSUME NEW w \in Workers, Request(w) PROVE DoomedInv'
    <3>1. ASSUME NEW j \in Jobs, TakesRow(w, j) PROVE DoomedInv'
      BY <2>1, <3>1 DEF TakesRow, RequestShape, Terminal, Guidable, Abandonable, AbandonPc
    <3>2. ASSUME NEW j \in Jobs, NEW k \in {"sync", "other"}, NEW b \in Branches, MakesRow(w, j, k, b)
          PROVE  DoomedInv'
      BY <2>1, <3>2 DEF MakesRow, CreateShape, Terminal
    <3> QED
      BY <2>4, <3>1, <3>2, RequestIsSingle
  <2>5. CASE CleanupSelect
    BY <2>5 DEF CleanupSelect
  <2>6. CASE CleanupAbort
    BY <2>6 DEF CleanupAbort
  <2>7. CASE CleanupDelete
    BY <2>7 DEF CleanupDelete
  <2>8. CASE Restart
    BY <2>8 DEF Restart
  <2>9. ASSUME NEW j \in Jobs, CleanupRemove(j) PROVE DoomedInv'
    BY <2>9 DEF CleanupRemove
  <2> QED
    BY <2>2, <2>3, <2>4, <2>5, <2>6, <2>7, <2>8, <2>9 DEF Next, CleanupStep
<1> QED
  BY <1>1, <1>2, TypeCorrect, PTL DEF Spec

\* Every step changes the state of a job in one of these ways, if at all.
LEMMA StepMoves ==
  ASSUME TypeOK, DoomedInv, Layers = 1 => SingleInv, [Next]_vars, NEW i \in Jobs
  PROVE  state'[i] = state[i] \/ Moves(state[i], state'[i])
<1>1. doomed \subseteq Jobs /\ state[i] \in States
  BY DEF TypeOK, RowsOK
<1>2. CASE UNCHANGED vars
  BY <1>2 DEF vars, rowVars
<1>3. ASSUME NEW w \in Workers, WorkerStep(w)
      PROVE  state'[i] = state[i] \/ Moves(state[i], state'[i])
  <2> DEFINE j == job[w]
  <2>1. WorkerFrame(w) /\ RowShape(w) /\ j \in Jobs /\ pc[w] # "idle"
    BY <1>3, WorkerHasFrame, WorkerHasRowShape
  <2>2. CASE i # j \/ state'[j] = state[j]
    BY <2>1, <2>2 DEF WorkerFrame
  <2>3. CASE i = j /\ state'[j] # state[j] /\ Layers # 1
    BY <2>1, <2>3, LayersAssumption DEF RowShape, Moves
  <2>4. CASE i = j /\ state'[j] # state[j] /\ Layers = 1
    <3>1. SingleShape(w) /\ OwnsRow(pc[w], state[j])
      BY <1>3, <2>1, <2>4, WorkerIsSingle DEF SingleInv
    <3>2. state[j] \notin NoRow /\ state'[j] \notin NoRow
      BY <2>1, <2>4 DEF RowShape
    <3>3. CASE pc[w] \in BusyPc
      BY <2>4, <3>1, <3>2, <3>3 DEF OwnsRow, Moves, BusyPc, PipelinePc, Transient, NoRow
    <3>4. CASE pc[w] \notin BusyPc
      BY <2>4, <3>1, <3>4 DEF SingleShape, Moves, Abandonable, Transient
    <3> QED
      BY <3>3, <3>4
  <2> QED
    BY <2>2, <2>3, <2>4
<1>4. ASSUME NEW w \in Workers, Request(w)
      PROVE  state'[i] = state[i] \/ Moves(state[i], state'[i])
  BY <1>4, RequestIsSingle DEF TakesRow, RequestShape, MakesRow, CreateShape, Moves, Guidable, Abandonable, Transient
<1>5. CASE CleanupStep
  BY <1>1, <1>5 DEF CleanupStep, CleanupSelect, CleanupAbort, CleanupRemove, CleanupDelete, DoomedInv, Moves, rowVars
<1>6. CASE Restart
  BY <1>1, <1>6 DEF Restart, Moves, Transient, NoRow
<1> QED
  BY <1>2, <1>3, <1>4, <1>5, <1>6 DEF Next

\* For any number of jobs, workers, branches and layers, the engine with its rows, threads,
\* worktrees, cleanups and restarts implements the status of a job.
THEOREM JobStatusImplemented == Spec => ImplementsJobStatus
<1>1. Init => Seen!Init
  BY DEF Init, Seen!Init, StatusOf, Transient, Guidable
<1>2. TypeOK /\ TypeOK' /\ DoomedInv /\ (Layers = 1 => SingleInv) /\ [Next]_vars
        => [Seen!Next]_([j \in Jobs |-> StatusOf(state[j])])
  <2> SUFFICES ASSUME TypeOK, TypeOK', DoomedInv, Layers = 1 => SingleInv, [Next]_vars
               PROVE  Seen!Next
    OBVIOUS
  <2>1. \A j \in Jobs : state[j] \in States /\ state'[j] \in States
    BY DEF TypeOK, RowsOK
  <2>2. \A j \in Jobs : /\ StatusOf(state'[j]) \in Seen!Statuses
                        /\ StatusOf(state'[j]) \in Seen!Follow(StatusOf(state[j])) \cup {StatusOf(state[j])}
    BY <2>1, StepMoves, MovesAllowed
  <2> QED
    BY <2>2 DEF Seen!Next
<1> QED
  BY <1>1, <1>2, TypeCorrect, DoomedAlways, SingleAlways, PTL DEF Spec, ImplementsJobStatus, Seen!Spec

=============================================================================
