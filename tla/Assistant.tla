------------------------------- MODULE Assistant -------------------------------
(***************************************************************************)
(* The interactive assistant (src/src/assistant.rs): one window on one     *)
(* configuration file.  It keeps the last messages of the conversation,    *)
(* runs a sync when they confirm one, edits the branches of termite.yml,   *)
(* and runs local tasks, in which the model chooses and the permissions    *)
(* decide (autonomy.rs, autonomy/local_task.rs), with a report of each     *)
(* (autonomy/task_report.rs).  Beside it a person saves other              *)
(* configurations and checks out branches, and the window may be killed or *)
(* the machine lose its power at any step.                                 *)
(***************************************************************************)
EXTENDS ConfigEdit

CONSTANTS
    Branches,    \* branches a configuration may name
    Layouts,     \* the lines a person saves in termite.yml, each of which parses
    Settings,    \* the rest of what a person saves: see Configured
    MaxHistory,  \* MAX_HISTORY_MESSAGES, 12 in the code
    Recent,      \* how many messages a confirmation is looked for in, 4 in the code
    MaxSteps,    \* MAX_STEPS of a task, 8 in the code
    MaxTasks, MaxEdits, MaxSaves, \* bounds of the model
    None

\* The actions of autonomy.rs that a local task can ask for.  Of the others
\* (edit_code, push_branch, ...) the code has names and permissions only.
TaskActions == {"local_read", "run_tests", "linear_read"}
Modes == {"allow", "ask", "deny"}

\* autonomy, llm.enabled, linear.enabled and the tests of each branch; `scope`
\* holds the actions whose target (the repository, the assignee) is in scope.
Configured == [enabled : BOOLEAN, llm : BOOLEAN, linear : BOOLEAN, reports : BOOLEAN,
               scope : SUBSET TaskActions, mode : [TaskActions -> Modes],
               tests : [Branches -> Nat]]

ASSUME LayoutsParse == Layouts \subseteq Seq(Line(Branches)) /\ \A lines \in Layouts : Parses(lines)
ASSUME SettingsAreConfigured == Settings \subseteq Configured
ASSUME BoundsAreNumbers ==
    {MaxHistory, Recent, MaxSteps, MaxTasks, MaxEdits, MaxSaves} \subseteq Nat

VARIABLES
    config,  \* termite.yml: [lines, set]
    head,    \* the branch checked out in the repository
    pc,      \* what the window is doing
    input,   \* the line of the user that a sync is run for
    history, \* the conversation the model is shown
    task,    \* the local task that is running, or the last one
    edit,    \* the edit of termite.yml that is under way
    reports, \* the report file of each task, by the task's number
    tasks, edits, saves, \* counters for the bounds
    age,     \* history variable: how many messages ago the question was put and chosen
    edited   \* history variable: the last edit, and the file it began with

files == <<config, edit, edits, edited>>
talk == <<history, age>>
vars == <<config, head, pc, input, history, task, edit, reports, tasks, edits, saves, age, edited>>

(***************************************************************************)
(* What the variables hold.                                                *)
(***************************************************************************)
File == Seq(Line(Branches))
Kinds == {"pause", "watch", "direct", "choice", "now", "check", "remove", "add", "talk"}
Message == {"user", "assistant"} \X {"choice", "ask", "other"}
Wish == [step : {"inspect", "read", "tests", "linear"}, action : TaskActions]
Task == [cfg : Settings, step : Nat, tests : Nat, queried : BOOLEAN, want : Wish \cup {None},
         seen : SUBSET {"me", "other"}, yes : [TaskActions -> Nat], done : [TaskActions -> Nat]]
Edit == [do : {"remove", "add", "insert"}, branch : Branches, rest : Rests, lines : File]
Edited == [do : {"remove", "add"}, branch : Branches, before : File, foreign : BOOLEAN]
ReportFile == [listed : BOOLEAN, whole : BOOLEAN, synced : BOOLEAN]

ASSUME NoneAssumption == None \notin Edited \cup Task

Editing == {"reading", "emptying", "filling", "inserting", "told"}
Working == {"plan", "approve", "act", "save", "text", "sync", "rename"}

TypeOK ==
    /\ config \in [lines : File, set : Settings]
    /\ head \in Branches
    /\ pc \in {"off", "idle", "syncing", "task"} \cup Editing \cup Working
    /\ input \in Kinds \cup {"/sync", None}
    /\ history \in Seq(Message) /\ Len(history) <= MaxHistory
    /\ age \in [ask : 0..Recent, choice : 0..Recent]
    /\ task \in Task \cup {None}
    /\ edit \in Edit \cup {None} /\ edited \in Edited \cup {None}
    /\ reports \in [1..MaxTasks -> ReportFile \cup {None}]
    /\ tasks \in 0..MaxTasks /\ edits \in 0..MaxEdits /\ saves \in 0..MaxSaves
    \* What a step works on is there.
    /\ pc \in Working => task \in Task
    /\ pc \in {"approve", "act"} => task.want \in Wish
    /\ pc \in Editing => edit \in Edit /\ edited \in Edited
    /\ pc \in Working \cup {"task"} => tasks > 0
    /\ pc \in {"text", "sync", "rename"} => reports[tasks] \in ReportFile

Authorize(cfg, action) ==
    IF action \in cfg.scope /\ cfg.enabled THEN cfg.mode[action] ELSE "deny"

\* A task of a configuration `cfg`, which is read once, before the first step.
NewTask(cfg) ==
    [cfg |-> cfg, step |-> 1, tests |-> 0, queried |-> FALSE, want |-> None, seen |-> {},
     yes  |-> [a \in TaskActions |-> 0], \* approvals, by action
     done |-> [a \in TaskActions |-> 0]] \* executions, by action

Init == /\ \E lines \in Layouts, set \in Settings : config = [lines |-> lines, set |-> set]
        /\ head \in Branches
        /\ pc = "off" /\ input = None
        /\ history = <<>> /\ age = [ask |-> Recent, choice |-> Recent]
        /\ task = None /\ edit = None /\ edited = None
        /\ reports = [t \in 1..MaxTasks |-> None]
        /\ tasks = 0 /\ edits = 0 /\ saves = 0

(***************************************************************************)
(* The session.  An error that reaches run() ends it.                      *)
(***************************************************************************)
Forget == history' = <<>> /\ age' = [ask |-> Recent, choice |-> Recent]

\* ensure_owned_config_path has taken the path; a file that does not parse ends
\* the program before the first line is read.
Start == /\ pc = "off" /\ Parses(config.lines)
         /\ pc' = "idle"
         /\ UNCHANGED <<head, input, talk, files, task, reports, tasks, saves>>

\* /exit, the end of the input, the return of /daemon, or a command that
\* fails: each reads the configuration again, and most of them use Git.
Leave == /\ pc = "idle" /\ pc' = "off" /\ Forget
         /\ UNCHANGED <<head, input, files, task, reports, tasks, saves>>

\* Mutant: the window is cleared, the messages stay.
ClearScreen == /\ pc = "idle" /\ UNCHANGED history
               /\ age' = [ask |-> Recent, choice |-> Recent]
               /\ UNCHANGED <<head, pc, input, files, task, reports, tasks, saves>>

Clear == /\ pc = "idle" /\ Forget
         /\ UNCHANGED <<head, pc, input, files, task, reports, tasks, saves>>

Trimmed(messages) ==
    IF Len(messages) > MaxHistory THEN Tail(messages) ELSE messages

\* One message more, not counted beyond Recent.
OneMore(n) == IF n < Recent THEN n + 1 ELSE Recent
Older(since) == [ask |-> OneMore(since.ask), choice |-> OneMore(since.choice)]

\* push_history, for what the user said and what was answered.
Push(said, answered) ==
    /\ history' = Trimmed(Append(Trimmed(Append(history, <<"user", said>>)),
                                 <<"assistant", answered>>))
    /\ LET asked == Older(IF said = "choice" THEN [Older(age) EXCEPT !.choice = 0]
                                             ELSE Older(age))
       IN  age' = IF answered = "ask" THEN [asked EXCEPT !.ask = 0] ELSE asked

LastMessages == {history[i] : i \in (DOMAIN history) \cap ((Len(history) - Recent + 1)..Len(history))}

\* wants_confirmed_sync.
ConfirmedSync(said) ==
    \/ said = "direct"
    \/ said = "choice" /\ <<"assistant", "ask">> \in LastMessages
    \/ said = "now" /\ <<"user", "choice">> \in LastMessages

(***************************************************************************)
(* A line of the user that is no command, by what the code looks for in    *)
(* it; one with several marks is of the first kind that the code takes.    *)
(* The model's answer puts the question of the sync choice, or it does     *)
(* not; without an answer nothing is remembered.                           *)
(***************************************************************************)
Said(kind) == IF kind = "choice" THEN "choice" ELSE "other"

Reply(kind) ==
    /\ pc' = "idle"
    /\ \/ \E answer \in {"ask", "other"} : Push(Said(kind), answer)
       \/ UNCHANGED talk
    /\ UNCHANGED <<files, tasks>>

\* Something is run that ends the session when it fails, and nothing is said.
Ran == /\ \/ pc' = "idle" /\ UNCHANGED talk
          \/ pc' = "off" /\ Forget
       /\ UNCHANGED <<files, tasks>>

\* The same, and remembered.
Handled(kind) ==
    /\ \/ pc' = "idle" /\ Push(Said(kind), "other")
       \/ pc' = "off" /\ Forget
    /\ UNCHANGED <<files, tasks>>

\* What a line of the user asks for: a removal of a branch of the configuration,
\* or an addition, with a note that YAML may not be able to read.
BeginEdit(kind, b, rest) ==
    /\ edits < MaxEdits /\ edits' = edits + 1
    /\ pc' = "reading"
    /\ edit' = [do |-> kind, branch |-> b, rest |-> rest, lines |-> <<>>]
    /\ edited' = [do |-> kind, branch |-> b, before |-> config.lines, foreign |-> FALSE]
    /\ UNCHANGED <<config, talk, tasks>>

\* try_handle_local_action, and reply_to_user for what it leaves.
LocalAction(kind) ==
    IF kind \in {"pause", "watch", "check"} THEN Handled(kind)
    ELSE \/ kind = "remove" /\ \E b \in Names(config.lines) : BeginEdit(kind, b, Item)
         \/ kind = "add" /\ \E b \in Branches, rest \in Rests : BeginEdit(kind, b, rest)
         \/ Reply(kind)

Autonomous(cfg) == cfg.enabled /\ cfg.llm

\* What of a user's line is a request for a local task is also asked for by
\* /task, whose configuration is not looked at here.
BeginTask == /\ tasks < MaxTasks /\ tasks' = tasks + 1
             /\ pc' = "task" /\ UNCHANGED <<files, talk>>

Local(kind) == ~Autonomous(config.set) \/ kind = "watch"

Say == /\ pc = "idle"
       /\ \E kind \in Kinds :
            IF ~Parses(config.lines) THEN pc' = "off" /\ Forget /\ UNCHANGED <<files, tasks>>
            ELSE IF Local(kind) THEN ~ConfirmedSync(kind) /\ LocalAction(kind)
            ELSE IF kind = "pause" THEN Ran
            ELSE BeginTask
       /\ UNCHANGED <<head, input, task, reports, saves>>

SayForSync == /\ pc = "idle" /\ Parses(config.lines)
              /\ \E kind \in Kinds : /\ Local(kind) /\ ConfirmedSync(kind)
                                      /\ input' = kind
              /\ pc' = "syncing"
              /\ UNCHANGED <<head, talk, files, task, reports, tasks, saves>>

SyncCommand == /\ pc = "idle" /\ pc' = "syncing" /\ input' = "/sync"
               /\ UNCHANGED <<head, talk, files, task, reports, tasks, saves>>

TaskCommand == /\ pc = "idle" /\ BeginTask
               /\ UNCHANGED <<head, input, task, reports, saves>>

\* run_sync: doctor, then the sync of every branch.
Synced == /\ pc = "syncing"
          /\ IF input = "/sync" THEN Ran ELSE Handled(input)
          /\ input' = None
          /\ UNCHANGED <<head, task, reports, saves>>

(***************************************************************************)
(* Editing termite.yml.  A write empties the file and fills it.            *)
(***************************************************************************)
\* remove_branch_from_config reads the file; without a line that it takes for
\* the branch's it writes nothing, and the removal counts as done.  An edit of a
\* branch that is to be added goes on with its insertion.
ReadForRemoval ==
    /\ pc = "reading"
    /\ IF Found(config.lines, edit.branch)
         THEN /\ pc' = "emptying"
              /\ edit' = [edit EXCEPT !.lines = WithoutBranch(config.lines, edit.branch)]
         ELSE /\ pc' = IF edit.do = "remove" THEN "told" ELSE "inserting"
              /\ UNCHANGED edit
    /\ UNCHANGED <<config, head, input, talk, task, reports, tasks, edits, saves, edited>>

\* Mutant: the text of the removal is used again, which is empty when there
\* was nothing to remove.
InsertionFromBuffer ==
    /\ pc = "inserting" /\ pc' = "emptying"
    /\ edit' = [edit EXCEPT !.lines = WithBranch(edit.lines, edit.branch, edit.rest), !.do = "insert"]
    /\ UNCHANGED <<config, head, input, talk, task, reports, tasks, edits, saves, edited>>

ReadForInsertion ==
    /\ pc = "inserting" /\ pc' = "emptying"
    /\ edit' = [edit EXCEPT !.lines = WithBranch(config.lines, edit.branch, edit.rest), !.do = "insert"]
    /\ UNCHANGED <<config, head, input, talk, task, reports, tasks, edits, saves, edited>>

Empty == /\ pc = "emptying" /\ pc' = "filling"
         /\ config' = [config EXCEPT !.lines = <<>>]
         /\ UNCHANGED <<head, input, talk, task, edit, reports, tasks, edits, saves, edited>>

Fill == /\ pc = "filling"
        /\ config' = [config EXCEPT !.lines = edit.lines]
        /\ pc' = IF edit.do = "add" THEN "inserting" ELSE "told"
        /\ UNCHANGED <<head, input, talk, task, edit, reports, tasks, edits, saves, edited>>

\* The user is told what was done, which is remembered as well.
Told == /\ pc = "told" /\ pc' = "idle" /\ Push("other", "other")
        /\ edit' = None /\ edited' = None
        /\ UNCHANGED <<config, head, input, task, reports, tasks, edits, saves>>

(***************************************************************************)
(* A local task: run_local_task and LocalTaskRunner.                       *)
(***************************************************************************)
\* The configuration is read again and kept; what it does not allow is told
\* the user, without a report.
ReadForTask ==
    /\ pc = "task"
    /\ IF Parses(config.lines) /\ Autonomous(config.set)
         THEN pc' = "plan" /\ task' = NewTask(config.set)
         ELSE pc' = "idle" /\ task' = None
    /\ UNCHANGED <<head, input, talk, files, reports, tasks, saves>>

Next1(t) == [t EXCEPT !.step = @ + 1, !.want = None]
LinearAvailable == task.cfg.linear /\ Authorize(task.cfg, "linear_read") # "deny"

\* Mutant: a yes holds for the rest of the task.
CheckPermissionRemembering(action) ==
    LET mode == Authorize(task.cfg, action)
    IN  pc' = CASE mode = "deny" -> "save"
                [] mode = "ask" /\ task.yes[action] = 0 -> "approve"
                [] OTHER -> "act"

\* What local_git and check_linear_permission let through, by the mode of
\* the action under the configuration the task began with.
CheckPermission(action) ==
    LET mode == Authorize(task.cfg, action)
    IN  pc' = CASE mode = "deny" -> "save" [] mode = "ask" -> "approve" [] OTHER -> "act"

\* One choice of the model.  Only indices of the tests last inspected are
\* taken, and Linear is asked once; a second wish for it uses up a step.
Choose(step) ==
    /\ step = "tests" => task.tests > 0
    /\ step = "linear" => LinearAvailable
    /\ LET action == CASE step = "tests" -> "run_tests" [] step = "linear" -> "linear_read"
                       [] OTHER -> "local_read"
       IN  IF step = "linear" /\ task.queried
             THEN pc' = "plan" /\ task' = Next1(task)
             ELSE /\ task' = [task EXCEPT !.want = [step |-> step, action |-> action]]
                  /\ CheckPermission(action)

\* The model finishes, or gives no plan or one that is refused.  However a
\* task ends, stopped and failed ones too, its report is saved.
Plan == /\ pc = "plan"
        /\ IF task.step > MaxSteps THEN pc' = "save" /\ UNCHANGED task
           ELSE \/ \E step \in {"inspect", "read", "tests", "linear"} : Choose(step)
                \/ pc' = "save" /\ UNCHANGED task
        /\ UNCHANGED <<head, input, talk, files, reports, tasks, saves>>

Approve == /\ pc = "approve"
           /\ \/ pc' = "act" /\ task' = [task EXCEPT !.yes[task.want.action] = @ + 1]
              \/ pc' = "save" /\ UNCHANGED task
           /\ UNCHANGED <<head, input, talk, files, reports, tasks, saves>>

\* Linear's answer: whose key it is, and whose issues it lists.
LinearAnswers == [viewer : {"me", "other"}, assignees : SUBSET {"me", "other"}]
FetchLinear(answer) == answer.viewer = "me" /\ answer.assignees \subseteq {answer.viewer}

\* The action itself.  It may fail after it was let through: the repository
\* is no Git root, the file is not one of the kind shown, Linear is refused.
Act ==
    /\ pc = "act"
    /\ LET did == Next1([task EXCEPT !.done[task.want.action] = @ + 1])
       IN  \/ pc' = "save" /\ task' = did
           \/ /\ pc' = "plan"
              /\ \/ task.want.step = "inspect" /\ task' = [did EXCEPT !.tests = task.cfg.tests[head]]
                 \/ task.want.step \in {"read", "tests"} /\ task' = did
                 \/ /\ task.want.step = "linear"
                    /\ \E answer \in LinearAnswers :
                         /\ FetchLinear(answer)
                         /\ task' = [did EXCEPT !.queried = TRUE, !.seen = @ \cup answer.assignees]
    /\ UNCHANGED <<head, input, talk, files, reports, tasks, saves>>

(***************************************************************************)
(* TaskReportStore::save: a new temporary file, its text, fsync, rename.   *)
(* A step that fails leaves what there is and the user is told.            *)
(***************************************************************************)
Report(listed, whole, synced) == [listed |-> listed, whole |-> whole, synced |-> synced]

ReportStep(from, to, report) ==
    /\ pc = from
    /\ \/ pc' = to /\ reports' = [reports EXCEPT ![tasks] = report]
       \/ pc' = "idle" /\ UNCHANGED reports
    /\ task' = IF pc' = "idle" THEN None ELSE task
    /\ UNCHANGED <<head, input, talk, files, tasks, saves>>

Save == /\ pc = "save" /\ task.cfg.reports
        /\ ReportStep("save", "text", Report(FALSE, FALSE, FALSE))
\* Mutant: the text is not synced before the rename.
WriteTextUnsynced == ReportStep("text", "rename", Report(FALSE, TRUE, FALSE))

WriteText == ReportStep("text", "sync", Report(FALSE, TRUE, FALSE))
Sync == ReportStep("sync", "rename", Report(FALSE, TRUE, TRUE))
Rename == /\ pc = "rename"
          /\ ReportStep("rename", "idle", [reports[tasks] EXCEPT !.listed = TRUE])

NoReport == /\ pc = "save" /\ ~task.cfg.reports /\ pc' = "idle" /\ task' = None
            /\ UNCHANGED <<head, input, talk, files, reports, tasks, saves>>

(***************************************************************************)
(* The person, and the machine.                                            *)
(***************************************************************************)
\* Another configuration is saved, whole, from an editor.
PersonSaves ==
    /\ saves < MaxSaves /\ saves' = saves + 1
    /\ \E lines \in Layouts, set \in Settings : config' = [lines |-> lines, set |-> set]
    /\ edited' = IF edited = None THEN None ELSE [edited EXCEPT !.foreign = TRUE]
    /\ UNCHANGED <<head, pc, input, talk, task, edit, reports, tasks, edits>>

PersonChecksOut ==
    /\ saves < MaxSaves /\ saves' = saves + 1
    /\ head' \in Branches \ {head}
    /\ UNCHANGED <<pc, input, talk, files, task, reports, tasks>>

\* What the window held in memory.
Gone == input' = None /\ task' = None /\ edit' = None /\ edited' = None /\ Forget

Killed == /\ pc \notin {"off", "idle"} /\ pc' = "off"
          /\ Gone
          /\ UNCHANGED <<config, head, reports, tasks, edits, saves>>

\* Text that was not synced may be gone, and so may the last rename.
AfterPowerLoss(report) ==
    IF report = None THEN {None}
    ELSE {[report EXCEPT !.whole = left[1], !.listed = left[2]] :
            left \in {report.whole, report.whole /\ report.synced} \X {report.listed, FALSE}}

\* Of termite.yml, which is not synced either, nothing is lost here: see Fill
\* for the same outcome.
PowerLost ==
    /\ pc # "off" /\ pc' = "off"
    /\ Gone
    /\ \E left \in [1..MaxTasks -> UNION {AfterPowerLoss(reports[t]) : t \in 1..MaxTasks}] :
         /\ \A t \in 1..MaxTasks : left[t] \in AfterPowerLoss(reports[t])
         /\ reports' = left
    /\ UNCHANGED <<config, head, tasks, edits, saves>>

Next == \/ Start \/ Leave \/ Clear \/ Say \/ SayForSync \/ SyncCommand \/ TaskCommand \/ Synced
        \/ ReadForRemoval \/ ReadForInsertion \/ Empty \/ Fill \/ Told
        \/ ReadForTask \/ Plan \/ Approve \/ Act
        \/ Save \/ WriteText \/ Sync \/ Rename \/ NoReport
        \/ PersonSaves \/ PersonChecksOut \/ Killed \/ PowerLost

Spec == Init /\ [][Next]_vars

(***************************************************************************)
(* Properties.                                                             *)
(***************************************************************************)
\* What a task did was allowed by the configuration it began with, whatever
\* has been saved since: an action to be asked for was done no more often than
\* the user said yes to it, one that is denied or out of scope never, Linear
\* was read at most once and showed the model nothing but the user's issues.
Granted ==
    task # None =>
      /\ \A a \in TaskActions :
           CASE Authorize(task.cfg, a) = "deny" -> task.done[a] = 0
             [] Authorize(task.cfg, a) = "ask"  -> task.done[a] <= task.yes[a]
             [] OTHER -> task.yes[a] = 0
      /\ task.done["linear_read"] <= 1
      /\ task.seen \subseteq {"me"}

\* A report that /reports lists is whole, whichever step of saving it, or
\* power, failed, and it is the report of a task that is over.
ReportsAreWhole ==
    \A t \in 1..MaxTasks :
      (reports[t] # None /\ reports[t].listed) =>
        reports[t].whole /\ ~(t = tasks /\ pc \in {"task", "plan", "approve", "act"})

\* The assistant syncs and pushes because the user asks for it in so many
\* words, or chooses it shortly after it was offered, or says "now" shortly
\* after choosing: within the last messages of this session, and not before
\* the conversation was cleared.
SyncIsAsked ==
    pc = "syncing" => \/ input \in {"/sync", "direct"}
                      \/ input = "choice" /\ age.ask < Recent
                      \/ input = "now" /\ age.choice < Recent

\* An edit takes nothing from the file but its own branch, at any of its steps:
\* whoever reads termite.yml meanwhile, or after the window was killed, finds
\* every section and every other branch, unless it is just being written.  At
\* the end the added branch is listed, the removed one is gone if it was listed
\* once, and a removal leaves a file that can be read.  This is of files in which
\* the code recognises the sections and branches, and that nobody else saves.
EditsKeepOthers ==
    (pc \in Editing /\ ~edited.foreign /\ Recognised(edited.before)) =>
      LET before == edited.before
          now    == config.lines
          b      == edited.branch
      IN  /\ pc # "filling" =>
               /\ Keys(now) = Keys(before)
               /\ Names(now) \ {b} = Names(before) \ {b}
          /\ pc = "told" /\ edited.do = "add" => b \in Names(now)
          /\ pc = "told" /\ edited.do = "remove" =>
               /\ Parses(now)
               /\ Found(before, b) /\ ListedOnce(before) => b \notin Names(now)

(***************************************************************************)
(* The inductive invariants of the proofs.                                 *)
(***************************************************************************)
\* A task that may still ask for Linear has not read it, and what is about to
\* be done was let through: with a yes that is not used up, if it needs one.
GrantedInv ==
    /\ Granted
    /\ pc \in {"plan", "approve", "act"} /\ ~task.queried => task.done["linear_read"] = 0
    /\ pc \in {"approve", "act"} =>
         /\ (task.want.action = "linear_read") <=> (task.want.step = "linear")
         /\ task.want.step = "linear" => ~task.queried
    /\ pc = "approve" => Authorize(task.cfg, task.want.action) = "ask"
    /\ pc = "act" =>
         LET action == task.want.action
         IN  \/ Authorize(task.cfg, action) = "allow"
             \/ Authorize(task.cfg, action) = "ask" /\ task.done[action] < task.yes[action]

\* Only a synced text is renamed, and a task that is not over has no report.
Listed(report) == report # None /\ report.listed
ReportsInv ==
    /\ \A t \in 1..MaxTasks :
         Listed(reports[t]) =>
           /\ reports[t].whole /\ reports[t].synced
           /\ t <= tasks
           /\ t = tasks => pc \notin {"task", "plan", "approve", "act"}
    /\ pc = "rename" => reports[tasks] = Report(FALSE, TRUE, TRUE)

\* A question or a choice among the messages is as old as it is far from the
\* end, however many messages were dropped before it.
Aged(messages, since) ==
    \A i \in DOMAIN messages :
      /\ messages[i] = <<"assistant", "ask">> => since.ask <= Len(messages) - i
      /\ messages[i] = <<"user", "choice">> => since.choice <= Len(messages) - i
SyncInv == Aged(history, age) /\ SyncIsAsked

\* The text of an edit that no other save came between, at each of its steps.
EditInv ==
    pc \in Editing =>
      LET before == edited.before
          b      == edited.branch
      IN  /\ Parses(before)
          /\ edit.branch = b
          /\ edited.do = "remove" => b \in Names(before)
          /\ pc \in {"reading", "inserting"} => edit.do = edited.do
          /\ pc = "inserting" => edit.do = "add"
          /\ edit.do # "insert" => edit.do = edited.do
          /\ edit.do = "insert" => edited.do = "add"
          /\ ~edited.foreign =>
               /\ pc = "reading" => config.lines = before
               /\ pc = "inserting" => config.lines = Cut(before, b)
               /\ pc = "emptying" =>
                    config.lines = IF edit.do = "insert" THEN Cut(before, b) ELSE before
               /\ pc \in {"emptying", "filling"} =>
                    edit.lines = IF edit.do = "insert" THEN Replaced(before, b, edit.rest)
                                                       ELSE Cut(before, b)
               /\ pc = "told" =>
                    config.lines = IF edited.do = "add" THEN Replaced(before, b, edit.rest)
                                                        ELSE Cut(before, b)
================================================================================
