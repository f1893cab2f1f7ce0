------------------------------ MODULE MCAssistant ------------------------------
(***************************************************************************)
(* Assistant on small instances, and its two pure modules on all bounded   *)
(* inputs.                                                                 *)
(***************************************************************************)
EXTENDS Assistant, LlmCall, TLC

CONSTANTS b1, b2, b3

(***************************************************************************)
(* Layouts: the sections in some order, each but the first with or without *)
(* an empty line above it, one to three branches, and how their lines are  *)
(* written: what follows the keys, and the name of each branch.            *)
(***************************************************************************)
BranchLists == {<<b1>>, <<b1, b2>>, <<b2, b1>>, <<b1, b2, b3>>}

SectionLines(section, names, form, spelling) ==
    LET item(b) == <<<<"name", b, spelling>>, Item>>
    IN  IF section # "branches" THEN <<<<"key", section, form>>, Item>>
        ELSE <<Key("branches")>> \o
             CASE Len(names) = 1 -> item(names[1])
               [] Len(names) = 2 -> item(names[1]) \o item(names[2])
               [] OTHER -> item(names[1]) \o item(names[2]) \o item(names[3])

Layout(order, names, spaced, form, spelling) ==
    LET part(i) == IF i > Len(order) THEN <<>>
                   ELSE (IF i > 1 /\ spaced THEN <<Blank>> ELSE <<>>)
                          \o SectionLines(order[i], names, form, spelling)
    IN  part(1) \o part(2) \o part(3)

Orders == {<<"repo", "branches", "daemon">>, <<"repo", "daemon", "branches">>,
           <<"branches", "repo", "daemon">>, <<"branches", "daemon", "repo">>,
           <<"daemon", "branches", "repo">>, <<"repo", "branches">>, <<"branches", "repo">>}

AllLayouts == {Layout(o, n, s, "bare", "plain") : o \in Orders, n \in BranchLists, s \in BOOLEAN}

\* The two safe cases are all there are, and only for a note that YAML can read:
\* in every other layout an addition leaves a file that the program cannot read.
\* So with the order of examples/termite.yml the last branch can be added once
\* and never replaced.
ASSUME AddSafeExactly ==
    \A l \in AllLayouts, b \in {b1, b2, b3}, rest \in Rests :
      (AddIsSafe(l, b) /\ rest = Item) <=> Parses(Replaced(l, b, rest))

\* A removal leaves a file that can be read, without the branch.
ASSUME RemovalIsSafe ==
    \A l \in AllLayouts : \A b \in Names(l) :
      Parses(Cut(l, b)) /\ Names(Cut(l, b)) = Names(l) \ {b}

\* What becomes of a file that the code does not recognise.  A section with a
\* comment or a value behind its key goes with the branch before it; a branch
\* with quotes around its name stays when it is removed and is there twice when
\* it is added; and an item that begins with another key, or without an
\* indentation, goes with the branch before it.
ASSUME UnrecognisedIsLost ==
    LET written(form, first, second) ==
          <<Key("repo"), Item, Key("branches"), <<"name", b1, first>>, Item,
            <<"name", b2, second>>, Item, Blank, <<"key", "daemon", form>>, Item>>
        quoted == written("bare", "quoted", "plain")
    IN  /\ \A form \in Forms :
             "daemon" \in Keys(Cut(written(form, "plain", "plain"), b2)) <=> form = "bare"
        /\ Cut(quoted, b1) = quoted
        /\ Parses(Replaced(quoted, b1, Item)) /\ ~ListedOnce(Replaced(quoted, b1, Item))
        /\ \A second \in Spellings :
             b2 \in Names(Cut(written("bare", "plain", second), b1))
               <=> second \in {"plain", "quoted"}

(***************************************************************************)
(* The model's answers: with max_retries r at most 2 * (r + 1) requests,   *)
(* nothing but a retryable error is tried again, and the call succeeds     *)
(* exactly when its last request brought the JSON.                         *)
(***************************************************************************)
ASSUME CallIsBounded ==
    \A r \in 0..2 : \A answers \in [1..(2 * (r + 1)) -> Answers] :
      LET call == JsonWithRepair(answers, r)
          texts == {i \in 1..(call.requests - 1) : answers[i] # "retryable"}
      IN  /\ call.requests \in 1..(2 * (r + 1))
          /\ \A i \in texts : answers[i] = "prose" /\ texts = {i}
          /\ call.ok <=> answers[call.requests] = "json"

\* A stream that breaks off is taken for a whole answer: its deltas are those
\* before the break, and it is no error.
ASSUME CutIsAnswer ==
    \A events \in [1..4 -> StreamEvents] :
      LET all == events \o <<"cut">>
          end == CHOOSE i \in DOMAIN all :
                   /\ all[i] \in {"bad", "done", "cut"}
                   /\ \A j \in 1..(i - 1) : all[j] \in {"delta", "other"}
      IN  /\ Streamed(all).ok <=> all[end] # "bad"
          /\ Streamed(all).deltas = {i \in 1..end : all[i] = "delta"}

(***************************************************************************)
(* The instance.                                                           *)
(***************************************************************************)
MCBranches == {b1, b2}
\* In the second the branch has a comment behind its name, in the third the
\* sections have one behind their keys, which the code does not recognise.
MCLayouts == {Layout(<<"repo", "branches", "daemon">>, <<b1, b2>>, TRUE, "bare", "plain"),
              Layout(<<"repo", "branches">>, <<b1>>, TRUE, "bare", "quoted"),
              Layout(<<"repo", "branches", "daemon">>, <<b1>>, TRUE, "comment", "plain")}

Set(on, linear, reported, scope, read, test) ==
    [enabled |-> on, llm |-> TRUE, linear |-> linear, reports |-> reported, scope |-> scope,
     mode |-> [a \in TaskActions |-> IF a = "run_tests" THEN test ELSE read],
     tests |-> [b \in MCBranches |-> IF b = b1 THEN 1 ELSE 0]]

MCSettings == {Set(FALSE, FALSE, TRUE, {}, "allow", "allow"),
               Set(TRUE, TRUE, TRUE, TaskActions, "ask", "ask"),
               Set(TRUE, TRUE, FALSE, {"local_read", "run_tests"}, "allow", "ask"),
               Set(TRUE, FALSE, TRUE, TaskActions, "allow", "deny")}
================================================================================
