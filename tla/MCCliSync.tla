------------------------------ MODULE MCCliSync ------------------------------
(***************************************************************************)
(* TLC instances of CliSync (RunEnds excludes symmetry), and the two pure  *)
(* algorithms a run uses, on all small inputs.                             *)
(***************************************************************************)
EXTENDS CliSync, Sequences, FiniteSets
C == INSTANCE ConflictBlocks
N == INSTANCE Notify

Lines == C!Markers \cup {"text", "indented"}
Files == UNION {[1..n -> Lines] : n \in 0..6}
Answer(blocks, raws, replacement) ==
    [k \in DOMAIN blocks |-> [id |-> k, sha |-> raws[k], replacement |-> replacement]]

\* What is outside the blocks of a file, in order.
Outside(file, blocks) ==
    LET out == {i \in DOMAIN file : \A k \in DOMAIN blocks : i \notin blocks[k].start..blocks[k].end}
    IN  [n \in 1..Cardinality(out) |->
            file[CHOOSE i \in out : Cardinality({j \in out : j <= i}) = n]]

\* A complete answer is taken, whatever the file is that parses: every line
\* outside the blocks stays, the replacements are what else there is, and no
\* block is left.
ASSUME AnswersResolve ==
    \A file \in Files :
      LET parsed == C!ParseFile(file, 1)
          blocks == parsed.blocks
          answer(replacement) == Answer(blocks, [k \in DOMAIN blocks |-> C!Raw(file, blocks[k])], replacement)
          drop == C!Resolve(file, answer(<<>>))
          keep == C!Resolve(file, answer(<<"new">>))
      IN  (parsed.ok /\ blocks # <<>>) =>
            /\ drop.ok /\ drop.lines = Outside(file, blocks)
            /\ keep.ok /\ SelectSeq(keep.lines, LAMBDA line : line # "new") = drop.lines
            /\ Len(keep.lines) = Len(drop.lines) + Len(blocks)
            /\ C!ParseFile(keep.lines, 1).blocks = <<>>

\* An answer that repeats a block, leaves one out, names one that is not
\* there, is of another text or still holds a marker changes nothing.
ASSUME OthersRefused ==
    LET file  == <<"text", "<", "text", "=", "text", ">", "<", "=", ">">>
        first == [id |-> 1, sha |-> SubSeq(file, 2, 6), replacement |-> <<"new">>]
        next  == [id |-> 2, sha |-> SubSeq(file, 7, 9), replacement |-> <<>>]
    IN  /\ C!Resolve(file, <<next, first>>) = [ok |-> TRUE, lines |-> <<"text", "new">>]
        /\ \A answer \in {<<>>, <<first>>, <<first, first>>, <<first, next, first>>,
                          <<first, next, [next EXCEPT !.id = 3]>>,
                          <<first, [next EXCEPT !.sha = first.sha]>>,
                          <<first, [next EXCEPT !.replacement = <<"indented">>]>>} :
             C!Resolve(file, answer) = [ok |-> FALSE, lines |-> file]

(***************************************************************************)
(* Notifications: an error is told exactly when every channel that was     *)
(* tried failed, all channels in use are tried before that, and but for    *)
(* fanout a message goes out once at most.                                 *)
(***************************************************************************)
Channel == [enabled : BOOLEAN]
Configs == [enabled : {TRUE}, policy : N!Policies, email : {"none", "enabled", "disabled"},
            channels : UNION {[1..n -> Channel] : n \in 0..3}]

ASSUME NotificationsAreTold ==
    \A config \in Configs, works \in [1..3 -> BOOLEAN] :
      LET inUse == {i \in DOMAIN N!Channels(config) : N!Channels(config)[i].enabled}
          got   == {i \in N!Tried(config, works) : works[i]}
      IN  /\ N!Send(config, works) = "sent" <=> \E i \in inUse : works[i]
          /\ N!Send(config, works) = "error" => N!Tried(config, works) = inUse /\ inUse # {}
          /\ config.policy # "fanout" => Cardinality(got) <= 1
          /\ config.policy = "fanout" => got = {i \in inUse : works[i]}
=============================================================================
