----------------------------- MODULE ConflictBlocks -----------------------------
(***************************************************************************)
(* How the conflict blocks of a file are found and replaced                *)
(* (src/src/conflict.rs).  A file is a sequence of lines, and of a line    *)
(* matters whether it begins with a Git marker ("<", "|", "=", ">"), is    *)
(* such a marker indented ("indented"), or is other text.  Line endings    *)
(* and the context shown to the model are left out, and a hash is the text *)
(* it is of.                                                               *)
(***************************************************************************)
EXTENDS Integers, Sequences, FiniteSets

Markers == {"<", "|", "=", ">"}

\* The first line at or after `from` of one of the kinds; 0 without one.
First(lines, from, kinds) ==
    IF \E i \in from..Len(lines) : lines[i] \in kinds
      THEN CHOOSE i \in from..Len(lines) :
             lines[i] \in kinds /\ \A j \in from..(i - 1) : lines[j] \notin kinds
      ELSE 0

\* One block that begins at line `start`: its separators, each 0 when it is
\* missing, in the order in which parse_file looks for them.
BlockAt(lines, start) ==
    LET middle == First(lines, start + 1, {"|", "="})
        equals == IF middle # 0 /\ lines[middle] = "|" THEN First(lines, middle + 1, {"="})
                                                       ELSE middle
        end    == IF equals = 0 THEN 0 ELSE First(lines, equals + 1, {">"})
    IN  [start |-> start, end |-> end,
         ours |-> SubSeq(lines, start + 1, middle - 1),
         theirs |-> SubSeq(lines, equals + 1, end - 1)]

\* parse_file from line `from` on: the blocks, or "error".
RECURSIVE ParseFile(_, _)
ParseFile(lines, from) ==
    LET start == First(lines, from, {"<"})
        block == BlockAt(lines, start)
        rest  == ParseFile(lines, block.end + 1)
    IN  IF start = 0 THEN [ok |-> TRUE, blocks |-> <<>>]
        ELSE IF block.end = 0 THEN [ok |-> FALSE, blocks |-> <<>>]
        ELSE [ok |-> rest.ok, blocks |-> <<block>> \o rest.blocks]

Raw(lines, block) == SubSeq(lines, block.start, block.end)

\* contains_conflict_marker looks behind the indentation too.
HasMarker(replacement) ==
    \E i \in DOMAIN replacement : replacement[i] \in Markers \cup {"indented"}

(***************************************************************************)
(* resolve_conflict_files for one file: `resolutions` is the list that the *)
(* model returned, [id, sha, replacement] each.                            *)
(***************************************************************************)
Refused(lines, resolutions) ==
    LET parsed == ParseFile(lines, 1)
        ids    == {resolutions[i].id : i \in DOMAIN resolutions}
    IN  \/ resolutions = <<>>
        \/ Cardinality(ids) # Len(resolutions)
        \/ \E i \in DOMAIN resolutions : HasMarker(resolutions[i].replacement)
        \/ ~parsed.ok \/ parsed.blocks = <<>>
        \/ ids # DOMAIN parsed.blocks
        \/ \E i \in DOMAIN resolutions :
             resolutions[i].sha # Raw(lines, parsed.blocks[resolutions[i].id])

\* The file from line `from` on, with the blocks from the k-th on replaced.
RECURSIVE Rebuilt(_, _, _, _, _)
Rebuilt(lines, blocks, replacement, from, k) ==
    IF k > Len(blocks) THEN SubSeq(lines, from, Len(lines))
    ELSE SubSeq(lines, from, blocks[k].start - 1) \o replacement[k]
           \o Rebuilt(lines, blocks, replacement, blocks[k].end + 1, k + 1)

Resolve(lines, resolutions) ==
    LET blocks == ParseFile(lines, 1).blocks
        replacement == [k \in DOMAIN blocks |->
              resolutions[CHOOSE i \in DOMAIN resolutions : resolutions[i].id = k].replacement]
    IN  IF Refused(lines, resolutions) THEN [ok |-> FALSE, lines |-> lines]
        ELSE [ok |-> TRUE, lines |-> Rebuilt(lines, blocks, replacement, 1, 1)]
=================================================================================
