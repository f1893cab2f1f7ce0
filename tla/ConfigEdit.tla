------------------------------ MODULE ConfigEdit ------------------------------
(***************************************************************************)
(* How the assistant edits termite.yml: line by line, not as YAML          *)
(* (src/src/assistant.rs:710-781).  A line is a tagged tuple: the line     *)
(* that names a branch, a top-level key, an empty line, or another line,   *)
(* which YAML can read (Item) or not (Odd).  Lines end in \n.              *)
(***************************************************************************)
EXTENDS Integers, Sequences, FiniteSetsExt

\* How the line of a branch's name is written: as "  - name: b"; so, but with
\* quotes around b or a comment behind it; below another key of its item; or as
\* "- name: b", without an indentation.
Spellings == {"plain", "quoted", "inner", "flush"}

\* What follows the colon of a top-level key: nothing, a comment, or a value.
Forms == {"bare", "comment", "value"}

\* The lines that the code looks for and writes, and the keys it recognises.
Name(b) == <<"name", b, "plain">>
Key(section) == <<"key", section, "bare">>
Blank == <<"blank">>
Item == <<"item">>
Odd == <<"odd">>

\* A line of a file that names no other branches than these.
Line(branches) == {Blank, Item, Odd} \cup ({"name"} \X branches \X Spellings)
                                     \cup ({"key"} \X STRING \X Forms)

At(lines, kind) == {i \in DOMAIN lines : lines[i][1] = kind}

\* What a YAML parser finds, however it is written.
Names(lines) == {lines[i][2] : i \in At(lines, "name")}
Keys(lines) == {lines[i][2] : i \in At(lines, "key")}

\* The key whose section line i belongs to.
Section(lines, i) ==
    LET above == {k \in At(lines, "key") : k <= i}
    IN  IF above = {} THEN "none" ELSE lines[Max(above)][2]

\* Config::read_from takes the file: it is YAML, `repo` is there, no section is
\* twice, and no other than `branches` holds an item of its list, which may be
\* empty, has one indentation, and does not follow a value ("branches: []").
Parses(lines) ==
    /\ \A i \in DOMAIN lines : lines[i] # Odd
    /\ "repo" \in Keys(lines)
    /\ \A i, j \in At(lines, "key") : lines[i][2] = lines[j][2] => i = j
    /\ \A i \in At(lines, "name") : Section(lines, i) = "branches"
    /\ \A i, j \in At(lines, "name") : lines[i][3] = "flush" => lines[j][3] = "flush"
    /\ \A i \in At(lines, "key") : lines[i] = <<"key", "branches", "value">> => At(lines, "name") = {}

(***************************************************************************)
(* remove_branch_from_config: from the first line that reads "  - name: b" *)
(* up to the next that begins with "  - name: " or ends a top-level key    *)
(* with its colon.  The empty lines above that key go too, and so does     *)
(* whatever is there that the code does not recognise.                     *)
(***************************************************************************)
Found(lines, b) == \E i \in DOMAIN lines : lines[i] = Name(b)

Begins(lines) == {i \in At(lines, "name") : lines[i][3] \in {"plain", "quoted"}}
                   \cup {i \in At(lines, "key") : lines[i][3] = "bare"}

WithoutBranch(lines, b) ==
    LET start == Min({i \in DOMAIN lines : lines[i] = Name(b)})
        next  == {i \in Begins(lines) : i > start}
        end   == IF next = {} THEN Len(lines) + 1 ELSE Min(next)
    IN  SubSeq(lines, 1, start - 1) \o SubSeq(lines, end, Len(lines))

\* The block of a branch.  Its note is what the user typed, without quotes:
\* with ": " in it, or an opening bracket before it, it is no YAML, and `rest`
\* is Odd.
Rests == {Item, Odd}
Block(b, rest) == <<Name(b), rest>>

\* The places of "\n\ndaemon:" in the text, whatever follows the colon.
Markers(lines) ==
    {i \in 2..(Len(lines) - 1) :
       lines[i] = Blank /\ i + 1 \in At(lines, "key") /\ lines[i + 1][2] = "daemon"}

\* The second half of add_or_replace_branch_in_config: before the first
\* marker, else at the end.  The block brings an empty line of its own, below
\* it in the first case and above it in the second.
WithBranch(lines, b, rest) ==
    IF Markers(lines) # {}
      THEN LET i == Min(Markers(lines))
           IN  SubSeq(lines, 1, i - 1) \o Block(b, rest) \o <<Blank>> \o SubSeq(lines, i, Len(lines))
      ELSE lines \o <<Blank>> \o Block(b, rest)

\* What a removal, or the first half of an addition, leaves.
Cut(lines, b) == IF Found(lines, b) THEN WithoutBranch(lines, b) ELSE lines
Replaced(lines, b, rest) == WithBranch(Cut(lines, b), b, rest)

(***************************************************************************)
(* What the edits assume of a file and do not check.                       *)
(***************************************************************************)
\* Every section and every branch begins with a line that the code takes for
\* one, as in examples/termite.yml and as the assistant writes them.
Recognised(lines) ==
    /\ \A i \in At(lines, "name") : lines[i][3] \in {"plain", "quoted"}
    /\ \A i \in At(lines, "key") : lines[i][3] = "bare"

\* No branch is listed twice, as it is after a save between the two writes of
\* an addition; a removal takes out the first of the two only.
ListedOnce(lines) == Cardinality(At(lines, "name")) = Cardinality(Names(lines))

IsLast(lines, b) ==
    \E i \in At(lines, "name") : lines[i] = Name(b) /\ \A j \in At(lines, "name") : j <= i

\* A new block lands among the branches: these are followed, after an empty
\* line, by `daemon`, and the replaced branch is not the last one, with which
\* that empty line would go; or they end the file and nothing else is found.
AddIsSafe(lines, b) ==
    \/ /\ Markers(lines) # {}
       /\ Section(lines, Min(Markers(lines))) = "branches"
       /\ ~IsLast(lines, b)
    \/ /\ Markers(lines) = {}
       /\ Section(lines, Len(lines)) = "branches"
===============================================================================
