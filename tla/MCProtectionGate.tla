--------------------------- MODULE MCProtectionGate ---------------------------
(* TLC instances of ProtectionGate, and the pure operators it is built from  *)
(* against their reference definitions over small inputs.                    *)
EXTENDS ProtectionGate, TLC

Graph == INSTANCE LockGraph

Harmless == [fix |-> FALSE, risk |-> FALSE, severity |-> "informational", universal |-> FALSE,
             affected |-> "no", reachable |-> "no", confidence |-> "high", text |-> TRUE,
             evidence |-> FALSE, contract |-> "none"]
\* Blocks under the strict profile only.
P2Risk == [Harmless EXCEPT !.risk = TRUE, !.severity = "P2", !.affected = "yes",
                           !.reachable = "yes", !.evidence = TRUE]
\* A fix to verify; as a message, the project is affected.
P1Fix == [P2Risk EXCEPT !.risk = FALSE, !.fix = TRUE, !.severity = "P1", !.contract = "complete"]
MCAnswers == {Harmless, P2Risk, P1Fix}
MCReports == {EmptyReport, Report({<<"network-execution", "build.rs">>}, {})}

Symmetry == Permutations(Gates)

-----------------------------------------------------------------------------
(* Verdicts, for every decision.                                           *)

ASSUME VerdictsAreSafe ==
  \A d \in Decisions : \A strict \in BOOLEAN :
    /\ AcuteRiskNeverPasses(d, strict) /\ FixIsVerified(d, strict) /\ BlockNeedsRemedy(d, strict)
    /\ StrictIsStricter(d, TRUE, strict)
ASSUME RangesAreWorst == \A ds \in SUBSET Dispositions : RangeIsWorst(ds)

-----------------------------------------------------------------------------
(* Scans: trees of up to three files, up to three packages, of these.      *)

Script(dirs, marks) ==
  [path |-> <<dirs, "build.rs">>, name |-> "build.rs", link |-> FALSE, large |-> FALSE, text |-> TRUE,
   parses |-> FALSE, packages |-> {}, marks |-> marks]
Manifest(dirs, packages) ==
  [path |-> <<dirs, "Cargo.toml">>, name |-> "Cargo.toml", link |-> FALSE, large |-> FALSE, text |-> TRUE,
   parses |-> TRUE, packages |-> packages, marks |-> {}]
Probe == {<<"execution", "code">>, <<"url", "comment">>}
Fetch == {<<"url", "code">>, <<"git_download", "code">>}
Odd == {<<"evasion", "code">>, <<"execution", "code">>}
TestFiles ==
  {Script(<<>>, Probe), Script(<<>>, Fetch), Script(<<"target">>, Fetch), Script(<<"sub">>, Odd),
   Script(<<"fixtures">>, Fetch), Script(<<"tests", "fixtures">>, Fetch),
   Manifest(<<>>, {"serde"}), Manifest(<<"sub">>, {"proc-macro1"}),
   [Manifest(<<>>, {}) EXCEPT !.parses = FALSE], [Script(<<"a">>, {}) EXCEPT !.large = TRUE],
   [Script(<<"b">>, Fetch) EXCEPT !.link = TRUE], [Script(<<"c">>, {}) EXCEPT !.text = FALSE]}

Entry(file) == [inside |-> TRUE, kind |-> "file", file |-> file]
Crate(entries) ==
  [id |-> "crate", source |-> "crates.io", checksum |-> TRUE, cached |-> "none", download |-> "match",
   entries |-> entries]
Plain == Crate({Entry(Manifest(<<>>, {"serde"}))})
TestPackages ==
  {Plain, [Plain EXCEPT !.source = "git"], [Plain EXCEPT !.source = "local"],
   [Plain EXCEPT !.checksum = FALSE], [Plain EXCEPT !.cached = "other"], [Plain EXCEPT !.download = "missing"],
   [Plain EXCEPT !.cached = "match", !.download = "missing"],
   Crate({}), Crate({Entry(Manifest(<<>>, {})), Entry(Script(<<>>, Fetch))}),
   Crate({Entry(Manifest(<<>>, {})), [Entry(Manifest(<<"x">>, {})) EXCEPT !.kind = "special"]})}

UpTo(n, set) == {s \in SUBSET set : Cardinality(s) <= n}

\* A scan passes exactly if everything it has to see is clean and within the bounds.
ASSUME ScansAreExact ==
  \A root \in {"repo", "tests"}, tree \in UpTo(3, TestFiles), rust \in BOOLEAN :
    \A packages \in IF rust THEN UpTo(2, TestPackages) ELSE {{}} :
      /\ PassedIsClean(root, tree, packages, rust)
      /\ /\ CleanTree(root, tree) /\ Cardinality(StaticFiles(root, tree)) <= MaxStaticFiles
         /\ rust => CleanPackages(packages) /\ Cardinality(packages) <= MaxPackages
                    /\ \A p \in packages : ~ArchiveFails(p.entries)
         => ScanPasses(root, tree, packages, rust)

-----------------------------------------------------------------------------
(* Lock files of three packages.                                           *)

LockNodes ==
  [name : {"a", "b"}, version : {"1", "2"}, source : {"local", "crates.io"},
   deps : SUBSET {[name |-> "a", version |-> "any"], [name |-> "b", version |-> "1"]}]
ASSUME SnapshotsAreClosures == \A nodes \in [1..3 -> LockNodes] : Graph!SnapshotIsClosure(nodes)
=============================================================================
