------------------------------ MODULE StaticScan ------------------------------
(***************************************************************************)
(* The static scan before any code of a project runs: the Cargo files of   *)
(* the tree and, with the rust profile, the archives of locked packages.   *)
(*                                                                         *)
(* A file has the directories that lead to it, its name and what reading   *)
(* and parsing it gives: the known packages it names and the marks its     *)
(* text holds outside comments.  An archive is a set of entries.  What     *)
(* cannot be read, parsed, fetched or matched is an error, and an error    *)
(* refuses everything.                                                     *)
(***************************************************************************)
EXTENDS Naturals, Sequences, FiniteSets

CONSTANTS MaxStaticFiles,   \* bounds of the code, as numbers of the model
          MaxPackages,
          MaxEntries

ASSUME ScanBounds == {MaxStaticFiles, MaxPackages, MaxEntries} \subseteq Nat

ScannedNames == {"Cargo.lock", "Cargo.toml", "build.rs"}
Marks == {"network", "execution", "url", "command", "git_download", "evasion"}
KnownPackages == {"arrayref", "proc-macro1"}

Report(blockers, warnings) == [blockers |-> blockers, warnings |-> warnings]
EmptyReport == Report({}, {})
BuildAllowed(report) == report.blockers = {}
Merge(reports) ==
  Report(UNION {r.blockers : r \in reports}, UNION {r.warnings : r \in reports})

\* The digest of the indicators, by which scans are told apart.
DedupeKey(report) == <<report.blockers, report.warnings>>

-----------------------------------------------------------------------------
(* What one file says.                                                     *)

\* Marks in comments do not count.
Live(file) == {m[1] : m \in {n \in file.marks : n[2] # "comment"}}

PackageIndicators(file) == {<<p, file.path>> : p \in file.packages \cap KnownPackages}

Downloads(marks) ==
  \/ {"network", "execution"} \subseteq marks
  \/ "url" \in marks /\ marks \cap {"command", "git_download"} # {}
Evades(marks) ==
  "evasion" \in marks /\ marks \cap {"network", "url", "execution", "command"} # {}

ScriptReport(file) ==
  LET marks == Live(file) IN
  Report({r \in {<<"network-execution", file.path>>} : Downloads(marks)}
           \cup {r \in {<<"evasion", file.path>>} : Evades(marks)},
         {<<w, file.path>> : w \in
            IF Downloads(marks) THEN {}
            ELSE IF "network" \in marks THEN {"network"}
            ELSE marks \cap {"execution"}})

FileReport(file) ==
  IF file.name = "build.rs" THEN ScriptReport(file)
  ELSE IF file.name = "other" THEN EmptyReport
  ELSE Report(PackageIndicators(file), {})

\* Scripts are text, the other two must parse as TOML as well.
Readable(file) == file.text /\ (file.name # "build.rs" => file.parses)

-----------------------------------------------------------------------------
(* The tree of the project.                                                *)

\* Build output, Git's own directory and fixtures of tests are passed over;
\* the directory the scan starts in counts as a parent.
Skipped(root, dirs) ==
  \E i \in DOMAIN dirs :
    \/ dirs[i] \in {".git", "target", "node_modules"}
    \/ dirs[i] = "fixtures" /\ (IF i = 1 THEN root ELSE dirs[i - 1]) = "tests"

StaticFiles(root, tree) ==
  {f \in tree : f.name \in ScannedNames /\ ~f.link /\ ~Skipped(root, f.path[1])}

TreeFails(root, tree) ==
  LET files == StaticFiles(root, tree) IN
  Cardinality(files) > MaxStaticFiles \/ \E f \in files : f.large \/ ~Readable(f)

TreeReport(root, tree) == Merge({FileReport(f) : f \in StaticFiles(root, tree)})

-----------------------------------------------------------------------------
(* The locked packages.                                                    *)

\* Packages of the workspace have no source and are not fetched.
External(packages) == {p \in packages : p.source # "local"}
Fetched(packages) == {p \in packages : p.source = "crates.io"}

\* A cached archive is used if it has the checksum; a download is stored only if it has.
Archive(p) == IF p.cached = "none" THEN p.download ELSE p.cached

EntryFails(e) ==
  \/ ~e.inside
  \/ e.kind = "special"
  \/ e.kind = "file" /\ e.file.name \in {"Cargo.toml", "build.rs"}
       /\ (e.file.large \/ ~Readable(e.file))

ArchiveFails(entries) ==
  \/ Cardinality(entries) > MaxEntries
  \/ \E e \in entries : EntryFails(e)
  \/ ~\E e \in entries : e.kind = "file" /\ e.file.name = "Cargo.toml"

PackageFails(p) ==
  \/ ~p.checksum
  \/ Archive(p) # "match"
  \/ ArchiveFails(p.entries)

ArchiveReport(p) ==
  Merge({FileReport(e.file) : e \in {x \in p.entries :
           x.kind = "file" /\ x.file.name \in {"Cargo.toml", "build.rs"}}})

DependenciesFail(packages) ==
  Cardinality(External(packages)) > MaxPackages \/ \E p \in Fetched(packages) : PackageFails(p)

DependencyReport(packages) ==
  Merge({ArchiveReport(p) : p \in Fetched(packages)}
          \cup {Report({<<"unscanned-source", p.id>> : p \in External(packages) \ Fetched(packages)}, {})})

-----------------------------------------------------------------------------
(* The gate's scan.                                                        *)

\* The packages are looked at only if the tree itself lets the build go on.
WithDependencies(root, tree, rust) == rust /\ BuildAllowed(TreeReport(root, tree))

ScanFails(root, tree, packages, rust) ==
  \/ TreeFails(root, tree)
  \/ WithDependencies(root, tree, rust) /\ DependenciesFail(packages)

ScanReport(root, tree, packages, rust) ==
  IF WithDependencies(root, tree, rust)
  THEN Merge({TreeReport(root, tree), DependencyReport(packages)})
  ELSE TreeReport(root, tree)

ScanPasses(root, tree, packages, rust) ==
  ~ScanFails(root, tree, packages, rust) /\ BuildAllowed(ScanReport(root, tree, packages, rust))

-----------------------------------------------------------------------------
(* Properties.                                                             *)

\* What a passed scan has seen: every Cargo file outside the skipped directories is
\* readable and without a blocker and, with the rust profile, every outside package comes
\* from crates.io in an archive that matches its checksum and is clean as well
\* (runner.rs:60-85, archive.rs:41-122).
CleanTree(root, tree) ==
  \A f \in StaticFiles(root, tree) : ~f.large /\ Readable(f) /\ BuildAllowed(FileReport(f))
CleanPackages(packages) ==
  \A p \in External(packages) :
    /\ p.source = "crates.io" /\ p.checksum /\ Archive(p) = "match"
    /\ \A e \in p.entries : e.kind = "file" /\ e.file.name \in {"Cargo.toml", "build.rs"} =>
         Readable(e.file) /\ BuildAllowed(FileReport(e.file))
PassedIsClean(root, tree, packages, rust) ==
  ScanPasses(root, tree, packages, rust) =>
    CleanTree(root, tree) /\ (rust => CleanPackages(packages))

\* No sum of reports hides a blocker of one of them.
MergeHidesNothing(reports) == BuildAllowed(Merge(reports)) <=> \A r \in reports : BuildAllowed(r)
=============================================================================
