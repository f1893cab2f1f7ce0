---------------------------- MODULE SecurityPolicy ----------------------------
(***************************************************************************)
(* The verdicts of the project protection: what the program decides from  *)
(* a model's description of a commit, of a fix and of an outside message.  *)
(* The model describes, these operators decide.                            *)
(*                                                                         *)
(* Texts of a decision are reduced to whether they are there, categories   *)
(* to whether one of them is universal, Option<bool> to yes, no, unknown.  *)
(***************************************************************************)
EXTENDS Naturals, Sequences

Severities == {"P0", "P1", "P2", "P3", "informational"}
Confidences == {"high", "medium", "low"}
Options == {"yes", "no", "unknown"}
Dispositions == {"allow", "verify", "needs_review", "block"}

Decisions ==
  [fix : BOOLEAN, risk : BOOLEAN, severity : Severities, universal : BOOLEAN,
   affected : Options, reachable : Options, confidence : Confidences,
   text : BOOLEAN,            \* summary and mechanism are not empty
   evidence : BOOLEAN, contract : {"none", "partial", "complete"}]

\* What the protocol accepts from the model; anything else is an error, and the gate refuses.
Valid(d) ==
  /\ d.text
  /\ d.fix \/ d.risk => d.evidence
  /\ d.contract # "none" => d.fix /\ d.contract = "complete"

Acute(d) == d.universal \/ d.severity \in {"P0", "P1"}

Evaluate(d, strict) ==
  IF d.affected = "no" \/ d.reachable = "no"
  THEN IF Acute(d) /\ (d.risk \/ d.fix) THEN "needs_review" ELSE "allow"
  ELSE IF d.risk /\ (Acute(d) \/ (strict /\ d.severity = "P2")) THEN "block"
  ELSE IF d.risk /\ (d.confidence = "low" \/ "unknown" \in {d.affected, d.reachable})
  THEN "needs_review"
  ELSE IF d.fix /\ d.severity \in {"P0", "P1", "P2"}
  THEN IF d.contract = "none" THEN "needs_review" ELSE "verify"
  ELSE IF d.confidence = "low" /\ (d.fix \/ d.risk) THEN "needs_review"
  ELSE "allow"

\* The verdict on a range of commits, given those on the commits.
Aggregate(ds) ==
  IF "block" \in ds THEN "block"
  ELSE IF "needs_review" \in ds THEN "needs_review"
  ELSE IF "verify" \in ds THEN "verify"
  ELSE "allow"

CanProceed(verdict) == verdict \in {"allow", "verify"}

\* The state and the build permission of the finding that records a review.
ReviewFinding(verdict) ==
  [state |-> [allow |-> "unaffected", verify |-> "investigating",
              needs_review |-> "uncertain", block |-> "affected"][verdict],
   allowed |-> CanProceed(verdict)]

-----------------------------------------------------------------------------
(* The independent verifier of a fix.                                      *)

Verifications ==
  [present : BOOLEAN, removed : BOOLEAN, regression : BOOLEAN, confidence : Confidences,
   evidence : BOOLEAN, missing : BOOLEAN]

ContractPasses(v) ==
  v.present /\ v.removed /\ v.regression /\ v.confidence # "low" /\ v.evidence /\ ~v.missing

-----------------------------------------------------------------------------
(* Messages from outside.                                                  *)

\* A message is no commit: with an effect, changes and a contract it counts as a fix to verify.
Normalised(d, changes) ==
  [d EXCEPT !.fix = @ \/ (d.affected = "yes" /\ changes /\ d.contract # "none")]

RequiresRemediation(d, strict) ==
  d.affected # "no" /\ (Acute(d) \/ (strict /\ d.severity = "P2"))

\* The finding an investigation starts with.
SignalFinding(d, strict) ==
  [state |-> IF d.affected = "no" THEN "unaffected"
             ELSE IF RequiresRemediation(d, strict) THEN "affected"
             ELSE "uncertain",
   allowed |-> ~RequiresRemediation(d, strict) /\ d.affected = "no"]

\* What the candidate's commit is judged by: the decision as a detected fix without risk.
AsFix(d) == [d EXCEPT !.fix = TRUE, !.risk = FALSE]

-----------------------------------------------------------------------------
(* Properties of the verdicts.                                             *)

Rank(verdict) == [allow |-> 0, verify |-> 1, needs_review |-> 2, block |-> 3][verdict]

\* An introduced risk that is acute never passes, whatever the model says about its reach
\* (catalog.rs:33-63).
AcuteRiskNeverPasses(d, strict) == d.risk /\ Acute(d) => ~CanProceed(Evaluate(d, strict))

\* A hidden fix of weight that is in reach never just passes: it needs a contract, and the
\* contract a verification (catalog.rs:70-82).
FixIsVerified(d, strict) ==
  d.fix /\ d.severity \in {"P0", "P1", "P2"} /\ "no" \notin {d.affected, d.reachable}
    => LET v == Evaluate(d, strict) IN v # "allow" /\ (v = "verify" => d.contract # "none")

\* The strict profile never makes a verdict milder.
StrictIsStricter(d, strict, lax) ==
  (lax => strict) => Rank(Evaluate(d, lax)) <= Rank(Evaluate(d, strict))

\* The duplicated thresholds agree: what would block a commit asks for a remedy as a message.
BlockNeedsRemedy(d, strict) == Evaluate(d, strict) = "block" => RequiresRemediation(d, strict)

\* A range is judged by its worst commit, so it proceeds only if every commit may.
RangeIsWorst(ds) ==
  /\ \A v \in ds : Rank(v) <= Rank(Aggregate(ds))
  /\ ds # {} => Aggregate(ds) \in ds
  /\ CanProceed(Aggregate(ds)) <=> \A v \in ds : CanProceed(v)
=============================================================================
