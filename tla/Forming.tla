------------------------------ MODULE Forming ------------------------------
(***************************************************************************)
(* How receive turns one request into a published approach:                *)
(* produce_patch_series grounds it, forms the Technical Approach step by   *)
(* step (form_technical_approach), prepares the cohort and promotes it to  *)
(* a branch.  Beside normalisation and constraints a worker thread builds  *)
(* the design precedents, and schedules a build of implementation          *)
(* precedents that outlives it; the caller joins the thread before prior   *)
(* art, and drains the background build before it returns.                 *)
(*                                                                         *)
(* Every step asks a carrier (Carrier) and validates its answer.  A        *)
(* refused answer is named by its defects, atoms that do not depend on     *)
(* wording; codex_exec.RejectionRetryState compares those of consecutive   *)
(* attempts.  What a carrier writes is data: an answer is the set of its   *)
(* defects, and the identity of a candidate it proposes.                   *)
(***************************************************************************)
EXTENDS Naturals, Sequences, FiniteSets, SequencesExt

CONSTANTS
  Atoms,      \* the defects that validators tell apart
  Kinds,      \* how many kinds of candidates are generated: three in the code
  Ids,        \* the identities a carrier may give a candidate
  Attempts,   \* MAX_..._REGENERATIONS + 1, MAX_REGROUNDS + 1: all 3 in the code
  None

VARIABLES
  provided,    \* whether the request brings its approach along
  stage,       \* the step under way, or where produce_patch_series stands
  refusals,    \* the defects of the answers refused for the current node
  completed,   \* steps_completed
  candidates,  \* the identities of the candidates generated so far
  evaluated,   \* the candidates evaluated so far
  front,       \* the thread that builds design precedents
  background,  \* the build of implementation precedents
  abandoned,   \* whether the drain timed out and said so
  outcome      \* what produce_patch_series returns

work  == <<completed, candidates, evaluated>>
lanes == <<front, background, abandoned>>
vars  == <<provided, stage, refusals, work, lanes, outcome>>

StepNames ==
  {"normalize_problem", "extract_constraints", "build_prior_art_map", "generate_candidates",
   "evaluate_candidates", "select_approach", "implementation_strategy",
   "domain_specification", "right_size_patch_plan", "surface_risks"}

(* _technical_approach_step_order.                                         *)
StepOrder ==
  IF provided
  THEN <<"normalize_problem", "extract_constraints", "build_prior_art_map",
         "select_approach", "implementation_strategy", "domain_specification",
         "right_size_patch_plan", "surface_risks">>
  ELSE <<"normalize_problem", "extract_constraints", "build_prior_art_map",
         "generate_candidates", "evaluate_candidates",
         "select_approach", "implementation_strategy", "domain_specification",
         "right_size_patch_plan", "surface_risks">>

Steps == {StepOrder[i] : i \in DOMAIN StepOrder}

(* Steps that ask a carrier: a provided approach selects itself.           *)
Asking == {"grounding"} \cup (IF provided THEN Steps \ {"select_approach"} ELSE Steps)

Pending == [status |-> "pending", step |-> None, mode |-> None]

Init ==
  /\ provided \in BOOLEAN
  /\ stage = "grounding"
  /\ refusals = <<>> /\ completed = <<>> /\ candidates = <<>> /\ evaluated = <<>>
  /\ front = "absent" /\ background = "absent" /\ abandoned = FALSE
  /\ outcome = Pending

-----------------------------------------------------------------------------
(* How a step ends.                                                        *)

Ends(status, step, mode) ==
  outcome' = [status |-> status, step |-> step, mode |-> mode]

(* A step that failed ends the forming; produce then takes the result of   *)
(* the front.  Grounding fails before there is one.                        *)
StepFails(mode) ==
  /\ Ends("needs_work", stage, mode)
  /\ stage' = IF stage = "grounding" THEN "ended" ELSE "joining"
  /\ UNCHANGED <<provided, work, lanes>>

(* mark_step_completed, and on to the next step.                           *)
Complete(step) ==
  /\ completed' = Append(completed, step)
  /\ stage' = LET i == Len(completed) + 1
              IN  IF i = Len(StepOrder) THEN "joining" ELSE StepOrder[i + 1]
  /\ refusals' = <<>>
  /\ UNCHANGED <<provided, lanes, outcome>>

(* The defects a validator may find in an answer.                          *)
Defects == (SUBSET Atoms) \ {{}}

(* Mutant: the whole answer is fingerprinted, not its atoms.               *)
RepeatsAsAWhole(defects) == refusals # <<>> /\ defects = Last(refusals)

(* RejectionRetryState.classify: permanent when an atom comes back.        *)
Repeats(defects) == refusals # <<>> /\ defects \cap Last(refusals) # {}

(* _classify_validation_retry in the loops of all steps and of             *)
(* _ground_with_contract: the answer is asked for again, with the defects  *)
(* as feedback, unless one of them was fed back already or the attempts    *)
(* are used up.                                                            *)
Refused(defects) ==
  /\ stage \in Asking
  /\ refusals' = Append(refusals, defects)
  /\ \/ /\ Repeats(defects)
        /\ StepFails("permanent_rejection")
     \/ /\ ~Repeats(defects) /\ Len(refusals) + 1 = Attempts
        /\ StepFails(None)
     \/ /\ ~Repeats(defects) /\ Len(refusals) + 1 < Attempts
        /\ UNCHANGED <<provided, stage, work, lanes, outcome>>

(* run_json failed.  A step of the approach gives up and says no mode, even *)
(* of a carrier whose transient retries were exhausted.                    *)
CarrierFails ==
  /\ stage \in Asking \ {"grounding"}
  /\ StepFails(None)
  /\ UNCHANGED refusals

(* Grounding or its verifier exhausted the transient retries; any other    *)
(* failure of the grounding carrier is a defect that is Refused.           *)
GroundingExhausted ==
  /\ stage = "grounding"
  /\ StepFails("transient-retries-exhausted")
  /\ UNCHANGED refusals

(* A normalised problem that cannot be parsed is not asked for again.      *)
ProblemUnparsable ==
  /\ stage = "normalize_problem"
  /\ StepFails(None)
  /\ UNCHANGED refusals

-----------------------------------------------------------------------------
(* The steps whose answer is accepted.                                     *)

(* _ground_request and _verify_grounding without violations: the front is  *)
(* submitted.  confirms says that the answer is not confident and that     *)
(* confirmation is required.                                               *)
Ground(confirms) ==
  /\ stage = "grounding"
  /\ refusals' = <<>>
  /\ IF confirms
     THEN /\ Ends("needs_confirmation", None, None) /\ stage' = "ended"
          /\ UNCHANGED front
     ELSE /\ stage' = StepOrder[1] /\ front' = "building"
          /\ UNCHANGED outcome
  /\ UNCHANGED <<provided, work, background, abandoned>>

NormalizeProblem ==
  /\ stage = "normalize_problem"
  /\ Complete(stage)
  /\ UNCHANGED <<candidates, evaluated>>

(* With the constraints in place the front is joined: its failure leaves   *)
(* produce_patch_series as an exception.                                   *)
ExtractConstraints ==
  /\ stage = "extract_constraints"
  /\ completed' = Append(completed, stage)
  /\ stage' = "precedents"
  /\ refusals' = <<>>
  /\ UNCHANGED <<provided, candidates, evaluated, lanes, outcome>>

JoinForPriorArt ==
  /\ stage = "precedents" /\ front # "building"
  /\ IF front = "failed"
     THEN stage' = "ended" /\ Ends("raised", "precedents", None)
     ELSE stage' = "build_prior_art_map" /\ UNCHANGED outcome
  /\ UNCHANGED <<provided, refusals, work, lanes>>

BuildPriorArtMap ==
  /\ stage = "build_prior_art_map"
  /\ Complete(stage)
  /\ UNCHANGED <<candidates, evaluated>>

(* _generate_candidates asks for one candidate of each kind.  None is ever  *)
(* pruned, so that its loop for additional candidates is not reached.      *)
LastKind == Len(candidates) + 1 = Kinds

(* _generate_candidate_node, once per kind with its own attempts: an       *)
(* identity given twice is a defect.                                       *)
GenerateCandidate(id) ==
  /\ stage = "generate_candidates"
  /\ id \notin ToSet(candidates)
  /\ candidates' = Append(candidates, id)
  /\ IF LastKind
     THEN Complete(stage)
     ELSE refusals' = <<>> /\ UNCHANGED <<provided, stage, completed, lanes, outcome>>
  /\ UNCHANGED evaluated

(* _evaluate_candidates: the candidates in turn, each with its own attempts. *)
EvaluateCandidate ==
  /\ stage = "evaluate_candidates"
  /\ evaluated' = Append(evaluated, candidates[Len(evaluated) + 1])
  /\ IF Len(evaluated) + 1 = Len(candidates)
     THEN Complete(stage)
     ELSE refusals' = <<>> /\ UNCHANGED <<provided, stage, completed, lanes, outcome>>
  /\ UNCHANGED candidates

(* _select_approach, or _provided_approach_selection.                      *)
SelectApproach ==
  /\ stage = "select_approach"
  /\ Complete(stage)
  /\ UNCHANGED <<candidates, evaluated>>

ImplementationStrategy ==
  /\ stage = "implementation_strategy"
  /\ Complete(stage)
  /\ UNCHANGED <<candidates, evaluated>>

(* It may also find its aspects in the store, or none to specify.          *)
DomainSpecification ==
  /\ stage = "domain_specification"
  /\ Complete(stage)
  /\ UNCHANGED <<candidates, evaluated>>

RightSizePatchPlan ==
  /\ stage = "right_size_patch_plan"
  /\ Complete(stage)
  /\ UNCHANGED <<candidates, evaluated>>

(* _surface_risks; a risk with an unknown target fails the step for good.  *)
SurfaceRisks ==
  /\ stage = "surface_risks"
  /\ \/ Complete(stage) /\ UNCHANGED <<candidates, evaluated>>
     \/ StepFails(None) /\ UNCHANGED refusals

-----------------------------------------------------------------------------
(* The end of produce_patch_series.                                        *)

(* Mutant: an approach that failed is returned without the front's result. *)
FailedAtOnce ==
  /\ stage = "joining"
  /\ stage' = IF outcome = Pending THEN "preparing" ELSE "draining"
  /\ UNCHANGED <<provided, refusals, work, lanes, outcome>>

(* The front's result is taken whatever became of the approach, so that    *)
(* its failure comes first.                                                *)
JoinFront ==
  /\ stage = "joining" /\ front # "building"
  /\ IF front = "failed"
     THEN stage' = "ended" /\ Ends("raised", "precedents", None)
     ELSE /\ stage' = IF outcome = Pending THEN "preparing" ELSE "draining"
          /\ UNCHANGED outcome
  /\ UNCHANGED <<provided, refusals, work, lanes>>

(* Mutant: a cohort that cannot be prepared is returned without a drain.   *)
PrepareOrReturn ==
  /\ stage = "preparing"
  /\ \/ stage' = "promoting" /\ UNCHANGED outcome
     \/ stage' = "ended" /\ Ends("needs_work", "producer_aware_formation", None)
  /\ UNCHANGED <<provided, refusals, work, lanes>>

(* prepare_producer_aware_formation: the members of the cohort are         *)
(* preflighted before any ref moves.                                       *)
Prepare ==
  /\ stage = "preparing"
  /\ \/ stage' = "promoting" /\ UNCHANGED outcome
     \/ stage' = "draining" /\ Ends("needs_work", "producer_aware_formation", None)
  /\ UNCHANGED <<provided, refusals, work, lanes>>

(* _write_patch_series_branch (Intake models its commands), which may      *)
(* raise; the mail about the series is posted best-effort.                 *)
Promote ==
  /\ stage = "promoting"
  /\ \/ stage' = "draining" /\ Ends("promoted", None, None)
     \/ stage' = "ended" /\ Ends("raised", "promote", None)
  /\ UNCHANGED <<provided, refusals, work, lanes>>

(* _drain_background_precedent_builds: wait, for a bounded time, and       *)
(* record a build that is still running.                                   *)
Drain ==
  /\ stage = "draining"
  /\ stage' = "ended"
  /\ abandoned' = (background # "done")
  /\ UNCHANGED <<provided, refusals, work, front, background, outcome>>

-----------------------------------------------------------------------------
(* The other lanes.                                                        *)

(* _build_receive_precedent_front: the design build, then the background   *)
(* build is scheduled.                                                     *)
FrontEnds ==
  /\ front = "building"
  /\ \/ front' = "failed" /\ UNCHANGED background
     \/ front' = "built" /\ background' = "running"
  /\ UNCHANGED <<provided, stage, refusals, work, abandoned, outcome>>

(* _background_build_from_patch_series never raises.                       *)
BackgroundEnds ==
  /\ background = "running"
  /\ background' = "done"
  /\ UNCHANGED <<provided, stage, refusals, work, front, abandoned, outcome>>

Caller ==
  \/ \E defects \in Defects : Refused(defects)
  \/ CarrierFails
  \/ GroundingExhausted
  \/ ProblemUnparsable
  \/ \E confirms \in BOOLEAN : Ground(confirms)
  \/ NormalizeProblem
  \/ ExtractConstraints
  \/ JoinForPriorArt
  \/ BuildPriorArtMap
  \/ \E id \in Ids : GenerateCandidate(id)
  \/ EvaluateCandidate
  \/ SelectApproach
  \/ ImplementationStrategy
  \/ DomainSpecification
  \/ RightSizePatchPlan
  \/ SurfaceRisks
  \/ JoinFront
  \/ Prepare
  \/ Promote
  \/ Drain

Next ==
  \/ Caller
  \/ FrontEnds
  \/ BackgroundEnds

Spec == Init /\ [][Next]_vars

-----------------------------------------------------------------------------
TypeOK ==
  /\ provided \in BOOLEAN /\ abandoned \in BOOLEAN
  /\ stage \in Steps \cup {"grounding", "precedents", "joining", "preparing",
                           "promoting", "draining", "ended"}
  /\ refusals \in Seq(SUBSET Atoms) /\ Len(refusals) <= Attempts
  /\ completed \in Seq(Steps)
  /\ candidates \in Seq(Ids) /\ Len(candidates) <= Kinds
  /\ evaluated \in Seq(Ids)
  /\ front \in {"absent", "building", "built", "failed"}
  /\ background \in {"absent", "running", "done"}
  /\ outcome.status \in {"pending", "promoted", "needs_work", "needs_confirmation", "raised"}

(* "A retry must change the odds or stop": while a step goes on asking, no *)
(* two consecutive refusals share a defect, so that no attempt is made     *)
(* after one that ignored its feedback.                                    *)
RetriesChangeTheOdds ==
  stage \in Asking =>
    \A i \in 1..(Len(refusals) - 1) : refusals[i] \cap refusals[i + 1] = {}

(* "precedent failures keep their original priority over approach          *)
(* needs_work results": a request is never sent back for its approach      *)
(* while the failure of its precedents goes unseen.                        *)
PrecedentFailureFirst ==
  stage = "ended" /\ outcome.step \in Steps => front = "built"

(* "Warmed-lane writes must land before the process exits": a request that *)
(* is answered leaves no background build running that was not waited for  *)
(* and named.                                                              *)
NoStragglers ==
  stage = "ended" /\ outcome.status \in {"promoted", "needs_work"}
    => background # "running" \/ abandoned

=============================================================================
