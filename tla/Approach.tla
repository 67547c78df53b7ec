------------------------------ MODULE Approach ------------------------------
(***************************************************************************)
(* A Technical Approach from the request to its last revision: formed and  *)
(* promoted by produce_patch_series (Forming), then, review after review,  *)
(* revised by reform_patch_series (Revision).  The tree that the first     *)
(* publishes is where the second begins: a request that brings its own     *)
(* approach, or a candidate that was never evaluated, is one of the author *)
(* side's starting points only if forming lets it through.                 *)
(***************************************************************************)
EXTENDS Naturals, Sequences, FiniteSets, SequencesExt

CONSTANTS
  Atoms, Kinds, Attempts,                           \* of Forming
  Patterns, MaxFragments, MaxReforms, MaxAnchors,   \* of Revision
  Candidates,   \* the ids that candidates may get, in both
  None

ASSUME ApproachAssumption ==
  /\ Kinds \in Nat \ {0} /\ Attempts \in Nat \ {0}
  /\ Patterns \cap Candidates = {} /\ None \notin Patterns \cup Candidates
  /\ MaxFragments \in Nat /\ MaxReforms \in Nat /\ MaxAnchors \in Nat

VARIABLES
  provided, stage, refusals, completed, candidates, evaluated,
  front, background, abandoned, outcome,            \* of Forming
  tree, anchors, phase, todo, work, prepared, revised, reforms   \* of Revision

Form == INSTANCE Forming WITH Ids <- Candidates
Rev  == INSTANCE Revision WITH stage <- phase

ASSUME NoneAssumption == None \notin Nat \cup Form!StepNames

formVars == <<provided, stage, refusals, completed, candidates, evaluated,
              front, background, abandoned, outcome>>
treeVars == <<tree, anchors, phase, todo, work, prepared, revised, reforms>>
approachVars == <<formVars, treeVars>>

NoTree == [patterns |-> {}, candidates |-> {}, evals |-> {},
           decision |-> [selected |-> None, rejected |-> {}]]

ApproachInit ==
  /\ Form!Init
  /\ tree = NoTree /\ work = NoTree /\ prepared = NoTree /\ revised = NoTree
  /\ anchors = {} /\ phase = "unpublished" /\ todo = {} /\ reforms = 0

(* A provided approach is its own only candidate.                          *)
FormedIds == IF provided THEN {{c} : c \in Candidates} ELSE {ToSet(candidates)}

(* _assemble_technical_approach and its _question_tree: the candidates that *)
(* were generated, with the evaluations that were made, and a decision that *)
(* selects one and rejects the others.                                     *)
Trees ==
  {[patterns   |-> {Rev!Item(p, None) : p \in ps},
    candidates |-> {Rev!Item(x, None) : x \in ids},
    evals      |-> {[of |-> x, judged |-> IF x \in ToSet(evaluated) THEN 0 ELSE None] : x \in ids},
    decision   |-> [selected |-> c, rejected |-> ids \ {c}]] :
   ps \in (SUBSET Patterns) \ {{}}, ids \in FormedIds, c \in Candidates}

Publish ==
  IF outcome'.status = "promoted" /\ outcome.status # "promoted"
  THEN \E t \in Trees :
         /\ t.decision.selected \in Rev!IdsOf(t.candidates)
         /\ tree' = t /\ work' = t /\ prepared' = t /\ revised' = t
         /\ phase' = "published"
         /\ UNCHANGED <<anchors, todo, reforms>>
  ELSE UNCHANGED treeVars

Formation == Form!Next /\ Publish

(* The run of pull that formed the series is over, and its locals are gone: *)
(* the next ones review the series and have its author revise it.          *)
Return ==
  /\ stage = "ended" /\ phase = "published"
  /\ phase' = "reviewed"
  /\ provided' = FALSE /\ refusals' = <<>> /\ completed' = <<>>
  /\ candidates' = <<>> /\ evaluated' = <<>>
  /\ front' = "absent" /\ background' = "absent" /\ abandoned' = FALSE
  /\ UNCHANGED <<stage, outcome, tree, anchors, todo, work, prepared, revised, reforms>>

Revising == Rev!Next /\ UNCHANGED formVars

ApproachNext ==
  \/ Formation
  \/ Return
  \/ Revising

ApproachSpec == ApproachInit /\ [][ApproachNext]_approachVars

-----------------------------------------------------------------------------
(* "A retry must change the odds or stop": while a step goes on asking, no *)
(* two consecutive refusals share a defect, so that no attempt is made     *)
(* after one that ignored its feedback (RejectionRetryState in every loop). *)
RetriesChangeTheOdds == Form!RetriesChangeTheOdds

(* "precedent failures keep their original priority over approach          *)
(* needs_work results" (produce_patch_series).                             *)
PrecedentFailureFirst == Form!PrecedentFailureFirst

(* "Warmed-lane writes must land before the process exits": a request that *)
(* is answered leaves no background build running that was not waited for  *)
(* and named (_drain_background_precedent_builds).                         *)
NoStragglers == Form!NoStragglers

(* "Candidate regeneration invalidates COVERAGE, never emptiness": every    *)
(* reform that commits a decision gives it an evaluation of each candidate, *)
(* but for those that the tree before it had left blank, as the provided   *)
(* approach is (_reform_decision_evaluations).                             *)
DecisionHasItsBasis == [][Rev!BasisKept]_approachVars

(* "any open objection anchor pruned without a declared replacement is     *)
(* named": after every committed reform, what an open objection anchors is *)
(* still in the tree, or the ledger names what replaces it                 *)
(* (_revision_continuity_violations).                                      *)
AnchorsAnswered == [][Rev!AnchorsKept]_approachVars
=============================================================================
