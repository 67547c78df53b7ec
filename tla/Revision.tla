------------------------------ MODULE Revision ------------------------------
(***************************************************************************)
(* How an author revises a Technical Approach after a review:              *)
(* receive.reform_patch_series.  The steps that the open blocking          *)
(* objections anchor are formed again, each as a whole or, when a minority *)
(* of its items is anchored, item by item; what disappears is to name its  *)
(* successor.  The assembled tree is prepared for publication, then judged *)
(* by the continuity gate, which may ask once for the missing successors,  *)
(* and committed.                                                          *)
(*                                                                         *)
(* Of the tree the module keeps what is named by identity: the patterns of *)
(* the prior art, the candidates with their evaluations, and the decision, *)
(* which names every candidate.  The other steps refer to nothing here.    *)
(* What carriers write is a free choice, restricted in one way: no step    *)
(* leaves two items of one id.                                             *)
(***************************************************************************)
EXTENDS Naturals, Sequences, FiniteSets, FiniteSetsExt, SequencesExt

CONSTANTS
  Patterns,      \* the ids that patterns may get (slugs of their names)
  Candidates,    \* the ids that candidates may get
  Kinds,         \* candidates that a whole step generates
  MaxFragments,  \* items that a targeted answer holds at most
  MaxReforms,    \* reforms that are committed
  MaxAnchors,    \* nodes that the objections of one review anchor
  None           \* no id; the evaluation that was never made

VARIABLES
  tree,      \* the approach on the series branch
  anchors,   \* what the open blocking objections anchor
  stage,     \* where the series and its reform stand
  todo,      \* affected steps that are still to run
  work,      \* the components as the steps so far left them
  prepared,  \* what the preparation fixed for publication
  revised,   \* the tree that the gate judges
  reforms    \* how many were committed

reform == <<todo, work, prepared, revised>>
vars   == <<tree, anchors, stage, reform, reforms>>

(* A pattern or a candidate: the id it declares to replace, and those that *)
(* a reconciliation wrote onto it (replaces, reconciled_replaces).         *)
Item(id, follows) == [id |-> id, follows |-> follows, reconciled |-> {}]

IdsOf(items)   == {i.id : i \in items}
Distinct(items) == Cardinality(IdsOf(items)) = Cardinality(items)

Known(t) == IdsOf(t.patterns) \cup IdsOf(t.candidates)

(* _REVISION order of the steps; "question" is the container of the        *)
(* candidates, and a decision is anchored as a whole.                      *)
StepOrder == <<"prior_art", "candidates", "decision">>

Affected(t, a) ==
  {s \in ToSet(StepOrder) :
     \/ s = "prior_art"  /\ a \cap IdsOf(t.patterns) # {}
     \/ s = "candidates" /\ a \cap (IdsOf(t.candidates) \cup {"question"}) # {}
     \/ s = "decision"   /\ "decision" \in a}

NextStep == StepOrder[Min({i \in DOMAIN StepOrder : StepOrder[i] \in todo})]

-----------------------------------------------------------------------------
(* The evaluation of a candidate: the reform that made it, 0 for the       *)
(* formation, None for the blank one that assembly puts where none is.     *)

EvaluatedBy(evals) == {e.of : e \in evals}

Fresh(ids) == {[of |-> c, judged |-> reforms + 1] : c \in ids}

(* Mutant: an empty matrix, not an incomplete one, asks for evaluations.   *)
RefreshedWhenEmpty(evals, ids) == IF evals = {} THEN Fresh(ids) ELSE evals

(* _reform_decision_evaluations: surviving evaluations are kept, dead ones *)
(* pruned, and only candidates without one are evaluated.                  *)
Refreshed(evals, ids) ==
  IF EvaluatedBy(evals) = ids THEN evals
  ELSE {e \in evals : e.of \in ids} \cup Fresh(ids \ EvaluatedBy(evals))

(* _assemble_from_components: evaluations hang on their candidates.        *)
Assembled(c) ==
  LET ids == IdsOf(c.candidates) IN
  [c EXCEPT !.evals = {e \in c.evals : e.of \in ids}
                        \cup {[of |-> x, judged |-> None] : x \in ids \ EvaluatedBy(c.evals)}]

-----------------------------------------------------------------------------
(* The continuity gate.                                                    *)

Declarations(t) ==
  UNION {{[old |-> x, new |-> i.id] : x \in (i.reconciled \cup {i.follows}) \ {None}} :
           i \in t.patterns \cup t.candidates}

(* _revision_delta_record: the replacements that are recorded beside the   *)
(* tree are those of the tree that passed the gate.                        *)
Ledger == Declarations(revised)

Replaced(t) == {d.old : d \in Declarations(t)}

References(t) == {t.decision.selected} \cup t.decision.rejected

(* Anchored items.  "question" stays, and a decision whose id moves with   *)
(* the selection is replaced by derivation.                                *)
AnchoredItems == anchors \ {"question", "decision"}

(* _revision_continuity_violations.                                        *)
Violations(t) == (References(t) \cup AnchoredItems) \ (Known(t) \cup Replaced(t))

Family(t, x) == IF x \in Patterns THEN IdsOf(t.patterns) ELSE IdsOf(t.candidates)

(* _with_reconciled_replacements.                                          *)
Reconciled(t, successor) ==
  LET Onto(items) ==
        {[id |-> i.id, follows |-> i.follows,
          reconciled |-> i.reconciled \cup {x \in DOMAIN successor : successor[x] = i.id}] :
           i \in items}
  IN  [t EXCEPT !.patterns = Onto(@), !.candidates = Onto(@)]

-----------------------------------------------------------------------------
Init ==
  /\ \E ps \in (SUBSET Patterns) \ {{}}, cs \in SUBSET Candidates : \E c \in cs :
       /\ Cardinality(cs) = Kinds
       /\ tree = [patterns   |-> {Item(p, None) : p \in ps},
                  candidates |-> {Item(x, None) : x \in cs},
                  evals      |-> {[of |-> x, judged |-> 0] : x \in cs},
                  decision   |-> [selected |-> c, rejected |-> cs \ {c}]]
  /\ anchors = {} /\ stage = "reviewed" /\ todo = {}
  /\ work = tree /\ prepared = tree /\ revised = tree
  /\ reforms = 0

(* A review leaves blocking objections, anchored at nodes of the tree.     *)
Review(a) ==
  /\ stage = "reviewed" /\ reforms < MaxReforms
  /\ a # {} /\ Cardinality(a) <= MaxAnchors
  /\ anchors' = a
  /\ stage' = "open"
  /\ UNCHANGED <<tree, reform, reforms>>

(* reform_patch_series reads the tree; the steps follow from the anchors,  *)
(* not from what the steps before them will change.                        *)
Begin ==
  /\ stage = "open"
  /\ stage' = "revising"
  /\ todo' = Affected(tree, anchors)
  /\ work' = tree
  /\ UNCHANGED <<tree, anchors, prepared, revised, reforms>>

StepDone(c) ==
  /\ work' = c
  /\ todo' = todo \ {NextStep}
  /\ UNCHANGED <<tree, anchors, stage, prepared, revised, reforms>>

Running(step) == stage = "revising" /\ todo # {} /\ NextStep = step

(* _targeted_revision_plan: item by item when items, no container, and no  *)
(* more than half of the committed items are anchored.                     *)
Targets(items) == anchors \cap IdsOf(items)

Targeted(items) ==
  Targets(items) # {} /\ 2 * Cardinality(Targets(items)) <= Cardinality(items)

(* _parse_targeted_fragments: an item stands in for a target in place, or  *)
(* declares to replace it.                                                 *)
Fragments(items, ids) ==
  {Item(x, None) : x \in Targets(items)}
    \cup {Item(x, t) : x \in ids, t \in Targets(items)}

(* _merge_step_fragments, one fragment: a target is taken out, whether or  *)
(* not it is still there.                                                  *)
Merge(items, f) ==
  {i \in items : i.id # IF f.follows = None THEN f.id ELSE f.follows} \cup {f}

Merged(items, fragments) == FoldLeft(Merge, items, fragments)

Answers(items, ids) ==
  UNION {[1..n -> Fragments(items, ids)] : n \in 0..MaxFragments}

RevisePatterns ==
  /\ Running("prior_art") /\ Targeted(tree.patterns)
  /\ \E f \in Answers(tree.patterns, Patterns) :
       LET items == Merged(work.patterns, f)
       IN  Distinct(items) /\ StepDone([work EXCEPT !.patterns = items])

(* _build_prior_art_map as a revision: any patterns, any declarations.     *)
RebuildPatterns ==
  /\ Running("prior_art") /\ ~Targeted(tree.patterns)
  /\ \E ids \in (SUBSET Patterns) \ {{}} : \E f \in [ids -> Patterns \cup {None}] :
       StepDone([work EXCEPT !.patterns = {Item(x, f[x]) : x \in ids}])

ReviseCandidates ==
  /\ Running("candidates") /\ Targeted(tree.candidates) /\ "question" \notin anchors
  /\ \E f \in Answers(tree.candidates, Candidates) :
       LET items == Merged(work.candidates, f)
       IN  Distinct(items) /\ StepDone([work EXCEPT !.candidates = items])

(* _generate_candidates: one of each kind, all of different ids.           *)
RegenerateCandidates ==
  /\ Running("candidates")
  /\ ~Targeted(tree.candidates) \/ "question" \in anchors
  /\ \E ids \in SUBSET Candidates : \E f \in [ids -> Candidates \cup {None}] :
       /\ Cardinality(ids) = Kinds
       /\ StepDone([work EXCEPT !.candidates = {Item(x, f[x]) : x \in ids}])

(* The decision step: the evaluations are brought up to the candidates,    *)
(* and _select_approach selects one and rejects all others.                *)
Decide ==
  /\ Running("decision")
  /\ LET ids == IdsOf(work.candidates) IN
     \E c \in ids :
       StepDone([work EXCEPT !.evals = Refreshed(@, ids),
                             !.decision = [selected |-> c, rejected |-> ids \ {c}]])

(* The preparation of the cohort that will be published.                   *)
Prepare ==
  /\ stage = "revising" /\ todo = {}
  /\ prepared' = Assembled(work)
  /\ revised' = prepared'
  /\ stage' = "gate"
  /\ UNCHANGED <<tree, anchors, todo, work, reforms>>

(* The one reconciliation round: each violation gets a successor of its    *)
(* family, or is said to have none.                                        *)
Reconcile ==
  /\ stage = "gate" /\ Violations(revised) # {}
  /\ \E successor \in [Violations(revised) -> Known(revised) \cup {None}] :
       /\ \A x \in DOMAIN successor : successor[x] \in Family(revised, x) \cup {None}
       /\ revised' = Reconciled(revised, successor)
  /\ stage' = "reconciled"
  /\ UNCHANGED <<tree, anchors, todo, work, prepared, reforms>>

(* Mutant: what the reconciliation answers is not judged again.            *)
CommitReconciled ==
  /\ \/ stage = "gate" /\ Violations(revised) = {}
     \/ stage = "reconciled"
  /\ tree' = prepared
  /\ reforms' = reforms + 1
  /\ stage' = "reviewed" /\ anchors' = {} /\ todo' = {}
  /\ work' = tree' /\ prepared' = tree' /\ revised' = tree'

(* The commit: the files of the prepared cohort, with the Ledger.          *)
Commit ==
  /\ stage \in {"gate", "reconciled"} /\ Violations(revised) = {}
  /\ tree' = prepared
  /\ reforms' = reforms + 1
  /\ stage' = "reviewed" /\ anchors' = {} /\ todo' = {}
  /\ work' = tree' /\ prepared' = tree' /\ revised' = tree'

(* needs_work: a step or the preparation failed, the reconciliation did,   *)
(* or left violations; nothing is committed, and the next pull begins      *)
(* anew.  A kill has the same effect.                                      *)
NeedsWork ==
  /\ \/ stage = "revising"
     \/ stage \in {"gate", "reconciled"} /\ Violations(revised) # {}
  /\ stage' = "open" /\ todo' = {}
  /\ work' = tree /\ prepared' = tree /\ revised' = tree
  /\ UNCHANGED <<tree, anchors, reforms>>

Next ==
  \/ \E a \in SUBSET (Known(tree) \cup {"question", "decision"}) : Review(a)
  \/ Begin
  \/ RevisePatterns
  \/ RebuildPatterns
  \/ ReviseCandidates
  \/ RegenerateCandidates
  \/ Decide
  \/ Prepare
  \/ Reconcile
  \/ Commit
  \/ NeedsWork

Spec == Init /\ [][Next]_vars

-----------------------------------------------------------------------------
Committed == reforms' # reforms

Blank(t) == {e.of : e \in {e \in t.evals : e.judged = None}}

(* "Candidate regeneration invalidates COVERAGE, never emptiness" (memento *)
(* in _reform_decision_evaluations): a decision that a reform commits has  *)
(* an evaluation of every candidate, those that survived unchanged, unless *)
(* an earlier reform had left the candidate blank.                         *)
BasisKept ==
  Committed /\ "decision" \in Affected(tree, anchors) =>
    /\ Blank(tree') \subseteq Blank(tree)
    /\ \A e \in tree'.evals : e \in tree.evals \/ e.judged = reforms'

(* "any open objection anchor pruned without a declared replacement is     *)
(* named": when a reform is committed, every item that an objection anchors *)
(* is still in the tree, or the ledger names one that is and replaces it.  *)
AnchorsKept ==
  Committed =>
    \A x \in AnchoredItems :
      \/ x \in Known(tree')
      \/ \E d \in Ledger : d.old = x /\ d.new \in Known(tree')

(* "A reformed tree whose node-id references [...] no longer resolve (and  *)
(* were not declared replaced)" is never committed: the decision on the    *)
(* branch names candidates of the tree, or such as the tree declares to    *)
(* have replaced.                                                          *)
CommittedTreeResolves ==
  References(tree) \subseteq Known(tree) \cup Replaced(tree)
=============================================================================
