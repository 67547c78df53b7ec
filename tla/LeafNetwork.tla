---------------------------- MODULE LeafNetwork ----------------------------
(***************************************************************************)
(* The network of child nodes that the gate grows on an accepted series    *)
(* (patch_series_gate): refine splits the series into children, elaborate  *)
(* makes a child ready when what it depends on is merged, escalate blocks  *)
(* a child whose parent scope proved wrong and sends the series back to    *)
(* author and reviewers, rebaseline replaces the split once the new        *)
(* direction is accepted, and revalidate_stale takes the other children    *)
(* along or blocks them.                                                   *)
(*                                                                         *)
(* Each of these functions reads one frozen commit of the series branch,   *)
(* computes a whole successor tree and publishes it by one update-ref that *)
(* requires the branch to be still there.  Reviews and revisions of the    *)
(* same series commit differently: git_wrapper.commit_files commits the    *)
(* index of the working tree that has the branch checked out.  Puller runs *)
(* pull() on the series, Callers are processes that call escalate and      *)
(* revalidate_stale with the address of a child, as implementers do; what  *)
(* they do before the commit is frozen changes nothing.                    *)
(*                                                                         *)
(* Abstracted: one series; texts (a child's contract is its scope, its     *)
(* dependencies and a wording); edges other than "depends on the merge     *)
(* of", which _normalize_split keeps and validates and today's splitter,   *)
(* _partition_plan_graph, never puts between two children; the horizon is  *)
(* 1; every child has one piece of evidence against its parent.  An        *)
(* integration of the series into the default branch is SubsystemSeat's.   *)
(***************************************************************************)
EXTENDS Naturals, Sequences, SequencesExt, FiniteSets, FiniteSetsExt

CONSTANTS
  Children,        \* keys of nodes, in their sorted order
  Splits,          \* what plans may be partitioned into: key -> contract
  Puller, Callers, \* processes
  MaxRounds,       \* AI_ORG_RFC_MAX_REVIEW_ROUNDS
  MaxEscalations   \* bound on escalations

ASSUME ChildrenAssumption == Children \subseteq Nat \ {0}
ASSUME SplitsAssumption ==  \* no child depends on itself, at any remove
  \A s \in Splits :
    /\ DOMAIN s \subseteq Children
    /\ \A k \in DOMAIN s : s[k].deps \subseteq {d \in DOMAIN s : d < k}
ASSUME BoundsAssumption == MaxRounds \in Nat \ {0} /\ MaxEscalations \in Nat
ASSUME CallersAssumption == Puller \notin Callers

VARIABLES
  state,      \* what the markers among the subjects of the branch make of it
  tree,       \* the tree of the newest commit of the branch
  edition,    \* how many commits of the branch changed the ledger
  written,    \* the edition each manifest was last changed with or after
  plan,       \* what its approach is partitioned into, {} if that is refused
  onto,       \* is the series branch checked out in the working tree?
  index,      \* the tree in the index of that working tree
  pc, task,   \* where process p stands, and its locals
  back,       \* was the branch checked out when Puller began to commit?
  released,   \* children that have been ready for patch authors
  resolved,   \* children whose contribution is merged into the subsystem
  offers,     \* offers on the mailing list, by node
  escalated,  \* how many escalations were published
  crossed     \* history: escalations published while a review was under way

branchVars == <<state, tree, edition, written, plan, released, escalated, crossed>>
worktreeVars == <<onto, index, back>>
vars == <<branchVars, worktreeVars, pc, task, resolved, offers>>

Procs == {Puller} \cup Callers
Plans == {{}} \cup {{s} : s \in Splits}
Invalidated == "blocked:parent-invalidated"
Changed == "blocked:parent-rebaseline-changed"
Lifecycles == {"posted", "ready", "stale", Invalidated, Changed}
States == {"direction-ok", "needs-revision", "v", "nak"}
Judging == {"review", "direction-ok", "needs-revision", "nak"}

NoLedger == [made |-> FALSE, from |-> 0, entry |-> <<>>]
NoTree == [child |-> <<>>, ledger |-> NoLedger, rounds |-> {}]
Idle == [kind |-> "none", node |-> 0, round |-> 0, last |-> FALSE,
         current |-> FALSE, tree |-> NoTree, subject |-> "none"]

TypeOK ==
  /\ state \in States
  /\ DOMAIN tree.child \subseteq Children /\ DOMAIN tree.ledger.entry = DOMAIN tree.child
  /\ \A k \in DOMAIN tree.child :
       /\ tree.child[k].status \in Lifecycles
       /\ tree.child[k].previous \in Lifecycles \cup {"none"}
       /\ tree.child[k].deps \subseteq DOMAIN tree.child
       /\ written[k] \in 0..edition
  /\ edition \in Nat /\ escalated \in Nat
  /\ \A r \in tree.rounds : r.n \in Nat /\ r.of \in Children \cup {0} /\ r.whole \in BOOLEAN
  /\ plan \subseteq Splits /\ crossed \subseteq Nat
  /\ onto \in BOOLEAN /\ back \in BOOLEAN
  /\ pc \in [Procs -> {"idle", "chosen", "publish", "scan", "post",
                       "checkout", "add", "commit", "restore"}]
  /\ \A p \in Procs : task[p].current \in BOOLEAN /\ task[p].node \in Children \cup {0}
  /\ resolved \subseteq released /\ released \subseteq Children
  /\ offers \in Seq(Children)

\* The series has been accepted in a first round of review.
Init ==
  /\ state = "direction-ok"
  /\ tree = [NoTree EXCEPT !.rounds = {[n |-> 1, of |-> 0, whole |-> TRUE]}]
  /\ edition = 0 /\ written = <<>> /\ plan \in Plans
  /\ onto = FALSE /\ back = FALSE /\ index = NoTree
  /\ pc = [p \in Procs |-> "idle"]
  /\ task = [p \in Procs |-> Idle]
  /\ released = {} /\ resolved = {}
  /\ offers = <<>> /\ escalated = 0 /\ crossed = {}
-----------------------------------------------------------------------------
\* A nak anywhere, else the newest marker (_current_patch_series_state); that of an
\* escalation is a needs-revision.
Marked(subject) ==
  IF state = "nak" THEN "nak"
  ELSE IF subject = "escalated" THEN "needs-revision"
  ELSE IF subject \in States THEN subject ELSE state

Escalations == {r \in tree.rounds : r.of # 0}
LatestEscalation == CHOOSE r \in Escalations : \A o \in Escalations : o.n <= r.n
NextRound == Max({0} \cup {r.n : r \in tree.rounds}) + 1

SplitPending ==
  /\ state \in {"direction-ok", "nak"} /\ ~tree.ledger.made

RebaselinePendingInAnyState ==  \* mutant: an escalation is enough
  /\ tree.ledger.made /\ Escalations # {}
  /\ tree.ledger.from # LatestEscalation.n
RebaselinePendingOnce ==  \* mutant: a second escalation is not looked for
  /\ state = "direction-ok" /\ tree.ledger.made /\ Escalations # {}
  /\ tree.ledger.from = 0
RebaselinePending ==
  /\ state = "direction-ok" /\ tree.ledger.made /\ Escalations # {}
  /\ tree.ledger.from # LatestEscalation.n

\* Children whose dependencies are all merged (eligible).
CoarseReady ==
  {k \in DOMAIN tree.child : /\ tree.child[k].status = "posted"
                             /\ tree.child[k].deps \subseteq resolved}

NextItemUnlessNak ==  \* mutant: nothing more for a refused series
  IF state = "needs-revision" THEN "reform"
  ELSE IF state = "v" THEN "review"
  ELSE IF SplitPending THEN "refine"
  ELSE IF RebaselinePending THEN "rebaseline"
  ELSE IF state = "direction-ok" /\ CoarseReady # {} THEN "elaborate"
  ELSE "none"

NextItemOverHead ==  \* mutant: a needs-revision at the head does not keep reviewers off
  IF state \in {"needs-revision", "v"} THEN "review"
  ELSE IF SplitPending THEN "refine"
  ELSE IF RebaselinePending THEN "rebaseline"
  ELSE IF CoarseReady # {} THEN "elaborate"
  ELSE "none"

\* The item pull() takes from the series, by its order of preference.
NextItem ==
  IF state = "needs-revision" THEN "reform"
  ELSE IF state = "v" THEN "review"
  ELSE IF SplitPending THEN "refine"
  ELSE IF RebaselinePending THEN "rebaseline"
  ELSE IF CoarseReady # {} THEN "elaborate"
  ELSE "none"

\* Children cut from the ledger that an escalation supersedes: not blocked, and
\* last written by a commit that has the newest ledger (_nodes_with_ledger_commit).
Cohort(node) ==
  {k \in DOMAIN tree.child \ {node} :
     /\ tree.child[k].status \notin {Invalidated, Changed}
     /\ written[k] = edition}

\* What the ledger says of the children, refreshed with every publication: the
\* manifest, but for stale children the contract proposed to them
\* (_complete_network_unit).
Projection(m) == [status |-> m.status, scope |-> m.scope, deps |-> m.deps]
Entries(child, proposed) ==
  [k \in DOMAIN child |->
     IF child[k].status = "stale" /\ k \in DOMAIN proposed
     THEN proposed[k] ELSE Projection(child[k])]

\* The manifest of a child of a new split: without dependencies it is ready.  A
\* child notes which commit made it stale or let it come back.
Formed(c) ==
  [status |-> IF c.deps = {} THEN "ready" ELSE "posted", previous |-> "none",
   scope |-> c.scope, deps |-> c.deps, text |-> c.text, noted |-> 0]

\* The head of the branch moves to a new tree.
Land(new, subject) ==
  /\ tree' = new /\ state' = Marked(subject)
  /\ edition' = IF new.ledger = tree.ledger THEN edition ELSE edition + 1
  /\ written' = [k \in DOMAIN new.child |->
                   IF k \in DOMAIN tree.child /\ new.child[k] = tree.child[k]
                   THEN written[k] ELSE edition']
  /\ released' = released \cup {k \in DOMAIN new.child : new.child[k].status = "ready"}

Goto(p, label) == pc' = [pc EXCEPT ![p] = label]

\* The call returns, raises or is killed; its locals are gone.
Stop(p) == Goto(p, "idle") /\ task' = [task EXCEPT ![p] = Idle]

\* A successor tree is prepared against the commit it was computed from.
Prepared(p, child, proposed, from, rounds, subject) ==
  /\ task' = [task EXCEPT ![p].current = TRUE, ![p].subject = subject,
       ![p].tree = [child |-> child, rounds |-> rounds,
                    ledger |-> [made |-> TRUE, from |-> from,
                                entry |-> Entries(child, proposed)]]]
  /\ Goto(p, "publish")
  /\ UNCHANGED <<branchVars, worktreeVars, resolved, offers>>
-----------------------------------------------------------------------------
\* pull() selects; a review reads its round number and the cap as it begins.
Select ==
  /\ pc[Puller] = "idle" /\ NextItem # "none"
  /\ task' = [task EXCEPT ![Puller] = [Idle EXCEPT !.kind = NextItem,
                !.node = IF NextItem = "elaborate" THEN Min(CoarseReady) ELSE 0,
                !.round = NextRound, !.last = Cardinality(tree.rounds) >= MaxRounds]]
  /\ Goto(Puller, "chosen")
  /\ UNCHANGED <<branchVars, worktreeVars, resolved, offers>>

\* What was chosen no longer applies at the frozen commit, a model has no
\* acceptable answer, or a check raises: nothing is written.
GiveUp ==
  /\ pc[Puller] = "chosen"
  /\ Stop(Puller)
  /\ UNCHANGED <<branchVars, worktreeVars, resolved, offers>>

\* Children of a new split, but stale ones as they are; children that it does
\* not have stay in the tree, too.
Replace(s, from) ==
  LET child == [k \in DOMAIN s \cup DOMAIN tree.child |->
        IF k \notin DOMAIN s \/ (k \in DOMAIN tree.child /\ tree.child[k].status = "stale")
        THEN tree.child[k] ELSE Formed(s[k])] IN
  Prepared(Puller, child, [k \in DOMAIN s |-> Projection(Formed(s[k]))], from,
           tree.rounds, "network")

\* refine: a plan of one component makes a network without children.
Refine(s) ==
  /\ pc[Puller] = "chosen" /\ task[Puller].kind = "refine" /\ ~tree.ledger.made
  /\ s \in plan
  /\ Replace(s, 0)

\* What rebaseline refuses on every pull, until the author writes another plan: one
\* that cannot be partitioned or has one component, and an escalation whose commit
\* does not pass for it.
Rebaselines(s) == s \in plan /\ s # <<>> /\ LatestEscalation.whole
Rebaseline(s) ==
  /\ pc[Puller] = "chosen" /\ task[Puller].kind = "rebaseline"
  /\ RebaselinePending /\ Rebaselines(s)
  /\ Replace(s, LatestEscalation.n)

\* elaborate: the child is still ready for it at the frozen commit.
Elaborate ==
  LET k == task[Puller].node IN
  /\ pc[Puller] = "chosen" /\ task[Puller].kind = "elaborate" /\ k \in CoarseReady
  /\ Prepared(Puller, [tree.child EXCEPT ![k].status = "ready"], tree.ledger.entry,
              tree.ledger.from, tree.rounds, "network")

\* escalate: the child is blocked, its cohort stale, and a synthetic round of
\* review objects to the series.  That record counts as whole when the commit
\* changes each of those manifests (_validate_escalation_containing_commit).
Escalate(c, k) ==
  LET child == [j \in DOMAIN tree.child |->
                  IF j = k THEN [tree.child[j] EXCEPT !.status = Invalidated]
                  ELSE IF j \notin Cohort(k) THEN tree.child[j]
                  ELSE [tree.child[j] EXCEPT !.status = "stale", !.noted = edition,
                          !.previous = IF tree.child[j].status = "stale" THEN @
                                       ELSE tree.child[j].status]]
      whole == \A j \in Cohort(k) \cup {k} : child[j] # tree.child[j] IN
  /\ pc[c] = "idle" /\ state # "nak" /\ k \in DOMAIN tree.child
  /\ escalated < MaxEscalations
  /\ Prepared(c, child, tree.ledger.entry, tree.ledger.from,
              tree.rounds \cup {[n |-> NextRound, of |-> k, whole |-> whole]}, "escalated")

\* Mutant of Revalidate: always made ready.
RevalidateToReady(c, k) ==
  LET m == tree.child[k]
      now == [m EXCEPT !.status = "ready", !.previous = "none", !.noted = edition] IN
  /\ pc[c] = "idle" /\ k \in DOMAIN tree.child /\ m.status = "stale"
  /\ Prepared(c, [tree.child EXCEPT ![k] = now], tree.ledger.entry, tree.ledger.from,
              tree.rounds, "network")

\* revalidate_stale: back to where it was if the ledger proposes the same scope
\* and dependencies, blocked otherwise.
Revalidate(c, k) ==
  LET m == tree.child[k]
      proposed == tree.ledger.entry[k]
      same == m.scope = proposed.scope /\ m.deps = proposed.deps
      now == IF same
             THEN [m EXCEPT !.status = m.previous, !.previous = "none", !.noted = edition]
             ELSE [m EXCEPT !.status = Changed] IN
  /\ pc[c] = "idle" /\ k \in DOMAIN tree.child /\ m.status = "stale"
  /\ Prepared(c, [tree.child EXCEPT ![k] = now], tree.ledger.entry, tree.ledger.from,
              tree.rounds, "network")

UnderReview == task[Puller].kind \in Judging
Crossing(p) ==
  IF task[p].subject = "escalated" /\ UnderReview
  THEN {r.n : r \in task[p].tree.rounds \ tree.rounds} ELSE {}
Outdated == [q \in Procs |-> [task[q] EXCEPT !.current = FALSE]]
Released(p) ==
  /\ Land(task[p].tree, task[p].subject)
  /\ escalated' = escalated + IF task[p].subject = "escalated" THEN 1 ELSE 0
  /\ crossed' = crossed \cup Crossing(p)
  /\ IF task[p].kind = "elaborate" THEN Goto(p, "scan") /\ task' = Outdated
     ELSE Goto(p, "idle") /\ task' = [Outdated EXCEPT ![p] = Idle]
  /\ UNCHANGED <<plan, worktreeVars, resolved, offers>>

PublishAnyway(p) == pc[p] = "publish" /\ Released(p)  \* mutant: no old value required

\* update-ref with the frozen commit as old value: the successor is released,
\* or the branch has moved and the call raises.
Publish(p) ==
  /\ pc[p] = "publish"
  /\ \/ task[p].current /\ Released(p)
     \/ /\ ~task[p].current
        /\ Stop(p) /\ UNCHANGED <<branchVars, worktreeVars, resolved, offers>>

ScanNothing ==  \* mutant: earlier offers are not looked for
  /\ pc[Puller] = "scan"
  /\ Goto(Puller, "post") /\ UNCHANGED task
  /\ UNCHANGED <<branchVars, worktreeVars, resolved, offers>>

\* elaborate goes on to announce the child on the list, unless it is there ...
Scan ==
  /\ pc[Puller] = "scan"
  /\ IF task[Puller].node \in Range(offers) THEN Stop(Puller)
     ELSE Goto(Puller, "post") /\ UNCHANGED task
  /\ UNCHANGED <<branchVars, worktreeVars, resolved, offers>>

\* ... and a post that fails is only logged.
Post ==
  /\ pc[Puller] = "post"
  /\ offers' \in {offers, Append(offers, task[Puller].node)}
  /\ Stop(Puller)
  /\ UNCHANGED <<branchVars, worktreeVars, resolved>>
-----------------------------------------------------------------------------
\* Reviewers come to a verdict, which at the cap is not another revision; the
\* author to a new version.  Either is then committed by commit_files.
Judge(v) ==
  /\ pc[Puller] = "chosen" /\ task[Puller].kind = "review"
  /\ task' = [task EXCEPT ![Puller].kind =
                IF task[Puller].last /\ v = "needs-revision" THEN "nak" ELSE v]
  /\ Goto(Puller, "checkout")
  /\ UNCHANGED <<branchVars, worktreeVars, resolved, offers>>

Revise ==
  /\ pc[Puller] = "chosen" /\ task[Puller].kind = "reform"
  /\ task' = [task EXCEPT ![Puller].kind = "v"]
  /\ Goto(Puller, "checkout")
  /\ UNCHANGED <<branchVars, worktreeVars, resolved, offers>>

\* Checking out a branch that is checked out leaves the index alone.
Checkout ==
  /\ pc[Puller] = "checkout"
  /\ back' = onto /\ onto' = TRUE
  /\ index' = IF onto THEN index ELSE tree
  /\ Goto(Puller, "add")
  /\ UNCHANGED <<branchVars, task, resolved, offers>>

\* The files of this round are added: a review's record, the author's version.
Add ==
  LET t == task[Puller] IN
  /\ pc[Puller] = "add"
  /\ index' = IF t.kind = "v" THEN index
               ELSE [index EXCEPT !.rounds = {r \in @ : r.n # t.round}
                                     \cup {[n |-> t.round, of |-> 0, whole |-> TRUE]}]
  /\ Goto(Puller, "commit")
  /\ UNCHANGED <<branchVars, onto, back, task, resolved, offers>>

\* The tree of the commit is the index.
Commit ==
  LET t == task[Puller] IN
  /\ pc[Puller] = "commit"
  /\ Land(index, t.kind)
  /\ IF t.kind = "v" THEN plan' \in Plans ELSE UNCHANGED plan
  /\ Goto(Puller, "restore")
  /\ task' = Outdated
  /\ UNCHANGED <<escalated, crossed, worktreeVars, resolved, offers>>

\* Git does not leave a branch whose files have changed under the index.
Restore ==
  LET stays == back \/ index.child # tree.child \/ index.ledger # tree.ledger IN
  /\ pc[Puller] = "restore"
  /\ onto' = stays /\ back' = FALSE
  /\ index' = IF stays THEN index ELSE NoTree
  /\ Stop(Puller)
  /\ UNCHANGED <<branchVars, resolved, offers>>

\* A process is killed.
Crash(p) ==
  /\ pc[p] # "idle"
  /\ Stop(p)
  /\ back' = IF p = Puller THEN FALSE ELSE back
  /\ UNCHANGED <<branchVars, onto, index, resolved, offers>>

\* The seat merges the contribution to a child that was once ready; of interest
\* are those that another child may depend on.
Resolve(k) ==
  /\ k \in released \ resolved
  /\ \E s \in Splits : \E j \in DOMAIN s : k \in s[j].deps
  /\ resolved' = resolved \cup {k}
  /\ UNCHANGED <<branchVars, worktreeVars, pc, task, offers>>

Pull ==
  \/ Select \/ (\E s \in Splits : Refine(s) \/ Rebaseline(s)) \/ Elaborate \/ Publish(Puller)
  \/ Scan \/ Post \/ (\E v \in {"direction-ok", "needs-revision", "nak"} : Judge(v))
  \/ Revise \/ Checkout \/ Add \/ Commit \/ Restore

CallerStep(c) ==
  \/ \E k \in DOMAIN tree.child : Escalate(c, k) \/ Revalidate(c, k)
  \/ Publish(c)

Next ==
  \/ Pull
  \/ \E c \in Callers : CallerStep(c)
  \/ GiveUp \/ \E p \in Procs : Crash(p)
  \/ \E k \in Children : Resolve(k)

Spec == Init /\ [][Next]_vars

\* pull() is run again and again and returns; models that are asked often enough
\* come to an answer; kills do not hit every time.  A plan that refine or rebaseline
\* refuses is refused for ever: no fairness helps there.
Answer ==
  \/ (\E v \in {"direction-ok", "needs-revision", "nak"} : Judge(v)) \/ Revise
  \/ (\E s \in Splits : Refine(s) \/ Rebaseline(s)) \/ Elaborate
LiveSpec ==
  /\ Spec /\ WF_vars(Pull \/ GiveUp) /\ SF_vars(Answer) /\ SF_vars(Publish(Puller))
  /\ SF_vars(Checkout) /\ SF_vars(Add) /\ SF_vars(Commit)
-----------------------------------------------------------------------------
\* "Elaborate a requested child once its declared dependencies are satisfied":
\* no child is open to patch authors, or can come back as such when it is
\* revalidated, before everything it depends on is merged -- whatever splits,
\* escalations and rebaselines came between (elaborate, _normalize_split).
ReadyAfterItsDependencies ==
  \A k \in DOMAIN tree.child :
    LET m == tree.child[k] IN
    m.status = "ready" \/ (m.status = "stale" /\ m.previous = "ready")
      => m.deps \subseteq resolved

\* "The parent direction and network ledger must be re-authored before ...": a
\* ledger that answers an escalation was accepted by a review after it
\* (_pending_escalation_rebaseline_record_from_source), except one that was
\* published while a review was under way, whose verdict is taken for an answer.
RebaselinedAfterReview ==
  tree.ledger.from # 0 =>
    \/ tree.ledger.from \in crossed
    \/ \E r \in tree.rounds : r.of = 0 /\ r.n > tree.ledger.from

\* An escalation is not lost: the child stays blocked until a rebaseline takes
\* note of a newer round; no transition computed from an older commit undoes it.
\* Only commit_files can, by committing an index that lags behind the branch.
Lagging == pc[Puller] = "commit" /\ index.child # tree.child
EscalationStands ==
  [][\A k \in DOMAIN tree.child :
       tree.child[k].status = Invalidated =>
         \/ tree'.ledger.from > tree.ledger.from
         \/ k \in DOMAIN tree'.child /\ tree'.child[k].status = Invalidated
         \/ Lagging /\ pc'[Puller] = "restore"]_tree

\* An accepted series is reopened by nothing but an escalation, and then accepted
\* again only with a new version on top ("must be re-authored"): pull() selects
\* long before it commits.  A verdict stands, though, when an escalation comes in
\* during its review (_latest_needs_revision_is_head, commit_files).
AcceptanceStands ==
  [][/\ state = "direction-ok" => escalated' > escalated
     /\ state' = "direction-ok" =>
          state = "v" \/ \E n \in crossed : n >= task[Puller].round]_state

\* "this scan only keeps the gate's one announcement per (series, node)".
OneOfferPerNode == \A i, j \in DOMAIN offers : offers[i] = offers[j] => i = j

\* Every escalation that is on record is answered: a rebaseline consumes the newest
\* one, or the series is refused for good, or the rebaseline that pull() chooses is
\* one that can never be made (rebaseline_pending, pull).
Unanswered ==
  state # "nak" /\ \E r \in Escalations : r.n > tree.ledger.from
Refused == RebaselinePending /\ \A s \in Splits : ~Rebaselines(s)
EscalationsAnswered == Unanswered ~> ~Unanswered \/ Refused

\* Children whose dependencies are merged do not wait for ever, unless that
\* rebaseline, which pull() prefers, is in the way (ready_nested_elaboration).
ElaboratedInTime == CoarseReady # {} ~> CoarseReady = {} \/ Refused
=============================================================================
