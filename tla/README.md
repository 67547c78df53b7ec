# Formal models of the AI Org

The repository turns a request into merged code through an organisation of
language-model workers whose state is one Git repository: branches, refs, tags
and worktrees.  What can go wrong between processes that share such a
repository — races between a read and a compare-and-swap, kills between two Git
commands, one process's commit landing in another's branch, a series that is
taken for ever or never — is hardly reached by unit tests, and is what these
TLA+ modules model, check with TLC and, in part, prove with TLAPS.

## The system

| part | state | operations | interacts with |
|---|---|---|---|
| mailing list (`ai_org/mailing_list.py`) | branch `ai-org/list`, one commit per mail; a cursor ref per reader | `ensure_list`, `post`, `read`, `advance_cursor` | posted to by review, gate, harvest and contributors |
| inbox (`patchwork_queue/submit.py`, `_pull_inbox`) | request files, `processed/`, `refs/ai-org/request-outcomes` | `submit`, dequeue, `_mark_processed` | feeds intake |
| pull worker (`patchwork_queue/__init__.py`) | none of its own: Git logs decide | one item per run: inbox, author revision, review, network stages | review, receive, gate |
| review (`patchwork_queue/review.py`) | round records and marker commits on a series branch, serial tags | one round: judge, record, mark, tag, mail | git wrapper, mailing list |
| receive (`patchwork_queue/receive.py`) | series branches | `form_technical_approach` in ten steps, promotion, `reform_patch_series` | carriers, precedent store, review |
| patch-series gate (`patch_series_gate.py`) | node manifests, ledgers and markers on a series branch | refine, elaborate, rebaseline, revalidate, escalate, offers | mailing list, seat |
| announcements, submission (`patch_author/`) | one announcement ref per author and address on the remote, contribution branches | announce, withdraw, evaluate, submit | gate, contributors |
| acceptance judge (`functional_check.py`) | verdict commits, seals in the authority notes | `acceptance_pull`, `check` | contribution branches, series |
| list contributor | a reader cursor | `take_open_offers` | mailing list, announcements |
| code worker | contribution branches, experience reports | per-item authoring | series branches |
| subsystem seat (`ai_org/subsystem.py`) | `ai-org/subsystem`, `ai-org/mainline`, the default branch, worktrees | `accept_leaf`, `handoff_series` | contribution branches, gate |
| precedent store | SQLite file, a ledger of search times with its lock | look up, build, deprecate, from threads of several processes | receive, review |
| carrier execution (`codex_exec`, `codex_reset`) | none but the sessions of the external program | bounded retries, resumed sessions, waits for usage limits | every judging stage |
| body codec, schemas, gadgets, graphicist, judge, log | none that binds | pure functions, observability | everyone |

What is hard: there are no locks.  `launch.py` detaches a worker per request;
families of contributors compete on purpose; mutual exclusion is whatever Git
gives — an atomic `update-ref` with an old value, a branch being checked out in
one worktree only — and a kill may come between any two commands.  Each hazard
found in the code is in `PROJECT.json` with its line and the properties that
would catch it.

What makes each part correct:

- *list*: append-only, one QA mail per item, unique message ids, calls that land
  at most once and answer the truth, cursors that stay on the list and never go
  back, giving up only because others got ahead;
- *inbox*: a request stays until it is answered, an id means one request, a
  series holds one request, every submitted request is processed;
- *forming*: an attempt that ignored its feedback is the last one, the failure of
  a lane is seen, no lane outlives the call unnoticed;
- *revision*: what an open objection is about stays or is replaced by something
  that is there, a decision rests on evaluations of all its candidates;
- *carrier*: interrupted work is resumed and never abandoned for a fresh session,
  an announced reset is met, the call ends;
- *series*: reviews and revisions take turns up to the cap, a verdict stands on
  the text it judged, a first verdict is reached;
- *gate*: a child is ready only when what it depends on is merged, an escalation
  stands until a reviewed rebaseline answers it, an accepted series is reopened by
  an escalation only and accepted again only on a new version, what is pending
  does not wait for ever, no node is offered twice;
- *offers and announcements*: a family never passes an offer it did not announce
  for, the two coordinates of an announcement never coexist, an announced promise
  owns its branch;
- *contributions*: published branches are never rewritten, verdicts of the judge
  and their seals come one to one, stand on complete results and are about the
  series as it is, and everything submitted is judged;
- *seat*: merges lose nothing, `ok` means merged, a record contains its leaves
  and is written once;
- *deliberation*: a direction is not settled over a blocking objection to the
  author; what was deferred is answered by the patch, and nothing else is asked of it;
- *precedent store*: the rate of searches holds across processes, no finding (a
  snippet distilled from a source) is banked twice, every build ends.

## Modules

| module | models | state ↔ code |
|---|---|---|
| `MailLog` | what the list promises: an atomic log with calls `Ask`, `Deliver`, `AlreadyThere`, `Refuse` | `log` is the list, `asked`/`told` the call and its answer |
| `MailingList` | `post`, `ensure_list`, `advance_cursor`, one action per Git command | `head`, `cursor` are the refs; `expected`, `tries`, `target` the locals; `pc` the command a call stands before |
| `Intake` | `submit`, `_next_id`, the inbox part of `pull`, promotion to a branch through the shared working tree | `inbox`, `processed`, `results` are the files, `outcomes` the outcome refs, `branches` and `head` the repository; `sub`, `job` the locals |
| `Carrier` | one call of `run_with_reset_retries`: attempts, the two budgets, sessions, waits against the clock | `clock` is the local time, `resume` the session the next attempt resumes, `resets` and `transients` the budgets used, `target` the end of a wait, `runs` the attempts so far |
| `Forming` | `produce_patch_series`: grounding, the steps of the approach with their retries, the precedent thread and the background build, promotion, the drain | `stage`, `refusals`, `completed` are the locals of the call, `front` and `background` the two other lanes |
| `Revision` | `reform_patch_series`: affected steps, whole and targeted, the prepared cohort, continuity gate, reconciliation, commit | `tree` is the approach on the branch, `work`, `prepared`, `revised` the three copies the code holds of it, `anchors` what open objections are about |
| `Approach` | `Forming` and `Revision` composed: the tree one publishes is where the other begins | the variables of both; `Publish` is the promotion, `Return` the end of the run of `pull` that formed the series |
| `Direction` | what becomes of an objection: `_run_patch_series_review` after the reviewers, the requester's demotion, the deferrals and routed questions of `reform_patch_series`, the questions in `code_worker.py` and in the judge | `record` is the latest round record, `ledger` the deferrals of the latest delta, `assumed` the assumptions in the cover, `questions` the file of questions, `patch[w]` the brief and the result of a worker |
| `PatchSeries` | `pull`, review rounds, author revision as a whole, `commit_files`, serials, experience reports | `log[b]`, `rounds[b]`, `reports[b]` are history and tree of branch b, `tags` the serials, `onto` what the one working tree has checked out |
| `LeafNetwork` | `refine`, `elaborate`, `escalate`, `rebaseline`, `revalidate_stale`, their publication and `pull`'s choice between them, on one series | `state` and `tree` are the series branch, its markers and its newest tree: `tree.child` the node manifests, `tree.ledger`, `tree.rounds` the review records; `edition` and `written` say which manifests were last changed with the newest ledger; `plan` is what the approach is partitioned into; `task` the locals of a call with the tree it has prepared; `onto`, `index` the main working tree |
| `OfferRing` | `take_open_offers`, `announce`, `withdraw`, the first push of `submit` | `cursor`, `taken` are on the list; `ann` the canonical and the alias ref of a family for an address, `published` the contribution branches; `announced` is history |
| `Contribution` | announcing, driving, `submit` and `address_feedback` in author clones; `acceptance_pull` and `check` of the judge | `remote` and `local` are a contribution branch in the canonical repository and in each clone, `notes` the authority notes with the seals; `seen` what `submit` read, `job` what a judge has frozen |
| `SubsystemSeat` | `accept_leaf`, `handoff_series` | `commits` is the object store, `branch` the refs, `worktrees` the registered worktrees, `job` the locals of a call |
| `PrecedentStore` | building a term: look-up, the cache, the rate of searches, banking, deprecation, creation of the tables | `store` says which tables exist, `research`, `active`, `cache` are their rows; `ledger` and `holder` the file of search times and its lock; `granted` is history |
| `MC*` | the instances for TLC | |
| `*_proofs` | theorems; `PatchSeries_proofs` also has those about `Approach`, `PrecedentStore_proofs` those about `Carrier`, `OfferRing_proofs` those about `Direction` | |

In `MailingList` and `PatchSeries` a commit *is* the sequence of entries from the
root to it: Git names a commit by a hash over its content and its parent, so two
commits are the same exactly when those histories are, and "is an ancestor" is
"is a prefix".  `SubsystemSeat` has merges and therefore a commit store, in which a
commit carries its ancestors (`anc`) and its first-parent history (`line`).

Names of actions follow the functions; where a function is several Git commands
it is several actions, because other processes run in between.  The definitions
named in `PROJECT.json` under `map` give the lines each one stands for.
Definitions marked *mutant* are plausible slips in that code, used to see that a
property would notice them; no specification uses them.

## Runs

- **list** (`List.cfg`).  Two processes post, some of it about one patch item, share
  a reader's cursor, and are killed anywhere.  The retry limit (`_APPEND_ATTEMPTS`),
  4 in the code, is 2, so that one poster can exhaust it against the other.  Shows that the protocol
  implements `MailLog`, in particular that a call lands at most once, and that a
  post gives up only after others have posted.  Locks of refs are never busy here:
  with `LockTimeouts` a post may give up on a quiet list, which is what the
  time-out is for; the theorems cover it.
- **intake** (`Intake.cfg`).  Three requests of one slug, submitted one after the
  other, and one worker; two faults, which may be kills of a submission or of the
  worker or a failed publication, so that a retry can fail as well.  Three are
  enough for a file that was moved, one that is being answered and one that takes
  an id meanwhile.  `Serial` is TRUE: two submissions of one slug at the same
  moment choose one id and the second overwrites the first; `OriginHead` is TRUE:
  without `origin/HEAD` a worker that was killed on a series branch makes the next
  series start there.  No document rules out either, so neither is a finding.
- **series_pull** (`PatchSeries_pull.cfg`).  One worker, killed and started again
  anywhere, two series, a cap of 3 rounds (enough for a first, a middle and a
  last round).  Two series are the least for one to hold up the other.
- **network** (`LeafNetwork.cfg`).  A pull worker and one caller of `escalate` and
  `revalidate_stale`, at any moment, also in the middle of a review, and kills
  anywhere; two children.  An approach is partitioned into one child on top of the
  other, or into a split that words the first anew, widens the second and frees it,
  or is refused; a plan of one component, which makes a network without children and
  which `rebaseline` refuses, is left to the theorems.  (Edges between children,
  which `_normalize_split` keeps and validates, are never made by today's
  `_partition_plan_graph`; that a split drops a child is left to the theorems.)
  Two escalations: a child can be stale twice, and be escalated again when it is
  blocked or after a rebaseline.  The cap is 2 rounds: a series that has been
  escalated is at the cap, where a review ends in direction-ok or nak, and a first
  escalation at the initial round leaves one review below it.  What the properties
  exempt is named in them: an escalation published while a review is under way
  (`crossed`), a commit of an index that lags behind the branch (`Lagging`), and a
  rebaseline that can never be made (`Refused`).  What happens there is in the notes
  below.
- **offers** (`OfferRing.cfg`).  Two families with a process and a reader name
  each, two offers: one at whose address one family has an older announcement,
  one of a producer-aware series; a kill and a withdrawal anywhere.  So names
  collide, an alias is transferred, and a promise is met by its own repetition.
  `announce` refuses an offer for as long as the series is not in the clone
  (`take_open_offers` does not fetch it), the producer's readiness is closed, its
  promise or manifest is invalid, or an older announcement does not pass: these are
  `refused`, hold for one family and offer from the start, and one of them may turn
  in either direction (`MaxTurns`).  A remote that cannot be reached is left out.
- **contribution** (`Contribution.cfg`).  Two producer branches with an author
  each and two judges; four and two commits by authors (promise, work and repair
  on the first), a series commit that may close the gate, a kill.  Two branches
  are needed for the seals of one to race with those of the other.  `Synced` is
  TRUE: an author brings the published branch over before a repair.  A tip is
  admissible when it is the last commit that changed the result, which a repair need
  not be: a branch with a tip that is not is never settled and holds up what follows
  it, and `JudgeSettles` exempts both.
- **precedents** (`PrecedentStore.cfg`).  Two processes build one term twice
  between them, for either kind or both, on a store that does not exist yet; one
  slot in a window of two ticks, so that the second search of a build, too, waits;
  a kill and a deprecation anywhere.  Of one source a model may distil either of two
  snippets; the same source with another snippet is another finding.
- **seat** (`SubsystemSeat.cfg`).  Two maintainers and an integrator, kills, a
  series of two leaves and another that shares one of them.  Four contributions
  and acceptances may be begun: two leaves from start to acceptance, or one leaf
  sent back and accepted again; merges and records are not bounded.
- **carrier** (`Carrier.cfg`).  A day of six ticks and a call made in its last
  one, so that every attempt may run over midnight; attempts that take no time or
  half a day; one reset and one transient retry; a reset announced up to two ticks
  late or three ahead; two sessions, the second for a carrier that starts over.
- **approach** (`Approach.cfg`).  One request, provided or not, from forming to its
  second reform.  Forming has the three attempts per node of the code, three defects
  and two kinds of candidates, and lanes that end in any order.  The trees that the
  reforms start from are those forming publishes, the one of a provided approach with
  its only candidate and no evaluation included; up to two patterns, three
  candidates' ids, objections at any two nodes, targeted answers of up to two items;
  two reforms, so that the second works on what the first has left.  Symmetry in
  patterns and in candidates is sound: no property names one, none is a liveness
  property.
- **revision_commits** (`Revision_commits.cfg`).  `Revision` alone, from every tree it
  may find, with one reform; refutes a comment of the code, see the next section.
- **direction** (`Direction.cfg`).  Two names, up to three rounds, two objections a
  round with different names, one question an author may close, two checks, one
  worker.  Refutes what the consolidation is told of a verdict, see the next section;
  three steps suffice: a round, a reform, a round.  With `FreshIds` (no reviewer takes
  a name that stands for another objection) the property holds on this instance, and
  is proved for all.

Deadlock checking is off in all runs: callers need not call again, and bounded
instances come to rest.  The type invariants are proved (below) for `MailingList`,
`Intake`, `Contribution`, `PrecedentStore`, `SubsystemSeat`, `LeafNetwork`, `Carrier`, `Direction`
and, with one worker on a clone, `PatchSeries`; those of the other modules are there for
the reader.

### Where code and documents disagree

*The tree that is committed is not the tree that was judged*
(**revision_commits**).  `receive.py:4272` has the continuity gate judge a reformed
tree "BEFORE anything is committed".  The cohort for the commit is prepared before
the gate (`receive.py:4237`); the gate may ask once for successors of what
disappeared and writes them onto its copy of the tree, which then passes.  The files
committed (`receive.py:4329`) are those of the cohort: the decision on the branch
names a rejected candidate that is gone and that nothing in the tree replaces.  The
ledger beside it does record the replacement, which is why `AnchorsAnswered` holds.

*What was settled for one objection is applied to another of the same name*
(**direction**).  An objection of the requester's is recorded in the cover as an
assumption, under the id its reviewer chose.  `_with_assumption_status`
(`review.py:1734`) sets every objection whose id is recorded there, in this round or
a later one, to `assumption_recorded`, whatever its authority.  Rounds are blank:
reviewers are not shown earlier ids, and the lint asks only that an id is not empty
(`review.py:1405`).  So a blocking objection to the author that takes such an id
leaves the list of open ones, and the verdict is direction-ok, although
`review.py:1252` has "direction-ok means zero open blocking objections" and
`tests/test_patch_series_review.py:658` expects such an objection to stay open.
`BlockersBlockByName` shows that the reused name is the only way there.

### Behaviours that no run asks about

The models have the following behaviours too; the runs above exclude them by a
parameter or say nothing of them.  Where a document says otherwise, it is named.

- *Two workers.*  `commit_files` checks a branch out in the shared working tree
  and commits to whatever is checked out a few commands later.  With two workers,
  which `launch.py` may start, `PatchSeries` has commits on the wrong branch.
- *Serials.*  A worker killed between marker and tag leaves a terminal series that
  nothing tags again, and the serial its marker names is given to the next one.
- *Experience reports* are committed only to accepted series, and `pull()` skips
  series whose newest marker is direction-ok before it looks for reports
  (`patchwork_queue/__init__.py:53`), so that none re-enters the reform loop that
  `code_worker.py:1480` names.
- *Repairs.*  A clone reads the feedback of a blocked verdict from the remote and
  repairs its own copy of the branch, which lacks the verdict commit; `submit` then
  finds a divergent branch (`submission.py:79`).  Nothing in `code_worker.py` brings
  the published branch over; `Contribution` has this under `Synced = FALSE`.
  A repair writes its result anew and commits with `--allow-empty`
  (`code_worker.py:2095`, `2316`).  A result that comes out as it was is not touched by
  that commit, and the judge, which asks for the last commit of that path
  (`functional_check.py:367`), refuses the tip as a mismatch in every later pass; the
  branches behind it wait until another commit changes the result.
- *Resets near midnight.*  An announced time that has just passed is read as today's
  while within the grace (`codex_reset.py:116`), later as tomorrow's.
- *Blank evaluations.*  A candidate that has no evaluation is assembled with an
  empty one, which counts as an evaluation in every later reform
  (`receive.py:5088`).
- *Two hand-offs of one series at once*, with an acceptance in between, write two
  records: the record is asked for before the worktree is taken and not again.
- *Escalations during a review.*  The gate moves a series branch with `update-ref`
  and leaves working tree and index alone.  An escalation published between
  checkout and commit of a review is reverted by that commit, whose index lags.  One
  published before the checkout takes the number of the round under review: the
  review's record then replaces its own, and the child stays blocked with nothing left
  to answer.  Or its record stays, and the verdict, which knew nothing of it, counts
  as the review that a rebaseline waits for.
- *Rebaselines that are refused.*  `rebaseline` refuses a plan of one component
  (`patch_series_gate.py:2010`) and whatever the splitter refuses, and its own input
  when the newest escalation does not invalidate anything, as one of a blocked child
  with the same evidence.  The branch does not move, so that `pull()` finds the same
  rebaseline pending in every later run, prefers it to elaborations, and none is made:
  the escalation stays unanswered and children whose dependencies are merged wait,
  until another escalation reopens the series.
- *Network.*  `pull()` passes branch names only to `stale_revalidation_pending`, so
  stale children come back only when somebody calls `revalidate_stale` with their
  address.  A child that a rebaseline drops keeps its manifest.  A sibling that no
  transition rewrote since the ledger changed is not made stale by an escalation.  A
  kill between the elaborated child and its offer loses the offer.
- *Offers.*  Two families that keep the default reader name share a cursor and
  hide offers from each other.  A family that was killed between the announcement
  of a promise and the cursor is refused at that offer on every later pass; so is one
  to which any of the lasting refusals of `announce` applies.  The offers behind it
  wait as long.
- *Store.*  Two builds of a term that read one source and distil different snippets
  from it bank two active candidates of that source
  (`engineering_precedent_store.py:2955`).  Of two first accesses that create the tables one fails, and its build
  with it.  What the ledger limits is the times it grants; the search that follows
  may start later.
- *Series without a record.*  `handoff_series` merges the whole subsystem tree.
  Every other series whose leaves went along is then answered `already-current`
  (`subsystem.py:172`), and mainline has no record of it, against README.md:83.
- *Questions.*  An id that is already on the list of questions is not entered again
  (`review.py:2338`): a second deferral of that name keeps the check of the first.
  A routed question is named by the first 48 characters of its text
  (`receive.py:6712`); a second that begins alike is dropped.  A regrounded cover is
  written by a model and may lose assumptions recorded earlier: only those of the
  latest round are entered again (`receive.py:4169`).  A repair carries the outcomes
  of the earlier result over without running the checks (`code_worker.py:2307`).
- *Seat.*  Mainline may hold accepted leaves of a series that is not complete, and
  a kill inside a worktree leaves it registered, in the way of every later call.

## Fairness

- `PatchSeries!LiveSpec`: weak fairness of a worker's steps: a worker that is
  started goes on.  Strong fairness of coming to a verdict, of a revision that passes and of
  checkout and commit: models are asked again and again, and not every run is
  killed at the same place.  The code cannot promise this of a model; the
  property says that *given* it, one series does not starve another.

- `LeafNetwork!LiveSpec`: weak fairness of the worker as a whole, returning without a
  result included (`pull` is run again and again), and strong fairness of answers
  (some verdict, a revision, a plan that can be applied, an elaboration), of the
  publication of what the worker has prepared and of checkout, add and commit: it
  finishes now and then before it is killed or a caller moves the branch.  A plan that
  is refused is no answer and stays refused: the liveness properties name that case
  (`Refused`).  None for callers, kills or merges.
- `Intake!Spec`: weak fairness of submissions under way and of the worker; none for
  kills.  `OfferRing!Spec`, `Contribution!Spec`: weak fairness of the processes of
  families, and of judges, who are run again and again; none for authors, series,
  withdrawals, kills and the end of a refusal.
- `PrecedentStore!Spec`: weak fairness of the clock and of each thread.  Weak
  fairness suffices for the lock although others may take it again: the wait for
  it is bounded by a time-out, which ends the build.
- `Carrier!FairCallSpec`: weak fairness of the whole: the loop is one thread, the
  external program ends and the clock goes on.
- None for `MailingList`, `SubsystemSeat`, `Approach` and `Direction`, of which only safety is
  asked.

## Proofs

The theorems hold for all values of the constants that meet the named assumptions
of the modules: any number of processes, readers, offers, branches, any bounds.

**Mailing list** (`MailingList_proofs`; from `MailsAssumption`,
`AttemptsAssumption`, `BoundsAssumption`).  The inductive core is
`TypeOK /\ CallsWellFormed`: a call is about a mail or about a cursor, as its
program counter says.  On it rest
- `HistoryAppendOnly` — the only step that moves the list is the publishing swap,
  and it appends (`HeadStep`);
- `QaOnce` — needs `ExpectedKnown`: what a poster past its scan expects the head
  to be is on the list and lacks its item, so a swap that succeeds adds the first;
- `MessageIds` — a mail's number is its place; `CursorsStayOnList`,
  `CursorsNeverBack` — what an advance expects and writes are both on the list,
  the one before the other;
- `Implements` — `MailingList` implements `MailLog`.  A call that begins is `Ask`,
  a swap that publishes is `Open` or `Deliver`, coming back without one is
  `FindOpen`, `AlreadyThere` or `Refuse`, a return or a kill is `Drop`, everything
  else a stutter.  The invariant it needs, `LogInv`, says that nobody holds an answer
  before it is done.  It follows that a call lands at most once, which an invariant
  would have to count;
- `GivingUp` — each failed attempt is matched by an entry somebody else added
  since the call began; `HonestReplies` — an answer names an entry of the right mail.

**Intake** (`Intake_proofs`, from `IntakeAssumption`).  Types hold whoever runs at
once.  That an id means one request (`OneRequestPerId`) assumes `Serial`: inductive
is that the id a submission listed, chose or opened is nobody else's (`IdsFree`),
that a file is in one directory (`Apart`), that a submitted request has one file
(`OneFile`), and that jobs and outcomes are about the request of their file
(`JobsFiled`, `OutcomesFiled`).  That series hold one request (`SeriesApart`) assumes
one worker and `OriginHead`: a branch that was named is still free when it is made,
and empty and checked out when it is committed to (`Building`).  From all three:
a request is answered before its file is moved (`NothingDropped`, with `Unmoved` and
`AnswerFirst`), and a second series of it costs a fault (`SeriesCostFaults`): `Counted`
allows one series more than there were faults only to a request that is through.

**Contributions** (`Contribution_proofs`).  Published branches are never rewritten;
verdicts and seals come one to one; a verdict stands on a complete result; a
judged commit was admissible where it was judged.  The invariant is the
conjunction of these with `TypeOK` and `VerdictsShared`: a verdict in any clone is
in the canonical repository, so what an author pushes cannot bring in one nobody
sealed.

**Offers** (`OfferRing_proofs`).  The two coordinates of an announcement are never
both live (`CoordinatesDisjoint`), an announced promise is kept by its owner
(`PromisesKept`), and, assuming `ReadersApart` (no two families share a cursor), no
family passes an offer it did not announce for (`NothingPassedUnannounced`).
`RingInv` says that a family that pushes an announcement removes the alias it has
seen and nothing creates one (`AliasesGone`), that a promise is announced together
with its branch and by the same family (`PromisesOwned`), and that a branch is
published once (`NamesOnce`); `PassInv` adds that the offers behind a cursor were
announced before it moved (`PassAnnounces`).  The types (`OffersTyped`) say more
than they look: a producer numbers its branch past those it knows, so that it always
finds a free name, which with any number of families needs that they are finite.

**Precedent store** (`PrecedentStore_proofs`).  In no window are more searches
granted than the limit, over all threads of all processes.  The invariant
`RateInv`: the ledger is the recent part of the history of grants, whoever is between
reading and writing it holds the lock, and its copy is the ledger's.  The
difficulty is that time passes while a thread holds a copy: a tick drops the same
entries from ledger, copy and history.  From `TypeOK` also: of one snippet of one
source a term has one active candidate at most (`CandidatesApart`), whoever banks.

**Seat** (`SubsystemSeat_proofs`, from `LeavesAssumption`, `ProcsAssumption`,
`TreesAssumption`: leaves, trees and processes have distinct names).  Any number of
maintainers and integrators, any number of kills.  The invariant `SeatInv` is a
chain: commits never change and `subsystem`, `mainline` and the default branch only
grow (`Grows`); a call inside a worktree has the tip of its branch checked out,
because it alone holds that worktree (`Exclusive`, `CheckedOut`); hence a merge
loses nothing (`MergesLoseNothing`).  What accepting calls have merged and the
default branch lie on one line of the subsystem history (`Lined`), so that a default
branch that does not contain a merge can be forwarded to it, and one that cannot
contains it already (`OkMeansMerged`).  The tips a hand-off has read are in the trees
it merges and stay there (`TipsRead`, with `OwnCommits` and `SubsystemFirst`), which
gives `RecordsHold`.  `OneRecordPerSeries` assumes `OneIntegrator`: records are
reachable from mainline only (`RecordsOnMainline`) and the one about to be written
is not on it yet (`Unrecorded`); with two integrators it is false, see the notes
above.

**Deliberation** (second part of `OfferRing_proofs`; what reviewers raise has the form of the
schema).  Any number of names, rounds, objections a round, and workers.
`DeferralInv` links the branch to the patches: a deferral that a round accepted is
on the list of questions (`Kept`), nobody works on a series whose direction may
still change (`WorkAfterDirection`), so that the list a patch was accepted against
is the list there is (`AnswersAll`); this gives `NothingForgotten`.  `NothingImposed`
assumes that objections and routed questions have different names, which the prefix
of the latter sees to unless a reviewer writes it.  `Bounded` needs that a series
that is sent back has rounds left (`RoundsLeft`).  `BlockersBlockByName` assumes
`FreshIds`; without it the property is false, see the second finding.

**Series** (`PatchSeries_proofs`).  For any number of series and reports and any cap.
All of it is under `Alone`: one worker at a time, on a clone that has `origin/HEAD`.
That is the run's setting and not a convenience: with two workers each of these
properties fails, because both commit through one working tree (see the notes
above).  A history is `Turning` when reviews and revisions take turns on it with the
right numbers; the difficulty is that a worker decides on what it has read and
commits many steps later.  `AtWork` says that what it selected is still so: the
series is undecided, its newest marker is the one it saw, the text it judged is all
there is, and at the commit the branch that is checked out is the one meant.  With
`Recorded` (every round has a record, about the text before it) this gives
`TurnsTaken` and `VerdictsJudged`.

**Forming and revising** (`PatchSeries_proofs`, about `Approach` and so about both
halves of it; from `ApproachAssumption` and `NoneAssumption`).  For any defects, attempts, patterns,
candidates and number of reforms.  `FormInv` says where the caller stands in the
order of the steps (`Ordered`), what it will return (`Settled`), how far its two
lanes have come (`Laned`) and that no two refusals in a row share a defect
(`Retried`): whoever is past the join has the design precedents, so the failure of
a step never hides theirs (`PrecedentsComeFirst`), and a background build needs
them, so a result without a drain leaves none behind (`NoneLeftRunning`).
`RevInv` is about the copies of the tree: what is committed was assembled from the
work, what the gate judges may differ by a reconciliation, and both have the same
items, which is why what an objection is about is there or replaced
(`AnchorsAreAnswered`) although the committed tree is not the one judged.  `Basis`:
the decision is formed last, over the evaluations of the tree and the candidates of
the work, and neither changes afterwards (`BasisIsKept`).  After any number of reforms
the branch has one evaluation of each candidate and none of one that is gone, although
the work of a reform holds both too many and too few (`EvaluatedOnce`).  Where the
two halves meet, `Formed` and `Handed` say what has been formed after each step: a
tree that forming hands over has every step in order and an evaluation of each of
the candidates it weighed, unless it was provided (`PublishedInFull`), and that is
the tree revising starts from.

**Network** (`LeafNetwork_proofs`; from `ChildrenAssumption`, `SplitsAssumption`: no
split has a cycle).  Whatever callers do and whoever is killed, in the middle of a
review or not.  `NetInv`: every tree there is (of the branch, in the index, prepared
by a process, however old) is `Sound` for what is merged, and merges only add to
that.  Hence children are ready in the order of their dependencies (`ReadyInOrder`)
even where the commit of a review reverts an escalation, and are offered once
(`OffersUnique`).  `OrderInv` is about the numbers of rounds: in every such tree
what the ledger answers is on record and reviewed (`Settled`), a successor whose frozen
commit is still the head follows the tree it replaces (`Frozen`), the index has no
escalation beyond the rounds of the branch (`Behind`), a review under way comes after
every escalation that did not cross it (`InReview`), and so an accepted direction had
a review after each of these (`Concluded`).  That gives `LedgersReviewed` and
`EscalationsStand`.  `AcceptInv` adds that an escalation that is prepared has a number
above all rounds (`Fresh`), so that one that comes in during a review is among those
that cross it (`AtIssue`): an acceptance is undone by an escalation only, and not
renewed without a new version or such a crossing (`AcceptancesStand`).  The crossings
and the lagging commit are exempted by the properties themselves, because the code
does not exclude them; there is no assumption on when callers call.

**Carrier** (second part of `PrecedentStore_proofs`, from `CarrierAssumption`,
`NothingAssumption`).  For any length of a day, grace, retries and sessions.  The
loop's variables agree with the attempts made: the session that would be resumed is
the one named last (`SessionKept`), what is waited for is what the last attempt
calls for (`ResetsMet`), and the two budgets count the attempts (`Budgeted`, hence
`AttemptsBounded`).  That an announced time of day is read as the instant that was
meant, midnight or not, is arithmetic (`Midnights`, `AnnouncementRead`).

Some theorems state more than the runs ask, about the same modules: unique message
ids, cursors that stay on the list, honest replies (`MailingList`), verdicts that
follow from results (`Contribution`), promises that hold their name (`OfferRing`),
one series per request (`Intake`), a published approach that is complete and
evaluations that stay one to a candidate (`Approach`).  No run checks these, nor the
theorems of `Direction` other than the one the finding is about; TLC has confirmed
the invariants of `Approach` and `Direction` on the instances of **approach** and
**direction**.

Every invariant and every action property that a passing run checks is also a
theorem.  Only model-checked: all liveness (fairness and `ENABLED` are out of the
prover's reach).  Of the trees of `Revision` the form, the evaluations and the
decision are proved, not which items its steps leave (that no step leaves two of one
id is how the module chooses them).  What a recursive definition computes for every
input is not provable with the installed provers; the ancestors and first-parent line of a commit are therefore fields that
a new commit computes from those of its parents.

## Not modelled

- *Texts.*  Prompts, model answers and their wording; a judgement is a free choice
  among its outcomes.  The body codec, CUE and JSON schemas, the structure gadgets,
  the graphicist and the validation of single fields in `receive.py` and
  `review.py` are pure functions of text: TLC would check them on strings that do
  not occur.  They are most of the lines.
- *Observation.*  The run log and `launch.py`, which starts detached processes and
  keeps no state of its own.
- *`maintainer_merge.py`*, still in the tree, superseded by the seat
  (README.md:87).
- *Within modelled parts.*  `PatchSeries` takes add and commit of a file as one
  step and ends with a verdict: it leaves out the gate's commits on accepted series,
  also the escalations that reopen one (they are in `LeafNetwork`).  `LeafNetwork` has
  one series, one level of children, and neither
  the checks of a patchwork, conditions of dependencies, nor retries of the
  splitter.  `SubsystemSeat` resolves leaves by ancestry, not by sealed evidence.
  `Forming` says of a failed step which it was and how it ended, not the defect
  that exhausted its attempts.  `Revision` keeps patterns, candidates, evaluations
  and the decision; links, risks and defenses are left
  out (questions and requester assumptions are `Direction`'s), so is a step that leaves two items of one id.
  `Direction` takes the objections of a round as consolidated, and leaves out
  experience reports, which reach only accepted series.
  `Intake` has one slug, on which its ids collide.  `PrecedentStore` leaves out the
  paraphrases of a term, the migration of older files and the switch that turns
  reading off.  The slots for producer transitions in `submit.py` are filled by tests
  only.

What is left out of these is text handling or repeats a protocol that is modelled
elsewhere.
