--------------------------- MODULE SubsystemSeat ---------------------------
(***************************************************************************)
(* The maintainer seat (ai_org/subsystem.py).  accept_leaf merges a        *)
(* contribution branch into the subsystem tree and fast-forwards the       *)
(* default branch to it; handoff_series merges the subsystem tree into     *)
(* mainline when every leaf of a series is resolved.  A branch can be      *)
(* checked out in one worktree only: that is the one mutual exclusion      *)
(* there is.                                                               *)
(*                                                                         *)
(* The object store is a sequence of commits.  A commit knows the commit   *)
(* it is made onto and the one it merges, the sets of its ancestors and of *)
(* its first-parent history (`anc`, `line`), and in `tree` the             *)
(* contributions whose files its tree really holds.  0 is a missing ref.   *)
(*                                                                         *)
(* Abstracted: file contents, the wording of markers and records, the      *)
(* checkouts of commit_empty (see PatchSeries), roots of generation v2     *)
(* (resolved from sealed evidence instead of ancestry), and the manifests  *)
(* that list the leaves of a series.  A leaf that is resolved is in one of *)
(* the trees, so a hand-off always finds a subsystem tip; and mainline is  *)
(* behind the subsystem tree in content, so its merges have no conflicts.  *)
(***************************************************************************)
EXTENDS Naturals, Sequences, FiniteSets

CONSTANTS
  Leaves,         \* contribution branches, in the order of their node paths
  LeavesOf,       \* the leaves of each series
  Maintainers,    \* processes that call accept_leaf
  Integrators,    \* processes that call handoff_series
  Default, Subsystem, Mainline,  \* the trees
  MaxBegun,       \* bound: contributions and acceptances that are begun
  MayCrash        \* may a process be killed?

ASSUME LeavesAssumption ==
  /\ Leaves \subseteq Nat
  /\ \A s \in DOMAIN LeavesOf : LeavesOf[s] \subseteq Leaves /\ LeavesOf[s] # {}
ASSUME BoundAssumption == MaxBegun \in Nat /\ MayCrash \in BOOLEAN
ASSUME ProcsAssumption == Maintainers \cap Integrators = {}
ASSUME TreesAssumption ==
  {Default, Subsystem, Mainline} \cap Leaves = {} /\ Cardinality({Default, Subsystem, Mainline}) = 3

VARIABLES
  commits,    \* the object store
  branch,     \* branch[b]: the commit of branch b, 0 while it does not exist
  fork,       \* fork[l]: the oldest reflog entry of contribution branch l
  worktrees,  \* branches that a registered worktree has checked out
  onDefault,  \* does the main working tree have the default branch?
  pc, job     \* where process p stands, and the locals of its call

repoVars == <<commits, branch, fork, worktrees, onDefault>>
vars == <<repoVars, pc, job>>

Trees == {Default, Subsystem, Mainline}
Series == DOMAIN LeavesOf
Procs == Maintainers \cup Integrators
Oid == 1..Len(commits)
Anc(c) == IF c = 0 THEN {} ELSE commits[c].anc
FirstParents(c) == IF c = 0 THEN {} ELSE commits[c].line

About == Leaves \cup Series \cup {0}
Row == [leaf : Leaves, tip : Nat]
Commit == [kind : {"base", "work", "mark", "accept", "record"}, of : About,
           onto : Nat, merged : Nat, anc : SUBSET Nat, line : SUBSET Nat,
           tree : SUBSET Nat, names : SUBSET Row]

\* of: the leaf or series a commit is about; at: the tip checked out in the
\* worktree of the call; commit: the marker or the subsystem tip it merges;
\* result: the head after the merge; tips: the rows of the hand-off.
Job == [of : About, at : Nat, commit : Nat, result : Nat, todo : SUBSET Leaves,
        tips : SUBSET Row, tree : Trees,
        said : {"nothing", "git_error", "merged", "accepted", "series_incomplete",
                "already-current", "mainline_base_missing", "handed_off"}]
NoJob == [of |-> 0, at |-> 0, commit |-> 0, result |-> 0, todo |-> {}, tips |-> {},
          tree |-> Default, said |-> "nothing"]

TypeOK ==
  /\ commits \in Seq(Commit)
  /\ branch \in [Trees \cup Leaves -> Oid \cup {0}] /\ branch[Default] # 0
  /\ fork \in [Leaves -> Oid \cup {0}]
  /\ worktrees \subseteq Trees /\ onDefault \in BOOLEAN
  /\ pc \in [Procs -> {"idle", "create", "open", "merge", "close", "forward", "advance",
                       "leaves", "lookup", "anchor", "begin", "done"}]
  /\ job \in [Procs -> Job]

Init ==
  /\ commits = <<[kind |-> "base", of |-> 0, onto |-> 0, merged |-> 0, anc |-> {1},
                  line |-> {1}, tree |-> {}, names |-> {}]>>
  /\ \E m \in {0, 1} :
       branch = [b \in Trees \cup Leaves |-> CASE b = Default -> 1
                                               [] b = Mainline -> m
                                               [] OTHER -> 0]
  /\ fork = [l \in Leaves |-> 0]
  /\ worktrees = {}
  /\ onDefault \in BOOLEAN
  /\ pc = [p \in Procs |-> "idle"]
  /\ job = [p \in Procs |-> NoJob]

Goto(p, label) == pc' = [pc EXCEPT ![p] = label]
Say(p, answer) == Goto(p, "done") /\ job' = [job EXCEPT ![p].said = answer]

NewOid == Len(commits) + 1
Begun == Cardinality({c \in Oid : commits[c].kind \in {"work", "mark"}})

\* The next commit: onto a commit, merging another or none (0), with the given
\* contributions in its tree.
Made(kind, of, onto, merged, tree, names) ==
  [kind |-> kind, of |-> of, onto |-> onto, merged |-> merged, tree |-> tree, names |-> names,
   anc |-> {NewOid} \cup Anc(onto) \cup Anc(merged), line |-> {NewOid} \cup FirstParents(onto)]
Write(b, commit) ==
  /\ commits' = Append(commits, commit)
  /\ branch' = [branch EXCEPT ![b] = NewOid]
-----------------------------------------------------------------------------
\* A leaf is resolved: a marker on its branch since the branch was made, and
\* the tip of the branch is in one of the trees.
ResolvedByMarker(l) ==  \* mutant: a marker is taken for a merge
  /\ \E c \in Anc(branch[l]) \ Anc(fork[l]) : commits[c].kind = "mark"
  /\ branch[Subsystem] # 0
Resolved(l) ==
  /\ \E c \in Anc(branch[l]) \ Anc(fork[l]) : commits[c].kind = "mark"
  /\ \E t \in Trees : branch[l] \in Anc(branch[t])

\* The merge that recorded series s on mainline.
RecordedNever(s) == FALSE  \* mutant: the record is not looked for
Recorded(s) ==
  \E c \in FirstParents(branch[Mainline]) : commits[c].kind = "record" /\ commits[c].of = s

\* The first acceptance of leaf tips on the first-parent history of a subsystem
\* tip; none when one of them was not found.
FirstAcceptance(tip, tips) ==
  LET found == {c \in FirstParents(tip) : commits[c].merged \in tips}
  IN {c \in found : /\ {commits[d].merged : d \in found} = tips
                    /\ \A d \in found : c <= d}
-----------------------------------------------------------------------------
\* A contributor starts a branch from the default branch, or adds to it.
Contribute(l) ==
  LET onto == IF branch[l] = 0 THEN branch[Default] ELSE branch[l] IN
  /\ Begun < MaxBegun
  /\ Write(l, Made("work", l, onto, 0, commits[onto].tree \cup {NewOid}, {}))
  /\ fork' = IF branch[l] = 0 THEN [fork EXCEPT ![l] = onto] ELSE fork
  /\ UNCHANGED <<worktrees, onDefault, pc, job>>

\* accept_leaf: the marker goes onto the contribution branch first.
Accept(p, l) ==
  /\ pc[p] = "idle" /\ branch[l] # 0 /\ Begun < MaxBegun
  /\ Write(l, Made("mark", l, branch[l], 0, commits[branch[l]].tree, {}))
  /\ job' = [job EXCEPT ![p].of = l, ![p].commit = NewOid]
  /\ Goto(p, IF branch[Subsystem] = 0 THEN "create" ELSE "open")
  /\ UNCHANGED <<fork, worktrees, onDefault>>

\* git branch ai-org/subsystem <default>: fails when it has come into being.
CreateSubsystem(p) ==
  /\ pc[p] = "create"
  /\ \/ /\ branch[Subsystem] = 0
        /\ branch' = [branch EXCEPT ![Subsystem] = branch[Default]]
        /\ Goto(p, "open")
        /\ UNCHANGED job
     \/ branch[Subsystem] # 0 /\ Say(p, "git_error") /\ UNCHANGED branch
  /\ UNCHANGED <<commits, fork, worktrees, onDefault>>

\* git worktree add: refused while another worktree has the branch.
OpenUnguarded(p) ==  \* mutant: the branch may be checked out twice
  LET t == IF p \in Maintainers THEN Subsystem ELSE Mainline IN
  /\ pc[p] = "open"
  /\ worktrees' = worktrees \cup {t}
  /\ job' = [job EXCEPT ![p].tree = t, ![p].at = branch[t]]
  /\ Goto(p, "merge")
  /\ UNCHANGED <<commits, branch, fork, onDefault>>
Open(p) ==
  LET t == IF p \in Maintainers THEN Subsystem ELSE Mainline IN
  /\ pc[p] = "open"
  /\ \/ /\ t \notin worktrees
        /\ worktrees' = worktrees \cup {t}
        /\ job' = [job EXCEPT ![p].tree = t, ![p].at = branch[t]]
        /\ Goto(p, "merge")
     \/ t \in worktrees /\ Say(p, "git_error") /\ UNCHANGED worktrees
  /\ UNCHANGED <<commits, branch, fork, onDefault>>

\* git merge --no-ff <marker> and the head after it.  A marker that is merged
\* already is "up to date"; contributions that touch one file may conflict.
MergeLeafHeadBefore(p) ==  \* mutant: the head is read before the merge
  /\ pc[p] = "merge" /\ p \in Maintainers
  /\ Write(Subsystem, Made("accept", job[p].of, branch[Subsystem], job[p].commit,
                            commits[job[p].at].tree \cup commits[job[p].commit].tree, {}))
  /\ job' = [job EXCEPT ![p].result = branch[Subsystem], ![p].said = "merged"]
  /\ Goto(p, "close")
  /\ UNCHANGED <<fork, worktrees, onDefault>>
MergeLeaf(p) ==
  LET m == job[p].commit IN
  /\ pc[p] = "merge" /\ p \in Maintainers
  /\ \/ /\ m \notin Anc(branch[Subsystem])
        /\ Write(Subsystem, Made("accept", job[p].of, branch[Subsystem], m,
                                  commits[job[p].at].tree \cup commits[m].tree, {}))
        /\ job' = [job EXCEPT ![p].result = NewOid, ![p].said = "merged"]
     \/ /\ m \in Anc(branch[Subsystem])
        /\ job' = [job EXCEPT ![p].result = branch[Subsystem], ![p].said = "merged"]
        /\ UNCHANGED <<commits, branch>>
     \/ /\ m \notin Anc(branch[Subsystem])
        /\ job' = [job EXCEPT ![p].said = "git_error"]
        /\ UNCHANGED <<commits, branch>>
  /\ Goto(p, "close")
  /\ UNCHANGED <<fork, worktrees, onDefault>>

\* git worktree remove --force, whatever happened in it.
Close(p) ==
  /\ pc[p] = "close"
  /\ worktrees' = worktrees \ {job[p].tree}
  /\ Goto(p, IF job[p].said = "merged" THEN "forward" ELSE "done")
  /\ UNCHANGED <<commits, branch, fork, onDefault, job>>

\* _fast_forward_branch: the ancestry test, and a worktree where the main
\* working tree is elsewhere ...
Forward(p) ==
  /\ pc[p] = "forward"
  /\ \/ /\ branch[Default] \notin Anc(job[p].result) \/ (~onDefault /\ Default \in worktrees)
        /\ Say(p, "git_error")
        /\ UNCHANGED worktrees
     \/ /\ branch[Default] \in Anc(job[p].result)
        /\ onDefault \/ Default \notin worktrees
        /\ worktrees' = IF onDefault THEN worktrees ELSE worktrees \cup {Default}
        /\ job' = [job EXCEPT ![p].tree = Default]
        /\ Goto(p, "advance")
  /\ UNCHANGED <<commits, branch, fork, onDefault>>

\* ... and git merge --ff-only, which leaves a branch that is ahead alone.
Advance(p) ==
  /\ pc[p] = "advance"
  /\ branch' = [branch EXCEPT ![Default] =
       IF @ \in Anc(job[p].result) THEN job[p].result ELSE @]
  /\ job' = [job EXCEPT ![p].said = "accepted"]
  /\ Goto(p, IF onDefault THEN "done" ELSE "close")
  /\ UNCHANGED <<commits, fork, worktrees, onDefault>>
-----------------------------------------------------------------------------
\* handoff_series: the tips of the leaves and whether they are resolved, one
\* leaf after the other.
HandOff(p, s) ==
  /\ pc[p] = "idle"
  /\ job' = [job EXCEPT ![p].of = s, ![p].todo = LeavesOf[s]]
  /\ Goto(p, "leaves")
  /\ UNCHANGED repoVars

ReadLeaf(p) ==
  /\ pc[p] = "leaves"
  /\ \E l \in job[p].todo :
       /\ \A k \in job[p].todo : l <= k
       /\ \/ ~Resolved(l) /\ Say(p, "series_incomplete")
          \/ /\ Resolved(l)
             /\ job' = [job EXCEPT ![p].todo = @ \ {l},
                                   ![p].tips = @ \cup {[leaf |-> l, tip |-> branch[l]]}]
             /\ Goto(p, IF job[p].todo = {l} THEN "lookup" ELSE "leaves")
  /\ UNCHANGED repoVars

\* A record of this series ends the call; otherwise the subsystem tip to merge
\* is read now.
LookUp(p) ==
  /\ pc[p] = "lookup"
  /\ \/ Recorded(job[p].of) /\ Say(p, "already-current")
     \/ /\ ~Recorded(job[p].of)
        /\ job' = [job EXCEPT ![p].commit = branch[Subsystem]]
        /\ Goto(p, "anchor")
  /\ UNCHANGED repoVars

\* A mainline that has the subsystem tip is current; a missing one begins
\* before the first acceptance of the series ...
Anchor(p) ==
  LET tip == job[p].commit
      first == FirstAcceptance(tip, {row.tip : row \in job[p].tips}) IN
  /\ pc[p] = "anchor"
  /\ \/ /\ branch[Mainline] = 0
        /\ \E c \in first : job' = [job EXCEPT ![p].result = commits[c].onto]
        /\ Goto(p, "begin")
     \/ branch[Mainline] = 0 /\ first = {} /\ Say(p, "mainline_base_missing")
     \/ tip \in Anc(branch[Mainline]) /\ Say(p, "already-current")
     \/ /\ branch[Mainline] # 0 /\ tip \notin Anc(branch[Mainline])
        /\ Goto(p, "open") /\ UNCHANGED job
  /\ UNCHANGED repoVars

\* ... git branch ai-org/mainline <base>: fails when it has come into being.
CreateMainline(p) ==
  /\ pc[p] = "begin"
  /\ IF branch[Mainline] = 0
     THEN /\ branch' = [branch EXCEPT ![Mainline] = job[p].result]
          /\ Goto(p, "open")
          /\ UNCHANGED job
     ELSE Say(p, "git_error") /\ UNCHANGED branch
  /\ UNCHANGED <<commits, fork, worktrees, onDefault>>

\* git merge --no-ff <subsystem tip>, with the record as its message; nothing
\* to do when another hand-off has merged that tip meanwhile.
MergeSeries(p) ==
  LET tip == job[p].commit IN
  /\ pc[p] = "merge" /\ p \in Integrators
  /\ IF tip \in Anc(branch[Mainline])
     THEN UNCHANGED <<commits, branch>>
     ELSE Write(Mainline, Made("record", job[p].of, branch[Mainline], tip,
                               commits[job[p].at].tree \cup commits[tip].tree, job[p].tips))
  /\ job' = [job EXCEPT ![p].said = "handed_off"]
  /\ Goto(p, "close")
  /\ UNCHANGED <<fork, worktrees, onDefault>>
-----------------------------------------------------------------------------
Forget(p) == Goto(p, "idle") /\ job' = [job EXCEPT ![p] = NoJob] /\ UNCHANGED repoVars

Return(p) == pc[p] = "done" /\ Forget(p)

\* The process is killed; a worktree it had stays registered.
Crash(p) == MayCrash /\ pc[p] \notin {"idle", "done"} /\ Forget(p)

Next ==
  \/ \E l \in Leaves : Contribute(l)
  \/ \E p \in Maintainers :
       \/ \E l \in Leaves : Accept(p, l)
       \/ CreateSubsystem(p) \/ MergeLeaf(p) \/ Forward(p) \/ Advance(p)
  \/ \E p \in Integrators :
       \/ \E s \in Series : HandOff(p, s)
       \/ ReadLeaf(p) \/ LookUp(p) \/ Anchor(p) \/ CreateMainline(p) \/ MergeSeries(p)
  \/ \E p \in Procs : Open(p) \/ Close(p) \/ Return(p) \/ Crash(p)

Spec == Init /\ [][Next]_vars
-----------------------------------------------------------------------------
\* No merge loses work: every contribution in the history of a tree is in its
\* files, although the tree a maintainer merges into was checked out earlier
\* (_branch_worktree; a branch is checked out in one worktree only).
NothingLost ==
  \A c \in Oid : commits[c].tree = {w \in commits[c].anc : commits[w].kind = "work"}

\* accept_leaf answers ok only when the accepted work is in the subsystem tree
\* and in the default branch, from which successors fork, in whatever order
\* other acceptances merge and fast-forward.
AcceptedMeansMerged ==
  \A p \in Maintainers :
    pc[p] = "done" /\ job[p].said = "accepted" =>
      job[p].commit \in Anc(branch[Subsystem]) \cap Anc(branch[Default])

\* A hand-off names leaf tips it read before the merge: the record it leaves on
\* mainline contains every one of them, accepted by a marker of its own leaf.
RecordsContainTheirLeaves ==
  \A c \in Oid : \A row \in commits[c].names :
    /\ row.tip \in commits[c].anc
    /\ \E m \in Anc(row.tip) : commits[m].kind = "mark" /\ commits[m].of = row.leaf

\* "Once per series": a hand-off that was killed, repeated or overtaken by new
\* acceptances never leaves a second record of its series, as long as hand-offs
\* do not run at the same time.
RecordedOnce ==
  \A c, d \in FirstParents(branch[Mainline]) :
    /\ commits[c].kind = "record" /\ commits[d].kind = "record"
    /\ commits[c].of = commits[d].of
    => c = d
=============================================================================
