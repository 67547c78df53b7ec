------------------------- MODULE SubsystemSeat_proofs -------------------------
(***************************************************************************)
(* Proofs about SubsystemSeat, for any leaves, series and maintainers.     *)
(*                                                                         *)
(* The argument.  Commits are never changed and branches of trees only     *)
(* grow (Grows).  A call that has a worktree has the tip of its branch     *)
(* checked out, because it alone has it (Exclusive, CheckedOut): so the    *)
(* files it merges into are those of the history it merges onto.  What     *)
(* accepting calls merged and the default branch lie on one line of the    *)
(* subsystem tree's history (Lined): a default branch that is not behind a *)
(* merge is ahead of it.  Tips that a hand-off has read are in the trees   *)
(* and stay there (TipsRead).                                              *)
(***************************************************************************)
EXTENDS SubsystemSeat, SequenceTheorems, FiniteSetTheorems, TLAPS

\* Commits point back, and whatever is behind an ancestor is behind the commit.
Store ==
  \A c \in Oid :
    /\ c \in commits[c].anc /\ commits[c].anc \subseteq Oid
    /\ commits[c].line \subseteq commits[c].anc
    /\ commits[c].onto \in commits[c].anc \cup {0}
    /\ \A d \in commits[c].anc : commits[d].anc \subseteq commits[c].anc
    /\ commits[c].merged # 0 => commits[c].onto # 0

\* The tree a call works on, and when it has the worktree of that tree.
Own(p) == IF p \in Maintainers THEN Subsystem ELSE Mainline
Holds(p) == pc[p] \in {"merge", "close"} \/ (pc[p] = "advance" /\ ~onDefault)

Exclusive ==
  /\ \A p \in Procs : Holds(p) => job[p].tree \in worktrees
  /\ \A p, q \in Procs : Holds(p) /\ Holds(q) /\ job[p].tree = job[q].tree => p = q

CheckedOut ==
  \A p \in Procs : pc[p] = "merge" =>
    job[p].tree = Own(p) /\ job[p].at # 0 /\ job[p].at = branch[Own(p)]

\* Where maintainers and integrators may stand.
MaintainerSteps == {"create", "forward", "advance"}
IntegratorSteps == {"leaves", "lookup", "anchor", "begin"}
Roles ==
  /\ \A p \in Maintainers : pc[p] \notin IntegratorSteps /\ (pc[p] = "open" => branch[Subsystem] # 0)
                            /\ job[p].said # "handed_off"
  /\ \A p \in Integrators : pc[p] \notin MaintainerSteps /\ (pc[p] = "open" => branch[Mainline] # 0)
                            /\ job[p].said \notin {"merged", "accepted"}

\* The trees are empty before there is a subsystem tree, and what is on the
\* default branch comes from it later.
SubsystemFirst ==
  /\ commits[1].kind = "base"
  /\ IF branch[Subsystem] = 0 THEN Anc(branch[Default]) \cup Anc(branch[Mainline]) \subseteq {1}
                              ELSE Anc(branch[Default]) \subseteq Anc(branch[Subsystem])

Behind(c, d) == c \in Anc(d)
Ordered(c, d) == Behind(c, d) \/ Behind(d, c)
Merged(p) == p \in Maintainers /\ job[p].said \in {"merged", "accepted"}
Lined ==
  /\ \A p \in Procs : pc[p] = "idle" => job[p] = NoJob
  /\ \A p \in Maintainers : pc[p] \in {"forward", "advance"} => Merged(p)
  /\ \A p \in Maintainers :
       pc[p] \in {"create", "open", "merge"} => job[p].commit \in Oid
  /\ \A p \in Maintainers : Merged(p) =>
       /\ job[p].result \in Oid /\ job[p].commit \in Oid
       /\ Behind(job[p].commit, job[p].result) /\ Behind(job[p].result, branch[Subsystem])
       /\ Ordered(job[p].result, branch[Default])
       /\ job[p].said = "accepted" => Behind(job[p].result, branch[Default])
  /\ \A p, q \in Maintainers : Merged(p) /\ Merged(q) => Ordered(job[p].result, job[q].result)

\* What is on a contribution branch since it was made is about its leaf.
OwnCommits ==
  \A l \in Leaves : \A c \in Anc(branch[l]) \ Anc(fork[l]) : commits[c].of = l

\* What a hand-off has read of its leaves.
Accepted(row) == \E m \in Anc(row.tip) : commits[m].kind = "mark" /\ commits[m].of = row.leaf
TipsFor(label, call) ==
  /\ \A row \in call.tips :
       /\ row.tip \in Oid /\ Accepted(row)
       /\ row.tip \in Anc(branch[Subsystem]) \cup Anc(branch[Mainline])
       /\ label \in {"anchor", "begin", "open", "merge"} =>
            row.tip \in Anc(call.commit) \cup Anc(branch[Mainline])
  /\ label \in {"lookup", "anchor", "begin", "open", "merge"} => branch[Subsystem] # 0
  /\ label \in {"anchor", "begin", "open", "merge"} =>
       call.commit \in Oid /\ Behind(call.commit, branch[Subsystem])
  /\ label = "begin" => call.result \in Oid /\ Behind(call.result, branch[Subsystem])
TipsRead == \A p \in Integrators : TipsFor(pc[p], job[p])

SeatInv ==
  /\ TypeOK /\ Store /\ Exclusive /\ CheckedOut /\ Roles /\ SubsystemFirst /\ Lined
  /\ OwnCommits /\ TipsRead /\ NothingLost /\ RecordsContainTheirLeaves

\* Records are on mainline only; with one integrator, the record it is about to
\* write is not there.
NoRecord(c) == \A d \in Anc(c) : commits[d].kind # "record"
RecordsOnMainline ==
  /\ \A b \in {Default, Subsystem} \cup Leaves : NoRecord(branch[b])
  /\ \A p \in Maintainers : pc[p] \in {"create", "open", "merge"} => NoRecord(job[p].commit)
Unrecorded ==
  \A p \in Integrators :
    pc[p] \in {"anchor", "begin", "open", "merge"} => ~Recorded(job[p].of)
OneIntegrator == \A p, q \in Integrators : p = q
OnceInv == SeatInv /\ RecordsOnMainline /\ Unrecorded /\ RecordedOnce
-----------------------------------------------------------------------------
(* The object store. *)

LEMMA AncFacts ==
  ASSUME TypeOK, Store, NEW c \in Oid \cup {0}
  PROVE  /\ Anc(c) \subseteq Oid /\ FirstParents(c) \subseteq Anc(c)
         /\ c # 0 => c \in Anc(c) /\ Anc(c) # {}
         /\ \A d \in Anc(c) : Anc(d) \subseteq Anc(c)
  <1>1. Len(commits) \in Nat  BY DEF TypeOK
  <1>2. \A d \in Oid : d # 0  BY <1>1 DEF Oid
  <1>3. CASE c = 0  BY <1>3 DEF Anc, FirstParents
  <1>4. CASE c # 0  BY <1>2, <1>4 DEF Anc, FirstParents, Store
  <1> QED  BY <1>3, <1>4

\* Commits stay as they are.
Extends ==
  /\ commits' \in Seq(Commit) /\ Len(commits) <= Len(commits')
  /\ \A c \in Oid : commits'[c] = commits[c]

AncNext(c) == IF c = 0 THEN {} ELSE commits'[c].anc
LineNext(c) == IF c = 0 THEN {} ELSE commits'[c].line

LEMMA ExtendsFacts ==
  ASSUME TypeOK, Extends
  PROVE  /\ Oid \subseteq Oid'
         /\ \A c \in Oid \cup {0} : AncNext(c) = Anc(c) /\ LineNext(c) = FirstParents(c)
  <1>1. Len(commits) \in Nat /\ Len(commits') \in Nat  BY DEF TypeOK, Extends
  <1>2. Oid \subseteq Oid'  BY <1>1 DEF Oid, Extends
  <1> QED  BY <1>2 DEF Extends, AncNext, LineNext, Anc, FirstParents

LEMMA MadeFacts ==
  ASSUME TypeOK, Store, NEW onto \in Oid, NEW merged \in Oid \cup {0}, NEW of \in About,
         NEW kind \in {"work", "mark", "accept", "record"},
         NEW tree \in SUBSET Oid, NEW names \in SUBSET Row
  PROVE  /\ Made(kind, of, onto, merged, tree, names) \in Commit
         /\ Made(kind, of, onto, merged, tree \cup {NewOid}, names) \in Commit
  <1>1. Len(commits) \in Nat  BY DEF TypeOK
  <1>2. Oid \subseteq Nat /\ NewOid \in Nat  BY <1>1 DEF Oid, NewOid
  <1>3. Anc(onto) \subseteq Oid /\ Anc(merged) \subseteq Oid /\ FirstParents(onto) \subseteq Oid
    BY AncFacts
  <1>4. /\ ({NewOid} \cup Anc(onto) \cup Anc(merged)) \in SUBSET Nat
        /\ ({NewOid} \cup FirstParents(onto)) \in SUBSET Nat
    BY <1>2, <1>3, Zenon
  <1>5. tree \in SUBSET Nat /\ (tree \cup {NewOid}) \in SUBSET Nat
    BY <1>2, Zenon
  <1>6. onto \in Nat /\ merged \in Nat  BY <1>2
  <1> QED  BY <1>4, <1>5, <1>6 DEF Made, Commit

\* The store and the branches after commit c went onto branch b.
Wrote(b, c) ==
  /\ Extends /\ Store' /\ Oid' = Oid \cup {NewOid} /\ NewOid \notin Oid \cup {0}
  /\ commits'[NewOid] = c
  /\ branch' \in [Trees \cup Leaves -> Oid' \cup {0}] /\ branch'[b] = NewOid
  /\ \A d \in Trees \cup Leaves : d # b => branch'[d] = branch[d]
  /\ c.onto \in Oid /\ c.merged \in Oid \cup {0}
  /\ c.anc = {NewOid} \cup Anc(c.onto) \cup Anc(c.merged)
  /\ c.line = {NewOid} \cup FirstParents(c.onto)

LEMMA Written ==
  ASSUME TypeOK, Store, NEW b \in Trees \cup Leaves, NEW c \in Commit, Write(b, c),
         c.onto \in Oid, c.merged \in Oid \cup {0},
         c.anc = {NewOid} \cup Anc(c.onto) \cup Anc(c.merged),
         c.line = {NewOid} \cup FirstParents(c.onto)
  PROVE  Wrote(b, c)
  <1>1. Len(commits) \in Nat /\ commits \in Seq(Commit)  BY DEF TypeOK
  <1>2. /\ commits' \in Seq(Commit) /\ Len(commits') = Len(commits) + 1
        /\ \A d \in 1..Len(commits) : commits'[d] = commits[d]
        /\ commits'[Len(commits) + 1] = c
    BY <1>1, AppendProperties DEF Write
  <1>3. /\ Extends /\ commits'[NewOid] = c  BY <1>1, <1>2 DEF Extends, Oid, NewOid
  <1>4. Oid' = Oid \cup {NewOid} /\ NewOid \notin Oid \cup {0}
    BY <1>1, <1>2 DEF Oid, NewOid
  <1>5. /\ branch' \in [Trees \cup Leaves -> Oid' \cup {0}] /\ branch'[b] = NewOid
        /\ \A d \in Trees \cup Leaves : d # b => branch'[d] = branch[d]
    BY <1>4 DEF Write, TypeOK
  <1>6. /\ Anc(c.onto) \subseteq Oid /\ Anc(c.merged) \subseteq Oid
        /\ FirstParents(c.onto) \subseteq Anc(c.onto) /\ c.onto \in Anc(c.onto)
        /\ \A d \in Anc(c.onto) : Anc(d) \subseteq Anc(c.onto)
        /\ \A d \in Anc(c.merged) : Anc(d) \subseteq Anc(c.merged)
        /\ \A d \in Oid : d # 0
    BY <1>4, AncFacts, <1>1 DEF Oid
  <1>7. Store'
    <2> SUFFICES ASSUME NEW d \in Oid'
        PROVE  /\ d \in commits'[d].anc /\ commits'[d].anc \subseteq Oid'
               /\ commits'[d].line \subseteq commits'[d].anc
               /\ commits'[d].onto \in commits'[d].anc \cup {0}
               /\ \A e \in commits'[d].anc : commits'[e].anc \subseteq commits'[d].anc
               /\ commits'[d].merged # 0 => commits'[d].onto # 0
      BY DEF Store
    <2>1. \A e \in Oid : commits'[e] = commits[e] /\ Anc(e) = commits[e].anc
      BY <1>3, <1>6 DEF Extends, Anc
    <2>2. CASE d \in Oid  BY <1>4, <2>1, <2>2 DEF Store
    <2>3. CASE d = NewOid  BY <1>3, <1>4, <1>6, <2>1, <2>3
    <2> QED  BY <1>4, <2>2, <2>3
  <1> QED  BY <1>3, <1>4, <1>5, <1>7 DEF Wrote

LEMMA MadeWritten ==
  ASSUME TypeOK, Store, NEW onto \in Oid, NEW merged \in Oid \cup {0}, NEW of \in About,
         NEW kind \in {"work", "mark", "accept", "record"}, NEW b \in Trees \cup Leaves,
         NEW tree, tree \in SUBSET Oid \/ \E t \in SUBSET Oid : tree = t \cup {NewOid},
         NEW names \in SUBSET Row, Write(b, Made(kind, of, onto, merged, tree, names))
  PROVE  Wrote(b, Made(kind, of, onto, merged, tree, names))
  <1> DEFINE c == Made(kind, of, onto, merged, tree, names)
  <1>1. c \in Commit
    <2>1. CASE tree \in SUBSET Oid  BY <2>1, MadeFacts
    <2>2. ASSUME NEW t \in SUBSET Oid, tree = t \cup {NewOid} PROVE c \in Commit
      BY <2>2, MadeFacts
    <2> QED  BY <2>1, <2>2
  <1>2. /\ c.onto = onto /\ c.merged = merged
        /\ c.anc = {NewOid} \cup Anc(onto) \cup Anc(merged)
        /\ c.line = {NewOid} \cup FirstParents(onto)
    BY DEF Made
  <1> HIDE DEF c
  <1>3. Write(b, c)  BY DEF c
  <1>4. Wrote(b, c)  BY <1>1, <1>2, <1>3, Written
  <1> QED  BY <1>4 DEF c

-----------------------------------------------------------------------------
(* What the steps write. *)

LEMMA TreeTyped ==
  ASSUME TypeOK, Store, NothingLost, NEW c \in Oid
  PROVE  commits[c].tree \in SUBSET Oid
  BY DEF Store, NothingLost

LEMMA TreesDistinct == Default # Subsystem /\ Default # Mainline /\ Subsystem # Mainline
  <1>1. Cardinality({Default, Subsystem, Mainline}) = 3  BY TreesAssumption
  <1>2. \A x, y \in {Default, Subsystem, Mainline} : Cardinality({x, y}) <= 2
    <2> SUFFICES ASSUME NEW x, NEW y PROVE Cardinality({x, y}) <= 2
      OBVIOUS
    <2>1. IsFiniteSet({}) /\ Cardinality({}) = 0  BY FS_EmptySet
    <2>2. IsFiniteSet({y}) /\ Cardinality({y}) = 1  BY FS_Singleton
    <2>3. Cardinality({y} \cup {x}) = IF x \in {y} THEN 1 ELSE 2
      BY <2>2, FS_AddElement
    <2>4. {y} \cup {x} = {x, y}  OBVIOUS
    <2> QED  BY <2>3, <2>4
  <1>3. ASSUME NEW x \in {Default, Subsystem, Mainline}, NEW y \in {Default, Subsystem, Mainline},
               {Default, Subsystem, Mainline} = {x, y}
        PROVE  FALSE
    BY <1>1, <1>2, <1>3
  <1>4. Default = Subsystem => {Default, Subsystem, Mainline} = {Default, Mainline}  OBVIOUS
  <1>5. Default = Mainline => {Default, Subsystem, Mainline} = {Default, Subsystem}  OBVIOUS
  <1>6. Subsystem = Mainline => {Default, Subsystem, Mainline} = {Default, Subsystem}  OBVIOUS
  <1> QED  BY <1>3, <1>4, <1>5, <1>6

LEMMA Refs ==
  ASSUME TypeOK
  PROVE  /\ {Default, Subsystem, Mainline} = Trees /\ Oid \subseteq Nat /\ 0 \notin Oid
         /\ \A b \in Trees \cup Leaves : branch[b] \in Oid \cup {0}
         /\ branch[Default] \in Oid
         /\ Leaves \subseteq About /\ 0 \in About /\ {} \in SUBSET Row
  BY DEF TypeOK, Trees, Oid, About

LEMMA ContributeWrites ==
  ASSUME SeatInv, NEW l \in Leaves, Contribute(l)
  PROVE  LET onto == IF branch[l] = 0 THEN branch[Default] ELSE branch[l]
         IN /\ onto \in Oid
            /\ Wrote(l, Made("work", l, onto, 0, commits[onto].tree \cup {NewOid}, {}))
  <1> DEFINE onto == IF branch[l] = 0 THEN branch[Default] ELSE branch[l]
  <1>0. TypeOK /\ Store /\ NothingLost  BY DEF SeatInv
  <1>1. onto \in Oid  BY <1>0, Refs
  <1>2. Write(l, Made("work", l, onto, 0, commits[onto].tree \cup {NewOid}, {}))
    BY DEF Contribute
  <1> HIDE DEF onto
  <1>3. commits[onto].tree \in SUBSET Oid  BY <1>0, <1>1, TreeTyped
  <1>4. Wrote(l, Made("work", l, onto, 0, commits[onto].tree \cup {NewOid}, {}))
    BY <1>0, <1>1, <1>2, <1>3, Refs, MadeWritten
  <1> QED  BY <1>1, <1>4 DEF onto

LEMMA AcceptWrites ==
  ASSUME SeatInv, NEW p \in Maintainers, NEW l \in Leaves, Accept(p, l)
  PROVE  /\ branch[l] \in Oid
         /\ Wrote(l, Made("mark", l, branch[l], 0, commits[branch[l]].tree, {}))
  <1>0. TypeOK /\ Store /\ NothingLost  BY DEF SeatInv
  <1>1. branch[l] \in Oid  BY <1>0, Refs DEF Accept
  <1>2. commits[branch[l]].tree \in SUBSET Oid  BY <1>0, <1>1, TreeTyped
  <1>3. Write(l, Made("mark", l, branch[l], 0, commits[branch[l]].tree, {}))  BY DEF Accept
  <1>4. Wrote(l, Made("mark", l, branch[l], 0, commits[branch[l]].tree, {}))
    BY <1>0, <1>1, <1>2, <1>3, Refs, MadeWritten
  <1> QED  BY <1>1, <1>4

\* What a merge makes: the tree checked out is the one merged onto.
Joined(p, kind, names) ==
  Made(kind, job[p].of, branch[Own(p)], job[p].commit,
       commits[branch[Own(p)]].tree \cup commits[job[p].commit].tree, names)

LEMMA MergeWrites ==
  ASSUME SeatInv, NEW p \in Procs, MergeLeaf(p) \/ MergeSeries(p)
  PROVE  /\ branch[Own(p)] \in Oid /\ job[p].commit \in Oid
         /\ p \in Maintainers => Own(p) = Subsystem /\ Own(p) # Mainline
         /\ p \in Integrators => p \notin Maintainers /\ Own(p) = Mainline
         /\ \/ UNCHANGED <<commits, branch>>
            \/ p \in Maintainers /\ MergeLeaf(p) /\ Wrote(Subsystem, Joined(p, "accept", {}))
            \/ /\ p \in Integrators /\ MergeSeries(p)
               /\ Wrote(Mainline, Joined(p, "record", job[p].tips))
  <1>0. TypeOK /\ Store /\ NothingLost /\ CheckedOut /\ Lined /\ TipsRead  BY DEF SeatInv
  <1>1. p \in Maintainers \/ p \in Integrators  BY DEF Procs
  <1>2. pc[p] = "merge"  BY DEF MergeLeaf, MergeSeries
  <1>3. /\ job[p].at = branch[Own(p)] /\ branch[Own(p)] \in Oid
        /\ Own(p) \in Trees \cup Leaves
    BY <1>0, <1>1, <1>2, Refs DEF CheckedOut, Own
  <1>4. job[p].commit \in Oid  BY <1>0, <1>1, <1>2 DEF Lined, TipsRead, TipsFor
  <1>5. /\ p \in Maintainers => Own(p) = Subsystem /\ Own(p) # Mainline
        /\ p \in Integrators => p \notin Maintainers /\ Own(p) = Mainline
    <2>1. Subsystem # Mainline  BY TreesDistinct
    <2> QED  BY <2>1, ProcsAssumption DEF Own
  <1>6. job[p].of \in About /\ job[p].tips \in SUBSET Row
    BY <1>0 DEF TypeOK, Job
  <1>7. (commits[branch[Own(p)]].tree \cup commits[job[p].commit].tree) \in SUBSET Oid
    <2>1. commits[branch[Own(p)]].tree \in SUBSET Oid /\ commits[job[p].commit].tree \in SUBSET Oid
      BY <1>0, <1>3, <1>4, TreeTyped
    <2> QED  BY <2>1, Zenon
  <1>8. ASSUME p \in Maintainers, Write(Subsystem, Joined(p, "accept", {}))
        PROVE  Wrote(Subsystem, Joined(p, "accept", {}))
    BY <1>0, <1>3, <1>4, <1>5, <1>6, <1>7, <1>8, Refs, MadeWritten DEF Joined
  <1>9. ASSUME p \in Integrators, Write(Mainline, Joined(p, "record", job[p].tips))
        PROVE  Wrote(Mainline, Joined(p, "record", job[p].tips))
    BY <1>0, <1>3, <1>4, <1>5, <1>6, <1>7, <1>9, Refs, MadeWritten DEF Joined
  <1>10. ASSUME MergeLeaf(p)
         PROVE  p \in Maintainers
                /\ (UNCHANGED <<commits, branch>> \/ Write(Subsystem, Joined(p, "accept", {})))
    BY <1>3, <1>5, <1>10 DEF MergeLeaf, Joined
  <1>11. ASSUME MergeSeries(p)
         PROVE  p \in Integrators
                /\ (UNCHANGED <<commits, branch>> \/ Write(Mainline, Joined(p, "record", job[p].tips)))
    BY <1>3, <1>5, <1>11 DEF MergeSeries, Joined
  <1> QED  BY <1>3, <1>4, <1>5, <1>8, <1>9, <1>10, <1>11
-----------------------------------------------------------------------------
(* How the store and the branches change. *)

Still == UNCHANGED <<commits, branch>>

\* The steps that only create or forward a branch of a tree.
Moves == (\E p \in Maintainers : CreateSubsystem(p) \/ Advance(p)) \/ \E p \in Integrators : CreateMainline(p)
Writes ==
  \/ \E l \in Leaves : Contribute(l) \/ \E p \in Maintainers : Accept(p, l)
  \/ \E p \in Procs : MergeLeaf(p) \/ MergeSeries(p)

LEMMA StepKinds ==
  ASSUME [Next]_vars
  PROVE  Writes \/ Moves \/ Still
  BY Zenon DEF Next, Writes, Moves, Still, vars, repoVars, Procs, Forget, Return, Crash, Open, Close,
         HandOff, ReadLeaf, LookUp, Anchor, Forward

LEMMA StillExtends ==
  ASSUME TypeOK, Store, UNCHANGED commits
  PROVE  Extends /\ Store' /\ Oid' = Oid
  <1>1. Oid' = Oid  BY DEF Oid
  <1>2. Store'  BY <1>1 DEF Store
  <1>3. Extends
    <2>1. Len(commits) \in Nat  BY DEF TypeOK
    <2> QED  BY <2>1 DEF Extends, TypeOK
  <1> QED  BY <1>1, <1>2, <1>3

Grows ==
  /\ Extends /\ Store'
  /\ branch' \in [Trees \cup Leaves -> Oid' \cup {0}]
  /\ \A t \in Trees : Anc(branch[t]) \subseteq AncNext(branch'[t]) /\ (branch[t] # 0 => branch'[t] # 0)

LEMMA WroteGrows ==
  ASSUME TypeOK, Store, NEW b \in Trees \cup Leaves, NEW c, Wrote(b, c),
         b \in Leaves \/ c.onto = branch[b]
  PROVE  Grows
  <1>1. Extends /\ \A d \in Oid \cup {0} : AncNext(d) = Anc(d)
    BY ExtendsFacts DEF Wrote
  <1>2. ASSUME NEW t \in Trees
        PROVE  Anc(branch[t]) \subseteq AncNext(branch'[t]) /\ (branch[t] # 0 => branch'[t] # 0)
    <2>1. branch[t] \in Oid \cup {0}  BY Refs
    <2>2. CASE t # b  BY <1>1, <2>1, <2>2 DEF Wrote
    <2>3. CASE t = b
      <3>1. c.onto = branch[t]  BY <2>3, TreesAssumption DEF Trees
      <3>2. AncNext(branch'[t]) = c.anc /\ branch'[t] # 0  BY <2>3, Refs DEF Wrote, AncNext
      <3> QED  BY <3>1, <3>2 DEF Wrote
    <2> QED  BY <2>2, <2>3
  <1> QED  BY <1>2 DEF Grows, Wrote

\* Branches that are created or forwarded.
LEMMA MovedTo ==
  ASSUME SeatInv, Moves
  PROVE  \E t \in Trees, c \in Oid :
           /\ branch' = [branch EXCEPT ![t] = c] /\ UNCHANGED commits
           /\ Anc(branch[t]) \subseteq Anc(c)
  <1>0. TypeOK /\ Store /\ Lined /\ TipsRead  BY DEF SeatInv
  <1>1. ASSUME NEW p \in Maintainers, CreateSubsystem(p), branch' # branch
        PROVE  /\ branch' = [branch EXCEPT ![Subsystem] = branch[Default]] /\ UNCHANGED commits
               /\ Anc(branch[Subsystem]) = {}
    BY <1>1 DEF CreateSubsystem, Anc
  <1>2. ASSUME NEW p \in Maintainers, Advance(p), branch' # branch
        PROVE  /\ branch' = [branch EXCEPT ![Default] = job[p].result] /\ UNCHANGED commits
               /\ job[p].result \in Oid
               /\ Anc(branch[Default]) \subseteq Anc(job[p].result)
    <2>1. job[p].result \in Oid  BY <1>0, <1>2 DEF Lined, Advance
    <2>2. branch[Default] \in Anc(job[p].result)
      <3>1. branch = [branch EXCEPT ![Default] = @]  BY <1>0 DEF TypeOK
      <3> QED  BY <1>2, <3>1 DEF Advance
    <2>3. Anc(branch[Default]) \subseteq Anc(job[p].result)  BY <1>0, <2>1, <2>2, AncFacts
    <2> QED  BY <1>2, <2>1, <2>2, <2>3 DEF Advance
  <1>3. ASSUME NEW p \in Integrators, CreateMainline(p), branch' # branch
        PROVE  /\ branch' = [branch EXCEPT ![Mainline] = job[p].result] /\ UNCHANGED commits
               /\ job[p].result \in Oid /\ Anc(branch[Mainline]) = {}
    BY <1>0, <1>3 DEF CreateMainline, TipsRead, TipsFor, Anc
  <1>4. ASSUME branch' = branch
        PROVE  /\ branch' = [branch EXCEPT ![Default] = branch[Default]] /\ UNCHANGED commits
    BY <1>0, <1>4 DEF Moves, CreateSubsystem, Advance, CreateMainline, TypeOK
  <1>5. {Default, Subsystem, Mainline} = Trees /\ branch[Default] \in Oid  BY <1>0, Refs
  <1> QED  BY <1>1, <1>2, <1>3, <1>4, <1>5 DEF Moves

LEMMA NextGrows ==
  ASSUME SeatInv, [Next]_vars
  PROVE  Grows
  <1>0. TypeOK /\ Store  BY DEF SeatInv
  <1>1. \A b \in Trees \cup Leaves : branch[b] \in Oid \cup {0}  BY <1>0, Refs
  <1>2. CASE Still
    <2>1. Extends /\ Store' /\ Oid' = Oid  BY <1>0, <1>2, StillExtends DEF Still
    <2>2. \A d \in Oid \cup {0} : AncNext(d) = Anc(d)  BY <1>0, <2>1, ExtendsFacts
    <2> QED  BY <1>0, <1>1, <1>2, <2>1, <2>2 DEF Grows, Still, TypeOK
  <1>3. CASE Moves
    <2>1. PICK t \in Trees, c \in Oid :
             /\ branch' = [branch EXCEPT ![t] = c] /\ UNCHANGED commits
             /\ Anc(branch[t]) \subseteq Anc(c)
      BY <1>3, MovedTo
    <2>2. Extends /\ Store' /\ Oid' = Oid  BY <1>0, <2>1, StillExtends
    <2>3. \A d \in Oid \cup {0} : AncNext(d) = Anc(d)  BY <1>0, <2>2, ExtendsFacts
    <2>4. c # 0  BY <1>0, Refs
    <2>5. branch' \in [Trees \cup Leaves -> Oid \cup {0}] /\ branch'[t] = c
          /\ \A u \in Trees : u # t => branch'[u] = branch[u]
      BY <1>0, <2>1 DEF TypeOK
    <2> QED  BY <1>1, <2>1, <2>2, <2>3, <2>4, <2>5 DEF Grows
  <1>4. CASE Writes
    <2>1. ASSUME NEW l \in Leaves, Contribute(l)  PROVE Grows
      BY <1>0, <2>1, ContributeWrites, WroteGrows
    <2>2. ASSUME NEW l \in Leaves, NEW p \in Maintainers, Accept(p, l)  PROVE Grows
      BY <1>0, <2>2, AcceptWrites, WroteGrows
    <2>3. ASSUME NEW p \in Procs, MergeLeaf(p) \/ MergeSeries(p)  PROVE Grows
      <3>1. Joined(p, "accept", {}).onto = branch[Own(p)]
            /\ Joined(p, "record", job[p].tips).onto = branch[Own(p)]
        BY DEF Joined, Made
      <3>2. Own(p) \in Trees  BY <1>0, Refs DEF Own
      <3> QED  BY <1>0, <1>2, <2>3, <3>1, <3>2, MergeWrites, WroteGrows DEF Still
    <2> QED  BY <1>4, <2>1, <2>2, <2>3 DEF Writes
  <1> QED  BY <1>2, <1>3, <1>4, StepKinds
-----------------------------------------------------------------------------
(* The calls. *)

MaintainerStep(p) ==
  \/ \E l \in Leaves : Accept(p, l)
  \/ CreateSubsystem(p) \/ MergeLeaf(p) \/ Forward(p) \/ Advance(p)
IntegratorStep(p) ==
  \/ \E s \in Series : HandOff(p, s)
  \/ ReadLeaf(p) \/ LookUp(p) \/ Anchor(p) \/ CreateMainline(p) \/ MergeSeries(p)
CommonStep(p) == Open(p) \/ Close(p) \/ Return(p) \/ Crash(p)
Step(p) ==
  \/ p \in Maintainers /\ MaintainerStep(p)
  \/ p \in Integrators /\ IntegratorStep(p)
  \/ CommonStep(p)

LEMMA NextSteps ==
  ASSUME [Next]_vars
  PROVE  (\E l \in Leaves : Contribute(l)) \/ (\E p \in Procs : Step(p)) \/ UNCHANGED vars
  BY Zenon DEF Next, Step, MaintainerStep, IntegratorStep, CommonStep, Procs

Pcs == {"idle", "create", "open", "merge", "close", "forward", "advance",
        "leaves", "lookup", "anchor", "begin", "done"}
Sayings == {"nothing", "git_error", "merged", "accepted", "series_incomplete",
            "already-current", "mainline_base_missing", "handed_off"}

\* Process p alone moves, to a label and with a job.
Alone(p) ==
  /\ pc' \in [Procs -> Pcs] /\ job' \in [Procs -> Job]
  /\ \A q \in Procs : q # p => pc'[q] = pc[q] /\ job'[q] = job[q]

LEMMA NoJobTyped == NoJob \in Job /\ NoJob.said = "nothing" /\ NoJob.tips = {}
  BY DEF NoJob, Job, About, Trees

LEMMA MaintainerAlone ==
  ASSUME SeatInv, NEW p \in Maintainers, MaintainerStep(p)
  PROVE  Alone(p)
  <1>0. /\ TypeOK /\ p \in Procs /\ job[p] \in Job /\ pc \in [Procs -> Pcs]
        /\ job \in [Procs -> Job]
    BY DEF SeatInv, Procs, TypeOK, Pcs
  <1>1. ASSUME NEW l \in Leaves, Accept(p, l)  PROVE Alone(p)
    <2>1. NewOid \in Nat /\ l \in About  BY <1>0 DEF NewOid, About, TypeOK
    <2> QED  BY <1>0, <1>1, <2>1 DEF Accept, Goto, Alone, Pcs, Job
  <1>2. ASSUME CreateSubsystem(p)  PROVE Alone(p)
    BY <1>0, <1>2 DEF CreateSubsystem, Goto, Say, Alone, Pcs, Job
  <1>3. ASSUME MergeLeaf(p)  PROVE Alone(p)
    <2>1. NewOid \in Nat /\ branch[Subsystem] \in Nat
      BY <1>0, Refs DEF NewOid, TypeOK
    <2>2. job' = [job EXCEPT ![p].said = "git_error"]
          \/ \E r \in Nat : job' = [job EXCEPT ![p].result = r, ![p].said = "merged"]
      BY <1>3, <2>1 DEF MergeLeaf
    <2>3. pc' = [pc EXCEPT ![p] = "close"]  BY <1>3 DEF MergeLeaf, Goto
    <2>4. CASE job' = [job EXCEPT ![p].said = "git_error"]
      BY <1>0, <2>3, <2>4 DEF Alone, Pcs, Job
    <2>5. ASSUME NEW r \in Nat, job' = [job EXCEPT ![p].result = r, ![p].said = "merged"]
          PROVE  Alone(p)
      BY <1>0, <2>3, <2>5 DEF Alone, Pcs, Job
    <2> QED  BY <2>2, <2>4, <2>5
  <1>4. ASSUME Forward(p)  PROVE Alone(p)
    <2>1. job' = [job EXCEPT ![p].said = "git_error"] \/ job' = [job EXCEPT ![p].tree = Default]
      BY <1>4 DEF Forward, Say
    <2>2. pc' = [pc EXCEPT ![p] = "done"] \/ pc' = [pc EXCEPT ![p] = "advance"]
      BY <1>4 DEF Forward, Say, Goto
    <2> QED  BY <1>0, <2>1, <2>2 DEF Alone, Pcs, Job, Trees
  <1>5. ASSUME Advance(p)  PROVE Alone(p)
    BY <1>0, <1>5 DEF Advance, Goto, Alone, Pcs, Job
  <1> QED  BY <1>1, <1>2, <1>3, <1>4, <1>5 DEF MaintainerStep

LEMMA IntegratorAlone ==
  ASSUME SeatInv, NEW p \in Integrators, IntegratorStep(p)
  PROVE  Alone(p)
  <1>0. /\ TypeOK /\ p \in Procs /\ job[p] \in Job /\ pc \in [Procs -> Pcs]
        /\ job \in [Procs -> Job]
    BY DEF SeatInv, Procs, TypeOK, Pcs
  <1>1. ASSUME NEW s \in Series, HandOff(p, s)  PROVE Alone(p)
    <2>1. s \in About /\ LeavesOf[s] \in SUBSET Leaves  BY LeavesAssumption DEF About, Series
    <2> QED  BY <1>0, <1>1, <2>1 DEF HandOff, Goto, Alone, Pcs, Job
  <1>2. ASSUME ReadLeaf(p)  PROVE Alone(p)
    <2>1. PICK l \in job[p].todo :
             \/ Say(p, "series_incomplete")
             \/ /\ job' = [job EXCEPT ![p].todo = @ \ {l},
                                      ![p].tips = @ \cup {[leaf |-> l, tip |-> branch[l]]}]
                /\ Goto(p, IF job[p].todo = {l} THEN "lookup" ELSE "leaves")
      BY <1>2 DEF ReadLeaf
    <2>2. l \in Leaves /\ branch[l] \in Nat  BY <1>0, Refs DEF Job
    <2>3. [leaf |-> l, tip |-> branch[l]] \in Row  BY <2>2 DEF Row
    <2>4. CASE Say(p, "series_incomplete")
      BY <1>0, <2>4 DEF Say, Goto, Alone, Pcs, Job
    <2>5. CASE /\ job' = [job EXCEPT ![p].todo = @ \ {l},
                                      ![p].tips = @ \cup {[leaf |-> l, tip |-> branch[l]]}]
               /\ Goto(p, IF job[p].todo = {l} THEN "lookup" ELSE "leaves")
      <3> DEFINE left == job[p].todo \ {l}
                 read == job[p].tips \cup {[leaf |-> l, tip |-> branch[l]]}
      <3>1. left \in SUBSET Leaves /\ read \in SUBSET Row
        <4>1. job[p].todo \in SUBSET Leaves /\ job[p].tips \in SUBSET Row  BY <1>0 DEF Job
        <4> QED  BY <4>1, <2>3, Zenon
      <3>2. job' = [job EXCEPT ![p].todo = left, ![p].tips = read]  BY <2>5
      <3>3. \E label \in {"lookup", "leaves"} : pc' = [pc EXCEPT ![p] = label]
        BY <2>5 DEF Goto
      <3> HIDE DEF left, read
      <3>4. job' \in [Procs -> Job] /\ \A q \in Procs : q # p => job'[q] = job[q]
        BY <1>0, <3>1, <3>2 DEF Job
      <3> QED  BY <1>0, <3>3, <3>4 DEF Alone, Pcs
    <2> QED  BY <2>1, <2>4, <2>5
  <1>3. ASSUME LookUp(p)  PROVE Alone(p)
    <2>1. branch[Subsystem] \in Nat  BY <1>0, Refs
    <2> QED  BY <1>0, <1>3, <2>1 DEF LookUp, Say, Goto, Alone, Pcs, Job
  <1>4. ASSUME Anchor(p)  PROVE Alone(p)
    <2>1. \/ \E a \in {"mainline_base_missing", "already-current"} : Say(p, a)
          \/ Goto(p, "open") /\ UNCHANGED job
          \/ Goto(p, "begin") /\ \E r \in Nat : job' = [job EXCEPT ![p].result = r]
      <3>1. \A c \in FirstParents(job[p].commit) : commits[c].onto \in Nat
        <4>1. pc[p] = "anchor" => job[p].commit \in Oid  BY DEF SeatInv, TipsRead, TipsFor
        <4>2. FirstParents(job[p].commit) \subseteq Oid
          BY <1>4, <4>1, AncFacts DEF SeatInv, Anchor
        <4>3. \A c \in Oid : commits[c] \in Commit  BY <1>0 DEF TypeOK, Oid
        <4>4. \A c \in Oid : commits[c].onto \in Nat  BY <4>3 DEF Commit
        <4> QED  BY <4>2, <4>4
      <3>2. \A c \in FirstAcceptance(job[p].commit, {row.tip : row \in job[p].tips}) :
              c \in FirstParents(job[p].commit)
        BY DEF FirstAcceptance
      <3> QED  BY <1>4, <3>1, <3>2 DEF Anchor
    <2> QED  BY <1>0, <2>1 DEF Say, Goto, Alone, Pcs, Job
  <1>5. ASSUME CreateMainline(p)  PROVE Alone(p)
    BY <1>0, <1>5 DEF CreateMainline, Say, Goto, Alone, Pcs, Job
  <1>6. ASSUME MergeSeries(p)  PROVE Alone(p)
    BY <1>0, <1>6 DEF MergeSeries, Goto, Alone, Pcs, Job
  <1> QED  BY <1>1, <1>2, <1>3, <1>4, <1>5, <1>6 DEF IntegratorStep

LEMMA CommonAlone ==
  ASSUME SeatInv, NEW p \in Procs, CommonStep(p)
  PROVE  Alone(p)
  <1>0. /\ TypeOK /\ job[p] \in Job /\ pc \in [Procs -> Pcs] /\ job \in [Procs -> Job]
    BY DEF SeatInv, TypeOK, Pcs
  <1>1. ASSUME Open(p)  PROVE Alone(p)
    <2>1. Own(p) \in Trees /\ branch[Own(p)] \in Nat  BY <1>0, Refs DEF Own
    <2>2. job' = [job EXCEPT ![p].said = "git_error"]
          \/ job' = [job EXCEPT ![p].tree = Own(p), ![p].at = branch[Own(p)]]
      BY <1>1 DEF Open, Say, Own
    <2>3. \E label \in {"done", "merge"} : pc' = [pc EXCEPT ![p] = label]
      BY <1>1 DEF Open, Say, Goto
    <2> QED  BY <1>0, <2>1, <2>2, <2>3 DEF Alone, Pcs, Job
  <1>2. ASSUME Close(p)  PROVE Alone(p)
    BY <1>0, <1>2 DEF Close, Goto, Alone, Pcs
  <1>3. ASSUME Forget(p)  PROVE Alone(p)
    BY <1>0, <1>3, NoJobTyped DEF Forget, Goto, Alone, Pcs
  <1> QED  BY <1>1, <1>2, <1>3 DEF CommonStep, Return, Crash

LEMMA StepAlone ==
  ASSUME SeatInv, NEW p \in Procs, Step(p)
  PROVE  Alone(p)
  BY MaintainerAlone, IntegratorAlone, CommonAlone DEF Step

LEMMA StepKeeps ==
  ASSUME NEW p \in Procs, Step(p)
  PROVE  /\ UNCHANGED <<fork, onDefault>>
         /\ UNCHANGED worktrees \/ Open(p) \/ Close(p) \/ (p \in Maintainers /\ Forward(p))
  <1>1. ASSUME p \in Maintainers, MaintainerStep(p)
        PROVE  UNCHANGED <<fork, onDefault>> /\ (UNCHANGED worktrees \/ Forward(p))
    BY <1>1 DEF MaintainerStep, Accept, CreateSubsystem, MergeLeaf, Forward, Advance
  <1>2. ASSUME IntegratorStep(p)
        PROVE  UNCHANGED <<fork, onDefault, worktrees>>
    BY <1>2 DEF IntegratorStep, HandOff, ReadLeaf, LookUp, Anchor, CreateMainline, MergeSeries, repoVars
  <1>3. ASSUME CommonStep(p)
        PROVE  UNCHANGED <<fork, onDefault>> /\ (UNCHANGED worktrees \/ Open(p) \/ Close(p))
    BY <1>3 DEF CommonStep, Open, Close, Return, Crash, Forget, repoVars
  <1> QED  BY <1>1, <1>2, <1>3 DEF Step

\* Every reachable state is well typed; what the inductive invariant adds is that
\* no step uses a ref that is missing.
LEMMA TypedNext ==
  ASSUME SeatInv, [Next]_vars
  PROVE  TypeOK'
  <1>0. TypeOK  BY DEF SeatInv
  <1>1. Grows  BY NextGrows
  <1>2. branch'[Default] # 0
    BY <1>0, <1>1, Refs DEF Grows
  <1>3. Oid \subseteq Oid'  BY <1>0, <1>1, ExtendsFacts DEF Grows
  <1> DEFINE RestTyped == /\ fork' \in [Leaves -> Oid' \cup {0}]
                          /\ worktrees' \subseteq Trees /\ onDefault' \in BOOLEAN
             CallsTyped == pc' \in [Procs -> Pcs] /\ job' \in [Procs -> Job]
  <1>4. RestTyped
    <2>1. ASSUME NEW l \in Leaves, Contribute(l)  PROVE RestTyped
      <3>1. UNCHANGED <<worktrees, onDefault>>  BY <2>1 DEF Contribute
      <3>2. \/ fork' = fork
            \/ \E c \in Oid : fork' = [fork EXCEPT ![l] = c]
        BY <1>0, <2>1, Refs DEF Contribute
      <3> QED  BY <1>0, <1>3, <3>1, <3>2 DEF TypeOK
    <2>2. ASSUME NEW p \in Procs, Step(p)  PROVE RestTyped
      <3>1. UNCHANGED <<fork, onDefault>>  BY <2>2, StepKeeps
      <3>2. worktrees' \subseteq worktrees \cup Trees
        <4>1. ASSUME Open(p) \/ Close(p) \/ Forward(p)  PROVE worktrees' \subseteq worktrees \cup Trees
          BY <1>0, <4>1, Refs DEF Open, Close, Forward
        <4> QED  BY <2>2, <4>1, StepKeeps
      <3> QED  BY <1>0, <1>3, <3>1, <3>2 DEF TypeOK
    <2>3. CASE UNCHANGED vars  BY <1>0, <1>3, <2>3 DEF vars, repoVars, TypeOK
    <2> QED  BY <2>1, <2>2, <2>3, NextSteps
  <1>5. CallsTyped
    <2>1. ASSUME NEW p \in Procs, Step(p)  PROVE CallsTyped
      BY <2>1, StepAlone DEF Alone
    <2>2. CASE UNCHANGED <<pc, job>>  BY <1>0, <2>2 DEF TypeOK, Pcs
    <2>3. ASSUME NEW l \in Leaves, Contribute(l)  PROVE UNCHANGED <<pc, job>>
      BY <2>3 DEF Contribute
    <2>4. UNCHANGED vars => UNCHANGED <<pc, job>>  BY DEF vars
    <2> QED  BY <2>1, <2>2, <2>3, <2>4, NextSteps
  <1> QED  BY <1>1, <1>2, <1>4, <1>5 DEF Grows, Extends, TypeOK, Pcs
-----------------------------------------------------------------------------
(* What commits hold. *)

Work(S) == {w \in S : commits[w].kind = "work"}

LEMMA TreeIsWork ==
  ASSUME NothingLost, NEW c \in Oid
  PROVE  commits[c].tree = Work(Anc(c))
  <1>1. CASE c = 0  BY <1>1 DEF Oid
  <1>2. CASE c # 0  BY <1>2 DEF NothingLost, Work, Anc
  <1> QED  BY <1>1, <1>2

LEMMA WroteLosesNothing ==
  ASSUME TypeOK, Store, NothingLost, NEW b \in Trees \cup Leaves, NEW c, Wrote(b, c),
         c.tree = Work(Anc(c.onto)) \cup Work(Anc(c.merged)) \cup (IF c.kind = "work" THEN {NewOid} ELSE {})
  PROVE  NothingLost'
  <1> SUFFICES ASSUME NEW d \in Oid'
               PROVE  commits'[d].tree = {w \in commits'[d].anc : commits'[w].kind = "work"}
    BY DEF NothingLost
  <1>1. /\ \A e \in Oid : commits'[e] = commits[e]
        /\ commits'[NewOid] = c /\ Oid' = Oid \cup {NewOid}
        /\ c.anc = {NewOid} \cup Anc(c.onto) \cup Anc(c.merged)
        /\ c.onto \in Oid /\ c.merged \in Oid \cup {0}
    BY DEF Wrote, Extends
  <1>2. Anc(c.onto) \subseteq Oid /\ Anc(c.merged) \subseteq Oid
    BY <1>1, AncFacts
  <1>3. CASE d \in Oid
    <2>1. commits[d].anc \subseteq Oid  BY <1>3 DEF Store
    <2> QED  BY <1>1, <1>3, <2>1 DEF NothingLost
  <1>4. CASE d = NewOid
    <2>1. commits'[d] = c /\ NewOid \in c.anc  BY <1>1, <1>4
    <2>2. ASSUME NEW w \in c.anc  PROVE w \in c.tree <=> commits'[w].kind = "work"
      <3>1. CASE w = NewOid
        <4>1. NewOid \notin Oid  BY DEF Wrote
        <4> QED  BY <1>1, <1>2, <3>1, <4>1 DEF Work
      <3>2. CASE w # NewOid
        <4>1. w \in Anc(c.onto) \cup Anc(c.merged) /\ w \in Oid  BY <1>1, <1>2, <2>2, <3>2
        <4> QED  BY <1>1, <3>2, <4>1 DEF Work
      <3> QED  BY <3>1, <3>2
    <2>3. c.tree \subseteq c.anc  BY <1>1 DEF Work
    <2> QED  BY <2>1, <2>2, <2>3
  <1> QED  BY <1>1, <1>3, <1>4

LEMMA NothingLostNext ==
  ASSUME SeatInv, [Next]_vars
  PROVE  NothingLost'
  <1>0. TypeOK /\ Store /\ NothingLost  BY DEF SeatInv
  <1>1. CASE UNCHANGED commits  BY <1>0, <1>1 DEF NothingLost, Oid
  <1>2. Work(Anc(0)) = {}  BY DEF Work, Anc
  <1>3. ASSUME NEW l \in Leaves, Contribute(l)  PROVE NothingLost'
    <2> DEFINE onto == IF branch[l] = 0 THEN branch[Default] ELSE branch[l]
               c == Made("work", l, onto, 0, commits[onto].tree \cup {NewOid}, {})
    <2>1. onto \in Oid /\ Wrote(l, c)  BY <1>3, ContributeWrites
    <2> HIDE DEF onto
    <2>2. c.onto = onto /\ c.merged = 0 /\ c.kind = "work" /\ c.tree = commits[onto].tree \cup {NewOid}
      BY DEF Made
    <2> HIDE DEF c
    <2>3. commits[onto].tree = Work(Anc(onto))  BY <1>0, <2>1, TreeIsWork
    <2> QED  BY <1>0, <1>2, <2>1, <2>2, <2>3, WroteLosesNothing
  <1>4. ASSUME NEW l \in Leaves, NEW p \in Maintainers, Accept(p, l)  PROVE NothingLost'
    <2> DEFINE c == Made("mark", l, branch[l], 0, commits[branch[l]].tree, {})
    <2>1. branch[l] \in Oid /\ Wrote(l, c)  BY <1>4, AcceptWrites
    <2>2. c.onto = branch[l] /\ c.merged = 0 /\ c.kind = "mark" /\ c.tree = commits[branch[l]].tree
      BY DEF Made
    <2> HIDE DEF c
    <2>3. commits[branch[l]].tree = Work(Anc(branch[l]))  BY <1>0, <2>1, TreeIsWork
    <2> QED  BY <1>0, <1>2, <2>1, <2>2, <2>3, WroteLosesNothing
  <1>5. ASSUME NEW p \in Procs, MergeLeaf(p) \/ MergeSeries(p)  PROVE NothingLost'
    <2>1. /\ branch[Own(p)] \in Oid /\ job[p].commit \in Oid /\ Own(p) \in Trees
          /\ UNCHANGED commits \/ \E kind \in {"accept", "record"}, names \in SUBSET Row :
               Wrote(Own(p), Joined(p, kind, names))
      BY <1>0, <1>5, MergeWrites, Refs DEF TypeOK, Job, Own
    <2>2. ASSUME NEW kind \in {"accept", "record"}, NEW names \in SUBSET Row,
                 Wrote(Own(p), Joined(p, kind, names))
          PROVE  NothingLost'
      <3> DEFINE c == Joined(p, kind, names)
      <3>1. /\ c.onto = branch[Own(p)] /\ c.merged = job[p].commit /\ c.kind = kind
            /\ c.tree = commits[branch[Own(p)]].tree \cup commits[job[p].commit].tree
        BY DEF Joined, Made
      <3>2. Wrote(Own(p), c)  BY <2>2
      <3> HIDE DEF c
      <3>3. /\ commits[branch[Own(p)]].tree = Work(Anc(branch[Own(p)]))
            /\ commits[job[p].commit].tree = Work(Anc(job[p].commit))
        BY <1>0, <2>1, TreeIsWork
      <3> QED  BY <1>0, <2>1, <3>1, <3>2, <3>3, WroteLosesNothing
    <2> QED  BY <1>1, <2>1, <2>2
  <1>6. Moves => UNCHANGED commits  BY MovedTo
  <1> QED  BY <1>1, <1>3, <1>4, <1>5, <1>6, StepKinds DEF Writes, Still

LEMMA AcceptedKept ==
  ASSUME TypeOK, Store, Extends, NEW row, row.tip \in Oid, Accepted(row)
  PROVE  /\ row.tip \in Oid' /\ Accepted(row)'
         /\ \E m \in AncNext(row.tip) : commits'[m].kind = "mark" /\ commits'[m].of = row.leaf
  <1>1. AncNext(row.tip) = Anc(row.tip) /\ row.tip \in Oid'  BY ExtendsFacts
  <1>2. Anc(row.tip) \subseteq Oid  BY AncFacts
  <1>3. \E m \in AncNext(row.tip) : commits'[m].kind = "mark" /\ commits'[m].of = row.leaf
    BY <1>1, <1>2 DEF Accepted, Extends
  <1> QED  BY <1>1, <1>3 DEF Accepted, Anc, AncNext

LEMMA RecordsNext ==
  ASSUME SeatInv, [Next]_vars
  PROVE  RecordsContainTheirLeaves'
  <1>0. /\ TypeOK /\ Store /\ TipsRead /\ RecordsContainTheirLeaves
        /\ Extends
    BY NextGrows DEF SeatInv, Grows
  <1> DEFINE Contained(c) ==
        \A row \in commits'[c].names : row.tip \in commits'[c].anc /\ row.tip \in Oid /\ Accepted(row)
  <1>1. \A c \in Oid : Contained(c)
    <2> SUFFICES ASSUME NEW c \in Oid, NEW row \in commits[c].names
                 PROVE  row.tip \in commits[c].anc /\ row.tip \in Oid /\ Accepted(row)
      BY <1>0 DEF Extends
    <2>1. row.tip \in commits[c].anc /\ row.tip \in Oid  BY <1>0 DEF RecordsContainTheirLeaves, Store
    <2> QED  BY <1>0, <2>1 DEF RecordsContainTheirLeaves, Accepted
  <1>2. ASSUME NEW b \in Trees \cup Leaves, NEW c, Wrote(b, c), c.names = {}
        PROVE  \A d \in Oid' : Contained(d)
    BY <1>1, <1>2 DEF Wrote
  <1>3. ASSUME NEW p \in Integrators, MergeSeries(p), Wrote(Mainline, Joined(p, "record", job[p].tips))
        PROVE  \A d \in Oid' : Contained(d)
    <2> DEFINE c == Joined(p, "record", job[p].tips)
    <2>1. c.onto = branch[Own(p)] /\ c.merged = job[p].commit /\ c.names = job[p].tips
      BY DEF Joined, Made
    <2>2. Wrote(Mainline, c)  BY <1>3
    <2> HIDE DEF c
    <2>3. Own(p) = Mainline  BY <1>3, MergeWrites DEF Procs
    <2>4. pc[p] = "merge"  BY <1>3 DEF MergeSeries
    <2>5. Contained(NewOid)
      <3> SUFFICES ASSUME NEW row \in job[p].tips
                   PROVE  row.tip \in c.anc /\ row.tip \in Oid /\ Accepted(row)
        BY <2>1, <2>2 DEF Wrote
      <3>1. /\ row.tip \in Oid /\ Accepted(row)
            /\ row.tip \in Anc(job[p].commit) \cup Anc(branch[Mainline])
        BY <1>0, <2>4 DEF TipsRead, TipsFor
      <3> QED  BY <2>1, <2>2, <2>3, <3>1 DEF Wrote
    <2> QED  BY <1>1, <2>2, <2>5 DEF Wrote
  <1>4. \A c \in Oid' : Contained(c)
    <2>1. ASSUME UNCHANGED commits  PROVE Oid' = Oid
      BY <2>1 DEF Oid
    <2>2. ASSUME NEW l \in Leaves, Contribute(l)  PROVE \A c \in Oid' : Contained(c)
      <3> DEFINE onto == IF branch[l] = 0 THEN branch[Default] ELSE branch[l]
      <3>1. Made("work", l, onto, 0, commits[onto].tree \cup {NewOid}, {}).names = {}  BY DEF Made
      <3> HIDE DEF Contained
      <3> QED  BY <1>2, <2>2, <3>1, ContributeWrites
    <2>3. ASSUME NEW l \in Leaves, NEW p \in Maintainers, Accept(p, l)  PROVE \A c \in Oid' : Contained(c)
      <3>1. Made("mark", l, branch[l], 0, commits[branch[l]].tree, {}).names = {}  BY DEF Made
      <3> HIDE DEF Contained
      <3> QED  BY <1>2, <2>3, <3>1, AcceptWrites
    <2>4. ASSUME NEW p \in Procs, MergeLeaf(p) \/ MergeSeries(p)
          PROVE  \/ UNCHANGED commits
                 \/ \A c \in Oid' : Contained(c)
      <3>1. Joined(p, "accept", {}).names = {} /\ Subsystem \in Trees  BY DEF Joined, Made, Trees
      <3> HIDE DEF Contained
      <3> QED  BY <1>2, <1>3, <2>4, <3>1, MergeWrites
    <2>5. Moves => UNCHANGED commits  BY MovedTo
    <2> HIDE DEF Contained
    <2> QED  BY <1>1, <2>1, <2>2, <2>3, <2>4, <2>5, StepKinds DEF Writes, Still
  <1> SUFFICES ASSUME NEW c \in Oid', NEW row \in commits'[c].names
               PROVE  /\ row.tip \in commits'[c].anc
                      /\ \E m \in AncNext(row.tip) : commits'[m].kind = "mark" /\ commits'[m].of = row.leaf
    BY DEF RecordsContainTheirLeaves, Anc, AncNext
  <1>5. row.tip \in commits'[c].anc /\ row.tip \in Oid /\ Accepted(row)  BY <1>4
  <1> QED  BY <1>0, <1>5, AcceptedKept
-----------------------------------------------------------------------------
(* Worktrees. *)

\* A step keeps what its call holds or less, takes a free tree, or gives one back.
LEMMA StepHolds ==
  ASSUME SeatInv, NEW p \in Procs, Step(p)
  PROVE  \/ worktrees' = worktrees /\ (Holds(p)' => Holds(p) /\ job'[p].tree = job[p].tree)
         \/ \E t \in Trees : t \notin worktrees /\ worktrees' = worktrees \cup {t} /\ job'[p].tree = t
         \/ Holds(p) /\ worktrees' = worktrees \ {job[p].tree} /\ ~Holds(p)'
  <1> DEFINE Kept == worktrees' = worktrees /\ (Holds(p)' => Holds(p) /\ job'[p].tree = job[p].tree)
         Takes == \E t \in Trees : t \notin worktrees /\ worktrees' = worktrees \cup {t} /\ job'[p].tree = t
         Gives == Holds(p) /\ worktrees' = worktrees \ {job[p].tree} /\ ~Holds(p)'
  <1>0. /\ TypeOK /\ pc \in [Procs -> Pcs] /\ job \in [Procs -> Job] /\ job[p] \in Job
        /\ {Default, Subsystem, Mainline} = Trees
    BY Refs DEF SeatInv, TypeOK, Pcs
  <1>1. ASSUME Open(p)  PROVE Kept \/ Takes
    BY <1>0, <1>1 DEF Open, Say, Goto, Holds, Job
  <1>2. ASSUME Close(p)  PROVE Gives
    BY <1>0, <1>2 DEF Close, Goto, Holds
  <1>3. ASSUME Forward(p)  PROVE Kept \/ Takes
    BY <1>0, <1>3 DEF Forward, Say, Goto, Holds, Job
  <1>4. ASSUME Forget(p)  PROVE Kept
    BY <1>0, <1>4 DEF Forget, Goto, Holds, repoVars
  <1>5. ASSUME Advance(p) \/ MergeLeaf(p) \/ MergeSeries(p)  PROVE Kept
    BY <1>0, <1>5 DEF Advance, MergeLeaf, MergeSeries, Goto, Holds, Job
  <1>6. ASSUME \/ \E l \in Leaves : Accept(p, l)
               \/ CreateSubsystem(p) \/ CreateMainline(p)
        PROVE  Kept
    BY <1>0, <1>6 DEF Accept, CreateSubsystem, CreateMainline, Goto, Say, Holds
  <1>7. ASSUME \/ \E s \in Series : HandOff(p, s)
               \/ ReadLeaf(p) \/ LookUp(p) \/ Anchor(p)
        PROVE  Kept
    BY <1>0, <1>7 DEF HandOff, ReadLeaf, LookUp, Anchor, Goto, Say, Holds, repoVars
  <1> HIDE DEF Kept, Takes, Gives
  <1>8. MaintainerStep(p) => Kept \/ Takes
    BY <1>3, <1>5, <1>6 DEF MaintainerStep
  <1>9. IntegratorStep(p) => Kept  BY <1>5, <1>6, <1>7 DEF IntegratorStep
  <1>10. CommonStep(p) => Kept \/ Takes \/ Gives
    BY <1>1, <1>2, <1>4 DEF CommonStep, Return, Crash
  <1>11. Kept \/ Takes \/ Gives  BY <1>8, <1>9, <1>10 DEF Step
  <1> QED  BY <1>11 DEF Kept, Takes, Gives

LEMMA ExclusiveNext ==
  ASSUME SeatInv, [Next]_vars
  PROVE  Exclusive'
  <1>0. TypeOK /\ Exclusive  BY DEF SeatInv
  <1>1. ASSUME UNCHANGED <<worktrees, onDefault, pc, job>>  PROVE Exclusive'
    BY <1>0, <1>1 DEF Exclusive, Holds
  <1>2. ASSUME NEW p \in Procs, Step(p)  PROVE Exclusive'
    <2>1. /\ \A q \in Procs : q # p => pc'[q] = pc[q] /\ job'[q] = job[q]
          /\ onDefault' = onDefault
      BY <1>2, StepAlone, StepKeeps DEF Alone
    <2>2. \A q \in Procs : q # p => (Holds(q)' <=> Holds(q)) /\ job'[q].tree = job[q].tree
      BY <2>1 DEF Holds
    <2>3. /\ \A q \in Procs : Holds(q) => job[q].tree \in worktrees
          /\ \A q, r \in Procs : Holds(q) /\ Holds(r) /\ job[q].tree = job[r].tree => q = r
      BY <1>0 DEF Exclusive
    <2> SUFFICES /\ \A q \in Procs : Holds(q)' => job'[q].tree \in worktrees'
                 /\ \A q, r \in Procs : Holds(q)' /\ Holds(r)' /\ job'[q].tree = job'[r].tree => q = r
      BY DEF Exclusive
    <2>4. CASE worktrees' = worktrees /\ (Holds(p)' => Holds(p) /\ job'[p].tree = job[p].tree)
      BY <2>2, <2>3, <2>4
    <2>5. ASSUME NEW t \in Trees, t \notin worktrees, worktrees' = worktrees \cup {t}, job'[p].tree = t
          PROVE  /\ \A q \in Procs : Holds(q)' => job'[q].tree \in worktrees'
                 /\ \A q, r \in Procs : Holds(q)' /\ Holds(r)' /\ job'[q].tree = job'[r].tree => q = r
      BY <2>2, <2>3, <2>5
    <2>6. CASE Holds(p) /\ worktrees' = worktrees \ {job[p].tree} /\ ~Holds(p)'
      BY <2>2, <2>3, <2>6
    <2> QED  BY <1>2, <2>4, <2>5, <2>6, StepHolds
  <1>3. (\E l \in Leaves : Contribute(l)) \/ UNCHANGED vars => UNCHANGED <<worktrees, onDefault, pc, job>>
    BY DEF Contribute, vars, repoVars
  <1> QED  BY <1>1, <1>2, <1>3, NextSteps

\* Where a step takes its call.
LEMMA StepTo ==
  ASSUME SeatInv, NEW p \in Procs, Step(p)
  PROVE  /\ p \in Maintainers =>
              /\ pc'[p] \notin IntegratorSteps /\ job'[p].said # "handed_off"
              /\ pc'[p] = "open" => branch'[Subsystem] # 0
         /\ p \in Integrators =>
              /\ pc'[p] \notin MaintainerSteps /\ job'[p].said \notin {"merged", "accepted"}
              /\ pc'[p] = "open" => branch'[Mainline] # 0
         /\ pc'[p] = "merge" => Open(p)
  <1> DEFINE AsMaintainer == /\ pc'[p] \notin IntegratorSteps /\ job'[p].said # "handed_off"
                             /\ pc'[p] = "open" => branch'[Subsystem] # 0
                             /\ pc'[p] # "merge"
             AsIntegrator == /\ pc'[p] \notin MaintainerSteps /\ job'[p].said \notin {"merged", "accepted"}
                             /\ pc'[p] = "open" => branch'[Mainline] # 0
                             /\ pc'[p] # "merge"
  <1>0. /\ TypeOK /\ Roles /\ pc \in [Procs -> Pcs] /\ job \in [Procs -> Job] /\ job[p] \in Job
        /\ branch \in [Trees \cup Leaves -> Oid \cup {0}]
        /\ {Default, Subsystem, Mainline} = Trees
        /\ branch[Default] # 0
    BY Refs DEF SeatInv, TypeOK, Pcs
  <1>1. \A t \in Trees : branch[t] # 0 => branch'[t] # 0
    <2>1. [Next]_vars
      BY <1>0, Zenon DEF Next, Step, MaintainerStep, IntegratorStep, CommonStep, Procs
    <2> QED  BY <2>1, NextGrows DEF Grows
  <1>2. p \in Maintainers \/ p \in Integrators  BY DEF Procs
  <1>3. p \in Maintainers => p \notin Integrators  BY ProcsAssumption
  <1>4. ASSUME p \in Maintainers, NEW l \in Leaves, Accept(p, l)  PROVE AsMaintainer
    BY <1>0, <1>1, <1>4 DEF Accept, Goto, Roles, IntegratorSteps, Job
  <1>5. ASSUME p \in Maintainers, CreateSubsystem(p)  PROVE AsMaintainer
    BY <1>0, <1>5 DEF CreateSubsystem, Goto, Say, Roles, IntegratorSteps, Job
  <1>6. ASSUME p \in Maintainers, MergeLeaf(p)  PROVE AsMaintainer
    <2>1. job'[p].said \in {"merged", "git_error"} /\ pc'[p] = "close"
      BY <1>0, <1>6 DEF MergeLeaf, Goto, Job
    <2> QED  BY <2>1 DEF IntegratorSteps
  <1>7. ASSUME p \in Maintainers, Forward(p) \/ Advance(p)  PROVE AsMaintainer
    BY <1>0, <1>7 DEF Forward, Advance, Goto, Say, Roles, IntegratorSteps, Job
  <1>8. ASSUME p \in Integrators, NEW s \in Series, HandOff(p, s)  PROVE AsIntegrator
    BY <1>0, <1>8 DEF HandOff, Goto, Roles, MaintainerSteps, Job
  <1>9. ASSUME p \in Integrators, ReadLeaf(p)  PROVE AsIntegrator
    <2>1. /\ pc'[p] \in {"done", "leaves", "lookup"}
          /\ job'[p].said \in {job[p].said, "series_incomplete"}
      BY <1>0, <1>9 DEF ReadLeaf, Goto, Say, Job
    <2> QED  BY <1>0, <1>9, <2>1 DEF Roles, MaintainerSteps
  <1>10. ASSUME p \in Integrators, LookUp(p)  PROVE AsIntegrator
    BY <1>0, <1>10 DEF LookUp, Goto, Say, Roles, MaintainerSteps, Job
  <1>11. ASSUME p \in Integrators, Anchor(p)  PROVE AsIntegrator
    <2>1. \/ \E a \in {"mainline_base_missing", "already-current"} : Say(p, a) /\ UNCHANGED branch
          \/ Goto(p, "open") /\ UNCHANGED job /\ branch[Mainline] # 0 /\ UNCHANGED branch
          \/ Goto(p, "begin") /\ UNCHANGED branch /\ \E r : job' = [job EXCEPT ![p].result = r]
      BY <1>11 DEF Anchor, repoVars
    <2> QED  BY <1>0, <1>11, <2>1 DEF Goto, Say, Roles, MaintainerSteps, Job
  <1>12. ASSUME p \in Integrators, CreateMainline(p)  PROVE AsIntegrator
    <2>1. job[p].result # 0
      <3>1. job[p].result \in Oid  BY <1>12 DEF SeatInv, TipsRead, TipsFor, CreateMainline
      <3> QED  BY <1>0, <3>1, Refs
    <2> QED  BY <1>0, <1>12, <2>1 DEF CreateMainline, Goto, Say, Roles, MaintainerSteps, Job
  <1>13. ASSUME p \in Integrators, MergeSeries(p)  PROVE AsIntegrator
    <2>1. job'[p].said = "handed_off" /\ pc'[p] = "close"
      BY <1>0, <1>13 DEF MergeSeries, Goto, Job
    <2> QED  BY <2>1 DEF MaintainerSteps
  <1>14. ASSUME Forget(p)  PROVE AsMaintainer /\ AsIntegrator
    BY <1>0, <1>14, NoJobTyped DEF Forget, Goto, MaintainerSteps, IntegratorSteps
  <1>15. ASSUME Close(p)
         PROVE  (p \in Maintainers => AsMaintainer) /\ (p \in Integrators => AsIntegrator)
    BY <1>0, <1>15 DEF Close, Goto, Roles, MaintainerSteps, IntegratorSteps
  <1>16. ASSUME Open(p)
         PROVE  /\ p \in Maintainers => pc'[p] \notin IntegratorSteps \cup {"open"} /\ job'[p].said # "handed_off"
                /\ p \in Integrators => pc'[p] \notin MaintainerSteps \cup {"open"} /\ job'[p].said \notin {"merged", "accepted"}
    <2>1. pc'[p] \in {"merge", "done"} /\ job'[p].said \in {job[p].said, "git_error"}
      BY <1>0, <1>16 DEF Open, Goto, Say, Job
    <2> QED  BY <1>0, <2>1 DEF Roles, MaintainerSteps, IntegratorSteps
  <1> HIDE DEF AsMaintainer, AsIntegrator
  <1>17. \/ p \in Maintainers /\ AsMaintainer
         \/ p \in Integrators /\ AsIntegrator
         \/ Open(p)
    <2>1. p \in Maintainers /\ MaintainerStep(p) => AsMaintainer
      BY <1>4, <1>5, <1>6, <1>7 DEF MaintainerStep
    <2>2. p \in Integrators /\ IntegratorStep(p) => AsIntegrator
      BY <1>8, <1>9, <1>10, <1>11, <1>12, <1>13 DEF IntegratorStep
    <2>3. CommonStep(p) => Open(p) \/ ((p \in Maintainers => AsMaintainer) /\ (p \in Integrators => AsIntegrator))
      BY <1>14, <1>15 DEF CommonStep, Return, Crash
    <2> QED  BY <1>2, <2>1, <2>2, <2>3 DEF Step
  <1> QED  BY <1>3, <1>16, <1>17 DEF AsMaintainer, AsIntegrator

LEMMA RolesNext ==
  ASSUME SeatInv, [Next]_vars
  PROVE  Roles'
  <1>0. TypeOK /\ Roles /\ Subsystem \in Trees /\ Mainline \in Trees
    BY Refs DEF SeatInv
  <1>1. \A t \in Trees : branch[t] # 0 => branch'[t] # 0  BY NextGrows DEF Grows
  <1>2. Maintainers \subseteq Procs /\ Integrators \subseteq Procs  BY DEF Procs
  <1>3. ASSUME NEW p \in Procs, Step(p)  PROVE Roles'
    <2>1. \A q \in Procs : q # p => pc'[q] = pc[q] /\ job'[q] = job[q]
      BY <1>3, StepAlone DEF Alone
    <2> QED  BY <1>0, <1>1, <1>2, <1>3, <2>1, StepTo DEF Roles
  <1>4. ASSUME UNCHANGED <<pc, job>>  PROVE Roles'
    BY <1>0, <1>1, <1>4 DEF Roles
  <1>5. (\E l \in Leaves : Contribute(l)) \/ UNCHANGED vars => UNCHANGED <<pc, job>>
    BY DEF Contribute, vars
  <1> QED  BY <1>3, <1>4, <1>5, NextSteps

\* A branch that is merged into moves only under the call that has it.
LEMMA BranchMoves ==
  ASSUME SeatInv, [Next]_vars, NEW t \in {Subsystem, Mainline}, branch'[t] # branch[t], branch[t] # 0
  PROVE  \E p \in Procs : pc[p] = "merge" /\ Own(p) = t /\ Step(p) /\ pc'[p] # "merge"
  <1>0. TypeOK /\ {Default, Subsystem, Mainline} = Trees  BY Refs DEF SeatInv
  <1>1. t \notin Leaves /\ t # Default /\ t \in Trees \cup Leaves
    BY <1>0, TreesAssumption, TreesDistinct
  <1>2. CASE Still  BY <1>2 DEF Still
  <1>3. CASE Moves
    <2>1. ASSUME NEW p, CreateSubsystem(p)  PROVE branch' = branch \/ (branch[Subsystem] = 0 /\ branch'[t] = branch[t])
      BY <1>0, <1>1, <2>1, TreesDistinct DEF CreateSubsystem, TypeOK
    <2>2. ASSUME NEW p, Advance(p)  PROVE branch'[t] = branch[t]
      BY <1>0, <1>1, <2>2 DEF Advance, TypeOK
    <2>3. ASSUME NEW p, CreateMainline(p)  PROVE branch' = branch \/ (branch[Mainline] = 0 /\ branch'[t] = branch[t])
      BY <1>0, <1>1, <2>3, TreesDistinct DEF CreateMainline, TypeOK
    <2> QED  BY <1>3, <2>1, <2>2, <2>3 DEF Moves
  <1>4. CASE Writes
    <2>1. ASSUME NEW l \in Leaves, Contribute(l)  PROVE branch'[t] = branch[t]
      BY <1>1, <2>1, ContributeWrites DEF Wrote
    <2>2. ASSUME NEW l \in Leaves, NEW p \in Maintainers, Accept(p, l)  PROVE branch'[t] = branch[t]
      BY <1>1, <2>2, AcceptWrites DEF Wrote
    <2>3. ASSUME NEW p \in Procs, MergeLeaf(p) \/ MergeSeries(p), branch'[t] # branch[t]
          PROVE  pc[p] = "merge" /\ Own(p) = t /\ Step(p) /\ pc'[p] # "merge"
      <3>1. Own(p) = t /\ Step(p)
        <4>1. \/ p \in Maintainers /\ MergeLeaf(p) /\ Own(p) = Subsystem
                 /\ Wrote(Subsystem, Joined(p, "accept", {}))
              \/ p \in Integrators /\ MergeSeries(p) /\ Own(p) = Mainline
                 /\ Wrote(Mainline, Joined(p, "record", job[p].tips))
          BY <2>3, MergeWrites
        <4>2. Own(p) = t
          BY <1>1, <2>3, <4>1 DEF Wrote
        <4> QED  BY <4>1, <4>2 DEF Step, MaintainerStep, IntegratorStep
      <3>2. pc[p] = "merge" /\ pc' = [pc EXCEPT ![p] = "close"]
        BY <2>3 DEF MergeLeaf, MergeSeries, Goto
      <3> QED  BY <1>0, <3>1, <3>2 DEF TypeOK
    <2> QED  BY <1>4, <2>1, <2>2, <2>3 DEF Writes
  <1> QED  BY <1>2, <1>3, <1>4, StepKinds

LEMMA CheckedOutNext ==
  ASSUME SeatInv, [Next]_vars
  PROVE  CheckedOut'
  <1>0. /\ TypeOK /\ CheckedOut /\ Exclusive /\ Roles
        /\ job \in [Procs -> Job] /\ pc \in [Procs -> Pcs]
    BY DEF SeatInv, TypeOK, Pcs
  <1> SUFFICES ASSUME NEW q \in Procs, pc'[q] = "merge"
               PROVE  job'[q].tree = Own(q) /\ job'[q].at # 0 /\ job'[q].at = branch'[Own(q)]
    BY DEF CheckedOut, Own
  <1>1. Own(q) \in {Subsystem, Mainline}  BY DEF Own
  <1>2. ASSUME pc[q] = "merge", job'[q] = job[q]
        PROVE  job'[q].tree = Own(q) /\ job'[q].at # 0 /\ job'[q].at = branch'[Own(q)]
    <2>1. job[q].tree = Own(q) /\ job[q].at # 0 /\ job[q].at = branch[Own(q)]
      BY <1>0, <1>2 DEF CheckedOut
    <2>2. branch'[Own(q)] = branch[Own(q)]
      <3> SUFFICES ASSUME branch'[Own(q)] # branch[Own(q)]  PROVE FALSE
        OBVIOUS
      <3>1. PICK p \in Procs : pc[p] = "merge" /\ Own(p) = Own(q) /\ Step(p) /\ pc'[p] # "merge"
        BY <1>1, <2>1, BranchMoves
      <3>2. job[p].tree = Own(p) /\ Holds(p) /\ Holds(q)
        BY <1>0, <1>2, <3>1 DEF CheckedOut, Holds
      <3>3. p = q  BY <1>0, <2>1, <3>1, <3>2 DEF Exclusive
      <3> QED  BY <3>1, <3>3
    <2> QED  BY <1>2, <2>1, <2>2
  <1>3. ASSUME NEW p \in Procs, Step(p), p # q
        PROVE  pc[q] = "merge" /\ job'[q] = job[q]
    BY <1>3, StepAlone DEF Alone
  <1>4. ASSUME Step(q)
        PROVE  job'[q].tree = Own(q) /\ job'[q].at # 0 /\ job'[q].at = branch'[Own(q)]
    <2>1. Open(q)  BY <1>4, StepTo
    <2>2. branch[Own(q)] # 0 /\ branch' = branch
      BY <1>0, <2>1 DEF Roles, Own, Open, Procs
    <2>3. job' = [job EXCEPT ![q].tree = Own(q), ![q].at = branch[Own(q)]]
      <3>1. Say(q, "git_error") => pc'[q] = "done"  BY <1>0 DEF Say, Goto
      <3> QED  BY <2>1, <3>1 DEF Open, Own
    <2> QED  BY <1>0, <2>2, <2>3 DEF Job
  <1>5. (\E l \in Leaves : Contribute(l)) \/ UNCHANGED vars => pc[q] = "merge" /\ job'[q] = job[q]
    BY DEF Contribute, vars
  <1> QED  BY <1>2, <1>3, <1>4, <1>5, NextSteps
-----------------------------------------------------------------------------
(* The lines of the trees. *)

TreesStay == \A t \in Trees : branch'[t] = branch[t]
SubsystemMade ==
  /\ branch[Subsystem] = 0 /\ branch'[Subsystem] = branch[Default] /\ UNCHANGED commits
  /\ branch'[Default] = branch[Default] /\ branch'[Mainline] = branch[Mainline]
DefaultForwarded(p) ==
  /\ p \in Maintainers /\ Advance(p) /\ Merged(p) /\ UNCHANGED commits
  /\ branch[Default] \in Anc(job[p].result) /\ branch'[Default] = job[p].result
  /\ branch'[Subsystem] = branch[Subsystem] /\ branch'[Mainline] = branch[Mainline]
MainlineMade(p) ==
  /\ p \in Integrators /\ CreateMainline(p) /\ branch[Mainline] = 0 /\ UNCHANGED commits
  /\ branch'[Mainline] = job[p].result
  /\ branch'[Subsystem] = branch[Subsystem] /\ branch'[Default] = branch[Default]
SubsystemMerged(p) ==
  /\ p \in Maintainers /\ MergeLeaf(p) /\ Wrote(Subsystem, Joined(p, "accept", {}))
  /\ branch[Subsystem] \in Oid /\ job[p].commit \in Oid /\ Own(p) = Subsystem
  /\ branch'[Default] = branch[Default] /\ branch'[Mainline] = branch[Mainline]
MainlineMerged(p) ==
  /\ p \in Integrators /\ MergeSeries(p) /\ Wrote(Mainline, Joined(p, "record", job[p].tips))
  /\ branch[Mainline] \in Oid /\ job[p].commit \in Oid /\ Own(p) = Mainline
  /\ branch'[Default] = branch[Default] /\ branch'[Subsystem] = branch[Subsystem]

LEMMA TreesMove ==
  ASSUME SeatInv, [Next]_vars
  PROVE  \/ TreesStay \/ SubsystemMade
         \/ \E p \in Procs : \/ DefaultForwarded(p) \/ MainlineMade(p)
                            \/ SubsystemMerged(p) \/ MainlineMerged(p)
  <1>0. /\ TypeOK /\ Lined /\ {Default, Subsystem, Mainline} = Trees
        /\ branch \in [Trees \cup Leaves -> Oid \cup {0}]
        /\ Maintainers \subseteq Procs /\ Integrators \subseteq Procs
    BY Refs DEF SeatInv, TypeOK, Procs
  <1>1. \A t \in Trees : t \notin Leaves  BY <1>0, TreesAssumption
  <1>2. CASE Still  BY <1>2 DEF Still, TreesStay
  <1>3. CASE Moves
    <2>1. ASSUME NEW p \in Maintainers, CreateSubsystem(p)  PROVE TreesStay \/ SubsystemMade
      BY <1>0, <2>1, TreesDistinct DEF CreateSubsystem, TreesStay, SubsystemMade
    <2>2. ASSUME NEW p \in Maintainers, Advance(p)  PROVE TreesStay \/ DefaultForwarded(p)
      <3>1. Merged(p)  BY <1>0, <2>2 DEF Lined, Advance
      <3>2. CASE branch[Default] \in Anc(job[p].result)
        BY <1>0, <2>2, <3>1, <3>2, TreesDistinct DEF Advance, DefaultForwarded
      <3>3. CASE branch[Default] \notin Anc(job[p].result)
        BY <1>0, <2>2, <3>3 DEF Advance, TreesStay
      <3> QED  BY <3>2, <3>3
    <2>3. ASSUME NEW p \in Integrators, CreateMainline(p)  PROVE TreesStay \/ MainlineMade(p)
      BY <1>0, <2>3, TreesDistinct DEF CreateMainline, TreesStay, MainlineMade
    <2> QED  BY <1>0, <1>3, <2>1, <2>2, <2>3 DEF Moves
  <1>4. CASE Writes
    <2>1. ASSUME NEW l \in Leaves, Contribute(l)  PROVE TreesStay
      BY <1>1, <2>1, ContributeWrites DEF Wrote, TreesStay
    <2>2. ASSUME NEW l \in Leaves, NEW p \in Maintainers, Accept(p, l)  PROVE TreesStay
      BY <1>1, <2>2, AcceptWrites DEF Wrote, TreesStay
    <2>3. ASSUME NEW p \in Procs, MergeLeaf(p) \/ MergeSeries(p)
          PROVE  TreesStay \/ SubsystemMerged(p) \/ MainlineMerged(p)
      <3>1. ASSUME NEW b \in Trees, NEW c, Wrote(b, c)  PROVE \A t \in Trees : t # b => branch'[t] = branch[t]
        BY <3>1 DEF Wrote
      <3> QED
        BY <1>0, <2>3, <3>1, MergeWrites, TreesDistinct DEF TreesStay, SubsystemMerged, MainlineMerged
    <2> QED  BY <1>4, <2>1, <2>2, <2>3 DEF Writes
  <1> QED  BY <1>2, <1>3, <1>4, StepKinds

\* What a merge has behind it.
LEMMA JoinedHas ==
  ASSUME NEW p \in Procs, NEW kind, NEW names, NEW b, Wrote(b, Joined(p, kind, names))
  PROVE  /\ AncNext(NewOid) = {NewOid} \cup Anc(branch[Own(p)]) \cup Anc(job[p].commit)
         /\ LineNext(NewOid) = {NewOid} \cup FirstParents(branch[Own(p)])
         /\ commits'[NewOid].kind = kind /\ commits'[NewOid].of = job[p].of
         /\ branch'[b] = NewOid /\ NewOid # 0
  <1> DEFINE c == Joined(p, kind, names)
  <1>1. c.kind = kind /\ c.of = job[p].of /\ c.onto = branch[Own(p)] /\ c.merged = job[p].commit
    BY DEF Joined, Made
  <1>2. Wrote(b, c)  OBVIOUS
  <1> HIDE DEF c
  <1> QED  BY <1>1, <1>2 DEF Wrote, AncNext, LineNext

LEMMA AncPrime ==
  ASSUME NEW b \in Trees \cup Leaves
  PROVE  /\ Anc(branch[b])' = AncNext(branch'[b])
         /\ FirstParents(branch[b])' = LineNext(branch'[b])
  BY DEF Anc, AncNext, FirstParents, LineNext

LEMMA SubsystemFirstNext ==
  ASSUME SeatInv, [Next]_vars
  PROVE  SubsystemFirst'
  <1>0. /\ TypeOK /\ Store /\ SubsystemFirst /\ Lined /\ TipsRead
        /\ {Default, Subsystem, Mainline} = Trees
        /\ \A b \in Trees \cup Leaves : branch[b] \in Oid \cup {0}
        /\ branch[Default] \in Oid /\ 0 \notin Oid
    BY Refs DEF SeatInv
  <1>1. Grows /\ \A c \in Oid \cup {0} : AncNext(c) = Anc(c)
    BY <1>0, NextGrows, ExtendsFacts DEF Grows
  <1>2. commits'[1].kind = "base"
    <2>1. 1 \in Oid  BY <1>0 DEF Oid, TypeOK
    <2> QED  BY <1>0, <1>1, <2>1 DEF SubsystemFirst, Grows, Extends
  <1> DEFINE First == IF branch'[Subsystem] = 0
                      THEN AncNext(branch'[Default]) \cup AncNext(branch'[Mainline]) \subseteq {1}
                      ELSE AncNext(branch'[Default]) \subseteq AncNext(branch'[Subsystem])
  <1>3. ASSUME TreesStay  PROVE First
    BY <1>0, <1>1, <1>3 DEF TreesStay, SubsystemFirst
  <1>4. ASSUME SubsystemMade  PROVE First
    BY <1>0, <1>1, <1>4 DEF SubsystemMade
  <1>5. ASSUME NEW p \in Procs, DefaultForwarded(p)  PROVE First
    <2>1. job[p].result \in Oid /\ job[p].result \in Anc(branch[Subsystem])
      BY <1>0, <1>5 DEF DefaultForwarded, Lined, Behind
    <2>2. branch[Subsystem] # 0  BY <2>1 DEF Anc
    <2>3. Anc(job[p].result) \subseteq Anc(branch[Subsystem])
      BY <1>0, <2>1, AncFacts
    <2> QED  BY <1>0, <1>1, <1>5, <2>1, <2>2, <2>3 DEF DefaultForwarded
  <1>6. ASSUME NEW p \in Procs, MainlineMade(p) \/ MainlineMerged(p)  PROVE First
    <2>1. branch[Subsystem] # 0
      BY <1>0, <1>6 DEF MainlineMade, MainlineMerged, TipsRead, TipsFor, CreateMainline, MergeSeries
    <2> QED  BY <1>0, <1>1, <1>6, <2>1 DEF MainlineMade, MainlineMerged, SubsystemFirst
  <1>7. ASSUME NEW p \in Procs, SubsystemMerged(p)  PROVE First
    <2>1. AncNext(branch'[Subsystem]) = {NewOid} \cup Anc(branch[Subsystem]) \cup Anc(job[p].commit)
          /\ branch'[Subsystem] # 0
      BY <1>7, JoinedHas DEF SubsystemMerged
    <2>2. branch[Subsystem] # 0  BY <1>0, <1>7 DEF SubsystemMerged
    <2> QED  BY <1>0, <1>1, <1>7, <2>1, <2>2 DEF SubsystemMerged, SubsystemFirst
  <1>8. First  BY <1>3, <1>4, <1>5, <1>6, <1>7, TreesMove
  <1> QED  BY <1>0, <1>2, <1>8, AncPrime DEF SubsystemFirst

LEMMA OwnCommitsNext ==
  ASSUME SeatInv, [Next]_vars
  PROVE  OwnCommits'
  <1>0. /\ TypeOK /\ Store /\ OwnCommits
        /\ \A b \in Trees \cup Leaves : branch[b] \in Oid \cup {0}
        /\ fork \in [Leaves -> Oid \cup {0}]
    BY Refs DEF SeatInv, TypeOK
  <1>1. Extends /\ \A c \in Oid \cup {0} : AncNext(c) = Anc(c) /\ Anc(c) \subseteq Oid
    BY <1>0, NextGrows, ExtendsFacts, AncFacts DEF Grows
  <1> DEFINE Owned(l) == \A c \in AncNext(branch'[l]) \ AncNext(fork'[l]) : commits'[c].of = l
  <1>2. ASSUME NEW l \in Leaves, branch'[l] = branch[l], fork'[l] = fork[l]  PROVE Owned(l)
    BY <1>0, <1>1, <1>2 DEF OwnCommits, Extends
  <1>3. ASSUME NEW l \in Leaves, NEW c, Wrote(l, c), c.of = l, c.merged = 0,
               \/ c.onto = branch[l] /\ fork'[l] = fork[l]
               \/ fork'[l] = c.onto
        PROVE  Owned(l)
    <2>1. AncNext(branch'[l]) = {NewOid} \cup Anc(c.onto) /\ commits'[NewOid].of = l
      BY <1>3 DEF Wrote, AncNext, Anc
    <2>2. c.onto \in Oid  BY <1>3 DEF Wrote
    <2> QED  BY <1>0, <1>1, <1>3, <2>1, <2>2 DEF OwnCommits, Extends
  <1>4. ASSUME NEW l \in Leaves, NEW c, Wrote(l, c)
        PROVE  \A k \in Leaves : k # l => branch'[k] = branch[k]
    BY <1>4 DEF Wrote
  <1>5. ASSUME NEW l \in Leaves, Contribute(l)  PROVE \A k \in Leaves : Owned(k)
    <2> DEFINE onto == IF branch[l] = 0 THEN branch[Default] ELSE branch[l]
               c == Made("work", l, onto, 0, commits[onto].tree \cup {NewOid}, {})
    <2>1. Wrote(l, c)  BY <1>5, ContributeWrites
    <2>2. c.of = l /\ c.merged = 0 /\ c.onto = onto  BY DEF Made
    <2>3. /\ fork'[l] = IF branch[l] = 0 THEN onto ELSE fork[l]
          /\ \A k \in Leaves : k # l => fork'[k] = fork[k]
      BY <1>0, <1>5 DEF Contribute
    <2> HIDE DEF c, Owned
    <2>4. Owned(l)
      <3>1. CASE branch[l] = 0  BY <1>3, <2>1, <2>2, <2>3, <3>1
      <3>2. CASE branch[l] # 0  BY <1>3, <2>1, <2>2, <2>3, <3>2
      <3> QED  BY <3>1, <3>2
    <2>5. ASSUME NEW k \in Leaves, k # l  PROVE Owned(k)
      BY <1>2, <1>4, <2>1, <2>3, <2>5
    <2> QED  BY <2>4, <2>5
  <1>6. ASSUME NEW l \in Leaves, NEW p \in Maintainers, Accept(p, l)  PROVE \A k \in Leaves : Owned(k)
    <2> DEFINE c == Made("mark", l, branch[l], 0, commits[branch[l]].tree, {})
    <2>1. Wrote(l, c)  BY <1>6, AcceptWrites
    <2>2. c.of = l /\ c.merged = 0 /\ c.onto = branch[l]  BY DEF Made
    <2>3. fork' = fork  BY <1>6 DEF Accept
    <2> HIDE DEF c, Owned
    <2>4. Owned(l)  BY <1>3, <2>1, <2>2, <2>3
    <2>5. ASSUME NEW k \in Leaves, k # l  PROVE Owned(k)
      BY <1>2, <1>4, <2>1, <2>3, <2>5
    <2> QED  BY <2>4, <2>5
  <1> HIDE DEF Owned
  <1>7. ASSUME Still \/ Moves \/ \E p \in Procs : MergeLeaf(p) \/ MergeSeries(p)
        PROVE  \A l \in Leaves : branch'[l] = branch[l]
    <2>1. \A t \in Trees : t \notin Leaves  BY TreesAssumption DEF Trees
    <2>2. CASE Still  BY <2>2 DEF Still
    <2>3. CASE Moves
      <3>1. PICK t \in Trees, c \in Oid : branch' = [branch EXCEPT ![t] = c]
        BY <2>3, MovedTo
      <3> QED  BY <1>0, <2>1, <3>1 DEF TypeOK
    <2>4. ASSUME NEW p \in Procs, MergeLeaf(p) \/ MergeSeries(p)
          PROVE  \A l \in Leaves : branch'[l] = branch[l]
      <3>1. ASSUME NEW b \in Trees, NEW c, Wrote(b, c)  PROVE \A l \in Leaves : branch'[l] = branch[l]
        BY <2>1, <3>1 DEF Wrote
      <3> QED  BY <2>4, <3>1, MergeWrites, <1>0, Refs
    <2> QED  BY <1>7, <2>2, <2>3, <2>4
  <1>8. \A l \in Leaves : Owned(l)
    <2>1. CASE \E l \in Leaves : Contribute(l) \/ \E p \in Maintainers : Accept(p, l)
      BY <1>5, <1>6, <2>1
    <2>2. CASE (Still \/ Moves \/ \E p \in Procs : MergeLeaf(p) \/ MergeSeries(p))
               /\ ~\E l \in Leaves : Contribute(l)
      <3>1. fork' = fork
        <4>1. UNCHANGED vars => fork' = fork  BY DEF vars, repoVars
        <4> QED  BY <2>2, <4>1, NextSteps, StepKeeps
      <3> QED  BY <1>2, <1>7, <2>2, <3>1
    <2> QED  BY <2>1, <2>2, StepKinds DEF Writes
  <1>9. \A l \in Leaves : Anc(fork[l])' = AncNext(fork'[l])  BY DEF Anc, AncNext
  <1> QED  BY <1>8, <1>9, AncPrime DEF OwnCommits, Owned
-----------------------------------------------------------------------------
(* Accepting. *)

\* What a step does to what its maintainer has merged.
LEMMA MergedStep ==
  ASSUME SeatInv, NEW p \in Maintainers, Step(p)
  PROVE  /\ pc'[p] \in {"forward", "advance"} => Merged(p)'
         /\ pc'[p] \in {"create", "open", "merge"} => job'[p].commit \in Oid'
         /\ Merged(p)' =>
              /\ job'[p].commit = job[p].commit
              /\ \/ /\ Merged(p) /\ job'[p].result = job[p].result
                    /\ job'[p].said = job[p].said \/ Advance(p)
                 \/ job'[p].said = "merged" /\ SubsystemMerged(p) /\ job'[p].result = NewOid
                 \/ /\ job'[p].said = "merged" /\ job'[p].result = branch[Subsystem] /\ Still
                    /\ branch[Subsystem] \in Oid /\ job[p].commit \in Anc(branch[Subsystem])
  <1> DEFINE Goal ==
         /\ pc'[p] \in {"forward", "advance"} => job'[p].said \in {"merged", "accepted"}
         /\ pc'[p] \in {"create", "open", "merge"} => job'[p].commit \in Oid'
         /\ job'[p].said \in {"merged", "accepted"} =>
              /\ job'[p].commit = job[p].commit
              /\ \/ /\ Merged(p) /\ job'[p].result = job[p].result
                    /\ job'[p].said = job[p].said \/ Advance(p)
                 \/ job'[p].said = "merged" /\ SubsystemMerged(p) /\ job'[p].result = NewOid
                 \/ /\ job'[p].said = "merged" /\ job'[p].result = branch[Subsystem] /\ Still
                    /\ branch[Subsystem] \in Oid /\ job[p].commit \in Anc(branch[Subsystem])
  <1>0. /\ TypeOK /\ Lined /\ p \in Procs /\ pc \in [Procs -> Pcs] /\ job \in [Procs -> Job]
        /\ job[p] \in Job /\ p \notin Integrators
    BY ProcsAssumption DEF SeatInv, TypeOK, Pcs, Procs
  <1>1. [Next]_vars
    BY <1>0, Zenon DEF Next, Step, MaintainerStep, IntegratorStep, CommonStep, Procs
  <1>2. Oid \subseteq Oid'  BY <1>0, <1>1, NextGrows, ExtendsFacts DEF Grows
  <1>3. ASSUME NEW l \in Leaves, Accept(p, l)  PROVE Goal
    <2>1. job[p] = NoJob  BY <1>0, <1>3 DEF Lined, Accept
    <2>2. NewOid \in Oid'  BY <1>3, AcceptWrites DEF Wrote
    <2>3. pc'[p] \in {"create", "open"} /\ job'[p].said = "nothing" /\ job'[p].commit = NewOid
      BY <1>0, <1>3, <2>1, NoJobTyped DEF Accept, Goto, Job
    <2> QED  BY <2>2, <2>3
  <1>4. ASSUME CreateSubsystem(p)  PROVE Goal
    <2>1. /\ job'[p] = job[p] \/ (job'[p].said = "git_error" /\ job'[p].commit = job[p].commit)
          /\ pc'[p] \in {"open", "done"}
      BY <1>0, <1>4 DEF CreateSubsystem, Goto, Say, Job
    <2>2. job[p].commit \in Oid  BY <1>0, <1>4 DEF CreateSubsystem, Lined
    <2> QED  BY <1>0, <1>2, <2>1, <2>2 DEF Merged
  <1>5. ASSUME MergeLeaf(p)  PROVE Goal
    <2>1. pc'[p] = "close" /\ job'[p].commit = job[p].commit
      BY <1>0, <1>5 DEF MergeLeaf, Goto, Job
    <2>2. branch[Subsystem] \in Oid /\ job[p].commit \in Oid /\ Own(p) = Subsystem
      BY <1>0, <1>5, MergeWrites
    <2>3. CASE job[p].commit \notin Anc(branch[Subsystem]) /\ job' = [job EXCEPT ![p].result = NewOid, ![p].said = "merged"]
                 /\ commits' # commits
      <3>1. Wrote(Subsystem, Joined(p, "accept", {}))
        BY <1>0, <1>5, <2>3, MergeWrites
      <3>2. branch'[Default] = branch[Default] /\ branch'[Mainline] = branch[Mainline]
        BY <1>0, <3>1, Refs, TreesDistinct DEF Wrote
      <3>3. job'[p].result = NewOid /\ job'[p].said = "merged"  BY <1>0, <2>3 DEF Job
      <3> QED  BY <1>5, <2>1, <2>2, <3>1, <3>2, <3>3 DEF SubsystemMerged
    <2>4. CASE job[p].commit \in Anc(branch[Subsystem]) /\ Still
               /\ job' = [job EXCEPT ![p].result = branch[Subsystem], ![p].said = "merged"]
      <3>1. job'[p].result = branch[Subsystem] /\ job'[p].said = "merged"  BY <1>0, <2>4 DEF Job
      <3> QED  BY <2>1, <2>2, <2>4, <3>1
    <2>5. CASE job' = [job EXCEPT ![p].said = "git_error"]
      <3>1. job'[p].said = "git_error"  BY <1>0, <2>5 DEF Job
      <3> QED  BY <2>1, <3>1
    <2>6. ASSUME NEW c, Write(Subsystem, c)  PROVE commits' # commits
      <3>1. commits \in Seq(Commit)  BY <1>0 DEF TypeOK
      <3>2. Len(commits) \in Nat /\ commits' = Append(commits, c)  BY <2>6, <3>1 DEF Write
      <3>3. Len(commits') = Len(commits) + 1  BY <3>1, <3>2
      <3> QED  BY <3>2, <3>3
    <2> QED  BY <1>5, <2>3, <2>4, <2>5, <2>6 DEF MergeLeaf, Still
  <1>6. ASSUME Forward(p)  PROVE Goal
    <2>1. /\ \/ job'[p].said = job[p].said /\ pc'[p] = "advance"
             \/ job'[p].said = "git_error" /\ pc'[p] = "done"
          /\ job'[p].commit = job[p].commit /\ job'[p].result = job[p].result
      BY <1>0, <1>6 DEF Forward, Goto, Say, Job
    <2>2. Merged(p)  BY <1>0, <1>6 DEF Forward, Lined
    <2> QED  BY <2>1, <2>2 DEF Merged
  <1>7. ASSUME Advance(p)  PROVE Goal
    <2>1. /\ job'[p].said = "accepted" /\ pc'[p] \in {"done", "close"}
          /\ job'[p].commit = job[p].commit /\ job'[p].result = job[p].result
      BY <1>0, <1>7 DEF Advance, Goto, Job
    <2>2. Merged(p)  BY <1>0, <1>7 DEF Advance, Lined
    <2> QED  BY <1>7, <2>1, <2>2
  <1>8. ASSUME Open(p)  PROVE Goal
    <2>1. /\ \/ job'[p].said = job[p].said /\ pc'[p] = "merge"
             \/ job'[p].said = "git_error" /\ pc'[p] = "done"
          /\ job'[p].commit = job[p].commit /\ job'[p].result = job[p].result
      BY <1>0, <1>8 DEF Open, Goto, Say, Job
    <2>2. job[p].commit \in Oid  BY <1>0, <1>8 DEF Open, Lined
    <2> QED  BY <1>2, <2>1, <2>2 DEF Merged
  <1>9. ASSUME Close(p)  PROVE Goal
    <2>1. /\ job'[p] = job[p] /\ pc'[p] \in {"forward", "done"}
          /\ pc'[p] = "forward" => job[p].said = "merged"
      BY <1>0, <1>9 DEF Close, Goto
    <2> QED  BY <2>1 DEF Merged
  <1>10. ASSUME Forget(p)  PROVE Goal
    BY <1>0, <1>10, NoJobTyped DEF Forget, Goto
  <1> HIDE DEF Goal
  <1>11. Goal
    BY <1>0, <1>3, <1>4, <1>5, <1>6, <1>7, <1>8, <1>9, <1>10
    DEF Step, MaintainerStep, CommonStep, Return, Crash
  <1> QED  BY <1>11 DEF Goal, Merged

LEMMA IdleNext ==
  ASSUME SeatInv, [Next]_vars, NEW q \in Procs, pc'[q] = "idle"
  PROVE  job'[q] = NoJob
  <1>0. TypeOK /\ Lined /\ pc \in [Procs -> Pcs] /\ job \in [Procs -> Job]
    BY DEF SeatInv, TypeOK, Pcs
  <1>1. ASSUME pc'[q] = pc[q], job'[q] = job[q]  PROVE job'[q] = NoJob
    BY <1>0, <1>1 DEF Lined
  <1>2. (\E l \in Leaves : Contribute(l)) \/ UNCHANGED vars => pc'[q] = pc[q] /\ job'[q] = job[q]
    BY DEF Contribute, vars
  <1>3. ASSUME NEW p \in Procs, Step(p), p # q  PROVE pc'[q] = pc[q] /\ job'[q] = job[q]
    BY <1>3, StepAlone DEF Alone
  <1>4. ASSUME Step(q)  PROVE job'[q] = NoJob
    <2>1. MaintainerStep(q) => pc'[q] # "idle"
      BY <1>0 DEF MaintainerStep, Accept, CreateSubsystem, MergeLeaf, Forward, Advance, Goto, Say
    <2>2. (\E s \in Series : HandOff(q, s)) \/ ReadLeaf(q) => pc'[q] # "idle"
      BY <1>0 DEF HandOff, ReadLeaf, Goto, Say
    <2>3. LookUp(q) \/ Anchor(q) \/ CreateMainline(q) \/ MergeSeries(q) => pc'[q] # "idle"
      BY <1>0 DEF LookUp, Anchor, CreateMainline, MergeSeries, Goto, Say
    <2>4. Open(q) \/ Close(q) => pc'[q] # "idle"
      BY <1>0 DEF Open, Close, Goto, Say
    <2>5. Forget(q) => job'[q] = NoJob  BY <1>0 DEF Forget
    <2> QED
      BY <1>4, <2>1, <2>2, <2>3, <2>4, <2>5 DEF Step, IntegratorStep, CommonStep, Return, Crash
  <1> QED  BY <1>1, <1>2, <1>3, <1>4, NextSteps

\* What has been merged, in terms of the next state.
LinedJob(p) ==
  /\ job'[p].result \in Oid' /\ job'[p].commit \in Oid'
  /\ job'[p].commit \in AncNext(job'[p].result)
  /\ job'[p].result \in AncNext(branch'[Subsystem])
  /\ \/ job'[p].result \in AncNext(branch'[Default])
     \/ branch'[Default] \in AncNext(job'[p].result)
  /\ job'[p].said = "accepted" => job'[p].result \in AncNext(branch'[Default])
LinedPair(p, q) ==
  \/ job'[p].result \in AncNext(job'[q].result)
  \/ job'[q].result \in AncNext(job'[p].result)

\* Tips that were merged stay on the line of the trees.
LEMMA LineGrows ==
  ASSUME SeatInv, [Next]_vars, NEW r \in Oid, r \in Anc(branch[Subsystem]),
         r \in Anc(branch[Default]) \/ branch[Default] \in Anc(r),
         \A p \in Maintainers : Merged(p) => Ordered(r, job[p].result)
  PROVE  /\ r \in Oid' /\ AncNext(r) = Anc(r) /\ r \in AncNext(branch'[Subsystem])
         /\ r \in AncNext(branch'[Default]) \/ branch'[Default] \in AncNext(r)
         /\ r \in Anc(branch[Default]) => r \in AncNext(branch'[Default])
  <1>0. /\ TypeOK /\ Store /\ Lined
        /\ {Default, Subsystem, Mainline} = Trees
        /\ \A b \in Trees \cup Leaves : branch[b] \in Oid \cup {0}
    BY Refs DEF SeatInv
  <1>1. Grows /\ Oid \subseteq Oid' /\ \A c \in Oid \cup {0} : AncNext(c) = Anc(c)
    BY <1>0, NextGrows, ExtendsFacts DEF Grows
  <1>2. /\ r \in AncNext(branch'[Subsystem])
        /\ r \in Anc(branch[Default]) => r \in AncNext(branch'[Default])
    BY <1>0, <1>1 DEF Grows
  <1>3. CASE branch'[Default] = branch[Default]  BY <1>0, <1>1, <1>2, <1>3
  <1>4. ASSUME NEW p \in Procs, DefaultForwarded(p)
        PROVE  r \in AncNext(branch'[Default]) \/ branch'[Default] \in AncNext(r)
    <2>1. job[p].result \in Oid /\ Ordered(r, job[p].result) /\ branch'[Default] = job[p].result
      BY <1>0, <1>4 DEF DefaultForwarded, Lined
    <2> QED  BY <1>1, <2>1 DEF Ordered, Behind
  <1>5. branch'[Default] = branch[Default] \/ \E p \in Procs : DefaultForwarded(p)
    BY <1>0, TreesMove DEF TreesStay, SubsystemMade, MainlineMade, SubsystemMerged, MainlineMerged
  <1> QED  BY <1>1, <1>2, <1>3, <1>4, <1>5

LEMMA MergedKept ==
  ASSUME SeatInv, [Next]_vars, NEW p \in Maintainers, Merged(p),
         job'[p].result = job[p].result, job'[p].commit = job[p].commit,
         job'[p].said = "accepted" => job[p].said = "accepted" \/ Advance(p)
  PROVE  LinedJob(p)
  <1>0. /\ TypeOK /\ Store /\ Lined /\ p \in Procs
        /\ {Default, Subsystem, Mainline} = Trees
        /\ branch \in [Trees \cup Leaves -> Oid \cup {0}]
    BY Refs DEF SeatInv, TypeOK, Procs
  <1> DEFINE r == job[p].result
  <1>1. /\ r \in Oid /\ job[p].commit \in Oid /\ job[p].commit \in Anc(r)
        /\ r \in Anc(branch[Subsystem])
        /\ r \in Anc(branch[Default]) \/ branch[Default] \in Anc(r)
        /\ job[p].said = "accepted" => r \in Anc(branch[Default])
        /\ \A q \in Maintainers : Merged(q) => Ordered(r, job[q].result)
    BY <1>0 DEF Lined, Behind, Ordered
  <1>2. /\ r \in Oid' /\ AncNext(r) = Anc(r) /\ r \in AncNext(branch'[Subsystem])
        /\ r \in AncNext(branch'[Default]) \/ branch'[Default] \in AncNext(r)
        /\ r \in Anc(branch[Default]) => r \in AncNext(branch'[Default])
    BY <1>1, LineGrows
  <1>3. Oid \subseteq Oid'  BY <1>0, NextGrows, ExtendsFacts DEF Grows
  <1>4. ASSUME Advance(p)  PROVE r \in AncNext(branch'[Default])
    <2>1. CASE branch[Default] \in Anc(r)
      <3>1. branch'[Default] = r  BY <1>0, <1>4, <2>1 DEF Advance
      <3>2. r \in Anc(r)  BY <1>0, <1>1, Refs, AncFacts
      <3> QED  BY <1>2, <3>1, <3>2
    <2>2. CASE branch[Default] \notin Anc(r)  BY <1>1, <1>2, <2>2
    <2> QED  BY <2>1, <2>2
  <1> HIDE DEF r
  <1>5. job'[p].result = r  BY DEF r
  <1>6. job[p].said = "accepted" => r \in AncNext(branch'[Default])  BY <1>1, <1>2
  <1> QED  BY <1>1, <1>2, <1>3, <1>4, <1>5, <1>6 DEF LinedJob

\* A merge is ahead of all merges before it and of the default branch.
LEMMA MergedNew ==
  ASSUME SeatInv, [Next]_vars, NEW p \in Maintainers,
         job'[p].commit = job[p].commit, job'[p].said = "merged",
         \/ SubsystemMerged(p) /\ job'[p].result = NewOid
         \/ /\ job'[p].result = branch[Subsystem] /\ Still
            /\ branch[Subsystem] \in Oid /\ job[p].commit \in Anc(branch[Subsystem])
  PROVE  /\ LinedJob(p)
         /\ Anc(branch[Subsystem]) \subseteq AncNext(job'[p].result)
         /\ job'[p].result \in AncNext(job'[p].result)
  <1>0. /\ TypeOK /\ Store /\ SubsystemFirst /\ p \in Procs
        /\ {Default, Subsystem, Mainline} = Trees
        /\ \A b \in Trees \cup Leaves : branch[b] \in Oid \cup {0}
        /\ branch[Default] \in Oid /\ 0 \notin Oid
    BY Refs DEF SeatInv, Procs
  <1>1. Oid \subseteq Oid' /\ \A c \in Oid \cup {0} : AncNext(c) = Anc(c)
    BY <1>0, NextGrows, ExtendsFacts DEF Grows
  <1>2. branch[Subsystem] \in Oid  BY DEF SubsystemMerged
  <1>3. branch[Default] \in Anc(branch[Subsystem])
    <2>1. branch[Default] \in Anc(branch[Default])  BY <1>0, AncFacts
    <2> QED  BY <1>0, <1>2, <2>1 DEF SubsystemFirst
  <1>4. CASE SubsystemMerged(p) /\ job'[p].result = NewOid
    <2>1. /\ AncNext(NewOid) = {NewOid} \cup Anc(branch[Subsystem]) \cup Anc(job[p].commit)
          /\ branch'[Subsystem] = NewOid /\ NewOid \in Oid'
      BY <1>0, <1>4, JoinedHas DEF SubsystemMerged, Wrote
    <2>2. branch'[Default] = branch[Default]  BY <1>4 DEF SubsystemMerged
    <2>3. job[p].commit \in Oid /\ job[p].commit \in Anc(job[p].commit)
      BY <1>0, <1>4, AncFacts DEF SubsystemMerged
    <2> QED  BY <1>1, <1>3, <1>4, <2>1, <2>2, <2>3 DEF LinedJob
  <1>5. CASE /\ job'[p].result = branch[Subsystem] /\ Still
             /\ branch[Subsystem] \in Oid /\ job[p].commit \in Anc(branch[Subsystem])
    <2>1. branch[Subsystem] \in Anc(branch[Subsystem]) /\ Anc(branch[Subsystem]) \subseteq Oid
      BY <1>0, <1>2, AncFacts
    <2> QED  BY <1>1, <1>3, <1>5, <2>1 DEF LinedJob, Still
  <1> QED  BY <1>4, <1>5

LEMMA LinedNext ==
  ASSUME SeatInv, [Next]_vars
  PROVE  Lined'
  <1>0. /\ TypeOK /\ Store /\ Lined /\ Maintainers \subseteq Procs
        /\ \A b \in Trees \cup Leaves : branch[b] \in Oid \cup {0}
    BY Refs DEF SeatInv, Procs
  <1>1. Oid \subseteq Oid' /\ \A c \in Oid \cup {0} : AncNext(c) = Anc(c)
    BY <1>0, NextGrows, ExtendsFacts DEF Grows
  <1> DEFINE Kept(p) == Merged(p) /\ job'[p].result = job[p].result
             Fresh(p) == /\ Anc(branch[Subsystem]) \subseteq AncNext(job'[p].result)
                         /\ job'[p].result \in AncNext(job'[p].result)
             Unmoved(p) == pc'[p] = pc[p] /\ job'[p] = job[p]
  <1>2. ASSUME NEW p \in Maintainers, Unmoved(p)
        PROVE  /\ pc'[p] \in {"forward", "advance"} => Merged(p)'
               /\ pc'[p] \in {"create", "open", "merge"} => job'[p].commit \in Oid'
               /\ Merged(p)' => LinedJob(p) /\ Kept(p)
    BY <1>0, <1>1, <1>2, MergedKept DEF Lined, Merged
  <1>3. ASSUME NEW p \in Maintainers, Step(p)
        PROVE  /\ pc'[p] \in {"forward", "advance"} => Merged(p)'
               /\ pc'[p] \in {"create", "open", "merge"} => job'[p].commit \in Oid'
               /\ Merged(p)' => LinedJob(p) /\ (Kept(p) \/ Fresh(p))
    <2> SUFFICES ASSUME Merged(p)'  PROVE LinedJob(p) /\ (Kept(p) \/ Fresh(p))
      BY <1>3, MergedStep
    <2>1. job'[p].commit = job[p].commit  BY <1>3, MergedStep
    <2>2. CASE /\ Merged(p) /\ job'[p].result = job[p].result
               /\ job'[p].said = job[p].said \/ Advance(p)
      BY <2>1, <2>2, MergedKept
    <2>3. CASE \/ job'[p].said = "merged" /\ SubsystemMerged(p) /\ job'[p].result = NewOid
               \/ /\ job'[p].said = "merged" /\ job'[p].result = branch[Subsystem] /\ Still
                  /\ branch[Subsystem] \in Oid /\ job[p].commit \in Anc(branch[Subsystem])
      BY <2>1, <2>3, MergedNew
    <2> QED  BY <1>3, <2>2, <2>3, MergedStep
  <1>4. \/ \A p \in Maintainers : Unmoved(p)
        \/ \E q \in Procs : Step(q) /\ \A p \in Maintainers : p # q => Unmoved(p)
    <2>1. ASSUME NEW q \in Procs, Step(q)  PROVE \A p \in Maintainers : p # q => Unmoved(p)
      BY <1>0, <2>1, StepAlone DEF Alone
    <2>2. (\E l \in Leaves : Contribute(l)) \/ UNCHANGED vars => \A p \in Maintainers : Unmoved(p)
      BY DEF Contribute, vars
    <2> QED  BY <2>1, <2>2, NextSteps
  <1>5. \A p \in Maintainers :
               /\ pc'[p] \in {"forward", "advance"} => Merged(p)'
               /\ pc'[p] \in {"create", "open", "merge"} => job'[p].commit \in Oid'
               /\ Merged(p)' => LinedJob(p) /\ (Kept(p) \/ Fresh(p))
    BY <1>2, <1>3, <1>4
  <1>6. \A p, q \in Maintainers : Merged(p)' /\ Merged(q)' => LinedPair(p, q)
    <2>1. ASSUME NEW p \in Maintainers, NEW q \in Maintainers, Kept(p), Kept(q)  PROVE LinedPair(p, q)
      BY <1>0, <1>1, <2>1 DEF Lined, Ordered, Behind, LinedPair
    <2>2. ASSUME NEW p \in Maintainers, NEW q \in Maintainers, Kept(p), Fresh(q)
          PROVE  LinedPair(p, q) /\ LinedPair(q, p)
      BY <1>0, <2>2 DEF Lined, Behind, LinedPair
    <2>3. \A p, q \in Maintainers :
            Merged(p)' /\ Merged(q)' /\ Fresh(p) /\ ~Kept(p) /\ Fresh(q) /\ ~Kept(q) => p = q
      BY <1>2, <1>4, <1>5
    <2> QED  BY <1>5, <2>1, <2>2, <2>3 DEF LinedPair
  <1> HIDE DEF Kept, Fresh, Unmoved
  <1> QED
    BY <1>5, <1>6, IdleNext DEF Lined, LinedJob, LinedPair, Behind, Ordered, Anc, AncNext
-----------------------------------------------------------------------------
(* Handing off. *)

TipsForNext(label, call) ==
  /\ \A row \in call.tips :
       /\ row.tip \in Oid'
       /\ \E m \in AncNext(row.tip) : commits'[m].kind = "mark" /\ commits'[m].of = row.leaf
       /\ row.tip \in AncNext(branch'[Subsystem]) \cup AncNext(branch'[Mainline])
       /\ label \in {"anchor", "begin", "open", "merge"} =>
            row.tip \in AncNext(call.commit) \cup AncNext(branch'[Mainline])
  /\ label \in {"lookup", "anchor", "begin", "open", "merge"} => branch'[Subsystem] # 0
  /\ label \in {"anchor", "begin", "open", "merge"} =>
       call.commit \in Oid' /\ call.commit \in AncNext(branch'[Subsystem])
  /\ label = "begin" => call.result \in Oid' /\ call.result \in AncNext(branch'[Subsystem])

\* What a hand-off has read stays true of it: the trees only grow.
LEMMA TipsGrow ==
  ASSUME SeatInv, [Next]_vars, NEW label, NEW call, TipsFor(label, call)
  PROVE  TipsForNext(label, call)
  <1>0. /\ TypeOK /\ Store /\ {Default, Subsystem, Mainline} = Trees
    BY Refs DEF SeatInv
  <1>1. /\ Grows /\ Extends /\ Oid \subseteq Oid'
        /\ \A c \in Oid \cup {0} : AncNext(c) = Anc(c)
    BY <1>0, NextGrows, ExtendsFacts DEF Grows
  <1>2. /\ Anc(branch[Subsystem]) \subseteq AncNext(branch'[Subsystem])
        /\ Anc(branch[Mainline]) \subseteq AncNext(branch'[Mainline])
        /\ branch[Subsystem] # 0 => branch'[Subsystem] # 0
    BY <1>0, <1>1 DEF Grows
  <1>3. ASSUME NEW row \in call.tips
        PROVE  /\ row.tip \in Oid'
               /\ \E m \in AncNext(row.tip) : commits'[m].kind = "mark" /\ commits'[m].of = row.leaf
               /\ row.tip \in AncNext(branch'[Subsystem]) \cup AncNext(branch'[Mainline])
               /\ label \in {"anchor", "begin", "open", "merge"} =>
                    row.tip \in AncNext(call.commit) \cup AncNext(branch'[Mainline])
    <2>1. row.tip \in Oid /\ Accepted(row)  BY <1>3 DEF TipsFor
    <2>2. /\ row.tip \in Oid'
          /\ \E m \in AncNext(row.tip) : commits'[m].kind = "mark" /\ commits'[m].of = row.leaf
      BY <1>0, <1>1, <2>1, AcceptedKept
    <2> QED  BY <1>1, <1>2, <1>3, <2>2 DEF TipsFor
  <1> QED  BY <1>1, <1>2, <1>3 DEF TipsFor, TipsForNext, Behind

\* A resolved leaf has a marker of its own, and there is a subsystem tree.
LEMMA ResolvedFacts ==
  ASSUME SeatInv, NEW l \in Leaves, Resolved(l)
  PROVE  /\ branch[l] \in Oid /\ branch[Subsystem] # 0
         /\ Accepted([leaf |-> l, tip |-> branch[l]])
         /\ branch[l] \in Anc(branch[Subsystem]) \cup Anc(branch[Mainline])
  <1>0. /\ TypeOK /\ Store /\ SubsystemFirst /\ OwnCommits /\ {Default, Subsystem, Mainline} = Trees
        /\ \A b \in Trees \cup Leaves : branch[b] \in Oid \cup {0}
    BY Refs DEF SeatInv
  <1>1. PICK c \in Anc(branch[l]) \ Anc(fork[l]) : commits[c].kind = "mark"  BY DEF Resolved
  <1>2. branch[l] \in Oid
    <2>1. branch[l] # 0  BY <1>1 DEF Anc
    <2> QED  BY <1>0, <2>1
  <1>3. commits[c].of = l  BY <1>0, <1>1 DEF OwnCommits
  <1>4. Accepted([leaf |-> l, tip |-> branch[l]])  BY <1>1, <1>3 DEF Accepted
  <1>5. PICK t \in Trees : branch[l] \in Anc(branch[t])  BY DEF Resolved
  <1>6. branch[Subsystem] # 0
    <2> SUFFICES ASSUME branch[Subsystem] = 0  PROVE FALSE
      OBVIOUS
    <2>1. Anc(branch[t]) \subseteq {1}
      <3>1. Anc(branch[Default]) \cup Anc(branch[Mainline]) \subseteq {1}  BY <1>0 DEF SubsystemFirst
      <3>2. t \in {Default, Subsystem, Mainline}  BY <1>0
      <3>3. Anc(branch[Subsystem]) = {}  BY DEF Anc
      <3> QED  BY <3>1, <3>2, <3>3
    <2>2. Anc(branch[l]) \subseteq Anc(branch[t])  BY <1>0, <1>5, AncFacts
    <2>3. c = 1  BY <1>1, <2>1, <2>2
    <2> QED  BY <1>0, <1>1, <2>3 DEF SubsystemFirst
  <1>7. branch[l] \in Anc(branch[Subsystem]) \cup Anc(branch[Mainline])
    BY <1>0, <1>5, <1>6 DEF SubsystemFirst
  <1> QED  BY <1>2, <1>4, <1>6, <1>7

LEMMA TipsStep ==
  ASSUME SeatInv, NEW p \in Integrators, Step(p)
  PROVE  TipsFor(pc'[p], job'[p])
  <1>0. /\ TypeOK /\ Store /\ TipsFor(pc[p], job[p]) /\ p \in Procs /\ p \notin Maintainers
        /\ pc \in [Procs -> Pcs] /\ job \in [Procs -> Job] /\ job[p] \in Job
        /\ \A b \in Trees \cup Leaves : branch[b] \in Oid \cup {0}
        /\ {Default, Subsystem, Mainline} = Trees
    BY ProcsAssumption, Refs DEF SeatInv, TypeOK, Pcs, Procs, TipsRead
  <1>1. ASSUME job'[p].tips = job[p].tips, job'[p].commit = job[p].commit,
               job'[p].result = job[p].result,
               \/ pc'[p] = pc[p]
               \/ pc'[p] \in {"leaves", "done", "close"}
               \/ pc[p] \in {"anchor", "begin", "open"} /\ pc'[p] \in {"open", "merge"}
        PROVE  TipsFor(pc'[p], job'[p])
    BY <1>0, <1>1 DEF TipsFor
  <1>2. ASSUME NEW s \in Series, HandOff(p, s)  PROVE TipsFor(pc'[p], job'[p])
    <2>1. /\ job'[p].tips = job[p].tips /\ job'[p].commit = job[p].commit
          /\ job'[p].result = job[p].result /\ pc'[p] = "leaves"
      BY <1>0, <1>2 DEF HandOff, Goto, Job
    <2> QED  BY <1>1, <2>1
  <1>3. ASSUME ReadLeaf(p)  PROVE TipsFor(pc'[p], job'[p])
    <2>1. PICK l \in job[p].todo :
             \/ Say(p, "series_incomplete")
             \/ /\ Resolved(l)
                /\ job' = [job EXCEPT ![p].todo = @ \ {l},
                                      ![p].tips = @ \cup {[leaf |-> l, tip |-> branch[l]]}]
                /\ Goto(p, IF job[p].todo = {l} THEN "lookup" ELSE "leaves")
      BY <1>3 DEF ReadLeaf
    <2>2. l \in Leaves  BY <1>0 DEF Job
    <2>3. CASE Say(p, "series_incomplete")
      <3>1. /\ job'[p].tips = job[p].tips /\ job'[p].commit = job[p].commit
            /\ job'[p].result = job[p].result /\ pc'[p] = "done"
        BY <1>0, <2>3 DEF Say, Goto, Job
      <3> QED  BY <1>1, <3>1
    <2>4. CASE /\ Resolved(l)
               /\ job' = [job EXCEPT ![p].todo = @ \ {l},
                                     ![p].tips = @ \cup {[leaf |-> l, tip |-> branch[l]]}]
               /\ Goto(p, IF job[p].todo = {l} THEN "lookup" ELSE "leaves")
      <3> DEFINE new == [leaf |-> l, tip |-> branch[l]]
      <3>1. job'[p].tips = job[p].tips \cup {new} /\ pc'[p] \in {"lookup", "leaves"}
        BY <1>0, <2>4 DEF Goto, Job
      <3>2. /\ branch[l] \in Oid /\ branch[Subsystem] # 0 /\ Accepted(new)
            /\ branch[l] \in Anc(branch[Subsystem]) \cup Anc(branch[Mainline])
        BY <2>2, <2>4, ResolvedFacts
      <3>3. new.tip = branch[l]  OBVIOUS
      <3> HIDE DEF new
      <3> QED  BY <1>0, <3>1, <3>2, <3>3 DEF TipsFor
    <2> QED  BY <2>1, <2>3, <2>4
  <1>4. ASSUME LookUp(p)  PROVE TipsFor(pc'[p], job'[p])
    <2>1. pc[p] = "lookup" /\ branch[Subsystem] \in Oid
      BY <1>0, <1>4 DEF LookUp, TipsFor
    <2>2. branch[Subsystem] \in Anc(branch[Subsystem])
      BY <1>0, <2>1, Refs, AncFacts
    <2>3. CASE Say(p, "already-current")
      <3>1. /\ job'[p].tips = job[p].tips /\ job'[p].commit = job[p].commit
            /\ job'[p].result = job[p].result /\ pc'[p] = "done"
        BY <1>0, <2>3 DEF Say, Goto, Job
      <3> QED  BY <1>1, <3>1
    <2>4. CASE job' = [job EXCEPT ![p].commit = branch[Subsystem]] /\ Goto(p, "anchor")
      <3>1. /\ job'[p].tips = job[p].tips /\ job'[p].commit = branch[Subsystem]
            /\ pc'[p] = "anchor"
        BY <1>0, <2>4 DEF Goto, Job
      <3> QED  BY <1>0, <2>1, <2>2, <3>1, Refs DEF TipsFor, Behind
    <2> QED  BY <1>4, <2>3, <2>4 DEF LookUp
  <1>5. ASSUME Anchor(p)  PROVE TipsFor(pc'[p], job'[p])
    <2> DEFINE first == FirstAcceptance(job[p].commit, {row.tip : row \in job[p].tips})
    <2>1. \/ \E a \in {"mainline_base_missing", "already-current"} : Say(p, a)
          \/ Goto(p, "open") /\ UNCHANGED job
          \/ Goto(p, "begin") /\ \E c \in first : job' = [job EXCEPT ![p].result = commits[c].onto]
      BY <1>5 DEF Anchor
    <2>2. pc[p] = "anchor" /\ job[p].commit \in Oid /\ job[p].commit \in Anc(branch[Subsystem])
      BY <1>0, <1>5 DEF Anchor, TipsFor, Behind
    <2>3. ASSUME NEW a \in {"mainline_base_missing", "already-current"}, Say(p, a)
          PROVE  TipsFor(pc'[p], job'[p])
      <3>1. /\ job'[p].tips = job[p].tips /\ job'[p].commit = job[p].commit
            /\ job'[p].result = job[p].result /\ pc'[p] = "done"
        BY <1>0, <2>3 DEF Say, Goto, Job
      <3> QED  BY <1>1, <3>1
    <2>4. CASE Goto(p, "open") /\ UNCHANGED job
      <3>1. pc'[p] = "open"  BY <1>0, <2>4 DEF Goto
      <3> QED  BY <1>1, <2>2, <2>4, <3>1
    <2>5. ASSUME NEW c \in first, Goto(p, "begin"), job' = [job EXCEPT ![p].result = commits[c].onto]
          PROVE  TipsFor(pc'[p], job'[p])
      <3>1. c \in FirstParents(job[p].commit) /\ commits[c].merged \in {row.tip : row \in job[p].tips}
        BY DEF FirstAcceptance
      <3>2. c \in Oid /\ Anc(c) \subseteq Anc(job[p].commit)
            /\ Anc(job[p].commit) \subseteq Anc(branch[Subsystem])
        BY <1>0, <2>2, <3>1, AncFacts
      <3>3. commits[c].merged # 0  BY <1>0, <3>1, Refs DEF TipsFor
      <3>4. commits[c].onto \in Anc(c) /\ Anc(c) \subseteq Oid
        <4>1. c # 0 /\ Anc(c) = commits[c].anc  BY <1>0, <3>2, Refs DEF Anc
        <4> QED  BY <1>0, <3>2, <3>3, <4>1 DEF Store
      <3>5. /\ job'[p].tips = job[p].tips /\ job'[p].commit = job[p].commit
            /\ job'[p].result = commits[c].onto /\ pc'[p] = "begin"
        BY <1>0, <2>5 DEF Goto, Job
      <3>6. commits[c].onto \in Oid /\ Behind(commits[c].onto, branch[Subsystem])
        BY <3>2, <3>4 DEF Behind
      <3> QED  BY <1>0, <2>2, <3>5, <3>6 DEF TipsFor
    <2> QED  BY <2>1, <2>3, <2>4, <2>5
  <1>6. ASSUME CreateMainline(p) \/ MergeSeries(p)  PROVE TipsFor(pc'[p], job'[p])
    <2>1. /\ job'[p].tips = job[p].tips /\ job'[p].commit = job[p].commit
          /\ job'[p].result = job[p].result
          /\ pc'[p] \in {"done", "close"} \/ (pc[p] = "begin" /\ pc'[p] = "open")
      BY <1>0, <1>6 DEF CreateMainline, MergeSeries, Say, Goto, Job
    <2> QED  BY <1>1, <2>1
  <1>7. ASSUME Open(p) \/ Close(p)  PROVE TipsFor(pc'[p], job'[p])
    <2>1. /\ job'[p].tips = job[p].tips /\ job'[p].commit = job[p].commit
          /\ job'[p].result = job[p].result
          /\ pc'[p] = "done" \/ (pc[p] = "open" /\ pc'[p] = "merge")
      <3>1. Close(p) => job[p].said # "merged"
        BY <1>0 DEF SeatInv, Roles
      <3> QED  BY <1>0, <1>7, <3>1 DEF Open, Close, Say, Goto, Job
    <2> QED  BY <1>1, <2>1
  <1>8. ASSUME Forget(p)  PROVE TipsFor(pc'[p], job'[p])
    <2>1. job'[p].tips = {} /\ pc'[p] = "idle"  BY <1>0, <1>8, NoJobTyped DEF Forget, Goto
    <2> QED  BY <2>1 DEF TipsFor
  <1> QED
    BY <1>0, <1>2, <1>3, <1>4, <1>5, <1>6, <1>7, <1>8
    DEF Step, IntegratorStep, CommonStep, Return, Crash

LEMMA TipsReadNext ==
  ASSUME SeatInv, [Next]_vars
  PROVE  TipsRead'
  <1>0. TipsRead /\ Integrators \subseteq Procs  BY DEF SeatInv, Procs
  <1>1. ASSUME NEW p \in Integrators  PROVE TipsFor(pc'[p], job'[p])
    <2>1. ASSUME pc'[p] = pc[p], job'[p] = job[p]  PROVE TipsFor(pc'[p], job'[p])
      BY <1>0, <2>1 DEF TipsRead
    <2>2. ASSUME NEW q \in Procs, Step(q), p # q  PROVE pc'[p] = pc[p] /\ job'[p] = job[p]
      BY <1>0, <2>2, StepAlone DEF Alone
    <2>3. (\E l \in Leaves : Contribute(l)) \/ UNCHANGED vars => pc'[p] = pc[p] /\ job'[p] = job[p]
      BY DEF Contribute, vars
    <2> QED  BY <1>0, <2>1, <2>2, <2>3, NextSteps, TipsStep
  <1>2. ASSUME NEW p \in Integrators  PROVE TipsForNext(pc'[p], job'[p])
    BY <1>1, <1>2, TipsGrow
  <1> QED  BY <1>2 DEF TipsRead, TipsFor, TipsForNext, Accepted, Behind, Anc, AncNext
-----------------------------------------------------------------------------
(* The theorems. *)

LEMMA SeatInit == Init => SeatInv
  <1> SUFFICES ASSUME Init  PROVE SeatInv
    OBVIOUS
  <1> DEFINE base == [kind |-> "base", of |-> 0, onto |-> 0, merged |-> 0, anc |-> {1},
                      line |-> {1}, tree |-> {}, names |-> {}]
  <1>1. commits = <<base>>  BY DEF Init
  <1>2. base \in Commit  BY DEF Commit, About, Row
  <1>3. /\ base.kind = "base" /\ base.onto = 0 /\ base.merged = 0 /\ base.anc = {1}
        /\ base.line = {1} /\ base.tree = {} /\ base.names = {}
    OBVIOUS
  <1> HIDE DEF base
  <1>4. commits \in Seq(Commit) /\ Len(commits) = 1 /\ commits[1] = base
    BY <1>1, <1>2
  <1>5. Oid = {1}  BY <1>4 DEF Oid
  <1>6. /\ branch \in [Trees \cup Leaves -> {0, 1}] /\ branch[Default] = 1
        /\ branch[Subsystem] = 0 /\ \A l \in Leaves : branch[l] = 0
    <2>1. PICK m \in {0, 1} : branch = [b \in Trees \cup Leaves |-> CASE b = Default -> 1
                                                                  [] b = Mainline -> m
                                                                  [] OTHER -> 0]
      BY DEF Init
    <2>2. {Default, Subsystem, Mainline} \subseteq Trees \cup Leaves  BY DEF Trees
    <2>3. \A l \in Leaves : l # Default /\ l # Mainline  BY TreesAssumption
    <2> QED  BY <2>1, <2>2, <2>3, TreesDistinct
  <1>7. fork = [l \in Leaves |-> 0] /\ worktrees = {} /\ onDefault \in BOOLEAN
        /\ pc = [p \in Procs |-> "idle"] /\ job = [p \in Procs |-> NoJob]
    BY DEF Init
  <1>8. TypeOK  BY <1>4, <1>5, <1>6, <1>7, NoJobTyped DEF TypeOK
  <1>9. Store  BY <1>3, <1>4, <1>5 DEF Store
  <1>10. Exclusive /\ CheckedOut /\ Roles /\ Lined
    BY <1>7, NoJobTyped
    DEF Exclusive, CheckedOut, Roles, Lined, Holds, Merged, Procs, IntegratorSteps, MaintainerSteps
  <1>11. SubsystemFirst
    <2>1. Mainline \in Trees  BY DEF Trees
    <2> QED  BY <1>3, <1>4, <1>6, <2>1 DEF SubsystemFirst, Anc
  <1>12. OwnCommits  BY <1>6 DEF OwnCommits, Anc
  <1>13. TipsRead  BY <1>7, NoJobTyped DEF TipsRead, TipsFor, Procs
  <1>14. NothingLost
    <2>1. commits[1].tree = {} /\ commits[1].anc = {1} /\ commits[1].kind # "work"  BY <1>3, <1>4
    <2> QED  BY <1>5, <2>1 DEF NothingLost
  <1>15. RecordsContainTheirLeaves  BY <1>3, <1>4, <1>5 DEF RecordsContainTheirLeaves
  <1> QED
    BY <1>8, <1>9, <1>10, <1>11, <1>12, <1>13, <1>14, <1>15 DEF SeatInv

LEMMA SeatNext ==
  ASSUME SeatInv, [Next]_vars
  PROVE  SeatInv'
  <1>1. TypeOK' /\ Store'  BY TypedNext, NextGrows DEF Grows
  <1>2. Exclusive' /\ CheckedOut' /\ Roles'  BY ExclusiveNext, CheckedOutNext, RolesNext
  <1>3. SubsystemFirst' /\ Lined' /\ OwnCommits'  BY SubsystemFirstNext, LinedNext, OwnCommitsNext
  <1>4. TipsRead' /\ NothingLost' /\ RecordsContainTheirLeaves'
    BY TipsReadNext, NothingLostNext, RecordsNext
  <1> QED  BY <1>1, <1>2, <1>3, <1>4 DEF SeatInv

LEMMA SeatInvariant == Spec => []SeatInv
  BY SeatInit, SeatNext, PTL DEF Spec

\* Every reachable state is well typed: no call uses a ref that does not exist.
THEOREM TypeCorrect == Spec => []TypeOK
  <1>1. SeatInv => TypeOK  BY DEF SeatInv
  <1> QED  BY <1>1, SeatInvariant, PTL

\* Whatever maintainers and integrators do at once, and whoever is killed, every
\* contribution in the history of a commit is in its files: nobody merges into a
\* worktree that is not the tip (_branch_worktree).
THEOREM MergesLoseNothing == Spec => []NothingLost
  <1>1. SeatInv => NothingLost  BY DEF SeatInv
  <1> QED  BY <1>1, SeatInvariant, PTL

\* accept_leaf answers ok only when the work is in the subsystem tree and in the
\* default branch, for any number of maintainers that accept at once.
THEOREM OkMeansMerged == Spec => []AcceptedMeansMerged
  <1>1. SeatInv => AcceptedMeansMerged
    <2> SUFFICES ASSUME SeatInv, NEW p \in Maintainers, job[p].said = "accepted"
                 PROVE  job[p].commit \in Anc(branch[Subsystem]) \cap Anc(branch[Default])
      BY DEF AcceptedMeansMerged
    <2>1. /\ TypeOK /\ Store /\ Lined /\ Subsystem \in Trees /\ Default \in Trees
          /\ \A b \in Trees \cup Leaves : branch[b] \in Oid \cup {0}
      BY Refs DEF SeatInv
    <2>2. /\ job[p].commit \in Anc(job[p].result) /\ job[p].result \in Anc(branch[Subsystem])
          /\ job[p].result \in Anc(branch[Default])
      BY <2>1 DEF Lined, Merged, Behind
    <2>3. ASSUME NEW t \in Trees, job[p].result \in Anc(branch[t])
          PROVE  job[p].commit \in Anc(branch[t])
      <3>1. Anc(job[p].result) \subseteq Anc(branch[t])  BY <2>1, <2>3, AncFacts
      <3> QED  BY <2>2, <3>1
    <2> QED  BY <2>1, <2>2, <2>3
  <1> QED  BY <1>1, SeatInvariant, PTL

\* The record of a hand-off contains every leaf tip it names, each accepted by a
\* marker of its own leaf, whatever was accepted between reading and merging.
THEOREM RecordsHold == Spec => []RecordsContainTheirLeaves
  <1>1. SeatInv => RecordsContainTheirLeaves  BY DEF SeatInv
  <1> QED  BY <1>1, SeatInvariant, PTL
-----------------------------------------------------------------------------
(* One record per series. *)

NoRecordNext(c) == \A d \in AncNext(c) : commits'[d].kind # "record"

LEMMA NoRecordKept ==
  ASSUME TypeOK, Store, Extends, NEW c \in Oid \cup {0}, NoRecord(c)
  PROVE  NoRecordNext(c)
  BY ExtendsFacts, AncFacts DEF NoRecord, NoRecordNext, Extends

\* A commit that is none and merges none has no record behind it.
LEMMA NoRecordWritten ==
  ASSUME TypeOK, Store, NEW b \in Trees \cup Leaves, NEW c, Wrote(b, c), c.kind # "record",
         NoRecord(c.onto), NoRecord(c.merged)
  PROVE  NoRecordNext(NewOid) /\ branch'[b] = NewOid
  <1>1. /\ Extends /\ c.onto \in Oid /\ c.merged \in Oid \cup {0}
        /\ AncNext(NewOid) = {NewOid} \cup Anc(c.onto) \cup Anc(c.merged)
        /\ commits'[NewOid].kind # "record" /\ branch'[b] = NewOid
    BY DEF Wrote, AncNext
  <1>2. NoRecordNext(c.onto) /\ NoRecordNext(c.merged)  BY <1>1, NoRecordKept
  <1>3. AncNext(c.onto) = Anc(c.onto) /\ AncNext(c.merged) = Anc(c.merged)
    BY <1>1, ExtendsFacts
  <1> QED  BY <1>1, <1>2, <1>3 DEF NoRecordNext

LEMMA NoRecordBehind ==
  ASSUME TypeOK, Store, NEW c \in Oid \cup {0}, NEW d \in Anc(c), NoRecord(c)
  PROVE  NoRecord(d)
  BY AncFacts DEF NoRecord

LEMMA RecordsOnMainlineNext ==
  ASSUME SeatInv, RecordsOnMainline, [Next]_vars
  PROVE  RecordsOnMainline'
  <1>0. /\ TypeOK /\ Store /\ Lined /\ Maintainers \subseteq Procs
        /\ {Default, Subsystem, Mainline} = Trees
        /\ \A b \in Trees \cup Leaves : branch[b] \in Oid \cup {0}
        /\ pc \in [Procs -> Pcs] /\ job \in [Procs -> Job]
    BY Refs DEF SeatInv, TypeOK, Pcs, Procs
  <1>1. Extends /\ \A c \in Oid \cup {0} : NoRecord(c) => NoRecordNext(c)
    BY <1>0, NextGrows, NoRecordKept DEF Grows
  <1>2. NoRecord(0)  BY DEF NoRecord, Anc
  <1>3. ASSUME NEW l \in Leaves, Contribute(l)  PROVE NoRecordNext(branch'[l])
    <2> DEFINE onto == IF branch[l] = 0 THEN branch[Default] ELSE branch[l]
               c == Made("work", l, onto, 0, commits[onto].tree \cup {NewOid}, {})
    <2>1. Wrote(l, c)  BY <1>3, ContributeWrites
    <2>2. c.onto = onto /\ c.merged = 0 /\ c.kind # "record"  BY DEF Made
    <2>3. NoRecord(onto)  BY DEF RecordsOnMainline
    <2> HIDE DEF c, onto
    <2> QED  BY <1>0, <1>2, <2>1, <2>2, <2>3, NoRecordWritten
  <1>4. ASSUME NEW l \in Leaves, NEW p \in Maintainers, Accept(p, l)
        PROVE  NoRecordNext(branch'[l]) /\ branch'[l] = NewOid
    <2> DEFINE c == Made("mark", l, branch[l], 0, commits[branch[l]].tree, {})
    <2>1. Wrote(l, c)  BY <1>4, AcceptWrites
    <2>2. c.onto = branch[l] /\ c.merged = 0 /\ c.kind # "record"  BY DEF Made
    <2>3. NoRecord(branch[l])  BY DEF RecordsOnMainline
    <2> HIDE DEF c
    <2> QED  BY <1>0, <1>2, <2>1, <2>2, <2>3, NoRecordWritten
  <1>5. \A l \in Leaves : NoRecordNext(branch'[l])
    <2>1. ASSUME NEW l \in Leaves, NEW c, Wrote(l, c)
          PROVE  \A k \in Leaves : k # l => branch'[k] = branch[k]
      BY <2>1 DEF Wrote
    <2>2. ASSUME NEW k \in Leaves, branch'[k] = branch[k]  PROVE NoRecordNext(branch'[k])
      BY <1>0, <1>1, <2>2 DEF RecordsOnMainline
    <2>3. ASSUME NEW l \in Leaves, Contribute(l)  PROVE \A k \in Leaves : NoRecordNext(branch'[k])
      BY <1>3, <2>1, <2>2, <2>3, ContributeWrites
    <2>4. ASSUME NEW l \in Leaves, NEW p \in Maintainers, Accept(p, l)
          PROVE  \A k \in Leaves : NoRecordNext(branch'[k])
      BY <1>4, <2>1, <2>2, <2>4, AcceptWrites
    <2>5. ASSUME NEW p \in Procs, MergeLeaf(p) \/ MergeSeries(p)
          PROVE  \A l \in Leaves : branch'[l] = branch[l]
      <3>1. \A t \in Trees : t \notin Leaves  BY TreesAssumption DEF Trees
      <3>2. ASSUME NEW b \in Trees, NEW c, Wrote(b, c)  PROVE \A l \in Leaves : branch'[l] = branch[l]
        BY <3>1, <3>2 DEF Wrote
      <3> QED  BY <2>5, <3>2, MergeWrites, <1>0
    <2>6. Moves => \A l \in Leaves : branch'[l] = branch[l]
      <3>1. \A t \in Trees : t \notin Leaves  BY TreesAssumption DEF Trees
      <3> QED  BY <1>0, <3>1, MovedTo DEF SeatInv, TypeOK
    <2> QED  BY <2>2, <2>3, <2>4, <2>5, <2>6, StepKinds DEF Writes, Still
  <1>6. NoRecord(branch[Default]) /\ NoRecord(branch[Subsystem])  BY DEF RecordsOnMainline
  <1>7. NoRecordNext(branch'[Default]) /\ NoRecordNext(branch'[Subsystem])
    <2>1. NoRecordNext(branch[Default]) /\ NoRecordNext(branch[Subsystem])  BY <1>0, <1>1, <1>6
    <2>2. ASSUME NEW p \in Procs, DefaultForwarded(p)  PROVE NoRecordNext(branch'[Default])
      <3>1. job[p].result \in Oid /\ job[p].result \in Anc(branch[Subsystem])
        BY <1>0, <2>2 DEF DefaultForwarded, Lined, Behind
      <3>2. NoRecord(job[p].result)  BY <1>0, <1>6, <3>1, NoRecordBehind
      <3> QED  BY <1>1, <2>2, <3>1, <3>2 DEF DefaultForwarded
    <2>3. ASSUME NEW p \in Procs, SubsystemMerged(p)  PROVE NoRecordNext(branch'[Subsystem])
      <3> DEFINE c == Joined(p, "accept", {})
      <3>1. c.kind # "record" /\ c.onto = branch[Subsystem] /\ c.merged = job[p].commit
        BY <2>3 DEF Joined, Made, SubsystemMerged
      <3>2. Wrote(Subsystem, c)  BY <2>3 DEF SubsystemMerged
      <3>3. NoRecord(job[p].commit)
        BY <2>3 DEF RecordsOnMainline, SubsystemMerged, MergeLeaf
      <3> HIDE DEF c
      <3> QED  BY <1>0, <1>6, <3>1, <3>2, <3>3, NoRecordWritten
    <2>4. CASE TreesStay  BY <1>0, <2>1, <2>4 DEF TreesStay
    <2>5. CASE SubsystemMade  BY <2>1, <2>5 DEF SubsystemMade
    <2>6. ASSUME NEW p \in Procs, DefaultForwarded(p) \/ MainlineMade(p) \/ SubsystemMerged(p) \/ MainlineMerged(p)
          PROVE  NoRecordNext(branch'[Default]) /\ NoRecordNext(branch'[Subsystem])
      BY <2>1, <2>2, <2>3, <2>6 DEF DefaultForwarded, MainlineMade, SubsystemMerged, MainlineMerged
    <2> QED  BY <2>4, <2>5, <2>6, TreesMove
  <1>8. ASSUME NEW p \in Maintainers, pc'[p] \in {"create", "open", "merge"}
        PROVE  NoRecordNext(job'[p].commit)
    <2>1. ASSUME pc[p] \in {"create", "open", "merge"}, job'[p].commit = job[p].commit
          PROVE  NoRecordNext(job'[p].commit)
      <3>1. job[p].commit \in Oid /\ NoRecord(job[p].commit)
        BY <1>0, <2>1 DEF Lined, RecordsOnMainline
      <3> QED  BY <1>1, <2>1, <3>1
    <2>2. ASSUME NEW q \in Procs, Step(q), p # q  PROVE pc'[p] = pc[p] /\ job'[p] = job[p]
      BY <1>0, <2>2, StepAlone DEF Alone
    <2>3. (\E l \in Leaves : Contribute(l)) \/ UNCHANGED vars => pc'[p] = pc[p] /\ job'[p] = job[p]
      BY DEF Contribute, vars
    <2>4. ASSUME NEW l \in Leaves, Accept(p, l)  PROVE NoRecordNext(job'[p].commit)
      <3>1. job'[p].commit = NewOid  BY <1>0, <2>4 DEF Accept, Job
      <3> QED  BY <1>4, <2>4, <3>1
    <2>5. ASSUME CreateSubsystem(p) \/ Open(p)
          PROVE  pc[p] \in {"create", "open", "merge"} /\ job'[p].commit = job[p].commit
      BY <1>0, <2>5 DEF CreateSubsystem, Open, Say, Goto, Job
    <2>6. MergeLeaf(p) \/ Forward(p) \/ Advance(p) \/ Close(p) \/ Forget(p)
            => pc'[p] \notin {"create", "open", "merge"}
      BY <1>0 DEF MergeLeaf, Forward, Advance, Close, Forget, Goto, Say
    <2>7. Step(p) => NoRecordNext(job'[p].commit)
      <3>1. p \notin Integrators  BY ProcsAssumption
      <3> QED  BY <1>8, <2>1, <2>4, <2>5, <2>6, <3>1 DEF Step, MaintainerStep, CommonStep, Return, Crash
    <2> QED  BY <1>0, <1>8, <2>1, <2>2, <2>3, <2>7, NextSteps
  <1> QED  BY <1>5, <1>7, <1>8 DEF RecordsOnMainline, NoRecord, NoRecordNext, Anc, AncNext

\* What mainline's first-parent history becomes.
LEMMA MainlineNext ==
  ASSUME SeatInv, RecordsOnMainline, [Next]_vars
  PROVE  \/ LineNext(branch'[Mainline]) = FirstParents(branch[Mainline])
         \/ \A c \in LineNext(branch'[Mainline]) : commits'[c].kind # "record"
         \/ \E p \in Procs : MainlineMerged(p) /\ LineNext(branch'[Mainline]) = {NewOid} \cup FirstParents(branch[Mainline])
  <1>0. /\ TypeOK /\ Store /\ TipsRead
        /\ {Default, Subsystem, Mainline} = Trees
        /\ \A b \in Trees \cup Leaves : branch[b] \in Oid \cup {0}
    BY Refs DEF SeatInv
  <1>1. Extends /\ \A c \in Oid \cup {0} : LineNext(c) = FirstParents(c)
    BY <1>0, NextGrows, ExtendsFacts DEF Grows
  <1>2. ASSUME NEW p \in Procs, MainlineMade(p)
        PROVE  \A c \in LineNext(branch'[Mainline]) : commits'[c].kind # "record"
    <2>1. job[p].result \in Oid /\ job[p].result \in Anc(branch[Subsystem])
      BY <1>0, <1>2 DEF MainlineMade, CreateMainline, TipsRead, TipsFor, Behind
    <2>2. NoRecord(job[p].result)  BY <1>0, <2>1, NoRecordBehind DEF RecordsOnMainline
    <2>3. FirstParents(job[p].result) \subseteq Anc(job[p].result)
          /\ Anc(job[p].result) \subseteq Oid
      BY <1>0, <2>1, AncFacts
    <2> QED  BY <1>1, <1>2, <2>1, <2>2, <2>3 DEF MainlineMade, NoRecord, Extends
  <1>3. ASSUME NEW p \in Procs, MainlineMerged(p)
        PROVE  LineNext(branch'[Mainline]) = {NewOid} \cup FirstParents(branch[Mainline])
    BY <1>3, JoinedHas DEF MainlineMerged
  <1>4. ASSUME branch'[Mainline] = branch[Mainline]
        PROVE  LineNext(branch'[Mainline]) = FirstParents(branch[Mainline])
    BY <1>0, <1>1, <1>4
  <1> QED
    BY <1>0, <1>2, <1>3, <1>4, TreesMove DEF TreesStay, SubsystemMade, DefaultForwarded, SubsystemMerged

RecordedNext(s) ==
  \E c \in LineNext(branch'[Mainline]) : commits'[c].kind = "record" /\ commits'[c].of = s

\* The record that is new is that of the series whose hand-off merges.
LEMMA RecordsCome ==
  ASSUME SeatInv, RecordsOnMainline, [Next]_vars, NEW s, RecordedNext(s), ~Recorded(s)
  PROVE  \E p \in Integrators : pc[p] = "merge" /\ job[p].of = s /\ MergeSeries(p)
  <1>0. /\ TypeOK /\ Store /\ Extends /\ branch[Mainline] \in Oid \cup {0}
    BY NextGrows, Refs DEF SeatInv, Grows
  <1>1. FirstParents(branch[Mainline]) \subseteq Oid  BY <1>0, AncFacts
  <1>2. PICK c \in LineNext(branch'[Mainline]) : commits'[c].kind = "record" /\ commits'[c].of = s
    BY DEF RecordedNext
  <1>3. c \notin FirstParents(branch[Mainline])  BY <1>0, <1>1, <1>2 DEF Extends, Recorded
  <1>4. PICK p \in Procs : MainlineMerged(p) /\ c = NewOid
    BY <1>2, <1>3, MainlineNext
  <1>5. commits'[NewOid].of = job[p].of  BY <1>4, JoinedHas DEF MainlineMerged
  <1> QED  BY <1>2, <1>4, <1>5 DEF MainlineMerged, MergeSeries

LEMMA UnrecordedNext ==
  ASSUME OneIntegrator, OnceInv, [Next]_vars
  PROVE  Unrecorded'
  <1>0. /\ SeatInv /\ RecordsOnMainline /\ Unrecorded /\ Integrators \subseteq Procs
        /\ pc \in [Procs -> Pcs] /\ job \in [Procs -> Job]
    BY DEF OnceInv, SeatInv, TypeOK, Pcs, Procs
  <1>1. ASSUME NEW p \in Integrators, pc'[p] \in {"anchor", "begin", "open", "merge"}
        PROVE  ~RecordedNext(job'[p].of)
    <2>1. pc'[p] # "close"  BY <1>1
    <2>2. ~MergeSeries(p)  BY <1>0, <2>1 DEF MergeSeries, Goto
    <2>3. \A q \in Integrators : ~MergeSeries(q)  BY <2>2 DEF OneIntegrator
    <2>4. ~Recorded(job'[p].of)
      <3>1. ASSUME pc[p] \in {"anchor", "begin", "open", "merge"}, job'[p].of = job[p].of
            PROVE  ~Recorded(job'[p].of)
        BY <1>0, <3>1 DEF Unrecorded
      <3>2. ASSUME NEW q \in Procs, Step(q), p # q  PROVE pc'[p] = pc[p] /\ job'[p] = job[p]
        BY <1>0, <3>2, StepAlone DEF Alone
      <3>3. (\E l \in Leaves : Contribute(l)) \/ UNCHANGED vars => pc'[p] = pc[p] /\ job'[p] = job[p]
        BY DEF Contribute, vars
      <3>4. ASSUME LookUp(p)  PROVE ~Recorded(job'[p].of)
        <4>1. pc'[p] # "done"  BY <1>1
        <4>2. ~Recorded(job[p].of) /\ job' = [job EXCEPT ![p].commit = branch[Subsystem]]
          BY <1>0, <3>4, <4>1 DEF LookUp, Say, Goto
        <4>3. job'[p].of = job[p].of  BY <1>0, <4>2 DEF Job
        <4> QED  BY <4>2, <4>3
      <3>5. ASSUME CreateMainline(p) \/ Open(p)
            PROVE  pc[p] \in {"anchor", "begin", "open", "merge"} /\ job'[p].of = job[p].of
        BY <1>0, <3>5 DEF CreateMainline, Open, Say, Goto, Job
      <3>6. ASSUME Anchor(p)
            PROVE  pc[p] \in {"anchor", "begin", "open", "merge"} /\ job'[p].of = job[p].of
        <4>1. pc[p] = "anchor" /\ \/ job' = job
                                  \/ \E a : job' = [job EXCEPT ![p].said = a]
                                  \/ \E r : job' = [job EXCEPT ![p].result = r]
          BY <3>6 DEF Anchor, Say
        <4> QED  BY <1>0, <4>1 DEF Job
      <3>7. (\E s \in Series : HandOff(p, s)) \/ ReadLeaf(p) \/ Close(p) \/ Forget(p)
              => pc'[p] \notin {"anchor", "begin", "open", "merge"}
        <4>1. Close(p) => pc'[p] \in {"forward", "done"}  BY <1>0 DEF Close, Goto
        <4>2. Forget(p) => pc'[p] = "idle"  BY <1>0 DEF Forget, Goto
        <4>3. (\E s \in Series : HandOff(p, s)) => pc'[p] = "leaves"  BY <1>0 DEF HandOff, Goto
        <4>4. ReadLeaf(p) => pc'[p] \in {"done", "lookup", "leaves"}  BY <1>0 DEF ReadLeaf, Goto, Say
        <4> QED  BY <4>1, <4>2, <4>3, <4>4
      <3>8. Step(p) => ~Recorded(job'[p].of)
        <4>1. p \notin Maintainers  BY ProcsAssumption
        <4> QED
          BY <1>1, <2>2, <3>1, <3>4, <3>5, <3>6, <3>7, <4>1
          DEF Step, IntegratorStep, CommonStep, Return, Crash
      <3> QED  BY <1>0, <1>1, <3>1, <3>2, <3>3, <3>8, NextSteps
    <2> QED  BY <1>0, <2>3, <2>4, RecordsCome
  <1> QED  BY <1>1 DEF Unrecorded, Recorded, RecordedNext, FirstParents, LineNext

LEMMA RecordedOnceNext ==
  ASSUME OnceInv, [Next]_vars
  PROVE  RecordedOnce'
  <1>0. /\ SeatInv /\ RecordsOnMainline /\ Unrecorded /\ RecordedOnce /\ TypeOK /\ Store
        /\ Extends /\ branch[Mainline] \in Oid \cup {0}
    BY NextGrows, Refs DEF OnceInv, SeatInv, Grows
  <1>1. FirstParents(branch[Mainline]) \subseteq Oid  BY <1>0, AncFacts
  <1> SUFFICES ASSUME NEW c \in LineNext(branch'[Mainline]), NEW d \in LineNext(branch'[Mainline]),
                      commits'[c].kind = "record", commits'[d].kind = "record",
                      commits'[c].of = commits'[d].of
               PROVE  c = d
    BY DEF RecordedOnce, FirstParents, LineNext
  <1>2. CASE LineNext(branch'[Mainline]) = FirstParents(branch[Mainline])
    BY <1>0, <1>1, <1>2 DEF RecordedOnce, Extends
  <1>3. ASSUME NEW p \in Procs, MainlineMerged(p),
               LineNext(branch'[Mainline]) = {NewOid} \cup FirstParents(branch[Mainline])
        PROVE  c = d
    <2>1. commits'[NewOid].of = job[p].of  BY <1>3, JoinedHas DEF MainlineMerged
    <2>2. ~Recorded(job[p].of)
      BY <1>0, <1>3 DEF Unrecorded, MainlineMerged, MergeSeries
    <2>3. \A e \in FirstParents(branch[Mainline]) :
            commits'[e].kind = "record" => commits'[e].of # job[p].of
      BY <1>0, <1>1, <2>2 DEF Recorded, Extends
    <2> QED  BY <1>0, <1>1, <1>3, <2>1, <2>3 DEF RecordedOnce, Extends
  <1> QED  BY <1>0, <1>2, <1>3, MainlineNext

\* While one integrator hands off at a time, a series gets one record on mainline,
\* however often it is handed off, killed and overtaken by acceptances.
THEOREM OneRecordPerSeries ==
  ASSUME OneIntegrator
  PROVE  Spec => []RecordedOnce
  <1>1. Init => OnceInv
    <2> SUFFICES ASSUME Init  PROVE OnceInv
      OBVIOUS
    <2>1. SeatInv  BY SeatInit
    <2>2. \A c \in Oid : commits[c].kind # "record"
      BY DEF Init, Oid
    <2>3. \A p \in Procs : pc[p] = "idle"  BY DEF Init
    <2>4. \A c \in Oid \cup {0} : Anc(c) \subseteq Oid /\ FirstParents(c) \subseteq Oid
      BY <2>1, AncFacts DEF SeatInv
    <2>5. /\ {Default, Subsystem, Mainline} = Trees
          /\ \A b \in Trees \cup Leaves : branch[b] \in Oid \cup {0}
      BY <2>1, Refs DEF SeatInv
    <2>6. RecordsOnMainline  BY <2>2, <2>3, <2>4, <2>5 DEF RecordsOnMainline, NoRecord, Procs
    <2>7. Unrecorded /\ RecordedOnce
      BY <2>2, <2>3, <2>4, <2>5 DEF Unrecorded, RecordedOnce, Procs
    <2> QED  BY <2>1, <2>6, <2>7 DEF OnceInv
  <1>2. OnceInv /\ [Next]_vars => OnceInv'
    BY SeatNext, RecordsOnMainlineNext, UnrecordedNext, RecordedOnceNext DEF OnceInv
  <1>3. OnceInv => RecordedOnce  BY DEF OnceInv
  <1> QED  BY <1>1, <1>2, <1>3, PTL DEF Spec
=============================================================================
