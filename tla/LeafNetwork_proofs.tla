------------------------ MODULE LeafNetwork_proofs ------------------------
(***************************************************************************)
(* Proofs about LeafNetwork, for any splits without cycles, any callers,   *)
(* and any bounds; calls and kills come anywhere, in the middle of a review*)
(* included.                                                               *)
(*                                                                         *)
(* Every tree there is -- of the branch, in the index, prepared by a       *)
(* process -- is Sound for what is merged, and merges only add to that.    *)
(* That is NetInv, and children are ready in the order of their            *)
(* dependencies, and offered once, by it.                                  *)
(*                                                                         *)
(* What escalations are promised rests on the numbers of the rounds: a     *)
(* ledger in any of these trees is Settled, a successor follows the tree   *)
(* that it replaces (Frozen), the index is Behind the branch, and a review *)
(* under way comes after every escalation that did not cross it (InReview),*)
(* so that an accepted series is Concluded.  That is OrderInv.             *)
(*                                                                         *)
(* Verdicts rest on the same numbers: an escalation that is prepared has a *)
(* round after all the others (Fresh), so one that comes in during a       *)
(* review crosses it (AtIssue).  That is AcceptInv.                        *)
(***************************************************************************)
EXTENDS LeafNetwork, SequenceTheorems, WellFoundedInduction, TLAPS

-----------------------------------------------------------------------------
(* The helpers. *)

\* A set of naturals that is not empty has a least element ...
LEMMA LeastExists ==
  ASSUME NEW S \in SUBSET Nat, S # {}
  PROVE  Min(S) \in S /\ \A y \in S : Min(S) <= y
  <1> DEFINE R == OpToRel(<, Nat)
  <1>1. PICK x \in S : \A y \in S : ~ (<<y, x>> \in R)
    <2>1. IsWellFoundedOn(R, Nat)  BY NatLessThanWellFounded
    <2> HIDE DEF R
    <2> QED  BY <2>1, WFMin
  <1>2. \A y \in S : x <= y
    <2> SUFFICES ASSUME NEW y \in S PROVE x <= y
      OBVIOUS
    <2>1. <<y, x>> \notin R  BY <1>1
    <2>2. ~ (y < x)  BY <2>1 DEF OpToRel
    <2> QED  BY <2>2
  <1> QED  BY <1>2 DEF Min

\* ... and, if it is bounded, a greatest one.
LEMMA GreatestExists ==
  ASSUME NEW S \in SUBSET Nat, S # {}, NEW n \in Nat, \A x \in S : x <= n
  PROVE  Max(S) \in S /\ \A y \in S : y <= Max(S)
  <1> DEFINE U == {u \in Nat : \A x \in S : x <= u}
             u == Min(U)
  <1>1. u \in U /\ \A v \in U : u <= v  BY LeastExists
  <1>2. u \in S
    <2> SUFFICES ASSUME u \notin S PROVE FALSE  OBVIOUS
    <2> HIDE DEF u
    <2>1. \A x \in S : x <= u /\ x # u  BY <1>1
    <2>0. u \in Nat /\ S \subseteq Nat  BY <1>1
    <2>2. u \in Nat /\ S \subseteq Nat /\ \E x \in S : x < u
      <3>1. PICK x \in S : TRUE  OBVIOUS
      <3>2. x \in Nat /\ x <= u /\ x # u  BY <2>0, <2>1, <3>1
      <3>3. x < u  BY <2>0, <3>2
      <3> QED  BY <2>0, <3>3
    <2>3. u - 1 \in Nat /\ \A x \in S : x <= u - 1  BY <2>1, <2>2
    <2>4. u - 1 \in U /\ ~(u <= u - 1)  BY <2>2, <2>3
    <2> QED  BY <1>1, <2>4
  <1> HIDE DEF u
  <1>3. \E x \in S : \A y \in S : x >= y  BY <1>1, <1>2
  <1>4. \A y \in S : Max(S) >= y /\ Max(S) \in S  BY <1>3 DEF Max
  <1> QED  BY <1>4

-----------------------------------------------------------------------------
(* Trees of the series branch. *)

Scopes == {s[k].scope : s \in Splits, k \in Children}
Texts  == {s[k].text : s \in Splits, k \in Children}
Manifests == [status : Lifecycles, previous : Lifecycles \cup {"none"}, scope : Scopes,
              deps : SUBSET Children, text : Texts, noted : Nat]
Projections == [status : Lifecycles, scope : Scopes, deps : SUBSET Children]
Rounds == [n : Nat, of : Children \cup {0}, whole : BOOLEAN]
Units == UNION {[D -> Manifests] : D \in SUBSET Children}
Views == UNION {[D -> Projections] : D \in SUBSET Children}
Ledgers == [made : BOOLEAN, from : Nat, entry : Views]
Trees == [child : Units, ledger : Ledgers, rounds : SUBSET Rounds]

LEMMA UnitsAre ==
  /\ \A c \in Units : c \in [DOMAIN c -> Manifests] /\ DOMAIN c \in SUBSET Children
  /\ \A D \in SUBSET Children : [D -> Manifests] \subseteq Units
  BY DEF Units

LEMMA ViewsAre ==
  /\ \A c \in Views : c \in [DOMAIN c -> Projections] /\ DOMAIN c \in SUBSET Children
  /\ \A D \in SUBSET Children : [D -> Projections] \subseteq Views
  BY DEF Views

LEMMA TreeParts ==
  ASSUME NEW t \in Trees
  PROVE  /\ t.child \in Units
         /\ t.child \in [DOMAIN t.child -> Manifests] /\ DOMAIN t.child \in SUBSET Children
         /\ t.ledger.from \in Nat /\ t.ledger.made \in BOOLEAN
         /\ t.ledger.entry \in [DOMAIN t.ledger.entry -> Projections]
         /\ t.rounds \in SUBSET Rounds
  <1>1. t.child \in Units /\ t.ledger \in Ledgers /\ t.rounds \in SUBSET Rounds
    BY DEF Trees
  <1>2. t.ledger.entry \in Views /\ t.ledger.from \in Nat /\ t.ledger.made \in BOOLEAN
    BY <1>1 DEF Ledgers
  <1> QED  BY <1>1, <1>2, UnitsAre, ViewsAre

LEMMA TreeMade ==
  ASSUME NEW child \in Units, NEW made \in BOOLEAN,
         NEW from \in Nat, NEW entry \in Views, NEW rounds \in SUBSET Rounds,
         NEW t, t = [child |-> child, rounds |-> rounds,
                     ledger |-> [made |-> made, from |-> from, entry |-> entry]]
  PROVE  t \in Trees
  <1>1. [made |-> made, from |-> from, entry |-> entry] \in Ledgers  BY DEF Ledgers
  <1> QED  BY <1>1 DEF Trees

LEMMA NoTreeIs == NoTree \in Trees /\ NoTree.rounds = {} /\ DOMAIN NoTree.child = {}
                  /\ DOMAIN NoTree.ledger.entry = {} /\ NoTree.ledger.from = 0
  <1>1. <<>> \in [{} -> Manifests] /\ <<>> \in [{} -> Projections]  OBVIOUS
  <1>2. <<>> \in Units /\ <<>> \in Views  BY <1>1, UnitsAre, ViewsAre
  <1>3. NoLedger \in Ledgers  BY <1>2 DEF Ledgers, NoLedger
  <1> QED  BY <1>2, <1>3 DEF Trees, NoTree, NoLedger

\* What is sound about a tree when the contributions to some children are merged:
\* among others, who is open to patch authors, or may become so again, has its
\* dependencies merged.
SoundUnits(child, merged) ==
  \A k \in DOMAIN child :
    LET m == child[k] IN
    /\ m.deps \subseteq DOMAIN child
    /\ m.status = "stale" => m.previous \in Lifecycles \ {"stale"}
    /\ m.status = "ready" \/ (m.status = "stale" /\ m.previous = "ready")
         => m.deps \subseteq merged

Sound(t, merged) ==
  /\ DOMAIN t.ledger.entry = DOMAIN t.child
  /\ t.ledger.made \/ DOMAIN t.child = {}
  /\ SoundUnits(t.child, merged)

Numbered(rounds) == \E n \in Nat : \A r \in rounds : r.n <= n
Proposes(proposed) == \A k \in DOMAIN proposed : proposed[k] \in Projections

LEMMA SoundStays ==
  ASSUME NEW t, NEW merged, NEW more, merged \subseteq more, Sound(t, merged)
  PROVE  Sound(t, more)
  BY DEF Sound, SoundUnits

-----------------------------------------------------------------------------
(* Types. *)

Subjects == {"none", "network", "escalated"}
Verdicts == {"direction-ok", "needs-revision", "nak"}
Kinds == {"none", "reform", "review", "refine", "rebaseline", "elaborate", "v"} \cup Verdicts
Tasks == [kind : Kinds, node : Children \cup {0}, round : Nat, last : BOOLEAN,
          current : BOOLEAN, tree : Trees, subject : Subjects]

Typed ==
  /\ state \in States /\ edition \in Nat /\ plan \subseteq Splits
  /\ escalated \in Nat /\ crossed \subseteq Nat
  /\ tree \in Trees /\ index \in Trees
  /\ \A k \in DOMAIN tree.child : written[k] \in 0..edition
  /\ onto \in BOOLEAN /\ back \in BOOLEAN
  /\ pc \in [Procs -> {"idle", "chosen", "publish", "scan", "post",
                       "checkout", "add", "commit", "restore"}]
  /\ task \in [Procs -> Tasks]
  /\ resolved \subseteq released /\ released \subseteq Children
  /\ offers \in Seq(Children)

\* A process and the tree it has prepared.
AtWork(p) ==
  LET t == task[p] IN
  /\ Sound(t.tree, resolved) /\ Numbered(t.tree.rounds)
  /\ pc[p] = "publish" => t.subject # "none"
  /\ pc[p] \in {"scan", "post"} => t.kind = "elaborate"
  /\ t.kind = "elaborate" => t.node \in Children
  /\ pc[p] \in {"checkout", "add", "commit"} => t.kind \in Verdicts \cup {"v"}

OffersInv ==
  /\ OneOfferPerNode
  /\ pc[Puller] = "post" => task[Puller].node \notin Range(offers)

NetInv ==
  /\ Typed
  /\ Sound(tree, resolved) /\ Numbered(tree.rounds)
  /\ Sound(index, resolved) /\ Numbered(index.rounds)
  /\ \A p \in Procs : AtWork(p)
  /\ OffersInv

LEMMA PullerIs == Puller \in Procs /\ \A c \in Callers : c \in Procs /\ c # Puller
  BY CallersAssumption DEF Procs

LEMMA NoTreeSound == (\A merged : Sound(NoTree, merged)) /\ Numbered(NoTree.rounds)
  BY NoTreeIs DEF Sound, SoundUnits, Numbered

LEMMA IdleIs == /\ Idle \in Tasks /\ Idle.kind = "none" /\ Idle.round = 0
                /\ Idle.tree = NoTree /\ Idle.current = FALSE
  BY NoTreeIs DEF Idle, Tasks, Kinds, Subjects

LEMMA NetInvInit == Init => NetInv
  <1> SUFFICES ASSUME Init PROVE NetInv  OBVIOUS
  <1>1. tree = [child |-> <<>>, ledger |-> NoLedger, rounds |-> {[n |-> 1, of |-> 0, whole |-> TRUE]}]
    BY DEF Init, NoTree
  <1>2. tree \in Trees /\ DOMAIN tree.child = {}
    <2>1. [n |-> 1, of |-> 0, whole |-> TRUE] \in Rounds  BY DEF Rounds
    <2>2. NoTree.child = <<>> /\ NoTree.ledger = NoLedger  BY DEF NoTree
    <2>3. NoLedger \in Ledgers /\ <<>> \in Units
      BY <2>2, NoTreeIs DEF Trees
    <2>4. {[n |-> 1, of |-> 0, whole |-> TRUE]} \in SUBSET Rounds  BY <2>1
    <2>5. tree \in Trees  BY <1>1, <2>3, <2>4 DEF Trees
    <2>6. DOMAIN tree.child = {}  BY <1>1
    <2> QED  BY <2>5, <2>6
  <1>4. Sound(tree, resolved) /\ Numbered(tree.rounds)
    BY <1>1 DEF Sound, SoundUnits, Numbered, NoLedger
  <1>5. Sound(index, resolved) /\ Numbered(index.rounds)  BY NoTreeSound DEF Init
  <1>6. Typed
    <2>1. pc \in [Procs -> {"idle"}] /\ task \in [Procs -> Tasks]
      BY IdleIs DEF Init
    <2>2. index \in Trees /\ offers \in Seq(Children) /\ onto = FALSE /\ back = FALSE
      BY NoTreeIs DEF Init
    <2>3. resolved = {} /\ released = {}  BY DEF Init
    <2>4. pc \in [Procs -> {"idle", "chosen", "publish", "scan", "post",
                           "checkout", "add", "commit", "restore"}]
      BY <2>1
    <2>5. state \in States /\ edition \in Nat /\ escalated \in Nat /\ crossed \subseteq Nat
      BY DEF Init, States
    <2>6. \A k \in DOMAIN tree.child : written[k] \in 0..edition  BY <1>2
    <2>7. resolved \subseteq released /\ released \subseteq Children  BY <2>3
    <2>8. onto \in BOOLEAN /\ back \in BOOLEAN  BY <2>2
    <2>9. plan \subseteq Splits  BY DEF Init, Plans
    <2> QED  BY <1>2, <2>1, <2>2, <2>4, <2>5, <2>6, <2>7, <2>8, <2>9, Zenon DEF Typed
  <1>7. \A p \in Procs : AtWork(p)
    <2>1. \A p \in Procs : task[p] = Idle /\ pc[p] = "idle"  BY DEF Init
    <2>2. Sound(NoTree, resolved) /\ Numbered(NoTree.rounds)  BY NoTreeSound
    <2>3. ASSUME NEW p \in Procs  PROVE AtWork(p)
      <3>1. task[p] = Idle /\ pc[p] = "idle"  BY <2>1
      <3> QED  BY <2>2, <3>1, IdleIs DEF AtWork
    <2> QED  BY <2>3
  <1>8. OffersInv  BY PullerIs DEF Init, OffersInv, OneOfferPerNode
  <1> QED  BY <1>4, <1>5, <1>6, <1>7, <1>8 DEF NetInv

-----------------------------------------------------------------------------
(* Steps that leave the branch alone. *)

Labels == {"idle", "chosen", "publish", "scan", "post", "checkout", "add", "commit", "restore"}

LEMMA LocalKeeps ==
  ASSUME NetInv, NEW p \in Procs, NEW t \in Tasks, NEW l \in Labels,
         task' = [task EXCEPT ![p] = t], pc' = [pc EXCEPT ![p] = l],
         UNCHANGED <<state, tree, edition, written, plan, released, escalated, crossed, resolved, offers>>,
         index' \in Trees, Sound(index', resolved), Numbered(index'.rounds),
         onto' \in BOOLEAN, back' \in BOOLEAN, AtWork(p)',
         p = Puller /\ l = "post" => t.node \notin Range(offers)
  PROVE  NetInv'
  <1>1. Typed'
    <2>1. task' \in [Procs -> Tasks] /\ pc' \in [Procs -> Labels]
      BY DEF NetInv, Typed, Labels
    <2> QED  BY <2>1 DEF NetInv, Typed, Labels
  <1>2. ASSUME NEW q \in Procs  PROVE AtWork(q)'
    <2>1. CASE q = p  BY <2>1
    <2>2. CASE q # p
      <3>1. task'[q] = task[q] /\ pc'[q] = pc[q]  BY <2>2 DEF NetInv, Typed
      <3>2. AtWork(q)  BY DEF NetInv
      <3> QED  BY <3>1, <3>2 DEF AtWork
    <2> QED  BY <2>1, <2>2
  <1>3. OffersInv'
    <2>1. p # Puller => pc'[Puller] = pc[Puller] /\ task'[Puller] = task[Puller]
      BY PullerIs DEF NetInv, Typed
    <2>2. p = Puller => pc'[Puller] = l /\ task'[Puller] = t
      BY PullerIs DEF NetInv, Typed
    <2> QED  BY <2>1, <2>2 DEF NetInv, OffersInv, OneOfferPerNode
  <1> QED  BY <1>1, <1>2, <1>3 DEF NetInv

LEMMA TaskParts ==
  ASSUME NetInv, NEW p \in Procs
  PROVE  /\ task[p] \in Tasks /\ task[p].kind \in Kinds /\ task[p].node \in Children \cup {0}
         /\ task[p].round \in Nat /\ task[p].last \in BOOLEAN /\ task[p].current \in BOOLEAN
         /\ task[p].tree \in Trees /\ task[p].subject \in Subjects
         /\ pc[p] \in Labels
  BY DEF NetInv, Typed, Tasks, Labels

LEMMA StopKeeps ==
  ASSUME NetInv, NEW p \in Procs, Stop(p),
         UNCHANGED <<state, tree, edition, written, plan, released, escalated, crossed, resolved, offers>>,
         index' \in Trees, Sound(index', resolved), Numbered(index'.rounds),
         onto' \in BOOLEAN, back' \in BOOLEAN
  PROVE  NetInv'
  <1>1. pc' = [pc EXCEPT ![p] = "idle"] /\ task' = [task EXCEPT ![p] = Idle]
    BY DEF Stop, Goto
  <1>2. Idle \in Tasks /\ "idle" \in Labels  BY IdleIs DEF Labels
  <1>3. AtWork(p)'
    <2>1. task'[p] = Idle /\ pc'[p] = "idle"  BY <1>1 DEF NetInv, Typed
    <2>2. Sound(NoTree, resolved') /\ Numbered(NoTree.rounds)  BY NoTreeSound
    <2> QED  BY <2>1, <2>2, IdleIs DEF AtWork
  <1> QED  BY <1>1, <1>2, <1>3, LocalKeeps

LEMMA GiveUpKeeps ==
  ASSUME NetInv, GiveUp
  PROVE  NetInv'
  <1>1. Stop(Puller) /\ UNCHANGED <<branchVars, resolved, offers, onto, back, index>>
    BY DEF GiveUp, worktreeVars
  <1> QED  BY <1>1, PullerIs, StopKeeps DEF NetInv, Typed, branchVars

LEMMA CrashKeeps ==
  ASSUME NetInv, NEW p \in Procs, Crash(p)
  PROVE  NetInv'
  <1>1. /\ Stop(p) /\ UNCHANGED <<state, tree, edition, written, plan, released, escalated, crossed, resolved, offers, onto, index>>
        /\ back' \in {FALSE, back}
    BY DEF Crash, branchVars
  <1> QED  BY <1>1, StopKeeps DEF NetInv, Typed

LEMMA RestoreKeeps ==
  ASSUME NetInv, Restore
  PROVE  NetInv'
  <1>1. /\ Stop(Puller) /\ UNCHANGED <<state, tree, edition, written, plan, released, escalated, crossed, resolved, offers>>
        /\ back' = FALSE /\ onto' \in BOOLEAN /\ index' \in {index, NoTree}
    BY DEF Restore, branchVars
  <1>2. Sound(NoTree, resolved) /\ Numbered(NoTree.rounds) /\ NoTree \in Trees
    BY NoTreeSound, NoTreeIs
  <1> QED  BY <1>1, <1>2, StopKeeps, PullerIs DEF NetInv, Typed

\* The worker comes by a verdict or a revision, or goes on to the next command.
LEMMA StepKeeps ==
  ASSUME NetInv, NEW p \in Procs, NEW kind \in Kinds, NEW l \in Labels,
         task' = [task EXCEPT ![p].kind = kind], pc' = [pc EXCEPT ![p] = l],
         UNCHANGED <<state, tree, edition, written, plan, released, escalated, crossed, resolved, offers>>,
         index' \in Trees, Sound(index', resolved), Numbered(index'.rounds),
         onto' \in BOOLEAN, back' \in BOOLEAN,
         l # "publish",
         l \in {"scan", "post"} => kind = "elaborate",
         kind = "elaborate" => task[p].kind = "elaborate",
         l \in {"checkout", "add", "commit"} => kind \in Verdicts \cup {"v"},
         p = Puller /\ l = "post" => task[p].node \notin Range(offers)
  PROVE  NetInv'
  <1> DEFINE t == [task[p] EXCEPT !.kind = kind]
  <1>1. task' = [task EXCEPT ![p] = t]  OBVIOUS
  <1>2. /\ t \in Tasks /\ t.kind = kind /\ t.node = task[p].node
        /\ t.tree = task[p].tree /\ t.subject = task[p].subject
    BY TaskParts DEF Tasks
  <1> HIDE DEF t
  <1>3. AtWork(p)'
    <2>1. task'[p] = t /\ pc'[p] = l  BY <1>1 DEF NetInv, Typed
    <2>2. AtWork(p)  BY DEF NetInv
    <2> QED  BY <1>2, <2>1, <2>2 DEF AtWork
  <1> QED  BY <1>1, <1>2, <1>3, LocalKeeps

LEMMA JudgeKeeps ==
  ASSUME NetInv, NEW v \in Verdicts, Judge(v)
  PROVE  NetInv'
  <1>1. PICK kind \in Verdicts : task' = [task EXCEPT ![Puller].kind = kind]
    <2>1. CASE task[Puller].last /\ v = "needs-revision"
      BY <2>1 DEF Judge, Verdicts
    <2>2. CASE ~(task[Puller].last /\ v = "needs-revision")
      BY <2>2 DEF Judge
    <2> QED  BY <2>1, <2>2
  <1>2. /\ pc' = [pc EXCEPT ![Puller] = "checkout"]
        /\ UNCHANGED <<state, tree, edition, written, plan, released, escalated, crossed, resolved, offers, onto, back, index>>
    BY DEF Judge, Goto, branchVars, worktreeVars
  <1>3. kind \in Kinds /\ "checkout" \in Labels /\ kind # "elaborate"
    BY DEF Kinds, Labels, Verdicts
  <1> QED  BY <1>1, <1>2, <1>3, PullerIs, StepKeeps DEF NetInv, Typed

LEMMA ReviseKeeps ==
  ASSUME NetInv, Revise
  PROVE  NetInv'
  <1>1. /\ task' = [task EXCEPT ![Puller].kind = "v"] /\ pc' = [pc EXCEPT ![Puller] = "checkout"]
        /\ UNCHANGED <<state, tree, edition, written, plan, released, escalated, crossed, resolved, offers, onto, back, index>>
    BY DEF Revise, Goto, branchVars, worktreeVars
  <1>2. "v" \in Kinds /\ "checkout" \in Labels  BY DEF Kinds, Labels
  <1> QED  BY <1>1, <1>2, PullerIs, StepKeeps DEF NetInv, Typed

LEMMA SameKind ==
  ASSUME NetInv, NEW p \in Procs, UNCHANGED task
  PROVE  task' = [task EXCEPT ![p].kind = task[p].kind]
  <1>1. task[p] = [task[p] EXCEPT !.kind = task[p].kind]  BY TaskParts DEF Tasks
  <1> QED  BY <1>1 DEF NetInv, Typed

LEMMA CheckoutKeeps ==
  ASSUME NetInv, Checkout
  PROVE  NetInv'
  <1>1. /\ pc[Puller] = "checkout" /\ pc' = [pc EXCEPT ![Puller] = "add"]
        /\ UNCHANGED <<state, tree, edition, written, plan, released, escalated, crossed, resolved, offers, task>>
        /\ back' = onto /\ onto' = TRUE /\ index' \in {index, tree}
    BY DEF Checkout, Goto, branchVars
  <1>2. AtWork(Puller) /\ task[Puller].kind \in Kinds /\ "add" \in Labels
    BY PullerIs, TaskParts DEF NetInv, Labels
  <1>3. task[Puller].kind \in Verdicts \cup {"v"}  BY <1>1, <1>2 DEF AtWork
  <1>4. task[Puller].kind # "elaborate"  BY <1>3 DEF Verdicts
  <1>5. task' = [task EXCEPT ![Puller].kind = task[Puller].kind]
    BY <1>1, PullerIs, SameKind
  <1> QED  BY <1>1, <1>2, <1>3, <1>4, <1>5, PullerIs, StepKeeps DEF NetInv, Typed

\* With the record of a round of review.
Recorded(t) ==
  [index EXCEPT !.rounds = {r \in @ : r.n # t.round}
                             \cup {[n |-> t.round, of |-> 0, whole |-> TRUE]}]

LEMMA RecordedIs ==
  ASSUME NetInv, NEW t \in Tasks
  PROVE  /\ Recorded(t) \in Trees /\ Sound(Recorded(t), resolved)
         /\ Numbered(Recorded(t).rounds) /\ Recorded(t).ledger = index.ledger
         /\ Recorded(t).rounds = {r \in index.rounds : r.n # t.round}
                                  \cup {[n |-> t.round, of |-> 0, whole |-> TRUE]}
  <1>1. index \in Trees /\ Sound(index, resolved) /\ t.round \in Nat
    BY DEF NetInv, Typed, Tasks
  <1>2. index.rounds \in SUBSET Rounds  BY <1>1, TreeParts
  <1>3. PICK n \in Nat : \A r \in index.rounds : r.n <= n  BY DEF NetInv, Numbered
  <1>4. PICK rounds : rounds = {r \in index.rounds : r.n # t.round}
                                 \cup {[n |-> t.round, of |-> 0, whole |-> TRUE]}
    OBVIOUS
  <1>5. PICK new : new = [index EXCEPT !.rounds = rounds]  OBVIOUS
  <1>6. Recorded(t) = new  BY <1>4, <1>5 DEF Recorded
  <1>7. [n |-> t.round, of |-> 0, whole |-> TRUE] \in Rounds  BY <1>1 DEF Rounds
  <1>8. rounds \in SUBSET Rounds  BY <1>2, <1>4, <1>7
  <1>9. /\ new \in Trees /\ new.rounds = rounds /\ new.child = index.child
        /\ new.ledger = index.ledger
    BY <1>1, <1>5, <1>8 DEF Trees
  <1>10. Sound(new, resolved)  BY <1>1, <1>9 DEF Sound
  <1>11. n + t.round \in Nat /\ \A r \in rounds : r.n <= n + t.round
    BY <1>1, <1>2, <1>3, <1>4 DEF Rounds
  <1> QED  BY <1>4, <1>6, <1>9, <1>10, <1>11 DEF Numbered

LEMMA AddKeeps ==
  ASSUME NetInv, Add
  PROVE  NetInv'
  <1>1. /\ pc[Puller] = "add" /\ pc' = [pc EXCEPT ![Puller] = "commit"]
        /\ UNCHANGED <<state, tree, edition, written, plan, released, escalated, crossed,
                       resolved, offers, task, onto, back>>
        /\ index' \in {index, Recorded(task[Puller])}
    BY DEF Add, Recorded, Goto, branchVars
  <1>2. /\ AtWork(Puller) /\ task[Puller] \in Tasks /\ task[Puller].kind \in Kinds
        /\ "commit" \in Labels
    BY PullerIs, TaskParts DEF NetInv, Labels
  <1>3. task[Puller].kind \in Verdicts \cup {"v"}  BY <1>1, <1>2 DEF AtWork
  <1>4. task[Puller].kind # "elaborate"  BY <1>3 DEF Verdicts
  <1>5. task' = [task EXCEPT ![Puller].kind = task[Puller].kind]
    BY <1>1, PullerIs, SameKind
  <1>6. index' \in Trees /\ Sound(index', resolved) /\ Numbered(index'.rounds)
    BY <1>1, <1>2, RecordedIs DEF NetInv, Typed
  <1> QED  BY <1>1, <1>2, <1>3, <1>4, <1>5, <1>6, PullerIs, StepKeeps DEF NetInv, Typed

LEMMA ScanKeeps ==
  ASSUME NetInv, Scan
  PROVE  NetInv'
  <1>1. /\ pc[Puller] = "scan"
        /\ UNCHANGED <<state, tree, edition, written, plan, released, escalated, crossed, resolved, offers, onto, back, index>>
    BY DEF Scan, branchVars, worktreeVars
  <1>2. CASE task[Puller].node \in Range(offers)
    <2>1. Stop(Puller)  BY <1>2 DEF Scan
    <2> QED  BY <1>1, <2>1, PullerIs, StopKeeps DEF NetInv, Typed
  <1>3. CASE task[Puller].node \notin Range(offers)
    <2>1. pc' = [pc EXCEPT ![Puller] = "post"] /\ UNCHANGED task
      BY <1>3 DEF Scan, Goto
    <2>2. AtWork(Puller) /\ task[Puller].kind \in Kinds /\ "post" \in Labels
      BY PullerIs, TaskParts DEF NetInv, Labels
    <2>3. task[Puller].kind = "elaborate"  BY <1>1, <2>2 DEF AtWork
    <2>4. task' = [task EXCEPT ![Puller].kind = task[Puller].kind]
      BY <2>1, PullerIs, SameKind
    <2> QED  BY <1>1, <1>3, <2>1, <2>2, <2>3, <2>4, PullerIs, StepKeeps DEF NetInv, Typed
  <1> QED  BY <1>2, <1>3

LEMMA PostKeeps ==
  ASSUME NetInv, Post
  PROVE  NetInv'
  <1> DEFINE k == task[Puller].node
             n == Len(offers)
  <1>1. /\ pc[Puller] = "post" /\ offers' \in {offers, Append(offers, k)}
        /\ pc' = [pc EXCEPT ![Puller] = "idle"] /\ task' = [task EXCEPT ![Puller] = Idle]
        /\ UNCHANGED <<state, tree, edition, written, plan, released, escalated, crossed, resolved, onto, back, index>>
    BY DEF Post, Stop, Goto, branchVars, worktreeVars
  <1>2. AtWork(Puller) /\ k \notin Range(offers)
    BY <1>1, PullerIs DEF NetInv, OffersInv
  <1>3. k \in Children /\ offers \in Seq(Children) /\ n \in Nat /\ DOMAIN offers = 1..n
    <2>1. k \in Children  BY <1>1, <1>2 DEF AtWork
    <2>2. offers \in Seq(Children)  BY DEF NetInv, Typed
    <2> QED  BY <2>1, <2>2
  <1>4. offers' \in Seq(Children)  BY <1>1, <1>3
  <1>5. OneOfferPerNode'
    <2>1. CASE offers' = offers  BY <2>1 DEF NetInv, OffersInv, OneOfferPerNode
    <2>2. CASE offers' = Append(offers, k)
      <3>1. /\ DOMAIN offers' = 1..(n + 1) /\ offers'[n + 1] = k
            /\ \A i \in 1..n : offers'[i] = offers[i]
        BY <1>3, <2>2
      <3>2. \A i \in 1..n : offers[i] # k  BY <1>2, <1>3 DEF Range
      <3>3. \A i, j \in 1..n : offers[i] = offers[j] => i = j
        BY <1>3 DEF NetInv, OffersInv, OneOfferPerNode
      <3> HIDE DEF k, n
      <3> QED  BY <1>3, <3>1, <3>2, <3>3 DEF OneOfferPerNode
    <2> QED  BY <1>1, <2>1, <2>2
  <1>6. Typed'
    <2>1. task' \in [Procs -> Tasks]  BY <1>1, IdleIs DEF NetInv, Typed
    <2>2. pc' \in [Procs -> Labels]  BY <1>1 DEF NetInv, Typed, Labels
    <2> QED  BY <1>1, <1>4, <2>1, <2>2 DEF NetInv, Typed, Labels
  <1>7. ASSUME NEW q \in Procs  PROVE AtWork(q)'
    <2>1. CASE q = Puller
      <3>1. task'[q] = Idle /\ pc'[q] = "idle"  BY <1>1, <2>1 DEF NetInv, Typed
      <3>2. Sound(NoTree, resolved') /\ Numbered(NoTree.rounds)  BY NoTreeSound
      <3> QED  BY <3>1, <3>2, IdleIs DEF AtWork
    <2>2. CASE q # Puller
      <3>1. task'[q] = task[q] /\ pc'[q] = pc[q]  BY <1>1, <2>2 DEF NetInv, Typed
      <3>2. AtWork(q)  BY DEF NetInv
      <3> QED  BY <1>1, <3>1, <3>2 DEF AtWork
    <2> QED  BY <2>1, <2>2
  <1>8. pc'[Puller] = "idle"  BY <1>1, PullerIs DEF NetInv, Typed
  <1> QED  BY <1>1, <1>5, <1>6, <1>7, <1>8 DEF NetInv, OffersInv

LEMMA ResolveKeeps ==
  ASSUME NetInv, NEW k \in Children, Resolve(k)
  PROVE  NetInv'
  <1>1. /\ k \in released /\ resolved' = resolved \cup {k}
        /\ UNCHANGED <<state, tree, edition, written, plan, released, escalated, crossed, onto, back, index, pc, task, offers>>
    BY DEF Resolve, branchVars, worktreeVars
  <1>2. \A t : Sound(t, resolved) => Sound(t, resolved')
    BY <1>1, SoundStays
  <1>3. Typed'  BY <1>1 DEF NetInv, Typed
  <1>4. ASSUME NEW q \in Procs  PROVE AtWork(q)'
    <2>1. AtWork(q)  BY DEF NetInv
    <2>2. Sound(task[q].tree, resolved')  BY <1>2, <2>1 DEF AtWork
    <2> QED  BY <1>1, <2>1, <2>2 DEF AtWork
  <1>5. OffersInv'  BY <1>1 DEF NetInv, OffersInv, OneOfferPerNode
  <1>6. Sound(tree, resolved') /\ Sound(index, resolved')  BY <1>2 DEF NetInv
  <1> QED  BY <1>1, <1>3, <1>4, <1>5, <1>6 DEF NetInv

-----------------------------------------------------------------------------
(* Rounds of review. *)

\* The next round has the number after the greatest.
LEMMA NextRoundIs ==
  ASSUME NetInv
  PROVE  /\ NextRound \in Nat /\ 0 < NextRound
         /\ \A r \in tree.rounds : r.n \in Nat /\ r.n < NextRound
  <1> DEFINE S == {0} \cup {r.n : r \in tree.rounds}
  <1>1. tree.rounds \in SUBSET Rounds  BY TreeParts DEF NetInv, Typed
  <1>2. PICK n \in Nat : \A r \in tree.rounds : r.n <= n  BY DEF NetInv, Numbered
  <1>3. S \in SUBSET Nat /\ S # {}  BY <1>1 DEF Rounds
  <1>4. \A x \in S : x <= n  BY <1>2
  <1>5. NextRound = Max(S) + 1  BY DEF NextRound
  <1>6. \A r \in tree.rounds : r.n \in S  OBVIOUS
  <1> HIDE DEF S
  <1>7. Max(S) \in S /\ \A x \in S : x <= Max(S)  BY <1>2, <1>3, <1>4, GreatestExists
  <1>8. Max(S) \in Nat  BY <1>3, <1>7
  <1>9. ASSUME NEW r \in tree.rounds  PROVE r.n \in Nat /\ r.n < Max(S) + 1
    <2>1. r.n \in S  BY <1>6
    <2>2. r.n \in Nat /\ r.n <= Max(S)  BY <1>3, <1>7, <2>1
    <2> QED  BY <1>8, <2>2
  <1> QED  BY <1>5, <1>8, <1>9

\* The latest escalation is the one with the greatest number.
LEMMA LatestIs ==
  ASSUME NetInv, Escalations # {}
  PROVE  /\ LatestEscalation \in tree.rounds /\ LatestEscalation.of # 0
         /\ LatestEscalation.n \in Nat
         /\ \A o \in Escalations : o.n <= LatestEscalation.n
  <1> DEFINE S == {r.n : r \in Escalations}
  <1>1. Escalations \subseteq tree.rounds /\ tree.rounds \in SUBSET Rounds
    BY TreeParts DEF NetInv, Typed, Escalations
  <1>2. S \in SUBSET Nat /\ S # {}  BY <1>1 DEF Rounds
  <1>3. PICK n \in Nat : \A x \in S : x <= n  BY <1>1 DEF NetInv, Numbered
  <1>4. \A r \in Escalations : r.n \in S  OBVIOUS
  <1>5. \A x \in S : \E r \in Escalations : r.n = x  OBVIOUS
  <1> HIDE DEF S
  <1>6. Max(S) \in S /\ \A x \in S : x <= Max(S)  BY <1>2, <1>3, GreatestExists
  <1>7. PICK r \in Escalations : r.n = Max(S)  BY <1>5, <1>6
  <1>8. \A o \in Escalations : o.n <= r.n  BY <1>4, <1>6, <1>7
  <1>9. /\ LatestEscalation \in Escalations
        /\ \A o \in Escalations : o.n <= LatestEscalation.n
    BY <1>7, <1>8 DEF LatestEscalation
  <1> QED  BY <1>1, <1>9 DEF Escalations, Rounds

-----------------------------------------------------------------------------
(* A run or a call begins. *)

LEMMA StartKeeps ==
  ASSUME NetInv, NEW p \in Procs, NEW t \in Tasks,
         t.tree = NoTree,
         t.kind = "elaborate" => t.node \in Children,
         task' = [task EXCEPT ![p] = t], pc' = [pc EXCEPT ![p] = "chosen"],
         UNCHANGED <<state, tree, edition, written, plan, released, escalated, crossed, resolved, offers, onto, back, index>>
  PROVE  NetInv'
  <1>1. AtWork(p)'
    <2>1. task'[p] = t /\ pc'[p] = "chosen"  BY DEF NetInv, Typed
    <2>2. Sound(t.tree, resolved') /\ Numbered(t.tree.rounds)  BY NoTreeSound
    <2> QED  BY <2>1, <2>2 DEF AtWork
  <1>2. "chosen" \in Labels  BY DEF Labels
  <1> QED  BY <1>1, <1>2, LocalKeeps DEF NetInv, Typed

LEMMA SelectKeeps ==
  ASSUME NetInv, Select
  PROVE  NetInv'
  <1> DEFINE kind == NextItem
             node == IF NextItem = "elaborate" THEN Min(CoarseReady) ELSE 0
             t == [Idle EXCEPT !.kind = NextItem,
                     !.node = IF NextItem = "elaborate" THEN Min(CoarseReady) ELSE 0,
                     !.round = NextRound, !.last = Cardinality(tree.rounds) >= MaxRounds]
  <1>1. /\ task' = [task EXCEPT ![Puller] = t] /\ pc' = [pc EXCEPT ![Puller] = "chosen"]
        /\ UNCHANGED <<state, tree, edition, written, plan, released, escalated, crossed, resolved, offers, onto, back, index>>
    BY DEF Select, Goto, branchVars, worktreeVars
  <1>2. kind \in Kinds
    BY DEF NextItem, Kinds
  <1>3. node \in Children \cup {0} /\ (kind = "elaborate" => node \in Children)
    <2>1. CoarseReady \in SUBSET Children
      BY TreeParts DEF CoarseReady, NetInv, Typed
    <2>2. NextItem = "elaborate" => CoarseReady # {}  BY DEF NextItem
    <2>3. CoarseReady # {} => Min(CoarseReady) \in CoarseReady
      BY <2>1, ChildrenAssumption, LeastExists
    <2> QED  BY <2>1, <2>2, <2>3
  <1>4. NextRound \in Nat  BY NextRoundIs
  <1>5. t = [Idle EXCEPT !.kind = kind, !.node = node,
                     !.round = NextRound, !.last = Cardinality(tree.rounds) >= MaxRounds]
    OBVIOUS
  <1> HIDE DEF t, kind, node
  <1>6. /\ t \in Tasks /\ t.tree = NoTree /\ t.round = NextRound
        /\ t.kind = kind /\ t.node = node
    <2>1. ASSUME NEW last \in BOOLEAN,
                 t = [Idle EXCEPT !.kind = kind, !.node = node, !.round = NextRound,
                                  !.last = last]
          PROVE  /\ t \in Tasks /\ t.tree = NoTree /\ t.round = NextRound
                 /\ t.kind = kind /\ t.node = node
      <3>1. t = [kind |-> kind, node |-> node, round |-> NextRound, last |-> last,
                 current |-> FALSE, tree |-> NoTree, subject |-> "none"]
        BY <2>1 DEF Idle
      <3>2. "none" \in Subjects  BY DEF Subjects
      <3> QED  BY <1>2, <1>3, <1>4, <3>1, <3>2, NoTreeIs DEF Tasks
    <2>2. CASE Cardinality(tree.rounds) >= MaxRounds
      <3>1. (Cardinality(tree.rounds) >= MaxRounds) = TRUE  BY <2>2
      <3>2. t = [Idle EXCEPT !.kind = kind, !.node = node, !.round = NextRound, !.last = TRUE]
        BY <1>5, <3>1, Zenon
      <3> QED  BY <2>1, <3>2
    <2>3. CASE ~(Cardinality(tree.rounds) >= MaxRounds)
      <3>1. (Cardinality(tree.rounds) >= MaxRounds) = FALSE  BY <2>3
      <3>2. t = [Idle EXCEPT !.kind = kind, !.node = node, !.round = NextRound, !.last = FALSE]
        BY <1>5, <3>1, Zenon
      <3> QED  BY <2>1, <3>2
    <2> QED  BY <2>2, <2>3
  <1> QED  BY <1>1, <1>3, <1>4, <1>6, PullerIs, StartKeeps

-----------------------------------------------------------------------------
(* Successor trees. *)

\* The tree that is prepared.
Successor(child, proposed, from, rounds) ==
  [child |-> child, rounds |-> rounds,
   ledger |-> [made |-> TRUE, from |-> from, entry |-> Entries(child, proposed)]]

LEMMA EntriesAre ==
  ASSUME NEW child \in Units, NEW proposed, Proposes(proposed)
  PROVE  Entries(child, proposed) \in Views /\ DOMAIN Entries(child, proposed) = DOMAIN child
  <1>1. child \in [DOMAIN child -> Manifests] /\ DOMAIN child \in SUBSET Children
    BY UnitsAre
  <1>2. ASSUME NEW k \in DOMAIN child  PROVE Projection(child[k]) \in Projections
    BY <1>1 DEF Projection, Projections, Manifests
  <1>3. Entries(child, proposed) \in [DOMAIN child -> Projections]
    BY <1>2 DEF Entries, Proposes
  <1> QED  BY <1>1, <1>3, ViewsAre

LEMMA SuccessorIs ==
  ASSUME NEW child \in Units, NEW proposed, Proposes(proposed),
         NEW from \in Nat, NEW rounds \in SUBSET Rounds, NEW merged,
         SoundUnits(child, merged),
         NEW t, t = Successor(child, proposed, from, rounds)
  PROVE  /\ t \in Trees /\ Sound(t, merged) /\ t.child = child /\ t.rounds = rounds
         /\ t.ledger.from = from
  <1>1. PICK entry : entry = Entries(child, proposed)  OBVIOUS
  <1>2. entry \in Views /\ DOMAIN entry = DOMAIN child  BY <1>1, EntriesAre
  <1>3. t = [child |-> child, rounds |-> rounds,
             ledger |-> [made |-> TRUE, from |-> from, entry |-> entry]]
    BY <1>1 DEF Successor
  <1>4. t \in Trees
    <2>1. TRUE \in BOOLEAN  OBVIOUS
    <2> QED  BY <1>2, <1>3, <2>1, TreeMade
  <1>5. Sound(t, merged)  BY <1>2, <1>3 DEF Sound
  <1> QED  BY <1>3, <1>4, <1>5

LEMMA PreparedKeeps ==
  ASSUME NetInv, NEW p \in Procs, NEW child \in Units,
         NEW proposed, Proposes(proposed),
         NEW from \in Nat, NEW rounds \in SUBSET Rounds, NEW subject \in Subjects,
         subject # "none", SoundUnits(child, resolved), Numbered(rounds),
         Prepared(p, child, proposed, from, rounds, subject)
  PROVE  NetInv'
  <1>1. PICK new : new = Successor(child, proposed, from, rounds)  OBVIOUS
  <1>2. /\ new \in Trees /\ Sound(new, resolved) /\ new.rounds = rounds
    <2>1. PICK merged : merged = resolved  OBVIOUS
    <2>2. SoundUnits(child, merged) /\ Proposes(proposed)  BY <2>1
    <2>3. /\ new \in Trees /\ Sound(new, merged) /\ new.child = child /\ new.rounds = rounds
          /\ new.ledger.from = from
      BY <1>1, <2>2, SuccessorIs
    <2> QED  BY <2>1, <2>3
  <1>3. PICK t : t = [task[p] EXCEPT !.current = TRUE, !.subject = subject, !.tree = new]
    OBVIOUS
  <1>7. /\ task' = [task EXCEPT ![p] = t] /\ pc' = [pc EXCEPT ![p] = "publish"]
        /\ UNCHANGED <<state, tree, edition, written, plan, released, escalated, crossed, resolved, offers, onto, back, index>>
    <2>1. task' = [task EXCEPT ![p].current = TRUE, ![p].subject = subject, ![p].tree = new]
      BY <1>1 DEF Prepared, Successor
    <2>2. task' = [task EXCEPT ![p] = t]  BY <1>3, <2>1
    <2> QED  BY <2>2 DEF Prepared, Goto, branchVars, worktreeVars
  <1>4. /\ t \in Tasks /\ t.tree = new /\ t.subject = subject
        /\ t.kind = task[p].kind /\ t.node = task[p].node
    BY <1>2, <1>3, TaskParts DEF Tasks
  <1>5. AtWork(p)'
    <2>1. task'[p] = t /\ pc'[p] = "publish"  BY <1>7 DEF NetInv, Typed
    <2>2. AtWork(p)  BY DEF NetInv
    <2>3. Numbered(t.tree.rounds)  BY <1>2, <1>4
    <2>4. Sound(t.tree, resolved')  BY <1>2, <1>4, <1>7
    <2> QED  BY <1>4, <2>1, <2>2, <2>3, <2>4 DEF AtWork
  <1>6. "publish" \in Labels  BY DEF Labels
  <1> QED  BY <1>4, <1>5, <1>6, <1>7, LocalKeeps DEF NetInv, Typed

LEMMA FormedIs ==
  ASSUME NEW s \in Splits, NEW k \in DOMAIN s
  PROVE  /\ k \in Children /\ Formed(s[k]) \in Manifests
         /\ Formed(s[k]).deps \subseteq DOMAIN s
         /\ Formed(s[k]).status # "stale"
         /\ Formed(s[k]).status = "ready" => Formed(s[k]).deps = {}
         /\ Projection(Formed(s[k])) \in Projections
  <1>1. k \in Children /\ s[k].deps \in SUBSET Children /\ s[k].deps \subseteq DOMAIN s
    BY SplitsAssumption
  <1>2. s[k].scope \in Scopes /\ s[k].text \in Texts  BY <1>1 DEF Scopes, Texts
  <1>3. Formed(s[k]) = [status |-> IF s[k].deps = {} THEN "ready" ELSE "posted",
                        previous |-> "none", scope |-> s[k].scope, deps |-> s[k].deps,
                        text |-> s[k].text, noted |-> 0]
    BY DEF Formed
  <1>4. Formed(s[k]) \in Manifests  BY <1>1, <1>2, <1>3 DEF Manifests, Lifecycles
  <1>5. Projection(Formed(s[k])) \in Projections
    BY <1>4 DEF Projection, Projections, Manifests
  <1> QED  BY <1>1, <1>3, <1>4, <1>5

\* What a split makes of the children.
Replaced(s) ==
  [k \in DOMAIN s \cup DOMAIN tree.child |->
     IF k \notin DOMAIN s \/ (k \in DOMAIN tree.child /\ tree.child[k].status = "stale")
     THEN tree.child[k] ELSE Formed(s[k])]

LEMMA ReplacedIs ==
  ASSUME NetInv, NEW s \in Splits
  PROVE  /\ Replaced(s) \in Units
         /\ SoundUnits(Replaced(s), resolved)
  <1>1. /\ tree.child \in [DOMAIN tree.child -> Manifests]
        /\ DOMAIN tree.child \in SUBSET Children
    BY TreeParts DEF NetInv, Typed
  <1>2. DOMAIN s \subseteq Children  BY SplitsAssumption
  <1>3. ASSUME NEW k \in DOMAIN s \cup DOMAIN tree.child
        PROVE  \/ k \in DOMAIN tree.child /\ Replaced(s)[k] = tree.child[k]
               \/ k \in DOMAIN s /\ Replaced(s)[k] = Formed(s[k])
    BY DEF Replaced
  <1>4. Replaced(s) \in [DOMAIN s \cup DOMAIN tree.child -> Manifests]
    <2>1. \A k \in DOMAIN s \cup DOMAIN tree.child : Replaced(s)[k] \in Manifests
      BY <1>1, <1>3, FormedIs
    <2>2. Replaced(s) = [k \in DOMAIN s \cup DOMAIN tree.child |-> Replaced(s)[k]]
      BY DEF Replaced
    <2> QED  BY <2>1, <2>2
  <1>5. SoundUnits(Replaced(s), resolved)
    <2> SUFFICES ASSUME NEW k \in DOMAIN Replaced(s)
                 PROVE  LET m == Replaced(s)[k] IN
                        /\ m.deps \subseteq DOMAIN Replaced(s)
                        /\ m.status = "stale" => m.previous \in Lifecycles \ {"stale"}
                        /\ m.status = "ready" \/ (m.status = "stale" /\ m.previous = "ready")
                             => m.deps \subseteq resolved
      BY DEF SoundUnits
    <2>1. k \in DOMAIN s \cup DOMAIN tree.child
          /\ DOMAIN Replaced(s) = DOMAIN s \cup DOMAIN tree.child
      BY <1>4
    <2>2. CASE k \in DOMAIN tree.child /\ Replaced(s)[k] = tree.child[k]
      BY <2>1, <2>2 DEF NetInv, Sound, SoundUnits
    <2>3. CASE k \in DOMAIN s /\ Replaced(s)[k] = Formed(s[k])
      BY <2>1, <2>3, FormedIs
    <2> QED  BY <1>3, <2>1, <2>2, <2>3
  <1> QED  BY <1>1, <1>2, <1>4, <1>5, UnitsAre

LEMMA ReplaceKeeps ==
  ASSUME NetInv, NEW s \in Splits, NEW from \in Nat, Replace(s, from)
  PROVE  NetInv'
  <1> DEFINE proposed == [k \in DOMAIN s |-> Projection(Formed(s[k]))]
  <1>1. Prepared(Puller, Replaced(s), proposed, from, tree.rounds, "network")
    BY DEF Replace, Replaced
  <1>2. Proposes(proposed)  BY FormedIs DEF Proposes
  <1>3. "network" \in Subjects /\ "network" # "none"  BY DEF Subjects
  <1> HIDE DEF proposed
  <1>4. tree.rounds \in SUBSET Rounds /\ Numbered(tree.rounds)
    BY TreeParts DEF NetInv, Typed
  <1> QED  BY <1>1, <1>2, <1>3, <1>4, ReplacedIs, PullerIs, PreparedKeeps

LEMMA RefineKeeps ==
  ASSUME NetInv, NEW s \in Splits, Refine(s) \/ Rebaseline(s)
  PROVE  NetInv'
  <1>1. CASE Refine(s)  BY <1>1, ReplaceKeeps DEF Refine
  <1>2. CASE Rebaseline(s)
    <2>1. LatestEscalation.n \in Nat  BY <1>2, LatestIs DEF Rebaseline, RebaselinePending
    <2> QED  BY <1>2, <2>1, ReplaceKeeps DEF Rebaseline
  <1> QED  BY <1>1, <1>2

\* One child gets another status.
LEMMA OneChanged ==
  ASSUME NetInv, NEW k \in DOMAIN tree.child, NEW m \in Manifests,
         m.deps = tree.child[k].deps,
         m.status = "stale" => m.previous \in Lifecycles \ {"stale"},
         m.status = "ready" \/ (m.status = "stale" /\ m.previous = "ready")
           => m.deps \subseteq resolved
  PROVE  /\ [tree.child EXCEPT ![k] = m] \in Units
         /\ SoundUnits([tree.child EXCEPT ![k] = m], resolved)
  <1>1. /\ tree.child \in [DOMAIN tree.child -> Manifests]
        /\ DOMAIN tree.child \in SUBSET Children
    BY TreeParts DEF NetInv, Typed
  <1>2. SoundUnits(tree.child, resolved)  BY DEF NetInv, Sound
  <1>3. PICK new : new = [tree.child EXCEPT ![k] = m]  OBVIOUS
  <1>4. /\ new \in [DOMAIN tree.child -> Manifests] /\ DOMAIN new = DOMAIN tree.child
        /\ new[k] = m /\ \A j \in DOMAIN tree.child : j # k => new[j] = tree.child[j]
    BY <1>1, <1>3
  <1>5. SoundUnits(new, resolved)
    <2> SUFFICES ASSUME NEW j \in DOMAIN new
                 PROVE  /\ new[j].deps \subseteq DOMAIN new
                        /\ new[j].status = "stale" => new[j].previous \in Lifecycles \ {"stale"}
                        /\ new[j].status = "ready"
                             \/ (new[j].status = "stale" /\ new[j].previous = "ready")
                             => new[j].deps \subseteq resolved
      BY Zenon DEF SoundUnits
    <2>1. CASE j = k
      BY <1>2, <1>4, <2>1 DEF SoundUnits
    <2>2. CASE j # k
      BY <1>2, <1>4, <2>2 DEF SoundUnits
    <2> QED  BY <2>1, <2>2
  <1> QED  BY <1>1, <1>3, <1>4, <1>5, UnitsAre

\* What stays of the tree when a successor is prepared.
LEMMA TreeStays ==
  ASSUME NetInv
  PROVE  /\ tree.ledger.from \in Nat /\ Proposes(tree.ledger.entry)
         /\ tree.rounds \in SUBSET Rounds /\ Numbered(tree.rounds)
         /\ DOMAIN tree.child \subseteq Children /\ DOMAIN tree.ledger.entry = DOMAIN tree.child
         /\ \A k \in DOMAIN tree.child : tree.child[k] \in Manifests
  <1>1. tree \in Trees /\ Numbered(tree.rounds) /\ Sound(tree, resolved)
    BY DEF NetInv, Typed
  <1>2. /\ tree.ledger.from \in Nat /\ tree.rounds \in SUBSET Rounds
        /\ tree.ledger.entry \in [DOMAIN tree.ledger.entry -> Projections]
        /\ tree.child \in [DOMAIN tree.child -> Manifests]
        /\ DOMAIN tree.child \in SUBSET Children
    BY <1>1, TreeParts
  <1> QED  BY <1>1, <1>2 DEF Proposes, Sound

LEMMA ElaborateKeeps ==
  ASSUME NetInv, Elaborate
  PROVE  NetInv'
  <1> DEFINE k == task[Puller].node
             m == [tree.child[k] EXCEPT !.status = "ready"]
  <1>1. /\ k \in CoarseReady
        /\ Prepared(Puller, [tree.child EXCEPT ![k] = m], tree.ledger.entry,
                    tree.ledger.from, tree.rounds, "network")
    BY DEF Elaborate
  <1>2. k \in DOMAIN tree.child /\ tree.child[k].deps \subseteq resolved
    BY <1>1 DEF CoarseReady
  <1>3. m \in Manifests /\ m.deps = tree.child[k].deps /\ m.status = "ready"
    <2>1. tree.child[k] \in Manifests  BY <1>2, TreeStays
    <2> QED  BY <2>1 DEF Manifests, Lifecycles
  <1>4. PICK new : new = [tree.child EXCEPT ![k] = m]  OBVIOUS
  <1> HIDE DEF k, m
  <1>5. new \in Units /\ SoundUnits(new, resolved)  BY <1>2, <1>3, <1>4, OneChanged
  <1>6. "network" \in Subjects /\ "network" # "none"  BY DEF Subjects
  <1>7. Prepared(Puller, new, tree.ledger.entry, tree.ledger.from, tree.rounds, "network")
    BY <1>1, <1>4
  <1> QED  BY <1>5, <1>6, <1>7, TreeStays, PullerIs, PreparedKeeps

LEMMA RevalidateKeeps ==
  ASSUME NetInv, NEW c \in Callers, NEW k, Revalidate(c, k)
  PROVE  NetInv'
  <1> DEFINE m == tree.child[k]
             proposed == tree.ledger.entry[k]
             same == m.scope = proposed.scope /\ m.deps = proposed.deps
             now == IF same
                    THEN [m EXCEPT !.status = m.previous, !.previous = "none", !.noted = edition]
                    ELSE [m EXCEPT !.status = Changed]
  <1>1. /\ k \in DOMAIN tree.child /\ m.status = "stale"
        /\ Prepared(c, [tree.child EXCEPT ![k] = now], tree.ledger.entry, tree.ledger.from,
                    tree.rounds, "network")
    BY DEF Revalidate
  <1>2. m \in Manifests /\ edition \in Nat  BY <1>1, TreeStays DEF NetInv, Typed
  <1>3. m.previous \in Lifecycles \ {"stale"} /\ (m.previous = "ready" => m.deps \subseteq resolved)
    BY <1>1 DEF NetInv, Sound, SoundUnits
  <1> HIDE DEF m
  <1>4. /\ now \in Manifests /\ now.deps = m.deps /\ now.status # "stale"
        /\ now.status = "ready" => m.deps \subseteq resolved
    <2>1. CASE same
      <3>1. now = [m EXCEPT !.status = m.previous, !.previous = "none", !.noted = edition]
        BY <2>1
      <3>2. PICK new : new = now  OBVIOUS
      <3> HIDE DEF now
      <3> QED  BY <1>2, <1>3, <3>1, <3>2 DEF Manifests
    <2>2. CASE ~same
      <3>1. now = [m EXCEPT !.status = Changed]  BY <2>2
      <3> HIDE DEF now
      <3> QED  BY <1>2, <3>1 DEF Manifests, Lifecycles, Changed
    <2> QED  BY <2>1, <2>2
  <1>5. PICK new : new = [tree.child EXCEPT ![k] = now]  OBVIOUS
  <1> HIDE DEF now
  <1>6. new \in Units /\ SoundUnits(new, resolved)
    BY <1>1, <1>4, <1>5, OneChanged DEF m
  <1>7. "network" \in Subjects /\ "network" # "none"  BY DEF Subjects
  <1>8. Prepared(c, new, tree.ledger.entry, tree.ledger.from, tree.rounds, "network")
    BY <1>1, <1>5
  <1> QED  BY <1>6, <1>7, <1>8, TreeStays, PullerIs, PreparedKeeps

\* The children after an escalation.
EscalatedChild(k) ==
  [j \in DOMAIN tree.child |->
     IF j = k THEN [tree.child[j] EXCEPT !.status = Invalidated]
     ELSE IF j \notin Cohort(k) THEN tree.child[j]
     ELSE [tree.child[j] EXCEPT !.status = "stale", !.noted = edition,
             !.previous = IF tree.child[j].status = "stale" THEN @
                          ELSE tree.child[j].status]]

LEMMA EscalatedIs ==
  ASSUME NetInv, NEW k \in DOMAIN tree.child
  PROVE  EscalatedChild(k) \in Units /\ SoundUnits(EscalatedChild(k), resolved)
  <1> DEFINE new == EscalatedChild(k)
  <1>1. /\ DOMAIN tree.child \in SUBSET Children /\ edition \in Nat
        /\ \A j \in DOMAIN tree.child : tree.child[j] \in Manifests
    BY TreeStays DEF NetInv, Typed
  <1>2. SoundUnits(tree.child, resolved)  BY DEF NetInv, Sound
  <1>3. DOMAIN new = DOMAIN tree.child  BY DEF EscalatedChild
  <1>4. ASSUME NEW j \in DOMAIN tree.child
        PROVE  /\ new[j] \in Manifests /\ new[j].deps = tree.child[j].deps
               /\ new[j].status = "stale" => new[j].previous \in Lifecycles \ {"stale"}
               /\ new[j].status = "ready"
                    \/ (new[j].status = "stale" /\ new[j].previous = "ready")
                    => tree.child[j].deps \subseteq resolved
    <2>1. PICK m : m = tree.child[j]  OBVIOUS
    <2>2. /\ m \in Manifests
          /\ m.status = "stale" => m.previous \in Lifecycles \ {"stale"}
          /\ m.status = "ready" \/ (m.status = "stale" /\ m.previous = "ready")
               => m.deps \subseteq resolved
      BY <1>1, <1>2, <2>1 DEF SoundUnits
    <2>3. CASE j = k
      <3>1. new[j] = [m EXCEPT !.status = Invalidated]  BY <2>1, <2>3 DEF EscalatedChild
      <3> HIDE DEF new
      <3> QED  BY <2>1, <2>2, <3>1 DEF Manifests, Lifecycles, Invalidated
    <2>4. CASE j # k /\ j \notin Cohort(k)
      <3>1. new[j] = m  BY <2>1, <2>4 DEF EscalatedChild
      <3> HIDE DEF new
      <3> QED  BY <2>1, <2>2, <3>1
    <2>5. CASE j # k /\ j \in Cohort(k)
      <3>1. PICK previous : previous = IF m.status = "stale" THEN m.previous ELSE m.status
        OBVIOUS
      <3>2. new[j] = [m EXCEPT !.status = "stale", !.noted = edition,
                               !.previous = previous]
        BY <2>1, <2>5, <3>1 DEF EscalatedChild
      <3>3. /\ previous \in Lifecycles \ {"stale"}
            /\ previous = "ready" => m.deps \subseteq resolved
        BY <2>2, <3>1 DEF Manifests
      <3>4. "stale" \in Lifecycles  BY DEF Lifecycles
      <3> HIDE DEF new
      <3>5. /\ new[j] \in Manifests /\ new[j].deps = m.deps /\ new[j].status = "stale"
            /\ new[j].previous = previous
        BY <1>1, <2>2, <3>2, <3>3, <3>4 DEF Manifests
      <3> QED  BY <2>1, <3>3, <3>5
    <2> QED  BY <2>3, <2>4, <2>5
  <1>5. new \in [DOMAIN tree.child -> Manifests]
    <2>1. new = [j \in DOMAIN tree.child |-> new[j]]  BY DEF EscalatedChild
    <2> HIDE DEF new
    <2> QED  BY <1>4, <2>1
  <1> HIDE DEF new
  <1>6. SoundUnits(new, resolved)
    <2> SUFFICES ASSUME NEW j \in DOMAIN new
                 PROVE  /\ new[j].deps \subseteq DOMAIN new
                        /\ new[j].status = "stale" => new[j].previous \in Lifecycles \ {"stale"}
                        /\ new[j].status = "ready"
                             \/ (new[j].status = "stale" /\ new[j].previous = "ready")
                             => new[j].deps \subseteq resolved
      BY Zenon DEF SoundUnits
    <2>1. tree.child[j].deps \subseteq DOMAIN tree.child
      BY <1>2, <1>3 DEF SoundUnits
    <2> QED  BY <1>3, <1>4, <2>1
  <1>7. new \in Units  BY <1>1, <1>5, UnitsAre
  <1> QED  BY <1>6, <1>7 DEF new

\* With a synthetic round of review after all the others.
LEMMA RoundAdded ==
  ASSUME NetInv, NEW k \in Children, NEW whole \in BOOLEAN
  PROVE  /\ tree.rounds \cup {[n |-> NextRound, of |-> k, whole |-> whole]} \in SUBSET Rounds
         /\ Numbered(tree.rounds \cup {[n |-> NextRound, of |-> k, whole |-> whole]})
  <1>1. NextRound \in Nat /\ \A r \in tree.rounds : r.n \in Nat /\ r.n < NextRound
    BY NextRoundIs
  <1>2. [n |-> NextRound, of |-> k, whole |-> whole] \in Rounds  BY <1>1 DEF Rounds
  <1> QED  BY <1>1, <1>2, TreeStays DEF Numbered

LEMMA EscalateKeeps ==
  ASSUME NetInv, NEW c \in Callers, NEW k, Escalate(c, k)
  PROVE  NetInv'
  <1> DEFINE child == EscalatedChild(k)
             whole == \A j \in Cohort(k) \cup {k} : child[j] # tree.child[j]
             rounds(w) == tree.rounds \cup {[n |-> NextRound, of |-> k, whole |-> w]}
  <1>1. /\ k \in DOMAIN tree.child
        /\ Prepared(c, child, tree.ledger.entry, tree.ledger.from, rounds(whole), "escalated")
    BY DEF Escalate, EscalatedChild
  <1>2. k \in Children  BY <1>1, TreeStays
  <1>3. child \in Units /\ SoundUnits(child, resolved)  BY <1>1, EscalatedIs
  <1> HIDE DEF child
  <1>4. \E w \in BOOLEAN : Prepared(c, child, tree.ledger.entry, tree.ledger.from, rounds(w), "escalated")
    <2>1. CASE whole
      <3>1. whole = TRUE  BY <2>1
      <3>2. Prepared(c, child, tree.ledger.entry, tree.ledger.from, rounds(TRUE), "escalated")
        BY <1>1, <3>1, Zenon
      <3> QED  BY <3>2
    <2>2. CASE ~whole
      <3>1. whole = FALSE  BY <2>2
      <3>2. Prepared(c, child, tree.ledger.entry, tree.ledger.from, rounds(FALSE), "escalated")
        BY <1>1, <3>1, Zenon
      <3> QED  BY <3>2
    <2> QED  BY <2>1, <2>2
  <1> HIDE DEF whole
  <1>5. PICK w \in BOOLEAN : Prepared(c, child, tree.ledger.entry, tree.ledger.from, rounds(w), "escalated")
    BY <1>4
  <1>6. rounds(w) \in SUBSET Rounds /\ Numbered(rounds(w))
    BY <1>2, RoundAdded
  <1>7. "escalated" \in Subjects /\ "escalated" # "none"  BY DEF Subjects
  <1>8. PICK new : new = rounds(w)  OBVIOUS
  <1> HIDE DEF rounds
  <1>9. /\ new \in SUBSET Rounds /\ Numbered(new)
        /\ Prepared(c, child, tree.ledger.entry, tree.ledger.from, new, "escalated")
    BY <1>5, <1>6, <1>8
  <1> QED  BY <1>3, <1>7, <1>9, TreeStays, PullerIs, PreparedKeeps

-----------------------------------------------------------------------------
(* A commit lands on the branch. *)

LEMMA MarkedIs ==
  ASSUME NetInv, NEW subject
  PROVE  /\ Marked(subject) \in States
         /\ Marked(subject) = "direction-ok" =>
              \/ subject = "direction-ok"
              \/ state = "direction-ok" /\ subject \notin States \cup {"escalated"}
  BY DEF NetInv, Typed, Marked, States

LEMMA LandIs ==
  ASSUME NetInv, NEW new \in Trees, NEW subject, Land(new, subject)
  PROVE  /\ tree' = new /\ state' = Marked(subject) /\ state' \in States /\ edition' \in Nat
         /\ \A k \in DOMAIN new.child : written'[k] \in 0..edition'
         /\ resolved \subseteq released' /\ released' \subseteq Children
  <1>1. /\ edition \in Nat /\ \A k \in DOMAIN tree.child : written[k] \in 0..edition
        /\ resolved \subseteq released /\ released \subseteq Children
    BY DEF NetInv, Typed
  <1>2. DOMAIN new.child \in SUBSET Children  BY TreeParts
  <1>3. /\ tree' = new /\ state' = Marked(subject) /\ edition' \in {edition, edition + 1}
        /\ written' = [k \in DOMAIN new.child |->
             IF k \in DOMAIN tree.child /\ new.child[k] = tree.child[k]
             THEN written[k] ELSE edition']
        /\ released' = released \cup {k \in DOMAIN new.child : new.child[k].status = "ready"}
    BY DEF Land
  <1>4. \A k \in DOMAIN new.child :
          \/ written'[k] = edition'
          \/ k \in DOMAIN tree.child /\ written'[k] = written[k]
    BY <1>3
  <1>5. edition' \in Nat /\ edition <= edition'  BY <1>1, <1>3
  <1>6. \A k \in DOMAIN new.child : written'[k] \in 0..edition'  BY <1>1, <1>4, <1>5
  <1> QED  BY <1>1, <1>2, <1>3, <1>5, <1>6, MarkedIs

LEMMA OutdatedIs ==
  ASSUME NetInv, NEW q \in Procs, NEW t, t = [task[q] EXCEPT !.current = FALSE]
  PROVE  /\ t \in Tasks /\ t.current = FALSE /\ t.kind = task[q].kind /\ t.node = task[q].node
         /\ t.round = task[q].round /\ t.tree = task[q].tree /\ t.subject = task[q].subject
  BY TaskParts DEF Tasks

LEMMA LandKeeps ==
  ASSUME NetInv, NEW p \in Procs, NEW t \in Tasks, NEW l \in Labels,
         task' = [Outdated EXCEPT ![p] = t], pc' = [pc EXCEPT ![p] = l],
         NEW new \in Trees, NEW subject, Land(new, subject),
         Sound(new, resolved), Numbered(new.rounds),
         UNCHANGED <<resolved, offers, onto, back, index>>,
         escalated' \in Nat, crossed' \subseteq Nat, plan' \subseteq Splits,
         AtWork(p)', l # "post"
  PROVE  NetInv'
  <1>1. /\ tree' = new /\ state' \in States /\ edition' \in Nat
        /\ \A k \in DOMAIN new.child : written'[k] \in 0..edition'
        /\ resolved \subseteq released' /\ released' \subseteq Children
    BY LandIs
  <1>2. /\ pc'[p] = l /\ task'[p] = t
        /\ \A q \in Procs \ {p} : pc'[q] = pc[q] /\ task'[q] = [task[q] EXCEPT !.current = FALSE]
    BY DEF NetInv, Typed, Outdated
  <1>3. task' \in [Procs -> Tasks]
    <2>1. \A q \in Procs : task'[q] \in Tasks
      <3> SUFFICES ASSUME NEW q \in Procs PROVE task'[q] \in Tasks  OBVIOUS
      <3>1. CASE q = p  BY <1>2, <3>1
      <3>2. CASE q # p
        <4>1. PICK u : u = [task[q] EXCEPT !.current = FALSE]  OBVIOUS
        <4> QED  BY <1>2, <3>2, <4>1, OutdatedIs
      <3> QED  BY <3>1, <3>2
    <2>2. task' = [q \in Procs |-> task'[q]]  BY DEF Outdated
    <2> QED  BY <2>1, <2>2
  <1>4. Typed'
    <2>1. pc' \in [Procs -> Labels]  BY DEF NetInv, Typed, Labels
    <2> QED  BY <1>1, <1>3, <2>1 DEF NetInv, Typed, Labels
  <1>5. ASSUME NEW q \in Procs  PROVE AtWork(q)'
    <2>1. CASE q = p  BY <2>1
    <2>2. CASE q # p
      <3>1. /\ pc'[q] = pc[q] /\ task'[q].kind = task[q].kind /\ task'[q].node = task[q].node
            /\ task'[q].tree = task[q].tree /\ task'[q].subject = task[q].subject
        BY <1>2, <2>2, OutdatedIs
      <3>2. AtWork(q)  BY DEF NetInv
      <3> QED  BY <3>1, <3>2 DEF AtWork
    <2> QED  BY <2>1, <2>2
  <1>6. OffersInv'
    <2>1. pc'[Puller] = "post" => pc[Puller] = "post" /\ task'[Puller].node = task[Puller].node
      BY <1>2, PullerIs, OutdatedIs
    <2> QED  BY <2>1 DEF NetInv, OffersInv, OneOfferPerNode
  <1> QED  BY <1>1, <1>4, <1>5, <1>6 DEF NetInv

\* A publication that succeeds.
LEMMA ReleasedIs ==
  ASSUME NetInv, NEW p \in Procs, Released(p)
  PROVE  /\ Land(task[p].tree, task[p].subject)
         /\ crossed' = crossed \cup Crossing(p)
         /\ escalated' \in Nat /\ crossed' \subseteq Nat
         /\ UNCHANGED <<plan, onto, back, index, resolved, offers>>
         /\ \E t \in Tasks, l \in {"scan", "idle"} :
              /\ task' = [Outdated EXCEPT ![p] = t] /\ pc' = [pc EXCEPT ![p] = l]
              /\ t.current = FALSE /\ t.tree \in {task[p].tree, NoTree}
              /\ \/ t = Idle /\ l = "idle"
                 \/ /\ l = "scan" /\ task[p].kind = "elaborate" /\ t.kind = "elaborate"
                    /\ t.node = task[p].node /\ t.tree = task[p].tree
  <1>1. /\ Land(task[p].tree, task[p].subject) /\ crossed' = crossed \cup Crossing(p)
        /\ escalated' \in {escalated, escalated + 1}
        /\ UNCHANGED <<plan, onto, back, index, resolved, offers>>
    BY DEF Released, worktreeVars, NetInv, Typed
  <1>2. task[p] \in Tasks /\ task[p].tree.rounds \in SUBSET Rounds
    BY TaskParts, TreeParts
  <1>3. crossed' \subseteq Nat
    <2>1. Crossing(p) \subseteq Nat  BY <1>2 DEF Crossing, Rounds
    <2> QED  BY <1>1, <2>1 DEF NetInv, Typed
  <1>4. \E t \in Tasks, l \in {"scan", "idle"} :
          /\ task' = [Outdated EXCEPT ![p] = t] /\ pc' = [pc EXCEPT ![p] = l]
          /\ t.current = FALSE /\ t.tree \in {task[p].tree, NoTree}
          /\ \/ t = Idle /\ l = "idle"
             \/ /\ l = "scan" /\ task[p].kind = "elaborate" /\ t.kind = "elaborate"
                /\ t.node = task[p].node /\ t.tree = task[p].tree
    <2>1. CASE task[p].kind = "elaborate"
      <3>1. pc' = [pc EXCEPT ![p] = "scan"] /\ task' = Outdated
        BY <2>1 DEF Released, Goto
      <3>2. PICK t : t = [task[p] EXCEPT !.current = FALSE]  OBVIOUS
      <3>3. task' = [Outdated EXCEPT ![p] = t]  BY <3>1, <3>2 DEF Outdated
      <3>4. t \in Tasks /\ t.current = FALSE /\ t.kind = "elaborate" /\ t.node = task[p].node
            /\ t.tree = task[p].tree
        BY <2>1, <3>2, OutdatedIs
      <3> QED  BY <2>1, <3>1, <3>3, <3>4
    <2>2. CASE task[p].kind # "elaborate"
      <3>1. pc' = [pc EXCEPT ![p] = "idle"] /\ task' = [Outdated EXCEPT ![p] = Idle]
        BY <2>2 DEF Released, Goto
      <3>2. Idle \in Tasks /\ Idle.current = FALSE /\ Idle.tree = NoTree  BY IdleIs
      <3>3. PICK l : l = "idle"  OBVIOUS
      <3> QED  BY <3>1, <3>2, <3>3
    <2> QED  BY <2>1, <2>2
  <1>5. escalated' \in Nat  BY <1>1 DEF NetInv, Typed
  <1> QED  BY <1>1, <1>3, <1>4, <1>5

LEMMA PublishKeeps ==
  ASSUME NetInv, NEW p \in Procs, Publish(p)
  PROVE  NetInv'
  <1>1. pc[p] = "publish"  BY DEF Publish
  <1>2. CASE Released(p)
    <2>1. /\ Land(task[p].tree, task[p].subject)
          /\ escalated' \in Nat /\ crossed' \subseteq Nat
          /\ UNCHANGED <<plan, onto, back, index, resolved, offers>>
      BY <1>2, ReleasedIs
    <2>2. PICK t \in Tasks, l \in {"scan", "idle"} :
            /\ task' = [Outdated EXCEPT ![p] = t] /\ pc' = [pc EXCEPT ![p] = l]
            /\ \/ t = Idle /\ l = "idle"
               \/ /\ l = "scan" /\ task[p].kind = "elaborate" /\ t.kind = "elaborate"
                  /\ t.node = task[p].node /\ t.tree = task[p].tree
      BY <1>2, ReleasedIs
    <2>3. /\ AtWork(p) /\ task[p].tree \in Trees /\ plan \subseteq Splits
      BY TaskParts DEF NetInv, Typed
    <2>4. Sound(task[p].tree, resolved) /\ Numbered(task[p].tree.rounds)
      BY <2>3 DEF AtWork
    <2>5. task'[p] = t /\ pc'[p] = l  BY <2>2 DEF NetInv, Typed, Outdated
    <2>6. AtWork(p)'
      <3>1. CASE t = Idle /\ l = "idle"
        <4>1. Sound(NoTree, resolved') /\ Numbered(NoTree.rounds)  BY NoTreeSound
        <4> QED  BY <2>5, <3>1, <4>1, IdleIs DEF AtWork
      <3>2. CASE l = "scan" /\ task[p].kind = "elaborate" /\ t.kind = "elaborate"
                 /\ t.node = task[p].node /\ t.tree = task[p].tree
        <4>1. t.node \in Children  BY <2>3, <3>2 DEF AtWork
        <4> QED  BY <2>1, <2>4, <2>5, <3>2, <4>1 DEF AtWork
      <3> QED  BY <2>2, <3>1, <3>2
    <2>7. l \in Labels /\ l # "post"  BY DEF Labels
    <2> QED  BY <2>1, <2>2, <2>3, <2>4, <2>6, <2>7, LandKeeps
  <1>3. CASE Stop(p) /\ UNCHANGED <<branchVars, worktreeVars, resolved, offers>>
    BY <1>3, StopKeeps DEF NetInv, Typed, branchVars, worktreeVars
  <1> QED  BY <1>2, <1>3 DEF Publish

LEMMA CommitIs ==
  ASSUME Commit
  PROVE  /\ pc[Puller] = "commit" /\ pc' = [pc EXCEPT ![Puller] = "restore"]
         /\ Land(index, task[Puller].kind) /\ task' = Outdated
         /\ plan' = plan \/ plan' \in Plans
         /\ UNCHANGED <<onto, back, index, resolved, offers, escalated, crossed>>
  BY DEF Commit, Goto, worktreeVars

LEMMA CommitKeeps ==
  ASSUME NetInv, Commit
  PROVE  NetInv'
  <1>1. /\ pc[Puller] = "commit" /\ pc' = [pc EXCEPT ![Puller] = "restore"]
        /\ Land(index, task[Puller].kind) /\ task' = Outdated
        /\ UNCHANGED <<onto, back, index, resolved, offers, escalated, crossed>>
    BY CommitIs
  <1>2. PICK t : t = [task[Puller] EXCEPT !.current = FALSE]  OBVIOUS
  <1>3. /\ t \in Tasks /\ t.kind = task[Puller].kind /\ t.node = task[Puller].node
        /\ t.tree = task[Puller].tree /\ t.subject = task[Puller].subject
    BY <1>2, PullerIs, OutdatedIs
  <1>4. task' = [Outdated EXCEPT ![Puller] = t]  BY <1>1, <1>2 DEF Outdated
  <1>5. AtWork(Puller) /\ index \in Trees /\ Sound(index, resolved) /\ Numbered(index.rounds)
        /\ escalated \in Nat /\ crossed \subseteq Nat
    BY PullerIs DEF NetInv, Typed
  <1>6. task'[Puller] = t /\ pc'[Puller] = "restore"
    BY <1>1, <1>4, PullerIs DEF NetInv, Typed, Outdated
  <1>7. AtWork(Puller)'  BY <1>1, <1>3, <1>5, <1>6 DEF AtWork
  <1>8. plan' \subseteq Splits  BY CommitIs DEF Plans, NetInv, Typed
  <1>9. "restore" \in Labels /\ "restore" # "post"  BY DEF Labels
  <1> QED  BY <1>1, <1>3, <1>4, <1>5, <1>7, <1>8, <1>9, PullerIs, LandKeeps

-----------------------------------------------------------------------------
(* Every step keeps the invariant. *)

LEMMA NetInvKept == NetInv /\ [Next]_vars => NetInv'
  <1> SUFFICES ASSUME NetInv, [Next]_vars PROVE NetInv'
    OBVIOUS
  <1>1. CASE UNCHANGED vars
    <2>1. UNCHANGED <<state, tree, edition, written, plan, released, escalated, crossed,
                      onto, index, back, pc, task, resolved, offers>>
      BY <1>1 DEF vars, branchVars, worktreeVars
    <2>2. ASSUME NEW q \in Procs  PROVE AtWork(q)'
      BY <2>1 DEF NetInv, AtWork
    <2> QED  BY <2>1, <2>2 DEF NetInv, Typed, OffersInv, OneOfferPerNode
  <1>2. CASE Pull
    <2>1. CASE \E s \in Splits : Refine(s) \/ Rebaseline(s)  BY <2>1, RefineKeeps
    <2>2. CASE \E v \in Verdicts : Judge(v)  BY <2>2, JudgeKeeps
    <2>3. CASE Select \/ Elaborate \/ Publish(Puller) \/ Scan \/ Post
      BY <2>3, PullerIs, SelectKeeps, ElaborateKeeps, PublishKeeps, ScanKeeps, PostKeeps
    <2>4. CASE Revise \/ Checkout \/ Add \/ Commit \/ Restore
      BY <2>4, ReviseKeeps, CheckoutKeeps, AddKeeps, CommitKeeps, RestoreKeeps
    <2> QED  BY <1>2, <2>1, <2>2, <2>3, <2>4 DEF Pull, Verdicts
  <1>3. ASSUME NEW c \in Callers, CallerStep(c)  PROVE NetInv'
    BY <1>3, PullerIs, EscalateKeeps, RevalidateKeeps, PublishKeeps DEF CallerStep
  <1>4. CASE GiveUp \/ \E p \in Procs : Crash(p)
    BY <1>4, GiveUpKeeps, CrashKeeps
  <1>5. ASSUME NEW k \in Children, Resolve(k)  PROVE NetInv'
    BY <1>5, ResolveKeeps
  <1> QED  BY <1>1, <1>2, <1>3, <1>4, <1>5 DEF Next

LEMMA NetInvHolds == Spec => []NetInv
  BY NetInvInit, NetInvKept, PTL DEF Spec

\* A child is open to patch authors, or may come back as such, only when what it
\* depends on is merged (elaborate, escalate, revalidate_stale, _normalize_split):
\* for any number of escalations and rebaselines, and wherever a run is killed.
THEOREM ReadyInOrder == Spec => []ReadyAfterItsDependencies
  <1>1. NetInv => ReadyAfterItsDependencies
    BY DEF NetInv, Sound, SoundUnits, ReadyAfterItsDependencies
  <1> QED  BY <1>1, NetInvHolds, PTL

\* elaborate announces a child at most once, though it elaborates it again after a
\* rebaseline and a post may fail.
THEOREM OffersUnique == Spec => []OneOfferPerNode
  <1>1. NetInv => OneOfferPerNode  BY DEF NetInv, OffersInv
  <1> QED  BY <1>1, NetInvHolds, PTL

\* Every variable has its type; whatever is merged was ready once, what a child
\* depends on is in the tree, and the ledger has an entry for each child.
THEOREM TypeCorrect == Spec => []TypeOK
  <1>1. NetInv => TypeOK
    <2> SUFFICES ASSUME NetInv PROVE TypeOK  OBVIOUS
    <2>1. /\ DOMAIN tree.child \subseteq Children
          /\ DOMAIN tree.ledger.entry = DOMAIN tree.child
          /\ tree.rounds \in SUBSET Rounds
          /\ \A k \in DOMAIN tree.child : tree.child[k] \in Manifests
      BY TreeStays
    <2>2. \A k \in DOMAIN tree.child :
            /\ tree.child[k].status \in Lifecycles
            /\ tree.child[k].previous \in Lifecycles \cup {"none"}
            /\ tree.child[k].deps \subseteq DOMAIN tree.child
            /\ written[k] \in 0..edition
      BY <2>1 DEF NetInv, Typed, Sound, SoundUnits, Manifests
    <2>3. \A r \in tree.rounds : r.n \in Nat /\ r.of \in Children \cup {0} /\ r.whole \in BOOLEAN
      BY <2>1 DEF Rounds
    <2>4. \A p \in Procs : task[p].current \in BOOLEAN /\ task[p].node \in Children \cup {0}
      BY TaskParts
    <2> QED  BY <2>1, <2>2, <2>3, <2>4 DEF NetInv, Typed, TypeOK
  <1> QED  BY <1>1, NetInvHolds, PTL

-----------------------------------------------------------------------------
(* What is promised about escalations. *)

\* The escalation that a ledger answers is one of the rounds, and has crossed a
\* review or was reviewed.
Settled(t, crossings) ==
  t.ledger.from # 0 =>
    /\ \E e \in t.rounds : e.of # 0 /\ e.n = t.ledger.from
    /\ \/ t.ledger.from \in crossings
       \/ \E r \in t.rounds : r.of = 0 /\ r.n > t.ledger.from

\* No child that an escalation blocked is open again but after a rebaseline.
Follows(old, new) ==
  \A k \in DOMAIN old.child : old.child[k].status = Invalidated =>
    \/ new.ledger.from > old.ledger.from
    \/ k \in DOMAIN new.child /\ new.child[k].status = Invalidated

\* What a successor that can still be published makes of the tree of the branch.
Succeeds(p) ==
  LET new == task[p].tree IN
  /\ Follows(tree, new) /\ tree.rounds \subseteq new.rounds
  /\ task[p].subject = "network" => new.rounds = tree.rounds
  /\ p # Puller => new.ledger.from = tree.ledger.from

Frozen(p) == Settled(task[p].tree, crossed) /\ (task[p].current => Succeeds(p))

\* An accepted series was reviewed after every escalation that crossed no review.
Concluded ==
  state = "direction-ok" =>
    \A e \in tree.rounds : e.of # 0 =>
      e.n \in crossed \/ \E r \in tree.rounds : r.of = 0 /\ r.n > e.n

\* No escalation in the index is newer than all rounds of the branch.
Behind == \A e \in index.rounds : e.of # 0 => \E r \in tree.rounds : r.n >= e.n

\* Round n comes after every escalation that crossed no review.
Before(t, n, crossings) ==
  /\ t.ledger.from < n
  /\ \A e \in t.rounds : e.of # 0 => e.n < n \/ e.n \in crossings

InReview ==
  LET n == task[Puller].round IN
  UnderReview /\ pc[Puller] \in {"chosen", "checkout", "add", "commit"} =>
    /\ Before(tree, n, crossed) /\ Before(index, n, crossed)
    /\ pc[Puller] = "commit" => \E r \in index.rounds : r.of = 0 /\ r.n = n

OrderInv ==
  /\ NetInv
  /\ Settled(tree, crossed) /\ Settled(index, crossed)
  /\ \A p \in Procs : Frozen(p)
  /\ Concluded /\ Behind /\ InReview

LEMMA NoTreeSettled == \A c : Settled(NoTree, c)
  BY NoTreeIs DEF Settled

LEMMA SettledStays ==
  ASSUME NEW t, NEW c, NEW d, c \subseteq d, Settled(t, c)
  PROVE  Settled(t, d)
  BY DEF Settled

LEMMA BeforeStays ==
  ASSUME NEW t, NEW n, NEW c, NEW d, c \subseteq d, Before(t, n, c)
  PROVE  Before(t, n, d)
  BY DEF Before

LEMMA OrderInvInit == Init => OrderInv
  <1> SUFFICES ASSUME Init PROVE OrderInv  OBVIOUS
  <1>1. /\ index = NoTree /\ tree.ledger.from = 0
        /\ tree.rounds = {[n |-> 1, of |-> 0, whole |-> TRUE]}
        /\ \A p \in Procs : task[p] = Idle /\ pc[p] = "idle"
    BY DEF Init, NoTree, NoLedger
  <1>2. Settled(tree, crossed) /\ Settled(index, crossed)
    BY <1>1, NoTreeSettled DEF Settled
  <1>3. Concluded /\ Behind  BY <1>1, NoTreeIs DEF Concluded, Behind
  <1>4. \A p \in Procs : Frozen(p)  BY <1>1, IdleIs, NoTreeSettled DEF Frozen
  <1>5. InReview  BY <1>1, PullerIs DEF InReview
  <1> QED  BY <1>2, <1>3, <1>4, <1>5, NetInvInit DEF OrderInv

\* A step of one process that leaves the branch alone.
LEMMA OrderKept ==
  ASSUME OrderInv, NetInv', NEW p \in Procs, UNCHANGED <<state, tree, crossed>>,
         \A q \in Procs \ {p} : pc'[q] = pc[q] /\ task'[q] = task[q],
         Settled(index', crossed), Behind', InReview', Frozen(p)'
  PROVE  OrderInv'
  <1>1. Concluded' /\ Settled(tree', crossed')
    BY DEF OrderInv, Concluded
  <1>2. ASSUME NEW q \in Procs, q # p  PROVE Frozen(q)'
    <2>1. Frozen(q) /\ pc'[q] = pc[q] /\ task'[q] = task[q]  BY <1>2 DEF OrderInv
    <2> QED  BY <2>1 DEF Frozen, Succeeds, Follows
  <1> QED  BY <1>1, <1>2 DEF OrderInv

LEMMA Elsewhere ==
  ASSUME NetInv, NEW p \in Procs, NEW t, NEW l,
         pc' = [pc EXCEPT ![p] = l], task' = [task EXCEPT ![p] = t]
  PROVE  /\ pc'[p] = l /\ task'[p] = t
         /\ \A q \in Procs \ {p} : pc'[q] = pc[q] /\ task'[q] = task[q]
  BY DEF NetInv, Typed

\* What others do with the branch as it is leaves a review in its place.
LEMMA InReviewByOthers ==
  ASSUME OrderInv, UNCHANGED <<tree, crossed, index>>,
         pc'[Puller] = pc[Puller], task'[Puller] = task[Puller]
  PROVE  InReview'
  BY DEF OrderInv, InReview, UnderReview

LEMMA BehindStays ==
  ASSUME OrderInv, UNCHANGED tree, index' \in {index, NoTree}
  PROVE  Behind' /\ Settled(index', crossed)
  BY NoTreeIs, NoTreeSettled DEF OrderInv, Behind

LEMMA OrderStop ==
  ASSUME OrderInv, NetInv', NEW p \in Procs, Stop(p), UNCHANGED <<state, tree, crossed>>,
         index' = index \/ (p = Puller /\ index' = NoTree)
  PROVE  OrderInv'
  <1>1. pc' = [pc EXCEPT ![p] = "idle"] /\ task' = [task EXCEPT ![p] = Idle]
    BY DEF Stop, Goto
  <1>2. /\ pc'[p] = "idle" /\ task'[p] = Idle
        /\ \A q \in Procs \ {p} : pc'[q] = pc[q] /\ task'[q] = task[q]
    BY <1>1, Elsewhere DEF OrderInv
  <1>3. Frozen(p)'  BY <1>2, IdleIs, NoTreeSettled DEF Frozen
  <1>4. InReview'
    <2>1. CASE p = Puller  BY <1>2, <2>1 DEF InReview
    <2>2. CASE p # Puller  BY <1>2, <2>2, PullerIs, InReviewByOthers
    <2> QED  BY <2>1, <2>2
  <1>5. Behind' /\ Settled(index', crossed)  BY BehindStays
  <1> QED  BY <1>2, <1>3, <1>4, <1>5, OrderKept

LEMMA OrderGiveUp ==
  ASSUME OrderInv, NetInv', GiveUp
  PROVE  OrderInv'
  <1>1. Stop(Puller) /\ UNCHANGED <<state, tree, crossed, index>>
    BY DEF GiveUp, branchVars, worktreeVars
  <1> QED  BY <1>1, PullerIs, OrderStop

LEMMA OrderCrash ==
  ASSUME OrderInv, NetInv', NEW p \in Procs, Crash(p)
  PROVE  OrderInv'
  <1>1. Stop(p) /\ UNCHANGED <<state, tree, crossed, index>>  BY DEF Crash, branchVars
  <1> QED  BY <1>1, OrderStop

LEMMA OrderRestore ==
  ASSUME OrderInv, NetInv', Restore
  PROVE  OrderInv'
  <1>1. Stop(Puller) /\ UNCHANGED <<state, tree, crossed>> /\ index' \in {index, NoTree}
    BY DEF Restore, branchVars
  <1> QED  BY <1>1, PullerIs, OrderStop

\* A number after all rounds of the branch comes after those in the index, too.
LEMMA NextIsAfter ==
  ASSUME OrderInv
  PROVE  Before(tree, NextRound, crossed) /\ Before(index, NextRound, crossed)
  <1>1. /\ NextRound \in Nat /\ 0 < NextRound
        /\ \A r \in tree.rounds : r.n \in Nat /\ r.n < NextRound
    BY NextRoundIs DEF OrderInv
  <1>2. \A e \in index.rounds : e.n \in Nat
    BY TreeParts DEF OrderInv, NetInv, Typed, Rounds
  <1>3. \A e \in index.rounds : e.of # 0 => e.n < NextRound
    <2> SUFFICES ASSUME NEW e \in index.rounds, e.of # 0 PROVE e.n < NextRound  OBVIOUS
    <2>1. PICK r \in tree.rounds : r.n >= e.n  BY DEF OrderInv, Behind
    <2> QED  BY <1>1, <1>2, <2>1
  <1>4. tree.ledger.from < NextRound
    BY <1>1 DEF OrderInv, Settled
  <1>5. index.ledger.from < NextRound
    BY <1>1, <1>3 DEF OrderInv, Settled
  <1> QED  BY <1>1, <1>3, <1>4, <1>5 DEF Before

LEMMA OrderSelect ==
  ASSUME OrderInv, NetInv', Select
  PROVE  OrderInv'
  <1> DEFINE t == [Idle EXCEPT !.kind = NextItem,
                     !.node = IF NextItem = "elaborate" THEN Min(CoarseReady) ELSE 0,
                     !.round = NextRound, !.last = Cardinality(tree.rounds) >= MaxRounds]
  <1>1. /\ task' = [task EXCEPT ![Puller] = t] /\ pc' = [pc EXCEPT ![Puller] = "chosen"]
        /\ UNCHANGED <<state, tree, crossed, index>>
    BY DEF Select, Goto, branchVars, worktreeVars
  <1>2. t.tree = NoTree /\ t.round = NextRound /\ t.current = FALSE  BY DEF Idle
  <1> HIDE DEF t
  <1>3. /\ pc'[Puller] = "chosen" /\ task'[Puller] = t
        /\ \A q \in Procs \ {Puller} : pc'[q] = pc[q] /\ task'[q] = task[q]
    BY <1>1, PullerIs, Elsewhere DEF OrderInv
  <1>4. InReview'
    <2>1. Before(tree', task'[Puller].round, crossed') /\ Before(index', task'[Puller].round, crossed')
      BY <1>1, <1>2, <1>3, NextIsAfter
    <2> QED  BY <1>3, <2>1 DEF InReview
  <1>5. Frozen(Puller)'  BY <1>2, <1>3, NoTreeSettled DEF Frozen
  <1>6. Behind' /\ Settled(index', crossed)  BY <1>1, BehindStays
  <1> QED  BY <1>1, <1>3, <1>4, <1>5, <1>6, PullerIs, OrderKept

\* Puller goes on, with the successor that it prepared, if any.
LEMMA OrderStep ==
  ASSUME OrderInv, NetInv', UNCHANGED <<state, tree, crossed>>,
         \A q \in Procs \ {Puller} : pc'[q] = pc[q] /\ task'[q] = task[q],
         task'[Puller].tree = task[Puller].tree,
         task'[Puller].current = task[Puller].current,
         task'[Puller].subject = task[Puller].subject,
         Settled(index', crossed), Behind', InReview'
  PROVE  OrderInv'
  <1>1. Frozen(Puller)  BY PullerIs DEF OrderInv
  <1>2. Frozen(Puller)'  BY <1>1 DEF Frozen, Succeeds, Follows
  <1> QED  BY <1>2, PullerIs, OrderKept

LEMMA OrderJudge ==
  ASSUME OrderInv, NetInv', NEW v \in Verdicts, Judge(v)
  PROVE  OrderInv'
  <1>1. PICK kind : task' = [task EXCEPT ![Puller].kind = kind]
    BY DEF Judge
  <1>2. PICK t : t = [task[Puller] EXCEPT !.kind = kind]  OBVIOUS
  <1>3. /\ t.round = task[Puller].round /\ t.tree = task[Puller].tree
        /\ t.current = task[Puller].current /\ t.subject = task[Puller].subject
    BY <1>2, PullerIs, TaskParts DEF OrderInv, Tasks
  <1>4. /\ task' = [task EXCEPT ![Puller] = t] /\ pc' = [pc EXCEPT ![Puller] = "checkout"]
        /\ pc[Puller] = "chosen" /\ task[Puller].kind = "review"
        /\ UNCHANGED <<state, tree, crossed, index>>
    BY <1>1, <1>2 DEF Judge, Goto, branchVars, worktreeVars
  <1>5. /\ pc'[Puller] = "checkout" /\ task'[Puller] = t
        /\ \A q \in Procs \ {Puller} : pc'[q] = pc[q] /\ task'[q] = task[q]
    BY <1>4, PullerIs, Elsewhere DEF OrderInv
  <1>6. InReview'
    <2>1. Before(tree, t.round, crossed) /\ Before(index, t.round, crossed)
      BY <1>3, <1>4 DEF OrderInv, InReview, UnderReview, Judging
    <2> QED  BY <1>4, <1>5, <2>1 DEF InReview
  <1>7. Behind' /\ Settled(index', crossed)  BY <1>4, BehindStays
  <1> QED  BY <1>3, <1>4, <1>5, <1>6, <1>7, OrderStep

LEMMA OrderRevise ==
  ASSUME OrderInv, NetInv', Revise
  PROVE  OrderInv'
  <1>2. PICK t : t = [task[Puller] EXCEPT !.kind = "v"]  OBVIOUS
  <1>3. /\ t.kind = "v" /\ t.tree = task[Puller].tree
        /\ t.current = task[Puller].current /\ t.subject = task[Puller].subject
    BY <1>2, PullerIs, TaskParts DEF OrderInv, Tasks
  <1>4. /\ task' = [task EXCEPT ![Puller] = t] /\ pc' = [pc EXCEPT ![Puller] = "checkout"]
        /\ UNCHANGED <<state, tree, crossed, index>>
    BY <1>2 DEF Revise, Goto, branchVars, worktreeVars
  <1>5. /\ pc'[Puller] = "checkout" /\ task'[Puller] = t
        /\ \A q \in Procs \ {Puller} : pc'[q] = pc[q] /\ task'[q] = task[q]
    BY <1>4, PullerIs, Elsewhere DEF OrderInv
  <1>6. InReview'  BY <1>3, <1>5 DEF InReview, UnderReview, Judging
  <1>7. Behind' /\ Settled(index', crossed)  BY <1>4, BehindStays
  <1> QED  BY <1>3, <1>4, <1>5, <1>6, <1>7, OrderStep

LEMMA OrderCheckout ==
  ASSUME OrderInv, NetInv', Checkout
  PROVE  OrderInv'
  <1>1. /\ pc[Puller] = "checkout" /\ pc' = [pc EXCEPT ![Puller] = "add"]
        /\ UNCHANGED <<state, tree, crossed, task>> /\ index' \in {index, tree}
    BY DEF Checkout, Goto, branchVars
  <1>2. /\ pc'[Puller] = "add"
        /\ \A q \in Procs \ {Puller} : pc'[q] = pc[q] /\ task'[q] = task[q]
    BY <1>1, PullerIs DEF OrderInv, NetInv, Typed
  <1>3. Settled(index', crossed)  BY <1>1 DEF OrderInv
  <1>4. Behind'
    <2>1. \A r \in tree.rounds : r.n >= r.n  BY TreeStays DEF OrderInv, Rounds
    <2> QED  BY <1>1, <2>1 DEF OrderInv, Behind
  <1>5. InReview'  BY <1>1, <1>2 DEF OrderInv, InReview, UnderReview
  <1> QED  BY <1>1, <1>2, <1>3, <1>4, <1>5, OrderStep

LEMMA OrderAdd ==
  ASSUME OrderInv, NetInv', Add
  PROVE  OrderInv'
  <1>1. PICK t : t = task[Puller]  OBVIOUS
  <1>2. /\ pc[Puller] = "add" /\ pc' = [pc EXCEPT ![Puller] = "commit"]
        /\ UNCHANGED <<state, tree, crossed, task>>
        /\ index' = IF t.kind = "v" THEN index ELSE Recorded(t)
    BY <1>1 DEF Add, Recorded, Goto, branchVars
  <1>3. /\ pc'[Puller] = "commit" /\ task'[Puller] = t
        /\ \A q \in Procs \ {Puller} : pc'[q] = pc[q] /\ task'[q] = task[q]
    BY <1>1, <1>2, PullerIs DEF OrderInv, NetInv, Typed
  <1>4. t \in Tasks /\ t.round \in Nat /\ AtWork(Puller)
    BY <1>1, PullerIs, TaskParts DEF OrderInv, NetInv
  <1>5. t.kind \in Verdicts \cup {"v"}  BY <1>1, <1>2, <1>4 DEF AtWork
  <1>6. CASE t.kind = "v"
    <2>1. index' = index  BY <1>2, <1>6
    <2>2. InReview'  BY <1>3, <1>6 DEF InReview, UnderReview, Judging
    <2>3. Behind' /\ Settled(index', crossed)  BY <1>2, <2>1, BehindStays
    <2> QED  BY <1>2, <1>3, <2>2, <2>3, OrderStep
  <1>7. CASE t.kind # "v"
    <2>1. PICK new : new = Recorded(t)  OBVIOUS
    <2>2. /\ index' = new /\ new.ledger = index.ledger
          /\ new.rounds = {r \in index.rounds : r.n # t.round}
                            \cup {[n |-> t.round, of |-> 0, whole |-> TRUE]}
      BY <1>2, <1>4, <1>7, <2>1, RecordedIs DEF OrderInv
    <2>3. PICK record : record = [n |-> t.round, of |-> 0, whole |-> TRUE]  OBVIOUS
    <2>4. /\ record \in new.rounds /\ record.of = 0 /\ record.n = t.round
          /\ \A r \in index.rounds : r.n # t.round => r \in new.rounds
          /\ \A e \in new.rounds : e.of # 0 => e \in index.rounds
      BY <2>2, <2>3
    <2>5. Before(tree, t.round, crossed) /\ Before(index, t.round, crossed)
      BY <1>1, <1>2, <1>5, <1>7 DEF OrderInv, InReview, UnderReview, Judging, Verdicts
    <2>6. Settled(new, crossed)
      <3>1. index.ledger.from < t.round /\ index.ledger.from \in Nat
            /\ new.ledger.from = index.ledger.from
        BY <2>2, <2>5, TreeParts DEF Before, OrderInv, NetInv, Typed
      <3>2. ASSUME index.ledger.from # 0
            PROVE  /\ \E e \in new.rounds : e.of # 0 /\ e.n = index.ledger.from
                   /\ \/ index.ledger.from \in crossed
                      \/ \E r \in new.rounds : r.of = 0 /\ r.n > index.ledger.from
        <4>1. PICK e \in index.rounds : e.of # 0 /\ e.n = index.ledger.from
          BY <3>2 DEF OrderInv, Settled
        <4>2. e \in new.rounds  BY <1>4, <2>4, <3>1, <4>1
        <4>3. record.n > index.ledger.from  BY <1>4, <2>4, <3>1
        <4> QED  BY <2>4, <4>1, <4>2, <4>3
      <3> QED  BY <3>1, <3>2 DEF Settled
    <2>7. Behind'  BY <1>2, <2>2, <2>4 DEF OrderInv, Behind
    <2>8. InReview'
      <3>1. Before(new, t.round, crossed)  BY <2>2, <2>4, <2>5 DEF Before
      <3> QED  BY <1>2, <1>3, <2>2, <2>4, <2>5, <3>1 DEF InReview
    <2> QED  BY <1>2, <1>3, <2>2, <2>6, <2>7, <2>8, OrderStep
  <1> QED  BY <1>6, <1>7

LEMMA OrderScan ==
  ASSUME OrderInv, NetInv', Scan
  PROVE  OrderInv'
  <1>1. UNCHANGED <<state, tree, crossed, index>>
    BY DEF Scan, branchVars, worktreeVars
  <1>2. CASE Stop(Puller)  BY <1>1, <1>2, PullerIs, OrderStop
  <1>3. CASE Goto(Puller, "post") /\ UNCHANGED task
    <2>1. pc'[Puller] = "post" /\ \A q \in Procs \ {Puller} : pc'[q] = pc[q] /\ task'[q] = task[q]
      BY <1>3, PullerIs DEF OrderInv, NetInv, Typed, Goto
    <2>2. InReview'  BY <2>1 DEF InReview
    <2>3. Behind' /\ Settled(index', crossed)  BY <1>1, BehindStays
    <2> QED  BY <1>1, <1>3, <2>1, <2>2, <2>3, OrderStep
  <1> QED  BY <1>2, <1>3 DEF Scan

LEMMA OrderPost ==
  ASSUME OrderInv, NetInv', Post
  PROVE  OrderInv'
  <1>1. Stop(Puller) /\ UNCHANGED <<state, tree, crossed, index>>
    BY DEF Post, branchVars, worktreeVars
  <1> QED  BY <1>1, PullerIs, OrderStop

LEMMA OrderSame ==
  ASSUME OrderInv, NetInv', UNCHANGED <<state, tree, crossed, index, pc, task>>
  PROVE  OrderInv'
  <1>1. InReview'  BY InReviewByOthers
  <1>2. Behind' /\ Settled(index', crossed)  BY BehindStays
  <1> QED  BY <1>1, <1>2, OrderStep

-----------------------------------------------------------------------------
(* A successor follows the tree it was computed from. *)

LEMMA OrderPrepared ==
  ASSUME OrderInv, NetInv', NEW p \in Procs,
         NEW child, NEW proposed, NEW from, NEW rounds, NEW subject,
         Prepared(p, child, proposed, from, rounds, subject),
         from # 0 => /\ \E e \in rounds : e.of # 0 /\ e.n = from
                     /\ from \in crossed \/ \E r \in rounds : r.of = 0 /\ r.n > from,
         from > tree.ledger.from
           \/ \A k \in DOMAIN tree.child : tree.child[k].status = Invalidated
                => k \in DOMAIN child /\ child[k].status = Invalidated,
         tree.rounds \subseteq rounds,
         subject = "network" => rounds = tree.rounds,
         p # Puller => from = tree.ledger.from
  PROVE  OrderInv'
  <1>1. PICK new : new = Successor(child, proposed, from, rounds)  OBVIOUS
  <1>2. new.child = child /\ new.ledger.from = from /\ new.rounds = rounds
    BY <1>1 DEF Successor
  <1>3. PICK t : t = [task[p] EXCEPT !.current = TRUE, !.subject = subject, !.tree = new]
    OBVIOUS
  <1>4. /\ task' = [task EXCEPT ![p] = t] /\ pc' = [pc EXCEPT ![p] = "publish"]
        /\ UNCHANGED <<state, tree, crossed, index>>
    <2>1. task' = [task EXCEPT ![p].current = TRUE, ![p].subject = subject, ![p].tree = new]
      BY <1>1 DEF Prepared, Successor
    <2>2. task' = [task EXCEPT ![p] = t]  BY <1>3, <2>1
    <2> QED  BY <2>2 DEF Prepared, Goto, branchVars, worktreeVars
  <1>5. t.tree = new /\ t.subject = subject
    BY <1>3, TaskParts DEF OrderInv, Tasks
  <1>6. /\ pc'[p] = "publish" /\ task'[p] = t
        /\ \A q \in Procs \ {p} : pc'[q] = pc[q] /\ task'[q] = task[q]
    BY <1>4, Elsewhere DEF OrderInv
  <1>7. Frozen(p)'
    <2>1. Settled(new, crossed)  BY <1>2 DEF Settled
    <2>2. Follows(tree, new)  BY <1>2 DEF Follows
    <2>3. Settled(task'[p].tree, crossed')  BY <1>4, <1>5, <1>6, <2>1
    <2>4. Follows(tree', task'[p].tree)  BY <1>4, <1>5, <1>6, <2>2
    <2>5. /\ tree'.rounds \subseteq task'[p].tree.rounds
          /\ task'[p].subject = "network" => task'[p].tree.rounds = tree'.rounds
          /\ p # Puller => task'[p].tree.ledger.from = tree'.ledger.from
      BY <1>2, <1>4, <1>5, <1>6
    <2>6. Succeeds(p)'  BY <2>4, <2>5 DEF Succeeds
    <2> QED  BY <2>3, <2>6 DEF Frozen
  <1>8. InReview'
    <2>1. CASE p = Puller  BY <1>6, <2>1 DEF InReview
    <2>2. CASE p # Puller  BY <1>4, <1>6, <2>2, PullerIs, InReviewByOthers
    <2> QED  BY <2>1, <2>2
  <1>9. Behind' /\ Settled(index', crossed)  BY <1>4, BehindStays
  <1> QED  BY <1>4, <1>6, <1>7, <1>8, <1>9, OrderKept

\* What the ledger of the branch answers, with rounds added.
LEMMA StillSettled ==
  ASSUME OrderInv, NEW rounds, tree.rounds \subseteq rounds
  PROVE  tree.ledger.from # 0 =>
           /\ \E e \in rounds : e.of # 0 /\ e.n = tree.ledger.from
           /\ tree.ledger.from \in crossed
                \/ \E r \in rounds : r.of = 0 /\ r.n > tree.ledger.from
  BY DEF OrderInv, Settled

LEMMA OrderRefine ==
  ASSUME OrderInv, NetInv', NEW s \in Splits, Refine(s)
  PROVE  OrderInv'
  <1>1. PICK proposed :
          /\ Prepared(Puller, Replaced(s), proposed, 0, tree.rounds, "network")
          /\ ~tree.ledger.made
    BY DEF Refine, Replace, Replaced
  <1>2. DOMAIN tree.child = {}  BY <1>1 DEF OrderInv, NetInv, Sound
  <1> QED  BY <1>1, <1>2, PullerIs, OrderPrepared

LEMMA OrderRebaseline ==
  ASSUME OrderInv, NetInv', NEW s \in Splits, Rebaseline(s)
  PROVE  OrderInv'
  <1> DEFINE n == LatestEscalation.n
  <1>1. PICK proposed : Prepared(Puller, Replaced(s), proposed, n, tree.rounds, "network")
    BY DEF Rebaseline, Replace, Replaced
  <1>2. /\ state = "direction-ok" /\ Escalations # {} /\ tree.ledger.from # n
    BY DEF Rebaseline, RebaselinePending
  <1>3. /\ LatestEscalation \in tree.rounds /\ LatestEscalation.of # 0 /\ n \in Nat
        /\ \A o \in Escalations : o.n <= n
    BY <1>2, LatestIs DEF OrderInv
  <1>4. n \in crossed \/ \E r \in tree.rounds : r.of = 0 /\ r.n > n
    BY <1>2, <1>3 DEF OrderInv, Concluded
  <1>5. tree.ledger.from \in Nat  BY TreeStays DEF OrderInv
  <1>6. n > tree.ledger.from
    <2>1. CASE tree.ledger.from = 0  BY <1>2, <1>3, <2>1
    <2>2. CASE tree.ledger.from # 0
      <3>1. PICK r \in tree.rounds : r.of # 0 /\ r.n = tree.ledger.from
        BY <2>2 DEF OrderInv, Settled
      <3>2. r.n <= n  BY <1>3, <3>1 DEF Escalations
      <3> QED  BY <1>2, <1>3, <1>5, <3>1, <3>2
    <2> QED  BY <2>1, <2>2
  <1>7. \E r \in tree.rounds : r.of # 0 /\ r.n = n  BY <1>3
  <1> HIDE DEF n
  <1> QED  BY <1>1, <1>4, <1>6, <1>7, PullerIs, OrderPrepared

LEMMA OrderElaborate ==
  ASSUME OrderInv, NetInv', Elaborate
  PROVE  OrderInv'
  <1>1. PICK k : k = task[Puller].node  OBVIOUS
  <1>2. PICK m : m = [tree.child[k] EXCEPT !.status = "ready"]  OBVIOUS
  <1>3. PICK child : child = [tree.child EXCEPT ![k] = m]  OBVIOUS
  <1>4. /\ tree.child[k].status = "posted"
        /\ Prepared(Puller, child, tree.ledger.entry, tree.ledger.from, tree.rounds, "network")
    BY <1>1, <1>2, <1>3 DEF Elaborate, CoarseReady
  <1>5. DOMAIN child = DOMAIN tree.child /\ \A j \in DOMAIN tree.child : j # k => child[j] = tree.child[j]
    BY <1>3
  <1>6. \A j \in DOMAIN tree.child : tree.child[j].status = Invalidated
          => j \in DOMAIN child /\ child[j].status = Invalidated
    BY <1>4, <1>5 DEF Invalidated
  <1>7. tree.ledger.from # 0 =>
          /\ \E e \in tree.rounds : e.of # 0 /\ e.n = tree.ledger.from
          /\ tree.ledger.from \in crossed
               \/ \E r \in tree.rounds : r.of = 0 /\ r.n > tree.ledger.from
    BY StillSettled
  <1> QED  BY <1>4, <1>6, <1>7, PullerIs, OrderPrepared

LEMMA OrderRevalidate ==
  ASSUME OrderInv, NetInv', NEW c \in Callers, NEW k, Revalidate(c, k)
  PROVE  OrderInv'
  <1>1. PICK now : /\ tree.child[k].status = "stale"
                   /\ Prepared(c, [tree.child EXCEPT ![k] = now], tree.ledger.entry,
                               tree.ledger.from, tree.rounds, "network")
    BY DEF Revalidate
  <1>2. PICK child : child = [tree.child EXCEPT ![k] = now]  OBVIOUS
  <1>3. Prepared(c, child, tree.ledger.entry, tree.ledger.from, tree.rounds, "network")
    BY <1>1, <1>2
  <1>4. DOMAIN child = DOMAIN tree.child /\ \A j \in DOMAIN tree.child : j # k => child[j] = tree.child[j]
    BY <1>2
  <1>5. \A j \in DOMAIN tree.child : tree.child[j].status = Invalidated
          => j \in DOMAIN child /\ child[j].status = Invalidated
    BY <1>1, <1>4 DEF Invalidated
  <1>6. tree.ledger.from # 0 =>
          /\ \E e \in tree.rounds : e.of # 0 /\ e.n = tree.ledger.from
          /\ tree.ledger.from \in crossed
               \/ \E r \in tree.rounds : r.of = 0 /\ r.n > tree.ledger.from
    BY StillSettled
  <1> QED  BY <1>3, <1>5, <1>6, PullerIs, OrderPrepared

LEMMA OrderEscalate ==
  ASSUME OrderInv, NetInv', NEW c \in Callers, NEW k, Escalate(c, k)
  PROVE  OrderInv'
  <1>1. PICK added : Prepared(c, EscalatedChild(k), tree.ledger.entry, tree.ledger.from,
                              tree.rounds \cup added, "escalated")
    BY DEF Escalate, EscalatedChild
  <1>2. PICK child : child = EscalatedChild(k)  OBVIOUS
  <1>3. PICK rounds : rounds = tree.rounds \cup added  OBVIOUS
  <1>4. Prepared(c, child, tree.ledger.entry, tree.ledger.from, rounds, "escalated")
    BY <1>1, <1>2, <1>3
  <1>5. ASSUME NEW j \in DOMAIN tree.child, tree.child[j].status = Invalidated
        PROVE  j \in DOMAIN child /\ child[j].status = Invalidated
    <2>1. tree.child[j] \in Manifests  BY TreeStays DEF OrderInv
    <2>2. CASE j = k
      <3>1. j \in DOMAIN child /\ child[j] = [tree.child[j] EXCEPT !.status = Invalidated]
        BY <1>2, <2>2 DEF EscalatedChild
      <3> QED  BY <2>1, <3>1 DEF Manifests
    <2>3. CASE j # k
      <3>1. j \notin Cohort(k)  BY <1>5 DEF Cohort
      <3> QED  BY <1>2, <1>5, <2>3, <3>1 DEF EscalatedChild
    <2> QED  BY <2>2, <2>3
  <1>6. tree.ledger.from # 0 =>
          /\ \E e \in rounds : e.of # 0 /\ e.n = tree.ledger.from
          /\ tree.ledger.from \in crossed
               \/ \E r \in rounds : r.of = 0 /\ r.n > tree.ledger.from
    BY <1>3, StillSettled
  <1>7. tree.rounds \subseteq rounds /\ "escalated" # "network"  BY <1>3
  <1> QED  BY <1>4, <1>5, <1>6, <1>7, PullerIs, OrderPrepared

-----------------------------------------------------------------------------
(* A commit, and the verdict it leaves. *)

\* After a commit nothing that was prepared before it can be published.
LEMMA FrozenAfter ==
  ASSUME OrderInv, crossed \subseteq crossed',
         \A q \in Procs : /\ task'[q].current = FALSE
                          /\ task'[q].tree \in {task[q].tree, NoTree}
  PROVE  \A q \in Procs : Frozen(q)'
  <1> SUFFICES ASSUME NEW q \in Procs PROVE Frozen(q)'  OBVIOUS
  <1>1. Settled(task[q].tree, crossed)  BY DEF OrderInv, Frozen
  <1>2. Settled(task[q].tree, crossed')  BY <1>1, SettledStays
  <1>3. Settled(task'[q].tree, crossed')  BY <1>2, NoTreeSettled
  <1> QED  BY <1>3 DEF Frozen

LEMMA OrderReleased ==
  ASSUME OrderInv, NetInv', NEW p \in Procs, pc[p] = "publish", task[p].current, Released(p)
  PROVE  OrderInv'
  <1>1. PICK new : new = task[p].tree  OBVIOUS
  <1>2. PICK subject : subject = task[p].subject  OBVIOUS
  <1>3. /\ tree' = new /\ state' = Marked(subject) /\ crossed' = crossed \cup Crossing(p)
        /\ index' = index
    BY <1>1, <1>2, ReleasedIs DEF OrderInv, Land
  <1>4. PICK t \in Tasks, l \in {"scan", "idle"} :
          /\ task' = [Outdated EXCEPT ![p] = t] /\ pc' = [pc EXCEPT ![p] = l]
          /\ t.current = FALSE /\ t.tree \in {task[p].tree, NoTree}
    BY ReleasedIs DEF OrderInv
  <1>5. /\ pc'[p] = l /\ task'[p] = t
        /\ \A q \in Procs \ {p} : /\ pc'[q] = pc[q]
                                  /\ task'[q] = [task[q] EXCEPT !.current = FALSE]
    BY <1>4 DEF OrderInv, NetInv, Typed, Outdated
  <1>6. ASSUME NEW q \in Procs, q # p
        PROVE  /\ pc'[q] = pc[q] /\ task'[q].current = FALSE /\ task'[q].tree = task[q].tree
               /\ task'[q].kind = task[q].kind /\ task'[q].round = task[q].round
    BY <1>5, <1>6, OutdatedIs DEF OrderInv
  <1>7. AtWork(p) /\ subject \in Subjects /\ Settled(new, crossed) /\ Succeeds(p)
    BY <1>1, <1>2, TaskParts DEF OrderInv, NetInv, Frozen
  <1>8. subject \in {"network", "escalated"}  BY <1>2, <1>7 DEF AtWork, Subjects
  <1>9. /\ tree.rounds \subseteq new.rounds
        /\ subject = "network" => new.rounds = tree.rounds
        /\ p # Puller => new.ledger.from = tree.ledger.from
    BY <1>1, <1>2, <1>7 DEF Succeeds
  <1>10. Settled(tree', crossed') /\ Settled(index', crossed')
    BY <1>3, <1>7, SettledStays DEF OrderInv
  <1>11. \A q \in Procs : Frozen(q)'
    BY <1>3, <1>4, <1>5, <1>6, FrozenAfter
  <1>12. Concluded'
    <2> SUFFICES ASSUME state' = "direction-ok", NEW e \in tree'.rounds, e.of # 0
                 PROVE  e.n \in crossed' \/ \E r \in tree'.rounds : r.of = 0 /\ r.n > e.n
      BY DEF Concluded
    <2>1. state = "direction-ok" /\ subject = "network"
      BY <1>3, <1>8, MarkedIs DEF OrderInv
    <2>2. tree'.rounds = tree.rounds  BY <1>3, <1>9, <2>1
    <2> QED  BY <1>3, <2>1, <2>2 DEF OrderInv, Concluded
  <1>13. Behind'  BY <1>3, <1>9 DEF OrderInv, Behind
  <1>14. InReview'
    <2>1. CASE p = Puller  BY <1>5, <2>1 DEF InReview
    <2>2. CASE p # Puller
      <3>1. PICK n : n = task[Puller].round  OBVIOUS
      <3>2. /\ pc'[Puller] = pc[Puller] /\ task'[Puller].kind = task[Puller].kind
            /\ task'[Puller].round = n
        BY <1>6, <2>2, <3>1, PullerIs
      <3>3. ASSUME UnderReview, pc[Puller] \in {"chosen", "checkout", "add", "commit"}
            PROVE  /\ Before(new, n, crossed') /\ Before(index, n, crossed')
                   /\ pc[Puller] = "commit" => \E r \in index.rounds : r.of = 0 /\ r.n = n
        <4>1. /\ Before(tree, n, crossed) /\ Before(index, n, crossed)
              /\ pc[Puller] = "commit" => \E r \in index.rounds : r.of = 0 /\ r.n = n
          BY <3>1, <3>3 DEF OrderInv, InReview
        <4>2. new.ledger.from < n  BY <1>9, <2>2, <4>1 DEF Before
        <4>3. ASSUME NEW e \in new.rounds, e.of # 0
              PROVE  e.n < n \/ e.n \in crossed'
          <5>1. CASE e \in tree.rounds  BY <1>3, <4>1, <4>3, <5>1 DEF Before
          <5>2. CASE e \notin tree.rounds
            <6>1. subject = "escalated"  BY <1>8, <1>9, <4>3, <5>2
            <6>2. e.n \in Crossing(p)
              BY <1>1, <1>2, <3>3, <4>3, <5>2, <6>1 DEF Crossing
            <6> QED  BY <1>3, <6>2
          <5> QED  BY <5>1, <5>2
        <4>4. Before(new, n, crossed')  BY <4>2, <4>3 DEF Before
        <4>5. Before(index, n, crossed')  BY <1>3, <4>1, BeforeStays
        <4> QED  BY <4>1, <4>4, <4>5
      <3> QED  BY <1>3, <3>2, <3>3 DEF InReview, UnderReview
    <2> QED  BY <2>1, <2>2
  <1> QED  BY <1>10, <1>11, <1>12, <1>13, <1>14 DEF OrderInv

LEMMA OrderPublish ==
  ASSUME OrderInv, NetInv', NEW p \in Procs, Publish(p)
  PROVE  OrderInv'
  <1>1. CASE task[p].current /\ Released(p)  BY <1>1, OrderReleased DEF Publish
  <1>2. CASE Stop(p) /\ UNCHANGED <<branchVars, worktreeVars, resolved, offers>>
    BY <1>2, OrderStop DEF branchVars, worktreeVars
  <1> QED  BY <1>1, <1>2 DEF Publish

LEMMA OrderCommit ==
  ASSUME OrderInv, NetInv', Commit
  PROVE  OrderInv'
  <1>1. PICK kind : kind = task[Puller].kind  OBVIOUS
  <1>2. PICK n : n = task[Puller].round  OBVIOUS
  <1>3. /\ pc[Puller] = "commit" /\ pc' = [pc EXCEPT ![Puller] = "restore"]
        /\ tree' = index /\ state' = Marked(kind) /\ task' = Outdated
        /\ UNCHANGED <<index, crossed>>
    BY <1>1, CommitIs DEF Land
  <1>4. AtWork(Puller) /\ n \in Nat
    BY <1>2, PullerIs, TaskParts DEF OrderInv, NetInv
  <1>5. kind \in Verdicts \cup {"v"}  BY <1>1, <1>3, <1>4 DEF AtWork
  <1>6. Settled(tree', crossed') /\ Settled(index', crossed')  BY <1>3 DEF OrderInv
  <1>7. \A q \in Procs : Frozen(q)'
    <2>1. ASSUME NEW q \in Procs
          PROVE  task'[q].current = FALSE /\ task'[q].tree = task[q].tree
      BY <1>3, OutdatedIs DEF Outdated, OrderInv
    <2> QED  BY <1>3, <2>1, FrozenAfter
  <1>8. Concluded'
    <2> SUFFICES ASSUME state' = "direction-ok", NEW e \in tree'.rounds, e.of # 0
                 PROVE  e.n \in crossed' \/ \E r \in tree'.rounds : r.of = 0 /\ r.n > e.n
      BY DEF Concluded
    <2>1. kind \in States  BY <1>5 DEF Verdicts, States
    <2>2. kind = "direction-ok"  BY <1>3, <2>1, MarkedIs DEF OrderInv
    <2>3. Before(index, n, crossed) /\ \E r \in index.rounds : r.of = 0 /\ r.n = n
      BY <1>1, <1>2, <1>3, <2>2 DEF OrderInv, InReview, UnderReview, Judging
    <2>4. e \in index.rounds /\ e.n \in Nat
      BY <1>3, TreeParts DEF OrderInv, NetInv, Typed, Rounds
    <2>5. e.n < n \/ e.n \in crossed  BY <2>3, <2>4 DEF Before
    <2>6. PICK r \in index.rounds : r.of = 0 /\ r.n = n  BY <2>3
    <2>7. e.n < n => r.n > e.n  BY <1>4, <2>4, <2>6
    <2> QED  BY <1>3, <2>5, <2>6, <2>7
  <1>9. Behind'
    <2>1. \A r \in index.rounds : r.n >= r.n
      BY TreeParts DEF OrderInv, NetInv, Typed, Rounds
    <2> QED  BY <1>3, <2>1 DEF Behind
  <1>10. InReview'
    <2>1. pc'[Puller] = "restore"  BY <1>3, PullerIs DEF OrderInv, NetInv, Typed
    <2> QED  BY <2>1 DEF InReview
  <1> QED  BY <1>6, <1>7, <1>8, <1>9, <1>10 DEF OrderInv

-----------------------------------------------------------------------------
(* Every step keeps the invariant. *)

LEMMA OrderInvKept == OrderInv /\ [Next]_vars => OrderInv'
  <1> SUFFICES ASSUME OrderInv, [Next]_vars PROVE OrderInv'
    OBVIOUS
  <1>0. NetInv'  BY NetInvKept DEF OrderInv
  <1>1. CASE UNCHANGED vars
    BY <1>0, <1>1, OrderSame DEF vars, branchVars, worktreeVars
  <1>2. CASE Pull
    <2>1. CASE \E s \in Splits : Refine(s) \/ Rebaseline(s)
      BY <1>0, <2>1, OrderRefine, OrderRebaseline
    <2>2. CASE \E v \in Verdicts : Judge(v)  BY <1>0, <2>2, OrderJudge
    <2>3. CASE Select \/ Elaborate \/ Publish(Puller) \/ Scan \/ Post
      BY <1>0, <2>3, PullerIs, OrderSelect, OrderElaborate, OrderPublish, OrderScan, OrderPost
    <2>4. CASE Revise \/ Checkout \/ Add \/ Commit \/ Restore
      BY <1>0, <2>4, OrderRevise, OrderCheckout, OrderAdd, OrderCommit, OrderRestore
    <2> QED  BY <1>2, <2>1, <2>2, <2>3, <2>4 DEF Pull, Verdicts
  <1>3. ASSUME NEW c \in Callers, CallerStep(c)  PROVE OrderInv'
    BY <1>0, <1>3, PullerIs, OrderEscalate, OrderRevalidate, OrderPublish DEF CallerStep
  <1>4. CASE GiveUp \/ \E p \in Procs : Crash(p)
    BY <1>0, <1>4, OrderGiveUp, OrderCrash
  <1>5. ASSUME NEW k \in Children, Resolve(k)  PROVE OrderInv'
    BY <1>0, <1>5, OrderSame DEF Resolve, branchVars, worktreeVars
  <1> QED  BY <1>1, <1>2, <1>3, <1>4, <1>5 DEF Next

LEMMA OrderInvHolds == Spec => []OrderInv
  BY OrderInvInit, OrderInvKept, PTL DEF Spec

\* A ledger that answers an escalation was accepted by a review after it
\* (_pending_escalation_rebaseline_record_from_source), unless the escalation was
\* published while a review was under way -- whatever else is published or killed
\* during reviews.
THEOREM LedgersReviewed == Spec => []RebaselinedAfterReview
  <1>1. OrderInv => RebaselinedAfterReview
    BY DEF OrderInv, Settled, RebaselinedAfterReview
  <1> QED  BY <1>1, OrderInvHolds, PTL

\* A child that escalate has blocked stays so until a rebaseline takes note of a
\* newer escalation, or commit_files commits an index that lags behind the branch.
THEOREM EscalationsStand == Spec => EscalationStands
  <1> DEFINE Stands == \A k \in DOMAIN tree.child :
               tree.child[k].status = Invalidated =>
                 \/ tree'.ledger.from > tree.ledger.from
                 \/ k \in DOMAIN tree'.child /\ tree'.child[k].status = Invalidated
                 \/ Lagging /\ pc'[Puller] = "restore"
  <1>1. OrderInv /\ [Next]_vars => [Stands]_tree
    <2> SUFFICES ASSUME OrderInv, [Next]_vars, tree' # tree PROVE Stands
      OBVIOUS
    <2>1. ASSUME NEW p \in Procs, Publish(p)  PROVE Stands
      <3>1. task[p].current /\ tree' = task[p].tree
        BY <2>1 DEF Publish, Released, Land, branchVars
      <3>2. Succeeds(p)  BY <3>1 DEF OrderInv, Frozen
      <3> QED  BY <3>1, <3>2 DEF Succeeds, Follows
    <2>2. CASE Commit
      <3>1. tree' = index /\ pc[Puller] = "commit" /\ pc'[Puller] = "restore"
        BY <2>2, CommitIs, PullerIs DEF Land, OrderInv, NetInv, Typed
      <3>2. CASE Lagging  BY <3>1, <3>2
      <3>3. CASE ~Lagging
        <4>1. tree'.child = tree.child  BY <3>1, <3>3 DEF Lagging
        <4> QED  BY <4>1
      <3> QED  BY <3>2, <3>3
    <2>3. \/ \E p \in Procs : Publish(p)
          \/ Commit
          \/ UNCHANGED tree
      <3>1. CASE UNCHANGED vars  BY <3>1 DEF vars, branchVars
      <3>2. CASE Pull
        <4>1. CASE Publish(Puller) \/ Commit  BY <4>1, PullerIs
        <4>2. CASE \E s \in Splits : Refine(s) \/ Rebaseline(s)
          BY <4>2 DEF Refine, Rebaseline, Replace, Prepared, branchVars
        <4>3. CASE \E v \in Verdicts : Judge(v)  BY <4>3 DEF Judge, branchVars
        <4>4. CASE Select \/ Scan \/ Post \/ Revise \/ Checkout \/ Add \/ Restore
          BY <4>4 DEF Select, Scan, Post, Revise, Checkout, Add, Restore, branchVars
        <4>5. CASE Elaborate  BY <4>5 DEF Elaborate, Prepared, branchVars
        <4> QED  BY <3>2, <4>1, <4>2, <4>3, <4>4, <4>5 DEF Pull, Verdicts
      <3>3. ASSUME NEW c \in Callers, CallerStep(c)
            PROVE  \E p \in Procs : Publish(p) \/ UNCHANGED tree
        <4>1. CASE Publish(c)  BY <4>1, PullerIs
        <4>2. CASE \E k \in DOMAIN tree.child : Escalate(c, k) \/ Revalidate(c, k)
          BY <4>2, PullerIs DEF Escalate, Revalidate, Prepared, branchVars
        <4> QED  BY <3>3, <4>1, <4>2 DEF CallerStep
      <3>4. CASE GiveUp \/ \E p \in Procs : Crash(p)
        BY <3>4 DEF GiveUp, Crash, branchVars
      <3>5. ASSUME NEW k \in Children, Resolve(k)  PROVE UNCHANGED tree
        BY <3>5 DEF Resolve, branchVars
      <3> QED  BY <3>1, <3>2, <3>3, <3>4, <3>5 DEF Next
    <2> QED  BY <2>1, <2>2, <2>3
  <1> HIDE DEF Stands
  <1>2. Spec => [][Stands]_tree  BY <1>1, OrderInvHolds, PTL DEF Spec
  <1> QED  BY <1>2 DEF EscalationStands, Stands

-----------------------------------------------------------------------------
(* Verdicts on an accepted series. *)

\* The round that an escalation adds comes after those of the branch.
Fresh(p) ==
  task[p].current /\ task[p].subject = "escalated" =>
    \E x \in task[p].tree.rounds \ tree.rounds :
      x.n >= 1 /\ \A r \in tree.rounds : r.n < x.n

\* Round n is the next of t's, or t has reached it meanwhile.
Reached(t, n) == n <= 1 \/ \E r \in t.rounds : n <= r.n + 1

\* A review or a revision is of a series without a verdict; a review, of a new
\* version, unless an escalation has crossed it.
AtIssue ==
  LET t == task[Puller] IN
  /\ pc[Puller] \in {"chosen", "checkout", "add", "commit"}
  /\ t.kind \in Judging \cup {"reform", "v"}
  => /\ state \in {"v", "needs-revision"}
     /\ t.kind \in Judging => /\ Reached(tree, t.round)
                              /\ state = "v" \/ \E n \in crossed : n >= t.round

AcceptInv == OrderInv /\ (\A p \in Procs : Fresh(p)) /\ AtIssue

LEMMA AcceptInvInit == Init => AcceptInv
  <1> SUFFICES ASSUME Init PROVE AcceptInv  OBVIOUS
  <1>1. \A p \in Procs : task[p] = Idle /\ pc[p] = "idle"  BY DEF Init
  <1>2. (\A p \in Procs : Fresh(p)) /\ AtIssue
    BY <1>1, IdleIs, PullerIs DEF Fresh, AtIssue
  <1> QED  BY <1>2, OrderInvInit DEF AcceptInv

\* A step of one process that leaves the branch alone.
LEMMA AcceptKept ==
  ASSUME AcceptInv, OrderInv', NEW p \in Procs, UNCHANGED <<state, tree, crossed>>,
         \A q \in Procs \ {p} : pc'[q] = pc[q] /\ task'[q] = task[q],
         Fresh(p)', p = Puller => AtIssue'
  PROVE  AcceptInv'
  <1>1. ASSUME NEW q \in Procs, q # p  PROVE Fresh(q)'
    <2>1. Fresh(q) /\ task'[q] = task[q]  BY <1>1 DEF AcceptInv
    <2> QED  BY <2>1 DEF Fresh
  <1>2. AtIssue'
    <2>1. CASE p = Puller  BY <2>1
    <2>2. CASE p # Puller
      <3>1. pc'[Puller] = pc[Puller] /\ task'[Puller] = task[Puller]  BY <2>2, PullerIs
      <3> QED  BY <3>1 DEF AcceptInv, AtIssue, Reached
    <2> QED  BY <2>1, <2>2
  <1> QED  BY <1>1, <1>2 DEF AcceptInv

LEMMA AcceptStop ==
  ASSUME AcceptInv, OrderInv', NEW p \in Procs, Stop(p), UNCHANGED <<state, tree, crossed>>
  PROVE  AcceptInv'
  <1>1. pc' = [pc EXCEPT ![p] = "idle"] /\ task' = [task EXCEPT ![p] = Idle]
    BY DEF Stop, Goto
  <1>2. /\ pc'[p] = "idle" /\ task'[p] = Idle
        /\ \A q \in Procs \ {p} : pc'[q] = pc[q] /\ task'[q] = task[q]
    BY <1>1, Elsewhere DEF AcceptInv, OrderInv
  <1>3. Fresh(p)'  BY <1>2, IdleIs DEF Fresh
  <1>4. p = Puller => AtIssue'  BY <1>2 DEF AtIssue
  <1> QED  BY <1>2, <1>3, <1>4, AcceptKept

LEMMA AcceptStops ==
  ASSUME AcceptInv, OrderInv', GiveUp \/ Restore \/ Post \/ \E p \in Procs : Crash(p)
  PROVE  AcceptInv'
  <1>1. PICK p \in Procs : Stop(p) /\ UNCHANGED <<state, tree, crossed>>
    BY PullerIs DEF GiveUp, Restore, Post, Crash, branchVars
  <1> QED  BY <1>1, AcceptStop

\* The number of the next round follows that of a round of the branch.
LEMMA NextIsReached ==
  ASSUME NetInv
  PROVE  Reached(tree, NextRound)
  <1> DEFINE S == {0} \cup {r.n : r \in tree.rounds}
  <1>1. tree.rounds \in SUBSET Rounds  BY TreeParts DEF NetInv, Typed
  <1>2. PICK n \in Nat : \A r \in tree.rounds : r.n <= n  BY DEF NetInv, Numbered
  <1>3. S \in SUBSET Nat /\ S # {}  BY <1>1 DEF Rounds
  <1>4. \A x \in S : x <= n  BY <1>2
  <1>5. NextRound = Max(S) + 1  BY DEF NextRound
  <1>6. \A x \in S : x = 0 \/ \E r \in tree.rounds : r.n = x  OBVIOUS
  <1> HIDE DEF S
  <1>7. Max(S) \in S  BY <1>2, <1>3, <1>4, GreatestExists
  <1>8. Max(S) \in Nat  BY <1>3, <1>7
  <1>9. CASE Max(S) = 0  BY <1>5, <1>9 DEF Reached
  <1>10. CASE \E r \in tree.rounds : r.n = Max(S)
    BY <1>5, <1>8, <1>10 DEF Reached
  <1> QED  BY <1>6, <1>7, <1>9, <1>10

LEMMA AcceptSelect ==
  ASSUME AcceptInv, OrderInv', Select
  PROVE  AcceptInv'
  <1> DEFINE t == [Idle EXCEPT !.kind = NextItem,
                     !.node = IF NextItem = "elaborate" THEN Min(CoarseReady) ELSE 0,
                     !.round = NextRound, !.last = Cardinality(tree.rounds) >= MaxRounds]
  <1>1. /\ task' = [task EXCEPT ![Puller] = t] /\ pc' = [pc EXCEPT ![Puller] = "chosen"]
        /\ UNCHANGED <<state, tree, crossed>>
    BY DEF Select, Goto, branchVars
  <1>2. t.kind = NextItem /\ t.round = NextRound /\ t.current = FALSE  BY DEF Idle
  <1> HIDE DEF t
  <1>3. /\ pc'[Puller] = "chosen" /\ task'[Puller] = t
        /\ \A q \in Procs \ {Puller} : pc'[q] = pc[q] /\ task'[q] = task[q]
    BY <1>1, PullerIs, Elsewhere DEF AcceptInv, OrderInv
  <1>4. Fresh(Puller)'  BY <1>2, <1>3 DEF Fresh
  <1>5. /\ t.kind \in {"reform", "v"} => state = "needs-revision"
        /\ t.kind \in Judging => state = "v"
    BY <1>2 DEF NextItem, Judging
  <1>6. Reached(tree, t.round)  BY <1>2, NextIsReached DEF AcceptInv, OrderInv
  <1>7. AtIssue'  BY <1>1, <1>3, <1>5, <1>6 DEF AtIssue
  <1> QED  BY <1>1, <1>3, <1>4, <1>7, PullerIs, AcceptKept

\* Puller goes on with the same review or revision.
LEMMA AcceptStep ==
  ASSUME AcceptInv, OrderInv', UNCHANGED <<state, tree, crossed>>,
         NEW t, t.current = task[Puller].current, t.round = task[Puller].round,
         t.tree = task[Puller].tree, t.subject = task[Puller].subject,
         NEW l, task' = [task EXCEPT ![Puller] = t], pc' = [pc EXCEPT ![Puller] = l],
         \/ l \notin {"chosen", "checkout", "add", "commit"}
         \/ /\ pc[Puller] \in {"chosen", "checkout", "add", "commit"}
            /\ \/ t.kind = task[Puller].kind
               \/ task[Puller].kind \in Judging /\ t.kind \in Judging
               \/ task[Puller].kind = "reform" /\ t.kind = "v"
  PROVE  AcceptInv'
  <1>1. /\ pc'[Puller] = l /\ task'[Puller] = t
        /\ \A q \in Procs \ {Puller} : pc'[q] = pc[q] /\ task'[q] = task[q]
    BY PullerIs, Elsewhere DEF AcceptInv, OrderInv
  <1>2. Fresh(Puller)  BY PullerIs DEF AcceptInv
  <1>3. Fresh(Puller)'  BY <1>1, <1>2 DEF Fresh
  <1>4. AtIssue'
    <2>1. CASE l \notin {"chosen", "checkout", "add", "commit"}  BY <1>1, <2>1 DEF AtIssue
    <2>2. CASE /\ pc[Puller] \in {"chosen", "checkout", "add", "commit"}
               /\ \/ t.kind = task[Puller].kind
                  \/ task[Puller].kind \in Judging /\ t.kind \in Judging
                  \/ task[Puller].kind = "reform" /\ t.kind = "v"
      BY <1>1, <2>2 DEF AcceptInv, AtIssue, Reached, Judging
    <2> QED  BY <2>1, <2>2
  <1> QED  BY <1>1, <1>3, <1>4, PullerIs, AcceptKept

LEMMA AcceptJudge ==
  ASSUME AcceptInv, OrderInv', NEW v \in Verdicts, Judge(v)
  PROVE  AcceptInv'
  <1>1. PICK kind \in Judging : task' = [task EXCEPT ![Puller].kind = kind]
    <2>1. CASE task[Puller].last /\ v = "needs-revision"
      BY <2>1 DEF Judge, Judging
    <2>2. CASE ~(task[Puller].last /\ v = "needs-revision")
      BY <2>2 DEF Judge, Judging, Verdicts
    <2> QED  BY <2>1, <2>2
  <1>2. PICK t : t = [task[Puller] EXCEPT !.kind = kind]  OBVIOUS
  <1>3. /\ t.kind = kind /\ t.round = task[Puller].round /\ t.tree = task[Puller].tree
        /\ t.current = task[Puller].current /\ t.subject = task[Puller].subject
    BY <1>2, PullerIs, TaskParts DEF AcceptInv, OrderInv, Tasks
  <1>4. /\ task' = [task EXCEPT ![Puller] = t] /\ pc' = [pc EXCEPT ![Puller] = "checkout"]
        /\ pc[Puller] = "chosen" /\ task[Puller].kind = "review"
        /\ UNCHANGED <<state, tree, crossed>>
    BY <1>1, <1>2 DEF Judge, Goto, branchVars
  <1>5. task[Puller].kind \in Judging  BY <1>4 DEF Judging
  <1> QED  BY <1>3, <1>4, <1>5, AcceptStep

LEMMA AcceptRevise ==
  ASSUME AcceptInv, OrderInv', Revise
  PROVE  AcceptInv'
  <1>1. PICK t : t = [task[Puller] EXCEPT !.kind = "v"]  OBVIOUS
  <1>2. /\ t.kind = "v" /\ t.round = task[Puller].round /\ t.tree = task[Puller].tree
        /\ t.current = task[Puller].current /\ t.subject = task[Puller].subject
    BY <1>1, PullerIs, TaskParts DEF AcceptInv, OrderInv, Tasks
  <1>3. /\ task' = [task EXCEPT ![Puller] = t] /\ pc' = [pc EXCEPT ![Puller] = "checkout"]
        /\ pc[Puller] = "chosen" /\ task[Puller].kind = "reform"
        /\ UNCHANGED <<state, tree, crossed>>
    BY <1>1 DEF Revise, Goto, branchVars
  <1> QED  BY <1>2, <1>3, AcceptStep

LEMMA AcceptCommands ==
  ASSUME AcceptInv, OrderInv', Checkout \/ Add
  PROVE  AcceptInv'
  <1>1. PICK t : t = task[Puller]  OBVIOUS
  <1>2. PICK l : /\ pc' = [pc EXCEPT ![Puller] = l]
                 /\ pc[Puller] \in {"checkout", "add"}
                 /\ UNCHANGED <<state, tree, crossed, task>>
    BY DEF Checkout, Add, Goto, branchVars
  <1>3. task' = [task EXCEPT ![Puller] = t]
    BY <1>1, <1>2 DEF AcceptInv, OrderInv, NetInv, Typed
  <1> QED  BY <1>1, <1>2, <1>3, AcceptStep

LEMMA AcceptScan ==
  ASSUME AcceptInv, OrderInv', Scan
  PROVE  AcceptInv'
  <1>1. UNCHANGED <<state, tree, crossed>>  BY DEF Scan, branchVars
  <1>2. CASE Stop(Puller)  BY <1>1, <1>2, PullerIs, AcceptStop
  <1>3. CASE Goto(Puller, "post") /\ UNCHANGED task
    <2>1. PICK t : t = task[Puller]  OBVIOUS
    <2>2. task' = [task EXCEPT ![Puller] = t] /\ pc' = [pc EXCEPT ![Puller] = "post"]
      BY <1>3, <2>1 DEF Goto, AcceptInv, OrderInv, NetInv, Typed
    <2>3. PICK l : l = "post"  OBVIOUS
    <2> QED  BY <1>1, <2>1, <2>2, <2>3, AcceptStep
  <1> QED  BY <1>2, <1>3 DEF Scan

\* A successor is prepared: with a round that comes after the others, or no escalation.
LEMMA AcceptPrepared ==
  ASSUME AcceptInv, OrderInv', NEW p \in Procs,
         NEW child, NEW proposed, NEW from, NEW rounds, NEW subject,
         Prepared(p, child, proposed, from, rounds, subject),
         subject = "escalated" =>
           \E x \in rounds \ tree.rounds : x.n >= 1 /\ \A r \in tree.rounds : r.n < x.n
  PROVE  AcceptInv'
  <1>1. PICK new : new = Successor(child, proposed, from, rounds)  OBVIOUS
  <1>2. new.rounds = rounds  BY <1>1 DEF Successor
  <1>3. PICK t : t = [task[p] EXCEPT !.current = TRUE, !.subject = subject, !.tree = new]
    OBVIOUS
  <1>4. /\ task' = [task EXCEPT ![p] = t] /\ pc' = [pc EXCEPT ![p] = "publish"]
        /\ UNCHANGED <<state, tree, crossed>>
    <2>1. task' = [task EXCEPT ![p].current = TRUE, ![p].subject = subject, ![p].tree = new]
      BY <1>1 DEF Prepared, Successor
    <2>2. task' = [task EXCEPT ![p] = t]  BY <1>3, <2>1
    <2> QED  BY <2>2 DEF Prepared, Goto, branchVars
  <1>5. t.tree = new /\ t.subject = subject
    BY <1>3, TaskParts DEF AcceptInv, OrderInv, Tasks
  <1>6. /\ pc'[p] = "publish" /\ task'[p] = t
        /\ \A q \in Procs \ {p} : pc'[q] = pc[q] /\ task'[q] = task[q]
    BY <1>4, Elsewhere DEF AcceptInv, OrderInv
  <1>7. Fresh(p)'  BY <1>2, <1>4, <1>5, <1>6 DEF Fresh
  <1>8. p = Puller => AtIssue'  BY <1>6 DEF AtIssue
  <1> QED  BY <1>4, <1>6, <1>7, <1>8, AcceptKept

LEMMA AcceptEscalate ==
  ASSUME AcceptInv, OrderInv', NEW c \in Callers, NEW k, Escalate(c, k)
  PROVE  AcceptInv'
  <1> DEFINE child == EscalatedChild(k)
             whole == \A j \in Cohort(k) \cup {k} : child[j] # tree.child[j]
             added(w) == [n |-> NextRound, of |-> k, whole |-> w]
  <1>1. Prepared(c, child, tree.ledger.entry, tree.ledger.from,
                 tree.rounds \cup {added(whole)}, "escalated")
    BY Zenon DEF Escalate, EscalatedChild
  <1>2. \A w : added(w).n = NextRound  OBVIOUS
  <1> HIDE DEF added, whole, child
  <1>3. PICK x : x = added(whole)  OBVIOUS
  <1>4. PICK rounds : /\ rounds = tree.rounds \cup {x}
                      /\ Prepared(c, child, tree.ledger.entry, tree.ledger.from,
                                  rounds, "escalated")
    BY <1>1, <1>3
  <1>5. x.n = NextRound  BY <1>2, <1>3
  <1>6. x.n \in Nat /\ 0 < x.n /\ \A r \in tree.rounds : r.n \in Nat /\ r.n < x.n
    BY <1>5, NextRoundIs DEF AcceptInv, OrderInv
  <1>7. x \in rounds \ tree.rounds  BY <1>4, <1>6
  <1>8. x.n >= 1  BY <1>6
  <1> QED  BY <1>4, <1>6, <1>7, <1>8, PullerIs, AcceptPrepared

LEMMA AcceptNetwork ==
  ASSUME AcceptInv, OrderInv',
         \/ \E s \in Splits : Refine(s) \/ Rebaseline(s)
         \/ Elaborate
         \/ \E c \in Callers, k \in DOMAIN tree.child : Revalidate(c, k)
  PROVE  AcceptInv'
  <1> DEFINE Network(p) == \E child, proposed, from, rounds :
                             Prepared(p, child, proposed, from, rounds, "network")
  <1>1. \E p \in Procs : Network(p)
    <2>1. ASSUME NEW s \in Splits, Refine(s) \/ Rebaseline(s)  PROVE Network(Puller)
      <3>1. PICK from : Replace(s, from)  BY <2>1 DEF Refine, Rebaseline
      <3> QED  BY <3>1 DEF Replace
    <2>2. CASE Elaborate
      <3>1. Network(Puller)  BY <2>2 DEF Elaborate
      <3> QED  BY <3>1, PullerIs
    <2>3. ASSUME NEW c \in Callers, NEW k \in DOMAIN tree.child, Revalidate(c, k)
          PROVE  Network(c)
      <3>1. PICK now : Prepared(c, [tree.child EXCEPT ![k] = now], tree.ledger.entry,
                                tree.ledger.from, tree.rounds, "network")
        BY <2>3 DEF Revalidate
      <3>2. PICK child : child = [tree.child EXCEPT ![k] = now]  OBVIOUS
      <3>3. Prepared(c, child, tree.ledger.entry, tree.ledger.from, tree.rounds, "network")
        BY <3>1, <3>2
      <3> QED  BY <3>3
    <2> HIDE DEF Network
    <2> QED  BY <2>1, <2>2, <2>3, PullerIs
  <1>2. PICK p \in Procs : Network(p)  BY <1>1
  <1>3. PICK child, proposed, from, rounds :
          Prepared(p, child, proposed, from, rounds, "network")
    BY <1>2
  <1>4. PICK subject : subject = "network"  OBVIOUS
  <1> QED  BY <1>2, <1>3, <1>4, AcceptPrepared

\* An escalation that comes in during a review crosses it.
LEMMA AcceptReleased ==
  ASSUME AcceptInv, OrderInv', NEW p \in Procs, pc[p] = "publish", task[p].current, Released(p)
  PROVE  AcceptInv'
  <1>1. PICK new : new = task[p].tree  OBVIOUS
  <1>2. PICK subject : subject = task[p].subject  OBVIOUS
  <1>3. tree' = new /\ state' = Marked(subject) /\ crossed' = crossed \cup Crossing(p)
    BY <1>1, <1>2, ReleasedIs DEF AcceptInv, OrderInv, Land
  <1>4. PICK t \in Tasks, l \in {"scan", "idle"} :
          /\ task' = [Outdated EXCEPT ![p] = t] /\ pc' = [pc EXCEPT ![p] = l]
          /\ t.current = FALSE
    BY ReleasedIs DEF AcceptInv, OrderInv
  <1>5. /\ pc'[p] = l /\ task'[p] = t
        /\ \A q \in Procs \ {p} : /\ pc'[q] = pc[q]
                                  /\ task'[q] = [task[q] EXCEPT !.current = FALSE]
    BY <1>4 DEF AcceptInv, OrderInv, NetInv, Typed, Outdated
  <1>6. ASSUME NEW q \in Procs, q # p
        PROVE  /\ pc'[q] = pc[q] /\ task'[q].current = FALSE
               /\ task'[q].kind = task[q].kind /\ task'[q].round = task[q].round
    <2>1. NetInv  BY DEF AcceptInv, OrderInv
    <2>2. PICK u : u = [task[q] EXCEPT !.current = FALSE]  OBVIOUS
    <2>3. u.current = FALSE /\ u.kind = task[q].kind /\ u.round = task[q].round
      BY <2>1, <2>2, OutdatedIs
    <2> QED  BY <1>5, <1>6, <2>2, <2>3
  <1>7. AtWork(p) /\ subject \in Subjects /\ Succeeds(p) /\ Fresh(p)
    BY <1>1, <1>2, TaskParts DEF AcceptInv, OrderInv, NetInv, Frozen
  <1>8. subject \in {"network", "escalated"}  BY <1>2, <1>7 DEF AtWork, Subjects
  <1>9. tree.rounds \subseteq new.rounds  BY <1>1, <1>7 DEF Succeeds
  <1>10. \A q \in Procs : Fresh(q)'
    <2>1. \A q \in Procs : task'[q].current = FALSE  BY <1>4, <1>5, <1>6
    <2> QED  BY <2>1 DEF Fresh
  <1>11. AtIssue'
    <2>1. CASE p = Puller  BY <1>5, <2>1 DEF AtIssue
    <2>2. CASE p # Puller
      <3>1. PICK n : n = task[Puller].round  OBVIOUS
      <3>2. /\ pc'[Puller] = pc[Puller] /\ task'[Puller].kind = task[Puller].kind
            /\ task'[Puller].round = n
        BY <1>6, <2>2, <3>1, PullerIs
      <3>3. ASSUME pc[Puller] \in {"chosen", "checkout", "add", "commit"},
                   task[Puller].kind \in Judging \cup {"reform", "v"}
            PROVE  /\ state' \in {"v", "needs-revision"}
                   /\ task[Puller].kind \in Judging =>
                        /\ Reached(new, n)
                        /\ state' = "v" \/ \E m \in crossed' : m >= n
        <4>1. /\ state \in {"v", "needs-revision"}
              /\ task[Puller].kind \in Judging => /\ Reached(tree, n)
                                                  /\ state = "v" \/ \E m \in crossed : m >= n
          BY <3>1, <3>3 DEF AcceptInv, AtIssue
        <4>2. Reached(tree, n) => Reached(new, n)  BY <1>9 DEF Reached
        <4>3. CASE subject = "network"
          <5>1. state' = state  BY <1>3, <4>1, <4>3 DEF Marked, States
          <5> QED  BY <1>3, <4>1, <4>2, <5>1
        <4>4. CASE subject = "escalated"
          <5>1. state' = "needs-revision"  BY <1>3, <4>1, <4>4 DEF Marked
          <5>2. ASSUME task[Puller].kind \in Judging  PROVE \E m \in crossed' : m >= n
            <6>1. PICK x \in new.rounds \ tree.rounds :
                    x.n >= 1 /\ \A r \in tree.rounds : r.n < x.n
              BY <1>1, <1>2, <1>7, <4>4 DEF Fresh
            <6>2. x.n \in crossed'
              BY <1>1, <1>2, <1>3, <4>4, <5>2, <6>1 DEF Crossing, UnderReview
            <6>3. /\ n \in Nat /\ x.n \in Nat /\ \A r \in tree.rounds : r.n \in Nat
              BY <1>1, <3>1, <6>1, PullerIs, TaskParts, TreeParts, TreeStays
                 DEF AcceptInv, OrderInv, NetInv, Typed, Rounds
            <6>4. x.n >= n  BY <4>1, <5>2, <6>1, <6>3 DEF Reached
            <6> QED  BY <6>2, <6>4
          <5> QED  BY <4>1, <4>2, <5>1, <5>2
        <4> QED  BY <1>8, <4>3, <4>4
      <3> QED  BY <1>3, <3>2, <3>3 DEF AtIssue
    <2> QED  BY <2>1, <2>2
  <1> QED  BY <1>10, <1>11 DEF AcceptInv

LEMMA AcceptPublish ==
  ASSUME AcceptInv, OrderInv', NEW p \in Procs, Publish(p)
  PROVE  AcceptInv'
  <1>1. CASE task[p].current /\ Released(p)  BY <1>1, AcceptReleased DEF Publish
  <1>2. CASE Stop(p) /\ UNCHANGED <<branchVars, worktreeVars, resolved, offers>>
    BY <1>2, AcceptStop DEF branchVars
  <1> QED  BY <1>1, <1>2 DEF Publish

LEMMA AcceptCommit ==
  ASSUME AcceptInv, OrderInv', Commit
  PROVE  AcceptInv'
  <1>1. pc' = [pc EXCEPT ![Puller] = "restore"] /\ task' = Outdated  BY CommitIs
  <1>2. AtIssue'
    <2>1. pc'[Puller] = "restore"  BY <1>1, PullerIs DEF AcceptInv, OrderInv, NetInv, Typed
    <2> QED  BY <2>1 DEF AtIssue
  <1>3. \A q \in Procs : Fresh(q)'
    <2>1. ASSUME NEW q \in Procs  PROVE task'[q].current = FALSE
      BY <1>1, OutdatedIs DEF Outdated, AcceptInv, OrderInv
    <2> QED  BY <2>1 DEF Fresh
  <1> QED  BY <1>2, <1>3 DEF AcceptInv

LEMMA AcceptSame ==
  ASSUME AcceptInv, OrderInv', UNCHANGED <<state, tree, crossed, pc, task>>
  PROVE  AcceptInv'
  <1>1. Fresh(Puller)  BY PullerIs DEF AcceptInv
  <1>2. Fresh(Puller)'  BY <1>1 DEF Fresh
  <1>3. AtIssue'  BY DEF AcceptInv, AtIssue, Reached
  <1> QED  BY <1>2, <1>3, PullerIs, AcceptKept

LEMMA AcceptInvKept == AcceptInv /\ [Next]_vars => AcceptInv'
  <1> SUFFICES ASSUME AcceptInv, [Next]_vars PROVE AcceptInv'
    OBVIOUS
  <1>0. OrderInv'  BY OrderInvKept DEF AcceptInv
  <1>1. CASE UNCHANGED vars  BY <1>0, <1>1, AcceptSame DEF vars, branchVars
  <1>2. CASE Pull
    <2>1. CASE (\E s \in Splits : Refine(s) \/ Rebaseline(s)) \/ Elaborate
      BY <1>0, <2>1, AcceptNetwork
    <2>2. CASE \E v \in Verdicts : Judge(v)  BY <1>0, <2>2, AcceptJudge
    <2>3. CASE Select \/ Publish(Puller) \/ Scan \/ Post \/ Restore
      BY <1>0, <2>3, PullerIs, AcceptSelect, AcceptPublish, AcceptScan, AcceptStops
    <2>4. CASE Revise \/ Checkout \/ Add \/ Commit
      BY <1>0, <2>4, AcceptRevise, AcceptCommands, AcceptCommit
    <2> QED  BY <1>2, <2>1, <2>2, <2>3, <2>4 DEF Pull, Verdicts
  <1>3. ASSUME NEW c \in Callers, CallerStep(c)  PROVE AcceptInv'
    BY <1>0, <1>3, PullerIs, AcceptEscalate, AcceptNetwork, AcceptPublish DEF CallerStep
  <1>4. CASE GiveUp \/ \E p \in Procs : Crash(p)
    BY <1>0, <1>4, AcceptStops
  <1>5. ASSUME NEW k \in Children, Resolve(k)  PROVE AcceptInv'
    BY <1>0, <1>5, AcceptSame DEF Resolve, branchVars
  <1> QED  BY <1>1, <1>2, <1>3, <1>4, <1>5 DEF Next

LEMMA AcceptInvHolds == Spec => []AcceptInv
  BY AcceptInvInit, AcceptInvKept, PTL DEF Spec

\* What a step is to do to the state of the series.
AcceptingStep ==
  /\ state = "direction-ok" => escalated' > escalated
  /\ state' = "direction-ok" => state = "v" \/ \E n \in crossed : n >= task[Puller].round

LEMMA ReleaseIsAccepting ==
  ASSUME AcceptInv, NEW p \in Procs, Publish(p), state' # state
  PROVE  AcceptingStep
  <1>1. /\ pc[p] = "publish" /\ Released(p)
        /\ state' = Marked(task[p].subject)
        /\ escalated' = escalated + IF task[p].subject = "escalated" THEN 1 ELSE 0
    BY DEF Publish, Released, Land, branchVars
  <1>2. task[p].subject \in {"network", "escalated"}
    BY <1>1, TaskParts DEF AcceptInv, OrderInv, NetInv, AtWork, Subjects
  <1>3. state \in States /\ escalated \in Nat  BY DEF AcceptInv, OrderInv, NetInv, Typed
  <1>4. task[p].subject = "escalated"
    BY <1>1, <1>2, <1>3 DEF Marked, States
  <1>5. state' \in {"nak", "needs-revision"} /\ escalated' = escalated + 1
    BY <1>1, <1>4 DEF Marked
  <1> QED  BY <1>3, <1>5 DEF AcceptingStep

LEMMA CommitIsAccepting ==
  ASSUME AcceptInv, Commit
  PROVE  AcceptingStep
  <1>1. PICK kind : kind = task[Puller].kind  OBVIOUS
  <1>2. pc[Puller] = "commit" /\ state' = Marked(kind)  BY <1>1, CommitIs DEF Land
  <1>3. AtWork(Puller)  BY PullerIs DEF AcceptInv, OrderInv, NetInv
  <1>4. kind \in Verdicts \cup {"v"}  BY <1>1, <1>2, <1>3 DEF AtWork
  <1>5. kind \in Judging \cup {"reform", "v"}  BY <1>4 DEF Judging, Verdicts
  <1>6. /\ state \in {"v", "needs-revision"}
        /\ kind \in Judging => state = "v" \/ \E n \in crossed : n >= task[Puller].round
    BY <1>1, <1>2, <1>5 DEF AcceptInv, AtIssue
  <1>7. state' = "direction-ok" => kind = "direction-ok"
    BY <1>2, <1>4, <1>6 DEF Marked, States, Verdicts
  <1>8. "direction-ok" \in Judging  BY DEF Judging
  <1> QED  BY <1>6, <1>7, <1>8 DEF AcceptingStep

\* Only an escalation reopens an accepted series, and it is accepted again only on
\* a new version, or by a review that the escalation crossed: for any number of
\* escalations and rounds, with stale selections and kills anywhere.
THEOREM AcceptancesStand == Spec => AcceptanceStands
  <1>1. AcceptInv /\ [Next]_vars => [AcceptingStep]_state
    <2> SUFFICES ASSUME AcceptInv, [Next]_vars, state' # state PROVE AcceptingStep
      OBVIOUS
    <2>1. ASSUME NEW p \in Procs, Publish(p)  PROVE AcceptingStep
      BY <2>1, ReleaseIsAccepting
    <2>2. CASE Commit  BY <2>2, CommitIsAccepting
    <2>3. \/ \E p \in Procs : Publish(p)
          \/ Commit
      <3>1. CASE UNCHANGED vars  BY <3>1 DEF vars, branchVars
      <3>2. CASE Pull
        <4>1. CASE Publish(Puller) \/ Commit  BY <4>1, PullerIs
        <4>2. CASE \E s \in Splits : Refine(s) \/ Rebaseline(s)
          BY <4>2 DEF Refine, Rebaseline, Replace, Prepared, branchVars
        <4>3. CASE \E v \in Verdicts : Judge(v)  BY <4>3 DEF Judge, branchVars
        <4>4. CASE Select \/ Scan \/ Post \/ Revise \/ Checkout \/ Add \/ Restore
          BY <4>4 DEF Select, Scan, Post, Revise, Checkout, Add, Restore, branchVars
        <4>5. CASE Elaborate  BY <4>5 DEF Elaborate, Prepared, branchVars
        <4> QED  BY <3>2, <4>1, <4>2, <4>3, <4>4, <4>5 DEF Pull, Verdicts
      <3>3. ASSUME NEW c \in Callers, CallerStep(c)  PROVE Publish(c) \/ UNCHANGED state
        <4>1. CASE Publish(c)  BY <4>1
        <4>2. CASE \E k \in DOMAIN tree.child : Escalate(c, k) \/ Revalidate(c, k)
          BY <4>2, Zenon DEF Escalate, Revalidate, Prepared, branchVars
        <4> QED  BY <3>3, <4>1, <4>2 DEF CallerStep
      <3>4. CASE GiveUp \/ \E p \in Procs : Crash(p)
        BY <3>4 DEF GiveUp, Crash, branchVars
      <3>5. ASSUME NEW k \in Children  PROVE ~Resolve(k)
        BY DEF Resolve, branchVars
      <3> QED  BY <3>1, <3>2, <3>3, <3>4, <3>5, PullerIs DEF Next
    <2> QED  BY <2>1, <2>2, <2>3
  <1>2. Spec => [][AcceptingStep]_state  BY <1>1, AcceptInvHolds, PTL DEF Spec
  <1> QED  BY <1>2 DEF AcceptanceStands, AcceptingStep
=============================================================================
