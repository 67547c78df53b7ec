---------------------------- MODULE Contribution ----------------------------
(***************************************************************************)
(* A contribution branch between its authors and the acceptance judge.     *)
(*                                                                         *)
(* Authors work in clones of their own (patch_author): a clone announces,  *)
(* which for a producer-aware series creates the branch with promises that *)
(* name the series commit; drive implements; submit publishes by a push    *)
(* that requires the branch to be still what submit saw; a blocked verdict *)
(* comes back as feedback and address_feedback appends a repair.           *)
(*                                                                         *)
(* The judge works in the canonical repository (functional_check):         *)
(* acceptance_pull picks the first branch whose tip has no verdict, check  *)
(* freezes the tip, and for producers the series and the authority notes,  *)
(* admits the claims, asks the referee and appends a verdict, for          *)
(* producers together with a seal in the notes in one transaction of refs. *)
(*                                                                         *)
(* Abstracted: a branch has one announced address and every family its     *)
(* valid announcement of it (OfferRing has the announcements); a series    *)
(* commit only tells whether the producer-pair closure holds at it; one    *)
(* process at a time works in a clone.                                     *)
(***************************************************************************)
EXTENDS Naturals, Sequences, SequencesExt, FiniteSets

CONSTANTS
  Branches,    \* contribution branches, in the order of their names
  Producers,   \* those of producer-aware series (root generation v2)
  Clones,      \* author clones
  BranchOf,    \* the branch that a clone contributes to
  FamilyOf,    \* the author identity of a clone
  Judges,      \* processes that run acceptance_pull
  Synced,      \* do authors bring the published branch over before a repair?
  MaxSeries, MaxCommits,  \* bounds on a series and on what authors append, by branch
  MaxKills

ASSUME BranchesAssumption == Branches \subseteq Nat /\ Producers \subseteq Branches
ASSUME ClonesAssumption == BranchOf \in [Clones -> Branches] /\ Clones \subseteq DOMAIN FamilyOf
ASSUME BoundsAssumption ==
  /\ MaxSeries \in [Branches -> Nat \ {0}] /\ MaxCommits \in [Branches -> Nat]
  /\ MaxKills \in Nat
  /\ Synced \in BOOLEAN

VARIABLES
  series,   \* for each branch, its series: does the closure hold at commit i?
  remote,   \* the published contribution branch, <<>> when there is none
  local,    \* the contribution branch in each clone, <<>> when there is none
  notes,    \* the seals in the authority notes
  seen,     \* what submit read, by clone
  job,      \* what a judge works on
  kills

authorVars == <<local, seen>>
vars == <<series, remote, notes, job, kills, authorVars>>

Verdicts == {"reachable", "blocked"}
\* "same" is a repair that left the committed result as it was, byte for byte.
Kinds == {"promise", "part", "work", "fix", "same"} \cup Verdicts
Commit == [kind : Kinds, by : Clones \cup {"judge"}, snap : Nat]
NoJob == [at |-> "idle"]
NotSubmitting == [on |-> FALSE]
Seal == [branch : Branches, at : Nat]
Picked == [at : {"picked"}, branch : Branches, snap : Nat]
Admitted == [at : {"admitted"}, branch : Branches, snap : Nat, tip : Seq(Commit), notes : Seq(Seal)]

TypeOK ==
  /\ series \in [Branches -> Seq(BOOLEAN)]
  /\ remote \in [Branches -> Seq(Commit)]
  /\ local \in [Clones -> Seq(Commit)]
  /\ notes \in Seq(Seal)
  /\ seen \in [Clones -> {NotSubmitting} \cup [on : {TRUE}, remote : Seq(Commit)]]
  /\ job \in [Judges -> {NoJob} \cup Picked \cup Admitted]
  /\ kills \in 0..MaxKills

Init ==
  /\ series = [b \in Branches |-> <<TRUE>>]
  /\ remote = [b \in Branches |-> <<>>]
  /\ local = [c \in Clones |-> <<>>]
  /\ notes = <<>>
  /\ seen = [c \in Clones |-> NotSubmitting]
  /\ job = [j \in Judges |-> NoJob]
  /\ kills = 0
-----------------------------------------------------------------------------
Tip(b) == Len(series[b])          \* the series tip
Open(b, s) == b \notin Producers \/ series[b][s]   \* the gate at series commit s
PromiseOnly(s) == \A i \in DOMAIN s : s[i].kind = "promise"
Promised(s) == s # <<>> /\ s[1].kind = "promise"
IsVerdict(commit) == commit.kind \in Verdicts
\* The identity that a branch tip is taken for: verdicts are stepped over.
Author(s) == FamilyOf[Last(SelectSeq(s, LAMBDA x : ~IsVerdict(x))).by]

\* Anybody else commits to the series: reviews, elaborations, reports.
SeriesMoves(b) ==
  /\ Tip(b) < MaxSeries[b]
  /\ \E open \in BOOLEAN :
       /\ b \notin Producers => open
       /\ series' = [series EXCEPT ![b] = Append(@, open)]
  /\ UNCHANGED <<remote, notes, job, kills, authorVars>>

-----------------------------------------------------------------------------
(* Authors. *)

Appended(c, kind, snap) ==
  local' = [local EXCEPT ![c] = Append(@, [kind |-> kind, by |-> c, snap |-> snap])]

\* announce for a producer: announcement and promises are created together.
\* A clone killed before the refresh has no local branch.
Announce(c) ==
  LET b == BranchOf[c]
      promise == [kind |-> "promise", by |-> c, snap |-> Tip(b)]
  IN /\ b \in Producers /\ remote[b] = <<>> /\ local[c] = <<>>
     /\ Open(b, Tip(b))
     /\ remote' = [remote EXCEPT ![b] = <<promise>>]
     /\ \/ local' = [local EXCEPT ![c] = <<promise>>] /\ UNCHANGED kills
        \/ kills < MaxKills /\ kills' = kills + 1 /\ UNCHANGED local
     /\ UNCHANGED <<series, notes, seen, job>>

\* The series commit that a brief may be loaded from: the clone's view of the
\* series is as old as its last fetch, but a producer's task binding must
\* find promises made at that very commit.
Brief(c) ==
  LET b == BranchOf[c]
  IN IF b \in Producers
     THEN {s \in 1..Tip(b) : Promised(local[c]) /\ local[c][1].snap = s /\ Open(b, s)}
     ELSE {0}

CanDrive(c) == ~seen[c].on /\ PromiseOnly(local[c]) /\ Brief(c) # {}
               /\ Len(local[c]) < MaxCommits[BranchOf[c]]

\* drive: binding, item commits, completion assertion and result.
Drive(c) ==
  /\ CanDrive(c)
  /\ \E s \in Brief(c) : Appended(c, "work", s)
  /\ UNCHANGED <<series, remote, notes, seen, job, kills>>

\* An item fails: a branch that drive made is deleted, one that was there
\* keeps the items done so far.
DriveFails(c) ==
  /\ CanDrive(c) /\ Promised(local[c])
  /\ \E s \in Brief(c) : Appended(c, "part", s)
  /\ UNCHANGED <<series, remote, notes, seen, job, kills>>

\* A killed drive cleans nothing up.
DriveKilled(c) ==
  /\ CanDrive(c) /\ kills < MaxKills
  /\ kills' = kills + 1
  /\ \E s \in Brief(c) : Appended(c, "part", s)
  /\ UNCHANGED <<series, remote, notes, seen, job>>

\* Outside this code: the author fast-forwards the clone to the published branch.
Sync(c) ==
  /\ Synced /\ ~seen[c].on
  /\ IsStrictPrefix(local[c], remote[BranchOf[c]])
  /\ Author(remote[BranchOf[c]]) = FamilyOf[c]
  /\ local' = [local EXCEPT ![c] = remote[BranchOf[c]]]
  /\ UNCHANGED <<series, remote, notes, seen, job, kills>>

\* address_feedback: the repair of a blocked contribution.  The repair of a
\* producer needs its task binding, and is complete when the items were.  Its
\* result is generated anew from the same series commit and committed even when
\* that changes nothing; it changes when the repair had touched the file.
Feedback(c) ==
  LET b == BranchOf[c]
      whole == \E i \in DOMAIN local[c] : local[c][i].kind = "work"
  IN /\ ~seen[c].on /\ Len(local[c]) < MaxCommits[BranchOf[c]]
     /\ remote[b] # <<>> /\ Last(remote[b]).kind = "blocked" /\ Author(remote[b]) = FamilyOf[c]
     /\ local[c] # <<>> /\ Brief(c) # {}
     /\ b \in Producers => ~PromiseOnly(local[c])
     /\ \E s \in Brief(c) :
          \/ (b \in Producers => whole) /\ Appended(c, "fix", s)
          \/ b \in Producers /\ whole /\ Appended(c, "same", s)
          \/ b \in Producers /\ Appended(c, "part", s)   \* no assertion or result
     /\ UNCHANGED <<series, remote, notes, seen, job, kills>>

\* submit up to its reading of the published branch.
SubmitRead(c) ==
  /\ ~seen[c].on /\ ~PromiseOnly(local[c])
  /\ seen' = [seen EXCEPT ![c] = [on |-> TRUE, remote |-> remote[BranchOf[c]]]]
  /\ UNCHANGED <<series, remote, local, notes, job, kills>>

FastForwardsAlways(s, t) == TRUE  \* mutant: the ancestor check is dropped
FastForwards(s, t) == IsPrefix(s, t)

Leased(c) == remote[BranchOf[c]] = seen[c].remote

\* What submit answers: a create or an update is a push with a lease on what
\* was read, and a failed lease counts as a name that another family took.
Outcome(c) ==
  LET head == local[c]
      was == seen[c].remote
  IN CASE was = head -> "already_submitted"
       [] was # head /\ FastForwards(was, head) ->
            IF Leased(c) THEN "submitted" ELSE "branch_name_taken"
       [] OTHER ->
            IF Author(was) = FamilyOf[c] THEN "non_fast_forward" ELSE "branch_name_taken"

SubmitPush(c) ==
  /\ seen[c].on
  /\ seen' = [seen EXCEPT ![c] = NotSubmitting]
  /\ remote' = IF Outcome(c) = "submitted"
               THEN [remote EXCEPT ![BranchOf[c]] = local[c]] ELSE remote
  /\ UNCHANGED <<series, local, notes, job, kills>>

AuthorStep(c) == \/ Announce(c) \/ Drive(c) \/ DriveFails(c) \/ DriveKilled(c)
                 \/ Sync(c) \/ Feedback(c) \/ SubmitRead(c) \/ SubmitPush(c)
-----------------------------------------------------------------------------
(* The judge. *)

judgeVars == <<remote, notes>>
Submitted(b) == ~PromiseOnly(remote[b])
Sealed(b) == \E i \in DOMAIN notes : notes[i] = [branch |-> b, at |-> Len(remote[b])]
\* A tip that acceptance_pull passes over.
Settled(b) == IF b \in Producers THEN IsVerdict(Last(remote[b])) /\ Sealed(b)
              ELSE IsVerdict(Last(remote[b]))

\* acceptance_pull returns at the first branch that it does not pass over, and
\* before that at any submitted producer branch whose gate is closed.
AheadWithPromises(b) == {d \in Branches : d < b /\ remote[d] # <<>>}  \* mutant
Ahead(b) == {d \in Branches : d < b /\ Submitted(d)}
Pick(j) ==
  /\ job[j].at = "idle"
  /\ \E b \in Branches :
       /\ Submitted(b) /\ Open(b, Tip(b)) /\ ~Settled(b)
       /\ \A d \in Ahead(b) : Settled(d) /\ Open(d, Tip(d))
       /\ job' = [job EXCEPT ![j] = [at |-> "picked", branch |-> b, snap |-> Tip(b)]]
  /\ UNCHANGED <<series, judgeVars, kills, authorVars>>

\* prepare_claim_admission: the last commit that changed the result is the tip and
\* follows from a complete cohort, bound to the series commit that is still its tip.
Admissible(tip, snap) ==
  /\ Promised(tip) /\ tip[1].snap = snap
  /\ Last(tip).kind \in {"work", "fix"}

\* check freezes the tip, the series commit of the pick and the notes, and
\* rejects inexact claims without a trace; other branches are judged as they are.
Frozen(b, snap) == [at |-> "admitted", branch |-> b, snap |-> snap,
                    tip |-> remote[b], notes |-> notes]
Freeze(j) ==
  LET w == job[j]
      b == w.branch
  IN /\ w.at = "picked"
     /\ job' = [job EXCEPT ![j] =
          IF b \notin Producers \/ Admissible(remote[b], w.snap)
          THEN Frozen(b, w.snap) ELSE NoJob]
     /\ UNCHANGED <<series, judgeVars, kills, authorVars>>

\* A verdict on top of what was judged.  For a producer the branch, the notes
\* and the unchanged series go into one transaction of refs; otherwise the
\* branch is compared and swapped.  A lost race leaves no trace.
CurrentIgnoringNotes(b, w) == remote[b] = w.tip /\ (b \in Producers => Tip(b) = w.snap) \* mutant
CurrentIgnoringSeries(b, w) == remote[b] = w.tip /\ (b \in Producers => notes = w.notes) \* mutant
Current(b, w) == remote[b] = w.tip /\ (b \in Producers => Tip(b) = w.snap /\ notes = w.notes)

Publish(j) ==
  LET w == job[j]
      b == w.branch
  IN /\ w.at = "admitted"
     /\ job' = [job EXCEPT ![j] = NoJob]
     /\ \/ /\ Current(b, w)
           /\ \E verdict \in Verdicts :
                remote' = [remote EXCEPT ![b] =
                             Append(w.tip, [kind |-> verdict, by |-> "judge", snap |-> w.snap])]
           /\ notes' = IF b \in Producers
                       THEN Append(w.notes, [branch |-> b, at |-> Len(w.tip) + 1]) ELSE notes
        \/ ~Current(b, w) /\ UNCHANGED judgeVars
     /\ UNCHANGED <<series, kills, authorVars>>

\* A killed judge has written nothing that counts.
JudgeKilled(j) ==
  /\ job[j] # NoJob /\ kills < MaxKills
  /\ kills' = kills + 1
  /\ job' = [job EXCEPT ![j] = NoJob]
  /\ UNCHANGED <<series, judgeVars, authorVars>>

JudgeStep(j) == Pick(j) \/ Freeze(j) \/ Publish(j)

Next ==
  \/ \E b \in Branches : SeriesMoves(b)
  \/ \E c \in Clones : AuthorStep(c)
  \/ \E j \in Judges : JudgeStep(j) \/ JudgeKilled(j)

\* Whoever runs the judge calls acceptance_pull again and again.
Spec == Init /\ [][Next]_vars /\ \A j \in Judges : WF_vars(JudgeStep(j))
-----------------------------------------------------------------------------
(* Properties. *)

\* "Never rewrite a published contribution branch" (submission.py): authors
\* of other families, repairs and judges only ever append to what is there.
PublishedNeverRewritten == [][\A b \in Branches : IsPrefix(remote[b], remote'[b])]_vars

\* Verdicts and seals of producer branches come one to one: none is forged by
\* an author's push, and no judge's seal is lost to another judge's.
SealsMatch ==
  \A b \in Producers :
    /\ {i \in DOMAIN remote[b] : IsVerdict(remote[b][i])}
         = {notes[n].at : n \in {n \in DOMAIN notes : notes[n].branch = b}}
    /\ \A n, k \in DOMAIN notes : notes[n] = notes[k] => n = k

\* A verdict on a producer branch stands directly on a complete, changed result: never
\* on a partial repair or one that left the result as it was, on a verdict or promises.
VerdictFollowsResult ==
  \A b \in Producers : \A i \in DOMAIN remote[b] :
    IsVerdict(remote[b][i]) => i > 1 /\ remote[b][i - 1].kind \in {"work", "fix"}

\* A sealed verdict is about the series as it is when the verdict appears.
JudgedAtItsSource ==
  [][\A b \in Producers :
       remote'[b] # remote[b] /\ IsVerdict(Last(remote'[b])) => remote'[b][1].snap = Tip(b)]_vars

\* Everything submitted is judged in the end, unless a producer branch at or
\* before it stops the queue: its gate is closed or its tip not admissible, which
\* includes the repair that left the result as it was.
Stuck(b) == /\ b \in Producers /\ Submitted(b)
            /\ \/ ~Open(b, Tip(b))
               \/ ~Settled(b) /\ ~Admissible(remote[b], Tip(b))
Waiting(b) == /\ Submitted(b) /\ ~Settled(b)
              /\ \A d \in Branches : d <= b => ~Stuck(d)
JudgeSettles == \A b \in Branches : Waiting(b) ~> ~Waiting(b)
=============================================================================
