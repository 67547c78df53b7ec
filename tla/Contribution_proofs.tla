-------------------------- MODULE Contribution_proofs --------------------------
(***************************************************************************)
(* Proofs about Contribution, for any branches, clones, families, judges   *)
(* and bounds: published branches only grow, verdicts and seals of         *)
(* producer branches come one to one, and every such verdict stands on a   *)
(* complete result of the series as it is.                                 *)
(*                                                                         *)
(* The argument.  A push goes through when the branch is still what submit *)
(* read and what it read begins the pushed one (SubmitPushed), so branches *)
(* grow at their end.  Authors write no verdicts: whatever verdict a clone *)
(* has, it has from the published branch and at the same place             *)
(* (VerdictsShared), so no push can bring a new one.  Verdicts of producer *)
(* branches come from a judge alone, who admitted the very tip that the    *)
(* verdict is appended to (JudgedAdmissible) and appends its seal with it. *)
(***************************************************************************)
EXTENDS Contribution, SequenceTheorems, TLAPS

-----------------------------------------------------------------------------
(* Sequences. *)

\* What begins a branch is in it, at the same places.
LEMMA PrefixHas ==
  ASSUME NEW S, NEW s \in Seq(S), NEW t \in Seq(S), IsPrefix(s, t)
  PROVE  /\ Len(s) <= Len(t)
         /\ \A i \in DOMAIN s : i \in DOMAIN t /\ t[i] = s[i]
  <1>1. Len(s) <= Len(t) /\ SubSeq(s, 1, Len(s)) = SubSeq(t, 1, Len(s))  BY DEF IsPrefix
  <1>2. ASSUME NEW i \in DOMAIN s  PROVE i \in DOMAIN t /\ t[i] = s[i]
    <2>1. i \in 1..Len(s) /\ i \in 1..Len(t)  BY <1>1, <1>2
    <2>2. SubSeq(s, 1, Len(s))[i] = s[i] /\ SubSeq(t, 1, Len(s))[i] = t[i]  BY <1>1, <2>1
    <2> QED  BY <1>1, <2>1, <2>2
  <1> QED  BY <1>1, <1>2

\* The empty branch begins every branch, and every branch begins itself.
LEMMA PrefixSelf ==
  ASSUME NEW S, NEW s \in Seq(S)
  PROVE  IsPrefix(s, s) /\ IsPrefix(<<>>, s)
  <1>1. Len(<<>>) = 0 /\ SubSeq(<<>>, 1, 0) = <<>> /\ SubSeq(s, 1, 0) = <<>>  OBVIOUS
  <1>2. Len(<<>>) <= Len(s)  BY <1>1
  <1> QED  BY <1>1, <1>2 DEF IsPrefix

\* A branch begins what is appended to it.
LEMMA PrefixOfAppend ==
  ASSUME NEW S, NEW s \in Seq(S), NEW x \in S
  PROVE  IsPrefix(s, Append(s, x))
  <1>1. Len(s) <= Len(Append(s, x))  OBVIOUS
  <1>2. SubSeq(s, 1, Len(s)) = SubSeq(Append(s, x), 1, Len(s))  OBVIOUS
  <1> QED  BY <1>1, <1>2 DEF IsPrefix

-----------------------------------------------------------------------------
(* Types. *)

LEMMA InitTyped == Init => TypeOK
  <1> SUFFICES ASSUME Init PROVE TypeOK
    OBVIOUS
  <1>1. /\ series \in [Branches -> Seq(BOOLEAN)] /\ remote \in [Branches -> Seq(Commit)]
        /\ local \in [Clones -> Seq(Commit)] /\ notes \in Seq(Seal)
    BY DEF Init
  <1>2. kills \in 0..MaxKills  BY BoundsAssumption DEF Init
  <1>3. seen \in [Clones -> {NotSubmitting} \cup [on : {TRUE}, remote : Seq(Commit)]]
    BY DEF Init
  <1>4. job \in [Judges -> {NoJob} \cup Picked \cup Admitted]
    BY DEF Init
  <1> QED  BY <1>1, <1>2, <1>3, <1>4 DEF TypeOK

\* What an author appends to a clone's branch is a commit.
LEMMA AppendedTyped ==
  ASSUME TypeOK, NEW c \in Clones, NEW kind \in Kinds, NEW snap \in Nat, Appended(c, kind, snap)
  PROVE  local' \in [Clones -> Seq(Commit)]
  <1>1. [kind |-> kind, by |-> c, snap |-> snap] \in Commit  BY DEF Commit
  <1>2. local[c] \in Seq(Commit)  BY DEF TypeOK
  <1>3. Append(local[c], [kind |-> kind, by |-> c, snap |-> snap]) \in Seq(Commit)
    BY <1>1, <1>2
  <1> QED  BY <1>3 DEF Appended, TypeOK

LEMMA BriefTyped ==
  ASSUME NEW c \in Clones
  PROVE  Brief(c) \subseteq Nat
  <1>1. 1..Tip(BranchOf[c]) \subseteq Nat  OBVIOUS
  <1> QED  BY <1>1 DEF Brief

\* Commits to a series and what authors do.
LEMMA SeriesMovesTyped ==
  ASSUME TypeOK, NEW b \in Branches, SeriesMoves(b)
  PROVE  TypeOK'
  <1>1. series' \in [Branches -> Seq(BOOLEAN)]
    <2>1. PICK open \in BOOLEAN : series' = [series EXCEPT ![b] = Append(@, open)]
      BY DEF SeriesMoves
    <2>2. series[b] \in Seq(BOOLEAN)  BY DEF TypeOK
    <2>3. Append(series[b], open) \in Seq(BOOLEAN)  BY <2>2
    <2> QED  BY <2>1, <2>3 DEF TypeOK
  <1> QED  BY <1>1 DEF TypeOK, SeriesMoves, authorVars

LEMMA AnnounceTyped ==
  ASSUME TypeOK, NEW c \in Clones, Announce(c)
  PROVE  TypeOK'
  <1> DEFINE b == BranchOf[c]
  <1> DEFINE promise == [kind |-> "promise", by |-> c, snap |-> Tip(b)]
  <1>1. b \in Branches  BY ClonesAssumption
  <1>2. Tip(b) \in Nat  BY <1>1 DEF Tip, TypeOK
  <1>3. promise \in Commit  BY <1>2 DEF Commit, Kinds
  <1>4. <<promise>> \in Seq(Commit)  BY <1>3
  <1>5. remote' \in [Branches -> Seq(Commit)]
    <2>1. remote' = [remote EXCEPT ![b] = <<promise>>]  BY DEF Announce
    <2> QED  BY <1>4, <2>1 DEF TypeOK
  <1>6. local' \in [Clones -> Seq(Commit)] /\ kills' \in 0..MaxKills
    <2>1. \/ local' = [local EXCEPT ![c] = <<promise>>] /\ UNCHANGED kills
          \/ kills < MaxKills /\ kills' = kills + 1 /\ UNCHANGED local
      BY DEF Announce
    <2>2. local \in [Clones -> Seq(Commit)] /\ kills \in 0..MaxKills  BY DEF TypeOK
    <2>3. CASE local' = [local EXCEPT ![c] = <<promise>>] /\ UNCHANGED kills
      BY <1>4, <2>2, <2>3
    <2>4. CASE kills < MaxKills /\ kills' = kills + 1 /\ UNCHANGED local
      BY <2>2, <2>4, BoundsAssumption
    <2> QED  BY <2>1, <2>3, <2>4
  <1> QED  BY <1>5, <1>6 DEF TypeOK, Announce

\* Implementation, whole or in part, and repair.
LEMMA DriveTyped ==
  ASSUME TypeOK, NEW c \in Clones,
         Drive(c) \/ DriveFails(c) \/ DriveKilled(c) \/ Feedback(c) \/ Sync(c)
  PROVE  TypeOK'
  <1>1. local' \in [Clones -> Seq(Commit)]
    <2>1. CASE Drive(c)  BY <2>1, AppendedTyped, BriefTyped DEF Drive, Kinds
    <2>2. CASE DriveFails(c)  BY <2>2, AppendedTyped, BriefTyped DEF DriveFails, Kinds
    <2>3. CASE DriveKilled(c)  BY <2>3, AppendedTyped, BriefTyped DEF DriveKilled, Kinds
    <2>4. CASE Feedback(c)  BY <2>4, AppendedTyped, BriefTyped DEF Feedback, Kinds
    <2>5. CASE Sync(c)
      <3>1. remote[BranchOf[c]] \in Seq(Commit)  BY ClonesAssumption DEF TypeOK
      <3> QED  BY <2>5, <3>1 DEF Sync, TypeOK
    <2> QED  BY <2>1, <2>2, <2>3, <2>4, <2>5
  <1>2. kills' \in 0..MaxKills
    BY BoundsAssumption DEF TypeOK, Drive, DriveFails, DriveKilled, Feedback, Sync
  <1>3. UNCHANGED <<series, remote, notes, seen, job>>
    BY DEF Drive, DriveFails, DriveKilled, Feedback, Sync
  <1> QED  BY <1>1, <1>2, <1>3 DEF TypeOK

LEMMA SubmitTyped ==
  ASSUME TypeOK, NEW c \in Clones, SubmitRead(c) \/ SubmitPush(c)
  PROVE  TypeOK'
  <1> DEFINE b == BranchOf[c]
  <1>1. b \in Branches  BY ClonesAssumption
  <1>2. remote[b] \in Seq(Commit) /\ local[c] \in Seq(Commit)  BY <1>1 DEF TypeOK
  <1>3. seen' \in [Clones -> {NotSubmitting} \cup [on : {TRUE}, remote : Seq(Commit)]]
    <2>1. \/ seen' = [seen EXCEPT ![c] = [on |-> TRUE, remote |-> remote[b]]]
          \/ seen' = [seen EXCEPT ![c] = NotSubmitting]
      BY DEF SubmitRead, SubmitPush
    <2>2. [on |-> TRUE, remote |-> remote[b]] \in [on : {TRUE}, remote : Seq(Commit)]
      BY <1>2
    <2> QED  BY <2>1, <2>2 DEF TypeOK
  <1>4. remote' \in [Branches -> Seq(Commit)]
    <2>1. remote' = remote \/ remote' = [remote EXCEPT ![b] = local[c]]
      BY DEF SubmitRead, SubmitPush
    <2> QED  BY <1>2, <2>1 DEF TypeOK
  <1>5. UNCHANGED <<series, local, notes, job, kills>>  BY DEF SubmitRead, SubmitPush
  <1> QED  BY <1>3, <1>4, <1>5 DEF TypeOK

\* The judge.
LEMMA PickTyped ==
  ASSUME TypeOK, NEW j \in Judges, Pick(j)
  PROVE  TypeOK'
  <1>1. PICK b \in Branches :
          job' = [job EXCEPT ![j] = [at |-> "picked", branch |-> b, snap |-> Tip(b)]]
    BY DEF Pick
  <1>2. Tip(b) \in Nat  BY DEF Tip, TypeOK
  <1>3. [at |-> "picked", branch |-> b, snap |-> Tip(b)] \in Picked  BY <1>2 DEF Picked
  <1>4. job' \in [Judges -> {NoJob} \cup Picked \cup Admitted]  BY <1>1, <1>3 DEF TypeOK
  <1> QED  BY <1>4 DEF TypeOK, Pick, judgeVars, authorVars

\* The fields that a job has at each of its places.
LEMMA JobFields ==
  ASSUME TypeOK, NEW j \in Judges
  PROVE  /\ job[j].at = "picked" => job[j].branch \in Branches /\ job[j].snap \in Nat
         /\ job[j].at = "admitted" =>
              /\ job[j].branch \in Branches /\ job[j].snap \in Nat
              /\ job[j].tip \in Seq(Commit) /\ job[j].notes \in Seq(Seal)
  <1>1. job[j] \in {NoJob} \cup Picked \cup Admitted  BY DEF TypeOK
  <1>2. CASE job[j] = NoJob  BY <1>2 DEF NoJob
  <1>3. CASE job[j] \in Picked  BY <1>3 DEF Picked
  <1>4. CASE job[j] \in Admitted  BY <1>4 DEF Admitted
  <1> QED  BY <1>1, <1>2, <1>3, <1>4

LEMMA FreezeTyped ==
  ASSUME TypeOK, NEW j \in Judges, Freeze(j)
  PROVE  TypeOK'
  <1> DEFINE b == job[j].branch
  <1>1. b \in Branches /\ job[j].snap \in Nat  BY JobFields DEF Freeze
  <1>2. Frozen(b, job[j].snap) \in Admitted
    BY <1>1 DEF Frozen, Admitted, TypeOK
  <1>3. job' = [job EXCEPT ![j] = Frozen(b, job[j].snap)] \/ job' = [job EXCEPT ![j] = NoJob]
    BY DEF Freeze
  <1>4. job' \in [Judges -> {NoJob} \cup Picked \cup Admitted]  BY <1>2, <1>3 DEF TypeOK
  <1> QED  BY <1>4 DEF TypeOK, Freeze, judgeVars, authorVars

LEMMA PublishTyped ==
  ASSUME TypeOK, NEW j \in Judges, Publish(j)
  PROVE  TypeOK'
  <1> DEFINE w == job[j]
             b == w.branch
             verdictCommit(v) == [kind |-> v, by |-> "judge", snap |-> w.snap]
             seal == [branch |-> b, at |-> Len(w.tip) + 1]
  <1>1. /\ b \in Branches /\ w.snap \in Nat
        /\ w.tip \in Seq(Commit) /\ w.notes \in Seq(Seal)
    BY JobFields DEF Publish
  <1>2. ASSUME NEW v \in Verdicts  PROVE Append(w.tip, verdictCommit(v)) \in Seq(Commit)
    <2>1. verdictCommit(v) \in Commit  BY <1>1, <1>2 DEF Commit, Kinds
    <2> HIDE DEF verdictCommit
    <2> QED  BY <1>1, <2>1
  <1>3. Append(w.notes, seal) \in Seq(Seal)
    <2>1. seal \in Seal  BY <1>1 DEF Seal
    <2> HIDE DEF seal
    <2> QED  BY <1>1, <2>1
  <1>4. remote' \in [Branches -> Seq(Commit)]
    <2>1. \/ \E v \in Verdicts : remote' = [remote EXCEPT ![b] = Append(w.tip, verdictCommit(v))]
          \/ remote' = remote
      BY DEF Publish, judgeVars
    <2> HIDE DEF verdictCommit
    <2> QED  BY <1>1, <1>2, <2>1 DEF TypeOK
  <1>5. notes' \in Seq(Seal)
    <2>1. notes' = Append(w.notes, seal) \/ notes' = notes  BY DEF Publish, judgeVars
    <2> QED  BY <1>3, <2>1 DEF TypeOK
  <1>6. job' \in [Judges -> {NoJob} \cup Picked \cup Admitted]  BY DEF Publish, TypeOK
  <1> QED  BY <1>4, <1>5, <1>6 DEF TypeOK, Publish, authorVars

LEMMA JudgeKilledTyped ==
  ASSUME TypeOK, NEW j \in Judges, JudgeKilled(j)
  PROVE  TypeOK'
  <1>1. job' \in [Judges -> {NoJob} \cup Picked \cup Admitted]  BY DEF JudgeKilled, TypeOK
  <1>2. kills' \in 0..MaxKills  BY BoundsAssumption DEF JudgeKilled, TypeOK
  <1> QED  BY <1>1, <1>2 DEF TypeOK, JudgeKilled, judgeVars, authorVars

LEMMA NextTyped == TypeOK /\ [Next]_vars => TypeOK'
  <1> SUFFICES ASSUME TypeOK, [Next]_vars PROVE TypeOK'
    OBVIOUS
  <1>1. ASSUME NEW b \in Branches, SeriesMoves(b) PROVE TypeOK'  BY <1>1, SeriesMovesTyped
  <1>2. ASSUME NEW c \in Clones, AuthorStep(c) PROVE TypeOK'
    BY <1>2, AnnounceTyped, DriveTyped, SubmitTyped DEF AuthorStep
  <1>3. ASSUME NEW j \in Judges, JudgeStep(j) PROVE TypeOK'
    BY <1>3, PickTyped, FreezeTyped, PublishTyped DEF JudgeStep
  <1>4. ASSUME NEW j \in Judges, JudgeKilled(j) PROVE TypeOK'  BY <1>4, JudgeKilledTyped
  <1>5. CASE UNCHANGED vars  BY <1>5 DEF vars, authorVars, TypeOK
  <1> QED  BY <1>1, <1>2, <1>3, <1>4, <1>5 DEF Next

\* Type correctness: branches, clones, notes and jobs are what their
\* comments say, for any constants.
THEOREM TypeCorrect == Spec => []TypeOK
  BY InitTyped, NextTyped, PTL DEF Spec

-----------------------------------------------------------------------------
(* Published branches only grow. *)

\* A push that goes through extends the published branch by what is new.
LEMMA SubmitPushed ==
  ASSUME TypeOK, NEW c \in Clones, SubmitPush(c)
  PROVE  \/ UNCHANGED remote
         \/ /\ remote' = [remote EXCEPT ![BranchOf[c]] = local[c]]
            /\ remote[BranchOf[c]] # local[c]
            /\ IsPrefix(remote[BranchOf[c]], local[c])
  <1>1. CASE Outcome(c) # "submitted"  BY <1>1 DEF SubmitPush
  <1>2. CASE Outcome(c) = "submitted"
    <2>1. /\ seen[c].remote # local[c] /\ FastForwards(seen[c].remote, local[c])
          /\ Leased(c)
      BY <1>2 DEF Outcome
    <2>2. seen[c].remote = remote[BranchOf[c]]  BY <2>1 DEF Leased
    <2> QED  BY <1>2, <2>1, <2>2 DEF SubmitPush, FastForwards
  <1> QED  BY <1>1, <1>2

\* A judge appends one verdict to the branch as it is.
LEMMA Published ==
  ASSUME TypeOK, NEW j \in Judges, Publish(j)
  PROVE  \/ UNCHANGED <<remote, notes>>
         \/ LET w == job[j]
                b == w.branch
            IN /\ w.at = "admitted" /\ remote[b] = w.tip
               /\ b \in Producers => Tip(b) = w.snap /\ notes = w.notes
               /\ \E v \in Verdicts :
                    remote' = [remote EXCEPT ![b] =
                      Append(remote[b], [kind |-> v, by |-> "judge", snap |-> w.snap])]
               /\ notes' = IF b \in Producers
                           THEN Append(notes, [branch |-> b, at |-> Len(remote[b]) + 1])
                           ELSE notes
  BY DEF Publish, Current, judgeVars

\* Whoever changes a published branch appends to it.
LEMMA OnlyGrows ==
  ASSUME TypeOK, Next, NEW b \in Branches
  PROVE  IsPrefix(remote[b], remote'[b])
  <1>1. remote[b] \in Seq(Commit)  BY DEF TypeOK
  <1>2. CASE remote'[b] = remote[b]  BY <1>1, <1>2, PrefixSelf
  <1>3. ASSUME NEW c \in Clones, Announce(c), remote'[b] # remote[b]
        PROVE  IsPrefix(remote[b], remote'[b])
    <2>1. b = BranchOf[c] /\ remote[b] = <<>>  BY <1>3 DEF Announce, TypeOK
    <2>2. remote'[b] \in Seq(Commit)  BY <1>3, AnnounceTyped DEF TypeOK
    <2> QED  BY <2>1, <2>2, PrefixSelf
  <1>4. ASSUME NEW c \in Clones, SubmitPush(c), remote'[b] # remote[b]
        PROVE  IsPrefix(remote[b], remote'[b])
    BY <1>4, SubmitPushed DEF TypeOK
  <1>5. ASSUME NEW j \in Judges, Publish(j), remote'[b] # remote[b]
        PROVE  IsPrefix(remote[b], remote'[b])
    <2>1. PICK v \in Verdicts :
            remote' = [remote EXCEPT ![job[j].branch] =
              Append(remote[job[j].branch], [kind |-> v, by |-> "judge", snap |-> job[j].snap])]
      BY <1>5, Published
    <2>2. b = job[j].branch  BY <1>5, <2>1 DEF TypeOK
    <2>3. remote'[b] = Append(remote[b], [kind |-> v, by |-> "judge", snap |-> job[j].snap])
      BY <2>1, <2>2 DEF TypeOK
    <2>4. [kind |-> v, by |-> "judge", snap |-> job[j].snap] \in Commit
      BY <1>5, JobFields DEF Publish, Commit, Kinds
    <2> QED  BY <1>1, <2>3, <2>4, PrefixOfAppend
  <1>6. CASE UNCHANGED remote  BY <1>2, <1>6
  <1> QED  BY <1>2, <1>3, <1>4, <1>5, <1>6
           DEF Next, AuthorStep, JudgeStep, SeriesMoves, Drive, DriveFails, DriveKilled, Sync,
               Feedback, SubmitRead, Pick, Freeze, JudgeKilled, judgeVars

\* "Never rewrite a published contribution branch": whatever the name races
\* between families, repairs in stale clones and judges that were overtaken,
\* a published branch only ever gets commits at its end.
THEOREM NeverRewritten == Spec => PublishedNeverRewritten
  <1>1. TypeOK /\ [Next]_vars => [\A b \in Branches : IsPrefix(remote[b], remote'[b])]_vars
    BY OnlyGrows
  <1> QED  BY <1>1, TypeCorrect, PTL DEF Spec, PublishedNeverRewritten

-----------------------------------------------------------------------------
(* Verdicts and seals of producer branches. *)

\* Authors write no verdicts: the ones in a clone are published ones.
VerdictsShared ==
  \A c \in Clones : \A i \in DOMAIN local[c] :
    IsVerdict(local[c][i]) =>
      i \in DOMAIN remote[BranchOf[c]] /\ remote[BranchOf[c]][i] = local[c][i]

\* A judge that asks the referee has admitted the tip it asks about.
JudgedAdmissible ==
  \A j \in Judges :
    job[j].at = "admitted" /\ job[j].branch \in Producers =>
      Admissible(job[j].tip, job[j].snap)

VerdictsSealed ==
  \A b \in Producers : \A i \in DOMAIN remote[b] :
    IsVerdict(remote[b][i]) => \E n \in DOMAIN notes : notes[n] = [branch |-> b, at |-> i]
SealsOfVerdicts ==
  \A n \in DOMAIN notes :
    /\ notes[n].branch \in Producers
    /\ notes[n].at \in DOMAIN remote[notes[n].branch]
    /\ IsVerdict(remote[notes[n].branch][notes[n].at])
SealsOnce == \A n, k \in DOMAIN notes : notes[n] = notes[k] => n = k
Seals == VerdictsSealed /\ SealsOfVerdicts /\ SealsOnce

Inv == /\ TypeOK /\ VerdictsShared /\ JudgedAdmissible
       /\ Seals /\ VerdictFollowsResult

\* No push publishes a verdict that was not there.
LEMMA PushBringsNoVerdict ==
  ASSUME TypeOK, VerdictsShared, NEW c \in Clones, NEW b \in Branches,
         Announce(c) \/ SubmitPush(c)
  PROVE  /\ Len(remote[b]) <= Len(remote'[b])
         /\ \A i \in DOMAIN remote[b] : i \in DOMAIN remote'[b] /\ remote'[b][i] = remote[b][i]
         /\ \A i \in DOMAIN remote'[b] : IsVerdict(remote'[b][i]) => i \in DOMAIN remote[b]
  <1>1. remote[b] \in Seq(Commit) /\ remote[BranchOf[c]] \in Seq(Commit)
        /\ local[c] \in Seq(Commit)
    BY ClonesAssumption DEF TypeOK
  <1>2. CASE remote'[b] = remote[b]  BY <1>1, <1>2
  <1>3. CASE Announce(c) /\ remote'[b] # remote[b]
    <2> DEFINE promise == [kind |-> "promise", by |-> c, snap |-> Tip(b)]
    <2>1. remote[b] = <<>> /\ remote'[b] = <<promise>>  BY <1>3 DEF Announce, TypeOK
    <2>2. ~IsVerdict(promise)  BY DEF IsVerdict, Verdicts
    <2> HIDE DEF promise
    <2>3. DOMAIN remote[b] = {} /\ DOMAIN remote'[b] = {1} /\ remote'[b][1] = promise
      BY <2>1
    <2>4. Len(remote[b]) = 0 /\ Len(remote'[b]) = 1  BY <2>1
    <2> QED  BY <2>2, <2>3, <2>4
  <1>4. CASE SubmitPush(c) /\ remote'[b] # remote[b]
    <2>0. remote \in [Branches -> Seq(Commit)]  BY DEF TypeOK
    <2>1. /\ b = BranchOf[c] /\ remote'[b] = local[c]
          /\ IsPrefix(remote[b], local[c])
      <3>1. /\ remote' = [remote EXCEPT ![BranchOf[c]] = local[c]]
            /\ IsPrefix(remote[BranchOf[c]], local[c])
        BY <1>4, SubmitPushed
      <3>2. b = BranchOf[c]  BY <1>4, <2>0, <3>1
      <3> QED  BY <2>0, <3>1, <3>2
    <2>2. /\ Len(remote[b]) <= Len(local[c])
          /\ \A i \in DOMAIN remote[b] : i \in DOMAIN local[c] /\ local[c][i] = remote[b][i]
      BY <1>1, <2>1, PrefixHas
    <2>3. \A i \in DOMAIN local[c] : IsVerdict(local[c][i]) => i \in DOMAIN remote[b]
      BY <2>1 DEF VerdictsShared
    <2> QED  BY <2>1, <2>2, <2>3
  <1> QED  BY <1>2, <1>3, <1>4

\* What a judge publishes is one verdict, after all that was there.
LEMMA PublishBringsOne ==
  ASSUME TypeOK, NEW j \in Judges, Publish(j), remote' # remote
  PROVE  LET b == job[j].branch
             n == Len(remote[b]) + 1
         IN /\ b \in Branches /\ job[j].at = "admitted" /\ remote[b] = job[j].tip
            /\ \A d \in Branches : d # b => remote'[d] = remote[d]
            /\ DOMAIN remote'[b] = 1..n
            /\ \A i \in 1..Len(remote[b]) : remote'[b][i] = remote[b][i]
            /\ IsVerdict(remote'[b][n])
            /\ b \in Producers => /\ Tip(b) = job[j].snap
                                  /\ notes' = Append(notes, [branch |-> b, at |-> n])
            /\ b \notin Producers => notes' = notes
  <1> DEFINE b == job[j].branch
  <1>1. b \in Branches /\ job[j].snap \in Nat  BY JobFields DEF Publish
  <1>2. remote[b] \in Seq(Commit)  BY <1>1 DEF TypeOK
  <1>3. /\ job[j].at = "admitted" /\ remote[b] = job[j].tip
        /\ b \in Producers => /\ Tip(b) = job[j].snap
                              /\ notes' = Append(notes, [branch |-> b, at |-> Len(remote[b]) + 1])
        /\ b \notin Producers => notes' = notes
    BY Published
  <1>4. PICK v \in Verdicts :
          remote' = [remote EXCEPT ![b] =
            Append(remote[b], [kind |-> v, by |-> "judge", snap |-> job[j].snap])]
    BY Published
  <1> DEFINE x == [kind |-> v, by |-> "judge", snap |-> job[j].snap]
  <1>5. IsVerdict(x)  BY DEF IsVerdict
  <1>6. x \in Commit  BY <1>1 DEF Commit, Kinds
  <1> HIDE DEF x
  <1>7. remote' = [remote EXCEPT ![b] = Append(remote[b], x)]  BY <1>4 DEF x
  <1>8. remote'[b] = Append(remote[b], x) /\ \A d \in Branches : d # b => remote'[d] = remote[d]
    BY <1>1, <1>7 DEF TypeOK
  <1>9. /\ DOMAIN Append(remote[b], x) = 1..Len(remote[b]) + 1
        /\ \A i \in 1..Len(remote[b]) : Append(remote[b], x)[i] = remote[b][i]
        /\ Append(remote[b], x)[Len(remote[b]) + 1] = x
    BY <1>2, <1>6
  <1> QED  BY <1>1, <1>3, <1>5, <1>8, <1>9

\* An author's own commits are no verdicts, and leave the others alone.
LEMMA AppendedShared ==
  ASSUME TypeOK, VerdictsShared, NEW c \in Clones, UNCHANGED remote,
         NEW kind \in Kinds \ Verdicts, NEW snap \in Nat, Appended(c, kind, snap)
  PROVE  VerdictsShared'
  <1> DEFINE x == [kind |-> kind, by |-> c, snap |-> snap]
  <1>1. ~IsVerdict(x) /\ x \in Commit  BY DEF IsVerdict, Commit
  <1>2. local' = [local EXCEPT ![c] = Append(local[c], x)]  BY DEF Appended
  <1> HIDE DEF x
  <1> SUFFICES ASSUME NEW d \in Clones, NEW i \in DOMAIN local'[d], IsVerdict(local'[d][i])
               PROVE  i \in DOMAIN remote[BranchOf[d]]
                      /\ remote[BranchOf[d]][i] = local'[d][i]
    BY DEF VerdictsShared, IsVerdict
  <1>3. CASE d # c
    <2>1. local'[d] = local[d]  BY <1>2, <1>3 DEF TypeOK
    <2> QED  BY <2>1 DEF VerdictsShared
  <1>4. CASE d = c
    <2>1. local[d] \in Seq(Commit) /\ local'[d] = Append(local[d], x)
      BY <1>2, <1>4 DEF TypeOK
    <2>2. i # Len(local[d]) + 1  BY <1>1, <2>1
    <2>3. i \in DOMAIN local[d] /\ local'[d][i] = local[d][i]  BY <1>1, <2>1, <2>2
    <2> QED  BY <2>3 DEF VerdictsShared
  <1> QED  BY <1>3, <1>4

\* Where the branches keep what they had, the clones' verdicts stay shared.
LEMMA GrowthShared ==
  ASSUME TypeOK, VerdictsShared, UNCHANGED local,
         \A b \in Branches : \A i \in DOMAIN remote[b] :
                     i \in DOMAIN remote'[b] /\ remote'[b][i] = remote[b][i]
  PROVE  VerdictsShared'
  BY ClonesAssumption DEF VerdictsShared, IsVerdict

LEMMA SharedNext ==
  ASSUME TypeOK, VerdictsShared, Next
  PROVE  VerdictsShared'
  <1>1. ASSUME NEW c \in Clones, Announce(c)  PROVE VerdictsShared'
    <2> DEFINE promise == [kind |-> "promise", by |-> c, snap |-> Tip(BranchOf[c])]
    <2>1. ~IsVerdict(promise)  BY DEF IsVerdict, Verdicts
    <2>2. local' = [local EXCEPT ![c] = <<promise>>] \/ local' = local  BY <1>1 DEF Announce
    <2> HIDE DEF promise
    <2> SUFFICES ASSUME NEW d \in Clones, NEW i \in DOMAIN local'[d], IsVerdict(local'[d][i])
                 PROVE  i \in DOMAIN remote'[BranchOf[d]]
                        /\ remote'[BranchOf[d]][i] = local'[d][i]
      BY DEF VerdictsShared, IsVerdict
    <2>3. BranchOf[d] \in Branches  BY ClonesAssumption
    <2>4. local'[d] = local[d]
      <3>1. CASE local'[d] = <<promise>>
        <4>1. i = 1 /\ local'[d][i] = promise  BY <3>1
        <4> QED  BY <2>1, <4>1
      <3> QED  BY <2>2, <3>1 DEF TypeOK
    <2>5. i \in DOMAIN remote[BranchOf[d]] /\ remote[BranchOf[d]][i] = local[d][i]
      BY <2>4 DEF VerdictsShared
    <2> QED  BY <1>1, <2>3, <2>4, <2>5, PushBringsNoVerdict
  <1>2. ASSUME NEW c \in Clones, Drive(c) \/ DriveFails(c) \/ DriveKilled(c) \/ Feedback(c)
        PROVE  VerdictsShared'
    <2>1. UNCHANGED remote  BY <1>2 DEF Drive, DriveFails, DriveKilled, Feedback
    <2>2. \E kind \in Kinds \ Verdicts, snap \in Nat : Appended(c, kind, snap)
      <3>1. {"part", "work", "fix", "same"} \subseteq Kinds \ Verdicts  BY DEF Kinds, Verdicts
      <3>2. \E kind \in {"part", "work", "fix", "same"}, snap \in Brief(c) : Appended(c, kind, snap)
        BY <1>2 DEF Drive, DriveFails, DriveKilled, Feedback
      <3> QED  BY <3>1, <3>2, BriefTyped
    <2> QED  BY <2>1, <2>2, AppendedShared
  <1>3. ASSUME NEW c \in Clones, Sync(c)  PROVE VerdictsShared'
    <2>1. UNCHANGED remote /\ local' = [local EXCEPT ![c] = remote[BranchOf[c]]]
      BY <1>3 DEF Sync
    <2> QED  BY <2>1 DEF VerdictsShared, TypeOK, IsVerdict
  <1>4. ASSUME NEW c \in Clones, SubmitPush(c)  PROVE VerdictsShared'
    <2>1. UNCHANGED local  BY <1>4 DEF SubmitPush
    <2> QED  BY <1>4, <2>1, PushBringsNoVerdict, GrowthShared
  <1>5. ASSUME NEW j \in Judges, Publish(j)  PROVE VerdictsShared'
    <2>1. UNCHANGED local  BY <1>5 DEF Publish, authorVars
    <2>2. CASE remote' = remote  BY <2>1, <2>2 DEF VerdictsShared, IsVerdict
    <2>3. CASE remote' # remote
      <3>1. \A b \in Branches : \A i \in DOMAIN remote[b] :
              i \in DOMAIN remote'[b] /\ remote'[b][i] = remote[b][i]
        <4> SUFFICES ASSUME NEW b \in Branches, NEW i \in DOMAIN remote[b]
                     PROVE  i \in DOMAIN remote'[b] /\ remote'[b][i] = remote[b][i]
          OBVIOUS
        <4>1. remote[b] \in Seq(Commit)  BY DEF TypeOK
        <4>2. CASE b # job[j].branch  BY <1>5, <2>3, <4>2, PublishBringsOne
        <4>3. CASE b = job[j].branch
          <5>1. /\ DOMAIN remote'[b] = 1..Len(remote[b]) + 1
                /\ \A k \in 1..Len(remote[b]) : remote'[b][k] = remote[b][k]
            BY <1>5, <2>3, <4>3, PublishBringsOne
          <5>2. i \in 1..Len(remote[b]) /\ Len(remote[b]) \in Nat  BY <4>1
          <5> QED  BY <5>1, <5>2
        <4> QED  BY <4>2, <4>3
      <3> QED  BY <2>1, <3>1, GrowthShared
    <2> QED  BY <2>2, <2>3
  <1>6. CASE UNCHANGED <<remote, local>>  BY <1>6 DEF VerdictsShared, IsVerdict
  <1> QED  BY <1>1, <1>2, <1>3, <1>4, <1>5, <1>6
           DEF Next, AuthorStep, JudgeStep, SeriesMoves, SubmitRead, Pick, Freeze, JudgeKilled,
               judgeVars, authorVars

LEMMA AdmissibleNext ==
  ASSUME TypeOK, JudgedAdmissible, Next
  PROVE  JudgedAdmissible'
  <1>1. ASSUME NEW j \in Judges, Pick(j)  PROVE JudgedAdmissible'
    <2>1. PICK b \in Branches :
            job' = [job EXCEPT ![j] = [at |-> "picked", branch |-> b, snap |-> Tip(b)]]
      BY <1>1 DEF Pick
    <2> QED  BY <2>1 DEF JudgedAdmissible, TypeOK, Admissible, Promised
  <1>2. ASSUME NEW j \in Judges, Freeze(j)  PROVE JudgedAdmissible'
    <2> DEFINE b == job[j].branch
               w == job[j]
    <2>1. \/ /\ b \notin Producers \/ Admissible(remote[b], w.snap)
             /\ job' = [job EXCEPT ![j] = Frozen(b, w.snap)]
          \/ job' = [job EXCEPT ![j] = NoJob]
      BY <1>2 DEF Freeze
    <2>2. CASE job' = [job EXCEPT ![j] = NoJob]
      BY <2>2 DEF JudgedAdmissible, TypeOK, NoJob, Admissible, Promised
    <2>3. CASE /\ b \notin Producers \/ Admissible(remote[b], w.snap)
               /\ job' = [job EXCEPT ![j] = Frozen(b, w.snap)]
      <3>1. /\ Frozen(b, w.snap).branch = b /\ Frozen(b, w.snap).tip = remote[b]
            /\ Frozen(b, w.snap).snap = w.snap
        BY DEF Frozen
      <3> QED  BY <2>3, <3>1 DEF JudgedAdmissible, TypeOK, Admissible, Promised
    <2> QED  BY <2>1, <2>2, <2>3
  <1>3. ASSUME NEW j \in Judges, Publish(j) \/ JudgeKilled(j)  PROVE JudgedAdmissible'
    <2>1. job' = [job EXCEPT ![j] = NoJob]  BY <1>3 DEF Publish, JudgeKilled
    <2> QED  BY <2>1 DEF JudgedAdmissible, TypeOK, NoJob, Admissible, Promised
  <1>4. CASE UNCHANGED job  BY <1>4 DEF JudgedAdmissible, Admissible, Promised
  <1> QED  BY <1>1, <1>2, <1>3, <1>4
           DEF Next, AuthorStep, JudgeStep, SeriesMoves, Announce, Drive, DriveFails,
               DriveKilled, Sync, Feedback, SubmitRead, SubmitPush

\* A push leaves verdicts and seals as they are.
LEMMA PushSeals ==
  ASSUME TypeOK, VerdictsShared, Seals, NEW c \in Clones, Announce(c) \/ SubmitPush(c)
  PROVE  Seals'
  <1>1. UNCHANGED notes  BY DEF Announce, SubmitPush
  <1>2. VerdictsSealed'
    <2> SUFFICES ASSUME NEW b \in Producers, NEW i \in DOMAIN remote'[b], IsVerdict(remote'[b][i])
                 PROVE  \E n \in DOMAIN notes : notes[n] = [branch |-> b, at |-> i]
      BY <1>1 DEF VerdictsSealed, IsVerdict
    <2>1. b \in Branches  BY BranchesAssumption
    <2>2. i \in DOMAIN remote[b] /\ remote'[b][i] = remote[b][i]
      BY <2>1, PushBringsNoVerdict
    <2> QED  BY <2>2 DEF Seals, VerdictsSealed
  <1>3. SealsOfVerdicts'
    <2> SUFFICES ASSUME NEW n \in DOMAIN notes
                 PROVE  /\ notes[n].branch \in Producers
                        /\ notes[n].at \in DOMAIN remote'[notes[n].branch]
                        /\ IsVerdict(remote'[notes[n].branch][notes[n].at])
      BY <1>1 DEF SealsOfVerdicts, IsVerdict
    <2>1. /\ notes[n].branch \in Producers
          /\ notes[n].at \in DOMAIN remote[notes[n].branch]
          /\ IsVerdict(remote[notes[n].branch][notes[n].at])
      BY DEF Seals, SealsOfVerdicts
    <2>2. notes[n].branch \in Branches  BY <2>1, BranchesAssumption
    <2> QED  BY <2>1, <2>2, PushBringsNoVerdict
  <1>4. SealsOnce'  BY <1>1 DEF Seals, SealsOnce
  <1> QED  BY <1>2, <1>3, <1>4 DEF Seals

\* A judge's verdict brings its seal.
LEMMA PublishSeals ==
  ASSUME TypeOK, Seals, NEW j \in Judges, Publish(j)
  PROVE  Seals'
  <1>1. CASE remote' = remote
    <2>1. notes' = notes
      <3>1. CASE UNCHANGED <<remote, notes>>  BY <3>1
      <3>2. CASE ~UNCHANGED <<remote, notes>>
        <4>1. job[j].branch \in Branches  BY JobFields DEF Publish
        <4>2. remote[job[j].branch] \in Seq(Commit)  BY <4>1 DEF TypeOK
        <4>3. PICK v \in Verdicts :
                remote' = [remote EXCEPT ![job[j].branch] =
                  Append(remote[job[j].branch], [kind |-> v, by |-> "judge", snap |-> job[j].snap])]
          BY <3>2, Published
        <4>4. remote'[job[j].branch] =
                Append(remote[job[j].branch], [kind |-> v, by |-> "judge", snap |-> job[j].snap])
          BY <4>1, <4>3 DEF TypeOK
        <4>5. [kind |-> v, by |-> "judge", snap |-> job[j].snap] \in Commit
          BY JobFields DEF Publish, Commit, Kinds
        <4>6. Len(remote'[job[j].branch]) = Len(remote[job[j].branch]) + 1
          BY <4>2, <4>4, <4>5
        <4>7. Len(remote[job[j].branch]) \in Nat  BY <4>2
        <4> QED  BY <1>1, <4>6, <4>7
      <3> QED  BY <3>1, <3>2
    <2> QED  BY <1>1, <2>1 DEF Seals, VerdictsSealed, SealsOfVerdicts, SealsOnce, IsVerdict
  <1>2. CASE remote' # remote
    <2> DEFINE b == job[j].branch
               n == Len(remote[b]) + 1
               seal == [branch |-> b, at |-> n]
    <2>1. /\ b \in Branches
          /\ \A d \in Branches : d # b => remote'[d] = remote[d]
          /\ DOMAIN remote'[b] = 1..n
          /\ \A i \in 1..Len(remote[b]) : remote'[b][i] = remote[b][i]
          /\ IsVerdict(remote'[b][n])
          /\ b \in Producers => notes' = Append(notes, seal)
          /\ b \notin Producers => notes' = notes
      BY <1>2, PublishBringsOne
    <2>2. remote[b] \in Seq(Commit) /\ Len(remote[b]) \in Nat /\ DOMAIN remote[b] = 1..Len(remote[b])
      BY <2>1 DEF TypeOK
    <2>3. CASE b \notin Producers
      <3>1. notes' = notes /\ \A d \in Producers : remote'[d] = remote[d]
        BY <2>1, <2>3, BranchesAssumption
      <3> QED  BY <3>1 DEF Seals, VerdictsSealed, SealsOfVerdicts, SealsOnce, IsVerdict
    <2>4. CASE b \in Producers
      <3>1. seal \in Seal /\ notes \in Seq(Seal)  BY <2>1, <2>2 DEF Seal, TypeOK
      <3>2. notes' = Append(notes, seal)  BY <2>1, <2>4
      <3> HIDE DEF seal
      <3>3. /\ DOMAIN notes' = 1..Len(notes) + 1 /\ Len(notes) \in Nat
            /\ DOMAIN notes = 1..Len(notes)
            /\ \A k \in 1..Len(notes) : notes'[k] = notes[k]
            /\ notes'[Len(notes) + 1] = seal
        BY <3>1, <3>2
      <3>4. VerdictsSealed'
        <4> SUFFICES ASSUME NEW d \in Producers, NEW i \in DOMAIN remote'[d],
                            IsVerdict(remote'[d][i])
                     PROVE  \E k \in DOMAIN notes' : notes'[k] = [branch |-> d, at |-> i]
          BY DEF VerdictsSealed, IsVerdict
        <4>1. CASE d = b /\ i = n
          BY <3>3, <4>1 DEF seal
        <4>2. CASE ~(d = b /\ i = n)
          <5>1. i \in DOMAIN remote[d] /\ remote'[d][i] = remote[d][i]
            <6>1. CASE d # b  BY <2>1, <6>1, BranchesAssumption
            <6>2. CASE d = b
              <7>1. i \in 1..n /\ i # n  BY <2>1, <4>2, <6>2
              <7>2. i \in 1..Len(remote[b])  BY <2>2, <7>1
              <7> QED  BY <2>1, <2>2, <6>2, <7>2
            <6> QED  BY <6>1, <6>2
          <5>2. PICK k \in DOMAIN notes : notes[k] = [branch |-> d, at |-> i]
            BY <5>1 DEF Seals, VerdictsSealed
          <5> QED  BY <3>3, <5>2
        <4> QED  BY <4>1, <4>2
      <3>5. ASSUME NEW k \in DOMAIN notes
            PROVE  /\ notes[k].branch \in Producers
                   /\ notes[k].at \in DOMAIN remote[notes[k].branch]
                   /\ IsVerdict(remote[notes[k].branch][notes[k].at])
                   /\ notes[k] # seal
        <4>1. /\ notes[k].branch \in Producers
              /\ notes[k].at \in DOMAIN remote[notes[k].branch]
              /\ IsVerdict(remote[notes[k].branch][notes[k].at])
          BY DEF Seals, SealsOfVerdicts
        <4>2. notes[k].branch = b => notes[k].at # n  BY <2>2, <4>1
        <4> QED  BY <4>1, <4>2 DEF seal
      <3>6. SealsOfVerdicts'
        <4> SUFFICES ASSUME NEW k \in DOMAIN notes'
                     PROVE  /\ notes'[k].branch \in Producers
                            /\ notes'[k].at \in DOMAIN remote'[notes'[k].branch]
                            /\ IsVerdict(remote'[notes'[k].branch][notes'[k].at])
          BY DEF SealsOfVerdicts, IsVerdict
        <4>1. CASE k = Len(notes) + 1
          <5>1. notes'[k] = seal  BY <3>3, <4>1
          <5>2. n \in DOMAIN remote'[b]  BY <2>1, <2>2
          <5> QED  BY <2>1, <2>4, <5>1, <5>2 DEF seal
        <4>2. CASE k # Len(notes) + 1
          <5>1. k \in DOMAIN notes /\ notes'[k] = notes[k]  BY <3>3, <4>2
          <5> DEFINE d == notes[k].branch
          <5>2. d \in Branches /\ d \in Producers /\ notes[k].at \in DOMAIN remote[d]
                /\ IsVerdict(remote[d][notes[k].at])
            BY <3>5, <5>1, BranchesAssumption
          <5>3. notes[k].at \in DOMAIN remote'[d] /\ remote'[d][notes[k].at] = remote[d][notes[k].at]
            <6>1. CASE d # b  BY <2>1, <5>2, <6>1
            <6>2. CASE d = b
              <7>1. notes[k].at \in 1..Len(remote[b])  BY <2>2, <5>2, <6>2
              <7>2. notes[k].at \in 1..n  BY <2>2, <7>1
              <7> QED  BY <2>1, <6>2, <7>1, <7>2
            <6> QED  BY <6>1, <6>2
          <5> QED  BY <5>1, <5>2, <5>3
        <4> QED  BY <4>1, <4>2
      <3>7. SealsOnce'
        <4> SUFFICES ASSUME NEW k \in DOMAIN notes', NEW m \in DOMAIN notes', notes'[k] = notes'[m]
                     PROVE  k = m
          BY DEF SealsOnce
        <4>1. CASE k \in DOMAIN notes /\ m \in DOMAIN notes
          BY <3>3, <4>1 DEF Seals, SealsOnce
        <4>2. CASE k \notin DOMAIN notes /\ m \notin DOMAIN notes  BY <3>3, <4>2
        <4>3. CASE k \in DOMAIN notes /\ m \notin DOMAIN notes  BY <3>3, <3>5, <4>3
        <4>4. CASE k \notin DOMAIN notes /\ m \in DOMAIN notes  BY <3>3, <3>5, <4>4
        <4> QED  BY <4>1, <4>2, <4>3, <4>4
      <3> QED  BY <3>4, <3>6, <3>7 DEF Seals
    <2> QED  BY <2>3, <2>4
  <1> QED  BY <1>1, <1>2

LEMMA SealsNext ==
  ASSUME TypeOK, VerdictsShared, Seals, Next
  PROVE  Seals'
  <1>1. ASSUME NEW c \in Clones, Announce(c) \/ SubmitPush(c)  PROVE Seals'
    BY <1>1, PushSeals
  <1>2. ASSUME NEW j \in Judges, Publish(j)  PROVE Seals'
    BY <1>2, PublishSeals
  <1>3. CASE UNCHANGED <<remote, notes>>
    BY <1>3 DEF Seals, VerdictsSealed, SealsOfVerdicts, SealsOnce, IsVerdict
  <1> QED  BY <1>1, <1>2, <1>3
           DEF Next, AuthorStep, JudgeStep, SeriesMoves, Drive, DriveFails, DriveKilled, Sync,
               Feedback, SubmitRead, Pick, Freeze, JudgeKilled, judgeVars

\* What a judge has admitted begins with a promise of the series commit and
\* ends, further on, with a result.
LEMMA AdmittedEndsInResult ==
  ASSUME NEW tip \in Seq(Commit), NEW snap, Admissible(tip, snap)
  PROVE  /\ Len(tip) \in Nat /\ Len(tip) > 1
         /\ tip[1].snap = snap /\ tip[Len(tip)].kind \in {"work", "fix"}
  <1>1. tip # <<>> /\ tip[1].kind = "promise" /\ tip[1].snap = snap
        /\ tip[Len(tip)].kind \in {"work", "fix"}
    BY DEF Admissible, Promised, Last
  <1>2. Len(tip) \in Nat /\ Len(tip) # 0  BY <1>1
  <1>3. Len(tip) # 1  BY <1>1
  <1> QED  BY <1>1, <1>2, <1>3

LEMMA FollowsNext ==
  ASSUME TypeOK, VerdictsShared, JudgedAdmissible, VerdictFollowsResult, Next
  PROVE  VerdictFollowsResult'
  <1>1. ASSUME NEW c \in Clones, Announce(c) \/ SubmitPush(c)  PROVE VerdictFollowsResult'
    <2> SUFFICES ASSUME NEW b \in Producers, NEW i \in DOMAIN remote'[b], IsVerdict(remote'[b][i])
                 PROVE  i > 1 /\ remote'[b][i - 1].kind \in {"work", "fix"}
      BY DEF VerdictFollowsResult, IsVerdict
    <2>1. b \in Branches  BY BranchesAssumption
    <2>2. i \in DOMAIN remote[b] /\ remote'[b][i] = remote[b][i]
      BY <1>1, <2>1, PushBringsNoVerdict
    <2>3. i > 1 /\ remote[b][i - 1].kind \in {"work", "fix"}
      BY <2>2 DEF VerdictFollowsResult
    <2>4. i - 1 \in DOMAIN remote[b]
      <3>1. remote[b] \in Seq(Commit)  BY <2>1 DEF TypeOK
      <3>2. i \in 1..Len(remote[b]) /\ Len(remote[b]) \in Nat  BY <2>2, <3>1
      <3>3. i - 1 \in 1..Len(remote[b])  BY <2>3, <3>2
      <3> QED  BY <3>1, <3>3
    <2>5. remote'[b][i - 1] = remote[b][i - 1]
      BY <1>1, <2>1, <2>4, PushBringsNoVerdict
    <2> QED  BY <2>3, <2>5
  <1>2. ASSUME NEW j \in Judges, Publish(j), remote' # remote  PROVE VerdictFollowsResult'
    <2> DEFINE b == job[j].branch
               n == Len(remote[b]) + 1
    <2>1. /\ b \in Branches /\ job[j].at = "admitted" /\ remote[b] = job[j].tip
          /\ \A d \in Branches : d # b => remote'[d] = remote[d]
          /\ DOMAIN remote'[b] = 1..n
          /\ \A i \in 1..Len(remote[b]) : remote'[b][i] = remote[b][i]
      BY <1>2, PublishBringsOne
    <2>2. remote[b] \in Seq(Commit) /\ Len(remote[b]) \in Nat /\ DOMAIN remote[b] = 1..Len(remote[b])
      BY <2>1 DEF TypeOK
    <2> SUFFICES ASSUME NEW d \in Producers, NEW i \in DOMAIN remote'[d], IsVerdict(remote'[d][i])
                 PROVE  i > 1 /\ remote'[d][i - 1].kind \in {"work", "fix"}
      BY DEF VerdictFollowsResult, IsVerdict
    <2>3. CASE d # b
      <3>1. remote'[d] = remote[d]  BY <2>1, <2>3, BranchesAssumption
      <3> QED  BY <3>1 DEF VerdictFollowsResult
    <2>4. CASE d = b /\ i = n
      <3>1. Admissible(remote[b], job[j].snap)  BY <2>1, <2>4 DEF JudgedAdmissible
      <3>2. Len(remote[b]) > 1 /\ remote[b][Len(remote[b])].kind \in {"work", "fix"}
        BY <2>2, <3>1, AdmittedEndsInResult
      <3>3. n - 1 = Len(remote[b]) /\ Len(remote[b]) \in 1..Len(remote[b])  BY <2>2, <3>2
      <3> QED  BY <2>1, <2>2, <2>4, <3>2, <3>3
    <2>5. CASE d = b /\ i # n
      <3>1. i \in 1..n  BY <2>1, <2>5
      <3>2. i \in 1..Len(remote[b])  BY <2>2, <2>5, <3>1
      <3>3. i \in DOMAIN remote[d] /\ remote'[d][i] = remote[d][i]  BY <2>1, <2>2, <2>5, <3>2
      <3>4. i > 1 /\ remote[d][i - 1].kind \in {"work", "fix"}
        BY <3>3 DEF VerdictFollowsResult
      <3>5. i - 1 \in 1..Len(remote[b])  BY <2>2, <3>2, <3>4
      <3> QED  BY <2>1, <2>5, <3>4, <3>5
    <2> QED  BY <2>3, <2>4, <2>5
  <1>3. CASE UNCHANGED remote  BY <1>3 DEF VerdictFollowsResult, IsVerdict
  <1> QED  BY <1>1, <1>2, <1>3
           DEF Next, AuthorStep, JudgeStep, SeriesMoves, Drive, DriveFails, DriveKilled, Sync,
               Feedback, SubmitRead, Pick, Freeze, JudgeKilled, judgeVars

LEMMA InvInit == Init => Inv
  <1> SUFFICES ASSUME Init PROVE Inv
    OBVIOUS
  <1>1. TypeOK  BY InitTyped
  <1>2. /\ \A c \in Clones : DOMAIN local[c] = {}
        /\ \A b \in Branches : DOMAIN remote[b] = {}
        /\ DOMAIN notes = {}
    BY DEF Init
  <1>3. VerdictsShared  BY <1>2 DEF VerdictsShared
  <1>4. JudgedAdmissible  BY DEF Init, JudgedAdmissible, NoJob
  <1>5. Seals /\ VerdictFollowsResult
    BY <1>2, BranchesAssumption
       DEF Seals, VerdictsSealed, SealsOfVerdicts, SealsOnce, VerdictFollowsResult
  <1> QED  BY <1>1, <1>3, <1>4, <1>5 DEF Inv

LEMMA InvNext == Inv /\ [Next]_vars => Inv'
  <1> SUFFICES ASSUME Inv, [Next]_vars PROVE Inv'
    OBVIOUS
  <1>1. CASE Next
    BY <1>1, NextTyped, SharedNext, AdmissibleNext, SealsNext, FollowsNext DEF Inv
  <1>2. CASE UNCHANGED vars
    <2>1. TypeOK'  BY NextTyped DEF Inv
    <2>2. UNCHANGED <<series, remote, local, notes, job>>  BY <1>2 DEF vars, authorVars
    <2>3. VerdictsShared' /\ JudgedAdmissible' /\ VerdictFollowsResult'
      BY <2>2 DEF Inv, VerdictsShared, JudgedAdmissible, VerdictFollowsResult, IsVerdict,
                  Admissible, Promised
    <2>4. Seals'
      BY <2>2 DEF Inv, Seals, VerdictsSealed, SealsOfVerdicts, SealsOnce, IsVerdict
    <2> QED  BY <2>1, <2>3, <2>4 DEF Inv
  <1> QED  BY <1>1, <1>2

LEMMA Invariant == Spec => []Inv
  BY InvInit, InvNext, PTL DEF Spec

LEMMA SealsImplyMatch ==
  ASSUME Inv
  PROVE  SealsMatch
  <1> SUFFICES ASSUME NEW b \in Producers
               PROVE  {i \in DOMAIN remote[b] : IsVerdict(remote[b][i])}
                        = {notes[n].at : n \in {n \in DOMAIN notes : notes[n].branch = b}}
    BY DEF Inv, Seals, SealsOnce, SealsMatch
  <1>1. ASSUME NEW i \in DOMAIN remote[b], IsVerdict(remote[b][i])
        PROVE  \E n \in DOMAIN notes : notes[n].branch = b /\ notes[n].at = i
    BY <1>1 DEF Inv, Seals, VerdictsSealed
  <1>2. ASSUME NEW n \in DOMAIN notes, notes[n].branch = b
        PROVE  notes[n].at \in DOMAIN remote[b] /\ IsVerdict(remote[b][notes[n].at])
    BY <1>2 DEF Inv, Seals, SealsOfVerdicts
  <1> QED  BY <1>1, <1>2

\* Verdicts and seals of producer branches come one to one: no author's push
\* forges a verdict, no judge's seal is lost to another's, and none is made
\* twice, for any number of judges, clones and branches.
THEOREM SealsAlwaysMatch == Spec => []SealsMatch
  BY Invariant, SealsImplyMatch, PTL

\* A verdict on a producer branch stands directly on a complete result, for
\* any interleaving of pushes, repairs and judges.
THEOREM VerdictsFollowResults == Spec => []VerdictFollowsResult
  <1>1. Inv => VerdictFollowsResult  BY DEF Inv
  <1> QED  BY <1>1, Invariant, PTL

\* The step that shows a verdict on a producer branch is about the series as it is.
LEMMA JudgedStep ==
  ASSUME Inv, Next, NEW b \in Producers, remote'[b] # remote[b], IsVerdict(Last(remote'[b]))
  PROVE  remote'[b][1].snap = Tip(b)
  <1>1. TypeOK /\ VerdictsShared /\ JudgedAdmissible /\ b \in Branches
    BY BranchesAssumption DEF Inv
  <1>2. remote[b] \in Seq(Commit) /\ remote'[b] \in Seq(Commit)
    BY <1>1, NextTyped DEF TypeOK
  <1>3. ASSUME NEW c \in Clones, Announce(c) \/ SubmitPush(c)  PROVE FALSE
    <2>1. /\ Len(remote[b]) <= Len(remote'[b])
          /\ \A i \in DOMAIN remote[b] : i \in DOMAIN remote'[b] /\ remote'[b][i] = remote[b][i]
          /\ \A i \in DOMAIN remote'[b] : IsVerdict(remote'[b][i]) => i \in DOMAIN remote[b]
      BY <1>1, <1>3, PushBringsNoVerdict
    <2>2. Len(remote[b]) # Len(remote'[b])
      <3> SUFFICES ASSUME Len(remote[b]) = Len(remote'[b]) PROVE FALSE
        OBVIOUS
      <3>1. \A i \in 1..Len(remote[b]) : remote'[b][i] = remote[b][i]  BY <1>2, <2>1
      <3>2. remote'[b] = remote[b]  BY <1>2, <3>1, SeqEqual
      <3> QED  BY <3>2
    <2>3. Len(remote'[b]) \in DOMAIN remote'[b] /\ Len(remote'[b]) \notin DOMAIN remote[b]
      BY <1>2, <2>1, <2>2
    <2> QED  BY <2>1, <2>3 DEF Last
  <1>4. ASSUME NEW j \in Judges, Publish(j)  PROVE remote'[b][1].snap = Tip(b)
    <2>1. remote' # remote  OBVIOUS
    <2>2. /\ b = job[j].branch /\ job[j].at = "admitted" /\ remote[b] = job[j].tip
          /\ Tip(b) = job[j].snap
          /\ \A i \in 1..Len(remote[b]) : remote'[b][i] = remote[b][i]
      BY <1>1, <1>4, <2>1, PublishBringsOne
    <2>3. Admissible(remote[b], job[j].snap)  BY <1>1, <2>2 DEF JudgedAdmissible
    <2>4. Len(remote[b]) \in Nat /\ Len(remote[b]) > 1 /\ remote[b][1].snap = job[j].snap
      BY <1>2, <2>3, AdmittedEndsInResult
    <2>5. 1 \in 1..Len(remote[b])  BY <2>4
    <2> QED  BY <2>2, <2>4, <2>5
  <1>5. CASE UNCHANGED remote  BY <1>5
  <1> QED  BY <1>3, <1>4, <1>5
           DEF Next, AuthorStep, JudgeStep, SeriesMoves, Drive, DriveFails, DriveKilled, Sync,
               Feedback, SubmitRead, Pick, Freeze, JudgeKilled, judgeVars

\* A verdict on a producer branch appears only while the series is at the very
\* commit that the promises under it were made at.
THEOREM JudgedAtTheirSource == Spec => JudgedAtItsSource
  <1>1. Inv /\ [Next]_vars =>
          [\A b \in Producers :
             remote'[b] # remote[b] /\ IsVerdict(Last(remote'[b])) =>
               remote'[b][1].snap = Tip(b)]_vars
    BY JudgedStep
  <1> QED  BY <1>1, Invariant, PTL DEF Spec, JudgedAtItsSource
================================================================================
