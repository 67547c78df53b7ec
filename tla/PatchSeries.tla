---------------------------- MODULE PatchSeries ----------------------------
(***************************************************************************)
(* The life of patch series in the organisation's repository: pull workers *)
(* (patchwork_queue.pull, one item per run) review a series, let its       *)
(* author revise it, and review again, until direction-ok or nak.  All     *)
(* state is Git: the subjects of the commits on a series branch select the *)
(* next item, files in its tree hold the round records and the experience  *)
(* reports of implementers, tags hold the serials of accepted series.      *)
(*                                                                         *)
(* A worker commits through the one working tree of the repository         *)
(* (git_wrapper.commit_files): it checks the branch out, commits to        *)
(* whatever is then checked out, and goes back.  Workers hold no lock:     *)
(* launch.py detaches a worker for every request, also on a repository     *)
(* that already has one.  A worker may be killed between any two commands  *)
(* but those of one `add; commit` pair.                                    *)
(*                                                                         *)
(* As in MailingList a commit is its history: the sequence of entries from *)
(* the root to it.  Abstracted: what reviewers and authors write (a round  *)
(* record keeps its number, its verdict and what it judged), and intake up *)
(* to the promotion of a request.  A series is followed to its first       *)
(* conclusion: what the network gate commits to an accepted one, which     *)
(* includes the escalations that reopen it, is LeafNetwork's.              *)
(***************************************************************************)
EXTENDS Naturals, Sequences, SequencesExt, FiniteSets, FiniteSetsExt

CONSTANTS
  Series,       \* the series branches, by their place in the sorted order
  Main,         \* the default branch
  Workers,      \* processes that run pull()
  Reports,      \* implementation-experience reports
  MaxRounds,    \* AI_ORG_RFC_MAX_REVIEW_ROUNDS
  OriginHead,   \* does refs/remotes/origin/HEAD name Main (a clone)?
  MayCrash      \* may workers be killed?

ASSUME SeriesAssumption == Series \subseteq Nat /\ Main \notin Series
ASSUME RoundsAssumption == MaxRounds \in Nat \ {0}
ASSUME SwitchAssumption == OriginHead \in BOOLEAN /\ MayCrash \in BOOLEAN

VARIABLES
  log,        \* log[b]: the history of branch b, <<>> while it does not exist
  rounds,     \* rounds[b]: the round records in the tree of b
  reports,    \* reports[b]: the experience reports in the tree of b
  tags,       \* tags[n]: the commit that ai-org/serial/n names
  onto,       \* the branch the working tree has checked out
  pc, task,   \* where worker w stands, and what it works on
  from        \* from[w]: the branch that was checked out when w began to commit

repoVars == <<log, rounds, reports, tags>>
vars == <<repoVars, onto, pc, task, from>>

Branches == Series \cup {Main}
Verdicts == {"direction-ok", "needs-revision", "nak"}
Subjects == Verdicts \cup {"receive", "v", "experience"}
History == Seq([for : Series, subject : Subjects, number : Nat])
RoundRecord == [round : Nat, verdict : Verdicts, judged : History]

Idle == [kind |-> "none", on |-> Main, round |-> 0, judged |-> <<>>,
         last |-> FALSE, seen |-> {}, serial |-> 0, made |-> <<>>]

TypeOK ==
  /\ log \in [Branches -> History]
  /\ \A b \in Branches :
       /\ rounds[b] \subseteq RoundRecord
       /\ reports[b] \subseteq [id : Reports, done : BOOLEAN]
  /\ tags \in Seq(History)
  /\ onto \in Branches
  /\ pc \in [Workers -> {"idle", "review", "reform", "checkout", "commit", "restore", "tag"}]
  /\ \A w \in Workers :
       /\ task[w].kind \in Verdicts \cup {"none", "review", "reform", "v"}
       /\ task[w].on \in Branches
  /\ from \in [Workers -> Branches]

Init ==
  /\ log = [b \in Branches |-> <<>>]
  /\ rounds = [b \in Branches |-> {}]
  /\ reports = [b \in Branches |-> {}]
  /\ tags = <<>>
  /\ onto = Main
  /\ pc = [w \in Workers |-> "idle"]
  /\ task = [w \in Workers |-> Idle]
  /\ from = [w \in Workers |-> Main]
-----------------------------------------------------------------------------
\* The subject of the newest marker of a history.
LastMarkerOfReview(h) ==  \* mutant: revisions are overlooked
  LET marks == {k \in DOMAIN h : h[k].subject \in Verdicts}
  IN IF marks = {} THEN "none" ELSE h[Max(marks)].subject
LastMarker(h) ==
  LET marks == {k \in DOMAIN h : h[k].subject \in Verdicts \cup {"v"}}
  IN IF marks = {} THEN "none" ELSE h[Max(marks)].subject

Terminal(h) ==
  \/ \E k \in DOMAIN h : h[k].subject = "nak"
  \/ IsPrefix(h, log[Main])
  \/ LastMarker(h) = "direction-ok"

NeedsRevisionIsHead(h) == LastMarker(h) = "needs-revision"

Pending(b) == {r \in Reports : [id |-> r, done |-> FALSE] \in reports[b]}

LatestRound(b) == CHOOSE r \in rounds[b] : \A o \in rounds[b] : o.round <= r.round

NextRound(b) == IF rounds[b] = {} THEN 1 ELSE LatestRound(b).round + 1

\* Series that wait for their author, and series that wait for a review.
ForAuthorPending ==  \* mutant: the needs-revision head is not looked at
  {s \in Series : log[s] # <<>> /\ ~Terminal(log[s]) /\ Pending(s) # {} /\ rounds[s] # {}}
ForAuthor ==
  {s \in Series : /\ log[s] # <<>> /\ ~Terminal(log[s])
                  /\ NeedsRevisionIsHead(log[s]) \/ Pending(s) # {}
                  /\ rounds[s] # {}}
ForReview ==
  {s \in Series : log[s] # <<>> /\ ~Terminal(log[s]) /\ ~NeedsRevisionIsHead(log[s])}

\* The newest serial whose tag is reachable from a commit (0: none).
SerialFor(h) == Max({0} \cup {n \in DOMAIN tags : IsPrefix(tags[n], h)})
NextSerial == Len(tags) + 1

Goto(w, label) == pc' = [pc EXCEPT ![w] = label]

\* The run of pull() is over; its locals are gone.
Stop(w) ==
  /\ Goto(w, "idle")
  /\ task' = [task EXCEPT ![w] = Idle]
  /\ from' = [from EXCEPT ![w] = Main]
-----------------------------------------------------------------------------
\* Intake promotes a request: a new branch, on the default branch of a clone
\* and otherwise on whatever is checked out (receive._default_branch).
Promote(s) ==
  LET base == IF OriginHead THEN Main ELSE onto IN
  /\ log[s] = <<>>
  /\ log' = [log EXCEPT ![s] =
               Append(log[base], [for |-> s, subject |-> "receive", number |-> 0])]
  /\ rounds' = [rounds EXCEPT ![s] = rounds[base]]
  /\ reports' = [reports EXCEPT ![s] = reports[base]]
  /\ UNCHANGED <<tags, onto, pc, task, from>>

\* pull() takes the first series that waits for its author ...
TakeReform(w) ==
  LET s == Min(ForAuthor) IN
  /\ pc[w] = "idle" /\ ForAuthor # {}
  /\ Goto(w, "reform")
  /\ task' = [task EXCEPT ![w] = [Idle EXCEPT !.kind = "reform", !.on = s,
                 !.round = LatestRound(s).round, !.seen = Pending(s)]]
  /\ UNCHANGED <<repoVars, onto, from>>

\* Mutant of TakeReview: the text as promoted is judged.
TakeReviewOfOldText(w) ==
  LET s == Min(ForReview) IN
  /\ pc[w] = "idle" /\ ForAuthor = {} /\ ForReview # {}
  /\ Goto(w, "review")
  /\ task' = [task EXCEPT ![w] = [Idle EXCEPT !.kind = "review", !.on = s,
                 !.round = NextRound(s), !.judged = SubSeq(log[s], 1, 1),
                 !.last = Cardinality(rounds[s]) >= MaxRounds]]
  /\ UNCHANGED <<repoVars, onto, from>>

\* ... or else the first that waits for a review; the round number, the commit
\* to judge and whether the cap is reached are read now.
TakeReview(w) ==
  LET s == Min(ForReview) IN
  /\ pc[w] = "idle" /\ ForAuthor = {} /\ ForReview # {}
  /\ Goto(w, "review")
  /\ task' = [task EXCEPT ![w] = [Idle EXCEPT !.kind = "review", !.on = s,
                 !.round = NextRound(s), !.judged = log[s],
                 !.last = Cardinality(rounds[s]) >= MaxRounds]]
  /\ UNCHANGED <<repoVars, onto, from>>

\* The reviewers have spoken.  At the cap a revision is not on the menu.  The
\* marker of an accepted series is worded with the serial it is going to get.
Judge(w, v) ==
  LET verdict == IF task[w].last /\ v = "needs-revision" THEN "nak" ELSE v
      known == SerialFor(log[task[w].on])
      serial == IF verdict # "direction-ok" THEN 0
                ELSE IF known # 0 THEN known ELSE NextSerial IN
  /\ pc[w] = "review"
  /\ task' = [task EXCEPT ![w].kind = verdict, ![w].serial = serial]
  /\ Goto(w, "checkout")
  /\ UNCHANGED <<repoVars, onto, from>>

\* The author has a revision: there was something open, and the new text passes.
Revise(w) ==
  /\ pc[w] = "reform"
  /\ \/ task[w].seen # {}
     \/ LatestRound(task[w].on).verdict = "needs-revision"
  /\ task' = [task EXCEPT ![w].kind = "v"]
  /\ Goto(w, "checkout")
  /\ UNCHANGED <<repoVars, onto, from>>

\* A root that is not ready for review, nothing open, or a revision that does
\* not pass: the run ends and the repository stays as it is.
ComeBackLater(w) ==
  /\ pc[w] \in {"review", "reform"}
  /\ Stop(w)
  /\ UNCHANGED <<repoVars, onto>>
-----------------------------------------------------------------------------
\* commit_files: remember what is checked out, check the series branch out ...
Checkout(w) ==
  /\ pc[w] = "checkout"
  /\ from' = [from EXCEPT ![w] = onto]
  /\ onto' = task[w].on
  /\ Goto(w, "commit")
  /\ UNCHANGED <<repoVars, task>>

\* ... write the files and commit, onto the branch that is checked out now ...
Commit(w) ==
  LET t == task[w]
      number == CASE t.kind = "direction-ok" -> t.serial
                  [] t.kind = "v" -> t.round + 1
                  [] OTHER -> t.round
      commit == Append(log[onto], [for |-> t.on, subject |-> t.kind, number |-> number])
      record == [round |-> t.round, verdict |-> t.kind, judged |-> t.judged] IN
  /\ pc[w] = "commit"
  /\ log' = [log EXCEPT ![onto] = commit]
  /\ task' = [task EXCEPT ![w].made = commit]
  /\ \/ /\ t.kind \in Verdicts
        /\ rounds' = [rounds EXCEPT ![onto] = {r \in @ : r.round # t.round} \cup {record}]
        /\ UNCHANGED reports
     \/ /\ t.kind = "v"
        /\ reports' = [reports EXCEPT ![onto] =
             IF t.seen = {} THEN @ ELSE [id : t.seen, done : {TRUE}]]
        /\ UNCHANGED rounds
  /\ Goto(w, "restore")
  /\ UNCHANGED <<tags, onto, from>>

\* ... and go back.  An accepted series then gets its serial.
Restore(w) ==
  /\ pc[w] = "restore"
  /\ onto' = from[w]
  /\ \/ task[w].kind = "direction-ok" /\ Goto(w, "tag") /\ UNCHANGED <<task, from>>
     \/ task[w].kind # "direction-ok" /\ Stop(w)
  /\ UNCHANGED repoVars

\* ensure_serial on the marker commit: a reachable serial, or the next one.
Tag(w) ==
  /\ pc[w] = "tag"
  /\ tags' = IF SerialFor(task[w].made) # 0 THEN tags ELSE Append(tags, task[w].made)
  /\ Stop(w)
  /\ UNCHANGED <<log, rounds, reports, onto>>

\* The worker is killed; the working tree stays as it was.
Crash(w) ==
  /\ MayCrash /\ pc[w] # "idle"
  /\ Stop(w)
  /\ UNCHANGED <<repoVars, onto>>

\* An implementer of an accepted series finds its direction wrong and commits a
\* report of that to the series branch (each report is made once).
Report(s, r) ==
  /\ \E k \in DOMAIN log[s] : log[s][k].subject = "direction-ok"
  /\ r \notin {x.id : x \in UNION {reports[b] : b \in Branches}}
  /\ log' = [log EXCEPT ![s] =
               Append(@, [for |-> s, subject |-> "experience", number |-> 0])]
  /\ reports' = [reports EXCEPT ![s] = @ \cup {[id |-> r, done |-> FALSE]}]
  /\ UNCHANGED <<rounds, tags, onto, pc, task, from>>

Work(w) ==
  \/ TakeReform(w) \/ TakeReview(w) \/ (\E v \in Verdicts : Judge(w, v)) \/ Revise(w)
  \/ Checkout(w) \/ Commit(w) \/ Restore(w) \/ Tag(w)

Next ==
  \/ \E s \in Series : Promote(s)
  \/ \E w \in Workers : Work(w) \/ ComeBackLater(w) \/ Crash(w)
  \/ \E s \in Series, r \in Reports : Report(s, r)

Spec == Init /\ [][Next]_vars

\* Workers go on running; models that are asked again and again come to a
\* verdict and to a passing revision at some time, and not every run is killed.
LiveSpec ==
  /\ Spec
  /\ \A w \in Workers :
       /\ WF_vars(Work(w))
       /\ SF_vars(\E v \in Verdicts : Judge(w, v)) /\ SF_vars(Revise(w))
       /\ SF_vars(Checkout(w)) /\ SF_vars(Commit(w))
-----------------------------------------------------------------------------
\* Where the first k entries of a history are verdicts, and where revisions.
Reviewed(h, k) == {j \in 1..k : h[j].subject \in Verdicts}
Revised(h, k)  == {j \in 1..k : h[j].subject = "v"}

\* Reviewers object, the author reworks: on every series reviews and reforms
\* take turns, the n-th review is round n and v n+1 answers it
\* (selection in pull, numbering in _next_round_number and reform_patch_series).
TakeTurns ==
  \A s \in Series : \A k \in DOMAIN log[s] :
    LET e == log[s][k]
        reviews == Cardinality(Reviewed(log[s], k - 1))
        revisions == Cardinality(Revised(log[s], k - 1)) IN
    /\ e.subject \in Verdicts => reviews = revisions
    /\ e.subject = "v" => reviews = revisions + 1
    /\ e.subject \in {"needs-revision", "v"} => e.number = reviews + 1

\* A verdict stands on the very text it judged: the commit read when the review
\* began is the parent of the marker, although the review took long.
VerdictOnWhatWasJudged ==
  \A s \in Series : \A r \in rounds[s] :
    LET k == Len(r.judged) + 1 IN
    /\ IsStrictPrefix(r.judged, log[s])
    /\ log[s][k].subject = r.verdict
    /\ r.round = Cardinality(Reviewed(log[s], k))

\* Every promoted series comes to direction-ok or nak, although a series ahead
\* of it in the order is always served first.
EverySeriesConcluded ==
  \A s \in Series : log[s] # <<>> ~> log[s] # <<>> /\ Terminal(log[s])
=============================================================================
