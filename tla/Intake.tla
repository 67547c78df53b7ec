------------------------------- MODULE Intake -------------------------------
(***************************************************************************)
(* From the requester's inbox to a patch series (patchwork_queue).         *)
(*                                                                         *)
(* submit() lists the inbox, then the processed directory, takes the first *)
(* free id and writes a file.  A pull worker reads the oldest file, forms  *)
(* an answer, and either promotes the request to a new branch through the  *)
(* shared working tree or records an outcome ref; then it moves the file   *)
(* to the processed directory and writes a result beside it.  Nothing is   *)
(* locked, files are not written atomically, and a worker that dies leaves *)
(* everything as it is.                                                    *)
(*                                                                         *)
(* Abstracted: all requests have one slug and all series one name, so ids  *)
(* and branches are numbers (slug, slug-2, ...); a branch is the sequence  *)
(* of requests that were committed to it; grounding and approach forming   *)
(* are the choice between promotion and another outcome.  Reviews and      *)
(* revisions of the branches are PatchSeries.                              *)
(***************************************************************************)
EXTENDS Naturals, Sequences, SequencesExt, FiniteSets, FiniteSetsExt, Functions

CONSTANTS
  Requests,    \* each is submitted once, by a process of its own
  Workers,     \* processes that run pull
  Serial,      \* is there only one submission at a time?
  OriginHead,  \* does the repository know its default branch (origin/HEAD)?
  Torn,        \* what a reader sees in a file that is not written yet
  MaxFaults    \* bound on kills and failed publications

ASSUME IntakeAssumption == /\ Torn \notin Requests /\ IsFiniteSet(Requests)
                           /\ Serial \in BOOLEAN /\ OriginHead \in BOOLEAN
                           /\ MaxFaults \in Nat

VARIABLES
  inbox,      \* the files, oldest first: their id and request
  processed,  \* the processed files: id -> request
  results,    \* the result files: id -> what became of the request
  outcomes,   \* the outcome refs: id -> requests recorded under it
  branches,   \* the series branches, and the default branch as number 0
  head,       \* what the shared working tree has checked out
  sub,        \* where each submission is
  job,        \* what each worker does
  faults

files == <<inbox, processed, results>>
repo == <<outcomes, branches, head>>
vars == <<files, repo, sub, job, faults>>

Ids == Nat \ {0}
Content == Requests \cup {Torn}
Idle == [at |-> "idle"]
Submission == [at : {"new", "done", "dead"}] \cup [at : {"listed"}, ids : SUBSET Ids]
                \cup [at : {"named", "open"}, id : Ids]
AtWork == {"read", "named", "checked_out", "committed", "answered", "moved"}
Job == {Idle} \cup [at : AtWork, id : Ids, req : Requests, branch : Nat, base : Nat, back : Nat]

TypeOK ==
  /\ inbox \in Seq([id : Ids, req : Content])
  /\ IsInjective([i \in DOMAIN inbox |-> inbox[i].id])
  /\ DOMAIN processed \subseteq Ids /\ Range(processed) \subseteq Content
  /\ DOMAIN results \subseteq DOMAIN processed /\ Range(results) \subseteq {"promoted", "rejected"}
  /\ DOMAIN outcomes \subseteq Ids /\ Range(outcomes) \subseteq Seq(Requests)
  /\ 0 \in DOMAIN branches /\ DOMAIN branches \subseteq Nat /\ Range(branches) \subseteq Seq(Requests)
  /\ head \in DOMAIN branches
  /\ sub \in [Requests -> Submission] /\ job \in [Workers -> Job]
  /\ faults \in 0..MaxFaults

Init ==
  /\ inbox = <<>> /\ processed = <<>> /\ results = <<>> /\ outcomes = <<>>
  /\ branches = [n \in {0} |-> <<>>] /\ head = 0
  /\ sub = [r \in Requests |-> [at |-> "new"]]
  /\ job = [w \in Workers |-> Idle]
  /\ faults = 0
-----------------------------------------------------------------------------
(* Submission. *)

FirstFree(taken) == Min((1..(Cardinality(taken) + 1)) \ taken)
InboxIds == {inbox[i].id : i \in DOMAIN inbox}
Place(k) == CHOOSE i \in DOMAIN inbox : inbox[i].id = k
Without(k) == IF k \in InboxIds THEN RemoveAt(inbox, Place(k)) ELSE inbox
Put(f, k, v) == [x \in DOMAIN f \cup {k} |-> IF x = k THEN v ELSE f[x]]
Underway(r) == sub[r].at \in {"listed", "named", "open"}

\* The two listings of _next_id, the inbox first.
ListedProcessedFirst(first) == IF first THEN DOMAIN processed ELSE InboxIds \* mutant
Listed(first) == IF first THEN InboxIds ELSE DOMAIN processed

ListInbox(r) ==
  /\ sub[r].at = "new"
  /\ Serial => \A q \in Requests : ~Underway(q)
  /\ sub' = [sub EXCEPT ![r] = [at |-> "listed", ids |-> Listed(TRUE)]]
  /\ UNCHANGED <<files, repo, job, faults>>

NextId(r) ==
  /\ sub[r].at = "listed"
  /\ sub' = [sub EXCEPT ![r] = [at |-> "named", id |-> FirstFree(sub[r].ids \cup Listed(FALSE))]]
  /\ UNCHANGED <<files, repo, job, faults>>

\* write_text truncates a file that is there already, and makes it the newest.
Open(r) ==
  /\ sub[r].at = "named"
  /\ sub' = [sub EXCEPT ![r].at = "open"]
  /\ inbox' = Append(Without(sub[r].id), [id |-> sub[r].id, req |-> Torn])
  /\ UNCHANGED <<processed, results, repo, job, faults>>

\* The content goes to the open file, wherever it has been moved.
Write(r) ==
  LET k == sub[r].id
  IN /\ sub[r].at = "open"
     /\ sub' = [sub EXCEPT ![r] = [at |-> "done"]]
     /\ \/ /\ k \in InboxIds
           /\ inbox' = [inbox EXCEPT ![Place(k)].req = r]
           /\ UNCHANGED processed
        \/ k \notin InboxIds /\ processed' = Put(processed, k, r) /\ UNCHANGED inbox
     /\ UNCHANGED <<results, repo, job, faults>>

SubmitKilled(r) ==
  /\ Underway(r) /\ faults < MaxFaults
  /\ faults' = faults + 1
  /\ sub' = [sub EXCEPT ![r] = [at |-> "dead"]]
  /\ UNCHANGED <<files, repo, job>>
-----------------------------------------------------------------------------
(* Pull. *)

At(w, step, next) == job[w].at = step /\ job' = [job EXCEPT ![w].at = next]

TakenAs(k) == [at |-> "read", id |-> k, req |-> Head(inbox).req,
                   branch |-> 0, base |-> 0, back |-> 0]

\* The oldest file; json.loads raises on one that is torn.
TakeUnanswered(w) ==  \* mutant: a request with an outcome is not taken up again
  /\ job[w] = Idle /\ inbox # <<>> /\ Head(inbox).req # Torn
  /\ Head(inbox).id \notin DOMAIN outcomes
  /\ job' = [job EXCEPT ![w] = TakenAs(Head(inbox).id)]
  /\ UNCHANGED <<files, repo, sub, faults>>
Take(w) ==
  /\ job[w] = Idle /\ inbox # <<>> /\ Head(inbox).req # Torn
  /\ job' = [job EXCEPT ![w] = TakenAs(Head(inbox).id)]
  /\ UNCHANGED <<files, repo, sub, faults>>

\* Any outcome but promotion is committed to the outcome ref of the id ...
Reject(w) ==
  LET k == job[w].id
  IN /\ At(w, "read", "answered")
     /\ outcomes' = Put(outcomes, k, Append(IF k \in DOMAIN outcomes THEN outcomes[k] ELSE <<>>,
                                            job[w].req))
     /\ UNCHANGED <<files, branches, head, sub, faults>>

\* ... and when that fails the request stays where it is.
RejectFailsAndGoesOn(w) ==  \* mutant: the failure of the publication is ignored
  /\ At(w, "read", "answered") /\ faults < MaxFaults
  /\ faults' = faults + 1
  /\ UNCHANGED <<files, repo, sub>>
RejectFails(w) ==
  /\ job[w].at = "read" /\ faults < MaxFaults
  /\ faults' = faults + 1
  /\ job' = [job EXCEPT ![w] = Idle]
  /\ UNCHANGED <<files, repo, sub>>

\* A branch name that is free now, and the branch to start from.
FreeBranch == FirstFree(DOMAIN branches \ {0})
DefaultBranchIsHead == head  \* mutant: the current branch is taken for the default one
DefaultBranch == IF OriginHead THEN 0 ELSE head
Name(w) ==
  /\ job[w].at = "read"
  /\ job' = [job EXCEPT ![w].at = "named", ![w].branch = FreeBranch, ![w].base = DefaultBranch]
  /\ UNCHANGED <<files, repo, sub, faults>>

\* checkout -B: the branch is made, or reset, to its base.
Checkout(w) ==
  /\ job[w].at = "named"
  /\ branches' = Put(branches, job[w].branch, branches[job[w].base])
  /\ head' = job[w].branch
  /\ job' = [job EXCEPT ![w].at = "checked_out", ![w].back = head]
  /\ UNCHANGED <<files, outcomes, sub, faults>>

\* The commit goes to whatever is checked out.
Commit(w) ==
  /\ At(w, "checked_out", "committed")
  /\ branches' = [branches EXCEPT ![head] = Append(@, job[w].req)]
  /\ UNCHANGED <<files, outcomes, head, sub, faults>>

Restore(w) ==
  /\ At(w, "committed", "answered")
  /\ head' = job[w].back
  /\ UNCHANGED <<files, outcomes, branches, sub, faults>>

\* When files cannot be written or committed the working tree goes back all the
\* same, to leave a branch without a series.
WriteFails(w) ==
  /\ job[w].at = "checked_out" /\ faults < MaxFaults
  /\ faults' = faults + 1
  /\ head' = job[w].back
  /\ job' = [job EXCEPT ![w] = Idle]
  /\ UNCHANGED <<files, outcomes, branches, sub>>

\* _mark_processed: move the file, which raises when it is gone, ...
Move(w) ==
  LET k == job[w].id
  IN /\ job[w].at = "answered"
     /\ \/ /\ k \in InboxIds
           /\ At(w, "answered", "moved")
           /\ processed' = Put(processed, k, inbox[Place(k)].req)
           /\ inbox' = Without(k)
        \/ k \notin InboxIds /\ job' = [job EXCEPT ![w] = Idle] /\ UNCHANGED <<processed, inbox>>
     /\ UNCHANGED <<results, repo, sub, faults>>

\* ... then write the result.
Result(w) ==
  /\ job[w].at = "moved"
  /\ results' = Put(results, job[w].id, IF job[w].branch = 0 THEN "rejected" ELSE "promoted")
  /\ job' = [job EXCEPT ![w] = Idle]
  /\ UNCHANGED <<inbox, processed, repo, sub, faults>>

\* A kill, or an exception out of intake before anything was written.
WorkerKilled(w) ==
  /\ job[w] # Idle /\ faults < MaxFaults
  /\ faults' = faults + 1
  /\ job' = [job EXCEPT ![w] = Idle]
  /\ UNCHANGED <<files, repo, sub>>

SubmitStep(r) == ListInbox(r) \/ NextId(r) \/ Open(r) \/ Write(r)
WorkerStep(w) == \/ Take(w) \/ Reject(w) \/ Name(w) \/ Checkout(w) \/ Commit(w)
                 \/ Restore(w) \/ Move(w) \/ Result(w)

Next ==
  \/ \E r \in Requests : SubmitStep(r) \/ SubmitKilled(r)
  \/ \E w \in Workers : WorkerStep(w) \/ RejectFails(w) \/ WriteFails(w) \/ WorkerKilled(w)

\* Submissions that are under way go on; pull runs again and again.
Spec == /\ Init /\ [][Next]_vars
        /\ \A r \in Requests : WF_vars(NextId(r) \/ Open(r) \/ Write(r))
        /\ \A w \in Workers : WF_vars(WorkerStep(w))
-----------------------------------------------------------------------------
(* Properties. *)

\* The requests that were answered under id k.
AnsweredAs(k) == IF k \in DOMAIN outcomes THEN Range(outcomes[k]) ELSE {}
Promoted == UNION {Range(branches[n]) : n \in DOMAIN branches \ {0}}

\* "raw request records stay in the inbox and are processed by" pull (submit.py):
\* a request that was submitted is in the inbox until it has been answered by
\* an outcome under its id or by a series.
StaysUntilAnswered ==
  \A r \in Requests : sub[r].at = "done" =>
    \/ \E i \in DOMAIN inbox : inbox[i].req = r
    \/ \E k \in DOMAIN processed : processed[k] = r /\ r \in AnsweredAs(k) \cup Promoted

\* An id means one request for ever: neither a later submission nor a retry
\* answers another request under it.
IdsMeanOneRequest ==
  /\ \A k \in DOMAIN outcomes : Cardinality(AnsweredAs(k)) = 1
  /\ \A k \in DOMAIN processed : AnsweredAs(k) \subseteq {processed[k]} /\ k \notin InboxIds

\* No series is built on another request's, and the default branch stays clean,
\* wherever a worker was killed.
SeriesHoldOneRequest ==
  /\ branches[0] = <<>>
  /\ \A n \in DOMAIN branches : Len(branches[n]) <= 1

\* Only a fault makes a request a second series.
OneSeriesPerRequest ==
  \A r \in Requests :
    Cardinality({n \in DOMAIN branches : r \in Range(branches[n])}) <= 1 + faults

\* Every submitted request is processed, unless a file that was never written
\* stops the queue: the oldest file is read first, and read again.
Abandoned == \E i \in DOMAIN inbox :
  inbox[i].req = Torn /\ ~\E r \in Requests : sub[r] = [at |-> "open", id |-> inbox[i].id]
Outstanding(r) == sub[r].at = "done" /\ r \notin Range(processed) /\ ~Abandoned
EveryRequestProcessed == \A r \in Requests : Outstanding(r) ~> ~Outstanding(r)
=============================================================================
