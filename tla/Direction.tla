----------------------------- MODULE Direction -----------------------------
(***************************************************************************)
(* What becomes of an objection: the deliberation about one series, from    *)
(* its review rounds to the acceptance of the patches written for it.      *)
(*                                                                         *)
(* Every round is blank: reviewers do not see what was objected before,    *)
(* and name their objections themselves.  The engine matches by name: an   *)
(* objection that is the requester's to settle becomes an assumption in    *)
(* the cover; one that the author proposed to defer, with a check, and a   *)
(* reviewer accepts, becomes a question the patch must answer; any other   *)
(* blocking objection sends the series back to its author.  A worker runs  *)
(* the checks and writes an outcome for each, and the judge compares.      *)
(*                                                                         *)
(* Of a review the module takes the objections as consolidated; Revision   *)
(* says what a reform does to the tree, PatchSeries how rounds and commits *)
(* interleave, Contribution how submissions and verdicts do.               *)
(***************************************************************************)
EXTENDS Naturals

CONSTANTS
  Ids,        \* names that reviewers give to objections
  Topics,     \* names of the questions that an author may close
  Checks,     \* the checks an author may propose
  Workers,    \* who write patches for the series, one each
  MaxRounds,  \* _max_review_rounds
  Hearings,   \* the sets of objections that a round may raise
  FreshIds    \* whether a reviewer never takes a name that stands for another objection

VARIABLES
  head,       \* what the newest commit of the series branch says of it
  rounds,     \* review records on the branch
  record,     \* the objections of the latest record
  ledger,     \* the deferrals proposed since, in the delta of the latest reform
  assumed,    \* names recorded as requester assumptions in the cover
  questions,  \* the questions the patch must answer
  patch,      \* of each worker: its stage, its brief, and the outcomes it has
  demoted,    \* history: names the requester took from the author
  accepted    \* history: the proposals that a round accepted

series == <<head, rounds, record, ledger, assumed, questions>>
directionVars == <<series, patch, demoted, accepted>>

IdsOf(S) == {x.id : x \in S}

Blocks(o) == o.blocking /\ o.status = "open"

Raised  == [id : Ids, authority : {"author", "requester"}, blocking : BOOLEAN,
            status : {"open", "deferral_accepted"}]
Entries == [id : Ids \cup Topics, check : Checks]

(* What the author settles, and what the requester does.                   *)
AuthorBlocking    == {o \in record : Blocks(o) /\ o.authority = "author"}
RequesterBlocking == {o \in record : Blocks(o) /\ o.authority = "requester"}

NoPatch == [stage |-> "none", brief |-> {}, outcomes |-> {}]

DirectionInit ==
  /\ head = "posted" /\ rounds = 0 /\ record = {} /\ ledger = {}
  /\ assumed = {} /\ questions = {}
  /\ patch = [w \in Workers |-> NoPatch]
  /\ demoted = {} /\ accepted = {}

-----------------------------------------------------------------------------
(* A review round: _run_patch_series_review after the reviewers.           *)

(* An acceptance holds only for what is on the author's ledger.            *)
Heard(found) ==
  {IF o.status = "deferral_accepted" /\ o.id \notin IdsOf(ledger)
   THEN [o EXCEPT !.status = "open"] ELSE o : o \in found}

Deferred(found) == {o \in Heard(found) : o.status = "deferral_accepted"}

(* record_requester_authority_assumptions.                                 *)
Assumptions(found) ==
  assumed \cup IdsOf({o \in Heard(found) : Blocks(o) /\ o.authority = "requester"})

(* _with_assumption_status: by the name alone.                             *)
Final(found) ==
  {IF o.id \in Assumptions(found) THEN [o EXCEPT !.status = "assumption_recorded"] ELSE o :
   o \in Heard(found)}

(* _derive_verdict, and the backstop of the last round.                    *)
RequesterOnly(found) == found # {} /\ \A o \in found : o.authority = "requester"

Verdict(found, nak) ==
  IF nak /\ ~RequesterOnly(found) THEN "nak"
  ELSE IF \E o \in Final(found) : Blocks(o)
       THEN IF rounds >= MaxRounds THEN "nak" ELSE "needs_revision"
       ELSE "direction-ok"

(* _questions_the_patch_must_answer: a known name is not entered again.    *)
NewQuestions(found) ==
  {p \in ledger : p.id \in IdsOf(Deferred(found)) \ IdsOf(questions)}

Distinct(found) ==
  /\ IdsOf(found) \cap (assumed \cup IdsOf(questions)) = {}
  /\ \A o, q \in found : o.id = q.id => o = q

Review(found, nak) ==
  /\ head \in {"posted", "revised"}
  /\ FreshIds => Distinct(found)
  /\ head' = Verdict(found, nak)
  /\ rounds' = rounds + 1
  /\ record' = Final(found)
  /\ ledger' = {}
  /\ IF Verdict(found, nak) = "nak"
     THEN UNCHANGED <<assumed, questions, accepted>>
     ELSE /\ assumed' = Assumptions(found)
          /\ questions' = questions \cup NewQuestions(found)
          /\ accepted' = accepted \cup {p \in ledger : p.id \in IdsOf(Deferred(found))}
  /\ UNCHANGED <<patch, demoted>>

(* The second port of requester_assumptions: between a review and the      *)
(* reform the requester takes an objection from the author.                *)
Demote(o) ==
  /\ head = "needs_revision"
  /\ o \in AuthorBlocking
  /\ record' = (record \ {o}) \cup {[o EXCEPT !.authority = "requester"]}
  /\ demoted' = demoted \cup {o.id}
  /\ UNCHANGED <<head, rounds, ledger, assumed, questions, patch, accepted>>

(* reform_patch_series.  A need objection has the cover grounded anew,     *)
(* which keeps what it keeps of the assumptions.  proposals passed the     *)
(* guard of _non_deferrable_surfaces; routed are the open questions closed *)
(* as questions to the patch (_questions_artifact_with_routed_closures).   *)
Reform(regrounded, kept, proposals, routed) ==
  /\ head = "needs_revision"
  /\ regrounded => AuthorBlocking # {}
  /\ kept \subseteq assumed
  /\ IdsOf(proposals) \subseteq IdsOf(AuthorBlocking)
  /\ \A p, q \in proposals : p.id = q.id => p = q
  /\ head' = "revised"
  /\ assumed' = (IF regrounded THEN kept ELSE assumed) \cup IdsOf(RequesterBlocking)
  /\ ledger' = proposals
  /\ questions' = questions \cup {r \in routed : r.id \notin IdsOf(questions)}
  /\ UNCHANGED <<rounds, record, patch, demoted, accepted>>

-----------------------------------------------------------------------------
(* The patch: drive and address_feedback of the worker, check of the judge. *)

(* load_brief, once the direction is settled.                              *)
LoadBrief(w) ==
  /\ head = "direction-ok"
  /\ patch[w].stage = "none"
  /\ patch' = [patch EXCEPT ![w] = [stage |-> "driven", brief |-> questions, outcomes |-> {}]]
  /\ UNCHANGED <<series, demoted, accepted>>

(* _answer_must_answer_questions: the check passes, or does so after the   *)
(* one pivot to the contingency.                                           *)
Answer(w, q) ==
  /\ patch[w].stage = "driven"
  /\ q \in patch[w].brief
  /\ patch' = [patch EXCEPT ![w].outcomes = @ \cup {q.id}]
  /\ UNCHANGED <<series, demoted, accepted>>

(* Neither does, or the contingency would change the direction: a report   *)
(* goes to the series, nothing is submitted.                               *)
DriveFails(w) ==
  /\ patch[w].stage = "driven"
  /\ patch' = [patch EXCEPT ![w] = NoPatch]
  /\ UNCHANGED <<series, demoted, accepted>>

(* _write_result_artifact: an outcome per question of the brief, no other. *)
WriteResult(w) ==
  /\ patch[w].stage = "driven"
  /\ patch[w].outcomes = IdsOf(patch[w].brief)
  /\ patch' = [patch EXCEPT ![w].stage = "submitted"]
  /\ UNCHANGED <<series, demoted, accepted>>

(* _must_answer_questions_rejection, on the questions of the series.       *)
Complete(w) == patch[w].outcomes = IdsOf(questions)

Judge(w, functional) ==
  /\ patch[w].stage = "submitted"
  /\ patch' = [patch EXCEPT ![w].stage =
                 IF functional /\ Complete(w) THEN "accepted" ELSE "blocked"]
  /\ UNCHANGED <<series, demoted, accepted>>

(* address_feedback: a new brief, the outcomes of the result there was.    *)
AddressFeedback(w) ==
  /\ patch[w].stage = "blocked"
  /\ patch[w].outcomes = IdsOf(questions)
  /\ patch' = [patch EXCEPT ![w].stage = "submitted", ![w].brief = questions]
  /\ UNCHANGED <<series, demoted, accepted>>

Deliberate ==
  \/ \E found \in Hearings, nak \in BOOLEAN : Review(found, nak)
  \/ \E o \in record : Demote(o)
  \/ \E regrounded \in BOOLEAN, kept \in SUBSET assumed,
        proposals \in SUBSET [id : Ids, check : Checks],
        routed \in SUBSET [id : Topics, check : Checks] :
       Reform(regrounded, kept, proposals, routed)

Implement(w) ==
  \/ LoadBrief(w)
  \/ \E q \in patch[w].brief : Answer(w, q)
  \/ DriveFails(w)
  \/ WriteResult(w)
  \/ \E functional \in BOOLEAN : Judge(w, functional)
  \/ AddressFeedback(w)

DirectionNext ==
  \/ Deliberate
  \/ \E w \in Workers : Implement(w)

DirectionSpec == DirectionInit /\ [][DirectionNext]_directionVars

-----------------------------------------------------------------------------
DirectionTypeOK ==
  /\ head \in {"posted", "revised", "needs_revision", "direction-ok", "nak"}
  /\ rounds \in Nat
  /\ record \subseteq [id : Ids, authority : {"author", "requester"}, blocking : BOOLEAN,
                       status : {"open", "deferral_accepted", "assumption_recorded"}]
  /\ ledger \subseteq [id : Ids, check : Checks]
  /\ assumed \subseteq Ids /\ demoted \subseteq Ids
  /\ questions \subseteq Entries
  /\ accepted \subseteq [id : Ids, check : Checks]
  /\ patch \in [Workers -> [stage : {"none", "driven", "submitted", "blocked", "accepted"},
                            brief : SUBSET Entries, outcomes : SUBSET (Ids \cup Topics)]]

(* "direction-ok means zero open blocking objections", and only those that *)
(* are the requester's to settle become assumptions: a direction is never  *)
(* settled over a blocking objection to the author that was not deferred,  *)
(* unless the requester took one of that name from the author              *)
(* (_with_assumption_status, _derive_verdict).                             *)
AuthorBlockersBlock ==
  head = "direction-ok" =>
    \A o \in record :
      o.blocking /\ o.authority = "author" /\ o.id \notin demoted =>
        o.status = "deferral_accepted"

(* "deferred-and-forgotten is the documented failure mode this closes": an *)
(* accepted patch has an outcome for the name of every deferral that a     *)
(* round accepted (_questions_the_patch_must_answer,                       *)
(* _must_answer_questions_rejection).                                      *)
DeferredIsAnswered ==
  \A w \in Workers :
    patch[w].stage = "accepted" => IdsOf(accepted) \subseteq patch[w].outcomes

(* What the patch is made to answer was agreed: each question is a closure *)
(* of the author's or a proposal that a round accepted.                    *)
QuestionsAgreed ==
  \A q \in questions : q.id \in Ids => q \in accepted

(* At most MaxRounds reforms: a series that is sent back has rounds left.  *)
RoundsBounded == rounds <= MaxRounds + 1

=============================================================================
