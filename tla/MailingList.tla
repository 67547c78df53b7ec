---------------------------- MODULE MailingList ----------------------------
(***************************************************************************)
(* The mailing list of the organisation (ai_org/mailing_list.py): a Git    *)
(* branch to which processes append one commit per mail with compare-and-  *)
(* swap, and per-reader cursor refs that move forward along it.            *)
(*                                                                         *)
(* A commit is identified by its whole first-parent history, as Git does   *)
(* (the object name hashes the parent): here a commit IS the sequence of   *)
(* the entries from genesis to it, <<>> is the absent ref, "is ancestor"   *)
(* is "is prefix", and writing a commit object without publishing it is no *)
(* step.  A process runs one call at a time; between two of its steps the  *)
(* others may run, and it may be killed.                                   *)
(*                                                                         *)
(* Abstracted: the text of a mail (its kind, coordinate and item refs are  *)
(* kept), the seed recorded by genesis, and the argument checks of post(), *)
(* which reject a call before it touches the repository.  Nothing deletes  *)
(* the list branch, so the re-creation inside the append loop (line 95) is *)
(* unreachable and left out.                                               *)
(***************************************************************************)
EXTENDS Naturals, Sequences, SequencesExt

CONSTANTS
  Procs,           \* processes that call the module
  Readers,         \* cursor names
  Mails,           \* the mails that are posted
  Items,           \* patch items named by the refs of QA mails
  Genesis, NoMail, \* the content of the first commit; no call outstanding
  NoReader,        \* no cursor call outstanding
  AppendAttempts,  \* _APPEND_ATTEMPTS
  MaxCalls,        \* bound: MaxCalls[p] calls of post() or ensure_list() by p
  LockTimeouts     \* may update-ref fail because another holds the ref's lock?

ASSUME MailsAssumption ==
  /\ Genesis \notin Mails /\ NoMail \notin Mails /\ Genesis # NoMail
  /\ NoReader \notin Readers
  /\ \A m \in Mails : m.kind \in STRING /\ m.items \in SUBSET Items
ASSUME AttemptsAssumption == AppendAttempts \in Nat \ {0}
ASSUME BoundsAssumption == MaxCalls \in [Procs -> Nat] /\ LockTimeouts \in BOOLEAN

VARIABLES
  head,       \* refs/heads/ai-org/list
  cursor,     \* cursor[r]: refs/ai-org/list-cursors/<r>
  pc,         \* where the call of each process stands
  mail,       \* mail[p]: what p posts (Genesis: ensure_list alone)
  reader,     \* reader[p], target[p]: arguments of advance_cursor
  target,
  expected,   \* the ref value the next compare-and-swap of p expects
  tries,      \* attempts of the current loop so far
  reply,      \* the outcome of the call that has returned
  answer,     \* the commit the outcome names
  calls,      \* calls[p]: how many posts p has begun
  base        \* history variable: length of the list when p's call began

listVars == <<head, cursor>>
procVars == <<pc, mail, reader, target, expected, tries, reply, answer, calls, base>>
vars == <<listVars, procVars>>

Log == INSTANCE MailLog WITH
         log <- head,
         asked <- [p \in Procs |-> IF pc[p] \in {"done", "adv_read", "adv_cas"}
                                   THEN NoMail ELSE mail[p]],
         told <- [p \in Procs |-> IF reply[p] \in {"posted", "existing", "ensured", "failed"}
                                  THEN reply[p] ELSE "nothing"]

Unique(m) == Log!Unique(m)
Holders(h, m) == Log!Holders(h, m)
Entry(m, p, n, seq) == Log!Entry(m, p, n, seq)

CommitEntry == [mail : Mails \cup {Genesis}, by : Procs \X Nat, seq : Nat]
Commit == Seq(CommitEntry)
PostSteps == {"ensure", "genesis", "reread", "read", "scan", "cas"}
AdvanceSteps == {"adv_read", "adv_cas"}

\* git merge-base --is-ancestor on resolved commits.
IsAncestor(a, b) == a # <<>> /\ IsPrefix(a, b)

TypeOK ==
  /\ head \in Commit
  /\ cursor \in [Readers -> Commit]
  /\ pc \in [Procs -> {"idle", "done"} \cup PostSteps \cup AdvanceSteps]
  /\ mail \in [Procs -> Mails \cup {Genesis, NoMail}]
  /\ reader \in [Procs -> Readers \cup {NoReader}]
  /\ target \in [Procs -> Commit]
  /\ expected \in [Procs -> Commit]
  /\ tries \in [Procs -> 0..AppendAttempts]
  /\ reply \in [Procs -> {"nothing", "posted", "existing", "ensured", "failed",
                          "advanced", "unmoved", "refused", "contended"}]
  /\ answer \in [Procs -> Commit]
  /\ calls \in [Procs -> Nat]
  /\ base \in [Procs -> Nat]
-----------------------------------------------------------------------------
Init ==
  /\ head = <<>>
  /\ cursor = [r \in Readers |-> <<>>]
  /\ pc = [p \in Procs |-> "idle"]
  /\ mail = [p \in Procs |-> NoMail]
  /\ reader = [p \in Procs |-> NoReader]
  /\ target = [p \in Procs |-> <<>>]
  /\ expected = [p \in Procs |-> <<>>]
  /\ tries = [p \in Procs |-> 0]
  /\ reply = [p \in Procs |-> "nothing"]
  /\ answer = [p \in Procs |-> <<>>]
  /\ calls = [p \in Procs |-> 0]
  /\ base = [p \in Procs |-> 0]

Goto(p, label) == pc' = [pc EXCEPT ![p] = label]

\* The call of p returns with an outcome naming commit c.
Finish(p, outcome, c) ==
  /\ Goto(p, "done")
  /\ reply' = [reply EXCEPT ![p] = outcome]
  /\ answer' = [answer EXCEPT ![p] = c]

\* The compare-and-swap of update-ref finds another value, or the ref locked.
CasFails(current, old) == current # old \/ LockTimeouts

\* The bounded loops of post and advance_cursor (range(_APPEND_ATTEMPTS)).
AttemptsLeftTooFew(p) == tries[p] + 1 < AppendAttempts  \* mutant
AttemptsLeft(p) == tries[p] < AppendAttempts
-----------------------------------------------------------------------------
\* post(kind, ...) or, for Genesis, ensure_list() is called.
BeginPost(p, m) ==
  /\ pc[p] = "idle" /\ calls[p] < MaxCalls[p]
  /\ Goto(p, "ensure")
  /\ mail' = [mail EXCEPT ![p] = m]
  /\ calls' = [calls EXCEPT ![p] = @ + 1]
  /\ base' = [base EXCEPT ![p] = Len(head)]
  /\ UNCHANGED <<listVars, reader, target, expected, tries, reply, answer>>

\* ensure_list has a head: it was the whole call, or the append loop begins.
Ensured(p, h) ==
  \/ /\ mail[p] = Genesis
     /\ Finish(p, "ensured", h)
  \/ /\ mail[p] # Genesis
     /\ Goto(p, "read")
     /\ UNCHANGED <<reply, answer>>

EnsureRead(p) ==
  /\ pc[p] = "ensure"
  /\ \/ head # <<>> /\ Ensured(p, head)
     \/ head = <<>> /\ Goto(p, "genesis") /\ UNCHANGED <<reply, answer>>
  /\ UNCHANGED <<listVars, mail, reader, target, expected, tries, calls, base>>

\* Publish genesis where the ref must not exist.
EnsureCreate(p) ==
  LET genesis == <<Entry(Genesis, p, calls[p], 0)>> IN
  /\ pc[p] = "genesis"
  /\ \/ /\ head = <<>>
        /\ head' = genesis
        /\ Ensured(p, genesis)
     \/ /\ CasFails(head, <<>>)
        /\ Goto(p, "reread")
        /\ UNCHANGED <<head, reply, answer>>
  /\ UNCHANGED <<cursor, mail, reader, target, expected, tries, calls, base>>

\* Whoever won created the list; with no winner the call fails.
EnsureReread(p) ==
  /\ pc[p] = "reread"
  /\ \/ head # <<>> /\ Ensured(p, head)
     \/ head = <<>> /\ Finish(p, "failed", <<>>)
  /\ UNCHANGED <<listVars, mail, reader, target, expected, tries, calls, base>>

\* Mutant of ReadHead: QA mails are not looked up.
ReadHeadNoScan(p) ==
  /\ pc[p] = "read"
  /\ tries' = [tries EXCEPT ![p] = @ + 1]
  /\ expected' = [expected EXCEPT ![p] = head]
  /\ Goto(p, "cas")
  /\ UNCHANGED <<listVars, mail, reader, target, reply, answer, calls, base>>
\* One attempt of the append loop begins by reading the head.
ReadHead(p) ==
  /\ pc[p] = "read"
  /\ tries' = [tries EXCEPT ![p] = @ + 1]
  /\ expected' = [expected EXCEPT ![p] = head]
  /\ Goto(p, IF Unique(mail[p]) THEN "scan" ELSE "cas")
  /\ UNCHANGED <<listVars, mail, reader, target, reply, answer, calls, base>>

\* _qa_post_for_item reads the list as it is NOW, not as of `expected`.
ScanQa(p) ==
  LET found == Holders(head, mail[p]) IN
  /\ pc[p] = "scan"
  /\ \/ /\ found # {}
        /\ \E k \in found :
             /\ \A j \in found : k <= j
             /\ Finish(p, "existing", SubSeq(head, 1, k))
     \/ found = {} /\ Goto(p, "cas") /\ UNCHANGED <<reply, answer>>
  /\ UNCHANGED <<listVars, mail, reader, target, expected, tries, calls, base>>

\* Mutant of Publish: the mail goes on top of whatever the head is now.
PublishRebased(p) ==
  LET commit == Append(head, Entry(mail[p], p, calls[p], Len(expected[p]))) IN
  /\ pc[p] = "cas"
  /\ head' = commit
  /\ Finish(p, "posted", commit)
  /\ UNCHANGED <<cursor, mail, reader, target, expected, tries, calls, base>>
\* Compose the commit on `expected`, numbered by its first-parent count, and
\* publish it; on a lost swap try again while attempts are left.
Publish(p) ==
  LET commit == Append(expected[p],
                       Entry(mail[p], p, calls[p], Len(expected[p]))) IN
  /\ pc[p] = "cas"
  /\ \/ /\ head = expected[p]
        /\ head' = commit
        /\ Finish(p, "posted", commit)
     \/ /\ CasFails(head, expected[p])
        /\ \/ AttemptsLeft(p) /\ Goto(p, "read") /\ UNCHANGED <<reply, answer>>
           \/ ~AttemptsLeft(p) /\ Finish(p, "failed", <<>>)
        /\ UNCHANGED head
  /\ UNCHANGED <<cursor, mail, reader, target, expected, tries, calls, base>>
-----------------------------------------------------------------------------
\* advance_cursor(reader, commit): the target must be a commit of the list.
BeginAdvance(p, r, t) ==
  /\ pc[p] = "idle"
  /\ reader' = [reader EXCEPT ![p] = r]
  /\ target' = [target EXCEPT ![p] = t]
  /\ \/ IsAncestor(t, head) /\ Goto(p, "adv_read") /\ UNCHANGED <<reply, answer>>
     \/ ~IsAncestor(t, head) /\ Finish(p, "refused", <<>>)
  /\ UNCHANGED <<listVars, mail, expected, tries, calls, base>>

AdvanceRead(p) ==
  LET current == cursor[reader[p]] IN
  /\ pc[p] = "adv_read"
  /\ \/ current = target[p] /\ Finish(p, "unmoved", current) /\ UNCHANGED <<expected, tries>>
     \/ /\ current \notin {<<>>, target[p]} /\ ~IsAncestor(current, target[p])
        /\ Finish(p, "refused", current)
        /\ UNCHANGED <<expected, tries>>
     \/ /\ current # target[p] /\ (current = <<>> \/ IsAncestor(current, target[p]))
        /\ expected' = [expected EXCEPT ![p] = current]
        /\ tries' = [tries EXCEPT ![p] = @ + 1]
        /\ Goto(p, "adv_cas")
        /\ UNCHANGED <<reply, answer>>
  /\ UNCHANGED <<listVars, mail, reader, target, calls, base>>

\* Mutant of AdvanceCas: the cursor is set without naming its old value.
AdvanceCasBlindly(p) ==
  /\ pc[p] = "adv_cas"
  /\ cursor' = [cursor EXCEPT ![reader[p]] = target[p]]
  /\ Finish(p, "advanced", target[p])
  /\ UNCHANGED <<head, mail, reader, target, expected, tries, calls, base>>

\* Swap the cursor from the value that was read; on a lost swap read it again.
AdvanceCas(p) ==
  LET r == reader[p] IN
  /\ pc[p] = "adv_cas"
  /\ \/ /\ cursor[r] = expected[p]
        /\ cursor' = [cursor EXCEPT ![r] = target[p]]
        /\ Finish(p, "advanced", target[p])
     \/ /\ CasFails(cursor[r], expected[p])
        /\ \/ AttemptsLeft(p) /\ Goto(p, "adv_read") /\ UNCHANGED <<reply, answer>>
           \/ ~AttemptsLeft(p) /\ Finish(p, "contended", <<>>)
        /\ UNCHANGED cursor
  /\ UNCHANGED <<head, mail, reader, target, expected, tries, calls, base>>
-----------------------------------------------------------------------------
\* The locals of a call are gone: it has returned, or the process was killed.
Forget(p) ==
  /\ Goto(p, "idle")
  /\ mail' = [mail EXCEPT ![p] = NoMail]
  /\ reader' = [reader EXCEPT ![p] = NoReader]
  /\ target' = [target EXCEPT ![p] = <<>>]
  /\ expected' = [expected EXCEPT ![p] = <<>>]
  /\ tries' = [tries EXCEPT ![p] = 0]
  /\ reply' = [reply EXCEPT ![p] = "nothing"]
  /\ answer' = [answer EXCEPT ![p] = <<>>]
  /\ base' = [base EXCEPT ![p] = 0]
  /\ UNCHANGED <<listVars, calls>>

Return(p) == pc[p] = "done" /\ Forget(p)

Crash(p) == pc[p] \notin {"idle", "done"} /\ Forget(p)

PostStep(p) ==
  \/ EnsureRead(p) \/ EnsureCreate(p) \/ EnsureReread(p)
  \/ ReadHead(p) \/ ScanQa(p) \/ Publish(p)

AdvanceStep(p) == AdvanceRead(p) \/ AdvanceCas(p)

Next ==
  \E p \in Procs :
    \/ \E m \in Mails \cup {Genesis} : BeginPost(p, m)
    \/ \E r \in Readers, t \in Prefixes(head) : BeginAdvance(p, r, t)
    \/ PostStep(p)
    \/ AdvanceStep(p)
    \/ Return(p)
    \/ Crash(p)

Spec == Init /\ [][Next]_vars

-----------------------------------------------------------------------------
\* The QA scan and the append are separate Git commands, and two harvesters
\* may work on one contribution; still no patch item gets two QA mails
\* (mailing_list.post: _qa_item_ref, _qa_post_for_item, the head CAS).
QaOncePerItem ==
  \A i, j \in DOMAIN head :
    /\ head[i].mail # Genesis /\ head[j].mail # Genesis
    /\ Unique(head[i].mail) /\ head[j].mail.kind = "qa"
    /\ head[i].mail.items = head[j].mail.items
    => i = j

\* A Message-Id (kind, coordinate, first-parent ordinal) names one mail: the
\* ordinal is computed from the expected parent before the swap, possibly on
\* several attempts, and must still be the position the mail really gets.
MessageIdsUnique ==
  \A i, j \in DOMAIN head :
    /\ head[i].mail # Genesis /\ head[j].mail # Genesis
    /\ head[i].mail.kind = head[j].mail.kind
    /\ head[i].mail.coord = head[j].mail.coord
    /\ head[i].seq = head[j].seq
    => i = j

\* What post() answers stays true for ever: a posted commit is on the list and
\* ends in this call's mail; "existing" names a QA mail of the same item; and
\* a call that failed has left nothing behind.
RepliesHonest ==
  \A p \in Procs :
    /\ reply[p] = "posted" =>
         /\ IsAncestor(answer[p], head)
         /\ Last(answer[p]) = Entry(mail[p], p, calls[p], Len(answer[p]) - 1)
    /\ reply[p] = "existing" =>
         /\ IsAncestor(answer[p], head)
         /\ Len(answer[p]) \in Holders(head, mail[p])
    /\ reply[p] \in {"existing", "failed"} =>
         \A k \in DOMAIN head : head[k].mail # Genesis => head[k].by # <<p, calls[p]>>

\* post() gives up on contention only when as many mails of others went in
\* while it tried (the bounded retry of mailing_list.post never gives up on a
\* quiet list).
GivingUpMeansProgress ==
  \A p \in Procs :
    reply[p] = "failed" /\ ~LockTimeouts => Len(head) >= base[p] + AppendAttempts

\* Cursors stay on the list: the target was checked against the head of an
\* earlier moment, which is safe only because history is never rewritten.
CursorsOnList == \A r \in Readers : IsPrefix(cursor[r], head)

\* The branch is never rewritten: each step of it appends exactly one commit.
AppendOnly == [][IsPrefix(head, head') /\ Len(head') = Len(head) + 1]_head

\* advance_cursor reads the cursor, tests ancestry and swaps in three
\* commands; sessions that share a reader name never pull it back.
CursorsMonotone == [][\A r \in Readers : IsPrefix(cursor[r], cursor'[r])]_cursor

\* The Git protocol implements the atomic log.
ImplementsMailLog == Log!Spec

=============================================================================
