------------------------ MODULE MailingList_proofs ------------------------
(***************************************************************************)
(* Proofs about MailingList, for any number of processes, readers, mails   *)
(* and attempts.                                                           *)
(***************************************************************************)
EXTENDS MailingList, SequenceTheorems, TLAPS

(***************************************************************************)
(* Facts about histories.                                                  *)
(***************************************************************************)
\* Prefix, position by position: what "is ancestor" means for histories.
LEMMA PrefixPointwise ==
  ASSUME NEW S, NEW a \in Seq(S), NEW b \in Seq(S)
  PROVE  IsPrefix(a, b) <=> Len(a) <= Len(b) /\ \A i \in 1..Len(a) : a[i] = b[i]
<1>1. SubSeq(a, 1, Len(a)) = a
  BY SubSeqFull
<1>2. ASSUME Len(a) <= Len(b)
      PROVE  /\ SubSeq(b, 1, Len(a)) \in Seq(S)
             /\ Len(SubSeq(b, 1, Len(a))) = Len(a)
             /\ \A i \in 1..Len(a) : SubSeq(b, 1, Len(a))[i] = b[i]
  <2>1. Len(a) \in Nat /\ Len(b) \in Nat
    BY LenProperties
  <2>2. \A i \in 1..Len(a) : b[i] \in S
    BY <1>2, <2>1, ElementOfSeq
  <2>. QED
    BY <2>1, <2>2, SubSeqProperties
<1>3. ASSUME Len(a) <= Len(b), \A i \in 1..Len(a) : a[i] = b[i]
      PROVE  a = SubSeq(b, 1, Len(a))
  BY <1>2, <1>3, SeqEqual
<1>. QED
  BY <1>1, <1>2, <1>3 DEF IsPrefix

LEMMA PrefixReflexive ==
  ASSUME NEW S, NEW a \in Seq(S)
  PROVE  IsPrefix(a, a)
BY PrefixPointwise, LenProperties

LEMMA PrefixTransitive ==
  ASSUME NEW S, NEW a \in Seq(S), NEW b \in Seq(S), NEW c \in Seq(S),
         IsPrefix(a, b), IsPrefix(b, c)
  PROVE  IsPrefix(a, c)
<1>1. Len(a) \in Nat /\ Len(b) \in Nat /\ Len(c) \in Nat
  BY LenProperties
<1>. QED
  BY <1>1, PrefixPointwise

LEMMA PrefixOfAppend ==
  ASSUME NEW S, NEW a \in Seq(S), NEW b \in Seq(S), NEW e \in S, IsPrefix(a, b)
  PROVE  IsPrefix(a, Append(b, e))
<1>1. Append(b, e) \in Seq(S) /\ Len(Append(b, e)) = Len(b) + 1
      /\ \A i \in 1..Len(b) : Append(b, e)[i] = b[i]
  BY AppendProperties
<1>2. Len(a) \in Nat /\ Len(b) \in Nat
  BY LenProperties
<1>3. Len(a) <= Len(b) /\ \A i \in 1..Len(a) : a[i] = b[i]
  BY PrefixPointwise
<1>4. Len(a) <= Len(Append(b, e)) /\ \A i \in 1..Len(a) : a[i] = Append(b, e)[i]
  BY <1>1, <1>2, <1>3
<1>. QED
  BY <1>1, <1>4, PrefixPointwise

LEMMA PrefixOfMember ==
  ASSUME NEW S, NEW b \in Seq(S), NEW a \in Prefixes(b)
  PROVE  a \in Seq(S) /\ IsPrefix(a, b)
<1>1. PICK l \in 0..Len(b) : a = SubSeq(b, 1, l)
  BY DEF Prefixes
<1>2. Len(b) \in Nat /\ \A i \in 1..l : b[i] \in S
  BY LenProperties, ElementOfSeq
<1>3. a \in Seq(S) /\ Len(a) = l /\ \A i \in 1..l : a[i] = b[i]
  BY <1>1, <1>2, SubSeqProperties
<1>. QED
  BY <1>2, <1>3, PrefixPointwise

(***************************************************************************)
(* Which call is running: a posting process has a mail (not Genesis once   *)
(* past ensure_list), an advancing one a reader.                           *)
(***************************************************************************)
CallsWellFormed ==
  \A p \in Procs :
    /\ pc[p] \in PostSteps => mail[p] # NoMail
    /\ pc[p] \in {"read", "scan", "cas"} => mail[p] # Genesis
    /\ pc[p] \in AdvanceSteps => reader[p] # NoReader
    /\ pc[p] \in {"idle", "ensure", "genesis", "reread"} => tries[p] = 0
    /\ pc[p] \in {"read", "adv_read"} => tries[p] < AppendAttempts

(***************************************************************************)
(* Type correctness.                                                       *)
(***************************************************************************)
LEMMA EntryType ==
  ASSUME NEW m \in Mails \cup {Genesis}, NEW p \in Procs, NEW n \in Nat, NEW seq \in Nat
  PROVE  /\ Entry(m, p, n, seq) \in CommitEntry
         /\ Entry(m, p, n, seq).mail = m
         /\ Entry(m, p, n, seq).by = <<p, n>>
         /\ Entry(m, p, n, seq).seq = seq
BY DEF Entry, Log!Entry, CommitEntry

LEMMA AppendType ==
  ASSUME NEW h \in Commit, NEW m \in Mails \cup {Genesis}, NEW p \in Procs, NEW n \in Nat
  PROVE  Append(h, Entry(m, p, n, Len(h))) \in Commit
<1>1. Len(h) \in Nat
  BY LenProperties DEF Commit
<1>2. Entry(m, p, n, Len(h)) \in CommitEntry
  BY <1>1, EntryType
<1>. QED
  BY <1>2, AppendProperties DEF Commit

LEMMA GenesisType ==
  ASSUME NEW p \in Procs, NEW n \in Nat
  PROVE  /\ <<Entry(Genesis, p, n, 0)>> \in Commit
         /\ <<Entry(Genesis, p, n, 0)>> = Append(<<>>, Entry(Genesis, p, n, 0))
<1>1. Entry(Genesis, p, n, 0) \in CommitEntry
  BY EntryType
<1>. QED
  BY <1>1 DEF Commit

LEMMA InitType == Init => TypeOK
<1>1. <<>> \in Commit
  BY EmptySeq DEF Commit
<1>. QED
  BY <1>1, AttemptsAssumption DEF Init, TypeOK

\* The part of the state that Finish, Goto and Ensured assign.
ReturnType ==
  /\ pc \in [Procs -> {"idle", "done"} \cup PostSteps \cup AdvanceSteps]
  /\ reply \in [Procs -> {"nothing", "posted", "existing", "ensured", "failed",
                          "advanced", "unmoved", "refused", "contended"}]
  /\ answer \in [Procs -> Commit]

LEMMA FinishType ==
  ASSUME ReturnType, NEW p \in Procs, NEW c \in Commit,
         NEW outcome \in {"posted", "existing", "ensured", "failed",
                          "advanced", "unmoved", "refused", "contended"},
         Finish(p, outcome, c)
  PROVE  ReturnType'
BY DEF ReturnType, Finish, Goto

LEMMA GotoType ==
  ASSUME ReturnType, NEW p \in Procs, NEW label \in PostSteps \cup AdvanceSteps,
         Goto(p, label), UNCHANGED <<reply, answer>>
  PROVE  ReturnType'
BY DEF ReturnType, Goto

LEMMA EnsuredType ==
  ASSUME ReturnType, NEW p \in Procs, NEW h \in Commit, Ensured(p, h)
  PROVE  ReturnType'
<1>1. CASE Finish(p, "ensured", h)
  BY <1>1, FinishType
<1>2. CASE Goto(p, "read") /\ UNCHANGED <<reply, answer>>
  BY <1>2, GotoType DEF PostSteps
<1>. QED
  BY <1>1, <1>2 DEF Ensured

LEMMA PostStepType ==
  ASSUME TypeOK, CallsWellFormed, NEW p \in Procs, PostStep(p)
  PROVE  TypeOK'
<1>0. ReturnType /\ <<>> \in Commit /\ Len(head) \in Nat /\ Len(expected[p]) \in Nat
  BY EmptySeq, LenProperties DEF Commit, TypeOK, ReturnType
<1>1. CASE EnsureRead(p)
  <2>1. ReturnType'
    <3>1. CASE Ensured(p, head)
      BY <1>0, <3>1, EnsuredType DEF TypeOK
    <3>2. CASE Goto(p, "genesis") /\ UNCHANGED <<reply, answer>>
      BY <1>0, <3>2, GotoType DEF PostSteps
    <3>. QED
      BY <1>1, <3>1, <3>2 DEF EnsureRead
  <2>. QED
    BY <1>1, <2>1 DEF EnsureRead, TypeOK, ReturnType, listVars
<1>2. CASE EnsureCreate(p)
  <2>1. <<Entry(Genesis, p, calls[p], 0)>> \in Commit
    BY GenesisType DEF TypeOK
  <2>2. ReturnType'
    <3>1. CASE Ensured(p, <<Entry(Genesis, p, calls[p], 0)>>)
      BY <1>0, <2>1, <3>1, EnsuredType
    <3>2. CASE Goto(p, "reread") /\ UNCHANGED <<reply, answer>>
      BY <1>0, <3>2, GotoType DEF PostSteps
    <3>. QED
      BY <1>2, <3>1, <3>2 DEF EnsureCreate
  <2>3. head' \in Commit
    BY <1>2, <2>1 DEF EnsureCreate, TypeOK
  <2>. QED
    BY <1>2, <2>2, <2>3 DEF EnsureCreate, TypeOK, ReturnType
<1>3. CASE EnsureReread(p)
  <2>1. ReturnType'
    <3>1. CASE Ensured(p, head)
      BY <1>0, <3>1, EnsuredType DEF TypeOK
    <3>2. CASE Finish(p, "failed", <<>>)
      BY <1>0, <3>2, FinishType
    <3>. QED
      BY <1>3, <3>1, <3>2 DEF EnsureReread
  <2>. QED
    BY <1>3, <2>1 DEF EnsureReread, TypeOK, ReturnType, listVars
<1>4. CASE ReadHead(p)
  <2>1. tries[p] + 1 \in 0..AppendAttempts
    BY <1>4, AttemptsAssumption DEF ReadHead, TypeOK, CallsWellFormed
  <2>. QED
    BY <1>4, <2>1 DEF ReadHead, Goto, TypeOK, listVars, PostSteps
<1>5. CASE ScanQa(p)
  <2>1. \A k \in DOMAIN head : SubSeq(head, 1, k) \in Commit
    <3>. SUFFICES ASSUME NEW k \in DOMAIN head PROVE SubSeq(head, 1, k) \in Commit
      OBVIOUS
    <3>1. k \in Nat /\ \A i \in 1..k : head[i] \in CommitEntry
      BY LenProperties, ElementOfSeq DEF TypeOK, Commit
    <3>. QED
      BY <3>1, SubSeqProperties DEF Commit
  <2>2. Holders(head, mail[p]) \subseteq DOMAIN head
    BY DEF Holders, Log!Holders
  <2>3. ReturnType'
    <3>1. ASSUME NEW k \in DOMAIN head, Finish(p, "existing", SubSeq(head, 1, k))
          PROVE  ReturnType'
      BY <1>0, <2>1, <3>1, FinishType
    <3>2. CASE Goto(p, "cas") /\ UNCHANGED <<reply, answer>>
      BY <1>0, <3>2, GotoType DEF PostSteps
    <3>. QED
      BY <1>5, <2>2, <3>1, <3>2 DEF ScanQa
  <2>. QED
    BY <1>5, <2>3 DEF ScanQa, TypeOK, ReturnType, listVars
<1>6. CASE Publish(p)
  <2>. DEFINE commit == Append(expected[p], Entry(mail[p], p, calls[p], Len(expected[p])))
  <2>1. commit \in Commit
    BY <1>6, AppendType DEF Publish, TypeOK, CallsWellFormed, PostSteps
  <2>2. ReturnType'
    <3>1. CASE Finish(p, "posted", commit)
      BY <1>0, <2>1, <3>1, FinishType
    <3>2. CASE Goto(p, "read") /\ UNCHANGED <<reply, answer>>
      BY <1>0, <3>2, GotoType DEF PostSteps
    <3>3. CASE Finish(p, "failed", <<>>)
      BY <1>0, <3>3, FinishType
    <3>. QED
      BY <1>6, <3>1, <3>2, <3>3 DEF Publish
  <2>3. head' \in Commit
    BY <1>6, <2>1 DEF Publish, TypeOK
  <2>. QED
    BY <1>6, <2>2, <2>3 DEF Publish, TypeOK, ReturnType
<1>. QED
  BY <1>1, <1>2, <1>3, <1>4, <1>5, <1>6 DEF PostStep

LEMMA AdvanceType ==
  ASSUME TypeOK, CallsWellFormed, NEW p \in Procs,
         AdvanceStep(p) \/ \E r \in Readers, t \in Prefixes(head) : BeginAdvance(p, r, t)
  PROVE  TypeOK'
<1>0. ReturnType /\ <<>> \in Commit
  BY EmptySeq DEF Commit, TypeOK, ReturnType
<1>1. ASSUME NEW r \in Readers, NEW t \in Prefixes(head), BeginAdvance(p, r, t)
      PROVE  TypeOK'
  <2>1. t \in Commit
    BY PrefixOfMember DEF TypeOK, Commit
  <2>2. ReturnType'
    <3>1. CASE Goto(p, "adv_read") /\ UNCHANGED <<reply, answer>>
      BY <1>0, <3>1, GotoType DEF AdvanceSteps
    <3>2. CASE Finish(p, "refused", <<>>)
      BY <1>0, <3>2, FinishType
    <3>. QED
      BY <1>1, <3>1, <3>2 DEF BeginAdvance
  <2>. QED
    BY <1>1, <2>1, <2>2 DEF BeginAdvance, TypeOK, ReturnType, listVars
<1>2. CASE AdvanceRead(p)
  <2>1. cursor[reader[p]] \in Commit
    BY <1>2 DEF AdvanceRead, TypeOK, CallsWellFormed, AdvanceSteps
  <2>2. ReturnType'
    <3>1. CASE Finish(p, "unmoved", cursor[reader[p]])
      BY <1>0, <2>1, <3>1, FinishType
    <3>2. CASE Finish(p, "refused", cursor[reader[p]])
      BY <1>0, <2>1, <3>2, FinishType
    <3>3. CASE Goto(p, "adv_cas") /\ UNCHANGED <<reply, answer>>
      BY <1>0, <3>3, GotoType DEF AdvanceSteps
    <3>. QED
      BY <1>2, <3>1, <3>2, <3>3 DEF AdvanceRead
  <2>3. tries[p] + 1 \in 0..AppendAttempts
    BY <1>2, AttemptsAssumption DEF AdvanceRead, TypeOK, CallsWellFormed
  <2>4. expected' \in [Procs -> Commit] /\ tries' \in [Procs -> 0..AppendAttempts]
    <3>1. expected \in [Procs -> Commit] /\ tries \in [Procs -> 0..AppendAttempts]
      BY DEF TypeOK
    <3>2. CASE UNCHANGED <<expected, tries>>
      BY <3>1, <3>2
    <3>3. CASE /\ expected' = [expected EXCEPT ![p] = cursor[reader[p]]]
               /\ tries' = [tries EXCEPT ![p] = @ + 1]
      BY <2>1, <2>3, <3>1, <3>3
    <3>. QED
      BY <1>2, <3>2, <3>3 DEF AdvanceRead
  <2>5. UNCHANGED <<listVars, mail, reader, target, calls, base>>
    BY <1>2 DEF AdvanceRead
  <2>. QED
    BY <2>2, <2>4, <2>5 DEF TypeOK, ReturnType, listVars
<1>3. CASE AdvanceCas(p)
  <2>1. ReturnType'
    <3>1. CASE Finish(p, "advanced", target[p])
      BY <1>0, <3>1, FinishType DEF TypeOK
    <3>2. CASE Finish(p, "contended", <<>>)
      BY <1>0, <3>2, FinishType
    <3>3. CASE Goto(p, "adv_read") /\ UNCHANGED <<reply, answer>>
      BY <1>0, <3>3, GotoType DEF AdvanceSteps
    <3>. QED
      BY <1>3, <3>1, <3>2, <3>3 DEF AdvanceCas
  <2>. QED
    BY <1>3, <2>1 DEF AdvanceCas, TypeOK, ReturnType
<1>. QED
  BY <1>1, <1>2, <1>3 DEF AdvanceStep

LEMMA OtherType ==
  ASSUME TypeOK, CallsWellFormed, NEW p \in Procs,
         \/ \E m \in Mails \cup {Genesis} : BeginPost(p, m)
         \/ Return(p) \/ Crash(p)
  PROVE  TypeOK'
<1>0. <<>> \in Commit /\ Len(head) \in Nat
  BY EmptySeq, LenProperties DEF Commit, TypeOK
<1>1. ASSUME NEW m \in Mails \cup {Genesis}, BeginPost(p, m)
      PROVE  TypeOK'
  BY <1>0, <1>1 DEF BeginPost, Goto, TypeOK, listVars, PostSteps
<1>2. ASSUME Forget(p)
      PROVE  TypeOK'
  BY <1>0, <1>2, AttemptsAssumption DEF Forget, Goto, TypeOK, listVars
<1>. QED
  BY <1>1, <1>2 DEF Return, Crash

LEMMA StutterType ==
  ASSUME TypeOK, UNCHANGED vars
  PROVE  TypeOK'
BY DEF TypeOK, vars, listVars, procVars

LEMMA NextType ==
  ASSUME TypeOK, CallsWellFormed, [Next]_vars
  PROVE  TypeOK'
BY PostStepType, AdvanceType, OtherType, StutterType DEF Next

LEMMA CallsStep ==
  ASSUME TypeOK, CallsWellFormed, [Next]_vars
  PROVE  CallsWellFormed'
<1>1. CASE UNCHANGED vars
  BY <1>1 DEF CallsWellFormed, vars, procVars
<1>2. ASSUME NEW p \in Procs, PostStep(p)
      PROVE  CallsWellFormed'
  <2>1. CASE EnsureRead(p)
    BY <1>2, <2>1, AttemptsAssumption
       DEF EnsureRead, Ensured, Finish, Goto, CallsWellFormed, TypeOK, PostSteps, AdvanceSteps
  <2>2. CASE EnsureCreate(p)
    BY <1>2, <2>2, AttemptsAssumption
       DEF EnsureCreate, Ensured, Finish, Goto, CallsWellFormed, TypeOK, PostSteps, AdvanceSteps
  <2>3. CASE EnsureReread(p)
    BY <1>2, <2>3, AttemptsAssumption
       DEF EnsureReread, Ensured, Finish, Goto, CallsWellFormed, TypeOK, PostSteps, AdvanceSteps
  <2>4. CASE ReadHead(p)
    BY <1>2, <2>4, AttemptsAssumption
       DEF ReadHead, Goto, CallsWellFormed, TypeOK, PostSteps, AdvanceSteps
  <2>5. CASE ScanQa(p)
    BY <1>2, <2>5 DEF ScanQa, Finish, Goto, CallsWellFormed, TypeOK, PostSteps, AdvanceSteps
  <2>6. CASE Publish(p)
    BY <1>2, <2>6, AttemptsAssumption
       DEF Publish, AttemptsLeft, Finish, Goto, CallsWellFormed, TypeOK, PostSteps, AdvanceSteps
  <2>. QED
    BY <1>2, <2>1, <2>2, <2>3, <2>4, <2>5, <2>6 DEF PostStep
<1>3. ASSUME NEW p \in Procs, AdvanceStep(p)
      PROVE  CallsWellFormed'
  BY <1>3, AttemptsAssumption
     DEF AdvanceStep, AdvanceRead, AdvanceCas, AttemptsLeft, Finish, Goto, CallsWellFormed, TypeOK,
         PostSteps, AdvanceSteps
<1>4. ASSUME NEW p \in Procs, NEW r \in Readers, NEW t, BeginAdvance(p, r, t)
      PROVE  CallsWellFormed'
  BY <1>4, MailsAssumption, AttemptsAssumption
     DEF BeginAdvance, Finish, Goto, CallsWellFormed, TypeOK, PostSteps, AdvanceSteps
<1>5. ASSUME NEW p \in Procs, NEW m \in Mails \cup {Genesis}, BeginPost(p, m)
      PROVE  CallsWellFormed'
  BY <1>5, MailsAssumption DEF BeginPost, Goto, CallsWellFormed, TypeOK, PostSteps, AdvanceSteps
<1>6. ASSUME NEW p \in Procs, Forget(p)
      PROVE  CallsWellFormed'
  BY <1>6 DEF Forget, Goto, CallsWellFormed, TypeOK, PostSteps, AdvanceSteps
<1>. QED
  BY <1>1, <1>2, <1>3, <1>4, <1>5, <1>6 DEF Next, Return, Crash

\* Every variable keeps its type, whatever the number of processes, mails and
\* attempts (ai_org/mailing_list.py as a whole).
THEOREM TypeCorrect == Spec => []TypeOK
<1>1. Init => TypeOK /\ CallsWellFormed
  BY InitType, AttemptsAssumption DEF Init, CallsWellFormed, PostSteps, AdvanceSteps
<1>2. TypeOK /\ CallsWellFormed /\ [Next]_vars => (TypeOK /\ CallsWellFormed)'
  BY NextType, CallsStep
<1>. QED
  BY <1>1, <1>2, PTL DEF Spec

(***************************************************************************)
(* The history of the list.  A step leaves the branch alone or appends one *)
(* entry to it: genesis to nothing, or the mail of a process whose         *)
(* expected head is still the head.                                        *)
(***************************************************************************)
AppendsBy(p) ==
  \/ /\ EnsureCreate(p) /\ pc[p] = "genesis" /\ head = <<>>
     /\ head' = Append(head, Entry(Genesis, p, calls[p], 0))
  \/ /\ Publish(p) /\ pc[p] = "cas" /\ head = expected[p] /\ pc'[p] = "done"
     /\ head' = Append(head, Entry(mail[p], p, calls[p], Len(head)))

LEMMA HeadStep ==
  ASSUME TypeOK, [Next]_vars
  PROVE  UNCHANGED head \/ \E p \in Procs : AppendsBy(p)
<1>1. CASE UNCHANGED vars
  BY <1>1 DEF vars, listVars
<1>2. ASSUME NEW p \in Procs, PostStep(p)
      PROVE  UNCHANGED head \/ AppendsBy(p)
  <2>1. CASE EnsureCreate(p)
    <3>1. <<Entry(Genesis, p, calls[p], 0)>> = Append(<<>>, Entry(Genesis, p, calls[p], 0))
      BY GenesisType DEF TypeOK
    <3>. QED
      BY <2>1, <3>1 DEF EnsureCreate, AppendsBy
  <2>2. CASE Publish(p)
    BY <2>2 DEF Publish, AppendsBy, Finish, Goto, TypeOK
  <2>3. CASE EnsureRead(p) \/ EnsureReread(p) \/ ReadHead(p) \/ ScanQa(p)
    BY <2>3 DEF EnsureRead, EnsureReread, ReadHead, ScanQa, listVars
  <2>. QED
    BY <1>2, <2>1, <2>2, <2>3 DEF PostStep
<1>3. ASSUME NEW p \in Procs,
             AdvanceStep(p) \/ \E r \in Readers, t \in Prefixes(head) : BeginAdvance(p, r, t)
      PROVE  UNCHANGED head
  BY <1>3 DEF AdvanceStep, AdvanceRead, AdvanceCas, BeginAdvance, listVars
<1>4. ASSUME NEW p \in Procs,
             \/ \E m \in Mails \cup {Genesis} : BeginPost(p, m)
             \/ Return(p) \/ Crash(p)
      PROVE  UNCHANGED head
  BY <1>4 DEF BeginPost, Return, Crash, Forget, listVars
<1>. QED
  BY <1>1, <1>2, <1>3, <1>4 DEF Next

LEMMA HeadExtends ==
  ASSUME TypeOK, CallsWellFormed, [Next]_vars
  PROVE  /\ IsPrefix(head, head')
         /\ UNCHANGED head \/ Len(head') = Len(head) + 1
<1>1. ASSUME NEW e \in CommitEntry, head' = Append(head, e)
      PROVE  IsPrefix(head, head') /\ Len(head') = Len(head) + 1
  BY <1>1, PrefixReflexive, PrefixOfAppend, AppendProperties DEF TypeOK, Commit
<1>2. ASSUME NEW p \in Procs, AppendsBy(p)
      PROVE  IsPrefix(head, head') /\ Len(head') = Len(head) + 1
  <2>1. Entry(Genesis, p, calls[p], 0) \in CommitEntry
    BY EntryType DEF TypeOK
  <2>2. pc[p] = "cas" => Entry(mail[p], p, calls[p], Len(head)) \in CommitEntry
    <3>1. Len(head) \in Nat
      BY LenProperties DEF TypeOK, Commit
    <3>. QED
      BY <3>1, EntryType DEF TypeOK, CallsWellFormed, PostSteps
  <2>. QED
    BY <1>1, <1>2, <2>1, <2>2 DEF AppendsBy
<1>3. CASE UNCHANGED head
  BY <1>3, PrefixReflexive DEF TypeOK, Commit
<1>. QED
  BY <1>2, <1>3, HeadStep

\* The list branch is never rewritten: whatever posters race, crash or retry,
\* each step of the ref adds one commit on top of it (mailing_list.post and
\* ensure_list publish by compare-and-swap only).
THEOREM HistoryAppendOnly == Spec => AppendOnly
<1>1. TypeOK /\ CallsWellFormed /\ [Next]_vars
        => [IsPrefix(head, head') /\ Len(head') = Len(head) + 1]_head
  BY HeadExtends
<1>2. Init => TypeOK /\ CallsWellFormed
  BY InitType, AttemptsAssumption DEF Init, CallsWellFormed, PostSteps, AdvanceSteps
<1>3. TypeOK /\ CallsWellFormed /\ [Next]_vars => (TypeOK /\ CallsWellFormed)'
  BY NextType, CallsStep
<1>. QED
  BY <1>1, <1>2, <1>3, PTL DEF Spec, AppendOnly

(***************************************************************************)
(* The inductive invariant behind the ordinals and the QA rule: entries    *)
(* are numbered by position; what a poster expects is on the list; and a   *)
(* poster that is past the QA scan knows its item absent from the history  *)
(* it EXPECTS, which is the list itself if its swap succeeds.              *)
(***************************************************************************)
Numbered ==
  \A k \in 1..Len(head) : head[k].seq = k - 1 /\ (head[k].mail = Genesis <=> k = 1)

ExpectedKnown ==
  \A p \in Procs :
    /\ pc[p] \in {"read", "scan", "cas"} => head # <<>>
    /\ pc[p] \in {"scan", "cas"} => expected[p] # <<>> /\ IsPrefix(expected[p], head)
    /\ pc[p] = "cas" /\ Unique(mail[p]) => Holders(expected[p], mail[p]) = {}

HistoryInv == TypeOK /\ CallsWellFormed /\ Numbered /\ ExpectedKnown /\ QaOncePerItem

LEMMA AppendFacts ==
  ASSUME TypeOK, NEW e \in CommitEntry, head' = Append(head, e)
  PROVE  /\ Len(head) \in Nat /\ Len(head') = Len(head) + 1
         /\ DOMAIN head = 1..Len(head) /\ DOMAIN head' = 1..Len(head')
         /\ \A k \in 1..Len(head) : head'[k] = head[k]
         /\ head'[Len(head) + 1] = e
<1>1. head' \in Seq(CommitEntry)
  BY AppendProperties DEF TypeOK, Commit
<1>. QED
  BY <1>1, AppendProperties, LenProperties DEF TypeOK, Commit

LEMMA AppendsByEntry ==
  ASSUME TypeOK, CallsWellFormed, NEW p \in Procs, AppendsBy(p)
  PROVE  \E e \in CommitEntry :
           /\ head' = Append(head, e) /\ e.seq = Len(head)
           /\ \/ pc[p] = "genesis" /\ head = <<>> /\ e.mail = Genesis
              \/ /\ pc[p] = "cas" /\ pc'[p] = "done" /\ head = expected[p]
                 /\ e.mail = mail[p] /\ mail[p] # Genesis
           /\ e.by = <<p, calls[p]>>
<1>1. Len(head) \in Nat /\ Len(<<>>) = 0
  BY LenProperties DEF TypeOK, Commit
<1>2. CASE pc[p] = "genesis" /\ head = <<>>
           /\ head' = Append(head, Entry(Genesis, p, calls[p], 0))
  <2>1. /\ Entry(Genesis, p, calls[p], 0) \in CommitEntry
        /\ Entry(Genesis, p, calls[p], 0).mail = Genesis
        /\ Entry(Genesis, p, calls[p], 0).by = <<p, calls[p]>>
        /\ Entry(Genesis, p, calls[p], 0).seq = 0
    <3>1. calls[p] \in Nat /\ 0 \in Nat /\ Genesis \in Mails \cup {Genesis}
      BY DEF TypeOK
    <3>. QED
      BY <3>1 DEF Entry, Log!Entry, CommitEntry
  <2>2. Len(head) = 0
    BY <1>1, <1>2
  <2>. QED
    BY <1>2, <2>1, <2>2
<1>3. CASE /\ pc[p] = "cas" /\ head = expected[p] /\ pc'[p] = "done"
           /\ head' = Append(head, Entry(mail[p], p, calls[p], Len(head)))
  <2>1. mail[p] \in Mails \cup {Genesis} /\ mail[p] # Genesis /\ calls[p] \in Nat
    BY <1>3 DEF TypeOK, CallsWellFormed, PostSteps
  <2>. QED
    BY <1>1, <1>3, <2>1, EntryType
<1>. QED
  BY <1>2, <1>3 DEF AppendsBy

LEMMA NumberedStep ==
  ASSUME HistoryInv, [Next]_vars
  PROVE  Numbered'
<1>. USE DEF HistoryInv
<1>1. CASE UNCHANGED head
  BY <1>1 DEF Numbered
<1>2. ASSUME NEW p \in Procs, AppendsBy(p)
      PROVE  Numbered'
  <2>1. PICK e \in CommitEntry :
           /\ head' = Append(head, e) /\ e.seq = Len(head)
           /\ e.mail = Genesis <=> head = <<>>
    <3>1. pc[p] = "cas" => head # <<>>
      BY DEF ExpectedKnown
    <3>. QED
      BY <1>2, <3>1, AppendsByEntry
  <2>2. /\ Len(head) \in Nat /\ Len(head') = Len(head) + 1
        /\ \A k \in 1..Len(head) : head'[k] = head[k]
        /\ head'[Len(head) + 1] = e
    BY <2>1, AppendFacts
  <2>3. head = <<>> <=> Len(head) = 0
    BY EmptySeq DEF TypeOK, Commit
  <2>4. ASSUME NEW k \in 1..Len(head')
        PROVE  head'[k].seq = k - 1 /\ (head'[k].mail = Genesis <=> k = 1)
    <3>1. CASE k \in 1..Len(head)
      BY <2>2, <3>1 DEF Numbered
    <3>2. CASE k = Len(head) + 1
      BY <2>1, <2>2, <2>3, <3>2
    <3>. QED
      BY <2>2, <3>1, <3>2
  <2>. QED
    BY <2>4 DEF Numbered
<1>. QED
  BY <1>1, <1>2, HeadStep

LEMMA QaStep ==
  ASSUME HistoryInv, [Next]_vars
  PROVE  QaOncePerItem'
<1>. USE DEF HistoryInv
<1>1. CASE UNCHANGED head
  BY <1>1 DEF QaOncePerItem, Unique, Log!Unique
<1>2. ASSUME NEW p \in Procs, AppendsBy(p)
      PROVE  QaOncePerItem'
  <2>1. PICK e \in CommitEntry :
           /\ head' = Append(head, e)
           /\ \/ e.mail = Genesis
              \/ /\ pc[p] = "cas" /\ head = expected[p]
                 /\ e.mail = mail[p] /\ mail[p] # Genesis
    BY <1>2, AppendsByEntry
  <2>2. /\ Len(head) \in Nat /\ Len(head') = Len(head) + 1
        /\ DOMAIN head = 1..Len(head) /\ DOMAIN head' = 1..Len(head')
        /\ \A k \in 1..Len(head) : head'[k] = head[k]
        /\ head'[Len(head) + 1] = e
    BY <2>1, AppendFacts
  <2>3. ASSUME NEW k \in 1..Len(head),
               head[k].mail # Genesis, e.mail # Genesis,
               head[k].mail.kind = "qa", e.mail.kind = "qa",
               head[k].mail.items = e.mail.items,
               Unique(e.mail)
        PROVE  FALSE
    <3>1. Holders(head, e.mail) = {}
      BY <2>1, <2>3 DEF ExpectedKnown
    <3>2. k \in Holders(head, e.mail)
      BY <2>2, <2>3 DEF Holders, Log!Holders
    <3>. QED
      BY <3>1, <3>2
  <2>4. ASSUME NEW i \in 1..Len(head'), NEW j \in 1..Len(head'),
               head'[i].mail # Genesis, head'[j].mail # Genesis,
               Unique(head'[i].mail), head'[j].mail.kind = "qa",
               head'[i].mail.items = head'[j].mail.items
        PROVE  i = j
    <3>1. Unique(head'[j].mail) /\ head'[i].mail.kind = "qa"
      BY <2>4 DEF Unique, Log!Unique
    <3>2. CASE i \in 1..Len(head) /\ j \in 1..Len(head)
      BY <2>2, <2>4, <3>2 DEF QaOncePerItem
    <3>3. CASE i = Len(head) + 1 /\ j \in 1..Len(head)
      BY <2>2, <2>3, <2>4, <3>1, <3>3
    <3>4. CASE j = Len(head) + 1 /\ i \in 1..Len(head)
      BY <2>2, <2>3, <2>4, <3>1, <3>4
    <3>. QED
      BY <2>2, <3>2, <3>3, <3>4
  <2>. QED
    BY <2>2, <2>4 DEF QaOncePerItem, Unique, Log!Unique
<1>. QED
  BY <1>1, <1>2, HeadStep

\* A step of p moves no other process.
LEMMA OthersStay ==
  ASSUME TypeOK, NEW p \in Procs, NEW q \in Procs \ {p},
         \/ PostStep(p) \/ AdvanceStep(p) \/ Return(p) \/ Crash(p)
         \/ \E m \in Mails \cup {Genesis} : BeginPost(p, m)
         \/ \E r \in Readers, t \in Prefixes(head) : BeginAdvance(p, r, t)
  PROVE  /\ pc'[q] = pc[q] /\ mail'[q] = mail[q] /\ expected'[q] = expected[q]
         /\ reader'[q] = reader[q] /\ target'[q] = target[q]
         /\ calls'[q] = calls[q] /\ tries'[q] = tries[q]
<1>1. CASE PostStep(p)
  BY <1>1 DEF PostStep, EnsureRead, EnsureCreate, EnsureReread, ReadHead, ScanQa, Publish,
              Ensured, Finish, Goto, TypeOK
<1>2. CASE AdvanceStep(p)
  BY <1>2 DEF AdvanceStep, AdvanceRead, AdvanceCas, Finish, Goto, TypeOK
<1>3. CASE Return(p) \/ Crash(p)
  BY <1>3 DEF Return, Crash, Forget, Goto, TypeOK
<1>4. CASE \E m \in Mails \cup {Genesis} : BeginPost(p, m)
  BY <1>4 DEF BeginPost, Goto, TypeOK
<1>5. CASE \E r \in Readers, t \in Prefixes(head) : BeginAdvance(p, r, t)
  BY <1>5 DEF BeginAdvance, Finish, Goto, TypeOK
<1>. QED
  BY <1>1, <1>2, <1>3, <1>4, <1>5

LEMMA HoldersOfPrefix ==
  ASSUME NEW a \in Commit, NEW b \in Commit, NEW m, IsPrefix(a, b), Holders(b, m) = {}
  PROVE  Holders(a, m) = {}
<1>1. /\ Len(a) \in Nat /\ Len(b) \in Nat /\ Len(a) <= Len(b)
      /\ DOMAIN a = 1..Len(a) /\ DOMAIN b = 1..Len(b)
      /\ \A i \in 1..Len(a) : a[i] = b[i]
  BY PrefixPointwise, LenProperties DEF Commit
<1>2. Holders(a, m) \subseteq Holders(b, m)
  BY <1>1 DEF Holders, Log!Holders
<1>. QED
  BY <1>2

\* What the poster p knows about the list, one process at a time.
Knows(p) ==
  /\ pc[p] \in {"read", "scan", "cas"} => head # <<>>
  /\ pc[p] \in {"scan", "cas"} => expected[p] # <<>> /\ IsPrefix(expected[p], head)
  /\ pc[p] = "cas" /\ Unique(mail[p]) => Holders(expected[p], mail[p]) = {}

\* The step of p establishes or keeps what p itself knows.
LEMMA KnowsOwnStep ==
  ASSUME NEW p \in Procs, TypeOK, CallsWellFormed, Knows(p), PostStep(p)
  PROVE  Knows(p)'
<1>1. CASE EnsureRead(p)
  BY <1>1 DEF EnsureRead, Ensured, Finish, Goto, Knows, TypeOK, listVars
<1>2. CASE EnsureCreate(p)
  <2>1. <<Entry(Genesis, p, calls[p], 0)>> # <<>>
    OBVIOUS
  <2>. QED
    BY <1>2, <2>1 DEF EnsureCreate, Ensured, Finish, Goto, Knows, TypeOK
<1>3. CASE EnsureReread(p)
  BY <1>3 DEF EnsureReread, Ensured, Finish, Goto, Knows, TypeOK, listVars
<1>4. CASE ReadHead(p)
  <2>1. head # <<>> /\ head' = head /\ expected'[p] = head /\ mail' = mail
        /\ pc'[p] \in {"scan", "cas"} /\ (pc'[p] = "cas" => ~Unique(mail[p]))
    BY <1>4 DEF ReadHead, Goto, Knows, TypeOK, listVars
  <2>2. IsPrefix(head, head)
    BY PrefixReflexive DEF TypeOK, Commit
  <2>. QED
    BY <2>1, <2>2 DEF Knows, Unique, Log!Unique
<1>5. CASE ScanQa(p)
  <2>1. head' = head /\ expected' = expected /\ mail' = mail /\ pc[p] = "scan"
        /\ (pc'[p] = "done" \/ (pc'[p] = "cas" /\ Holders(head, mail[p]) = {}))
    BY <1>5 DEF ScanQa, Finish, Goto, TypeOK, listVars
  <2>2. Holders(head, mail[p]) = {} => Holders(expected[p], mail[p]) = {}
    BY <2>1, HoldersOfPrefix DEF Knows, TypeOK
  <2>. QED
    BY <2>1, <2>2 DEF Knows, Holders, Log!Holders
<1>6. CASE Publish(p)
  <2>1. (pc'[p] = "done" \/ (pc'[p] = "read" /\ head' = head)) /\ head # <<>>
    BY <1>6 DEF Publish, Finish, Goto, TypeOK, Knows
  <2>. QED
    BY <2>1 DEF Knows
<1>. QED
  BY <1>1, <1>2, <1>3, <1>4, <1>5, <1>6 DEF PostStep

\* What q knows survives an extension of the list.
LEMMA KnowsKept ==
  ASSUME NEW q \in Procs, TypeOK, TypeOK', Knows(q), IsPrefix(head, head'),
         pc'[q] = pc[q], mail'[q] = mail[q], expected'[q] = expected[q]
  PROVE  Knows(q)'
<1>1. head # <<>> => head' # <<>>
  BY PrefixPointwise, EmptySeq, LenProperties DEF TypeOK, Commit
<1>2. IsPrefix(expected[q], head) => IsPrefix(expected[q], head')
  BY PrefixTransitive DEF TypeOK, Commit
<1>. QED
  BY <1>1, <1>2 DEF Knows, Holders, Log!Holders, Unique, Log!Unique

LEMMA KnowsStep ==
  ASSUME TypeOK, TypeOK', CallsWellFormed, ExpectedKnown, [Next]_vars
  PROVE  ExpectedKnown'
<1>0. ExpectedKnown <=> \A q \in Procs : Knows(q)
  BY DEF ExpectedKnown, Knows
<1>1. IsPrefix(head, head')
  BY HeadExtends
<1>2. CASE UNCHANGED vars
  BY <1>2 DEF ExpectedKnown, vars, listVars, procVars, Holders, Log!Holders, Unique, Log!Unique
<1>3. ASSUME NEW p \in Procs,
             \/ PostStep(p) \/ AdvanceStep(p) \/ Return(p) \/ Crash(p)
             \/ \E m \in Mails \cup {Genesis} : BeginPost(p, m)
             \/ \E r \in Readers, t \in Prefixes(head) : BeginAdvance(p, r, t)
      PROVE  \A q \in Procs : Knows(q)'
  <2>1. ASSUME NEW q \in Procs \ {p}
        PROVE  Knows(q)'
    BY <1>0, <1>1, <1>3, <2>1, OthersStay, KnowsKept
  <2>2. Knows(p)'
    <3>1. CASE PostStep(p)
      BY <1>0, <3>1, KnowsOwnStep
    <3>2. CASE ~PostStep(p)
      <4>1. pc'[p] \notin {"read", "scan", "cas"}
        BY <1>3, <3>2 DEF AdvanceStep, AdvanceRead, AdvanceCas, Return, Crash, Forget,
           BeginPost, BeginAdvance, Finish, Goto, TypeOK
      <4>. QED
        BY <4>1 DEF Knows
    <3>. QED
      BY <3>1, <3>2
  <2>. QED
    BY <2>1, <2>2
<1>4. CASE \A q \in Procs : Knows(q)'
  BY <1>4 DEF ExpectedKnown, Knows
<1>. QED
  BY <1>2, <1>3, <1>4 DEF Next

LEMMA HistoryInit == Init => HistoryInv
<1>. SUFFICES ASSUME Init PROVE HistoryInv
  OBVIOUS
<1>1. TypeOK /\ CallsWellFormed
  BY InitType, AttemptsAssumption DEF Init, CallsWellFormed, PostSteps, AdvanceSteps
<1>2. head = <<>> /\ Len(head) = 0 /\ DOMAIN head = {}
  BY DEF Init
<1>. QED
  BY <1>1, <1>2 DEF Init, HistoryInv, Numbered, ExpectedKnown, QaOncePerItem

LEMMA HistoryStep ==
  ASSUME HistoryInv, [Next]_vars
  PROVE  HistoryInv'
<1>1. TypeOK' /\ CallsWellFormed'
  BY NextType, CallsStep DEF HistoryInv
<1>. QED
  BY <1>1, NumberedStep, QaStep, KnowsStep DEF HistoryInv

\* No patch item ever gets a second QA mail, although post() scans the list
\* and appends to it in separate Git commands, any number of harvesters race,
\* and callers die between the two (_qa_post_for_item and the head CAS).
THEOREM QaOnce == Spec => []QaOncePerItem
<1>1. HistoryInv => QaOncePerItem
  BY DEF HistoryInv
<1>. QED
  BY <1>1, HistoryInit, HistoryStep, PTL DEF Spec

\* Two different mails never share a Message-Id: the ordinal computed before
\* the swap is the position the mail gets (_next_sequence, _message_id).
THEOREM MessageIds == Spec => []MessageIdsUnique
<1>1. HistoryInv => MessageIdsUnique
  <2>1. ASSUME HistoryInv
        PROVE  DOMAIN head = 1..Len(head) /\ Len(head) \in Nat
    BY <2>1, LenProperties DEF HistoryInv, TypeOK, Commit
  <2>2. ASSUME HistoryInv, NEW i \in DOMAIN head, NEW j \in DOMAIN head,
               head[i].seq = head[j].seq
        PROVE  i = j
    <3>1. i \in 1..Len(head) /\ j \in 1..Len(head) /\ i \in Nat /\ j \in Nat
      BY <2>1, <2>2
    <3>2. head[i].seq = i - 1 /\ head[j].seq = j - 1
      BY <2>2, <3>1 DEF HistoryInv, Numbered
    <3>3. i - 1 = j - 1
      BY <2>2, <3>2
    <3>. QED
      BY <3>1, <3>3
  <2>. QED
    BY <2>2 DEF MessageIdsUnique
<1>. QED
  BY <1>1, HistoryInit, HistoryStep, PTL DEF Spec

(***************************************************************************)
(* Reader cursors.  An advancing process knows that its target is on the   *)
(* list, and past its read of the cursor, that the target extends what it  *)
(* expects there.                                                          *)
(***************************************************************************)
Targets(p) ==
  /\ pc[p] \in AdvanceSteps => IsPrefix(target[p], head)
  /\ pc[p] = "adv_cas" => IsPrefix(expected[p], target[p])

CursorInv ==
  /\ TypeOK /\ CallsWellFormed
  /\ CursorsOnList
  /\ \A p \in Procs : Targets(p)

LEMMA EmptyIsPrefix ==
  ASSUME NEW S, NEW a \in Seq(S)
  PROVE  IsPrefix(<<>>, a)
<1>1. <<>> \in Seq(S) /\ Len(<<>>) = 0 /\ Len(a) \in Nat
  BY EmptySeq, LenProperties
<1>2. Len(<<>>) <= Len(a) /\ \A i \in 1..Len(<<>>) : <<>>[i] = a[i]
  BY <1>1
<1>. QED
  BY <1>1, <1>2, PrefixPointwise

LEMMA TargetsKept ==
  ASSUME NEW q \in Procs, TypeOK, TypeOK', Targets(q), IsPrefix(head, head'),
         pc'[q] = pc[q], target'[q] = target[q], expected'[q] = expected[q]
  PROVE  Targets(q)'
<1>1. IsPrefix(target[q], head) => IsPrefix(target[q], head')
  BY PrefixTransitive DEF TypeOK, Commit
<1>. QED
  BY <1>1 DEF Targets, AdvanceSteps

LEMMA TargetsOwnStep ==
  ASSUME NEW p \in Procs, TypeOK, TypeOK', CallsWellFormed, Targets(p),
         \/ PostStep(p) \/ AdvanceStep(p) \/ Return(p) \/ Crash(p)
         \/ \E m \in Mails \cup {Genesis} : BeginPost(p, m)
         \/ \E r \in Readers, t \in Prefixes(head) : BeginAdvance(p, r, t)
  PROVE  Targets(p)'
<1>1. ASSUME NEW r \in Readers, NEW t \in Prefixes(head), BeginAdvance(p, r, t)
      PROVE  Targets(p)'
  <2>1. IsPrefix(t, head)
    BY PrefixOfMember DEF TypeOK, Commit
  <2>. QED
    BY <1>1, <2>1 DEF BeginAdvance, Finish, Goto, TypeOK, Targets, AdvanceSteps, listVars
<1>2. CASE AdvanceRead(p)
  <2>1. cursor[reader[p]] \in Commit
    BY <1>2 DEF AdvanceRead, TypeOK, CallsWellFormed, AdvanceSteps
  <2>2. cursor[reader[p]] = <<>> => IsPrefix(cursor[reader[p]], target[p])
    BY EmptyIsPrefix DEF TypeOK, Commit
  <2>3. /\ head' = head /\ target' = target /\ pc[p] = "adv_read"
        /\ \/ pc'[p] = "done"
           \/ /\ pc'[p] = "adv_cas" /\ expected'[p] = cursor[reader[p]]
              /\ IsPrefix(cursor[reader[p]], target[p])
    BY <1>2, <2>2 DEF AdvanceRead, IsAncestor, Finish, Goto, TypeOK, listVars
  <2>. QED
    BY <2>3 DEF Targets, AdvanceSteps
<1>3. CASE AdvanceCas(p)
  BY <1>3 DEF AdvanceCas, Finish, Goto, TypeOK, Targets, AdvanceSteps
<1>4. CASE PostStep(p) \/ Return(p) \/ Crash(p) \/ \E m \in Mails \cup {Genesis} : BeginPost(p, m)
  <2>1. pc'[p] \notin AdvanceSteps
    BY <1>4 DEF PostStep, EnsureRead, EnsureCreate, EnsureReread, ReadHead, ScanQa, Publish,
                Ensured, Finish, Goto, Return, Crash, Forget, BeginPost, TypeOK, AdvanceSteps
  <2>. QED
    BY <2>1 DEF Targets, AdvanceSteps
<1>. QED
  BY <1>1, <1>2, <1>3, <1>4 DEF AdvanceStep

\* A cursor moves only to the target of a process that expects its value.
LEMMA CursorMoves ==
  ASSUME CursorInv, [Next]_vars
  PROVE  \/ UNCHANGED cursor
         \/ \E p \in Procs : /\ reader[p] \in Readers
                             /\ IsPrefix(cursor[reader[p]], target[p])
                             /\ IsPrefix(target[p], head)
                             /\ cursor' = [cursor EXCEPT ![reader[p]] = target[p]]
<1>1. ASSUME NEW p \in Procs, AdvanceCas(p)
      PROVE  \/ UNCHANGED cursor
             \/ /\ reader[p] \in Readers
                /\ IsPrefix(cursor[reader[p]], target[p])
                /\ IsPrefix(target[p], head)
                /\ cursor' = [cursor EXCEPT ![reader[p]] = target[p]]
  BY <1>1 DEF AdvanceCas, CursorInv, TypeOK, CallsWellFormed, Targets, AdvanceSteps
<1>2. ASSUME NEW p \in Procs,
             \/ PostStep(p) \/ AdvanceRead(p) \/ Return(p) \/ Crash(p)
             \/ \E m \in Mails \cup {Genesis} : BeginPost(p, m)
             \/ \E r \in Readers, t \in Prefixes(head) : BeginAdvance(p, r, t)
      PROVE  UNCHANGED cursor
  BY <1>2 DEF PostStep, EnsureRead, EnsureCreate, EnsureReread, ReadHead, ScanQa, Publish,
              AdvanceRead, Return, Crash, Forget, BeginPost, BeginAdvance, listVars
<1>3. CASE UNCHANGED vars
  BY <1>3 DEF vars, listVars
<1>. QED
  BY <1>1, <1>2, <1>3 DEF Next, AdvanceStep

LEMMA CursorStep ==
  ASSUME CursorInv, [Next]_vars
  PROVE  CursorInv' /\ \A r \in Readers : IsPrefix(cursor[r], cursor'[r])
<1>1. TypeOK' /\ CallsWellFormed' /\ IsPrefix(head, head')
  BY NextType, CallsStep, HeadExtends DEF CursorInv
<1>2. ASSUME NEW r \in Readers
      PROVE  IsPrefix(cursor[r], cursor'[r]) /\ IsPrefix(cursor'[r], head)
  <2>1. CASE cursor'[r] = cursor[r]
    BY <2>1, PrefixReflexive DEF CursorInv, CursorsOnList, TypeOK, Commit
  <2>2. CASE \E p \in Procs : /\ IsPrefix(cursor[r], target[p])
                              /\ IsPrefix(target[p], head)
                              /\ cursor'[r] = target[p]
    BY <2>2
  <2>. QED
    BY <2>1, <2>2, CursorMoves DEF CursorInv, TypeOK
<1>3. CursorsOnList'
  BY <1>1, <1>2, PrefixTransitive DEF CursorsOnList, CursorInv, TypeOK, Commit
<1>4. ASSUME NEW q \in Procs
      PROVE  Targets(q)'
  <2>1. CASE UNCHANGED vars
    BY <2>1 DEF CursorInv, Targets, vars, listVars, procVars, AdvanceSteps
  <2>2. ASSUME NEW p \in Procs,
               \/ PostStep(p) \/ AdvanceStep(p) \/ Return(p) \/ Crash(p)
               \/ \E m \in Mails \cup {Genesis} : BeginPost(p, m)
               \/ \E r \in Readers, t \in Prefixes(head) : BeginAdvance(p, r, t)
        PROVE  Targets(q)'
    <3>1. CASE q = p
      BY <1>1, <2>2, <3>1, TargetsOwnStep DEF CursorInv
    <3>2. CASE q # p
      BY <1>1, <2>2, <3>2, OthersStay, TargetsKept DEF CursorInv
    <3>. QED
      BY <3>1, <3>2
  <2>. QED
    BY <2>1, <2>2 DEF Next
<1>. QED
  BY <1>1, <1>2, <1>3, <1>4 DEF CursorInv

LEMMA CursorInit == Init => CursorInv
<1>. SUFFICES ASSUME Init PROVE CursorInv
  OBVIOUS
<1>1. TypeOK /\ CallsWellFormed
  BY InitType, AttemptsAssumption DEF Init, CallsWellFormed, PostSteps, AdvanceSteps
<1>2. CursorsOnList
  <2>1. head \in Seq(CommitEntry) /\ \A r \in Readers : cursor[r] = <<>>
    BY <1>1 DEF Init, TypeOK, Commit
  <2>. QED
    BY <2>1, EmptyIsPrefix DEF CursorsOnList
<1>. QED
  BY <1>1, <1>2 DEF Init, CursorInv, Targets, AdvanceSteps

\* A cursor always names a commit of the list, although advance_cursor checks
\* its target against a head that others have since moved.
THEOREM CursorsStayOnList == Spec => []CursorsOnList
<1>1. CursorInv => CursorsOnList
  BY DEF CursorInv
<1>2. CursorInv /\ [Next]_vars => CursorInv'
  BY CursorStep
<1>. QED
  BY <1>1, <1>2, CursorInit, PTL DEF Spec

\* Sessions that share a reader name never pull its cursor back: the swap in
\* advance_cursor succeeds only on the value the ancestry test was made for.
THEOREM CursorsNeverBack == Spec => CursorsMonotone
<1>1. CursorInv /\ [Next]_vars
        => CursorInv' /\ [\A r \in Readers : IsPrefix(cursor[r], cursor'[r])]_cursor
  BY CursorStep
<1>. QED
  BY <1>1, CursorInit, PTL DEF Spec, CursorsMonotone

-----------------------------------------------------------------------------
(***************************************************************************)
(* MailingList implements MailLog, for any processes, readers, mails and   *)
(* attempts; and what post() answers is true.                              *)
(*                                                                         *)
(* The steps of a call map to steps of the log as follows: its beginning   *)
(* to Ask; the swap that publishes to Open or Deliver; the step in which   *)
(* it comes back without publishing to FindOpen, AlreadyThere or Refuse;   *)
(* its return or a kill to Drop; and all others to a stutter.              *)
(***************************************************************************)
\* What the log takes p to ask for and to have been told.
Asked(p) == IF pc[p] \in {"done", "adv_read", "adv_cas"} THEN NoMail ELSE mail[p]
Told(p) == IF reply[p] \in {"posted", "existing", "ensured", "failed"}
           THEN reply[p] ELSE "nothing"
AskedOfLog == [p \in Procs |-> Asked(p)]
ToldByLog == [p \in Procs |-> Told(p)]

\* Besides HistoryInv: nobody holds an answer before the call is done, and
\* only QA mails of one item are looked for.
Answering(p) ==
  /\ pc[p] # "done" => reply[p] = "nothing"
  /\ pc[p] = "idle" => mail[p] = NoMail
  /\ pc[p] = "scan" => Unique(mail[p])
LogInv == HistoryInv /\ \A p \in Procs : Answering(p)

\* A step of p, whichever.
StepOf(p) ==
  \/ PostStep(p) \/ AdvanceStep(p) \/ Return(p) \/ Crash(p)
  \/ \E m \in Mails \cup {Genesis} : BeginPost(p, m)
  \/ \E r \in Readers, t \in Prefixes(head) : BeginAdvance(p, r, t)

LEMMA OthersReply ==
  ASSUME TypeOK, NEW p \in Procs, NEW q \in Procs \ {p}, StepOf(p)
  PROVE  reply'[q] = reply[q] /\ answer'[q] = answer[q] /\ base'[q] = base[q]
<1>1. CASE PostStep(p)
  BY <1>1 DEF PostStep, EnsureRead, EnsureCreate, EnsureReread, ReadHead, ScanQa, Publish,
              Ensured, Finish, TypeOK
<1>2. CASE AdvanceStep(p)
  BY <1>2 DEF AdvanceStep, AdvanceRead, AdvanceCas, Finish, TypeOK
<1>3. CASE Return(p) \/ Crash(p)
  BY <1>3 DEF Return, Crash, Forget, TypeOK
<1>4. CASE \E m \in Mails \cup {Genesis} : BeginPost(p, m)
  BY <1>4 DEF BeginPost, TypeOK
<1>5. CASE \E r \in Readers, t \in Prefixes(head) : BeginAdvance(p, r, t)
  BY <1>5 DEF BeginAdvance, Finish, TypeOK
<1>. QED
  BY <1>1, <1>2, <1>3, <1>4, <1>5 DEF StepOf

LEMMA AnsweringStep ==
  ASSUME LogInv, [Next]_vars
  PROVE  LogInv'
<1>1. HistoryInv'
  BY HistoryStep DEF LogInv
<1>2. ASSUME NEW p \in Procs, StepOf(p)
      PROVE  \A q \in Procs : Answering(q)'
  <2>0. TypeOK /\ CallsWellFormed /\ Answering(p)
    BY DEF LogInv, HistoryInv
  <2>1. ASSUME NEW q \in Procs \ {p}  PROVE Answering(q)'
    <3>1. pc'[q] = pc[q] /\ mail'[q] = mail[q] /\ reply'[q] = reply[q]
      BY <1>2, <2>0, OthersStay, OthersReply DEF StepOf
    <3>. QED
      BY <3>1 DEF LogInv, Answering, Unique, Log!Unique
  <2>2. Answering(p)'
    <3>1. CASE PostStep(p)
      <4>1. /\ mail'[p] = mail[p]
            /\ pc'[p] # "idle" /\ (pc'[p] = "scan" => Unique(mail[p]))
            /\ pc'[p] # "done" => reply'[p] = reply[p] /\ pc[p] # "done"
        BY <2>0, <3>1 DEF PostStep, EnsureRead, EnsureCreate, EnsureReread, ReadHead, ScanQa,
                 Publish, Ensured, Finish, Goto, TypeOK
      <4>. QED
        BY <2>0, <4>1 DEF Answering, Unique, Log!Unique
    <3>2. CASE AdvanceStep(p) \/ \E r \in Readers, t \in Prefixes(head) : BeginAdvance(p, r, t)
      <4>1. /\ pc'[p] \notin {"idle", "scan"}
            /\ pc'[p] # "done" => reply'[p] = reply[p] /\ pc[p] # "done"
        BY <2>0, <3>2 DEF AdvanceStep, AdvanceRead, AdvanceCas, BeginAdvance, Finish, Goto, TypeOK
      <4>. QED
        BY <2>0, <4>1 DEF Answering
    <3>3. CASE Return(p) \/ Crash(p)
      BY <2>0, <3>3 DEF Return, Crash, Forget, Goto, TypeOK, Answering
    <3>4. CASE \E m \in Mails \cup {Genesis} : BeginPost(p, m)
      BY <2>0, <3>4 DEF BeginPost, Goto, TypeOK, Answering
    <3>. QED
      BY <1>2, <3>1, <3>2, <3>3, <3>4 DEF StepOf
  <2>. QED
    BY <2>1, <2>2
<1>3. CASE UNCHANGED vars
  BY <1>1, <1>3 DEF LogInv, Answering, Unique, Log!Unique, vars, procVars
<1>. QED
  BY <1>1, <1>2, <1>3 DEF LogInv, Next, StepOf

LEMMA LogInit == Init => LogInv
<1>. SUFFICES ASSUME Init PROVE LogInv
  OBVIOUS
<1>. QED
  BY HistoryInit DEF LogInv, Init, Answering

(***************************************************************************)
(* The actions of the log, in terms of what is asked and told.             *)
(***************************************************************************)
Telling(p, word) ==
  /\ AskedOfLog' = [AskedOfLog EXCEPT ![p] = NoMail]
  /\ ToldByLog' = [ToldByLog EXCEPT ![p] = word]
  /\ calls' = calls

LEMMA LogTell ==
  ASSUME NEW p \in Procs, NEW word, Telling(p, word)
  PROVE  Log!Tell(p, word)
BY DEF Telling, Log!Tell, AskedOfLog, ToldByLog, Asked, Told

LEMMA LogStutter ==
  ASSUME AskedOfLog' = AskedOfLog, ToldByLog' = ToldByLog, head' = head, calls' = calls
  PROVE  UNCHANGED Log!vars
BY DEF Log!vars, AskedOfLog, ToldByLog, Asked, Told

LEMMA LogAsk ==
  ASSUME NEW p \in Procs, NEW m \in Mails \cup {Genesis},
         Asked(p) = NoMail, Told(p) = "nothing", head' = head,
         AskedOfLog' = [AskedOfLog EXCEPT ![p] = m], ToldByLog' = ToldByLog,
         calls' = [calls EXCEPT ![p] = @ + 1]
  PROVE  Log!Next
<1>1. Log!Ask(p, m)
  BY DEF Log!Ask, AskedOfLog, ToldByLog, Asked, Told
<1>. QED
  BY <1>1 DEF Log!Next

LEMMA LogDrop ==
  ASSUME NEW p \in Procs, Asked(p) # NoMail \/ Told(p) # "nothing", head' = head,
         Telling(p, "nothing")
  PROVE  Log!Next
<1>1. Log!Drop(p)
  BY DEF Telling, Log!Drop, AskedOfLog, ToldByLog, Asked, Told
<1>. QED
  BY <1>1 DEF Log!Next

(***************************************************************************)
(* Every step maps to a step of the log or a stutter.                      *)
(***************************************************************************)
LEMMA OnlyOne ==
  ASSUME TypeOK, NEW p \in Procs, StepOf(p)
  PROVE  /\ AskedOfLog' = [AskedOfLog EXCEPT ![p] = Asked(p)']
         /\ ToldByLog' = [ToldByLog EXCEPT ![p] = Told(p)']
<1>1. ASSUME NEW q \in Procs \ {p}
      PROVE  Asked(q)' = Asked(q) /\ Told(q)' = Told(q)
  <2>1. pc'[q] = pc[q] /\ mail'[q] = mail[q] /\ reply'[q] = reply[q]
    BY OthersStay, OthersReply DEF StepOf
  <2>. QED
    BY <2>1 DEF Asked, Told
<1>. QED
  BY <1>1 DEF AskedOfLog, ToldByLog

LEMMA Quietly ==
  ASSUME TypeOK, NEW p \in Procs, StepOf(p), head' = head, calls' = calls,
         Asked(p)' = Asked(p), Told(p)' = Told(p)
  PROVE  UNCHANGED Log!vars
<1>1. AskedOfLog' = AskedOfLog /\ ToldByLog' = ToldByLog
  BY OnlyOne DEF AskedOfLog, ToldByLog
<1>. QED
  BY <1>1, LogStutter

LEMMA ToldTo ==
  ASSUME TypeOK, NEW p \in Procs, StepOf(p), calls' = calls,
         NEW word, Asked(p)' = NoMail, Told(p)' = word
  PROVE  Telling(p, word)
BY OnlyOne DEF Telling

\* The call is done: the log has told p the outcome.
LEMMA Finishes ==
  ASSUME TypeOK, NEW p \in Procs, StepOf(p), calls' = calls, NEW c,
         NEW word \in {"posted", "existing", "ensured", "failed"}, Finish(p, word, c)
  PROVE  Log!Tell(p, word)
<1>1. pc'[p] = "done" /\ reply'[p] = word
  BY DEF Finish, Goto, TypeOK
<1>2. Asked(p)' = NoMail /\ Told(p)' = word
  BY <1>1 DEF Asked, Told
<1>. QED
  BY <1>2, ToldTo, LogTell

\* p goes on with its call.
LEMMA GoesOn ==
  ASSUME TypeOK, NEW p \in Procs, StepOf(p), head' = head, calls' = calls, mail' = mail,
         pc[p] \in PostSteps, NEW label \in PostSteps, Goto(p, label),
         UNCHANGED <<reply, answer>>
  PROVE  UNCHANGED Log!vars
<1>1. pc'[p] \in PostSteps /\ reply' = reply
  BY DEF Goto, TypeOK
<1>2. Asked(p)' = Asked(p) /\ Told(p)' = Told(p)
  BY <1>1 DEF Asked, Told, PostSteps
<1>. QED
  BY <1>2, Quietly

\* ensure_list found the list.
LEMMA EnsuredMaps ==
  ASSUME LogInv, NEW p \in Procs, StepOf(p), head' = head, calls' = calls, mail' = mail,
         head # <<>>, pc[p] \in {"ensure", "reread"}, Ensured(p, head)
  PROVE  Log!Next \/ UNCHANGED Log!vars
<1>0. TypeOK /\ pc[p] \in PostSteps
  BY DEF LogInv, HistoryInv, PostSteps
<1>1. CASE mail[p] = Genesis /\ Finish(p, "ensured", head)
  <2>1. Log!Tell(p, "ensured")
    BY <1>0, <1>1, Finishes
  <2>2. Asked(p) = Genesis
    BY <1>1 DEF Asked
  <2>3. Log!FindOpen(p)
    BY <2>1, <2>2 DEF Log!FindOpen, Asked
  <2>. QED
    BY <2>3 DEF Log!Next
<1>2. CASE Goto(p, "read") /\ UNCHANGED <<reply, answer>>
  BY <1>0, <1>2, GoesOn DEF PostSteps
<1>. QED
  BY <1>1, <1>2 DEF Ensured

\* The call gave up.
LEMMA FailedMaps ==
  ASSUME LogInv, NEW p \in Procs, StepOf(p), head' = head, calls' = calls,
         pc[p] \in PostSteps, NEW c, Finish(p, "failed", c)
  PROVE  Log!Next
<1>1. TypeOK /\ mail[p] # NoMail /\ Asked(p) = mail[p]
  BY DEF LogInv, HistoryInv, CallsWellFormed, Asked, PostSteps
<1>2. Log!Tell(p, "failed")
  BY <1>1, Finishes
<1>3. Log!Refuse(p)
  BY <1>1, <1>2 DEF Log!Refuse, Asked
<1>. QED
  BY <1>3 DEF Log!Next

LEMMA PostMaps ==
  ASSUME LogInv, NEW p \in Procs, PostStep(p)
  PROVE  Log!Next \/ UNCHANGED Log!vars
<1>0. /\ StepOf(p) /\ TypeOK /\ CallsWellFormed /\ ExpectedKnown /\ Answering(p)
      /\ Len(head) \in Nat
  BY LenProperties DEF StepOf, LogInv, HistoryInv, TypeOK, Commit
<1>1. CASE EnsureRead(p)
  <2>1. head' = head /\ calls' = calls /\ mail' = mail /\ pc[p] = "ensure"
    BY <1>1 DEF EnsureRead, listVars
  <2>2. CASE head # <<>> /\ Ensured(p, head)
    BY <1>0, <2>1, <2>2, EnsuredMaps
  <2>3. CASE Goto(p, "genesis") /\ UNCHANGED <<reply, answer>>
    BY <1>0, <2>1, <2>3, GoesOn DEF PostSteps
  <2>. QED
    BY <1>1, <2>2, <2>3 DEF EnsureRead
<1>2. CASE EnsureCreate(p)
  <2>. DEFINE genesis == <<Entry(Genesis, p, calls[p], 0)>>
  <2>1. calls' = calls /\ mail' = mail /\ pc[p] = "genesis" /\ mail[p] # NoMail
    BY <1>0, <1>2 DEF EnsureCreate, CallsWellFormed, PostSteps
  <2>2. Asked(p) = mail[p] /\ Asked(p) = AskedOfLog[p]
    BY <2>1 DEF Asked, AskedOfLog
  <2>3. CASE head = <<>> /\ head' = genesis /\ Ensured(p, genesis)
    <3>1. head' = <<Log!Entry(Genesis, p, calls[p], 0)>>
      BY <2>3 DEF Entry
    <3>2. CASE mail[p] = Genesis /\ Finish(p, "ensured", genesis)
      <4>1. Log!Tell(p, "ensured")
        BY <1>0, <2>1, <3>2, Finishes
      <4>2. Log!Open(p)
        BY <2>1, <2>2, <2>3, <3>1, <3>2, <4>1 DEF Log!Open, Asked
      <4>. QED
        BY <4>2 DEF Log!Next
    <3>3. CASE mail[p] # Genesis /\ Goto(p, "read") /\ UNCHANGED <<reply, answer>>
      <4>1. Asked(p)' = Asked(p) /\ Told(p)' = Told(p)
        BY <1>0, <2>1, <3>3 DEF Goto, TypeOK, Asked, Told
      <4>2. AskedOfLog' = AskedOfLog /\ ToldByLog' = ToldByLog
        BY <1>0, <4>1, OnlyOne DEF AskedOfLog, ToldByLog
      <4>3. Log!Open(p)
        BY <2>1, <2>2, <2>3, <3>1, <3>3, <4>2
           DEF Log!Open, AskedOfLog, ToldByLog, Asked, Told
      <4>. QED
        BY <4>3 DEF Log!Next
    <3>. QED
      BY <2>3, <3>2, <3>3 DEF Ensured
  <2>4. CASE Goto(p, "reread") /\ UNCHANGED <<head, reply, answer>>
    BY <1>0, <2>1, <2>4, GoesOn DEF PostSteps
  <2>. QED
    BY <1>2, <2>3, <2>4 DEF EnsureCreate
<1>3. CASE EnsureReread(p)
  <2>1. head' = head /\ calls' = calls /\ mail' = mail /\ pc[p] = "reread"
    BY <1>3 DEF EnsureReread, listVars
  <2>2. CASE head # <<>> /\ Ensured(p, head)
    BY <1>0, <2>1, <2>2, EnsuredMaps
  <2>3. CASE Finish(p, "failed", <<>>)
    BY <1>0, <2>1, <2>3, FailedMaps DEF PostSteps
  <2>. QED
    BY <1>3, <2>2, <2>3 DEF EnsureReread
<1>4. CASE ReadHead(p)
  <2>1. /\ head' = head /\ calls' = calls /\ mail' = mail /\ pc[p] = "read"
        /\ UNCHANGED <<reply, answer>> /\ (Goto(p, "scan") \/ Goto(p, "cas"))
    BY <1>4 DEF ReadHead, listVars
  <2>. QED
    BY <1>0, <2>1, GoesOn DEF PostSteps
<1>5. CASE ScanQa(p)
  <2>1. /\ head' = head /\ calls' = calls /\ mail' = mail /\ pc[p] = "scan"
        /\ mail[p] \notin {NoMail, Genesis}
    BY <1>0, <1>5 DEF ScanQa, listVars, CallsWellFormed, PostSteps
  <2>2. CASE Goto(p, "cas") /\ UNCHANGED <<reply, answer>>
    BY <1>0, <2>1, <2>2, GoesOn DEF PostSteps
  <2>3. ASSUME NEW c, Finish(p, "existing", c), Holders(head, mail[p]) # {}
        PROVE  Log!Next
    <3>1. Log!Tell(p, "existing")
      BY <1>0, <2>1, <2>3, Finishes
    <3>2. Asked(p) = mail[p] /\ Log!Unique(mail[p]) /\ Log!Holders(head, mail[p]) # {}
      BY <1>0, <2>1, <2>3 DEF Asked, Answering, Unique, Holders
    <3>3. Log!AlreadyThere(p)
      BY <2>1, <3>1, <3>2 DEF Log!AlreadyThere, Asked
    <3>. QED
      BY <3>3 DEF Log!Next
  <2>. QED
    BY <1>5, <2>2, <2>3 DEF ScanQa
<1>6. CASE Publish(p)
  <2>. DEFINE commit == Append(expected[p], Entry(mail[p], p, calls[p], Len(expected[p])))
  <2>1. /\ calls' = calls /\ mail' = mail /\ pc[p] = "cas" /\ head # <<>>
        /\ mail[p] \notin {NoMail, Genesis}
    BY <1>0, <1>6 DEF Publish, CallsWellFormed, PostSteps, ExpectedKnown
  <2>2. CASE head = expected[p] /\ head' = commit /\ Finish(p, "posted", commit)
    <3>1. Log!Tell(p, "posted")
      BY <1>0, <2>1, <2>2, Finishes
    <3>2. head' = Append(head, Log!Entry(mail[p], p, calls[p], Len(head)))
      BY <2>2 DEF Entry
    <3>3. Log!Unique(mail[p]) => Log!Holders(head, mail[p]) = {}
      BY <1>0, <2>1, <2>2 DEF ExpectedKnown, Unique, Holders
    <3>4. Asked(p) = mail[p]
      BY <2>1 DEF Asked
    <3>5. Log!Deliver(p)
      BY <2>1, <3>1, <3>2, <3>3, <3>4 DEF Log!Deliver, Asked
    <3>. QED
      BY <3>5 DEF Log!Next
  <2>3. CASE Goto(p, "read") /\ UNCHANGED <<reply, answer>> /\ UNCHANGED head
    BY <1>0, <2>1, <2>3, GoesOn DEF PostSteps
  <2>4. CASE Finish(p, "failed", <<>>) /\ UNCHANGED head
    BY <1>0, <2>1, <2>4, FailedMaps DEF PostSteps
  <2>. QED
    BY <1>6, <2>2, <2>3, <2>4 DEF Publish
<1>. QED
  BY <1>1, <1>2, <1>3, <1>4, <1>5, <1>6 DEF PostStep

LEMMA AdvanceMaps ==
  ASSUME LogInv, NEW p \in Procs,
         AdvanceStep(p) \/ \E r \in Readers, t \in Prefixes(head) : BeginAdvance(p, r, t)
  PROVE  UNCHANGED Log!vars
<1>0. StepOf(p) /\ TypeOK /\ Answering(p)
  BY DEF StepOf, LogInv, HistoryInv
<1>1. /\ head' = head /\ calls' = calls /\ mail' = mail
      /\ pc[p] \in {"idle", "adv_read", "adv_cas"}
      /\ pc'[p] \in {"done", "adv_read", "adv_cas"}
      /\ reply'[p] \in {reply[p], "unmoved", "refused", "advanced", "contended"}
  BY <1>0 DEF AdvanceStep, AdvanceRead, AdvanceCas, BeginAdvance, Finish, Goto, TypeOK, listVars
<1>2. Asked(p)' = Asked(p) /\ Told(p)' = Told(p)
  BY <1>0, <1>1 DEF Asked, Told, Answering
<1>. QED
  BY <1>0, <1>1, <1>2, Quietly

LEMMA BeginMaps ==
  ASSUME LogInv, NEW p \in Procs, NEW m \in Mails \cup {Genesis}, BeginPost(p, m)
  PROVE  Log!Next
<1>0. StepOf(p) /\ TypeOK /\ Answering(p)
  BY DEF StepOf, LogInv, HistoryInv
<1>1. /\ head' = head /\ calls' = [calls EXCEPT ![p] = @ + 1]
      /\ pc[p] = "idle" /\ pc'[p] = "ensure" /\ mail'[p] = m /\ reply' = reply
  BY <1>0 DEF BeginPost, Goto, TypeOK, listVars
<1>2. /\ Asked(p) = NoMail /\ Told(p) = "nothing" /\ Asked(p)' = m /\ Told(p)' = Told(p)
  BY <1>0, <1>1 DEF Asked, Told, Answering
<1>3. AskedOfLog' = [AskedOfLog EXCEPT ![p] = m] /\ ToldByLog' = ToldByLog
  BY <1>0, <1>2, OnlyOne DEF AskedOfLog, ToldByLog
<1>. QED
  BY <1>1, <1>2, <1>3, LogAsk

LEMMA ForgetMaps ==
  ASSUME LogInv, NEW p \in Procs, Return(p) \/ Crash(p)
  PROVE  Log!Next \/ UNCHANGED Log!vars
<1>0. StepOf(p) /\ TypeOK
  BY DEF StepOf, LogInv, HistoryInv
<1>1. /\ head' = head /\ calls' = calls
      /\ pc'[p] = "idle" /\ mail'[p] = NoMail /\ reply'[p] = "nothing"
  BY <1>0 DEF Return, Crash, Forget, Goto, TypeOK, listVars
<1>2. Asked(p)' = NoMail /\ Told(p)' = "nothing"
  BY <1>1 DEF Asked, Told
<1>3. CASE Asked(p) # NoMail \/ Told(p) # "nothing"
  BY <1>0, <1>1, <1>2, <1>3, ToldTo, LogDrop
<1>4. CASE Asked(p) = NoMail /\ Told(p) = "nothing"
  BY <1>0, <1>1, <1>2, <1>4, Quietly
<1>. QED
  BY <1>3, <1>4

\* The Git protocol implements the atomic log: whatever mails are posted, by
\* however many processes that retry, race and die, their calls behave as if
\* each of them took effect in one step, once or not at all (mailing_list.post
\* and ensure_list).
THEOREM Implements == Spec => ImplementsMailLog
<1>1. Init => Log!Init
  BY DEF Init, Log!Init
<1>2. LogInv /\ [Next]_vars => [Log!Next]_Log!vars
  <2>1. ASSUME LogInv, UNCHANGED vars  PROVE UNCHANGED Log!vars
    BY <2>1 DEF vars, listVars, procVars, Log!vars
  <2>. QED
    BY <2>1, PostMaps, AdvanceMaps, BeginMaps, ForgetMaps DEF Next
<1>3. LogInv /\ [Next]_vars => LogInv'
  BY AnsweringStep
<1>. QED
  BY <1>1, <1>2, <1>3, LogInit, PTL DEF Spec, ImplementsMailLog, Log!Spec

(***************************************************************************)
(* Giving up.  A swap that fails although no lock was in the way means     *)
(* that the list is longer than the poster expects; so each attempt of it  *)
(* is matched by a mail of somebody else.                                  *)
(***************************************************************************)
Matched(p) ==
  ~LockTimeouts =>
    /\ pc[p] \in PostSteps => base[p] <= Len(head)
    /\ pc[p] = "reread" => head # <<>>
    /\ pc[p] = "read" => base[p] + tries[p] <= Len(head)
    /\ pc[p] \in {"scan", "cas"} => base[p] + tries[p] <= Len(expected[p]) + 1
    /\ reply[p] = "failed" => Len(head) >= base[p] + AppendAttempts

ProgressInv == LogInv /\ \A p \in Procs : Matched(p)

LEMMA Numbers ==
  ASSUME TypeOK, NEW p \in Procs
  PROVE  /\ Len(head) \in Nat /\ Len(expected[p]) \in Nat /\ base[p] \in Nat
         /\ tries[p] \in Nat /\ tries[p] <= AppendAttempts /\ AppendAttempts \in Nat
BY AttemptsAssumption, LenProperties DEF TypeOK, Commit

\* Steps of others leave what is matched as it is.
LEMMA MatchedKept ==
  ASSUME ProgressInv, NEW p \in Procs, NEW q \in Procs \ {p}, StepOf(p), [Next]_vars
  PROVE  Matched(q)'
<1>0. TypeOK /\ CallsWellFormed
  BY DEF ProgressInv, LogInv, HistoryInv
<1>1. /\ pc'[q] = pc[q] /\ expected'[q] = expected[q] /\ tries'[q] = tries[q]
      /\ reply'[q] = reply[q] /\ base'[q] = base[q]
  BY <1>0, OthersStay, OthersReply DEF StepOf
<1>2. Len(head) \in Nat /\ Len(head') \in Nat /\ Len(head) <= Len(head')
  <2>1. Len(head) \in Nat
    BY <1>0, Numbers
  <2>2. UNCHANGED head \/ Len(head') = Len(head) + 1
    BY <1>0, HeadExtends
  <2>. QED
    BY <2>1, <2>2
<1>3. head # <<>> => head' # <<>>
  <2>1. head \in Seq(CommitEntry)
    BY <1>0 DEF TypeOK, Commit
  <2>2. head = <<>> <=> Len(head) = 0
    BY <2>1, EmptySeq
  <2>3. head' = <<>> => Len(head') = 0
    OBVIOUS
  <2>. QED
    BY <1>2, <2>2, <2>3
<1>4. Matched(q)
  BY DEF ProgressInv
<1>5. /\ base[q] \in Nat /\ tries[q] \in Nat /\ AppendAttempts \in Nat
      /\ Len(expected[q]) \in Nat
  BY <1>0, Numbers
<1>6. base'[q] <= Len(head) => base'[q] <= Len(head')
  BY <1>1, <1>2, <1>5
<1>7. base'[q] + tries'[q] <= Len(head) => base'[q] + tries'[q] <= Len(head')
  BY <1>1, <1>2, <1>5
<1>8. Len(head) >= base'[q] + AppendAttempts => Len(head') >= base'[q] + AppendAttempts
  BY <1>1, <1>2, <1>5
<1>. QED
  BY <1>1, <1>3, <1>4, <1>6, <1>7, <1>8 DEF Matched

\* A lost swap without a lock in the way: the list has grown.
LEMMA LostSwap ==
  ASSUME HistoryInv, NEW p \in Procs, pc[p] = "cas", head # expected[p]
  PROVE  Len(expected[p]) + 1 <= Len(head)
<1>1. TypeOK /\ IsPrefix(expected[p], head)
  BY DEF HistoryInv, ExpectedKnown
<1>2. /\ Len(expected[p]) <= Len(head)
      /\ \A i \in 1..Len(expected[p]) : expected[p][i] = head[i]
  BY <1>1, PrefixPointwise DEF TypeOK, Commit
<1>3. CASE Len(expected[p]) = Len(head)
  <2>1. expected[p] = head
    BY <1>1, <1>2, <1>3, SeqEqual DEF TypeOK, Commit
  <2>. QED
    BY <2>1
<1>. QED
  BY <1>1, <1>2, <1>3, Numbers

LEMMA MatchedByPost ==
  ASSUME ProgressInv, NEW p \in Procs, PostStep(p)
  PROVE  Matched(p)'
<1>0. /\ HistoryInv /\ TypeOK /\ CallsWellFormed /\ Answering(p) /\ Matched(p)
      /\ base' = base
  BY DEF ProgressInv, LogInv, HistoryInv, PostStep, EnsureRead, EnsureCreate, EnsureReread,
         ReadHead, ScanQa, Publish
<1>1. /\ Len(head) \in Nat /\ Len(expected[p]) \in Nat /\ base[p] \in Nat
      /\ tries[p] \in Nat /\ AppendAttempts \in Nat
      /\ pc[p] \in {"ensure", "genesis", "reread"} => tries[p] = 0
  BY <1>0, Numbers DEF CallsWellFormed
<1>. SUFFICES ASSUME ~LockTimeouts PROVE Matched(p)'
  BY DEF Matched
<1>2. CASE EnsureRead(p)
  BY <1>0, <1>1, <1>2
     DEF EnsureRead, Ensured, Finish, Goto, Matched, Answering, TypeOK, PostSteps, listVars
<1>3. CASE EnsureCreate(p)
  <2>1. CASE head = <<>> /\ head' = <<Entry(Genesis, p, calls[p], 0)>>
    <3>1. base[p] = 0 /\ Len(head') = 1 /\ tries' = tries
      <4>1. Len(head) = 0 /\ \A e : Len(<<e>>) = 1
        BY <2>1
      <4>2. Len(head') = 1
        BY <2>1, <4>1
      <4>3. base[p] <= Len(head) /\ tries' = tries
        BY <1>0, <1>3 DEF EnsureCreate, Matched, PostSteps
      <4>4. base[p] = 0
        BY <1>1, <4>1, <4>3
      <4>. QED
        BY <4>2, <4>3, <4>4, Zenon
    <3>2. \/ pc'[p] = "done" /\ reply'[p] = "ensured"
          \/ pc'[p] = "read" /\ reply' = reply
      <4>1. ~CasFails(head, <<>>)
        BY <2>1 DEF CasFails
      <4>2. Ensured(p, <<Entry(Genesis, p, calls[p], 0)>>)
        BY <1>3, <4>1 DEF EnsureCreate
      <4>. QED
        BY <1>0, <4>2 DEF Ensured, Finish, Goto, TypeOK
    <3>3. base'[p] = 0 /\ tries'[p] = 0
      BY <1>0, <1>1, <1>3, <3>1 DEF EnsureCreate
    <3>4. pc[p] # "done" /\ reply[p] = "nothing"
      BY <1>0, <1>3 DEF EnsureCreate, Answering
    <3>. QED
      BY <3>1, <3>2, <3>3, <3>4 DEF Matched, PostSteps
  <2>2. CASE head # <<>> /\ Goto(p, "reread") /\ UNCHANGED <<head, reply, answer>>
    BY <1>0, <1>1, <1>3, <2>2 DEF EnsureCreate, Goto, Matched, Answering, TypeOK, PostSteps
  <2>. QED
    BY <1>3, <2>1, <2>2 DEF EnsureCreate, CasFails
<1>4. CASE EnsureReread(p)
  <2>1. head # <<>> /\ Ensured(p, head)
    BY <1>0, <1>4 DEF EnsureReread, Matched
  <2>. QED
    BY <1>0, <1>1, <1>4, <2>1
       DEF EnsureReread, Ensured, Finish, Goto, Matched, Answering, TypeOK, PostSteps, listVars
<1>5. CASE ReadHead(p)
  <2>1. /\ head' = head /\ expected'[p] = head /\ tries'[p] = tries[p] + 1
        /\ pc'[p] \in {"scan", "cas"} /\ reply' = reply /\ pc[p] = "read"
    BY <1>0, <1>5 DEF ReadHead, Goto, TypeOK, listVars
  <2>. QED
    BY <1>0, <1>1, <2>1 DEF Matched, Answering, PostSteps
<1>6. CASE ScanQa(p)
  BY <1>0, <1>1, <1>6 DEF ScanQa, Finish, Goto, Matched, Answering, TypeOK, PostSteps, listVars
<1>7. CASE Publish(p)
  <2>1. CASE \E c : Finish(p, "posted", c)
    BY <1>0, <2>1 DEF Finish, Goto, Matched, TypeOK, PostSteps
  <2>2. CASE head # expected[p] /\ UNCHANGED head
    <3>1. pc[p] = "cas" /\ tries' = tries /\ base[p] + tries[p] <= Len(head)
      BY <1>0, <1>1, <1>7, <2>2, LostSwap DEF Publish, Matched
    <3>2. \/ pc'[p] = "read" /\ reply' = reply
          \/ pc'[p] = "done" /\ reply'[p] = "failed" /\ tries[p] >= AppendAttempts
      BY <1>0, <1>1, <1>7, <2>2 DEF Publish, AttemptsLeft, Finish, Goto, TypeOK
    <3>3. base'[p] = base[p] /\ head' = head /\ tries'[p] = tries[p]
      BY <1>0, <2>2, <3>1
    <3>. QED
      BY <1>0, <1>1, <3>1, <3>2, <3>3 DEF Matched, Answering, PostSteps
  <2>. QED
    BY <1>7, <2>1, <2>2 DEF Publish, CasFails
<1>. QED
  BY <1>2, <1>3, <1>4, <1>5, <1>6, <1>7 DEF PostStep

LEMMA ProgressStep ==
  ASSUME ProgressInv, [Next]_vars
  PROVE  ProgressInv'
<1>1. LogInv'
  BY AnsweringStep DEF ProgressInv
<1>2. ASSUME NEW p \in Procs, StepOf(p)
      PROVE  Matched(p)'
  <2>0. TypeOK /\ CallsWellFormed /\ Answering(p) /\ Matched(p) /\ Len(head) \in Nat
    BY LenProperties DEF ProgressInv, LogInv, HistoryInv, TypeOK, Commit
  <2>1. CASE AdvanceStep(p) \/ \E r \in Readers, t \in Prefixes(head) : BeginAdvance(p, r, t)
    <3>1. /\ pc'[p] \in {"done", "adv_read", "adv_cas"} /\ pc[p] # "done"
          /\ reply'[p] \in {reply[p], "unmoved", "refused", "advanced", "contended"}
      BY <2>0, <2>1 DEF AdvanceStep, AdvanceRead, AdvanceCas, BeginAdvance, Finish, Goto, TypeOK
    <3>. QED
      BY <2>0, <3>1 DEF Matched, Answering, PostSteps
  <2>2. CASE Return(p) \/ Crash(p)
    BY <2>0, <2>2 DEF Return, Crash, Forget, Goto, TypeOK, Matched, PostSteps
  <2>3. CASE \E m \in Mails \cup {Genesis} : BeginPost(p, m)
    <3>1. /\ head' = head /\ base'[p] = Len(head) /\ pc'[p] = "ensure" /\ reply' = reply
          /\ pc[p] = "idle"
      BY <2>0, <2>3 DEF BeginPost, Goto, TypeOK, listVars
    <3>. QED
      BY <2>0, <3>1 DEF Matched, Answering, PostSteps
  <2>. QED
    BY <1>2, <2>1, <2>2, <2>3, MatchedByPost DEF StepOf
<1>3. ASSUME NEW p \in Procs, StepOf(p)
      PROVE  \A q \in Procs : Matched(q)'
  BY <1>2, <1>3, MatchedKept
<1>4. CASE UNCHANGED vars
  BY <1>1, <1>4 DEF ProgressInv, Matched, vars, listVars, procVars
<1>. QED
  BY <1>1, <1>3, <1>4 DEF ProgressInv, Next, StepOf

\* post() gives up only when as many mails of others went in meanwhile as it
\* made attempts, whatever the limit is: it never fails on a quiet list
\* (_APPEND_ATTEMPTS).
THEOREM GivingUp == Spec => []GivingUpMeansProgress
<1>1. Init => ProgressInv
  BY LogInit DEF Init, ProgressInv, Matched, PostSteps
<1>2. ProgressInv => GivingUpMeansProgress
  BY DEF ProgressInv, Matched, GivingUpMeansProgress
<1>3. ProgressInv /\ [Next]_vars => ProgressInv'
  BY ProgressStep
<1>. QED
  BY <1>1, <1>2, <1>3, PTL DEF Spec

(***************************************************************************)
(* Honest answers.  Entries carry the call that made them, and no call is  *)
(* numbered higher than its caller has counted (Counted); a call that is   *)
(* under way has no mail on the list (Absent), so neither has one that     *)
(* gave up or found another's mail.                                        *)
(***************************************************************************)
Counted ==
  \A k \in DOMAIN head, q \in Procs, n \in Nat : head[k].by = <<q, n>> => n <= calls[q]

Absent(p) == \A k \in DOMAIN head : head[k].mail # Genesis => head[k].by # <<p, calls[p]>>

HonestPosted(p) == reply[p] = "posted" =>
  /\ IsAncestor(answer[p], head)
  /\ Last(answer[p]) = Entry(mail[p], p, calls[p], Len(answer[p]) - 1)
HonestExisting(p) == reply[p] = "existing" =>
  IsAncestor(answer[p], head) /\ Len(answer[p]) \in Holders(head, mail[p])
Honest(p) ==
  /\ HonestPosted(p) /\ HonestExisting(p)
  /\ pc[p] \in PostSteps \/ reply[p] \in {"existing", "failed"} => Absent(p)

HonestInv == LogInv /\ Counted /\ \A p \in Procs : Honest(p)

\* What a step appends.
LEMMA Appended ==
  ASSUME HistoryInv, [Next]_vars
  PROVE  \/ head' = head
         \/ \E p \in Procs, e \in CommitEntry :
              /\ head' = Append(head, e) /\ e.by = <<p, calls[p]>> /\ calls' = calls
              /\ \/ e.mail = Genesis
                 \/ pc'[p] = "done" /\ reply'[p] = "posted"
<1>0. TypeOK /\ CallsWellFormed
  BY DEF HistoryInv
<1>1. ASSUME NEW p \in Procs, AppendsBy(p)
      PROVE  \E e \in CommitEntry :
               /\ head' = Append(head, e) /\ e.by = <<p, calls[p]>> /\ calls' = calls
               /\ \/ e.mail = Genesis
                  \/ pc'[p] = "done" /\ reply'[p] = "posted"
  <2>1. calls' = calls
    BY <1>1 DEF AppendsBy, EnsureCreate, Publish
  <2>2. PICK e \in CommitEntry :
           /\ head' = Append(head, e) /\ e.by = <<p, calls[p]>>
           /\ \/ e.mail = Genesis
              \/ pc[p] = "cas" /\ pc'[p] = "done"
    BY <1>0, <1>1, AppendsByEntry
  <2>3. CASE pc[p] = "cas"
    <3>1. Publish(p) /\ head' # head
      <4>1. Len(head') = Len(head) + 1 /\ Len(head) \in Nat
        BY <1>0, <2>2, AppendFacts
      <4>. QED
        BY <1>1, <2>3, <4>1 DEF AppendsBy
    <3>2. reply'[p] = "posted"
      BY <1>0, <3>1 DEF Publish, Finish, TypeOK
    <3>. QED
      BY <2>1, <2>2, <3>2
  <2>. QED
    BY <2>1, <2>2, <2>3
<1>. QED
  BY <1>0, <1>1, HeadStep

LEMMA CallsCounted ==
  ASSUME TypeOK, [Next]_vars, NEW q \in Procs
  PROVE  calls[q] \in Nat /\ calls'[q] \in Nat /\ calls[q] <= calls'[q]
<1>1. CASE UNCHANGED vars
  BY <1>1 DEF TypeOK, vars, procVars
<1>2. ASSUME NEW p \in Procs, NEW m, BeginPost(p, m)
      PROVE  calls' = [calls EXCEPT ![p] = @ + 1]
  BY <1>2 DEF BeginPost
<1>3. ASSUME NEW p \in Procs,
             \/ PostStep(p) \/ AdvanceStep(p) \/ Return(p) \/ Crash(p)
             \/ \E r \in Readers, t \in Prefixes(head) : BeginAdvance(p, r, t)
      PROVE  calls' = calls
  BY <1>3 DEF PostStep, EnsureRead, EnsureCreate, EnsureReread, ReadHead, ScanQa, Publish,
              AdvanceStep, AdvanceRead, AdvanceCas, Return, Crash, Forget, BeginAdvance
<1>4. CASE calls' = calls
  BY <1>4 DEF TypeOK
<1>5. CASE \E p \in Procs : calls' = [calls EXCEPT ![p] = @ + 1]
  BY <1>5 DEF TypeOK
<1>. QED
  BY <1>1, <1>2, <1>3, <1>4, <1>5 DEF Next

LEMMA CountedStep ==
  ASSUME HonestInv, [Next]_vars
  PROVE  Counted'
<1>0. HistoryInv /\ TypeOK /\ Counted
  BY DEF HonestInv, LogInv, HistoryInv
<1>1. CASE head' = head
  BY <1>0, <1>1, CallsCounted DEF Counted
<1>2. ASSUME NEW p \in Procs, NEW e \in CommitEntry,
             head' = Append(head, e), e.by = <<p, calls[p]>>, calls' = calls
      PROVE  Counted'
  <2>1. /\ Len(head) \in Nat /\ Len(head') = Len(head) + 1
        /\ DOMAIN head = 1..Len(head) /\ DOMAIN head' = 1..Len(head')
        /\ \A k \in 1..Len(head) : head'[k] = head[k]
        /\ head'[Len(head) + 1] = e
    BY <1>0, <1>2, AppendFacts
  <2>2. ASSUME NEW k \in DOMAIN head', NEW q \in Procs, NEW n \in Nat, head'[k].by = <<q, n>>
        PROVE  n <= calls'[q]
    <3>1. CASE k \in 1..Len(head)
      BY <1>0, <1>2, <2>1, <2>2, <3>1 DEF Counted
    <3>2. CASE k = Len(head) + 1
      <4>1. <<q, n>> = <<p, calls[p]>>
        BY <1>2, <2>1, <2>2, <3>2
      <4>2. n = calls'[q] /\ calls'[q] \in Nat
        BY <1>0, <1>2, <4>1 DEF TypeOK
      <4>. QED
        BY <4>2
    <3>. QED
      BY <2>1, <2>2, <3>1, <3>2
  <2>. QED
    BY <2>2 DEF Counted
<1>. QED
  BY <1>0, <1>1, <1>2, Appended

\* A call that has not posted has no mail on the list after the step either.
LEMMA AbsentKept ==
  ASSUME HonestInv, [Next]_vars, NEW q \in Procs, Absent(q), calls'[q] = calls[q],
         ~(pc'[q] = "done" /\ reply'[q] = "posted")
  PROVE  Absent(q)'
<1>0. HistoryInv /\ TypeOK
  BY DEF HonestInv, LogInv, HistoryInv
<1>1. CASE head' = head
  BY <1>1 DEF Absent
<1>2. ASSUME NEW p \in Procs, NEW e \in CommitEntry,
             head' = Append(head, e), e.by = <<p, calls[p]>>,
             e.mail = Genesis \/ (pc'[p] = "done" /\ reply'[p] = "posted")
      PROVE  Absent(q)'
  <2>1. /\ Len(head) \in Nat /\ Len(head') = Len(head) + 1
        /\ DOMAIN head = 1..Len(head) /\ DOMAIN head' = 1..Len(head')
        /\ \A k \in 1..Len(head) : head'[k] = head[k]
        /\ head'[Len(head) + 1] = e
    BY <1>0, <1>2, AppendFacts
  <2>2. e.mail # Genesis => e.by # <<q, calls[q]>>
    <3>1. e.mail # Genesis => q # p
      BY <1>2
    <3>2. e.by = <<q, calls[q]>> => p = q
      BY <1>2
    <3>. QED
      BY <3>1, <3>2
  <2>3. ASSUME NEW k \in DOMAIN head'
        PROVE  head'[k].mail # Genesis => head'[k].by # <<q, calls'[q]>>
    <3>1. CASE k \in 1..Len(head)
      BY <2>1, <3>1 DEF Absent
    <3>2. CASE k = Len(head) + 1
      BY <2>1, <2>2, <3>2
    <3>. QED
      BY <2>1, <3>1, <3>2
  <2>. QED
    BY <2>3 DEF Absent
<1>. QED
  BY <1>0, <1>1, <1>2, Appended

\* Answers about the list hold of any longer one.
LEMMA AnswersKept ==
  ASSUME TypeOK, TypeOK', IsPrefix(head, head'), NEW q \in Procs,
         reply'[q] = reply[q], answer'[q] = answer[q], mail'[q] = mail[q], calls'[q] = calls[q],
         HonestPosted(q), HonestExisting(q)
  PROVE  HonestPosted(q)' /\ HonestExisting(q)'
<1>1. IsAncestor(answer[q], head) => IsAncestor(answer[q], head')
  BY PrefixTransitive DEF IsAncestor, TypeOK, Commit
<1>2. ASSUME NEW m  PROVE Holders(head, m) \subseteq Holders(head', m)
  <2>1. /\ Len(head) \in Nat /\ Len(head') \in Nat /\ Len(head) <= Len(head')
        /\ DOMAIN head = 1..Len(head) /\ DOMAIN head' = 1..Len(head')
        /\ \A i \in 1..Len(head) : head[i] = head'[i]
    BY PrefixPointwise, LenProperties DEF TypeOK, Commit
  <2>. QED
    BY <2>1 DEF Holders, Log!Holders
<1>3. HonestPosted(q)'
  BY <1>1 DEF HonestPosted, IsAncestor, Entry, Log!Entry
<1>4. HonestExisting(q)'
  BY <1>1, <1>2 DEF HonestExisting, IsAncestor, Holders, Log!Holders
<1>. QED
  BY <1>3, <1>4

\* post() answers with the mail it has just put at the end of the list, or with
\* the place of the one it has just found there.
LEMMA AnswersMade ==
  ASSUME HonestInv, TypeOK', NEW p \in Procs, PostStep(p)
  PROVE  HonestPosted(p)' /\ HonestExisting(p)'
<1>0. /\ TypeOK /\ CallsWellFormed /\ Answering(p)
      /\ mail' = mail /\ calls' = calls
  BY DEF HonestInv, LogInv, HistoryInv, PostStep, EnsureRead, EnsureCreate, EnsureReread,
         ReadHead, ScanQa, Publish
<1>1. CASE reply'[p] \notin {"posted", "existing"}
  BY <1>1 DEF HonestPosted, HonestExisting
<1>2. CASE Publish(p) /\ reply'[p] \in {"posted", "existing"}
  <2>. DEFINE entry == Entry(mail[p], p, calls[p], Len(expected[p]))
              commit == Append(expected[p], entry)
  <2>1. pc[p] = "cas" /\ reply[p] = "nothing"
    BY <1>0, <1>2 DEF Publish, Answering
  <2>2. head' = commit /\ answer'[p] = commit /\ reply'[p] = "posted"
    BY <1>0, <1>2, <2>1 DEF Publish, Finish, TypeOK
  <2>3. /\ expected[p] \in Seq(CommitEntry) /\ Len(expected[p]) \in Nat
        /\ entry \in CommitEntry
    <3>1. expected[p] \in Seq(CommitEntry) /\ Len(expected[p]) \in Nat
      BY <1>0, LenProperties DEF TypeOK, Commit
    <3>2. mail[p] \in Mails \cup {Genesis} /\ calls[p] \in Nat
      BY <1>0, <2>1 DEF TypeOK, CallsWellFormed, PostSteps
    <3>. QED
      BY <3>1, <3>2, EntryType
  <2>. HIDE DEF entry
  <2>4. /\ commit \in Seq(CommitEntry) /\ Len(commit) = Len(expected[p]) + 1
        /\ commit[Len(expected[p]) + 1] = entry
    BY <2>3, AppendProperties
  <2>5. commit # <<>> /\ IsPrefix(commit, commit)
    <3>. HIDE DEF commit
    <3>1. Len(<<>>) = 0 /\ Len(commit) # 0
      BY <2>3, <2>4
    <3>. QED
      BY <2>4, <3>1, PrefixReflexive
  <2>6. Last(commit) = entry /\ Len(commit) - 1 = Len(expected[p])
    BY <2>3, <2>4 DEF Last
  <2>7. entry = Entry(mail[p], p, calls[p], Len(commit) - 1)
    BY <2>6 DEF entry
  <2>. HIDE DEF commit
  <2>8. HonestPosted(p)'
    BY <1>0, <2>2, <2>5, <2>6, <2>7 DEF HonestPosted, IsAncestor, Entry, Log!Entry
  <2>. QED
    BY <2>2, <2>8 DEF HonestExisting
<1>3. CASE ScanQa(p) /\ reply'[p] \in {"posted", "existing"}
  <2>1. head' = head /\ pc[p] = "scan" /\ reply[p] = "nothing"
    BY <1>0, <1>3 DEF ScanQa, Answering, listVars
  <2>2. PICK k \in Holders(head, mail[p]) :
          answer'[p] = SubSeq(head, 1, k) /\ reply'[p] = "existing"
    BY <1>0, <1>3, <2>1 DEF ScanQa, Finish, TypeOK
  <2>3. k \in 1..Len(head) /\ head \in Seq(CommitEntry) /\ Len(head) \in Nat
    BY <1>0, LenProperties DEF Holders, Log!Holders, TypeOK, Commit
  <2>4. \A i \in 1..k : head[i] \in CommitEntry
    BY <2>3, ElementOfSeq
  <2>5. /\ SubSeq(head, 1, k) \in Seq(CommitEntry) /\ Len(SubSeq(head, 1, k)) = k
        /\ \A i \in 1..k : SubSeq(head, 1, k)[i] = head[i]
    BY <2>3, <2>4, SubSeqProperties
  <2>6. IsPrefix(SubSeq(head, 1, k), head) /\ SubSeq(head, 1, k) # <<>>
    <3>. DEFINE s == SubSeq(head, 1, k)
    <3>1. s \in Seq(CommitEntry) /\ Len(s) = k /\ \A i \in 1..k : s[i] = head[i]
      BY <2>5
    <3>. HIDE DEF s
    <3>2. Len(<<>>) = 0 /\ Len(s) # 0 /\ Len(s) <= Len(head)
      BY <2>3, <3>1
    <3>3. IsPrefix(s, head) /\ s # <<>>
      BY <2>3, <3>1, <3>2, PrefixPointwise
    <3>. QED
      BY <3>3 DEF s
  <2>7. IsAncestor(answer'[p], head') /\ Len(answer'[p]) \in Holders(head', mail'[p])
    BY <1>0, <2>1, <2>2, <2>5, <2>6 DEF IsAncestor
  <2>8. HonestExisting(p)'
    BY <2>7 DEF HonestExisting, IsAncestor, Holders, Log!Holders
  <2>. QED
    BY <2>2, <2>8 DEF HonestPosted
<1>4. CASE EnsureRead(p) \/ EnsureCreate(p) \/ EnsureReread(p) \/ ReadHead(p)
  <2>1. reply'[p] \notin {"posted", "existing"}
    BY <1>0, <1>4 DEF EnsureRead, EnsureCreate, EnsureReread, ReadHead, Ensured, Finish,
                      Answering, TypeOK
  <2>. QED
    BY <1>1, <2>1
<1>. QED
  BY <1>1, <1>2, <1>3, <1>4 DEF PostStep

LEMMA HonestOwnStep ==
  ASSUME HonestInv, HonestInv => LogInv', [Next]_vars, NEW p \in Procs, StepOf(p)
  PROVE  Honest(p)'
<1>0. /\ TypeOK /\ TypeOK' /\ CallsWellFormed /\ Answering(p) /\ Honest(p) /\ Counted
      /\ calls[p] \in Nat
  BY DEF HonestInv, LogInv, HistoryInv, TypeOK
<1>1. CASE PostStep(p)
  <2>1. calls'[p] = calls[p] /\ pc[p] \in PostSteps /\ Absent(p)
    BY <1>0, <1>1 DEF PostStep, EnsureRead, EnsureCreate, EnsureReread, ReadHead, ScanQa,
       Publish, PostSteps, Honest
  <2>2. pc'[p] \in PostSteps \/ reply'[p] \in {"existing", "failed"}
          => ~(pc'[p] = "done" /\ reply'[p] = "posted")
    BY DEF PostSteps
  <2>3. pc'[p] \in PostSteps \/ reply'[p] \in {"existing", "failed"} => Absent(p)'
    BY <2>1, <2>2, AbsentKept
  <2>4. HonestPosted(p)' /\ HonestExisting(p)'
    BY <1>0, <1>1, AnswersMade
  <2>. QED
    BY <2>3, <2>4 DEF Honest, Absent
<1>2. CASE AdvanceStep(p) \/ \E r \in Readers, t \in Prefixes(head) : BeginAdvance(p, r, t)
  <2>1. /\ pc'[p] \notin PostSteps
        /\ reply'[p] \in {"nothing", "unmoved", "refused", "advanced", "contended"}
    BY <1>0, <1>2 DEF AdvanceStep, AdvanceRead, AdvanceCas, BeginAdvance, Finish, Goto, TypeOK,
       Answering, PostSteps
  <2>. QED
    BY <2>1 DEF Honest, HonestPosted, HonestExisting
<1>3. CASE Return(p) \/ Crash(p)
  <2>1. pc'[p] = "idle" /\ reply'[p] = "nothing"
    BY <1>0, <1>3 DEF Return, Crash, Forget, Goto, TypeOK
  <2>. QED
    BY <2>1 DEF Honest, HonestPosted, HonestExisting, PostSteps
<1>4. CASE \E m \in Mails \cup {Genesis} : BeginPost(p, m)
  <2>1. reply'[p] = "nothing" /\ head' = head /\ calls'[p] = calls[p] + 1
    BY <1>0, <1>4 DEF BeginPost, TypeOK, Answering, listVars
  <2>2. \A k \in DOMAIN head : head[k].by # <<p, calls[p] + 1>>
    <3>1. \A k \in DOMAIN head : head[k].by = <<p, calls[p] + 1>> => calls[p] + 1 <= calls[p]
      BY <1>0 DEF Counted
    <3>. QED
      BY <1>0, <3>1
  <2>3. Absent(p)'
    BY <2>1, <2>2 DEF Absent
  <2>. QED
    BY <2>1, <2>3 DEF Honest, HonestPosted, HonestExisting, Absent
<1>. QED
  BY <1>1, <1>2, <1>3, <1>4 DEF StepOf

LEMMA HonestStep ==
  ASSUME HonestInv, [Next]_vars
  PROVE  HonestInv'
<1>0. TypeOK /\ TypeOK' /\ CallsWellFormed /\ LogInv' /\ IsPrefix(head, head')
  BY AnsweringStep, HeadExtends DEF HonestInv, LogInv, HistoryInv
<1>1. Counted'
  BY CountedStep
<1>2. ASSUME NEW p \in Procs, StepOf(p), NEW q \in Procs \ {p}
      PROVE  Honest(q)'
  <2>1. /\ pc'[q] = pc[q] /\ mail'[q] = mail[q] /\ calls'[q] = calls[q]
        /\ reply'[q] = reply[q] /\ answer'[q] = answer[q]
    BY <1>0, <1>2, OthersStay, OthersReply DEF StepOf
  <2>2. Honest(q)
    BY DEF HonestInv
  <2>3. HonestPosted(q)' /\ HonestExisting(q)'
    BY <1>0, <2>1, <2>2, AnswersKept DEF Honest
  <2>4. pc'[q] \in PostSteps \/ reply'[q] \in {"existing", "failed"}
          => /\ ~(pc'[q] = "done" /\ reply'[q] = "posted")
             /\ Absent(q)
    BY <2>1, <2>2 DEF Honest, PostSteps
  <2>5. pc'[q] \in PostSteps \/ reply'[q] \in {"existing", "failed"} => Absent(q)'
    BY <2>1, <2>4, AbsentKept
  <2>. QED
    BY <2>3, <2>5 DEF Honest, Absent
<1>3. ASSUME NEW p \in Procs, StepOf(p)
      PROVE  \A q \in Procs : Honest(q)'
  BY <1>0, <1>2, <1>3, HonestOwnStep
<1>4. CASE UNCHANGED vars
  BY <1>0, <1>1, <1>4
     DEF HonestInv, Honest, HonestPosted, HonestExisting, Absent, IsAncestor, Holders, Log!Holders,
         Entry, Log!Entry, vars, listVars, procVars
<1>. QED
  BY <1>0, <1>1, <1>3, <1>4 DEF HonestInv, Next, StepOf

\* What post() answers is true and stays true: a posted mail is on the list and
\* is this call's, an existing one is of its item, and a call that gave up or
\* found another's mail has left nothing behind, killed or not.
THEOREM HonestReplies == Spec => []RepliesHonest
<1>1. Init => HonestInv
  <2>1. Init => Counted /\ \A p \in Procs : Honest(p)
    BY DEF Init, Counted, Honest, HonestPosted, HonestExisting, PostSteps
  <2>. QED
    BY <2>1, LogInit DEF HonestInv
<1>2. HonestInv => RepliesHonest
  BY DEF HonestInv, Honest, HonestPosted, HonestExisting, Absent, RepliesHonest
<1>3. HonestInv /\ [Next]_vars => HonestInv'
  BY HonestStep
<1>. QED
  BY <1>1, <1>2, <1>3, PTL DEF Spec
=============================================================================
