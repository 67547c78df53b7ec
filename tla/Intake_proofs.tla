---------------------------- MODULE Intake_proofs ----------------------------
(***************************************************************************)
(* Proofs about Intake, for any requests, ids and number of faults.        *)
(*                                                                         *)
(* Types hold whoever runs at once.  That an id means one request needs    *)
(* one submission at a time (Serial): what is inductive is that the id a   *)
(* submission listed, chose or opened is nobody else's (IdsFree), that a   *)
(* file is in one directory (Apart), that a submitted request has one file *)
(* (OneFile) and that jobs and outcomes are about the request of theirs    *)
(* (JobsFiled, OutcomesFiled).  That series hold one request needs one     *)
(* worker and origin/HEAD: a branch that was named is still free when it   *)
(* is made, and empty when it is committed to (Building).  From both it    *)
(* follows what becomes of a request: its file is moved after the answer   *)
(* (Unmoved, AnswerFirst), and it has a series more than there were faults *)
(* only when it is through (Counted).                                      *)
(***************************************************************************)
EXTENDS Intake, FiniteSetTheorems, WellFoundedInduction, TLAPS

-----------------------------------------------------------------------------
(* The helpers. *)

\* A set of naturals that is not empty has a least element.
LEMMA LeastExists ==
  ASSUME NEW S \in SUBSET Nat, S # {}
  PROVE  Min(S) \in S /\ \A y \in S : Min(S) <= y
  <1> DEFINE R == OpToRel(<, Nat)
  <1>1. PICK x \in S : \A y \in S : ~ (<<y, x>> \in R)
    <2>1. IsWellFoundedOn(R, Nat)  BY NatLessThanWellFounded
    <2> HIDE DEF R
    <2> QED  BY <2>1, WFMin
  <1>2. \A y \in S : x <= y
    <2> SUFFICES ASSUME NEW y \in S PROVE x <= y
      OBVIOUS
    <2>1. <<y, x>> \notin R  BY <1>1
    <2>2. ~ (y < x)  BY <2>1 DEF OpToRel
    <2> QED  BY <2>2
  <1>3. x \in S /\ \A y \in S : x =< y  BY <1>2
  <1> QED  BY <1>3 DEF Min

\* The loop of _next_id and of _unique_patch_series_branch ends at a number
\* that is not taken.
LEMMA FirstFreeIsFree ==
  ASSUME NEW taken, IsFiniteSet(taken)
  PROVE  FirstFree(taken) \in Ids /\ FirstFree(taken) \notin taken
  <1> DEFINE n == Cardinality(taken)
             free == (1..(n + 1)) \ taken
  <1>1. n \in Nat  BY FS_CardinalityType
  <1>2. free # {}
    <2> SUFFICES ASSUME free = {} PROVE FALSE
      OBVIOUS
    <2>1. 1..(n + 1) \in SUBSET taken  OBVIOUS
    <2>2. Cardinality(1..(n + 1)) <= n
      <3> HIDE DEF n
      <3> QED  BY <2>1, FS_Subset DEF n
    <2>3. Cardinality(1..(n + 1)) = IF 1 > n + 1 THEN 0 ELSE (n + 1) - 1 + 1
      <3>1. 1 \in Int /\ n + 1 \in Int  BY <1>1
      <3> QED  BY <3>1, FS_Interval
    <2> QED  BY <1>1, <2>2, <2>3
  <1>3. free \in SUBSET Nat  BY <1>1
  <1> HIDE DEF free
  <1>4. Min(free) \in free  BY <1>2, <1>3, LeastExists
  <1> QED  BY <1>1, <1>4 DEF FirstFree, free, Ids

\* Leaving out one file of a list leaves the others.
Distinct(s) == \A i, j \in DOMAIN s : s[i].id = s[j].id => i = j

LEMMA RemoveAtPlaces ==
  ASSUME NEW S, NEW s \in Seq(S), NEW i \in DOMAIN s
  PROVE  /\ RemoveAt(s, i) \in Seq(S) /\ DOMAIN RemoveAt(s, i) = 1..(Len(s) - 1)
         /\ \A j \in 1..(Len(s) - 1) : RemoveAt(s, i)[j] = IF j < i THEN s[j] ELSE s[j + 1]
  <1> DEFINE a == SubSeq(s, 1, i - 1)
             b == SubSeq(s, i + 1, Len(s))
             t == a \o b
  <1>1. Len(s) \in Nat /\ i \in 1..Len(s)  OBVIOUS
  <1>2. /\ a \in Seq(S) /\ Len(a) = i - 1
        /\ \A j \in 1..(i - 1) : a[j] = s[j]
    BY <1>1
  <1>3. /\ b \in Seq(S) /\ Len(b) = Len(s) - i
        /\ \A j \in 1..(Len(s) - i) : b[j] = s[i + j]
    BY <1>1
  <1> HIDE DEF a, b
  <1>4. t \in Seq(S) /\ Len(t) = Len(s) - 1  BY <1>1, <1>2, <1>3
  <1>5. \A j \in 1..(Len(s) - 1) : t[j] = IF j < i THEN s[j] ELSE s[j + 1]
    <2> SUFFICES ASSUME NEW j \in 1..(Len(s) - 1) PROVE t[j] = IF j < i THEN s[j] ELSE s[j + 1]
      OBVIOUS
    <2>1. CASE j < i
      <3>1. j \in 1..(i - 1) /\ j <= Len(a)  BY <1>1, <1>2, <2>1
      <3>2. t[j] = a[j]  BY <1>2, <1>3, <3>1
      <3> QED  BY <1>2, <2>1, <3>1, <3>2
    <2>2. CASE ~ (j < i)
      <3>1. j - (i - 1) \in 1..(Len(s) - i) /\ j > Len(a) /\ i + (j - (i - 1)) = j + 1
        BY <1>1, <1>2, <2>2
      <3>2. t[j] = b[j - (i - 1)]  BY <1>2, <1>3, <3>1
      <3> QED  BY <1>3, <2>2, <3>1, <3>2
    <2> QED  BY <2>1, <2>2
  <1>6. DOMAIN t = 1..(Len(s) - 1)  BY <1>4
  <1> QED  BY <1>4, <1>5, <1>6 DEF RemoveAt, a, b

LEMMA RemoveAtLeaves ==
  ASSUME NEW S, NEW s \in Seq(S), NEW i \in DOMAIN s, Distinct(s)
  PROVE  /\ RemoveAt(s, i) \in Seq(S) /\ Distinct(RemoveAt(s, i))
         /\ Range(RemoveAt(s, i)) = {e \in Range(s) : e.id # s[i].id}
  <1> DEFINE t == RemoveAt(s, i)
  <1>1. Len(s) \in Nat /\ DOMAIN s = 1..Len(s) /\ i \in 1..Len(s)  OBVIOUS
  <1>2. /\ t \in Seq(S) /\ DOMAIN t = 1..(Len(s) - 1)
        /\ \A j \in 1..(Len(s) - 1) : t[j] = IF j < i THEN s[j] ELSE s[j + 1]
    BY RemoveAtPlaces
  <1> HIDE DEF t
  <1> DEFINE from(j) == IF j < i THEN j ELSE j + 1
  <1>3. /\ \A j \in 1..(Len(s) - 1) : from(j) \in 1..Len(s) /\ t[j] = s[from(j)] /\ from(j) # i
        /\ \A a, b \in 1..(Len(s) - 1) : from(a) = from(b) => a = b
        /\ \A a \in 1..Len(s) : a # i => \E j \in 1..(Len(s) - 1) : from(j) = a
    <2>1. ASSUME NEW j \in 1..(Len(s) - 1)
          PROVE  from(j) \in 1..Len(s) /\ t[j] = s[from(j)] /\ from(j) # i
      BY <1>1, <1>2
    <2>2. ASSUME NEW a \in 1..(Len(s) - 1), NEW b \in 1..(Len(s) - 1), from(a) = from(b)
          PROVE  a = b
      BY <1>1, <2>2
    <2>3. ASSUME NEW a \in 1..Len(s), a # i
          PROVE  \E j \in 1..(Len(s) - 1) : from(j) = a
      <3>1. CASE a < i
        <4>1. a \in 1..(Len(s) - 1) /\ from(a) = a  BY <1>1, <3>1
        <4> QED  BY <4>1
      <3>2. CASE a > i
        <4>1. a - 1 \in 1..(Len(s) - 1) /\ from(a - 1) = a  BY <1>1, <3>2
        <4> QED  BY <4>1
      <3> QED  BY <1>1, <2>3, <3>1, <3>2
    <2> HIDE DEF from
    <2> QED  BY <2>1, <2>2, <2>3
  <1> HIDE DEF from
  <1>4. Distinct(t)
    <2> SUFFICES ASSUME NEW a \in 1..(Len(s) - 1), NEW b \in 1..(Len(s) - 1), t[a].id = t[b].id
                 PROVE  a = b
      BY <1>2 DEF Distinct
    <2>1. from(a) = from(b)  BY <1>1, <1>3 DEF Distinct
    <2> QED  BY <1>3, <2>1
  <1>5. \A e : e \in Range(t) <=> e \in Range(s) /\ e.id # s[i].id
    <2> SUFFICES ASSUME NEW e PROVE e \in Range(t) <=> e \in Range(s) /\ e.id # s[i].id
      OBVIOUS
    <2>1. ASSUME e \in Range(t) PROVE e \in Range(s) /\ e.id # s[i].id
      <3>1. PICK a \in 1..(Len(s) - 1) : e = t[a]  BY <1>2, <2>1 DEF Range
      <3>2. e = s[from(a)] /\ from(a) \in DOMAIN s /\ from(a) # i  BY <1>1, <1>3, <3>1
      <3> QED  BY <1>1, <3>2 DEF Range, Distinct
    <2>2. ASSUME e \in Range(s), e.id # s[i].id PROVE e \in Range(t)
      <3>1. PICK a \in 1..Len(s) : e = s[a]  BY <1>1, <2>2 DEF Range
      <3>2. PICK j \in 1..(Len(s) - 1) : from(j) = a  BY <1>3, <2>2, <3>1
      <3>3. e = t[j] /\ j \in DOMAIN t  BY <1>2, <1>3, <3>1, <3>2
      <3> QED  BY <3>3 DEF Range
    <2> QED  BY <2>1, <2>2
  <1> QED  BY <1>2, <1>4, <1>5 DEF t

LEMMA AppendFile ==
  ASSUME NEW S, NEW s \in Seq(S), NEW e \in S, Distinct(s), \A x \in Range(s) : x.id # e.id
  PROVE  /\ Append(s, e) \in Seq(S) /\ Distinct(Append(s, e))
         /\ Range(Append(s, e)) = Range(s) \cup {e}
  <1> DEFINE t == Append(s, e)
             n == Len(s)
  <1>1. /\ n \in Nat /\ DOMAIN s = 1..n /\ t \in Seq(S) /\ DOMAIN t = 1..(n + 1)
        /\ t[n + 1] = e /\ \A j \in 1..n : t[j] = s[j]
    OBVIOUS
  <1>2. \A j \in 1..n : t[j] \in Range(s)  BY <1>1 DEF Range
  <1> HIDE DEF t, n
  <1>3. Distinct(t)
    <2> SUFFICES ASSUME NEW a \in 1..(n + 1), NEW b \in 1..(n + 1), t[a].id = t[b].id
                 PROVE  a = b
      BY <1>1 DEF Distinct
    <2>1. CASE a \in 1..n /\ b \in 1..n  BY <1>1, <2>1 DEF Distinct
    <2>2. CASE a \in 1..n /\ b = n + 1  BY <1>1, <1>2, <2>2
    <2>3. CASE a = n + 1 /\ b \in 1..n  BY <1>1, <1>2, <2>3
    <2>4. (a \in 1..n \/ a = n + 1) /\ (b \in 1..n \/ b = n + 1)  BY <1>1
    <2> QED  BY <2>1, <2>2, <2>3, <2>4
  <1>4. \A x : x \in Range(t) <=> x \in Range(s) \cup {e}
    <2> SUFFICES ASSUME NEW x PROVE x \in Range(t) <=> x \in Range(s) \cup {e}
      OBVIOUS
    <2>1. ASSUME x \in Range(t) PROVE x \in Range(s) \cup {e}
      <3>1. PICK a \in 1..(n + 1) : x = t[a]  BY <1>1, <2>1 DEF Range
      <3>2. a \in 1..n \/ a = n + 1  BY <1>1
      <3> QED  BY <1>1, <1>2, <3>1, <3>2
    <2>2. ASSUME x \in Range(s) PROVE x \in Range(t)
      <3>1. PICK a \in 1..n : x = s[a]  BY <1>1, <2>2 DEF Range
      <3>2. x = t[a] /\ a \in 1..(n + 1)  BY <1>1, <3>1
      <3> QED  BY <1>1, <3>2 DEF Range
    <2>3. e \in Range(t)
      <3>1. n + 1 \in 1..(n + 1)  BY <1>1
      <3> QED  BY <1>1, <3>1 DEF Range
    <2> QED  BY <2>1, <2>2, <2>3
  <1> QED  BY <1>1, <1>3, <1>4 DEF t

LEMMA RenameKeeps ==
  ASSUME NEW S, NEW s \in Seq(S), NEW i \in DOMAIN s, NEW e \in S, Distinct(s), e.id = s[i].id,
         NEW t \in Seq(S), DOMAIN t = DOMAIN s, t[i] = e, \A j \in DOMAIN s : j # i => t[j] = s[j]
  PROVE  /\ Distinct(t)
         /\ \A x : x \in Range(t) <=> (x \in Range(s) /\ x.id # e.id) \/ x = e
  <1> DEFINE n == Len(s)
  <1>1. /\ n \in Nat /\ DOMAIN s = 1..n /\ t \in Seq(S) /\ DOMAIN t = 1..n /\ i \in 1..n
        /\ t[i] = e /\ \A j \in 1..n : j # i => t[j] = s[j]
    OBVIOUS
  <1> HIDE DEF n
  <1>2. \A j \in 1..n : t[j].id = s[j].id  BY <1>1
  <1>3. Distinct(t)  BY <1>1, <1>2 DEF Distinct
  <1>4. \A x : x \in Range(t) <=> (x \in Range(s) /\ x.id # e.id) \/ x = e
    <2> SUFFICES ASSUME NEW x
                 PROVE  x \in Range(t) <=> \/ x \in Range(s) /\ x.id # e.id
                                         \/ x = e
      OBVIOUS
    <2>1. ASSUME x \in Range(t), x # e PROVE x \in Range(s) /\ x.id # e.id
      <3>1. PICK a \in 1..n : x = t[a]  BY <1>1, <2>1 DEF Range
      <3>2. a # i /\ x = s[a]  BY <1>1, <2>1, <3>1
      <3> QED  BY <1>1, <3>2 DEF Range, Distinct
    <2>2. ASSUME x \in Range(s), x.id # e.id PROVE x \in Range(t)
      <3>1. PICK a \in 1..n : x = s[a]  BY <1>1, <2>2 DEF Range
      <3>2. x = t[a]  BY <1>1, <2>2, <3>1
      <3> QED  BY <1>1, <3>2 DEF Range
    <2>3. e \in Range(t)  BY <1>1 DEF Range
    <2> QED  BY <2>1, <2>2, <2>3
  <1> QED  BY <1>1, <1>3, <1>4
-----------------------------------------------------------------------------
(* The inbox as a set of files. *)

Entry == [id : Ids, req : Content]
Files == Range(inbox)
Others(k) == {e \in Files : e.id # k}
InboxTyped == inbox \in Seq(Entry) /\ Distinct(inbox)

LEMMA FilesTyped ==
  ASSUME InboxTyped
  PROVE  Files \subseteq Entry /\ InboxIds = {e.id : e \in Files}
  <1>1. \A i \in DOMAIN inbox : inbox[i] \in Entry  BY DEF InboxTyped
  <1> QED  BY <1>1 DEF Files, Range, InboxIds

LEMMA IdsOfFiles ==
  ASSUME InboxTyped, InboxTyped'
  PROVE  InboxIds = {e.id : e \in Files} /\ InboxIds' = {e.id : e \in Files'}
  <1>1. InboxIds = {e.id : e \in Files}  BY FilesTyped
  <1>2. (InboxIds = {e.id : e \in Files})'  BY FilesTyped, PTL
  <1> QED  BY <1>1, <1>2

LEMMA PlaceOf ==
  ASSUME InboxTyped, NEW k \in InboxIds
  PROVE  /\ Place(k) \in DOMAIN inbox /\ inbox[Place(k)] \in Files /\ inbox[Place(k)].id = k
         /\ \A e \in Files : e.id = k => e = inbox[Place(k)]
  <1>1. \E i \in DOMAIN inbox : inbox[i].id = k  BY DEF InboxIds
  <1>2. Place(k) \in DOMAIN inbox /\ inbox[Place(k)].id = k  BY <1>1 DEF Place
  <1> QED  BY <1>2 DEF Files, Range, InboxTyped, Distinct

LEMMA WithoutLeaves ==
  ASSUME InboxTyped, NEW k
  PROVE  Without(k) \in Seq(Entry) /\ Distinct(Without(k)) /\ Range(Without(k)) = Others(k)
  <1>1. CASE k \in InboxIds
    <2>1. Place(k) \in DOMAIN inbox /\ inbox[Place(k)].id = k  BY <1>1, PlaceOf
    <2> DEFINE t == RemoveAt(inbox, Place(k))
    <2>2. /\ t \in Seq(Entry) /\ Distinct(t)
          /\ Range(t) = {e \in Range(inbox) : e.id # inbox[Place(k)].id}
      BY <2>1, RemoveAtLeaves DEF InboxTyped
    <2>3. Without(k) = t  BY <1>1 DEF Without
    <2> QED  BY <2>1, <2>2, <2>3 DEF Others, Files
  <1>2. CASE k \notin InboxIds
    <2>1. Without(k) = inbox  BY <1>2 DEF Without
    <2>2. \A e \in Files : e.id # k  BY <1>2, FilesTyped
    <2> QED  BY <2>1, <2>2 DEF Others, Files, InboxTyped
  <1> QED  BY <1>1, <1>2

\* What each step makes of the inbox.
LEMMA OpenFiles ==
  ASSUME InboxTyped, NEW r \in Requests, Open(r), sub[r].id \in Ids
  PROVE  /\ InboxTyped'
         /\ Files' = Others(sub[r].id) \cup {[id |-> sub[r].id, req |-> Torn]}
  <1> DEFINE k == sub[r].id
             e == [id |-> k, req |-> Torn]
  <1>1. inbox' = Append(Without(k), e)  BY DEF Open
  <1>2. e \in Entry  BY DEF Entry, Content
  <1>3. /\ Without(k) \in Seq(Entry) /\ Distinct(Without(k)) /\ Range(Without(k)) = Others(k)
    BY WithoutLeaves
  <1>4. \A x \in Range(Without(k)) : x.id # e.id  BY <1>3 DEF Others
  <1>5. /\ inbox' \in Seq(Entry) /\ Distinct(inbox')
        /\ Range(inbox') = Range(Without(k)) \cup {e}
    <2> HIDE DEF e, k
    <2> QED  BY <1>1, <1>2, <1>3, <1>4, AppendFile
  <1> QED  BY <1>3, <1>5 DEF InboxTyped, Files

LEMMA WriteFiles ==
  ASSUME InboxTyped, NEW r \in Requests, Write(r), sub[r].id \in Ids, sub[r].id \in InboxIds
  PROVE  /\ InboxTyped' /\ processed' = processed
         /\ Files' = Others(sub[r].id) \cup {[id |-> sub[r].id, req |-> r]}
  <1> DEFINE k == sub[r].id
             e == [id |-> k, req |-> r]
             i == Place(k)
  <1>1. inbox' = [inbox EXCEPT ![i].req = r] /\ processed' = processed  BY DEF Write
  <1>2. i \in DOMAIN inbox /\ inbox[i].id = k  BY PlaceOf
  <1>3. inbox[i] \in Entry  BY <1>2 DEF InboxTyped
  <1>4. [inbox[i] EXCEPT !.req = r] = e  BY <1>2, <1>3 DEF Entry
  <1>5. inbox' = [inbox EXCEPT ![i] = e]  BY <1>1, <1>2, <1>4
  <1>6. e \in Entry /\ e.id = inbox[i].id  BY <1>2 DEF Entry, Content
  <1>7. /\ inbox' \in Seq(Entry) /\ Distinct(inbox')
        /\ \A x : x \in Range(inbox') <=> (x \in Range(inbox) /\ x.id # e.id) \/ x = e
    <2> HIDE DEF e, k, i
    <2>1. inbox \in Seq(Entry) /\ Distinct(inbox)  BY DEF InboxTyped
    <2>2. /\ inbox' \in Seq(Entry) /\ DOMAIN inbox' = DOMAIN inbox /\ inbox'[i] = e
          /\ \A j \in DOMAIN inbox : j # i => inbox'[j] = inbox[j]
      BY <2>1, <1>2, <1>5, <1>6
    <2> QED  BY <2>1, <2>2, <1>2, <1>6, RenameKeeps
  <1> QED  BY <1>1, <1>7 DEF InboxTyped, Files, Others

LEMMA MoveFiles ==
  ASSUME InboxTyped, NEW w \in Workers, Move(w), job[w].id \in InboxIds
  PROVE  /\ InboxTyped' /\ Files' = Others(job[w].id)
         /\ \E e \in Files : e.id = job[w].id /\ processed' = Put(processed, job[w].id, e.req)
  <1>1. /\ inbox' = Without(job[w].id)
        /\ processed' = Put(processed, job[w].id, inbox[Place(job[w].id)].req)
    BY DEF Move
  <1> DEFINE k == job[w].id
  <1>2. InboxTyped' /\ Files' = Others(k)
    <2> HIDE DEF k
    <2>1. Without(k) \in Seq(Entry) /\ Distinct(Without(k)) /\ Range(Without(k)) = Others(k)
      BY WithoutLeaves
    <2>2. inbox' = Without(k)  BY <1>1 DEF k
    <2> QED  BY <2>1, <2>2 DEF InboxTyped, Files
  <1>3. inbox[Place(k)] \in Files /\ inbox[Place(k)].id = k  BY PlaceOf
  <1> QED  BY <1>1, <1>2, <1>3
-----------------------------------------------------------------------------
(* Types. *)

\* What is in the files ...
Lists ==
  /\ InboxTyped /\ IsFiniteSet(InboxIds)
  /\ DOMAIN processed \subseteq Ids /\ Range(processed) \subseteq Content
  /\ IsFiniteSet(DOMAIN processed)
  /\ DOMAIN results \subseteq DOMAIN processed /\ Range(results) \subseteq {"promoted", "rejected"}

\* ... in the repository, of which no branch is ever removed ...
Repository ==
  /\ DOMAIN outcomes \subseteq Ids /\ Range(outcomes) \subseteq Seq(Requests)
  /\ 0 \in DOMAIN branches /\ DOMAIN branches \subseteq Nat /\ Range(branches) \subseteq Seq(Requests)
  /\ IsFiniteSet(DOMAIN branches)
  /\ head \in DOMAIN branches

\* ... and in the processes.
Processes ==
  /\ sub \in [Requests -> Submission] /\ job \in [Workers -> Job] /\ faults \in 0..MaxFaults
  /\ \A r \in Requests : sub[r].at = "listed" => IsFiniteSet(sub[r].ids)
  /\ \A w \in Workers : job[w] # Idle =>
       /\ job[w].base \in DOMAIN branches /\ job[w].back \in DOMAIN branches
       /\ job[w].at = "moved" => job[w].id \in DOMAIN processed

TypeInv == Lists /\ Repository /\ Processes

LEMMA PutFacts ==
  ASSUME NEW f, NEW k, NEW x
  PROVE  /\ DOMAIN Put(f, k, x) = DOMAIN f \cup {k}
         /\ \A y \in DOMAIN f \cup {k} : Put(f, k, x)[y] = IF y = k THEN x ELSE f[y]
         /\ Range(Put(f, k, x)) \subseteq Range(f) \cup {x}
  BY DEF Put, Range

\* A call that has begun and is under way has the fields of its step.
LEMMA CallTypes ==
  ASSUME Processes
  PROVE  /\ \A r \in Requests : /\ sub[r].at = "listed" => sub[r].ids \subseteq Ids
                                /\ sub[r].at \in {"named", "open"} => sub[r].id \in Ids
         /\ \A w \in Workers : job[w].at # "idle" => job[w] # Idle
         /\ \A w \in Workers : job[w] # Idle =>
              /\ job[w].at \in AtWork /\ job[w].id \in Ids /\ job[w].req \in Requests
              /\ job[w].branch \in Nat /\ job[w].base \in Nat /\ job[w].back \in Nat
              /\ job[w] \in [at : AtWork, id : Ids, req : Requests,
                             branch : Nat, base : Nat, back : Nat]
  <1>1. ASSUME NEW r \in Requests
        PROVE  /\ sub[r].at = "listed" => sub[r].ids \subseteq Ids
               /\ sub[r].at \in {"named", "open"} => sub[r].id \in Ids
    <2>1. sub[r] \in Submission  BY DEF Processes
    <2> QED  BY <2>1 DEF Submission
  <1>2. ASSUME NEW w \in Workers
        PROVE  /\ job[w].at # "idle" => job[w] # Idle
               /\ job[w] # Idle =>
                    job[w] \in [at : AtWork, id : Ids, req : Requests,
                                branch : Nat, base : Nat, back : Nat]
    <2>1. job[w] \in Job  BY DEF Processes
    <2> QED  BY <2>1 DEF Job, Idle
  <1> QED  BY <1>1, <1>2

LEMMA TypeInit == Init => TypeInv
  <1> SUFFICES ASSUME Init PROVE TypeInv
    OBVIOUS
  <1>1. Lists
    <2>1. InboxTyped /\ InboxIds = {}  BY DEF Init, InboxTyped, Distinct, InboxIds
    <2>2. DOMAIN processed = {} /\ DOMAIN results = {}  BY DEF Init
    <2>3. Range(processed) = {} /\ Range(results) = {}  BY <2>2 DEF Range
    <2> QED  BY <2>1, <2>2, <2>3, FS_EmptySet DEF Lists
  <1>2. Repository
    <2>1. DOMAIN outcomes = {} /\ DOMAIN branches = {0} /\ head = 0  BY DEF Init
    <2>2. Range(outcomes) = {} /\ Range(branches) \subseteq {<<>>}
      BY <2>1 DEF Init, Range
    <2>3. IsFiniteSet({0})  BY FS_Singleton
    <2>4. <<>> \in Seq(Requests)  OBVIOUS
    <2> QED  BY <2>1, <2>2, <2>3, <2>4 DEF Repository
  <1>3. Processes
    BY IntakeAssumption DEF Init, Processes, Submission, Job, Idle
  <1> QED  BY <1>1, <1>2, <1>3 DEF TypeInv

\* A step that leaves the files alone, or the repository, keeps their types.
LEMMA FilesKept ==
  ASSUME Lists, UNCHANGED files
  PROVE  Lists'
  BY DEF Lists, files, InboxTyped, InboxIds, Distinct

LEMMA RepositoryKept ==
  ASSUME Repository, UNCHANGED repo
  PROVE  Repository'
  BY DEF Repository, repo

\* A step of a submission that goes on with x.
LEMMA SubmissionGoes ==
  ASSUME Processes, NEW r \in Requests, NEW x \in Submission, sub' = [sub EXCEPT ![r] = x],
         x.at = "listed" => IsFiniteSet(x.ids), UNCHANGED <<repo, job>>,
         DOMAIN processed \subseteq DOMAIN processed', faults' \in 0..MaxFaults
  PROVE  Processes'
  <1>1. sub' \in [Requests -> Submission]  BY DEF Processes
  <1>2. \A q \in Requests : sub'[q].at = "listed" => IsFiniteSet(sub'[q].ids)
    BY DEF Processes
  <1>3. job' = job /\ branches' = branches  BY DEF repo
  <1> QED  BY <1>1, <1>2, <1>3 DEF Processes

\* A step of a worker that goes on with x.
LEMMA WorkerGoes ==
  ASSUME Processes, NEW w \in Workers, NEW x \in Job, job' = [job EXCEPT ![w] = x], sub' = sub,
         DOMAIN processed \subseteq DOMAIN processed', DOMAIN branches \subseteq DOMAIN branches',
         x # Idle => /\ x.base \in DOMAIN branches' /\ x.back \in DOMAIN branches'
                     /\ x.at = "moved" => x.id \in DOMAIN processed',
         faults' \in 0..MaxFaults
  PROVE  Processes'
  <1>1. job' \in [Workers -> Job]  BY DEF Processes
  <1>2. \A v \in Workers : job'[v] = IF v = w THEN x ELSE job[v]  BY DEF Processes
  <1> QED  BY <1>1, <1>2 DEF Processes

LEMMA SubmitTyped ==
  ASSUME TypeInv, NEW r \in Requests, SubmitStep(r)
  PROVE  TypeInv'
  <1>1. Lists /\ Repository /\ Processes /\ faults \in 0..MaxFaults
    BY DEF TypeInv, Processes
  <1>2. CASE ListInbox(r)
    <2> DEFINE x == [at |-> "listed", ids |-> Listed(TRUE)]
    <2>1. /\ sub' = [sub EXCEPT ![r] = x] /\ UNCHANGED <<files, repo, job, faults>>
      BY <1>2 DEF ListInbox
    <2>2. Listed(TRUE) \subseteq Ids /\ IsFiniteSet(Listed(TRUE))
      <3>1. InboxIds \subseteq Ids  BY <1>1, FilesTyped DEF Lists, Entry
      <3> QED  BY <1>1, <3>1 DEF Lists, Listed
    <2>3. x \in Submission /\ IsFiniteSet(x.ids)  BY <2>2 DEF Submission
    <2> HIDE DEF x
    <2>4. Lists' /\ Repository'  BY <1>1, <2>1, FilesKept, RepositoryKept
    <2>5. Processes'  BY <1>1, <2>1, <2>3, SubmissionGoes DEF files
    <2> QED  BY <2>4, <2>5 DEF TypeInv
  <1>3. CASE NextId(r)
    <2> DEFINE taken == sub[r].ids \cup Listed(FALSE)
               x == [at |-> "named", id |-> FirstFree(taken)]
    <2>1. /\ sub' = [sub EXCEPT ![r] = x] /\ UNCHANGED <<files, repo, job, faults>>
          /\ sub[r].at = "listed"
      BY <1>3 DEF NextId
    <2>2. IsFiniteSet(taken)
      <3>1. IsFiniteSet(sub[r].ids) /\ IsFiniteSet(Listed(FALSE))
        BY <1>1, <2>1 DEF Processes, Lists, Listed
      <3> QED  BY <3>1, FS_Union
    <2> HIDE DEF taken
    <2>3. x \in Submission /\ x.at # "listed"  BY <2>2, FirstFreeIsFree DEF Submission
    <2> HIDE DEF x
    <2>4. Lists' /\ Repository'  BY <1>1, <2>1, FilesKept, RepositoryKept
    <2>5. Processes'  BY <1>1, <2>1, <2>3, SubmissionGoes DEF files
    <2> QED  BY <2>4, <2>5 DEF TypeInv
  <1>4. CASE Open(r)
    <2> DEFINE k == sub[r].id
               x == [at |-> "open", id |-> k]
    <2>1. /\ sub[r].at = "named" /\ k \in Ids
          /\ sub' = [sub EXCEPT ![r].at = "open"] /\ UNCHANGED <<processed, results, repo, job, faults>>
      BY <1>1, <1>4, CallTypes DEF Open
    <2>2. sub[r] \in [at : {"named", "open"}, id : Ids]
      <3>1. sub[r] \in Submission  BY <1>1 DEF Processes
      <3> QED  BY <2>1, <3>1 DEF Submission
    <2>3. sub' = [sub EXCEPT ![r] = x]
      <3>1. [sub[r] EXCEPT !.at = "open"] = x  BY <2>2
      <3> QED  BY <1>1, <2>1, <3>1 DEF Processes
    <2>4. x \in Submission /\ x.at # "listed"  BY <2>1 DEF Submission
    <2>5. InboxTyped' /\ Files' = Others(k) \cup {[id |-> k, req |-> Torn]}
      BY <1>1, <1>4, <2>1, OpenFiles DEF Lists
    <2> HIDE DEF x
    <2>6. Lists'
      <3>1. InboxIds' \subseteq InboxIds \cup {k}
        <4>1. InboxIds = {e.id : e \in Files} /\ InboxIds' = {e.id : e \in Files'}
          BY <1>1, <2>5, IdsOfFiles DEF Lists
        <4> QED  BY <2>5, <4>1 DEF Others
      <3>2. IsFiniteSet(InboxIds \cup {k})  BY <1>1, FS_AddElement DEF Lists
      <3>3. IsFiniteSet(InboxIds')  BY <3>1, <3>2, FS_Subset
      <3> QED  BY <1>1, <2>1, <2>5, <3>3 DEF Lists
    <2>7. Repository'  BY <1>1, <2>1, RepositoryKept
    <2>8. Processes'  BY <1>1, <2>1, <2>3, <2>4, SubmissionGoes
    <2> QED  BY <2>6, <2>7, <2>8 DEF TypeInv
  <1>5. CASE Write(r)
    <2> DEFINE k == sub[r].id
               x == [at |-> "done"]
    <2>1. /\ sub[r].at = "open" /\ k \in Ids
          /\ sub' = [sub EXCEPT ![r] = x] /\ UNCHANGED <<results, repo, job, faults>>
      BY <1>1, <1>5, CallTypes DEF Write
    <2>2. x \in Submission /\ x.at # "listed"  BY DEF Submission
    <2>3. ASSUME k \in InboxIds PROVE Lists' /\ DOMAIN processed \subseteq DOMAIN processed'
      <3>1. /\ InboxTyped' /\ processed' = processed
            /\ Files' = Others(k) \cup {[id |-> k, req |-> r]}
        BY <1>1, <1>5, <2>1, <2>3, WriteFiles DEF Lists
      <3>2. InboxIds' \subseteq InboxIds
        <4>1. InboxIds = {e.id : e \in Files} /\ InboxIds' = {e.id : e \in Files'}
          BY <1>1, <3>1, IdsOfFiles DEF Lists
        <4> QED  BY <2>3, <3>1, <4>1 DEF Others
      <3>3. IsFiniteSet(InboxIds')  BY <1>1, <3>2, FS_Subset DEF Lists
      <3> QED  BY <1>1, <2>1, <3>1, <3>3 DEF Lists
    <2>4. ASSUME k \notin InboxIds PROVE Lists' /\ DOMAIN processed \subseteq DOMAIN processed'
      <3>1. processed' = Put(processed, k, r) /\ inbox' = inbox  BY <1>5, <2>4 DEF Write
      <3>2. /\ DOMAIN processed' = DOMAIN processed \cup {k}
            /\ Range(processed') \subseteq Range(processed) \cup {r}
        <4> HIDE DEF k
        <4> QED  BY <3>1, PutFacts
      <3>3. IsFiniteSet(DOMAIN processed')  BY <1>1, <3>2, FS_AddElement DEF Lists
      <3>4. InboxTyped' /\ InboxIds' = InboxIds
        BY <1>1, <3>1 DEF Lists, InboxTyped, Distinct, InboxIds
      <3> QED  BY <1>1, <2>1, <3>2, <3>3, <3>4 DEF Lists, Content
    <2>5. Lists' /\ DOMAIN processed \subseteq DOMAIN processed'
      BY <2>3, <2>4
    <2> HIDE DEF x
    <2>6. Repository'  BY <1>1, <2>1, RepositoryKept
    <2>7. Processes'  BY <1>1, <2>1, <2>2, <2>5, SubmissionGoes
    <2> QED  BY <2>5, <2>6, <2>7 DEF TypeInv
  <1> QED  BY <1>2, <1>3, <1>4, <1>5 DEF SubmitStep

\* What a step of a worker that changes only its place goes on with.
LEMMA AtGoes ==
  ASSUME Processes, NEW w \in Workers, NEW step, NEW next \in AtWork, step # "idle", At(w, step, next)
  PROVE  /\ job[w] # Idle /\ job[w].at = step
         /\ \E x \in Job : /\ job' = [job EXCEPT ![w] = x]
                           /\ x = [job[w] EXCEPT !.at = next] /\ x # Idle
                           /\ x.at = next /\ x.id = job[w].id /\ x.req = job[w].req
                           /\ x.branch = job[w].branch
                           /\ x.base = job[w].base /\ x.back = job[w].back
  <1>1. job[w] # Idle /\ job[w].at = step /\ job' = [job EXCEPT ![w].at = next]
    BY CallTypes DEF At
  <1> DEFINE x == [job[w] EXCEPT !.at = next]
  <1>2. job[w] \in [at : AtWork, id : Ids, req : Requests, branch : Nat, base : Nat, back : Nat]
    BY <1>1, CallTypes
  <1>3. /\ x \in Job /\ x.at = next /\ x.id = job[w].id /\ x.req = job[w].req
        /\ x.branch = job[w].branch /\ x.base = job[w].base /\ x.back = job[w].back
    BY <1>2 DEF Job
  <1>4. x # Idle  BY <1>3 DEF Idle, AtWork
  <1>5. job' = [job EXCEPT ![w] = x]  BY <1>1 DEF Processes
  <1> HIDE DEF x
  <1>6. x = [job[w] EXCEPT !.at = next]  BY DEF x
  <1> QED  BY <1>1, <1>3, <1>4, <1>5, <1>6

LEMMA IdleGoes ==
  ASSUME Processes, NEW w \in Workers, job' = [job EXCEPT ![w] = Idle], UNCHANGED <<branches, sub>>,
         DOMAIN processed \subseteq DOMAIN processed', faults' \in 0..MaxFaults
  PROVE  Processes'
  <1>1. Idle \in Job  BY DEF Job
  <1>2. DOMAIN branches \subseteq DOMAIN branches'  OBVIOUS
  <1> QED  BY <1>1, <1>2, WorkerGoes

LEMMA WorkerTyped ==
  ASSUME TypeInv, NEW w \in Workers, WorkerStep(w)
  PROVE  TypeInv'
  <1>1. Lists /\ Repository /\ Processes /\ faults \in 0..MaxFaults
    BY DEF TypeInv, Processes
  <1>2. CASE Take(w)
    <2> DEFINE x == TakenAs(Head(inbox).id)
    <2>1. /\ inbox # <<>> /\ Head(inbox).req # Torn
          /\ job' = [job EXCEPT ![w] = x] /\ UNCHANGED <<files, repo, sub, faults>>
      BY <1>2 DEF Take
    <2>2. Head(inbox) \in Entry  BY <1>1, <2>1 DEF Lists, InboxTyped
    <2>3. /\ x \in Job /\ x # Idle /\ x.at = "read" /\ x.base = 0 /\ x.back = 0
      BY <2>1, <2>2 DEF TakenAs, Job, Entry, Content, AtWork, Ids, Idle
    <2> HIDE DEF x
    <2>4. Lists' /\ Repository'  BY <1>1, <2>1, FilesKept, RepositoryKept
    <2>5. Processes'
      <3>1. processed' = processed /\ branches' = branches /\ 0 \in DOMAIN branches
        BY <1>1, <2>1 DEF files, repo, Repository
      <3> QED  BY <1>1, <2>1, <2>3, <3>1, WorkerGoes
    <2> QED  BY <2>4, <2>5 DEF TypeInv
  <1>3. CASE Reject(w)
    <2> DEFINE k == job[w].id
               o == Append(IF k \in DOMAIN outcomes THEN outcomes[k] ELSE <<>>, job[w].req)
    <2>1. /\ At(w, "read", "answered") /\ outcomes' = Put(outcomes, k, o)
          /\ UNCHANGED <<files, branches, head, sub, faults>>
      BY <1>3 DEF Reject
    <2>2. PICK x \in Job : /\ job' = [job EXCEPT ![w] = x] /\ x.at = "answered"
                           /\ x.base = job[w].base /\ x.back = job[w].back /\ job[w] # Idle
      BY <1>1, <2>1, AtGoes DEF AtWork
    <2>3. k \in Ids /\ job[w].req \in Requests  BY <1>1, <2>2, CallTypes
    <2>4. o \in Seq(Requests)
      <3>1. (IF k \in DOMAIN outcomes THEN outcomes[k] ELSE <<>>) \in Seq(Requests)
        BY <1>1 DEF Repository, Range
      <3> QED  BY <2>3, <3>1
    <2> HIDE DEF o
    <2>5. Repository'
      <3> HIDE DEF k
      <3>1. /\ DOMAIN outcomes' = DOMAIN outcomes \cup {k}
            /\ Range(outcomes') \subseteq Range(outcomes) \cup {o}
        BY <2>1, PutFacts
      <3> QED  BY <1>1, <2>1, <2>3, <2>4, <3>1 DEF Repository
    <2>6. Lists'  BY <1>1, <2>1, FilesKept
    <2>7. Processes'
      <3>1. processed' = processed /\ branches' = branches  BY <2>1 DEF files
      <3>2. job[w].base \in DOMAIN branches /\ job[w].back \in DOMAIN branches
        BY <1>1, <2>2 DEF Processes
      <3> QED  BY <1>1, <2>1, <2>2, <3>1, <3>2, WorkerGoes
    <2> QED  BY <2>5, <2>6, <2>7 DEF TypeInv
  <1>4. CASE Name(w)
    <2>1. /\ job[w].at = "read" /\ UNCHANGED <<files, repo, sub, faults>>
          /\ job' = [job EXCEPT ![w].at = "named", ![w].branch = FreeBranch, ![w].base = DefaultBranch]
      BY <1>4 DEF Name
    <2>2. job[w] # Idle
          /\ job[w] \in [at : AtWork, id : Ids, req : Requests, branch : Nat, base : Nat, back : Nat]
      BY <1>1, <2>1, CallTypes
    <2>3. FreeBranch \in Nat
      <3>1. IsFiniteSet(DOMAIN branches \ {0})  BY <1>1, FS_Subset DEF Repository
      <3> QED  BY <3>1, FirstFreeIsFree DEF FreeBranch, Ids
    <2>4. DefaultBranch \in DOMAIN branches /\ DefaultBranch \in Nat
      BY <1>1 DEF DefaultBranch, Repository
    <2> DEFINE x == [job[w] EXCEPT !.at = "named", !.branch = FreeBranch, !.base = DefaultBranch]
    <2>5. /\ x \in Job /\ x.at = "named" /\ x.base = DefaultBranch /\ x.back = job[w].back
      BY <2>2, <2>3, <2>4 DEF Job, AtWork
    <2>6. job' = [job EXCEPT ![w] = x]  BY <1>1, <2>1 DEF Processes
    <2> HIDE DEF x
    <2>7. Lists' /\ Repository'  BY <1>1, <2>1, FilesKept, RepositoryKept
    <2>8. Processes'
      <3>1. processed' = processed /\ branches' = branches /\ job[w].back \in DOMAIN branches
        BY <1>1, <2>1, <2>2 DEF files, repo, Processes
      <3> QED  BY <1>1, <2>1, <2>4, <2>5, <2>6, <3>1, WorkerGoes
    <2> QED  BY <2>7, <2>8 DEF TypeInv
  <1>5. CASE Checkout(w)
    <2> DEFINE b == job[w].branch
               from == branches[job[w].base]
               x == [job[w] EXCEPT !.at = "checked_out", !.back = head]
    <2>1. /\ job[w].at = "named" /\ head' = b
          /\ branches' = Put(branches, b, from)
          /\ job' = [job EXCEPT ![w].at = "checked_out", ![w].back = head]
          /\ UNCHANGED <<files, outcomes, sub, faults>>
      BY <1>5 DEF Checkout
    <2>2. /\ job[w] # Idle /\ b \in Nat
          /\ job[w] \in [at : AtWork, id : Ids, req : Requests, branch : Nat, base : Nat, back : Nat]
      BY <1>1, <2>1, CallTypes
    <2>3. head \in DOMAIN branches /\ head \in Nat /\ job[w].base \in DOMAIN branches
      BY <1>1, <2>2 DEF Repository, Processes
    <2>4. /\ x \in Job /\ x.at = "checked_out" /\ x.base = job[w].base /\ x.back = head
      BY <2>2, <2>3 DEF Job, AtWork
    <2>5. job' = [job EXCEPT ![w] = x]  BY <1>1, <2>1 DEF Processes
    <2> HIDE DEF x, b, from
    <2>6. /\ DOMAIN branches' = DOMAIN branches \cup {b}
          /\ Range(branches') \subseteq Range(branches) \cup {from}
      BY <2>1, PutFacts
    <2>7. Repository'
      <3>1. from \in Seq(Requests)  BY <1>1, <2>3 DEF Repository, Range, from
      <3>2. IsFiniteSet(DOMAIN branches \cup {b})  BY <1>1, FS_AddElement DEF Repository
      <3> QED  BY <1>1, <2>1, <2>2, <2>6, <3>1, <3>2 DEF Repository
    <2>8. Lists'  BY <1>1, <2>1, FilesKept
    <2>9. Processes'
      <3>1. processed' = processed  BY <2>1 DEF files
      <3> QED  BY <1>1, <2>1, <2>3, <2>4, <2>5, <2>6, <3>1, WorkerGoes
    <2> QED  BY <2>7, <2>8, <2>9 DEF TypeInv
  <1>6. CASE Commit(w)
    <2>1. /\ At(w, "checked_out", "committed") /\ UNCHANGED <<files, outcomes, head, sub, faults>>
          /\ branches' = [branches EXCEPT ![head] = Append(@, job[w].req)]
      BY <1>6 DEF Commit
    <2>2. PICK x \in Job : /\ job' = [job EXCEPT ![w] = x] /\ x.at = "committed"
                           /\ x.base = job[w].base /\ x.back = job[w].back /\ job[w] # Idle
      BY <1>1, <2>1, AtGoes DEF AtWork
    <2>3. job[w].req \in Requests  BY <1>1, <2>2, CallTypes
    <2>4. /\ DOMAIN branches' = DOMAIN branches
          /\ Range(branches') \subseteq Range(branches) \cup {Append(branches[head], job[w].req)}
      BY <2>1 DEF Range
    <2>5. Repository'
      <3>1. Append(branches[head], job[w].req) \in Seq(Requests)
        BY <1>1, <2>3 DEF Repository, Range
      <3> QED  BY <1>1, <2>1, <2>4, <3>1 DEF Repository
    <2>6. Lists'  BY <1>1, <2>1, FilesKept
    <2>7. Processes'
      <3>1. processed' = processed  BY <2>1 DEF files
      <3>2. job[w].base \in DOMAIN branches /\ job[w].back \in DOMAIN branches
        BY <1>1, <2>2 DEF Processes
      <3> QED  BY <1>1, <2>1, <2>2, <2>4, <3>1, <3>2, WorkerGoes
    <2> QED  BY <2>5, <2>6, <2>7 DEF TypeInv
  <1>7. CASE Restore(w)
    <2>1. /\ At(w, "committed", "answered") /\ UNCHANGED <<files, outcomes, branches, sub, faults>>
          /\ head' = job[w].back
      BY <1>7 DEF Restore
    <2>2. PICK x \in Job : /\ job' = [job EXCEPT ![w] = x] /\ x.at = "answered"
                           /\ x.base = job[w].base /\ x.back = job[w].back /\ job[w] # Idle
      BY <1>1, <2>1, AtGoes DEF AtWork
    <2>3. job[w].base \in DOMAIN branches /\ job[w].back \in DOMAIN branches
      BY <1>1, <2>2 DEF Processes
    <2>4. Repository'  BY <1>1, <2>1, <2>3 DEF Repository
    <2>5. Lists'  BY <1>1, <2>1, FilesKept
    <2>6. Processes'
      <3>1. processed' = processed  BY <2>1 DEF files
      <3> QED  BY <1>1, <2>1, <2>2, <2>3, <3>1, WorkerGoes
    <2> QED  BY <2>4, <2>5, <2>6 DEF TypeInv
  <1>8. CASE Move(w)
    <2> DEFINE k == job[w].id
    <2>1. job[w].at = "answered" /\ UNCHANGED <<results, repo, sub, faults>>
      BY <1>8 DEF Move, At
    <2>2. job[w] # Idle /\ k \in Ids  BY <1>1, <2>1, CallTypes
    <2>3. Repository'  BY <1>1, <2>1, RepositoryKept
    <2>4. CASE k \in InboxIds
      <3>1. At(w, "answered", "moved")  BY <1>8, <2>4 DEF Move
      <3>2. PICK x \in Job : /\ job' = [job EXCEPT ![w] = x] /\ x.at = "moved" /\ x.id = k
                             /\ x.base = job[w].base /\ x.back = job[w].back
        BY <1>1, <3>1, AtGoes DEF AtWork
      <3>3. PICK f \in Files : f.id = k /\ processed' = Put(processed, k, f.req)
        BY <1>1, <1>8, <2>4, MoveFiles DEF Lists
      <3>4. InboxTyped' /\ Files' = Others(k)  BY <1>1, <1>8, <2>4, MoveFiles DEF Lists
      <3> DEFINE content == f.req
      <3> HIDE DEF k
      <3>5. /\ DOMAIN processed' = DOMAIN processed \cup {k}
            /\ Range(processed') \subseteq Range(processed) \cup {content}
        <4> HIDE DEF content
        <4>1. processed' = Put(processed, k, content)  BY <3>3 DEF content
        <4> QED  BY <4>1, PutFacts
      <3>6. IsFiniteSet(DOMAIN processed')  BY <1>1, <3>5, FS_AddElement DEF Lists
      <3>7. IsFiniteSet(InboxIds')
        <4>1. InboxIds = {e.id : e \in Files} /\ InboxIds' = {e.id : e \in Files'}
          BY <1>1, <3>4, IdsOfFiles DEF Lists
        <4>2. InboxIds' \subseteq InboxIds  BY <3>4, <4>1 DEF Others
        <4> QED  BY <1>1, <4>2, FS_Subset DEF Lists
      <3>8. f.req \in Content  BY <1>1, FilesTyped DEF Lists, Entry
      <3>9. Lists'  BY <1>1, <2>1, <2>2, <3>4, <3>5, <3>6, <3>7, <3>8 DEF Lists
      <3>10. Processes'
        <4>1. job[w].base \in DOMAIN branches /\ job[w].back \in DOMAIN branches
          BY <1>1, <2>2 DEF Processes
        <4>2. branches' = branches  BY <2>1 DEF repo
        <4> QED  BY <1>1, <2>1, <3>2, <3>5, <4>1, <4>2, WorkerGoes
      <3> QED  BY <2>3, <3>9, <3>10 DEF TypeInv
    <2>5. CASE k \notin InboxIds
      <3>1. job' = [job EXCEPT ![w] = Idle] /\ UNCHANGED files
        BY <1>8, <2>1, <2>5 DEF Move, files
      <3>2. Lists'  BY <1>1, <3>1, FilesKept
      <3>3. Processes'  BY <1>1, <2>1, <3>1, IdleGoes DEF files, repo
      <3> QED  BY <2>3, <3>2, <3>3 DEF TypeInv
    <2> QED  BY <2>4, <2>5
  <1>9. CASE Result(w)
    <2> DEFINE k == job[w].id
               x == IF job[w].branch = 0 THEN "rejected" ELSE "promoted"
    <2>1. /\ job[w].at = "moved" /\ results' = Put(results, k, x) /\ job' = [job EXCEPT ![w] = Idle]
          /\ UNCHANGED <<inbox, processed, repo, sub, faults>>
      BY <1>9 DEF Result
    <2>2. k \in DOMAIN processed  BY <1>1, <2>1, CallTypes DEF Processes
    <2>3. x \in {"promoted", "rejected"}  OBVIOUS
    <2> HIDE DEF k, x
    <2>4. /\ DOMAIN results' = DOMAIN results \cup {k} /\ Range(results') \subseteq Range(results) \cup {x}
      BY <2>1, PutFacts
    <2>5. Lists'
      BY <1>1, <2>1, <2>2, <2>3, <2>4 DEF Lists, InboxTyped, Distinct, InboxIds
    <2>6. Repository'  BY <1>1, <2>1, RepositoryKept
    <2>7. Processes'  BY <1>1, <2>1, IdleGoes DEF repo
    <2> QED  BY <2>5, <2>6, <2>7 DEF TypeInv
  <1> QED  BY <1>2, <1>3, <1>4, <1>5, <1>6, <1>7, <1>8, <1>9 DEF WorkerStep

LEMMA FaultTyped ==
  ASSUME TypeInv,
         \/ \E r \in Requests : SubmitKilled(r)
         \/ \E w \in Workers : RejectFails(w) \/ WriteFails(w) \/ WorkerKilled(w)
  PROVE  TypeInv'
  <1>1. Lists /\ Repository /\ Processes
    BY DEF TypeInv
  <1>2. /\ UNCHANGED <<files, outcomes, branches>> /\ faults < MaxFaults /\ faults' = faults + 1
        /\ head' = head \/ \E w \in Workers : job[w].at = "checked_out" /\ head' = job[w].back
    BY DEF SubmitKilled, RejectFails, WriteFails, WorkerKilled, repo
  <1>3. Lists' /\ Repository' /\ faults' \in 0..MaxFaults
    <2>1. head' \in DOMAIN branches
      <3>1. \A w \in Workers : job[w].at = "checked_out" => job[w] # Idle  BY DEF Idle
      <3> QED  BY <1>1, <1>2, <3>1 DEF Processes, Repository
    <2> QED  BY <1>1, <1>2, <2>1, IntakeAssumption, FilesKept DEF Processes, Repository
  <1>4. processed' = processed /\ branches' = branches  BY <1>2 DEF files
  <1>5. ASSUME NEW r \in Requests, SubmitKilled(r) PROVE Processes'
    <2> DEFINE x == [at |-> "dead"]
    <2>1. sub' = [sub EXCEPT ![r] = x] /\ UNCHANGED <<repo, job>>  BY <1>5 DEF SubmitKilled
    <2>2. x \in Submission /\ x.at # "listed"  BY DEF Submission
    <2> HIDE DEF x
    <2> QED  BY <1>1, <1>2, <1>3, <1>4, <2>1, <2>2, SubmissionGoes
  <1>6. ASSUME NEW w \in Workers, RejectFails(w) \/ WriteFails(w) \/ WorkerKilled(w) PROVE Processes'
    <2>1. job' = [job EXCEPT ![w] = Idle] /\ sub' = sub  BY <1>6 DEF RejectFails, WriteFails, WorkerKilled
    <2> QED  BY <1>1, <1>2, <1>3, <1>4, <2>1, IdleGoes
  <1> QED  BY <1>3, <1>5, <1>6 DEF TypeInv

LEMMA TypeStep == TypeInv /\ [Next]_vars => TypeInv'
  <1> SUFFICES ASSUME TypeInv, [Next]_vars PROVE TypeInv'
    OBVIOUS
  <1>1. CASE Next
    BY <1>1, SubmitTyped, WorkerTyped, FaultTyped DEF Next
  <1>2. CASE UNCHANGED vars
    <2>1. Lists' /\ Repository'  BY <1>2, FilesKept, RepositoryKept DEF TypeInv, vars
    <2>2. Processes'  BY <1>2 DEF TypeInv, Processes, vars, repo, files
    <2> QED  BY <2>1, <2>2 DEF TypeInv
  <1> QED  BY <1>1, <1>2

LEMMA TypeInvariant == Spec => []TypeInv
  BY TypeInit, TypeStep, PTL DEF Spec

\* Files, repository and calls stay well formed, wherever submissions and workers
\* are killed and however many of them there are.
THEOREM TypeCorrect == Spec => []TypeOK
  <1>1. TypeInv => TypeOK
    <2>1. InboxTyped => /\ inbox \in Seq([id : Ids, req : Content])
                        /\ IsInjective([i \in DOMAIN inbox |-> inbox[i].id])
      BY DEF InboxTyped, Entry, Distinct, IsInjective
    <2> QED  BY <2>1 DEF TypeInv, Lists, Repository, Processes, TypeOK
  <1> QED  BY <1>1, TypeInvariant, PTL
-----------------------------------------------------------------------------
(* Ids and requests, when requests are submitted one at a time. *)

Filed(k, c) == [id |-> k, req |-> c] \in Files
Holds(k, c) == Filed(k, c) \/ (k \in DOMAIN processed /\ processed[k] = c)

\* An id that was listed, chosen or opened stays a submission's own.
OneSubmits == \A r, q \in Requests : Underway(r) /\ Underway(q) => r = q
IdsFree == \A r \in Requests :
  /\ sub[r].at = "listed" => InboxIds \subseteq sub[r].ids
  /\ sub[r].at = "named" => sub[r].id \notin InboxIds \cup DOMAIN processed
  /\ sub[r].at = "open" => Filed(sub[r].id, Torn)

\* A file is in one directory, and whole once it is processed.
Apart == \A k \in DOMAIN processed : k \notin InboxIds /\ processed[k] \in Requests

\* A request that was submitted has one file, whatever becomes of it.
OneFile ==
  /\ \A r \in Requests : sub[r].at = "done" <=> \E k \in Ids : Holds(k, r)
  /\ \A r \in Requests : \A k, l \in Ids : Holds(k, r) /\ Holds(l, r) => k = l

\* Workers and outcomes are about the request of the file.
JobsFiled == \A w \in Workers : job[w] # Idle => Holds(job[w].id, job[w].req)
OutcomesFiled == \A k \in DOMAIN outcomes : \E r \in Requests : Holds(k, r) /\ Range(outcomes[k]) = {r}

FileInv == /\ TypeInv /\ OneSubmits /\ IdsFree /\ Apart
           /\ OneFile /\ JobsFiled /\ OutcomesFiled

LEMMA FiledFacts ==
  ASSUME TypeInv
  PROVE  /\ \A k, c : Filed(k, c) => k \in InboxIds /\ k \in Ids /\ c \in Content
         /\ \A k \in InboxIds : k \in Ids /\ \E c \in Content : Filed(k, c)
         /\ \A k, c, d : Filed(k, c) /\ Filed(k, d) => c = d
         /\ \A e \in Files : Filed(e.id, e.req)
  <1>1. InboxTyped  BY DEF TypeInv, Lists
  <1>2. Files \subseteq Entry /\ InboxIds = {e.id : e \in Files}  BY <1>1, FilesTyped
  <1>3. \A e \in Files : Filed(e.id, e.req)
    <2> SUFFICES ASSUME NEW e \in Files PROVE Filed(e.id, e.req)
      OBVIOUS
    <2>1. e \in Entry  BY <1>2
    <2>2. e = [id |-> e.id, req |-> e.req]  BY <2>1 DEF Entry
    <2> QED  BY <2>2 DEF Filed
  <1>4. \A k, c : Filed(k, c) => k \in InboxIds /\ k \in Ids /\ c \in Content
    <2> SUFFICES ASSUME NEW k, NEW c, Filed(k, c) PROVE k \in InboxIds /\ k \in Ids /\ c \in Content
      OBVIOUS
    <2> DEFINE e == [id |-> k, req |-> c]
    <2>1. e \in Files /\ e \in Entry  BY <1>2 DEF Filed
    <2>2. e.id \in InboxIds /\ e.id \in Ids /\ e.req \in Content
      <3> HIDE DEF e
      <3> QED  BY <1>2, <2>1 DEF Entry
    <2>3. e.id = k /\ e.req = c  OBVIOUS
    <2> QED  BY <2>2, <2>3
  <1>5. \A k \in InboxIds : k \in Ids /\ \E c \in Content : Filed(k, c)
    <2> SUFFICES ASSUME NEW k \in InboxIds PROVE k \in Ids /\ \E c \in Content : Filed(k, c)
      OBVIOUS
    <2>1. PICK e \in Files : e.id = k  BY <1>2
    <2>2. e \in Entry  BY <1>2
    <2> QED  BY <1>3, <2>1, <2>2 DEF Entry
  <1>6. \A k, c, d : Filed(k, c) /\ Filed(k, d) => c = d
    <2> SUFFICES ASSUME NEW k, NEW c, NEW d, Filed(k, c), Filed(k, d) PROVE c = d
      OBVIOUS
    <2> DEFINE e == [id |-> k, req |-> c]
               f == [id |-> k, req |-> d]
    <2>1. e \in Files /\ f \in Files /\ e.id = k /\ f.id = k  BY DEF Filed
    <2>2. k \in InboxIds  BY <1>4
    <2> HIDE DEF e, f
    <2>3. e = f  BY <1>1, <2>1, <2>2, PlaceOf
    <2>4. e.req = f.req  BY <2>3
    <2> QED  BY <2>4 DEF e, f
  <1> QED  BY <1>3, <1>4, <1>5, <1>6

\* A file after a set of files without number k got the file k with content c.
LEMMA FiledAfter ==
  ASSUME NEW k, NEW c, NEW l, NEW d
  PROVE  /\ Files' = Others(k) => (Filed(l, d)' <=> l # k /\ Filed(l, d))
         /\ Files' = Others(k) \cup {[id |-> k, req |-> c]} =>
              (Filed(l, d)' <=> (l # k /\ Filed(l, d)) \/ (l = k /\ d = c))
  <1> DEFINE e == [id |-> l, req |-> d]
  <1>1. e.id = l  OBVIOUS
  <1>2. Filed(l, d)' <=> e \in Files'  BY DEF Filed
  <1>3. e = [id |-> k, req |-> c] <=> l = k /\ d = c  OBVIOUS
  <1>4. Filed(l, d) <=> e \in Files  BY DEF Filed
  <1> HIDE DEF e
  <1> QED  BY <1>1, <1>2, <1>3, <1>4 DEF Others

LEMMA InboxFiled == TypeInv => \A k \in InboxIds : \E c \in Content : Filed(k, c)
  BY FiledFacts

LEMMA InboxFiledNext ==
  ASSUME TypeInv'
  PROVE  (\A k \in InboxIds : \E c \in Content : Filed(k, c))'
  BY InboxFiled, PTL

LEMMA FilesSame ==
  ASSUME UNCHANGED files
  PROVE  /\ \A k, c : Filed(k, c)' <=> Filed(k, c)
         /\ \A k, c : Holds(k, c)' <=> Holds(k, c)
         /\ InboxIds' = InboxIds /\ processed' = processed
  BY DEF files, Filed, Holds, Files, InboxIds

LEMMA FileInit == Init => FileInv
  <1> SUFFICES ASSUME Init PROVE FileInv
    OBVIOUS
  <1>1. TypeInv  BY TypeInit
  <1>2. /\ InboxIds = {} /\ Files = {} /\ DOMAIN processed = {} /\ DOMAIN outcomes = {}
        /\ \A r \in Requests : sub[r].at = "new"
        /\ \A w \in Workers : job[w] = Idle
    BY DEF Init, InboxIds, Files, Range
  <1>3. \A k, c : ~Holds(k, c)  BY <1>2 DEF Holds, Filed
  <1> QED
    BY <1>1, <1>2, <1>3 DEF FileInv, OneSubmits, Underway, IdsFree, Apart, OneFile, JobsFiled, OutcomesFiled

\* What a step does to the submissions' ids when it leaves the submissions alone.
LEMMA SubmissionsKept ==
  ASSUME OneSubmits, IdsFree, sub' = sub,
         InboxIds' \subseteq InboxIds,
         InboxIds' \cup DOMAIN processed' \subseteq InboxIds \cup DOMAIN processed,
         \A k : Filed(k, Torn) => Filed(k, Torn)'
  PROVE  OneSubmits' /\ IdsFree'
  BY DEF OneSubmits, IdsFree, Underway

\* While a request is listed, named or opened it has no file of its own yet.
LEMMA FileList ==
  ASSUME FileInv, TypeInv', Serial, NEW r \in Requests, ListInbox(r)
  PROVE  FileInv'
  <1> DEFINE x == [at |-> "listed", ids |-> InboxIds]
  <1>1. /\ sub[r].at = "new" /\ sub' = [sub EXCEPT ![r] = x] /\ UNCHANGED <<files, repo, job>>
        /\ \A q \in Requests : ~Underway(q)
    BY DEF ListInbox, Listed
  <1>2. \A q \in Requests : sub'[q] = IF q = r THEN x ELSE sub[q]
    BY <1>1 DEF FileInv, TypeInv, Processes
  <1>3. /\ \A k, c : Holds(k, c)' <=> Holds(k, c)
        /\ InboxIds' = InboxIds /\ processed' = processed /\ outcomes' = outcomes /\ job' = job
    BY <1>1, FilesSame DEF repo
  <1>4. OneSubmits'
    <2> SUFFICES ASSUME NEW p \in Requests, NEW q \in Requests, Underway(p)', Underway(q)'
                 PROVE  p = q
      BY DEF OneSubmits
    <2>1. p = r /\ q = r  BY <1>1, <1>2 DEF Underway
    <2> QED  BY <2>1
  <1>5. IdsFree'
    <2> SUFFICES ASSUME NEW q \in Requests
                 PROVE  /\ sub'[q].at = "listed" => InboxIds' \subseteq sub'[q].ids
                        /\ sub'[q].at \notin {"named", "open"}
      BY DEF IdsFree, Filed
    <2>1. CASE q = r  BY <1>2, <1>3, <2>1
    <2>2. CASE q # r
      <3>1. sub'[q] = sub[q] /\ ~Underway(q)  BY <1>1, <1>2, <2>2
      <3> QED  BY <3>1 DEF Underway
    <2> QED  BY <2>1, <2>2
  <1>6. OneFile'
    <2>1. \A q \in Requests : sub'[q].at = "done" <=> sub[q].at = "done"  BY <1>1, <1>2
    <2> QED  BY <1>3, <2>1 DEF FileInv, OneFile
  <1> QED  BY <1>3, <1>4, <1>5, <1>6 DEF FileInv, Apart, JobsFiled, OutcomesFiled

LEMMA FileNextId ==
  ASSUME FileInv, TypeInv', NEW r \in Requests, NextId(r)
  PROVE  FileInv'
  <1> DEFINE taken == sub[r].ids \cup DOMAIN processed
             x == [at |-> "named", id |-> FirstFree(taken)]
  <1>1. /\ sub[r].at = "listed" /\ sub' = [sub EXCEPT ![r] = x] /\ UNCHANGED <<files, repo, job>>
    BY DEF NextId, Listed
  <1>2. \A q \in Requests : sub'[q] = IF q = r THEN x ELSE sub[q]
    BY <1>1 DEF FileInv, TypeInv, Processes
  <1>3. /\ \A k, c : Holds(k, c)' <=> Holds(k, c)
        /\ \A k, c : Filed(k, c)' <=> Filed(k, c)
        /\ InboxIds' = InboxIds /\ processed' = processed /\ outcomes' = outcomes /\ job' = job
    BY <1>1, FilesSame DEF repo
  <1>4. FirstFree(taken) \notin InboxIds \cup DOMAIN processed
    <2>1. IsFiniteSet(sub[r].ids) /\ IsFiniteSet(DOMAIN processed)
      BY <1>1 DEF FileInv, TypeInv, Processes, Lists
    <2>2. IsFiniteSet(taken)  BY <2>1, FS_Union
    <2>3. InboxIds \subseteq taken  BY <1>1 DEF FileInv, IdsFree
    <2> HIDE DEF taken
    <2>4. FirstFree(taken) \notin taken  BY <2>2, FirstFreeIsFree
    <2> QED  BY <2>3, <2>4 DEF taken
  <1> HIDE DEF taken
  <1>5. OneSubmits'
    <2>1. \A q \in Requests : Underway(q)' <=> Underway(q)  BY <1>1, <1>2 DEF Underway
    <2> QED  BY <2>1 DEF FileInv, OneSubmits
  <1>6. IdsFree'
    <2> SUFFICES ASSUME NEW q \in Requests
                 PROVE  /\ sub'[q].at = "listed" => InboxIds' \subseteq sub'[q].ids
                        /\ sub'[q].at = "named" => sub'[q].id \notin InboxIds' \cup DOMAIN processed'
                        /\ sub'[q].at = "open" => [id |-> sub'[q].id, req |-> Torn] \in Files'
      BY DEF IdsFree, Filed
    <2>1. CASE q = r  BY <1>2, <1>3, <1>4, <2>1
    <2>2. CASE q # r  BY <1>2, <1>3, <2>2 DEF FileInv, IdsFree, Filed
    <2> QED  BY <2>1, <2>2
  <1>7. OneFile'
    <2>1. \A q \in Requests : sub'[q].at = "done" <=> sub[q].at = "done"  BY <1>1, <1>2
    <2> QED  BY <1>3, <2>1 DEF FileInv, OneFile
  <1> QED  BY <1>3, <1>5, <1>6, <1>7 DEF FileInv, Apart, JobsFiled, OutcomesFiled

LEMMA FileOpen ==
  ASSUME FileInv, TypeInv', NEW r \in Requests, Open(r)
  PROVE  FileInv'
  <1> DEFINE k == sub[r].id
  <1>1. /\ sub[r].at = "named" /\ sub' = [sub EXCEPT ![r].at = "open"]
        /\ UNCHANGED <<processed, repo, job>>
    BY DEF Open
  <1>2. k \in Ids /\ k \notin InboxIds \cup DOMAIN processed
    BY <1>1, CallTypes DEF FileInv, TypeInv, IdsFree
  <1>3. /\ sub'[r].at = "open" /\ sub'[r].id = k
        /\ \A q \in Requests : q # r => sub'[q] = sub[q]
    <2>1. sub[r] \in [at : {"named", "open"}, id : Ids]
      <3>1. sub[r] \in Submission  BY DEF FileInv, TypeInv, Processes
      <3> QED  BY <1>1, <3>1 DEF Submission
    <2> QED  BY <1>1, <2>1 DEF FileInv, TypeInv, Processes
  <1>4. \A l, c : Filed(l, c)' <=> (l # k /\ Filed(l, c)) \/ (l = k /\ c = Torn)
    <2>1. Files' = Others(k) \cup {[id |-> k, req |-> Torn]}
      BY <1>2, OpenFiles DEF FileInv, TypeInv, Lists
    <2> HIDE DEF k
    <2> QED  BY <2>1, FiledAfter
  <1>5. \A l : \A c \in Requests : Holds(l, c)' <=> Holds(l, c)
    <2>1. \A l, c : Filed(l, c) => l # k  BY <1>2, FiledFacts DEF FileInv
    <2>2. \A c \in Requests : c # Torn  BY IntakeAssumption
    <2> HIDE DEF k
    <2> QED  BY <1>1, <1>4, <2>1, <2>2 DEF Holds
  <1>6. InboxIds' \subseteq InboxIds \cup {k}
    <2>1. \A l \in InboxIds' : \E c \in Content : Filed(l, c)'  BY InboxFiledNext
    <2>2. \A l, c : Filed(l, c) => l \in InboxIds  BY FiledFacts DEF FileInv
    <2> HIDE DEF k
    <2> QED  BY <1>4, <2>1, <2>2
  <1>7. OneSubmits'
    <2>1. \A q \in Requests : Underway(q)' <=> Underway(q)  BY <1>1, <1>3 DEF Underway
    <2> QED  BY <2>1 DEF FileInv, OneSubmits
  <1>8. IdsFree'
    <2> SUFFICES ASSUME NEW q \in Requests
                 PROVE  /\ sub'[q].at = "listed" => InboxIds' \subseteq sub'[q].ids
                        /\ sub'[q].at = "named" => sub'[q].id \notin InboxIds' \cup DOMAIN processed'
                        /\ sub'[q].at = "open" => [id |-> sub'[q].id, req |-> Torn] \in Files'
      BY DEF IdsFree, Filed
    <2>1. CASE q = r  BY <1>3, <1>4, <2>1 DEF Filed
    <2>2. CASE q # r
      <3>1. sub'[q] = sub[q]  BY <1>3, <2>2
      <3>2. ~Underway(q)  BY <1>1, <2>2 DEF FileInv, OneSubmits, Underway
      <3> QED  BY <3>1, <3>2 DEF Underway
    <2> QED  BY <2>1, <2>2
  <1>9. Apart'  BY <1>1, <1>2, <1>6 DEF FileInv, Apart
  <1>10. OneFile'
    <2>1. \A q \in Requests : sub'[q].at = "done" <=> sub[q].at = "done"  BY <1>1, <1>3
    <2> QED  BY <1>5, <2>1 DEF FileInv, OneFile
  <1>11. JobsFiled' /\ OutcomesFiled'
    <2>1. \A w \in Workers : job[w] # Idle => job[w].req \in Requests
      BY CallTypes DEF FileInv, TypeInv
    <2> QED  BY <1>1, <1>5, <2>1 DEF FileInv, JobsFiled, OutcomesFiled, repo
  <1> QED  BY <1>7, <1>8, <1>9, <1>10, <1>11 DEF FileInv

LEMMA FileWrite ==
  ASSUME FileInv, TypeInv', NEW r \in Requests, Write(r)
  PROVE  FileInv'
  <1> DEFINE k == sub[r].id
             x == [at |-> "done"]
  <1>1. /\ sub[r].at = "open" /\ sub' = [sub EXCEPT ![r] = x] /\ UNCHANGED <<repo, job>>
    BY DEF Write
  <1>2. k \in Ids /\ k \in InboxIds /\ Filed(k, Torn)
    BY <1>1, CallTypes, FiledFacts DEF FileInv, TypeInv, IdsFree
  <1>3. \A q \in Requests : sub'[q] = IF q = r THEN x ELSE sub[q]
    BY <1>1 DEF FileInv, TypeInv, Processes
  <1>4. /\ processed' = processed
        /\ \A l, c : Filed(l, c)' <=> (l # k /\ Filed(l, c)) \/ (l = k /\ c = r)
    <2>1. processed' = processed /\ Files' = Others(k) \cup {[id |-> k, req |-> r]}
      BY <1>2, WriteFiles DEF FileInv, TypeInv, Lists
    <2> HIDE DEF k
    <2> QED  BY <2>1, FiledAfter
  <1>5. \A l : \A c \in Requests : Holds(l, c)' <=> Holds(l, c) \/ (l = k /\ c = r)
    <2>1. \A c : Filed(k, c) => c = Torn  BY <1>2, FiledFacts DEF FileInv
    <2>2. \A c \in Requests : c # Torn  BY IntakeAssumption
    <2> HIDE DEF k
    <2> QED  BY <1>4, <2>1, <2>2 DEF Holds
  <1>6. InboxIds' \subseteq InboxIds
    <2>1. \A l \in InboxIds' : \E c \in Content : Filed(l, c)'  BY InboxFiledNext
    <2>2. \A l, c : Filed(l, c) => l \in InboxIds  BY FiledFacts DEF FileInv
    <2> HIDE DEF k
    <2> QED  BY <1>2, <1>4, <2>1, <2>2
  <1>7. OneSubmits'
    <2>1. \A q \in Requests : Underway(q)' => Underway(q)  BY <1>1, <1>3 DEF Underway
    <2> QED  BY <2>1 DEF FileInv, OneSubmits
  <1>8. IdsFree'
    <2> SUFFICES ASSUME NEW q \in Requests PROVE sub'[q].at \notin {"listed", "named", "open"}
      BY DEF IdsFree
    <2>1. CASE q = r  BY <1>3, <2>1
    <2>2. CASE q # r
      <3>1. sub'[q] = sub[q]  BY <1>3, <2>2
      <3>2. ~Underway(q)  BY <1>1, <2>2 DEF FileInv, OneSubmits, Underway
      <3> QED  BY <3>1, <3>2 DEF Underway
    <2> QED  BY <2>1, <2>2
  <1>9. Apart'  BY <1>4, <1>6 DEF FileInv, Apart
  <1>10. OneFile'
    <2>1. \A q \in Requests : sub'[q].at = "done" <=> q = r \/ sub[q].at = "done"
      BY <1>1, <1>3
    <2>2. \A l \in Ids : ~Holds(l, r)  BY <1>1 DEF FileInv, OneFile
    <2> HIDE DEF k
    <2> QED  BY <1>2, <1>5, <2>1, <2>2 DEF FileInv, OneFile
  <1>11. JobsFiled' /\ OutcomesFiled'
    <2>1. \A w \in Workers : job[w] # Idle => job[w].req \in Requests
      BY CallTypes DEF FileInv, TypeInv
    <2> QED  BY <1>1, <1>5, <2>1 DEF FileInv, JobsFiled, OutcomesFiled, repo
  <1> QED  BY <1>7, <1>8, <1>9, <1>10, <1>11 DEF FileInv

\* Moving a file keeps whose it is.
LEMMA MoveHolds ==
  ASSUME FileInv, TypeInv', NEW w \in Workers, Move(w), job[w].id \in InboxIds
  PROVE  /\ \A l, c : Filed(l, c)' <=> l # job[w].id /\ Filed(l, c)
         /\ processed' = Put(processed, job[w].id, job[w].req)
         /\ DOMAIN processed' = DOMAIN processed \cup {job[w].id}
         /\ \A l \in DOMAIN processed' :
              processed'[l] = IF l = job[w].id THEN job[w].req ELSE processed[l]
         /\ \A l : \A c \in Requests : Holds(l, c)' <=> Holds(l, c)
         /\ InboxIds' \subseteq InboxIds \ {job[w].id}
         /\ job[w].req \in Requests /\ Filed(job[w].id, job[w].req)
  <1> DEFINE k == job[w].id
             r == job[w].req
  <1>1. job[w] # Idle /\ r \in Requests
    <2>1. job[w].at = "answered"  BY DEF Move, At
    <2> QED  BY <2>1, CallTypes DEF FileInv, TypeInv
  <1>2. Filed(k, r) /\ k \notin DOMAIN processed
    BY <1>1 DEF FileInv, JobsFiled, Holds, Apart
  <1>3. InboxTyped  BY DEF FileInv, TypeInv, Lists
  <1>4. PICK f \in Files : f.id = k /\ processed' = Put(processed, k, f.req)
    BY <1>3, MoveFiles
  <1>5. f.req = r
    <2>1. Filed(f.id, f.req)  BY FiledFacts DEF FileInv
    <2>2. \A c, d : Filed(k, c) /\ Filed(k, d) => c = d  BY FiledFacts DEF FileInv
    <2> QED  BY <1>2, <1>4, <2>1, <2>2
  <1> HIDE DEF r
  <1>6. processed' = Put(processed, k, r)  BY <1>4, <1>5
  <1>7. Files' = Others(k)  BY <1>3, MoveFiles
  <1> HIDE DEF k
  <1>8. /\ DOMAIN processed' = DOMAIN processed \cup {k}
        /\ \A l \in DOMAIN processed' : processed'[l] = IF l = k THEN r ELSE processed[l]
    <2>1. DOMAIN Put(processed, k, r) = DOMAIN processed \cup {k}  BY PutFacts
    <2>2. \A l \in DOMAIN processed \cup {k} :
            Put(processed, k, r)[l] = IF l = k THEN r ELSE processed[l]
      BY DEF Put
    <2> QED  BY <1>6, <2>1, <2>2, Zenon
  <1>9. \A l, c : Filed(l, c)' <=> l # k /\ Filed(l, c)  BY <1>7, FiledAfter
  <1>10. \A l : \A c \in Requests : Holds(l, c)' <=> Holds(l, c)
    <2>1. \A c : Filed(k, c) => c = r  BY <1>2, FiledFacts DEF FileInv
    <2> SUFFICES ASSUME NEW l, NEW c \in Requests PROVE Holds(l, c)' <=> Holds(l, c)
      OBVIOUS
    <2>2. CASE l = k  BY <1>2, <1>8, <1>9, <2>1, <2>2 DEF Holds
    <2>3. CASE l # k  BY <1>8, <1>9, <2>3 DEF Holds
    <2> QED  BY <2>2, <2>3
  <1>11. InboxIds' \subseteq InboxIds \ {k}
    <2>1. \A l \in InboxIds' : \E c \in Content : Filed(l, c)'  BY InboxFiledNext
    <2>2. \A l, c : Filed(l, c) => l \in InboxIds  BY FiledFacts DEF FileInv
    <2> QED  BY <1>9, <2>1, <2>2
  <1> QED  BY <1>1, <1>2, <1>6, <1>8, <1>9, <1>10, <1>11 DEF k, r

\* Steps of workers that leave the files and the outcomes alone, and take no job
\* but for a file.
LEMMA FileJobOnly ==
  ASSUME FileInv, TypeInv', UNCHANGED <<files, outcomes, sub>>,
         \A w \in Workers : job'[w] # Idle => \/ /\ job[w] # Idle
                                                 /\ job'[w].id = job[w].id /\ job'[w].req = job[w].req
                                              \/ Holds(job'[w].id, job'[w].req)
  PROVE  FileInv'
  <1>1. /\ \A k, c : Holds(k, c)' <=> Holds(k, c)
        /\ \A k, c : Filed(k, c)' <=> Filed(k, c)
        /\ InboxIds' = InboxIds /\ processed' = processed /\ outcomes' = outcomes /\ sub' = sub
    BY FilesSame
  <1>2. OneSubmits' /\ IdsFree'  BY <1>1, SubmissionsKept DEF FileInv
  <1>3. Apart' /\ OutcomesFiled'  BY <1>1 DEF FileInv, Apart, OutcomesFiled
  <1>4. OneFile'  BY <1>1 DEF FileInv, OneFile
  <1>5. JobsFiled'
    <2> SUFFICES ASSUME NEW w \in Workers, job'[w] # Idle PROVE Holds(job[w].id, job[w].req)'
      BY DEF JobsFiled
    <2>1. Holds(job'[w].id, job'[w].req)  BY DEF FileInv, JobsFiled
    <2>2. Files' = Files  BY DEF files, Files
    <2> QED  BY <1>1, <2>1, <2>2 DEF Holds, Filed
  <1> QED  BY <1>2, <1>3, <1>4, <1>5 DEF FileInv

\* Steps of a worker change its own job.
LEMMA OwnJob ==
  ASSUME Processes, NEW w \in Workers, WorkerStep(w) \/ RejectFails(w) \/ WriteFails(w) \/ WorkerKilled(w)
  PROVE  \A v \in Workers : v # w => job'[v] = job[v]
  BY DEF Processes, WorkerStep, Take, Reject, Name, Checkout, Commit, Restore, Move, Result,
         RejectFails, WriteFails, WorkerKilled, At

LEMMA FileReject ==
  ASSUME FileInv, TypeInv', NEW w \in Workers, Reject(w)
  PROVE  FileInv'
  <1> DEFINE k == job[w].id
             r == job[w].req
             o == Append(IF k \in DOMAIN outcomes THEN outcomes[k] ELSE <<>>, r)
  <1>1. At(w, "read", "answered") /\ outcomes' = Put(outcomes, k, o) /\ UNCHANGED <<files, sub>>
    BY DEF Reject
  <1>2. PICK x \in Job : /\ job' = [job EXCEPT ![w] = x] /\ x.id = k /\ x.req = r /\ job[w] # Idle
    BY <1>1, AtGoes DEF AtWork, FileInv, TypeInv
  <1>3. /\ r \in Requests /\ Holds(k, r) /\ k \in Ids
    BY <1>2, CallTypes DEF FileInv, TypeInv, JobsFiled
  <1>4. /\ \A l, c : Holds(l, c)' <=> Holds(l, c)
        /\ \A l, c : Filed(l, c)' <=> Filed(l, c)
        /\ InboxIds' = InboxIds /\ processed' = processed /\ sub' = sub
    BY <1>1, FilesSame
  <1>5. \A l, c, d : Holds(l, c) /\ Holds(l, d) /\ c # Torn /\ d # Torn => c = d
    <2>1. \A l, c : Filed(l, c) => l \in InboxIds  BY FiledFacts DEF FileInv
    <2>2. \A l, c, d : Filed(l, c) /\ Filed(l, d) => c = d  BY FiledFacts DEF FileInv
    <2> QED  BY <2>1, <2>2 DEF FileInv, Apart, Holds
  <1>6. Range(o) = {r}
    <2>1. CASE k \in DOMAIN outcomes
      <3>1. PICK q \in Requests : Holds(k, q) /\ Range(outcomes[k]) = {q}
        BY <2>1 DEF FileInv, OutcomesFiled
      <3>2. q = r  BY <1>3, <1>5, <3>1, IntakeAssumption
      <3>3. outcomes[k] \in Seq(Requests)  BY <2>1 DEF FileInv, TypeInv, Repository, Range
      <3>4. o = Append(outcomes[k], r)  BY <2>1
      <3> DEFINE s == outcomes[k]
      <3> HIDE DEF o, r, k
      <3>5. s \in Seq(Requests) /\ Range(s) = {r}  BY <3>1, <3>2, <3>3
      <3>9. o = Append(s, r)  BY <3>4
      <3> HIDE DEF s
      <3>6. /\ DOMAIN o = 1..(Len(s) + 1) /\ o[Len(s) + 1] = r /\ Len(s) \in Nat
            /\ \A i \in 1..Len(s) : o[i] = s[i] /\ s[i] = r
        <4>1. \A i \in 1..Len(s) : s[i] = r  BY <3>5 DEF Range
        <4> QED  BY <1>3, <3>5, <3>9, <4>1
      <3>7. \A i \in DOMAIN o : o[i] = r
        <4> SUFFICES ASSUME NEW i \in 1..(Len(s) + 1) PROVE o[i] = r
          BY <3>6
        <4>1. i \in 1..Len(s) \/ i = Len(s) + 1  BY <3>6
        <4> QED  BY <3>6, <4>1
      <3>8. Len(s) + 1 \in DOMAIN o  BY <3>6
      <3> QED  BY <3>7, <3>8 DEF Range
    <2>2. CASE k \notin DOMAIN outcomes
      <3>1. o = <<r>>  BY <2>2
      <3> QED  BY <3>1 DEF Range
    <2> QED  BY <2>1, <2>2
  <1> HIDE DEF o, k, r
  <1>7. OutcomesFiled'
    <2>1. /\ DOMAIN outcomes' = DOMAIN outcomes \cup {k}
          /\ \A l \in DOMAIN outcomes \cup {k} : outcomes'[l] = IF l = k THEN o ELSE outcomes[l]
      BY <1>1 DEF Put
    <2> SUFFICES ASSUME NEW l \in DOMAIN outcomes'
                 PROVE  \E q \in Requests : Holds(l, q)' /\ Range(outcomes'[l]) = {q}
      BY DEF OutcomesFiled
    <2>2. CASE l = k  BY <1>3, <1>4, <1>6, <2>1, <2>2
    <2>3. CASE l # k
      <3>1. outcomes'[l] = outcomes[l] /\ l \in DOMAIN outcomes  BY <2>1, <2>3
      <3> QED  BY <1>4, <3>1 DEF FileInv, OutcomesFiled
    <2> QED  BY <2>2, <2>3
  <1>8. OneSubmits' /\ IdsFree'  BY <1>4, SubmissionsKept DEF FileInv
  <1>9. Apart' /\ OneFile'  BY <1>4 DEF FileInv, Apart, OneFile
  <1>10. JobsFiled'
    <2> SUFFICES ASSUME NEW v \in Workers, job'[v] # Idle PROVE Holds(job[v].id, job[v].req)'
      BY DEF JobsFiled
    <2>1. job'[v].id = job[v].id /\ job'[v].req = job[v].req /\ job[v] # Idle
      BY <1>2 DEF FileInv, TypeInv, Processes, k, r
    <2>2. Holds(job'[v].id, job'[v].req)  BY <2>1 DEF FileInv, JobsFiled
    <2>3. Files' = Files  BY <1>1 DEF files, Files
    <2> QED  BY <1>4, <2>2, <2>3 DEF Holds, Filed
  <1> QED  BY <1>7, <1>8, <1>9, <1>10 DEF FileInv

LEMMA FileMove ==
  ASSUME FileInv, TypeInv', NEW w \in Workers, Move(w)
  PROVE  FileInv'
  <1> DEFINE k == job[w].id
  <1>1. job[w].at = "answered" /\ job[w] # Idle /\ UNCHANGED <<repo, sub>>
    <2>1. job[w].at = "answered" /\ UNCHANGED <<repo, sub>>  BY DEF Move, At
    <2> QED  BY <2>1, CallTypes DEF FileInv, TypeInv
  <1>2. CASE k \in InboxIds
    <2>1. /\ \A l, c : Filed(l, c)' <=> l # k /\ Filed(l, c)
          /\ DOMAIN processed' = DOMAIN processed \cup {k}
          /\ \A l \in DOMAIN processed' : processed'[l] = IF l = k THEN job[w].req ELSE processed[l]
          /\ \A l : \A c \in Requests : Holds(l, c)' <=> Holds(l, c)
          /\ InboxIds' \subseteq InboxIds \ {k}
          /\ job[w].req \in Requests /\ Filed(k, job[w].req)
      BY <1>2, MoveHolds
    <2>2. PICK x \in Job : job' = [job EXCEPT ![w] = x] /\ x.id = k /\ x.req = job[w].req
      <3>1. At(w, "answered", "moved")  BY <1>2 DEF Move
      <3> QED  BY <3>1, AtGoes DEF AtWork, FileInv, TypeInv
    <2>3. OneSubmits' /\ IdsFree'
      <3>1. \A l : Filed(l, Torn) => Filed(l, Torn)'
        <4>1. ~Filed(k, Torn)  BY <2>1, FiledFacts, IntakeAssumption DEF FileInv
        <4> QED  BY <2>1, <4>1
      <3>2. sub' = sub  BY <1>1
      <3> QED  BY <1>2, <2>1, <3>1, <3>2, SubmissionsKept DEF FileInv
    <2>4. Apart'  BY <2>1 DEF FileInv, Apart
    <2>5. OneFile'  BY <1>1, <2>1 DEF FileInv, OneFile
    <2>6. OutcomesFiled'  BY <1>1, <2>1 DEF FileInv, OutcomesFiled, repo
    <2>7. JobsFiled'
      <3> SUFFICES ASSUME NEW v \in Workers, job'[v] # Idle PROVE Holds(job[v].id, job[v].req)'
        BY DEF JobsFiled
      <3>1. job'[v].id = job[v].id /\ job'[v].req = job[v].req /\ job[v] # Idle
        BY <1>1, <2>2 DEF FileInv, TypeInv, Processes
      <3>2. Holds(job[v].id, job[v].req) /\ job[v].req \in Requests
        BY <3>1, CallTypes DEF FileInv, TypeInv, JobsFiled
      <3>3. \A l : \A c \in Requests : Holds(l, c) =>
              \/ [id |-> l, req |-> c] \in Files'
              \/ l \in DOMAIN processed' /\ processed'[l] = c
        BY <2>1 DEF Holds, Filed
      <3> QED  BY <3>1, <3>2, <3>3 DEF Holds, Filed
    <2> QED  BY <2>3, <2>4, <2>5, <2>6, <2>7 DEF FileInv
  <1>3. CASE k \notin InboxIds
    <2>1. job' = [job EXCEPT ![w] = Idle] /\ UNCHANGED files
      BY <1>1, <1>3 DEF Move, files
    <2>2. \A v \in Workers : job'[v] # Idle => job'[v] = job[v]
      BY <2>1 DEF FileInv, TypeInv, Processes
    <2> QED  BY <1>1, <2>1, <2>2, FileJobOnly DEF repo
  <1> QED  BY <1>2, <1>3

LEMMA FileWorker ==
  ASSUME FileInv, TypeInv', NEW w \in Workers, WorkerStep(w)
  PROVE  FileInv'
  <1>1. Processes /\ \A v \in Workers : v # w => job'[v] = job[v]
    BY OwnJob DEF FileInv, TypeInv
  <1>2. CASE Take(w)
    <2>1. /\ inbox # <<>> /\ UNCHANGED <<files, repo, sub>>
          /\ job' = [job EXCEPT ![w] = TakenAs(Head(inbox).id)]
      BY <1>2 DEF Take
    <2>2. job'[w].id = Head(inbox).id /\ job'[w].req = Head(inbox).req
      BY <1>1, <2>1 DEF TakenAs, Processes
    <2>3. Holds(job'[w].id, job'[w].req)
      <3>1. Head(inbox) \in Files
        <4>1. inbox \in Seq(Entry)  BY DEF FileInv, TypeInv, Lists, InboxTyped
        <4> QED  BY <2>1, <4>1 DEF Files, Range
      <3> QED  BY <2>2, <3>1, FiledFacts DEF FileInv, Holds
    <2> QED  BY <1>1, <2>1, <2>3, FileJobOnly DEF repo
  <1>3. CASE Name(w) \/ Checkout(w)
    <2>1. job[w].at \in {"read", "named"} /\ UNCHANGED <<files, outcomes, sub>>
      BY <1>3 DEF Name, Checkout, repo
    <2>2. /\ job[w] # Idle
          /\ job[w] \in [at : AtWork, id : Ids, req : Requests, branch : Nat, base : Nat, back : Nat]
      BY <1>1, <2>1, CallTypes
    <2>3. job'[w].id = job[w].id /\ job'[w].req = job[w].req
      BY <1>1, <1>3, <2>2 DEF Name, Checkout, Processes
    <2> QED  BY <1>1, <2>1, <2>2, <2>3, FileJobOnly
  <1>4. CASE Commit(w) \/ Restore(w)
    <2>1. /\ At(w, "checked_out", "committed") \/ At(w, "committed", "answered")
          /\ UNCHANGED <<files, outcomes, sub>>
      BY <1>4 DEF Commit, Restore
    <2>2. PICK x \in Job : /\ job' = [job EXCEPT ![w] = x] /\ job[w] # Idle
                           /\ x.id = job[w].id /\ x.req = job[w].req
      BY <1>1, <2>1, AtGoes DEF AtWork
    <2>3. job'[w] = x  BY <1>1, <2>2 DEF Processes
    <2> QED  BY <1>1, <2>1, <2>2, <2>3, FileJobOnly
  <1>5. CASE Result(w)
    <2>1. /\ job' = [job EXCEPT ![w] = Idle] /\ UNCHANGED <<inbox, processed, outcomes, sub>>
      BY <1>5 DEF Result, repo
    <2>2. \A v \in Workers : job'[v] # Idle => job'[v] = job[v]
      BY <1>1, <2>1 DEF Processes
    <2>3. /\ \A k, c : Holds(k, c)' <=> Holds(k, c)
          /\ \A k, c : Filed(k, c)' <=> Filed(k, c) /\ InboxIds' = InboxIds
      BY <2>1 DEF Holds, Filed, Files, InboxIds
    <2>4. OneSubmits' /\ IdsFree'  BY <2>1, <2>3, SubmissionsKept DEF FileInv, InboxIds
    <2>5. InboxIds' = InboxIds  BY <2>1 DEF InboxIds
    <2>6. Apart' /\ OneFile' /\ OutcomesFiled'
      BY <2>1, <2>3, <2>5 DEF FileInv, Apart, OneFile, OutcomesFiled
    <2>7. JobsFiled'
      <3> SUFFICES ASSUME NEW v \in Workers, job'[v] # Idle PROVE Holds(job[v].id, job[v].req)'
        BY DEF JobsFiled
      <3>1. Holds(job[v].id, job[v].req) /\ job'[v] = job[v]  BY <2>2 DEF FileInv, JobsFiled
      <3>2. Files' = Files  BY <2>1 DEF Files
      <3> QED  BY <2>1, <3>1, <3>2 DEF Holds, Filed
    <2> QED  BY <2>4, <2>6, <2>7 DEF FileInv
  <1> QED  BY <1>2, <1>3, <1>4, <1>5, FileReject, FileMove DEF WorkerStep

LEMMA FileFault ==
  ASSUME FileInv, TypeInv',
         \/ \E r \in Requests : SubmitKilled(r)
         \/ \E w \in Workers : RejectFails(w) \/ WriteFails(w) \/ WorkerKilled(w)
  PROVE  FileInv'
  <1>1. Processes /\ UNCHANGED <<files, outcomes>>
    BY DEF SubmitKilled, RejectFails, WriteFails, WorkerKilled, repo, FileInv, TypeInv
  <1>2. ASSUME NEW w \in Workers, RejectFails(w) \/ WriteFails(w) \/ WorkerKilled(w) PROVE FileInv'
    <2>1. job' = [job EXCEPT ![w] = Idle] /\ sub' = sub  BY <1>2 DEF RejectFails, WriteFails, WorkerKilled
    <2>2. \A v \in Workers : job'[v] # Idle => job'[v] = job[v]
      BY <1>1, <2>1 DEF Processes
    <2> QED  BY <1>1, <2>1, <2>2, FileJobOnly
  <1>3. ASSUME NEW r \in Requests, SubmitKilled(r) PROVE FileInv'
    <2> DEFINE x == [at |-> "dead"]
    <2>1. Underway(r) /\ sub' = [sub EXCEPT ![r] = x] /\ job' = job
      BY <1>3 DEF SubmitKilled
    <2>2. \A q \in Requests : sub'[q] = IF q = r THEN x ELSE sub[q]  BY <1>1, <2>1 DEF Processes
    <2>3. /\ \A k, c : Holds(k, c)' <=> Holds(k, c)
          /\ InboxIds' = InboxIds /\ processed' = processed
      BY <1>1, FilesSame
    <2>4. \A q \in Requests : ~Underway(q)'
      BY <2>1, <2>2 DEF FileInv, OneSubmits, Underway
    <2>5. OneSubmits' /\ IdsFree'  BY <2>4 DEF OneSubmits, IdsFree, Underway
    <2>6. \A q \in Requests : sub'[q].at = "done" <=> sub[q].at = "done"
      BY <2>1, <2>2 DEF Underway
    <2>7. OneFile'  BY <2>3, <2>6 DEF FileInv, OneFile
    <2>8. Apart' /\ JobsFiled' /\ OutcomesFiled'
      BY <1>1, <2>1, <2>3 DEF FileInv, Apart, JobsFiled, OutcomesFiled
    <2> QED  BY <2>5, <2>7, <2>8 DEF FileInv
  <1> QED  BY <1>2, <1>3

LEMMA FileStep ==
  ASSUME Serial
  PROVE  FileInv /\ [Next]_vars => FileInv'
  <1> SUFFICES ASSUME FileInv, [Next]_vars PROVE FileInv'
    OBVIOUS
  <1>1. TypeInv'  BY TypeStep DEF FileInv
  <1>2. ASSUME NEW r \in Requests, SubmitStep(r) PROVE FileInv'
    BY <1>1, <1>2, FileList, FileNextId, FileOpen, FileWrite DEF SubmitStep
  <1>3. CASE UNCHANGED vars
    <2>1. UNCHANGED <<files, outcomes, sub>> /\ job' = job  BY <1>3 DEF vars, repo
    <2> QED  BY <1>1, <2>1, FileJobOnly
  <1> QED  BY <1>1, <1>2, <1>3, FileWorker, FileFault DEF Next

LEMMA FileInvariant ==
  ASSUME Serial
  PROVE  Spec => []FileInv
  <1>1. FileInv /\ [Next]_vars => FileInv'  BY FileStep
  <1> QED  BY <1>1, FileInit, PTL DEF Spec

\* An id means one request for ever, whatever is retried or killed and however
\* many workers answer at once, when requests are submitted one after another.
THEOREM OneRequestPerId ==
  ASSUME Serial
  PROVE  Spec => []IdsMeanOneRequest
  <1>1. FileInv => IdsMeanOneRequest
    <2> SUFFICES ASSUME FileInv PROVE IdsMeanOneRequest
      OBVIOUS
    <2>1. ASSUME NEW k \in DOMAIN outcomes PROVE Cardinality(AnsweredAs(k)) = 1
      <3>1. PICK r \in Requests : AnsweredAs(k) = {r}
        BY DEF FileInv, OutcomesFiled, AnsweredAs
      <3> QED  BY <3>1, FS_Singleton
    <2>2. ASSUME NEW k \in DOMAIN processed PROVE AnsweredAs(k) \subseteq {processed[k]} /\ k \notin InboxIds
      <3>1. k \notin InboxIds  BY DEF FileInv, Apart
      <3>2. ASSUME k \in DOMAIN outcomes PROVE AnsweredAs(k) = {processed[k]}
        <4>1. PICK r \in Requests : Holds(k, r) /\ AnsweredAs(k) = {r}
          BY <3>2 DEF FileInv, OutcomesFiled, AnsweredAs
        <4>2. ~Filed(k, r)  BY <3>1, FiledFacts DEF FileInv
        <4> QED  BY <4>1, <4>2 DEF Holds
      <3> QED  BY <3>1, <3>2 DEF AnsweredAs
    <2> QED  BY <2>1, <2>2 DEF IdsMeanOneRequest
  <1> QED  BY <1>1, FileInvariant, PTL
-----------------------------------------------------------------------------
(* Branches, with one worker on a repository that knows its default branch. *)

OneWorker == \A v, w \in Workers : v = w

\* A branch that was named is still to be made, and one that is checked out is
\* the worker's own and empty.
Building(w) ==
  /\ job[w].at = "named" => job[w].base = 0 /\ job[w].branch \in Ids \ DOMAIN branches
  /\ job[w].at = "checked_out" => /\ head = job[w].branch /\ job[w].branch \in Ids
                                  /\ branches[job[w].branch] = <<>>

BranchInv == TypeInv /\ SeriesHoldOneRequest /\ \A w \in Workers : Building(w)

LEMMA BranchKept ==
  ASSUME BranchInv, TypeInv', branches' = branches,
         \A w \in Workers : job'[w].at \in {"named", "checked_out"} => job'[w] = job[w] /\ head' = head
  PROVE  BranchInv'
  BY DEF BranchInv, SeriesHoldOneRequest, Building

\* What the one worker is at after its step.
LEMMA BranchWorker ==
  ASSUME OneWorker, OriginHead, BranchInv, TypeInv', NEW w \in Workers,
         WorkerStep(w) \/ RejectFails(w) \/ WriteFails(w) \/ WorkerKilled(w)
  PROVE  BranchInv'
  <1>1. Processes /\ \A v \in Workers : v = w
    BY DEF OneWorker, BranchInv, TypeInv
  <1>2. CASE Name(w)
    <2>1. /\ job[w].at = "read" /\ UNCHANGED repo
          /\ job' = [job EXCEPT ![w].at = "named", ![w].branch = FreeBranch, ![w].base = DefaultBranch]
      BY <1>2 DEF Name
    <2>2. job[w] \in [at : AtWork, id : Ids, req : Requests, branch : Nat, base : Nat, back : Nat]
      BY <1>1, <2>1, CallTypes
    <2>3. job'[w].at = "named" /\ job'[w].branch = FreeBranch /\ job'[w].base = 0
      BY <1>1, <2>1, <2>2 DEF Processes, DefaultBranch
    <2>4. FreeBranch \in Ids \ DOMAIN branches
      <3> DEFINE taken == DOMAIN branches \ {0}
      <3>1. IsFiniteSet(taken)  BY FS_Subset DEF BranchInv, TypeInv, Repository
      <3> HIDE DEF taken
      <3>2. FirstFree(taken) \in Ids /\ FirstFree(taken) \notin taken  BY <3>1, FirstFreeIsFree
      <3> QED  BY <3>2 DEF taken, FreeBranch, Ids
    <2>5. branches' = branches  BY <2>1 DEF repo
    <2>6. Building(w)'  BY <2>3, <2>4, <2>5 DEF Building
    <2> QED  BY <1>1, <2>5, <2>6 DEF BranchInv, SeriesHoldOneRequest
  <1>3. CASE Checkout(w)
    <2> DEFINE b == job[w].branch
    <2>1. /\ job[w].at = "named" /\ head' = b
          /\ branches' = Put(branches, b, branches[job[w].base])
          /\ job' = [job EXCEPT ![w].at = "checked_out", ![w].back = head]
      BY <1>3 DEF Checkout
    <2>2. job[w] \in [at : AtWork, id : Ids, req : Requests, branch : Nat, base : Nat, back : Nat]
      BY <1>1, <2>1, CallTypes
    <2>3. job'[w].at = "checked_out" /\ job'[w].branch = b
      BY <1>1, <2>1, <2>2 DEF Processes
    <2>4. job[w].base = 0 /\ b \in Ids \ DOMAIN branches /\ branches[0] = <<>>
      BY <2>1 DEF BranchInv, Building, SeriesHoldOneRequest
    <2> HIDE DEF b
    <2>5. /\ DOMAIN branches' = DOMAIN branches \cup {b}
          /\ \A n \in DOMAIN branches \cup {b} : branches'[n] = IF n = b THEN <<>> ELSE branches[n]
      BY <2>1, <2>4 DEF Put
    <2>6. Building(w)'  BY <2>1, <2>3, <2>4, <2>5 DEF Building
    <2>7. SeriesHoldOneRequest'
      <3>1. 0 \in DOMAIN branches /\ b # 0  BY <2>4 DEF BranchInv, TypeInv, Repository, Ids
      <3>2. Len(<<>>) <= 1  OBVIOUS
      <3> QED  BY <2>4, <2>5, <3>1, <3>2 DEF BranchInv, SeriesHoldOneRequest
    <2> QED  BY <1>1, <2>6, <2>7 DEF BranchInv
  <1>4. CASE Commit(w)
    <2>1. /\ At(w, "checked_out", "committed")
          /\ branches' = [branches EXCEPT ![head] = Append(@, job[w].req)]
      BY <1>4 DEF Commit
    <2>2. PICK x \in Job : job' = [job EXCEPT ![w] = x] /\ x.at = "committed" /\ job[w].at = "checked_out" /\ job[w] # Idle
      BY <1>1, <2>1, AtGoes DEF AtWork
    <2>3. head \in Ids /\ branches[head] = <<>> /\ head \in DOMAIN branches /\ job[w].req \in Requests
      BY <1>1, <2>2, CallTypes DEF BranchInv, Building, TypeInv, Repository
    <2>4. /\ DOMAIN branches' = DOMAIN branches /\ branches'[head] = <<job[w].req>>
          /\ \A n \in DOMAIN branches : n # head => branches'[n] = branches[n]
      BY <2>1, <2>3
    <2>5. SeriesHoldOneRequest'
      <3>1. 0 \in DOMAIN branches /\ head # 0  BY <2>3 DEF BranchInv, TypeInv, Repository, Ids
      <3>2. Len(<<job[w].req>>) <= 1  OBVIOUS
      <3> QED  BY <2>4, <3>1, <3>2 DEF BranchInv, SeriesHoldOneRequest
    <2>6. Building(w)'
      <3>1. job'[w].at = "committed"  BY <1>1, <2>2 DEF Processes
      <3> QED  BY <3>1 DEF Building
    <2> QED  BY <1>1, <2>5, <2>6 DEF BranchInv
  <1>5. CASE Take(w) \/ Reject(w) \/ Restore(w) \/ Move(w) \/ Result(w) \/ RejectFails(w) \/ WriteFails(w) \/ WorkerKilled(w)
    <2>1. branches' = branches
      BY <1>5 DEF Take, Reject, Restore, Move, Result, RejectFails, WriteFails, WorkerKilled, repo
    <2>2. job'[w].at \in {"read", "answered", "moved", "idle"}
      <3>1. CASE Take(w)
        <4>1. job'[w] = TakenAs(Head(inbox).id)  BY <1>1, <3>1 DEF Take, Processes
        <4> QED  BY <4>1 DEF TakenAs
      <3>2. CASE At(w, "read", "answered") \/ At(w, "committed", "answered") \/ At(w, "answered", "moved")
        <4>1. PICK x \in Job : job' = [job EXCEPT ![w] = x] /\ x.at \in {"answered", "moved"}
          BY <1>1, <3>2, AtGoes DEF AtWork
        <4> QED  BY <1>1, <4>1 DEF Processes
      <3>3. CASE job' = [job EXCEPT ![w] = Idle]
        BY <1>1, <3>3 DEF Processes, Idle
      <3> QED
        BY <1>5, <3>1, <3>2, <3>3 DEF Reject, Restore, Move, Result, RejectFails, WriteFails, WorkerKilled
    <2> QED  BY <1>1, <2>1, <2>2, BranchKept
  <1> QED  BY <1>2, <1>3, <1>4, <1>5 DEF WorkerStep

LEMMA BranchInit == Init => BranchInv
  <1> SUFFICES ASSUME Init PROVE BranchInv
    OBVIOUS
  <1>1. SeriesHoldOneRequest  BY DEF Init, SeriesHoldOneRequest
  <1>2. \A w \in Workers : Building(w)  BY DEF Init, Idle, Building
  <1> QED  BY <1>1, <1>2, TypeInit DEF BranchInv

LEMMA BranchStep ==
  ASSUME OneWorker, OriginHead
  PROVE  BranchInv /\ [Next]_vars => BranchInv'
  <1> SUFFICES ASSUME BranchInv, [Next]_vars PROVE BranchInv'
    OBVIOUS
  <1>1. TypeInv'  BY TypeStep DEF BranchInv
  <1>2. ASSUME UNCHANGED <<repo, job>> PROVE BranchInv'
    BY <1>1, <1>2, BranchKept DEF repo
  <1>3. ASSUME NEW r \in Requests, SubmitStep(r) \/ SubmitKilled(r) PROVE BranchInv'
    BY <1>2, <1>3 DEF SubmitStep, SubmitKilled, ListInbox, NextId, Open, Write
  <1>4. CASE UNCHANGED vars  BY <1>2, <1>4 DEF vars
  <1> QED  BY <1>1, <1>3, <1>4, BranchWorker DEF Next

LEMMA BranchInvariant ==
  ASSUME OneWorker, OriginHead
  PROVE  Spec => []BranchInv
  <1>1. BranchInv /\ [Next]_vars => BranchInv'  BY BranchStep
  <1> QED  BY <1>1, BranchInit, PTL DEF Spec

\* No series is built on another's and the default branch stays clean, wherever
\* the one worker is killed and its working tree left, because the series start
\* from the branch that origin/HEAD names.
THEOREM SeriesApart ==
  ASSUME OneWorker, OriginHead
  PROVE  Spec => []SeriesHoldOneRequest
  <1>1. BranchInv => SeriesHoldOneRequest  BY DEF BranchInv
  <1> QED  BY <1>1, BranchInvariant, PTL
-----------------------------------------------------------------------------
(* What becomes of a request. *)

\* The file of a job is moved by nobody but its worker, ...
Unmoved == \A w \in Workers :
  job[w].at \in AtWork \ {"moved"} => Filed(job[w].id, job[w].req)

\* ... and not before its request is answered.
Answered(k, r) == r \in AnsweredAs(k) \cup Promoted
AnswerFirst ==
  /\ \A w \in Workers : /\ job[w].at \in {"answered", "moved"} => Answered(job[w].id, job[w].req)
                        /\ job[w].at = "committed" => job[w].req \in Promoted
  /\ \A k \in DOMAIN processed : Answered(k, processed[k])

\* The series of a request are as many as faults, and one more when it is
\* through: committed by a worker that is not dead, or processed.
Made(r) == {n \in DOMAIN branches : r \in Range(branches[n])}
Through(r) == \/ \E w \in Workers : job[w].at \in {"committed", "answered", "moved"} /\ job[w].req = r
              \/ \E k \in DOMAIN processed : processed[k] = r
Counted == \A r \in Requests :
  Cardinality(Made(r)) <= faults \/ (Through(r) /\ Cardinality(Made(r)) <= faults + 1)

AnswerInv == FileInv /\ BranchInv /\ Unmoved /\ AnswerFirst /\ Counted

LEMMA MadeFinite ==
  ASSUME TypeInv, NEW r
  PROVE  IsFiniteSet(Made(r)) /\ Cardinality(Made(r)) \in Nat
  <1>1. Made(r) \in SUBSET DOMAIN branches  BY DEF Made
  <1>2. IsFiniteSet(DOMAIN branches)  BY DEF TypeInv, Repository
  <1>3. IsFiniteSet(Made(r))  BY <1>1, <1>2, FS_Subset
  <1> QED  BY <1>3, FS_CardinalityType

\* Nothing that was answered is taken back.
LEMMA AnswersStay ==
  ASSUME BranchInv, NEW w \in Workers, WorkerStep(w)
  PROVE  /\ Promoted \subseteq Promoted'
         /\ \A k : AnsweredAs(k) \subseteq AnsweredAs(k)'
  <1>1. \A n \in DOMAIN branches :
          n \in DOMAIN branches' /\ Range(branches[n]) \subseteq Range(branches'[n])
    <2>1. CASE Checkout(w)
      <3>1. job[w].branch \notin DOMAIN branches /\ branches' = Put(branches, job[w].branch, branches[job[w].base])
        BY <2>1 DEF Checkout, BranchInv, Building
      <3> QED  BY <3>1 DEF Put
    <2>2. CASE Commit(w)
      <3>1. At(w, "checked_out", "committed") /\ branches' = [branches EXCEPT ![head] = Append(@, job[w].req)]
        BY <2>2 DEF Commit
      <3>2. branches[head] = <<>>  BY <3>1 DEF At, BranchInv, Building
      <3>3. Range(<<>>) = {}  BY DEF Range
      <3> QED  BY <3>1, <3>2, <3>3
    <2>3. CASE branches' = branches  BY <2>3
    <2> QED  BY <2>1, <2>2, <2>3 DEF WorkerStep, Take, Reject, Name, Restore, Move, Result, repo
  <1>2. Promoted \subseteq Promoted'  BY <1>1 DEF Promoted
  <1>3. \A k : AnsweredAs(k) \subseteq AnsweredAs(k)'
    <2>1. CASE Reject(w)
      <3> DEFINE k == job[w].id
                 o == Append(IF k \in DOMAIN outcomes THEN outcomes[k] ELSE <<>>, job[w].req)
      <3>1. At(w, "read", "answered") /\ outcomes' = Put(outcomes, k, o)  BY <2>1 DEF Reject
      <3>2. k \in DOMAIN outcomes => Range(outcomes[k]) \subseteq Range(o)
        <4> SUFFICES ASSUME k \in DOMAIN outcomes PROVE Range(outcomes[k]) \subseteq Range(o)
          OBVIOUS
        <4> DEFINE s == outcomes[k]
                   r == job[w].req
        <4>1. s \in Seq(Requests)  BY DEF BranchInv, TypeInv, Repository, Range
        <4>2. r \in Requests  BY <3>1, CallTypes DEF At, BranchInv, TypeInv
        <4>3. o = Append(s, r)  OBVIOUS
        <4> HIDE DEF o, s, r
        <4>4. /\ DOMAIN o = 1..(Len(s) + 1) /\ DOMAIN s = 1..Len(s) /\ Len(s) \in Nat
              /\ \A i \in 1..Len(s) : o[i] = s[i]
          BY <4>1, <4>2, <4>3
        <4>5. Range(s) \subseteq Range(o)
          <5> SUFFICES ASSUME NEW i \in 1..Len(s) PROVE s[i] \in Range(o)
            BY <4>4 DEF Range
          <5>1. i \in 1..(Len(s) + 1) /\ s[i] = o[i]  BY <4>4
          <5> QED  BY <4>4, <5>1 DEF Range
        <4> QED  BY <4>5 DEF s
      <3> HIDE DEF k, o
      <3>3. /\ DOMAIN outcomes' = DOMAIN outcomes \cup {k}
            /\ \A l \in DOMAIN outcomes \cup {k} : outcomes'[l] = IF l = k THEN o ELSE outcomes[l]
        BY <3>1 DEF Put
      <3> QED  BY <3>2, <3>3 DEF AnsweredAs
    <2>2. CASE outcomes' = outcomes  BY <2>2 DEF AnsweredAs
    <2> QED
      BY <2>1, <2>2 DEF WorkerStep, Take, Checkout, Name, Commit, Restore, Move, Result, repo
  <1> QED  BY <1>2, <1>3

LEMMA AnswerInit == Init => AnswerInv
  <1> SUFFICES ASSUME Init PROVE AnswerInv
    OBVIOUS
  <1>1. /\ \A w \in Workers : job[w].at = "idle"
        /\ DOMAIN processed = {} /\ faults = 0
    BY DEF Init, Idle
  <1>2. \A r \in Requests : Made(r) = {}
    BY DEF Init, Made, Range
  <1>3. \A r \in Requests : Cardinality(Made(r)) = 0  BY <1>2, FS_EmptySet
  <1>4. Unmoved /\ AnswerFirst /\ Counted
    BY <1>1, <1>3 DEF Unmoved, AnswerFirst, Counted, AtWork
  <1> QED  BY <1>4, FileInit, BranchInit DEF AnswerInv

\* Submissions, and steps in which nothing moves, change none of it.
LEMMA AnswerKept ==
  ASSUME AnswerInv, FileInv', BranchInv', UNCHANGED <<repo, job>>,
         faults' = faults \/ faults' = faults + 1, processed' = processed,
         \A k : \A c \in Requests : Filed(k, c) => Filed(k, c)'
  PROVE  AnswerInv'
  <1>1. /\ branches' = branches /\ outcomes' = outcomes /\ job' = job /\ processed' = processed
    BY DEF repo
  <1>2. Unmoved'
    <2> SUFFICES ASSUME NEW w \in Workers, job[w].at \in AtWork \ {"moved"}
                 PROVE  Filed(job[w].id, job[w].req)'
      BY <1>1 DEF Unmoved
    <2>1. Filed(job[w].id, job[w].req)  BY DEF AnswerInv, Unmoved
    <2>2. job[w].req \in Requests  BY CallTypes DEF AnswerInv, FileInv, TypeInv, AtWork
    <2>3. \A k : \A c \in Requests : Filed(k, c) => [id |-> k, req |-> c] \in Files'
      BY DEF Filed
    <2> QED  BY <1>1, <2>1, <2>2, <2>3 DEF Filed
  <1>3. AnswerFirst'  BY <1>1 DEF AnswerInv, AnswerFirst, Answered, AnsweredAs, Promoted
  <1>4. Counted'
    <2> SUFFICES ASSUME NEW r \in Requests
                 PROVE  \/ Cardinality(Made(r))' <= faults'
                        \/ Through(r)' /\ Cardinality(Made(r))' <= faults' + 1
      BY DEF Counted
    <2>1. Made(r)' = Made(r) /\ (Through(r)' <=> Through(r))  BY <1>1 DEF Made, Through
    <2>2. Cardinality(Made(r)) \in Nat /\ faults \in Nat
      BY MadeFinite, IntakeAssumption DEF AnswerInv, FileInv, TypeInv, Processes
    <2> QED  BY <2>1, <2>2 DEF AnswerInv, Counted
  <1> QED  BY <1>2, <1>3, <1>4 DEF AnswerInv

\* Where the steps of a worker take it.
LEMMA WorkerMoves ==
  ASSUME Processes, NEW w \in Workers, WorkerStep(w)
  PROVE  \/ /\ Take(w) /\ job[w] = Idle /\ job'[w].at = "read"
            /\ job'[w].id = Head(inbox).id /\ job'[w].req = Head(inbox).req
         \/ /\ job[w] # Idle /\ job'[w].id = job[w].id /\ job'[w].req = job[w].req
            /\ \/ Name(w) /\ job[w].at = "read" /\ job'[w].at = "named"
               \/ Checkout(w) /\ job[w].at = "named" /\ job'[w].at = "checked_out"
               \/ Commit(w) /\ job[w].at = "checked_out" /\ job'[w].at = "committed"
               \/ Restore(w) /\ job[w].at = "committed" /\ job'[w].at = "answered"
               \/ Reject(w) /\ job[w].at = "read" /\ job'[w].at = "answered"
               \/ Move(w) /\ job[w].id \in InboxIds /\ job[w].at = "answered" /\ job'[w].at = "moved"
         \/ /\ job[w] # Idle /\ job'[w] = Idle
            /\ \/ Move(w) /\ job[w].id \notin InboxIds /\ job[w].at = "answered"
               \/ Result(w) /\ job[w].at = "moved"
  <1>1. ASSUME NEW step \in AtWork, NEW next \in AtWork, At(w, step, next)
        PROVE  /\ job[w] # Idle /\ job'[w].id = job[w].id /\ job'[w].req = job[w].req
               /\ job[w].at = step /\ job'[w].at = next
    <2>1. step # "idle"  BY DEF AtWork
    <2>2. PICK x \in Job : /\ job' = [job EXCEPT ![w] = x] /\ job[w] # Idle /\ job[w].at = step
                           /\ x.id = job[w].id /\ x.req = job[w].req /\ x.at = next
      BY <1>1, <2>1, AtGoes
    <2> QED  BY <2>2 DEF Processes
  <1>2. CASE Take(w)
    BY <1>2 DEF Take, TakenAs, Processes
  <1>3. CASE Name(w) \/ Checkout(w)
    <2>1. job[w].at \in {"read", "named"}  BY <1>3 DEF Name, Checkout
    <2>2. /\ job[w] # Idle
          /\ job[w] \in [at : AtWork, id : Ids, req : Requests, branch : Nat, base : Nat, back : Nat]
      BY <2>1, CallTypes
    <2>3. CASE Name(w)
      <3>1. /\ job[w].at = "read"
            /\ job' = [job EXCEPT ![w] = [job[w] EXCEPT !.at = "named", !.branch = FreeBranch, !.base = DefaultBranch]]
        BY <2>3 DEF Name, Processes
      <3>2. job'[w].at = "named" /\ job'[w].id = job[w].id /\ job'[w].req = job[w].req
        BY <2>2, <3>1 DEF Processes
      <3> QED  BY <2>2, <2>3, <3>1, <3>2
    <2>4. CASE Checkout(w)
      <3>1. /\ job[w].at = "named"
            /\ job' = [job EXCEPT ![w] = [job[w] EXCEPT !.at = "checked_out", !.back = head]]
        BY <2>4 DEF Checkout, Processes
      <3>2. job'[w].at = "checked_out" /\ job'[w].id = job[w].id /\ job'[w].req = job[w].req
        BY <2>2, <3>1 DEF Processes
      <3> QED  BY <2>2, <2>4, <3>1, <3>2
    <2> QED  BY <1>3, <2>3, <2>4
  <1>4. CASE Commit(w) \/ Restore(w) \/ Reject(w)
    BY <1>1, <1>4 DEF Commit, Restore, Reject, AtWork
  <1>5. CASE Move(w)
    <2>1. CASE job[w].id \in InboxIds
      BY <1>1, <1>5, <2>1 DEF Move, AtWork
    <2>2. CASE job[w].id \notin InboxIds
      <3>1. job[w].at = "answered" /\ job' = [job EXCEPT ![w] = Idle]  BY <1>5, <2>2 DEF Move
      <3>2. job[w] # Idle  BY <3>1, CallTypes
      <3> QED  BY <1>5, <2>2, <3>1, <3>2 DEF Processes
    <2> QED  BY <2>1, <2>2
  <1>6. CASE Result(w)
    <2>1. job[w].at = "moved" /\ job' = [job EXCEPT ![w] = Idle]  BY <1>6 DEF Result
    <2>2. job[w] # Idle  BY <2>1, CallTypes
    <2> QED  BY <1>6, <2>1, <2>2 DEF Processes
  <1> QED  BY <1>2, <1>3, <1>4, <1>5, <1>6 DEF WorkerStep

LEMMA UnmovedStep ==
  ASSUME OneWorker, AnswerInv, NEW w \in Workers, WorkerStep(w)
  PROVE  Unmoved'
  <1>1. Processes /\ \A v \in Workers : v = w
    BY DEF OneWorker, AnswerInv, FileInv, TypeInv
  <1>2. SUFFICES ASSUME job'[w].at \in AtWork \ {"moved"}
                 PROVE  [id |-> job'[w].id, req |-> job'[w].req] \in Files'
    BY <1>1 DEF Unmoved, Filed
  <1>3. CASE /\ Take(w) /\ job'[w].id = Head(inbox).id /\ job'[w].req = Head(inbox).req
    <2>1. inbox # <<>> /\ inbox' = inbox  BY <1>3 DEF Take, files
    <2>2. Head(inbox) \in Files
      <3>1. inbox \in Seq(Entry)  BY DEF AnswerInv, FileInv, TypeInv, Lists, InboxTyped
      <3> QED  BY <2>1, <3>1 DEF Files, Range
    <2>3. Filed(Head(inbox).id, Head(inbox).req)  BY <2>2, FiledFacts DEF AnswerInv, FileInv
    <2> QED  BY <1>3, <2>1, <2>3 DEF Filed, Files
  <1>4. CASE /\ job'[w].id = job[w].id /\ job'[w].req = job[w].req
             /\ Name(w) \/ Checkout(w) \/ Commit(w) \/ Restore(w) \/ Reject(w)
             /\ job[w].at \in {"read", "named", "checked_out", "committed"}
    <2>1. Filed(job[w].id, job[w].req)  BY <1>4 DEF AnswerInv, Unmoved, AtWork
    <2>2. Files' = Files  BY <1>4 DEF Name, Checkout, Commit, Restore, Reject, files, Files
    <2> QED  BY <1>4, <2>1, <2>2 DEF Filed
  <1> QED  BY <1>1, <1>2, <1>3, <1>4, WorkerMoves DEF AtWork, Idle

LEMMA AnswerFirstStep ==
  ASSUME OneWorker, AnswerInv, TypeInv', NEW w \in Workers, WorkerStep(w)
  PROVE  AnswerFirst'
  <1>1. Processes /\ \A v \in Workers : v = w
    BY DEF OneWorker, AnswerInv, FileInv, TypeInv
  <1>2. /\ Promoted \subseteq Promoted'
        /\ \A k : AnsweredAs(k) \subseteq AnsweredAs(k)'
    BY AnswersStay DEF AnswerInv
  <1> DEFINE k == job[w].id
             r == job[w].req
             AnsweredNow == \/ /\ k \in DOMAIN outcomes' /\ r \in Range(outcomes'[k])
                            \/ r \in Promoted'
  <1>3. ASSUME job[w].at \in {"answered", "moved"} PROVE AnsweredNow
    <2>1. r \in AnsweredAs(k) \/ r \in Promoted
      BY <1>3 DEF AnswerInv, AnswerFirst, Answered
    <2>2. ASSUME r \in AnsweredAs(k) PROVE AnsweredNow
      <3>1. k \in DOMAIN outcomes /\ r \in Range(outcomes[k])  BY <2>2 DEF AnsweredAs
      <3>2. \A l \in DOMAIN outcomes : Range(outcomes[l]) \subseteq AnsweredAs(l)'
        BY <1>2 DEF AnsweredAs
      <3>3. \A l : AnsweredAs(l)' = IF l \in DOMAIN outcomes' THEN Range(outcomes'[l]) ELSE {}
        BY DEF AnsweredAs
      <3> HIDE DEF k, r
      <3> QED  BY <3>1, <3>2, <3>3
    <2> QED  BY <1>2, <2>1, <2>2
  <1>4. ASSUME job'[w].at \in {"answered", "moved"}
        PROVE  job'[w].id = k /\ job'[w].req = r /\ AnsweredNow
    <2>1. job'[w].id = k /\ job'[w].req = r
      BY <1>1, <1>4, WorkerMoves DEF Idle
    <2>2. CASE job[w].at \in {"answered", "moved"}  BY <1>3, <2>1, <2>2
    <2>3. CASE Restore(w) /\ job[w].at = "committed"
      <3>1. r \in Promoted  BY <2>3 DEF AnswerInv, AnswerFirst
      <3> QED  BY <1>2, <2>1, <3>1
    <2>4. CASE Reject(w)
      <3> DEFINE o == Append(IF k \in DOMAIN outcomes THEN outcomes[k] ELSE <<>>, r)
      <3>1. At(w, "read", "answered") /\ outcomes' = Put(outcomes, k, o)  BY <2>4 DEF Reject
      <3>2. r \in Requests  BY <3>1, CallTypes, <1>1 DEF At
      <3>3. r \in Range(o)
        <4> DEFINE s == IF k \in DOMAIN outcomes THEN outcomes[k] ELSE <<>>
        <4>1. s \in Seq(Requests)  BY DEF AnswerInv, FileInv, TypeInv, Repository, Range
        <4>2. o = Append(s, r)  OBVIOUS
        <4> HIDE DEF s, o, r
        <4>3. o[Len(s) + 1] = r /\ Len(s) + 1 \in DOMAIN o  BY <3>2, <4>1, <4>2
        <4> QED  BY <4>3 DEF Range
      <3> HIDE DEF o
      <3>4. k \in DOMAIN outcomes' /\ outcomes'[k] = o  BY <3>1 DEF Put
      <3> QED  BY <2>1, <3>3, <3>4
    <2> QED  BY <1>1, <1>4, <2>2, <2>3, <2>4, WorkerMoves DEF Idle
  <1>5. ASSUME job'[w].at = "committed" PROVE job'[w].req \in Promoted'
    <2>1. Commit(w) /\ job[w].at = "checked_out" /\ job'[w].req = r
      BY <1>1, <1>5, WorkerMoves DEF Idle
    <2>2. /\ branches' = [branches EXCEPT ![head] = Append(@, r)]
          /\ branches[head] = <<>> /\ head \in DOMAIN branches /\ head # 0
      BY <2>1 DEF Commit, AnswerInv, BranchInv, Building, TypeInv, Repository, Ids
    <2>3. DOMAIN branches' = DOMAIN branches /\ branches'[head] = <<r>>  BY <2>2
    <2>4. r \in Range(<<r>>)  BY DEF Range
    <2> QED  BY <2>1, <2>2, <2>3, <2>4 DEF Promoted
  <1>6. ASSUME NEW l \in DOMAIN processed'
        PROVE  \/ l \in DOMAIN outcomes' /\ processed'[l] \in Range(outcomes'[l])
               \/ processed'[l] \in Promoted'
    <2>1. ASSUME l \in DOMAIN processed, processed'[l] = processed[l]
          PROVE  \/ l \in DOMAIN outcomes' /\ processed'[l] \in Range(outcomes'[l])
                 \/ processed'[l] \in Promoted'
      <3>1. processed[l] \in AnsweredAs(l) \cup Promoted
        BY <2>1 DEF AnswerInv, AnswerFirst, Answered
      <3>2. AnsweredAs(l)' = IF l \in DOMAIN outcomes' THEN Range(outcomes'[l]) ELSE {}
        BY DEF AnsweredAs
      <3> QED  BY <1>2, <2>1, <3>1, <3>2
    <2>2. CASE Move(w) /\ k \in InboxIds
      <3>1. /\ DOMAIN processed' = DOMAIN processed \cup {k}
            /\ processed'[l] = IF l = k THEN r ELSE processed[l]
        BY <2>2, MoveHolds DEF AnswerInv
      <3>2. AnsweredNow
        <4>1. job[w].at = "answered"  BY <2>2 DEF Move, At
        <4> QED  BY <1>3, <4>1
      <3> QED  BY <2>1, <3>1, <3>2
    <2>3. CASE ~ (Move(w) /\ k \in InboxIds)
      <3>1. processed' = processed
        BY <2>3 DEF WorkerStep, Take, Checkout, Name, Commit, Restore, Reject, Result, Move, files
      <3> QED  BY <2>1, <3>1
    <2> QED  BY <2>2, <2>3
  <1> HIDE DEF AnsweredNow
  <1>7. ASSUME job'[w].at \in {"answered", "moved"}
        PROVE  \/ job'[w].id \in DOMAIN outcomes' /\ job'[w].req \in Range(outcomes'[job'[w].id])
               \/ job'[w].req \in Promoted'
    BY <1>4, <1>7 DEF AnsweredNow
  <1> QED  BY <1>1, <1>5, <1>6, <1>7 DEF AnswerFirst, Answered, AnsweredAs

\* Only a commit makes a series, of a request that is not through.
LEMMA CountedStep ==
  ASSUME OneWorker, AnswerInv, FileInv', NEW w \in Workers, WorkerStep(w)
  PROVE  Counted'
  <1>1. /\ Processes /\ \A v \in Workers : v = w
        /\ faults' = faults /\ faults \in Nat
    <2>1. faults' = faults
      BY DEF WorkerStep, Take, Reject, Name, Checkout, Commit, Restore, Move, Result
    <2> QED  BY <2>1, IntakeAssumption DEF OneWorker, AnswerInv, FileInv, TypeInv, Processes
  <1>2. SUFFICES ASSUME NEW r \in Requests
                 PROVE  \/ Cardinality(Made(r))' <= faults
                        \/ Through(r)' /\ Cardinality(Made(r))' <= faults + 1
    BY <1>1 DEF Counted
  <1>3. /\ Cardinality(Made(r)) \in Nat /\ IsFiniteSet(Made(r))
        /\ \/ Cardinality(Made(r)) <= faults
           \/ Through(r) /\ Cardinality(Made(r)) <= faults + 1
    BY MadeFinite DEF AnswerInv, FileInv, Counted
  <1>4. Through(r) => Through(r)'
    <2> SUFFICES ASSUME Through(r)
                 PROVE  \/ job'[w].at \in {"committed", "answered", "moved"} /\ job'[w].req = r
                        \/ \E k \in DOMAIN processed' : processed'[k] = r
      BY DEF Through
    <2>1. \A k \in DOMAIN processed : k \in DOMAIN processed' /\ processed'[k] = processed[k]
      <3>1. CASE Move(w) /\ job[w].id \in InboxIds
        <4>1. /\ DOMAIN processed' = DOMAIN processed \cup {job[w].id}
              /\ \A l \in DOMAIN processed' :
                   processed'[l] = IF l = job[w].id THEN job[w].req ELSE processed[l]
          BY <3>1, MoveHolds DEF AnswerInv, FileInv
        <4>2. job[w].id \notin DOMAIN processed  BY <3>1 DEF AnswerInv, FileInv, Apart
        <4> QED  BY <4>1, <4>2
      <3>2. CASE ~ (Move(w) /\ job[w].id \in InboxIds)
        <4>1. processed' = processed
          BY <3>2 DEF WorkerStep, Take, Checkout, Name, Commit, Restore, Reject, Result, Move, files
        <4> QED  BY <4>1
      <3> QED  BY <3>1, <3>2
    <2>2. CASE \E k \in DOMAIN processed : processed[k] = r  BY <2>1, <2>2
    <2>3. CASE job[w].at \in {"committed", "answered", "moved"} /\ job[w].req = r
      <3>1. CASE job[w].at = "moved"
        <4>1. /\ Holds(job[w].id, r) /\ job[w].id \in DOMAIN processed
          BY <1>1, <2>3, <3>1, CallTypes DEF AnswerInv, FileInv, JobsFiled, Processes
        <4>2. ~Filed(job[w].id, r)  BY <4>1, FiledFacts DEF AnswerInv, FileInv, Apart
        <4> QED  BY <2>2, <4>1, <4>2 DEF Holds
      <3>2. CASE job[w].at \in {"committed", "answered"}
        <4>1. job[w].id \in InboxIds
          <5>1. Filed(job[w].id, job[w].req)  BY <3>2 DEF AnswerInv, Unmoved, AtWork
          <5> QED  BY <5>1, FiledFacts DEF AnswerInv, FileInv
        <4>2. job[w].at \notin {"read", "named", "checked_out", "moved"} /\ job[w] # Idle
          BY <3>2 DEF Idle
        <4>3. job'[w].req = r /\ job'[w].at \in {"answered", "moved"}
          BY <1>1, <2>3, <4>1, <4>2, WorkerMoves
        <4> QED  BY <4>3
      <3> QED  BY <2>3, <3>1, <3>2
    <2> QED  BY <1>1, <2>2, <2>3 DEF Through
  <1>5. ASSUME Made(r)' = Made(r) PROVE Cardinality(Made(r))' = Cardinality(Made(r))
    BY <1>5
  <1>6. CASE Checkout(w)
    <2>1. /\ job[w].branch \notin DOMAIN branches /\ branches[job[w].base] = <<>>
          /\ branches' = Put(branches, job[w].branch, branches[job[w].base])
      BY <1>6 DEF Checkout, AnswerInv, BranchInv, Building, SeriesHoldOneRequest
    <2> DEFINE b == job[w].branch
    <2>2. /\ DOMAIN branches' = DOMAIN branches \cup {b}
          /\ \A n \in DOMAIN branches \cup {b} : branches'[n] = IF n = b THEN <<>> ELSE branches[n]
      BY <2>1 DEF Put
    <2>3. Range(<<>>) = {}  BY DEF Range
    <2>4. Made(r)' = Made(r)
      <3>1. Made(r)' = {n \in DOMAIN branches' : r \in Range(branches'[n])}  BY DEF Made
      <3> HIDE DEF b
      <3>2. \A n : n \in Made(r)' <=> n \in Made(r)
        BY <2>1, <2>2, <2>3, <3>1 DEF Made, b
      <3> QED  BY <3>1, <3>2 DEF Made
    <2> QED  BY <1>3, <1>4, <1>5, <2>4
  <1>7. CASE Commit(w)
    <2>1. /\ job[w].at = "checked_out" /\ job'[w].at = "committed" /\ job'[w].req = job[w].req
          /\ branches' = [branches EXCEPT ![head] = Append(@, job[w].req)]
      <3>1. /\ job[w].at = "checked_out"
            /\ branches' = [branches EXCEPT ![head] = Append(@, job[w].req)]
        BY <1>7 DEF Commit, At
      <3>2. job[w] # Idle  BY <3>1 DEF Idle
      <3> QED  BY <1>1, <3>1, <3>2, WorkerMoves
    <2>2. branches[head] = <<>> /\ head \in DOMAIN branches
      BY <2>1 DEF AnswerInv, BranchInv, Building, TypeInv, Repository
    <2>3. /\ DOMAIN branches' = DOMAIN branches
          /\ \A n \in DOMAIN branches : branches'[n] = IF n = head THEN <<job[w].req>> ELSE branches[n]
      BY <2>1, <2>2
    <2>4. Range(<<job[w].req>>) = {job[w].req}  BY DEF Range
    <2>5. Made(r)' = {n \in DOMAIN branches' : r \in Range(branches'[n])}  BY DEF Made
    <2>6. CASE job[w].req # r
      <3>1. Range(<<>>) = {}  BY DEF Range
      <3>2. \A n : n \in Made(r)' <=> n \in Made(r)
        BY <2>2, <2>3, <2>4, <2>5, <2>6, <3>1 DEF Made
      <3>3. Made(r)' = Made(r)  BY <2>5, <3>2 DEF Made
      <3> QED  BY <1>3, <1>4, <1>5, <3>3
    <2>7. CASE job[w].req = r
      <3>1. Through(r)'  BY <2>1, <2>7 DEF Through
      <3>2. ~Through(r)
        <4>1. ~ \E v \in Workers : job[v].at \in {"committed", "answered", "moved"} /\ job[v].req = r
          BY <1>1, <2>1
        <4>2. Filed(job[w].id, r)  BY <2>1, <2>7 DEF AnswerInv, Unmoved, AtWork
        <4>3. ASSUME NEW k \in DOMAIN processed, processed[k] = r PROVE FALSE
          <5>1. k \in Ids /\ job[w].id \in Ids
            BY <4>2, FiledFacts DEF AnswerInv, FileInv, TypeInv, Lists
          <5>2. k = job[w].id  BY <4>2, <4>3, <5>1 DEF AnswerInv, FileInv, OneFile, Holds
          <5> QED  BY <4>2, <5>2, FiledFacts DEF AnswerInv, FileInv, Apart
        <4> QED  BY <4>1, <4>3 DEF Through
      <3>3. Made(r)' = Made(r) \cup {head}
        <4>1. \A n : n \in Made(r)' <=> n \in Made(r) \cup {head}
          BY <2>2, <2>3, <2>4, <2>5, <2>7 DEF Made
        <4> QED  BY <2>5, <4>1 DEF Made
      <3>4. Cardinality(Made(r) \cup {head}) <= Cardinality(Made(r)) + 1
        <4>1. Cardinality(Made(r) \cup {head}) =
                IF head \in Made(r) THEN Cardinality(Made(r)) ELSE Cardinality(Made(r)) + 1
          BY <1>3, FS_AddElement
        <4> QED  BY <1>3, <4>1
      <3>5. Cardinality(Made(r))' = Cardinality(Made(r) \cup {head})  BY <3>3
      <3>6. Cardinality(Made(r) \cup {head}) \in Nat
        <4>1. IsFiniteSet(Made(r) \cup {head})  BY <1>3, FS_AddElement
        <4> QED  BY <4>1, FS_CardinalityType
      <3> QED  BY <1>1, <1>3, <3>1, <3>2, <3>4, <3>5, <3>6
    <2> QED  BY <2>6, <2>7
  <1>8. CASE branches' = branches
    <2>1. Made(r)' = Made(r)  BY <1>8 DEF Made
    <2> QED  BY <1>3, <1>4, <1>5, <2>1
  <1> QED
    BY <1>6, <1>7, <1>8 DEF WorkerStep, Take, Reject, Name, Restore, Move, Result, repo

\* A fault takes a request out of a worker's hands, and is counted.
LEMMA AnswerFault ==
  ASSUME OneWorker, AnswerInv, FileInv', BranchInv',
         NEW w \in Workers, RejectFails(w) \/ WriteFails(w) \/ WorkerKilled(w)
  PROVE  AnswerInv'
  <1>1. /\ Processes /\ \A v \in Workers : v = w
        /\ faults' = faults + 1 /\ faults \in Nat
        /\ UNCHANGED <<files, outcomes, branches>> /\ job' = [job EXCEPT ![w] = Idle]
    BY IntakeAssumption
       DEF repo, OneWorker, AnswerInv, FileInv, TypeInv, Processes, RejectFails, WriteFails, WorkerKilled
  <1>2. /\ \A v \in Workers : job'[v].at = "idle"
        /\ branches' = branches /\ outcomes' = outcomes /\ processed' = processed
    BY <1>1 DEF Processes, Idle, files
  <1>3. Unmoved'  BY <1>2 DEF Unmoved, AtWork
  <1>4. AnswerFirst'
    BY <1>2 DEF AnswerInv, AnswerFirst, Answered, AnsweredAs, Promoted
  <1>5. Counted'
    <2> SUFFICES ASSUME NEW r \in Requests PROVE Cardinality(Made(r))' <= faults'
      BY DEF Counted
    <2>1. Made(r)' = Made(r)  BY <1>2 DEF Made
    <2>2. Cardinality(Made(r)) \in Nat  BY MadeFinite DEF AnswerInv, FileInv
    <2>3. Cardinality(Made(r)) <= faults + 1  BY <1>1, <2>2 DEF AnswerInv, Counted
    <2> QED  BY <1>1, <2>1, <2>3
  <1> QED  BY <1>3, <1>4, <1>5 DEF AnswerInv

LEMMA AnswerStep ==
  ASSUME Serial, OneWorker, OriginHead
  PROVE  AnswerInv /\ [Next]_vars => AnswerInv'
  <1> SUFFICES ASSUME AnswerInv, [Next]_vars PROVE AnswerInv'
    OBVIOUS
  <1>1. FileInv' /\ BranchInv'  BY FileStep, BranchStep DEF AnswerInv
  <1>2. ASSUME NEW w \in Workers, WorkerStep(w) PROVE AnswerInv'
    <2>1. TypeInv'  BY <1>1 DEF FileInv
    <2> QED
      BY <1>1, <1>2, <2>1, UnmovedStep, AnswerFirstStep, CountedStep DEF AnswerInv
  <1>3. ASSUME NEW r \in Requests, SubmitStep(r) PROVE AnswerInv'
    <2>1. /\ UNCHANGED <<repo, job>> /\ faults' = faults
      BY <1>3 DEF SubmitStep, ListInbox, NextId, Open, Write
    <2>2. processed' = processed /\ \A k : \A c \in Requests : Filed(k, c) => Filed(k, c)'
      <3>1. CASE ListInbox(r) \/ NextId(r)
        <4>1. UNCHANGED files  BY <3>1 DEF ListInbox, NextId
        <4> QED  BY <4>1, FilesSame
      <3>2. CASE Open(r)
        <4> DEFINE i == sub[r].id
        <4>1. i \in Ids /\ i \notin InboxIds
          BY <3>2, CallTypes DEF Open, AnswerInv, FileInv, TypeInv, IdsFree
        <4>2. Files' = Others(i) \cup {[id |-> i, req |-> Torn]}
          BY <3>2, <4>1, OpenFiles DEF AnswerInv, FileInv, TypeInv, Lists
        <4>3. \A k, c : Filed(k, c) => k # i  BY <4>1, FiledFacts DEF AnswerInv, FileInv
        <4> HIDE DEF i
        <4>4. \A k, c : Filed(k, c) => Filed(k, c)'  BY <4>2, <4>3, FiledAfter
        <4> QED  BY <3>2, <4>4 DEF Open
      <3>3. CASE Write(r)
        <4> DEFINE i == sub[r].id
        <4>1. i \in Ids /\ i \in InboxIds /\ Filed(i, Torn)
          BY <3>3, CallTypes, FiledFacts DEF Write, AnswerInv, FileInv, TypeInv, IdsFree
        <4>2. processed' = processed /\ Files' = Others(i) \cup {[id |-> i, req |-> r]}
          BY <3>3, <4>1, WriteFiles DEF AnswerInv, FileInv, TypeInv, Lists
        <4>3. \A k : \A c \in Requests : Filed(k, c) => k # i
          BY <4>1, FiledFacts, IntakeAssumption DEF AnswerInv, FileInv
        <4> HIDE DEF i
        <4>4. \A k : \A c \in Requests : Filed(k, c) => Filed(k, c)'  BY <4>2, <4>3, FiledAfter
        <4> QED  BY <4>2, <4>4
      <3> QED  BY <1>3, <3>1, <3>2, <3>3 DEF SubmitStep
    <2> QED  BY <1>1, <2>1, <2>2, AnswerKept
  <1>4. ASSUME NEW r \in Requests, SubmitKilled(r) PROVE AnswerInv'
    <2>1. UNCHANGED <<repo, job>> /\ faults' = faults + 1 /\ UNCHANGED files
      BY <1>4 DEF SubmitKilled
    <2> QED  BY <1>1, <2>1, FilesSame, AnswerKept
  <1>5. CASE UNCHANGED vars
    <2>1. UNCHANGED <<repo, job>> /\ faults' = faults /\ UNCHANGED files  BY <1>5 DEF vars
    <2> QED  BY <1>1, <2>1, FilesSame, AnswerKept
  <1> QED  BY <1>1, <1>2, <1>3, <1>4, <1>5, AnswerFault DEF Next

LEMMA AnswerInvariant ==
  ASSUME Serial, OneWorker, OriginHead
  PROVE  Spec => []AnswerInv
  <1>1. AnswerInv /\ [Next]_vars => AnswerInv'  BY AnswerStep
  <1> QED  BY <1>1, AnswerInit, PTL DEF Spec

\* A request that was submitted stays in the inbox until an outcome under its id
\* or a series answers it, wherever worker and submissions are killed and
\* whichever publications fail.
THEOREM NothingDropped ==
  ASSUME Serial, OneWorker, OriginHead
  PROVE  Spec => []StaysUntilAnswered
  <1>1. AnswerInv => StaysUntilAnswered
    <2> SUFFICES ASSUME AnswerInv, NEW r \in Requests, sub[r].at = "done"
                 PROVE  \/ \E i \in DOMAIN inbox : inbox[i].req = r
                        \/ \E k \in DOMAIN processed : processed[k] = r /\ r \in AnsweredAs(k) \cup Promoted
      BY DEF StaysUntilAnswered
    <2>1. PICK k \in Ids : Holds(k, r)  BY DEF AnswerInv, FileInv, OneFile
    <2>2. CASE Filed(k, r)
      <3>1. PICK i \in DOMAIN inbox : inbox[i] = [id |-> k, req |-> r]
        BY <2>2 DEF Filed, Files, Range
      <3> QED  BY <3>1
    <2>3. CASE k \in DOMAIN processed /\ processed[k] = r
      BY <2>3 DEF AnswerInv, AnswerFirst, Answered
    <2> QED  BY <2>1, <2>2, <2>3 DEF Holds
  <1> QED  BY <1>1, AnswerInvariant, PTL

\* Without faults a request gets one series at most, and every further one costs
\* a fault.
THEOREM SeriesCostFaults ==
  ASSUME Serial, OneWorker, OriginHead
  PROVE  Spec => []OneSeriesPerRequest
  <1>1. AnswerInv => OneSeriesPerRequest
    <2> SUFFICES ASSUME AnswerInv, NEW r \in Requests PROVE Cardinality(Made(r)) <= 1 + faults
      BY DEF OneSeriesPerRequest, Made
    <2>1. Cardinality(Made(r)) \in Nat /\ faults \in Nat
      BY MadeFinite, IntakeAssumption DEF AnswerInv, FileInv, TypeInv, Processes
    <2> QED  BY <2>1 DEF AnswerInv, Counted
  <1> QED  BY <1>1, AnswerInvariant, PTL
=============================================================================
