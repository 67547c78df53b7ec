------------------------ MODULE PrecedentStore_proofs ------------------------
(***************************************************************************)
(* Proofs about PrecedentStore, for any workers, processes, terms, windows *)
(* and limits; and, in the second part, about the calls of a carrier by    *)
(* which a build, like every other judging stage, asks a model (Carrier).  *)
(*                                                                         *)
(* The rate.  That the ledger has no more than Limit entries says nothing  *)
(* of a worker that is about to write it.  What is inductive is that only  *)
(* the holder of the lock counts or writes (Locked), that what it is about *)
(* to write is still the ledger with one search more (Copied), and that    *)
(* the ledger has lost none of the searches granted.  Time may pass at any *)
(* of these points: it takes the same from the ledger, from the copy and   *)
(* from the history.                                                       *)
(*                                                                         *)
(* The carrier.  A property of the attempts of a call compares each with   *)
(* those before it; what makes it inductive is that the loop's variables   *)
(* agree with the attempts made: the session that would be resumed is the  *)
(* one named last (SessionKept), and what is waited for, and from when, is *)
(* what the last attempt calls for (ResetsMet).  That an announced time of *)
(* day is read as the instant that was meant is arithmetic of days         *)
(* (Midnights, AnnouncementRead).                                          *)
(***************************************************************************)
EXTENDS PrecedentStore, Carrier, FiniteSetTheorems, SequenceTheorems, TLAPS

\* The positions of a sequence are as many as its length.
LEMMA IntervalSize ==
  ASSUME NEW n \in Nat
  PROVE  IsFiniteSet(1..n) /\ Cardinality(1..n) = n
  <1>1. /\ IsFiniteSet(1..n)
        /\ Cardinality(1..n) = IF 1 > n THEN 0 ELSE n - 1 + 1
    BY FS_Interval
  <1>2. (IF 1 > n THEN 0 ELSE n - 1 + 1) = n  OBVIOUS
  <1> QED  BY <1>1, <1>2

\* Expired searches are dropped, so there are never more after a tick.
LEMMA AgedShorter ==
  ASSUME NEW s \in Seq(Nat)
  PROVE  Aged(s) \in Seq(Nat) /\ Len(Aged(s)) \in Nat /\ Len(Aged(s)) <= Len(s)
  <1> DEFINE gone == {i \in DOMAIN s : s[i] + 1 >= Window}
             c == Cardinality(gone)
  <1>1. Len(s) \in Nat /\ DOMAIN s = 1..Len(s)  OBVIOUS
  <1>2. c \in Nat /\ c <= Len(s)
    <2>1. IsFiniteSet(1..Len(s)) /\ Cardinality(1..Len(s)) = Len(s)
      <3>1. Len(s) \in Nat  BY <1>1
      <3> QED  BY <3>1, IntervalSize, Zenon
    <2>2. gone \subseteq 1..Len(s)  BY <1>1
    <2> HIDE DEF gone
    <2>3. IsFiniteSet(gone) /\ Cardinality(gone) <= Cardinality(1..Len(s))
      BY <2>1, <2>2, FS_Subset
    <2>4. Cardinality(gone) \in Nat  BY <2>3, FS_CardinalityType
    <2> QED  BY <2>1, <2>3, <2>4
  <1>3. Aged(s) = [i \in 1..(Len(s) - c) |-> s[i + c] + 1]  BY DEF Aged
  <1> HIDE DEF c
  <1>4. Len(s) - c \in Nat /\ Len(s) - c <= Len(s)  BY <1>1, <1>2
  <1>5. \A i \in 1..(Len(s) - c) : s[i + c] + 1 \in Nat
    <2> SUFFICES ASSUME NEW i \in 1..(Len(s) - c) PROVE s[i + c] + 1 \in Nat
      OBVIOUS
    <2>1. i + c \in 1..Len(s)  BY <1>1, <1>2
    <2>2. s[i + c] \in Nat  BY <2>1
    <2> QED  BY <2>2
  <1> QED  BY <1>3, <1>4, <1>5

-----------------------------------------------------------------------------
(* Types. *)

\* What a worker goes on with.
LEMMA GoesTyped ==
  ASSUME NEW w \in Workers, NEW record \in Job, job \in [Workers -> Job], Goes(w, record)
  PROVE  /\ job' \in [Workers -> Job] /\ job'[w] = record
         /\ \A v \in Workers : v # w => job'[v] = job[v]
  BY DEF Goes

LEMMA RestTyped == Rest \in Job /\ Rest.at = "rest"
  BY DEF Rest, Job, Places, Terms

LEMMA SearchedTyped ==
  ASSUME NEW w \in Workers, NEW S \in SUBSET Candidates, job[w] \in Job
  PROVE  Searched(w, S) \in Job /\ Searched(w, S).at \in {"insert", "cached"}
  BY DEF Searched, Job, Places, Accesses

\* Steps that change no row, and where they take their worker.
Apart == {"rest", "lock", "search"} \cup Accesses   \* places without the lock
LEMMA LooksTyped ==
  ASSUME TypeOK, NEW w \in Workers,
         Start(w) \/ Look(w) \/ Create(w) \/ CreateFails(w) \/ Lookup(w) \/ Recent(w)
           \/ CacheRead(w) \/ LockTimesOut(w) \/ Search(w) \/ CacheWrite(w) \/ Busy(w)
  PROVE  /\ \E record \in Job : record.at \in Apart /\ Goes(w, record)
         /\ UNCHANGED <<research, active, rate>>
         /\ store' \subseteq Tables /\ cache' \subseteq Terms \X Kinds
  <1> USE RestTyped, SearchedTyped
  <1>0. job[w] \in Job  BY DEF TypeOK
  <1>1. CASE Start(w)
    <2>1. PICK k \in Keys, kinds \in Requests, at \in {"lookup", "recent"} :
            Goes(w, [Rest EXCEPT !.at = at, !.key = k, !.kinds = kinds])
      BY <1>1 DEF Start
    <2>2. kinds \in SUBSET Kinds  BY PrecedentStoreAssumption
    <2>3. [Rest EXCEPT !.at = at, !.key = k, !.kinds = kinds] \in Job
      BY <2>2 DEF Rest, Job, Places, Accesses, Terms
    <2>4. [Rest EXCEPT !.at = at, !.key = k, !.kinds = kinds].at \in Apart
      BY DEF Rest, Apart, Accesses
    <2> QED  BY <1>1, <2>1, <2>3, <2>4 DEF Start, rows, TypeOK
  <1>2. CASE Look(w)
    BY <1>0, <1>2 DEF Look, TypeOK, rows, Job, Tables, Apart
  <1>3. CASE Create(w)
    <2>1. Missing(w) \in Tables  BY DEF Missing, Tables
    <2>2. job[w].at \in Apart  BY <1>3 DEF Create, Apart
    <2> QED  BY <1>0, <1>3, <2>1, <2>2 DEF Create, TypeOK, rows, Job
  <1>4. CASE CreateFails(w)
    <2>1. CASE job[w].at = "cached"
      <3>1. [job[w] EXCEPT !.at = "lock", !.seen = {}] \in Job  BY <1>0 DEF Job, Places
      <3>2. [job[w] EXCEPT !.at = "lock", !.seen = {}].at \in Apart  BY <1>0 DEF Job, Apart
      <3> QED  BY <1>4, <2>1, <3>1, <3>2 DEF CreateFails, rows, TypeOK
    <2>2. CASE job[w].at = "keep"
      <3>1. Searched(w, {}).at \in Apart  BY <1>0 DEF Apart, Accesses
      <3> QED  BY <1>0, <1>4, <2>2, <3>1 DEF CreateFails, rows, TypeOK
    <2>3. CASE job[w].at \notin {"cached", "keep"}
      <3>1. Goes(w, Rest)  BY <1>4, <2>3 DEF CreateFails, Failed
      <3> QED  BY <1>4, <3>1 DEF CreateFails, Apart, rows, TypeOK
    <2> QED  BY <2>1, <2>2, <2>3
  <1>5. CASE Lookup(w)
    <2>1. [job[w] EXCEPT !.at = "recent", !.seen = {}] \in Job  BY <1>0 DEF Job, Places, Accesses
    <2>2. [job[w] EXCEPT !.at = "recent", !.seen = {}].at \in Apart  BY <1>0 DEF Job, Apart, Accesses
    <2>3. Rest.at \in Apart  BY DEF Apart
    <2> QED  BY <1>5, <2>1, <2>2, <2>3 DEF Lookup, rows, TypeOK
  <1>6. CASE Recent(w)
    <2> DEFINE on == [job[w] EXCEPT !.at = "cached", !.left = job[w].kinds, !.seen = {}]
    <2>1. on \in Job /\ on.at \in Apart  BY <1>0 DEF Job, Places, Apart, Accesses
    <2>2. Rest.at \in Apart  BY DEF Apart
    <2> QED  BY <1>6, <2>1, <2>2 DEF Recent, rows, TypeOK
  <1>7. CASE CacheRead(w)
    <2> DEFINE on == [job[w] EXCEPT !.at = "lock", !.seen = {}]
    <2>1. on \in Job /\ on.at \in Apart  BY <1>0 DEF Job, Places, Apart
    <2>2. \A S \in SUBSET Candidates : Searched(w, S) \in Job /\ Searched(w, S).at \in Apart
      BY <1>0 DEF Apart, Accesses
    <2> QED  BY <1>7, <2>1, <2>2 DEF CacheRead, rows, TypeOK
  <1>8. CASE LockTimesOut(w) \/ Busy(w)
    <2>1. Goes(w, Rest)  BY <1>8 DEF LockTimesOut, Busy, Failed
    <2> QED  BY <1>8, <2>1 DEF LockTimesOut, Busy, Apart, rows, TypeOK
  <1>9. CASE Search(w)
    <2>1. ASSUME NEW S \in SUBSET Candidates
          PROVE  LET on == [job[w] EXCEPT !.at = "keep", !.found = @ \cup S]
                 IN on \in Job /\ on.at \in Apart
      BY <1>0 DEF Job, Places, Apart, Accesses
    <2> DEFINE again == [job[w] EXCEPT !.at = "lock", !.again = TRUE]
    <2>2. again \in Job /\ again.at \in Apart  BY <1>0 DEF Job, Places, Apart
    <2>3. Searched(w, {}) \in Job /\ Searched(w, {}).at \in Apart
      BY <1>0 DEF Apart, Accesses
    <2> QED  BY <1>9, <2>1, <2>2, <2>3 DEF Search, rows, TypeOK
  <1>10. CASE CacheWrite(w)
    <2>1. Searched(w, {}) \in Job /\ Searched(w, {}).at \in Apart
      BY <1>0 DEF Apart, Accesses
    <2>2. Lane(w) \in Kinds  BY DEF Lane, Kinds
    <2>3. job[w].key \in Terms  BY <1>0 DEF Job
    <2>4. cache' \subseteq Terms \X Kinds  BY <1>10, <2>2, <2>3 DEF CacheWrite, TypeOK
    <2> QED  BY <1>10, <2>1, <2>4 DEF CacheWrite, rows, TypeOK
  <1> QED  BY <1>1, <1>2, <1>3, <1>4, <1>5, <1>6, <1>7, <1>8, <1>9, <1>10

\* The steps with the lock of the ledger, and the one that banks.
LEMMA LockTyped ==
  ASSUME TypeOK, NEW w \in Workers, Lock(w) \/ Count(w) \/ NoSlot(w)
  PROVE  TypeOK'
  <1>0. job[w] \in Job  BY DEF TypeOK
  <1>1. CASE Lock(w)
    <2>1. [job[w] EXCEPT !.at = "count"] \in Job  BY <1>0 DEF Job, Places
    <2>2. job' \in [Workers -> Job]  BY <1>1, <2>1, GoesTyped DEF Lock, TypeOK
    <2> QED  BY <1>1, <2>2 DEF Lock, TypeOK, rows
  <1>2. CASE Count(w)
    <2>0. <<0>> \in Seq(Nat)  OBVIOUS
    <2>1. [job[w] EXCEPT !.at = "grant", !.read = ledger, !.mine = <<0>>] \in Job
      BY <1>0, <2>0 DEF Job, Places, TypeOK
    <2>2. job' \in [Workers -> Job]  BY <1>2, <2>1, GoesTyped DEF Count, TypeOK
    <2> QED  BY <1>2, <2>2 DEF Count, TypeOK, rows, rate
  <1>3. CASE NoSlot(w)
    <2>1. [job[w] EXCEPT !.at = "lock"] \in Job  BY <1>0 DEF Job, Places
    <2>2. job' \in [Workers -> Job]  BY <1>3, <2>1, GoesTyped DEF NoSlot, TypeOK
    <2> QED  BY <1>3, <2>2 DEF NoSlot, TypeOK, rows
  <1> QED  BY <1>1, <1>2, <1>3

LEMMA GrantTyped ==
  ASSUME TypeOK, NEW w \in Workers, Grant(w)
  PROVE  TypeOK'
  <1>0. job[w] \in Job  BY DEF TypeOK
  <1>1. job[w].read \in Seq(Nat) /\ job[w].mine \in Seq(Nat)  BY <1>0 DEF Job
  <1>2. ledger' \in Seq(Nat) /\ granted' \in Seq(Nat)
    BY <1>1 DEF Grant, TypeOK
  <1>3. <<>> \in Seq(Nat)  OBVIOUS
  <1>4. [job[w] EXCEPT !.at = "search", !.read = <<>>, !.mine = <<>>] \in Job
    BY <1>0, <1>3 DEF Job, Places
  <1>5. job' \in [Workers -> Job]  BY <1>4, GoesTyped DEF Grant, TypeOK
  <1> QED  BY <1>2, <1>5 DEF Grant, TypeOK, rows

LEMMA InsertTyped ==
  ASSUME TypeOK, NEW w \in Workers, Insert(w)
  PROVE  TypeOK'
  <1>0. job[w] \in Job  BY DEF TypeOK
  <1>1. job' \in [Workers -> Job]  BY RestTyped, GoesTyped DEF Insert, TypeOK
  <1>2. [key |-> job[w].key, kinds |-> job[w].kinds, active |-> TRUE]
          \in [key : Terms, kinds : SUBSET Kinds, active : BOOLEAN]
    BY <1>0 DEF Job
  <1>3. active' \in [Keys \X Candidates -> Nat]  BY DEF Insert, TypeOK
  <1> QED  BY <1>1, <1>2, <1>3 DEF Insert, TypeOK, rate

LEMMA TickTyped ==
  ASSUME TypeOK, Tick
  PROVE  TypeOK'
  <1>1. ledger' \in Seq(Nat) /\ granted' \in Seq(Nat)  BY AgedShorter DEF Tick, TypeOK
  <1>2. ASSUME NEW w \in Workers
        PROVE  [job[w] EXCEPT !.read = Aged(@), !.mine = Aged(@)] \in Job
    <2>1. job[w] \in Job  BY DEF TypeOK
    <2>2. Aged(job[w].read) \in Seq(Nat) /\ Aged(job[w].mine) \in Seq(Nat)
      BY <2>1, AgedShorter DEF Job
    <2> QED  BY <2>1, <2>2 DEF Job
  <1>3. job' \in [Workers -> Job]  BY <1>2 DEF Tick
  <1> QED  BY <1>1, <1>3 DEF Tick, TypeOK, rows

LEMMA DeprecateTyped ==
  ASSUME TypeOK, NEW k \in Keys, NEW whole \in BOOLEAN, Deprecate(k, whole)
  PROVE  TypeOK'
  <1>1. research' \subseteq [key : Terms, kinds : SUBSET Kinds, active : BOOLEAN]
    BY DEF Deprecate, TypeOK
  <1>2. active' \in [Keys \X Candidates -> Nat]  BY DEF Deprecate, TypeOK
  <1> QED  BY <1>1, <1>2 DEF Deprecate, TypeOK, rate

LEMMA KillTyped ==
  ASSUME TypeOK, NEW p \in Processes, Kill(p)
  PROVE  TypeOK'
  <1>1. job' \in [Workers -> Job]  BY RestTyped DEF Kill, TypeOK
  <1> QED  BY <1>1 DEF Kill, TypeOK, rows

LEMMA InitTyped == Init => TypeOK
  <1> SUFFICES ASSUME Init PROVE TypeOK
    OBVIOUS
  <1>1. <<>> \in Seq(Nat)  OBVIOUS
  <1>2. job \in [Workers -> Job]  BY RestTyped DEF Init
  <1> QED  BY <1>1, <1>2 DEF Init, TypeOK

LEMMA TypedNext == TypeOK /\ [Next]_vars => TypeOK'
  <1> SUFFICES ASSUME TypeOK, [Next]_vars PROVE TypeOK'
    OBVIOUS
  <1>1. ASSUME NEW w \in Workers, NEW record \in Job, Goes(w, record),
               UNCHANGED <<research, active, rate>>,
               store' \subseteq Tables, cache' \subseteq Terms \X Kinds
        PROVE  TypeOK'
    <2>1. job' \in [Workers -> Job]  BY <1>1, GoesTyped DEF TypeOK
    <2> QED  BY <1>1, <2>1 DEF TypeOK, rate
  <1>2. ASSUME NEW w \in Workers, Start(w) \/ Step(w)  PROVE TypeOK'
    BY <1>1, <1>2, LooksTyped, LockTyped, GrantTyped, InsertTyped DEF Step
  <1>3. CASE UNCHANGED vars  BY <1>3 DEF vars, rows, rate, TypeOK
  <1> QED  BY <1>2, <1>3, TickTyped, DeprecateTyped, KillTyped DEF Next

\* Every reachable state is well typed, whatever is killed or deprecated.
THEOREM TypeCorrect == Spec => []TypeOK
  BY InitTyped, TypedNext, PTL DEF Spec

-----------------------------------------------------------------------------
(* The rate. *)

Locked == \A w \in Workers : job[w].at \in {"count", "grant"} => holder = w
Copied ==
  \A w \in Workers : job[w].at = "grant" =>
    job[w].read = ledger /\ Len(ledger) < Limit /\ Len(job[w].mine) <= 1

RateInv == /\ TypeOK /\ granted = ledger /\ Len(ledger) <= Limit
           /\ Locked /\ Copied

\* A worker that goes elsewhere disturbs nothing.
LEMMA AsideKeepsRate ==
  ASSUME RateInv, NEW w \in Workers, NEW record \in Job, record.at \in Apart,
         Goes(w, record), UNCHANGED rate
  PROVE  (granted = ledger /\ Len(ledger) <= Limit /\ Locked /\ Copied)'
  <1>1. job'[w] = record /\ \A v \in Workers : v # w => job'[v] = job[v]
    BY GoesTyped DEF RateInv, TypeOK
  <1>2. record.at \notin {"count", "grant"}  BY DEF Apart, Accesses
  <1>3. ledger' = ledger /\ granted' = granted /\ holder' = holder  BY DEF rate
  <1>4. Locked'  BY <1>1, <1>2, <1>3 DEF RateInv, Locked
  <1>5. Copied'  BY <1>1, <1>2, <1>3 DEF RateInv, Copied
  <1> QED  BY <1>3, <1>4, <1>5 DEF RateInv

\* The lock keeps the others out while one counts and writes.
LEMMA LockKeepsRate ==
  ASSUME RateInv, NEW w \in Workers, Lock(w) \/ Count(w) \/ NoSlot(w) \/ Grant(w)
  PROVE  (granted = ledger /\ Len(ledger) <= Limit /\ Locked /\ Copied)'
  <1>0. job[w] \in Job /\ ledger \in Seq(Nat) /\ Len(ledger) \in Nat /\ Limit \in Nat
    BY PrecedentStoreAssumption DEF RateInv, TypeOK
  <1>1. CASE Lock(w)
    <2>1. \A v \in Workers : job[v].at \notin {"count", "grant"}
      BY <1>1, PrecedentStoreAssumption DEF Lock, Free, RateInv, Locked
    <2>2. \A v \in Workers : v # w => job'[v] = job[v]
      BY <1>1 DEF Lock, Goes, RateInv, TypeOK
    <2>3. job'[w].at = "count"  BY <1>0, <1>1 DEF Lock, Goes, RateInv, TypeOK, Job
    <2>4. Locked'  BY <1>1, <2>1, <2>2 DEF Lock, Locked
    <2>5. Copied'  BY <2>1, <2>2, <2>3 DEF Copied
    <2> QED  BY <1>1, <2>4, <2>5 DEF Lock, RateInv
  <1>2. CASE Count(w)
    <2>1. /\ job'[w].at = "grant" /\ job'[w].read = ledger
          /\ \A v \in Workers : v # w => job'[v] = job[v]
      BY <1>0, <1>2 DEF Count, Goes, RateInv, TypeOK, Job
    <2>2. Len(job'[w].mine) = 1
      <3>1. job'[w].mine = <<0>>  BY <1>0, <1>2 DEF Count, Goes, RateInv, TypeOK, Job
      <3>2. Len(job'[w].mine) = Len(<<0>>)  BY <3>1, Zenon
      <3>3. Len(<<0>>) = 1  OBVIOUS
      <3> QED  BY <3>2, <3>3
    <2>3. ledger' = ledger /\ granted' = granted /\ holder' = holder  BY <1>2 DEF Count, rate
    <2>4. holder = w /\ Len(ledger) < Limit  BY <1>2 DEF Count, RateInv, Locked
    <2>5. Locked'  BY <2>1, <2>3, <2>4 DEF RateInv, Locked
    <2>6. ASSUME NEW v \in Workers, job'[v].at = "grant"
          PROVE  job'[v].read = ledger' /\ Len(ledger') < Limit /\ Len(job'[v].mine) <= 1
      <3>1. CASE v = w
        <4>1. job'[v].read = ledger'  BY <2>1, <2>3, <3>1, Zenon
        <4>2. Len(ledger') = Len(ledger)  BY <2>3, Zenon
        <4>3. Len(job'[v].mine) = 1  BY <2>2, <3>1, Zenon
        <4>4. Len(ledger') < Limit  BY <2>4, <4>2
        <4>5. Len(job'[v].mine) <= 1  BY <4>3
        <4> QED  BY <4>1, <4>4, <4>5
      <3>2. CASE v # w
        <4>1. job'[v] = job[v]  BY <2>1, <3>2
        <4> QED  BY <2>3, <2>6, <4>1 DEF RateInv, Copied
      <3> QED  BY <3>1, <3>2
    <2>7. Copied'  BY <2>6 DEF Copied
    <2> QED  BY <2>3, <2>5, <2>7 DEF RateInv
  <1>3. CASE NoSlot(w)
    <2>1. job'[w].at = "lock" /\ \A v \in Workers : v # w => job'[v] = job[v]
      BY <1>0, <1>3 DEF NoSlot, Goes, RateInv, TypeOK, Job
    <2>2. \A v \in Workers : v # w => job[v].at \notin {"count", "grant"}
      BY <1>3 DEF NoSlot, RateInv, Locked
    <2>3. Locked' /\ Copied'  BY <2>1, <2>2 DEF Locked, Copied
    <2> QED  BY <1>3, <2>3 DEF NoSlot, RateInv
  <1>4. CASE Grant(w)
    <2>1. job'[w].at = "search" /\ \A v \in Workers : v # w => job'[v] = job[v]
      BY <1>0, <1>4 DEF Grant, Goes, RateInv, TypeOK, Job
    <2>2. \A v \in Workers : v # w => job[v].at \notin {"count", "grant"}
      BY <1>4 DEF Grant, RateInv, Locked
    <2>3. Locked' /\ Copied'  BY <2>1, <2>2 DEF Locked, Copied
    <2>4. /\ job[w].read = ledger /\ Len(ledger) < Limit /\ Len(job[w].mine) <= 1
          /\ granted = ledger
      BY <1>4 DEF Grant, RateInv, Copied
    <2>5. job[w].mine \in Seq(Nat) /\ Len(job[w].mine) \in Nat  BY <1>0 DEF Job
    <2>6. ledger' = ledger \o job[w].mine /\ granted' = ledger \o job[w].mine
      BY <1>4, <2>4 DEF Grant
    <2>7. Len(ledger') = Len(ledger) + Len(job[w].mine)
      <3> DEFINE mine == job[w].mine
      <3>1. mine \in Seq(Nat)  BY <2>5
      <3> HIDE DEF mine
      <3>2. Len(ledger \o mine) = Len(ledger) + Len(mine)  BY <1>0, <3>1
      <3> QED  BY <2>6, <3>2 DEF mine
    <2>8. Len(ledger') <= Limit  BY <1>0, <2>4, <2>5, <2>7
    <2> QED  BY <2>3, <2>6, <2>8
  <1> QED  BY <1>1, <1>2, <1>3, <1>4

\* A tick takes the same from the ledger, a copy of it and the history.
LEMMA TickKeepsRate ==
  ASSUME RateInv, Tick
  PROVE  (granted = ledger /\ Len(ledger) <= Limit /\ Locked /\ Copied)'
  <1>0. Len(ledger) \in Nat /\ Limit \in Nat
    BY PrecedentStoreAssumption DEF RateInv, TypeOK
  <1>1. granted' = ledger'  BY DEF Tick, RateInv
  <1>2. Len(ledger') \in Nat /\ Len(ledger') <= Len(ledger)
    BY AgedShorter DEF Tick, RateInv, TypeOK
  <1>3. Len(ledger') <= Limit  BY <1>0, <1>2 DEF RateInv
  <1>4. ASSUME NEW w \in Workers
        PROVE  /\ job'[w].at = job[w].at /\ job'[w].read = Aged(job[w].read)
               /\ job'[w].mine = Aged(job[w].mine) /\ job[w].mine \in Seq(Nat)
    BY DEF Tick, RateInv, TypeOK, Job
  <1>5. Locked'  BY <1>4 DEF Tick, RateInv, Locked
  <1>6. Copied'
    <2> SUFFICES ASSUME NEW w \in Workers, job'[w].at = "grant"
                 PROVE  job'[w].read = ledger' /\ Len(ledger') < Limit /\ Len(job'[w].mine) <= 1
      BY DEF Copied
    <2>1. job[w].read = ledger /\ Len(ledger) < Limit /\ Len(job[w].mine) <= 1
      BY <1>4 DEF RateInv, Copied
    <2>2. job'[w].read = ledger'  BY <1>4, <2>1 DEF Tick
    <2>3. Len(ledger') < Limit  BY <1>0, <1>2, <2>1
    <2>4. /\ Len(job[w].mine) \in Nat /\ Len(job'[w].mine) \in Nat
          /\ Len(job'[w].mine) <= Len(job[w].mine)
      BY <1>4, AgedShorter
    <2>5. Len(job'[w].mine) <= 1  BY <2>1, <2>4
    <2> QED  BY <2>2, <2>3, <2>5
  <1> QED  BY <1>1, <1>3, <1>5, <1>6

\* A killed holder gives the lock back and leaves the ledger as it was.
LEMMA KillKeepsRate ==
  ASSUME RateInv, NEW p \in Processes, Kill(p)
  PROVE  (granted = ledger /\ Len(ledger) <= Limit /\ Locked /\ Copied)'
  <1> DEFINE its == {w \in Workers : ProcessOf[w] = p}
  <1>1. \A w \in Workers : job'[w] = IF w \in its THEN Rest ELSE job[w]  BY DEF Kill
  <1>2. Locked'  BY <1>1, RestTyped DEF Kill, RateInv, Locked
  <1>3. Copied'  BY <1>1, RestTyped DEF Kill, RateInv, Copied
  <1> QED  BY <1>2, <1>3 DEF Kill, RateInv

LEMMA RateInvInit == Init => RateInv
  <1> SUFFICES ASSUME Init PROVE RateInv
    OBVIOUS
  <1>1. \A w \in Workers : job[w].at = "rest"  BY RestTyped DEF Init
  <1>2. Len(ledger) = 0 /\ granted = ledger  BY DEF Init
  <1>3. Len(ledger) <= Limit  BY <1>2, PrecedentStoreAssumption
  <1> QED  BY <1>1, <1>2, <1>3, InitTyped DEF RateInv, Locked, Copied

LEMMA RateInvNext == RateInv /\ [Next]_vars => RateInv'
  <1> SUFFICES ASSUME RateInv, [Next]_vars PROVE RateInv'
    OBVIOUS
  <1>0. TypeOK /\ TypeOK'  BY TypedNext DEF RateInv
  <1>1. ASSUME NEW w \in Workers, Start(w) \/ Step(w)
        PROVE  (granted = ledger /\ Len(ledger) <= Limit /\ Locked /\ Copied)'
    <2>1. CASE Lock(w) \/ Count(w) \/ NoSlot(w) \/ Grant(w)  BY <2>1, LockKeepsRate
    <2>2. CASE Insert(w)
      <3>1. Rest.at \in Apart  BY RestTyped DEF Apart
      <3> QED  BY <2>2, <3>1, RestTyped, AsideKeepsRate DEF Insert
    <2>3. CASE Start(w) \/ Look(w) \/ Create(w) \/ CreateFails(w) \/ Lookup(w) \/ Recent(w)
                 \/ CacheRead(w) \/ LockTimesOut(w) \/ Search(w) \/ CacheWrite(w) \/ Busy(w)
      BY <1>0, <2>3, LooksTyped, AsideKeepsRate
    <2> QED  BY <1>1, <2>1, <2>2, <2>3 DEF Step
  <1>2. ASSUME NEW k \in Keys, NEW whole \in BOOLEAN, Deprecate(k, whole)
        PROVE  (granted = ledger /\ Len(ledger) <= Limit /\ Locked /\ Copied)'
    BY <1>2 DEF Deprecate, rate, RateInv, Locked, Copied
  <1>3. CASE UNCHANGED vars
    <2>1. UNCHANGED <<ledger, granted, holder, job>>  BY <1>3 DEF vars, rate
    <2>2. Locked' /\ Copied'  BY <2>1 DEF RateInv, Locked, Copied
    <2> QED  BY <1>0, <2>1, <2>2 DEF RateInv
  <1> QED
    BY <1>0, <1>1, <1>2, <1>3, TickKeepsRate, KillKeepsRate DEF Next, RateInv

\* No window has more searches than allowed, whatever processes share the ledger
\* and whenever they are killed.
THEOREM RateKept == Spec => []RateRespected
  <1>1. RateInv => RateRespected  BY DEF RateInv, RateRespected
  <1> QED  BY <1>1, RateInvInit, RateInvNext, PTL DEF Spec

-----------------------------------------------------------------------------
(* Candidates. *)

\* Only a transaction that has just found no active candidate adds one.
LEMMA CandidatesNext == TypeOK /\ CandidatesOnce /\ [Next]_vars => CandidatesOnce'
  <1> SUFFICES ASSUME TypeOK, CandidatesOnce, [Next]_vars PROVE CandidatesOnce'
    OBVIOUS
  <1>1. CASE UNCHANGED active  BY <1>1 DEF CandidatesOnce
  <1>2. ASSUME NEW w \in Workers, Insert(w)  PROVE CandidatesOnce'
    <2> SUFFICES ASSUME NEW k \in Keys, NEW c \in Candidates PROVE active'[<<k, c>>] <= 1
      BY DEF CandidatesOnce
    <2>1. \/ active'[<<k, c>>] = active[<<k, c>>]
          \/ active[<<k, c>>] = 0 /\ active'[<<k, c>>] = active[<<k, c>>] + 1
      BY <1>2 DEF Insert, New, TypeOK
    <2> QED  BY <2>1 DEF CandidatesOnce
  <1>3. ASSUME NEW k \in Keys, NEW whole \in BOOLEAN, Deprecate(k, whole)
        PROVE  CandidatesOnce'
    <2>1. ASSUME NEW j \in Keys, NEW c \in Candidates
          PROVE  active'[<<j, c>>] = 0 \/ active'[<<j, c>>] = active[<<j, c>>]
      BY <1>3 DEF Deprecate, TypeOK
    <2>2. ASSUME NEW j \in Keys, NEW c \in Candidates  PROVE active'[<<j, c>>] <= 1
      BY <2>1 DEF CandidatesOnce
    <2> QED  BY <2>2 DEF CandidatesOnce
  <1>4. ASSUME NEW w \in Workers, Start(w) \/ Step(w), ~Insert(w)  PROVE UNCHANGED active
    BY <1>4, LooksTyped DEF Step, Lock, Count, NoSlot, Grant, rows
  <1>5. ASSUME Tick \/ \E p \in Processes : Kill(p)  PROVE UNCHANGED active
    BY <1>5 DEF Tick, Kill, rows
  <1> QED  BY <1>1, <1>2, <1>3, <1>4, <1>5 DEF Next, vars, rows

\* However many processes bank a finding at once, one snippet of one source, it is
\* active once for its term: what is compared is what is written, in one transaction
\* (_write_entry).
THEOREM CandidatesApart == Spec => []CandidatesOnce
  <1>1. Init => CandidatesOnce  BY DEF Init, CandidatesOnce
  <1> QED  BY <1>1, InitTyped, TypedNext, CandidatesNext, PTL DEF Spec

-----------------------------------------------------------------------------
(* The carrier. *)

\* What % and \div are, in a form that arithmetic can use.
LEMMA Division ==
  ASSUME NEW d \in Nat \ {0}, NEW a \in Nat
  PROVE  /\ a \div d \in Int /\ a % d \in 0..(d - 1)
         /\ a = d * (a \div d) + (a % d)
  OBVIOUS

\* Multiples of d that lie less than d below and 2d above each other are the same or
\* neighbours.
LEMMA Quotients ==
  ASSUME NEW d \in Nat \ {0}, NEW p \in Int, NEW q \in Int,
         d * q - d * p < d + d, d * q - d * p > 0 - d
  PROVE  q = p \/ q = p + 1
  <1> DEFINE k == q - p
  <1>1. k \in Int  OBVIOUS
  <1>2. d * q - d * p = d * k  OBVIOUS
  <1>3. ASSUME k < 0  PROVE FALSE
    <2>1. k = -1 - (-1 - k) /\ -1 - k \in Nat  BY <1>1, <1>3
    <2>2. d * (-1 - k) >= 0  BY <2>1
    <2>3. d * k = (0 - d) - d * (-1 - k)  BY <1>1
    <2> QED  BY <2>2, <2>3, <1>2
  <1>4. ASSUME k > 1  PROVE FALSE
    <2>1. k - 2 \in Nat  BY <1>1, <1>4
    <2>2. d * (k - 2) >= 0  BY <2>1
    <2>3. d * k = d + d + d * (k - 2)  BY <1>1
    <2> QED  BY <2>2, <2>3, <1>2
  <1> QED  BY <1>1, <1>3, <1>4

\* Two instants less than a day apart are of one day or of two successive ones.
LEMMA Midnights ==
  ASSUME NEW d \in Nat \ {0}, NEW a \in Nat, NEW b \in Nat, a < b, b < a + d
  PROVE  \/ b - (b % d) = a - (a % d)
         \/ b - (b % d) = (a - (a % d)) + d
  <1> DEFINE p == a \div d
             q == b \div d
             x == a % d
             y == b % d
  <1>1. /\ p \in Int /\ q \in Int /\ x \in 0..(d - 1) /\ y \in 0..(d - 1)
        /\ a = d * p + x /\ b = d * q + y
    BY Division
  <1> HIDE DEF p, q, x, y
  <1>2. d * p \in Int /\ d * q \in Int  BY <1>1
  <1>3. d * q - d * p = (b - a) - (y - x)  BY <1>1, <1>2
  <1>4. d * q - d * p < d + d /\ d * q - d * p > 0 - d  BY <1>1, <1>2, <1>3
  <1>5. q = p \/ q = p + 1  BY <1>1, <1>4, Quotients
  <1>6. d * (p + 1) = d * p + d  BY <1>1
  <1>7. b - y = d * q /\ a - x = d * p  BY <1>1, <1>2
  <1>8. b - y = a - x \/ b - y = (a - x) + d  BY <1>5, <1>6, <1>7
  <1> QED  BY <1>8 DEF x, y

\* An announcement that lies ahead of the attempt, by less than a day and its
\* grace, is read as the instant that it means.
LEMMA AnnouncementRead ==
  ASSUME NEW r \in Int, NEW at \in Nat, r > at, r < at + Day - Grace
  PROVE  NotBefore(r % Day, at) = r
  <1>1. Day \in Nat \ {0} /\ Grace \in Nat /\ r \in Nat /\ Day \in Int
    BY CarrierAssumption
  <1>2. r < at + Day  BY <1>1
  <1>3. \/ r - (r % Day) = at - (at % Day)
        \/ r - (r % Day) = (at - (at % Day)) + Day
    BY <1>1, <1>2, Midnights
  <1>4. r % Day \in Int /\ at % Day \in Int  BY <1>1
  <1> DEFINE candidate == (at - (at % Day)) + (r % Day)
  <1>5. candidate = r \/ candidate = r - Day  BY <1>1, <1>3, <1>4
  <1>6. NotBefore(r % Day, at) = IF candidate > at THEN candidate
                                 ELSE IF at - candidate <= Grace THEN at + Short
                                 ELSE candidate + Day
    BY DEF NotBefore
  <1> HIDE DEF candidate
  <1> QED  BY <1>1, <1>5, <1>6

-----------------------------------------------------------------------------
Attempt == [mode : Sessions \cup {Nothing}, at : Nat, ended : Nat,
            exit : Exit \cup {Nothing}]

LEMMA Exiting ==
  ASSUME NEW now \in Nat, NEW e \in Exits(now)
  PROVE  e \in Exit /\ e # Nothing
  <1>1. e \in Exit
    <2>1. Lag \in Nat /\ Ahead \in Nat  BY CarrierAssumption
    <2>2. (now - Lag)..(now + Ahead) \subseteq Int  BY <2>1
    <2> QED  BY <2>2 DEF Exits, Exit
  <1> QED  BY <1>1, NothingAssumption

LEMMA BackoffType == ASSUME NEW n \in Int PROVE BackoffOf(n) \in Int
  BY CarrierAssumption DEF BackoffOf

LEMMA NotBeforeType ==
  ASSUME NEW t \in Int, NEW at \in Nat
  PROVE  NotBefore(t, at) \in Int
  <1>1. at % Day \in Int /\ Day \in Int /\ Short \in Int  BY CarrierAssumption
  <1> QED  BY <1>1 DEF NotBefore

\* An attempt under way is the last one and has not ended; before it comes back
\* to be waited for or answered there is an attempt, and it has ended.
Attempts ==
  /\ \A i \in 1..(Len(runs) - 1) : runs[i].exit # Nothing
  /\ pc = "running" => runs # <<>> /\ Current.exit = Nothing
  /\ pc \in {"exited", "waiting"} => runs # <<>>
  /\ pc \in {"ready", "exited", "waiting"} /\ runs # <<>> => Current.exit # Nothing

LEMMA LastIsLast == Current = runs[Len(runs)]
  BY DEF Current, Last

LEMMA CallTypes == CallInit => CallTypeOK /\ Attempts
  BY CarrierAssumption DEF CallInit, CallTypeOK, Attempts, Answers

LEMMA CallTypesStep ==
  ASSUME CallTypeOK, Attempts, [CallNext]_callVars
  PROVE  CallTypeOK' /\ Attempts'
  <1> USE DEF CallTypeOK
  <1>t. /\ runs \in Seq(Attempt) /\ Len(runs) \in Nat
        /\ \A i \in 1..Len(runs) : runs[i] \in Attempt
        /\ runs # <<>> => Len(runs) \in 1..Len(runs)
        /\ runs = <<>> <=> Len(runs) = 0
    <2>1. runs \in Seq(Attempt)  BY DEF Attempt
    <2> HIDE DEF CallTypeOK
    <2> QED  BY <2>1, EmptySeq
  <1>1. CASE Invoke
    <2> DEFINE new == [mode |-> resume, at |-> clock, ended |-> clock, exit |-> Nothing]
    <2>1. new \in Attempt /\ new.exit = Nothing  BY DEF Attempt
    <2>2. runs' = Append(runs, new)  BY <1>1 DEF Invoke
    <2> HIDE DEF new
    <2>3. /\ runs' \in Seq(Attempt) /\ Len(runs') = Len(runs) + 1
          /\ \A i \in 1..Len(runs) : runs'[i] = runs[i]
          /\ runs'[Len(runs) + 1] = new /\ runs' # <<>>
      BY <1>t, <2>1, <2>2
    <2>4. CallTypeOK'
      BY <1>1, <1>t, <2>3 DEF Invoke, Attempt
    <2>5. \A i \in 1..Len(runs) : runs[i].exit # Nothing
      BY <1>1, <1>t, LastIsLast DEF Invoke, Attempts
    <2>6. Current'.exit = Nothing
      BY <1>t, <2>1, <2>3 DEF Current, Last
    <2>7. \A i \in 1..(Len(runs') - 1) : runs'[i].exit # Nothing
      BY <1>t, <2>3, <2>5
    <2>8. pc' = "running"  BY <1>1 DEF Invoke
    <2>9. Attempts'
      BY <2>3, <2>6, <2>7, <2>8 DEF Attempts
    <2> QED  BY <2>4, <2>9
  <1>2. CASE \E d \in RunTimes : (\E e \in Exits(clock + d) : CarrierExits(d, e))
    <2>0. PICK d \in RunTimes : (\E e \in Exits(clock + d) : CarrierExits(d, e))
      BY <1>2
    <2>1. PICK e \in Exits(clock + d) : CarrierExits(d, e)
      BY <2>0
    <2>2. clock + d \in Nat  BY CarrierAssumption
    <2>3. e \in Exit /\ e # Nothing  BY <2>2, Exiting
    <2>4. runs # <<>>  BY <2>1 DEF CarrierExits, Attempts
    <2> DEFINE n == Len(runs)
               new == [runs[n] EXCEPT !.ended = clock + d, !.exit = e]
    <2>5. new \in Attempt /\ new.exit = e
      BY <1>t, <2>2, <2>3, <2>4 DEF Attempt
    <2>6. runs' = [runs EXCEPT ![n] = new]
      BY <2>1 DEF CarrierExits
    <2> HIDE DEF new
    <2>7. /\ runs' \in Seq(Attempt) /\ Len(runs') = n /\ runs'[n] = new
          /\ \A i \in 1..(n - 1) : runs'[i] = runs[i]
          /\ runs' # <<>>
      BY <1>t, <2>4, <2>5, <2>6
    <2>8. resume' \in Sessions \cup {Nothing}
      BY <2>1, <2>3 DEF CarrierExits, Exit, Last
    <2>9. CallTypeOK'
      BY <1>t, <2>1, <2>2, <2>4, <2>7, <2>8 DEF CarrierExits, Attempt
    <2>10. Attempts'
      BY <1>t, <2>1, <2>3, <2>4, <2>5, <2>7 DEF CarrierExits, Attempts, Current, Last
    <2> QED  BY <2>9, <2>10
  <1>3. CASE CannotStart
    BY <1>3 DEF CannotStart, Attempts, Current, Answers
  <1>4. CASE Completed
    BY <1>4 DEF Completed, Attempts, Current, Answers
  <1>5. CASE AwaitReset
    <2>1. runs # <<>> /\ Current \in Attempt
      BY <1>5, <1>t, LastIsLast DEF AwaitReset, Attempts
    <2>2. Current.exit \in Exit
      BY <1>5, <2>1 DEF AwaitReset, Attempts, Attempt
    <2>3. Current.exit.reset \in Int /\ Day \in Nat \ {0}
      BY <2>2, CarrierAssumption DEF Exit
    <2>4. Current.exit.reset % Day \in Int  BY <2>3
    <2>5. NotBefore(Current.exit.reset % Day, Current.at) \in Int
      BY <2>1, <2>4, NotBeforeType DEF Attempt
    <2> QED  BY <1>5, <2>5, CarrierAssumption DEF AwaitReset, Waits, Attempts, Current
  <1>6. CASE AwaitTransient
    <2>1. clock + BackoffOf(transients + 1) \in Int  BY BackoffType
    <2> QED  BY <1>6, <2>1, CarrierAssumption DEF AwaitTransient, Waits, Attempts, Current
  <1>7. CASE GiveUp
    BY <1>7 DEF GiveUp, Attempts, Current, Answers
  <1>8. CASE Wake
    BY <1>8 DEF Wake, Attempts, Current
  <1>9. CASE UNCHANGED callVars
    BY <1>9 DEF callVars, Attempts, Current
  <1> QED
    BY <1>1, <1>2, <1>3, <1>4, <1>5, <1>6, <1>7, <1>8, <1>9 DEF CallNext

-----------------------------------------------------------------------------
\* The attempts up to the j-th that named a session, and s is what the last of
\* them named, or nothing.
Named(rs, j) == {i \in 1..j : rs[i].exit # Nothing /\ rs[i].exit.ids # <<>>}
NamedLast(rs, j, s) ==
  IF Named(rs, j) = {} THEN s = Nothing
  ELSE \E i \in Named(rs, j) : /\ \A k \in Named(rs, j) : k <= i
                               /\ s = Last(rs[i].exit.ids)

\* What the next attempt would resume is what was named last: the loop carries
\* it over all the attempts that name nothing.
SessionKept == NamedLast(runs, Len(runs), resume) /\ NoSessionAbandoned

LEMMA AbandonedUnfolded ==
  /\ NoSessionAbandoned <=> (\A j \in 1..Len(runs) : NamedLast(runs, j - 1, runs[j].mode))
  /\ NoSessionAbandoned' <=> (\A j \in 1..Len(runs') : NamedLast(runs', j - 1, runs'[j].mode))
  BY DEF NoSessionAbandoned, NamedLast, Named

LEMMA SameExits ==
  ASSUME NEW rs, NEW rt, NEW j \in Int, NEW s,
         \A i \in 1..j : rs[i].exit = rt[i].exit, NamedLast(rs, j, s)
  PROVE  NamedLast(rt, j, s)
  <1>1. Named(rs, j) = Named(rt, j)  BY DEF Named
  <1>2. \A i \in Named(rs, j) : rs[i].exit = rt[i].exit  BY DEF Named
  <1> QED  BY <1>1, <1>2 DEF NamedLast

\* An attempt more: it names a session, or what was named last stays.
LEMMA OneMore ==
  ASSUME NEW rs, NEW j \in Nat, NEW s, NamedLast(rs, j, s)
  PROVE  IF rs[j + 1].exit = Nothing \/ rs[j + 1].exit.ids = <<>>
         THEN NamedLast(rs, j + 1, s)
         ELSE NamedLast(rs, j + 1, Last(rs[j + 1].exit.ids))
  <1>1. 1..(j + 1) = 1..j \cup {j + 1}  OBVIOUS
  <1>2. CASE rs[j + 1].exit = Nothing \/ rs[j + 1].exit.ids = <<>>
    <2>1. Named(rs, j + 1) = Named(rs, j)  BY <1>1, <1>2 DEF Named
    <2> QED  BY <1>2, <2>1 DEF NamedLast
  <1>3. CASE ~(rs[j + 1].exit = Nothing \/ rs[j + 1].exit.ids = <<>>)
    <2>1. j + 1 \in Named(rs, j + 1)  BY <1>1, <1>3 DEF Named
    <2>2. \A k \in Named(rs, j + 1) : k <= j + 1  BY DEF Named
    <2> QED  BY <1>3, <2>1, <2>2 DEF NamedLast
  <1> QED  BY <1>2, <1>3

LEMMA SessionKeptStep ==
  ASSUME CallTypeOK, Attempts, SessionKept, [CallNext]_callVars
  PROVE  SessionKept'
  <1> DEFINE n == Len(runs)
  <1>t. /\ runs \in Seq(Attempt) /\ n \in Nat
        /\ \A i \in 1..n : runs[i] \in Attempt
        /\ runs = <<>> <=> n = 0
    <2>1. runs \in Seq(Attempt)  BY DEF Attempt, CallTypeOK
    <2> QED  BY <2>1, EmptySeq
  <1>k. \A j \in 1..n : NamedLast(runs, j - 1, runs[j].mode)
    BY AbandonedUnfolded DEF SessionKept
  <1>1. CASE Invoke
    <2> DEFINE new == [mode |-> resume, at |-> clock, ended |-> clock, exit |-> Nothing]
    <2>1. runs' = Append(runs, new) /\ resume' = resume  BY <1>1 DEF Invoke
    <2>2. new \in Attempt /\ new.mode = resume /\ new.exit = Nothing
      BY DEF Attempt, CallTypeOK
    <2> HIDE DEF new
    <2>3. /\ Len(runs') = n + 1 /\ runs'[n + 1] = new
          /\ \A i \in 1..n : runs'[i] = runs[i]
      BY <1>t, <2>1, <2>2
    <2>4. NamedLast(runs', n, resume)
      BY <1>t, <2>3, SameExits DEF SessionKept
    <2>5. NamedLast(runs', n + 1, resume)
      BY <1>t, <2>2, <2>3, <2>4, OneMore
    <2>6. ASSUME NEW j \in 1..(n + 1)
          PROVE  NamedLast(runs', j - 1, runs'[j].mode)
      <3>1. CASE j = n + 1
        BY <1>t, <2>2, <2>3, <2>4, <3>1
      <3>2. CASE j \in 1..n
        <4>1. NamedLast(runs, j - 1, runs[j].mode)  BY <1>k, <3>2
        <4>2. \A i \in 1..(j - 1) : runs[i].exit = runs'[i].exit
          BY <1>t, <2>3, <3>2
        <4> QED  BY <1>t, <2>3, <3>2, <4>1, <4>2, SameExits
      <3> QED  BY <1>t, <3>1, <3>2
    <2> QED  BY <2>1, <2>3, <2>5, <2>6, AbandonedUnfolded DEF SessionKept
  <1>2. CASE \E d \in RunTimes : (\E e \in Exits(clock + d) : CarrierExits(d, e))
    <2>0. PICK d \in RunTimes : (\E e \in Exits(clock + d) : CarrierExits(d, e))
      BY <1>2
    <2>1. PICK e \in Exits(clock + d) : CarrierExits(d, e)
      BY <2>0
    <2>2. clock + d \in Nat  BY CarrierAssumption DEF CallTypeOK
    <2>3. e \in Exit /\ e # Nothing  BY <2>2, Exiting
    <2>4. n \in 1..n /\ runs[n].exit = Nothing /\ n - 1 \in Nat
      BY <1>t, <2>1, LastIsLast DEF CarrierExits, Attempts
    <2> DEFINE new == [runs[n] EXCEPT !.ended = clock + d, !.exit = e]
    <2>5. new \in Attempt /\ new.exit = e /\ new.mode = runs[n].mode
      BY <1>t, <2>2, <2>3, <2>4 DEF Attempt
    <2>6. runs' = [runs EXCEPT ![n] = new]
      BY <2>1 DEF CarrierExits
    <2> HIDE DEF new
    <2>7. /\ Len(runs') = n /\ runs'[n] = new
          /\ \A i \in 1..(n - 1) : runs'[i] = runs[i]
      BY <1>t, <2>4, <2>5, <2>6
    <2>8. NamedLast(runs, n - 1, resume)
      \* The attempt under way has named nothing yet.
      <3>1. Named(runs, n) = Named(runs, n - 1)
        <4>1. 1..n = 1..(n - 1) \cup {n}  BY <1>t, <2>4
        <4> QED  BY <2>4, <4>1 DEF Named
      <3> QED  BY <3>1 DEF SessionKept, NamedLast
    <2>9. NamedLast(runs', n - 1, resume)
      BY <1>t, <2>4, <2>7, <2>8, SameExits
    <2>10. NamedLast(runs', n, resume')
      <3>1. resume' = IF e.ids = <<>> THEN resume ELSE Last(e.ids)
        BY <2>1 DEF CarrierExits
      <3>2. n - 1 \in Nat /\ (n - 1) + 1 = n  BY <2>4
      <3>3. IF runs'[n].exit = Nothing \/ runs'[n].exit.ids = <<>>
            THEN NamedLast(runs', n, resume)
            ELSE NamedLast(runs', n, Last(runs'[n].exit.ids))
        BY <2>9, <3>2, OneMore
      <3> QED  BY <2>3, <2>5, <2>7, <3>1, <3>3
    <2>11. ASSUME NEW j \in 1..n
           PROVE  NamedLast(runs', j - 1, runs'[j].mode)
      <3>1. NamedLast(runs, j - 1, runs[j].mode)  BY <1>k
      <3>2. \A i \in 1..(j - 1) : runs[i].exit = runs'[i].exit
        BY <1>t, <2>7
      <3>3. runs'[j].mode = runs[j].mode  BY <1>t, <2>5, <2>7
      <3>4. j - 1 \in Int  OBVIOUS
      <3> QED  BY <3>1, <3>2, <3>3, <3>4, SameExits
    <2> QED  BY <2>7, <2>10, <2>11, AbandonedUnfolded DEF SessionKept
  <1>3. CASE UNCHANGED <<runs, resume>>
    BY <1>3 DEF SessionKept, NoSessionAbandoned
  <1> QED
    BY <1>1, <1>2, <1>3 DEF CallNext, callVars, CannotStart, Completed, AwaitReset,
                            AwaitTransient, Waits, GiveUp, Wake

-----------------------------------------------------------------------------
\* The instant an attempt that met a reset has to be followed at.
Later(a, b) == IF a > b THEN a ELSE b
Due(i) == NotBefore(runs[i].exit.reset % Day, runs[i].at)

\* From its exit to the end of the wait the loop goes by the attempt's own
\* times: its start to read the announcement, its end to wait no less.
ResetsMet ==
  /\ \A i \in 1..(Len(runs) - 1) :
       Interrupted(i, "timed_reset") => runs[i + 1].at = Later(Due(i), runs[i].ended)
  /\ pc \in {"exited", "waiting"} => clock = Current.ended
  /\ Interrupted(Len(runs), "timed_reset") =>
       /\ pc = "waiting" => target = Due(Len(runs))
       /\ pc = "ready" /\ runs # <<>> => clock = Later(Due(Len(runs)), Current.ended)

LEMMA ResetsMetStep ==
  ASSUME CallTypeOK, Attempts, ResetsMet, [CallNext]_callVars
  PROVE  ResetsMet'
  <1> DEFINE n == Len(runs)
  <1>t. /\ runs \in Seq(Attempt) /\ n \in Nat
        /\ \A i \in 1..n : runs[i] \in Attempt
        /\ runs = <<>> <=> n = 0
    <2>1. runs \in Seq(Attempt)  BY DEF Attempt, CallTypeOK
    <2> QED  BY <2>1, EmptySeq
  <1>1. CASE Invoke
    <2> DEFINE new == [mode |-> resume, at |-> clock, ended |-> clock, exit |-> Nothing]
    <2>1. runs' = Append(runs, new) /\ pc' = "running"  BY <1>1 DEF Invoke
    <2>2. new \in Attempt /\ new.at = clock /\ new.exit = Nothing
      BY DEF Attempt, CallTypeOK
    <2> HIDE DEF new
    <2>3. /\ Len(runs') = n + 1 /\ runs'[n + 1] = new
          /\ \A i \in 1..n : runs'[i] = runs[i]
      BY <1>t, <2>1, <2>2
    <2>4. ASSUME NEW i \in 1..n, Interrupted(i, "timed_reset")'
          PROVE  runs'[i + 1].at = Later(Due(i), runs[i].ended)
      <3>1. Interrupted(i, "timed_reset")  BY <2>3, <2>4 DEF Interrupted
      <3>2. CASE i = n
        <4>1. clock = Later(Due(n), runs[n].ended)
          BY <1>1, <1>t, <3>1, <3>2, LastIsLast DEF Invoke, ResetsMet
        <4> QED  BY <2>2, <2>3, <3>2, <4>1
      <3>3. CASE i \in 1..(n - 1)
        <4>1. i + 1 \in 1..n  BY <1>t, <3>3
        <4> QED  BY <2>3, <3>1, <3>3, <4>1 DEF ResetsMet
      <3> QED  BY <1>t, <3>2, <3>3
    <2>5. \A i \in 1..n : Due(i)' = Due(i)  BY <2>3 DEF Due
    <2>6. ~Interrupted(Len(runs), "timed_reset")'  BY <2>2, <2>3 DEF Interrupted
    <2>7. (n + 1) - 1 = n  BY <1>t
    <2>8. \A i \in 1..n : Interrupted(i, "timed_reset")'
             => runs'[i + 1].at = Later(Due(i)', runs'[i].ended)
      BY <2>3, <2>4, <2>5
    <2> QED  BY <2>1, <2>3, <2>6, <2>7, <2>8 DEF ResetsMet, Later
  <1>2. CASE \E d \in RunTimes : (\E e \in Exits(clock + d) : CarrierExits(d, e))
    <2>0. PICK d \in RunTimes : (\E e \in Exits(clock + d) : CarrierExits(d, e))
      BY <1>2
    <2>1. PICK e \in Exits(clock + d) : CarrierExits(d, e)
      BY <2>0
    <2>2. clock + d \in Nat  BY CarrierAssumption DEF CallTypeOK
    <2>3. e \in Exit /\ e # Nothing  BY <2>2, Exiting
    <2>4. n \in 1..n  BY <1>t, <2>1 DEF CarrierExits, Attempts
    <2> DEFINE new == [runs[n] EXCEPT !.ended = clock + d, !.exit = e]
    <2>5. new \in Attempt /\ new.ended = clock + d /\ new.at = runs[n].at
      BY <1>t, <2>2, <2>3, <2>4 DEF Attempt
    <2>6. runs' = [runs EXCEPT ![n] = new] /\ clock' = clock + d /\ pc' = "exited"
      BY <2>1 DEF CarrierExits
    <2> HIDE DEF new
    <2>7. /\ Len(runs') = n /\ runs'[n] = new
          /\ \A i \in 1..(n - 1) : runs'[i] = runs[i]
      BY <1>t, <2>4, <2>5, <2>6
    <2>8. Current'.ended = clock'  BY <2>5, <2>6, <2>7 DEF Current, Last
    <2>9. ASSUME NEW i \in 1..(n - 1), Interrupted(i, "timed_reset")'
          PROVE  runs'[i + 1].at = Later(Due(i)', runs'[i].ended)
      <3>1. Interrupted(i, "timed_reset") /\ Due(i)' = Due(i)
        BY <2>7, <2>9 DEF Interrupted, Due
      <3>2. runs[i + 1].at = Later(Due(i), runs[i].ended)
        BY <3>1 DEF ResetsMet
      <3>3. runs'[i + 1].at = runs[i + 1].at
        <4>1. i + 1 = n \/ i + 1 \in 1..(n - 1)  BY <1>t
        <4> QED  BY <2>5, <2>7, <4>1
      <3> QED  BY <2>7, <3>1, <3>2, <3>3
    <2> QED  BY <2>6, <2>7, <2>8, <2>9 DEF ResetsMet, Later
  <1>3. CASE AwaitReset
    <2>1. runs # <<>> /\ runs' = runs /\ clock' = clock /\ pc' = "waiting"
      BY <1>3 DEF AwaitReset, Waits, Attempts
    <2>2. target' = Due(n)
      BY <1>3, LastIsLast DEF AwaitReset, Waits, Due
    <2>3. clock = Current.ended  BY <1>3 DEF AwaitReset, ResetsMet
    <2> QED  BY <2>1, <2>2, <2>3 DEF ResetsMet, Current, Interrupted, Due, Later
  <1>4. CASE AwaitTransient
    <2>1. runs' = runs /\ clock' = clock /\ pc' = "waiting"
      BY <1>4 DEF AwaitTransient, Waits
    <2>2. ~Interrupted(n, "timed_reset")'
      BY <1>4, <2>1, LastIsLast DEF AwaitTransient, Interrupted
    <2>3. clock = Current.ended  BY <1>4 DEF AwaitTransient, ResetsMet
    <2> QED  BY <2>1, <2>2, <2>3 DEF ResetsMet, Current, Interrupted, Due, Later
  <1>5. CASE Wake
    <2>1. runs' = runs /\ pc' = "ready" /\ clock' = Later(target, clock)
      BY <1>5 DEF Wake, Later
    <2>2. clock = Current.ended  BY <1>5 DEF Wake, ResetsMet
    <2>3. Interrupted(n, "timed_reset") => clock' = Later(Due(n), Current.ended)
      BY <1>5, <2>1, <2>2 DEF Wake, ResetsMet
    <2> QED  BY <2>1, <2>3 DEF ResetsMet, Current, Interrupted, Due, Later
  <1>6. CASE CannotStart \/ Completed \/ GiveUp
    <2>1. runs' = runs /\ pc' = "done"
      BY <1>6 DEF CannotStart, Completed, GiveUp
    <2> QED  BY <2>1 DEF ResetsMet, Current, Interrupted, Due, Later
  <1>7. CASE UNCHANGED callVars
    BY <1>7 DEF callVars, ResetsMet, Current, Interrupted, Due, Later
  <1> QED
    BY <1>1, <1>2, <1>3, <1>4, <1>5, <1>6, <1>7 DEF CallNext

LEMMA ResetsMetMeansRetried ==
  ASSUME CallTypeOK, Attempts, ResetsMet
  PROVE  RetriesAtTheReset
  <1>1. runs \in Seq(Attempt)  BY DEF Attempt, CallTypeOK
  <1> SUFFICES ASSUME NEW i \in 1..(Len(runs) - 1), Interrupted(i, "timed_reset"),
                      runs[i].exit.reset > runs[i].at,
                      runs[i].exit.reset < runs[i].at + Day - Grace
               PROVE  runs[i + 1].at = Later(runs[i].exit.reset, runs[i].ended)
    BY DEF RetriesAtTheReset, Later
  <1>2. runs[i] \in Attempt /\ runs[i].exit \in Exit
    <2>1. i \in 1..Len(runs)  BY <1>1
    <2>2. runs[i] \in Attempt  BY <1>1, <2>1, ElementOfSeq
    <2> QED  BY <2>2 DEF Attempts, Attempt
  <1>3. runs[i].exit.reset \in Int /\ runs[i].at \in Nat
    BY <1>2 DEF Attempt, Exit
  <1>4. Due(i) = runs[i].exit.reset  BY <1>3, AnnouncementRead DEF Due
  <1> QED  BY <1>4 DEF ResetsMet

-----------------------------------------------------------------------------
\* Every wait has taken one of the two budgets, and every attempt but the first
\* follows a wait.
Budgeted ==
  Len(runs) = resets + transients + (IF pc \in {"ready", "waiting"} THEN 0 ELSE 1)

LEMMA BudgetedStep ==
  ASSUME CallTypeOK, Budgeted, [CallNext]_callVars
  PROVE  Budgeted'
  <1>t. runs \in Seq(Attempt) /\ resets \in Int /\ transients \in Int
    BY CarrierAssumption DEF Attempt, CallTypeOK
  <1>1. CASE Invoke
    <2> DEFINE new == [mode |-> resume, at |-> clock, ended |-> clock, exit |-> Nothing]
    <2>1. new \in Attempt  BY DEF Attempt, CallTypeOK
    <2>2. runs' = Append(runs, new)  BY <1>1 DEF Invoke
    <2> HIDE DEF new
    <2>3. Len(runs') = Len(runs) + 1  BY <1>t, <2>1, <2>2
    <2> QED  BY <1>1, <1>t, <2>3 DEF Invoke, Budgeted
  <1>2. CASE \E d \in RunTimes : (\E e \in Exits(clock + d) : CarrierExits(d, e))
    <2>1. Len(runs') = Len(runs)
      BY <1>2, <1>t DEF CarrierExits
    <2> QED  BY <1>2, <2>1 DEF CarrierExits, Budgeted
  <1>3. CASE AwaitReset \/ AwaitTransient
    BY <1>3, <1>t DEF AwaitReset, AwaitTransient, Waits, Budgeted
  <1>4. CASE CannotStart \/ Completed \/ GiveUp \/ Wake
    BY <1>4 DEF CannotStart, Completed, GiveUp, Wake, Budgeted
  <1>5. CASE UNCHANGED callVars
    BY <1>5 DEF callVars, Budgeted
  <1> QED
    BY <1>1, <1>2, <1>3, <1>4, <1>5 DEF CallNext

CallInv == CallTypeOK /\ Attempts /\ SessionKept /\ ResetsMet /\ Budgeted

LEMMA CallInvHolds == CallSpec => []CallInv
  <1>1. CallInit => CallInv
    <2> SUFFICES ASSUME CallInit PROVE CallInv  OBVIOUS
    <2>1. runs = <<>> /\ Len(runs) = 0 /\ pc = "ready" /\ resume = Nothing
      BY DEF CallInit
    <2>2. Named(runs, 0) = {}  BY DEF Named
    <2>3. SessionKept  BY <2>1, <2>2 DEF SessionKept, NamedLast, NoSessionAbandoned
    <2>4. ResetsMet  BY <2>1 DEF ResetsMet
    <2>5. Budgeted  BY <2>1 DEF CallInit, Budgeted
    <2> QED  BY <2>3, <2>4, <2>5, CallTypes DEF CallInv
  <1>2. CallInv /\ [CallNext]_callVars => CallInv'
    BY CallTypesStep, SessionKeptStep, ResetsMetStep, BudgetedStep DEF CallInv
  <1> QED  BY <1>1, <1>2, PTL DEF CallSpec

\* Each attempt of a call of run_json resumes the session named last before it,
\* whatever interrupts the carrier and however often (run_with_reset_retries).
THEOREM SessionsResumed == CallSpec => []NoSessionAbandoned
  <1>1. CallInv => NoSessionAbandoned  BY DEF CallInv, SessionKept
  <1> QED  BY <1>1, CallInvHolds, PTL

\* The attempt after an announced reset starts at the announced instant, or as soon
\* as the attempt has ended if that is later, over midnight and for any length of
\* a day, a grace and a retry (codex_not_before, wait_for_codex_reset).
THEOREM ResetsAwaited == CallSpec => []RetriesAtTheReset
  <1>1. CallInv => RetriesAtTheReset  BY ResetsMetMeansRetried DEF CallInv
  <1> QED  BY <1>1, CallInvHolds, PTL

\* A call makes no more attempts than its two budgets allow: one is never used for
\* the other, and none is refilled (MAX_RESET_RETRIES, MAX_TRANSIENT_RETRIES).
THEOREM AttemptsBounded == CallSpec => [](Len(runs) <= MaxResets + MaxTransients + 1)
  <1>1. CallInv => Len(runs) <= MaxResets + MaxTransients + 1
    BY CarrierAssumption DEF CallInv, CallTypeOK, Budgeted
  <1> QED  BY <1>1, CallInvHolds, PTL
=============================================================================
