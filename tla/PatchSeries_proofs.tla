------------------------- MODULE PatchSeries_proofs -------------------------
(***************************************************************************)
(* Proofs about the life of a patch series: about PatchSeries, for any     *)
(* series, reports and cap on the rounds, and about Approach, for any      *)
(* defects, attempts, kinds, patterns, candidates and number of reforms.   *)
(*                                                                         *)
(* Reviewing.  A history is Turning when reviews and revisions take turns  *)
(* on it; its newest marker then says whose turn it is, and a commit that  *)
(* comes at its turn with its number keeps it so (TurningAppend).  That    *)
(* the one worker comes at its turn is what AtWork says: what it selected  *)
(* and read is still so when it commits, many steps later, because nobody  *)
(* else writes to a series that is not accepted.  An acceptance stays the  *)
(* newest marker here, and only accepted series get reports.               *)
(*                                                                         *)
(* Forming.  What is inductive says where the caller is (Ordered), what it *)
(* will return (Settled), and how far its two lanes have come (Laned):     *)
(* that whoever is past the join has the design precedents is why the      *)
(* failure of a step never hides theirs, and that a background build needs *)
(* them is why a result without a drain leaves none behind.                *)
(*                                                                         *)
(* Revising.  A commit takes the tree that was prepared, the gate judges   *)
(* one that a reconciliation may have changed since: both have the same    *)
(* items (RevInv).  The decision is formed last, over the evaluations of   *)
(* the tree on the branch and the candidates of the work, and no step      *)
(* changes either of them afterwards (Basis).                              *)
(***************************************************************************)
EXTENDS PatchSeries, Approach, SequenceTheorems, FiniteSetTheorems,
        WellFoundedInduction, TLAPS

-----------------------------------------------------------------------------
(* The helpers. *)

\* A set of naturals that is not empty has a least element ...
LEMMA LeastExists ==
  ASSUME NEW S \in SUBSET Nat, S # {}
  PROVE  Min(S) \in S /\ \A y \in S : Min(S) <= y
  <1> DEFINE R == OpToRel(<, Nat)
  <1>1. PICK x \in S : \A y \in S : ~ (<<y, x>> \in R)
    <2>1. IsWellFoundedOn(R, Nat)  BY NatLessThanWellFounded
    <2> HIDE DEF R
    <2> QED  BY <2>1, WFMin
  <1>2. \A y \in S : x <= y
    <2> SUFFICES ASSUME NEW y \in S PROVE x <= y
      OBVIOUS
    <2>1. <<y, x>> \notin R  BY <1>1
    <2>2. ~ (y < x)  BY <2>1 DEF OpToRel
    <2> QED  BY <2>2
  <1> QED  BY <1>2 DEF Min

\* ... and, if it is bounded, a greatest one.
LEMMA GreatestExists ==
  ASSUME NEW S \in SUBSET Nat, S # {}, NEW n \in Nat, \A x \in S : x <= n
  PROVE  Max(S) \in S /\ \A y \in S : y <= Max(S)
  <1> DEFINE U == {u \in Nat : \A x \in S : x <= u}
             u == Min(U)
  <1>1. u \in U /\ \A v \in U : u <= v  BY LeastExists
  <1>2. u \in S
    <2> SUFFICES ASSUME u \notin S PROVE FALSE  OBVIOUS
    <2> HIDE DEF u
    <2>1. \A x \in S : x <= u /\ x # u  BY <1>1
    <2>0. u \in Nat /\ S \subseteq Nat  BY <1>1
    <2>2. u \in Nat /\ S \subseteq Nat /\ \E x \in S : x < u
      <3>1. PICK x \in S : TRUE  OBVIOUS
      <3>2. x \in Nat /\ x <= u /\ x # u  BY <2>0, <2>1, <3>1
      <3>3. x < u  BY <2>0, <3>2
      <3> QED  BY <2>0, <3>3
    <2>3. u - 1 \in Nat /\ \A x \in S : x <= u - 1  BY <2>1, <2>2
    <2>4. u - 1 \in U /\ ~(u <= u - 1)  BY <2>2, <2>3
    <2> QED  BY <1>1, <2>4
  <1> HIDE DEF u
  <1>3. \E x \in S : \A y \in S : x >= y  BY <1>1, <1>2
  <1>4. \A y \in S : Max(S) >= y /\ Max(S) \in S  BY <1>3 DEF Max
  <1> QED  BY <1>4

-----------------------------------------------------------------------------
(* Histories and what is counted in them. *)

Commits == [for : Series, subject : Subjects, number : Nat]

Reviews(h)   == Cardinality(Reviewed(h, Len(h)))
Revisions(h) == Cardinality(Revised(h, Len(h)))
Markers      == Verdicts \cup {"v"}

LEMMA AppendedIs ==
  ASSUME NEW h \in History, NEW e \in Commits
  PROVE  /\ Append(h, e) \in History
         /\ Len(h) \in Nat /\ Len(Append(h, e)) = Len(h) + 1
         /\ DOMAIN h = 1..Len(h)
         /\ DOMAIN Append(h, e) = 1..(Len(h) + 1)
         /\ \A k \in 1..Len(h) : Append(h, e)[k] = h[k]
         /\ Append(h, e)[Len(h) + 1] = e
  BY DEF History, Commits

LEMMA CountedAre ==
  ASSUME NEW h, NEW k \in Nat
  PROVE  /\ IsFiniteSet(Reviewed(h, k)) /\ IsFiniteSet(Revised(h, k))
         /\ Cardinality(Reviewed(h, k)) \in Nat /\ Cardinality(Revised(h, k)) \in Nat
  <1>1. IsFiniteSet(1..k)  BY FS_Interval
  <1>2. Reviewed(h, k) \in SUBSET (1..k) /\ Revised(h, k) \in SUBSET (1..k)
    BY DEF Reviewed, Revised
  <1>3. IsFiniteSet(Reviewed(h, k)) /\ IsFiniteSet(Revised(h, k))
    BY <1>1, <1>2, FS_Subset
  <1> QED  BY <1>3, FS_CardinalityType

\* Nothing that is appended changes what was counted before it ...
LEMMA CountedBefore ==
  ASSUME NEW h \in History, NEW e \in Commits, NEW k \in 0..Len(h)
  PROVE  /\ Reviewed(Append(h, e), k) = Reviewed(h, k)
         /\ Revised(Append(h, e), k) = Revised(h, k)
  <1>1. \A j \in 1..k : Append(h, e)[j] = h[j]
    BY AppendedIs
  <1> QED  BY <1>1 DEF Reviewed, Revised

\* ... and counts at most for one.
LEMMA CountedWith ==
  ASSUME NEW h \in History, NEW e \in Commits
  PROVE  /\ Reviews(Append(h, e)) = IF e.subject \in Verdicts THEN Reviews(h) + 1 ELSE Reviews(h)
         /\ Revisions(Append(h, e)) = IF e.subject = "v" THEN Revisions(h) + 1 ELSE Revisions(h)
         /\ Reviews(h) \in Nat /\ Revisions(h) \in Nat
  <1> DEFINE n == Len(h)
             g == Append(h, e)
  <1>1. n \in Nat /\ Len(g) = n + 1 /\ g[n + 1] = e /\ \A k \in 1..n : g[k] = h[k]
    BY AppendedIs
  <1> HIDE DEF n, g
  <1>2. /\ IsFiniteSet(Reviewed(h, n)) /\ IsFiniteSet(Revised(h, n))
        /\ Cardinality(Reviewed(h, n)) \in Nat /\ Cardinality(Revised(h, n)) \in Nat
    BY <1>1, CountedAre
  <1>3. n + 1 \notin Reviewed(h, n) /\ n + 1 \notin Revised(h, n)
    BY <1>1 DEF Reviewed, Revised
  <1>4. Reviewed(g, n + 1) = IF e.subject \in Verdicts THEN Reviewed(h, n) \cup {n + 1} ELSE Reviewed(h, n)
    BY <1>1 DEF Reviewed
  <1>5. Revised(g, n + 1) = IF e.subject = "v" THEN Revised(h, n) \cup {n + 1} ELSE Revised(h, n)
    BY <1>1 DEF Revised
  <1>6. /\ Cardinality(Reviewed(h, n) \cup {n + 1}) = Cardinality(Reviewed(h, n)) + 1
        /\ Cardinality(Revised(h, n) \cup {n + 1}) = Cardinality(Revised(h, n)) + 1
    BY <1>2, <1>3, FS_AddElement
  <1> QED  BY <1>1, <1>2, <1>4, <1>5, <1>6 DEF Reviews, Revisions, n, g

LEMMA NothingCounted ==
  Reviews(<<>>) = 0 /\ Revisions(<<>>) = 0 /\ <<>> \in History /\ LastMarker(<<>>) = "none"
  <1>1. Reviewed(<<>>, 0) = {} /\ Revised(<<>>, 0) = {}  BY DEF Reviewed, Revised
  <1>2. Len(<<>>) = 0 /\ DOMAIN <<>> = {} /\ <<>> \in History  BY DEF History
  <1> QED  BY <1>1, <1>2, FS_EmptySet DEF Reviews, Revisions, LastMarker

\* The newest marker.
LEMMA NewestMarker ==
  ASSUME NEW h \in History, NEW e \in Commits
  PROVE  LastMarker(Append(h, e)) = IF e.subject \in Markers THEN e.subject ELSE LastMarker(h)
  <1> DEFINE n == Len(h)
             g == Append(h, e)
             old == {k \in DOMAIN h : h[k].subject \in Markers}
             new == {k \in DOMAIN g : g[k].subject \in Markers}
  <1>1. /\ n \in Nat /\ DOMAIN h = 1..n /\ DOMAIN g = 1..(n + 1)
        /\ g[n + 1] = e /\ \A k \in 1..n : g[k] = h[k]
    BY AppendedIs
  <1>2. /\ LastMarker(h) = IF old = {} THEN "none" ELSE h[Max(old)].subject
        /\ LastMarker(g) = IF new = {} THEN "none" ELSE g[Max(new)].subject
    BY DEF LastMarker, Markers
  <1> HIDE DEF n, g
  <1>3. new = IF e.subject \in Markers THEN old \cup {n + 1} ELSE old
    BY <1>1
  <1>4. old \subseteq 1..n  BY <1>1
  <1> HIDE DEF old, new
  <1>5. CASE e.subject \in Markers
    <2>1. new \in SUBSET Nat /\ new # {} /\ n + 1 \in new /\ \A k \in new : k <= n + 1
      BY <1>1, <1>3, <1>4, <1>5
    <2>2. Max(new) \in new /\ \A k \in new : k <= Max(new)
      <3>1. n + 1 \in Nat  BY <1>1
      <3> QED  BY <2>1, <3>1, GreatestExists
    <2>3. Max(new) = n + 1
      <3>1. Max(new) \in Nat /\ Max(new) <= n + 1 /\ n + 1 <= Max(new)  BY <2>1, <2>2
      <3> QED  BY <1>1, <3>1
    <2> QED  BY <1>1, <1>2, <1>5, <2>1, <2>3 DEF g
  <1>6. CASE e.subject \notin Markers /\ old # {}
    <2>1. Max(old) \in old
      <3>1. old \in SUBSET Nat /\ \A k \in old : k <= n  BY <1>1, <1>4
      <3> QED  BY <1>1, <1>6, <3>1, GreatestExists
    <2> QED  BY <1>1, <1>2, <1>3, <1>4, <1>6, <2>1 DEF g
  <1>7. CASE e.subject \notin Markers /\ old = {}
    BY <1>2, <1>3, <1>7 DEF g
  <1> QED  BY <1>5, <1>6, <1>7

LEMMA AppendedExtends ==
  ASSUME NEW h \in History, NEW e \in Commits
  PROVE  /\ IsPrefix(h, Append(h, e)) /\ IsStrictPrefix(h, Append(h, e))
         /\ \A g \in History : IsStrictPrefix(g, h) => IsStrictPrefix(g, Append(h, e))
  <1> DEFINE n == Len(h)
             f == Append(h, e)
  <1>1. /\ n \in Nat /\ Len(f) = n + 1 /\ \A k \in 1..n : f[k] = h[k]
    BY AppendedIs
  <1> HIDE DEF n, f
  <1>2. \A m \in 0..n : SubSeq(f, 1, m) = SubSeq(h, 1, m)
    <2> SUFFICES ASSUME NEW m \in 0..n PROVE SubSeq(f, 1, m) = SubSeq(h, 1, m)
      OBVIOUS
    <2>1. \A i \in 1..m : f[i] = h[i]  BY <1>1
    <2>2. SubSeq(f, 1, m) = [i \in 1..(1 + m - 1) |-> f[i + 1 - 1]]
          /\ SubSeq(h, 1, m) = [i \in 1..(1 + m - 1) |-> h[i + 1 - 1]]
      OBVIOUS
    <2> QED  BY <1>1, <2>1
  <1>3. SubSeq(h, 1, n) = h  BY SubSeqFull DEF History, n
  <1>4. IsPrefix(h, f)  BY <1>1, <1>2, <1>3 DEF IsPrefix, n
  <1>5. f # h  BY <1>1 DEF n
  <1>6. ASSUME NEW g \in History, IsStrictPrefix(g, h)  PROVE IsStrictPrefix(g, f)
    <2>1. Len(g) \in 0..n /\ SubSeq(g, 1, Len(g)) = SubSeq(h, 1, Len(g))
      BY <1>1, <1>6 DEF IsStrictPrefix, IsPrefix, History, n
    <2>2. SubSeq(g, 1, Len(g)) = SubSeq(f, 1, Len(g)) /\ Len(g) <= Len(f) /\ g # f
      BY <1>1, <1>2, <2>1
    <2> QED  BY <2>2 DEF IsStrictPrefix, IsPrefix
  <1> QED  BY <1>4, <1>5, <1>6 DEF IsStrictPrefix, f

-----------------------------------------------------------------------------
(* What holds of every history and of its round records. *)

Accepted(h) == \E k \in DOMAIN h : h[k].subject = "direction-ok"

\* Neither accepted nor refused.
Undecided(h) ==
  LastMarker(h) # "direction-ok" /\ \A k \in DOMAIN h : h[k].subject # "nak"

\* Reviews and revisions have taken turns, and the newest marker says whose turn it
\* is; an acceptance is the newest marker.
Turning(h) ==
  /\ \A k \in DOMAIN h :
       LET reviews == Cardinality(Reviewed(h, k - 1))
           revisions == Cardinality(Revised(h, k - 1)) IN
       /\ h[k].subject \in Verdicts => reviews = revisions
       /\ h[k].subject = "v" => reviews = revisions + 1
       /\ h[k].subject \in {"needs-revision", "v"} => h[k].number = reviews + 1
  /\ LastMarker(h) \in Markers \cup {"none"}
  /\ LastMarker(h) \in Verdicts => Reviews(h) = Revisions(h) + 1
  /\ LastMarker(h) \in {"none", "v"} => Reviews(h) = Revisions(h)
  /\ Accepted(h) => LastMarker(h) = "direction-ok"

Judged(h, r) ==
  LET k == Len(r.judged) + 1 IN
  /\ IsStrictPrefix(r.judged, h)
  /\ h[k].subject = r.verdict
  /\ r.round = Cardinality(Reviewed(h, k))

\* One record for each review, numbered in their order.
Recorded(h, records) ==
  /\ {r.round : r \in records} = 1..Reviews(h)
  /\ \A r \in records : Judged(h, r)

LEMMA NewRepository ==
  Turning(<<>>) /\ Recorded(<<>>, {}) /\ ~Accepted(<<>>)
  <1>1. DOMAIN <<>> = {}  OBVIOUS
  <1>2. {r.round : r \in {}} = 1..0  OBVIOUS
  <1>3. ~Accepted(<<>>)  BY <1>1 DEF Accepted
  <1>4. Turning(<<>>)  BY <1>1, <1>3, NothingCounted DEF Turning, Verdicts
  <1> QED  BY <1>2, <1>3, <1>4, NothingCounted DEF Recorded

LEMMA AcceptanceStays ==
  ASSUME NEW h \in History, NEW e \in Commits
  PROVE  Accepted(Append(h, e)) <=> Accepted(h) \/ e.subject = "direction-ok"
  <1> DEFINE n == Len(h)
             g == Append(h, e)
  <1>1. /\ n \in Nat /\ DOMAIN h = 1..n /\ DOMAIN g = 1..(n + 1)
        /\ g[n + 1] = e /\ \A k \in 1..n : g[k] = h[k]
    BY AppendedIs
  <1> HIDE DEF n, g
  <1>2. Accepted(g) <=> Accepted(h) \/ e.subject = "direction-ok"
    BY <1>1 DEF Accepted
  <1> QED  BY <1>2 DEF g

\* A commit that comes at its turn, with its number, keeps the turns.
LEMMA TurningAppend ==
  ASSUME NEW h \in History, NEW e \in Commits, Turning(h),
         e.subject \in Verdicts => LastMarker(h) \in {"none", "v"},
         e.subject = "v" => LastMarker(h) = "needs-revision",
         e.subject \in {"needs-revision", "v"} => e.number = Reviews(h) + 1
  PROVE  Turning(Append(h, e))
  <1> DEFINE n == Len(h)
             g == Append(h, e)
  <1>1. /\ n \in Nat /\ DOMAIN h = 1..n /\ DOMAIN g = 1..(n + 1)
        /\ g[n + 1] = e /\ \A k \in 1..n : g[k] = h[k]
    BY AppendedIs
  <1>2. \A k \in 0..n : Reviewed(g, k) = Reviewed(h, k) /\ Revised(g, k) = Revised(h, k)
    BY CountedBefore
  <1>3. /\ Reviews(g) = IF e.subject \in Verdicts THEN Reviews(h) + 1 ELSE Reviews(h)
        /\ Revisions(g) = IF e.subject = "v" THEN Revisions(h) + 1 ELSE Revisions(h)
        /\ Reviews(h) \in Nat /\ Revisions(h) \in Nat
    BY CountedWith
  <1>4. LastMarker(g) = IF e.subject \in Markers THEN e.subject ELSE LastMarker(h)
    BY NewestMarker
  <1>5. Accepted(g) <=> Accepted(h) \/ e.subject = "direction-ok"
    BY AcceptanceStays
  <1>6. Reviews(h) = Cardinality(Reviewed(h, n)) /\ Revisions(h) = Cardinality(Revised(h, n))
    BY DEF Reviews, Revisions
  <1> HIDE DEF n, g
  <1>7. "v" \notin Verdicts /\ "none" \notin Markers /\ "direction-ok" \in Verdicts
        /\ "needs-revision" \in Verdicts
    BY DEF Verdicts, Markers
  <1>8. ASSUME NEW k \in DOMAIN g
        PROVE  /\ g[k].subject \in Verdicts =>
                    Cardinality(Reviewed(g, k - 1)) = Cardinality(Revised(g, k - 1))
               /\ g[k].subject = "v" =>
                    Cardinality(Reviewed(g, k - 1)) = Cardinality(Revised(g, k - 1)) + 1
               /\ g[k].subject \in {"needs-revision", "v"} =>
                    g[k].number = Cardinality(Reviewed(g, k - 1)) + 1
    <2>1. k - 1 \in 0..n  BY <1>1, <1>8
    <2>2. Reviewed(g, k - 1) = Reviewed(h, k - 1) /\ Revised(g, k - 1) = Revised(h, k - 1)
      BY <1>2, <2>1
    <2>3. CASE k = n + 1
      <3>1. k - 1 = n /\ g[k] = e  BY <1>1, <2>3
      <3>2. /\ Cardinality(Reviewed(g, k - 1)) = Reviews(h)
            /\ Cardinality(Revised(g, k - 1)) = Revisions(h)
        BY <1>6, <2>2, <3>1
      <3>3. /\ LastMarker(h) \in Verdicts => Reviews(h) = Revisions(h) + 1
            /\ LastMarker(h) \in {"none", "v"} => Reviews(h) = Revisions(h)
        BY DEF Turning
      <3> QED  BY <1>7, <3>1, <3>2, <3>3
    <2>4. CASE k # n + 1
      <3>1. k \in DOMAIN h /\ g[k] = h[k]  BY <1>1, <1>8, <2>4
      <3> QED  BY <2>2, <3>1 DEF Turning
    <2> QED  BY <2>3, <2>4
  <1>9. LastMarker(g) \in Markers \cup {"none"}
    BY <1>4 DEF Turning
  <1>10. /\ LastMarker(g) \in Verdicts => Reviews(g) = Revisions(g) + 1
         /\ LastMarker(g) \in {"none", "v"} => Reviews(g) = Revisions(g)
    <2>1. CASE e.subject \in Verdicts
      BY <1>3, <1>4, <1>7, <2>1 DEF Turning, Markers
    <2>2. CASE e.subject = "v"
      BY <1>3, <1>4, <1>7, <2>2 DEF Turning, Markers
    <2>3. CASE e.subject \notin Markers
      BY <1>3, <1>4, <1>7, <2>3 DEF Turning, Markers
    <2> QED  BY <2>1, <2>2, <2>3 DEF Markers
  <1>11. Accepted(g) => LastMarker(g) = "direction-ok"
    <2>1. CASE Accepted(h)
      <3>1. LastMarker(h) = "direction-ok"  BY <2>1 DEF Turning
      <3>2. e.subject \notin Markers  BY <3>1 DEF Markers
      <3> QED  BY <1>4, <3>1, <3>2
    <2>2. CASE e.subject = "direction-ok"  BY <1>4, <1>7, <2>2 DEF Markers
    <2> QED  BY <1>5, <2>1, <2>2
  <1> QED  BY <1>8, <1>9, <1>10, <1>11 DEF Turning, g

\* What was judged stays the parent of its verdict.
LEMMA JudgedAppend ==
  ASSUME NEW h \in History, NEW e \in Commits, NEW r \in RoundRecord, Judged(h, r)
  PROVE  Judged(Append(h, e), r)
  <1> DEFINE n == Len(h)
             g == Append(h, e)
             k == Len(r.judged) + 1
  <1>1. /\ n \in Nat /\ DOMAIN h = 1..n /\ DOMAIN g = 1..(n + 1)
        /\ \A i \in 1..n : g[i] = h[i]
    BY AppendedIs
  <1>2. r.judged \in History /\ Len(r.judged) \in Nat
    BY DEF RoundRecord, History
  <1>3. IsStrictPrefix(r.judged, h)  BY DEF Judged
  <1>4. k \in 1..n
    <2>1. Len(r.judged) <= n /\ SubSeq(r.judged, 1, Len(r.judged)) = SubSeq(h, 1, Len(r.judged))
          /\ r.judged # h
      BY <1>3 DEF IsStrictPrefix, IsPrefix
    <2>2. SubSeq(h, 1, n) = h /\ SubSeq(r.judged, 1, Len(r.judged)) = r.judged
      BY <1>2, SubSeqFull DEF History
    <2> HIDE DEF n
    <2>3. Len(r.judged) # n  BY <2>1, <2>2
    <2> QED  BY <1>1, <1>2, <2>1, <2>3
  <1>5. IsStrictPrefix(r.judged, g)  BY <1>2, <1>3, AppendedExtends
  <1>6. g[k] = h[k]  BY <1>1, <1>4
  <1>7. Reviewed(g, k) = Reviewed(h, k)
    <2>1. k \in 0..Len(h)  BY <1>1, <1>4
    <2> HIDE DEF k
    <2> QED  BY <2>1, CountedBefore
  <1> QED  BY <1>5, <1>6, <1>7 DEF Judged

LEMMA RecordedAppend ==
  ASSUME NEW h \in History, NEW e \in Commits, NEW records \in SUBSET RoundRecord,
         Recorded(h, records), e.subject \notin Verdicts
  PROVE  Recorded(Append(h, e), records)
  BY CountedWith, JudgedAppend DEF Recorded

\* The record of a verdict is written by the commit that is its marker.
LEMMA RecordedVerdict ==
  ASSUME NEW h \in History, NEW e \in Commits, NEW records \in SUBSET RoundRecord,
         Recorded(h, records), e.subject \in Verdicts,
         NEW r \in RoundRecord,
         r.round = Reviews(h) + 1, r.verdict = e.subject, r.judged = h
  PROVE  Recorded(Append(h, e), {o \in records : o.round # r.round} \cup {r})
  <1> DEFINE g == Append(h, e)
             m == Reviews(h)
             kept == {o \in records : o.round # r.round}
  <1>1. m \in Nat /\ Reviews(g) = m + 1  BY CountedWith
  <1>2. {o.round : o \in records} = 1..m  BY DEF Recorded
  <1>3. Judged(g, r)
    <2>1. IsStrictPrefix(r.judged, g)  BY AppendedExtends
    <2>2. Len(r.judged) + 1 = Len(g) /\ g[Len(h) + 1] = e  BY AppendedIs
    <2>3. r.round = Cardinality(Reviewed(g, Len(g)))  BY <1>1 DEF Reviews
    <2> HIDE DEF g
    <2> QED  BY <2>1, <2>2, <2>3 DEF Judged
  <1>4. \A o \in records : Judged(g, o)  BY JudgedAppend DEF Recorded
  <1> HIDE DEF g, m
  <1>5. r.round = m + 1  BY DEF m
  <1>6. \A o \in records : o.round \in 1..m  BY <1>2
  <1>7. kept = records  BY <1>1, <1>5, <1>6
  <1>8. {o.round : o \in records \cup {r}} = 1..(m + 1)
    <2>1. {o.round : o \in records \cup {r}} = (1..m) \cup {m + 1}  BY <1>2, <1>5
    <2>2. (1..m) \cup {m + 1} = 1..(m + 1)  BY <1>1
    <2> QED  BY <2>1, <2>2
  <1> QED  BY <1>1, <1>3, <1>4, <1>7, <1>8 DEF Recorded, g

-----------------------------------------------------------------------------
(* Every variable has its type. *)

Tasks == [kind : Verdicts \cup {"none", "review", "reform", "v"}, on : Branches,
          round : Nat, judged : History, last : BOOLEAN, seen : SUBSET Reports,
          serial : Nat, made : History]

Typed ==
  /\ log \in [Branches -> History]
  /\ rounds \in [Branches -> SUBSET RoundRecord]
  /\ reports \in [Branches -> SUBSET [id : Reports, done : BOOLEAN]]
  /\ tags \in Seq(History)
  /\ onto \in Branches
  /\ pc \in [Workers -> {"idle", "review", "reform", "checkout", "commit", "restore", "tag"}]
  /\ task \in [Workers -> Tasks]
  /\ from \in [Workers -> Branches]

\* The one worker and its task.
AtWork(w) ==
  LET t == task[w]
      h == log[task[w].on] IN
  /\ pc[w] \in {"review", "reform", "checkout", "commit"} =>
       t.on \in Series /\ h # <<>> /\ Undecided(h)
  /\ pc[w] = "commit" => onto = t.on
  /\ pc[w] = "review" \/ (pc[w] \in {"checkout", "commit"} /\ t.kind \in Verdicts) =>
       LastMarker(h) # "needs-revision" /\ t.judged = h /\ t.round = Reviews(h) + 1
  /\ pc[w] = "reform" \/ (pc[w] \in {"checkout", "commit"} /\ t.kind = "v") =>
       LastMarker(h) = "needs-revision" /\ t.seen = {} /\ t.round = Reviews(h)
  /\ pc[w] \in {"checkout", "commit"} => t.kind \in Markers

SeriesInv(s) ==
  /\ Turning(log[s])
  /\ Recorded(log[s], rounds[s])
  /\ reports[s] # {} => Accepted(log[s])

MainUntouched == log[Main] = <<>> /\ rounds[Main] = {} /\ reports[Main] = {}

PullInv ==
  /\ Typed
  /\ MainUntouched
  /\ \A s \in Series : SeriesInv(s)
  /\ \A w \in Workers : AtWork(w)

\* One worker at a time, on a clone: with several, or where the default branch is
\* taken to be whatever is checked out, the steps of one commit to the branch that
\* another has checked out, and none of this holds.
Alone == OriginHead /\ \A v, w \in Workers : v = w

LEMMA IdleIs == Idle \in Tasks
  BY NothingCounted DEF Idle, Tasks, Branches

LEMMA PullInvInit == Init => PullInv
  <1> SUFFICES ASSUME Init PROVE PullInv  OBVIOUS
  <1>1. Typed
    BY IdleIs, NothingCounted DEF Init, Typed, Branches
  <1>2. Main \in Branches /\ Series \subseteq Branches  BY DEF Branches
  <1>3. MainUntouched  BY <1>2 DEF Init, MainUntouched
  <1>4. \A s \in Series : SeriesInv(s)
    BY <1>2, NewRepository DEF Init, SeriesInv
  <1>5. \A w \in Workers : AtWork(w)
    BY DEF Init, AtWork
  <1> QED  BY <1>1, <1>3, <1>4, <1>5 DEF PullInv

\* The number of the latest round is that of the reviews.
LEMMA LatestIs ==
  ASSUME PullInv, NEW s \in Series
  PROVE  /\ NextRound(s) = Reviews(log[s]) + 1
         /\ rounds[s] # {} => LatestRound(s).round = Reviews(log[s])
         /\ Reviews(log[s]) \in Nat
  <1> DEFINE n == Reviews(log[s])
  <1>1. s \in Branches /\ log[s] \in History  BY DEF PullInv, Typed, Branches
  <1>2. n \in Nat
    <2>1. Len(log[s]) \in Nat  BY <1>1 DEF History
    <2> QED  BY <2>1, CountedAre DEF Reviews
  <1>3. {r.round : r \in rounds[s]} = 1..n  BY DEF PullInv, SeriesInv, Recorded
  <1> HIDE DEF n
  <1>4. ASSUME rounds[s] # {}  PROVE LatestRound(s).round = n
    <2>1. n \in 1..n  BY <1>2, <1>3, <1>4
    <2>2. PICK r \in rounds[s] : r.round = n  BY <1>3, <2>1
    <2>3. \A o \in rounds[s] : o.round <= r.round  BY <1>3, <2>2
    <2>4. /\ LatestRound(s) \in rounds[s]
          /\ \A o \in rounds[s] : o.round <= LatestRound(s).round
      BY <2>2, <2>3 DEF LatestRound
    <2>5. LatestRound(s).round \in 1..n /\ n <= LatestRound(s).round
      BY <1>3, <2>2, <2>4
    <2> QED  BY <1>2, <2>5
  <1>5. ASSUME rounds[s] = {}  PROVE n = 0
    <2>1. 1..n = {}  BY <1>3, <1>5
    <2> QED  BY <1>2, <2>1
  <1> QED  BY <1>2, <1>4, <1>5 DEF NextRound, n

LEMMA OpenIsUndecided ==
  ASSUME NEW h, ~Terminal(h)
  PROVE  Undecided(h)
  BY DEF Terminal, Undecided

\* The branch that is served first is one of those that wait.
LEMMA ServedWaits ==
  /\ ForAuthor # {} => Min(ForAuthor) \in ForAuthor
  /\ ForReview # {} => Min(ForReview) \in ForReview
  /\ ForAuthor \subseteq Series /\ ForReview \subseteq Series
  <1>1. ForAuthor \subseteq Series /\ ForReview \subseteq Series  BY DEF ForAuthor, ForReview
  <1> QED  BY <1>1, SeriesAssumption, LeastExists

-----------------------------------------------------------------------------
(* Steps that leave the branches alone. *)

LEMMA WorkerStepKeeps ==
  ASSUME PullInv, Alone, NEW w \in Workers, Typed', UNCHANGED <<log, rounds, reports>>,
         AtWork(w)'
  PROVE  PullInv'
  <1>1. \A v \in Workers : v = w  BY DEF Alone
  <1>2. \A v \in Workers : AtWork(v)'  BY <1>1
  <1>3. (\A s \in Series : SeriesInv(s))' /\ MainUntouched'
    BY DEF PullInv, SeriesInv, MainUntouched
  <1> QED  BY <1>2, <1>3 DEF PullInv

LEMMA StoppingKeeps ==
  ASSUME PullInv, Alone, NEW w \in Workers, Stop(w), UNCHANGED <<log, rounds, reports>>,
         onto' \in Branches, tags' \in Seq(History)
  PROVE  PullInv'
  <1>1. /\ pc' = [pc EXCEPT ![w] = "idle"] /\ task' = [task EXCEPT ![w] = Idle]
        /\ from' = [from EXCEPT ![w] = Main]
    BY DEF Stop, Goto
  <1>2. Typed'  BY <1>1, IdleIs DEF PullInv, Typed, Branches
  <1>3. pc'[w] = "idle"  BY <1>1 DEF PullInv, Typed
  <1>4. AtWork(w)'  BY <1>3 DEF AtWork
  <1> QED  BY <1>2, <1>4, WorkerStepKeeps

LEMMA ReformTask ==
  ASSUME NEW s, NEW n, NEW seen, NEW t,
         t = [Idle EXCEPT !.kind = "reform", !.on = s, !.round = n, !.seen = seen]
  PROVE  t = [kind |-> "reform", on |-> s, round |-> n, judged |-> <<>>,
              last |-> FALSE, seen |-> seen, serial |-> 0, made |-> <<>>]
  BY DEF Idle

LEMMA TakeReformKeeps ==
  ASSUME PullInv, Alone, NEW w \in Workers, TakeReform(w)
  PROVE  PullInv'
  <1> DEFINE s == Min(ForAuthor)
             t == [Idle EXCEPT !.kind = "reform", !.on = s,
                     !.round = LatestRound(s).round, !.seen = Pending(s)]
  <1>1. /\ ForAuthor # {} /\ UNCHANGED <<log, rounds, reports, tags, onto, from>>
        /\ pc' = [pc EXCEPT ![w] = "reform"] /\ task' = [task EXCEPT ![w] = t]
    BY DEF TakeReform, Goto, repoVars
  <1>2. s \in Series /\ s \in ForAuthor /\ s \in Branches
    BY <1>1, ServedWaits DEF Branches
  <1> HIDE DEF s
  <1>3. log[s] # <<>> /\ ~Terminal(log[s]) /\ rounds[s] # {}
        /\ (NeedsRevisionIsHead(log[s]) \/ Pending(s) # {})
    BY <1>2 DEF ForAuthor
  <1>4. Undecided(log[s])  BY <1>3, OpenIsUndecided
  <1>5. Pending(s) = {}
    <2>1. ~Accepted(log[s])  BY <1>2, <1>4 DEF PullInv, SeriesInv, Turning, Undecided
    <2>2. reports[s] = {}  BY <1>2, <2>1 DEF PullInv, SeriesInv
    <2> QED  BY <2>2 DEF Pending
  <1>6. LatestRound(s).round = Reviews(log[s]) /\ Reviews(log[s]) \in Nat
    BY <1>2, <1>3, LatestIs
  <1>7. t = [kind |-> "reform", on |-> s, round |-> Reviews(log[s]), judged |-> <<>>,
             last |-> FALSE, seen |-> {}, serial |-> 0, made |-> <<>>]
    BY <1>5, <1>6, ReformTask, Zenon
  <1> HIDE DEF t
  <1>8. t \in Tasks  BY <1>2, <1>6, <1>7, NothingCounted DEF Tasks
  <1>9. Typed'  BY <1>1, <1>8 DEF PullInv, Typed
  <1>10. pc'[w] = "reform" /\ task'[w] = t  BY <1>1 DEF PullInv, Typed
  <1>11. AtWork(w)'
    BY <1>1, <1>2, <1>3, <1>4, <1>5, <1>6, <1>7, <1>10 DEF AtWork, NeedsRevisionIsHead
  <1> QED  BY <1>1, <1>9, <1>11, WorkerStepKeeps

LEMMA TakeReviewKeeps ==
  ASSUME PullInv, Alone, NEW w \in Workers, TakeReview(w)
  PROVE  PullInv'
  <1> DEFINE s == Min(ForReview)
             t == [Idle EXCEPT !.kind = "review", !.on = s,
                     !.round = NextRound(s), !.judged = log[s],
                     !.last = Cardinality(rounds[s]) >= MaxRounds]
  <1>1. /\ ForReview # {} /\ UNCHANGED <<log, rounds, reports, tags, onto, from>>
        /\ pc' = [pc EXCEPT ![w] = "review"] /\ task' = [task EXCEPT ![w] = t]
    BY DEF TakeReview, Goto, repoVars
  <1>2. s \in Series /\ s \in ForReview /\ s \in Branches
    BY <1>1, ServedWaits DEF Branches
  <1>3. log[s] # <<>> /\ ~Terminal(log[s]) /\ ~NeedsRevisionIsHead(log[s])
    BY <1>2 DEF ForReview
  <1>4. Undecided(log[s]) /\ log[s] \in History
    BY <1>2, <1>3, OpenIsUndecided DEF PullInv, Typed
  <1>5. NextRound(s) = Reviews(log[s]) + 1 /\ Reviews(log[s]) \in Nat
    BY <1>2, LatestIs
  <1>6. t = [Idle EXCEPT !.kind = "review", !.on = s, !.round = NextRound(s),
                         !.judged = log[s], !.last = Cardinality(rounds[s]) >= MaxRounds]
    OBVIOUS
  <1> HIDE DEF s, t
  <1>7. NextRound(s) \in Nat  BY <1>5
  <1>8. /\ t \in Tasks
        /\ t.kind = "review" /\ t.on = s /\ t.round = NextRound(s) /\ t.judged = log[s]
    <2>1. ASSUME NEW last \in BOOLEAN,
                 t = [Idle EXCEPT !.kind = "review", !.on = s, !.round = NextRound(s),
                                  !.judged = log[s], !.last = last]
          PROVE  /\ t \in Tasks
                 /\ t.kind = "review" /\ t.on = s /\ t.round = NextRound(s)
                 /\ t.judged = log[s]
      <3>1. t = [kind |-> "review", on |-> s, round |-> NextRound(s), judged |-> log[s],
                 last |-> last, seen |-> {}, serial |-> 0, made |-> <<>>]
        BY <2>1 DEF Idle
      <3> QED  BY <1>2, <1>4, <1>7, <3>1, NothingCounted DEF Tasks
    <2>2. CASE Cardinality(rounds[s]) >= MaxRounds
      <3>1. (Cardinality(rounds[s]) >= MaxRounds) = TRUE  BY <2>2
      <3>2. t = [Idle EXCEPT !.kind = "review", !.on = s, !.round = NextRound(s),
                             !.judged = log[s], !.last = TRUE]
        BY <1>6, <3>1, Zenon
      <3> QED  BY <2>1, <3>2
    <2>3. CASE ~(Cardinality(rounds[s]) >= MaxRounds)
      <3>1. (Cardinality(rounds[s]) >= MaxRounds) = FALSE  BY <2>3
      <3>2. t = [Idle EXCEPT !.kind = "review", !.on = s, !.round = NextRound(s),
                             !.judged = log[s], !.last = FALSE]
        BY <1>6, <3>1, Zenon
      <3> QED  BY <2>1, <3>2
    <2> QED  BY <2>2, <2>3
  <1>9. Typed'  BY <1>1, <1>8 DEF PullInv, Typed
  <1>10. pc'[w] = "review" /\ task'[w] = t  BY <1>1 DEF PullInv, Typed
  <1>11. AtWork(w)'
    BY <1>1, <1>2, <1>3, <1>4, <1>5, <1>8, <1>10 DEF AtWork, NeedsRevisionIsHead
  <1> QED  BY <1>1, <1>9, <1>11, WorkerStepKeeps

\* A serial is one of the tags that exist, or none.
LEMMA SerialsAre ==
  ASSUME Typed, NEW h
  PROVE  SerialFor(h) \in Nat /\ NextSerial \in Nat
  <1> DEFINE S == {0} \cup {n \in DOMAIN tags : IsPrefix(tags[n], h)}
  <1>1. Len(tags) \in Nat /\ DOMAIN tags = 1..Len(tags)  BY DEF Typed
  <1>2. S \in SUBSET Nat /\ S # {} /\ \A n \in S : n <= Len(tags)  BY <1>1
  <1> HIDE DEF S
  <1>3. Max(S) \in S  BY <1>1, <1>2, GreatestExists
  <1>4. SerialFor(h) = Max(S)  BY DEF SerialFor, S
  <1>5. Max(S) \in Nat  BY <1>2, <1>3
  <1> QED  BY <1>1, <1>4, <1>5 DEF NextSerial

LEMMA JudgeKeeps ==
  ASSUME PullInv, Alone, NEW w \in Workers, NEW v \in Verdicts, Judge(w, v)
  PROVE  PullInv'
  <1>1. PICK verdict \in Verdicts, serial \in Nat :
          /\ pc[w] = "review" /\ pc' = [pc EXCEPT ![w] = "checkout"]
          /\ task' = [task EXCEPT ![w].kind = verdict, ![w].serial = serial]
          /\ UNCHANGED <<log, rounds, reports, tags, onto, from>>
    <2> DEFINE verdict == IF task[w].last /\ v = "needs-revision" THEN "nak" ELSE v
               known == SerialFor(log[task[w].on])
               serial == IF verdict # "direction-ok" THEN 0
                         ELSE IF known # 0 THEN known ELSE NextSerial
    <2>1. verdict \in Verdicts  BY DEF Verdicts
    <2>2. serial \in Nat  BY SerialsAre DEF PullInv
    <2> HIDE DEF known
    <2>3. /\ pc[w] = "review" /\ pc' = [pc EXCEPT ![w] = "checkout"]
          /\ task' = [task EXCEPT ![w].kind = verdict, ![w].serial = serial]
          /\ UNCHANGED <<log, rounds, reports, tags, onto, from>>
      BY DEF Judge, Goto, repoVars, known
    <2> QED  BY <2>1, <2>2, <2>3
  <1> DEFINE t == task'[w]
  <1>2. /\ t = [task[w] EXCEPT !.kind = verdict, !.serial = serial]
        /\ task[w] \in Tasks /\ pc'[w] = "checkout"
        /\ task' = [task EXCEPT ![w] = t]
    BY <1>1 DEF PullInv, Typed
  <1>3. t \in Tasks  BY <1>2 DEF Tasks
  <1>4. t.kind = verdict /\ t.on = task[w].on /\ t.round = task[w].round
        /\ t.judged = task[w].judged
    BY <1>2 DEF Tasks
  <1> HIDE DEF t
  <1>5. Typed'  BY <1>1, <1>2, <1>3 DEF PullInv, Typed
  <1>6. AtWork(w)'
    <2>1. AtWork(w) /\ "v" \notin Verdicts /\ verdict \in Markers
      BY DEF PullInv, Verdicts, Markers
    <2> QED  BY <1>1, <1>2, <1>4, <2>1 DEF AtWork, t
  <1> QED  BY <1>1, <1>5, <1>6, WorkerStepKeeps

LEMMA ReviseKeeps ==
  ASSUME PullInv, Alone, NEW w \in Workers, Revise(w)
  PROVE  PullInv'
  <1>1. /\ pc[w] = "reform" /\ pc' = [pc EXCEPT ![w] = "checkout"]
        /\ task' = [task EXCEPT ![w].kind = "v"]
        /\ UNCHANGED <<log, rounds, reports, tags, onto, from>>
    BY DEF Revise, Goto, repoVars
  <1> DEFINE t == task'[w]
  <1>2. /\ t = [task[w] EXCEPT !.kind = "v"]
        /\ task[w] \in Tasks /\ pc'[w] = "checkout"
        /\ task' = [task EXCEPT ![w] = t]
    BY <1>1 DEF PullInv, Typed
  <1>3. t \in Tasks  BY <1>2 DEF Tasks
  <1>4. t.kind = "v" /\ t.on = task[w].on /\ t.round = task[w].round /\ t.seen = task[w].seen
    BY <1>2 DEF Tasks
  <1> HIDE DEF t
  <1>5. Typed'  BY <1>1, <1>2, <1>3 DEF PullInv, Typed
  <1>6. AtWork(w)'
    <2>1. AtWork(w) /\ "v" \notin Verdicts /\ "v" \in Markers
      BY DEF PullInv, Verdicts, Markers
    <2> QED  BY <1>1, <1>2, <1>4, <2>1 DEF AtWork, t
  <1> QED  BY <1>1, <1>5, <1>6, WorkerStepKeeps

LEMMA CheckoutKeeps ==
  ASSUME PullInv, Alone, NEW w \in Workers, Checkout(w)
  PROVE  PullInv'
  <1>1. /\ pc[w] = "checkout" /\ pc' = [pc EXCEPT ![w] = "commit"]
        /\ onto' = task[w].on /\ from' = [from EXCEPT ![w] = onto]
        /\ UNCHANGED <<log, rounds, reports, tags, task>>
    BY DEF Checkout, Goto, repoVars
  <1>2. task[w].on \in Branches /\ pc'[w] = "commit"
    BY <1>1 DEF PullInv, Typed, Tasks
  <1>3. Typed'  BY <1>1, <1>2 DEF PullInv, Typed
  <1>4. AtWork(w)'  BY <1>1, <1>2 DEF PullInv, AtWork
  <1> QED  BY <1>1, <1>3, <1>4, WorkerStepKeeps

LEMMA RestoreKeeps ==
  ASSUME PullInv, Alone, NEW w \in Workers, Restore(w)
  PROVE  PullInv'
  <1>1. /\ onto' \in Branches /\ UNCHANGED <<log, rounds, reports, tags>>
    BY DEF Restore, repoVars, PullInv, Typed
  <1>2. CASE Stop(w)  BY <1>1, <1>2, StoppingKeeps DEF PullInv, Typed
  <1>3. CASE Goto(w, "tag") /\ UNCHANGED <<task, from>>
    <2>1. pc' = [pc EXCEPT ![w] = "tag"]  BY <1>3 DEF Goto
    <2>2. Typed' /\ pc'[w] = "tag"  BY <1>1, <1>3, <2>1 DEF PullInv, Typed
    <2>3. AtWork(w)'  BY <2>2 DEF AtWork
    <2> QED  BY <1>1, <2>2, <2>3, WorkerStepKeeps
  <1> QED  BY <1>2, <1>3 DEF Restore

LEMMA EndsKeep ==
  ASSUME PullInv, Alone, NEW w \in Workers, Tag(w) \/ ComeBackLater(w) \/ Crash(w)
  PROVE  PullInv'
  <1>1. Stop(w) /\ UNCHANGED <<log, rounds, reports, onto>>
    BY DEF Tag, ComeBackLater, Crash, repoVars
  <1>2. tags' \in Seq(History) /\ onto' \in Branches
    <2>1. task[w].made \in History  BY DEF PullInv, Typed, Tasks
    <2> QED  BY <2>1 DEF Tag, ComeBackLater, Crash, repoVars, PullInv, Typed
  <1> QED  BY <1>1, <1>2, StoppingKeeps

-----------------------------------------------------------------------------
(* Steps that commit. *)

\* A commit to one branch leaves the others as they are.
LEMMA CommittingKeeps ==
  ASSUME PullInv, Alone, NEW s \in Series, Typed', SeriesInv(s)',
         \A b \in Branches \ {s} : log'[b] = log[b] /\ rounds'[b] = rounds[b]
                                   /\ reports'[b] = reports[b],
         \A w \in Workers : AtWork(w)'
  PROVE  PullInv'
  <1>1. MainUntouched'
    BY SeriesAssumption DEF PullInv, MainUntouched, Branches
  <1>2. ASSUME NEW r \in Series, r # s  PROVE SeriesInv(r)'
    <2>1. log'[r] = log[r] /\ rounds'[r] = rounds[r] /\ reports'[r] = reports[r]
      BY <1>2 DEF Branches
    <2> QED  BY <2>1 DEF PullInv, SeriesInv
  <1> QED  BY <1>1, <1>2 DEF PullInv

LEMMA SeriesAreBranches ==
  \A s \in Series : s \in Branches /\ s # Main
  BY SeriesAssumption DEF Branches

\* Whoever is not at work on the branch goes on with its task.
LEMMA OthersKeep ==
  ASSUME PullInv, NEW s \in Series, NEW w \in Workers, task[w].on # s,
         \A b \in Branches \ {s} : log'[b] = log[b],
         UNCHANGED <<pc, task, onto>>
  PROVE  AtWork(w)'
  <1>1. task[w].on \in Branches  BY DEF PullInv, Typed, Tasks
  <1>2. log'[task[w].on] = log[task[w].on]  BY <1>1
  <1> QED  BY <1>2 DEF PullInv, AtWork

LEMMA PromoteKeeps ==
  ASSUME PullInv, Alone, NEW s \in Series, Promote(s)
  PROVE  PullInv'
  <1> DEFINE e == [for |-> s, subject |-> "receive", number |-> 0]
  <1>1. /\ log[s] = <<>> /\ log' = [log EXCEPT ![s] = Append(log[Main], e)]
        /\ rounds' = [rounds EXCEPT ![s] = rounds[Main]]
        /\ reports' = [reports EXCEPT ![s] = reports[Main]]
        /\ UNCHANGED <<tags, onto, pc, task, from>>
    BY DEF Promote, Alone
  <1>2. e \in Commits /\ e.subject = "receive"  BY DEF Commits, Subjects
  <1> HIDE DEF e
  <1>3. log[Main] = <<>> /\ rounds[Main] = {} /\ reports[Main] = {} /\ <<>> \in History
    BY NothingCounted DEF PullInv, MainUntouched
  <1>4. s \in Branches /\ Append(<<>>, e) \in History  BY <1>2, <1>3, SeriesAreBranches, AppendedIs
  <1>5. /\ log'[s] = Append(<<>>, e) /\ rounds'[s] = {} /\ reports'[s] = {}
        /\ \A b \in Branches \ {s} : log'[b] = log[b] /\ rounds'[b] = rounds[b]
                                     /\ reports'[b] = reports[b]
    BY <1>1, <1>3, <1>4 DEF PullInv, Typed
  <1>6. Typed'  BY <1>1, <1>3, <1>4 DEF PullInv, Typed
  <1>7. SeriesInv(s)'
    <2>1. e.subject \notin Markers /\ e.subject \notin Verdicts
          /\ e.subject \notin {"needs-revision", "v"}
      BY <1>2 DEF Markers, Verdicts
    <2>2. Turning(Append(<<>>, e))
      BY <1>2, <1>3, <2>1, NewRepository, TurningAppend DEF Markers
    <2>3. Recorded(Append(<<>>, e), {})
      BY <1>2, <1>3, <2>1, NewRepository, RecordedAppend
    <2> QED  BY <1>5, <2>2, <2>3 DEF SeriesInv
  <1>8. ASSUME NEW w \in Workers  PROVE AtWork(w)'
    <2>1. CASE task[w].on = s
      <3>1. pc[w] \notin {"review", "reform", "checkout", "commit"}
        BY <1>1, <2>1 DEF PullInv, AtWork
      <3> QED  BY <1>1, <3>1 DEF AtWork
    <2>2. CASE task[w].on # s
      BY <1>1, <1>5, <2>2, OthersKeep
    <2> QED  BY <2>1, <2>2
  <1> QED  BY <1>5, <1>6, <1>7, <1>8, CommittingKeeps

LEMMA ReportKeeps ==
  ASSUME PullInv, Alone, NEW s \in Series, NEW r \in Reports, Report(s, r)
  PROVE  PullInv'
  <1> DEFINE e == [for |-> s, subject |-> "experience", number |-> 0]
             h == log[s]
  <1>1. /\ Accepted(h) /\ log' = [log EXCEPT ![s] = Append(h, e)]
        /\ reports' = [reports EXCEPT ![s] = @ \cup {[id |-> r, done |-> FALSE]}]
        /\ UNCHANGED <<rounds, tags, onto, pc, task, from>>
    BY DEF Report, Accepted
  <1>2. e \in Commits /\ e.subject = "experience"  BY DEF Commits, Subjects
  <1> HIDE DEF e
  <1>3. s \in Branches /\ h \in History /\ rounds[s] \in SUBSET RoundRecord
    BY SeriesAreBranches DEF PullInv, Typed
  <1>4. Append(h, e) \in History  BY <1>2, <1>3, AppendedIs
  <1>5. /\ log'[s] = Append(h, e) /\ rounds'[s] = rounds[s]
        /\ \A b \in Branches \ {s} : log'[b] = log[b] /\ rounds'[b] = rounds[b]
                                     /\ reports'[b] = reports[b]
    BY <1>1, <1>3 DEF PullInv, Typed
  <1> HIDE DEF h
  <1>6. Typed'
    <2>1. [id |-> r, done |-> FALSE] \in [id : Reports, done : BOOLEAN]  OBVIOUS
    <2>2. reports' \in [Branches -> SUBSET [id : Reports, done : BOOLEAN]]
      BY <1>1, <1>3, <2>1 DEF PullInv, Typed
    <2> QED  BY <1>1, <1>3, <1>4, <2>2 DEF PullInv, Typed
  <1>7. SeriesInv(s)'
    <2>1. e.subject \notin Markers /\ e.subject \notin Verdicts
          /\ e.subject \notin {"needs-revision", "v"}
      BY <1>2 DEF Markers, Verdicts
    <2>0. Turning(h) /\ Recorded(h, rounds[s])  BY DEF PullInv, SeriesInv, h
    <2>2. Turning(Append(h, e))
      BY <1>2, <1>3, <2>0, <2>1, TurningAppend DEF Markers
    <2>3. Recorded(Append(h, e), rounds[s])
      BY <1>2, <1>3, <2>0, <2>1, RecordedAppend
    <2>4. Accepted(Append(h, e))  BY <1>1, <1>2, <1>3, AcceptanceStays
    <2> QED  BY <1>5, <2>2, <2>3, <2>4 DEF SeriesInv
  <1>8. ASSUME NEW w \in Workers  PROVE AtWork(w)'
    <2>1. CASE task[w].on = s
      <3>0. LastMarker(log[s]) = "direction-ok"
        BY <1>1 DEF PullInv, SeriesInv, Turning, h
      <3>1. pc[w] \notin {"review", "reform", "checkout", "commit"}
        BY <1>1, <2>1, <3>0 DEF PullInv, AtWork, Undecided
      <3> QED  BY <1>1, <3>1 DEF AtWork
    <2>2. CASE task[w].on # s
      BY <1>1, <1>5, <2>2, OthersKeep
    <2> QED  BY <2>1, <2>2
  <1> QED  BY <1>5, <1>6, <1>7, <1>8, CommittingKeeps

\* The newest marker is a commit of the history.
LEMMA MarkerIsThere ==
  ASSUME NEW h \in History, LastMarker(h) # "none"
  PROVE  \E k \in DOMAIN h : h[k].subject = LastMarker(h)
  <1> DEFINE marks == {k \in DOMAIN h : h[k].subject \in Verdicts \cup {"v"}}
  <1>1. Len(h) \in Nat /\ DOMAIN h = 1..Len(h)  BY DEF History
  <1>2. LastMarker(h) = IF marks = {} THEN "none" ELSE h[Max(marks)].subject
    BY DEF LastMarker
  <1>3. marks \in SUBSET Nat /\ \A k \in marks : k <= Len(h)  BY <1>1
  <1>4. marks # {}  BY <1>2
  <1>5. marks \subseteq DOMAIN h  OBVIOUS
  <1> HIDE DEF marks
  <1>6. Max(marks) \in marks  BY <1>1, <1>3, <1>4, GreatestExists
  <1> QED  BY <1>2, <1>4, <1>5, <1>6

\* Whose turn it is when nothing is decided and no revision is called for.
LEMMA ReviewersTurn ==
  ASSUME NEW h \in History, Turning(h), Undecided(h), LastMarker(h) # "needs-revision"
  PROVE  LastMarker(h) \in {"none", "v"}
  <1>1. LastMarker(h) # "nak"  BY MarkerIsThere DEF Undecided
  <1> QED  BY <1>1 DEF Turning, Undecided, Markers, Verdicts

LEMMA CommitKeeps ==
  ASSUME PullInv, Alone, NEW w \in Workers, Commit(w)
  PROVE  PullInv'
  <1> DEFINE t == task[w]
             s == task[w].on
             h == log[task[w].on]
             number == IF t.kind = "direction-ok" THEN t.serial
                       ELSE IF t.kind = "v" THEN t.round + 1 ELSE t.round
             e == [for |-> s, subject |-> t.kind, number |-> number]
             record == [round |-> t.round, verdict |-> t.kind, judged |-> t.judged]
  <1>1. pc[w] = "commit" /\ AtWork(w)  BY DEF Commit, PullInv
  <1>2. /\ s \in Series /\ s \in Branches /\ h # <<>> /\ Undecided(h) /\ onto = s
        /\ t.kind \in Markers
    BY <1>1, SeriesAreBranches DEF AtWork
  <1>3. t \in Tasks /\ h \in History /\ rounds[s] \in SUBSET RoundRecord
        /\ Turning(h) /\ Recorded(h, rounds[s])
    BY <1>2 DEF PullInv, Typed, SeriesInv
  <1>4. /\ t.kind \in Subjects /\ t.round \in Nat /\ t.serial \in Nat
        /\ t.judged \in History /\ Reviews(h) \in Nat /\ Len(h) \in Nat
    <2>1. Len(h) \in Nat  BY <1>3 DEF History
    <2>2. Reviews(h) \in Nat  BY <2>1, CountedAre DEF Reviews
    <2> QED  BY <1>2, <1>3, <2>1, <2>2 DEF Tasks, Subjects, Markers
  <1>5. e \in Commits /\ e.subject = t.kind /\ e.number = number
    BY <1>2, <1>4 DEF Commits
  <1>6. /\ log' = [log EXCEPT ![s] = Append(h, e)]
        /\ task' = [task EXCEPT ![w].made = Append(h, e)]
        /\ pc' = [pc EXCEPT ![w] = "restore"]
        /\ UNCHANGED <<tags, onto, from>>
    <2>1. number = CASE t.kind = "direction-ok" -> t.serial
                     [] t.kind = "v" -> t.round + 1
                     [] OTHER -> t.round
      OBVIOUS
    <2> QED  BY <1>2, <2>1 DEF Commit, Goto
  <1>7. \/ /\ t.kind \in Verdicts
           /\ rounds' = [rounds EXCEPT ![s] = {r \in @ : r.round # t.round} \cup {record}]
           /\ UNCHANGED reports
        \/ /\ t.kind = "v"
           /\ UNCHANGED <<reports, rounds>>
    <2>1. \/ /\ t.kind \in Verdicts
             /\ rounds' = [rounds EXCEPT ![s] = {r \in @ : r.round # t.round} \cup {record}]
             /\ UNCHANGED reports
          \/ /\ t.kind = "v"
             /\ reports' = [reports EXCEPT ![s] = IF t.seen = {} THEN @ ELSE [id : t.seen, done : {TRUE}]]
             /\ UNCHANGED rounds
      BY <1>2 DEF Commit
    <2>2. t.kind = "v" => t.seen = {}  BY <1>1 DEF AtWork
    <2>3. reports = [reports EXCEPT ![s] = reports[s]]  BY DEF PullInv, Typed
    <2> QED  BY <2>1, <2>2, <2>3
  <1>8. record \in RoundRecord \/ t.kind \notin Verdicts
    BY <1>4 DEF RoundRecord
  <1>9. /\ t.kind \in Verdicts => /\ LastMarker(h) \in {"none", "v"}
                                  /\ t.judged = h /\ t.round = Reviews(h) + 1
        /\ t.kind = "v" => LastMarker(h) = "needs-revision" /\ t.round = Reviews(h)
    BY <1>1, <1>2, <1>3, ReviewersTurn DEF AtWork
  <1>10. Append(h, e) \in History  BY <1>3, <1>5, AppendedIs
  <1>11. Turning(Append(h, e))
    <2>1. "v" \notin Verdicts /\ "direction-ok" \notin {"needs-revision", "v"}
          /\ "needs-revision" \in Verdicts
      BY DEF Verdicts
    <2>2. e.subject \in {"needs-revision", "v"} => e.number = Reviews(h) + 1
      BY <1>5, <1>9, <2>1
    <2> QED  BY <1>3, <1>5, <1>9, <2>2, TurningAppend
  <1> HIDE DEF e, record, number, h, s, t
  <1>12. Typed'
    <2>1. log' \in [Branches -> History]  BY <1>6, <1>10 DEF PullInv, Typed
    <2>2. rounds' \in [Branches -> SUBSET RoundRecord]
      BY <1>2, <1>7, <1>8 DEF PullInv, Typed
    <2>3. reports' \in [Branches -> SUBSET [id : Reports, done : BOOLEAN]]
      BY <1>7 DEF PullInv, Typed
    <2>4. task' \in [Workers -> Tasks]
      <3>1. [task[w] EXCEPT !.made = Append(h, e)] \in Tasks
        BY <1>3, <1>10 DEF Tasks, t
      <3> QED  BY <1>6, <3>1 DEF PullInv, Typed
    <2>5. pc' \in [Workers -> {"idle", "review", "reform", "checkout", "commit", "restore", "tag"}]
      BY <1>6 DEF PullInv, Typed
    <2> QED  BY <1>6, <2>1, <2>2, <2>3, <2>4, <2>5 DEF PullInv, Typed
  <1>13. /\ log'[s] = Append(h, e)
         /\ \A b \in Branches \ {s} : log'[b] = log[b] /\ rounds'[b] = rounds[b]
                                      /\ reports'[b] = reports[b]
         /\ reports'[s] = reports[s]
    BY <1>2, <1>6, <1>7 DEF PullInv, Typed
  <1>14. Recorded(Append(h, e), rounds'[s])
    <2>1. CASE t.kind \in Verdicts
      <3>1. record \in RoundRecord /\ record.round = Reviews(h) + 1 /\ record.verdict = e.subject
            /\ record.judged = h /\ record.round = t.round
        BY <1>5, <1>8, <1>9, <2>1 DEF record
      <3>2. rounds'[s] = {r \in rounds[s] : r.round # record.round} \cup {record}
        <4>1. "v" \notin Verdicts  BY DEF Verdicts
        <4> QED  BY <1>2, <1>7, <2>1, <3>1, <4>1 DEF PullInv, Typed
      <3> QED  BY <1>3, <1>5, <2>1, <3>1, <3>2, RecordedVerdict
    <2>2. CASE t.kind \notin Verdicts
      <3>1. rounds'[s] = rounds[s]  BY <1>7, <2>2
      <3> QED  BY <1>3, <1>5, <2>2, <3>1, RecordedAppend
    <2> QED  BY <2>1, <2>2
  <1>15. PICK c \in Series : c = s  BY <1>2
  <1>16. SeriesInv(c)'
    <2>1. reports[s] # {} => Accepted(h)  BY <1>2 DEF PullInv, SeriesInv, h, s
    <2>2. Accepted(h) => Accepted(Append(h, e))  BY <1>3, <1>5, AcceptanceStays
    <2>3. log'[c] = Append(h, e) /\ reports'[c] = reports[s] /\ rounds'[c] = rounds'[s]
      BY <1>13, <1>15
    <2>4. Recorded(log'[c], rounds'[c])  BY <1>14, <2>3
    <2>5. Turning(log'[c])  BY <1>11, <2>3
    <2>6. reports'[c] # {} => Accepted(log'[c])  BY <2>1, <2>2, <2>3
    <2> QED  BY <2>4, <2>5, <2>6 DEF SeriesInv
  <1>17. ASSUME NEW v \in Workers  PROVE AtWork(v)'
    <2>1. v = w  BY DEF Alone
    <2>2. pc'[v] = "restore"  BY <1>6, <2>1 DEF PullInv, Typed
    <2> QED  BY <2>2 DEF AtWork
  <1>18. \A b \in Branches \ {c} : log'[b] = log[b] /\ rounds'[b] = rounds[b]
                                   /\ reports'[b] = reports[b]
    BY <1>13, <1>15
  <1> QED  BY <1>12, <1>17, <1>16, <1>18, CommittingKeeps

-----------------------------------------------------------------------------
LEMMA PullInvKept ==
  ASSUME Alone, PullInv, [Next]_vars
  PROVE  PullInv'
  <1>1. ASSUME NEW s \in Series, Promote(s)  PROVE PullInv'  BY <1>1, PromoteKeeps
  <1>2. ASSUME NEW s \in Series, NEW r \in Reports, Report(s, r)  PROVE PullInv'
    BY <1>2, ReportKeeps
  <1>3. ASSUME NEW w \in Workers, Work(w)  PROVE PullInv'
    BY <1>3, TakeReformKeeps, TakeReviewKeeps, JudgeKeeps, ReviseKeeps, CheckoutKeeps,
       CommitKeeps, RestoreKeeps, EndsKeep DEF Work
  <1>4. ASSUME NEW w \in Workers, ComeBackLater(w) \/ Crash(w)  PROVE PullInv'
    BY <1>4, EndsKeep
  <1>5. CASE UNCHANGED vars
    <2>1. UNCHANGED <<log, rounds, reports, tags, onto, pc, task, from>>
      BY <1>5 DEF vars, repoVars
    <2>2. \A w \in Workers : AtWork(w)'  BY <2>1 DEF PullInv, AtWork
    <2>3. Typed'  BY <2>1 DEF PullInv, Typed
    <2>4. (\A s \in Series : SeriesInv(s))' /\ MainUntouched'
      BY <2>1 DEF PullInv, SeriesInv, MainUntouched
    <2> QED  BY <2>2, <2>3, <2>4 DEF PullInv
  <1> QED  BY <1>1, <1>2, <1>3, <1>4, <1>5 DEF Next

LEMMA PullInvHolds == ASSUME Alone PROVE Spec => []PullInv
  <1>1. PullInv /\ [Next]_vars => PullInv'  BY PullInvKept
  <1> QED  BY <1>1, PullInvInit, PTL DEF Spec

\* On every series reviews and revisions take turns, the n-th review is round n and
\* v n+1 answers it, for any number of series and rounds, wherever the worker is
\* killed (_next_round_number, reform_patch_series, the selection in pull).
THEOREM TurnsTaken == ASSUME Alone PROVE Spec => []TakeTurns
  <1>1. PullInv => TakeTurns  BY DEF PullInv, SeriesInv, Turning, TakeTurns
  <1> QED  BY <1>1, PullInvHolds, PTL

\* Every verdict on a branch stands on the very text it judged, and the records of
\* its rounds are numbered as its reviews (_review, git_wrapper.commit_files).
THEOREM VerdictsJudged == ASSUME Alone PROVE Spec => []VerdictOnWhatWasJudged
  <1>1. PullInv => VerdictOnWhatWasJudged
    BY DEF PullInv, SeriesInv, Recorded, Judged, VerdictOnWhatWasJudged
  <1> QED  BY <1>1, PullInvHolds, PTL

LEMMA TypedIs == PullInv => TypeOK
  BY DEF PullInv, Typed, TypeOK, Tasks

\* The branches, records, tags and tasks of one worker stay of their types.
THEOREM TypeCorrect == ASSUME Alone PROVE Spec => []TypeOK
  <1>1. PullInv => TypeOK  BY TypedIs
  <1> QED  BY <1>1, PullInvHolds, PTL

-----------------------------------------------------------------------------
(* The steps of forming an approach. *)

AllSteps == Form!StepNames
Others == {"grounding", "precedents", "joining", "preparing", "promoting", "draining", "ended"}

LEMMA OthersAreNoSteps == \A x \in Others : x \notin AllSteps
  BY DEF Others, AllSteps, Form!StepNames

LEMMA Order ==
  /\ Len(Form!StepOrder) \in Nat /\ Len(Form!StepOrder) >= 8
  /\ DOMAIN Form!StepOrder = 1..Len(Form!StepOrder)
  /\ Form!StepOrder[1] = "normalize_problem"
  /\ Form!StepOrder[2] = "extract_constraints"
  /\ Form!StepOrder[3] = "build_prior_art_map"
  <1>1. CASE provided  BY <1>1 DEF Form!StepOrder
  <1>2. CASE ~provided  BY <1>2 DEF Form!StepOrder
  <1> QED  BY <1>1, <1>2

LEMMA OrderSteps ==
  ASSUME NEW i \in DOMAIN Form!StepOrder
  PROVE  Form!StepOrder[i] \in AllSteps
  <1>1. CASE provided
    <2>1. DOMAIN Form!StepOrder = 1..8  BY <1>1 DEF Form!StepOrder
    <2> QED  BY <1>1, <2>1 DEF Form!StepOrder, AllSteps, Form!StepNames
  <1>2. CASE ~provided
    <2>1. DOMAIN Form!StepOrder = 1..10  BY <1>2 DEF Form!StepOrder
    <2> QED  BY <1>2, <2>1 DEF Form!StepOrder, AllSteps, Form!StepNames
  <1> QED  BY <1>1, <1>2

\* A step is done once: nothing comes back to an earlier place.
LEMMA OrderOnce ==
  ASSUME NEW i \in DOMAIN Form!StepOrder, Form!StepOrder[i] = "extract_constraints"
  PROVE  i = 2
  <1>1. CASE provided
    <2>1. DOMAIN Form!StepOrder = 1..8  BY <1>1 DEF Form!StepOrder
    <2> QED  BY <1>1, <2>1 DEF Form!StepOrder
  <1>2. CASE ~provided
    <2>1. DOMAIN Form!StepOrder = 1..10  BY <1>2 DEF Form!StepOrder
    <2> QED  BY <1>2, <2>1 DEF Form!StepOrder
  <1> QED  BY <1>1, <1>2

LEMMA StepsAre ==
  /\ Form!Steps \subseteq AllSteps
  /\ Form!Asking \subseteq AllSteps \cup {"grounding"}
  <1>1. Form!Steps \subseteq AllSteps  BY OrderSteps DEF Form!Steps
  <1> QED  BY <1>1 DEF Form!Asking

-----------------------------------------------------------------------------
(* Where forming stands. *)

\* The step under way follows the steps completed; between the constraints and the
\* prior art the precedents are awaited.
Ordered ==
  /\ completed \in Seq(AllSteps)
  /\ stage \in AllSteps => /\ Len(completed) + 1 \in DOMAIN Form!StepOrder
                           /\ stage = Form!StepOrder[Len(completed) + 1]
  /\ stage = "grounding" => completed = <<>>
  /\ stage = "precedents" => Len(completed) = 2 /\ refusals = <<>>
  /\ stage \in AllSteps \cup Others

\* What the call is going to return is settled only at its end.
Settled ==
  /\ stage \notin {"joining", "draining", "ended"} => outcome = Form!Pending
  /\ stage = "joining" => outcome.status # "promoted"
  /\ outcome.status = "promoted" => outcome.step = None
  /\ phase = "published" => stage \in {"draining", "ended"} /\ outcome.status = "promoted"

\* The two lanes: no background build without design precedents; who is past the
\* join has them, and a step whose failure is returned was not hiding another.
Laned ==
  /\ front \in {"absent", "building", "built", "failed"}
  /\ background = "running" => front = "built"
  /\ stage = "grounding" => front = "absent"
  /\ stage \notin {"grounding", "ended"} => front # "absent"
  /\ stage \in {"preparing", "promoting", "draining"} => front = "built"
  /\ stage = "ended" /\ outcome.status \in {"promoted", "needs_work"} =>
       /\ front \in {"built", "absent"}
       /\ background = "running" => abandoned
  /\ stage = "ended" /\ outcome.step \in AllSteps => front = "built"

Retried ==
  /\ refusals \in Seq(SUBSET Atoms)
  /\ Form!RetriesChangeTheOdds

FormInv == Ordered /\ Settled /\ Laned /\ Retried

LEMMA NoneIsNoStep == None \notin AllSteps
  BY NoneAssumption DEF AllSteps

LEMMA FormInvImplies ==
  FormInv => RetriesChangeTheOdds /\ PrecedentFailureFirst /\ NoStragglers
  <1> SUFFICES ASSUME FormInv
               PROVE  RetriesChangeTheOdds /\ PrecedentFailureFirst /\ NoStragglers
    OBVIOUS
  <1>1. RetriesChangeTheOdds  BY DEF FormInv, Retried, RetriesChangeTheOdds
  <1>2. PrecedentFailureFirst
    BY StepsAre DEF FormInv, Laned, PrecedentFailureFirst, Form!PrecedentFailureFirst
  <1>3. NoStragglers
    BY DEF FormInv, Laned, NoStragglers, Form!NoStragglers
  <1> QED  BY <1>1, <1>2, <1>3

LEMMA FormInvInit == ApproachInit => FormInv
  <1> SUFFICES ASSUME ApproachInit PROVE FormInv  OBVIOUS
  <1>1. /\ stage = "grounding" /\ refusals = <<>> /\ completed = <<>>
        /\ front = "absent" /\ background = "absent" /\ outcome = Form!Pending
        /\ phase = "unpublished"
    BY DEF ApproachInit, Form!Init
  <1>2. Form!Pending.status = "pending" /\ Form!Pending.step = None
    BY DEF Form!Pending
  <1>3. Ordered  BY <1>1, OthersAreNoSteps DEF Ordered, Others
  <1>4. Settled  BY <1>1, <1>2 DEF Settled
  <1>5. Laned  BY <1>1, <1>2, NoneIsNoStep DEF Laned
  <1>6. Retried  BY <1>1 DEF Retried, Form!RetriesChangeTheOdds
  <1> QED  BY <1>3, <1>4, <1>5, <1>6 DEF FormInv

-----------------------------------------------------------------------------
(* The ways in which forming goes on. *)

\* A step fails: grounding ends the call, another step leaves it to the join.
LEMMA FailingKeeps ==
  ASSUME FormInv, NEW mode, stage \in AllSteps \cup {"grounding"}, Form!StepFails(mode),
         refusals' \in Seq(SUBSET Atoms), UNCHANGED phase
  PROVE  FormInv'
  <1>1. /\ outcome' = [status |-> "needs_work", step |-> stage, mode |-> mode]
        /\ stage' = IF stage = "grounding" THEN "ended" ELSE "joining"
        /\ UNCHANGED <<provided, completed, front, background, abandoned>>
    BY DEF Form!StepFails, Form!Ends, Form!work, Form!lanes
  <1>2. stage \in AllSteps \cup {"grounding"}  OBVIOUS
  <1>3. \A x \in {"grounding", "precedents", "joining", "preparing", "promoting", "draining", "ended"} :
           x \notin AllSteps
    BY OthersAreNoSteps DEF Others
  <1>4. stage' \notin Form!Asking'
    <2>1. Form!Asking' \subseteq AllSteps \cup {"grounding"}
      BY <1>1, StepsAre DEF Form!Asking, Form!Steps, Form!StepOrder
    <2> QED  BY <1>1, <1>3, <2>1
  <1>5. Ordered'  BY <1>1, <1>3 DEF FormInv, Ordered, Others
  <1>6. Settled'  BY <1>1, <1>2, <1>3 DEF FormInv, Settled, Form!Pending
  <1>7. Laned'
    <2>1. outcome'.status = "needs_work" /\ outcome'.step = stage  BY <1>1
    <2>2. CASE stage = "grounding"
      BY <1>1, <1>3, <2>1, <2>2 DEF FormInv, Laned
    <2>3. CASE stage # "grounding"
      <3>1. stage' = "joining" /\ stage # "ended"  BY <1>1, <1>2, <1>3, <2>3
      <3> QED  BY <1>1, <1>2, <1>3, <2>3, <3>1 DEF FormInv, Laned
    <2> QED  BY <2>2, <2>3
  <1>8. Retried'  BY <1>4 DEF Retried, Form!RetriesChangeTheOdds
  <1> QED  BY <1>5, <1>6, <1>7, <1>8 DEF FormInv

\* A step is accepted: the next one begins with no refusals, or the last is done.
LEMMA CompletingKeeps ==
  ASSUME FormInv, stage \in AllSteps, Form!Complete(stage), UNCHANGED phase
  PROVE  FormInv'
  <1> DEFINE i == Len(completed) + 1
  <1>1. /\ completed' = Append(completed, stage)
        /\ stage' = IF i = Len(Form!StepOrder) THEN "joining" ELSE Form!StepOrder[i + 1]
        /\ refusals' = <<>>
        /\ UNCHANGED <<provided, front, background, abandoned, outcome>>
    BY DEF Form!Complete, Form!lanes
  <1>2. completed \in Seq(AllSteps) /\ i \in DOMAIN Form!StepOrder /\ Len(completed) \in Nat
    BY DEF FormInv, Ordered
  <1>3. completed' \in Seq(AllSteps) /\ Len(completed') = i
    BY <1>1, <1>2
  <1>4. Form!StepOrder' = Form!StepOrder  BY <1>1 DEF Form!StepOrder
  <1>5. \/ stage' = "joining"
        \/ /\ Len(completed') + 1 \in DOMAIN Form!StepOrder
           /\ stage' = Form!StepOrder[Len(completed') + 1]
           /\ stage' \in AllSteps
    <2>1. CASE i = Len(Form!StepOrder)  BY <1>1, <2>1
    <2>2. CASE i # Len(Form!StepOrder)
      <3> DEFINE n == Len(Form!StepOrder)
      <3>0. n \in Nat /\ DOMAIN Form!StepOrder = 1..n  BY Order
      <3> HIDE DEF n
      <3>1. i + 1 \in DOMAIN Form!StepOrder
        <4>1. i \in 1..n  BY <1>2, <3>0
        <4>2. i # n  BY <2>2 DEF n
        <4> QED  BY <3>0, <4>1, <4>2
      <3>2. Form!StepOrder[i + 1] \in AllSteps  BY <3>1, OrderSteps
      <3> QED  BY <1>1, <1>3, <2>2, <3>1, <3>2
    <2> QED  BY <2>1, <2>2
  <1>6. \A x \in {"grounding", "precedents", "joining", "preparing", "promoting", "draining", "ended"} :
           x \notin AllSteps
    BY OthersAreNoSteps DEF Others
  <1>7. outcome = Form!Pending /\ phase # "published" /\ front # "absent"
    BY <1>6 DEF FormInv, Settled, Laned
  <1>8. Form!Pending.status = "pending" /\ Form!Pending.step = None
    BY DEF Form!Pending
  <1>9. Ordered'
    BY <1>1, <1>3, <1>4, <1>5, <1>6 DEF Ordered, Others
  <1>10. Settled'
    <2>1. Form!Pending' = Form!Pending  BY DEF Form!Pending
    <2> QED  BY <1>1, <1>5, <1>6, <1>7, <1>8, <2>1 DEF FormInv, Settled
  <1>11. Laned'  BY <1>1, <1>5, <1>6, <1>7, <1>8, NoneIsNoStep DEF FormInv, Laned
  <1>12. Retried'  BY <1>1 DEF Retried, Form!RetriesChangeTheOdds
  <1> QED  BY <1>9, <1>10, <1>11, <1>12 DEF FormInv

\* The same step goes on, with another node or with other refusals.
LEMMA StayingKeeps ==
  ASSUME FormInv, stage \in AllSteps \cup {"grounding"},
         UNCHANGED <<provided, stage, completed, front, background, abandoned, outcome, phase>>,
         refusals' \in Seq(SUBSET Atoms), Form!RetriesChangeTheOdds'
  PROVE  FormInv'
  <1>1. Form!StepOrder' = Form!StepOrder  BY DEF Form!StepOrder
  <1>2. "precedents" \notin AllSteps \cup {"grounding"}  BY OthersAreNoSteps DEF Others
  <1>3. Ordered'  BY <1>1, <1>2 DEF FormInv, Ordered
  <1>4. Settled'  BY DEF FormInv, Settled, Form!Pending
  <1>5. Laned'  BY DEF FormInv, Laned
  <1> QED  BY <1>3, <1>4, <1>5 DEF FormInv, Retried

-----------------------------------------------------------------------------
(* The steps of forming. *)

\* Unless a series is promoted, publication does not stir.
LEMMA NothingPublished ==
  ASSUME Publish, outcome' = outcome \/ outcome'.status # "promoted"
  PROVE  UNCHANGED treeVars
  BY DEF Publish

\* An answer refused for a defect that was not fed back before, with attempts left.
LEMMA AskingAgainKeeps ==
  ASSUME Retried, stage \in Form!Asking, NEW defects \in Form!Defects,
         refusals' = Append(refusals, defects), ~Form!Repeats(defects)
  PROVE  \A i \in 1..(Len(refusals') - 1) : refusals'[i] \cap refusals'[i + 1] = {}
  <1>1. refusals \in Seq(SUBSET Atoms) /\ defects \in SUBSET Atoms
    BY DEF Retried, Form!Defects
  <1>2. /\ Len(refusals') = Len(refusals) + 1 /\ refusals'[Len(refusals) + 1] = defects
        /\ \A i \in 1..Len(refusals) : refusals'[i] = refusals[i]
        /\ Len(refusals) \in Nat
    BY <1>1
  <1> SUFFICES ASSUME NEW i \in 1..Len(refusals)
               PROVE  refusals'[i] \cap refusals'[i + 1] = {}
    BY <1>2
  <1>3. CASE i = Len(refusals)
    <2>1. refusals # <<>>
      <3>1. Len(refusals) # 0  BY <1>3
      <3> QED  BY <3>1
    <2>2. defects \cap Form!Last(refusals) = {}  BY <2>1 DEF Form!Repeats
    <2>3. Form!Last(refusals) = refusals[i]  BY <1>3 DEF Form!Last
    <2>4. i + 1 = Len(refusals) + 1  BY <1>3
    <2> QED  BY <1>2, <1>3, <2>2, <2>3, <2>4
  <1>4. CASE i \in 1..(Len(refusals) - 1)
    <2>1. refusals[i] \cap refusals[i + 1] = {}
      BY <1>4 DEF Retried, Form!RetriesChangeTheOdds
    <2>2. i + 1 \in 1..Len(refusals)  BY <1>2, <1>4
    <2> QED  BY <1>2, <2>1, <2>2
  <1> QED  BY <1>2, <1>3, <1>4

LEMMA RefusedKeeps ==
  ASSUME FormInv, NEW defects \in Form!Defects, Form!Refused(defects), Publish
  PROVE  FormInv'
  <1>1. /\ stage \in Form!Asking /\ refusals' = Append(refusals, defects)
        /\ defects \in SUBSET Atoms /\ refusals \in Seq(SUBSET Atoms)
    BY DEF Form!Refused, Form!Defects, FormInv, Retried
  <1>2. refusals' \in Seq(SUBSET Atoms)  BY <1>1
  <1>3. stage \in AllSteps \cup {"grounding"}  BY <1>1, StepsAre
  <1>4. ASSUME NEW mode, Form!StepFails(mode)  PROVE FormInv'
    <2>1. outcome'.status # "promoted"  BY <1>4 DEF Form!StepFails, Form!Ends
    <2>2. UNCHANGED phase  BY <2>1, NothingPublished DEF treeVars
    <2> QED  BY <1>2, <1>3, <1>4, <2>2, FailingKeeps
  <1>5. CASE ~Form!Repeats(defects) /\ UNCHANGED <<provided, stage, Form!work, Form!lanes, outcome>>
    <2>1. UNCHANGED phase  BY <1>5, NothingPublished DEF treeVars
    <2>2. \A i \in 1..(Len(refusals') - 1) : refusals'[i] \cap refusals'[i + 1] = {}
      BY <1>1, <1>5, AskingAgainKeeps DEF FormInv
    <2>3. Form!RetriesChangeTheOdds'  BY <2>2 DEF Form!RetriesChangeTheOdds
    <2> QED  BY <1>2, <1>3, <1>5, <2>1, <2>3, StayingKeeps DEF Form!work, Form!lanes
  <1> QED  BY <1>4, <1>5 DEF Form!Refused

LEMMA FailuresKeep ==
  ASSUME FormInv, Publish,
         \/ Form!CarrierFails \/ Form!GroundingExhausted \/ Form!ProblemUnparsable
         \/ stage = "surface_risks" /\ Form!StepFails(None) /\ UNCHANGED refusals
  PROVE  FormInv'
  <1>1. refusals \in Seq(SUBSET Atoms)  BY DEF FormInv, Retried
  <1>2. PICK mode \in {None, "transient-retries-exhausted"} :
          Form!StepFails(mode) /\ UNCHANGED refusals
    BY DEF Form!CarrierFails, Form!GroundingExhausted, Form!ProblemUnparsable
  <1>3. stage \in AllSteps \cup {"grounding"}
    BY StepsAre DEF Form!CarrierFails, Form!GroundingExhausted, Form!ProblemUnparsable,
                    AllSteps, Form!StepNames
  <1>4. outcome'.status # "promoted"  BY <1>2 DEF Form!StepFails, Form!Ends
  <1>5. UNCHANGED phase  BY <1>4, NothingPublished DEF treeVars
  <1> QED  BY <1>1, <1>2, <1>3, <1>5, FailingKeeps

LEMMA AcceptedKeeps ==
  ASSUME FormInv, Publish, stage \in AllSteps, Form!Complete(stage)
  PROVE  FormInv'
  <1>1. UNCHANGED phase  BY NothingPublished DEF Form!Complete, treeVars
  <1> QED  BY <1>1, CompletingKeeps

\* A candidate was generated or evaluated, and it was not the last.
LEMMA NextNodeKeeps ==
  ASSUME FormInv, Publish, stage \in AllSteps, refusals' = <<>>,
         UNCHANGED <<provided, stage, completed, Form!lanes, outcome>>
  PROVE  FormInv'
  <1>1. UNCHANGED phase  BY NothingPublished DEF treeVars
  <1>2. refusals' \in Seq(SUBSET Atoms) /\ Form!RetriesChangeTheOdds'
    BY DEF Form!RetriesChangeTheOdds
  <1> QED  BY <1>1, <1>2, StayingKeeps DEF Form!lanes

LEMMA GroundKeeps ==
  ASSUME FormInv, Publish, NEW confirms, Form!Ground(confirms)
  PROVE  FormInv'
  <1>1. /\ stage = "grounding" /\ refusals' = <<>> /\ front = "absent"
        /\ UNCHANGED <<provided, completed, background, abandoned>>
        /\ background # "running" /\ outcome = Form!Pending
    BY DEF Form!Ground, Form!work, FormInv, Laned, Settled
  <1>2. Form!Pending.status = "pending" /\ Form!Pending.step = None
    BY DEF Form!Pending
  <1>3. Retried'  BY <1>1 DEF Retried, Form!RetriesChangeTheOdds
  <1>4. \A x \in Others : x \notin AllSteps  BY OthersAreNoSteps
  <1>5. phase # "published"  BY <1>1 DEF FormInv, Settled
  <1>6. CASE confirms
    <2>1. /\ outcome'.status = "needs_confirmation" /\ outcome'.step = None
          /\ stage' = "ended" /\ front' = front
      BY <1>6 DEF Form!Ground, Form!Ends
    <2>2. UNCHANGED phase  BY <2>1, NothingPublished DEF treeVars
    <2>3. Ordered'  BY <1>1, <1>4, <2>1 DEF FormInv, Ordered, Others
    <2>4. Settled'  BY <1>5, <2>1, <2>2 DEF Settled
    <2>5. Laned'  BY <1>1, <1>4, <2>1, NoneIsNoStep DEF FormInv, Laned
    <2> QED  BY <1>3, <2>3, <2>4, <2>5 DEF FormInv
  <1>7. CASE ~confirms
    <2>1. /\ outcome' = outcome /\ front' = "building" /\ stage' = Form!StepOrder[1]
      BY <1>7 DEF Form!Ground
    <2>2. UNCHANGED phase  BY <2>1, NothingPublished DEF treeVars
    <2>3. stage' = "normalize_problem" /\ stage' \in AllSteps
      BY <2>1, Order DEF AllSteps, Form!StepNames
    <2>4. stage' \notin Others  BY <1>4, <2>3
    <2>5. Ordered'
      <3>1. Form!StepOrder' = Form!StepOrder  BY <1>1 DEF Form!StepOrder
      <3>2. completed' = <<>> /\ completed' \in Seq(AllSteps)
        BY <1>1 DEF FormInv, Ordered
      <3>3. 1 \in DOMAIN Form!StepOrder  BY Order
      <3>4. Len(completed') + 1 = 1  BY <3>2
      <3>5. stage' # "grounding" /\ stage' # "precedents"  BY <2>3
      <3> QED  BY <2>1, <2>3, <3>1, <3>2, <3>3, <3>4, <3>5 DEF Ordered
    <2>6. Settled'
      <3>1. Form!Pending' = Form!Pending  BY DEF Form!Pending
      <3> QED  BY <1>1, <1>2, <1>5, <2>1, <2>2, <2>4, <3>1 DEF Settled, Others
    <2>7. Laned'  BY <1>1, <1>2, <2>1, <2>4, NoneIsNoStep DEF Laned, Others
    <2> QED  BY <1>3, <2>5, <2>6, <2>7 DEF FormInv
  <1> QED  BY <1>6, <1>7

LEMMA ConstraintsKeep ==
  ASSUME FormInv, Publish, Form!ExtractConstraints
  PROVE  FormInv'
  <1>1. /\ stage = "extract_constraints" /\ stage' = "precedents"
        /\ completed' = Append(completed, stage) /\ refusals' = <<>>
        /\ UNCHANGED <<provided, front, background, abandoned, outcome>>
    BY DEF Form!ExtractConstraints, Form!lanes
  <1>2. UNCHANGED phase  BY <1>1, NothingPublished DEF treeVars
  <1>3. stage \in AllSteps /\ stage \notin Others
    BY <1>1, OthersAreNoSteps DEF AllSteps, Form!StepNames
  <1>4. "precedents" \notin AllSteps  BY OthersAreNoSteps DEF Others
  <1>5. Ordered'
    <2>1. completed \in Seq(AllSteps) /\ Len(completed) + 1 \in DOMAIN Form!StepOrder
          /\ Form!StepOrder[Len(completed) + 1] = "extract_constraints"
      BY <1>1, <1>3 DEF FormInv, Ordered
    <2>2. Len(completed) + 1 = 2  BY <2>1, OrderOnce
    <2>3. completed' \in Seq(AllSteps) /\ Len(completed') = 2  BY <1>1, <1>3, <2>1, <2>2
    <2> QED  BY <1>1, <1>4, <2>3 DEF Ordered, Others
  <1>6. outcome = Form!Pending /\ front # "absent" /\ phase # "published"
    BY <1>3 DEF FormInv, Settled, Laned, Others
  <1>7. Settled'
    <2>1. Form!Pending' = Form!Pending  BY DEF Form!Pending
    <2> QED  BY <1>1, <1>2, <1>6, <2>1 DEF Settled, Form!Pending
  <1>8. Laned'  BY <1>1, <1>6 DEF FormInv, Laned
  <1>9. Retried'  BY <1>1 DEF Retried, Form!RetriesChangeTheOdds
  <1> QED  BY <1>5, <1>7, <1>8, <1>9 DEF FormInv

LEMMA JoinsKeep ==
  ASSUME FormInv, Publish, Form!JoinForPriorArt \/ Form!JoinFront
  PROVE  FormInv'
  <1>1. /\ stage \in {"precedents", "joining"} /\ front \in {"built", "failed"}
        /\ UNCHANGED <<provided, refusals, completed, front, background, abandoned>>
        /\ outcome.status # "promoted" /\ phase # "published"
    BY DEF Form!JoinForPriorArt, Form!JoinFront, Form!work, Form!lanes,
           FormInv, Laned, Settled, Form!Pending
  <1>2. \A x \in Others : x \notin AllSteps  BY OthersAreNoSteps
  <1>3. CASE front = "failed"
    <2>1. /\ stage' = "ended"
          /\ outcome' = [status |-> "raised", step |-> "precedents", mode |-> None]
      BY <1>1, <1>3 DEF Form!JoinForPriorArt, Form!JoinFront, Form!Ends
    <2>2. UNCHANGED phase  BY <2>1, NothingPublished DEF treeVars
    <2>3. Ordered'  BY <1>1, <1>2, <2>1 DEF FormInv, Ordered, Others
    <2>4. Settled'  BY <1>1, <2>1, <2>2 DEF Settled
    <2>5. Laned'
      <3>1. outcome'.status = "raised" /\ outcome'.step = "precedents"  BY <2>1
      <3>2. "precedents" \notin AllSteps  BY <1>2 DEF Others
      <3> QED  BY <1>1, <2>1, <3>1, <3>2 DEF FormInv, Laned
    <2>6. Retried'
      <3>1. stage' \notin Form!Asking'
        <4>1. Form!Asking' = Form!Asking
          BY <1>1 DEF Form!Asking, Form!Steps, Form!StepOrder
        <4> QED  BY <1>2, <2>1, <4>1, StepsAre DEF Others
      <3> QED  BY <1>1, <3>1 DEF FormInv, Retried, Form!RetriesChangeTheOdds
    <2> QED  BY <2>3, <2>4, <2>5, <2>6 DEF FormInv
  <1>4. CASE front = "built" /\ stage = "precedents"
    <2>1. stage' = "build_prior_art_map" /\ outcome' = outcome
      BY <1>1, <1>4 DEF Form!JoinForPriorArt, Form!JoinFront
    <2>2. UNCHANGED phase  BY <2>1, NothingPublished DEF treeVars
    <2>3. stage' \in AllSteps /\ stage' \notin Others
      BY <1>2, <2>1 DEF AllSteps, Form!StepNames
    <2>4. Ordered'
      <3>1. Form!StepOrder' = Form!StepOrder  BY <1>1 DEF Form!StepOrder
      <3>2. completed \in Seq(AllSteps) /\ Len(completed) = 2
        BY <1>4 DEF FormInv, Ordered
      <3>4. completed' \in Seq(AllSteps) /\ Len(completed') + 1 = 3
        BY <1>1, <3>2
      <3>3. 3 \in DOMAIN Form!StepOrder /\ Form!StepOrder[3] = "build_prior_art_map"
        BY Order
      <3> QED  BY <2>1, <2>3, <3>1, <3>4, <3>3 DEF Ordered, Others
    <2>5. outcome = Form!Pending  BY <1>4 DEF FormInv, Settled
    <2>6. Settled'
      <3>1. Form!Pending' = Form!Pending  BY DEF Form!Pending
      <3> QED  BY <1>1, <2>1, <2>2, <2>3, <2>5, <3>1 DEF FormInv, Settled, Others, Form!Pending
    <2>7. Laned'  BY <1>1, <1>4, <2>1, <2>3 DEF FormInv, Laned, Others
    <2>8. Retried'
      BY <1>1, <1>4 DEF FormInv, Ordered, Retried, Form!RetriesChangeTheOdds
    <2> QED  BY <2>4, <2>6, <2>7, <2>8 DEF FormInv
  <1>5. CASE front = "built" /\ stage = "joining"
    <2>1. /\ outcome' = outcome
          /\ stage' = IF outcome = Form!Pending THEN "preparing" ELSE "draining"
      BY <1>1, <1>5 DEF Form!JoinForPriorArt, Form!JoinFront
    <2>2. UNCHANGED phase  BY <2>1, NothingPublished DEF treeVars
    <2>3. Ordered'  BY <1>1, <1>2, <2>1 DEF FormInv, Ordered, Others
    <2>4. Settled'
      <3>1. Form!Pending' = Form!Pending  BY DEF Form!Pending
      <3> QED  BY <1>1, <1>5, <2>1, <2>2, <3>1 DEF FormInv, Settled
    <2>5. Laned'  BY <1>1, <1>5, <2>1 DEF FormInv, Laned
    <2>6. Retried'
      <3>1. stage' \notin Form!Asking'
        <4>1. Form!Asking' = Form!Asking
          BY <1>1 DEF Form!Asking, Form!Steps, Form!StepOrder
        <4> QED  BY <1>2, <2>1, <4>1, StepsAre DEF Others
      <3> QED  BY <1>1, <3>1 DEF FormInv, Retried, Form!RetriesChangeTheOdds
    <2> QED  BY <2>3, <2>4, <2>5, <2>6 DEF FormInv
  <1> QED  BY <1>1, <1>3, <1>4, <1>5

LEMMA EndingKeeps ==
  ASSUME FormInv, Publish, Form!Prepare \/ Form!Promote \/ Form!Drain
  PROVE  FormInv'
  <1>1. /\ stage \in {"preparing", "promoting", "draining"} /\ front = "built"
        /\ stage' \in {"promoting", "draining", "ended"}
        /\ UNCHANGED <<provided, refusals, completed, front, background>>
    BY DEF Form!Prepare, Form!Promote, Form!Drain, Form!work, Form!lanes, FormInv, Laned
  <1>2. \A x \in Others : x \notin AllSteps  BY OthersAreNoSteps
  <1>3. Ordered'  BY <1>1, <1>2 DEF FormInv, Ordered, Others
  <1>4. Retried'
    <2>1. Form!Asking' = Form!Asking
      BY <1>1 DEF Form!Asking, Form!Steps, Form!StepOrder
    <2>2. stage' \notin Form!Asking'  BY <1>1, <1>2, <2>1, StepsAre DEF Others
    <2> QED  BY <1>1, <2>2 DEF FormInv, Retried, Form!RetriesChangeTheOdds
  <1>5. Form!Pending' = Form!Pending /\ Form!Pending.status = "pending"
    BY DEF Form!Pending
  <1>6. CASE Form!Prepare
    <2>1. /\ stage = "preparing" /\ outcome = Form!Pending /\ phase # "published"
          /\ \/ stage' = "promoting" /\ outcome' = outcome
             \/ stage' = "draining" /\ outcome'.status = "needs_work"
      BY <1>6 DEF Form!Prepare, Form!Ends, FormInv, Settled
    <2>2. UNCHANGED phase  BY <2>1, NothingPublished DEF treeVars
    <2>3. Settled'  BY <1>5, <2>1, <2>2 DEF Settled
    <2>4. Laned'  BY <1>1, <2>1 DEF FormInv, Laned
    <2> QED  BY <1>3, <1>4, <2>3, <2>4 DEF FormInv
  <1>7. CASE Form!Promote
    <2>1. /\ stage = "promoting" /\ outcome = Form!Pending /\ phase # "published"
          /\ \/ stage' = "draining" /\ outcome'.status = "promoted" /\ outcome'.step = None
             \/ stage' = "ended" /\ outcome'.status = "raised"
      BY <1>7 DEF Form!Promote, Form!Ends, FormInv, Settled
    <2>2. outcome'.status # "promoted" => UNCHANGED phase
      BY NothingPublished DEF treeVars
    <2>3. Settled'  BY <1>5, <2>1, <2>2 DEF Settled
    <2>4. Laned'  BY <1>1, <2>1 DEF FormInv, Laned
    <2> QED  BY <1>3, <1>4, <2>3, <2>4 DEF FormInv
  <1>8. CASE Form!Drain
    <2>1. /\ stage = "draining" /\ stage' = "ended" /\ outcome' = outcome
          /\ abandoned' = (background # "done")
      BY <1>8 DEF Form!Drain
    <2>2. UNCHANGED phase  BY <2>1, NothingPublished DEF treeVars
    <2>3. Settled'  BY <1>5, <2>1, <2>2 DEF FormInv, Settled
    <2>4. background = "running" => abandoned'  BY <2>1
    <2>5. Laned'  BY <1>1, <2>1, <2>4 DEF FormInv, Laned
    <2> QED  BY <1>3, <1>4, <2>3, <2>5 DEF FormInv
  <1> QED  BY <1>6, <1>7, <1>8

LEMMA LanesKeep ==
  ASSUME FormInv, Publish, Form!FrontEnds \/ Form!BackgroundEnds
  PROVE  FormInv'
  <1>1. UNCHANGED <<provided, stage, refusals, completed, outcome>>
    BY DEF Form!FrontEnds, Form!BackgroundEnds, Form!work
  <1>2. UNCHANGED phase  BY <1>1, NothingPublished DEF treeVars
  <1>3. Ordered'  BY <1>1 DEF FormInv, Ordered, Form!StepOrder
  <1>4. Settled'  BY <1>1, <1>2 DEF FormInv, Settled, Form!Pending
  <1>5. Laned'
    <2>1. CASE Form!FrontEnds
      BY <1>1, <2>1 DEF Form!FrontEnds, FormInv, Laned
    <2>2. CASE Form!BackgroundEnds
      BY <1>1, <2>2 DEF Form!BackgroundEnds, FormInv, Laned
    <2> QED  BY <2>1, <2>2
  <1>6. Retried'
    BY <1>1 DEF FormInv, Retried, Form!RetriesChangeTheOdds, Form!Asking, Form!Steps, Form!StepOrder
  <1> QED  BY <1>3, <1>4, <1>5, <1>6 DEF FormInv

\* The return to the caller; afterwards nothing of forming is left.
LEMMA ReturnKeeps ==
  ASSUME FormInv, Return
  PROVE  FormInv'
  <1>1. /\ stage = "ended" /\ stage' = "ended" /\ outcome' = outcome
        /\ outcome.status = "promoted" /\ outcome.step = None
        /\ phase' = "reviewed" /\ refusals' = <<>> /\ completed' = <<>>
        /\ front' = "absent" /\ background' = "absent"
    BY DEF Return, FormInv, Settled
  <1>2. \A x \in Others : x \notin AllSteps  BY OthersAreNoSteps
  <1>3. Ordered'  BY <1>1, <1>2 DEF Ordered, Others
  <1>4. Settled'  BY <1>1 DEF Settled
  <1>5. Laned'  BY <1>1, NoneIsNoStep DEF Laned
  <1>6. Retried'  BY <1>1 DEF Retried, Form!RetriesChangeTheOdds
  <1> QED  BY <1>3, <1>4, <1>5, <1>6 DEF FormInv

LEMMA RevisingKeeps ==
  ASSUME FormInv, Revising \/ UNCHANGED approachVars
  PROVE  FormInv'
  <1>1. UNCHANGED formVars  BY DEF Revising, approachVars
  <1>2. phase' = "published" => phase = "published"
    BY DEF Revising, approachVars, treeVars, Rev!Next, Rev!Review, Rev!Begin, Rev!RevisePatterns,
           Rev!RebuildPatterns, Rev!ReviseCandidates, Rev!RegenerateCandidates, Rev!Decide,
           Rev!StepDone, Rev!Prepare, Rev!Reconcile, Rev!Commit, Rev!NeedsWork
  <1>3. Ordered'  BY <1>1 DEF formVars, FormInv, Ordered, Form!StepOrder
  <1>4. Settled'  BY <1>1, <1>2 DEF formVars, FormInv, Settled, Form!Pending
  <1>5. Laned'  BY <1>1 DEF formVars, FormInv, Laned
  <1>6. Retried'
    BY <1>1 DEF formVars, FormInv, Retried, Form!RetriesChangeTheOdds, Form!Asking, Form!Steps,
                Form!StepOrder
  <1> QED  BY <1>3, <1>4, <1>5, <1>6 DEF FormInv

LEMMA FormationKeeps ==
  ASSUME FormInv, Form!Next, Publish
  PROVE  FormInv'
  <1>1. CASE \E defects \in Form!Defects : Form!Refused(defects)
    BY <1>1, RefusedKeeps
  <1>2. CASE Form!CarrierFails \/ Form!GroundingExhausted \/ Form!ProblemUnparsable
    BY <1>2, FailuresKeep
  <1>3. CASE \E confirms \in BOOLEAN : Form!Ground(confirms)
    BY <1>3, GroundKeeps
  <1>4. CASE Form!NormalizeProblem \/ Form!BuildPriorArtMap \/ Form!SelectApproach
             \/ Form!ImplementationStrategy \/ Form!DomainSpecification
             \/ Form!RightSizePatchPlan
    <2>1. stage \in AllSteps /\ Form!Complete(stage)
      BY <1>4 DEF Form!NormalizeProblem, Form!BuildPriorArtMap, Form!SelectApproach,
         Form!ImplementationStrategy, Form!DomainSpecification, Form!RightSizePatchPlan,
         AllSteps, Form!StepNames
    <2> QED  BY <2>1, AcceptedKeeps
  <1>5. CASE Form!SurfaceRisks
    <2>1. stage = "surface_risks" /\ stage \in AllSteps
      BY <1>5 DEF Form!SurfaceRisks, AllSteps, Form!StepNames
    <2>2. \/ Form!Complete(stage)
          \/ Form!StepFails(None) /\ UNCHANGED refusals
      BY <1>5 DEF Form!SurfaceRisks
    <2> QED  BY <2>1, <2>2, AcceptedKeeps, FailuresKeep
  <1>6. CASE Form!ExtractConstraints  BY <1>6, ConstraintsKeep
  <1>7. CASE Form!JoinForPriorArt \/ Form!JoinFront  BY <1>7, JoinsKeep
  <1>8. CASE (\E id \in Candidates : Form!GenerateCandidate(id)) \/ Form!EvaluateCandidate
    <2>1. stage \in AllSteps
      BY <1>8 DEF Form!GenerateCandidate, Form!EvaluateCandidate, AllSteps, Form!StepNames
    <2>2. \/ Form!Complete(stage)
          \/ refusals' = <<>> /\ UNCHANGED <<provided, stage, completed, Form!lanes, outcome>>
      BY <1>8 DEF Form!GenerateCandidate, Form!EvaluateCandidate
    <2> QED  BY <2>1, <2>2, AcceptedKeeps, NextNodeKeeps
  <1>9. CASE Form!Prepare \/ Form!Promote \/ Form!Drain  BY <1>9, EndingKeeps
  <1>10. CASE Form!FrontEnds \/ Form!BackgroundEnds  BY <1>10, LanesKeep
  <1> QED
    BY <1>1, <1>2, <1>3, <1>4, <1>5, <1>6, <1>7, <1>8, <1>9, <1>10 DEF Form!Next, Form!Caller

LEMMA FormInvHolds == ApproachSpec => []FormInv
  <1>1. FormInv /\ [ApproachNext]_approachVars => FormInv'
    BY FormationKeeps, ReturnKeeps, RevisingKeeps DEF ApproachNext, Formation
  <1> QED  BY <1>1, FormInvInit, PTL DEF ApproachSpec

\* While a step goes on asking, no two consecutive refusals share a defect, for any
\* number of attempts (RejectionRetryState in the loops of all steps).
THEOREM RetriesChange == ApproachSpec => []RetriesChangeTheOdds
  BY FormInvHolds, FormInvImplies, PTL

\* No request is sent back for its approach while the failure of its precedents goes
\* unseen: whatever step fails, the front is joined first (produce_patch_series).
THEOREM PrecedentsComeFirst == ApproachSpec => []PrecedentFailureFirst
  BY FormInvHolds, FormInvImplies, PTL

\* A request that is answered leaves no background build running that was neither
\* waited for nor named (_drain_background_precedent_builds).
THEOREM NoneLeftRunning == ApproachSpec => []NoStragglers
  BY FormInvHolds, FormInvImplies, PTL

-----------------------------------------------------------------------------
(* What has been formed. *)

\* The steps completed are the first ones of the order.
InOrder ==
  /\ Len(completed) <= Len(Form!StepOrder)
  /\ \A i \in 1..Len(completed) : completed[i] = Form!StepOrder[i]

\* Candidates have ids of their own and are evaluated in the order in which they
\* were generated; a provided approach has none.
Weighed ==
  /\ candidates \in Seq(Candidates) /\ evaluated \in Seq(Candidates)
  /\ \A i, j \in 1..Len(candidates) : candidates[i] = candidates[j] => i = j
  /\ Len(evaluated) <= Len(candidates)
  /\ \A i \in 1..Len(evaluated) : evaluated[i] = candidates[i]
  /\ provided \/ Len(completed) < 3 => candidates = <<>> /\ evaluated = <<>>
  /\ ~provided =>
       /\ Len(completed) = 3 => Len(candidates) < Kinds /\ evaluated = <<>>
       /\ Len(completed) = 4 => Len(candidates) = Kinds /\ Len(evaluated) < Kinds
       /\ Len(completed) >= 5 => Len(candidates) = Kinds /\ Len(evaluated) = Kinds

\* Nothing is prepared, promoted or published before the last step is completed.
Through ==
  \/ stage \in {"preparing", "promoting"}
  \/ stage = "joining" /\ outcome = Form!Pending
  \/ phase = "published"
  => Len(completed) = Len(Form!StepOrder)

Tried ==
  /\ Len(refusals) <= Attempts
  /\ stage \in AllSteps \cup {"grounding"} => Len(refusals) < Attempts

Plain ==
  /\ provided \in BOOLEAN /\ abandoned \in BOOLEAN
  /\ background \in {"absent", "running", "done"}
  /\ outcome.status \in {"pending", "promoted", "needs_work", "needs_confirmation", "raised"}

Formed == InOrder /\ Weighed /\ Through /\ Tried /\ Plain

LEMMA FormedInit == ApproachInit => Formed
  <1> SUFFICES ASSUME ApproachInit PROVE Formed
    OBVIOUS
  <1>0. Attempts \in Nat \ {0}  BY ApproachAssumption
  <1>1. /\ provided \in BOOLEAN /\ stage = "grounding" /\ refusals = <<>> /\ completed = <<>>
        /\ candidates = <<>> /\ evaluated = <<>> /\ background = "absent" /\ abandoned = FALSE
        /\ outcome = Form!Pending /\ phase = "unpublished"
    BY DEF ApproachInit, Form!Init
  <1>2. Form!Pending.status = "pending"  BY DEF Form!Pending
  <1>3. InOrder  BY <1>1, Order DEF InOrder
  <1>4. Weighed  BY <1>1 DEF Weighed
  <1>5. Through  BY <1>1 DEF Through
  <1>6. Tried  BY <1>0, <1>1 DEF Tried
  <1>7. Plain  BY <1>1, <1>2 DEF Plain
  <1> QED  BY <1>3, <1>4, <1>5, <1>6, <1>7 DEF Formed

\* Where the steps about candidates are.
LEMMA OrderOfCandidates ==
  ASSUME NEW i \in DOMAIN Form!StepOrder
  PROVE  /\ Form!StepOrder[i] = "generate_candidates" <=> ~provided /\ i = 4
         /\ Form!StepOrder[i] = "evaluate_candidates" <=> ~provided /\ i = 5
  <1>1. CASE provided
    <2>1. DOMAIN Form!StepOrder = 1..8  BY <1>1 DEF Form!StepOrder
    <2> QED  BY <1>1, <2>1 DEF Form!StepOrder
  <1>2. CASE ~provided
    <2>1. DOMAIN Form!StepOrder = 1..10  BY <1>2 DEF Form!StepOrder
    <2> QED  BY <1>2, <2>1 DEF Form!StepOrder
  <1> QED  BY <1>1, <1>2

LEMMA WorkRests ==
  ASSUME InOrder, Weighed, UNCHANGED <<provided, completed, candidates, evaluated>>
  PROVE  InOrder' /\ Weighed'
  BY DEF InOrder, Weighed, Form!StepOrder

\* A step fails.
LEMMA FailedFormed ==
  ASSUME FormInv, Formed, Publish, NEW mode, stage \in AllSteps \cup {"grounding"},
         Form!StepFails(mode), Len(refusals') <= Attempts
  PROVE  Formed'
  <1>1. /\ outcome' = [status |-> "needs_work", step |-> stage, mode |-> mode]
        /\ stage' \in {"ended", "joining"}
        /\ UNCHANGED <<provided, completed, candidates, evaluated, background, abandoned>>
    BY DEF Form!StepFails, Form!Ends, Form!work, Form!lanes
  <1>2. \A x \in Others : x \notin AllSteps  BY OthersAreNoSteps
  <1>3. UNCHANGED phase  BY <1>1, NothingPublished DEF treeVars
  <1>4. phase # "published"  BY <1>2 DEF FormInv, Settled, Others
  <1>5. outcome' # Form!Pending'  BY <1>1 DEF Form!Pending
  <1>6. InOrder' /\ Weighed'  BY <1>1, WorkRests DEF Formed
  <1>7. Through'  BY <1>1, <1>3, <1>4, <1>5 DEF Through
  <1>8. Tried'  BY <1>1, <1>2 DEF Tried, Others
  <1>9. Plain'  BY <1>1 DEF Formed, Plain
  <1> QED  BY <1>6, <1>7, <1>8, <1>9 DEF Formed

\* The step goes on, with the candidates as they are or one more considered.
LEMMA OngoingFormed ==
  ASSUME FormInv, Formed, Publish, stage \in AllSteps \cup {"grounding"}, Len(refusals') < Attempts,
         UNCHANGED <<provided, stage, completed, Form!lanes, outcome>>, InOrder', Weighed'
  PROVE  Formed'
  <1>1. \A x \in Others : x \notin AllSteps  BY OthersAreNoSteps
  <1>2. UNCHANGED phase  BY NothingPublished DEF treeVars
  <1>3. phase # "published"  BY <1>1 DEF FormInv, Settled, Others
  <1>4. Through'  BY <1>1, <1>2, <1>3 DEF Through, Others
  <1>5. Len(refusals') <= Attempts
    <2>1. Attempts \in Nat /\ Len(refusals) \in Nat  BY ApproachAssumption DEF FormInv, Retried
    <2>2. Len(refusals') < Attempts  OBVIOUS
    <2> QED  BY <2>1, <2>2
  <1>6. Tried'  BY <1>5 DEF Tried
  <1>7. Plain'  BY DEF Formed, Plain, Form!lanes
  <1> QED  BY <1>4, <1>6, <1>7 DEF Formed

\* A step is completed, the candidates as they are afterwards.
LEMMA CompletedFormed ==
  ASSUME FormInv, Formed, Publish, stage \in AllSteps, Form!Complete(stage),
         Weighed'
  PROVE  Formed'
  <1> DEFINE i == Len(completed) + 1
             n == Len(Form!StepOrder)
  <1>0. Attempts \in Nat \ {0}  BY ApproachAssumption
  <1>1. /\ completed' = Append(completed, stage) /\ refusals' = <<>>
        /\ stage' = IF i = n THEN "joining" ELSE Form!StepOrder[i + 1]
        /\ UNCHANGED <<provided, background, abandoned, outcome>>
    BY DEF Form!Complete, Form!lanes
  <1>2. /\ completed \in Seq(AllSteps) /\ i \in DOMAIN Form!StepOrder
        /\ stage = Form!StepOrder[i]
    BY DEF FormInv, Ordered
  <1>3. n \in Nat /\ DOMAIN Form!StepOrder = 1..n  BY Order
  <1>4. Form!StepOrder' = Form!StepOrder  BY <1>1 DEF Form!StepOrder
  <1>5. \A x \in Others : x \notin AllSteps  BY OthersAreNoSteps
  <1>6. UNCHANGED phase  BY <1>1, NothingPublished DEF treeVars
  <1>7. phase # "published" /\ outcome = Form!Pending  BY <1>5 DEF FormInv, Settled, Others
  <1>8. /\ Len(completed') = i /\ completed'[i] = stage
        /\ \A j \in 1..Len(completed) : completed'[j] = completed[j]
    BY <1>1, <1>2
  <1>9. InOrder'
    <2>1. Len(completed') <= n  BY <1>2, <1>3, <1>8
    <2>2. \A j \in 1..i : completed'[j] = Form!StepOrder[j]
      BY <1>2, <1>3, <1>8 DEF Formed, InOrder
    <2> HIDE DEF i, n
    <2> QED  BY <1>4, <1>8, <2>1, <2>2 DEF InOrder, n
  <1>10. i # n => stage' \in AllSteps
    <2>1. CASE i # n
      <3>0. i \in 1..n  BY <1>2, <1>3
      <3> HIDE DEF i, n
      <3>1. i + 1 \in 1..n  BY <1>3, <2>1, <3>0
      <3>2. Form!StepOrder[i + 1] \in AllSteps  BY <1>3, <3>1, OrderSteps
      <3> QED  BY <1>1, <2>1, <3>2
    <2> QED  BY <2>1
  <1> HIDE DEF i, n
  <1>11. Through'
    <2>1. CASE i = n
      BY <1>4, <1>8, <2>1 DEF Through, n
    <2>2. CASE i # n  BY <1>5, <1>6, <1>7, <1>10, <2>2 DEF Through, Others
    <2> QED  BY <2>1, <2>2
  <1>12. Tried'  BY <1>0, <1>1 DEF Tried
  <1>13. Plain'  BY <1>1 DEF Formed, Plain
  <1> QED  BY <1>9, <1>11, <1>12, <1>13 DEF Formed

\* A step about candidates or another is accepted.
LEMMA CandidatesFormed ==
  ASSUME FormInv, Formed, Publish, NEW id \in Candidates, Form!GenerateCandidate(id)
  PROVE  Formed'
  <1>0. Kinds \in Nat \ {0} /\ Attempts \in Nat \ {0}  BY ApproachAssumption
  <1>1. stage = "generate_candidates" /\ stage \in AllSteps
    BY DEF Form!GenerateCandidate, AllSteps, Form!StepNames
  <1>2. /\ ~provided /\ Len(completed) = 3 /\ completed \in Seq(AllSteps)
    <2>1. /\ completed \in Seq(AllSteps) /\ Len(completed) + 1 \in DOMAIN Form!StepOrder
          /\ Form!StepOrder[Len(completed) + 1] = stage
      BY <1>1 DEF FormInv, Ordered
    <2>2. ~provided /\ Len(completed) + 1 = 4  BY <1>1, <2>1, OrderOfCandidates
    <2>0. completed \in Seq(AllSteps)  BY DEF FormInv, Ordered
    <2>3. Len(completed) \in Nat  BY <2>0, LenProperties
    <2> DEFINE n == Len(completed)
    <2>4. n = 3
      <3>1. n \in Nat /\ n + 1 = 4  BY <2>2, <2>3
      <3> HIDE DEF n
      <3> QED  BY <3>1
    <2> QED  BY <2>1, <2>2, <2>4
  <1>3. /\ candidates \in Seq(Candidates) /\ Len(candidates) < Kinds /\ evaluated = <<>>
        /\ \A i, j \in 1..Len(candidates) : candidates[i] = candidates[j] => i = j
        /\ \A i \in 1..Len(candidates) : candidates[i] # id
    BY <1>2 DEF Formed, Weighed, Form!GenerateCandidate, Form!ToSet
  <1>4. candidates' = Append(candidates, id) /\ evaluated' = evaluated
    BY DEF Form!GenerateCandidate
  <1>5. /\ candidates' \in Seq(Candidates) /\ Len(candidates') = Len(candidates) + 1
        /\ candidates'[Len(candidates) + 1] = id
        /\ \A i \in 1..Len(candidates) : candidates'[i] = candidates[i]
        /\ Len(candidates) \in Nat
    BY <1>3, <1>4
  <1>6. \A i, j \in 1..Len(candidates') : candidates'[i] = candidates'[j] => i = j
    <2>1. \A i \in 1..Len(candidates') : i \in 1..Len(candidates) \/ i = Len(candidates) + 1
      BY <1>5
    <2> QED  BY <1>3, <1>5, <2>1
  <1>7. CASE Form!LastKind /\ Form!Complete(stage)
    <2>1. completed' = Append(completed, stage) /\ provided' = provided
      BY <1>7 DEF Form!Complete
    <2>2. Len(completed') = Len(completed) + 1
      BY <1>1, <1>2, <2>1, AppendProperties
    <2>3. Len(completed') = 4  BY <1>2, <2>2
    <2>4. Len(candidates') = Kinds  BY <1>5, <1>7 DEF Form!LastKind
    <2>5. Weighed'  BY <1>0, <1>2, <1>3, <1>4, <1>5, <1>6, <2>1, <2>3, <2>4 DEF Weighed
    <2> QED  BY <1>1, <1>7, <2>5, CompletedFormed
  <1>8. CASE /\ ~Form!LastKind /\ refusals' = <<>>
             /\ UNCHANGED <<provided, stage, completed, Form!lanes, outcome>>
    <2>1. Len(candidates') < Kinds  BY <1>0, <1>3, <1>5, <1>8 DEF Form!LastKind
    <2>2. Weighed'
      <3>1. Len(completed') = Len(completed) /\ provided' = provided  BY <1>8
      <3> QED  BY <1>0, <1>2, <1>3, <1>4, <1>5, <1>6, <2>1, <3>1 DEF Weighed
    <2>3. InOrder'  BY <1>8 DEF Formed, InOrder, Form!StepOrder
    <2>4. Len(refusals') < Attempts  BY <1>0, <1>8
    <2> QED  BY <1>1, <1>8, <2>2, <2>3, <2>4, OngoingFormed
  <1> QED  BY <1>7, <1>8 DEF Form!GenerateCandidate

LEMMA EvaluationsFormed ==
  ASSUME FormInv, Formed, Publish, Form!EvaluateCandidate
  PROVE  Formed'
  <1>0. Kinds \in Nat \ {0} /\ Attempts \in Nat \ {0}  BY ApproachAssumption
  <1>1. stage = "evaluate_candidates" /\ stage \in AllSteps
    BY DEF Form!EvaluateCandidate, AllSteps, Form!StepNames
  <1>2. /\ ~provided /\ Len(completed) = 4 /\ completed \in Seq(AllSteps)
    <2>1. /\ completed \in Seq(AllSteps) /\ Len(completed) + 1 \in DOMAIN Form!StepOrder
          /\ Form!StepOrder[Len(completed) + 1] = stage
      BY <1>1 DEF FormInv, Ordered
    <2>2. ~provided /\ Len(completed) + 1 = 5  BY <1>1, <2>1, OrderOfCandidates
    <2>0. completed \in Seq(AllSteps)  BY DEF FormInv, Ordered
    <2>3. Len(completed) \in Nat  BY <2>0, LenProperties
    <2> DEFINE n == Len(completed)
    <2>4. n = 4
      <3>1. n \in Nat /\ n + 1 = 5  BY <2>2, <2>3
      <3> HIDE DEF n
      <3> QED  BY <3>1
    <2> QED  BY <2>1, <2>2, <2>4
  <1>3. /\ candidates \in Seq(Candidates) /\ evaluated \in Seq(Candidates)
        /\ Len(candidates) = Kinds /\ Len(evaluated) < Kinds
        /\ \A i, j \in 1..Len(candidates) : candidates[i] = candidates[j] => i = j
        /\ \A i \in 1..Len(evaluated) : evaluated[i] = candidates[i]
    BY <1>2 DEF Formed, Weighed
  <1> DEFINE k == Len(evaluated) + 1
  <1>4. evaluated' = Append(evaluated, candidates[k]) /\ candidates' = candidates
    BY DEF Form!EvaluateCandidate
  <1>5. k \in 1..Len(candidates) /\ Len(evaluated) \in Nat  BY <1>0, <1>3
  <1>6. /\ evaluated' \in Seq(Candidates) /\ Len(evaluated') = k
        /\ \A i \in 1..k : evaluated'[i] = candidates[i]
    BY <1>3, <1>4, <1>5
  <1>7. CASE k = Len(candidates) /\ Form!Complete(stage)
    <2>1. completed' = Append(completed, stage) /\ provided' = provided
      BY <1>7 DEF Form!Complete
    <2>2. Len(completed') = Len(completed) + 1
      BY <1>1, <1>2, <2>1, AppendProperties
    <2>3. Len(completed') = 5  BY <1>2, <2>2
    <2>4. Len(evaluated') = Kinds  BY <1>3, <1>6, <1>7
    <2>5. Weighed'  BY <1>2, <1>3, <1>4, <1>5, <1>6, <2>1, <2>3, <2>4 DEF Weighed
    <2> QED  BY <1>1, <1>7, <2>5, CompletedFormed
  <1>8. CASE /\ k # Len(candidates) /\ refusals' = <<>>
             /\ UNCHANGED <<provided, stage, completed, Form!lanes, outcome>>
    <2>1. Len(evaluated') < Kinds  BY <1>0, <1>3, <1>5, <1>6, <1>8
    <2>2. Weighed'
      <3>1. Len(completed') = Len(completed) /\ provided' = provided  BY <1>8
      <3> QED  BY <1>0, <1>2, <1>3, <1>4, <1>5, <1>6, <2>1, <3>1 DEF Weighed
    <2>3. InOrder'  BY <1>8 DEF Formed, InOrder, Form!StepOrder
    <2>4. Len(refusals') < Attempts  BY <1>0, <1>8
    <2> QED  BY <1>1, <1>8, <2>2, <2>3, <2>4, OngoingFormed
  <1> QED  BY <1>7, <1>8 DEF Form!EvaluateCandidate

\* Of the other steps, the completed one is neither of those two.
LEMMA AcceptedFormed ==
  ASSUME FormInv, Formed, Publish, stage \in AllSteps, Form!Complete(stage),
         stage \notin {"generate_candidates", "evaluate_candidates"},
         UNCHANGED <<candidates, evaluated>>
  PROVE  Formed'
  <1> DEFINE i == Len(completed) + 1
  <1>1. completed' = Append(completed, stage) /\ provided' = provided
    BY DEF Form!Complete
  <1>2. /\ completed \in Seq(AllSteps) /\ i \in DOMAIN Form!StepOrder
        /\ stage = Form!StepOrder[i]
    BY DEF FormInv, Ordered
  <1>3. ~provided => i # 4 /\ i # 5  BY <1>2, OrderOfCandidates
  <1> DEFINE d == Len(completed)
             e == Len(completed')
  <1>4. d \in Nat /\ e = d + 1  BY <1>1, <1>2, LenProperties, AppendProperties
  <1>5. Weighed  BY DEF Formed
  <1>6. Kinds \in Nat \ {0}  BY ApproachAssumption
  <1>7. Weighed'
    <2>1. CASE provided  BY <1>1, <1>5, <2>1 DEF Weighed
    <2>2. CASE ~provided /\ e < 3
      BY <1>1, <1>4, <1>5, <2>2 DEF Weighed
    <2>3. CASE ~provided /\ e = 3
      <3>0. d < 3
        <4> HIDE DEF d, e
        <4> QED  BY <1>4, <2>3
      <3>1. candidates = <<>> /\ evaluated = <<>>  BY <1>5, <3>0 DEF Weighed
      <3> QED  BY <1>1, <1>4, <1>5, <1>6, <2>3, <3>1 DEF Weighed
    <2>4. CASE ~provided /\ e >= 6
      BY <1>1, <1>4, <1>5, <2>4 DEF Weighed
    <2>5. i = e  BY <1>4
    <2> HIDE DEF d, e, i
    <2> QED  BY <1>3, <1>4, <2>1, <2>2, <2>3, <2>4, <2>5
  <1> QED  BY <1>7, CompletedFormed

\* The constraints, after which the precedents are awaited, and the joins.
LEMMA ConstraintsFormed ==
  ASSUME FormInv, Formed, Publish, Form!ExtractConstraints
  PROVE  Formed'
  <1>0. Attempts \in Nat \ {0}  BY ApproachAssumption
  <1>1. /\ stage = "extract_constraints" /\ stage' = "precedents" /\ refusals' = <<>>
        /\ completed' = Append(completed, stage)
        /\ UNCHANGED <<provided, candidates, evaluated, background, abandoned, outcome>>
    BY DEF Form!ExtractConstraints, Form!lanes
  <1>2. stage \in AllSteps  BY <1>1 DEF AllSteps, Form!StepNames
  <1>3. completed \in Seq(AllSteps) /\ Len(completed) = 1
    <2>1. /\ completed \in Seq(AllSteps) /\ Len(completed) + 1 \in DOMAIN Form!StepOrder
          /\ Form!StepOrder[Len(completed) + 1] = "extract_constraints"
      BY <1>1, <1>2 DEF FormInv, Ordered
    <2>2. Len(completed) + 1 = 2  BY <2>1, OrderOnce
    <2>0. completed \in Seq(AllSteps)  BY DEF FormInv, Ordered
    <2>3. Len(completed) \in Nat  BY <2>0, LenProperties
    <2> DEFINE n == Len(completed)
    <2>4. n = 1
      <3>1. n \in Nat /\ n + 1 = 2  BY <2>2, <2>3
      <3> HIDE DEF n
      <3> QED  BY <3>1
    <2> QED  BY <2>1, <2>4
  <1>4. /\ Len(completed') = 2 /\ completed'[2] = stage /\ completed'[1] = completed[1]
    <2>1. /\ Len(completed') = Len(completed) + 1 /\ completed'[Len(completed) + 1] = stage
          /\ \A j \in 1..Len(completed) : completed'[j] = completed[j]
      <3>1. completed \in Seq(AllSteps)  BY <1>3
      <3>2. completed' = Append(completed, stage)  BY <1>1
      <3> QED  BY <1>2, <3>1, <3>2, AppendProperties
    <2>2. Len(completed) = 1 /\ 1 \in 1..Len(completed)  BY <1>3
    <2> QED  BY <2>1, <2>2
  <1>5. phase' = phase  BY <1>1, NothingPublished DEF treeVars
  <1>6. phase # "published"  BY <1>1 DEF FormInv, Settled
  <1>7. InOrder'
    <2>1. Form!StepOrder' = Form!StepOrder  BY <1>1 DEF Form!StepOrder
    <2>2. completed[1] = Form!StepOrder[1]  BY <1>3 DEF Formed, InOrder
    <2>3. completed'[2] = Form!StepOrder[2]  BY <1>1, <1>4, Order
    <2>4. \A j \in 1..2 : j = 1 \/ j = 2  OBVIOUS
    <2> QED  BY <1>4, <2>1, <2>2, <2>3, <2>4, Order DEF InOrder
  <1>8. Weighed'  BY <1>1, <1>3, <1>4 DEF Formed, Weighed
  <1>9. Through'  BY <1>1, <1>5, <1>6 DEF Through
  <1>10. Tried'  BY <1>0, <1>1 DEF Tried
  <1>11. Plain'  BY <1>1 DEF Formed, Plain
  <1> QED  BY <1>7, <1>8, <1>9, <1>10, <1>11 DEF Formed

LEMMA JoinsFormed ==
  ASSUME FormInv, Formed, Publish, Form!JoinForPriorArt \/ Form!JoinFront
  PROVE  Formed'
  <1>0. Attempts \in Nat \ {0} /\ Len(refusals) \in Nat
    BY ApproachAssumption DEF FormInv, Retried
  <1>1. /\ stage \in {"precedents", "joining"}
        /\ stage' \in {"ended", "build_prior_art_map", "preparing", "draining"}
        /\ UNCHANGED <<provided, refusals, completed, candidates, evaluated, background, abandoned>>
    BY DEF Form!JoinForPriorArt, Form!JoinFront, Form!work, Form!lanes
  <1>2. \/ outcome' = outcome
        \/ outcome' = [status |-> "raised", step |-> "precedents", mode |-> None]
    BY DEF Form!JoinForPriorArt, Form!JoinFront, Form!Ends
  <1>3. phase # "published"  BY <1>1 DEF FormInv, Settled
  <1>4. phase' = phase  BY <1>2, NothingPublished DEF treeVars
  <1>5. InOrder' /\ Weighed'  BY <1>1, WorkRests DEF Formed
  <1>6. Form!StepOrder' = Form!StepOrder  BY <1>1 DEF Form!StepOrder
  <1>7. stage' = "preparing" => stage = "joining" /\ outcome = Form!Pending
    BY DEF Form!JoinForPriorArt, Form!JoinFront
  <1>8. Through'  BY <1>1, <1>3, <1>4, <1>6, <1>7 DEF Formed, Through
  <1>9. Tried'
    <2>1. stage = "precedents" => refusals = <<>>  BY DEF FormInv, Ordered
    <2>2. stage = "joining" => stage' \notin AllSteps \cup {"grounding"}
      <3>1. stage = "joining" => stage' \in {"ended", "preparing", "draining"}
        BY DEF Form!JoinForPriorArt, Form!JoinFront
      <3> QED  BY <3>1, OthersAreNoSteps DEF Others
    <2> QED  BY <1>0, <1>1, <2>1, <2>2 DEF Formed, Tried
  <1>10. Plain'  BY <1>1, <1>2 DEF Formed, Plain
  <1> QED  BY <1>5, <1>8, <1>9, <1>10 DEF Formed

\* The end of the call.
LEMMA EndingFormed ==
  ASSUME FormInv, Formed, Publish, Form!Prepare \/ Form!Promote \/ Form!Drain
  PROVE  Formed'
  <1>1. /\ stage' \in {"promoting", "draining", "ended"}
        /\ UNCHANGED <<provided, refusals, completed, candidates, evaluated, background>>
        /\ abandoned' \in BOOLEAN
    BY DEF Form!Prepare, Form!Promote, Form!Drain, Form!work, Form!lanes, Formed, Plain
  <1>2. InOrder' /\ Weighed'  BY <1>1, WorkRests DEF Formed
  <1>3. Tried'
    <2>1. \A x \in Others : x \notin AllSteps  BY OthersAreNoSteps
    <2> QED  BY <1>1, <2>1 DEF Formed, Tried, Others
  <1>4. Plain'
    BY <1>1 DEF Formed, Plain, Form!Prepare, Form!Promote, Form!Drain, Form!Ends
  <1>5. Form!StepOrder' = Form!StepOrder  BY <1>1 DEF Form!StepOrder
  <1>6. Through'
    <2>1. CASE Form!Prepare \/ Form!Promote
      <3>1. stage \in {"preparing", "promoting"}  BY <2>1 DEF Form!Prepare, Form!Promote
      <3> QED  BY <1>1, <1>5, <3>1 DEF Formed, Through
    <2>2. CASE Form!Drain
      <3>1. outcome' = outcome /\ stage' = "ended"  BY <2>2 DEF Form!Drain
      <3>2. phase' = phase  BY <3>1, NothingPublished DEF treeVars
      <3> QED  BY <1>1, <1>5, <3>1, <3>2 DEF Formed, Through
    <2> QED  BY <2>1, <2>2
  <1> QED  BY <1>2, <1>3, <1>4, <1>6 DEF Formed

\* What only touches the lanes, or nothing of the forming.
LEMMA RestFormed ==
  ASSUME Formed, UNCHANGED <<provided, stage, refusals, completed, candidates, evaluated, outcome>>,
         abandoned' = abandoned, background' \in {"absent", "running", "done"},
         phase' = "published" => phase = "published"
  PROVE  Formed'
  <1>1. InOrder' /\ Weighed'  BY WorkRests DEF Formed
  <1>2. Form!StepOrder' = Form!StepOrder /\ Form!Pending' = Form!Pending
    BY DEF Form!StepOrder, Form!Pending
  <1>3. Through'  BY <1>2 DEF Formed, Through
  <1>4. Tried'  BY DEF Formed, Tried
  <1>5. Plain'  BY DEF Formed, Plain
  <1> QED  BY <1>1, <1>3, <1>4, <1>5 DEF Formed

LEMMA GroundFormed ==
  ASSUME FormInv, Formed, Publish, NEW confirms \in BOOLEAN, Form!Ground(confirms)
  PROVE  Formed'
  <1>0. Attempts \in Nat \ {0}  BY ApproachAssumption
  <1>1. /\ stage = "grounding" /\ refusals' = <<>>
        /\ UNCHANGED <<provided, completed, candidates, evaluated, background, abandoned>>
        /\ \/ /\ outcome' = [status |-> "needs_confirmation", step |-> None, mode |-> None]
              /\ stage' = "ended"
           \/ stage' = Form!StepOrder[1] /\ outcome' = outcome
    BY DEF Form!Ground, Form!Ends, Form!work
  <1>2. stage' \in {"ended", "normalize_problem"}  BY <1>1, Order
  <1>3. phase' = phase  BY <1>1, NothingPublished DEF treeVars
  <1>4. phase # "published" /\ outcome.status = "pending"
    BY <1>1 DEF FormInv, Settled, Form!Pending
  <1>5. InOrder' /\ Weighed'  BY <1>1, WorkRests DEF Formed
  <1>6. Through'  BY <1>2, <1>3, <1>4 DEF Through
  <1>7. Tried'  BY <1>0, <1>1 DEF Tried
  <1>8. Plain'  BY <1>1 DEF Formed, Plain
  <1> QED  BY <1>5, <1>6, <1>7, <1>8 DEF Formed

\* An answer is refused: asked for again while attempts are left.
LEMMA RefusedFormed ==
  ASSUME FormInv, Formed, Publish, NEW defects \in Form!Defects, Form!Refused(defects)
  PROVE  Formed'
  <1>0. Attempts \in Nat \ {0}  BY ApproachAssumption
  <1>1. /\ stage \in AllSteps \cup {"grounding"} /\ refusals' = Append(refusals, defects)
        /\ refusals \in Seq(SUBSET Atoms) /\ defects \in SUBSET Atoms
    BY StepsAre DEF Form!Refused, Form!Defects, FormInv, Retried
  <1> DEFINE n == Len(refusals)
             m == Len(refusals')
  <1>2. n \in Nat /\ m = n + 1  BY <1>1, AppendProperties, LenProperties
  <1>3. n < Attempts  BY <1>1 DEF Formed, Tried
  <1>4. m <= Attempts
    <2> HIDE DEF n, m
    <2> QED  BY <1>0, <1>2, <1>3
  <1>5. ASSUME NEW mode, Form!StepFails(mode)  PROVE Formed'
    BY <1>1, <1>4, <1>5, FailedFormed
  <1>6. CASE n + 1 < Attempts /\ UNCHANGED <<provided, stage, Form!work, Form!lanes, outcome>>
    <2>1. m < Attempts  BY <1>2, <1>6
    <2>2. UNCHANGED <<provided, completed, candidates, evaluated>>  BY <1>6 DEF Form!work
    <2>3. InOrder' /\ Weighed'  BY <2>2, WorkRests DEF Formed
    <2> QED  BY <1>1, <1>6, <2>1, <2>2, <2>3, OngoingFormed
  <1> QED  BY <1>5, <1>6 DEF Form!Refused

LEMMA FailuresFormed ==
  ASSUME FormInv, Formed, Publish,
         \/ Form!CarrierFails \/ Form!GroundingExhausted \/ Form!ProblemUnparsable
         \/ stage = "surface_risks" /\ Form!StepFails(None) /\ UNCHANGED refusals
  PROVE  Formed'
  <1>1. PICK mode \in {None, "transient-retries-exhausted"} :
          Form!StepFails(mode) /\ UNCHANGED refusals
    BY DEF Form!CarrierFails, Form!GroundingExhausted, Form!ProblemUnparsable
  <1>2. stage \in AllSteps \cup {"grounding"}
    BY StepsAre DEF Form!CarrierFails, Form!GroundingExhausted, Form!ProblemUnparsable,
                    AllSteps, Form!StepNames
  <1>3. Len(refusals') <= Attempts  BY <1>1 DEF Formed, Tried
  <1> QED  BY <1>1, <1>2, <1>3, FailedFormed

LEMMA FormationFormed ==
  ASSUME FormInv, Formed, Form!Next, Publish
  PROVE  Formed'
  <1>1. CASE \E defects \in Form!Defects : Form!Refused(defects)
    BY <1>1, RefusedFormed
  <1>2. CASE Form!CarrierFails \/ Form!GroundingExhausted \/ Form!ProblemUnparsable
    BY <1>2, FailuresFormed
  <1>3. CASE \E confirms \in BOOLEAN : Form!Ground(confirms)
    BY <1>3, GroundFormed
  <1>4. CASE Form!NormalizeProblem \/ Form!BuildPriorArtMap \/ Form!SelectApproach
             \/ Form!ImplementationStrategy \/ Form!DomainSpecification
             \/ Form!RightSizePatchPlan
    <2>1. /\ stage \in AllSteps /\ Form!Complete(stage) /\ UNCHANGED <<candidates, evaluated>>
          /\ stage \notin {"generate_candidates", "evaluate_candidates"}
      BY <1>4 DEF Form!NormalizeProblem, Form!BuildPriorArtMap, Form!SelectApproach,
         Form!ImplementationStrategy, Form!DomainSpecification, Form!RightSizePatchPlan,
         AllSteps, Form!StepNames
    <2> QED  BY <2>1, AcceptedFormed
  <1>5. CASE Form!SurfaceRisks
    <2>1. /\ stage = "surface_risks" /\ stage \in AllSteps
          /\ stage \notin {"generate_candidates", "evaluate_candidates"}
      BY <1>5 DEF Form!SurfaceRisks, AllSteps, Form!StepNames
    <2>2. \/ Form!Complete(stage) /\ UNCHANGED <<candidates, evaluated>>
          \/ Form!StepFails(None) /\ UNCHANGED refusals
      BY <1>5 DEF Form!SurfaceRisks
    <2> QED  BY <2>1, <2>2, AcceptedFormed, FailuresFormed
  <1>6. CASE Form!ExtractConstraints  BY <1>6, ConstraintsFormed
  <1>7. CASE Form!JoinForPriorArt \/ Form!JoinFront  BY <1>7, JoinsFormed
  <1>8. CASE (\E id \in Candidates : Form!GenerateCandidate(id)) \/ Form!EvaluateCandidate
    BY <1>8, CandidatesFormed, EvaluationsFormed
  <1>9. CASE Form!Prepare \/ Form!Promote \/ Form!Drain  BY <1>9, EndingFormed
  <1>10. CASE Form!FrontEnds \/ Form!BackgroundEnds
    <2>1. /\ UNCHANGED <<provided, stage, refusals, completed, candidates, evaluated, outcome>>
          /\ abandoned' = abandoned
          /\ background' \in {"absent", "running", "done"}
      BY <1>10 DEF Form!FrontEnds, Form!BackgroundEnds, Form!work, Formed, Plain
    <2>2. phase' = phase  BY <2>1, NothingPublished DEF treeVars
    <2> QED  BY <2>1, <2>2, RestFormed
  <1> QED
    BY <1>1, <1>2, <1>3, <1>4, <1>5, <1>6, <1>7, <1>8, <1>9, <1>10 DEF Form!Next, Form!Caller

LEMMA ReturnFormed ==
  ASSUME Formed, Return
  PROVE  Formed'
  <1>0. Attempts \in Nat \ {0}  BY ApproachAssumption
  <1>1. /\ provided' = FALSE /\ refusals' = <<>> /\ completed' = <<>> /\ candidates' = <<>>
        /\ evaluated' = <<>> /\ background' = "absent" /\ abandoned' = FALSE
        /\ stage = "ended" /\ stage' = "ended" /\ outcome' = outcome /\ phase' = "reviewed"
    BY DEF Return
  <1>3. InOrder'
    <2>1. Form!StepOrder' = <<"normalize_problem", "extract_constraints", "build_prior_art_map",
         "generate_candidates", "evaluate_candidates",
         "select_approach", "implementation_strategy", "domain_specification",
         "right_size_patch_plan", "surface_risks">>
      BY <1>1 DEF Form!StepOrder
    <2> QED  BY <1>1, <2>1 DEF InOrder
  <1>4. Weighed'  BY <1>1 DEF Weighed
  <1>5. Through'  BY <1>1 DEF Through
  <1>6. Tried'  BY <1>0, <1>1 DEF Tried
  <1>7. Plain'  BY <1>1 DEF Formed, Plain
  <1> QED  BY <1>3, <1>4, <1>5, <1>6, <1>7 DEF Formed

LEMMA FormedNext ==
  ASSUME FormInv, Formed, [ApproachNext]_approachVars
  PROVE  Formed'
  <1>1. CASE Formation  BY <1>1, FormationFormed DEF Formation
  <1>2. CASE Return  BY <1>2, ReturnFormed
  <1>3. CASE Revising \/ UNCHANGED approachVars
    <2>1. UNCHANGED formVars  BY <1>3 DEF Revising, approachVars
    <2>2. phase' = "published" => phase = "published"
      BY <1>3 DEF Revising, approachVars, treeVars, Rev!Next, Rev!Review, Rev!Begin,
             Rev!RevisePatterns, Rev!RebuildPatterns, Rev!ReviseCandidates,
             Rev!RegenerateCandidates, Rev!Decide, Rev!StepDone, Rev!Prepare, Rev!Reconcile,
             Rev!Commit, Rev!NeedsWork
    <2>3. background \in {"absent", "running", "done"}  BY DEF Formed, Plain
    <2> QED  BY <2>1, <2>2, <2>3, RestFormed DEF formVars
  <1> QED  BY <1>1, <1>2, <1>3 DEF ApproachNext

LEMMA FormedHolds == ApproachSpec => [](FormInv /\ Formed)
  <1>1. ApproachInit => FormInv /\ Formed  BY FormInvInit, FormedInit
  <1>2. FormInv /\ Formed /\ [ApproachNext]_approachVars => (FormInv /\ Formed)'
    BY FormationKeeps, ReturnKeeps, RevisingKeeps, FormedNext DEF ApproachNext, Formation
  <1> QED  BY <1>1, <1>2, PTL DEF ApproachSpec

\* Every variable of the forming has its type: in particular no node is asked more
\* often than its attempts allow, and no step is completed that is not in the order.
THEOREM FormingTyped == ApproachSpec => []Form!TypeOK
  <1>1. FormInv /\ Formed => Form!TypeOK
    <2> SUFFICES ASSUME FormInv, Formed PROVE Form!TypeOK
      OBVIOUS
    <2>0. Kinds \in Nat \ {0}  BY ApproachAssumption
    <2>1. stage \in Form!Steps \cup {"grounding", "precedents", "joining", "preparing",
                                     "promoting", "draining", "ended"}
      <3>1. CASE stage \in AllSteps
        BY <3>1 DEF FormInv, Ordered, Form!Steps
      <3> QED  BY <3>1 DEF FormInv, Ordered, Others
    <2>2. completed \in Seq(Form!Steps)
      <3> DEFINE n == Len(completed)
      <3>1. completed \in Seq(AllSteps)  BY DEF FormInv, Ordered
      <3>2. n \in Nat /\ completed \in [1..n -> AllSteps]  BY <3>1, LenProperties
      <3>3. \A i \in 1..n : completed[i] \in Form!Steps
        <4>1. n <= Len(Form!StepOrder) /\ \A i \in 1..n : completed[i] = Form!StepOrder[i]
          BY DEF Formed, InOrder
        <4> HIDE DEF n
        <4>2. \A i \in 1..n : i \in DOMAIN Form!StepOrder  BY <3>2, <4>1, Order
        <4> QED  BY <4>1, <4>2 DEF Form!Steps
      <3> HIDE DEF n
      <3>4. completed \in [1..n -> Form!Steps]  BY <3>2, <3>3
      <3> QED  BY <3>2, <3>4, SeqDef
    <2>3. Len(candidates) <= Kinds
      <3>1. Len(candidates) \in Nat /\ Len(completed) \in Nat
        BY DEF FormInv, Ordered, Formed, Weighed
      <3>2. CASE provided \/ Len(completed) < 3  BY <2>0, <3>2 DEF Formed, Weighed
      <3>3. CASE ~provided /\ Len(completed) >= 3
        <4> DEFINE n == Len(completed)
        <4>1. n = 3 \/ n = 4 \/ n >= 5
          <5>1. n \in Nat /\ n >= 3  BY <3>1, <3>3
          <5> HIDE DEF n
          <5> QED  BY <5>1
        <4>2. Len(candidates) < Kinds \/ Len(candidates) = Kinds
          BY <3>3, <4>1 DEF Formed, Weighed
        <4> QED  BY <2>0, <3>1, <4>2
      <3> QED  BY <3>1, <3>2, <3>3
    <2>4. refusals \in Seq(SUBSET Atoms) /\ Len(refusals) <= Attempts
      BY DEF FormInv, Retried, Formed, Tried
    <2>5. front \in {"absent", "building", "built", "failed"}  BY DEF FormInv, Laned
    <2>6. candidates \in Seq(Candidates) /\ evaluated \in Seq(Candidates)
      BY DEF Formed, Weighed
    <2> QED  BY <2>1, <2>2, <2>3, <2>4, <2>5, <2>6 DEF Formed, Plain, Form!TypeOK
  <1> QED  BY <1>1, FormedHolds, PTL

\* What forming hands on: all steps done in their order, candidates of as many
\* kinds as there are, each with an evaluation, unless the approach was provided.
InFull ==
  phase = "published" =>
    /\ completed = Form!StepOrder
    /\ ~provided =>
         /\ Len(candidates) = Kinds /\ evaluated = candidates
         /\ Rev!IdsOf(tree.candidates) = ToSet(candidates) /\ Rev!Blank(tree) = {}

Handed ==
  phase = "published" /\ ~provided =>
    /\ Rev!IdsOf(tree.candidates) = ToSet(candidates)
    /\ tree.evals = {[of |-> x, judged |-> 0] : x \in ToSet(candidates)}

\* Who is through the steps has evaluated the candidates.
LEMMA ThroughIsInFull ==
  ASSUME FormInv, Formed, Len(completed) = Len(Form!StepOrder)
  PROVE  /\ completed = Form!StepOrder
         /\ ~provided => Len(candidates) = Kinds /\ evaluated = candidates
  <1>1. completed \in Seq(AllSteps)  BY DEF FormInv, Ordered
  <1>2. Form!StepOrder \in Seq(AllSteps)
    <2>1. CASE provided  BY <2>1 DEF Form!StepOrder, AllSteps, Form!StepNames
    <2>2. CASE ~provided  BY <2>2 DEF Form!StepOrder, AllSteps, Form!StepNames
    <2> QED  BY <2>1, <2>2
  <1>3. \A i \in 1..Len(completed) : completed[i] = Form!StepOrder[i]  BY DEF Formed, InOrder
  <1>4. completed = Form!StepOrder  BY <1>1, <1>2, <1>3, SeqEqual
  <1>5. ASSUME ~provided  PROVE Len(candidates) = Kinds /\ evaluated = candidates
    <2>1. Len(completed) >= 5
      <3> DEFINE n == Len(completed)
      <3>1. n \in Nat /\ n >= 8  BY <1>4, Order
      <3> HIDE DEF n
      <3>2. n >= 5  BY <3>1
      <3> QED  BY <3>2 DEF n
    <2>2. /\ Len(candidates) = Kinds /\ Len(evaluated) = Kinds
          /\ candidates \in Seq(Candidates) /\ evaluated \in Seq(Candidates)
          /\ \A i \in 1..Len(evaluated) : evaluated[i] = candidates[i]
      BY <1>5, <2>1 DEF Formed, Weighed
    <2> QED  BY <2>2, SeqEqual
  <1> QED  BY <1>4, <1>5

\* A series becomes promoted by the promotion, and nothing of it changes afterwards.
LEMMA OnlyPromote ==
  ASSUME FormInv, Form!Next, outcome'.status = "promoted", outcome.status # "promoted"
  PROVE  stage = "promoting" /\ UNCHANGED <<provided, candidates, evaluated>>
  <1>1. CASE Form!Promote  BY <1>1 DEF Form!Promote, Form!work
  <1>2. ASSUME ~Form!Promote
        PROVE  outcome' = outcome \/ outcome'.status # "promoted"
    BY <1>2 DEF Form!Next, Form!Caller, Form!Refused, Form!StepFails, Form!Ends, Form!CarrierFails,
       Form!GroundingExhausted, Form!ProblemUnparsable, Form!Ground, Form!NormalizeProblem,
       Form!Complete, Form!ExtractConstraints, Form!JoinForPriorArt, Form!BuildPriorArtMap,
       Form!GenerateCandidate, Form!EvaluateCandidate, Form!SelectApproach,
       Form!ImplementationStrategy, Form!DomainSpecification, Form!RightSizePatchPlan,
       Form!SurfaceRisks, Form!JoinFront, Form!Prepare, Form!Drain, Form!FrontEnds,
       Form!BackgroundEnds
  <1> QED  BY <1>1, <1>2

LEMMA AfterwardsUnchanged ==
  ASSUME FormInv, Form!Next, stage \in {"draining", "ended"}
  PROVE  UNCHANGED <<provided, candidates, evaluated, outcome>>
  <1>1. stage \notin Form!Asking
    <2>1. stage \notin AllSteps \cup {"grounding"}  BY OthersAreNoSteps DEF Others
    <2> QED  BY <2>1, StepsAre
  <1>2. Form!Drain \/ Form!FrontEnds \/ Form!BackgroundEnds
    BY <1>1 DEF Form!Next, Form!Caller, Form!Refused, Form!CarrierFails,
       Form!GroundingExhausted, Form!ProblemUnparsable, Form!Ground, Form!NormalizeProblem,
       Form!ExtractConstraints, Form!JoinForPriorArt, Form!BuildPriorArtMap,
       Form!GenerateCandidate, Form!EvaluateCandidate, Form!SelectApproach,
       Form!ImplementationStrategy, Form!DomainSpecification, Form!RightSizePatchPlan,
       Form!SurfaceRisks, Form!JoinFront, Form!Prepare, Form!Promote
  <1> QED  BY <1>2 DEF Form!Drain, Form!FrontEnds, Form!BackgroundEnds, Form!work

LEMMA HandedNext ==
  ASSUME FormInv, Formed, Handed, [ApproachNext]_approachVars
  PROVE  Handed'
  <1>1. CASE Formation /\ outcome'.status = "promoted" /\ outcome.status # "promoted"
    <2>1. stage = "promoting" /\ UNCHANGED <<provided, candidates, evaluated>>
      BY <1>1, OnlyPromote DEF Formation
    <2>2. PICK t \in Trees : tree' = t
      BY <1>1 DEF Formation, Publish
    <2>3. ASSUME ~provided
          PROVE  /\ Rev!IdsOf(t.candidates) = ToSet(candidates)
                 /\ t.evals = {[of |-> x, judged |-> 0] : x \in ToSet(candidates)}
      <3>1. evaluated = candidates
        BY <2>1, <2>3, ThroughIsInFull DEF Formed, Through
      <3>2. PICK ps \in (SUBSET Patterns) \ {{}}, ids \in FormedIds, c \in Candidates :
              t = [patterns   |-> {Rev!Item(p, None) : p \in ps},
                   candidates |-> {Rev!Item(x, None) : x \in ids},
                   evals      |-> {[of |-> x,
                                    judged |-> IF x \in ToSet(evaluated) THEN 0 ELSE None] :
                                     x \in ids},
                   decision   |-> [selected |-> c, rejected |-> ids \ {c}]]
        BY DEF Trees
      <3>3. ids = ToSet(candidates)  BY <2>3 DEF FormedIds
      <3>4. t.evals = {[of |-> x, judged |-> 0] : x \in ids}
        <4> DEFINE made(x) == [of |-> x, judged |-> IF x \in ToSet(evaluated) THEN 0 ELSE None]
                   full(x) == [of |-> x, judged |-> 0]
        <4>1. t.evals = {made(x) : x \in ids}  BY <3>2
        <4>2. \A x \in ids : x \in ToSet(evaluated)  BY <3>1, <3>3
        <4>3. \A x \in ids : made(x) = full(x)  BY <4>2
        <4> HIDE DEF made, full
        <4>4. t.evals = {full(x) : x \in ids}  BY <4>1, <4>3
        <4> QED  BY <4>4 DEF full
      <3>5. Rev!IdsOf(t.candidates) = ids
        <4>1. t.candidates = {Rev!Item(x, None) : x \in ids}  BY <3>2
        <4>2. \A x : Rev!Item(x, None).id = x  BY DEF Rev!Item
        <4>3. Rev!IdsOf(t.candidates) \subseteq ids  BY <4>1, <4>2 DEF Rev!IdsOf
        <4>4. ids \subseteq Rev!IdsOf(t.candidates)
          <5> SUFFICES ASSUME NEW x \in ids PROVE x \in Rev!IdsOf(t.candidates)
            OBVIOUS
          <5>1. Rev!Item(x, None) \in t.candidates  BY <4>1
          <5> QED  BY <4>2, <5>1 DEF Rev!IdsOf
        <4> QED  BY <4>3, <4>4
      <3> QED  BY <3>3, <3>4, <3>5
    <2> QED  BY <2>1, <2>2, <2>3 DEF Handed, ToSet, Rev!IdsOf
  <1>2. CASE Formation /\ ~(outcome'.status = "promoted" /\ outcome.status # "promoted")
    <2>1. UNCHANGED treeVars  BY <1>2 DEF Formation, Publish
    <2>2. CASE phase = "published"
      <3>1. stage \in {"draining", "ended"}  BY <2>2 DEF FormInv, Settled
      <3>2. UNCHANGED <<provided, candidates>>  BY <1>2, <3>1, AfterwardsUnchanged DEF Formation
      <3> QED  BY <2>1, <3>2 DEF treeVars, Handed, ToSet, Rev!IdsOf
    <2>3. CASE phase # "published"  BY <2>1, <2>3 DEF treeVars, Handed
    <2> QED  BY <2>2, <2>3
  <1>3. CASE Return  BY <1>3 DEF Return, Handed
  <1>4. CASE Revising
    <2>1. phase' # "published"
      BY <1>4 DEF Revising, Rev!Next, Rev!Review, Rev!Begin, Rev!RevisePatterns,
             Rev!RebuildPatterns, Rev!ReviseCandidates, Rev!RegenerateCandidates, Rev!Decide,
             Rev!StepDone, Rev!Running, Rev!Prepare, Rev!Reconcile, Rev!Commit, Rev!NeedsWork
    <2> QED  BY <2>1 DEF Handed
  <1>5. CASE UNCHANGED approachVars
    BY <1>5 DEF approachVars, formVars, treeVars, Handed, ToSet, Rev!IdsOf
  <1> QED  BY <1>1, <1>2, <1>3, <1>4, <1>5 DEF ApproachNext

\* An approach is published after every step of its order, once each, and unless it
\* came with the request it was chosen among candidates of all kinds, every one of
\* them evaluated: the basis that later revisions keep (BasisIsKept) is complete when
\* forming hands the tree over (form_technical_approach, produce_patch_series).
THEOREM PublishedInFull == ApproachSpec => []InFull
  <1>1. ApproachInit => Handed  BY DEF ApproachInit, Handed
  <1>2. (FormInv /\ Formed) /\ Handed /\ [ApproachNext]_approachVars => Handed'
    BY HandedNext
  <1>3. (FormInv /\ Formed) /\ Handed => InFull
    <2> SUFFICES ASSUME FormInv, Formed, Handed, phase = "published" PROVE InFull
      BY DEF InFull
    <2>1. Len(completed) = Len(Form!StepOrder)  BY DEF Formed, Through
    <2>2. /\ completed = Form!StepOrder
          /\ ~provided => Len(candidates) = Kinds /\ evaluated = candidates
      BY <2>1, ThroughIsInFull
    <2>3. ASSUME ~provided  PROVE Rev!Blank(tree) = {}
      <3>1. None # 0  BY NoneAssumption
      <3>2. \A e \in tree.evals : e.judged = 0  BY <2>3 DEF Handed
      <3> QED  BY <3>1, <3>2 DEF Rev!Blank
    <2> QED  BY <2>2, <2>3 DEF InFull, Handed
  <1> QED  BY <1>1, <1>2, <1>3, FormedHolds, PTL DEF ApproachSpec

-----------------------------------------------------------------------------
(* Trees, and what the operators of the revision do with them. *)

\* Of the form of a tree, whatever its items are.
Shaped(t) ==
  t = [patterns |-> t.patterns, candidates |-> t.candidates,
       evals |-> t.evals, decision |-> t.decision]

LEMMA AssembledShaped ==
  ASSUME NEW c, Shaped(c)
  PROVE  /\ Shaped(Rev!Assembled(c))
         /\ Rev!Known(Rev!Assembled(c)) = Rev!Known(c)
         /\ Rev!Assembled(c).candidates = c.candidates
         /\ Rev!Assembled(c).evals =
              {e \in c.evals : e.of \in Rev!IdsOf(c.candidates)}
                \cup {[of |-> x, judged |-> None] :
                        x \in Rev!IdsOf(c.candidates) \ Rev!EvaluatedBy(c.evals)}
  <1> DEFINE evals == {e \in c.evals : e.of \in Rev!IdsOf(c.candidates)}
                        \cup {[of |-> x, judged |-> None] :
                                x \in Rev!IdsOf(c.candidates) \ Rev!EvaluatedBy(c.evals)}
  <1>1. Rev!Assembled(c) = [c EXCEPT !.evals = evals]
    BY DEF Rev!Assembled
  <1> HIDE DEF evals
  <1>2. Rev!Assembled(c) = [patterns |-> c.patterns, candidates |-> c.candidates,
                            evals |-> evals, decision |-> c.decision]
    BY <1>1 DEF Shaped
  <1> QED  BY <1>2 DEF Shaped, evals, Rev!Known

LEMMA ReconciledShaped ==
  ASSUME NEW t, NEW successor, Shaped(t)
  PROVE  /\ Shaped(Rev!Reconciled(t, successor))
         /\ Rev!Known(Rev!Reconciled(t, successor)) = Rev!Known(t)
  <1> DEFINE Onto(items) ==
        {[id |-> i.id, follows |-> i.follows,
          reconciled |-> i.reconciled \cup {x \in DOMAIN successor : successor[x] = i.id}] :
           i \in items}
             r == Rev!Reconciled(t, successor)
  <1>1. ASSUME NEW items  PROVE Rev!IdsOf(Onto(items)) = Rev!IdsOf(items)
    <2>1. ASSUME NEW i \in items  PROVE \E o \in Onto(items) : o.id = i.id
      <3>1. [id |-> i.id, follows |-> i.follows,
             reconciled |-> i.reconciled \cup {x \in DOMAIN successor : successor[x] = i.id}]
              \in Onto(items)
        OBVIOUS
      <3> QED  BY <3>1
    <2>2. ASSUME NEW o \in Onto(items)  PROVE \E i \in items : o.id = i.id
      OBVIOUS
    <2> HIDE DEF Onto
    <2> QED  BY <2>1, <2>2 DEF Rev!IdsOf
  <1>2. r = [t EXCEPT !.patterns = Onto(@), !.candidates = Onto(@)]
    BY DEF Rev!Reconciled
  <1> HIDE DEF Onto, r
  <1>3. r = [patterns |-> Onto(t.patterns), candidates |-> Onto(t.candidates),
             evals |-> t.evals, decision |-> t.decision]
    BY <1>2 DEF Shaped
  <1>4. Shaped(r) /\ r.patterns = Onto(t.patterns) /\ r.candidates = Onto(t.candidates)
    BY <1>3 DEF Shaped
  <1>5. Rev!Known(r) = Rev!Known(t)
    BY <1>1, <1>4 DEF Rev!Known
  <1> QED  BY <1>4, <1>5 DEF r

\* What an anchored item is replaced by is an item of the tree that the gate judged.
LEMMA DeclaredByItems ==
  ASSUME NEW t, NEW d \in Rev!Declarations(t)
  PROVE  d.new \in Rev!Known(t)
  <1>1. PICK i \in t.patterns \cup t.candidates :
          d \in {[old |-> x, new |-> i.id] : x \in (i.reconciled \cup {i.follows}) \ {None}}
    BY DEF Rev!Declarations
  <1>2. d.new = i.id  BY <1>1
  <1> QED  BY <1>2 DEF Rev!Known, Rev!IdsOf

\* Every candidate is evaluated after the refresh, and nothing is evaluated anew but now.
LEMMA RefreshCovers ==
  ASSUME NEW evals, NEW ids, reforms \in Nat
  PROVE  /\ ids \subseteq Rev!EvaluatedBy(Rev!Refreshed(evals, ids))
         /\ \A e \in Rev!Refreshed(evals, ids) : e \in evals \/ e.judged = reforms + 1
  <1>1. CASE Rev!EvaluatedBy(evals) = ids
    BY <1>1 DEF Rev!Refreshed
  <1>2. CASE Rev!EvaluatedBy(evals) # ids
    <2> DEFINE kept  == {e \in evals : e.of \in ids}
               fresh == Rev!Fresh(ids \ Rev!EvaluatedBy(evals))
    <2>1. Rev!Refreshed(evals, ids) = kept \cup fresh
      BY <1>2 DEF Rev!Refreshed
    <2>2. \A e \in fresh : e.judged = reforms + 1
      BY DEF Rev!Fresh
    <2>3. ASSUME NEW c \in ids  PROVE \E e \in kept \cup fresh : e.of = c
      <3>1. CASE c \in Rev!EvaluatedBy(evals)
        BY <3>1 DEF Rev!EvaluatedBy
      <3>2. CASE c \notin Rev!EvaluatedBy(evals)
        <4>1. [of |-> c, judged |-> reforms + 1] \in fresh
          BY <3>2 DEF Rev!Fresh
        <4> QED  BY <4>1
      <3> QED  BY <3>1, <3>2
    <2> HIDE DEF kept, fresh
    <2>4. ids \subseteq Rev!EvaluatedBy(kept \cup fresh)
      BY <2>3 DEF Rev!EvaluatedBy
    <2> QED  BY <2>1, <2>2, <2>4 DEF kept
  <1> QED  BY <1>1, <1>2

\* The decision is formed last.
LEMMA DecisionIsLast ==
  ASSUME todo \subseteq {"prior_art", "candidates", "decision"}, todo # {}
  PROVE  /\ Rev!NextStep \in todo
         /\ Rev!NextStep = "decision" => todo = {"decision"}
  <1> DEFINE places == {i \in DOMAIN Rev!StepOrder : Rev!StepOrder[i] \in todo}
  <1>1. /\ DOMAIN Rev!StepOrder = 1..3 /\ Rev!StepOrder[1] = "prior_art"
        /\ Rev!StepOrder[2] = "candidates" /\ Rev!StepOrder[3] = "decision"
    BY DEF Rev!StepOrder
  <1>2. places \subseteq 1..3 /\ places # {}
    <2>1. /\ "prior_art" \in todo => 1 \in places
          /\ "candidates" \in todo => 2 \in places
          /\ "decision" \in todo => 3 \in places
      BY <1>1
    <2>2. places \subseteq 1..3  BY <1>1
    <2> HIDE DEF places
    <2> QED  BY <2>1, <2>2
  <1>3. \E x \in places : \A y \in places : x =< y
    <2>1. CASE 1 \in places  BY <1>2, <2>1
    <2>2. CASE 1 \notin places /\ 2 \in places  BY <1>2, <2>2
    <2>3. CASE 1 \notin places /\ 2 \notin places  BY <1>2, <2>3
    <2> QED  BY <2>1, <2>2, <2>3
  <1>4. Rev!Min(places) \in places /\ \A y \in places : Rev!Min(places) =< y
    BY <1>3 DEF Rev!Min
  <1>5. Rev!NextStep = Rev!StepOrder[Rev!Min(places)]  BY DEF Rev!NextStep
  <1>6. Rev!NextStep \in todo  BY <1>4, <1>5
  <1>7. ASSUME Rev!NextStep = "decision"  PROVE todo = {"decision"}
    <2>1. Rev!Min(places) = 3
      <3>1. Rev!Min(places) \in 1..3  BY <1>2, <1>4
      <3>2. Rev!Min(places) # 1 /\ Rev!Min(places) # 2  BY <1>1, <1>5, <1>7
      <3> HIDE DEF places
      <3> QED  BY <3>1, <3>2
    <2>2. 1 \notin places /\ 2 \notin places
      <3> HIDE DEF places
      <3> QED  BY <1>4, <2>1
    <2>3. "prior_art" \notin todo /\ "candidates" \notin todo  BY <1>1, <2>2
    <2> QED  BY <2>3
  <1> QED  BY <1>6, <1>7

LEMMA AffectedAre ==
  ASSUME NEW t, NEW a
  PROVE  Rev!Affected(t, a) \subseteq {"prior_art", "candidates", "decision"}
  <1>1. Rev!ToSet(Rev!StepOrder) \subseteq {"prior_art", "candidates", "decision"}
    <2>1. DOMAIN Rev!StepOrder = 1..3  BY DEF Rev!StepOrder
    <2> QED  BY <2>1 DEF Rev!ToSet, Rev!StepOrder
  <1> QED  BY <1>1 DEF Rev!Affected

-----------------------------------------------------------------------------
(* Where a revision stands. *)

\* Until the decision is formed again the evaluations are those of the tree; since
\* then they are the refreshed ones of the candidates, which no step changes any more.
Basis ==
  /\ "decision" \in todo => work.evals = tree.evals
  /\ "decision" \in Rev!Affected(tree, anchors) \ todo =>
       /\ todo = {}
       /\ work.evals = Rev!Refreshed(tree.evals, Rev!IdsOf(work.candidates))

\* What is published was assembled from the work; what the gate judges has its items.
RevInv ==
  /\ reforms \in Nat
  /\ Shaped(tree) /\ Shaped(work) /\ Shaped(prepared) /\ Shaped(revised)
  /\ phase \in {"revising", "gate", "reconciled"} =>
       todo \subseteq Rev!Affected(tree, anchors) /\ Basis
  /\ phase \in {"gate", "reconciled"} =>
       /\ prepared = Rev!Assembled(work) /\ Rev!Known(revised) = Rev!Known(prepared)
       /\ todo = {}

LEMMA RevInvInit == ApproachInit => RevInv
  BY DEF ApproachInit, RevInv, NoTree, Shaped

LEMMA PublishKeepsTrees ==
  ASSUME RevInv, Publish
  PROVE  RevInv' /\ reforms' = reforms
  <1>1. CASE UNCHANGED treeVars
    BY <1>1 DEF treeVars, RevInv, Basis, Shaped, Rev!Affected, Rev!Refreshed, Rev!Fresh
  <1>2. CASE \E t \in Trees :
               /\ tree' = t /\ work' = t /\ prepared' = t /\ revised' = t
               /\ phase' = "published"
               /\ UNCHANGED <<anchors, todo, reforms>>
    <2>1. PICK t \in Trees :
               /\ tree' = t /\ work' = t /\ prepared' = t /\ revised' = t
               /\ phase' = "published"
               /\ UNCHANGED <<anchors, todo, reforms>>
      BY <1>2
    <2>2. Shaped(t)
      <3>1. \E ps, cs, es, d : t = [patterns |-> ps, candidates |-> cs, evals |-> es, decision |-> d]
        BY DEF Trees
      <3> QED  BY <3>1 DEF Shaped
    <2>3. Shaped(tree)' /\ Shaped(work)' /\ Shaped(prepared)' /\ Shaped(revised)'
      BY <2>1, <2>2 DEF Shaped
    <2> QED  BY <2>1, <2>3 DEF RevInv
  <1> QED  BY <1>1, <1>2 DEF Publish

LEMMA StepKeeps ==
  ASSUME RevInv, phase = "revising", todo # {}, Rev!NextStep # "decision",
         NEW c, Shaped(c), c.evals = work.evals, Rev!StepDone(c)
  PROVE  RevInv'
  <1>1. /\ work' = c /\ todo' = todo \ {Rev!NextStep}
        /\ UNCHANGED <<tree, anchors, phase, prepared, revised, reforms>>
    BY DEF Rev!StepDone
  <1>2. todo \subseteq Rev!Affected(tree, anchors) /\ Basis  BY DEF RevInv
  <1>3. Rev!Affected(tree, anchors)' = Rev!Affected(tree, anchors)
    BY <1>1 DEF Rev!Affected
  <1>4. "decision" \in todo' <=> "decision" \in todo  BY <1>1
  <1>5. "decision" \notin Rev!Affected(tree, anchors) \ todo  BY <1>2 DEF Basis
  <1>6. Basis'  BY <1>1, <1>2, <1>3, <1>4, <1>5 DEF Basis
  <1>7. todo' \subseteq Rev!Affected(tree, anchors)  BY <1>1, <1>2
  <1> QED  BY <1>1, <1>3, <1>6, <1>7 DEF RevInv, Shaped

LEMMA PatternsShaped ==
  ASSUME NEW c, NEW items, Shaped(c)
  PROVE  Shaped([c EXCEPT !.patterns = items]) /\ [c EXCEPT !.patterns = items].evals = c.evals
  <1>1. [c EXCEPT !.patterns = items] = [patterns |-> items, candidates |-> c.candidates,
                                         evals |-> c.evals, decision |-> c.decision]
    BY DEF Shaped
  <1> QED  BY <1>1 DEF Shaped

LEMMA CandidatesShaped ==
  ASSUME NEW c, NEW items, Shaped(c)
  PROVE  Shaped([c EXCEPT !.candidates = items]) /\ [c EXCEPT !.candidates = items].evals = c.evals
  <1>1. [c EXCEPT !.candidates = items] = [patterns |-> c.patterns, candidates |-> items,
                                           evals |-> c.evals, decision |-> c.decision]
    BY DEF Shaped
  <1> QED  BY <1>1 DEF Shaped

LEMMA PatternStepsKeep ==
  ASSUME RevInv, Rev!RevisePatterns \/ Rev!RebuildPatterns
  PROVE  RevInv' /\ reforms' = reforms
  <1>1. /\ phase = "revising" /\ todo # {} /\ Rev!NextStep # "decision"
        /\ \E items : Rev!StepDone([work EXCEPT !.patterns = items])
    BY DEF Rev!RevisePatterns, Rev!RebuildPatterns, Rev!Running
  <1>2. PICK items : Rev!StepDone([work EXCEPT !.patterns = items])  BY <1>1
  <1>3. Shaped(work)  BY DEF RevInv
  <1>4. RevInv'  BY <1>1, <1>2, <1>3, PatternsShaped, StepKeeps
  <1> QED  BY <1>2, <1>4 DEF Rev!StepDone

LEMMA CandidateStepsKeep ==
  ASSUME RevInv, Rev!ReviseCandidates \/ Rev!RegenerateCandidates
  PROVE  RevInv' /\ reforms' = reforms
  <1>1. /\ phase = "revising" /\ todo # {} /\ Rev!NextStep # "decision"
        /\ \E items : Rev!StepDone([work EXCEPT !.candidates = items])
    BY DEF Rev!ReviseCandidates, Rev!RegenerateCandidates, Rev!Running
  <1>2. PICK items : Rev!StepDone([work EXCEPT !.candidates = items])  BY <1>1
  <1>3. Shaped(work)  BY DEF RevInv
  <1>4. RevInv'  BY <1>1, <1>2, <1>3, CandidatesShaped, StepKeeps
  <1> QED  BY <1>2, <1>4 DEF Rev!StepDone

LEMMA DecisionShaped ==
  ASSUME NEW c, NEW e, NEW d, Shaped(c)
  PROVE  [c EXCEPT !.evals = e, !.decision = d] =
           [patterns |-> c.patterns, candidates |-> c.candidates, evals |-> e, decision |-> d]
  <1> DEFINE r == [c EXCEPT !.evals = e, !.decision = d]
  <1>1. r = [c EXCEPT !.evals = e, !.decision = d]  OBVIOUS
  <1> HIDE DEF r
  <1>2. r = [patterns |-> c.patterns, candidates |-> c.candidates, evals |-> e, decision |-> d]
    BY <1>1 DEF Shaped
  <1> QED  BY <1>2 DEF r

\* The decision: the evaluations of the tree, brought up to the candidates of the work.
LEMMA DecideKeeps ==
  ASSUME RevInv, Rev!Decide
  PROVE  RevInv' /\ reforms' = reforms
  <1> DEFINE ids == Rev!IdsOf(work.candidates)
  <1>1. phase = "revising" /\ todo # {} /\ Rev!NextStep = "decision"
    BY DEF Rev!Decide, Rev!Running
  <1>2. PICK c \in ids :
          Rev!StepDone([work EXCEPT !.evals = Rev!Refreshed(@, ids),
                                    !.decision = [selected |-> c, rejected |-> ids \ {c}]])
    BY DEF Rev!Decide
  <1> DEFINE w == [work EXCEPT !.evals = Rev!Refreshed(@, ids),
                               !.decision = [selected |-> c, rejected |-> ids \ {c}]]
  <1>3. w = [patterns |-> work.patterns, candidates |-> work.candidates,
             evals |-> Rev!Refreshed(work.evals, ids),
             decision |-> [selected |-> c, rejected |-> ids \ {c}]]
    BY DecisionShaped DEF RevInv
  <1>4. Rev!StepDone(w)  BY <1>2
  <1> HIDE DEF w
  <1>5. /\ Shaped(w) /\ w.candidates = work.candidates
        /\ w.evals = Rev!Refreshed(work.evals, ids)
    BY <1>3 DEF Shaped
  <1>6. /\ work' = w /\ todo' = todo \ {Rev!NextStep}
        /\ UNCHANGED <<tree, anchors, phase, prepared, revised, reforms>>
    BY <1>4 DEF Rev!StepDone
  <1>7. todo \subseteq Rev!Affected(tree, anchors) /\ Basis  BY <1>1 DEF RevInv
  <1>8. todo = {"decision"}
    BY <1>1, <1>7, AffectedAre, DecisionIsLast
  <1>9. todo' = {} /\ work.evals = tree.evals
    BY <1>1, <1>6, <1>7, <1>8 DEF Basis
  <1>10. Rev!Refreshed(tree.evals, Rev!IdsOf(work.candidates))' = w.evals
    <2>1. Rev!IdsOf(work.candidates)' = ids  BY <1>5, <1>6 DEF Rev!IdsOf
    <2> QED  BY <1>5, <1>6, <1>9, <2>1 DEF Rev!Refreshed, Rev!Fresh, Rev!EvaluatedBy
  <1>11. Basis'  BY <1>6, <1>9, <1>10 DEF Basis
  <1> QED  BY <1>1, <1>5, <1>6, <1>9, <1>11 DEF RevInv, Shaped

LEMMA PrepareKeeps ==
  ASSUME RevInv, Rev!Prepare
  PROVE  RevInv' /\ reforms' = reforms
  <1>1. /\ phase = "revising" /\ todo = {} /\ phase' = "gate"
        /\ prepared' = Rev!Assembled(work) /\ revised' = prepared'
        /\ UNCHANGED <<tree, anchors, todo, work, reforms>>
    BY DEF Rev!Prepare
  <1>2. Shaped(prepared)' /\ Shaped(revised)'
    BY <1>1, AssembledShaped DEF RevInv, Shaped
  <1>3. Basis'  BY <1>1 DEF RevInv, Basis, Rev!Affected, Rev!Refreshed, Rev!Fresh
  <1>4. Rev!Assembled(work)' = Rev!Assembled(work) /\ Rev!Affected(tree, anchors)' = Rev!Affected(tree, anchors)
    BY <1>1 DEF Rev!Assembled, Rev!Affected
  <1> QED  BY <1>1, <1>2, <1>3, <1>4 DEF RevInv, Shaped, Rev!Known

LEMMA ReconcileKeeps ==
  ASSUME RevInv, Rev!Reconcile
  PROVE  RevInv' /\ reforms' = reforms
  <1>1. /\ phase = "gate" /\ phase' = "reconciled"
        /\ \E successor : revised' = Rev!Reconciled(revised, successor)
        /\ UNCHANGED <<tree, anchors, todo, work, prepared, reforms>>
    BY DEF Rev!Reconcile
  <1>2. PICK successor : revised' = Rev!Reconciled(revised, successor)  BY <1>1
  <1>3. Shaped(Rev!Reconciled(revised, successor))
        /\ Rev!Known(Rev!Reconciled(revised, successor)) = Rev!Known(revised)
    BY ReconciledShaped DEF RevInv
  <1>4. Shaped(revised)' /\ Rev!Known(revised)' = Rev!Known(revised)
    BY <1>2, <1>3 DEF Shaped, Rev!Known
  <1>5. Basis'  BY <1>1 DEF RevInv, Basis, Rev!Affected, Rev!Refreshed, Rev!Fresh
  <1>6. /\ Rev!Assembled(work)' = Rev!Assembled(work)
        /\ Rev!Affected(tree, anchors)' = Rev!Affected(tree, anchors)
        /\ Rev!Known(prepared)' = Rev!Known(prepared)
    BY <1>1 DEF Rev!Assembled, Rev!Affected, Rev!Known
  <1> QED  BY <1>1, <1>4, <1>5, <1>6 DEF RevInv, Shaped

LEMMA RevisionCommitKeeps ==
  ASSUME RevInv, Rev!Commit
  PROVE  RevInv'
  <1>1. /\ tree' = prepared /\ work' = prepared /\ prepared' = prepared /\ revised' = prepared
        /\ phase' = "reviewed" /\ reforms' = reforms + 1
    BY DEF Rev!Commit
  <1> QED  BY <1>1 DEF RevInv, Shaped

LEMMA OtherStepsKeep ==
  ASSUME RevInv,
         \/ \E a \in SUBSET (Rev!Known(tree) \cup {"question", "decision"}) : Rev!Review(a)
         \/ Rev!Begin \/ Rev!NeedsWork
  PROVE  RevInv' /\ reforms' = reforms
  <1>1. CASE (\E a \in SUBSET (Rev!Known(tree) \cup {"question", "decision"}) : Rev!Review(a))
             \/ Rev!NeedsWork
    <2>1. /\ phase' = "open" /\ tree' = tree /\ reforms' = reforms
          /\ Shaped(work)' /\ Shaped(prepared)' /\ Shaped(revised)'
      BY <1>1 DEF Rev!Review, Rev!NeedsWork, Rev!reform, RevInv, Shaped
    <2> QED  BY <2>1 DEF RevInv, Shaped
  <1>2. CASE Rev!Begin
    <2>1. /\ phase' = "revising" /\ todo' = Rev!Affected(tree, anchors) /\ work' = tree
          /\ UNCHANGED <<tree, anchors, prepared, revised, reforms>>
      BY <1>2 DEF Rev!Begin
    <2>2. Rev!Affected(tree, anchors)' = Rev!Affected(tree, anchors)
      BY <2>1 DEF Rev!Affected
    <2>3. Basis'  BY <2>1, <2>2 DEF Basis
    <2> QED  BY <2>1, <2>2, <2>3 DEF RevInv, Shaped
  <1> QED  BY <1>1, <1>2

LEMMA RevNextKeeps ==
  ASSUME RevInv, Rev!Next
  PROVE  RevInv' /\ (reforms' = reforms \/ Rev!Commit)
  BY OtherStepsKeep, PatternStepsKeep, CandidateStepsKeep, DecideKeeps, PrepareKeeps,
     ReconcileKeeps, RevisionCommitKeeps DEF Rev!Next

\* A step of the program that commits a reform is the commit of a revision.
LEMMA RevInvKept ==
  ASSUME RevInv, [ApproachNext]_approachVars
  PROVE  RevInv' /\ (reforms' = reforms \/ Rev!Commit)
  <1>1. CASE Formation  BY <1>1, PublishKeepsTrees DEF Formation
  <1>2. CASE Return \/ UNCHANGED approachVars
    <2>1. /\ UNCHANGED <<tree, anchors, todo, work, prepared, revised, reforms>>
          /\ phase' = phase \/ phase' = "reviewed"
      BY <1>2 DEF Return, approachVars, treeVars
    <2> QED
      BY <2>1 DEF RevInv, Basis, Shaped, Rev!Affected, Rev!Refreshed, Rev!Fresh,
                  Rev!Assembled, Rev!Known
  <1>3. CASE Revising  BY <1>3, RevNextKeeps DEF Revising
  <1> QED  BY <1>1, <1>2, <1>3 DEF ApproachNext

LEMMA RevInvHolds == ApproachSpec => []RevInv
  BY RevInvInit, RevInvKept, PTL DEF ApproachSpec

-----------------------------------------------------------------------------
(* What a commit keeps. *)

LEMMA CommitHasItsBasis ==
  ASSUME RevInv, Rev!Commit
  PROVE  Rev!BasisKept
  <1> DEFINE ids == Rev!IdsOf(work.candidates)
             evals == Rev!Refreshed(tree.evals, ids)
  <1> SUFFICES ASSUME "decision" \in Rev!Affected(tree, anchors)
               PROVE  /\ Rev!Blank(tree') \subseteq Rev!Blank(tree)
                      /\ \A e \in tree'.evals : e \in tree.evals \/ e.judged = reforms'
    BY DEF Rev!BasisKept
  <1>1. /\ phase \in {"gate", "reconciled"} /\ tree' = prepared
        /\ reforms' = reforms + 1 /\ reforms \in Nat
    BY DEF Rev!Commit, RevInv
  <1>2. /\ prepared = Rev!Assembled(work) /\ todo = {} /\ Basis /\ Shaped(work)
    BY <1>1 DEF RevInv
  <1>3. work.evals = evals  BY <1>2 DEF Basis
  <1>4. /\ ids \subseteq Rev!EvaluatedBy(evals)
        /\ \A e \in evals : e \in tree.evals \/ e.judged = reforms + 1
    BY <1>1, RefreshCovers
  <1> HIDE DEF evals, ids
  <1>5. prepared.evals = {e \in work.evals : e.of \in ids}
                           \cup {[of |-> x, judged |-> None] : x \in ids \ Rev!EvaluatedBy(work.evals)}
    BY <1>2, AssembledShaped DEF ids
  <1>6. prepared.evals \subseteq evals  BY <1>3, <1>4, <1>5
  <1>7. \A e \in tree'.evals : e \in tree.evals \/ e.judged = reforms'
    BY <1>1, <1>4, <1>6
  <1>8. reforms' # None  BY <1>1, NoneAssumption
  <1>9. \A e \in tree'.evals : e.judged = None => e \in tree.evals  BY <1>7, <1>8
  <1>10. Rev!Blank(tree') \subseteq Rev!Blank(tree)
    BY <1>9 DEF Rev!Blank
  <1> QED  BY <1>7, <1>10

LEMMA CommitAnswersAnchors ==
  ASSUME RevInv, Rev!Commit
  PROVE  Rev!AnchorsKept
  <1> SUFFICES ASSUME NEW x \in Rev!AnchoredItems
               PROVE  \/ x \in Rev!Known(tree')
                      \/ \E d \in Rev!Ledger : d.old = x /\ d.new \in Rev!Known(tree')
    BY DEF Rev!AnchorsKept
  <1>1. Rev!Known(tree') = Rev!Known(revised) /\ Rev!Violations(revised) = {}
    BY DEF Rev!Commit, RevInv
  <1>2. x \in Rev!Known(revised) \cup Rev!Replaced(revised)
    BY <1>1 DEF Rev!Violations
  <1>3. CASE x \in Rev!Replaced(revised)
    <2>1. PICK d \in Rev!Declarations(revised) : d.old = x  BY <1>3 DEF Rev!Replaced
    <2>2. d.new \in Rev!Known(revised)  BY DeclaredByItems
    <2> QED  BY <1>1, <2>1, <2>2 DEF Rev!Ledger
  <1> QED  BY <1>1, <1>2, <1>3

\* Whatever steps a reform runs before it, and however candidates come and go, the
\* decision it commits has an evaluation of each candidate that was not already left
\* blank, made now or kept as it was (_reform_decision_evaluations).
THEOREM BasisIsKept == ApproachSpec => DecisionHasItsBasis
  <1>1. RevInv /\ [ApproachNext]_approachVars => [Rev!BasisKept]_approachVars
    BY RevInvKept, CommitHasItsBasis DEF Rev!BasisKept, Rev!Committed
  <1> QED  BY <1>1, RevInvHolds, PTL DEF ApproachSpec, DecisionHasItsBasis

\* After every commit, what an open objection anchors is in the tree, or the ledger
\* names what replaced it there, although the tree that is committed is not the one
\* that the gate judged (_revision_continuity_violations, _revision_delta_record).
THEOREM AnchorsAreAnswered == ApproachSpec => AnchorsAnswered
  <1>1. RevInv /\ [ApproachNext]_approachVars => [Rev!AnchorsKept]_approachVars
    BY RevInvKept, CommitAnswersAnchors DEF Rev!AnchorsKept, Rev!Committed
  <1> QED  BY <1>1, RevInvHolds, PTL DEF ApproachSpec, AnchorsAnswered

-----------------------------------------------------------------------------
(* What the evaluations and the decision on the branch are. *)

\* Of each candidate, and of nothing else, there is an evaluation.
Covered(t) == Rev!EvaluatedBy(t.evals) = Rev!IdsOf(t.candidates)

Sole(evals) == \A e, f \in evals : e.of = f.of => e = f

\* Made by the formation, by one of n reforms, or never.
Dated(evals, n) == \A e \in evals : e.judged \in (0..n) \cup {None}

Decisive(t) == t.decision.selected \notin t.decision.rejected

OneBasis == Covered(tree) /\ Sole(tree.evals) /\ Dated(tree.evals, reforms) /\ Decisive(tree)

\* The work may hold evaluations of the reform under way, and of candidates that are gone.
WorkSound == Sole(work.evals) /\ Dated(work.evals, reforms + 1) /\ Decisive(work)

LEMMA EmptyIsSound == ApproachInit => OneBasis /\ WorkSound
  <1> SUFFICES ASSUME ApproachInit PROVE OneBasis /\ WorkSound
    OBVIOUS
  <1>1. tree = NoTree /\ work = NoTree  BY DEF ApproachInit
  <1>2. /\ NoTree.evals = {} /\ NoTree.candidates = {}
        /\ NoTree.decision.selected = None /\ NoTree.decision.rejected = {}
    BY DEF NoTree
  <1> QED
    BY <1>1, <1>2 DEF OneBasis, WorkSound, Covered, Sole, Dated, Decisive,
                      Rev!EvaluatedBy, Rev!IdsOf

\* An evaluation of an earlier reform is one that a later reform may have made.
LEMMA DatedLater ==
  ASSUME NEW evals, reforms \in Nat, Dated(evals, reforms)
  PROVE  Dated(evals, reforms + 1)
  BY DEF Dated

LEMMA RefreshSound ==
  ASSUME NEW evals, NEW ids, reforms \in Nat, Sole(evals), Dated(evals, reforms + 1)
  PROVE  /\ Sole(Rev!Refreshed(evals, ids))
         /\ Dated(Rev!Refreshed(evals, ids), reforms + 1)
  <1>1. CASE Rev!EvaluatedBy(evals) = ids
    BY <1>1 DEF Rev!Refreshed
  <1>2. CASE Rev!EvaluatedBy(evals) # ids
    <2> DEFINE kept  == {e \in evals : e.of \in ids}
               fresh == Rev!Fresh(ids \ Rev!EvaluatedBy(evals))
    <2>1. Rev!Refreshed(evals, ids) = kept \cup fresh
      BY <1>2 DEF Rev!Refreshed
    <2>2. kept \subseteq evals /\ \A e \in kept : e.of \in Rev!EvaluatedBy(evals)
      BY DEF Rev!EvaluatedBy
    <2>3. \A e \in fresh : /\ e.of \notin Rev!EvaluatedBy(evals)
                           /\ e = [of |-> e.of, judged |-> reforms + 1]
      BY DEF Rev!Fresh
    <2> HIDE DEF kept, fresh
    <2>4. Sole(kept \cup fresh)
      <3> SUFFICES ASSUME NEW e \in kept \cup fresh, NEW f \in kept \cup fresh, e.of = f.of
                   PROVE  e = f
        BY DEF Sole
      <3>1. CASE e \in kept /\ f \in kept  BY <2>2, <3>1 DEF Sole
      <3>2. CASE e \in fresh /\ f \in fresh  BY <2>3, <3>2
      <3> QED  BY <2>2, <2>3, <3>1, <3>2
    <2>5. Dated(kept \cup fresh, reforms + 1)
      <3>1. \A e \in fresh : e.judged = reforms + 1  BY <2>3
      <3> QED  BY <2>2, <3>1 DEF Dated
    <2> QED  BY <2>1, <2>4, <2>5
  <1> QED  BY <1>1, <1>2

LEMMA AssembledSound ==
  ASSUME NEW c, Shaped(c), NEW n, Sole(c.evals), Dated(c.evals, n), Decisive(c)
  PROVE  LET a == Rev!Assembled(c) IN
         Covered(a) /\ Sole(a.evals) /\ Dated(a.evals, n) /\ Decisive(a)
  <1> DEFINE a     == Rev!Assembled(c)
             ids   == Rev!IdsOf(c.candidates)
             kept  == {e \in c.evals : e.of \in ids}
             blank == {[of |-> x, judged |-> None] : x \in ids \ Rev!EvaluatedBy(c.evals)}
  <1>1. a.evals = kept \cup blank /\ a.candidates = c.candidates
    BY AssembledShaped
  <1>2. a.decision = c.decision
    <2>1. \E es : a = [c EXCEPT !.evals = es]  BY DEF Rev!Assembled
    <2> QED  BY <2>1 DEF Shaped
  <1>3. /\ kept \subseteq c.evals
        /\ \A e \in kept : e.of \in Rev!EvaluatedBy(c.evals) /\ e.of \in ids
    BY DEF Rev!EvaluatedBy
  <1>4. \A e \in blank : /\ e.of \in ids /\ e.of \notin Rev!EvaluatedBy(c.evals)
                         /\ e.judged = None /\ e = [of |-> e.of, judged |-> None]
    OBVIOUS
  <1>5. \A x \in ids : \E e \in kept \cup blank : e.of = x
    <2> SUFFICES ASSUME NEW x \in ids PROVE \E e \in kept \cup blank : e.of = x
      OBVIOUS
    <2>1. CASE x \in Rev!EvaluatedBy(c.evals)  BY <2>1 DEF Rev!EvaluatedBy
    <2>2. CASE x \notin Rev!EvaluatedBy(c.evals)
      <3>1. [of |-> x, judged |-> None] \in blank  BY <2>2
      <3> HIDE DEF kept, blank
      <3> QED  BY <3>1
    <2> QED  BY <2>1, <2>2
  <1> HIDE DEF kept, blank, ids, a
  <1>6. Covered(a)
    <2>1. Rev!EvaluatedBy(kept \cup blank) = ids  BY <1>3, <1>4, <1>5 DEF Rev!EvaluatedBy
    <2> QED  BY <1>1, <2>1 DEF Covered, ids
  <1>7. Sole(kept \cup blank)
    <2> SUFFICES ASSUME NEW e \in kept \cup blank, NEW f \in kept \cup blank, e.of = f.of
                 PROVE  e = f
      BY DEF Sole
    <2>1. CASE e \in kept /\ f \in kept  BY <1>3, <2>1 DEF Sole
    <2>2. CASE e \in blank /\ f \in blank  BY <1>4, <2>2
    <2> QED  BY <1>3, <1>4, <2>1, <2>2
  <1>8. Dated(kept \cup blank, n)  BY <1>3, <1>4 DEF Dated
  <1>9. Decisive(a)  BY <1>2 DEF Decisive
  <1> QED  BY <1>1, <1>6, <1>7, <1>8, <1>9 DEF a

\* What forming publishes has one evaluation of each candidate, blank or not.
LEMMA TreesSound ==
  ASSUME NEW t \in Trees, reforms \in Nat
  PROVE  Covered(t) /\ Sole(t.evals) /\ Dated(t.evals, reforms) /\ Decisive(t)
  <1>1. PICK ps \in (SUBSET Patterns) \ {{}}, ids \in FormedIds, c \in Candidates :
          t = [patterns   |-> {Rev!Item(p, None) : p \in ps},
               candidates |-> {Rev!Item(x, None) : x \in ids},
               evals      |-> {[of |-> x,
                                judged |-> IF x \in ToSet(evaluated) THEN 0 ELSE None] :
                                 x \in ids},
               decision   |-> [selected |-> c, rejected |-> ids \ {c}]]
    BY DEF Trees
  <1> DEFINE eval(x) == [of |-> x, judged |-> IF x \in ToSet(evaluated) THEN 0 ELSE None]
  <1>2. /\ t.evals = {eval(x) : x \in ids}
        /\ t.candidates = {Rev!Item(x, None) : x \in ids}
        /\ t.decision = [selected |-> c, rejected |-> ids \ {c}]
    BY <1>1
  <1>3. \A x : eval(x).of = x /\ eval(x).judged \in {0, None}  OBVIOUS
  <1>4. \A x : Rev!Item(x, None).id = x  BY DEF Rev!Item
  <1> HIDE DEF eval
  <1>5. Rev!EvaluatedBy(t.evals) = ids
    <2>1. \A x \in ids : eval(x) \in t.evals  BY <1>2
    <2>2. \A e \in t.evals : e.of \in ids  BY <1>2, <1>3
    <2> QED  BY <1>3, <2>1, <2>2 DEF Rev!EvaluatedBy
  <1>6. Rev!IdsOf(t.candidates) = ids
    <2>1. \A x \in ids : Rev!Item(x, None) \in t.candidates  BY <1>2
    <2>2. \A i \in t.candidates : i.id \in ids  BY <1>2, <1>4
    <2> QED  BY <1>4, <2>1, <2>2 DEF Rev!IdsOf
  <1>7. Sole(t.evals)  BY <1>2, <1>3 DEF Sole
  <1>8. Dated(t.evals, reforms)
    <2>1. \A e \in t.evals : e.judged \in {0, None}  BY <1>2, <1>3
    <2> QED  BY <2>1 DEF Dated
  <1>9. Decisive(t)  BY <1>2 DEF Decisive
  <1> QED  BY <1>5, <1>6, <1>7, <1>8, <1>9 DEF Covered

LEMMA PublishKeepsBasis ==
  ASSUME reforms \in Nat, OneBasis, WorkSound, Publish
  PROVE  OneBasis' /\ WorkSound'
  <1>1. CASE UNCHANGED treeVars
    BY <1>1 DEF treeVars, OneBasis, WorkSound, Covered, Sole, Dated, Decisive,
                Rev!EvaluatedBy, Rev!IdsOf
  <1>2. CASE \E t \in Trees : tree' = t /\ work' = t /\ UNCHANGED reforms
    <2>1. PICK t \in Trees : tree' = t /\ work' = t /\ UNCHANGED reforms  BY <1>2
    <2>2. Covered(t) /\ Sole(t.evals) /\ Dated(t.evals, reforms) /\ Decisive(t)
      BY TreesSound
    <2>3. Dated(t.evals, reforms + 1)  BY <2>2, DatedLater
    <2> QED
      BY <2>1, <2>2, <2>3 DEF OneBasis, WorkSound, Covered, Sole, Dated, Decisive,
                              Rev!EvaluatedBy, Rev!IdsOf
  <1> QED  BY <1>1, <1>2 DEF Publish

LEMMA DecideKeepsBasis ==
  ASSUME RevInv, OneBasis, WorkSound, Rev!Decide
  PROVE  WorkSound'
  <1> DEFINE ids == Rev!IdsOf(work.candidates)
  <1>1. PICK c \in ids :
          Rev!StepDone([work EXCEPT !.evals = Rev!Refreshed(@, ids),
                                    !.decision = [selected |-> c, rejected |-> ids \ {c}]])
    BY DEF Rev!Decide
  <1> DEFINE w == [work EXCEPT !.evals = Rev!Refreshed(@, ids),
                               !.decision = [selected |-> c, rejected |-> ids \ {c}]]
  <1>2. w = [patterns |-> work.patterns, candidates |-> work.candidates,
             evals |-> Rev!Refreshed(work.evals, ids),
             decision |-> [selected |-> c, rejected |-> ids \ {c}]]
    BY DecisionShaped DEF RevInv
  <1>3. work' = w /\ reforms' = reforms  BY <1>1 DEF Rev!StepDone
  <1> HIDE DEF w, ids
  <1>4. w.evals = Rev!Refreshed(work.evals, ids) /\ Decisive(w)  BY <1>2 DEF Decisive
  <1>5. Sole(w.evals) /\ Dated(w.evals, reforms + 1)
    BY <1>4, RefreshSound DEF RevInv, WorkSound
  <1> QED  BY <1>3, <1>4, <1>5 DEF WorkSound, Sole, Dated, Decisive

\* The other steps leave evaluations and decision alone.
LEMMA ItemStepsKeepBasis ==
  ASSUME RevInv, WorkSound,
         \/ Rev!RevisePatterns \/ Rev!RebuildPatterns
         \/ Rev!ReviseCandidates \/ Rev!RegenerateCandidates
  PROVE  WorkSound'
  <1>1. \E items : \/ Rev!StepDone([work EXCEPT !.patterns = items])
                   \/ Rev!StepDone([work EXCEPT !.candidates = items])
    BY DEF Rev!RevisePatterns, Rev!RebuildPatterns, Rev!ReviseCandidates,
           Rev!RegenerateCandidates
  <1>2. PICK items : \/ work' = [work EXCEPT !.patterns = items]
                     \/ work' = [work EXCEPT !.candidates = items]
    BY <1>1 DEF Rev!StepDone
  <1>3. reforms' = reforms
    BY <1>1 DEF Rev!StepDone
  <1>4. work'.evals = work.evals /\ work'.decision = work.decision
    <2>1. Shaped(work)  BY DEF RevInv
    <2> QED  BY <1>2, <2>1 DEF Shaped
  <1> QED  BY <1>3, <1>4 DEF WorkSound, Sole, Dated, Decisive

\* A commit puts one evaluation on each candidate of the work, blank where none was made.
LEMMA CommitKeepsBasis ==
  ASSUME RevInv, WorkSound, Rev!Commit
  PROVE  OneBasis' /\ WorkSound'
  <1>1. /\ phase \in {"gate", "reconciled"} /\ tree' = prepared /\ work' = prepared
        /\ reforms' = reforms + 1 /\ reforms \in Nat
    BY DEF Rev!Commit, RevInv
  <1>2. prepared = Rev!Assembled(work) /\ Shaped(work)  BY <1>1 DEF RevInv
  <1>3. /\ Covered(prepared) /\ Sole(prepared.evals) /\ Decisive(prepared)
        /\ Dated(prepared.evals, reforms + 1)
    BY <1>2, AssembledSound DEF WorkSound
  <1>4. Dated(prepared.evals, reforms + 1 + 1)  BY <1>1, <1>3 DEF Dated
  <1> QED
    BY <1>1, <1>3, <1>4 DEF OneBasis, WorkSound, Covered, Sole, Dated, Decisive,
                            Rev!EvaluatedBy, Rev!IdsOf

LEMMA BasisNext ==
  ASSUME RevInv, OneBasis /\ WorkSound, [ApproachNext]_approachVars
  PROVE  (OneBasis /\ WorkSound)'
  <1>1. reforms \in Nat  BY DEF RevInv
  <1>2. ASSUME UNCHANGED <<tree, reforms>>  PROVE OneBasis'
    BY <1>2 DEF OneBasis, Covered, Sole, Dated, Decisive, Rev!EvaluatedBy, Rev!IdsOf
  <1>3. ASSUME work' \in {work, tree}, UNCHANGED reforms  PROVE WorkSound'
    <2>1. Dated(tree.evals, reforms + 1)  BY <1>1, DatedLater DEF OneBasis
    <2> QED  BY <1>3, <2>1 DEF OneBasis, WorkSound, Sole, Dated, Decisive
  <1>4. CASE Formation  BY <1>1, <1>4, PublishKeepsBasis DEF Formation
  <1>5. CASE Return \/ UNCHANGED approachVars
    <2>1. UNCHANGED <<tree, work, reforms>>  BY <1>5 DEF Return, approachVars, treeVars
    <2> QED  BY <1>2, <1>3, <2>1
  <1>6. CASE Revising
    <2>1. CASE Rev!Decide
      <3>1. UNCHANGED <<tree, reforms>>  BY <2>1 DEF Rev!Decide, Rev!StepDone
      <3> QED  BY <1>2, <2>1, <3>1, DecideKeepsBasis
    <2>2. CASE \/ Rev!RevisePatterns \/ Rev!RebuildPatterns
               \/ Rev!ReviseCandidates \/ Rev!RegenerateCandidates
      <3>1. UNCHANGED <<tree, reforms>>
        BY <2>2 DEF Rev!RevisePatterns, Rev!RebuildPatterns, Rev!ReviseCandidates,
               Rev!RegenerateCandidates, Rev!StepDone
      <3> QED  BY <1>2, <2>2, <3>1, ItemStepsKeepBasis
    <2>3. CASE Rev!Commit  BY <2>3, CommitKeepsBasis
    <2>4. CASE \/ \E a \in SUBSET (Rev!Known(tree) \cup {"question", "decision"}) : Rev!Review(a)
               \/ Rev!Begin \/ Rev!Prepare \/ Rev!Reconcile \/ Rev!NeedsWork
      <3>1. UNCHANGED <<tree, reforms>> /\ work' \in {work, tree}
        BY <2>4 DEF Rev!Review, Rev!reform, Rev!Begin, Rev!Prepare, Rev!Reconcile,
               Rev!NeedsWork
      <3> QED  BY <1>2, <1>3, <3>1
    <2> QED  BY <1>6, <2>1, <2>2, <2>3, <2>4 DEF Revising, Rev!Next
  <1> QED  BY <1>4, <1>5, <1>6 DEF ApproachNext

\* The approach on the branch, as it was formed and after any number of reforms, has
\* exactly one evaluation of each candidate and none of a candidate that is gone; none
\* is newer than the last committed reform; and its decision does not reject what it
\* selects (_reform_decision_evaluations, _assemble_from_components).
THEOREM EvaluatedOnce == ApproachSpec => []OneBasis
  <1>1. ApproachInit => OneBasis /\ WorkSound  BY EmptyIsSound
  <1>2. RevInv /\ (OneBasis /\ WorkSound) /\ [ApproachNext]_approachVars
          => (OneBasis /\ WorkSound)'
    BY BasisNext
  <1> QED  BY <1>1, <1>2, RevInvHolds, PTL DEF ApproachSpec

=============================================================================
