---------------------------- MODULE OfferRing_proofs ----------------------------
(***************************************************************************)
(* Proofs about what comes before and after an offer of work: OfferRing,   *)
(* for any families, processes, offers and bounds, and Direction, for any  *)
(* names, checks and workers, and any number of objections a round.        *)
(*                                                                         *)
(* The ring.  Nothing creates an alias, and a push removes the one it has  *)
(* seen (AliasesGone), so after every push the alias is empty.  A promise  *)
(* is announced together with its branch, which nobody removes.  A pass    *)
(* announces the offers behind the cursor in their order before the cursor *)
(* follows (PassAnnounces); that the cursor is the family's own is an      *)
(* assumption of that theorem (ReadersApart).                              *)
(*                                                                         *)
(* The deliberation.  DeferralInv links the branch to the patches: what a  *)
(* round accepted is on the list of questions (Kept), and nobody works on  *)
(* a series whose direction may still change (WorkAfterDirection), so that *)
(* the list a patch was accepted against is the list there is (AnswersAll).*)
(***************************************************************************)
EXTENDS OfferRing, Direction, FiniteSetTheorems, WellFoundedInduction, TLAPS

Places == {"take", "observe", "push", "advance"}   \* of a process in a pass

\* As much of the types as the proofs need.
Shape ==
  /\ offered \in 0..Len(Offers)
  /\ cursor \in [Readers -> Nat]
  /\ job = [p \in Procs |-> job[p]]
  /\ \A p \in Procs : job[p].at \in Places =>
       /\ job[p].offer \in Nat \ {0} /\ job[p].last \in Nat
       /\ job[p].offer <= job[p].last /\ job[p].last <= offered
  /\ \A p \in Procs : job[p].at = "withdraw" => job[p].address \in Addresses
  /\ ann = [fa \in Families \X Addresses |-> ann[fa]]
  /\ \A f \in Families, a \in Addresses : ann[<<f, a>>] = [c \in Coordinates |-> ann[<<f, a>>][c]]

AnnShape ==   \* the part of it about the announcements
  /\ ann = [fa \in Families \X Addresses |-> ann[fa]]
  /\ \A f \in Families, a \in Addresses : ann[<<f, a>>] = [c \in Coordinates |-> ann[<<f, a>>][c]]

Quiet == UNCHANGED remote   \* of the steps that publish nothing

\* Whose coordinates a process in a pass writes.
LEMMA OwnTyped ==
  ASSUME Shape, NEW p \in Procs, job[p].at \in Places
  PROVE  /\ FamilyOf[p] \in Families /\ Offers[job[p].offer] \in Addresses
         /\ Own(p) \in Families \X Addresses
  <1>1. FamilyOf[p] \in Families  BY OfferRingAssumption
  <1>2. job[p].offer \in 1..Len(Offers)  BY DEF Shape
  <1>3. Offers[job[p].offer] \in Addresses  BY <1>2, OfferRingAssumption
  <1> QED  BY <1>1, <1>3 DEF Own

\* Init and the steps that leave the announcements alone.
LEMMA InitShape == Init => Shape
  <1> SUFFICES ASSUME Init PROVE Shape
    OBVIOUS
  <1>1. Len(Offers) \in Nat  BY OfferRingAssumption
  <1>2. offered \in 0..Len(Offers) /\ cursor \in [Readers -> Nat]  BY <1>1 DEF Init
  <1>3. /\ job = [p \in Procs |-> job[p]]
        /\ \A p \in Procs : job[p].at \notin Places /\ job[p].at # "withdraw"
    BY DEF Init, Idle, Places
  <1>4. /\ ann = [fa \in Families \X Addresses |-> ann[fa]]
        /\ \A f \in Families, a \in Addresses : ann[<<f, a>>] = [c \in Coordinates |-> ann[<<f, a>>][c]]
    BY DEF Init
  <1> QED  BY <1>2, <1>3, <1>4 DEF Shape

\* A push gives one family one announcement for one address.
LEMMA PushedAnn ==
  ASSUME Shape, NEW p \in Procs, Pushed(p)
  PROVE  LET own == ann[Own(p)]
         IN /\ AnnShape'
            /\ \A fa \in Families \X Addresses : fa # Own(p) => ann'[fa] = ann[fa]
            /\ ann'[Own(p)]["canonical"] = NextRecord(own, job[p].name)
            /\ ann'[Own(p)]["alias"] = IF job[p].expected["alias"] # None
                                       THEN None ELSE own["alias"]
  <1> DEFINE own == ann[Own(p)]
             new == NextRecord(own, job[p].name)
  <1>1. Own(p) \in Families \X Addresses  BY OwnTyped DEF Pushed, Places
  <1>2. ann' = [ann EXCEPT ![Own(p)] = Transfer(own, job[p].expected, new)]  BY DEF Pushed
  <1> HIDE DEF new
  <1>3. PICK f \in Families, a \in Addresses : Own(p) = <<f, a>>  BY <1>1
  <1>4. own = [c \in Coordinates |-> own[c]]
    <2>1. ann[<<f, a>>] = [c \in Coordinates |-> ann[<<f, a>>][c]]  BY DEF Shape
    <2>2. own = ann[<<f, a>>]  BY <1>3
    <2> QED  BY <2>1, <2>2
  <1> DEFINE after == Transfer(own, job[p].expected, new)
  <1>5. /\ after = [c \in Coordinates |-> after[c]]
        /\ after["canonical"] = new
        /\ after["alias"] = IF job[p].expected["alias"] # None THEN None ELSE own["alias"]
    BY <1>4 DEF Transfer, Coordinates
  <1> HIDE DEF after
  <1>6. ann = [fa \in Families \X Addresses |-> ann[fa]]  BY DEF Shape
  <1>7. /\ ann' = [fa \in Families \X Addresses |-> IF fa = Own(p) THEN after ELSE ann[fa]]
    BY <1>1, <1>2, <1>6 DEF after
  <1>8. ann'[Own(p)] = after /\ \A fa \in Families \X Addresses : fa # Own(p) => ann'[fa] = ann[fa]
    BY <1>1, <1>7
  <1>9. AnnShape'
    <2>1. ann' = [fa \in Families \X Addresses |-> ann'[fa]]  BY <1>7
    <2>2. ASSUME NEW g \in Families, NEW d \in Addresses
          PROVE  ann'[<<g, d>>] = [c \in Coordinates |-> ann'[<<g, d>>][c]]
      <3>1. CASE <<g, d>> = Own(p)  BY <1>5, <1>8, <3>1
      <3>2. CASE <<g, d>> # Own(p)  BY <1>8, <3>2 DEF Shape
      <3> QED  BY <3>1, <3>2
    <2> QED  BY <2>1, <2>2 DEF AnnShape
  <1> QED  BY <1>5, <1>8, <1>9 DEF new

\* A withdrawal can only take an announcement away.
LEMMA WithdrawnAnn ==
  ASSUME Shape, NEW p \in Procs, WithdrawDelete(p)
  PROVE  /\ AnnShape'
         /\ \A f \in Families, a \in Addresses, c \in Coordinates :
              ann'[<<f, a>>][c] = ann[<<f, a>>][c] \/ ann'[<<f, a>>][c] = None
  <1> DEFINE fa == <<FamilyOf[p], job[p].address>>
  <1>1. fa \in Families \X Addresses
    BY OfferRingAssumption DEF WithdrawDelete, Shape
  <1>2. ann' = ann \/ ann' = [ann EXCEPT ![fa]["canonical"] = None]  BY DEF WithdrawDelete
  <1>3. CASE ann' = ann  BY <1>3 DEF Shape, AnnShape
  <1>4. CASE ann' = [ann EXCEPT ![fa]["canonical"] = None]
    <2> DEFINE after == [ann[fa] EXCEPT !["canonical"] = None]
    <2>1. ann' = [ann EXCEPT ![fa] = after]  BY <1>4
    <2>2. ann[fa] = [c \in Coordinates |-> ann[fa][c]]  BY <1>1 DEF Shape
    <2>3. /\ after = [c \in Coordinates |-> after[c]]
          /\ \A c \in Coordinates : after[c] = ann[fa][c] \/ after[c] = None
      BY <2>2
    <2> HIDE DEF after, fa
    <2>4. ann = [x \in Families \X Addresses |-> ann[x]]  BY DEF Shape
    <2>5. ann' = [x \in Families \X Addresses |-> IF x = fa THEN after ELSE ann[x]]
      BY <1>1, <2>1, <2>4
    <2>6. ASSUME NEW g \in Families, NEW d \in Addresses
          PROVE  /\ ann'[<<g, d>>] = [c \in Coordinates |-> ann'[<<g, d>>][c]]
                 /\ \A c \in Coordinates :
                      ann'[<<g, d>>][c] = ann[<<g, d>>][c] \/ ann'[<<g, d>>][c] = None
      <3>1. CASE <<g, d>> = fa  BY <1>1, <2>3, <2>5, <3>1
      <3>2. CASE <<g, d>> # fa
        <4>1. ann'[<<g, d>>] = ann[<<g, d>>]  BY <2>5, <3>2
        <4> QED  BY <4>1 DEF Shape
      <3> QED  BY <3>1, <3>2
    <2>7. ann' = [x \in Families \X Addresses |-> ann'[x]]  BY <2>5
    <2> QED  BY <2>6, <2>7 DEF AnnShape
  <1> QED  BY <1>2, <1>3, <1>4

LEMMA QuietAnn ==
  ASSUME Shape, Quiet
  PROVE  AnnShape'
  BY DEF Shape, AnnShape, Quiet, remote

LEMMA JobShape ==
  ASSUME Shape, Next
  PROVE  /\ offered' \in 0..Len(Offers) /\ cursor' \in [Readers -> Nat]
         /\ job' = [p \in Procs |-> job'[p]]
         /\ \A p \in Procs : job'[p].at \in Places =>
              /\ job'[p].offer \in Nat \ {0} /\ job'[p].last \in Nat
              /\ job'[p].offer <= job'[p].last /\ job'[p].last <= offered'
         /\ \A p \in Procs : job'[p].at = "withdraw" => job'[p].address \in Addresses
  <1> DEFINE Goal ==
         /\ offered' \in 0..Len(Offers) /\ cursor' \in [Readers -> Nat]
         /\ job' = [p \in Procs |-> job'[p]]
         /\ \A p \in Procs : job'[p].at \in Places =>
              /\ job'[p].offer \in Nat \ {0} /\ job'[p].last \in Nat
              /\ job'[p].offer <= job'[p].last /\ job'[p].last <= offered'
         /\ \A p \in Procs : job'[p].at = "withdraw" => job'[p].address \in Addresses
  <1>0. Len(Offers) \in Nat /\ FamilyOf \in [Procs -> Families]  BY OfferRingAssumption
  <1>1. CASE Offer
    BY <1>0, <1>1 DEF Offer, Shape
  <1>2. ASSUME NEW f \in Families, NEW a \in Addresses, Submit(f, a)  PROVE Goal
    BY <1>2 DEF Submit, Shape
  <1>10. ASSUME NEW f \in Families, NEW i \in DOMAIN Offers, Turn(f, i)  PROVE Goal
    BY <1>10 DEF Turn, Shape
  <1>3. ASSUME NEW p \in Procs, Begin(p)  PROVE Goal
    <2> DEFINE k == cursor[Reader[FamilyOf[p]]]
               new == [at |-> "take", offer |-> k + 1, last |-> offered]
    <2>1. FamilyOf[p] \in Families  BY <1>0
    <2>2. k \in Nat /\ offered \in Nat /\ k < offered
      BY <1>3, <2>1, <1>0 DEF Begin, Shape, Readers
    <2>3. job' = [job EXCEPT ![p] = new] /\ UNCHANGED <<offered, cursor>>  BY <1>3 DEF Begin
    <2>4. /\ new.at = "take" /\ new.offer \in Nat \ {0} /\ new.last = offered
          /\ new.offer <= new.last
      BY <2>2
    <2> HIDE DEF new
    <2> QED  BY <2>2, <2>3, <2>4 DEF Shape
  <1>4. ASSUME NEW p \in Procs, Take(p)  PROVE Goal
    <2>1. PICK n : job' = [job EXCEPT ![p] =
                     [at |-> "observe", offer |-> @.offer, last |-> @.last, name |-> n]]
      BY <1>4 DEF Take
    <2>2. job[p].at \in Places /\ UNCHANGED <<offered, cursor>>  BY <1>4 DEF Take, Places
    <2> QED  BY <2>1, <2>2 DEF Shape
  <1>5. ASSUME NEW p \in Procs, Observe(p)  PROVE Goal
    <2>1. \/ job' = [job EXCEPT ![p] =
                [at |-> "push", offer |-> @.offer, last |-> @.last, name |-> @.name,
                 expected |-> ann[Own(p)]]]
          \/ job' = [job EXCEPT ![p] = Idle]
      BY <1>5 DEF Observe, AfterFailure
    <2>2. job[p].at \in Places /\ UNCHANGED <<offered, cursor>>  BY <1>5 DEF Observe, Places
    <2>3. CASE job' = [job EXCEPT ![p] = Idle]  BY <2>2, <2>3 DEF Shape, Idle, Places
    <2>4. CASE job' = [job EXCEPT ![p] =
                [at |-> "push", offer |-> @.offer, last |-> @.last, name |-> @.name,
                 expected |-> ann[Own(p)]]]
      BY <2>2, <2>4 DEF Shape
    <2> QED  BY <2>1, <2>3, <2>4
  <1>6. ASSUME NEW p \in Procs, Pushed(p)  PROVE Goal
    <2>1. job' = [job EXCEPT ![p] = [at |-> "advance", offer |-> @.offer, last |-> @.last]]
      BY <1>6 DEF Pushed
    <2>2. job[p].at \in Places /\ UNCHANGED <<offered, cursor>>  BY <1>6 DEF Pushed, Places
    <2> QED  BY <2>1, <2>2 DEF Shape
  <1>7. ASSUME NEW p \in Procs, Advance(p)  PROVE Goal
    <2> DEFINE r == Reader[FamilyOf[p]]
               i == job[p].offer
               next == [at |-> "take", offer |-> i + 1, last |-> job[p].last]
    <2>1. /\ i \in Nat \ {0} /\ job[p].last \in Nat /\ i <= job[p].last
          /\ job[p].last <= offered
      BY <1>7 DEF Advance, Shape, Places
    <2>2. cursor' = [cursor EXCEPT ![r] = i] \/ cursor' = cursor  BY <1>7 DEF Advance
    <2>3. cursor' \in [Readers -> Nat]  BY <2>1, <2>2 DEF Shape
    <2>4. \/ i < job[p].last /\ job' = [job EXCEPT ![p] = next]
          \/ job' = [job EXCEPT ![p] = Idle]
      BY <1>7 DEF Advance
    <2>5. UNCHANGED offered  BY <1>7 DEF Advance
    <2>6. CASE i < job[p].last /\ job' = [job EXCEPT ![p] = next]
      <3>1. /\ next.at = "take" /\ next.offer \in Nat \ {0} /\ next.last = job[p].last
            /\ next.offer <= next.last
        BY <2>1, <2>6
      <3> HIDE DEF next
      <3> QED  BY <2>1, <2>3, <2>5, <2>6, <3>1 DEF Shape
    <2>7. CASE job' = [job EXCEPT ![p] = Idle]
      BY <2>3, <2>5, <2>7 DEF Shape, Idle, Places
    <2> QED  BY <2>4, <2>6, <2>7
  <1>8. ASSUME NEW p \in Procs, NotPushed(p) \/ Kill(p) \/ WithdrawDelete(p)  PROVE Goal
    <2>1. job' = [job EXCEPT ![p] = Idle] /\ UNCHANGED <<offered, cursor>>
      BY <1>8 DEF NotPushed, Kill, WithdrawDelete, AfterFailure
    <2> QED  BY <2>1 DEF Shape, Idle, Places
  <1>9. ASSUME NEW p \in Procs, NEW a \in Addresses, WithdrawRead(p, a)  PROVE Goal
    <2>1. \E x : job' = [job EXCEPT ![p] = [at |-> "withdraw", address |-> a, expected |-> x]]
      BY <1>9 DEF WithdrawRead
    <2>2. UNCHANGED <<offered, cursor>>  BY <1>9 DEF WithdrawRead
    <2> QED  BY <2>1, <2>2 DEF Shape, Places
  <1> QED  BY <1>1, <1>2, <1>3, <1>4, <1>5, <1>6, <1>7, <1>8, <1>9, <1>10 DEF Next, Step

\* Who changes announcements, and who publishes.
LEMMA RemoteSteps ==
  ASSUME Next
  PROVE  \/ \E p \in Procs : Pushed(p) \/ WithdrawDelete(p)
         \/ \E f \in Families, a \in Addresses : Submit(f, a)
         \/ Quiet
  BY DEF Next, Step, Offer, Turn, Begin, Take, Observe, NotPushed, Advance, Kill, WithdrawRead, Quiet

LEMMA ShapeNext == Shape /\ [Next]_vars => Shape'
  <1> SUFFICES ASSUME Shape, [Next]_vars PROVE Shape'
    OBVIOUS
  <1>1. CASE Next
    <2>1. AnnShape'
      <3>1. ASSUME NEW f \in Families, NEW a \in Addresses, Submit(f, a)  PROVE AnnShape'
        BY <3>1 DEF Submit, Shape, AnnShape
      <3> QED  BY <1>1, <3>1, RemoteSteps, PushedAnn, WithdrawnAnn, QuietAnn
    <2> QED  BY <1>1, <2>1, JobShape DEF Shape, AnnShape
  <1>2. CASE UNCHANGED vars  BY <1>2 DEF vars, remote, Shape
  <1> QED  BY <1>1, <1>2

-----------------------------------------------------------------------------
(* Coordinates and promises. *)

\* Who has seen no alias has none: nothing creates them.
AliasesGone ==
  \A p \in Procs :
    job[p].at = "push" /\ job[p].expected["alias"] = None => ann[Own(p)]["alias"] = None

PromisesOwned ==
  \A f \in Families, a \in Promised, c \in Coordinates :
    ann[<<f, a>>][c] # None =>
      [address |-> a, name |-> ann[<<f, a>>][c].name, by |-> f] \in published

\* A branch is published once: by submit, which creates, or with its promise.
NamesOnce ==
  \A b, d \in published : b.address = d.address /\ b.name = d.name => b.by = d.by

RingInv == Shape /\ AliasesGone /\ CoordinatesNeverCoexist /\ PromisesOwned /\ NamesOnce

LEMMA AliasesShrink ==
  ASSUME Shape, Next, NEW f \in Families, NEW a \in Addresses, ann[<<f, a>>]["alias"] = None
  PROVE  ann'[<<f, a>>]["alias"] = None
  <1>0. <<f, a>> \in Families \X Addresses /\ "alias" \in Coordinates  BY DEF Coordinates
  <1>1. ASSUME NEW p \in Procs, Pushed(p)  PROVE ann'[<<f, a>>]["alias"] = None
    BY <1>0, <1>1, PushedAnn
  <1>2. ASSUME NEW p \in Procs, WithdrawDelete(p)  PROVE ann'[<<f, a>>]["alias"] = None
    BY <1>0, <1>2, WithdrawnAnn
  <1>3. CASE UNCHANGED ann  BY <1>3
  <1> QED  BY <1>1, <1>2, <1>3, RemoteSteps DEF Quiet, remote, Submit

\* What a process does leaves the others where they are.
LEMMA OthersWait ==
  ASSUME Shape, NEW p \in Procs, NEW q \in Procs, q # p,
         Step(q) \/ Kill(q) \/ (\E a \in Addresses : WithdrawRead(q, a))
  PROVE  job'[p] = job[p]
  <1>1. \E x : job' = [job EXCEPT ![q] = x]
    <2>1. ASSUME Begin(q)  PROVE \E x : job' = [job EXCEPT ![q] = x]  BY <2>1 DEF Begin
    <2>2. ASSUME Take(q)  PROVE \E x : job' = [job EXCEPT ![q] = x]  BY <2>2 DEF Take
    <2>3. ASSUME Observe(q)  PROVE \E x : job' = [job EXCEPT ![q] = x]  BY <2>3 DEF Observe
    <2>4. ASSUME Pushed(q)  PROVE \E x : job' = [job EXCEPT ![q] = x]  BY <2>4 DEF Pushed
    <2>5. ASSUME NotPushed(q)  PROVE \E x : job' = [job EXCEPT ![q] = x]  BY <2>5 DEF NotPushed
    <2>6. ASSUME Advance(q)  PROVE \E x : job' = [job EXCEPT ![q] = x]  BY <2>6 DEF Advance
    <2>7. ASSUME WithdrawDelete(q) \/ Kill(q)  PROVE \E x : job' = [job EXCEPT ![q] = x]
      BY <2>7 DEF WithdrawDelete, Kill
    <2>8. ASSUME NEW a \in Addresses, WithdrawRead(q, a)
          PROVE  \E x : job' = [job EXCEPT ![q] = x]
      BY <2>8 DEF WithdrawRead
    <2> QED  BY <2>1, <2>2, <2>3, <2>4, <2>5, <2>6, <2>7, <2>8 DEF Step
  <1> QED  BY <1>1 DEF Shape

\* A process comes to push from its observation, or waits there.
LEMMA ComesToPush ==
  ASSUME Shape, Next, NEW p \in Procs, job'[p].at = "push"
  PROVE  \/ job'[p] = job[p]
         \/ /\ Quiet /\ job[p].at \in Places /\ job'[p].offer = job[p].offer
            /\ job'[p].expected = ann[Own(p)]
  <1>1. ASSUME NEW q \in Procs, Observe(q), q = p
        PROVE  /\ Quiet /\ job[p].at \in Places /\ job'[p].offer = job[p].offer
               /\ job'[p].expected = ann[Own(p)]
    <2>1. job' = [job EXCEPT ![p] =
            [at |-> "push", offer |-> @.offer, last |-> @.last, name |-> @.name,
             expected |-> ann[Own(p)]]]
      BY <1>1 DEF Observe, AfterFailure, Idle, Shape
    <2> QED  BY <1>1, <2>1 DEF Shape, Observe, Places, Quiet
  <1>2. ASSUME NEW q \in Procs, Step(q) \/ Kill(q) \/ (\E a \in Addresses : WithdrawRead(q, a)),
               q # p
        PROVE  job'[p] = job[p]
    BY <1>2, OthersWait
  <1>3. ASSUME Begin(p) \/ Take(p) \/ Pushed(p) \/ NotPushed(p) \/ Advance(p)
               \/ WithdrawDelete(p) \/ Kill(p) \/ (\E a \in Addresses : WithdrawRead(p, a))
        PROVE  FALSE
    <2>1. \E x : x.at # "push" /\ job' = [job EXCEPT ![p] = x]
      <3>1. ASSUME Begin(p)  PROVE \E x : x.at # "push" /\ job' = [job EXCEPT ![p] = x]
        <4>1. job' = [job EXCEPT ![p] = [at |-> "take", offer |-> cursor[Reader[FamilyOf[p]]] + 1,
                                         last |-> offered]]
          BY <3>1 DEF Begin
        <4> QED  BY <4>1
      <3>2. ASSUME Take(p)  PROVE \E x : x.at # "push" /\ job' = [job EXCEPT ![p] = x]
        <4>1. \E n : job' = [job EXCEPT ![p] =
                [at |-> "observe", offer |-> job[p].offer, last |-> job[p].last, name |-> n]]
          BY <3>2 DEF Take
        <4> QED  BY <4>1
      <3>3. ASSUME Pushed(p)  PROVE \E x : x.at # "push" /\ job' = [job EXCEPT ![p] = x]
        <4>1. job' = [job EXCEPT ![p] =
                [at |-> "advance", offer |-> job[p].offer, last |-> job[p].last]]
          BY <3>3 DEF Pushed
        <4> QED  BY <4>1
      <3>4. ASSUME Advance(p)  PROVE \E x : x.at # "push" /\ job' = [job EXCEPT ![p] = x]
        <4>1. \/ job' = [job EXCEPT ![p] =
                   [at |-> "take", offer |-> job[p].offer + 1, last |-> job[p].last]]
              \/ job' = [job EXCEPT ![p] = Idle]
          BY <3>4 DEF Advance
        <4> QED  BY <4>1 DEF Idle
      <3>5. ASSUME NotPushed(p) \/ WithdrawDelete(p) \/ Kill(p)
            PROVE  \E x : x.at # "push" /\ job' = [job EXCEPT ![p] = x]
        <4>1. job' = [job EXCEPT ![p] = Idle]
          BY <3>5 DEF NotPushed, AfterFailure, WithdrawDelete, Kill
        <4> QED  BY <4>1 DEF Idle
      <3>6. ASSUME NEW a \in Addresses, WithdrawRead(p, a)
            PROVE  \E x : x.at # "push" /\ job' = [job EXCEPT ![p] = x]
        <4>1. \E e : job' = [job EXCEPT ![p] = [at |-> "withdraw", address |-> a, expected |-> e]]
          BY <3>6 DEF WithdrawRead
        <4> QED  BY <4>1
      <3> QED  BY <1>3, <3>1, <3>2, <3>3, <3>4, <3>5, <3>6
    <2> QED  BY <2>1 DEF Shape
  <1>4. CASE UNCHANGED job  BY <1>4
  <1> QED  BY <1>1, <1>2, <1>3, <1>4 DEF Next, Step, Offer, Turn, Submit

LEMMA AliasesGoneNext ==
  ASSUME Shape, AliasesGone, Next
  PROVE  AliasesGone'
  <1> SUFFICES ASSUME NEW p \in Procs, job'[p].at = "push", job'[p].expected["alias"] = None
               PROVE  ann'[<<FamilyOf[p], Offers[job'[p].offer]>>]["alias"] = None
    BY DEF AliasesGone, Own
  <1>1. CASE job'[p] = job[p]
    <2>1. /\ FamilyOf[p] \in Families /\ Offers[job[p].offer] \in Addresses
      BY <1>1, OwnTyped DEF Places
    <2>2. ann[<<FamilyOf[p], Offers[job[p].offer]>>]["alias"] = None
      BY <1>1 DEF AliasesGone, Own
    <2> QED  BY <1>1, <2>1, <2>2, AliasesShrink
  <1>2. CASE /\ Quiet /\ job[p].at \in Places /\ job'[p].offer = job[p].offer
             /\ job'[p].expected = ann[Own(p)]
    BY <1>2 DEF Own, Quiet, remote
  <1> QED  BY <1>1, <1>2, ComesToPush

LEMMA NeverCoexistNext ==
  ASSUME Shape, AliasesGone, CoordinatesNeverCoexist, Next
  PROVE  CoordinatesNeverCoexist'
  <1> SUFFICES ASSUME NEW f \in Families, NEW a \in Addresses
               PROVE  \E c \in Coordinates : ann'[<<f, a>>][c] = None
    BY DEF CoordinatesNeverCoexist
  <1>0. <<f, a>> \in Families \X Addresses /\ "alias" \in Coordinates  BY DEF Coordinates
  <1>1. PICK c \in Coordinates : ann[<<f, a>>][c] = None  BY DEF CoordinatesNeverCoexist
  <1>2. ASSUME NEW p \in Procs, Pushed(p)  PROVE \E d \in Coordinates : ann'[<<f, a>>][d] = None
    <2>1. CASE Own(p) # <<f, a>>
      <3>1. ann'[<<f, a>>] = ann[<<f, a>>]  BY <1>0, <1>2, <2>1, PushedAnn
      <3> QED  BY <1>1, <3>1
    <2>2. CASE Own(p) = <<f, a>>
      <3>1. job[p].expected["alias"] = None => ann[<<f, a>>]["alias"] = None
        BY <1>2, <2>2 DEF Pushed, AliasesGone
      <3>2. ann'[<<f, a>>]["alias"] = None  BY <1>2, <2>2, <3>1, PushedAnn
      <3> QED  BY <1>0, <3>2
    <2> QED  BY <2>1, <2>2
  <1>3. ASSUME NEW p \in Procs, WithdrawDelete(p)
        PROVE  \E d \in Coordinates : ann'[<<f, a>>][d] = None
    BY <1>1, <1>3, WithdrawnAnn
  <1>4. CASE UNCHANGED ann  BY <1>1, <1>4
  <1> QED  BY <1>2, <1>3, <1>4, RemoteSteps DEF Quiet, remote, Submit

LEMMA PromisesNext ==
  ASSUME Shape, PromisesOwned, Next
  PROVE  PromisesOwned'
  <1> SUFFICES ASSUME NEW f \in Families, NEW a \in Promised, NEW c \in Coordinates,
                      ann'[<<f, a>>][c] # None
               PROVE  [address |-> a, name |-> ann'[<<f, a>>][c].name, by |-> f] \in published'
    BY DEF PromisesOwned
  <1>0. a \in Addresses /\ <<f, a>> \in Families \X Addresses  BY OfferRingAssumption
  <1>1. published \subseteq published'
    BY RemoteSteps DEF Pushed, WithdrawDelete, Submit, Quiet, remote
  <1>2. CASE ann'[<<f, a>>][c] = ann[<<f, a>>][c]
    BY <1>1, <1>2 DEF PromisesOwned
  <1>3. ASSUME NEW p \in Procs, Pushed(p), ann'[<<f, a>>][c] # ann[<<f, a>>][c]
        PROVE  [address |-> a, name |-> ann'[<<f, a>>][c].name, by |-> f] \in published'
    <2>1. Own(p) = <<f, a>>  BY <1>0, <1>3, PushedAnn
    <2>2. c = "canonical"  BY <1>3, <2>1, PushedAnn DEF Coordinates
    <2>3. ann'[<<f, a>>][c].name = job[p].name
      <3>1. ann'[<<f, a>>][c] = NextRecord(ann[<<f, a>>], job[p].name)
        BY <1>3, <2>1, <2>2, PushedAnn
      <3>2. NextRecord(ann[<<f, a>>], job[p].name).name = job[p].name  BY DEF NextRecord
      <3> QED  BY <3>1, <3>2
    <2>4. FamilyOf[p] = f /\ Offers[job[p].offer] = a  BY <2>1 DEF Own
    <2>5. published' = published \cup {[address |-> a, name |-> job[p].name, by |-> f]}
      BY <1>3, <2>4 DEF Pushed
    <2> QED  BY <2>3, <2>5
  <1>4. ASSUME NEW p \in Procs, WithdrawDelete(p)
        PROVE  ann'[<<f, a>>][c] = ann[<<f, a>>][c]
    BY <1>0, <1>4, WithdrawnAnn
  <1>5. CASE UNCHANGED ann  BY <1>2, <1>5
  <1> QED  BY <1>2, <1>3, <1>4, <1>5, RemoteSteps DEF Quiet, remote, Submit

LEMMA NamesOnceNext ==
  ASSUME NamesOnce, Next
  PROVE  NamesOnce'
  <1>1. ASSUME NEW a, NEW n, NEW f, n \notin NamesPublished(a),
               published' = published \cup {[address |-> a, name |-> n, by |-> f]}
        PROVE  NamesOnce'
    <2>1. \A b \in published : ~(b.address = a /\ b.name = n)  BY <1>1 DEF NamesPublished
    <2> QED  BY <1>1, <2>1 DEF NamesOnce
  <1>2. ASSUME NEW p \in Procs, Pushed(p)  PROVE NamesOnce'
    <2> DEFINE a == Offers[job[p].offer]
    <2>1. CASE a \in Promised
      <3>1. job[p].name \notin NamesPublished(a)  BY <1>2, <2>1 DEF Pushed, Leased, Lease
      <3>2. published' = published \cup {[address |-> a, name |-> job[p].name, by |-> FamilyOf[p]]}
        BY <1>2, <2>1 DEF Pushed
      <3> QED  BY <1>1, <3>1, <3>2
    <2>2. CASE a \notin Promised
      <3>1. published' = published  BY <1>2, <2>2 DEF Pushed
      <3> QED  BY <3>1 DEF NamesOnce
    <2> QED  BY <2>1, <2>2
  <1>3. ASSUME NEW f \in Families, NEW a \in Addresses, Submit(f, a)  PROVE NamesOnce'
    <2>1. PICK r \in Sole(f, a) :
            /\ r.name \notin NamesPublished(a)
            /\ published' = published \cup {[address |-> a, name |-> r.name, by |-> f]}
      BY <1>3 DEF Submit
    <2> QED  BY <1>1, <2>1
  <1>4. CASE UNCHANGED published  BY <1>4 DEF NamesOnce
  <1> QED  BY <1>2, <1>3, <1>4, RemoteSteps DEF Quiet, remote, WithdrawDelete

LEMMA RingInvInit == Init => RingInv
  <1> SUFFICES ASSUME Init PROVE RingInv
    OBVIOUS
  <1>1. Shape  BY InitShape
  <1>2. AliasesGone  BY DEF Init, Idle, AliasesGone
  <1>3. \A f \in Families, a \in Addresses, c \in Coordinates :
          ann[<<f, a>>][c] = IF c = "alias" /\ <<f, a>> \in Aliased
                             THEN [name |-> 1, rev |-> 1] ELSE None
    BY DEF Init
  <1>4. CoordinatesNeverCoexist
    <2>1. "canonical" \in Coordinates  BY DEF Coordinates
    <2> QED  BY <1>3, <2>1 DEF CoordinatesNeverCoexist
  <1>5. PromisesOwned
    <2>1. \A f \in Families, a \in Promised : <<f, a>> \notin Aliased /\ a \in Addresses
      BY OfferRingAssumption
    <2> QED  BY <1>3, <2>1 DEF PromisesOwned
  <1>6. NamesOnce  BY DEF Init, NamesOnce
  <1> QED  BY <1>1, <1>2, <1>4, <1>5, <1>6 DEF RingInv

LEMMA RingInvNext == RingInv /\ [Next]_vars => RingInv'
  <1> SUFFICES ASSUME RingInv, [Next]_vars PROVE RingInv'
    OBVIOUS
  <1>1. CASE Next
    BY <1>1, ShapeNext, AliasesGoneNext, NeverCoexistNext, PromisesNext, NamesOnceNext DEF RingInv
  <1>2. CASE UNCHANGED vars
    <2>1. Shape'  BY ShapeNext DEF RingInv
    <2>2. UNCHANGED <<job, ann, published>>  BY <1>2 DEF vars, remote
    <2> QED  BY <2>1, <2>2 DEF RingInv, AliasesGone, Own, CoordinatesNeverCoexist,
                               PromisesOwned, NamesOnce
  <1> QED  BY <1>1, <1>2

LEMMA RingInvariant == Spec => []RingInv
  BY RingInvInit, RingInvNext, PTL DEF Spec

\* No interleaving of announcements, transfers from old versions' aliases,
\* withdrawals and kills leaves an announcement at both coordinates.
THEOREM CoordinatesDisjoint == Spec => []CoordinatesNeverCoexist
  <1>1. RingInv => CoordinatesNeverCoexist  BY DEF RingInv
  <1> QED  BY <1>1, RingInvariant, PTL

\* Every announcement for a producer-aware series has its branch, by the same
\* family, under the announced name.
THEOREM PromisesKept == Spec => []PromisesHoldTheirName
  <1>1. RingInv => PromisesHoldTheirName
    BY DEF RingInv, PromisesOwned, NamesOnce, PromisesHoldTheirName
  <1> QED  BY <1>1, RingInvariant, PTL

-----------------------------------------------------------------------------
(* No offer is passed. *)

ReadersApart == \A f, g \in Families : Reader[f] = Reader[g] => f = g

\* A process has announced for what its pass has left behind.
PassAnnounces ==
  \A p \in Procs : job[p].at \in Places =>
    \A i \in 1..(IF job[p].at = "advance" THEN job[p].offer ELSE job[p].offer - 1) :
      <<FamilyOf[p], i>> \in announced

PassInv == Shape /\ PassAnnounces /\ PassedMeansAnnounced

\* The cursor moves to what a process has announced for.
LEMMA PassedNext ==
  ASSUME ReadersApart, PassInv, Next
  PROVE  PassedMeansAnnounced'
  <1>0. announced \subseteq announced'
    BY DEF Next, Step, Offer, Turn, Begin, Take, Observe, Pushed, NotPushed, Advance, Kill,
           WithdrawRead, WithdrawDelete, Submit
  <1>1. ASSUME NEW p \in Procs, Advance(p)  PROVE PassedMeansAnnounced'
    <2> DEFINE r == Reader[FamilyOf[p]]
    <2> SUFFICES ASSUME NEW f \in Families, NEW i \in 1..cursor'[Reader[f]]
                 PROVE  <<f, i>> \in announced'
      BY DEF PassedMeansAnnounced
    <2>1. FamilyOf[p] \in Families /\ Reader[f] \in Readers
      BY OfferRingAssumption DEF Readers
    <2>2. cursor' = cursor \/ cursor' = [cursor EXCEPT ![r] = job[p].offer]
      BY <1>1 DEF Advance
    <2>3. CASE cursor'[Reader[f]] = cursor[Reader[f]]
      BY <1>0, <2>3 DEF PassInv, PassedMeansAnnounced
    <2>4. CASE cursor'[Reader[f]] # cursor[Reader[f]]
      <3>1. Reader[f] = r /\ cursor'[Reader[f]] = job[p].offer
        BY <2>1, <2>2, <2>4 DEF PassInv, Shape
      <3>2. f = FamilyOf[p]  BY <2>1, <3>1 DEF ReadersApart
      <3>3. job[p].at = "advance"  BY <1>1 DEF Advance
      <3>4. <<FamilyOf[p], i>> \in announced  BY <3>1, <3>3 DEF PassInv, PassAnnounces, Places
      <3> QED  BY <1>0, <3>2, <3>4
    <2> QED  BY <2>3, <2>4
  <1>2. CASE UNCHANGED cursor  BY <1>0, <1>2 DEF PassInv, PassedMeansAnnounced
  <1> QED  BY <1>1, <1>2 DEF Next, Step, Offer, Turn, Begin, Take, Observe, Pushed, NotPushed, Kill,
                             WithdrawRead, WithdrawDelete, Submit

\* What one process does to its own pass.
LEMMA PassStep ==
  ASSUME PassInv, NEW p \in Procs, Step(p) \/ Kill(p) \/ (\E a \in Addresses : WithdrawRead(p, a)),
         job'[p].at \in Places,
         NEW i \in 1..(IF job'[p].at = "advance" THEN job'[p].offer ELSE job'[p].offer - 1)
  PROVE  <<FamilyOf[p], i>> \in announced'
  <1>0. FamilyOf[p] \in Families /\ Reader[FamilyOf[p]] \in Readers
    BY OfferRingAssumption DEF Readers
  <1>1. CASE Begin(p)
    <2> DEFINE k == cursor[Reader[FamilyOf[p]]]
    <2>1. k \in Nat  BY <1>0 DEF PassInv, Shape
    <2>2. job'[p] = [at |-> "take", offer |-> k + 1, last |-> offered]
      BY <1>1 DEF Begin, PassInv, Shape
    <2>3. i \in 1..k  BY <2>1, <2>2
    <2> QED  BY <1>0, <1>1, <2>3 DEF Begin, PassInv, PassedMeansAnnounced
  <1>2. CASE Take(p) \/ Observe(p)
    <2>1. /\ job[p].at \in {"take", "observe"} /\ job[p].at \in Places
          /\ UNCHANGED announced
      BY <1>2 DEF Take, Observe, Places
    <2>2. /\ job'[p].offer = job[p].offer /\ job'[p].at # "advance"
      <3>1. CASE Take(p)
        <4>1. \E n : job' = [job EXCEPT ![p] =
                [at |-> "observe", offer |-> job[p].offer, last |-> job[p].last, name |-> n]]
          BY <3>1 DEF Take
        <4> QED  BY <4>1 DEF PassInv, Shape
      <3>2. CASE Observe(p)
        <4>1. \/ job' = [job EXCEPT ![p] =
                   [at |-> "push", offer |-> job[p].offer, last |-> job[p].last,
                    name |-> job[p].name, expected |-> ann[Own(p)]]]
              \/ job' = [job EXCEPT ![p] = Idle]
          BY <3>2 DEF Observe, AfterFailure
        <4>2. job'[p] # Idle  BY DEF Idle, Places
        <4> QED  BY <4>1, <4>2 DEF PassInv, Shape
      <3> QED  BY <1>2, <3>1, <3>2
    <2>3. i \in 1..(job[p].offer - 1)  BY <2>2
    <2> QED  BY <2>1, <2>3 DEF PassInv, PassAnnounces
  <1>3. CASE Pushed(p)
    <2>1. /\ job[p].at = "push" /\ job[p].at \in Places
          /\ announced' = announced \cup {<<FamilyOf[p], job[p].offer>>}
          /\ job'[p] = [at |-> "advance", offer |-> job[p].offer, last |-> job[p].last]
      BY <1>3 DEF Pushed, Places, PassInv, Shape
    <2>2. job[p].offer \in Nat /\ i \in 1..job[p].offer  BY <2>1 DEF PassInv, Shape
    <2>3. CASE i = job[p].offer  BY <2>1, <2>3
    <2>4. CASE i # job[p].offer
      <3>1. i \in 1..(job[p].offer - 1)  BY <2>2, <2>4
      <3> QED  BY <2>1, <3>1 DEF PassInv, PassAnnounces
    <2> QED  BY <2>3, <2>4
  <1>4. CASE Advance(p)
    <2>1. /\ job[p].at = "advance" /\ job[p].at \in Places /\ UNCHANGED announced
          /\ job[p].offer \in Nat
      BY <1>4 DEF Advance, Places, PassInv, Shape
    <2>2. \/ job' = [job EXCEPT ![p] =
               [at |-> "take", offer |-> job[p].offer + 1, last |-> job[p].last]]
          \/ job' = [job EXCEPT ![p] = Idle]
      BY <1>4 DEF Advance
    <2>3. job'[p] # Idle  BY DEF Idle, Places
    <2>4. job'[p] = [at |-> "take", offer |-> job[p].offer + 1, last |-> job[p].last]
      BY <2>2, <2>3 DEF PassInv, Shape
    <2>5. i \in 1..job[p].offer  BY <2>1, <2>4
    <2> QED  BY <2>1, <2>5 DEF PassInv, PassAnnounces
  <1>5. CASE NotPushed(p) \/ WithdrawDelete(p) \/ Kill(p)
    <2>1. job'[p] = Idle
      BY <1>5 DEF NotPushed, AfterFailure, WithdrawDelete, Kill, PassInv, Shape
    <2> QED  BY <2>1 DEF Idle, Places
  <1>6. ASSUME NEW a \in Addresses, WithdrawRead(p, a)  PROVE FALSE
    <2>1. \E x : job' = [job EXCEPT ![p] = [at |-> "withdraw", address |-> a, expected |-> x]]
      BY <1>6 DEF WithdrawRead
    <2> QED  BY <2>1 DEF PassInv, Shape, Places
  <1> QED  BY <1>1, <1>2, <1>3, <1>4, <1>5, <1>6 DEF Step

LEMMA PassAnnouncesNext ==
  ASSUME PassInv, Next
  PROVE  PassAnnounces'
  <1> SUFFICES ASSUME NEW p \in Procs, job'[p].at \in Places,
                      NEW i \in 1..(IF job'[p].at = "advance" THEN job'[p].offer
                                                              ELSE job'[p].offer - 1)
               PROVE  <<FamilyOf[p], i>> \in announced'
    BY DEF PassAnnounces
  <1>1. announced \subseteq announced'
    BY DEF Next, Step, Offer, Turn, Begin, Take, Observe, Pushed, NotPushed, Advance, Kill,
           WithdrawRead, WithdrawDelete, Submit
  <1>2. CASE Step(p) \/ Kill(p) \/ (\E a \in Addresses : WithdrawRead(p, a))
    BY <1>2, PassStep
  <1>3. CASE job'[p] = job[p]
    BY <1>1, <1>3 DEF PassInv, PassAnnounces
  <1>4. ASSUME NEW q \in Procs, q # p,
               Step(q) \/ Kill(q) \/ (\E a \in Addresses : WithdrawRead(q, a))
        PROVE  job'[p] = job[p]
    BY <1>4, OthersWait DEF PassInv
  <1>5. CASE UNCHANGED job  BY <1>3, <1>5
  <1> QED  BY <1>2, <1>3, <1>4, <1>5 DEF Next, Offer, Turn, Submit

LEMMA PassInvariant ==
  ASSUME ReadersApart
  PROVE  Spec => []PassInv
  <1>1. Init => PassInv
    <2> SUFFICES ASSUME Init PROVE PassInv
      OBVIOUS
    <2>1. PassAnnounces  BY DEF Init, Idle, PassAnnounces, Places
    <2>2. PassedMeansAnnounced
      <3>1. \A f \in Families : cursor[Reader[f]] = 0  BY DEF Init, Readers
      <3> QED  BY <3>1 DEF PassedMeansAnnounced
    <2> QED  BY <2>1, <2>2, InitShape DEF PassInv
  <1>2. PassInv /\ [Next]_vars => PassInv'
    <2> SUFFICES ASSUME PassInv, [Next]_vars PROVE PassInv'
      OBVIOUS
    <2>1. Shape'  BY ShapeNext DEF PassInv
    <2>2. CASE Next  BY <2>1, <2>2, PassedNext, PassAnnouncesNext DEF PassInv
    <2>3. CASE UNCHANGED vars
      <3>1. UNCHANGED <<job, cursor, announced>>  BY <2>3 DEF vars
      <3> QED  BY <2>1, <3>1 DEF PassInv, PassAnnounces, PassedMeansAnnounced
    <2> QED  BY <2>2, <2>3
  <1> QED  BY <1>1, <1>2, PTL DEF Spec

\* While every family has a reader name of its own, no offer gets behind a
\* family's cursor before the family has announced for it: kills, failed
\* passes and any number of processes per family included.
THEOREM NothingPassedUnannounced ==
  ASSUME ReadersApart
  PROVE  Spec => []PassedMeansAnnounced
  <1>1. PassInv => PassedMeansAnnounced  BY DEF PassInv
  <1> QED  BY <1>1, PassInvariant, PTL

-----------------------------------------------------------------------------
(* The types.  What is in them beyond the shapes: a process that takes an  *)
(* offer finds a free name, because what is published and announced is     *)
(* finite, and the takes that it has posted are on the list when it        *)
(* announces.                                                              *)

JobTyped(p) ==
  /\ job[p] = Idle \/ job[p].at \in Places \cup {"withdraw"}
  /\ job[p].at \in {"observe", "push"} =>
       job[p].name \in Nat /\ <<FamilyOf[p], job[p].offer>> \in taken
  /\ job[p].at = "push" => job[p].expected \in [Coordinates -> Record]
  /\ job[p].at = "withdraw" => job[p].expected \in Record

PublishedTyped ==
  /\ \A b \in published : b.address \in Addresses /\ b.name \in Nat /\ b.by \in Families
  /\ IsFiniteSet(published)

ListTyped ==
  /\ cursor \in [Readers -> 0..Len(Offers)]
  /\ taken \subseteq Families \X DOMAIN Offers /\ announced \subseteq taken
  /\ refused \subseteq Families \X DOMAIN Offers
  /\ kills \in 0..MaxKills /\ withdrawals \in 0..MaxWithdrawals /\ turns \in 0..MaxTurns

TypeInv ==
  /\ Shape /\ ListTyped /\ PublishedTyped
  /\ ann \in [Families \X Addresses -> [Coordinates -> Record]]
  /\ \A p \in Procs : JobTyped(p)

LEMMA TypeInvTypes == TypeInv => TypeOK
  <1> SUFFICES ASSUME TypeInv PROVE TypeOK
    OBVIOUS
  <1>1. ASSUME NEW p \in Procs
        PROVE  \/ job[p] = Idle
               \/ /\ job[p].at \in {"take", "observe", "push", "advance"}
                  /\ job[p].offer \in 1..job[p].last /\ job[p].last <= offered
               \/ /\ job[p].at = "withdraw" /\ job[p].address \in Addresses
                  /\ job[p].expected \in Record
    <2>1. \/ job[p] = Idle
          \/ job[p].at \in Places
          \/ job[p].at = "withdraw"
      BY DEF TypeInv, JobTyped
    <2>2. CASE job[p].at \in Places  BY <2>2 DEF TypeInv, Shape, Places
    <2>3. CASE job[p].at = "withdraw"  BY <2>3 DEF TypeInv, Shape, JobTyped
    <2> QED  BY <2>1, <2>2, <2>3
  <1>2. offered \in 0..Len(Offers)  BY DEF TypeInv, Shape
  <1> QED  BY <1>1, <1>2 DEF TypeInv, ListTyped, PublishedTyped, TypeOK

\* The values of a function on a finite set.
LEMMA ImageFinite ==
  ASSUME NEW S, IsFiniteSet(S), NEW f
  PROVE  IsFiniteSet({f[x] : x \in S})
  <1> DEFINE T == {f[x] : x \in S}
             g == [x \in S |-> f[x]]
  <1>1. g \in Surjection(S, T)  BY DEF Surjection
  <1> HIDE DEF g, T
  <1> QED  BY <1>1, FS_Surjection DEF T

\* Among one number more than there are names, one is free: the name picked.
LEMMA FreeName ==
  ASSUME NEW K, IsFiniteSet(K)
  PROVE  LET free == (1..(Cardinality(K) + 1)) \ K
         IN Min(free) \in Nat \ {0} /\ Min(free) \notin K
  <1> DEFINE n == Cardinality(K) + 1
             free == (1..n) \ K
  <1>1. Cardinality(K) \in Nat  BY FS_CardinalityType
  <1>2. free # {}
    <2> SUFFICES ASSUME free = {} PROVE FALSE
      OBVIOUS
    <2>1. (1..n) \in SUBSET K  OBVIOUS
    <2>2. Cardinality(1..n) <= Cardinality(K)  BY <2>1, FS_Subset
    <2>3. n \in Int /\ 1 \in Int /\ ~(1 > n)  BY <1>1
    <2>4. Cardinality(1..n) = n - 1 + 1  BY <2>3, FS_Interval
    <2> QED  BY <1>1, <2>2, <2>4
  <1>3. free \in SUBSET Nat  BY <1>1
  <1> DEFINE R == OpToRel(<, Nat)
  <1>4. PICK x \in free : \A y \in free : ~ (<<y, x>> \in R)
    <2>1. IsWellFoundedOn(R, Nat)  BY NatLessThanWellFounded
    <2> HIDE DEF R, free
    <2> QED  BY <1>2, <1>3, <2>1, WFMin
  <1>5. \A y \in free : x <= y
    <2> SUFFICES ASSUME NEW y \in free PROVE x <= y
      OBVIOUS
    <2>1. <<y, x>> \notin R  BY <1>4
    <2>2. x \in Nat /\ y \in Nat  BY <1>3
    <2>3. ~ (y < x)  BY <2>1, <2>2 DEF OpToRel
    <2> QED  BY <2>2, <2>3
  <1>6. Min(free) \in free
    <2> HIDE DEF free
    <2> QED  BY <1>5 DEF Min
  <1> QED  BY <1>6

LEMMA KnownFinite ==
  ASSUME TypeInv, NEW a
  PROVE  IsFiniteSet(NamesPublished(a)) /\ IsFiniteSet(NamesAnnounced(a))
  <1>1. IsFiniteSet(NamesPublished(a))
    <2> DEFINE S == {x \in published : x.address = a}
               f == [b \in S |-> b.name]
    <2>1. IsFiniteSet(S)
      <3>1. S \in SUBSET published  OBVIOUS
      <3> HIDE DEF S
      <3> QED  BY <3>1, FS_Subset DEF TypeInv, PublishedTyped
    <2>2. NamesPublished(a) = {f[b] : b \in S}  BY DEF NamesPublished
    <2> HIDE DEF f, S
    <2> QED  BY <2>1, <2>2, ImageFinite
  <1>2. IsFiniteSet(NamesAnnounced(a))
    <2> DEFINE s == [f \in Families |-> Sole(f, a)]
               All == {s[f] : f \in Families}
               name == [r \in UNION All |-> r.name]
    <2>1. IsFiniteSet(All)
      <3> HIDE DEF s
      <3> QED  BY OfferRingAssumption, ImageFinite
    <2>2. \A T \in All : IsFiniteSet(T)
      <3> SUFFICES ASSUME NEW f \in Families PROVE IsFiniteSet(Sole(f, a))
        OBVIOUS
      <3> DEFINE x == ann[<<f, a>>]["canonical"]
                 y == ann[<<f, a>>]["alias"]
      <3>1. Sole(f, a) \in SUBSET ({x} \cup {y})  BY DEF Sole, Coordinates
      <3> HIDE DEF x, y
      <3>2. IsFiniteSet({x})  BY FS_Singleton
      <3>3. IsFiniteSet({x} \cup {y})  BY <3>2, FS_AddElement
      <3> QED  BY <3>1, <3>3, FS_Subset
    <2>3. NamesAnnounced(a) = {name[r] : r \in UNION All}  BY DEF NamesAnnounced
    <2>4. IsFiniteSet(UNION All)
      <3> HIDE DEF All
      <3> QED  BY <2>1, <2>2, FS_UNION
    <2> HIDE DEF name, All
    <2> QED  BY <2>3, <2>4, ImageFinite
  <1> QED  BY <1>1, <1>2

\* The next commit at a coordinate.
LEMMA NextRecordTyped ==
  ASSUME NEW own \in [Coordinates -> Record], NEW n \in Nat
  PROVE  NextRecord(own, n) \in Record
  <1> DEFINE S == {0} \cup {own[c].rev : c \in {c \in Coordinates : own[c] # None}}
             x == own["canonical"].rev
             y == own["alias"].rev
  <1>1. /\ own["canonical"] # None => x \in Nat
        /\ own["alias"] # None => y \in Nat
    BY DEF Coordinates, Record
  <1>2. \A z : z \in S <=> \/ z = 0
                           \/ own["canonical"] # None /\ z = x
                           \/ own["alias"] # None /\ z = y
    BY DEF Coordinates
  <1> HIDE DEF x, y, S
  <1>3. \E m \in S : \A z \in S : m >= z  BY <1>1, <1>2
  <1>4. Max(S) \in S  BY <1>3 DEF Max
  <1>5. Max(S) \in Nat  BY <1>1, <1>2, <1>4
  <1>6. NextRecord(own, n) = [name |-> n, rev |-> 1 + Max(S)]  BY DEF NextRecord, S
  <1> QED  BY <1>5, <1>6 DEF Record

\* Init has the types.
LEMMA TypeInvInit == Init => TypeInv
  <1> SUFFICES ASSUME Init PROVE TypeInv
    OBVIOUS
  <1>1. Shape  BY InitShape
  <1>2. /\ Len(Offers) \in Nat /\ MaxKills \in Nat /\ MaxWithdrawals \in Nat
        /\ MaxTurns \in Nat /\ Refused \subseteq Families \X DOMAIN Offers
    BY OfferRingAssumption
  <1>3. ListTyped  BY <1>2 DEF Init, ListTyped
  <1>4. PublishedTyped  BY FS_EmptySet DEF Init, PublishedTyped
  <1>5. ann \in [Families \X Addresses -> [Coordinates -> Record]]
    <2>1. [name |-> 1, rev |-> 1] \in Record /\ None \in Record  BY DEF Record
    <2> QED  BY <2>1 DEF Init
  <1>6. \A p \in Procs : JobTyped(p)  BY DEF Init, Idle, JobTyped
  <1> QED  BY <1>1, <1>3, <1>4, <1>5, <1>6 DEF TypeInv

\* What the list has of a family's takes and announcements.
LEMMA ListTypedNext ==
  ASSUME TypeInv, Next
  PROVE  ListTyped'
  <1> USE DEF ListTyped
  <1>0. /\ Len(Offers) \in Nat /\ MaxKills \in Nat /\ MaxWithdrawals \in Nat /\ MaxTurns \in Nat
        /\ ListTyped /\ DOMAIN Offers = 1..Len(Offers)
    BY OfferRingAssumption DEF TypeInv
  <1>1. ASSUME NEW p \in Procs, job[p].at \in Places
        PROVE  /\ job[p].offer \in 0..Len(Offers)
               /\ <<FamilyOf[p], job[p].offer>> \in Families \X DOMAIN Offers
    <2>1. job[p].offer \in 1..Len(Offers)  BY <1>0, <1>1 DEF TypeInv, Shape
    <2>2. FamilyOf[p] \in Families  BY OfferRingAssumption
    <2> QED  BY <1>0, <2>1, <2>2
  <1>2. ASSUME NEW p \in Procs, Take(p)  PROVE ListTyped'
    <2>1. /\ taken' = taken \cup {<<FamilyOf[p], job[p].offer>>}
          /\ UNCHANGED <<cursor, announced, kills, withdrawals, turns, refused>> /\ job[p].at \in Places
      BY <1>2 DEF Take, Places, bounds
    <2> QED  BY <1>0, <1>1, <2>1
  <1>3. ASSUME NEW p \in Procs, Pushed(p)  PROVE ListTyped'
    <2>1. /\ announced' = announced \cup {<<FamilyOf[p], job[p].offer>>}
          /\ UNCHANGED <<cursor, taken, kills, withdrawals, turns, refused>> /\ job[p].at = "push"
      BY <1>3 DEF Pushed, bounds
    <2>2. <<FamilyOf[p], job[p].offer>> \in taken  BY <2>1 DEF TypeInv, JobTyped
    <2> QED  BY <1>0, <2>1, <2>2
  <1>4. ASSUME NEW p \in Procs, Advance(p)  PROVE ListTyped'
    <2>1. /\ cursor' = cursor \/ cursor' = [cursor EXCEPT ![Reader[FamilyOf[p]]] = job[p].offer]
          /\ UNCHANGED <<announced, taken, kills, withdrawals, turns, refused>> /\ job[p].at \in Places
      BY <1>4 DEF Advance, Places, bounds
    <2> QED  BY <1>0, <1>1, <2>1
  <1>5. ASSUME NEW p \in Procs, Kill(p)  PROVE ListTyped'
    BY <1>0, <1>5 DEF Kill
  <1>6. ASSUME NEW p \in Procs, NEW a \in Addresses, WithdrawRead(p, a)  PROVE ListTyped'
    BY <1>0, <1>6 DEF WithdrawRead
  <1>8. ASSUME NEW f \in Families, NEW i \in DOMAIN Offers, Turn(f, i)  PROVE ListTyped'
    BY <1>0, <1>8 DEF Turn
  <1>7. CASE UNCHANGED <<cursor, taken, announced, kills, withdrawals, turns, refused>>  BY <1>0, <1>7
  <1> QED  BY <1>2, <1>3, <1>4, <1>5, <1>6, <1>7, <1>8 DEF Next, Step, Offer, Turn, Begin, Observe,
             NotPushed, WithdrawDelete, Submit, bounds

\* A push writes a record, a withdrawal removes one.
LEMMA AnnTypedNext ==
  ASSUME TypeInv, Next
  PROVE  ann' \in [Families \X Addresses -> [Coordinates -> Record]]
  <1> DEFINE Goal == ann' \in [Families \X Addresses -> [Coordinates -> Record]]
  <1>0. ann \in [Families \X Addresses -> [Coordinates -> Record]] /\ None \in Record
    BY DEF TypeInv, Record
  <1>1. ASSUME NEW p \in Procs, Pushed(p)  PROVE Goal
    <2> DEFINE new == NextRecord(ann[Own(p)], job[p].name)
    <2>1. job[p].at \in Places  BY <1>1 DEF Pushed, Places
    <2>2. Own(p) \in Families \X Addresses  BY <2>1, OwnTyped DEF TypeInv
    <2>3. ann[Own(p)] \in [Coordinates -> Record]  BY <1>0, <2>2
    <2>4. job[p].name \in Nat  BY <1>1 DEF Pushed, TypeInv, JobTyped
    <2>5. new \in Record  BY <2>3, <2>4, NextRecordTyped
    <2>6. ann' = [ann EXCEPT ![Own(p)] = Transfer(ann[Own(p)], job[p].expected, new)]
      BY <1>1 DEF Pushed
    <2> HIDE DEF new
    <2>7. Transfer(ann[Own(p)], job[p].expected, new) \in [Coordinates -> Record]
      BY <1>0, <2>3, <2>5 DEF Transfer
    <2> QED  BY <1>0, <2>2, <2>6, <2>7
  <1>2. ASSUME NEW p \in Procs, WithdrawDelete(p)  PROVE Goal
    <2> DEFINE fa == <<FamilyOf[p], job[p].address>>
    <2>1. fa \in Families \X Addresses
      BY <1>2, OfferRingAssumption DEF WithdrawDelete, TypeInv, Shape
    <2>2. ann' = ann \/ ann' = [ann EXCEPT ![fa]["canonical"] = None]
      BY <1>2 DEF WithdrawDelete
    <2> HIDE DEF fa
    <2>3. ann[fa] \in [Coordinates -> Record]  BY <1>0, <2>1
    <2>4. [ann[fa] EXCEPT !["canonical"] = None] \in [Coordinates -> Record]  BY <1>0, <2>3
    <2> QED  BY <1>0, <2>1, <2>2, <2>4
  <1>3. CASE UNCHANGED ann  BY <1>0, <1>3
  <1> QED  BY <1>1, <1>2, <1>3, RemoteSteps DEF Quiet, remote, Submit

\* A branch is published with its promise or by submit.
LEMMA PublishedTypedNext ==
  ASSUME TypeInv, Next
  PROVE  PublishedTyped'
  <1> USE DEF PublishedTyped
  <1>0. PublishedTyped  BY DEF TypeInv
  <1>1. ASSUME NEW a \in Addresses, NEW n \in Nat, NEW f \in Families,
               published' = published \cup {[address |-> a, name |-> n, by |-> f]}
        PROVE  PublishedTyped'
    <2>1. IsFiniteSet(published')  BY <1>0, <1>1, FS_AddElement
    <2> QED  BY <1>0, <1>1, <2>1
  <1>2. ASSUME NEW p \in Procs, Pushed(p)  PROVE PublishedTyped'
    <2>1. job[p].at \in Places  BY <1>2 DEF Pushed, Places
    <2>2. Offers[job[p].offer] \in Addresses /\ FamilyOf[p] \in Families
      BY <2>1, OwnTyped DEF TypeInv
    <2>3. job[p].name \in Nat  BY <1>2 DEF Pushed, TypeInv, JobTyped
    <2>4. \/ UNCHANGED published
          \/ published' = published \cup
               {[address |-> Offers[job[p].offer], name |-> job[p].name, by |-> FamilyOf[p]]}
      BY <1>2 DEF Pushed
    <2> QED  BY <1>0, <1>1, <2>2, <2>3, <2>4
  <1>3. ASSUME NEW f \in Families, NEW a \in Addresses, Submit(f, a)  PROVE PublishedTyped'
    <2>1. PICK r \in Sole(f, a) :
            published' = published \cup {[address |-> a, name |-> r.name, by |-> f]}
      BY <1>3 DEF Submit
    <2>2. \E c \in Coordinates : r = ann[<<f, a>>][c] /\ r # None  BY DEF Sole
    <2>3. r \in Record /\ r # None  BY <2>2 DEF TypeInv
    <2>4. r.name \in Nat  BY <2>3 DEF Record
    <2> QED  BY <1>1, <2>1, <2>4
  <1>4. CASE UNCHANGED published  BY <1>0, <1>4
  <1> QED  BY <1>2, <1>3, <1>4, RemoteSteps DEF Quiet, remote, WithdrawDelete

\* What a process does to its own job.
LEMMA OwnJobTyped ==
  ASSUME TypeInv, NEW p \in Procs,
         Step(p) \/ Kill(p) \/ (\E a \in Addresses : WithdrawRead(p, a))
  PROVE  JobTyped(p)'
  <1> USE DEF JobTyped
  <1>0. JobTyped(p) /\ job = [x \in Procs |-> job[x]]  BY DEF TypeInv, Shape
  <1>1. CASE job' = [job EXCEPT ![p] = Idle]  BY <1>0, <1>1 DEF Idle
  <1>2. CASE Begin(p)
    <2>1. PICK c : job' = [job EXCEPT ![p] = [at |-> "take", offer |-> c, last |-> offered]]
      BY <1>2 DEF Begin
    <2> QED  BY <1>0, <2>1 DEF Places
  <1>3. CASE Take(p)
    <2>1. PICK complete \in BOOLEAN :
            LET a == Offers[job[p].offer]
                known == NamesPublished(a) \cup (IF complete THEN NamesAnnounced(a) ELSE {})
                free == (1..(Cardinality(known) + 1)) \ known
            IN job' = [job EXCEPT ![p] = [at |-> "observe", offer |-> @.offer, last |-> @.last,
                                          name |-> Min(free)]]
      BY <1>3 DEF Take
    <2> DEFINE a == Offers[job[p].offer]
               known == NamesPublished(a) \cup (IF complete THEN NamesAnnounced(a) ELSE {})
               n == Min((1..(Cardinality(known) + 1)) \ known)
    <2>2. IsFiniteSet(known)
      <3>1. IsFiniteSet(NamesPublished(a)) /\ IsFiniteSet(NamesAnnounced(a))  BY KnownFinite
      <3>2. IsFiniteSet(IF complete THEN NamesAnnounced(a) ELSE {})  BY <3>1, FS_EmptySet
      <3> QED  BY <3>1, <3>2, FS_Union
    <2>3. n \in Nat
      <3> HIDE DEF known
      <3> QED  BY <2>2, FreeName
    <2>4. job' = [job EXCEPT ![p] = [at |-> "observe", offer |-> job[p].offer,
                                     last |-> job[p].last, name |-> n]]
      BY <2>1
    <2> HIDE DEF n
    <2>5. <<FamilyOf[p], job[p].offer>> \in taken'  BY <1>3 DEF Take
    <2>6. job'[p] = [at |-> "observe", offer |-> job[p].offer, last |-> job[p].last, name |-> n]
      BY <1>0, <2>4
    <2> QED  BY <2>3, <2>5, <2>6 DEF Places
  <1>4. CASE Observe(p)
    <2>1. \/ job' = [job EXCEPT ![p] = Idle]
          \/ job' = [job EXCEPT ![p] =
               [at |-> "push", offer |-> job[p].offer, last |-> job[p].last,
                name |-> job[p].name, expected |-> ann[Own(p)]]]
      BY <1>4 DEF Observe, AfterFailure
    <2>2. /\ job[p].name \in Nat /\ <<FamilyOf[p], job[p].offer>> \in taken
          /\ taken' = taken /\ job[p].at \in Places
      BY <1>0, <1>4 DEF Observe, Places
    <2>3. ann[Own(p)] \in [Coordinates -> Record]
      BY <2>2, OwnTyped DEF TypeInv
    <2>4. CASE job' = [job EXCEPT ![p] =
                 [at |-> "push", offer |-> job[p].offer, last |-> job[p].last,
                  name |-> job[p].name, expected |-> ann[Own(p)]]]
      <3>1. job'[p] = [at |-> "push", offer |-> job[p].offer, last |-> job[p].last,
                       name |-> job[p].name, expected |-> ann[Own(p)]]
        BY <1>0, <2>4
      <3> QED  BY <2>2, <2>3, <3>1 DEF Places
    <2> QED  BY <1>1, <2>1, <2>4
  <1>5. CASE Pushed(p)
    <2>1. job' = [job EXCEPT ![p] =
                    [at |-> "advance", offer |-> job[p].offer, last |-> job[p].last]]
      BY <1>5 DEF Pushed
    <2> QED  BY <1>0, <2>1 DEF Places
  <1>6. CASE Advance(p)
    <2>1. \/ job' = [job EXCEPT ![p] = Idle]
          \/ job' = [job EXCEPT ![p] =
                      [at |-> "take", offer |-> job[p].offer + 1, last |-> job[p].last]]
      BY <1>6 DEF Advance
    <2>2. CASE job' = [job EXCEPT ![p] =
                         [at |-> "take", offer |-> job[p].offer + 1, last |-> job[p].last]]
      BY <1>0, <2>2 DEF Places
    <2> QED  BY <1>1, <2>1, <2>2
  <1>7. ASSUME NEW a \in Addresses, WithdrawRead(p, a)  PROVE JobTyped(p)'
    <2> DEFINE x == ann[<<FamilyOf[p], a>>]["canonical"]
    <2>1. x \in Record
      BY OfferRingAssumption DEF TypeInv, Coordinates
    <2>2. job' = [job EXCEPT ![p] = [at |-> "withdraw", address |-> a, expected |-> x]]
      BY <1>7 DEF WithdrawRead
    <2> HIDE DEF x
    <2> QED  BY <1>0, <2>1, <2>2
  <1>8. CASE NotPushed(p) \/ WithdrawDelete(p) \/ Kill(p)
    BY <1>1, <1>8 DEF NotPushed, AfterFailure, WithdrawDelete, Kill
  <1> QED  BY <1>2, <1>3, <1>4, <1>5, <1>6, <1>7, <1>8 DEF Step

LEMMA JobsTypedNext ==
  ASSUME TypeInv, Next, NEW p \in Procs
  PROVE  JobTyped(p)'
  <1>1. taken \subseteq taken'
    BY DEF Next, Step, Offer, Turn, Begin, Take, Observe, Pushed, NotPushed, Advance, Kill,
           WithdrawRead, WithdrawDelete, Submit
  <1>2. CASE job'[p] = job[p]  BY <1>1, <1>2 DEF TypeInv, JobTyped
  <1>3. ASSUME NEW q \in Procs, Step(q) \/ Kill(q) \/ (\E a \in Addresses : WithdrawRead(q, a))
        PROVE  JobTyped(p)'
    <2>1. CASE q = p  BY <1>3, <2>1, OwnJobTyped
    <2>2. CASE q # p
      <3>1. job'[p] = job[p]  BY <1>3, <2>2, OthersWait DEF TypeInv
      <3> QED  BY <1>2, <3>1
    <2> QED  BY <2>1, <2>2
  <1>4. CASE UNCHANGED job  BY <1>2, <1>4
  <1> QED  BY <1>3, <1>4 DEF Next, Offer, Turn, Submit

\* Every variable has its type in every reachable state, however many families,
\* offers, processes, kills and withdrawals there are: announce always finds a
\* name (_contrib_branch_for), what has been announced has been taken, and what
\* a process remembers of its coordinates is a record that was there.
THEOREM OffersTyped == Spec => []TypeOK
  <1>1. Init => TypeInv  BY TypeInvInit
  <1>2. TypeInv /\ [Next]_vars => TypeInv'
    <2> SUFFICES ASSUME TypeInv, [Next]_vars PROVE TypeInv'
      OBVIOUS
    <2>1. CASE Next
      <3>1. Shape'  BY ShapeNext DEF TypeInv
      <3>2. \A p \in Procs : JobTyped(p)'  BY <2>1, JobsTypedNext
      <3> QED  BY <2>1, <3>1, <3>2, ListTypedNext, AnnTypedNext, PublishedTypedNext DEF TypeInv
    <2>2. CASE UNCHANGED vars
      <3>1. Shape'  BY ShapeNext DEF TypeInv
      <3> QED  BY <2>2, <3>1 DEF vars, remote, bounds, TypeInv, ListTyped, PublishedTyped, JobTyped
    <2> QED  BY <2>1, <2>2
  <1> QED  BY <1>1, <1>2, TypeInvTypes, PTL DEF Spec

-----------------------------------------------------------------------------
(* The deliberation about a series: what the invariant consists of.         *)

Kept == IdsOf(accepted) \subseteq IdsOf(questions)

WorkAfterDirection ==
  \A w \in Workers : patch[w].stage # "none" => head = "direction-ok"

AnswersAll ==
  \A w \in Workers : patch[w].stage = "accepted" => patch[w].outcomes = IdsOf(questions)

RoundsLeft ==
  /\ head = "posted" => rounds = 0
  /\ head \in {"needs_revision", "revised"} => rounds <= MaxRounds
  /\ rounds <= MaxRounds + 1

DeferralInv == Kept /\ WorkAfterDirection /\ AnswersAll

-----------------------------------------------------------------------------
(* Every variable has its type, whatever the reviewers raise               *)
(* (_lint_objection) and the author answers (_parse_deferral_proposals).   *)
THEOREM Typed ==
  ASSUME Hearings \subseteq SUBSET Raised
  PROVE  DirectionSpec => []DirectionTypeOK
<1>1. DirectionInit => DirectionTypeOK
  BY DEF DirectionInit, DirectionTypeOK, NoPatch
<1>2. DirectionTypeOK /\ [DirectionNext]_directionVars => DirectionTypeOK'
  <2> SUFFICES ASSUME DirectionTypeOK, [DirectionNext]_directionVars PROVE DirectionTypeOK'
    OBVIOUS
  <2>1. ASSUME NEW found \in Hearings, NEW nak \in BOOLEAN, Review(found, nak)
        PROVE  DirectionTypeOK'
    <3>1. Heard(found) \subseteq Raised
      BY Hearings \subseteq SUBSET Raised DEF Heard, Raised
    <3>2. Assumptions(found) \subseteq Ids
      BY <3>1 DEF Assumptions, IdsOf, Raised, DirectionTypeOK
    <3>3. record' \subseteq [id : Ids, authority : {"author", "requester"}, blocking : BOOLEAN,
                             status : {"open", "deferral_accepted", "assumption_recorded"}]
      BY <2>1, <3>1 DEF Review, Final, Raised
    <3>4. head' \in {"posted", "revised", "needs_revision", "direction-ok", "nak"}
      BY <2>1 DEF Review, Verdict
    <3>5. rounds' \in Nat /\ ledger' \subseteq [id : Ids, check : Checks]
      BY <2>1 DEF Review, DirectionTypeOK
    <3>6. /\ assumed' \subseteq Ids /\ questions' \subseteq Entries
          /\ accepted' \subseteq [id : Ids, check : Checks]
      BY <2>1, <3>2 DEF Review, NewQuestions, Entries, DirectionTypeOK
    <3> QED
      BY <2>1, <3>3, <3>4, <3>5, <3>6 DEF Review, DirectionTypeOK
  <2>2. ASSUME NEW o \in record, Demote(o) PROVE DirectionTypeOK'
    <3>1. [o EXCEPT !.authority = "requester"] \in
            [id : Ids, authority : {"author", "requester"}, blocking : BOOLEAN,
             status : {"open", "deferral_accepted", "assumption_recorded"}]
      BY DEF DirectionTypeOK
    <3>2. o.id \in Ids
      BY DEF DirectionTypeOK
    <3> QED
      BY <2>2, <3>1, <3>2 DEF Demote, DirectionTypeOK
  <2>3. ASSUME NEW regrounded \in BOOLEAN, NEW kept \in SUBSET assumed,
               NEW proposals \in SUBSET [id : Ids, check : Checks],
               NEW routed \in SUBSET [id : Topics, check : Checks],
               Reform(regrounded, kept, proposals, routed)
        PROVE  DirectionTypeOK'
    <3>1. IdsOf(RequesterBlocking) \subseteq Ids
      BY DEF IdsOf, RequesterBlocking, DirectionTypeOK
    <3>2. routed \subseteq Entries
      BY DEF Entries
    <3> QED
      BY <2>3, <3>1, <3>2 DEF Reform, DirectionTypeOK
  <2>4. ASSUME NEW w \in Workers, Implement(w) PROVE DirectionTypeOK'
    <3>1. IdsOf(patch[w].brief) \subseteq Ids \cup Topics
      BY DEF IdsOf, Entries, DirectionTypeOK
    <3>2. CASE LoadBrief(w)
      BY <3>2 DEF LoadBrief, DirectionTypeOK, series
    <3>3. ASSUME NEW q \in patch[w].brief, Answer(w, q) PROVE DirectionTypeOK'
      <4>1. q.id \in Ids \cup Topics
        BY <3>1 DEF IdsOf
      <4> QED
        BY <3>3, <4>1 DEF Answer, DirectionTypeOK, series
    <3>4. CASE DriveFails(w)
      BY <3>4 DEF DriveFails, NoPatch, DirectionTypeOK, series
    <3>5. CASE WriteResult(w)
      BY <3>5 DEF WriteResult, DirectionTypeOK, series
    <3>6. ASSUME NEW functional \in BOOLEAN, Judge(w, functional) PROVE DirectionTypeOK'
      BY <3>6 DEF Judge, DirectionTypeOK, series
    <3>7. CASE AddressFeedback(w)
      BY <3>7 DEF AddressFeedback, DirectionTypeOK, series
    <3> QED
      BY <2>4, <3>2, <3>3, <3>4, <3>5, <3>6, <3>7 DEF Implement
  <2>5. CASE UNCHANGED directionVars
    BY <2>5 DEF directionVars, series, DirectionTypeOK
  <2> QED
    BY <2>1, <2>2, <2>3, <2>4, <2>5 DEF DirectionNext, Deliberate
<1> QED
  BY <1>1, <1>2, PTL DEF DirectionSpec

-----------------------------------------------------------------------------
(* What the actions of the worker and the judge leave alone.               *)
LEMMA WorkLeavesSeries ==
  ASSUME NEW w \in Workers, Implement(w)
  PROVE  UNCHANGED <<series, demoted, accepted>>
BY DEF Implement, LoadBrief, Answer, DriveFails, WriteResult, Judge, AddressFeedback

(* No patch exists while the direction is open.                            *)
LEMMA NothingUnderWay ==
  ASSUME WorkAfterDirection, head # "direction-ok"
  PROVE  \A w \in Workers : patch[w].stage = "none"
BY DEF WorkAfterDirection

LEMMA DeferralsKept ==
  ASSUME DirectionTypeOK, DeferralInv, [DirectionNext]_directionVars
  PROVE  DeferralInv'
<1> USE DEF DeferralInv
<1>1. ASSUME NEW found \in Hearings, NEW nak \in BOOLEAN, Review(found, nak)
      PROVE  DeferralInv'
  <2>1. Kept'
    <3>1. CASE Verdict(found, nak) = "nak"
      BY <1>1, <3>1 DEF Review, Kept
    <3>2. CASE Verdict(found, nak) # "nak"
      <4>1. questions' = questions \cup NewQuestions(found)
        BY <1>1, <3>2 DEF Review
      <4>2. accepted' = accepted \cup {p \in ledger : p.id \in IdsOf(Deferred(found))}
        BY <1>1, <3>2 DEF Review
      <4>3. IdsOf({p \in ledger : p.id \in IdsOf(Deferred(found))})
              \subseteq IdsOf(questions) \cup IdsOf(NewQuestions(found))
        BY DEF NewQuestions, IdsOf
      <4>4. IdsOf(questions \cup NewQuestions(found))
              = IdsOf(questions) \cup IdsOf(NewQuestions(found))
        BY DEF IdsOf
      <4> QED
        BY <4>1, <4>2, <4>3, <4>4 DEF Kept, IdsOf
    <3> QED BY <3>1, <3>2
  <2>2. \A w \in Workers : patch[w].stage = "none"
    BY <1>1, NothingUnderWay DEF Review
  <2> QED
    BY <1>1, <2>1, <2>2 DEF Review, WorkAfterDirection, AnswersAll
<1>2. ASSUME NEW o \in record, Demote(o) PROVE DeferralInv'
  BY <1>2 DEF Demote, Kept, WorkAfterDirection, AnswersAll
<1>3. ASSUME NEW regrounded \in BOOLEAN, NEW kept \in SUBSET assumed,
             NEW proposals \in SUBSET [id : Ids, check : Checks],
             NEW routed \in SUBSET [id : Topics, check : Checks],
             Reform(regrounded, kept, proposals, routed)
      PROVE  DeferralInv'
  <2>1. IdsOf(questions) \subseteq IdsOf(questions') /\ accepted' = accepted
    BY <1>3 DEF Reform, IdsOf
  <2>2. \A w \in Workers : patch[w].stage = "none"
    BY <1>3, NothingUnderWay DEF Reform
  <2> QED
    BY <1>3, <2>1, <2>2 DEF Reform, Kept, WorkAfterDirection, AnswersAll
<1>4. ASSUME NEW w \in Workers, Implement(w) PROVE DeferralInv'
  <2>1. UNCHANGED <<head, questions, accepted>>
    BY <1>4, WorkLeavesSeries DEF series
  <2>2. Kept'
    BY <2>1 DEF Kept
  <2>3. \A v \in Workers \ {w} : patch'[v] = patch[v]
    BY <1>4 DEF Implement, LoadBrief, Answer, DriveFails, WriteResult, Judge,
                AddressFeedback, DirectionTypeOK
  <2>4. patch'[w].stage # "none" => head = "direction-ok"
    BY <1>4 DEF Implement, LoadBrief, Answer, DriveFails, NoPatch, WriteResult, Judge,
                AddressFeedback, DirectionTypeOK, WorkAfterDirection
  <2>5. patch'[w].stage = "accepted" => patch'[w].outcomes = IdsOf(questions)
    BY <1>4 DEF Implement, LoadBrief, Answer, DriveFails, NoPatch, WriteResult, Judge,
                Complete, AddressFeedback, DirectionTypeOK, AnswersAll
  <2> QED
    BY <2>1, <2>2, <2>3, <2>4, <2>5 DEF WorkAfterDirection, AnswersAll
<1>5. CASE UNCHANGED directionVars
  BY <1>5 DEF directionVars, series, Kept, WorkAfterDirection, AnswersAll
<1> QED
  BY <1>1, <1>2, <1>3, <1>4, <1>5 DEF DirectionNext, Deliberate

(* No deferral is forgotten: an accepted patch has an outcome for each     *)
(* name that a round accepted the deferral of, through any number of       *)
(* rounds and reforms (_questions_the_patch_must_answer,                   *)
(* _must_answer_questions_rejection).                                      *)
THEOREM NothingForgotten ==
  ASSUME Hearings \subseteq SUBSET Raised
  PROVE  DirectionSpec => []DeferredIsAnswered
<1>1. DirectionInit => DeferralInv
  BY DEF DirectionInit, DeferralInv, Kept, WorkAfterDirection, AnswersAll, NoPatch, IdsOf
<1>2. DirectionTypeOK /\ DeferralInv /\ [DirectionNext]_directionVars => DeferralInv'
  BY DeferralsKept
<1>3. DeferralInv => DeferredIsAnswered
  BY DEF DeferralInv, Kept, AnswersAll, DeferredIsAnswered
<1> QED
  BY <1>1, <1>2, <1>3, Typed, PTL DEF DirectionSpec

-----------------------------------------------------------------------------
(* Every question was agreed: it is a closure of the author's, or a        *)
(* proposal of the author's that a round accepted (Heard, NewQuestions).   *)
THEOREM NothingImposed ==
  ASSUME Ids \cap Topics = {}
  PROVE  DirectionSpec => []QuestionsAgreed
<1>1. DirectionInit => QuestionsAgreed
  BY DEF DirectionInit, QuestionsAgreed
<1>2. QuestionsAgreed /\ [DirectionNext]_directionVars => QuestionsAgreed'
  <2> SUFFICES ASSUME QuestionsAgreed, [DirectionNext]_directionVars PROVE QuestionsAgreed'
    OBVIOUS
  <2>1. ASSUME NEW found \in Hearings, NEW nak \in BOOLEAN, Review(found, nak)
        PROVE  QuestionsAgreed'
    BY <2>1 DEF Review, NewQuestions, QuestionsAgreed
  <2>2. ASSUME NEW o \in record, Demote(o) PROVE QuestionsAgreed'
    BY <2>2 DEF Demote, QuestionsAgreed
  <2>3. ASSUME NEW regrounded \in BOOLEAN, NEW kept \in SUBSET assumed,
               NEW proposals \in SUBSET [id : Ids, check : Checks],
               NEW routed \in SUBSET [id : Topics, check : Checks],
               Reform(regrounded, kept, proposals, routed)
        PROVE  QuestionsAgreed'
    <3>1. \A r \in routed : r.id \notin Ids
      BY Ids \cap Topics = {}
    <3> QED
      BY <2>3, <3>1 DEF Reform, QuestionsAgreed
  <2>4. ASSUME NEW w \in Workers, Implement(w) PROVE QuestionsAgreed'
    BY <2>4, WorkLeavesSeries DEF series, QuestionsAgreed
  <2>5. CASE UNCHANGED directionVars
    BY <2>5 DEF directionVars, series, QuestionsAgreed
  <2> QED
    BY <2>1, <2>2, <2>3, <2>4, <2>5 DEF DirectionNext, Deliberate
<1> QED
  BY <1>1, <1>2, PTL DEF DirectionSpec

-----------------------------------------------------------------------------
(* "at most cap+1 reviews and cap reforms can ever run"                    *)
(* (_bounded_rounds_terminal_context).                                     *)
THEOREM Bounded ==
  ASSUME MaxRounds \in Nat, Hearings \subseteq SUBSET Raised
  PROVE  DirectionSpec => []RoundsBounded
<1>1. DirectionInit => RoundsLeft
  BY MaxRounds \in Nat DEF DirectionInit, RoundsLeft
<1>2. DirectionTypeOK /\ RoundsLeft /\ [DirectionNext]_directionVars => RoundsLeft'
  <2> SUFFICES ASSUME DirectionTypeOK, RoundsLeft, [DirectionNext]_directionVars PROVE RoundsLeft'
    OBVIOUS
  <2>1. ASSUME NEW found \in Hearings, NEW nak \in BOOLEAN, Review(found, nak)
        PROVE  RoundsLeft'
    BY <2>1, MaxRounds \in Nat DEF Review, Verdict, RoundsLeft, DirectionTypeOK
  <2>2. ASSUME NEW o \in record, Demote(o) PROVE RoundsLeft'
    BY <2>2 DEF Demote, RoundsLeft
  <2>3. ASSUME NEW regrounded \in BOOLEAN, NEW kept \in SUBSET assumed,
               NEW proposals \in SUBSET [id : Ids, check : Checks],
               NEW routed \in SUBSET [id : Topics, check : Checks],
               Reform(regrounded, kept, proposals, routed)
        PROVE  RoundsLeft'
    BY <2>3 DEF Reform, RoundsLeft
  <2>4. ASSUME NEW w \in Workers, Implement(w) PROVE RoundsLeft'
    BY <2>4, WorkLeavesSeries DEF series, RoundsLeft
  <2>5. CASE UNCHANGED directionVars
    BY <2>5 DEF directionVars, series, RoundsLeft
  <2> QED
    BY <2>1, <2>2, <2>3, <2>4, <2>5 DEF DirectionNext, Deliberate
<1>3. RoundsLeft => RoundsBounded
  BY DEF RoundsLeft, RoundsBounded
<1> QED
  BY <1>1, <1>2, <1>3, Typed, PTL DEF DirectionSpec

-----------------------------------------------------------------------------
(* With names that stand for one objection only, an objection found open   *)
(* and blocking the author stays so through a round's bookkeeping.         *)
LEMMA NamesKeepBlockers ==
  ASSUME NEW found, Distinct(found), found \subseteq Raised,
         NEW o \in Final(found), o.authority = "author"
  PROVE  o.status # "assumption_recorded"
<1>1. PICK h \in Heard(found) :
        o = IF h.id \in Assumptions(found) THEN [h EXCEPT !.status = "assumption_recorded"] ELSE h
  BY DEF Final
<1>2. PICK f \in found :
        h = IF f.status = "deferral_accepted" /\ f.id \notin IdsOf(ledger)
            THEN [f EXCEPT !.status = "open"] ELSE f
  BY DEF Heard
<1>3. f \in Raised
  OBVIOUS
<1>4. /\ h.id = f.id /\ h.authority = f.authority
      /\ h.status \in {"open", "deferral_accepted"}
  BY <1>2, <1>3 DEF Raised
<1>5. o.authority = h.authority
  BY <1>1, <1>2, <1>3 DEF Raised
<1>6. h.id \notin Assumptions(found)
  <2> SUFFICES ASSUME h.id \in Assumptions(found) PROVE FALSE
    OBVIOUS
  <2>1. h.id \notin assumed
    BY <1>4 DEF Distinct, IdsOf
  <2>2. PICK g \in Heard(found) : g.authority = "requester" /\ g.id = h.id
    BY <2>1 DEF Assumptions, IdsOf
  <2>3. PICK e \in found :
          g = IF e.status = "deferral_accepted" /\ e.id \notin IdsOf(ledger)
              THEN [e EXCEPT !.status = "open"] ELSE e
    BY DEF Heard
  <2>4. g.id = e.id /\ g.authority = e.authority
    BY <2>3 DEF Raised
  <2>5. e = f
    BY <1>4, <2>2, <2>4 DEF Distinct
  <2> QED
    BY <1>4, <1>5, <2>2, <2>4, <2>5
<1> QED
  BY <1>1, <1>4, <1>6

(* That reviewers reuse names is all that is wrong: if none did, no        *)
(* direction would be settled over an objection to the author              *)
(* (_with_assumption_status matches by the name alone).                    *)
THEOREM BlockersBlockByName ==
  ASSUME FreshIds, Hearings \subseteq SUBSET Raised
  PROVE  DirectionSpec => []AuthorBlockersBlock
<1>1. DirectionInit => AuthorBlockersBlock
  BY DEF DirectionInit, AuthorBlockersBlock
<1>2. DirectionTypeOK /\ AuthorBlockersBlock /\ [DirectionNext]_directionVars => AuthorBlockersBlock'
  <2> SUFFICES ASSUME DirectionTypeOK, AuthorBlockersBlock, [DirectionNext]_directionVars PROVE AuthorBlockersBlock'
    OBVIOUS
  <2>1. ASSUME NEW found \in Hearings, NEW nak \in BOOLEAN, Review(found, nak)
        PROVE  AuthorBlockersBlock'
    <3> SUFFICES ASSUME head' = "direction-ok", NEW o \in record',
                        o.blocking, o.authority = "author"
                 PROVE  o.status = "deferral_accepted"
      BY DEF AuthorBlockersBlock
    <3>1. record' = Final(found) /\ Distinct(found) /\ found \subseteq Raised
      BY <2>1, FreshIds, Hearings \subseteq SUBSET Raised DEF Review
    <3>2. o.status # "assumption_recorded"
      BY <3>1, NamesKeepBlockers
    <3>3. ~Blocks(o)
      BY <2>1, <3>1 DEF Review, Verdict
    <3>4. o.status \in {"open", "deferral_accepted", "assumption_recorded"}
      BY <3>1 DEF Final, Heard, Raised
    <3> QED
      BY <3>2, <3>3, <3>4 DEF Blocks
  <2>2. ASSUME NEW o \in record, Demote(o) PROVE AuthorBlockersBlock'
    BY <2>2 DEF Demote, AuthorBlockersBlock
  <2>3. ASSUME NEW regrounded \in BOOLEAN, NEW kept \in SUBSET assumed,
               NEW proposals \in SUBSET [id : Ids, check : Checks],
               NEW routed \in SUBSET [id : Topics, check : Checks],
               Reform(regrounded, kept, proposals, routed)
        PROVE  AuthorBlockersBlock'
    BY <2>3 DEF Reform, AuthorBlockersBlock
  <2>4. ASSUME NEW w \in Workers, Implement(w) PROVE AuthorBlockersBlock'
    BY <2>4, WorkLeavesSeries DEF series, AuthorBlockersBlock
  <2>5. CASE UNCHANGED directionVars
    BY <2>5 DEF directionVars, series, AuthorBlockersBlock
  <2> QED
    BY <2>1, <2>2, <2>3, <2>4, <2>5 DEF DirectionNext, Deliberate
<1> QED
  BY <1>1, <1>2, Typed, PTL DEF DirectionSpec
=============================================================================
