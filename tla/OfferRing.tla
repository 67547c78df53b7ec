----------------------------- MODULE OfferRing ------------------------------
(***************************************************************************)
(* How families of patch authors take open offers and announce themselves  *)
(* (patch_author: list_contributor and announcements).                     *)
(*                                                                         *)
(* take_open_offers reads the offers after the family's cursor and, for    *)
(* each of them in turn, posts a take, announces and advances the cursor.  *)
(* announce picks a contribution branch name that nobody has published or  *)
(* announced, observes the family's own two coordinates on the remote, the *)
(* canonical one and the older alias, and pushes with a lease on what it   *)
(* observed: a create, an update, an atomic transfer from the alias, or,   *)
(* for a producer-aware series, an atomic creation of announcement and     *)
(* branch.  Families hold no locks; several processes may run as one.      *)
(* announce refuses as long as the series is not in the family's clone, the *)
(* readiness of its producer is closed, its manifest does not parse or the *)
(* older announcement does not pass; such a refusal may come and go.       *)
(*                                                                         *)
(* Abstracted: the list is the sequence of its offers (MailingList has the *)
(* retries of its posts and cursors); a name is its number (base, base-r2, *)
(* ...); an announcement is its branch name and a revision that tells the  *)
(* commits at one coordinate apart; implementation is Contribution.        *)
(***************************************************************************)
EXTENDS Naturals, Sequences, FiniteSets, FiniteSetsExt

CONSTANTS
  Families,    \* author identities
  Procs,       \* processes that take offers
  FamilyOf,    \* the identity of each
  Reader,      \* the reader name that each family keeps its cursor under
  Offers,      \* the addresses offered on the list, in order
  Promised,    \* those of producer-aware series
  Aliased,     \* announcements that an older version left at the alias
  Refused,     \* the offers that announce refuses a family at first
  None,
  MaxKills, MaxWithdrawals, MaxTurns  \* bounds

Addresses == {Offers[i] : i \in DOMAIN Offers}
Coordinates == {"canonical", "alias"}
ASSUME OfferRingAssumption ==
  /\ IsFiniteSet(Families)
  /\ FamilyOf \in [Procs -> Families] /\ Families \subseteq DOMAIN Reader
  /\ Offers \in Seq(Addresses) /\ Promised \subseteq Addresses
  /\ Aliased \subseteq Families \X (Addresses \ Promised)
  /\ Refused \subseteq Families \X DOMAIN Offers
  /\ MaxKills \in Nat /\ MaxWithdrawals \in Nat /\ MaxTurns \in Nat

VARIABLES
  offered,    \* how many of the offers have been posted
  refused,    \* the offers that announce refuses a family, whatever is on the remote
  cursor,     \* the cursor of each reader
  taken,      \* the takes on the list: family and offer
  ann,        \* what is at each coordinate of a family for an address
  published,  \* the contribution branches: address, name and family
  job,        \* what each process does
  announced,  \* history: the offers that each family announced for
  kills, withdrawals, turns

remote == <<ann, published>>
bounds == <<kills, withdrawals, turns>>
vars == <<offered, refused, cursor, taken, remote, job, announced, bounds>>

Readers == {Reader[f] : f \in Families}
Idle == [at |-> "idle"]
Record == [name : Nat, rev : Nat] \cup {None}

TypeOK ==
  /\ offered \in 0..Len(Offers) /\ refused \subseteq Families \X DOMAIN Offers
  /\ cursor \in [Readers -> 0..Len(Offers)]
  /\ taken \subseteq Families \X DOMAIN Offers /\ announced \subseteq taken
  /\ ann \in [Families \X Addresses -> [Coordinates -> Record]]
  /\ \A b \in published : b.address \in Addresses /\ b.name \in Nat /\ b.by \in Families
  /\ \A p \in Procs :
       \/ job[p] = Idle
       \/ job[p].at \in {"take", "observe", "push", "advance"}
          /\ job[p].offer \in 1..job[p].last /\ job[p].last <= offered
       \/ job[p].at = "withdraw" /\ job[p].address \in Addresses /\ job[p].expected \in Record
  /\ kills \in 0..MaxKills /\ withdrawals \in 0..MaxWithdrawals /\ turns \in 0..MaxTurns

Init ==
  /\ offered = 0 /\ refused = Refused
  /\ cursor = [r \in Readers |-> 0]
  /\ taken = {} /\ announced = {} /\ published = {}
  /\ ann = [fa \in Families \X Addresses |->
             [c \in Coordinates |->
               IF c = "alias" /\ fa \in Aliased THEN [name |-> 1, rev |-> 1] ELSE None]]
  /\ job = [p \in Procs |-> Idle]
  /\ kills = 0 /\ withdrawals = 0 /\ turns = 0
-----------------------------------------------------------------------------
Own(p) == <<FamilyOf[p], Offers[job[p].offer]>>   \* whose coordinates p writes

\* The gate posts the next offer.
Offer ==
  /\ offered < Len(Offers)
  /\ offered' = offered + 1
  /\ UNCHANGED <<refused, cursor, taken, remote, job, announced, bounds>>

\* The clone is fetched into, or the series moves on: announce refuses an offer
\* from now on (series_missing, producer_lifecycle_not_ready,
\* producer_promise_invalid, a manifest or an older announcement that does not
\* pass), or no longer does.
Turn(f, i) ==
  /\ turns < MaxTurns
  /\ turns' = turns + 1
  /\ refused' = IF <<f, i>> \in refused THEN refused \ {<<f, i>>} ELSE refused \cup {<<f, i>>}
  /\ UNCHANGED <<offered, cursor, taken, remote, job, announced, kills, withdrawals>>

\* take_open_offers reads the offers behind the cursor, once.
Begin(p) ==
  LET c == cursor[Reader[FamilyOf[p]]]
  IN /\ job[p] = Idle /\ c < offered
     /\ job' = [job EXCEPT ![p] = [at |-> "take", offer |-> c + 1, last |-> offered]]
     /\ UNCHANGED <<offered, refused, cursor, taken, remote, announced, bounds>>

\* The one announcement of a family for an address, when only one coordinate
\* has one: readers release nothing while both do.
Sole(f, a) == LET both == {ann[<<f, a>>][c] : c \in Coordinates} \ {None}
              IN IF \E c \in Coordinates : ann[<<f, a>>][c] = None THEN both ELSE {}
NamesAnnounced(a) == {r.name : r \in UNION {Sole(f, a) : f \in Families}}
NamesPublished(a) == {b.name : b \in {x \in published : x.address = a}}

\* Posts a take, which nobody reads as a reservation, and picks the first name
\* that is free, the announced ones counted when all announcements could be
\* fetched (_contrib_branch_for).
Take(p) ==
  /\ job[p].at = "take"
  /\ taken' = taken \cup {<<FamilyOf[p], job[p].offer>>}
  /\ \E complete \in BOOLEAN :
       LET a == Offers[job[p].offer]
           known == NamesPublished(a) \cup (IF complete THEN NamesAnnounced(a) ELSE {})
           free == (1..(Cardinality(known) + 1)) \ known
       IN job' = [job EXCEPT ![p] = [at |-> "observe", offer |-> @.offer, last |-> @.last,
                                     name |-> Min(free)]]
  /\ UNCHANGED <<offered, refused, cursor, remote, announced, bounds>>

\* Any failure ends the pass: the offer stays unread.
AdvancesAllTheSame(p) == [at |-> "advance", offer |-> job[p].offer, last |-> job[p].last] \* mutant
AfterFailure(p) == Idle

\* The family's own coordinates: both at once are refused, and a promise is
\* only made where nothing has been announced.
MayWriteUnlessAliased(own, a) ==  \* mutant: an alias is refused, not transferred
  /\ own["alias"] = None /\ (a \in Promised => own["canonical"] = None)
MayWrite(own, a) == /\ \E c \in Coordinates : own[c] = None
                    /\ a \in Promised => \A c \in Coordinates : own[c] = None
Observe(p) ==
  /\ job[p].at = "observe"
  /\ job' = [job EXCEPT ![p] = IF /\ <<FamilyOf[p], @.offer>> \notin refused
                                 /\ MayWrite(ann[Own(p)], Offers[@.offer])
               THEN [at |-> "push", offer |-> @.offer, last |-> @.last, name |-> @.name,
                     expected |-> ann[Own(p)]]
               ELSE AfterFailure(p)]
  /\ UNCHANGED <<offered, refused, cursor, taken, remote, announced, bounds>>

-----------------------------------------------------------------------------
(* The push. *)

NextRecord(own, n) ==
  [name |-> n, rev |-> 1 + Max({0} \cup {own[c].rev : c \in {c \in Coordinates : own[c] # None}})]

\* With a lease on the canonical coordinate, the alias when it is transferred,
\* and on the branch when it is made along.
TransferInTwoSteps(own, expected, new) ==  \* mutant: the alias is left for later
  [own EXCEPT !["canonical"] = new]
Transfer(own, expected, new) ==
  [own EXCEPT !["canonical"] = new, !["alias"] = IF expected["alias"] # None THEN None ELSE @]
Lease(own, expected, a, n) ==
  /\ own["canonical"] = expected["canonical"]
  /\ expected["alias"] # None => own["alias"] = expected["alias"]
  /\ a \in Promised => n \notin NamesPublished(a)
Leased(p) == Lease(ann[Own(p)], job[p].expected, Offers[job[p].offer], job[p].name)

Pushed(p) ==
  LET a == Offers[job[p].offer]
      branch == [address |-> a, name |-> job[p].name, by |-> FamilyOf[p]]
  IN /\ job[p].at = "push"
     /\ Leased(p)
     /\ ann' = [ann EXCEPT ![Own(p)] =
                 Transfer(@, job[p].expected, NextRecord(@, job[p].name))]
     /\ published' = IF a \in Promised THEN published \cup {branch} ELSE published
     /\ announced' = announced \cup {<<FamilyOf[p], job[p].offer>>}
     /\ job' = [job EXCEPT ![p] = [at |-> "advance", offer |-> @.offer, last |-> @.last]]
     /\ UNCHANGED <<offered, refused, cursor, taken, bounds>>

NotPushed(p) ==
  /\ job[p].at = "push" /\ ~Leased(p)
  /\ job' = [job EXCEPT ![p] = AfterFailure(p)]
  /\ UNCHANGED <<offered, refused, cursor, taken, remote, announced, bounds>>

\* advance_cursor accepts the cursor's own mail and refuses to go back.
Advance(p) ==
  LET r == Reader[FamilyOf[p]]
      i == job[p].offer
  IN /\ job[p].at = "advance"
     /\ \/ /\ cursor[r] <= i
           /\ cursor' = [cursor EXCEPT ![r] = i]
           /\ job' = [job EXCEPT ![p] = IF i < @.last
                        THEN [at |-> "take", offer |-> i + 1, last |-> @.last] ELSE Idle]
        \/ cursor[r] > i /\ job' = [job EXCEPT ![p] = Idle] /\ UNCHANGED cursor
     /\ UNCHANGED <<offered, refused, taken, remote, announced, bounds>>

Kill(p) ==
  /\ job[p] # Idle /\ kills < MaxKills
  /\ kills' = kills + 1
  /\ job' = [job EXCEPT ![p] = Idle]
  /\ UNCHANGED <<offered, refused, cursor, taken, remote, announced, withdrawals, turns>>
-----------------------------------------------------------------------------
(* Withdrawal and the first submission, by the announcing family. *)

WithdrawRead(p, a) ==
  LET own == ann[<<FamilyOf[p], a>>]
  IN /\ job[p] = Idle /\ withdrawals < MaxWithdrawals
     /\ withdrawals' = withdrawals + 1
     /\ own["canonical"] # None /\ own["alias"] = None
     /\ job' = [job EXCEPT ![p] = [at |-> "withdraw", address |-> a, expected |-> own["canonical"]]]
     /\ UNCHANGED <<offered, refused, cursor, taken, remote, announced, kills, turns>>

WithdrawDelete(p) ==
  LET fa == <<FamilyOf[p], job[p].address>>
  IN /\ job[p].at = "withdraw"
     /\ job' = [job EXCEPT ![p] = Idle]
     /\ ann' = IF ann[fa]["canonical"] = job[p].expected
               THEN [ann EXCEPT ![fa]["canonical"] = None] ELSE ann
     /\ UNCHANGED <<offered, refused, cursor, taken, published, announced, bounds>>

\* submit creates the announced branch unless a rival has the name.
Submit(f, a) ==
  /\ \E r \in Sole(f, a) :
       /\ r.name \notin NamesPublished(a)
       /\ published' = published \cup {[address |-> a, name |-> r.name, by |-> f]}
  /\ UNCHANGED <<offered, refused, cursor, taken, ann, job, announced, bounds>>

Step(p) == \/ Begin(p) \/ Take(p) \/ Observe(p) \/ Pushed(p) \/ NotPushed(p)
           \/ Advance(p) \/ WithdrawDelete(p)

Next ==
  \/ Offer
  \/ \E f \in Families, i \in DOMAIN Offers : Turn(f, i)
  \/ \E p \in Procs : Step(p) \/ Kill(p) \/ (\E a \in Addresses : WithdrawRead(p, a))
  \/ \E f \in Families, a \in Addresses : Submit(f, a)

\* Families read the list again and again.
Spec == Init /\ [][Next]_vars /\ \A p \in Procs : WF_vars(Step(p))
-----------------------------------------------------------------------------
(* Properties. *)

\* The canonical coordinate and the alias of an announcement never coexist:
\* while they do, readers release neither and the family cannot announce.
CoordinatesNeverCoexist ==
  \A f \in Families, a \in Addresses : \E c \in Coordinates : ann[<<f, a>>][c] = None

\* Whoever announces for a producer-aware series owns the announced branch, and
\* no other family has published one of that name.
PromisesHoldTheirName ==
  \A f \in Families, a \in Promised, c \in Coordinates :
    ann[<<f, a>>][c] # None =>
      LET n == ann[<<f, a>>][c].name
      IN /\ [address |-> a, name |-> n, by |-> f] \in published
         /\ \A b \in published : b.address = a /\ b.name = n => b.by = f

\* "another family's take cannot suppress this reader's take" (list_contributor):
\* no offer is behind a family's cursor that it has not announced for.
PassedMeansAnnounced ==
  \A f \in Families : \A i \in 1..cursor[Reader[f]] : <<f, i>> \in announced

\* A family does not stay at an offer that it can announce for: it passes the
\* offer, or announce refuses it, or its own announcement of a promise, made before
\* a kill or by another process, is in the way (take_open_offers stops there).
InTheWay(f) == LET i == cursor[Reader[f]] + 1
               IN /\ i <= offered
                  /\ \/ <<f, i>> \in refused
                     \/ /\ Offers[i] \in Promised
                        /\ \E c \in Coordinates : ann[<<f, Offers[i]>>][c] # None
Behind(f) == cursor[Reader[f]] < offered /\ ~InTheWay(f)
OffersPassed == \A f \in Families : Behind(f) ~> ~Behind(f)
=============================================================================
