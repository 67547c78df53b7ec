--------------------------- MODULE PrecedentStore ---------------------------
(***************************************************************************)
(* The store of researched engineering knowledge                           *)
(* (engineering_precedent_store.py): one SQLite file and one ledger of     *)
(* search times that all workers of all processes share.                   *)
(*                                                                         *)
(* A worker builds one term: it looks the term up, and if the kinds it     *)
(* wants have not been researched, it searches each of them, through a     *)
(* cache of answers and within the rate that the ledger allows, and banks  *)
(* what it found in one transaction.  Workers are threads; the processes   *)
(* they belong to may be killed.  A first access creates the tables, one   *)
(* statement at a time.                                                    *)
(*                                                                         *)
(* Abstracted: a time is its age in ticks; a candidate is its source and   *)
(* the snippet distilled from it, anew in every build, with a free         *)
(* outcome; one search stands for the searches of a kind; whether an       *)
(* answer or a research row has outlived its time to live is a free        *)
(* choice, which covers force; a worker that sleeps for a slot may look    *)
(* again early.                                                            *)
(***************************************************************************)
EXTENDS Naturals, Sequences, FiniteSets

CONSTANTS
  Workers, Processes,
  ProcessOf,    \* the process of each worker
  Keys,         \* normalised terms
  Requests,     \* the sets of kinds that callers ask for
  Sources,      \* what a search may find
  Snippets,     \* what a model may distil from a source
  Window,       \* ticks of the rate window
  Limit,        \* searches allowed in it
  None,
  MaxBuilds, MaxKills, MaxDeprecations  \* bounds

Kinds == {"implementation", "design"}
Tables == {"file", "research", "candidates"}
Candidates == Sources \X Snippets
ASSUME PrecedentStoreAssumption ==
  /\ ProcessOf \in [Workers -> Processes] /\ None \notin Workers
  /\ \A r \in Requests : r \subseteq Kinds /\ r # {}
  /\ Window \in Nat \ {0} /\ Limit \in Nat \ {0}
  /\ MaxBuilds \in Nat /\ MaxKills \in Nat /\ MaxDeprecations \in Nat

VARIABLES
  store,     \* which of the tables exist
  research,  \* the research rows
  active,    \* how many rows of a key and candidate are not deprecated
  cache,     \* the searches whose answer is cached
  ledger,    \* the ages of the searches in the ledger
  holder,    \* the worker that holds the lock of the ledger
  granted,   \* history: the ages of the searches granted, the ledger aside
  job,       \* what each worker does
  builds, kills, deprecations

rows == <<research, active>>
rate == <<ledger, holder, granted>>
bounds == <<builds, kills, deprecations>>
vars == <<store, rows, cache, rate, job, bounds>>

Rest == [at |-> "rest", key |-> None, kinds |-> {}, left |-> {}, again |-> FALSE,
         seen |-> {}, read |-> <<>>, mine |-> <<>>, found |-> {}]

Accesses == {"lookup", "recent", "cached", "keep", "insert"}  \* of the SQLite file
Places == Accesses \cup {"rest", "lock", "count", "grant", "search"}

Terms == Keys \cup {None}
Job == [at : Places, key : Terms, kinds : SUBSET Kinds, left : SUBSET Kinds,
        again : BOOLEAN, seen : SUBSET Tables, read : Seq(Nat), mine : Seq(Nat),
        found : SUBSET Candidates]

TypeOK ==
  /\ store \subseteq Tables
  /\ research \subseteq [key : Terms, kinds : SUBSET Kinds, active : BOOLEAN]
  /\ active \in [Keys \X Candidates -> Nat]
  /\ cache \subseteq Terms \X Kinds
  /\ ledger \in Seq(Nat) /\ granted \in Seq(Nat)
  /\ holder \in Workers \cup {None}
  /\ job \in [Workers -> Job]

Init ==
  /\ store = {} /\ research = {} /\ cache = {}
  /\ active = [kc \in Keys \X Candidates |-> 0]
  /\ ledger = <<>> /\ granted = <<>> /\ holder = None
  /\ job = [w \in Workers |-> Rest]
  /\ builds = 0 /\ kills = 0 /\ deprecations = 0

\* w goes on: its job afterwards.
Goes(w, record) == job' = [job EXCEPT ![w] = record]
Failed(w) == Goes(w, Rest)   \* the term is reported as failed

Start(w) ==
  /\ job[w] = Rest /\ builds < MaxBuilds
  /\ builds' = builds + 1
  /\ \E k \in Keys, kinds \in Requests, at \in {"lookup", "recent"} :
       Goes(w, [Rest EXCEPT !.at = at, !.key = k, !.kinds = kinds])
  /\ UNCHANGED <<store, rows, cache, rate, kills, deprecations>>
-----------------------------------------------------------------------------
(* Opening the store.  _ensure_schema asks which tables there are and then  *)
(* creates the missing ones; each statement commits on its own.             *)

Open(w) == IF job[w].seen = {} THEN store = Tables ELSE job[w].seen = Tables

Reads(w) == job[w].at \in {"lookup", "recent"}  \* which create no file

Look(w) ==
  /\ job[w].at \in Accesses /\ job[w].seen = {} /\ store # Tables
  /\ Reads(w) => "file" \in store
  /\ store' = store \cup {"file"}
  /\ Goes(w, [job[w] EXCEPT !.seen = store'])
  /\ UNCHANGED <<rows, cache, rate, bounds>>

Missing(w) == IF "research" \in job[w].seen THEN "candidates" ELSE "research"

Create(w) ==
  /\ job[w].at \in Accesses /\ job[w].seen \notin {{}, Tables}
  /\ Missing(w) \notin store
  /\ store' = store \cup {Missing(w)}
  /\ Goes(w, [job[w] EXCEPT !.seen = @ \cup {Missing(w)}])
  /\ UNCHANGED <<rows, cache, rate, bounds>>

Lane(w) == IF "implementation" \in job[w].left THEN "implementation" ELSE "design"

\* One kind has been searched, or its answer was cached.
Searched(w, S) ==
  LET rest == job[w].left \ {Lane(w)}
  IN [job[w] EXCEPT !.found = @ \cup S, !.left = rest, !.again = FALSE, !.seen = {},
                    !.at = IF rest = {} THEN "insert" ELSE "cached"]

\* Somebody else has created the table by now.  The cache does without the
\* store; everything else fails.
CreateFails(w) ==
  /\ job[w].at \in Accesses /\ job[w].seen \notin {{}, Tables}
  /\ Missing(w) \in store
  /\ CASE job[w].at = "cached" -> Goes(w, [job[w] EXCEPT !.at = "lock", !.seen = {}])
       [] job[w].at = "keep" -> Goes(w, Searched(w, {}))
       [] OTHER -> Failed(w)
  /\ UNCHANGED <<store, rows, cache, rate, bounds>>
-----------------------------------------------------------------------------
(* Looking up. *)

Live(k) == {r \in research : r.key = k /\ r.active}
Covers(some, kinds) == kinds \subseteq UNION {r.kinds : r \in some}

\* A hit is reported as it is; research that is recent enough spares the search.
Lookup(w) ==
  /\ job[w].at = "lookup" /\ ("file" \in store => Open(w))
  /\ IF Covers(Live(job[w].key), job[w].kinds)
     THEN Goes(w, Rest)
     ELSE Goes(w, [job[w] EXCEPT !.at = "recent", !.seen = {}])
  /\ UNCHANGED <<store, rows, cache, rate, bounds>>

Recent(w) ==
  /\ job[w].at = "recent" /\ ("file" \in store => Open(w))
  /\ \/ Covers(Live(job[w].key), job[w].kinds) /\ Goes(w, Rest)
     \/ Goes(w, [job[w] EXCEPT !.at = "cached", !.left = job[w].kinds, !.seen = {}])
  /\ UNCHANGED <<store, rows, cache, rate, bounds>>

CacheRead(w) ==
  /\ job[w].at = "cached" /\ Open(w)
  /\ \/ /\ <<job[w].key, Lane(w)>> \in cache
        /\ \E S \in SUBSET Candidates : Goes(w, Searched(w, S))
     \/ Goes(w, [job[w] EXCEPT !.at = "lock", !.seen = {}])
  /\ UNCHANGED <<store, rows, cache, rate, bounds>>
-----------------------------------------------------------------------------
(* A search waits for its slot in the ledger. *)

Anyhow == TRUE  \* mutant: the ledger is not locked
Free == holder = None
Lock(w) ==
  /\ job[w].at = "lock" /\ Free
  /\ holder' = w
  /\ Goes(w, [job[w] EXCEPT !.at = "count"])
  /\ UNCHANGED <<store, rows, cache, ledger, granted, bounds>>

LockTimesOut(w) ==
  /\ job[w].at = "lock" /\ ~Free
  /\ Failed(w)
  /\ UNCHANGED <<store, rows, cache, rate, bounds>>

Count(w) ==
  /\ job[w].at = "count" /\ Len(ledger) < Limit
  /\ Goes(w, [job[w] EXCEPT !.at = "grant", !.read = ledger, !.mine = <<0>>])
  /\ UNCHANGED <<store, rows, cache, rate, bounds>>

NoSlot(w) ==
  /\ job[w].at = "count" /\ Len(ledger) >= Limit
  /\ holder' = None
  /\ Goes(w, [job[w] EXCEPT !.at = "lock"])
  /\ UNCHANGED <<store, rows, cache, ledger, granted, bounds>>

\* The ledger is written as it was read, with the new search.
Grant(w) ==
  /\ job[w].at = "grant"
  /\ ledger' = job[w].read \o job[w].mine
  /\ granted' = granted \o job[w].mine
  /\ holder' = None
  /\ Goes(w, [job[w] EXCEPT !.at = "search", !.read = <<>>, !.mine = <<>>])
  /\ UNCHANGED <<store, rows, cache, bounds>>

\* Answered, refused for the rate and tried once more, or without an answer.
Search(w) ==
  /\ job[w].at = "search"
  /\ \/ \E S \in SUBSET Candidates : Goes(w, [job[w] EXCEPT !.at = "keep", !.found = @ \cup S])
     \/ ~job[w].again /\ Goes(w, [job[w] EXCEPT !.at = "lock", !.again = TRUE])
     \/ Goes(w, Searched(w, {}))
  /\ UNCHANGED <<store, rows, cache, rate, bounds>>

CacheWrite(w) ==
  /\ job[w].at = "keep" /\ Open(w)
  /\ cache' = cache \cup {<<job[w].key, Lane(w)>>}
  /\ Goes(w, Searched(w, {}))
  /\ UNCHANGED <<store, rows, rate, bounds>>

NeverExpires(times) == times  \* mutant: old searches keep counting
\* The ages after a tick, without those that the window has left behind, which
\* are the first ones.
Aged(times) ==
  LET gone == {i \in DOMAIN times : times[i] + 1 >= Window}
  IN [i \in 1..(Len(times) - Cardinality(gone)) |-> times[i + Cardinality(gone)] + 1]
Tick ==
  /\ ledger # <<>> \/ \E w \in Workers : job[w].mine # <<>>
  /\ ledger' = Aged(ledger) /\ granted' = Aged(granted)
  /\ job' = [w \in Workers |-> [job[w] EXCEPT !.read = Aged(@), !.mine = Aged(@)]]
  /\ UNCHANGED <<store, rows, cache, holder, bounds>>
-----------------------------------------------------------------------------
(* Banking what was found.  The number of the attempt, which is read before  *)
(* the transaction begins, is left out: nothing depends on it.               *)

NewAlways(k, c) == TRUE  \* mutant: candidates are not compared with stored ones
\* Neither deprecated nor there: compared by term, source and snippet.
New(k, c) == active[<<k, c>>] = 0
Insert(w) ==
  LET k == job[w].key
  IN /\ job[w].at = "insert" /\ Open(w)
     /\ research' = research \cup {[key |-> k, kinds |-> job[w].kinds, active |-> TRUE]}
     /\ active' = [kc \in DOMAIN active |->
          IF kc[1] = k /\ kc[2] \in job[w].found /\ New(k, kc[2]) THEN active[kc] + 1 ELSE active[kc]]
     /\ Goes(w, Rest)
     /\ UNCHANGED <<store, cache, rate, bounds>>

\* The file stays locked for longer than the busy timeout.
Busy(w) ==
  /\ job[w].at = "insert"
  /\ Failed(w)
  /\ UNCHANGED <<store, rows, cache, rate, bounds>>

\* deprecate_term, or deprecate_candidates; one transaction on a whole store.
Deprecate(k, whole) ==
  /\ store = Tables /\ deprecations < MaxDeprecations
  /\ deprecations' = deprecations + 1
  /\ research' = IF whole THEN {IF r.key = k THEN [r EXCEPT !.active = FALSE] ELSE r : r \in research}
                 ELSE research
  /\ active' = [kc \in DOMAIN active |-> IF kc[1] = k THEN 0 ELSE active[kc]]
  /\ UNCHANGED <<store, cache, rate, job, builds, kills>>

\* The kernel takes back the locks of a killed process.
Kill(p) ==
  LET its == {w \in Workers : ProcessOf[w] = p}
  IN /\ kills < MaxKills /\ \E w \in its : job[w] # Rest
     /\ kills' = kills + 1
     /\ job' = [w \in Workers |-> IF w \in its THEN Rest ELSE job[w]]
     /\ holder' = IF holder \in its THEN None ELSE holder
     /\ UNCHANGED <<store, rows, cache, ledger, granted, builds, deprecations>>
-----------------------------------------------------------------------------
Step(w) ==
  \/ Look(w) \/ Create(w) \/ CreateFails(w)
  \/ Lookup(w) \/ Recent(w) \/ CacheRead(w)
  \/ Lock(w) \/ LockTimesOut(w) \/ Count(w) \/ NoSlot(w) \/ Grant(w)
  \/ Search(w) \/ CacheWrite(w)
  \/ Insert(w) \/ Busy(w)

Next ==
  \/ \E w \in Workers : Start(w) \/ Step(w)
  \/ Tick
  \/ \E k \in Keys, whole \in BOOLEAN : Deprecate(k, whole)
  \/ \E p \in Processes : Kill(p)

\* Time passes and threads run.
Spec == Init /\ [][Next]_vars /\ WF_vars(Tick) /\ \A w \in Workers : WF_vars(Step(w))
-----------------------------------------------------------------------------
(* Properties. *)

\* The searches that all processes were granted in any window stay within the
\* limit, though each reads the ledger, counts and writes it back.
RateRespected == Len(granted) <= Limit

\* "re-expand appends and dedupes" (docs/DESIGN-DECISIONS.md): no finding, that is
\* no snippet of one source, is active twice for a term, whichever processes
\* researched it at once and however they got there (found anew, cached, after a
\* deprecation).  A source whose snippet is distilled differently in a later build
\* is another finding, and is banked beside the first.
CandidatesOnce == \A k \in Keys, c \in Candidates : active[<<k, c>>] <= 1

\* Every build ends: slots come back, and a killed holder's locks with them.
BuildsEnd == \A w \in Workers : job[w] # Rest ~> job[w] = Rest
=============================================================================
