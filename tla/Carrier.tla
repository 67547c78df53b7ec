------------------------------ MODULE Carrier ------------------------------
(***************************************************************************)
(* One call of a codex carrier: codex_exec.run_json over the retry loop    *)
(* codex_reset.run_with_reset_retries, which the grounding, the precedent  *)
(* store, the reviews and the code worker use as well.  The provider       *)
(* interrupts a carrier in two ways: with an announced reset, "try again   *)
(* at 3:04 PM.", a time of day without its date, or with a transient, an   *)
(* untimed failure.  The loop waits and runs the carrier again, resuming   *)
(* the last session it saw, until the carrier exits with 0 or the budget   *)
(* of the interruption at hand is spent.                                   *)
(*                                                                         *)
(* clock counts ticks of local time; Day ticks make a day, and tick 0 is a *)
(* midnight.  A change of the local offset is not modelled.                *)
(***************************************************************************)
EXTENDS Integers, Sequences, FiniteSets, SequencesExt

CONSTANTS
  Day,             \* ticks of a day
  Grace,           \* BOUNDARY_GRACE
  Short,           \* SHORT_RETRY
  Backoff,         \* TRANSIENT_BACKOFF_SECONDS
  MaxBackoff,      \* MAX_TRANSIENT_BACKOFF_SECONDS
  MaxResets,       \* MAX_RESET_RETRIES
  MaxTransients,   \* MAX_TRANSIENT_RETRIES
  Sessions,        \* the session ids carriers report
  Starts,          \* the ticks at which a call may be made
  RunTimes,        \* how long a carrier may run
  Lag,             \* by how much an announced reset may already have passed
  Ahead,           \* and how far ahead it may lie, when the carrier exits
  Nothing             \* no session, no output file

ASSUME CarrierAssumption ==
  /\ Day \in Nat \ {0} /\ Grace \in Nat /\ Short \in Nat
  /\ Grace < Day /\ Short < Day - Grace
  /\ Backoff \in Nat /\ MaxBackoff \in Nat
  /\ MaxResets \in Nat /\ MaxTransients \in Nat
  /\ Starts \subseteq Nat /\ RunTimes \subseteq Nat
  /\ Lag \in Nat /\ Ahead \in Nat
  /\ Nothing \notin Sessions

VARIABLES
  clock,       \* the local time
  pc,          \* where the loop stands
  resume,      \* resume_session
  resets,      \* reset_retries
  transients,  \* transient_retries
  target,      \* the end of the current wait
  file,        \* the attempt that wrote the output file last
  runs,        \* what each attempt was and how it ended: invocation_modes, session_ids
  answer       \* what run_json returns

callVars == <<clock, pc, resume, resets, transients, target, file, runs, answer>>

(* classify_transient: an announced reset wins over a transient.           *)
Classes == {"timed_reset", "transient", "unclassified"}

Answers == {"pending", "ok", "failed", "exhausted"}

(* What one carrier leaves behind: its exit status, the sessions its       *)
(* output names, the interruption its output reports, the instant an       *)
(* announced reset means, and whether it wrote the output file.            *)
Exit == [zero : BOOLEAN, class : Classes, reset : Int,
         ids : {<<>>} \cup {<<s>> : s \in Sessions}, wrote : BOOLEAN]

Exits(now) ==
  {e \in [zero : BOOLEAN, class : Classes, reset : (now - Lag)..(now + Ahead),
          ids : {<<>>} \cup {<<s>> : s \in Sessions}, wrote : BOOLEAN] :
     e.class # "timed_reset" => e.reset = now}

ASSUME NothingAssumption == Nothing \notin Exit

-----------------------------------------------------------------------------
(* codex_not_before: the announced time of day, read against the day the   *)
(* attempt started on.                                                     *)
NotBefore(timeOfDay, started) ==
  LET candidate == (started - (started % Day)) + timeOfDay IN
  IF candidate > started THEN candidate
  ELSE IF started - candidate <= Grace THEN started + Short
  ELSE candidate + Day

(* transient_backoff_seconds: doubled at each retry, up to a cap.          *)
BackoffOf(attempt) ==
  LET delay == Backoff * 2^(attempt - 1)
  IN  IF delay <= MaxBackoff THEN delay ELSE MaxBackoff

Current == Last(runs)

CallInit ==
  /\ clock \in Starts
  /\ pc = "ready" /\ answer = "pending"
  /\ resume = Nothing /\ file = Nothing
  /\ resets = 0 /\ transients = 0 /\ target = 0
  /\ runs = <<>>

(* The next carrier: resumed when a session was seen, else started anew.   *)
Invoke ==
  /\ pc = "ready"
  /\ runs' = Append(runs, [mode |-> resume, at |-> clock, ended |-> clock, exit |-> Nothing])
  /\ pc' = "running"
  /\ UNCHANGED <<clock, resume, resets, transients, target, file, answer>>

(* Mutant: an attempt that names no session forgets the one before.        *)
ForgetsTheSession(d, e) ==
  /\ pc = "running"
  /\ clock' = clock + d
  /\ runs' = [runs EXCEPT ![Len(runs)].ended = clock + d, ![Len(runs)].exit = e]
  /\ resume' = IF e.ids = <<>> THEN Nothing ELSE Last(e.ids)
  /\ file' = IF e.wrote THEN Len(runs) ELSE file
  /\ pc' = "exited"
  /\ UNCHANGED <<resets, transients, target, answer>>

(* The carrier ends; its sessions are read whatever its exit status is.    *)
CarrierExits(d, e) ==
  /\ pc = "running"
  /\ clock' = clock + d
  /\ runs' = [runs EXCEPT ![Len(runs)].ended = clock + d, ![Len(runs)].exit = e]
  /\ resume' = IF e.ids = <<>> THEN resume ELSE Last(e.ids)
  /\ file' = IF e.wrote THEN Len(runs) ELSE file
  /\ pc' = "exited"
  /\ UNCHANGED <<resets, transients, target, answer>>

(* The carrier cannot be started: an OSError leaves the loop at once.      *)
CannotStart ==
  /\ pc = "running"
  /\ pc' = "done" /\ answer' = "failed"
  /\ UNCHANGED <<clock, resume, resets, transients, target, file, runs>>

(* Exit status 0 ends the loop, whatever the output says.  An output file  *)
(* that an earlier attempt of the same call wrote counts.                  *)
Completed ==
  /\ pc = "exited" /\ Current.exit.zero
  /\ answer' = IF file = Nothing THEN "failed" ELSE "ok"
  /\ pc' = "done"
  /\ UNCHANGED <<clock, resume, resets, transients, target, file, runs>>

Waits(until) ==
  /\ target' = until
  /\ pc' = "waiting"
  /\ UNCHANGED <<clock, resume, file, runs, answer>>

(* Mutant: the announcement is read against the instant it was printed.    *)
MeasuresFromTheExit ==
  /\ pc = "exited" /\ ~Current.exit.zero
  /\ Current.exit.class = "timed_reset" /\ resets < MaxResets
  /\ Waits(NotBefore(Current.exit.reset % Day, clock))
  /\ resets' = resets + 1
  /\ UNCHANGED transients

(* wait_for_codex_reset, against the instant the attempt STARTED.          *)
AwaitReset ==
  /\ pc = "exited" /\ ~Current.exit.zero
  /\ Current.exit.class = "timed_reset" /\ resets < MaxResets
  /\ Waits(NotBefore(Current.exit.reset % Day, Current.at))
  /\ resets' = resets + 1
  /\ UNCHANGED transients

(* wait_for_transient.                                                     *)
AwaitTransient ==
  /\ pc = "exited" /\ ~Current.exit.zero
  /\ Current.exit.class = "transient" /\ transients < MaxTransients
  /\ Waits(clock + BackoffOf(transients + 1))
  /\ transients' = transients + 1
  /\ UNCHANGED resets

(* A failure nothing announces, or a spent budget.                         *)
GiveUp ==
  /\ pc = "exited" /\ ~Current.exit.zero
  /\ \/ Current.exit.class = "unclassified"
     \/ Current.exit.class = "timed_reset" /\ resets >= MaxResets
     \/ Current.exit.class = "transient" /\ transients >= MaxTransients
  /\ answer' = IF Current.exit.class = "transient" THEN "exhausted" ELSE "failed"
  /\ pc' = "done"
  /\ UNCHANGED <<clock, resume, resets, transients, target, file, runs>>

(* Mutant: what remains of a wait is computed once, before the loop.       *)
RemainingReadOnce ==
  /\ pc = "waiting"
  /\ target <= clock
  /\ pc' = "ready"
  /\ UNCHANGED <<clock, resume, resets, transients, target, file, runs, answer>>

(* The wait is over; a target that already passed costs no time.           *)
Wake ==
  /\ pc = "waiting"
  /\ clock' = IF target > clock THEN target ELSE clock
  /\ pc' = "ready"
  /\ UNCHANGED <<resume, resets, transients, target, file, runs, answer>>

CallNext ==
  \/ Invoke
  \/ \E d \in RunTimes : \E e \in Exits(clock + d) : CarrierExits(d, e)
  \/ CannotStart
  \/ Completed
  \/ AwaitReset
  \/ AwaitTransient
  \/ GiveUp
  \/ Wake

CallSpec == CallInit /\ [][CallNext]_callVars

(* The loop runs in one thread and a codex process ends: each waits only   *)
(* for the other.                                                          *)
FairCallSpec == CallSpec /\ WF_callVars(CallNext)

-----------------------------------------------------------------------------
CallTypeOK ==
  /\ clock \in Nat /\ target \in Int
  /\ pc \in {"ready", "running", "exited", "waiting", "done"}
  /\ answer \in Answers
  /\ resume \in Sessions \cup {Nothing}
  /\ resets \in 0..MaxResets /\ transients \in 0..MaxTransients
  /\ file \in {Nothing} \cup 1..Len(runs)
  /\ runs \in Seq([mode : Sessions \cup {Nothing}, at : Nat, ended : Nat,
                   exit : Exit \cup {Nothing}])

Interrupted(i, class) == /\ runs[i].exit # Nothing /\ ~runs[i].exit.zero
                    /\ runs[i].exit.class = class

(* Work is never thrown away: once an attempt named a session, every later *)
(* attempt resumes the session named last before it.                       *)
NoSessionAbandoned ==
  \A j \in 1..Len(runs) :
    LET named == {i \in 1..(j - 1) : runs[i].exit # Nothing /\ runs[i].exit.ids # <<>>}
    IN  IF named = {} THEN runs[j].mode = Nothing
        ELSE \E i \in named : /\ \A k \in named : k <= i
                              /\ runs[j].mode = Last(runs[i].exit.ids)

(* An announced reset that lies ahead of the attempt, by less than a day   *)
(* and its grace, is waited for to the tick: the next attempt starts       *)
(* neither before the window opens nor later than it must.                 *)
RetriesAtTheReset ==
  \A i \in 1..(Len(runs) - 1) :
    LET r == runs[i].exit.reset IN
    Interrupted(i, "timed_reset") /\ r > runs[i].at /\ r < runs[i].at + Day - Grace
      => runs[i + 1].at = IF r > runs[i].ended THEN r ELSE runs[i].ended

(* Every call comes to an end, however the provider behaves.               *)
CallEnds == <>(pc = "done")
=============================================================================
