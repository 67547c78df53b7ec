------------------------------ MODULE MailLog ------------------------------
(***************************************************************************)
(* What the shared mailing list of the organisation promises its posters:  *)
(* one totally ordered, append-only log.  A poster asks for a mail to be   *)
(* posted; in ONE atomic step the mail is appended, or the poster is told  *)
(* that the log already holds the QA mail of that patch item, or nothing   *)
(* happens at all and the poster is told so.  A poster may die at any      *)
(* moment.  MailingList (the Git protocol of ai_org/mailing_list.py)       *)
(* implements this specification.                                          *)
(***************************************************************************)
EXTENDS Naturals, Sequences

CONSTANTS
  Procs,      \* the posting processes
  Mails,      \* the mails they may ask to post
  Items,      \* the patch items QA mails report on
  Genesis,    \* the content of the first entry of the log
  NoMail      \* nothing asked for

VARIABLES
  log,        \* the sequence of entries
  asked,      \* asked[p]: what the outstanding call of p asks for
  told,       \* told[p]: the answer p holds, until it drops it
  calls       \* calls[p]: how many calls p has made

vars == <<log, asked, told, calls>>

\* A QA mail with exactly one item is the only mail of that item.
Unique(m) == m # Genesis /\ m.kind = "qa" /\ \E i \in Items : m.items = {i}

\* The positions of the log that hold the QA mail of m's item.
Holders(h, m) ==
  {k \in DOMAIN h : /\ h[k].mail # Genesis
                    /\ h[k].mail.kind = "qa"
                    /\ h[k].mail.items = m.items}

Entry(m, p, n, seq) == [mail |-> m, by |-> <<p, n>>, seq |-> seq]

Init ==
  /\ log = <<>>
  /\ asked = [p \in Procs |-> NoMail]
  /\ told = [p \in Procs |-> "nothing"]
  /\ calls = [p \in Procs |-> 0]

\* p asks for m (Genesis: only that the log exist).
Ask(p, m) ==
  /\ asked[p] = NoMail /\ told[p] = "nothing"
  /\ asked' = [asked EXCEPT ![p] = m]
  /\ calls' = [calls EXCEPT ![p] = @ + 1]
  /\ UNCHANGED <<log, told>>

Tell(p, answer) ==
  /\ told' = [told EXCEPT ![p] = answer]
  /\ asked' = [asked EXCEPT ![p] = NoMail]
  /\ UNCHANGED calls

\* The first caller to need the log opens it; that may be all it asked for.
Open(p) ==
  /\ asked[p] # NoMail /\ log = <<>>
  /\ log' = <<Entry(Genesis, p, calls[p], 0)>>
  /\ \/ asked[p] = Genesis /\ Tell(p, "ensured")
     \/ asked[p] # Genesis /\ UNCHANGED <<asked, told, calls>>

FindOpen(p) ==
  /\ asked[p] = Genesis /\ log # <<>>
  /\ Tell(p, "ensured")
  /\ UNCHANGED log

\* The mail is appended; a unique mail only if the log holds none for its item.
Deliver(p) ==
  /\ asked[p] \notin {NoMail, Genesis} /\ log # <<>>
  /\ Unique(asked[p]) => Holders(log, asked[p]) = {}
  /\ log' = Append(log, Entry(asked[p], p, calls[p], Len(log)))
  /\ Tell(p, "posted")

AlreadyThere(p) ==
  /\ asked[p] \notin {NoMail, Genesis}
  /\ Unique(asked[p]) /\ Holders(log, asked[p]) # {}
  /\ Tell(p, "existing")
  /\ UNCHANGED log

Refuse(p) ==
  /\ asked[p] # NoMail
  /\ Tell(p, "failed")
  /\ UNCHANGED log

\* p takes its answer, or dies (with or without one).
Drop(p) ==
  /\ asked[p] # NoMail \/ told[p] # "nothing"
  /\ asked' = [asked EXCEPT ![p] = NoMail]
  /\ told' = [told EXCEPT ![p] = "nothing"]
  /\ UNCHANGED <<log, calls>>

Next ==
  \E p \in Procs :
    \/ \E m \in Mails \cup {Genesis} : Ask(p, m)
    \/ Open(p) \/ FindOpen(p) \/ Deliver(p) \/ AlreadyThere(p)
    \/ Refuse(p) \/ Drop(p)

Spec == Init /\ [][Next]_vars
=============================================================================
