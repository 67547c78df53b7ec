--------------------------- MODULE MCMailingList ---------------------------
(***************************************************************************)
(* Small instances of MailingList for TLC.                                 *)
(***************************************************************************)
EXTENDS MailingList, TLC

CONSTANTS i1, i2, p1, p2

MCItems == {i1, i2}

Qa(items) == [kind |-> "qa", coord |-> "c1", items |-> items]

\* One item's QA mail; a QA mail that names two items, which is not deduplicated
\* and does not count as the mail of either.
MCMails == {Qa({i1}), Qa({i1, i2})}

\* p1 calls twice, p2 once.
MCCalls == [p \in Procs |-> IF p = p1 THEN 2 ELSE 1]
=============================================================================
