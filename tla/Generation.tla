----------------------------- MODULE Generation -----------------------------
(***************************************************************************)
(* What a request promises about the generation it asks the upstream for:  *)
(* it is submitted again only if every earlier submission was refused      *)
(* outright.  An upstream that answered, failed or fell silent may have    *)
(* run, and billed, what it was sent.                                      *)
(***************************************************************************)
EXTENDS Naturals

CONSTANT MaxSubmissions   \* the first attempt and the re-offers

VARIABLES
  status,      \* "idle", "inflight", "refused", "settled" or "closed"
  submitted    \* how many times the generation was submitted

vars == <<status, submitted>>

Init == status = "idle" /\ submitted = 0

Submit ==
  /\ status \in {"idle", "refused"}
  /\ submitted < MaxSubmissions
  /\ status' = "inflight"
  /\ submitted' = submitted + 1

\* A 4xx: the upstream says that nothing ran.
Refuse == status = "inflight" /\ status' = "refused" /\ UNCHANGED submitted

\* Everything else: an answer, or an outcome nobody knows.
Settle == status = "inflight" /\ status' = "settled" /\ UNCHANGED submitted

Close ==
  /\ status \in {"idle", "refused", "settled"}
  /\ status' = "closed"
  /\ UNCHANGED submitted

Next == Submit \/ Refuse \/ Settle \/ Close

Spec == Init /\ [][Next]_vars
=============================================================================
