------------------------------ MODULE JobLedger ------------------------------
(***************************************************************************)
(* What the job queue promises its clients, without workers, leases,       *)
(* retries or time: the first submission under a key is the one that       *)
(* counts, and each submission is settled at most once, for good.          *)
(***************************************************************************)
CONSTANT Outcome

VARIABLES submitted, settled

ledgerVars == <<submitted, settled>>

Init == submitted = {} /\ settled = {}

Submit(s) ==
  /\ \A other \in submitted : other.key # s.key
  /\ submitted' = submitted \cup {s}
  /\ UNCHANGED settled

Settle(s, outcome) ==
  /\ s \in submitted
  /\ \A other \in Outcome : <<s, other>> \notin settled
  /\ settled' = settled \cup {<<s, outcome>>}
  /\ UNCHANGED submitted

\* A client may submit anything: s ranges over what is there after the step.
Next ==
  \/ \E s \in submitted' : Submit(s)
  \/ \E s \in submitted, outcome \in Outcome : Settle(s, outcome)

Spec == Init /\ [][Next]_ledgerVars
=============================================================================
