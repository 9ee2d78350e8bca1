---------------------------- MODULE AuditLedger ----------------------------
(***************************************************************************)
(* What an append-only audit repository promises                           *)
(* (packages/core/src/repositories.ts, AuditEventRepository): events are   *)
(* only ever added at the end, and each names the one before it.           *)
(***************************************************************************)
EXTENDS Naturals, Sequences

CONSTANT Event

VARIABLE log

\* The hash a new event must carry as previousEventHash; 0 is "no previous event".
\* A hash is modelled by the identity of the event it covers.
TailHash(events) == IF events = <<>> THEN 0 ELSE events[Len(events)].id

Init == log = <<>>

Append1(e) ==
  /\ e.prev = TailHash(log)
  /\ \A i \in 1..Len(log) : log[i].id # e.id
  /\ log' = Append(log, e)

Next == \E e \in Event : Append1(e)

Spec == Init /\ [][Next]_log
=============================================================================
