-------------------------- MODULE MCSnapshotStore --------------------------
(* Small instances of SnapshotStore, under the graph and connector-state      *)
(* adapters, which write unconditionally, or under the job queue's, which     *)
(* writes by compare-exchange. An adapter has a row of its own, so a          *)
(* behaviour is about one of them.                                            *)
EXTENDS SnapshotStore

CONSTANTS p1, p2, u1, u2, u3, b1

VARIABLE adapter

X == INSTANCE SnapshotStore WITH Guarded <- Process

MCInit == adapter \in {"write", "exchange"} /\ Init
NextWrite == adapter = "write" /\ Next /\ UNCHANGED adapter
NextExchange == adapter = "exchange" /\ X!Next /\ UNCHANGED adapter

\* Either way the database answers every query.
Answered(p) == (Persist(p) \/ PersistFails(p) \/ Skip(p)) /\ UNCHANGED adapter

MCSpec == MCInit /\ [][NextWrite \/ NextExchange]_<<vars, adapter>>
MCFairSpec == MCSpec /\ \A p \in Process : WF_<<vars, adapter>>(Answered(p))
=============================================================================
