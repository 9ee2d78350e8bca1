----------------------------- MODULE MCPostgres -----------------------------
(* Two stores on one database, side by side: snapshots that two processes     *)
(* write by compare-exchange, and the audit store of one process that is      *)
(* restarted and restored, or of two that share its tables and only append.   *)
(* They share no table, so a behaviour is about one of them.                  *)
EXTENDS SnapshotStore, AuditStore

CONSTANTS p1, p2, u1, u2, u3, a1, a2, e1, e2

VARIABLE part

MCInit == part \in {"snapshots", "audit"} /\ Init /\ AuditInit /\ (part = "snapshots" => alone)
NextSnapshots == part = "snapshots" /\ Next /\ UNCHANGED <<part, auditVars>>
NextAudit == part = "audit" /\ AuditNext /\ UNCHANGED <<part, vars>>
MCSpec == MCInit /\ [][NextSnapshots \/ NextAudit]_<<part, vars, auditVars>>

Symmetric == Permutations({a1, a2}) \cup Permutations({e1, e2})
\* Processes that share the tables sign no window, so they deliver and restore nothing.
SharedOnlyAppends == ~alone => clock = 0 /\ \A p \in AuditProcess : mem[p].windows = {}
\* A process goes on from at most four records, an export, of which no other record speaks,
\* taken for three.
FewRecords ==
  \A p \in AuditProcess :
    Len(mem[p].log) + 3 * Cardinality(mem[p].evidence) + Cardinality(mem[p].windows)
      + Cardinality(mem[p].siem) + Cardinality(mem[p].listed) <= 4
\* A period ends when it starts or later.
OrderedPeriods == \A p \in AuditProcess : \A w \in mem[p].windows : w.start <= w.end
=============================================================================
