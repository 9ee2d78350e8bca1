--------------------------- MODULE MCProvisioning ---------------------------
EXTENDS Provisioning, TLC

CONSTANTS mock, sample, p, q, alice, ticket, c1, c2, k1, k2

OnMock == [id \in PlanId |-> mock]
OnBoth == (p :> mock) @@ (q :> sample)

\* An approval that expires at 1, and a request that was not approved.
Expiring(at) == [approved |-> TRUE, approver |-> alice, ticket |-> ticket, expiresAt |-> at]
TwoApprovals == {Expiring(1), [Expiring(9) EXCEPT !.approved = FALSE]}

\* Controls that are fit for enforcement, and the same in incident mode.
TwoControls ==
  {[syntheticOnly |-> TRUE, liveProviderWrites |-> FALSE, breakGlass |-> FALSE,
    incidentMode |-> incident] : incident \in BOOLEAN}

FitControls == {control \in TwoControls : ~control.incidentMode}

Callers == Permutations(Caller)
=============================================================================
