CONSTANTS
  s = s
  g = g
  w = w
  r = r
  t1 = t1
  t2 = t2
  k1 = k1
  k2 = k2
  None = None
  Node = {s, g, w, r}
  subjectId = s
  resourceId = r
  Relation <- MCRelation
  kindOf <- MCKindOf
  actionGrants = {"viewer_of", "owner_of", "member_of"}
  inherited = {"member_of", "contains", "viewer_of"}
  denyRules = {"denied", "viewer_of"}
  Caveat = {k1, k2}
  Conditional <- MCConditional
  Tenant = {t1, t2}
  Input <- MCInput
SPECIFICATION FairSpec
INVARIANTS
  AllowIsJustified
  RefusalIsTrue
  SmallGraphIsDecided
PROPERTY Answers
CHECK_DEADLOCK FALSE
