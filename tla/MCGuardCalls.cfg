SPECIFICATION Spec
CONSTANTS
  t1 = t1
  t2 = t2
  unlisted = unlisted
  Token <- MCToken
  NoToken = NoToken
  NoAction = NoAction
  Unlisted <- MCUnlisted
  MaxCalls = 4
SYMMETRY Symmetric
INVARIANTS TypeOK SingleUse
PROPERTY ApprovalNotBurned
CHECK_DEADLOCK FALSE
