SPECIFICATION FairSpec
CONSTANTS
  daemon = daemon
  other = other
  umlaut = umlaut
  setuid = setuid
  one = one
  two = two
  Pid <- MCPid
  Process <- MCProcess
  Undecodable <- MCUndecodable
  Hidden <- MCHidden
  BadPid = BadPid
  NoProcess = NoProcess
  Replies <- AllReplies
  MaxAttemptsPerStep = 2
INVARIANTS
  TypeOK
  VerifiedIsGone
  VictimWasShown
PROPERTIES
  KillSettles
  AttemptsMoveOn
CHECK_DEADLOCK FALSE
