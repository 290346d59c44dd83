CONSTANTS
  Types = {"Session"}
  Payloads <- FittingNames
  InitialCap = 1
  MaxCap = 3
  RefModulus = 4
  Messages <- Sent
  HostReplies <- Replies
SPECIFICATION Spec
INVARIANTS
  TypeOK
  SessionsBalanced
  ResponseReadable
PROPERTIES
  ImplementsDirectory
