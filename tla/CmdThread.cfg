SPECIFICATION Spec
CONSTANTS
  Producers = {p1, p2}
  Owner = owner
  OwnerCalls <- PostProcCalls
  AckCmds <- StartStop
  MaxQueue = 3
  MaxAcks = 1
INVARIANTS TypeOK Tokens
PROPERTIES SyncMeansDone CallsReturn MailboxSpec
