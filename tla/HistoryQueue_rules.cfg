CONSTANTS
  Streams = {s1, s2}
  Payloads <- MixedPayloads
  MaxSeq = 2
  MaxMisreports = 1
  MaxEvents = 3
  MaxCrashes = 1
  ChannelCapacity = 1
  MaxBatchSize = 3
  MaxBatchBytes = 5
  MaxBytes = 6
  SinkMaxBytes = 1
SPECIFICATION FairSpec
INVARIANTS TypeOK ConfirmedIsDurable ByteAccounting OnlyRefusedQuarantined
PROPERTIES ImplementsDelivery EventuallySettled PublishReturnsOrNeverFits
