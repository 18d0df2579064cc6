SPECIFICATION FairSpec
CONSTANTS
  FileSizes <- MCFileSizes
  ChunkSize = 2
  MaxConcurrentUploads = 3
  ChunkUploadMinFileSize = 2
INVARIANTS
  TypeOK
  AtMostMaxInFlight
  CompleteAfterAllSettled
  SentRangesTile
  NothingLostNothingMissing
PROPERTY
  UploadTerminates
