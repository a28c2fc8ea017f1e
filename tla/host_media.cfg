SPECIFICATION FairSpec
CONSTANTS
  Track = {t1}
  MaxSegments = 2
  MaxSize = 2
  Runner = {r1, r2}
  Retries = 2
  Faults <- AnyFault
INVARIANTS HealthyIsPlayable ManifestIsFinal BackupIsClosed
PROPERTIES VerifiedIsWhole StopComesBack UploadEnds
CHECK_DEADLOCK FALSE
