\* Two disks, every fault, any number of previews, installs and retries.
CONSTANTS
  d1 = d1
  d2 = d2
  NoDisk = NoDisk
  Disks <- MCDisks
  Faults = TRUE
SPECIFICATION Spec
INVARIANTS
  TypeOK
  ErasedAsAsked
  DoneMeansInstalled
  NothingLeftMounted
PROPERTIES
  InstallerAnswers
  KeepsDiskPromise
