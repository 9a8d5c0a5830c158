SPECIFICATION Spec
CONSTANTS
  Slots = {s1, s2}
  Instances = {a, b}
  Disk <- OwnDisks
  FileNames = {n1, n2}
  Storages = {"local", "s3"}
  MaxUploads = 3
  MaxFailures = 2
SYMMETRY Interchangeable
INVARIANTS
  MissingIsElsewhere
  LaterIsNewer
  LocalLeavesNoTemp
