SPECIFICATION Spec
CONSTANTS
  Slots = {s1, s2}
  Instances = {a}
  Disk <- OwnDisks
  FileNames = {n1, n2}
  Storages = {"local"}
  MaxUploads = 2
  MaxFailures = 0
SYMMETRY Interchangeable
INVARIANT VersionsDiffer
