SPECIFICATION Spec
CONSTANTS
  Items = {i1, i2, i3}
  Unborn = Unborn
  Deleted = Deleted
  MaxTemplates = 2
  Slots = {s1, s2}
SYMMETRY Interchangeable
INVARIANTS
  NothingLeftOpen
  MarksAreOfItems
