\* Two publishers, one that replaces and one that creates; two destinations.
SPECIFICATION Spec
CONSTANTS
  Publishers = {p1, p2}
  Destinations = {d1, d2}
  Files = {f1, f2}
  Creating = {p2}
  User = user
  Absent = absent
INVARIANTS
  PublicationInv
PROPERTY
  KeepsContent
CHECK_DEADLOCK FALSE
