CONSTANTS
  Files = {src, state}
  StateFiles = {state}
  Callers = {p, q}
  Person = Person
  MaxShown = 1
  MaxWrites = 3
  MaxTrouble = 1
SYMMETRY Symmetry
SPECIFICATION Spec
PROPERTIES
  SweepsOnlyLater
  ReviewedIsCommitted
