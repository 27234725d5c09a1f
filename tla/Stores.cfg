\* Two rows of two fields, two calls in flight.
SPECIFICATION Spec
CONSTANTS
  Id = {1, 2}
  Field = {f, g}
  Value = {0, 1}
  None = None
  Call = {c1, c2}
INVARIANT TypeOK
PROPERTY ImplementsRowStore
