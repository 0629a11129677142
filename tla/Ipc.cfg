SPECIFICATION Spec
CONSTANTS
  NPIDS = 2
  Nodes = {n1, n2, n3}
  NULL = NULL
  Strangers = {32}
  Types = {1}
  Data = {d1, d2}
  Sizes = {0, 1, 2}
INVARIANTS
  TypeOK
  Linked
  NodesHaveOnePlace
PROPERTY
  KeepsPromise
