SPECIFICATION Spec
CONSTANTS
  l1 = l1
  l2 = l2
  n1 = n1
  n2 = n2
  n3 = n3
  n4 = n4
  d1 = d1
  d2 = d2
  Lists = {l1, l2}
  Nodes = {n1, n2, n3, n4}
  Data = {d1, d2}
  Indices <- MCIndices
  NULL = NULL
SYMMETRY Symmetry
INVARIANTS TypeOK LinksAgree NodesAreAccountedFor
PROPERTY ImplementsDataList
