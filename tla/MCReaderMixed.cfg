\* The root is read_matched, its relation a read_all: c is merged into a.
SPECIFICATION Spec
CONSTANTS
  r = r  a = a  b = b  c = c
  r1 = r1  r2 = r2  a1 = a1  a2 = a2  a3 = a3  b1 = b1  c1 = c1  c2 = c2
  k1 = k1  k2 = k2  k3 = k3  k0 = k0
  NoView = NoView
  View <- MCView
  Root = r
  Parent <- MCParent
  Row <- MCRow
  Key <- MCKey
  Table <- MCTable
  ChildKey <- MCChildKey
  ZeroKey = k0
  Many = {a, c}
  ParentKey <- MCParentKey
  BatchParent <- MCBatchParent
  Selected = {a, b, c}
  Parallel = {a}
  Unmapped = {}
  MayFail = {b, c}
PROPERTY ImplementsReadOnce
