CONSTANTS
  VIRT_PAGES = 5
  MaxArea = 2
  k1 = k1
  k2 = k2
  i1 = i1
  i2 = i2
  i3 = i3
  Key = {k1, k2}
  Item = {i1, i2, i3}
  NoItem = NoItem
  KeyOf <- MCKeyOf
  Hash <- MCHash
  HASH_INITIAL_SIZE = 2
  BucketsPerPage = 2
  MaxCount = 5
SPECIFICATION Spec
INVARIANTS OwnsArray
PROPERTY ImplementsMap
