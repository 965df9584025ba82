CONSTANTS
  SlabId = {1, 2, 3, 4, 5, 6}
  UserCache = {"a", "b"}
  Sizes = {0, 16382, 20000, 65534}
  RootObjects = 2
  NoObject = NoObject
  PAGE_SIZE = 4096
  HeaderSize = 24
  UINT_SIZE = 65536
SPECIFICATION Spec
INVARIANTS ObjectsAccounted ListsMatchObjects LayoutsFit
