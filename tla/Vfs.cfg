CONSTANTS
  disk = disk
  d1 = d1
  d2 = d2
  d3 = d3
  d4 = d4
  Thread = {t1, t2}
  DevFsType = devfs
  Type = {disk, devfs}
  Device = {d1, d2, d3, d4}
  Fs = {s1, s2, s3}
  INode = {0, 1, 2}
  NoDevice = NoDevice
  NoFs = NoFs
  NoType = NoType
  RootINode = 0
  Directories <- MCDirectories
  Mountable <- MCMountable
  Blocking = {disk}
  MaxCalls = 7
  Name = {"a", "b", "c"}
  NameOf <- MCNameOf
  MAX_DEVICES = 3
  Handle = {h1, h2}
  Entry <- MCEntry
  Attributes <- MCAttributes
  User <- MCUser
SPECIFICATION Spec
INVARIANTS LocksMatchMounts NamesMatchSlots FilesKeepDevice LookupFollowsMounts
SYMMETRY MCSymmetry
