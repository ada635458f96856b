SPECIFICATION Spec
CONSTANTS
  sda = sda
  sdb = sdb
  loop0 = loop0
  proc = proc
  Device = {sda, sdb, loop0}
  Loop = {loop0}
  NoCall = NoCall
  Filesystem <- MCFilesystem
  MaxMounts = 3
INVARIANTS
  TypeOK
  StableDrivesShown
  OneLinePerDevice
PROPERTIES
  ListingEnds
