SPECIFICATION FairSpec
CONSTANTS
  Key = {k1, k2, k3, k4}
  NoKey = NoKey
  NoCall = NoCall
  HashFns <- MCHashFns
  SizeMaxes = {63, 127}
  EntrySize = 8
  Requests <- MCRequests
INVARIANTS
  TypeOK
  TableIsSound
  LoadIsBounded
  RehashKeepsKeys
  CapacityIsSound
PROPERTIES
  ImplementsSet
  CallReturns
