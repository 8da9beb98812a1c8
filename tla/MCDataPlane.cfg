\* Two programs at once and a reader: three frames in all, one eviction.
CONSTANTS
  Hash <- MCHash
  NoVlan = 65535
  Largest = 1000000
  Cpus = {c1, c2}
  Frames <- MCFrames
  Keys <- MCKeys
  None = None
  Amplification = 2
  MaxPackets = 3
  MaxEvictions = 1

SPECIFICATION Spec
PROPERTIES
  TearIsBounded
  
VIEW MCView
SYMMETRY MCSymmetry
