\* Three faults in one transaction and a crash, nobody else on the interface.
CONSTANTS
  RunIds = {r1, r2}
  NoRun = NoRun
  MaxGeneration = 2
  MaxFaults = 3
  MaxCrashes = 1
  Interference = FALSE
SPECIFICATION Spec
SYMMETRY RunIdSymmetry
INVARIANTS AttachedIsComplete  
PROPERTIES ImplementsDriver
