CONSTANTS
  MaxBD = 1024
  Pages = 64
SPECIFICATION Spec
INVARIANTS
  LockStep
  MasksAreRemainders
