SPECIFICATION Spec
CONSTANTS
  Images = {i1, i2}
  Shipped = {i1, i2}
  NoImage = none
  Chunks = 2
  Preferences = {}
SYMMETRY ImageSymmetry
INVARIANTS BootSafe CandidateIsPinned OneTransaction ScreenIsTrue
PROPERTIES StaleOwnerWritesNothing
