SPECIFICATION Spec
CONSTANTS
  Callbacks = {f, g}
  Objects = {o, p}
  None = None
  MaxRequests = 2
SYMMETRY Symmetry
CHECK_DEADLOCK FALSE
INVARIANTS SafeUnlessMisused OwnsWhatItKeeps OneObjectStarted DataComesBack
