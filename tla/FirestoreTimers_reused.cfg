CONSTANTS
  watch = watch  write = write
  Stream = {watch, write}
  Address = {a1, a2, a3}
SYMMETRY Symmetry
SPECIFICATION Spec
INVARIANT BackoffElapses
CHECK_DEADLOCK FALSE
