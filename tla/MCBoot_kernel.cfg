SPECIFICATION Spec
CONSTANTS
  ENTRIES = 8
  PAGE = 16
  WORD = 2
  ROOT = 69
  Heap <- MCHeap
  Machines <- MCMachines
INVARIANTS
  SpaceExact
  TablesWritable
  PanicJustified
  BssReady
PROPERTY
  Settles
