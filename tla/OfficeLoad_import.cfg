\* Three connections whose VMs import the boxes, in any interleaving.
SPECIFICATION FairSpec
CONSTANTS
  v1 = v1
  v2 = v2
  v3 = v3
  VMs = {v1, v2, v3}
  NoVM = NoVM
  Nobody = Nobody
INVARIANTS
  TypeOK
  BoxesKept
PROPERTIES
  LoadedOnce
  EveryImportEnds
\* the process stops when every VM is done or one has crashed
CHECK_DEADLOCK FALSE
