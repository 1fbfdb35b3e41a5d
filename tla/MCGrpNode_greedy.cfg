CONSTANTS
  DeviceGroupPrefix <- MCPrefix
  SegOrder <- MCSegOrder
  Nil = Nil
  Pods = {p1, p2}
  Allocatable <- MCAllocatableMem
  PodSpecs <- MCPodSpecsUneven
INIT Init
NEXT Next
INVARIANT FilterComplete
