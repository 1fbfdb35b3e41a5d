CONSTANTS
  DeviceGroupPrefix <- MCPrefix
  SegOrder <- MCSegOrder
  Nil = Nil
  Pods = {p1, p2}
  Allocatable <- MCAllocatableMem
  PodSpecs <- MCPodSpecsInit
INIT Init
NEXT Next
PROPERTY TakeAgreesWithAllocator
