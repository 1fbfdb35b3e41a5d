CONSTANTS
  DeviceGroupPrefix <- MCPrefix
  SegOrder <- MCSegOrder
  Nil = Nil
  Allocatable <- MCAllocatable
  PodSpecs <- MCPodSpecs
  Pods = {p1, p2}
INIT Init
NEXT Next
INVARIANTS
  TypeOK
  UsedWithinAllocatable
  UsedIsSumOfBoundPods
  AllocationsValid
