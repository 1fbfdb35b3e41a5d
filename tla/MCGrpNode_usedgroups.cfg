CONSTANTS
  DeviceGroupPrefix <- MCPrefix
  SegOrder <- MCSegOrder
  Nil = Nil
  Pods = {p1, p2}
  Allocatable <- MCAllocatableBoards
  PodSpecs <- MCPodSpecsBoards
INIT Init
NEXT Next
INVARIANT UsedGroupsChosen
