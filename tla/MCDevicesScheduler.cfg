CONSTANTS
  nvidia = nvidia
  gpuA = gpuA
  gpuB = gpuB
  Plugins <- MCPlugins
  UsesGroup <- MCUsesGroup
  PluginList <- MCPluginList
  GrpDevice = GrpDevice
  Pods = {p1}
  Nodes = {n1, n2}
  Scores = {0, 1, 2}
  NoScore = NoScore
  NoPod = NoPod
  MaxCycles = 2
INIT Init
NEXT Next
INVARIANTS
  TypeOK
  DeviceListWellFormed
PROPERTY
  RegistryRefined
