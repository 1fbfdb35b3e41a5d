CONSTANTS
  gpu = gpu
  ib = ib
  DevPlugins <- MCDevPlugins
  DevPluginList <- MCDevPluginList
  Containers <- MCContainers
  Needs <- MCNeeds
  MaxAttempts = 2
  MaxRestarts = 1
INIT Init
NEXT Next
INVARIANTS
  TypeOK
  DevicesCompleteUntilRestart
PROPERTY
  CreatedWithOperationalDevices
  NodeRefined
