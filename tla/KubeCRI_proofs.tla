--------------------------- MODULE KubeCRI_proofs ---------------------------
(***************************************************************************)
(* Proofs about the kubecri node side.  The main result is that, for every *)
(* plug-in list, set of containers and requests, a container created      *)
(* before kubecri restarts has every device it requests.                   *)
(*                                                                         *)
(* The invariant is not inductive as it stands: a container is created    *)
(* with the operational devices, and it has all of its devices only        *)
(* because its pod was bound against the advertisement, which only lists   *)
(* operational devices, and the operational set does not change while the  *)
(* process serves.  IInv carries these facts for the first incarnation     *)
(* (restarts = 0).                                                         *)
(***************************************************************************)
EXTENDS KubeCRI, SequenceTheorems, TLAPS

(* No device of the list has started.                                     *)
NoneStarted == \A i \in 1..Len(devs) : ~operational[i]

FirstIncarnation ==
  /\ phase = "loading" => advertised = {} /\ NoneStarted
  /\ advertised \subseteq OperationalSet
  /\ \A c \in Containers : bound[c] => Needs[c] \subseteq OperationalSet
  /\ ContainersGetAllDevices

IInv ==
  /\ TypeOK
  /\ restarts = 0 => FirstIncarnation

-----------------------------------------------------------------------------
(* A function on 1..n is a sequence of length n.                          *)
LEMMA FunIsSeq ==
  ASSUME NEW S, NEW n \in Nat, NEW f \in [1..n -> S]
  PROVE  f \in Seq(S) /\ Len(f) = n
<1>1. f = [i \in 1..n |-> f[i]]
  OBVIOUS
<1>2. f \in Seq(S)
  BY <1>1, IsASeq
<1>3. DOMAIN f = 1..Len(f) /\ Len(f) \in Nat
  BY <1>2, LenProperties
<1>. QED
  BY <1>2, <1>3

(* Appending a flag that is not set to a list of flags.                   *)
LEMMA AppendFalse ==
  ASSUME NEW o \in Seq(BOOLEAN)
  PROVE  /\ Append(o, FALSE) \in Seq(BOOLEAN)
         /\ Len(Append(o, FALSE)) = Len(o) + 1
         /\ \A i \in 1..Len(o) : Append(o, FALSE)[i] = o[i]
         /\ ~Append(o, FALSE)[Len(o) + 1]
<1>0. Append(o, FALSE) \in Seq(BOOLEAN)
  BY AppendProperties
<1>1. Len(Append(o, FALSE)) = Len(o) + 1
  BY AppendProperties
<1>2. \A i \in 1..Len(o) : Append(o, FALSE)[i] = o[i]
  BY AppendProperties
<1>3. ~Append(o, FALSE)[Len(o) + 1]
  BY AppendProperties
<1>. QED
  BY <1>0, <1>1, <1>2, <1>3

(* With no device started, the operational set is empty.                  *)
LEMMA NoneOperational ==
  ASSUME NoneStarted
  PROVE  OperationalSet = {}
BY DEF NoneStarted, OperationalSet

(* The devices that started are devices of the plug-ins.                  *)
LEMMA OperationalDevices ==
  ASSUME TypeOK
  PROVE  OperationalSet \subseteq DevPlugins
BY ElementOfSeq DEF TypeOK, OperationalSet

(* With every device created and collected, the container gets what it    *)
(* requests of the operational devices.                                    *)
LEMMA AllocateAll ==
  ASSUME TypeOK, NEW c \in Containers, NEW ok \in [1..Len(devs) -> BOOLEAN],
         ~AllocateDevices(c, ok).err
  PROVE  AllocateDevices(c, ok).devices = OperationalSet \cap Needs[c]
BY DEF AllocateDevices, OperationalSet

-----------------------------------------------------------------------------
LEMMA IInvInit == Init => IInv
<1>. SUFFICES ASSUME Init PROVE IInv
  OBVIOUS
<1>1. devs \in Seq(DevPlugins) /\ operational \in Seq(BOOLEAN) /\ Len(devs) = 0
      /\ Len(operational) = 0
  BY EmptySeq DEF Init
<1>2. TypeOK
  BY <1>1, KubeCRIAssumption, LenProperties DEF Init, TypeOK, Phases
<1>3. FirstIncarnation
  BY <1>1 DEF Init, FirstIncarnation, NoneStarted, OperationalSet,
             ContainersGetAllDevices
<1>. QED
  BY <1>2, <1>3 DEF IInv

(* Loading a plug-in appends a device that has not started.              *)
LEMMA LoadPluginIInv ==
  ASSUME IInv, LoadPlugin
  PROVE  IInv'
<1>1. TypeOK /\ loaded + 1 \in 1..Len(DevPluginList)
  BY KubeCRIAssumption, LenProperties DEF IInv, TypeOK, LoadPlugin
<1>2. DevPluginList[loaded + 1] \in DevPlugins
  BY <1>1, KubeCRIAssumption, ElementOfSeq
<1>3. CASE AddDevice(DevPluginList[loaded + 1])
  <2>1. /\ devs' \in Seq(DevPlugins)
        /\ Len(devs') = Len(devs) + 1
    BY <1>1, <1>2, <1>3, AppendProperties DEF AddDevice, TypeOK
  <2>2. /\ operational' \in Seq(BOOLEAN)
        /\ Len(operational') = Len(operational) + 1
        /\ \A i \in 1..Len(operational) : operational'[i] = operational[i]
        /\ ~operational'[Len(operational) + 1]
    BY <1>1, <1>3, AppendFalse DEF AddDevice, TypeOK
  <2>3. TypeOK'
    BY <1>1, <2>1, <2>2 DEF TypeOK, LoadPlugin
  <2>4. NoneStarted => NoneStarted'
    <3>. SUFFICES ASSUME NoneStarted, NEW i \in 1..Len(devs')
                  PROVE  ~operational'[i]
      BY DEF NoneStarted
    <3>1. Len(devs) \in Nat /\ Len(operational) = Len(devs)
      BY <1>1, LenProperties DEF TypeOK
    <3>2. CASE i \in 1..Len(devs)
      BY <3>1, <3>2, <2>2 DEF NoneStarted
    <3>3. CASE i = Len(devs) + 1
      BY <3>1, <3>3, <2>2
    <3>. QED
      BY <3>1, <3>2, <3>3, <2>1
  <2>. QED
    BY <2>3, <2>4, NoneOperational
       DEF IInv, FirstIncarnation, ContainersGetAllDevices, LoadPlugin
<1>4. CASE UNCHANGED <<devs, operational>>
  <2>1. TypeOK'
    BY <1>1, <1>4 DEF TypeOK, LoadPlugin
  <2>. QED
    BY <2>1, <1>4 DEF IInv, FirstIncarnation, NoneStarted, OperationalSet,
                      ContainersGetAllDevices, LoadPlugin
<1>. QED
  BY <1>3, <1>4 DEF LoadPlugin

(* Starting the devices in the first incarnation: nothing was advertised *)
(* or bound yet, except containers that request no device.               *)
LEMMA StartDevicesIInv ==
  ASSUME IInv, StartDevices
  PROVE  IInv'
<1>1. TypeOK
  BY DEF IInv
<1>2. operational' \in Seq(BOOLEAN) /\ Len(operational') = Len(devs)
  BY <1>1, FunIsSeq, LenProperties DEF StartDevices, TypeOK
<1>3. TypeOK'
  BY <1>1, <1>2 DEF TypeOK, StartDevices, Phases
<1>4. ASSUME restarts = 0 PROVE FirstIncarnation'
  <2>1. advertised = {} /\ OperationalSet = {}
    BY <1>4, NoneOperational DEF IInv, FirstIncarnation, StartDevices
  <2>2. \A c \in Containers : bound[c] => Needs[c] = {}
    BY <1>4, <2>1 DEF IInv, FirstIncarnation
  <2>. QED
    BY <1>4, <2>1, <2>2 DEF IInv, FirstIncarnation, ContainersGetAllDevices,
                            StartDevices
<1>. QED
  BY <1>3, <1>4 DEF IInv, StartDevices

(* The advertiser publishes operational devices only.                    *)
LEMMA UpdateNodeInfoIInv ==
  ASSUME IInv, UpdateNodeInfo
  PROVE  IInv'
<1>1. TypeOK /\ OperationalSet \subseteq DevPlugins
  BY OperationalDevices DEF IInv
<1>2. OperationalSet' = OperationalSet
  BY DEF UpdateNodeInfo, procVars, OperationalSet
<1>3. TypeOK'
  BY <1>1 DEF TypeOK, UpdateNodeInfo, procVars
<1>. QED
  BY <1>2, <1>3 DEF IInv, FirstIncarnation, NoneStarted,
                    ContainersGetAllDevices, UpdateNodeInfo, procVars

(* A pod is bound against the advertisement.                              *)
LEMMA ScheduleIInv ==
  ASSUME IInv, NEW c \in Containers, Schedule(c)
  PROVE  IInv'
<1>1. TypeOK'
  BY DEF IInv, TypeOK, Schedule, procVars
<1>2. OperationalSet' = OperationalSet
  BY DEF Schedule, procVars, OperationalSet
<1>. QED
  BY <1>1, <1>2 DEF IInv, FirstIncarnation, NoneStarted,
                    ContainersGetAllDevices, Schedule, procVars

(* A container is created with the operational devices it requests, all *)
(* of which are operational since its pod was bound.                     *)
LEMMA CreateContainerIInv ==
  ASSUME IInv, NEW c \in Containers, CreateContainer(c)
  PROVE  IInv'
<1>1. TypeOK /\ OperationalSet \subseteq DevPlugins
  BY OperationalDevices DEF IInv
<1>2. OperationalSet' = OperationalSet
  BY DEF CreateContainer, procVars, OperationalSet
<1>3. attempts' \in [Containers -> 0..MaxAttempts]
  BY <1>1, KubeCRIAssumption DEF TypeOK, CreateContainer
<1>5. CASE UNCHANGED <<created, config>>
  BY <1>1, <1>2, <1>3, <1>5 DEF IInv, TypeOK, FirstIncarnation,
     NoneStarted, ContainersGetAllDevices, CreateContainer, procVars
<1>6. ASSUME NEW ok \in [1..Len(devs) -> BOOLEAN],
             ConfigureContainer(c, AllocateDevices(c, ok))
      PROVE  IInv'
  <2>1. config'[c] = OperationalSet \cap Needs[c]
    <3>1. /\ ~AllocateDevices(c, ok).err
          /\ config'[c] = AllocateDevices(c, ok).devices
      BY <1>1, <1>6 DEF ConfigureContainer, TypeOK
    <3>. QED
      BY <1>1, <3>1, AllocateAll
  <2>2. TypeOK'
    BY <1>1, <1>3, <1>6, <2>1 DEF TypeOK, ConfigureContainer, CreateContainer, procVars
  <2>3. ASSUME restarts = 0 PROVE ContainersGetAllDevices'
    <3>1. Needs[c] \subseteq OperationalSet
      BY <2>3, <1>1 DEF IInv, FirstIncarnation, CreateContainer
    <3>. QED
      BY <2>3, <3>1, <2>1, <1>1, <1>6
         DEF IInv, TypeOK, FirstIncarnation, ContainersGetAllDevices,
             ConfigureContainer, CreateContainer, procVars
  <2>. QED
    BY <1>2, <1>6, <2>2, <2>3 DEF IInv, FirstIncarnation, NoneStarted,
       CreateContainer, procVars
<1>. QED
  BY <1>5, <1>6 DEF CreateContainer

(* A restart leaves the first incarnation for good.                       *)
LEMMA RestartIInv ==
  ASSUME IInv, Restart
  PROVE  IInv'
<1>1. TypeOK
  BY DEF IInv
<1>2. restarts' \in 1..MaxRestarts
  BY <1>1, KubeCRIAssumption DEF TypeOK, Restart
<1>3. /\ devs' \in Seq(DevPlugins) /\ operational' \in Seq(BOOLEAN)
      /\ Len(devs') = 0 /\ Len(operational') = 0
  BY EmptySeq DEF Restart
<1>4. TypeOK'
  BY <1>1, <1>2, <1>3, KubeCRIAssumption DEF TypeOK, Restart, Phases
<1>. QED
  BY <1>2, <1>4 DEF IInv

(* Every step keeps the inductive invariant.                              *)
LEMMA IInvNext == IInv /\ [Next]_vars => IInv'
<1>. SUFFICES ASSUME IInv, [Next]_vars PROVE IInv'
  OBVIOUS
<1>1. CASE LoadPlugin
  BY <1>1, LoadPluginIInv
<1>2. CASE StartDevices
  BY <1>2, StartDevicesIInv
<1>3. CASE UpdateNodeInfo
  BY <1>3, UpdateNodeInfoIInv
<1>4. ASSUME NEW c \in Containers, Schedule(c) PROVE IInv'
  BY <1>4, ScheduleIInv
<1>5. ASSUME NEW c \in Containers, CreateContainer(c) PROVE IInv'
  BY <1>5, CreateContainerIInv
<1>6. CASE Restart
  BY <1>6, RestartIInv
<1>7. CASE UNCHANGED vars
  BY <1>7 DEF vars, IInv, TypeOK, FirstIncarnation, NoneStarted,
     OperationalSet, ContainersGetAllDevices
<1>. QED
  BY <1>1, <1>2, <1>3, <1>4, <1>5, <1>6, <1>7 DEF Next

-----------------------------------------------------------------------------
(* Every reachable state is well typed: the device list and its          *)
(* Operational flags have the same length after any sequence of loads,   *)
(* starts and restarts.                                                   *)
THEOREM TypeCorrect == Spec => []TypeOK
<1>1. IInv => TypeOK
  BY DEF IInv
<1>. QED
  BY <1>1, IInvInit, IInvNext, PTL DEF Spec

(* Until kubecri restarts, every container the runtime creates has every *)
(* device it requests, whatever subset of the devices starts, whatever   *)
(* the advertiser publishes and whichever allocations fail.              *)
THEOREM DevicesComplete == Spec => []DevicesCompleteUntilRestart
<1>1. IInv => DevicesCompleteUntilRestart
  BY DEF IInv, FirstIncarnation, DevicesCompleteUntilRestart
<1>. QED
  BY <1>1, IInvInit, IInvNext, PTL DEF Spec

-----------------------------------------------------------------------------
(* The condition of CreatedWithOperationalDevices on one step.            *)
CreationStep ==
  \A c \in Containers :
    ~created[c] /\ created'[c] => config'[c] = OperationalSet \cap Needs[c]

(* Only a creation with no allocation error sets a container created.     *)
LEMMA CreateContainerStep ==
  ASSUME TypeOK, NEW c0 \in Containers, CreateContainer(c0)
  PROVE  CreationStep
<1>. SUFFICES ASSUME NEW c \in Containers, ~created[c], created'[c]
              PROVE  config'[c] = OperationalSet \cap Needs[c]
  BY DEF CreationStep
<1>1. OperationalSet' = OperationalSet
  BY DEF CreateContainer, procVars, OperationalSet
<1>2. CASE UNCHANGED <<created, config>>
  BY <1>2
<1>3. ASSUME NEW ok \in [1..Len(devs) -> BOOLEAN],
             ConfigureContainer(c0, AllocateDevices(c0, ok))
      PROVE  config'[c] = OperationalSet \cap Needs[c]
  <2>1. /\ ~AllocateDevices(c0, ok).err
        /\ created' = [created EXCEPT ![c0] = TRUE]
        /\ config'[c0] = AllocateDevices(c0, ok).devices
    BY <1>3 DEF ConfigureContainer, TypeOK
  <2>2. c = c0
    BY <2>1 DEF TypeOK
  <2>. QED
    BY <2>1, <2>2, AllocateAll
<1>. QED
  BY <1>2, <1>3 DEF CreateContainer

(* Every step of the model, from a well-typed state, satisfies the step   *)
(* condition or leaves the variables unchanged.                           *)
LEMMA CreationNext ==
  ASSUME TypeOK, [Next]_vars
  PROVE  CreationStep
<1>1. ASSUME UNCHANGED created PROVE CreationStep
  BY <1>1 DEF CreationStep
<1>2. CASE LoadPlugin
  BY <1>1, <1>2 DEF LoadPlugin
<1>3. CASE StartDevices
  BY <1>1, <1>3 DEF StartDevices
<1>4. CASE UpdateNodeInfo
  BY <1>1, <1>4 DEF UpdateNodeInfo
<1>5. ASSUME NEW c \in Containers, Schedule(c) PROVE CreationStep
  BY <1>1, <1>5 DEF Schedule
<1>6. ASSUME NEW c \in Containers, CreateContainer(c) PROVE CreationStep
  BY <1>6, CreateContainerStep
<1>7. CASE Restart
  BY <1>1, <1>7 DEF Restart
<1>8. CASE UNCHANGED vars
  BY <1>1, <1>8 DEF vars
<1>. QED
  BY <1>2, <1>3, <1>4, <1>5, <1>6, <1>7, <1>8 DEF Next

(***************************************************************************)
(* For every plug-in list, container set and request, and across restarts *)
(* of kubecri, CreateContainer (docker_container.go:70-94) creates a       *)
(* container only with every device it requests that the process has      *)
(* operational: an Allocate failure of one device (devicemanager.go:121)   *)
(* never lets a container be created with the other devices alone.        *)
(***************************************************************************)
THEOREM CreationAllOrNothing == Spec => CreatedWithOperationalDevices
<1>1. TypeOK /\ [Next]_vars => [CreationStep]_vars
  BY CreationNext
<1>. QED
  BY <1>1, TypeCorrect, PTL DEF Spec, CreatedWithOperationalDevices, CreationStep

-----------------------------------------------------------------------------
(* Refinement of DeviceNode under the mapping available <- Available.     *)

(* The initial state maps to the abstract initial state.                  *)
LEMMA NodeInitMap ==
  ASSUME Init
  PROVE  Node!NodeInit
BY DEF Init, Node!NodeInit, Available

(* Steps that leave the abstract state alone.                             *)
LEMMA NodeStutter ==
  ASSUME Available' = Available, UNCHANGED <<advertised, bound, created, config>>
  PROVE  UNCHANGED Node!nodeVars
BY DEF Node!nodeVars

(* A step that only changes what is available is a reconfiguration.      *)
LEMMA NodeReconfigure ==
  ASSUME TypeOK, OperationalSet' \subseteq DevPlugins,
         UNCHANGED <<advertised, bound, created, config>>
  PROVE  Node!Reconfigure
BY DEF Node!Reconfigure, Available

(* Every step of kubecri is a step of the abstract node or a stutter.     *)
LEMMA NodeStep ==
  ASSUME TypeOK, [Next]_vars
  PROVE  [Node!NodeNext]_Node!nodeVars
<1>1. OperationalSet \subseteq DevPlugins
  BY OperationalDevices
<1>2. CASE LoadPlugin
  <2>1. Available' = Available
    BY <1>2 DEF LoadPlugin, Available
  <2>. QED
    BY <1>2, <2>1, NodeStutter DEF LoadPlugin
<1>3. CASE StartDevices
  <2>1. OperationalSet' \subseteq DevPlugins
    BY <1>3 DEF StartDevices, OperationalSet, TypeOK
  <2>2. Node!Reconfigure
    BY <1>3, <2>1, NodeReconfigure DEF StartDevices
  <2>. QED
    BY <2>2 DEF Node!NodeNext
<1>4. CASE UpdateNodeInfo
  <2>1. Available' = Available /\ Available = OperationalSet
    BY <1>4 DEF UpdateNodeInfo, procVars, Available, OperationalSet
  <2>2. Node!Advertise
    BY <1>4, <2>1 DEF UpdateNodeInfo, procVars, Node!Advertise
  <2>. QED
    BY <2>2 DEF Node!NodeNext
<1>5. ASSUME NEW c \in Containers, Schedule(c)
      PROVE  [Node!NodeNext]_Node!nodeVars
  <2>1. Available' = Available
    BY <1>5 DEF Schedule, procVars, Available, OperationalSet
  <2>2. Node!Bind(c)
    BY <1>5, <2>1 DEF Schedule, Node!Bind
  <2>. QED
    BY <2>2 DEF Node!NodeNext
<1>6. ASSUME NEW c \in Containers, CreateContainer(c)
      PROVE  [Node!NodeNext]_Node!nodeVars
  <2>1. Available' = Available
    BY <1>6 DEF CreateContainer, procVars, Available, OperationalSet
  <2>3. CASE UNCHANGED <<created, config>>
    BY <1>6, <2>1, <2>3, NodeStutter DEF CreateContainer
  <2>4. ASSUME NEW ok \in [1..Len(devs) -> BOOLEAN],
               ConfigureContainer(c, AllocateDevices(c, ok))
        PROVE  [Node!NodeNext]_Node!nodeVars
    <3>1. Available' = Available /\ Available = OperationalSet
      BY <1>6, <2>1 DEF CreateContainer, Available
    <3>2. /\ ~AllocateDevices(c, ok).err
          /\ created' = [created EXCEPT ![c] = TRUE]
          /\ config' = [config EXCEPT ![c] = AllocateDevices(c, ok).devices]
      BY <2>4 DEF ConfigureContainer
    <3>3. AllocateDevices(c, ok).devices = Available \cap Needs[c]
      BY <3>1, <3>2, AllocateAll
    <3>4. Node!Create(c)
      BY <1>6, <3>1, <3>2, <3>3 DEF CreateContainer, Node!Create
    <3>. QED
      BY <3>4 DEF Node!NodeNext
  <2>. QED
    BY <1>6, <2>3, <2>4 DEF CreateContainer
<1>7. CASE Restart
  <2>1. Available' = {}
    BY <1>7 DEF Restart, Available
  <2>2. Node!Reconfigure
    BY <1>7, <2>1 DEF Restart, Node!Reconfigure
  <2>. QED
    BY <2>2 DEF Node!NodeNext
<1>8. CASE UNCHANGED vars
  <2>1. Available' = Available
    BY <1>8 DEF vars, Available, OperationalSet
  <2>. QED
    BY <1>8, <2>1, NodeStutter DEF vars
<1>. QED
  BY <1>2, <1>3, <1>4, <1>5, <1>6, <1>7, <1>8 DEF Next

(***************************************************************************)
(* For every plug-in list, container set and request, kubecri implements   *)
(* DeviceNode: across loads, starts and restarts of the process, the      *)
(* advertiser (UpdateNodeInfo, devicemanager.go:91-101) advertises only  *)
(* devices the process has operational while it serves, and             *)
(* CreateContainer (docker_container.go:70-94) creates containers with     *)
(* exactly the available devices they request.                             *)
(***************************************************************************)
THEOREM NodeRefinement == Spec => NodeRefined
<1>1. Init => Node!NodeInit
  BY NodeInitMap
<1>2. TypeOK /\ [Next]_vars => [Node!NodeNext]_Node!nodeVars
  BY NodeStep
<1>. QED
  BY <1>1, <1>2, TypeCorrect, PTL DEF Spec, NodeRefined, Node!NodeSpec

====
