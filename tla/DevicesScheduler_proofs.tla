----------------------- MODULE DevicesScheduler_proofs -----------------------
(***************************************************************************)
(* Proofs about the aggregator, for every plug-in list, every set of pods  *)
(* and nodes and every set of scores.                                      *)
(*                                                                         *)
(* The invariants checked by the runs are not inductive as they stand:     *)
(* the bound on the list's length needs the number of plug-ins walked, and *)
(* the goroutines' writes into score[cur] and maxScore[cur] need cur to be *)
(* a pod whenever a goroutine is running.  IInv adds both.                 *)
(***************************************************************************)
EXTENDS DevicesScheduler, SequenceTheorems, TLAPS

DeviceIds == Plugins \cup {GrpDevice}

RegTypeOK ==
  /\ devices \in Seq(DeviceIds)
  /\ hasGroupScheduler \in BOOLEAN
  /\ loaded \in 0..Len(PluginList)

RegInv ==
  /\ RegTypeOK
  /\ Len(devices) <= loaded + (IF hasGroupScheduler THEN 1 ELSE 0)
  /\ DeviceListWellFormed

CacheInv ==
  /\ score \in [Pods -> [Nodes -> Scores \cup {NoScore}]]
  /\ maxScore \in [Pods -> Scores \cup {NoScore}]
  /\ cur \in Pods \cup {NoPod}
  /\ stage \in {"filtering", "committing"}
  /\ pc \in [Nodes -> PcValues]
  /\ fit \in [Nodes -> BOOLEAN]
  /\ tot \in [Nodes -> Scores]
  /\ rowSeen \in [Nodes -> BOOLEAN]
  /\ cycles \in [Pods -> 0..MaxCycles]
  /\ cur = NoPod => \A n \in Nodes : pc[n] = "idle"

IInv == RegInv /\ CacheInv

-----------------------------------------------------------------------------
(* Front and Last undo Append.                                           *)
LEMMA FrontLastAppend ==
  ASSUME NEW S, NEW s \in Seq(S), NEW e \in S
  PROVE  /\ Front(Append(s, e)) = s
         /\ Last(Append(s, e)) = e
  BY AppendProperties DEF Front, Last

(* Front of a non-empty sequence is a sequence one shorter, and Last one  *)
(* of its elements.                                                       *)
LEMMA FrontLastProperties ==
  ASSUME NEW S, NEW s \in Seq(S), s # <<>>
  PROVE  /\ Front(s) \in Seq(S)
         /\ Len(Front(s)) = Len(s) - 1
         /\ Last(s) \in S
<1>1. Len(s) \in Nat \ {0}
  BY EmptySeq
<1>2. \A i \in 1..Len(s) - 1 : s[i] \in S
  BY <1>1, ElementOfSeq
<1>3. /\ SubSeq(s, 1, Len(s) - 1) \in Seq(S)
      /\ Len(SubSeq(s, 1, Len(s) - 1)) = IF 1 <= Len(s) - 1 THEN Len(s) - 1 ELSE 0
  BY <1>1, <1>2, SubSeqProperties
<1>6. Front(s) = SubSeq(s, 1, Len(s) - 1)
  BY DEF Front
<1>7. Front(s) \in Seq(S)
  BY <1>3, <1>6
<1>9. \A k \in Nat \ {0} : (IF 1 <= k - 1 THEN k - 1 ELSE 0) = k - 1
  OBVIOUS
<1>8. Len(Front(s)) = Len(s) - 1
  BY <1>1, <1>3, <1>6, <1>9
<1>5. Front(s) \in Seq(S) /\ Len(Front(s)) = Len(s) - 1
  BY <1>7, <1>8
<1>4. Last(s) \in S
  BY <1>1, ElementOfSeq DEF Last
<1>. QED  BY <1>5, <1>4

(* The list without the group device is a sequence of plug-ins.          *)
LEMMA RegisteredType ==
  ASSUME RegInv
  PROVE  /\ Registered \in Seq(DeviceIds)
         /\ Registered \in Seq(Plugins)
         /\ ~hasGroupScheduler => Registered = devices
         /\ hasGroupScheduler => /\ devices # <<>>
                                /\ Registered = Front(devices)
                                /\ Last(devices) = GrpDevice
                                /\ Len(Registered) = Len(devices) - 1
<1>1. Registered \in Seq(DeviceIds)
  BY FrontLastProperties DEF RegInv, RegTypeOK, DeviceListWellFormed, Registered
<1>2. \A i \in 1..Len(Registered) : Registered[i] \in Plugins
  BY <1>1, ElementOfSeq DEF RegInv, DeviceListWellFormed, DeviceIds
<1>3. Registered \in Seq(Plugins)
  BY <1>1, <1>2, LenProperties, IsASeq
<1>4. hasGroupScheduler => Len(Registered) = Len(devices) - 1
  BY FrontLastProperties DEF RegInv, RegTypeOK, DeviceListWellFormed, Registered
<1>. QED  BY <1>1, <1>3, <1>4 DEF RegInv, DeviceListWellFormed, Registered

(***************************************************************************)
(* AddDevice appends the device to the list without the group device, and *)
(* the list gains one element, or two when the group device comes with it.*)
(***************************************************************************)
LEMMA AddDeviceEffect ==
  ASSUME RegInv, NEW d \in Plugins, AddDevice(d)
  PROVE  /\ devices' \in Seq(DeviceIds)
         /\ hasGroupScheduler' = (hasGroupScheduler \/ UsesGroup[d])
         /\ hasGroupScheduler' => devices' # <<>> /\ Last(devices') = GrpDevice
         /\ Registered' = Append(Registered, d)
         /\ Len(devices') = Len(devices) + 1
                             + (IF hasGroupScheduler' /\ ~hasGroupScheduler THEN 1 ELSE 0)
<1> USE RegistryAssumption
<1>0. /\ Registered \in Seq(DeviceIds)
      /\ ~hasGroupScheduler => Registered = devices
      /\ hasGroupScheduler => /\ devices # <<>>
                             /\ Registered = Front(devices)
                             /\ Last(devices) = GrpDevice
  BY RegisteredType
<1>a. /\ devices \in Seq(DeviceIds)
      /\ d \in DeviceIds
      /\ GrpDevice \in DeviceIds
      /\ hasGroupScheduler \in BOOLEAN
  BY DEF RegInv, RegTypeOK, DeviceIds
<1>1. CASE ~hasGroupScheduler /\ UsesGroup[d]
  <2>1. devices' = Append(Append(devices, d), GrpDevice) /\ hasGroupScheduler'
    BY <1>1 DEF AddDevice
  <2>2. /\ Append(devices, d) \in Seq(DeviceIds)
        /\ Len(Append(devices, d)) = Len(devices) + 1
    BY <1>a, AppendProperties
  <2>3. /\ Append(Append(devices, d), GrpDevice) \in Seq(DeviceIds)
        /\ Append(Append(devices, d), GrpDevice) # <<>>
        /\ Len(Append(Append(devices, d), GrpDevice)) = Len(devices) + 2
    BY <1>a, <2>2, AppendProperties
  <2>4. /\ Front(Append(Append(devices, d), GrpDevice)) = Append(devices, d)
        /\ Last(Append(Append(devices, d), GrpDevice)) = GrpDevice
    BY <1>a, <2>2, FrontLastAppend
  <2>5. Registered' = Append(Registered, d)
    BY <1>0, <1>1, <2>1, <2>4 DEF Registered
  <2>6. hasGroupScheduler' = (hasGroupScheduler \/ UsesGroup[d])
    BY <1>1, <2>1, Zenon
  <2>7. Len(devices') = Len(devices) + 1
                        + (IF hasGroupScheduler' /\ ~hasGroupScheduler THEN 1 ELSE 0)
    BY <1>1, <2>1, <2>3
  <2>. QED  BY <2>1, <2>3, <2>4, <2>5, <2>6, <2>7
<1>2. CASE ~hasGroupScheduler /\ ~UsesGroup[d]
  <2>1. devices' = Append(devices, d) /\ ~hasGroupScheduler'
    BY <1>2 DEF AddDevice
  <2>2. /\ Append(devices, d) \in Seq(DeviceIds)
        /\ Len(Append(devices, d)) = Len(devices) + 1
    BY <1>a, AppendProperties
  <2>3. Registered' = Append(Registered, d)
    BY <1>0, <1>2, <2>1 DEF Registered
  <2>4. hasGroupScheduler' = (hasGroupScheduler \/ UsesGroup[d])
    BY <1>2, <1>a DEF AddDevice
  <2>5. Len(devices') = Len(devices) + 1
                        + (IF hasGroupScheduler' /\ ~hasGroupScheduler THEN 1 ELSE 0)
    BY <1>2, <2>1, <2>2
  <2>. QED  BY <2>1, <2>2, <2>3, <2>4, <2>5
<1>3. CASE hasGroupScheduler
  <2>1. devices' = Append(Append(Front(devices), d), Last(devices)) /\ hasGroupScheduler'
    BY <1>3 DEF AddDevice
  <2>2. /\ Front(devices) \in Seq(DeviceIds)
        /\ Len(Front(devices)) = Len(devices) - 1
        /\ Last(devices) \in DeviceIds
    BY <1>0, <1>3, <1>a, FrontLastProperties
  <2>3. /\ Append(Front(devices), d) \in Seq(DeviceIds)
        /\ Len(Append(Front(devices), d)) = Len(devices)
    BY <1>a, <2>2, AppendProperties
  <2>4. /\ Append(Append(Front(devices), d), Last(devices)) \in Seq(DeviceIds)
        /\ Append(Append(Front(devices), d), Last(devices)) # <<>>
        /\ Len(Append(Append(Front(devices), d), Last(devices))) = Len(devices) + 1
    BY <2>2, <2>3, AppendProperties
  <2>5. /\ Front(Append(Append(Front(devices), d), Last(devices))) = Append(Front(devices), d)
        /\ Last(Append(Append(Front(devices), d), Last(devices))) = Last(devices)
    BY <2>2, <2>3, FrontLastAppend
  <2>6. Registered' = Append(Registered, d)
    BY <1>0, <1>3, <2>1, <2>5 DEF Registered
  <2>7. hasGroupScheduler' = (hasGroupScheduler \/ UsesGroup[d])
    BY <1>3, <2>1, Zenon
  <2>8. Len(devices') = Len(devices) + 1
                        + (IF hasGroupScheduler' /\ ~hasGroupScheduler THEN 1 ELSE 0)
    BY <1>3, <2>1, <2>4
  <2>. QED  BY <1>0, <1>3, <2>1, <2>4, <2>5, <2>6, <2>7, <2>8
<1>. QED  BY <1>1, <1>2, <1>3

(* Registering one more plug-in keeps the list well formed.              *)
LEMMA AddDevicePreservesRegInv ==
  ASSUME RegInv, NEW d \in Plugins, AddDevice(d),
         loaded < Len(PluginList), loaded' = loaded + 1
  PROVE  RegInv'
<1> USE RegistryAssumption
<1>1. /\ devices' \in Seq(DeviceIds)
      /\ hasGroupScheduler' = (hasGroupScheduler \/ UsesGroup[d])
      /\ hasGroupScheduler' => devices' # <<>> /\ Last(devices') = GrpDevice
      /\ Registered' = Append(Registered, d)
      /\ Len(devices') = Len(devices) + 1
                          + (IF hasGroupScheduler' /\ ~hasGroupScheduler THEN 1 ELSE 0)
  BY AddDeviceEffect
<1>2. /\ Registered \in Seq(Plugins)
      /\ \A i \in 1..Len(Registered) : Registered[i] # GrpDevice
      /\ hasGroupScheduler = (\E i \in 1..Len(Registered) : UsesGroup[Registered[i]])
  BY RegisteredType DEF RegInv, DeviceListWellFormed
<1>3. /\ Len(Registered') = Len(Registered) + 1
      /\ \A i \in 1..Len(Registered) : Registered'[i] = Registered[i]
      /\ Registered'[Len(Registered) + 1] = d
  BY <1>1, <1>2, AppendProperties
<1>4. hasGroupScheduler' \in BOOLEAN
  BY <1>1
<1>5. RegTypeOK'
  BY <1>1, <1>4 DEF RegInv, RegTypeOK
<1>6. Len(devices') <= loaded' + (IF hasGroupScheduler' THEN 1 ELSE 0)
  BY <1>1, <1>4 DEF RegInv, RegTypeOK
<1>7. \A i \in 1..Len(Registered') : Registered'[i] # GrpDevice
  BY <1>2, <1>3
<1>8. hasGroupScheduler' = (\E i \in 1..Len(Registered') : UsesGroup[Registered'[i]])
  <2>1. (\E i \in 1..Len(Registered') : UsesGroup[Registered'[i]])
          <=> ((\E i \in 1..Len(Registered) : UsesGroup[Registered[i]]) \/ UsesGroup[d])
    <3>1. Len(Registered) \in Nat
      BY <1>2, LenProperties
    <3>2. ASSUME NEW i \in 1..Len(Registered'), UsesGroup[Registered'[i]]
          PROVE  (\E j \in 1..Len(Registered) : UsesGroup[Registered[j]]) \/ UsesGroup[d]
      <4>1. CASE i <= Len(Registered)
        BY <1>3, <3>1, <3>2, <4>1
      <4>2. CASE i = Len(Registered) + 1
        BY <1>3, <3>2, <4>2
      <4>. QED  BY <1>3, <3>1, <4>1, <4>2
    <3>3. ASSUME NEW j \in 1..Len(Registered), UsesGroup[Registered[j]]
          PROVE  \E i \in 1..Len(Registered') : UsesGroup[Registered'[i]]
      BY <1>3, <3>1, <3>3
    <3>4. ASSUME UsesGroup[d]
          PROVE  \E i \in 1..Len(Registered') : UsesGroup[Registered'[i]]
      BY <1>3, <3>1, <3>4
    <3>. QED  BY <3>2, <3>3, <3>4
  <2>. QED  BY <1>1, <1>2, <2>1
<1>. QED  BY <1>1, <1>5, <1>6, <1>7, <1>8 DEF RegInv, DeviceListWellFormed

-----------------------------------------------------------------------------
(* Only LoadPlugin and RemoveAll touch the registry.                     *)
LEMMA RegInvNext ==
  ASSUME RegInv, [Next]_vars
  PROVE  RegInv'
<1> USE RegistryAssumption
<1>1. CASE LoadPlugin
  <2>1. PluginList[loaded + 1] \in Plugins
    BY <1>1, ElementOfSeq DEF LoadPlugin, RegInv, RegTypeOK
  <2>2. CASE AddDevice(PluginList[loaded + 1])
    BY <1>1, <2>1, <2>2, AddDevicePreservesRegInv DEF LoadPlugin
  <2>3. CASE UNCHANGED <<devices, hasGroupScheduler>>
    <3>1. Registered' = Registered
      BY <2>3 DEF Registered
    <3>. QED  BY <1>1, <2>3, <3>1 DEF LoadPlugin, RegInv, RegTypeOK, DeviceListWellFormed
  <2>. QED  BY <1>1, <2>2, <2>3 DEF LoadPlugin
<1>2. CASE RemoveAll
  <2>1. Registered' = <<>>
    BY <1>2 DEF RemoveAll, Registered
  <2>2. <<>> \in Seq(DeviceIds) /\ Len(<<>>) = 0
    BY EmptySeq
  <2>3. RegTypeOK'
    BY <1>2, <2>2 DEF RemoveAll, RegInv, RegTypeOK
  <2>4. Len(devices') <= loaded' + (IF hasGroupScheduler' THEN 1 ELSE 0)
    BY <1>2, <2>2 DEF RemoveAll, RegInv, RegTypeOK
  <2>5. DeviceListWellFormed'
    <3>1. 1..Len(Registered') = {}
      BY <2>1, <2>2
    <3>. QED  BY <1>2, <3>1 DEF RemoveAll, DeviceListWellFormed
  <2>. QED  BY <2>3, <2>4, <2>5 DEF RegInv
<1>3. CASE UNCHANGED regVarsImpl
  <2>1. Registered' = Registered
    BY <1>3 DEF regVarsImpl, Registered
  <2>. QED  BY <1>3, <2>1 DEF regVarsImpl, RegInv, RegTypeOK, DeviceListWellFormed
<1>. QED
  BY <1>1, <1>2, <1>3
  DEF Next, vars, regVarsImpl, StartCycle, Evaluate, Record, CompareMax, WriteMax,
      SelectHost, Unschedulable, PodAllocate

(* The goroutines and the scheduler keep the tables' types.              *)
LEMMA CacheInvNext ==
  ASSUME CacheInv, [Next]_vars
  PROVE  CacheInv'
<1> USE ScoreAssumption DEF CacheInv
<1>1. CASE LoadPlugin
  BY <1>1 DEF LoadPlugin, cacheVars
<1>2. CASE RemoveAll
  BY <1>2 DEF RemoveAll
<1>3. ASSUME NEW p \in Pods, StartCycle(p)
      PROVE  CacheInv'
  BY <1>3 DEF StartCycle, PcValues
<1>4. ASSUME NEW n \in Nodes, Evaluate(n)
      PROVE  CacheInv'
  <2>1. rowSeen' \in [Nodes -> BOOLEAN]
    <3>1. HasRow(cur) \in BOOLEAN
      BY DEF HasRow
    <3>. QED  BY <1>4, <3>1 DEF Evaluate
  <2>2. cur # NoPod
    BY <1>4 DEF Evaluate
  <2>. QED  BY <1>4, <2>1, <2>2 DEF Evaluate, PcValues
<1>5. ASSUME NEW n \in Nodes, Record(n)
      PROVE  CacheInv'
  BY <1>5 DEF Record, PcValues
<1>6. ASSUME NEW n \in Nodes, CompareMax(n)
      PROVE  CacheInv'
  BY <1>6 DEF CompareMax, PcValues
<1>7. ASSUME NEW n \in Nodes, WriteMax(n)
      PROVE  CacheInv'
  BY <1>7 DEF WriteMax, PcValues
<1>8. CASE SelectHost
  BY <1>8 DEF SelectHost
<1>9. CASE Unschedulable
  BY <1>9 DEF Unschedulable, PcValues
<1>10. CASE PodAllocate
  <2>1. cur \in Pods
    BY <1>10 DEF PodAllocate
  <2>2. CASE RemovePodFromScore(cur)
    BY <1>10, <2>1, <2>2 DEF PodAllocate, RemovePodFromScore, PcValues
  <2>3. CASE UNCHANGED <<score, maxScore>>
    BY <1>10, <2>3 DEF PodAllocate, PcValues
  <2>. QED  BY <1>10, <2>2, <2>3 DEF PodAllocate
<1>11. CASE UNCHANGED vars
  BY <1>11 DEF vars, regVarsImpl, cacheVars
<1>. QED  BY <1>1, <1>2, <1>3, <1>4, <1>5, <1>6, <1>7, <1>8, <1>9, <1>10, <1>11 DEF Next

-----------------------------------------------------------------------------
(* The empty list, no group device and idle goroutines satisfy IInv.     *)
LEMMA IInvInit ==
  ASSUME Init
  PROVE  IInv
<1> USE RegistryAssumption, ScoreAssumption
<1>1. <<>> \in Seq(DeviceIds) /\ Len(<<>>) = 0
  BY EmptySeq
<1>2. Registered = <<>>
  BY DEF Init, Registered
<1>3. RegTypeOK
  <2>1. Len(PluginList) \in Nat
    BY LenProperties
  <2>2. devices \in Seq(DeviceIds)
    BY <1>1 DEF Init
  <2>3. hasGroupScheduler \in BOOLEAN
    BY DEF Init
  <2>4. loaded \in 0..Len(PluginList)
    BY <2>1 DEF Init
  <2>. QED  BY <2>2, <2>3, <2>4 DEF RegTypeOK
<1>4. DeviceListWellFormed
  <2>1. 1..Len(Registered) = {}
    BY <1>1, <1>2
  <2>. QED  BY <2>1 DEF Init, DeviceListWellFormed
<1>5. CacheInv
  BY DEF Init, CacheInv, PcValues
<1>. QED  BY <1>1, <1>3, <1>4, <1>5 DEF Init, IInv, RegInv

(* IInv is inductive.                                                    *)
LEMMA IInvNext ==
  ASSUME IInv, [Next]_vars
  PROVE  IInv'
BY RegInvNext, CacheInvNext DEF IInv

(* IInv bounds the list by the plug-ins walked plus the group device.    *)
LEMMA IInvTypeOK ==
  ASSUME IInv
  PROVE  TypeOK /\ DeviceListWellFormed
<1>1. Len(devices) <= Len(PluginList) + 1
  BY DEF IInv, RegInv, RegTypeOK
<1>. QED  BY <1>1 DEF IInv, RegInv, RegTypeOK, CacheInv, DeviceIds, TypeOK

(***************************************************************************)
(* Type correctness of the aggregator: whatever the plug-in list, however  *)
(* plug-ins load and however the per-node predicate goroutines interleave  *)
(* their score and maxScore writes, the tables keep their types and the    *)
(* device list never grows past the plug-ins plus the one group device.    *)
(***************************************************************************)
THEOREM TypeCorrect == Spec => []TypeOK
<1>1. Init => IInv
  BY IInvInit
<1>2. IInv /\ [Next]_vars => IInv'
  BY IInvNext
<1>3. IInv => TypeOK
  BY IInvTypeOK
<1>. QED  BY <1>1, <1>2, <1>3, PTL DEF Spec

(***************************************************************************)
(* AddDevice (devicescheduler.go:37-50) keeps the device list well formed  *)
(* for every plug-in list: the group device is appended exactly once, when *)
(* the first group-using plug-in registers, and stays last while later     *)
(* plug-ins are inserted before it.                                        *)
(***************************************************************************)
THEOREM DeviceListInvariant == Spec => []DeviceListWellFormed
<1>1. IInv => DeviceListWellFormed
  BY IInvTypeOK
<1>. QED  BY <1>1, IInvInit, IInvNext, PTL DEF Spec

-----------------------------------------------------------------------------
(* Every step of the aggregator is a registry step on Registered, or none. *)
LEMMA RegistryStep ==
  ASSUME IInv, [Next]_vars
  PROVE  [Reg!RegNext]_Reg!regVars
<1> USE RegistryAssumption
<1>1. CASE LoadPlugin
  <2>1. PluginList[loaded + 1] \in Plugins
    BY <1>1, ElementOfSeq DEF LoadPlugin, IInv, RegInv, RegTypeOK
  <2>2. CASE AddDevice(PluginList[loaded + 1])
    <3>1. Registered' = Append(Registered, PluginList[loaded + 1])
      BY <2>1, <2>2, AddDeviceEffect DEF IInv
    <3>. QED  BY <1>1, <3>1 DEF LoadPlugin, Reg!RegNext, Reg!Register
  <2>3. CASE UNCHANGED <<devices, hasGroupScheduler>>
    <3>1. Registered' = Registered
      BY <2>3 DEF Registered
    <3>. QED  BY <1>1, <3>1 DEF LoadPlugin, Reg!RegNext, Reg!Register
  <2>. QED  BY <1>1, <2>2, <2>3 DEF LoadPlugin
<1>2. CASE RemoveAll
  <2>1. Registered' = <<>>
    BY <1>2 DEF RemoveAll, Registered
  <2>. QED  BY <1>2, <2>1 DEF RemoveAll, Reg!RegNext, Reg!Clear
<1>3. CASE UNCHANGED regVarsImpl
  <2>1. Registered' = Registered
    BY <1>3 DEF regVarsImpl, Registered
  <2>. QED  BY <1>3, <2>1 DEF regVarsImpl, Reg!regVars
<1>. QED
  BY <1>1, <1>2, <1>3
  DEF Next, vars, regVarsImpl, StartCycle, Evaluate, Record, CompareMax, WriteMax,
      SelectHost, Unschedulable, PodAllocate

(***************************************************************************)
(* The aggregator implements the registry of spec section 4.3: with the    *)
(* group device left out, devicescheduler.go's list is the loaded plug-ins *)
(* in configuration order, and RemoveAll clears it.                        *)
(***************************************************************************)
THEOREM RegistryRefinement == Spec => RegistryRefined
<1>1. Init => Reg!RegInit
  <2> SUFFICES ASSUME Init PROVE Reg!RegInit
    OBVIOUS
  <2>1. Registered = <<>>
    BY DEF Init, Registered
  <2>. QED  BY <2>1 DEF Init, Reg!RegInit
<1>2. IInv /\ [Next]_vars => [Reg!RegNext]_Reg!regVars
  BY RegistryStep
<1>. QED  BY <1>1, <1>2, IInvInit, IInvNext, PTL DEF Spec, RegistryRefined, Reg!RegSpec

====
