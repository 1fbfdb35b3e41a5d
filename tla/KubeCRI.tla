------------------------------ MODULE KubeCRI ------------------------------
(***************************************************************************)
(* The node side (kubecri): the device manager (devicemanager.go) and the  *)
(* container runtime shim that asks it for each container's devices        *)
(* (docker_container.go), started by app.go's Run.                         *)
(*                                                                         *)
(* Run loads the device plug-ins (AddDevicesFromPlugins), starts them      *)
(* (Start), starts the advertiser, which publishes the operational         *)
(* devices' resources on the node (UpdateNodeInfo), and serves the         *)
(* kubelet's CreateContainer calls.  The device list and its Operational   *)
(* flags live in the process (the static DeviceManager); the node's        *)
(* advertised resources, the pods bound to the node and the containers     *)
(* created live outside it and survive a restart of kubecri.               *)
(*                                                                         *)
(* A device is a plug-in; what matters of its resources is whether the     *)
(* node advertises them and whether a container gets them.                 *)
(***************************************************************************)
EXTENDS Naturals, Sequences

CONSTANTS
  DevPlugins,     (* the device plug-ins found in DevicePath              *)
  DevPluginList,  (* the plug-in files, in ReadDir order                  *)
  Containers,     (* containers of the pods the scheduler may bind here   *)
  Needs,          (* the devices each container requests                  *)
  MaxAttempts,    (* bound: CreateContainer calls per container           *)
  MaxRestarts     (* bound: restarts counted                              *)

ASSUME KubeCRIAssumption ==
  /\ DevPluginList \in Seq(DevPlugins)
  /\ Needs \in [Containers -> SUBSET DevPlugins]
  /\ MaxAttempts \in Nat
  /\ MaxRestarts \in Nat \ {0}

VARIABLES
  devs,         (* DeviceManager.Devices                                 *)
  operational,  (* DeviceManager.Operational                             *)
  loaded,       (* position of Run in the plug-in list                   *)
  phase,        (* the kubecri process: loading, serving, exited          *)
  advertised,   (* devices whose resources the node advertises           *)
  bound,        (* pods bound to this node by the scheduler              *)
  created,      (* containers the runtime has created                    *)
  config,       (* the devices in each created container's config        *)
  attempts,     (* CreateContainer calls per container                   *)
  restarts      (* restarts of kubecri                                   *)

procVars == <<devs, operational, loaded, phase>>
vars == <<devs, operational, loaded, phase, advertised, bound, created, config, attempts, restarts>>

Phases == {"loading", "serving", "exited"}

(* The devices that started, by name.                                     *)
OperationalSet == {devs[i] : i \in {j \in 1..Len(devs) : operational[j]}}

Init ==
  /\ devs = <<>>
  /\ operational = <<>>
  /\ loaded = 0
  /\ phase = "loading"
  /\ advertised = {}
  /\ bound = [c \in Containers |-> FALSE]
  /\ created = [c \in Containers |-> FALSE]
  /\ config = [c \in Containers |-> {}]
  /\ attempts = [c \in Containers |-> 0]
  /\ restarts = 0

-----------------------------------------------------------------------------
(* Fault model of AddDevice: the Operational entry is not appended.       *)
AddDeviceNoFlag(d) ==
  /\ devs' = Append(devs, d)
  /\ UNCHANGED operational

(* AddDevice: the device is appended, not operational until it starts.    *)
AddDevice(d) ==
  /\ devs' = Append(devs, d)
  /\ operational' = Append(operational, FALSE)

(* One iteration of AddDevicesFromPlugins: the plug-in opens, its         *)
(* CreateDevicePlugin is found and succeeds and the device's New succeeds, *)
(* and it is added; or one of the four fails and it is skipped.           *)
LoadPlugin ==
  /\ phase = "loading"
  /\ loaded < Len(DevPluginList)
  /\ loaded' = loaded + 1
  /\ \/ AddDevice(DevPluginList[loaded + 1])
     \/ UNCHANGED <<devs, operational>>
  /\ UNCHANGED <<phase, advertised, bound, created, config, attempts, restarts>>

(* Start, then the rest of Run: each device's Start sets its flag; the    *)
(* shim either serves or DockerExtInit fails and klog.Fatal exits.        *)
StartDevices ==
  /\ phase = "loading"
  /\ loaded = Len(DevPluginList)
  /\ operational' \in [1..Len(devs) -> BOOLEAN]
  /\ phase' \in {"serving", "exited"}
  /\ UNCHANGED <<devs, loaded, advertised, bound, created, config, attempts, restarts>>

(* Fault model of UpdateNodeInfo: the Operational check at line 94 is    *)
(* missing, so devices that failed to start are advertised too.          *)
UpdateNodeInfoAll ==
  /\ phase = "serving"
  /\ advertised' \in SUBSET {devs[i] : i \in 1..Len(devs)}
  /\ UNCHANGED <<procVars, bound, created, config, attempts, restarts>>

(* UpdateNodeInfo, called by the advertiser: every operational device     *)
(* writes its resources into the node info; a device whose update fails   *)
(* is only logged, and its resources are missing.                          *)
UpdateNodeInfo ==
  /\ phase = "serving"
  /\ advertised' \in SUBSET OperationalSet
  /\ UNCHANGED <<procVars, bound, created, config, attempts, restarts>>

(* The scheduler binds a container's pod to the node when the node        *)
(* advertises every device it requests.                                   *)
Schedule(c) ==
  /\ ~bound[c]
  /\ Needs[c] \subseteq advertised
  /\ bound' = [bound EXCEPT ![c] = TRUE]
  /\ UNCHANGED <<procVars, advertised, created, config, attempts, restarts>>

(* Fault model of AllocateDevices: errRet takes every device's result,    *)
(* so only the last operational device's error is returned.               *)
AllocateDevicesLastErr(c, ok) ==
  LET op == {i \in 1..Len(devs) : operational[i]}
  IN  [devices |-> {devs[i] : i \in {j \in op : ok[j]}} \cap Needs[c],
       err     |-> \E i \in op : ~ok[i] /\ \A j \in op : j <= i]

(***************************************************************************)
(* AllocateDevices: every operational device's Allocate is called (ok[i]   *)
(* is its outcome); a device that is not operational is skipped.  The      *)
(* devices of those that succeed are collected, a device contributing what *)
(* the container requests of it; an error of any is returned.             *)
(***************************************************************************)
AllocateDevices(c, ok) ==
  LET op == {i \in 1..Len(devs) : operational[i]}
  IN  [devices |-> {devs[i] : i \in {j \in op : ok[j]}} \cap Needs[c],
       err     |-> \E i \in op : ~ok[i]]

(* Fault model of modifyContainerConfig: the allocation error at line 40 *)
(* is not checked, and the container is created with what was collected. *)
ConfigureContainerIgnoringErr(c, r) ==
  /\ created' = [created EXCEPT ![c] = TRUE]
  /\ config' = [config EXCEPT ![c] = r.devices]

(* modifyContainerConfig, then the docker service's CreateContainer       *)
(* succeeds: the container is created with the collected devices.  On an  *)
(* allocation error the error is returned and nothing is created.         *)
ConfigureContainer(c, r) ==
  /\ ~r.err
  /\ created' = [created EXCEPT ![c] = TRUE]
  /\ config' = [config EXCEPT ![c] = r.devices]

(***************************************************************************)
(* dockerExtService.CreateContainer, called by the kubelet (which retries  *)
(* a container whose creation failed).  The annotations do not decode,    *)
(* an allocation fails or the docker service fails, and an error is        *)
(* returned; or the container is created.  A failed pod lookup is only     *)
(* logged (lines 79-81) and the call goes on with the empty Pod the client *)
(* returns; what the decoding and the plug-ins make of it is code outside  *)
(* this repository, taken to end in the error.                             *)
(***************************************************************************)
CreateContainer(c) ==
  /\ phase = "serving"
  /\ bound[c]
  /\ ~created[c]
  /\ attempts[c] < MaxAttempts
  /\ attempts' = [attempts EXCEPT ![c] = @ + 1]
  /\ \/ UNCHANGED <<created, config>>
     \/ \E ok \in [1..Len(devs) -> BOOLEAN] : ConfigureContainer(c, AllocateDevices(c, ok))
  /\ UNCHANGED <<procVars, advertised, bound, restarts>>

(* The process is restarted, after a fatal exit or at any time it is      *)
(* killed (a node reboot, an upgrade, the OOM killer): the static          *)
(* DeviceManager starts empty and Run begins again.  The count of restarts *)
(* stops at MaxRestarts; restarts go on.                                   *)
Restart ==
  /\ restarts' = IF restarts < MaxRestarts THEN restarts + 1 ELSE restarts
  /\ devs' = <<>>
  /\ operational' = <<>>
  /\ loaded' = 0
  /\ phase' = "loading"
  /\ UNCHANGED <<advertised, bound, created, config, attempts>>

Next ==
  \/ LoadPlugin
  \/ StartDevices
  \/ UpdateNodeInfo
  \/ \E c \in Containers : Schedule(c) \/ CreateContainer(c)
  \/ Restart

Spec == Init /\ [][Next]_vars

-----------------------------------------------------------------------------
TypeOK ==
  /\ devs \in Seq(DevPlugins)
  /\ operational \in Seq(BOOLEAN)
  /\ Len(operational) = Len(devs)
  /\ loaded \in 0..Len(DevPluginList)
  /\ phase \in Phases
  /\ advertised \in SUBSET DevPlugins
  /\ bound \in [Containers -> BOOLEAN]
  /\ created \in [Containers -> BOOLEAN]
  /\ config \in [Containers -> SUBSET DevPlugins]
  /\ attempts \in [Containers -> 0..MaxAttempts]
  /\ restarts \in 0..MaxRestarts

(***************************************************************************)
(* The shim injects the devices the container was scheduled for: a        *)
(* container the runtime created has every device it requests, those the  *)
(* node advertised when its pod was bound (AllocateDevices skips devices   *)
(* that are not operational, without an error).                            *)
(***************************************************************************)
ContainersGetAllDevices ==
  \A c \in Containers : created[c] => Needs[c] \subseteq config[c]

(***************************************************************************)
(* As long as kubecri has not restarted, every created container has all   *)
(* its devices: the advertiser only publishes operational devices, and     *)
(* AllocateDevices fails the creation when any operational device fails,   *)
(* whatever order the devices succeed and fail in.                         *)
(***************************************************************************)
DevicesCompleteUntilRestart ==
  restarts = 0 => ContainersGetAllDevices

(***************************************************************************)
(* Every creation, in every incarnation, commits all or nothing of the    *)
(* allocation: a container is created only with every device the process  *)
(* currently has operational that it requests.  A device whose Allocate   *)
(* fails (AllocateDevices, lines 110-125) never leaves a container with   *)
(* the other devices' results (modifyContainerConfig, lines 39-42).        *)
(***************************************************************************)
CreatedWithOperationalDevices ==
  [][\A c \in Containers :
       ~created[c] /\ created'[c] => config'[c] = OperationalSet \cap Needs[c]]_vars

(***************************************************************************)
(* The node implements DeviceNode: what it can hand to a container is the  *)
(* operational set while the process serves, and nothing while it loads   *)
(* or is down.  Every step of kubecri is a step of the abstract node or    *)
(* leaves its state alone: Start and a restart change what is available,  *)
(* the advertiser advertises available devices only, and a container is   *)
(* created with exactly the available devices it requests.                *)
(***************************************************************************)
Available == IF phase = "serving" THEN OperationalSet ELSE {}
Node == INSTANCE DeviceNode WITH available <- Available
NodeRefined == Node!NodeSpec

=============================================================================
