----------------------------- MODULE DeviceNode -----------------------------
(***************************************************************************)
(* What a node running kubecri promises the cluster, whatever happens to   *)
(* its process: at any time it has some set of devices available (none    *)
(* while it is down or loading), it advertises only devices available when *)
(* it advertises, pods are bound against the advertisement, and a          *)
(* container is created with exactly the available devices it requests.   *)
(* The implementation (KubeCRI) maps onto this module.                     *)
(***************************************************************************)
CONSTANTS
  DevPlugins,   (* the node's devices                                    *)
  Containers,   (* containers of pods that may be bound to the node       *)
  Needs         (* the devices each container requests                    *)

VARIABLES
  available,    (* devices the node can hand to a container now          *)
  advertised,   (* devices the node advertises                           *)
  bound,        (* containers whose pods are bound to the node            *)
  created,      (* containers created                                    *)
  config        (* each created container's devices                      *)

nodeVars == <<available, advertised, bound, created, config>>

NodeInit ==
  /\ available = {}
  /\ advertised = {}
  /\ bound = [c \in Containers |-> FALSE]
  /\ created = [c \in Containers |-> FALSE]
  /\ config = [c \in Containers |-> {}]

(* The devices available change: the node starts, stops or restarts.     *)
Reconfigure ==
  /\ available' \in SUBSET DevPlugins
  /\ UNCHANGED <<advertised, bound, created, config>>

(* The node advertises some of its available devices.                    *)
Advertise ==
  /\ advertised' \in SUBSET available
  /\ UNCHANGED <<available, bound, created, config>>

(* A pod is bound against the advertisement.                             *)
Bind(c) ==
  /\ ~bound[c]
  /\ Needs[c] \subseteq advertised
  /\ bound' = [bound EXCEPT ![c] = TRUE]
  /\ UNCHANGED <<available, advertised, created, config>>

(* A bound container is created with the available devices it requests.  *)
Create(c) ==
  /\ bound[c]
  /\ ~created[c]
  /\ created' = [created EXCEPT ![c] = TRUE]
  /\ config' = [config EXCEPT ![c] = available \cap Needs[c]]
  /\ UNCHANGED <<available, advertised, bound>>

NodeNext ==
  \/ Reconfigure
  \/ Advertise
  \/ \E c \in Containers : Bind(c) \/ Create(c)

NodeSpec == NodeInit /\ [][NodeNext]_nodeVars

=============================================================================
