------------------------- MODULE MCDevicesScheduler -------------------------
EXTENDS DevicesScheduler

CONSTANTS nvidia, gpuA, gpuB

(* Two group-using plug-ins around one that is not, so that a device is  *)
(* inserted before the group device in both orders.                      *)
MCPlugins == {nvidia, gpuA, gpuB}
MCUsesGroup == [d \in MCPlugins |-> d # nvidia]
MCPluginList == <<gpuA, nvidia, gpuB>>

=============================================================================
