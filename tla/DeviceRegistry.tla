--------------------------- MODULE DeviceRegistry ---------------------------
(***************************************************************************)
(* What the aggregator's device list promises (spec section 4.3,          *)
(* composition rule): walking the configured plug-in list, every plug-in   *)
(* that loads is registered after the ones before it; plug-ins that fail   *)
(* to load are skipped; RemoveAll forgets every registration.  The         *)
(* synthetic group device is not a registration: it is bookkeeping of the *)
(* implementation (DevicesScheduler), which maps onto this module.         *)
(***************************************************************************)
EXTENDS Naturals, Sequences

CONSTANTS
  Plugins,     (* the device schedulers the plug-ins create              *)
  PluginList   (* the configured plug-in list, in order                  *)

VARIABLES
  registered,  (* the plug-ins registered so far, in registration order  *)
  loaded       (* how much of PluginList has been walked                 *)

regVars == <<registered, loaded>>

RegInit ==
  /\ registered = <<>>
  /\ loaded = 0

(* The next plug-in of the list is created and registered, or skipped.   *)
Register ==
  /\ loaded < Len(PluginList)
  /\ loaded' = loaded + 1
  /\ registered' \in {registered, Append(registered, PluginList[loaded + 1])}

(* Every registration is dropped.                                        *)
Clear ==
  /\ registered' = <<>>
  /\ UNCHANGED loaded

RegNext == Register \/ Clear

RegSpec == RegInit /\ [][RegNext]_regVars

=============================================================================
