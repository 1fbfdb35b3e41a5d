------------------------------ MODULE MCKubeCRI ------------------------------
EXTENDS KubeCRI

CONSTANTS gpu, ib

(* Two device plug-ins; one container needs both, so that one device can  *)
(* succeed while the other fails, and one needs only the first.           *)
MCDevPlugins == {gpu, ib}
MCDevPluginList == <<gpu, ib>>
MCContainers == {"c1", "c2"}
MCNeeds == [c \in MCContainers |-> IF c = "c1" THEN {gpu, ib} ELSE {gpu}]

=============================================================================
