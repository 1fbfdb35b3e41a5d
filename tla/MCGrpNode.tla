----------------------------- MODULE MCGrpNode -----------------------------
(***************************************************************************)
(* A node with two GPUs, each with one card and 4 units of memory, and two *)
(* pods whose requests are drawn from three shapes: one GPU, two GPUs in   *)
(* one container, and a running plus an init container on one GPU.        *)
(***************************************************************************)
EXTENDS GrpNode

MCPrefix == <<"r", "grp">>
MCSegOrder == <<"0", "1", "A", "B", "c1", "cards", "gpu", "gpugrp1", "grp", "i1", "memory", "r">>

Key(s) == MCPrefix \o s
MCAllocatable ==
  [k \in {Key(<<"gpu", g, res>>) : g \in {"0", "1"}, res \in {"cards", "memory"}} |->
     IF k[5] = "cards" THEN 1 ELSE 4]

Cont(req) == [req |-> req, af |-> Nil]
GpuReq(i, cards, mem) ==
  (Key(<<"gpu", i, "cards">>) :> cards) @@ (Key(<<"gpu", i, "memory">>) :> mem)

OneGpu  == [running |-> "c1" :> Cont(GpuReq("A", 1, 2)), init |-> EmptyMap]
TwoGpus == [running |-> "c1" :> Cont(GpuReq("A", 1, 2) @@ GpuReq("B", 1, 2)), init |-> EmptyMap]
WithInit == [running |-> "c1" :> Cont(Key(<<"gpu", "A", "memory">>) :> 2),
             init    |-> "i1" :> Cont(Key(<<"gpu", "A", "memory">>) :> 3)]
MCPodSpecs == {OneGpu, TwoGpus, WithInit}
(***************************************************************************)
(* Memory only: two GPUs with 4 units each; a one-GPU pod of 2 units and a *)
(* pod whose one container wants 2 units on one GPU and 4 on another.     *)
(***************************************************************************)
MemKey(g) == Key(<<"gpu", g, "memory">>)
MCAllocatableMem == [k \in {MemKey(g) : g \in {"0", "1"}} |-> 4]
SmallPod  == [running |-> "c1" :> Cont(MemKey("A") :> 2), init |-> EmptyMap]
UnevenPod == [running |-> "c1" :> Cont((MemKey("A") :> 2) @@ (MemKey("B") :> 4)), init |-> EmptyMap]
MCPodSpecsUneven == {SmallPod, UnevenPod}

(***************************************************************************)
(* An init container asking for two GPU slots of 2 units of memory each,   *)
(* next to a one-GPU pod.                                                  *)
(***************************************************************************)
InitTwoSlots == [running |-> EmptyMap,
                 init    |-> "i1" :> Cont((MemKey("A") :> 2) @@ (MemKey("B") :> 2))]
MCPodSpecsInit == {SmallPod, InitTwoSlots}
(***************************************************************************)
(* Two boards (gpugrp1) of two GPUs with 4 units of memory each, and pods  *)
(* asking for one GPU of one board.                                        *)
(***************************************************************************)
BoardKey(b, g) == Key(<<"gpugrp1", b, "gpu", g, "memory">>)
MCAllocatableBoards == [k \in {BoardKey(b, g) : b, g \in {"0", "1"}} |-> 4]
BoardPod == [running |-> "c1" :> Cont(BoardKey("A", "0") :> 2), init |-> EmptyMap]
MCPodSpecsBoards == {BoardPod}
=============================================================================
