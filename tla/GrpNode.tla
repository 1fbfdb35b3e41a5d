------------------------------ MODULE GrpNode ------------------------------
(***************************************************************************)
(* One node under the group device scheduler (GrpDevice, grpdevice.go):   *)
(* pods pass the predicate, are allocated (PodAllocate re-runs the fit and *)
(* fills AllocateFrom), their usage is taken into the node's Used when the *)
(* scheduler cache adds them, and returned when they are deleted.          *)
(*                                                                         *)
(* A pod's predicate result may be stale when it is committed: other pods  *)
(* are committed in between (spec: CommitFailedAfterFit).  Commit and take *)
(* are one scheduling step: one pod at a time is between PodAllocate and   *)
(* the take.  Pod deletions (Return) arrive from the cache at any time.    *)
(***************************************************************************)
EXTENDS GrpAlloc

CONSTANTS
  Allocatable,  (* NodeInfo.Allocatable: resource key -> capacity         *)
  Pods,         (* pod names                                             *)
  PodSpecs      (* the pods' container requests a pod may be created with *)

ASSUME AllocatableAssumption ==
  \A a \in DOMAIN Allocatable : Allocatable[a] \in Nat \ {0}

VARIABLES
  used,     (* NodeInfo.Used                                             *)
  phase,    (* where each pod is in its scheduling life                  *)
  podSpec   (* each pod's PodInfo as its annotations carry it            *)

vars == <<used, phase, podSpec>>

Phases == {"pending", "fitted", "allocated", "bound"}

(* PodClearAllocateFrom: the pod as the predicate sees it (annotations invalidated). *)
PodClearAllocateFrom(spec) ==
  [running |-> [c \in DOMAIN spec.running |-> [spec.running[c] EXCEPT !.af = Nil]],
   init    |-> [c \in DOMAIN spec.init |-> [spec.init[c] EXCEPT !.af = Nil]]]

Committing == {p \in Pods : phase[p] = "allocated"}

Init ==
  /\ used = [a \in DOMAIN Allocatable |-> 0]
  /\ phase = [p \in Pods |-> "pending"]
  /\ podSpec \in [Pods -> PodSpecs]

(***************************************************************************)
(* GrpDevice.PodFitsDevice with fillAllocateFrom = false, on a pod whose   *)
(* annotations were invalidated: the pod enters the scheduling cycle.     *)
(***************************************************************************)
Filter(p) ==
  /\ phase[p] = "pending"
  /\ PodFitsGroupConstraints(Allocatable, used, PodClearAllocateFrom(podSpec[p]), FALSE).found
  /\ phase' = [phase EXCEPT ![p] = "fitted"]
  /\ UNCHANGED <<used, podSpec>>

(* Fault model: PodAllocate writes the AllocateFrom maps back and commits  *)
(* without looking at whether the re-run fit succeeded.                   *)
PodAllocateIgnoringFit(p) ==
  /\ phase[p] = "fitted"
  /\ Committing = {}
  /\ phase' = [phase EXCEPT ![p] = "allocated"]
  /\ podSpec' = [podSpec EXCEPT ![p] =
                   PodFitsGroupConstraints(Allocatable, used, podSpec[p], TRUE).spec]
  /\ UNCHANGED used

(***************************************************************************)
(* GrpDevice.PodAllocate: re-run the fit with AllocateFrom filled in; if   *)
(* the pod no longer fits, the error sends it back to the queue.           *)
(***************************************************************************)
CommitFit(p, r) ==
  \/ /\ r.found
     /\ phase' = [phase EXCEPT ![p] = "allocated"]
     /\ podSpec' = [podSpec EXCEPT ![p] = r.spec]
  \/ /\ ~r.found
     /\ phase' = [phase EXCEPT ![p] = "pending"]
     /\ UNCHANGED podSpec

PodAllocate(p) ==
  /\ phase[p] = "fitted"
  /\ Committing = {}
  /\ CommitFit(p, PodFitsGroupConstraints(Allocatable, used, podSpec[p], TRUE))
  /\ UNCHANGED used

(***************************************************************************)
(* GrpDevice.TakePodResources: the cache adds the allocated pod.           *)
(***************************************************************************)
TakePodResources(p) ==
  /\ phase[p] = "allocated"
  /\ used' = TakePodGroupResource(Allocatable, used, podSpec[p])
  /\ phase' = [phase EXCEPT ![p] = "bound"]
  /\ UNCHANGED podSpec

(* Fault model: the cache removes a pod whose take it has not seen yet.     *)
ReturnPodResourcesUntaken(p) ==
  /\ phase[p] \in {"allocated", "bound"}
  /\ used' = ReturnPodGroupResource(Allocatable, used, podSpec[p])
  /\ phase' = [phase EXCEPT ![p] = "pending"]
  /\ podSpec' = [podSpec EXCEPT ![p] = PodClearAllocateFrom(@)]

(* Fault model: the pod is read with its annotations invalidated           *)
(* (GetPodAndNode(pod, node, true)), so AllocateFrom is gone.              *)
ReturnPodResourcesInvalidated(p) ==
  /\ phase[p] = "bound"
  /\ used' = ReturnPodGroupResource(Allocatable, used, PodClearAllocateFrom(podSpec[p]))
  /\ phase' = [phase EXCEPT ![p] = "pending"]
  /\ podSpec' = [podSpec EXCEPT ![p] = PodClearAllocateFrom(@)]

(***************************************************************************)
(* GrpDevice.ReturnPodResources: the cache removes a deleted pod; the pod  *)
(* may be created again with the same requests.                            *)
(***************************************************************************)
ReturnPodResources(p) ==
  /\ phase[p] = "bound"
  /\ used' = ReturnPodGroupResource(Allocatable, used, podSpec[p])
  /\ phase' = [phase EXCEPT ![p] = "pending"]
  /\ podSpec' = [podSpec EXCEPT ![p] = PodClearAllocateFrom(@)]

Next ==
  \E p \in Pods :
    \/ Filter(p)
    \/ PodAllocate(p)
    \/ TakePodResources(p)
    \/ ReturnPodResources(p)

Spec == Init /\ [][Next]_vars

-----------------------------------------------------------------------------
TypeOK ==
  /\ used \in [DOMAIN Allocatable -> Nat]
  /\ phase \in [Pods -> Phases]
  /\ \A p \in Pods : DOMAIN podSpec[p] = {"running", "init"}

(***************************************************************************)
(* The usage one pod adds to an empty node, as TakePodResources counts it. *)
(***************************************************************************)
Zero == [a \in DOMAIN Allocatable |-> 0]
PodUsage(p) == TakePodGroupResource(Allocatable, Zero, podSpec[p])
Bound == {p \in Pods : phase[p] = "bound"}

(***************************************************************************)
(* Spec invariant 2: after any sequence of takes and returns the node's    *)
(* Used stays within Allocatable on every key (predicate, PodAllocate and  *)
(* TakePodResources must agree on what fits).                              *)
(***************************************************************************)
UsedWithinAllocatable ==
  \A a \in DOMAIN Allocatable : 0 <= used[a] /\ used[a] <= Allocatable[a]

(***************************************************************************)
(* Spec invariant 3, generalised: however takes and returns of different   *)
(* pods interleave, Used is exactly the sum of what the bound pods take    *)
(* (ReturnPodResources undoes exactly what TakePodResources did).          *)
(***************************************************************************)
UsedIsSumOfBoundPods ==
  \A a \in DOMAIN Allocatable :
    used[a] = MapThenSumSet(LAMBDA p : PodUsage(p)[a], Bound)

(***************************************************************************)
(* Spec invariant 1 and scenario S5: for every container of an allocated   *)
(* pod, AllocateFrom maps each requirement to an allocatable key with the  *)
(* same group names and leaf, and two requirements in the same            *)
(* requirement subgroup land in the same allocatable subgroup.            *)
(***************************************************************************)
IndexPos(k) == {i \in Len(DeviceGroupPrefix) + 1 .. Len(k) - 1 :
                  (i - Len(DeviceGroupPrefix)) % 2 = 0}
SameShape(r, a) ==
  /\ Len(a) = Len(r)
  /\ \A i \in 1..Len(r) \ IndexPos(r) : a[i] = r[i]
SameSubgroup(r1, r2, i) == Len(r1) > i /\ Len(r2) > i /\ SubSeq(r1, 1, i) = SubSeq(r2, 1, i)

ContainerAllocationValid(cont) ==
  cont.af # Nil =>
    /\ DOMAIN cont.af = DOMAIN cont.req
    /\ \A r \in DOMAIN cont.af :
         /\ cont.af[r] \in DOMAIN Allocatable
         /\ SameShape(r, cont.af[r])
    /\ \A r1, r2 \in DOMAIN cont.af : \A i \in IndexPos(r1) :
         SameSubgroup(r1, r2, i) => SameSubgroup(cont.af[r1], cont.af[r2], i)

AllocationsValid ==
  \A p \in Pods : phase[p] \in {"allocated", "bound"} =>
    /\ \A c \in DOMAIN podSpec[p].running : ContainerAllocationValid(podSpec[p].running[c])
    /\ \A c \in DOMAIN podSpec[p].init : ContainerAllocationValid(podSpec[p].init[c])

(***************************************************************************)
(* Reference for the search (spec section 1: decide whether a mapping     *)
(* exists): a pod with running containers only can be placed if some      *)
(* AllocateFrom of the right shape, keeping every subgroup together, fits  *)
(* every key's capacity on top of the node's Used.                         *)
(***************************************************************************)
RunPairs(spec) ==
  UNION {{<<c, r>> : r \in DOMAIN spec.running[c].req} : c \in DOMAIN spec.running}
Placeable(spec) ==
  /\ DOMAIN spec.init = {}
  /\ \E f \in [RunPairs(spec) -> DOMAIN Allocatable] :
       /\ \A x \in RunPairs(spec) : SameShape(x[2], f[x])
       /\ \A x, y \in RunPairs(spec) : \A i \in IndexPos(x[2]) :
            x[1] = y[1] /\ SameSubgroup(x[2], y[2], i) => SameSubgroup(f[x], f[y], i)
       /\ \A a \in DOMAIN Allocatable :
            used[a] + MapThenSumSet(LAMBDA x : spec.running[x[1]].req[x[2]],
                                    {x \in RunPairs(spec) : f[x] = a}) <= Allocatable[a]

(***************************************************************************)
(* The predicate admits every pending pod that the reference can place.    *)
(***************************************************************************)
FilterComplete ==
  \A p \in Pods :
    phase[p] = "pending" /\ Placeable(podSpec[p]) =>
      PodFitsGroupConstraints(Allocatable, used, PodClearAllocateFrom(podSpec[p]), FALSE).found

(***************************************************************************)
(* TakePodResources charges the node exactly the usage the allocator       *)
(* computed for the same AllocateFrom (its score-only path): what the      *)
(* predicate admitted is what the cache accounts.                          *)
(***************************************************************************)
TakeAgreesWithAllocator ==
  [][\A p \in Pods : TakePodResources(p) =>
       used' = PodFitsGroupConstraints(Allocatable, used, podSpec[p], FALSE).node]_vars

(***************************************************************************)
(* Glossary, used group: a path in UsedGroups is a location chosen for an  *)
(* earlier container of the pod, i.e. a prefix of one of its AllocateFrom  *)
(* values.                                                                 *)
(***************************************************************************)
ChosenPaths(spec) ==
  LET conts == {spec.running[c] : c \in DOMAIN spec.running} \cup {spec.init[c] : c \in DOMAIN spec.init}
      targets == UNION {Range(k.af) : k \in {x \in conts : x.af # Nil}}
  IN  UNION {{SubSeq(a, 1, n) : n \in 1..Len(a)} : a \in targets}
UsedGroupsWithin(r) == r.found => r.ug \subseteq ChosenPaths(r.spec)
UsedGroupsChosen ==
  \A p \in Pods : phase[p] = "pending" =>
    UsedGroupsWithin(PodFitsGroupConstraints(Allocatable, used, PodClearAllocateFrom(podSpec[p]), TRUE))

=============================================================================
