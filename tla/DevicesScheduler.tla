-------------------------- MODULE DevicesScheduler --------------------------
(***************************************************************************)
(* The multi-device aggregator (devicescheduler.go, DevicesScheduler).     *)
(*                                                                         *)
(* Registry: AddDevicesSchedulerFromPlugins walks the configured plug-in   *)
(* list; AddDevice keeps the synthetic group device (GrpDevice) last.      *)
(*                                                                         *)
(* Score cache: the cluster scheduler schedules one pod at a time          *)
(* (scheduleOne), but runs the predicate PodFitsResources for the nodes of *)
(* that pod in parallel goroutines.  Each goroutine writes score[pod][node]*)
(* and does an unlocked read-compare-write of maxScore[pod].  The          *)
(* priority PodPriority = score / maxScore is read once all predicates of  *)
(* the cycle are done.  PodAllocate clears the pod's entries on success.   *)
(*                                                                         *)
(* The devices' own PodFitsDevice results are inputs: their conjunction is *)
(* any fit and their sum any total in Scores (with no device: fit, 0).     *)
(***************************************************************************)
EXTENDS Integers, SequencesExt, Scorer

CONSTANTS
  Plugins,      (* device schedulers created by the plug-ins             *)
  UsesGroup,    (* UsingGroupScheduler() of each                         *)
  PluginList,   (* the configured plug-in list                           *)
  GrpDevice,    (* the synthetic group device                            *)
  Pods, Nodes,
  Scores,       (* totals the devices' scores may add up to              *)
  NoScore,      (* a missing map entry                                   *)
  NoPod,
  MaxCycles     (* bound: scheduling cycles per pod                      *)

ASSUME RegistryAssumption ==
  /\ UsesGroup \in [Plugins -> BOOLEAN]
  /\ PluginList \in Seq(Plugins)
  /\ GrpDevice \notin Plugins

ASSUME ScoreAssumption ==
  /\ Scores \subseteq Nat
  /\ 0 \in Scores
  /\ NoScore \notin Nat
  /\ NoPod \notin Pods
  /\ MaxCycles \in Nat

VARIABLES
  devices,            (* ds.Devices                                      *)
  hasGroupScheduler,  (* ds.hasGroupScheduler                            *)
  loaded,             (* position in the plug-in list                    *)
  score,              (* ds.score: pod -> node -> total, or NoScore      *)
  maxScore,           (* ds.maxScore: pod -> max total, or NoScore       *)
  cur,                (* the pod in its scheduling cycle, or NoPod       *)
  stage,              (* "filtering" or "committing"                     *)
  pc,                 (* each node's predicate goroutine                 *)
  fit, tot,           (* its totalFit and totalScore                     *)
  rowSeen,            (* whether AssignMap found the pod's inner map     *)
  cycles              (* scheduling cycles started per pod               *)

regVarsImpl == <<devices, hasGroupScheduler, loaded>>
cacheVars == <<score, maxScore, cur, stage, pc, fit, tot, rowSeen, cycles>>
vars == <<regVarsImpl, cacheVars>>

PcValues == {"idle", "eval", "record", "readmax", "writemax", "done"}

Init ==
  /\ devices = <<>>
  /\ hasGroupScheduler = FALSE
  /\ loaded = 0
  /\ score = [p \in Pods |-> [n \in Nodes |-> NoScore]]
  /\ maxScore = [p \in Pods |-> NoScore]
  /\ cur = NoPod
  /\ stage = "filtering"
  /\ pc = [n \in Nodes |-> "idle"]
  /\ fit = [n \in Nodes |-> FALSE]
  /\ tot = [n \in Nodes |-> 0]
  /\ rowSeen = [n \in Nodes |-> FALSE]
  /\ cycles = [p \in Pods |-> 0]

-----------------------------------------------------------------------------
(* Registry *)

(* Fault models of AddDevice.                                              *)
(* The group device is appended for every group-using device (line 44     *)
(* without its !ds.hasGroupScheduler).                                     *)
AddDeviceGrpEachTime(d) ==
  LET inserted == IF ~hasGroupScheduler
                    THEN Append(devices, d)
                    ELSE Append(Append(Front(devices), d), Last(devices))
  IN  /\ devices' = IF UsesGroup[d] THEN Append(inserted, GrpDevice) ELSE inserted
      /\ hasGroupScheduler' = (hasGroupScheduler \/ UsesGroup[d])

(* Every device is appended (line 42 as line 40).                          *)
AddDeviceAppend(d) ==
  LET addGrp == UsesGroup[d] /\ ~hasGroupScheduler
  IN  /\ devices' = IF addGrp THEN Append(Append(devices, d), GrpDevice)
                                ELSE Append(devices, d)
      /\ hasGroupScheduler' = (hasGroupScheduler \/ addGrp)

(* Once there is a group device, new devices go to the front.             *)
AddDeviceAtFront(d) ==
  LET inserted == IF ~hasGroupScheduler THEN Append(devices, d) ELSE <<d>> \o devices
      addGrp   == UsesGroup[d] /\ ~hasGroupScheduler
  IN  /\ devices' = IF addGrp THEN Append(inserted, GrpDevice) ELSE inserted
      /\ hasGroupScheduler' = (hasGroupScheduler \/ addGrp)

(* AddDevice: before the group device if there is one, then append the    *)
(* group device the first time a group-using device is added.            *)
AddDevice(d) ==
  LET inserted == IF ~hasGroupScheduler
                    THEN Append(devices, d)
                    ELSE Append(Append(Front(devices), d), Last(devices))
      addGrp   == UsesGroup[d] /\ ~hasGroupScheduler
  IN  /\ devices' = IF addGrp THEN Append(inserted, GrpDevice) ELSE inserted
      /\ hasGroupScheduler' = (hasGroupScheduler \/ addGrp)

(* One iteration of AddDevicesSchedulerFromPlugins: the plug-in opens,    *)
(* its constructor is found and succeeds, and it is added; or one of the  *)
(* three fails and the plug-in is skipped.                                *)
LoadPlugin ==
  /\ loaded < Len(PluginList)
  /\ loaded' = loaded + 1
  /\ \/ AddDevice(PluginList[loaded + 1])
     \/ UNCHANGED <<devices, hasGroupScheduler>>
  /\ UNCHANGED cacheVars

(* RemoveAll has no caller in the scheduler; it is a reset between        *)
(* scheduling cycles.                                                     *)
RemoveAll ==
  /\ cur = NoPod
  /\ devices' = <<>>
  /\ hasGroupScheduler' = FALSE
  /\ score' = [p \in Pods |-> [n \in Nodes |-> NoScore]]
  /\ maxScore' = [p \in Pods |-> NoScore]
  /\ UNCHANGED <<loaded, cur, stage, pc, fit, tot, rowSeen, cycles>>

-----------------------------------------------------------------------------
(* Score cache *)

(* A missing maxScore entry reads as 0.0.                                *)
ReadScore(s) == IF s = NoScore THEN 0 ELSE s

(* The scheduler takes the next pod once the plug-ins are registered.    *)
StartCycle(p) ==
  /\ loaded = Len(PluginList)
  /\ cur = NoPod
  /\ cycles[p] < MaxCycles
  /\ cur' = p
  /\ stage' = "filtering"
  /\ pc' = [n \in Nodes |-> "eval"]
  /\ cycles' = [cycles EXCEPT ![p] = @ + 1]
  /\ UNCHANGED <<regVarsImpl, score, maxScore, fit, tot, rowSeen>>

(* The Go map ds.score[p] exists: some node's entry is in it.  A row is  *)
(* only ever made together with an entry, and removed as a whole.         *)
HasRow(p) == \E m \in Nodes : score[p][m] # NoScore

(* PodFitsResources, lines 105-117: each device's PodFitsDevice, then     *)
(* AssignMap's unlocked check whether the pod's inner map exists.         *)
Evaluate(n) ==
  /\ pc[n] = "eval"
  /\ \E f \in BOOLEAN, s \in Scores :
       /\ devices = <<>> => f /\ s = 0
       /\ fit' = [fit EXCEPT ![n] = f]
       /\ tot' = [tot EXCEPT ![n] = s]
  /\ rowSeen' = [rowSeen EXCEPT ![n] = HasRow(cur)]
  /\ pc' = [pc EXCEPT ![n] = "record"]
  /\ UNCHANGED <<regVarsImpl, score, maxScore, cur, stage, cycles>>

(* Line 117 after its check, and lines 118-119 and 123-125: the inner map *)
(* is made anew if the check found none (replacing one another goroutine  *)
(* made since), and the node's entry is the total or 0.                  *)
Record(n) ==
  /\ pc[n] = "record"
  /\ LET v == IF fit[n] THEN tot[n] ELSE 0
     IN  score' = IF rowSeen[n]
                    THEN [score EXCEPT ![cur][n] = v]
                    ELSE [score EXCEPT ![cur] = [m \in Nodes |-> IF m = n THEN v ELSE NoScore]]
  /\ pc' = [pc EXCEPT ![n] = IF fit[n] THEN "readmax" ELSE "done"]
  /\ UNCHANGED <<regVarsImpl, maxScore, cur, stage, fit, tot, rowSeen, cycles>>

(* Line 120: the comparison reads maxScore without a lock.              *)
CompareMax(n) ==
  /\ pc[n] = "readmax"
  /\ pc' = [pc EXCEPT ![n] = IF tot[n] > ReadScore(maxScore[cur])
                                THEN "writemax" ELSE "done"]
  /\ UNCHANGED <<regVarsImpl, score, maxScore, cur, stage, fit, tot, rowSeen, cycles>>

(* Line 121: the write, some time after the read.                        *)
WriteMax(n) ==
  /\ pc[n] = "writemax"
  /\ maxScore' = [maxScore EXCEPT ![cur] = tot[n]]
  /\ pc' = [pc EXCEPT ![n] = "done"]
  /\ UNCHANGED <<regVarsImpl, score, cur, stage, fit, tot, rowSeen, cycles>>

PredicatesDone == cur # NoPod /\ stage = "filtering" /\ \A n \in Nodes : pc[n] = "done"

(* PodPriority, lines 132-147.                                           *)
PodPriority(p, n) ==
  IF maxScore[p] = NoScore \/ score[p][n] = NoScore \/ maxScore[p] = 0
    THEN QZero
    ELSE Frac(score[p][n], maxScore[p])

(* Priorities are computed and a node the device predicate admitted is   *)
(* chosen; the pod goes on to PodAllocate.                               *)
SelectHost ==
  /\ PredicatesDone
  /\ \E n \in Nodes : fit[n]
  /\ stage' = "committing"
  /\ UNCHANGED <<regVarsImpl, score, maxScore, cur, pc, fit, tot, rowSeen, cycles>>

(* Some predicate rejects every node: the cycle ends, the pod's entries  *)
(* stay in the tables.                                                   *)
Unschedulable ==
  /\ PredicatesDone
  /\ cur' = NoPod
  /\ pc' = [n \in Nodes |-> "idle"]
  /\ UNCHANGED <<regVarsImpl, score, maxScore, stage, fit, tot, rowSeen, cycles>>

(* RemovePodFromScore, lines 149-158.                                    *)
RemovePodFromScore(p) ==
  /\ score' = [score EXCEPT ![p] = [n \in Nodes |-> NoScore]]
  /\ maxScore' = [maxScore EXCEPT ![p] = NoScore]

(* PodAllocate, lines 161-170: every device's PodAllocate succeeds and   *)
(* the entries are removed, or one fails and the error is returned.      *)
PodAllocate ==
  /\ cur # NoPod /\ stage = "committing"
  /\ \/ RemovePodFromScore(cur)
     \/ UNCHANGED <<score, maxScore>>
  /\ cur' = NoPod
  /\ pc' = [n \in Nodes |-> "idle"]
  /\ UNCHANGED <<regVarsImpl, stage, fit, tot, rowSeen, cycles>>

Next ==
  \/ LoadPlugin
  \/ RemoveAll
  \/ \E p \in Pods : StartCycle(p)
  \/ \E n \in Nodes : Evaluate(n) \/ Record(n) \/ CompareMax(n) \/ WriteMax(n)
  \/ SelectHost
  \/ Unschedulable
  \/ PodAllocate

Spec == Init /\ [][Next]_vars

-----------------------------------------------------------------------------
TypeOK ==
  /\ devices \in Seq(Plugins \cup {GrpDevice})
  /\ Len(devices) <= Len(PluginList) + 1
  /\ hasGroupScheduler \in BOOLEAN
  /\ loaded \in 0..Len(PluginList)
  /\ score \in [Pods -> [Nodes -> Scores \cup {NoScore}]]
  /\ maxScore \in [Pods -> Scores \cup {NoScore}]
  /\ cur \in Pods \cup {NoPod}
  /\ stage \in {"filtering", "committing"}
  /\ pc \in [Nodes -> PcValues]
  /\ fit \in [Nodes -> BOOLEAN]
  /\ tot \in [Nodes -> Scores]
  /\ rowSeen \in [Nodes -> BOOLEAN]
  /\ cycles \in [Pods -> 0..MaxCycles]

-----------------------------------------------------------------------------
(* The plug-ins the list holds, the group device left out.               *)
Registered == IF hasGroupScheduler THEN Front(devices) ELSE devices

(***************************************************************************)
(* Composition rule (spec 4.3): the group device is in the list exactly   *)
(* when a group-using device was added since the last RemoveAll, and then *)
(* it is the last element and appears once, whatever order group-using    *)
(* and other plug-ins are loaded in (AddDevice's insert-before-last).     *)
(***************************************************************************)
DeviceListWellFormed ==
  /\ hasGroupScheduler = (\E i \in 1..Len(Registered) : UsesGroup[Registered[i]])
  /\ hasGroupScheduler => devices # <<>> /\ Last(devices) = GrpDevice
  /\ \A i \in 1..Len(Registered) : Registered[i] # GrpDevice

(***************************************************************************)
(* The device list implements the registry: without the group device it  *)
(* is exactly the plug-ins that loaded, in the order of the configured    *)
(* list (PodFitsResources and PodAllocate consult them in this order).    *)
(***************************************************************************)
Reg == INSTANCE DeviceRegistry WITH registered <- Registered, loaded <- loaded
RegistryRefined == Reg!RegSpec

(***************************************************************************)
(* PodPriority is in [0, 1] (spec 4.3): once the predicates of the pod's  *)
(* cycle have run on every node, no node's score exceeds maxScore.  The   *)
(* parallel predicate goroutines update maxScore by an unlocked           *)
(* read-compare-write (lines 120-121).                                    *)
(***************************************************************************)
PriorityAtMostOne ==
  PredicatesDone => \A n \in Nodes : ~QGt(PodPriority(cur, n), Frac(1, 1))

(***************************************************************************)
(* Spec invariant 5 and scenario S6: when the device predicate admits a   *)
(* node with a positive score in this cycle, some node has priority 1.    *)
(* maxScore survives a cycle that ends without a successful PodAllocate.  *)
(***************************************************************************)
PriorityNormalised ==
  PredicatesDone /\ (\E n \in Nodes : fit[n] /\ tot[n] > 0) =>
    \E n \in Nodes : QEq(PodPriority(cur, n), Frac(1, 1))

(***************************************************************************)
(* PodPriority reads each node's score from this cycle (spec 4.3: the     *)
(* priority is the node's score over the best): once every node's         *)
(* predicate goroutine has finished, the pod's entry for each node is what *)
(* that node's PodFitsResources found in this cycle, its total or 0.  Two  *)
(* goroutines that both find no ds.score[pod] at line 117 both make one,   *)
(* and the later replaces the earlier's row with its entry in it.          *)
(***************************************************************************)
ScoresFresh ==
  PredicatesDone => \A n \in Nodes : score[cur][n] = IF fit[n] THEN tot[n] ELSE 0

(***************************************************************************)
(* Spec section 5: the score tables are guarded so that no two predicate   *)
(* goroutines write them at once.  Record (lines 117-125) inserts into the *)
(* Go maps ds.score and ds.score[pod] with no lock, and the Go runtime     *)
(* aborts the scheduler on concurrent map writes: at most one goroutine    *)
(* may be at that write.                                                   *)
(***************************************************************************)
ScoreWritesExclusive ==
  \A n, m \in Nodes : pc[n] = "record" /\ pc[m] = "record" => n = m

=============================================================================
