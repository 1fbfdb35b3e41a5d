------------------------------ MODULE GrpAlloc ------------------------------
(***************************************************************************)
(* The hierarchical group allocator of device-scheduler/grpalloc          *)
(* (grpallocate.go), as pure operators.                                   *)
(*                                                                         *)
(* A resource key is a '/'-separated path; here it is the sequence of its  *)
(* segments, and the concatenation base + '/' + seg is base \o <<seg>>.  *)
(* The subgroup regex of findSubGroups (base, then three slash-separated   *)
(* captures) becomes: the key extends                                      *)
(* base by at least three segments; its first two are the group name and  *)
(* index, the rest is the tail.  (The Go regex is unanchored; every key    *)
(* here starts with the base it is matched against.)                       *)
(*                                                                         *)
(* The allocator's mutable GrpAllocator struct is split in three:          *)
(*   ctx  the read-only fields (RequiredResource, AllocResource,           *)
(*        InitContainer, PreferUsed);                                      *)
(*   grp  the per-group fields (ReqBaseGroupName, GrpRequiredResource,     *)
(*        AllocBaseGroupPrefix, GrpAllocResource);                         *)
(*   st   the fields cloneGroup copies and takeGroup moves (AllocateFrom,  *)
(*        PodResource, NodeResource, Score).                               *)
(* UsedGroups is one map shared by every clone; it is threaded through the *)
(* search in the order the code writes it, as the set ug.                  *)
(***************************************************************************)
EXTENDS Integers, Sequences, FiniteSets, SequencesExt, Functions, TLC, Scorer

CONSTANTS
  DeviceGroupPrefix, (* types.DeviceGroupPrefix as a sequence of segments *)
  SegOrder,          (* every path segment and container name, in         *)
                     (* ascending string order (for SortedStringKeys)     *)
  Nil                (* a nil AllocateFrom map                            *)

(* containerFitsGroupConstraints panics unless the prefix splits at a '/'. *)
ASSUME PrefixAssumption == Len(DeviceGroupPrefix) >= 2

EmptyMap == [x \in {} |-> 0]
NoKey == <<>>   (* the empty string a missing AllocateFrom entry reads as *)

(***************************************************************************)
(* utils.SortedStringKeys: the keys in ascending order.                    *)
(***************************************************************************)
Rank(s) == CHOOSE i \in DOMAIN SegOrder : SegOrder[i] = s
SortedStringKeys(S) == SetToSortSeq(S, LAMBDA a, b : Rank(a) < Rank(b))

(***************************************************************************)
(* findSubGroups: the requirement (or allocatable) elements of a group     *)
(* that lie in a subgroup of base, as grpName -> grpIndex -> tail -> key.  *)
(***************************************************************************)
IsSubKey(base, e) ==
  /\ Len(e) >= Len(base) + 3
  /\ SubSeq(e, 1, Len(base)) = base
SubName(base, e)  == e[Len(base) + 1]
SubIndex(base, e) == e[Len(base) + 2]
SubTail(base, e)  == SubSeq(e, Len(base) + 3, Len(e))

findSubGroups(base, grp) ==
  LET elems    == {e \in Range(grp) : IsSubKey(base, e)}
      In(g, i) == {e \in elems : SubName(base, e) = g /\ SubIndex(base, e) = i}
  IN  [g \in {SubName(base, e) : e \in elems} |->
        [i \in {SubIndex(base, e) : e \in {x \in elems : SubName(base, x) = g}} |->
          [t \in {SubTail(base, e) : e \in In(g, i)} |->
             CHOOSE e \in In(g, i) : SubTail(base, e) = t]]]

LocRes(grp, loc) == IF loc \in DOMAIN grp.grpAlloc THEN grp.grpAlloc[loc] ELSE EmptyMap

(***************************************************************************)
(* resourceAvailable: every leaf requirement of the group must have its    *)
(* counterpart under the location and fit there, one request at a time.   *)
(* Leaves that fit are written through even when another one fails.       *)
(* scored maps each leaf with a counterpart to its scorer result; each     *)
(* result below is computed once and handed on as a parameter.            *)
(***************************************************************************)
TakeLeaves(grp, locRes, leaves, st, scored) ==
  LET fitting   == {k \in DOMAIN scored : scored[k].fits}
      taken     == {locRes[k] : k \in fitting}
      leafOf(a) == CHOOSE k \in fitting : locRes[k] = a
  IN  [found |-> fitting = leaves,
       st    |-> [af    |-> [r \in {grp.grpReq[x] : x \in fitting} |->
                               locRes[CHOOSE x \in fitting : grp.grpReq[x] = r]] @@ st.af,
                  pod   |-> [a \in DOMAIN st.pod |->
                               IF a \in taken THEN scored[leafOf(a)].pod ELSE st.pod[a]],
                  node  |-> [a \in DOMAIN st.node |->
                               IF a \in taken THEN scored[leafOf(a)].node ELSE st.node[a]],
                  score |-> st.score]]

resourceAvailable(ctx, grp, loc, st) ==
  LET locRes == LocRes(grp, loc)
      leaves == {k \in DOMAIN grp.grpReq : ~IsSubKey(grp.reqBase, grp.grpReq[k])}
  IN  TakeLeaves(grp, locRes, leaves, st,
        [k \in leaves \cap DOMAIN locRes |->
           LeftoverScore(ctx.alloc[locRes[k]], st.pod[locRes[k]], st.node[locRes[k]],
                         ctx.req[grp.grpReq[k]], ctx.init)])

(***************************************************************************)
(* findScoreAndUpdate: rescore a location once with, for every key under   *)
(* it, the whole vector of requests the group's AllocateFrom sends there;  *)
(* the location's score is the mean over its keys.  scored maps every key  *)
(* under the location to its scorer result.                                *)
(***************************************************************************)
ApplyScores(st, mapped, scored) ==
  LET fitting == {a \in DOMAIN scored : scored[a].fits}
  IN  [found |-> mapped /\ fitting = DOMAIN scored,
       st    |-> [af    |-> st.af,
                  pod   |-> [a \in DOMAIN st.pod |->
                               IF a \in fitting THEN scored[a].pod ELSE st.pod[a]],
                  node  |-> [a \in DOMAIN st.node |->
                               IF a \in fitting THEN scored[a].node ELSE st.node[a]],
                  score |-> QDiv(MapThenFoldSet(QAdd, QZero, LAMBDA a : scored[a].score,
                                                LAMBDA S : CHOOSE x \in S : TRUE, fitting),
                                 Cardinality(DOMAIN scored))]]

findScoreAndUpdate(ctx, grp, loc, st) ==
  LET reqs    == Range(grp.grpReq)
      afOf(r) == IF r \in DOMAIN st.af THEN st.af[r] ELSE NoKey
  IN  ApplyScores(st, \A r \in reqs : afOf(r) \in DOMAIN ctx.alloc,
        [a \in Range(LocRes(grp, loc)) |->
           LeftoverScore(ctx.alloc[a], st.pod[a], st.node[a],
                         MapThenSumSet(LAMBDA r : ctx.req[r], {r \in reqs : afOf(r) = a}),
                         ctx.init)])

(***************************************************************************)
(* The tie-break of allocateGroup: may candidate r (at allocatable path    *)
(* name, UsedGroups now ug) replace the best one so far?                   *)
(***************************************************************************)
TakeNew(ctx, best, maxIsUsed, score, isUsed) ==
  IF ~ctx.prefer
    THEN QGeq(score, best.score)
    ELSE IF maxIsUsed
           THEN isUsed /\ QGeq(score, best.score)
           ELSE isUsed \/ QGeq(score, best.score)

(* One location of allocateGroup's loop, given its outcome r.             *)
ChooseLocation(ctx, acc, name, r) ==
  LET isUsed == name \in r.ug
      take   == r.found /\ TakeNew(ctx, acc.best, acc.maxIsUsed, r.st.score, isUsed)
  IN  [any       |-> acc.any \/ take,
       best      |-> IF take THEN r.st ELSE acc.best,
       maxIsUsed |-> IF take THEN isUsed ELSE acc.maxIsUsed,
       name      |-> IF take THEN name ELSE acc.name,
       ug        |-> r.ug]

(* After the loop: take the winner and mark its path used.               *)
GroupChosen(res) ==
  [found |-> res.any,
   st    |-> res.best,
   ug    |-> IF res.any THEN res.ug \cup {res.name} ELSE res.ug]

(* One requirement subgroup of allocateSubGroups, given its outcome r.    *)
SubGroupTaken(acc, r) ==
  [found |-> acc.found /\ r.found,
   st    |-> IF r.found THEN r.st ELSE acc.st,
   ug    |-> r.ug]

(* The end of allocateGroupAt, given the leaves' verdict and the          *)
(* subgroups' outcome sg: rescore from the location's entry state.        *)
LocationRescored(ctx, grp, loc, st, leavesFound, sg) ==
  IF leavesFound /\ sg.found
    THEN LET fs == findScoreAndUpdate(ctx, grp, loc,
                     [sg.st EXCEPT !.pod = st.pod, !.node = st.node, !.score = st.score])
         IN  [found |-> fs.found, st |-> fs.st, ug |-> sg.ug]
    ELSE [found |-> FALSE, st |-> sg.st, ug |-> sg.ug]

RECURSIVE allocateGroup(_, _, _, _), allocateGroupAt(_, _, _, _, _, _),
          allocateSubGroups(_, _, _, _, _, _, _), SubGroupsAt(_, _, _, _, _, _, _)

(***************************************************************************)
(* createSubGroup then allocateGroup for every requirement subgroup, in     *)
(* sorted (name, index) order; a subgroup that is found is taken into the  *)
(* location's state, one that is not marks the location failed.           *)
(***************************************************************************)
allocateSubGroups(ctx, grp, loc, subReq, subAlloc, st, ug) ==
  LET pairs == FoldLeft(LAMBDA acc, g : acc \o [n \in 1..Len(SortedStringKeys(DOMAIN subReq[g])) |->
                                                  <<g, SortedStringKeys(DOMAIN subReq[g])[n]>>],
                        <<>>, SortedStringKeys(DOMAIN subReq))
      step(acc, gi) ==
        SubGroupTaken(acc,
          allocateGroup(ctx,
            [reqBase   |-> grp.reqBase \o gi,
             grpReq    |-> subReq[gi[1]][gi[2]],
             allocBase |-> grp.allocBase \o <<loc, gi[1]>>,
             grpAlloc  |-> IF gi[1] \in DOMAIN subAlloc THEN subAlloc[gi[1]] ELSE EmptyMap],
            [acc.st EXCEPT !.score = QZero], acc.ug))
  IN  FoldLeft(step, [found |-> TRUE, st |-> st, ug |-> ug], pairs)

(***************************************************************************)
(* allocateGroupAt: leaves, then subgroups (tried even when a leaf has     *)
(* failed), then on success reset the usage to the location's entry state  *)
(* and rescore the location as a whole.  SubGroupsAt continues from the   *)
(* leaves' outcome ra.                                                     *)
(***************************************************************************)
SubGroupsAt(ctx, grp, loc, subReq, st, ug, ra) ==
  LocationRescored(ctx, grp, loc, st, ra.found,
    allocateSubGroups(ctx, grp, loc, subReq,
                      findSubGroups(grp.allocBase \o <<loc>>, LocRes(grp, loc)), ra.st, ug))

allocateGroupAt(ctx, grp, loc, subReq, st, ug) ==
  SubGroupsAt(ctx, grp, loc, subReq, st, ug, resourceAvailable(ctx, grp, loc, st))

(***************************************************************************)
(* allocateGroup: try every allocatable location in sorted order on a      *)
(* clone of the group's state, keep the winner of the tie-break, and mark  *)
(* the winner's path used.                                                 *)
(***************************************************************************)
allocateGroup(ctx, grp, st, ug) ==
  IF DOMAIN grp.grpReq = {}
    THEN [found |-> TRUE, st |-> st, ug |-> ug]
    ELSE
      LET subReq == findSubGroups(grp.reqBase, grp.grpReq)
          step(acc, loc) ==
            ChooseLocation(ctx, acc, grp.allocBase \o <<loc>>,
                           allocateGroupAt(ctx, grp, loc, subReq, st, acc.ug))
      IN  GroupChosen(FoldLeft(step, [any |-> FALSE, best |-> st, maxIsUsed |-> FALSE,
                                      name |-> NoKey, ug |-> ug],
                               SortedStringKeys(DOMAIN grp.grpAlloc)))

(***************************************************************************)
(* containerFitsGroupConstraints: search (no AllocateFrom yet), score only *)
(* (AllocateFrom already set), or nothing to do (no requests).             *)
(* A container is [req |-> DevRequests, af |-> AllocateFrom or Nil].      *)
(***************************************************************************)
Searched(r, bSetAllocateFrom, af) ==
  [found |-> r.found, score |-> r.st.score,
   af |-> IF bSetAllocateFrom THEN r.st.af ELSE af,
   pod |-> r.st.pod, node |-> r.st.node, ug |-> r.ug]
Rescored(r, af, ug) ==
  [found |-> r.found, score |-> r.st.score, af |-> af,
   pod |-> r.st.pod, node |-> r.st.node, ug |-> ug]

containerFitsGroupConstraints(cont, initContainer, allocatable, podResource, nodeResource, usedGroups, bPreferUsed, bSetAllocateFrom) ==
  LET grpName == Last(DeviceGroupPrefix)
      ctx == [req |-> cont.req, alloc |-> allocatable,
              init |-> initContainer, prefer |-> bPreferUsed]
      top == [reqBase   |-> DeviceGroupPrefix,
              grpReq    |-> [k \in DOMAIN cont.req |-> k],
              allocBase |-> Front(DeviceGroupPrefix),
              grpAlloc  |-> IF DOMAIN allocatable = {} THEN EmptyMap
                            ELSE grpName :> [k \in DOMAIN allocatable |-> k]]
      st0 == [af |-> EmptyMap, pod |-> podResource, node |-> nodeResource, score |-> QZero]
  IN  IF cont.af = Nil \/ (DOMAIN cont.af = {} /\ DOMAIN cont.req # {})
        THEN Searched(allocateGroup(ctx, top, st0, usedGroups), bSetAllocateFrom, cont.af)
      ELSE IF DOMAIN cont.req # {}
        THEN Rescored(findScoreAndUpdate(ctx, top, grpName, [st0 EXCEPT !.af = cont.af]),
                      cont.af, usedGroups)
      ELSE [found |-> TRUE, score |-> QZero, af |-> cont.af,
            pod |-> podResource, node |-> nodeResource, ug |-> usedGroups]

(***************************************************************************)
(* PodFitsGroupConstraints: running containers in sorted order, then init  *)
(* containers, threading pod and node usage and one UsedGroups set.  The   *)
(* pod's score is the score of the last running container that fits.      *)
(* A pod is [running |-> name -> container, init |-> name -> container].   *)
(* Returns the pod with the AllocateFrom maps the calls wrote back.        *)
(***************************************************************************)
ContainerDone(isInit, acc, c, conts, r) ==
  LET conts2 == [conts EXCEPT ![c].af = r.af]
  IN  [found |-> acc.found /\ r.found,
       score |-> IF r.found /\ ~isInit THEN r.score ELSE acc.score,
       pod   |-> r.pod,
       node  |-> r.node,
       ug    |-> r.ug,
       spec  |-> IF isInit THEN [acc.spec EXCEPT !.init = conts2]
                           ELSE [acc.spec EXCEPT !.running = conts2]]

ContainerStep(allocatable, allocating, isInit, acc, c) ==
  LET conts == IF isInit THEN acc.spec.init ELSE acc.spec.running
  IN  ContainerDone(isInit, acc, c, conts,
        containerFitsGroupConstraints(conts[c], isInit, allocatable,
                                      acc.pod, acc.node, acc.ug, TRUE, allocating))

PodFitsGroupConstraints(allocatable, used, spec, allocating) ==
  LET start == [found |-> TRUE, score |-> QZero,
                pod |-> [a \in DOMAIN allocatable |-> 0], node |-> used,
                ug |-> {}, spec |-> spec]
  IN  FoldLeft(LAMBDA acc, c : ContainerStep(allocatable, allocating, TRUE, acc, c),
               FoldLeft(LAMBDA acc, c : ContainerStep(allocatable, allocating, FALSE, acc, c),
                        start, SortedStringKeys(DOMAIN spec.running)),
               SortedStringKeys(DOMAIN spec.init))

(***************************************************************************)
(* ComputePodGroupResources: replay the scorer over every AllocateFrom     *)
(* entry, one request at a time, running containers first; on removal     *)
(* subtract the pod's usage from n.Used.  Go iterates these maps in random *)
(* order; sums and maxima do not depend on it, so one order is taken.      *)
(***************************************************************************)
AFDom(cont) == IF cont.af = Nil THEN {} ELSE DOMAIN cont.af

updateGroupResourceForContainer(allocatable, cont, bInitContainer, acc) ==
  LET entries == SetToSeq(AFDom(cont))
      step(a2, reqRes) ==
        LET from == cont.af[reqRes]
            val  == IF reqRes \in DOMAIN cont.req THEN cont.req[reqRes] ELSE 0
            s    == LeftoverScore(allocatable[from], a2.pod[from], a2.node[from], val, bInitContainer)
        IN  [pod |-> [a2.pod EXCEPT ![from] = s.pod], node |-> [a2.node EXCEPT ![from] = s.node]]
  IN  FoldLeft(step, acc, entries)

ComputePodGroupResources(allocatable, used, spec, bRemovePod) ==
  LET start    == [pod |-> [a \in DOMAIN allocatable |-> 0], node |-> used]
      conts(S) == SetToSeq(DOMAIN S)
      afterRun == FoldLeft(LAMBDA acc, c :
                    updateGroupResourceForContainer(allocatable, spec.running[c], FALSE, acc),
                    start, conts(spec.running))
      afterInit == FoldLeft(LAMBDA acc, c :
                    updateGroupResourceForContainer(allocatable, spec.init[c], TRUE, acc),
                    afterRun, conts(spec.init))
  IN  IF bRemovePod
        THEN [pod  |-> afterInit.pod,
              node |-> [a \in DOMAIN used |->
                          LeftoverScore(0, 0, used[a], -afterInit.pod[a], FALSE).node]]
        ELSE afterInit

(* TakePodGroupResource and ReturnPodGroupResource: the new n.Used. *)
TakePodGroupResource(allocatable, used, spec) ==
  ComputePodGroupResources(allocatable, used, spec, FALSE).node
ReturnPodGroupResource(allocatable, used, spec) ==
  ComputePodGroupResources(allocatable, used, spec, TRUE).node

=============================================================================
