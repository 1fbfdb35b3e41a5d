------------------------------- MODULE Scorer -------------------------------
(***************************************************************************)
(* The default per-resource scorer of the group allocator                  *)
(* (grpalloc/scorer, ResourceScoreFunc).  The scorer package is not part   *)
(* of the sources given here; it is modelled from the specification:       *)
(*                                                                         *)
(*   score(capacity, usedByPod, usedByNode, requests[], isInit)            *)
(*       -> (fits, score, totalRequested, newUsedPod, newUsedNode)         *)
(*                                                                         *)
(* Running containers accumulate, an init container counts only by how     *)
(* much its request raises the pod's peak (newUsedNode grows by            *)
(* newUsedPod - usedByPod, the rule under which the specification's        *)
(* scenario S4 holds).  The default score is the leftover fraction         *)
(* (capacity - newUsedNode) / capacity, kept exact as a fraction.          *)
(*                                                                         *)
(* The leftover scorer only reads the requests through their sum, so a     *)
(* request vector is passed as its total.                                  *)
(***************************************************************************)
EXTENDS Integers

(***************************************************************************)
(* Exact non-negative fractions standing for the float64 scores.  A        *)
(* fraction is a record with a positive denominator.                       *)
(***************************************************************************)
Frac(n, d) == [num |-> n, den |-> d]
QZero == Frac(0, 1)
QAdd(p, q) == Frac(p.num * q.den + q.num * p.den, p.den * q.den)
QDiv(p, n) == Frac(p.num, p.den * n)
QGeq(p, q) == p.num * q.den >= q.num * p.den
QGt(p, q)  == p.num * q.den > q.num * p.den
QEq(p, q)  == p.num * q.den = q.num * p.den

MaxInt(a, b) == IF a >= b THEN a ELSE b

(* Fault model: a scorer that measures the leftover against the pod's own   *)
(* usage and forgets what other pods hold on the node.                     *)
LeftoverScoreIgnoringNode(allocatable, usedByPod, usedByNode, totalRequested, initContainer) ==
  LET newUsedByPod == IF initContainer
                        THEN MaxInt(usedByPod, totalRequested)
                        ELSE usedByPod + totalRequested
  IN  [fits  |-> allocatable - newUsedByPod >= 0,
       score |-> Frac(allocatable - newUsedByPod, allocatable),
       total |-> totalRequested,
       pod   |-> newUsedByPod,
       node  |-> usedByNode + (newUsedByPod - usedByPod)]

(***************************************************************************)
(* The default leftover scorer.                                            *)
(***************************************************************************)
LeftoverScore(allocatable, usedByPod, usedByNode, totalRequested, initContainer) ==
  LET newUsedByPod  == IF initContainer
                         THEN MaxInt(usedByPod, totalRequested)
                         ELSE usedByPod + totalRequested
      newUsedByNode == usedByNode + (newUsedByPod - usedByPod)
      leftover      == allocatable - newUsedByNode
  IN  [fits  |-> leftover >= 0,
       score |-> Frac(leftover, allocatable),
       total |-> totalRequested,
       pod   |-> newUsedByPod,
       node  |-> newUsedByNode]

=============================================================================
