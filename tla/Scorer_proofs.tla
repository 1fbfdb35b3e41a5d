---------------------------- MODULE Scorer_proofs ----------------------------
(***************************************************************************)
(* Facts about the leftover scorer and the exact fractions its scores are  *)
(* kept in, for all integer arguments.  The accounting of the group        *)
(* allocator (ComputePodGroupResources, grpallocate.go:598-629) folds the  *)
(* scorer over a pod's requests; what the fold computes as a whole needs   *)
(* induction over the requests and stays with TLC (UsedIsSumOfBoundPods).  *)
(* Proved here: what one take and return do, how replaying requests one at *)
(* a time compares with scoring them together, and the facts the model's  *)
(* choice of one iteration order rests on.                                 *)
(***************************************************************************)
EXTENDS Scorer, TLAPS

(* The fractions the scores are: an integer over a positive integer.       *)
Fracs == [num : Int, den : Nat \ {0}]

-----------------------------------------------------------------------------
(***************************************************************************)
(* Fractions.                                                              *)
(***************************************************************************)

(* The sum of two fractions is a fraction.                                 *)
LEMMA QAddType ==
  ASSUME NEW p \in Fracs, NEW q \in Fracs
  PROVE  QAdd(p, q) \in Fracs
<1>1. p.num * q.den + q.num * p.den \in Int
  BY DEF Fracs
<1>2. p.den * q.den \in Nat \ {0}
  BY DEF Fracs
<1>. QED
  BY <1>1, <1>2 DEF QAdd, Frac, Fracs

(***************************************************************************)
(* Summing scores does not depend on the order: QAdd is commutative and    *)
(* associative on fractions, as records and not only as values, and QZero  *)
(* is its unit.  The group allocator sums its per-resource scores over a   *)
(* Go map (findScoreAndUpdate) in random order; with the model's exact     *)
(* fractions the one order it takes gives the result of every other (Go's *)
(* float64 sums may differ in the last bits between orders).               *)
(***************************************************************************)
THEOREM QAddOrderFree ==
  ASSUME NEW p \in Fracs, NEW q \in Fracs, NEW r \in Fracs
  PROVE  /\ QAdd(p, q) = QAdd(q, p)
         /\ QAdd(p, QAdd(q, r)) = QAdd(QAdd(p, q), r)
         /\ QAdd(QZero, p) = p
<1>1. QAdd(p, q) = QAdd(q, p)
  BY DEF QAdd, Frac, Fracs
<1>2. QAdd(p, QAdd(q, r)) = QAdd(QAdd(p, q), r)
  <2>1. p.num * (q.den * r.den) + (q.num * r.den + r.num * q.den) * p.den
          = (p.num * q.den + q.num * p.den) * r.den + r.num * (p.den * q.den)
    BY DEF Fracs
  <2>2. p.den * (q.den * r.den) = (p.den * q.den) * r.den
    BY DEF Fracs
  <2>. QED
    BY <2>1, <2>2 DEF QAdd, Frac
<1>3. QAdd(QZero, p) = p
  <2>1. p = [num |-> p.num, den |-> p.den]
    BY DEF Fracs
  <2>. QED
    BY <2>1 DEF QAdd, QZero, Frac, Fracs
<1>. QED
  BY <1>1, <1>2, <1>3

(***************************************************************************)
(* Comparing scores is a total preorder on fractions: the choice of the    *)
(* best location (TakeNew, grpallocate.go:124-131) compares candidate      *)
(* scores with QGeq and relies on it being reflexive, total and            *)
(* transitive.                                                             *)
(***************************************************************************)
THEOREM QGeqPreorder ==
  ASSUME NEW p \in Fracs, NEW q \in Fracs, NEW r \in Fracs
  PROVE  /\ QGeq(p, p)
         /\ QGeq(p, q) \/ QGeq(q, p)
         /\ QGeq(p, q) /\ QGeq(q, r) => QGeq(p, r)
<1>1. QGeq(p, p) /\ (QGeq(p, q) \/ QGeq(q, p))
  BY DEF QGeq, Fracs
<1>2. ASSUME QGeq(p, q), QGeq(q, r) PROVE QGeq(p, r)
  <2>1. p.num * q.den >= q.num * p.den /\ q.num * r.den >= r.num * q.den
    BY <1>2 DEF QGeq
  <2>2. p.num * q.den * r.den >= q.num * p.den * r.den
    BY <2>1 DEF Fracs
  <2>3. q.num * r.den * p.den >= r.num * q.den * p.den
    BY <2>1 DEF Fracs
  <2>4. q.den * (p.num * r.den - r.num * p.den) >= 0
    BY <2>2, <2>3 DEF Fracs
  <2>5. p.num * r.den - r.num * p.den >= 0
    BY <2>4 DEF Fracs
  <2>. QED
    BY <2>5 DEF QGeq, Fracs
<1>. QED
  BY <1>1, <1>2


-----------------------------------------------------------------------------
(***************************************************************************)
(* The leftover scorer.                                                    *)
(***************************************************************************)

(***************************************************************************)
(* The removal path of ComputePodGroupResources (grpallocate.go:618-623)   *)
(* calls the scorer with capacity 0, pod usage 0 and the request -podUsed: *)
(* it subtracts the pod's usage from the node's Used, whatever its sign.   *)
(***************************************************************************)
THEOREM RemovalSubtracts ==
  ASSUME NEW used \in Int, NEW podUsed \in Int
  PROVE  LeftoverScore(0, 0, used, -podUsed, FALSE).node = used - podUsed
  BY DEF LeftoverScore, MaxInt

(***************************************************************************)
(* Returning a pod undoes taking it, for one request: a request charged    *)
(* to a pod that held nothing on the key (running or init), then removed   *)
(* with the pod's resulting usage, leaves the node's Used as it was.  For  *)
(* a whole pod this needs induction over its requests, and the run         *)
(* grpnode_safety checks it as UsedIsSumOfBoundPods.                       *)
(***************************************************************************)
THEOREM ReturnUndoesTake ==
  ASSUME NEW allocatable \in Int, NEW used \in Int, NEW totalRequested \in Int,
         NEW initContainer \in BOOLEAN
  PROVE  LET s == LeftoverScore(allocatable, 0, used, totalRequested, initContainer)
         IN  LeftoverScore(0, 0, s.node, -s.pod, FALSE).node = used
  BY DEF LeftoverScore, MaxInt

(***************************************************************************)
(* Replaying a container's requests one at a time, as                      *)
(* TakePodGroupResource does (grpallocate.go:582-593), charges the node    *)
(* what scoring them as one vector charges (containerFitsGroupConstraints, *)
(* grpallocate.go:246) for a running container, but strictly less for an  *)
(* init container with two positive requests on one key whose sum exceeds  *)
(* the pod's usage so far: for every capacity and every usage, the node is *)
(* charged less than the allocator checked.  The run grpnode_initacct      *)
(* shows one instance (TakeAgreesWithAllocator violated); this is the      *)
(* general statement.                                                      *)
(***************************************************************************)
THEOREM ReplayMatchesVectorForRunning ==
  ASSUME NEW allocatable \in Int, NEW usedByPod \in Int, NEW usedByNode \in Int,
         NEW r1 \in Int, NEW r2 \in Int
  PROVE  LET one == LeftoverScore(allocatable, usedByPod, usedByNode, r1, FALSE)
             two == LeftoverScore(allocatable, one.pod, one.node, r2, FALSE)
             vec == LeftoverScore(allocatable, usedByPod, usedByNode, r1 + r2, FALSE)
         IN  two.pod = vec.pod /\ two.node = vec.node
  BY DEF LeftoverScore, MaxInt

(* For an init container, the replay charges the node strictly less than  *)
(* the vector the allocator checked.                                       *)
THEOREM ReplayUnderchargesInit ==
  ASSUME NEW allocatable \in Int, NEW usedByPod \in Int, NEW usedByNode \in Int,
         NEW r1 \in Nat \ {0}, NEW r2 \in Nat \ {0},
         usedByPod < r1 + r2
  PROVE  LET one == LeftoverScore(allocatable, usedByPod, usedByNode, r1, TRUE)
             two == LeftoverScore(allocatable, one.pod, one.node, r2, TRUE)
             vec == LeftoverScore(allocatable, usedByPod, usedByNode, r1 + r2, TRUE)
         IN  two.node < vec.node
  BY DEF LeftoverScore, MaxInt

=============================================================================
