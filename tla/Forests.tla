------------------------------ MODULE Forests ------------------------------
(***************************************************************************)
(* Where trees may grow and how many of each kind: the pure algorithms of  *)
(* resource_nodes.go, on the kinds in the order of treeDefinitions, the    *)
(* forests of treeForestClusterSeeds and the weights of treeTargetWeights. *)
(*                                                                         *)
(* A seed's ratios are written in hundredths and multiplied by a whole     *)
(* number of tiles, so int(ratio * float64(n)) is a division of integers.  *)
(* The test of an ellipse is cross-multiplied.                             *)
(***************************************************************************)
EXTENDS Integers, FiniteSetsExt

\* tree, oak_tree, willow_tree, maple_tree, yew_tree, magic_tree
treeDefinitions == 1..6

treeTargetWeights == [k \in treeDefinitions |-> IF k = 1 THEN 3 ELSE IF k <= 3 THEN 2 ELSE 1]

\* <<centre x, centre y, radius x, radius y>>
treeForestClusterSeeds == <<
  {<<12,14,12,10>>, <<26,36,13,11>>, <<44,18,12,10>>, <<63,52,12,10>>, <<80,28,11,9>>},
  {<<22,16,10,8>>, <<48,58,10,8>>, <<74,22,10,8>>, <<86,70,9,7>>},
  {<<36,76,10,8>>, <<62,14,10,8>>, <<82,56,10,8>>, <<16,66,9,7>>},
  {<<10,78,8,7>>, <<30,56,8,7>>, <<54,30,8,7>>, <<72,82,8,7>>},
  {<<22,84,8,7>>, <<52,44,8,7>>, <<76,22,8,7>>, <<88,86,7,6>>},
  {<<14,26,7,6>>, <<40,90,7,6>>, <<68,68,7,6>>, <<92,38,7,6>>} >>

-----------------------------------------------------------------------------
(* How many of each kind: weights scaled to a total, largest remainder     *)
(* first, the earlier kind on a tie.                                       *)

Largest(remainder) ==
  CHOOSE k \in DOMAIN remainder : \A j \in DOMAIN remainder :
    remainder[k] > remainder[j] \/ (remainder[k] = remainder[j] /\ k <= j)

scaledTreeTargetCounts(total, weights) ==
  LET weightTotal == MapThenSumSet(LAMBDA k : weights[k], DOMAIN weights)
      start == [count |-> [k \in DOMAIN weights |-> (total * weights[k]) \div weightTotal],
                remainder |-> [k \in DOMAIN weights |-> (total * weights[k]) % weightTotal]]
      assigned == MapThenSumSet(LAMBDA k : start.count[k], DOMAIN weights)
      give[n \in 0..(total - assigned)] ==
        IF n = 0 THEN start
        ELSE LET best == Largest(give[n - 1].remainder) IN
             [count |-> [give[n - 1].count EXCEPT ![best] = @ + 1],
              remainder |-> [give[n - 1].remainder EXCEPT ![best] = -1]]
  IN  give[total - assigned].count

-----------------------------------------------------------------------------
(* Where: a grid of the minimum gap over each ellipse, every second row    *)
(* shifted.                                                                *)

AtLeast(n, least) == IF n < least THEN least ELSE n
AtMost(n, most) == IF n > most THEN most ELSE n

forestClustersForMap(kind, gap, width, height) ==
  {[cx |-> (s[1] * (width - 1)) \div 100, cy |-> (s[2] * (height - 1)) \div 100,
    rx |-> AtLeast((s[3] * width) \div 100, gap),
    ry |-> AtLeast((s[4] * height) \div 100, gap)]
     : s \in treeForestClusterSeeds[kind]}

pointInForestCluster(p, c) ==
  (p[1] - c.cx) * (p[1] - c.cx) * c.ry * c.ry + (p[2] - c.cy) * (p[2] - c.cy) * c.rx * c.rx
    <= c.rx * c.rx * c.ry * c.ry

forestCandidates(clusters, gap, width, height) ==
  LET Grid(c) ==
        LET minX == AtLeast(c.cx - c.rx, 0)
            minY == AtLeast(c.cy - c.ry, 0)
            maxX == AtMost(c.cx + c.rx, width - 1)
            maxY == AtMost(c.cy + c.ry, height - 1)
            shift(y) == (((y - minY) \div gap) % 2) * AtLeast(gap \div 2, 1)
        IN  {p \in (minX..maxX) \X (minY..maxY) :
               /\ (p[2] - minY) % gap = 0
               /\ p[1] >= minX + shift(p[2])
               /\ (p[1] - minX - shift(p[2])) % gap = 0}
  IN  {p \in UNION {Grid(c) : c \in clusters} :
         \E c \in clusters : pointInForestCluster(p, c)}
=============================================================================
