----------------------------- MODULE MCForests -----------------------------
(* The shipped map, backend/tilemap.json, 128 by 128, with its six kinds of  *)
(* trees and their real targets, in a world where a tree of the last kind is *)
(* missing and one of the second kind has just been felled.                  *)
EXTENDS ResourceNodes, Forests

CONSTANT bank

ForestsOf(k, width, height) ==
  forestCandidates(forestClustersForMap(k, 3, width, height), 3, width, height)

MCTarget == scaledTreeTargetCounts(100, treeTargetWeights)
MCCandidates == [k \in treeDefinitions |-> ForestsOf(k, 128, 128)]
MCBankAt == <<17, 8>>

\* Every place lies on the map and trees of one forest's grid keep the gap.
ASSUME ForestAssumption ==
  /\ MCTarget = <<30, 20, 20, 10, 10, 10>>
  /\ \A k \in treeDefinitions :
       /\ MCCandidates[k] \subseteq (0..127) \X (0..127)
       /\ \A c \in forestClustersForMap(k, 3, 128, 128) :
            \A p, q \in forestCandidates({c}, 3, 128, 128) : p = q \/ hasMinimumGap(p, q)

\* Each kind's target fits into its places apart, with forty stumps in each of
\* its forests besides.
ASSUME RoomAssumption ==
  \A k \in treeDefinitions : Cardinality(Apart[k]) >= MCTarget[k] + 40

\* The map that is used when no tilemap.json is found (fallbackTileMapTemplate)
\* has less room: the first kind has fewer places than its target.
ASSUME FallbackAssumption == Cardinality(ForestsOf(1, 64, 32)) = 26

\* The world: of every kind as many trees as its target, row by row on one forest
\* of the kind, but for the last kind, of which one is missing.  A tree of the
\* second kind is a stump.  An id is the number of a tile.
Grove(k) == CHOOSE c \in forestClustersForMap(k, 3, 128, 128) : c.cx = <<33, 109, 45, 91, 111, 50>>[k]
Tile(p) == 128 * p[2] + p[1]
First(n, S) == {p \in S : Cardinality({q \in S : Tile(q) < Tile(p)}) < n}

Tree(k, p) == [id |-> Tile(p), kind |-> k, at |-> p, state |-> "idle", expires |-> 0]
Trees(k) == {Tree(k, p) : p \in First(MCTarget[k] - (k \div 6), forestCandidates({Grove(k)}, 3, 128, 128))}
Fell(S) == LET e == CHOOSE e \in S : TRUE IN (S \ {e}) \cup {[e EXCEPT !.state = "depleted", !.expires = 1]}

MCGrown ==
  {Tree(bank, MCBankAt)} \cup Fell(Trees(2)) \cup UNION {Trees(k) : k \in treeDefinitions \ {2}}

MCIds == {e.id : e \in MCGrown} \cup 1..3
=============================================================================
