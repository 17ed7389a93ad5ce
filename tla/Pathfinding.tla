---------------------------- MODULE Pathfinding ----------------------------
(***************************************************************************)
(* The rest of the path search of player.go: the turns of PathSearch until *)
(* a path is found, how far a path is, what Move makes of it, and the tile *)
(* a walk has reached.                                                     *)
(*                                                                         *)
(* fastestPaths is the set of all paths the loop may return.  The client's *)
(* player_prediction.dart runs the same search over a sorted list and may  *)
(* break ties in another way.                                              *)
(***************************************************************************)
EXTENDS PathSearch, Sequences, FiniteSetsExt, SequencesExt

pathDistance(path) ==
  FoldLeftDomain(LAMBDA sum, i : IF i = Len(path) THEN sum
                                 ELSE Plus(sum, stepCost(path[i], path[i + 1])),
                 <<0, 0>>, path)

RECURSIVE reconstructPath(_, _, _)
reconstructPath(cameFrom, from, p) ==
  IF p = from THEN <<from>> ELSE Append(reconstructPath(cameFrom, from, cameFrom[p]), p)

-----------------------------------------------------------------------------
(* The loop to its end, for every order of nodes of equal priority.        *)

RECURSIVE Searched(_, _, _, _)
Searched(map, from, target, states) ==
  LET next == UNION {{s} \X First(s.open) : s \in states}
      found == {x \in next : x[2].point = target}
  IN  {reconstructPath(x[1].came, from, target) : x \in found}
      \cup (IF \E s \in states : s.open = {} THEN {<<from>>} ELSE {})
      \cup (IF next = found THEN {}
            ELSE Searched(map, from, target,
                          {Expanded(map, target, x[1], x[2]) : x \in next \ found}))

fastestPaths(map, from, target) ==
  IF from = target THEN {<<from>>} ELSE Searched(map, from, target, {Started(from, target)})

-----------------------------------------------------------------------------
(* Its use in Move.                                                        *)

\* An entity covers a rectangle of tiles; what is depleted blocks nothing.
entityBlocksMovement(e) == e.state # "depleted" /\ e.type \in {"resource", "bank"}

blockedEntityTiles(entities) ==
  UNION {(e.x..(e.x + e.width - 1)) \X (e.y..(e.y + e.height - 1)) :
         e \in {f \in entities : entityBlocksMovement(f)}}

\* The paths Move may take; none if it refuses the target.  A player may leave
\* a tile that has been built over.
MovePaths(map, from, target) ==
  IF ~isWalkable(map, target) THEN {}
  ELSE fastestPaths([map EXCEPT !.blocked = @ \ {from}], from, target)

\* currentPlayerPoint: the tile from which a walk of this length is taking a
\* step, that is, the step that is not over strictly before it.
pointReached(path, distance) ==
  IF ~Cheaper(distance, pathDistance(path)) THEN Last(path)
  ELSE path[CHOOSE i \in DOMAIN path :
              /\ i = 1 \/ Cheaper(pathDistance(SubSeq(path, 1, i)), distance)
              /\ ~Cheaper(pathDistance(SubSeq(path, 1, i + 1)), distance)]
=============================================================================
