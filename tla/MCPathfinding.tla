--------------------------- MODULE MCPathfinding ---------------------------
(* The path search against its definition, on small maps.                  *)
EXTENDS Pathfinding

Grid(w, h) == (0..(w - 1)) \X (0..(h - 1))

\* Every map of 3 x 2 tiles, and two with an obstacle in the middle.
SmallMaps == {[width |-> 3, height |-> 2, blocked |-> b] : b \in SUBSET Grid(3, 2)}
Pillar == [width |-> 3, height |-> 3, blocked |-> {<<1, 1>>}]
Hook == [width |-> 4, height |-> 4, blocked |-> {<<1, 1>>, <<2, 1>>, <<1, 2>>}]

RECURSIVE Walks(_, _, _)
Walks(map, path, target) ==
  IF Last(path) = target THEN {path}
  ELSE UNION {Walks(map, Append(path, q), target) :
              q \in {r \in neighbors(map, Last(path)) : r \notin ToSet(path)}}

\* Whatever order ties are broken in, the path is a shortest walk; it is the
\* start alone if the target cannot be reached.
Shortest(map, from, target) ==
  LET walks == Walks(map, <<from>>, target)
      best == {p \in walks : \A q \in walks : ~Cheaper(pathDistance(q), pathDistance(p))}
      found == fastestPaths(map, from, target)
  IN  IF walks = {} THEN found = {<<from>>} ELSE found # {} /\ found \subseteq best

\* On its way a player passes the tiles of the path in order, leaves none before
\* its step is over and is never two steps behind.
Passed(path, far) ==
  \A d \in 0..far :
    LET here == pointReached(path, <<d, 0>>)
        soon == pointReached(path, <<d + 1, 0>>)
        at(p) == CHOOSE i \in DOMAIN path : path[i] = p
        walked(i) == pathDistance(SubSeq(path, 1, i))
    IN  /\ at(here) <= at(soon)
        /\ ~Cheaper(<<d, 0>>, walked(at(here)))
        /\ here = Last(path) \/ ~Cheaper(walked(at(here) + 1), <<d, 0>>)

Targets(map) == {p \in Grid(map.width, map.height) : isWalkable(map, p)}

ASSUME ShortestAssumption ==
  /\ \A map \in SmallMaps : \A from \in Grid(3, 2) : \A target \in Targets(map) :
       Shortest(map, from, target)
  /\ \A from \in Targets(Pillar), target \in Targets(Pillar) : Shortest(Pillar, from, target)
  /\ \A from \in {<<0, 0>>, <<0, 3>>}, target \in Targets(Hook) : Shortest(Hook, from, target)

ASSUME PassedAssumption ==
  \A from \in {<<0, 0>>, <<2, 3>>}, target \in Targets(Hook) :
    \A path \in fastestPaths(Hook, from, target) : Passed(path, 9)

\* No corner of a blocked tile is cut.  A tree covers two by two tiles and blocks
\* them until it is felled; a player it was planted upon may still walk away.
Tree(state) == [type |-> "resource", state |-> state, x |-> 0, y |-> 0, width |-> 2, height |-> 2]
Meadow(state) == [width |-> 3, height |-> 2, blocked |-> blockedEntityTiles({Tree(state)})]

ASSUME MoveAssumption ==
  /\ \A path \in fastestPaths(Pillar, <<0, 1>>, <<1, 0>>) : pathDistance(path) = <<2, 0>>
  /\ \A target \in Grid(2, 2) : MovePaths(Meadow("idle"), <<2, 0>>, target) = {}
  /\ \A target \in Grid(3, 2) : Shortest(Meadow("depleted"), <<0, 0>>, target)
  /\ MovePaths(Meadow("idle"), <<1, 0>>, <<2, 0>>) = {<< <<1, 0>>, <<2, 0>> >>}
  /\ MovePaths(Meadow("idle"), <<0, 0>>, <<2, 0>>) = {<< <<0, 0>> >>}
=============================================================================
