----------------------------- MODULE PathSearch -----------------------------
(***************************************************************************)
(* The path search of player.go: which steps a player may take on a tile   *)
(* map, and the state and the turns of the loop of fastestPath, an A*      *)
(* search.                                                                 *)
(*                                                                         *)
(* A map is given by its width, its height and the set of its tiles that   *)
(* cannot be walked on (tiles[i] <= 0, or covered by an entity).  A cost   *)
(* counts straight and diagonal steps, <<s, d>> standing for s + d*sqrt(2),*)
(* and is compared exactly.  Nodes of equal priority leave the heap in an  *)
(* order that depends on its layout: First is the set of those that may.   *)
(***************************************************************************)
EXTENDS Integers

Abs(n) == IF n < 0 THEN -n ELSE n

Plus(a, b) == <<a[1] + b[1], a[2] + b[2]>>

\* a[1] + a[2]*sqrt(2) < b[1] + b[2]*sqrt(2)
Cheaper(a, b) ==
  LET s == a[1] - b[1]
      d == b[2] - a[2]
  IN  \/ s < 0 /\ d >= 0
      \/ s < 0 /\ d < 0 /\ s * s > 2 * d * d
      \/ s >= 0 /\ d > 0 /\ s * s < 2 * d * d

isWalkable(map, p) ==
  /\ p[1] \in 0..(map.width - 1)
  /\ p[2] \in 0..(map.height - 1)
  /\ p \notin map.blocked

cutsBlockedCorner(map, p, q) ==
  ~(isWalkable(map, <<q[1], p[2]>>) /\ isWalkable(map, <<p[1], q[2]>>))

neighbors(map, p) ==
  {q \in ((p[1] - 1)..(p[1] + 1)) \X ((p[2] - 1)..(p[2] + 1)) :
     /\ q # p
     /\ isWalkable(map, q)
     /\ p[1] # q[1] /\ p[2] # q[2] => ~cutsBlockedCorner(map, p, q)}

stepCost(p, q) == IF p[1] # q[1] /\ p[2] # q[2] THEN <<0, 1>> ELSE <<1, 0>>

heuristic(p, q) ==
  LET dx == Abs(p[1] - q[1])
      dy == Abs(p[2] - q[2])
      diagonal == IF dx < dy THEN dx ELSE dy
  IN  <<dx + dy - 2 * diagonal, diagonal>>

-----------------------------------------------------------------------------
(* The loop: cost and came hold costSoFar and cameFrom of the points seen, *)
(* open the pushed nodes with their priorities, superseded ones included.  *)

Started(from, target) ==
  [cost |-> [p \in {from} |-> <<0, 0>>], came |-> [p \in {} |-> from],
   open |-> {[point |-> from, priority |-> heuristic(from, target)]}]

\* The nodes that may be popped next.
First(open) == {n \in open : \A o \in open : ~Cheaper(o.priority, n.priority)}

Improves(s, p, q) ==
  q \in DOMAIN s.cost => Cheaper(Plus(s.cost[p], stepCost(p, q)), s.cost[q])

\* One turn for a popped node: the neighbors it improves are pushed.
Expanded(map, target, s, n) ==
  LET p == n.point
      better == {q \in neighbors(map, p) : Improves(s, p, q)}
      newCost(q) == Plus(s.cost[p], stepCost(p, q))
  IN  [cost |-> [q \in better \cup DOMAIN s.cost |->
                   IF q \in better THEN newCost(q) ELSE s.cost[q]],
       came |-> [q \in better \cup DOMAIN s.came |->
                   IF q \in better THEN p ELSE s.came[q]],
       open |-> (s.open \ {n}) \cup
                {[point |-> q, priority |-> Plus(newCost(q), heuristic(q, target))] : q \in better}]
=============================================================================
