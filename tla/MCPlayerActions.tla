-------------------------- MODULE MCPlayerActions --------------------------
(* Small instances of PlayerActions for TLC. *)
EXTENDS PlayerActions, MCPathfinding

CONSTANTS oak, elm, api, push, w1, w2

\* One tree beside each end of the corridor.
MCBeside == [e \in Entities |-> IF e = oak THEN {Corridor} ELSE {0}]

\* Ticks of oak at 2 and 3: a last interval shorter than the others.
MCShortDuration == [e \in Entities |-> IF e = oak THEN 3 ELSE 2]

MCNoLevel == [e \in Entities |-> 1]

MCOpsRequests == [h \in Handlers |-> IF h = api THEN {"harvest", "move"} ELSE {"harvest"}]
MCOpsAll == [h \in Handlers |-> OpNames]

\* elm needs the level that two rewards give.
MCLevels == [e \in Entities |-> IF e = oak THEN 1 ELSE 2]

\* The corridor as a map of one row, its unreachable tile behind a blocked one.
Strip == [width |-> Island + 2, height |-> 1,
          blocked |-> {<<x, 0>> : x \in (Corridor + 1)..Island}]
PlaceOf(t) == IF t = Island THEN <<Island + 1, 0>> ELSE <<t, 0>>

\* HasPath, Distance and currentPlayerPoint are what the path search gives on it.
ASSUME CorridorAssumption ==
  \A a, b \in Tiles : \A path \in MovePaths(Strip, PlaceOf(a), PlaceOf(b)) :
    /\ HasPath(a, b) <=> Len(path) > 1
    /\ HasPath(a, b) =>
         LET walk == [from |-> a, target |-> b, started |-> 0, arrives |-> Distance(a, b)]
         IN  /\ pathDistance(path) = <<Distance(a, b), 0>>
             /\ \A t \in 0..(Distance(a, b) + 1) :
                  PlaceOf(currentPlayerPoint([at |-> a, movement |-> walk], t))
                    = pointReached(path, <<t, 0>>)
=============================================================================
