----------------------------- MODULE MCRealtime -----------------------------
(* A player topic, which reads may change silently, and one list, which     *)
(* plays the parts of the inventory and of the inbox: it may be empty again *)
(* and its items are acknowledged.  Merging makes notifications of both.    *)
EXTENDS Realtime

CONSTANTS player, list

MCTopics == {player, list}
MCRank == [t \in MCTopics |-> IF t = player THEN 1 ELSE 2]
MCLists == {list}
MCSilent == {player}
MCNotices == {{player}, {list}}
=============================================================================
