--------------------------- MODULE Notifications ---------------------------
(***************************************************************************)
(* What event delivery promises a player, without queues, transactions or  *)
(* dispatchers: a notification that was announced is delivered to the      *)
(* player's inbox, once and for good, and is read only after that.         *)
(***************************************************************************)
CONSTANT Completed   \* the events worth a notification (action.completed)

VARIABLES announced, delivered, read

nVars == <<announced, delivered, read>>

NInit == announced = {} /\ delivered = {} /\ read = {}

Announce(e) ==
  /\ e \in Completed \ announced
  /\ announced' = announced \cup {e}
  /\ UNCHANGED <<delivered, read>>

Deliver(e) ==
  /\ e \in announced \ delivered
  /\ delivered' = delivered \cup {e}
  /\ UNCHANGED <<announced, read>>

Read(S) ==
  /\ S \subseteq delivered
  /\ read' = read \cup S
  /\ UNCHANGED <<announced, delivered>>

NNext == \/ \E e \in Completed : Announce(e) \/ Deliver(e)
         \/ \E S \in SUBSET Completed : Read(S)

NSafety == NInit /\ [][NNext]_nVars

\* Delivery does not wait forever; reading is up to the player.
NSpec == NSafety /\ \A e \in Completed : WF_nVars(Deliver(e))

=============================================================================
