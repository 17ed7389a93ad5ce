------------------------------- MODULE Ledger -------------------------------
(***************************************************************************)
(* What the inventory and the bank promise a player about one kind of      *)
(* item, without transactions or row locks: items received are carried up  *)
(* to the limit of a slot, and a deposit moves carried items to the bank,  *)
(* all in one step.                                                        *)
(***************************************************************************)
EXTENDS Naturals

CONSTANT Limit   \* domain.InventorySlotLimit

VARIABLES carried, banked

LInit == carried = 0 /\ banked = 0

\* What does not fit the slot is turned away.
Receive(n) ==
  /\ carried' = IF carried + n > Limit THEN Limit ELSE carried + n
  /\ UNCHANGED banked

Deposit(n) ==
  /\ n <= carried
  /\ carried' = carried - n
  /\ banked' = banked + n

LNext == \E n \in 1..Limit : Receive(n) \/ Deposit(n)

LSpec == LInit /\ [][LNext]_<<carried, banked>>

=============================================================================
