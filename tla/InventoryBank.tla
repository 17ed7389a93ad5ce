---------------------------- MODULE InventoryBank ----------------------------
(***************************************************************************)
(* One slot of a player's inventory and the bank balance of the same item. *)
(*                                                                         *)
(* Three kinds of transactions write the slot's row:                       *)
(*   - the harvest transaction of an action worker (advanceAction), which  *)
(*     adds a reward per tick and commits them all at the end.  A player   *)
(*     has one active action and its row is locked, so there is at most    *)
(*     one such transaction per player;                                    *)
(*   - deposits (HTTP or WebSocket handlers);                              *)
(*   - the admin's GrantInventory, one statement.                          *)
(* Postgres runs them READ COMMITTED: a statement reads the rows committed *)
(* when it began (and its own transaction's writes), but an upsert that    *)
(* had to wait for a row lock works on the newest version.                 *)
(***************************************************************************)
EXTENDS Integers

CONSTANTS
  Depositors,      \* request handlers that deposit
  Harvester,       \* the action worker's transaction
  Quantities,      \* quantities that deposits and grants ask for
  RewardQuantity,  \* reward_quantity of the tree
  Limit,           \* domain.InventorySlotLimit
  MaxTicks,        \* bound: rewarded ticks in one harvest transaction
  MaxInflow,       \* bound: no more is added once this many items were accepted
  NoOne

ASSUME InventoryAssumption ==
  /\ Quantities \subseteq Nat \ {0}
  /\ RewardQuantity \in Nat \ {0}
  /\ Limit \in Nat \ {0}
  /\ MaxTicks \in Nat /\ MaxInflow \in Nat
  /\ Harvester \notin Depositors /\ NoOne \notin Depositors \cup {Harvester}

VARIABLES
  slot,      \* committed quantity of the player_inventory row, 0: no row
  bank,      \* committed quantity of the player_bank row
  xp,        \* xp of the skill, counted in rewards
  holder,    \* the transaction that holds the lock of the slot's row
  harvest,   \* local state of the harvest transaction
  deposit,   \* local state of each deposit
  reported,  \* rewards_granted in the metadata of the harvest actions
  earned,    \* history: items harvests really put into the slot
  inflow     \* history: items put into the slot by anyone

vars == <<slot, bank, xp, holder, harvest, deposit, reported, earned, inflow>>

HarvestState == [pc : {"none", "upsert", "open"}, ticks : Nat,
                 before : 0..Limit,   \* the statement's snapshot of the row
                 value : 0..Limit,    \* the row as the transaction has it
                 rewards : Int, xp : Nat, took : Nat]

DepositState == [pc : {"idle", "locked"}, current : 0..Limit, moved : Nat]

\* Every row and local copy is in its range: in particular the slot never
\* holds more than InventorySlotLimit, whoever adds to it.
TypeOK ==
  /\ slot \in 0..Limit
  /\ bank \in Nat
  /\ xp \in Nat
  /\ holder \in Depositors \cup {Harvester, NoOne}
  /\ harvest \in HarvestState
  /\ deposit \in [Depositors -> DepositState]
  /\ reported \in Int
  /\ earned \in Nat
  /\ inflow \in Nat

NoHarvest == [pc |-> "none", ticks |-> 0, before |-> 0, value |-> 0,
              rewards |-> 0, xp |-> 0, took |-> 0]

NoDeposit == [pc |-> "idle", current |-> 0, moved |-> 0]

Init ==
  /\ slot = 0 /\ bank = 0 /\ xp = 0
  /\ holder = NoOne
  /\ harvest = NoHarvest
  /\ deposit = [d \in Depositors |-> NoDeposit]
  /\ reported = 0 /\ earned = 0 /\ inflow = 0

-----------------------------------------------------------------------------
(* AddInventoryItem *)

\* Seeded fault: the sum is not capped.
IncreasedUncapped(quantity, n) == IF quantity >= Limit THEN quantity ELSE quantity + n

\* The quantity the upsert leaves in the row.
Increased(quantity, n) ==
  IF quantity >= Limit THEN quantity
  ELSE IF quantity + n > Limit THEN Limit ELSE quantity + n

\* The row as the harvest transaction sees it.
OwnView == IF holder = Harvester THEN harvest.value ELSE slot

\* A rewarded tick of advanceAction: the statement begins, and its CTE
\* `existing` reads the row as it is committed now.
TickSnapshot ==
  /\ harvest.pc # "upsert"
  /\ harvest.ticks < MaxTicks /\ inflow < MaxInflow
  /\ harvest' = [harvest EXCEPT !.pc = "upsert", !.ticks = @ + 1, !.before = OwnView]
  /\ UNCHANGED <<slot, bank, xp, holder, deposit, reported, earned, inflow>>

\* Its CTE `upsert` waits for the row lock and works on the newest version;
\* after - before is taken for the quantity added, and AddXP follows it.
TickUpsert ==
  LET after == Increased(OwnView, RewardQuantity)
      added == after - harvest.before
  IN
  /\ harvest.pc = "upsert"
  /\ holder \in {Harvester, NoOne}
  /\ holder' = Harvester
  /\ harvest' = [harvest EXCEPT !.pc = "open", !.value = after,
       !.took = @ + (after - OwnView),
       !.rewards = @ + added,
       !.xp = @ + (IF added > 0 THEN added ELSE 0)]
  /\ UNCHANGED <<slot, bank, xp, deposit, reported, earned, inflow>>

\* advanceAction saves rewards_granted and xp_granted, and the commit.
HarvestCommit ==
  /\ harvest.pc = "open"
  /\ slot' = harvest.value
  /\ xp' = xp + harvest.xp
  /\ reported' = reported + harvest.rewards
  /\ earned' = earned + harvest.took
  /\ inflow' = inflow + harvest.took
  /\ holder' = NoOne
  /\ harvest' = NoHarvest
  /\ UNCHANGED <<bank, deposit>>

\* A failed statement or a crash of the worker.
HarvestRollback ==
  /\ harvest.pc # "none"
  /\ holder' = IF holder = Harvester THEN NoOne ELSE holder
  /\ harvest' = NoHarvest
  /\ UNCHANGED <<slot, bank, xp, deposit, reported, earned, inflow>>

\* GrantInventory: one statement, its result is not used.
GrantInventory(n) ==
  /\ holder = NoOne
  /\ inflow < MaxInflow
  /\ slot' = Increased(slot, n)
  /\ inflow' = inflow + (Increased(slot, n) - slot)
  /\ UNCHANGED <<bank, xp, holder, harvest, deposit, reported, earned>>

-----------------------------------------------------------------------------
(* DepositInventoryItem *)

\* Seeded fault: the row is read without FOR UPDATE.
SelectPlain(d) == UNCHANGED holder

SelectForUpdate(d) == holder = NoOne /\ holder' = d

\* Seeded fault: the bank is credited with what the request asked for.
MovedAsAsked(current, n) == n

Moved(current, n) == IF current < n THEN current ELSE n

\* There is no row, or none that is committed: nothing to move, nothing to
\* wait for (ErrInventoryItemUnavailable).
DepositNothing(d) == deposit[d].pc = "idle" /\ slot = 0 /\ UNCHANGED vars

\* The row is read under its lock.
DepositLock(d, n) ==
  /\ deposit[d].pc = "idle"
  /\ slot > 0
  /\ SelectForUpdate(d)
  /\ deposit' = [deposit EXCEPT ![d] =
       [pc |-> "locked", current |-> slot, moved |-> Moved(slot, n)]]
  /\ UNCHANGED <<slot, bank, xp, harvest, reported, earned, inflow>>

\* The inventory row is written or deleted, the bank row is increased, commit.
DepositCommit(d) ==
  LET remaining == deposit[d].current - deposit[d].moved IN
  /\ deposit[d].pc = "locked"
  /\ slot' = IF remaining > 0 THEN remaining ELSE 0
  /\ bank' = bank + deposit[d].moved
  /\ holder' = NoOne
  /\ deposit' = [deposit EXCEPT ![d] = NoDeposit]
  /\ UNCHANGED <<xp, harvest, reported, earned, inflow>>

\* A failed statement, a cancelled request.
DepositRollback(d) ==
  /\ deposit[d].pc = "locked"
  /\ holder' = NoOne
  /\ deposit' = [deposit EXCEPT ![d] = NoDeposit]
  /\ UNCHANGED <<slot, bank, xp, harvest, reported, earned, inflow>>

Next ==
  \/ TickSnapshot \/ TickUpsert \/ HarvestCommit \/ HarvestRollback
  \/ \E n \in Quantities : GrantInventory(n)
  \/ \E d \in Depositors :
       \/ \E n \in Quantities : DepositLock(d, n)
       \/ DepositNothing(d) \/ DepositCommit(d) \/ DepositRollback(d)

Spec == Init /\ [][Next]_vars

-----------------------------------------------------------------------------
(* Properties *)

\* No item is lost or duplicated: what was ever accepted into the slot is
\* carried or in the bank, although harvests, grants and deposits overlap,
\* wait for each other and roll back.
Conserved == slot + bank = inflow

\* Harvests, grants and deposits appear as the one-step operations of Ledger,
\* each at its commit (rows read in one statement and written in a later one).
Account == INSTANCE Ledger WITH carried <- slot, banked <- bank
ImplementsLedger == Account!LSpec

\* The rewards and the xp an action reports are those of the items its ticks
\* put into the inventory.
XPMatchesItems == reported = earned /\ xp = earned

=============================================================================
