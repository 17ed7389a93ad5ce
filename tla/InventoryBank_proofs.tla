------------------------ MODULE InventoryBank_proofs ------------------------
(***************************************************************************)
(* Conservation of items and the refinement of Ledger, for every limit,    *)
(* reward and set of depositors.                                           *)
(***************************************************************************)
EXTENDS InventoryBank, TLAPS

USE InventoryAssumption

\* A harvest transaction that wrote the row holds its lock, and its copy is
\* the committed quantity plus what its ticks put in.
HarvestOK ==
  /\ harvest.pc = "open" => holder = Harvester
  /\ holder = Harvester => /\ harvest.pc # "none"
                           /\ harvest.value = slot + harvest.took
  /\ holder # Harvester => harvest.took = 0

\* A deposit holds the lock from its read to its end, so that what it read is
\* still what is there.
DepositOK(d) ==
  /\ deposit[d].pc = "locked" <=> holder = d
  /\ deposit[d].pc = "locked" =>
       /\ deposit[d].current = slot
       /\ deposit[d].moved \in 1..slot

\* The inductive invariant.
IInv == TypeOK /\ Conserved /\ HarvestOK /\ \A d \in Depositors : DepositOK(d)

-----------------------------------------------------------------------------

\* What AddInventoryItem's upsert leaves in the row is in range, not less than
\* before, and is what a player who receives the difference carries.
LEMMA IncreasedBounds ==
  ASSUME NEW q \in 0..Limit, NEW n \in Nat
  PROVE  Increased(q, n) \in 0..Limit /\ Increased(q, n) >= q
BY DEF Increased

\* The empty tables satisfy the invariant.
LEMMA InitIInv == Init => IInv
<1> SUFFICES ASSUME Init PROVE IInv
  OBVIOUS
<1>1. TypeOK
  BY DEF Init, TypeOK, NoHarvest, NoDeposit, HarvestState, DepositState
<1>2. Conserved /\ HarvestOK
  BY DEF Init, Conserved, HarvestOK, NoHarvest
<1>3. \A d \in Depositors : DepositOK(d)
  BY DEF Init, DepositOK, NoDeposit
<1> QED
  BY <1>1, <1>2, <1>3 DEF IInv

\* Every statement and every commit preserves the invariant.
LEMMA StepIInv == IInv /\ [Next]_vars => IInv'
<1> SUFFICES ASSUME IInv, [Next]_vars PROVE IInv'
  OBVIOUS
<1> USE DEF IInv
<1>1. CASE TickSnapshot
  <2>1. OwnView \in 0..Limit
    BY DEF OwnView, TypeOK, HarvestState
  <2>2. harvest' \in HarvestState
    <3>1. harvest \in HarvestState /\ harvest.ticks + 1 \in Nat
      BY DEF TypeOK, HarvestState
    <3> QED
      BY <1>1, <2>1, <3>1 DEF TickSnapshot, HarvestState
  <2>3. TypeOK' /\ Conserved'
    BY <1>1, <2>2 DEF TickSnapshot, TypeOK, Conserved
  <2>4. HarvestOK'
    BY <1>1 DEF TickSnapshot, HarvestOK, TypeOK, HarvestState
  <2>5. \A d \in Depositors : DepositOK(d)'
    BY <1>1 DEF TickSnapshot, DepositOK
  <2> QED
    BY <2>3, <2>4, <2>5
<1>2. CASE TickUpsert
  <2> DEFINE after == Increased(OwnView, RewardQuantity)
  <2>1. OwnView \in 0..Limit
    BY DEF OwnView, TypeOK, HarvestState
  <2>2. after \in 0..Limit /\ after >= OwnView
    BY <2>1, IncreasedBounds
  <2> HIDE DEF after
  <2>3. harvest' \in HarvestState
    <3> DEFINE added == after - harvest.before
    <3>1. /\ harvest \in HarvestState
          /\ harvest.took + (after - OwnView) \in Nat
          /\ harvest.rewards + added \in Int
          /\ harvest.xp + (IF added > 0 THEN added ELSE 0) \in Nat
      BY <2>1, <2>2 DEF TypeOK, HarvestState
    <3>2. harvest' = [harvest EXCEPT !.pc = "open", !.value = after,
            !.took = @ + (after - OwnView), !.rewards = @ + added,
            !.xp = @ + (IF added > 0 THEN added ELSE 0)]
      BY <1>2 DEF TickUpsert, after
    <3> HIDE DEF added
    <3> QED
      BY <2>2, <3>1, <3>2 DEF HarvestState
  <2>4. TypeOK' /\ Conserved'
    BY <1>2, <2>3 DEF TickUpsert, TypeOK, Conserved
  <2>5. harvest'.value = slot + harvest'.took /\ harvest'.pc = "open"
    BY <1>2, <2>1, <2>2 DEF TickUpsert, TypeOK, HarvestState, HarvestOK, OwnView, after
  <2>6. HarvestOK'
    BY <1>2, <2>5 DEF TickUpsert, HarvestOK
  <2>7. \A d \in Depositors : DepositOK(d)'
    BY <1>2 DEF TickUpsert, DepositOK
  <2> QED
    BY <2>4, <2>6, <2>7
<1>3. CASE HarvestCommit
  <2>1. holder = Harvester /\ harvest.value = slot + harvest.took
    BY <1>3 DEF HarvestCommit, HarvestOK
  <2>2. TypeOK'
    BY <1>3 DEF HarvestCommit, TypeOK, HarvestState, NoHarvest
  <2>3. Conserved'
    BY <1>3, <2>1 DEF HarvestCommit, Conserved, TypeOK, HarvestState
  <2>4. HarvestOK'
    BY <1>3 DEF HarvestCommit, HarvestOK, NoHarvest
  <2>5. \A d \in Depositors : DepositOK(d)'
    BY <1>3, <2>1 DEF HarvestCommit, DepositOK
  <2> QED
    BY <2>2, <2>3, <2>4, <2>5
<1>4. CASE HarvestRollback
  <2>1. TypeOK' /\ Conserved'
    BY <1>4 DEF HarvestRollback, TypeOK, HarvestState, NoHarvest, Conserved
  <2>2. HarvestOK'
    BY <1>4 DEF HarvestRollback, HarvestOK, NoHarvest
  <2>3. \A d \in Depositors : DepositOK(d)'
    BY <1>4 DEF HarvestRollback, DepositOK
  <2> QED
    BY <2>1, <2>2, <2>3
<1>5. ASSUME NEW n \in Quantities, GrantInventory(n) PROVE IInv'
  <2>1. Increased(slot, n) \in 0..Limit /\ Increased(slot, n) >= slot
    BY IncreasedBounds DEF TypeOK
  <2>2. TypeOK' /\ Conserved'
    BY <1>5, <2>1 DEF GrantInventory, TypeOK, Conserved
  <2>3. HarvestOK' /\ \A d \in Depositors : DepositOK(d)'
    BY <1>5 DEF GrantInventory, HarvestOK, DepositOK
  <2> QED
    BY <2>2, <2>3
<1>6. ASSUME NEW d \in Depositors, NEW n \in Quantities, DepositLock(d, n)
      PROVE  IInv'
  <2>1. Moved(slot, n) \in 1..slot
    BY <1>6 DEF DepositLock, Moved, TypeOK
  <2>2. TypeOK' /\ Conserved'
    BY <1>6, <2>1 DEF DepositLock, SelectForUpdate, TypeOK, DepositState, Conserved
  <2>3. HarvestOK'
    BY <1>6 DEF DepositLock, SelectForUpdate, HarvestOK
  <2>4. DepositOK(d)'
    BY <1>6, <2>1 DEF DepositLock, SelectForUpdate, DepositOK, TypeOK
  <2>5. \A x \in Depositors \ {d} : DepositOK(x)'
    BY <1>6 DEF DepositLock, SelectForUpdate, DepositOK, TypeOK
  <2> QED
    BY <2>2, <2>3, <2>4, <2>5
<1>7. ASSUME NEW d \in Depositors, DepositCommit(d) PROVE IInv'
  <2>1. holder = d /\ deposit[d].current = slot /\ deposit[d].moved \in 1..slot
    BY <1>7 DEF DepositCommit, DepositOK
  <2>2. TypeOK' /\ Conserved'
    BY <1>7, <2>1 DEF DepositCommit, TypeOK, DepositState, NoDeposit, Conserved
  <2>3. HarvestOK'
    BY <1>7, <2>1 DEF DepositCommit, HarvestOK
  <2>4. \A x \in Depositors : DepositOK(x)'
    BY <1>7, <2>1 DEF DepositCommit, DepositOK, NoDeposit, TypeOK
  <2> QED
    BY <2>2, <2>3, <2>4
<1>8. ASSUME NEW d \in Depositors, DepositRollback(d) PROVE IInv'
  <2>1. holder = d
    BY <1>8 DEF DepositRollback, DepositOK
  <2>2. TypeOK' /\ Conserved'
    BY <1>8 DEF DepositRollback, TypeOK, DepositState, NoDeposit, Conserved
  <2>3. HarvestOK'
    BY <1>8, <2>1 DEF DepositRollback, HarvestOK
  <2>4. \A x \in Depositors : DepositOK(x)'
    BY <1>8, <2>1 DEF DepositRollback, DepositOK, NoDeposit, TypeOK
  <2> QED
    BY <2>2, <2>3, <2>4
<1>9. CASE UNCHANGED vars
  BY <1>9 DEF vars, TypeOK, Conserved, HarvestOK, DepositOK
<1> QED
  BY <1>1, <1>2, <1>3, <1>4, <1>5, <1>6, <1>7, <1>8, <1>9 DEF Next, DepositNothing

\* The invariant holds in every reachable state.
LEMMA Invariance == Spec => []IInv
BY InitIInv, StepIInv, PTL DEF Spec

\* Every row and local copy stays in its range, the slot within
\* InventorySlotLimit included (AddInventoryItem's least).
THEOREM TypeCorrect == Spec => []TypeOK
BY Invariance, PTL DEF IInv

\* Items are neither lost nor duplicated (DepositInventoryItem, AddInventoryItem
\* and the transactions around them).
THEOREM ItemsConserved == Spec => []Conserved
BY Invariance, PTL DEF IInv

-----------------------------------------------------------------------------

\* A quantity that grew has grown by something.
LEMMA Difference ==
  ASSUME NEW a \in 0..Limit, NEW b \in a..Limit, a # b
  PROVE  \E n \in 1..Limit : b = a + n
<1>1. b - a \in 1..Limit /\ b = a + (b - a)
  OBVIOUS
<1> QED
  BY <1>1

\* A slot that grows to at most the limit has received the difference.
LEMMA Received ==
  ASSUME TypeOK, slot' \in slot..Limit, bank' = bank
  PROVE  [Account!LNext]_<<slot, bank>>
<1>1. CASE slot' = slot
  BY <1>1
<1>2. CASE slot' # slot
  <2>1. PICK n \in 1..Limit : slot' = slot + n
    <3>1. slot \in 0..Limit /\ slot' \in slot..Limit /\ slot' # slot
      BY <1>2 DEF TypeOK
    <3> QED
      BY <3>1, Difference
  <2>2. Account!Receive(n)
    BY <2>1 DEF Account!Receive, TypeOK
  <2> QED
    BY <2>1, <2>2 DEF Account!LNext
<1> QED
  BY <1>1, <1>2

\* Each step is a step of Ledger or leaves carried and banked alone.
LEMMA RefinementStep == IInv /\ [Next]_vars => [Account!LNext]_<<slot, bank>>
<1> SUFFICES ASSUME IInv, [Next]_vars PROVE [Account!LNext]_<<slot, bank>>
  OBVIOUS
<1> USE DEF IInv
<1>1. CASE HarvestCommit
  <2>1. slot' \in slot..Limit
    BY <1>1 DEF HarvestCommit, HarvestOK, TypeOK, HarvestState
  <2> QED
    BY <1>1, <2>1, Received DEF HarvestCommit
<1>2. ASSUME NEW n \in Quantities, GrantInventory(n)
      PROVE  [Account!LNext]_<<slot, bank>>
  <2>1. slot' \in slot..Limit
    BY <1>2, IncreasedBounds DEF GrantInventory, TypeOK
  <2> QED
    BY <1>2, <2>1, Received DEF GrantInventory
<1>3. ASSUME NEW d \in Depositors, DepositCommit(d)
      PROVE  [Account!LNext]_<<slot, bank>>
  <2> DEFINE n == deposit[d].moved
  <2>1. n \in 1..Limit /\ n <= slot /\ slot' = slot - n /\ bank' = bank + n
    BY <1>3 DEF DepositCommit, DepositOK, TypeOK
  <2>2. Account!Deposit(n)
    BY <2>1 DEF Account!Deposit
  <2> QED
    BY <2>1, <2>2 DEF Account!LNext
<1>4. CASE UNCHANGED <<slot, bank>>
  BY <1>4
<1> QED
  BY <1>1, <1>2, <1>3, <1>4 DEF Next, TickSnapshot, TickUpsert, HarvestRollback,
     DepositLock, DepositRollback, DepositNothing, vars

\* Harvests, grants and deposits are atomic operations of Ledger.
THEOREM Refinement == Spec => ImplementsLedger
<1>1. Init => Account!LInit
  BY DEF Init, Account!LInit
<1> QED
  BY <1>1, Invariance, RefinementStep, PTL DEF Spec, ImplementsLedger, Account!LSpec
-----------------------------------------------------------------------------
(* Where the reported quantities are right *)

\* While the statement of a tick waits for the row, nobody else writes it.
UndisturbedTick == harvest.pc = "upsert" => slot' = slot

\* What an open harvest transaction reports is what it put into the slot, and
\* its statement's snapshot of the row is the row.
ReportOK ==
  /\ XPMatchesItems
  /\ harvest.rewards = harvest.took /\ harvest.xp = harvest.took
  /\ harvest.pc = "upsert" => harvest.before = OwnView

\* A step that leaves the row alone keeps it so.
LEMMA ReportStep == IInv /\ ReportOK /\ [Next]_vars /\ [UndisturbedTick]_vars => ReportOK'
<1> SUFFICES ASSUME IInv, ReportOK, [Next]_vars, [UndisturbedTick]_vars PROVE ReportOK'
  OBVIOUS
<1>0. harvest \in HarvestState /\ slot \in 0..Limit /\ xp \in Nat /\ reported \in Int
      /\ earned \in Nat
  BY DEF IInv, TypeOK
<1>1. CASE TickSnapshot
  <2>1. /\ harvest'.rewards = harvest.rewards /\ harvest'.xp = harvest.xp
        /\ harvest'.took = harvest.took /\ harvest'.value = harvest.value
        /\ harvest'.before = OwnView /\ UNCHANGED <<slot, holder, xp, reported, earned>>
    BY <1>0, <1>1 DEF TickSnapshot, HarvestState
  <2> QED BY <2>1 DEF ReportOK, XPMatchesItems, OwnView
<1>2. CASE TickUpsert
  <2> DEFINE after == Increased(OwnView, RewardQuantity)
  <2>1. OwnView \in 0..Limit
    BY <1>0 DEF OwnView, HarvestState
  <2>2. after \in 0..Limit /\ after >= OwnView
    BY <2>1, IncreasedBounds
  <2>3. harvest.before = OwnView
    BY <1>2 DEF TickUpsert, ReportOK
  <2> HIDE DEF after
  <2>4. /\ harvest'.rewards = harvest.rewards + (after - OwnView)
        /\ harvest'.took = harvest.took + (after - OwnView)
        /\ harvest'.xp = harvest.xp + (IF after - OwnView > 0 THEN after - OwnView ELSE 0)
        /\ harvest'.pc = "open"
    BY <1>0, <1>2, <2>3 DEF TickUpsert, HarvestState, after
  <2>5. harvest'.rewards = harvest'.took /\ harvest'.xp = harvest'.took
    BY <1>0, <2>1, <2>2, <2>4 DEF HarvestState, ReportOK
  <2> QED BY <1>2, <2>4, <2>5 DEF TickUpsert, ReportOK, XPMatchesItems
<1>3. CASE HarvestCommit
  <2>1. /\ xp' = xp + harvest.took /\ reported' = reported + harvest.took
        /\ earned' = earned + harvest.took /\ harvest' = NoHarvest
    BY <1>3 DEF HarvestCommit, ReportOK
  <2> QED BY <1>0, <2>1 DEF ReportOK, XPMatchesItems, NoHarvest
<1>4. CASE HarvestRollback
  BY <1>4 DEF HarvestRollback, ReportOK, XPMatchesItems, NoHarvest
<1>5. ASSUME UNCHANGED <<harvest, xp, reported, earned>>,
             harvest.pc = "upsert" => OwnView' = OwnView
      PROVE  ReportOK'
  BY <1>5 DEF ReportOK, XPMatchesItems
<1>6. ASSUME NEW n \in Quantities, GrantInventory(n) PROVE ReportOK'
  <2>1. harvest.pc = "upsert" => slot' = slot
    BY <1>6 DEF GrantInventory, vars, UndisturbedTick
  <2> QED BY <1>5, <1>6, <2>1 DEF GrantInventory, OwnView
<1>7. ASSUME NEW d \in Depositors, NEW n \in Quantities, DepositLock(d, n) PROVE ReportOK'
  <2>1. holder # Harvester /\ holder' # Harvester
    BY <1>7 DEF DepositLock, SelectForUpdate
  <2> QED BY <1>5, <1>7, <2>1 DEF DepositLock, OwnView
<1>8. ASSUME NEW d \in Depositors, DepositCommit(d) PROVE ReportOK'
  <2>1. holder # Harvester /\ holder' # Harvester
    BY <1>8 DEF DepositCommit, IInv, DepositOK
  <2>2. harvest.pc = "upsert" => slot' = slot
    BY <1>8 DEF DepositCommit, UndisturbedTick, vars
  <2> QED BY <1>5, <1>8, <2>1, <2>2 DEF DepositCommit, OwnView
<1>9. ASSUME NEW d \in Depositors, DepositRollback(d) PROVE ReportOK'
  <2>1. holder # Harvester /\ holder' # Harvester
    BY <1>9 DEF DepositRollback, IInv, DepositOK
  <2> QED BY <1>5, <1>9, <2>1 DEF DepositRollback, OwnView
<1>10. CASE UNCHANGED vars
  BY <1>5, <1>10 DEF vars, OwnView
<1> QED
  BY <1>1, <1>2, <1>3, <1>4, <1>6, <1>7, <1>8, <1>9, <1>10 DEF Next, DepositNothing

\* Where nobody writes the row between a tick's snapshot of it and its upsert
\* (AddInventoryItem's two CTEs), the rewards and the xp a harvest reports are
\* those of the items it really put into the inventory: that window, which the
\* run inventory_skew uses, is the only way they can differ.
THEOREM XPFollowsItems == Spec /\ [][UndisturbedTick]_vars => []XPMatchesItems
<1>1. Init => ReportOK
  BY DEF Init, ReportOK, XPMatchesItems, NoHarvest
<1>2. ReportOK => XPMatchesItems
  BY DEF ReportOK
<1> QED BY <1>1, <1>2, Invariance, ReportStep, PTL DEF Spec

=============================================================================
