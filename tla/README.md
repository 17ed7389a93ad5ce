# TLA+ models of tinytrees

tinytrees is an idle game: a player walks on a tile map, starts harvesting a
tree, and is paid items and experience per tick while the harvest runs, online
or not. The server is a Go backend over Postgres (`src/backend`), the client a
Flutter app (`src/frontend`), and there is a small admin page (`src/admin`).

This directory models the parts of the system whose correctness depends on how
requests, background workers, database transactions, realtime pushes and the
client's token storage interleave, checks them with TLC, and proves the
invariants that matter most with TLAPS.

## The system

All durable state is in Postgres, used at READ COMMITTED. Three kinds of
processes work on it: request handlers (one goroutine per HTTP request or
WebSocket connection), action workers, and event dispatchers. Workers and
dispatchers are embedded in the API process by default
(`RunEmbeddedWorkers`) and also run in the worker process, so there may be
several of each. Nothing is shared in memory between them except the realtime
broker's subscriber table.

| Component | State | Operations | Interacts with | Hard behaviour | Correct when |
|---|---|---|---|---|---|
| Harvest actions (`service/action.go`, `action_worker.go`, `store/postgres_tx.go`) | `player_actions` | StartHarvest, CancelActive, Resolve, ProcessDue | entities, inventory, skills, events | several workers, unlocked reads in requests, replay of missed ticks, rollback | one active harvest per player; every tick on schedule and once; nothing over revives; events agree with rows |
| Player lifecycle (`service/player.go`, `player_state_machine.go`) | `players` (position, movement) | Get, Move, settle a finished movement | actions (cancels them), entities | whole-row overwrite from an older read; decisions on an older read | a player under way has no harvest; a harvester stands beside its tree |
| Resource nodes (`service/resource_nodes.go`, `entity.go`) | `user_entities` | ensureResourceNodes on every load, depletion by a harvest | actions, movement, deposits | unsynchronised check-then-create | targets per tree type, one bank, nothing overlaps |
| Event log and outbox (`postgres_events.go`, `postgres_delivery.go`, `event_dispatcher*.go`, `events.go`) | `player_events`, `player_event_outbox`, `player_event_inbox` | append+enqueue, claim+insert+mark, ListInbox, AckInbox | producers are harvest actions; consumers WebSocket and HTTP clients | racing dispatchers, rollback, ids out of commit order | each completion delivered once, eventually, and kept |
| Inventory and bank (`inventory.go`, `postgres.go`, `postgres_tx.go`) | `player_inventory`, `player_bank` | AddInventoryItem, DepositInventoryItem, GrantInventory | harvest transaction, deposits, admin | row locks across statements, a capped upsert, statement snapshots | items conserved; the slot's limit respected; xp agrees with items |
| Admin (`admin.go`) | none of its own | GrantInventory, GrantXP, SetPlayerPosition | all of the above | cancels a harvest and overwrites the player row | same invariants |
| Realtime broker (`realtime.go`, `postgres_realtime.go`) | subscriber channels of size 1 | publish, Subscribe, dispatch, LISTEN loop | every service notifies; WebSocket sessions consume | merge of queued notifications without a lock, reconnects | no announced topic is lost while the listener is connected |
| WebSocket session (`handlers/websocket.go`) | last pushed JSON per topic | requests, pushes | all services | replies and pushes on one connection | the client converges to the server's state |
| Auth (`service/auth.go`, `auth/tokens.go`) | `users`, `sessions` (refresh hash, revoked) | guest and password login, UpgradeGuest, Refresh, Logout | the client's token refresher | rotation, lost answers, races | a refresh token is exchanged once; a name stays with its user |
| Client: tokens (`token_refresher.dart`, `auth_interceptor.dart`, `auth_repository.dart`) | the stored pair, the refresh in flight | refresh, restore, login, logout | auth service | a late answer after a login or logout, lost answers | holds the token its session accepts |
| Client: `game_socket`, inbox and player controllers | pending requests, inbox list, predicted player | requests, pushes, timers | WebSocket, HTTP | optimistic updates, timeouts, reconnects | converges to the server; nothing pushed is dropped |
| State snapshots, maps, handlers, configuration, rendering, admin page | snapshots / none | load, sync, draw | | last writer wins | |

`PROJECT.json` lists each component with what is modelled of it, and under
"hazards" what is hard to test, at its line.

## Modules

| Module | Contents |
|---|---|
| `PlayerActions` | Harvest actions, player lifecycle and movement, trees, the admin's teleport, action workers |
| `EventDelivery` | The outbox, dispatchers, the inbox, a polling client |
| `Notifications` | What event delivery promises: announce, deliver once, read after delivery |
| `InventoryBank` | One slot of the inventory and the bank balance of the item under the transactions that write them |
| `Ledger` | What inventory and bank promise: receive up to the limit, deposit, each in one step |
| `ResourceNodes` | `ensureResourceNodes` statement by statement, overlapping loads, felling |
| `Forests` | Where each kind of tree may stand and how many there should be (pure) |
| `Realtime` | From a commit over NOTIFY and the broker to what a client shows |
| `TopicFeed` | What the broker promises a subscriber: a set of changed topics |
| `Sessions` | Accounts, sessions, refresh tokens and the client's token storage |
| `PathSearch` | The steps a player may take, the heuristic, and one turn of the A* loop of `fastestPath` (pure) |
| `Pathfinding` | That loop to its end, what `Move` makes of it, the tile a walk has reached (pure) |
| `MCPlayerActions`, `MCEventDelivery`, `MCResourceNodes`, `MCForests`, `MCRealtime`, `MCSessions` | Model values and function-valued constants for TLC |
| `MCPathfinding` | `Pathfinding` against reference definitions; extended by `MCPlayerActions`, which also compares the corridor with it |
| `PlayerActions_proofs`, `PlayerActions_serial_proofs`, `EventDelivery_proofs`, `InventoryBank_proofs`, `ResourceNodes_proofs`, `Sessions_proofs`, `Realtime_proofs`, `PathSearch_proofs` | Theorems and proofs |

Definitions named `...Unchecked`, `...Late`, `No...` and the like that carry the
comment "Seeded fault" are mutated forms of the definition that follows them.
No specification uses them; they show that a property would notice such a bug.

### PlayerActions

One step is one SQL statement whose result is used later, or one commit.
A request handler's local copies (the player it read, the action row it will
write back) are in `handler[h]`, a worker's in `worker[w]`; a transaction's
uncommitted writes stay in that local state until the step that commits them.
`lock` holds the row locks that last from one step to another.

- `StartHarvest` is `HarvestReadActive`, `HarvestReadPlayer`, `HarvestCreate`.
  The service checks (`isHarvestableEntity`, adjacency, level) and the insert
  are one step: the tree and the xp they read change only when a harvest of the
  same player pays or completes, and since the request saw none active, one
  would have to start and run for a whole tick between two of its statements.
  The player copy it may write back was read one step before.
- `Get`, `Move` and the end of `SetPlayerPosition` share `resolveLifecycle`:
  `GetPlayer`, `Settle` (a finished movement is written back), `ResolveAction`.
  `Move` continues with `CancelRead`/`CancelSave` when it saw a harvest, then
  `MoveCheck` (which loads the entities and refuses an unwalkable target: after
  the cancellation) and `SaveMove`.
- `SetPlayerPosition` is `TeleportCheck`, `CancelRead`, `CancelSave`,
  `SaveTeleport` and then a `Get`.
- A worker is `WorkerSnapshot` (the clock, and the snapshot of the claim's
  statement), `WorkerLock` (`for update skip locked`; the newest version must
  qualify, the columns are those of the snapshot), one `WorkerTick` per
  turn of the loop, `WorkerFinish` (all the rest, and the commit).
- `HandlerFault` and `WorkerFault` stop a request or a transaction between any
  two statements; `WithinTx` rolls back.
- `ensureResourceNodes` is one atomic step here; `ResourceNodes` has its
  statements. A tree is born, stands, is felled, and is deleted when its stump
  expires; entity ids are never used again.

The map is a straight corridor of tiles, one tile per time unit, plus a tile no
path leads to (there `fastestPath` returns the start only, and `Move` puts the
player on the target at once, as the code does) and one that is not walkable.
`CorridorAssumption` in `MCPlayerActions` checks that `HasPath`, `Distance` and
`currentPlayerPoint` are what `Pathfinding` gives on that strip of tiles.
Items and xp are counted in rewards. `RecentClock` lets a statement run up to
`MaxLag` after the process read its clock.

### EventDelivery

`Append` writes an event and, if `shouldEnqueueInboxDelivery`, its outbox row in
a transaction that `ProducerCommit` or `ProducerRollback` ends. A dispatcher
claims (`for update skip locked`, ordered by `available_at, id`), inserts the
inbox item (`AppendInboxItem`, which takes an id from the sequence at once and
waits for, or fails on, the unique index) and marks and commits
(`DispatcherCommit`). Players list, poll with `after_id`, and acknowledge any
set of ids, their own or not. With the mapping in `Promise` the module
implements `Notifications`.

### InventoryBank

Rows of `player_inventory` are independent of each other, so one row and the
bank row of the same item are enough. `TickSnapshot` and `TickUpsert` are the
two moments of `AddInventoryItem`'s statement inside a harvest transaction: its
CTE `existing` reads at the start of the statement, its upsert works on the row
it could lock. There is at most one harvest transaction per player, because a
player has one active action (proved in `PlayerActions_proofs`) and a worker
holds its row. `DepositLock` is the `select ... for update`, `DepositCommit` the
rest. The service's checks before a deposit only refuse it and are left out; a
deposit while a harvest runs is possible through the overlap that the run
`overlap` shows, and through a worker that finishes a harvest late. `GrantInventory` can come at any time.
The mapping to `Ledger` is `carried <- slot, banked <- bank`.

### ResourceNodes and Forests

Whoever reads the entities first runs `ensureResourceNodes`. A load is
`ListEntities` (the clock is read with it), then `DeleteEntity` per expired
stump of the list, `ensureBankEntity`, one `spawnResourceEntity` per missing
tree, and `Return`; `LoadFails` ends it at any failed statement. `load[l].seen`
is the code's `filtered`: the list it read, less what it deleted, plus what it
created. The kinds still to be planted are recomputed from it, which is the
code's list computed once, since only the load itself changes `filtered`.
`depleteResourceNode` is the worker's felling at the end of a harvest.
`raced` is a history variable: the pairs of rows of which the later was created
by a load that had not seen the earlier.

`Forests` computes the places and targets that the constants `Candidates` and
`Target` stand for. `QuotaAssumption` in `MCResourceNodes` compares
`scaledTreeTargetCounts` with the definition of largest remainders.
`MCForests` takes the shipped map, `backend/tilemap.json` (128 by 128), which
`DefaultTileMap` loads: `ForestAssumption` says that the targets are 30, 20, 20,
10, 10, 10, that places lie on the map and that places of one forest keep the gap.

Kinds are planted in order, and the first that finds no place ends the load. What
keeps that from blocking the later kinds is room: `Apart[k]` is the set of places
of kind `k` that no bank, no place of another kind and no other place of `k` comes
close to, so that only a row on the place itself can spoil it, and the world is
`Roomy` when each kind has as many of them as its target and the stumps in its
forests. `RoomAssumption` finds that on the shipped map each kind has them for its
target and forty stumps. The fallback map of 64 by 32 tiles, which is used when no
`tilemap.json` is found, is not roomy: the first kind has 26 places for its 30
trees (`FallbackAssumption`).

### Realtime

One player, its topics and its WebSocket sessions. The content of a topic is the
stamp of the change that made it; only lists can return to an older content
(empty). `player` stands for the pushes of the player and of its action, which
one topic causes. A step is a commit, a publication, a notification read from
the LISTEN connection, one of the three `select`s of
`queueRealtimeNotification`, one read or write of the pusher
(`pushRealtimeNotification`) or of the read loop (`handleWebSocketMessage`).
`WriteTx` announces inside the transaction, `Write` and
`notifyRealtimeBestEffort` after it, `UnannouncedWrite` not at all (settling a
movement, planting trees on a read). The client fetches every topic when it is
connected (`Connect`, `Fetch`).

`Ack` is the optimistic acknowledgement of the inbox controller: the items shown
are marked read at once (`Own`, a list the server does not have), and the list
of that moment is kept in `base` until the answer comes. `AckInbox` marks the
rows, `AckAnnounced` announces it before the reply, and `Merged` is what the
controller makes of the answer: the answered items put into the kept list. The
answer carries the items as they were before the update, because the select of
`markInboxItemsRead` stands beside the update in one statement and cannot see
it. So an acknowledged item is shown as unread again until the push of the
acknowledgement arrives; `StaleForAReason` says that this push is on its way.

`gap[s]` is a history variable with the topics that may be left behind for one
of the reasons `StaleForAReason` names. They are what the code really does:
announcements while the listener is down or whose statement failed, reads that
failed, a push and a reply of one topic whose reads and writes crossed, a push
left out because its content equals the last one pushed although a reply showed
something else meanwhile. A pusher whose write timed out is `dead` while the
connection stays.

With the mapping in `Feed` the module implements `TopicFeed`: a channel of one
element, merged by take-and-put without a lock, is as good as a set of topics
per subscriber.

### Sessions

`Refresh` is its two statements: `CheckRefresh` (the row is read and compared)
and `Refresh` (the pair is minted and its hash stored, where not revoked).
`calls` holds the client's call in flight and, under the ids of `Late`, those
whose client has given up: the server may still execute them. The two tokens of
a pair are one number and a hash is the token it was made of. Access tokens are
not looked up by the server; whether one is still valid only decides when the
interceptor refreshes, and here a refresh may start at any time.

The client is one app with one operation of `AuthRepository` at a time
(`restore`, `LoginPassword`, `logout`, `Restart`) while its `TokenRefresher`
works beside it. `reasons` records what may put client and server out of step: a
lost answer, a refresh that crossed a sign-in or a logout, a restore that gave
the stored pair up on a failed call.

### PathSearch and Pathfinding

A* over the eight neighbours of a tile, with corner cutting forbidden. Costs are
pairs of straight and diagonal steps, compared exactly; nodes of equal priority
leave the heap in any order, so `fastestPaths` is the set of paths the code may
return. `ShortestAssumption` compares it with the shortest of all walks on every
map of 3 by 2 tiles and on two larger ones, `PassedAssumption` follows a walk
along its path, `MoveAssumption` checks obstacles, felled trees and a player who
has been built in. Rounding of the costs is left out: it can only decide between
paths of equal length. `PathSearch` holds what is not recursive, a turn of the loop on
its three variables `cost`, `came` and `open`, so that it can be proved about.

## Runs

| Run | Instance | Shows |
|---|---|---|
| `workers` (2.1 million states) | 1 player, 1 tree, 2 action ids, 2 workers, 2 connections (harvest+move, harvest), clock 0..4, a worker's clock reading up to 1 old | `OneActiveAction`, `TickSchedule`, `EventsMatchRows`, `NeverRevived` under every interleaving |
| `connection` (0.4 million states) | 1 player, 2 trees (one needs level 2), 2 action ids, 1 worker, 1 connection sending every kind of request, missed rolls, 1 fault, clock 0..5 | `PaidAsScheduled`, `NeverMovingWhileHarvesting`, `HarvestBesideTree`, `HarvestsEnd`, `TypeOK` |
| `overlap` | 2 connections, 1 worker | violation of `NeverMovingWhileHarvesting` |
| `double_pay` | 2 workers | violation of `RewardsMatchItems` |
| `event_delivery` (75 thousand states) | 3 events (2 worth delivery), 2 players, 2 dispatchers, pages of 1, 2 rollbacks, 4 inbox ids | `DeliveredOnce`, `ItemsAreKept`, `ImplementsNotifications` with its liveness |
| `polling` | 2 events, 2 dispatchers | violation of `PollingMissesNothing` |
| `inventory` (6.6 thousand states) | 2 depositors, quantities 1 and 3, limit 3, 2 ticks per harvest transaction | `Conserved`, `ImplementsLedger`, `TypeOK` |
| `inventory_skew` | 1 depositor | violation of `XPMatchesItems` |
| `resource_nodes` (0.25 million states) | 2 loads, 2 kinds of one tree each, 3 places (one of the first kind leaves no room for the second), 1 felled tree, 1 failed statement, clock 0..2, 8 row ids | `SpacedUnlessRaced`, `NoSurplusUnlessRaced`, `OnlyExpiredStumpsGo`, `EventuallyRestored` |
| `forests` (0.11 million states) | the shipped map and targets, all trees but one of the last kind planted, a stump of the second kind, 1 load, 1 failed statement, clock 0..1 | `TargetsReached`: a load that comes to its end has planted every kind |
| `realtime` (0.19 million states) | 2 topics (a list, which is acknowledged too, and the silently changing `player`), 1 session, 1 writer, 2 commits, 1 extra request or acknowledgement, 1 fault | `StaleForAReason`, `Converges`, `ImplementsTopicFeed` |
| `sessions` (1.4 million states) | 2 futures of one refresher, 2 sessions, 4 pairs, 2 names and upgrades, 1 expiry, 1 fault | `ExchangedOnce`, `InStep`, `NameKeepsUser` |

Every constant commented "bound" in a module limits only how far a behaviour is
followed: `MaxTime`, `MaxFaults`, `MaxInboxId`, `MaxTicks`, `MaxInflow`,
`MaxLag`, `ActionIds`, `Corridor`, `Ids`, `MaxFells`, `MaxChanges`,
`MaxRequests`, `MaxSessions`, `MaxTokens`, `MaxUpgrades`, `MaxExpiries`.

Why these bounds reach the interesting cases. A harvest lasts 3 with ticks at 2
and 3, so the last interval is shorter than the others, a worker may replay two
ticks at once, and the clock leaves room for a second harvest, which is what a
stale copy of the first could damage. In `connection` the slot limit is
out of reach of the harvests, since the cap would hide an overpayment; `inventory` is where the
limit is met. Two workers and two requests are the smallest number whose
statements can overlap in each way the code allows; the claims of a third worker
only skip more rows. Two trees and the level requirement let a felled tree
expire, another be spawned and a level-up open it. In `event_delivery` the
number of inbox ids exceeds events plus rollbacks' losses, so a delivery is
never blocked by the bound (otherwise the liveness part of
`ImplementsNotifications` would fail). In `resource_nodes` the ids suffice for
both loads to create everything twice and once more after a felling (a smaller
number would fail `EventuallyRestored`). In `forests` one missing tree and one
stump, with the load starting before or after the stump expires, are enough for
each kind to be looked at; where the other trees stand does not matter, which the
theorem `EveryKindPlanted` shows in general. In `realtime` a second commit can come
at each moment of the first one's way to the client, which is what the merge,
the suppression and the crossing of replies need; the broker visits its
subscribers one after another and they share nothing else, so one session shows
what can happen to each. In `sessions` a token can be exchanged, its answer
lost, presented again, and a second session be opened meanwhile.

`NeverMovingWhileHarvesting` and `PaidAsScheduled` hold for one connection and
one worker, and the runs `overlap` and `double_pay` show that they, or their
stronger forms, fail with two: the passing run says what the code does guarantee.
`HarvestBesideTree` needs one connection for the same reason.

**Fairness.** `FairSpec` of `PlayerActions` assumes the clock advances, each
worker keeps taking its steps (`ActionWorker.Run` is a ticker loop that calls
`ProcessDue` for ever, errors are logged and the loop goes on), and a request
that was accepted runs on (a goroutine). No request and no fault is ever owed.
`FairSpec` of `Realtime` assumes the same of the broker's listener (which
reconnects for ever, `Run`), of the pusher and the read loop, of a handler that
has committed and goes on to announce, and that a connected client sends its
fetches. `FairSpec` of `ResourceNodes` assumes time passes and the client keeps
reading the entities, as an open game does: nothing is planted otherwise.
`Sessions` needs none; its properties are safety. Weak fairness is enough: a
worker's step stays enabled while a row is due and unlocked. `FairSpec` of `EventDelivery` assumes the same of the dispatchers
(`EventDispatcherWorker.Run`). Faults are finite in number, as an outage that
never ends delivers nothing. `EventDelivery` owes neither a producer's commit
nor a poll.

Deadlock is checked where a bounded instance always has a request, a read or an
acknowledgement left to do; in `realtime` and `sessions` everything may come to
rest once the bounded numbers of changes, requests and sign-ins are used up, so
there it is off.

## Findings

Four runs end in a violation; `PROJECT.json` quotes the lines. In short:

1. `overlap`: `Move` of one connection and `StartHarvest` of another leave the
   player moving with a paid, active harvest.
2. `double_pay`: the claim returns the row of its statement's snapshot, so a
   second worker can pay again ticks committed by the first.
3. `polling`: inbox ids are not in commit order, so a client paging by
   `after_id` may skip an item for ever.
4. `inventory_skew`: `after - before` mixes two moments when the upsert waited,
   so xp and reward counts differ from the items added.

Seen while modelling, without a run of its own: the answer of an inbox
acknowledgement says "unread" of the items it has just marked (see Realtime
above), while `backend/internal/service/events_test.go:41` expects "read" of an
in-memory store.

## Proofs

The theorems hold for every value of the constants that satisfies the
module's named assumption (`ConstantsAssumption`, `DeliveryAssumption`,
`InventoryAssumption`, `ResourceNodesAssumption` with `GrownAssumption`,
`SessionsAssumption`, `RealtimeAssumption`): any number of players, trees, workers,
connections, dispatchers, loads, sessions, topics and calls, any durations, limits,
targets and places.

`PlayerActions_proofs`: `TypeCorrect`, `AtMostOneActive`, `TicksOnSchedule`,
`NoRevival`. None of the last three is inductive. A worker saves a copy of a row
taken before it had the lock, and `CancelSave` writes back a copy read without
one, so the invariant `IInv` also says, for each process, how its copy relates
to the stored row: the same owner, target, start, end and interval; on the
schedule; and, while a worker holds the lock, the stored row still active (only
the lock's owner may take it out of that status, as `CancelSave` waits for it).
`AtMostOneActive` then follows from the unique index at the insert and from the
fact that no write makes an action active again. The proofs have one step per
action of `Next`.

`PlayerActions_serial_proofs`: what holds of harvests and payments, and what has to
be kept apart for it.

- `EventsAgree` needs nothing: whoever writes a row appends its events in the same
  transaction, so the numbers of events follow from the rows and from what the open
  transactions have done to them. It is about numbers: the order of the events and
  the level-up events are not part of it, and a stale cancellation may add a second
  cancelled event or turn a completed row, with its completed event, cancelled. The invariant is about rows and copies together,
  and `IInv` supplies that a copy written back is of the same action.
- `HarvestersStandStill` and `HarvestersStandBesideTree` assume `[]SerialRequests`:
  no two requests of one player are under way at once. The run `overlap` shows that
  this cannot be dropped. Under it `StandInv` is inductive: what a request has read
  of the player is still so, save that a worker may have ended the harvest, so
  `SaveMove` cannot meet a harvest and `HarvestCreate` cannot meet a movement.
  `OneConnectionStands` discharges the hypothesis for one connection.
- `OneWorkerPaysAsScheduled` assumes `[]SerialWorkers`: the workers' transactions do
  not overlap; the run `double_pay` shows why. `PayInv` relates what is paid to the
  tick counts of the rows and to the uncommitted count of the open transaction.
  `SingleWorkerPays` is the instance with one worker.

These hypotheses are about what the environment does at once, not about values of
the model: a deployment with one worker, or a player with one device, satisfies them.

`EventDelivery_proofs`: `TypeCorrect`, `ExactlyOnce`, `ItemsKept`, and the
safety part of the refinement (`Refinement`). The strengthening of
`DeliveredOnce` says that a claimed delivery is pending and held by one
dispatcher, that an item being inserted has an id nobody else has, and that all
ids are at most the sequence's last. `SerialPollingMissesNothing` is what the run
`polling` leaves of paging by `after_id`: while the dispatchers' transactions do not
overlap (`SerialDispatch`; `OneDispatcherPolling` for one dispatcher) an item becomes
visible with an id above all others, so above every cursor, and a page, cut at any
length, has no gap (`PageHasNoGap`, an argument on cardinalities).

`InventoryBank_proofs`: `TypeCorrect`, `ItemsConserved`, `Refinement` (to
`Ledger`). The strengthening says what the holder of the lock knows: a locked
depositor's copy equals the committed slot, and the open harvest's value is the
slot plus what it took. Every step of `Next` is then a step of `Ledger` or leaves
`carried` and `banked` alone. `XPFollowsItems` is the other side of the run
`inventory_skew`: if no tick's upsert finds the slot changed since its statement
began (`UndisturbedTick`), experience and reports agree with the items.

`ResourceNodes_proofs`: `TypeCorrect`, `Spaced`, `WithinTarget`,
`OnlyStumpsDeleted`, `EveryKindPlanted`. The strengthening `IInv` says what a load's list knows of the
table however old it is: an entry and the row of its id have the same kind and
place, and are equal once the row is a stump (`CopiesAgree`); a bank that was
listed still stands, and a list that is not empty has one (`BanksStay`); rows and lists are finite, so that trees can be counted. The new
row is added to `raced` with every row its load had not seen. `WithinTarget` is
then an argument on cardinalities: of a set of trees no two of which raced, the
new tree's load has seen all others, and it counted them before it planted.
`EveryKindPlanted` needs that every row stands on a place of its kind
(`OnOwnPlaces`). If a kind had no room left, then on each of its places apart stood a
row, which can only be one of its own (`FullIfNoRoom`); a row stands on one place, so
there are at least as many rows of the kind as places apart, and less its stumps they
reach the target (`TreesAndStumps`): the kind was not missing at all.

`Sessions_proofs`: `TypeCorrect`, `NoReplay`, `ClientInStep`, `NamesAreKept`. The
strengthening says which pairs belong to which session and are unknown to
everyone else (`OwnTokens`, `AnswersOK`), that one refresh is in flight at most
(`OneFlight`), how often a token can have been exchanged given whether its session
still has it and who has checked it (`Exchanges`), and, while nothing of `reasons`
has happened, where the session's current token is: in storage, or in the answer
on its way (`Follows`, `NewLogin`).

`Realtime_proofs`: `TypeCorrect`, `StaleOnlyForAReason`, `Refinement` (to
`TopicFeed`). `Shape` says which topics each goroutine has in hand at each of its
statements; only the broker puts into a channel, so a channel is empty while its
session is in `putBack`, and nothing is dropped there. `Reasons` is the inductive form
of `StaleForAReason`: it also says, whatever the client shows now, what is true of the
content being pushed (`PushOK`), of the reply being sent (`ReplyOK`) and of the list
an acknowledgement will put back (`AckOK`), since these become the view later. The
refinement maps a session's dirty set to everything on its way to it, wire and broker
included.

`PathSearch_proofs`: `HeuristicConsistent`, `PathIsShortest`, `NoPathMissed`,
`CameFromLeadsBack`, for every map and every two points that differ, with the loop as
a behaviour (`Loop`: a turn for each popped node). Costs are pairs standing for
`s + d*sqrt(2)`; that they are ordered and added like those numbers
(`NonNegativeSum`) is shown on squares of integers. The invariant `SearchOK` says that
a point whose node was popped since it was last improved has nothing to give to its
neighbors (`Relaxed`), that priorities are never below what they are now worth, and
that `cameFrom` leads over an allowed step to a point at least that much cheaper. When
the target is popped, follow any walk to it from the start: either every point of it is
known at no more than the walk's cost, or one of those has a node still waiting, whose
priority the consistent heuristic keeps at or below the walk's cost. Both are
inductions along the walk, written with sets of indices (`UpTo`, `DownTo`). `Traced`
stands for what `reconstructPath` returns, which is recursive itself;
`CameFromLeadsBack` shows that there is such a path from every point seen. If there
were none from some, one of these with the fewest points not dearer than itself (the
strict subset order on finite sets is well-founded) would come from a strictly cheaper
one, which has a path. The run `connection` evaluates `ShortestAssumption`, which says the same of the
recursive definitions on small maps.

Model-checked only: the placement and quotas of `Forests` and that the shipped map is
`Roomy` (assumptions that TLC evaluates), the recursive rest of
`Pathfinding` (reconstruction of a path, the tile a walk has reached), and everything
under fairness (`HarvestsEnd`, `EventuallyRestored`, `Converges`, the liveness part of
`ImplementsNotifications`), which is out of the prover's reach, as is `ENABLED`.

## What is left out of the models

- Creation of a player's row on first use; deletion of a user.
- `entity_id` of an action being set to null when its tree is deleted. An entity
  is deleted only as an expired stump; the rows that lose their reference are
  those of finished harvests of that tree.
- The settling of a finished movement by `Deposit` (the same read and write
  as the one in `Get`), the outcome of best-effort realtime notifications,
  texts and payloads of events, timestamps that no decision reads.
- In `Realtime`: rows of a topic (its content is one value, so an inbox cut to the
  50 oldest items looks like any other content), `last` is kept per topic.
- In `Sessions`: several apps or tabs sharing one account are further sessions
  that do not touch this client's storage; hashing, signing, and the rejection of
  revoked sessions by access-token checks, which the code does not do.
- The client's `GameSocket` (pending requests, timeouts, backoff), so also an acknowledgement
  that times out while it is handled, or two of them at once; its player
  controller: which server states it accepts while it predicts a move.
- State snapshots and tile maps: one upsert each, decided by one read.
- `GrantXP` and the read-only queries.

## Plan

Done: the harvest core, event delivery, inventory and bank, resource nodes,
realtime updates with the inbox controller, sessions, path search.

Next, in this order:

1. `PlayerController`: the expected move id, which authoritative player is
   accepted while a move is predicted, the settling timer.
2. `GameSocket`: pending requests, timeouts, reconnect, `close` during `_open`.

Theorems worth proving next: that the candidates of one cluster of `Forests` keep the
gap; and those of `PlayerController` and `GameSocket` once they are modelled.
