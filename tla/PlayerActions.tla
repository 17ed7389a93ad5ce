--------------------------- MODULE PlayerActions ---------------------------
(***************************************************************************)
(* Harvest actions and the player lifecycle of the tinytrees backend.      *)
(*                                                                         *)
(* All state lives in Postgres (READ COMMITTED).  Two kinds of processes   *)
(* work on it at the same time:                                            *)
(*   - request handlers (HTTP or WebSocket goroutines): StartHarvest,      *)
(*     Move, Get and the admin's SetPlayerPosition;                        *)
(*   - action workers (embedded in the API and/or the worker process):     *)
(*     claim a due action, replay its ticks, save it.                      *)
(* One step of the model is one SQL statement whose result is used later,  *)
(* or one commit.  A transaction's own uncommitted writes are kept in the  *)
(* process's local state until its commit step; row locks it holds across  *)
(* steps are in `lock`.                                                    *)
(***************************************************************************)
EXTENDS Integers, FiniteSets

CONSTANTS
  Users,          \* players
  Entities,       \* ids of user_entities rows of type "resource" (per user)
  ActionIds,      \* bound: ids of player_actions rows
  Workers,        \* action workers
  Handlers,       \* request handlers that may run at the same time
  Ops,            \* [Handlers -> SUBSET OpNames], the requests each one gets
  Corridor,       \* bound: tiles 0..Corridor form a straight walkable path
  Island,         \* a walkable tile no path leads to
  Water,          \* a tile that is not walkable
  Beside,         \* [Entities -> SUBSET Tiles], isAdjacentToEntity
  RequiredLevel,  \* [Entities -> Nat], requiredLevelForEntity
  Duration,       \* [Entities -> Nat], harvestDurationForEntity
  BaseInterval,   \* defaultHarvestTickInterval
  MinInterval,    \* minHarvestTickInterval
  Rolls,          \* outcomes of the roll against success_chance
  SlotLimit,      \* domain.InventorySlotLimit
  XPPerLevel,     \* rewards per level, stands for skillLevelForXP
  StumpLifetime,  \* resourceStumpLifetime
  TargetTrees,    \* resourceNodeTargetCount
  MaxTime,        \* bound: the clock stops here
  MaxLag,         \* bound: age of a clock reading when it is used
  MaxFaults,      \* bound: transactions rolled back and handlers that fail
  NoUser, NoEntity, NoWorker, NoAction, NoMovement

OpNames == {"harvest", "move", "get", "entities", "teleport"}

Tiles == 0..Corridor \cup {Island}

ASSUME ConstantsAssumption ==
  /\ Corridor \in Nat /\ Island \in Nat /\ Island > Corridor
  /\ Water \notin Tiles
  /\ Beside \in [Entities -> SUBSET Tiles]
  /\ RequiredLevel \in [Entities -> Nat]
  /\ Duration \in [Entities -> Nat \ {0}]
  /\ BaseInterval \in Nat /\ MinInterval \in Nat \ {0}
  /\ Rolls \subseteq BOOLEAN /\ Rolls # {}
  /\ SlotLimit \in Nat /\ XPPerLevel \in Nat \ {0}
  /\ StumpLifetime \in Nat /\ TargetTrees \in Nat
  /\ MaxTime \in Nat /\ MaxLag \in Nat /\ MaxFaults \in Nat
  /\ Ops \in [Handlers -> SUBSET OpNames]
  /\ NoUser \notin Users /\ NoEntity \notin Entities
  /\ NoWorker \notin Workers /\ NoAction \notin ActionIds

VARIABLES
  now,        \* the clock
  players,    \* players rows: position and movement
  trees,      \* user_entities rows: state and stump_expires_at
  actions,    \* player_actions rows
  lock,       \* the worker whose transaction holds a row of player_actions
  inventory,  \* player_inventory quantity of the rewarded item
  xp,         \* player_skills xp, counted in rewards
  paid,       \* history: items added to the inventory on behalf of an action
  events,     \* player_events: how many of each type an action emitted
  outbox,     \* player_event_outbox rows enqueued for an action's events
  worker,     \* local state of each action worker
  handler,    \* local state of each request handler
  faults      \* faults injected so far

dbVars == <<players, trees, actions, inventory, xp, paid, events, outbox>>
vars == <<now, dbVars, lock, worker, handler, faults>>

Statuses == {"active", "cancelled", "completed"}

Movement == [from : Tiles, target : Tiles, started : Nat, arrives : Nat]

Player == [at : Tiles, movement : Movement \cup {NoMovement}]

Row == [status : Statuses \cup {"absent"}, user : Users \cup {NoUser},
        entity : Entities \cup {NoEntity}, started : Nat, ends : Nat,
        next : Nat, interval : Nat, ticks : Nat, rewards : Nat, level : Nat]

AbsentRow == [status |-> "absent", user |-> NoUser, entity |-> NoEntity,
              started |-> 0, ends |-> 0, next |-> 0, interval |-> 0,
              ticks |-> 0, rewards |-> 0, level |-> 0]

EventTypes == {"started", "cancelled", "completed", "depleted", "levelUp"}

WorkerState == [pc : {"idle", "lock", "advance", "finish"},
                now : Nat, snap : [ActionIds -> Row],
                id : ActionIds \cup {NoAction}, row : Row, granted : Nat]

HandlerPCs == {"idle", "harvestPlayer", "harvestCreate", "getPlayer",
               "settle", "resolve", "cancelRead", "cancelSave",
               "ensure", "saveMove", "saveTeleport"}

HandlerState == [pc : HandlerPCs, op : OpNames, user : Users \cup {NoUser},
                 now : Nat, tile : Tiles \cup {Water},
                 entity : Entities \cup {NoEntity}, player : Player, id : ActionIds \cup {NoAction}, row : Row]

\* Every row and every process's copy of one is well-formed; in particular a
\* position a player is saved at is always a tile of the map.
TypeOK ==
  /\ now \in Nat
  /\ players \in [Users -> Player]
  /\ trees \in [Users -> [Entities -> [state : {"unborn", "idle", "depleted", "deleted"},
                                       expires : Nat]]]
  /\ actions \in [ActionIds -> Row]
  /\ lock \in [ActionIds -> Workers \cup {NoWorker}]
  /\ inventory \in [Users -> Nat]
  /\ xp \in [Users -> Nat]
  /\ paid \in [ActionIds -> Nat]
  /\ events \in [ActionIds -> [EventTypes -> Nat]]
  /\ outbox \in [ActionIds -> Nat]
  /\ worker \in [Workers -> WorkerState]
  /\ handler \in [Handlers -> HandlerState]
  /\ faults \in Nat

IdlePlayer == [at |-> 0, movement |-> NoMovement]

IdleWorker == [pc |-> "idle", now |-> 0, snap |-> [a \in ActionIds |-> AbsentRow],
               id |-> NoAction, row |-> AbsentRow, granted |-> 0]

IdleHandler == [pc |-> "idle", op |-> "get", user |-> NoUser, now |-> 0,
                tile |-> 0, entity |-> NoEntity, player |-> IdlePlayer,
                id |-> NoAction, row |-> AbsentRow]

Init ==
  /\ now = 0
  /\ players = [u \in Users |-> IdlePlayer]
  /\ trees = [u \in Users |-> [e \in Entities |-> [state |-> "unborn", expires |-> 0]]]
  /\ actions = [a \in ActionIds |-> AbsentRow]
  /\ lock = [a \in ActionIds |-> NoWorker]
  /\ inventory = [u \in Users |-> 0]
  /\ xp = [u \in Users |-> 0]
  /\ paid = [a \in ActionIds |-> 0]
  /\ events = [a \in ActionIds |-> [t \in EventTypes |-> 0]]
  /\ outbox = [a \in ActionIds |-> 0]
  /\ worker = [w \in Workers |-> IdleWorker]
  /\ handler = [h \in Handlers |-> IdleHandler]
  /\ faults = 0

-----------------------------------------------------------------------------
(* Helpers *)

minTime(a, b) == IF a < b THEN a ELSE b

skillLevelForXP(x) == 1 + x \div XPPerLevel

harvestTickInterval(current, required) ==
  LET bonus == IF current > required THEN current - required ELSE 0
      interval == BaseInterval - bonus
  IN  IF interval < MinInterval THEN MinInterval ELSE interval

Distance(a, b) == IF a < b THEN b - a ELSE a - b

\* fastestPath yields only the start tile when it is the target or when the
\* target cannot be reached; a path of length 1 is not a movement.
HasPath(a, b) == a # b /\ Island \notin {a, b}

\* The path tile a player has entered at time t (one tile per time unit): a
\* tile counts as left only when strictly more than its cost has elapsed.
currentPlayerPoint(p, t) ==
  IF p.movement = NoMovement THEN p.at
  ELSE LET m == p.movement
           done == IF t > m.started THEN t - m.started - 1 ELSE 0
       IN  IF t >= m.arrives THEN m.target
           ELSE IF m.from < m.target THEN m.from + done ELSE m.from - done

Arrived(p, t) == p.movement # NoMovement /\ t >= p.movement.arrives

\* The row once the movement, if there is one, is over.
Settled(p) == [at |-> IF p.movement = NoMovement THEN p.at ELSE p.movement.target,
               movement |-> NoMovement]

ActiveOf(u) == {a \in ActionIds : actions[a].status = "active" /\ actions[a].user = u}

\* Seeded fault: a row is due only after its tick time.
DueLate(row, t) == row.status = "active" /\ (row.next < t \/ row.ends < t)

Due(row, t) == row.status = "active" /\ (row.next <= t \/ row.ends <= t)

Emit(a, types) == events' = [events EXCEPT ![a] =
                    [t \in EventTypes |-> @[t] + (IF t \in types THEN 1 ELSE 0)]]

\* Seeded fault: next_tick_at is missing from the update.
saveActionWithoutNextTick(a, row) ==
  actions' = [actions EXCEPT ![a] =
    [@ EXCEPT !.status = row.status, !.ends = row.ends,
              !.ticks = row.ticks, !.rewards = row.rewards, !.level = row.level]]

\* The columns saveAction writes; the others keep what createAction put there.
saveAction(a, row) ==
  actions' = [actions EXCEPT ![a] =
    [@ EXCEPT !.status = row.status, !.ends = row.ends, !.next = row.next,
              !.ticks = row.ticks, !.rewards = row.rewards, !.level = row.level]]

Goto(h, pc) == handler' = [handler EXCEPT ![h].pc = pc]
Answer(h) == handler' = [handler EXCEPT ![h] = IdleHandler]

-----------------------------------------------------------------------------
(* Requests *)

\* A clock reading taken shortly before the statement that uses it.
RecentClock == {t \in 0..now : t >= now - MaxLag}

\* A request arrives and runs up to its first statement.
Arrive(h, u, op, pc) == [IdleHandler EXCEPT !.pc = pc, !.op = op, !.user = u]

\* StartHarvest reads the clock, then its first statement: an active action
\* refuses the request.
HarvestReadActive(h, u, e) ==
  /\ handler[h].pc = "idle" /\ "harvest" \in Ops[h]
  /\ ActiveOf(u) = {}
  /\ \E t \in RecentClock :
       handler' = [handler EXCEPT ![h] =
         [Arrive(h, u, "harvest", "harvestPlayer") EXCEPT !.entity = e, !.now = t]]
  /\ UNCHANGED <<now, dbVars, lock, worker, faults>>

\* StartHarvest, second statement: a player under way refuses the request.
HarvestReadPlayer(h) ==
  LET p == players[handler[h].user] IN
  /\ handler[h].pc = "harvestPlayer"
  /\ IF p.movement # NoMovement /\ ~Arrived(p, handler[h].now)
     THEN Answer(h)
     ELSE handler' = [handler EXCEPT ![h].pc = "harvestCreate", ![h].player = p]
  /\ UNCHANGED <<now, dbVars, lock, worker, faults>>

\* Seeded fault: adjacency is checked where the last movement started.
CanHarvestUnsettled(u, e, p) ==
  /\ trees[u][e].state = "idle"
  /\ p.at \in Beside[e]
  /\ skillLevelForXP(xp[u]) >= RequiredLevel[e]

\* isHarvestableEntity, isAdjacentToEntity and the level requirement.
CanHarvest(u, e, p) ==
  /\ trees[u][e].state = "idle"
  /\ Settled(p).at \in Beside[e]
  /\ skillLevelForXP(xp[u]) >= RequiredLevel[e]

NewAction(u, e, t) ==
  LET level == skillLevelForXP(xp[u])
      interval == harvestTickInterval(level, RequiredLevel[e])
      ends == t + Duration[e]
  IN  [status |-> "active", user |-> u, entity |-> e, started |-> t,
       ends |-> ends, next |-> minTime(t + interval, ends),
       interval |-> interval, ticks |-> 0, rewards |-> 0, level |-> level]

\* Seeded fault: the index does not exist.
NoActiveIndex(u) == TRUE

\* The partial unique index player_actions_one_active_idx.
OneActiveIndex(u) == ActiveOf(u) = {}

\* StartHarvest: settle a finished movement (SavePlayer writes the copy that
\* was read), validate, insert, append the event, commit; any refusal rolls
\* the whole transaction back.
HarvestCreate(h) ==
  LET u == handler[h].user
      e == handler[h].entity
      p == handler[h].player
      unused == {a \in ActionIds : actions[a].status = "absent"}
      a == CHOOSE x \in unused : TRUE
  IN
  /\ handler[h].pc = "harvestCreate"
  /\ Answer(h)
  /\ IF CanHarvest(u, e, p) /\ OneActiveIndex(u) /\ unused # {}
     THEN /\ actions' = [actions EXCEPT ![a] = NewAction(u, e, handler[h].now)]
          /\ Emit(a, {"started"})
          /\ players' = IF p.movement = NoMovement THEN players
                        ELSE [players EXCEPT ![u] = Settled(p)]
     ELSE UNCHANGED <<actions, events, players>>
  /\ UNCHANGED <<now, trees, lock, inventory, xp, paid, outbox, worker, faults>>

\* resolveLifecycle, for Get, Move and the end of SetPlayerPosition: GetPlayer,
\* and the clock that decides whether the movement just read is finished.
GetPlayer(h, request) ==
  LET p == players[request.user] IN
  /\ handler' = [handler EXCEPT ![h] = [request EXCEPT
       !.player = IF Arrived(p, now) THEN Settled(p) ELSE p,
       !.pc = IF Arrived(p, now) THEN "settle" ELSE "resolve"]]
  /\ UNCHANGED <<now, dbVars, lock, worker, faults>>

Get(h, u) ==
  /\ handler[h].pc = "idle" /\ "get" \in Ops[h]
  /\ GetPlayer(h, Arrive(h, u, "get", "idle"))

Move(h, u, tile) ==
  /\ handler[h].pc = "idle" /\ "move" \in Ops[h]
  /\ GetPlayer(h, [Arrive(h, u, "move", "idle") EXCEPT !.tile = tile])

TeleportGet(h) == handler[h].pc = "getPlayer" /\ GetPlayer(h, handler[h])

\* resolveCompletedMovement: SavePlayer overwrites the whole row.
Settle(h) ==
  /\ handler[h].pc = "settle"
  /\ players' = [players EXCEPT ![handler[h].user] = handler[h].player]
  /\ Goto(h, "resolve")
  /\ UNCHANGED <<now, trees, actions, inventory, xp, paid, events, outbox,
                 lock, worker, faults>>

\* Seeded fault: Move leaves a harvest alone.
ResolveActionKeepsHarvest(h) ==
  /\ handler[h].pc = "resolve"
  /\ IF handler[h].op # "move" THEN Answer(h) ELSE Goto(h, "ensure")
  /\ UNCHANGED <<now, dbVars, lock, worker, faults>>

\* resolveLifecycle: Resolve reads the active action; Get answers, Move
\* cancels a harvest it sees.
ResolveAction(h) ==
  /\ handler[h].pc = "resolve"
  /\ IF handler[h].op # "move" THEN Answer(h)
     ELSE Goto(h, IF ActiveOf(handler[h].user) = {} THEN "ensure" ELSE "cancelRead")
  /\ UNCHANGED <<now, dbVars, lock, worker, faults>>

\* The step after CancelActive returned.
Cancelled(h) == IF handler[h].op = "move" THEN "ensure" ELSE "saveTeleport"

\* CancelActive, first statement (a plain select, no lock).
CancelRead(h) ==
  LET active == ActiveOf(handler[h].user) IN
  /\ handler[h].pc = "cancelRead"
  /\ IF active = {}
     THEN Goto(h, Cancelled(h))
     ELSE \E a \in active :
            handler' = [handler EXCEPT ![h].pc = "cancelSave", ![h].id = a,
                          ![h].row = [actions[a] EXCEPT !.status = "cancelled"]]
  /\ UNCHANGED <<now, dbVars, lock, worker, faults>>

\* CancelActive: SaveAction waits for a worker's row lock, then writes the
\* copy read before; the event is committed with it.
CancelSave(h) ==
  LET a == handler[h].id IN
  /\ handler[h].pc = "cancelSave"
  /\ lock[a] = NoWorker
  /\ saveAction(a, handler[h].row)
  /\ Emit(a, {"cancelled"})
  /\ handler' = [handler EXCEPT ![h].pc = Cancelled(h), ![h].id = NoAction,
                                ![h].row = AbsentRow]
  /\ UNCHANGED <<now, players, trees, inventory, xp, paid, outbox, lock, worker, faults>>

\* What a load of the entities does to one player's trees.
Regrown(forest, expired, born) == [e \in Entities |->
  IF e \in expired THEN [forest[e] EXCEPT !.state = "deleted"]
  ELSE IF e \in born THEN [forest[e] EXCEPT !.state = "idle"]
  ELSE forest[e]]

\* ensureResourceNodes in one step: expired stumps are deleted and missing
\* trees are spawned.
ensureResourceNodes(u) ==
  LET forest == trees[u]
      expired == {e \in Entities : forest[e].state = "depleted" /\ forest[e].expires <= now}
      missing == TargetTrees - Cardinality({e \in Entities : forest[e].state = "idle"})
      unborn == {e \in Entities : forest[e].state = "unborn"}
      count == IF missing <= 0 THEN 0 ELSE minTime(missing, Cardinality(unborn))
  IN \E born \in SUBSET unborn :
       /\ Cardinality(born) = count
       /\ trees' = [trees EXCEPT ![u] = Regrown(forest, expired, born)]

\* EntityService.List.
ListEntities(h, u) ==
  /\ handler[h].pc = "idle" /\ "entities" \in Ops[h]
  /\ ensureResourceNodes(u)
  /\ UNCHANGED <<now, players, actions, inventory, xp, paid, events, outbox,
                 lock, worker, handler, faults>>

\* Seeded fault: the target's tile is not looked up.
MoveCheckAnywhere(h) ==
  /\ handler[h].pc = "ensure"
  /\ ensureResourceNodes(handler[h].user)
  /\ Goto(h, "saveMove")
  /\ UNCHANGED <<now, players, actions, inventory, xp, paid, events, outbox,
                 lock, worker, faults>>

\* Move loads the map and the entities; an unwalkable target is refused here,
\* after the harvest was cancelled.
MoveCheck(h) ==
  /\ handler[h].pc = "ensure"
  /\ ensureResourceNodes(handler[h].user)
  /\ IF handler[h].tile = Water THEN Answer(h) ELSE Goto(h, "saveMove")
  /\ UNCHANGED <<now, players, actions, inventory, xp, paid, events, outbox,
                 lock, worker, faults>>

\* SetPlayerPosition loads the entities and checks the target first, then goes
\* on with CancelActive (the player row it reads is overwritten unread).
TeleportCheck(h, u, tile) ==
  /\ handler[h].pc = "idle" /\ "teleport" \in Ops[h]
  /\ ensureResourceNodes(u)
  /\ IF tile = Water THEN UNCHANGED handler
     ELSE handler' = [handler EXCEPT ![h] =
            [Arrive(h, u, "teleport", "cancelRead") EXCEPT !.tile = tile]]
  /\ UNCHANGED <<now, players, actions, inventory, xp, paid, events, outbox,
                 lock, worker, faults>>

\* Move: the path starts at the projected position of the copy read at the
\* start of the request, and SavePlayer overwrites the whole row.
SaveMove(h) ==
  LET p == handler[h].player
      target == handler[h].tile
      from == currentPlayerPoint(p, now)
      path == [from |-> from, target |-> target, started |-> now,
               arrives |-> now + Distance(from, target)]
  IN
  /\ handler[h].pc = "saveMove"
  /\ players' = [players EXCEPT ![handler[h].user] =
       IF HasPath(from, target) THEN [at |-> from, movement |-> path]
       ELSE [at |-> target, movement |-> NoMovement]]
  /\ Answer(h)
  /\ UNCHANGED <<now, trees, actions, inventory, xp, paid, events, outbox,
                 lock, worker, faults>>

\* SetPlayerPosition: SavePlayer at the target, then it answers through Get.
SaveTeleport(h) ==
  /\ handler[h].pc = "saveTeleport"
  /\ players' = [players EXCEPT ![handler[h].user] =
                   [at |-> handler[h].tile, movement |-> NoMovement]]
  /\ Goto(h, "getPlayer")
  /\ UNCHANGED <<now, trees, actions, inventory, xp, paid, events, outbox,
                 lock, worker, faults>>

\* A statement fails (lost connection, cancelled request): the open
\* transaction rolls back and what was committed before stays.
HandlerFault(h) ==
  /\ faults < MaxFaults
  /\ handler[h].pc # "idle"
  /\ Answer(h)
  /\ faults' = faults + 1
  /\ UNCHANGED <<now, dbVars, lock, worker>>

Request(h) == \E u \in Users :
  \/ \E e \in Entities : HarvestReadActive(h, u, e)
  \/ Get(h, u) \/ ListEntities(h, u)
  \/ \E t \in Tiles \cup {Water} : Move(h, u, t) \/ TeleportCheck(h, u, t)

HandlerStep(h) ==
  \/ HarvestReadPlayer(h) \/ HarvestCreate(h)
  \/ TeleportGet(h) \/ Settle(h) \/ ResolveAction(h)
  \/ CancelRead(h) \/ CancelSave(h) \/ MoveCheck(h)
  \/ SaveMove(h) \/ SaveTeleport(h)

-----------------------------------------------------------------------------
(* Action workers: ProcessDue, one transaction per due action *)

\* processNextDue reads the clock, then ClaimNextDueAction takes its statement
\* snapshot: the due rows as they are committed now.  (With nothing due the
\* iteration ends without a trace, and the worker waits for its next one.)
WorkerSnapshot(w) ==
  /\ worker[w].pc = "idle"
  /\ \E t \in RecentClock :
       /\ \E a \in ActionIds : Due(actions[a], t)
       /\ worker' = [worker EXCEPT ![w].pc = "lock", ![w].now = t,
            ![w].snap = [a \in ActionIds |-> IF Due(actions[a], t) THEN actions[a]
                                             ELSE AbsentRow]]
  /\ UNCHANGED <<now, dbVars, lock, handler, faults>>

\* The claim's order: least(next_tick_at, ends_at), started_at.
ClaimsBefore(r, s) ==
  LET first(row) == minTime(row.next, row.ends) IN
  \/ first(r) < first(s)
  \/ first(r) = first(s) /\ r.started < s.started

\* Seeded fault: the locked version is not checked against the claim's filter.
ClaimableUnchecked(w) ==
  {a \in ActionIds : worker[w].snap[a] # AbsentRow /\ lock[a] = NoWorker}

Claimable(w) ==
  {a \in ActionIds : /\ worker[w].snap[a] # AbsentRow
                     /\ lock[a] = NoWorker
                     /\ Due(actions[a], worker[w].now)}

\* FOR UPDATE SKIP LOCKED: the first row of the snapshot nobody has locked
\* and whose newest version still qualifies.  The enclosing select returns
\* the row as the snapshot has it.
WorkerLock(w) ==
  LET snap == worker[w].snap IN
  /\ worker[w].pc = "lock"
  /\ IF Claimable(w) = {}
     THEN worker' = [worker EXCEPT ![w] = IdleWorker] /\ UNCHANGED lock
     ELSE \E a \in Claimable(w) :
            /\ \A b \in Claimable(w) : ~ClaimsBefore(snap[b], snap[a])
            /\ lock' = [lock EXCEPT ![a] = w]
            /\ worker' = [worker EXCEPT ![w] = [IdleWorker EXCEPT
                 !.pc = "advance", !.now = worker[w].now, !.id = a, !.row = snap[a]]]
  /\ UNCHANGED <<now, dbVars, handler, faults>>

MoreTicks(w) == LET row == worker[w].row IN row.next <= worker[w].now /\ row.next <= row.ends

\* The slots AddInventoryItem still has for this transaction.
Room(w) == SlotLimit - inventory[worker[w].row.user] - worker[w].granted

\* advanceAction, one turn of the loop: AddInventoryItem and AddXP run in the
\* open transaction; the roll against success_chance may miss.
WorkerTick(w) ==
  LET row == worker[w].row  last == row.next >= row.ends IN
  /\ worker[w].pc = "advance"
  /\ MoreTicks(w)
  /\ \E hit \in Rolls :
       LET added == IF hit /\ Room(w) > 0 THEN 1 ELSE 0 IN
       worker' = [worker EXCEPT
         ![w].pc = IF last THEN "finish" ELSE "advance",
         ![w].granted = @ + added,
         ![w].row = [row EXCEPT
            !.ticks = @ + 1, !.rewards = @ + added,
            !.next = IF last THEN @ ELSE minTime(@ + row.interval, row.ends)]]
  /\ UNCHANGED <<now, dbVars, lock, handler, faults>>

\* advanceAction after the loop, and the commit.
WorkerFinish(w) ==
  LET row == worker[w].row
      a == worker[w].id
      u == row.user
      granted == worker[w].granted
      level == IF granted > 0 THEN skillLevelForXP(xp[u] + granted) ELSE row.level
      done == worker[w].now >= row.ends
      felled == done /\ trees[u][row.entity].state = "idle"
      emitted == (IF level > row.level THEN {"levelUp"} ELSE {})
                 \cup (IF felled THEN {"depleted"} ELSE {})
                 \cup (IF done THEN {"completed"} ELSE {})
  IN
  /\ \/ worker[w].pc = "finish"
     \/ worker[w].pc = "advance" /\ ~MoreTicks(w)
  /\ saveAction(a, [row EXCEPT !.level = level,
                               !.status = IF done THEN "completed" ELSE "active"])
  /\ inventory' = [inventory EXCEPT ![u] = @ + granted]
  /\ xp' = [xp EXCEPT ![u] = @ + granted]
  /\ paid' = [paid EXCEPT ![a] = @ + granted]
  /\ trees' = IF felled
              THEN [trees EXCEPT ![u][row.entity] =
                      [state |-> "depleted", expires |-> worker[w].now + StumpLifetime]]
              ELSE trees
  /\ Emit(a, emitted)
  /\ outbox' = [outbox EXCEPT ![a] = @ + (IF done THEN 1 ELSE 0)]
  /\ lock' = [lock EXCEPT ![a] = NoWorker]
  /\ worker' = [worker EXCEPT ![w] = IdleWorker]
  /\ UNCHANGED <<now, players, handler, faults>>

\* The transaction fails or the process crashes: everything in it is undone
\* and the row lock is released.
WorkerFault(w) ==
  /\ faults < MaxFaults
  /\ worker[w].pc \in {"lock", "advance", "finish"}
  /\ faults' = faults + 1
  /\ lock' = [a \in ActionIds |-> IF lock[a] = w THEN NoWorker ELSE lock[a]]
  /\ worker' = [worker EXCEPT ![w] = IdleWorker]
  /\ UNCHANGED <<now, dbVars, handler>>

WorkerStep(w) == WorkerSnapshot(w) \/ WorkerLock(w) \/ WorkerTick(w) \/ WorkerFinish(w)

Tick ==
  /\ now < MaxTime
  /\ now' = now + 1
  /\ UNCHANGED <<dbVars, lock, worker, handler, faults>>

Next ==
  \/ Tick
  \/ \E h \in Handlers : Request(h) \/ HandlerStep(h) \/ HandlerFault(h)
  \/ \E w \in Workers : WorkerStep(w) \/ WorkerFault(w)

Spec == Init /\ [][Next]_vars

\* The worker loop always comes back to its next iteration, and a request
\* being served runs on; nobody owes the system a request or a fault.
Fairness ==
  /\ WF_vars(Tick)
  /\ \A w \in Workers : WF_vars(WorkerStep(w))
  /\ \A h \in Handlers : WF_vars(HandlerStep(h))

FairSpec == Spec /\ Fairness

-----------------------------------------------------------------------------
(* Properties *)

\* At most one harvest is active per player, whatever requests and workers
\* overlap (StartHarvest's check is not under a lock; the index is).
OneActiveAction ==
  \A a, b \in ActionIds :
    /\ actions[a].status = "active" /\ actions[b].status = "active"
    /\ actions[a].user = actions[b].user
    => a = b

\* All the ticks of a finished harvest have been replayed, the last one at
\* ends_at: ceil((ends - started) / interval) of them.
AllTicks(row) ==
  /\ row.started + row.ticks * row.interval >= row.ends
  /\ row.started + (row.ticks - 1) * row.interval < row.ends

\* next_tick_at is a function of the ticks processed.
NextTickDue(row) == minTime(row.started + (row.ticks + 1) * row.interval, row.ends)

OnSchedule(row) ==
  /\ row.interval > 0 /\ row.started < row.ends
  /\ row.rewards <= row.ticks
  /\ row.next = NextTickDue(row)
  /\ IF row.status = "completed" THEN AllTicks(row)
     ELSE row.started + row.ticks * row.interval < row.ends

\* Every stored action keeps ticks_processed and next_tick_at in step, and a
\* completed one has had every tick exactly once on its row, however late,
\* often interrupted or concurrent the workers were (advanceAction's replay).
TickSchedule ==
  \A a \in ActionIds : actions[a].status # "absent" => OnSchedule(actions[a])

\* The durable events agree with the rows: a completion is recorded and
\* enqueued for delivery once, with the row's completion and never without
\* it, an active action has not been announced as over, and a tree is down
\* exactly when one completed action has announced it.
EventsMatchRows ==
  /\ \A a \in ActionIds :
       LET e == events[a]  s == actions[a].status IN
       /\ e["started"] = (IF s = "absent" THEN 0 ELSE 1)
       /\ e["completed"] <= 1 /\ outbox[a] = e["completed"]
       /\ s \in {"absent", "active"} => e["completed"] = 0 /\ e["cancelled"] = 0
       /\ s = "completed" => e["completed"] = 1
       /\ s = "cancelled" => e["cancelled"] >= 1
       /\ e["depleted"] <= e["completed"]
  /\ \A u \in Users, t \in Entities :
       trees[u][t].state \in {"depleted", "deleted"} <=>
         \E a \in ActionIds : /\ actions[a].user = u /\ actions[a].entity = t
                              /\ events[a]["depleted"] = 1

\* An action that is over never becomes active again, and its owner, target
\* and times never change (stale copies are written back whole).
NeverRevived ==
  [][\A a \in ActionIds : actions[a].status # "absent" =>
       /\ actions'[a].status = "active" => actions[a].status = "active"
       /\ actions'[a].user = actions[a].user
       /\ actions'[a].entity = actions[a].entity
       /\ actions'[a].ends = actions[a].ends]_vars

\* With one worker no tick is paid twice: an action never hands out more than
\* its schedule, and what its row reports is what the inventory received
\* unless a cancellation wrote an older copy over it.
PaidAsScheduled ==
  \A a \in ActionIds : actions[a].status # "absent" =>
    /\ actions[a].started + (paid[a] - 1) * actions[a].interval < actions[a].ends
    /\ actions[a].rewards <= paid[a]
    /\ events[a]["cancelled"] = 0 => actions[a].rewards = paid[a]
    /\ inventory[actions[a].user] <= SlotLimit

\* The reward count an action's row reports is the number of items accepted on
\* its behalf, as long as it has not been cancelled.
RewardsMatchItems ==
  \A a \in ActionIds : events[a]["cancelled"] = 0 => actions[a].rewards = paid[a]

\* A player under way has no active harvest (ErrPlayerIsMoving one way,
\* Move's cancellation the other).
NeverMovingWhileHarvesting ==
  \A u \in Users : ActiveOf(u) # {} =>
    players[u].movement = NoMovement \/ Arrived(players[u], now)

\* A player with an active harvest stands beside the tree, which is standing.
HarvestBesideTree ==
  \A u \in Users : \A a \in ActiveOf(u) :
    /\ Settled(players[u]).at \in Beside[actions[a].entity]
    /\ trees[u][actions[a].entity].state = "idle"

\* A harvest that ends within the horizon is completed or cancelled in the
\* end, although workers fail, die and race.
HarvestsEnd ==
  \A a \in ActionIds :
    (actions[a].status = "active" /\ actions[a].ends <= MaxTime)
      ~> actions[a].status \in {"completed", "cancelled"}

=============================================================================
