------------------------ MODULE PlayerActions_proofs ------------------------
(***************************************************************************)
(* Proofs about PlayerActions: types, one active harvest per player, the   *)
(* tick accounting of advanceAction, and that a finished action stays      *)
(* finished, for any number of players, workers, handlers and trees.       *)
(***************************************************************************)
EXTENDS PlayerActions, TLAPS

\* The columns no update writes, and ends_at, which every update writes back.
SameAction(r, s) ==
  /\ r.user = s.user /\ r.entity = s.entity
  /\ r.started = s.started /\ r.interval = s.interval /\ r.ends = s.ends

\* A copy of row a that a process will write back.
Copy(row, a, status) ==
  /\ row.status = status /\ OnSchedule(row)
  /\ actions[a].status # "absent" /\ SameAction(row, actions[a])

\* A stored movement runs along the corridor at one tile per time unit.
MovementOK(p) == p.movement # NoMovement =>
  /\ p.movement.from \in 0..Corridor /\ p.movement.target \in 0..Corridor
  /\ p.movement.arrives = p.movement.started + Distance(p.movement.from, p.movement.target)

\* A stored action has an owner and a target and is on its schedule.
RowOK(row) == row.status # "absent" =>
  row.user \in Users /\ row.entity \in Entities /\ OnSchedule(row)

\* A request knows its player; a target is walkable once it has been checked;
\* the row a cancellation will write is a copy of the stored one.
HandlerOK(s) ==
  /\ s.pc # "idle" => s.user \in Users
  /\ s.pc \in {"harvestPlayer", "harvestCreate"} => s.entity \in Entities
  /\ MovementOK(s.player)
  /\ s.pc \in {"cancelRead", "cancelSave"} => s.op = "move" \/ s.tile # Water
  /\ s.pc \in {"saveMove", "saveTeleport"} => s.tile # Water
  /\ s.pc = "cancelSave" => s.id \in ActionIds /\ Copy(s.row, s.id, "cancelled")

\* The tick loop: next_tick_at follows from the ticks replayed so far, in the
\* loop there is a tick left, after its last turn there is none.
InLoop(row) == row.started + row.ticks * row.interval < row.ends

Replaying(s) ==
  /\ s.row.interval > 0 /\ s.row.started < s.row.ends
  /\ s.row.rewards <= s.row.ticks
  /\ s.row.next = NextTickDue(s.row)
  /\ s.pc = "advance" => InLoop(s.row)
  /\ s.pc = "finish" => AllTicks(s.row) /\ s.now >= s.row.ends

\* A worker whose transaction has locked a row works on an active action
\* nobody else writes; what it claimed from is a copy of stored rows.
WorkerOK(w, s) ==
  /\ s.pc = "lock" => \A a \in ActionIds :
       s.snap[a] # AbsentRow => Copy(s.snap[a], a, "active")
  /\ s.pc \in {"advance", "finish"} =>
       /\ s.id \in ActionIds /\ lock[s.id] = w
       /\ actions[s.id].status = "active" /\ s.row.status = "active"
       /\ SameAction(s.row, actions[s.id])
       /\ Replaying(s)

\* The inductive invariant.
IInv ==
  /\ TypeOK
  /\ OneActiveAction
  /\ \A u \in Users : MovementOK(players[u])
  /\ \A a \in ActionIds : RowOK(actions[a])
  /\ \A h \in Handlers : HandlerOK(handler[h])
  /\ \A w \in Workers : WorkerOK(w, worker[w])

-----------------------------------------------------------------------------
(* Values *)

\* The constants and the initial local states, in the form the provers use.
LEMMA Constants ==
  /\ AbsentRow \in Row /\ AbsentRow.status = "absent"
  /\ IdlePlayer \in Player /\ MovementOK(IdlePlayer)
  /\ IdleWorker \in WorkerState /\ IdleWorker.pc = "idle"
  /\ IdleHandler \in HandlerState /\ IdleHandler.pc = "idle" /\ MovementOK(IdleHandler.player)
<1> USE ConstantsAssumption
<1>1. AbsentRow \in Row /\ AbsentRow.status = "absent"
  BY DEF AbsentRow, Row, Statuses
<1>2. IdlePlayer \in Player /\ MovementOK(IdlePlayer)
  BY DEF IdlePlayer, Player, Tiles, MovementOK
<1>3. IdleWorker \in WorkerState /\ IdleWorker.pc = "idle"
  BY <1>1 DEF IdleWorker, WorkerState
<1>4. IdleHandler \in HandlerState /\ IdleHandler.pc = "idle" /\ MovementOK(IdleHandler.player)
  BY <1>1, <1>2 DEF IdleHandler, HandlerState, HandlerPCs, OpNames, Tiles
<1> QED BY <1>1, <1>2, <1>3, <1>4

\* The one product the schedule needs.
LEMMA Distribute == \A t, i \in Int : (t + 1) * i = t * i + i
  OBVIOUS

\* harvestTickInterval never returns zero or less.
LEMMA PositiveInterval ==
  ASSUME NEW current \in Nat, NEW required \in Nat
  PROVE  harvestTickInterval(current, required) \in Nat \ {0}
BY ConstantsAssumption DEF harvestTickInterval

\* skillLevelForXP returns a level.
LEMMA LevelIsNat == \A x \in Nat : skillLevelForXP(x) \in Nat
BY ConstantsAssumption DEF skillLevelForXP

\* A new action is well-formed, active and on schedule.
LEMMA NewActionOK ==
  ASSUME TypeOK, NEW u \in Users, NEW e \in Entities, NEW t \in Nat
  PROVE  LET row == NewAction(u, e, t) IN
         row \in Row /\ row.status = "active" /\ row.user = u /\ RowOK(row)
<1> USE ConstantsAssumption
<1> DEFINE level == skillLevelForXP(xp[u])
           interval == harvestTickInterval(level, RequiredLevel[e])
           ends == t + Duration[e]
<1>1. level \in Nat
  BY LevelIsNat DEF TypeOK
<1>2. interval \in Nat \ {0}
  BY <1>1, PositiveInterval
<1>3. ends \in Nat /\ t < ends
  OBVIOUS
<1> HIDE DEF level, interval, ends
<1>4. NewAction(u, e, t) = [status |-> "active", user |-> u, entity |-> e, started |-> t,
        ends |-> ends, next |-> minTime(t + interval, ends),
        interval |-> interval, ticks |-> 0, rewards |-> 0, level |-> level]
  BY DEF NewAction, level, interval, ends
<1>5. NewAction(u, e, t) \in Row
  BY <1>1, <1>2, <1>3, <1>4 DEF Row, Statuses, minTime
<1>6. OnSchedule(NewAction(u, e, t))
  BY <1>2, <1>3, <1>4 DEF OnSchedule, NextTickDue, minTime
<1> QED BY <1>4, <1>5, <1>6 DEF RowOK

\* The projected position of a well-formed movement is a tile of the map.
LEMMA PointOnMap ==
  ASSUME NEW p \in Player, MovementOK(p), NEW t \in Nat
  PROVE  /\ currentPlayerPoint(p, t) \in Tiles
         /\ p.movement # NoMovement => currentPlayerPoint(p, t) \in 0..Corridor
<1> USE ConstantsAssumption
<1>1. CASE p.movement = NoMovement
  BY <1>1 DEF currentPlayerPoint, Player
<1>2. CASE p.movement # NoMovement
  <2>1. /\ p.movement.from \in 0..Corridor /\ p.movement.target \in 0..Corridor
        /\ p.movement.started \in Nat
        /\ p.movement.arrives = p.movement.started + Distance(p.movement.from, p.movement.target)
    BY <1>2 DEF MovementOK, Player, Movement
  <2> QED BY <1>2, <2>1 DEF currentPlayerPoint, Distance, Tiles
<1> QED BY <1>1, <1>2

\* Settling a well-formed player gives a well-formed player at rest.
LEMMA SettledOK ==
  ASSUME NEW p \in Player
  PROVE  Settled(p) \in Player /\ MovementOK(Settled(p))
BY DEF Settled, Player, Movement, MovementOK

\* saveAction, given a copy of the stored action, stores the copy.
LEMMA SaveActionStores ==
  ASSUME NEW a \in ActionIds, NEW row \in Row, actions \in [ActionIds -> Row],
         SameAction(row, actions[a]), saveAction(a, row)
  PROVE  actions' = [actions EXCEPT ![a] = row]
<1> DEFINE new == [actions[a] EXCEPT !.status = row.status, !.ends = row.ends, !.next = row.next,
                     !.ticks = row.ticks, !.rewards = row.rewards, !.level = row.level]
<1>1. new \in Row
  BY DEF Row
<1>2. /\ new.status = row.status /\ new.user = row.user /\ new.entity = row.entity
      /\ new.started = row.started /\ new.ends = row.ends /\ new.next = row.next
      /\ new.interval = row.interval /\ new.ticks = row.ticks
      /\ new.rewards = row.rewards /\ new.level = row.level
  BY DEF Row, SameAction
<1> HIDE DEF new
<1>3. new = row
  BY <1>1, <1>2 DEF Row
<1> QED BY <1>3 DEF saveAction, new

-----------------------------------------------------------------------------
(* Frames *)

TreesType == [Users -> [Entities -> [state : {"unborn", "idle", "depleted", "deleted"},
                                     expires : Nat]]]

\* The empty tables satisfy the invariant.
LEMMA InitIInv == Init => IInv
<1> SUFFICES ASSUME Init PROVE IInv
  OBVIOUS
<1> USE ConstantsAssumption, Constants
<1>1. TypeOK
  BY DEF Init, TypeOK
<1>2. OneActiveAction
  BY DEF Init, OneActiveAction
<1>3. \A u \in Users : MovementOK(players[u])
  BY DEF Init
<1>4. \A a \in ActionIds : RowOK(actions[a])
  BY DEF Init, RowOK
<1>5. \A h \in Handlers : HandlerOK(handler[h])
  BY DEF Init, HandlerOK
<1>6. \A w \in Workers : WorkerOK(w, worker[w])
  BY DEF Init, WorkerOK
<1> QED BY <1>1, <1>2, <1>3, <1>4, <1>5, <1>6 DEF IInv

\* A step of one handler that leaves the actions alone.
LEMMA HandlerMoves ==
  ASSUME IInv, NEW h \in Handlers, NEW x \in HandlerState, HandlerOK(x),
         handler' = [handler EXCEPT ![h] = x],
         players' \in [Users -> Player], \A u \in Users : MovementOK(players'[u]),
         trees' \in TreesType, faults' \in Nat,
         UNCHANGED <<now, actions, lock, inventory, xp, paid, events, outbox, worker>>
  PROVE  IInv'
<1>1. TypeOK'
  BY DEF IInv, TypeOK, TreesType
<1>2. OneActiveAction'
  BY DEF IInv, OneActiveAction
<1>3. \A g \in Handlers : HandlerOK(handler[g])'
  <2> SUFFICES ASSUME NEW g \in Handlers PROVE HandlerOK(handler[g])'
    OBVIOUS
  <2>1. handler'[g] = IF g = h THEN x ELSE handler[g]
    BY DEF IInv, TypeOK
  <2>2. HandlerOK(handler[g])
    BY DEF IInv
  <2> QED BY <2>1, <2>2 DEF HandlerOK, Copy, SameAction, OnSchedule
<1>4. \A a \in ActionIds : RowOK(actions[a])'
  BY DEF IInv, RowOK
<1>5. \A w \in Workers : WorkerOK(w, worker[w])'
  BY DEF IInv, WorkerOK, Copy
<1> QED BY <1>1, <1>2, <1>3, <1>4, <1>5 DEF IInv, MovementOK

\* A step of one worker's open transaction: nothing is stored.
LEMMA WorkerMoves ==
  ASSUME IInv, NEW w \in Workers, NEW y \in WorkerState, WorkerOK(w, y)',
         worker' = [worker EXCEPT ![w] = y],
         lock' \in [ActionIds -> Workers \cup {NoWorker}],
         \A a \in ActionIds : lock[a] \in Workers \ {w} => lock'[a] = lock[a],
         faults' \in Nat, UNCHANGED <<now, dbVars, handler>>
  PROVE  IInv'
<1>0. UNCHANGED <<players, trees, actions, inventory, xp, paid, events, outbox>>
  BY DEF dbVars
<1>1. TypeOK'
  BY <1>0 DEF IInv, TypeOK
<1>2. OneActiveAction'
  BY <1>0 DEF IInv, OneActiveAction
<1>3. \A g \in Handlers : HandlerOK(handler[g])'
  BY <1>0 DEF IInv, HandlerOK, Copy
<1>4. \A a \in ActionIds : RowOK(actions[a])'
  BY <1>0 DEF IInv, RowOK
<1>5. \A v \in Workers : WorkerOK(v, worker[v])'
  <2> SUFFICES ASSUME NEW v \in Workers PROVE WorkerOK(v, worker[v])'
    OBVIOUS
  <2>1. CASE v = w
    BY <2>1 DEF IInv, TypeOK
  <2>2. CASE v # w
    <3>1. worker'[v] = worker[v] /\ WorkerOK(v, worker[v])
      BY <2>2 DEF IInv, TypeOK
    <3> QED BY <1>0, <2>2, <3>1 DEF WorkerOK, Copy, Replaying
  <2> QED BY <2>1, <2>2
<1> QED BY <1>0, <1>1, <1>2, <1>3, <1>4, <1>5 DEF IInv, MovementOK

-----------------------------------------------------------------------------
(* Requests and the steps of a handler *)

\* The facts about the current state the handlers' steps need.
LEMMA Facts ==
  ASSUME IInv
  PROVE  /\ now \in Nat /\ faults \in Nat /\ trees \in TreesType
         /\ players \in [Users -> Player] /\ \A u \in Users : MovementOK(players[u])
         /\ actions \in [ActionIds -> Row] /\ \A a \in ActionIds : RowOK(actions[a])
         /\ handler \in [Handlers -> HandlerState]
         /\ \A h \in Handlers : HandlerOK(handler[h])
         /\ worker \in [Workers -> WorkerState]
         /\ \A w \in Workers : WorkerOK(w, worker[w])
BY DEF IInv, TypeOK, TreesType

\* A handler that answers drops what it had read.
LEMMA AnswerStep ==
  ASSUME IInv, NEW h \in Handlers, Answer(h),
         players' \in [Users -> Player], \A u \in Users : MovementOK(players'[u]),
         trees' \in TreesType, faults' \in Nat,
         UNCHANGED <<now, actions, lock, inventory, xp, paid, events, outbox, worker>>
  PROVE  IInv'
<1>1. HandlerOK(IdleHandler)
  BY Constants DEF HandlerOK
<1> QED BY <1>1, Constants, HandlerMoves DEF Answer

\* A handler that goes on keeps what it had read.
LEMMA GotoStep ==
  ASSUME IInv, NEW h \in Handlers, NEW pc \in HandlerPCs, Goto(h, pc),
         HandlerOK([handler[h] EXCEPT !.pc = pc]),
         players' \in [Users -> Player], \A u \in Users : MovementOK(players'[u]),
         trees' \in TreesType, faults' \in Nat,
         UNCHANGED <<now, actions, lock, inventory, xp, paid, events, outbox, worker>>
  PROVE  IInv'
<1>1. PICK x : x = [handler[h] EXCEPT !.pc = pc]
  OBVIOUS
<1>2. x \in HandlerState /\ HandlerOK(x)
  BY <1>1, Facts DEF HandlerState
<1>3. handler' = [handler EXCEPT ![h] = x]
  BY <1>1, Facts DEF Goto
<1> QED BY <1>2, <1>3, HandlerMoves

\* StartHarvest's first statement.
LEMMA HarvestReadActiveStep ==
  ASSUME IInv, NEW h \in Handlers, NEW u \in Users, NEW e \in Entities,
         HarvestReadActive(h, u, e)
  PROVE  IInv'
<1>1. PICK t \in RecentClock :
        handler' = [handler EXCEPT ![h] =
          [Arrive(h, u, "harvest", "harvestPlayer") EXCEPT !.entity = e, !.now = t]]
  BY DEF HarvestReadActive
<1>2. t \in Nat
  BY Facts DEF RecentClock
<1>3. PICK x : x = [Arrive(h, u, "harvest", "harvestPlayer") EXCEPT !.entity = e, !.now = t]
  OBVIOUS
<1>4. x \in HandlerState /\ HandlerOK(x)
  BY <1>2, <1>3, Constants DEF Arrive, IdleHandler, HandlerState, HandlerPCs, OpNames, HandlerOK
<1> QED BY <1>1, <1>3, <1>4, HandlerMoves, Facts DEF HarvestReadActive, dbVars

\* StartHarvest's second statement.
LEMMA HarvestReadPlayerStep ==
  ASSUME IInv, NEW h \in Handlers, HarvestReadPlayer(h)
  PROVE  IInv'
<1> DEFINE s == handler[h]
           p == players[s.user]
<1>1. s.user \in Users /\ s.entity \in Entities /\ s \in HandlerState
  BY Facts DEF HarvestReadPlayer, HandlerOK
<1>2. p \in Player /\ MovementOK(p)
  BY <1>1, Facts
<1>3. CASE Answer(h)
  BY <1>3, AnswerStep, Facts DEF HarvestReadPlayer, dbVars
<1>4. CASE handler' = [handler EXCEPT ![h].pc = "harvestCreate", ![h].player = p]
  <2>1. PICK x : x = [s EXCEPT !.pc = "harvestCreate", !.player = p]
    OBVIOUS
  <2>2. x \in HandlerState /\ HandlerOK(x)
    BY <1>1, <1>2, <2>1 DEF HandlerState, HandlerPCs, HandlerOK
  <2>3. handler' = [handler EXCEPT ![h] = x]
    BY <1>4, <2>1, Facts
  <2> QED BY <2>2, <2>3, HandlerMoves, Facts DEF HarvestReadPlayer, dbVars
<1> QED BY <1>3, <1>4 DEF HarvestReadPlayer

\* resolveLifecycle's read of the player.
LEMMA GetPlayerStep ==
  ASSUME IInv, NEW h \in Handlers, NEW r \in HandlerState, r.user \in Users, GetPlayer(h, r)
  PROVE  IInv'
<1> DEFINE p == players[r.user]
<1>1. PICK q, pc : /\ q = IF Arrived(p, now) THEN Settled(p) ELSE p
                   /\ pc = IF Arrived(p, now) THEN "settle" ELSE "resolve"
                   /\ handler' = [handler EXCEPT ![h] = [r EXCEPT !.player = q, !.pc = pc]]
  BY DEF GetPlayer
<1>2. q \in Player /\ MovementOK(q) /\ pc \in {"settle", "resolve"}
  BY <1>1, Facts, SettledOK
<1>3. PICK x : x = [r EXCEPT !.player = q, !.pc = pc]
  OBVIOUS
<1>4. x \in HandlerState /\ HandlerOK(x)
  BY <1>2, <1>3 DEF HandlerState, HandlerPCs, HandlerOK
<1> QED BY <1>1, <1>3, <1>4, HandlerMoves, Facts DEF GetPlayer, dbVars

\* The three requests that start with that read.
LEMMA GetSteps ==
  ASSUME IInv, NEW h \in Handlers, NEW u \in Users, NEW tile \in Tiles \cup {Water},
         Get(h, u) \/ Move(h, u, tile)
  PROVE  IInv'
<1>1. CASE Get(h, u)
  <2>1. PICK r : r = Arrive(h, u, "get", "idle")
    OBVIOUS
  <2>2. r \in HandlerState /\ r.user \in Users
    BY <2>1, Constants DEF Arrive, IdleHandler, HandlerState, HandlerPCs, OpNames
  <2> QED BY <1>1, <2>1, <2>2, GetPlayerStep DEF Get
<1>2. CASE Move(h, u, tile)
  <2>1. PICK r : r = [Arrive(h, u, "move", "idle") EXCEPT !.tile = tile]
    OBVIOUS
  <2>2. r \in HandlerState /\ r.user \in Users
    BY <2>1, Constants DEF Arrive, IdleHandler, HandlerState, HandlerPCs, OpNames
  <2> QED BY <1>2, <2>1, <2>2, GetPlayerStep DEF Move
<1> QED BY <1>1, <1>2

\* resolveCompletedMovement's save.
LEMMA SettleStep ==
  ASSUME IInv, NEW h \in Handlers, Settle(h)
  PROVE  IInv'
<1>1. /\ handler[h] \in HandlerState /\ handler[h].user \in Users
      /\ handler[h].player \in Player /\ MovementOK(handler[h].player)
  BY Facts DEF Settle, HandlerOK, HandlerState
<1>2. players' \in [Users -> Player] /\ \A u \in Users : MovementOK(players'[u])
  BY <1>1, Facts DEF Settle
<1>3. HandlerOK([handler[h] EXCEPT !.pc = "resolve"])
  BY <1>1 DEF HandlerOK, HandlerState
<1> QED BY <1>2, <1>3, GotoStep, Facts DEF Settle, HandlerPCs

\* resolveLifecycle's read of the action.
LEMMA ResolveActionStep ==
  ASSUME IInv, NEW h \in Handlers, ResolveAction(h)
  PROVE  IInv'
<1> DEFINE s == handler[h]
<1>1. s \in HandlerState /\ s.user \in Users /\ MovementOK(s.player)
  BY Facts DEF ResolveAction, HandlerOK
<1>2. CASE Answer(h)
  BY <1>2, AnswerStep, Facts DEF ResolveAction, dbVars
<1>3. CASE s.op = "move"
  <2>1. PICK pc \in {"ensure", "cancelRead"} :
          pc = IF ActiveOf(s.user) = {} THEN "ensure" ELSE "cancelRead"
    OBVIOUS
  <2>2. Goto(h, pc)
    BY <1>3, <2>1 DEF ResolveAction
  <2>3. HandlerOK([s EXCEPT !.pc = pc])
    BY <1>1, <1>3 DEF HandlerOK, HandlerState
  <2>4. pc \in HandlerPCs
    BY DEF HandlerPCs
  <2> QED BY <2>2, <2>3, <2>4, GotoStep, Facts DEF ResolveAction, dbVars
<1> QED BY <1>2, <1>3 DEF ResolveAction

\* CancelActive's read keeps a copy of a stored action.
LEMMA CancelReadStep ==
  ASSUME IInv, NEW h \in Handlers, CancelRead(h)
  PROVE  IInv'
<1> DEFINE s == handler[h]
<1>1. s \in HandlerState /\ s.user \in Users /\ MovementOK(s.player) /\ (s.op = "move" \/ s.tile # Water)
  BY Facts DEF CancelRead, HandlerOK
<1>2. CASE Goto(h, Cancelled(h))
  <2>1. PICK pc \in {"ensure", "saveTeleport"} : pc = Cancelled(h)
    BY DEF Cancelled
  <2>2. HandlerOK([s EXCEPT !.pc = pc])
    BY <1>1, <2>1 DEF HandlerOK, HandlerState, Cancelled
  <2>3. pc \in HandlerPCs
    BY DEF HandlerPCs
  <2> QED BY <1>2, <2>1, <2>2, <2>3, GotoStep, Facts DEF CancelRead, dbVars
<1>3. ASSUME NEW a \in ActiveOf(s.user),
             handler' = [handler EXCEPT ![h].pc = "cancelSave", ![h].id = a,
                           ![h].row = [actions[a] EXCEPT !.status = "cancelled"]]
      PROVE  IInv'
  <2>1. a \in ActionIds /\ actions[a] \in Row /\ actions[a].status = "active" /\ RowOK(actions[a])
    BY Facts DEF ActiveOf
  <2>2. PICK row : row = [actions[a] EXCEPT !.status = "cancelled"]
    OBVIOUS
  <2>3. row \in Row /\ Copy(row, a, "cancelled")
    BY <2>1, <2>2 DEF Row, Statuses, Copy, SameAction, RowOK, OnSchedule, NextTickDue
  <2>4. PICK x : x = [s EXCEPT !.pc = "cancelSave", !.id = a, !.row = row]
    OBVIOUS
  <2>5. x \in HandlerState /\ HandlerOK(x)
    BY <1>1, <2>1, <2>3, <2>4 DEF HandlerState, HandlerPCs, HandlerOK
  <2>6. handler' = [handler EXCEPT ![h] = x]
    BY <1>3, <2>2, <2>4, Facts
  <2> QED BY <2>5, <2>6, HandlerMoves, Facts DEF CancelRead, dbVars
<1> QED BY <1>2, <1>3 DEF CancelRead

\* ensureResourceNodes leaves well-formed trees.
LEMMA EnsureTyped ==
  ASSUME NEW u \in Users, trees \in TreesType, now \in Nat, ensureResourceNodes(u)
  PROVE  trees' \in TreesType
<1>1. PICK expired, born : trees' = [trees EXCEPT ![u] = Regrown(trees[u], expired, born)]
  BY DEF ensureResourceNodes
<1>2. Regrown(trees[u], expired, born) \in
        [Entities -> [state : {"unborn", "idle", "depleted", "deleted"}, expires : Nat]]
  BY DEF Regrown, TreesType
<1> QED BY <1>1, <1>2 DEF TreesType

\* Move's load of the entities and its check of the target.
LEMMA MoveCheckStep ==
  ASSUME IInv, NEW h \in Handlers, MoveCheck(h)
  PROVE  IInv'
<1> DEFINE s == handler[h]
<1>1. s \in HandlerState /\ HandlerOK(s)
  BY Facts
<1>2. trees' \in TreesType /\ s.user \in Users
  BY <1>1, EnsureTyped, Facts DEF MoveCheck, HandlerOK
<1>3. CASE Answer(h)
  BY <1>2, <1>3, AnswerStep, Facts DEF MoveCheck
<1>4. CASE s.tile # Water /\ Goto(h, "saveMove")
  <2>1. HandlerOK([s EXCEPT !.pc = "saveMove"])
    BY <1>1, <1>2, <1>4 DEF HandlerOK, HandlerState
  <2> QED BY <1>2, <1>4, <2>1, GotoStep, Facts DEF MoveCheck, HandlerPCs
<1> QED BY <1>3, <1>4 DEF MoveCheck

\* The other requests that load the entities.
LEMMA EntityLoads ==
  ASSUME IInv, NEW h \in Handlers, NEW u \in Users, NEW tile \in Tiles \cup {Water},
         ListEntities(h, u) \/ TeleportCheck(h, u, tile)
  PROVE  IInv'
<1> DEFINE s == handler[h]
<1>1. s \in HandlerState /\ HandlerOK(s)
  BY Facts
<1>2. CASE ListEntities(h, u)
  <2>1. handler' = [handler EXCEPT ![h] = s] /\ trees' \in TreesType
    BY <1>2, EnsureTyped, Facts DEF ListEntities
  <2> QED BY <1>1, <1>2, <2>1, HandlerMoves, Facts DEF ListEntities
<1>3. CASE TeleportCheck(h, u, tile)
  <2>1. trees' \in TreesType
    BY <1>3, EnsureTyped, Facts DEF TeleportCheck
  <2>2. CASE UNCHANGED handler
    <3>1. handler' = [handler EXCEPT ![h] = s]
      BY <2>2, Facts
    <3> QED BY <1>1, <1>3, <2>1, <3>1, HandlerMoves, Facts DEF TeleportCheck
  <2>3. CASE tile # Water /\ handler' = [handler EXCEPT ![h] =
               [Arrive(h, u, "teleport", "cancelRead") EXCEPT !.tile = tile]]
    <3>1. PICK x : x = [Arrive(h, u, "teleport", "cancelRead") EXCEPT !.tile = tile]
      OBVIOUS
    <3>2. x \in HandlerState /\ HandlerOK(x)
      BY <2>3, <3>1, Constants DEF Arrive, IdleHandler, HandlerState, HandlerPCs, OpNames, HandlerOK
    <3> QED BY <1>3, <2>1, <2>3, <3>1, <3>2, HandlerMoves, Facts DEF TeleportCheck
  <2> QED BY <1>3, <2>2, <2>3 DEF TeleportCheck
<1> QED BY <1>2, <1>3

\* Move's save: the path starts and ends on the map.
LEMMA SaveMoveStep ==
  ASSUME IInv, NEW h \in Handlers, SaveMove(h)
  PROVE  IInv'
<1> USE ConstantsAssumption
<1> DEFINE s == handler[h]
           p == s.player
           from == currentPlayerPoint(p, now)
           path == [from |-> from, target |-> s.tile, started |-> now,
                    arrives |-> now + Distance(from, s.tile)]
           q == IF HasPath(from, s.tile) THEN [at |-> from, movement |-> path]
                ELSE [at |-> s.tile, movement |-> NoMovement]
<1>1. /\ s.user \in Users /\ s.tile \in Tiles /\ now \in Nat
      /\ p \in Player /\ MovementOK(p)
  BY Facts DEF SaveMove, HandlerOK, HandlerState
<1>2. from \in Tiles
  BY <1>1, PointOnMap
<1>3. q \in Player /\ MovementOK(q)
  <2> HIDE DEF from
  <2>1. CASE HasPath(from, s.tile)
    <3>1. from \in 0..Corridor /\ s.tile \in 0..Corridor
      BY <1>1, <1>2, <2>1 DEF HasPath, Tiles
    <3>2. path \in Movement
      BY <1>1, <1>2, <3>1 DEF Movement, Distance
    <3>3. q = [at |-> from, movement |-> path]
      BY <2>1
    <3> QED BY <1>2, <3>1, <3>2, <3>3 DEF Player, MovementOK
  <2>2. CASE ~HasPath(from, s.tile)
    BY <1>1, <2>2 DEF Player, MovementOK
  <2> QED BY <2>1, <2>2
<1>4. players' = [players EXCEPT ![s.user] = q]
  BY DEF SaveMove
<1> HIDE DEF q
<1>5. players' \in [Users -> Player] /\ \A u \in Users : MovementOK(players'[u])
  BY <1>1, <1>3, <1>4, Facts
<1> QED BY <1>5, AnswerStep, Facts DEF SaveMove

\* SetPlayerPosition's save.
LEMMA SaveTeleportStep ==
  ASSUME IInv, NEW h \in Handlers, SaveTeleport(h)
  PROVE  IInv'
<1> DEFINE s == handler[h]
<1>1. /\ s \in HandlerState /\ s.user \in Users /\ s.tile \in Tiles /\ MovementOK(s.player)
  BY Facts DEF SaveTeleport, HandlerOK, HandlerState
<1>2. PICK q : q = [at |-> s.tile, movement |-> NoMovement]
  OBVIOUS
<1>3. q \in Player /\ MovementOK(q)
  BY <1>1, <1>2 DEF Player, MovementOK
<1>4. players' \in [Users -> Player] /\ \A u \in Users : MovementOK(players'[u])
  BY <1>1, <1>2, <1>3, Facts DEF SaveTeleport
<1>5. HandlerOK([s EXCEPT !.pc = "getPlayer"])
  BY <1>1 DEF HandlerOK, HandlerState
<1> QED BY <1>4, <1>5, GotoStep, Facts DEF SaveTeleport, HandlerPCs

\* A handler that fails.
LEMMA HandlerFaultStep ==
  ASSUME IInv, NEW h \in Handlers, HandlerFault(h)
  PROVE  IInv'
BY AnswerStep, Facts, ConstantsAssumption DEF HandlerFault, dbVars

-----------------------------------------------------------------------------
(* Steps that store an action *)

\* appendEvents counts events.
LEMMA EmitTyped ==
  ASSUME IInv, NEW a \in ActionIds, NEW types \in SUBSET EventTypes, Emit(a, types)
  PROVE  events' \in [ActionIds -> [EventTypes -> Nat]]
<1>1. events \in [ActionIds -> [EventTypes -> Nat]]
  BY DEF IInv, TypeOK
<1>2. PICK f : f = [t \in EventTypes |-> events[a][t] + (IF t \in types THEN 1 ELSE 0)]
  OBVIOUS
<1>3. f \in [EventTypes -> Nat]
  BY <1>1, <1>2
<1> QED BY <1>1, <1>2, <1>3 DEF Emit

\* A step that leaves every copy of a row a copy.
CopiesKept ==
  \A r \in Row, b \in ActionIds, s \in Statuses : Copy(r, b, s) => Copy(r, b, s)'

\* Storing a new action where none is active, or a copy of a stored one that
\* does not revive it, keeps the rows and every process's copies in order.
LEMMA StoreRow ==
  ASSUME IInv, NEW a \in ActionIds, NEW row \in Row, actions' = [actions EXCEPT ![a] = row],
         actions[a].status # "absent" => SameAction(row, actions[a]),
         RowOK(row), row.status # "absent",
         row.status = "active" => actions[a].status = "active" \/ ActiveOf(row.user) = {}
  PROVE  /\ actions' \in [ActionIds -> Row]
         /\ OneActiveAction'
         /\ \A b \in ActionIds : RowOK(actions[b])'
         /\ CopiesKept
<1>1. \A b \in ActionIds : actions'[b] = IF b = a THEN row ELSE actions[b]
  BY Facts
<1>2. actions' \in [ActionIds -> Row]
  BY Facts
<1>3. OneActiveAction'
  <2> SUFFICES ASSUME NEW b \in ActionIds, NEW c \in ActionIds,
                      actions'[b].status = "active", actions'[c].status = "active",
                      actions'[b].user = actions'[c].user
               PROVE  b = c
    BY DEF OneActiveAction
  <2>1. CASE b # a /\ c # a
    BY <1>1, <2>1 DEF IInv, OneActiveAction
  <2>2. CASE b = a \/ c = a
    <3>1. CASE ActiveOf(row.user) = {}
      BY <1>1, <2>2, <3>1 DEF ActiveOf
    <3>2. CASE actions[a].status = "active"
      BY <1>1, <2>2, <3>2 DEF SameAction, IInv, OneActiveAction
    <3> QED BY <1>1, <2>2, <3>1, <3>2
  <2> QED BY <2>1, <2>2
<1>4. \A b \in ActionIds : RowOK(actions[b])'
  BY <1>1, Facts DEF RowOK
<1>5. ASSUME NEW r \in Row, NEW b \in ActionIds, NEW s \in Statuses, Copy(r, b, s)
      PROVE  Copy(r, b, s)'
  BY <1>1, <1>5 DEF Copy, SameAction
<1> QED BY <1>2, <1>3, <1>4, <1>5 DEF CopiesKept

\* Storing a row disturbs no handler and no worker that is not at work on it.
LEMMA OtherHandler ==
  ASSUME IInv, CopiesKept, NEW g \in Handlers, handler'[g] = handler[g]
  PROVE  HandlerOK(handler[g])'
<1>1. HandlerOK(handler[g]) /\ handler[g] \in HandlerState
  BY Facts
<1> QED BY <1>1 DEF CopiesKept, HandlerOK, HandlerState, Statuses

\* The same for workers: their snapshots may only be older copies.
LEMMA OtherWorker ==
  ASSUME IInv, CopiesKept, NEW w \in Workers, worker'[w] = worker[w],
         NEW a \in ActionIds, NEW row, actions' = [actions EXCEPT ![a] = row],
         worker[w].pc \in {"advance", "finish"} =>
           worker[w].id # a /\ lock'[worker[w].id] = lock[worker[w].id]
  PROVE  WorkerOK(w, worker[w])'
<1>1. worker[w] \in WorkerState /\ WorkerOK(w, worker[w])
  BY Facts
<1>2. worker[w].pc = "lock" => \A b \in ActionIds :
        worker[w].snap[b] # AbsentRow => Copy(worker[w].snap[b], b, "active")'
  BY <1>1 DEF CopiesKept, WorkerOK, WorkerState, Statuses
<1>3. worker[w].pc \in {"advance", "finish"} => actions'[worker[w].id] = actions[worker[w].id]
  BY <1>1, Facts DEF WorkerOK
<1> QED BY <1>1, <1>2, <1>3 DEF WorkerOK, Replaying

\* StartHarvest's insert and commit.
LEMMA HarvestCreateStep ==
  ASSUME IInv, NEW h \in Handlers, HarvestCreate(h)
  PROVE  IInv'
<1> DEFINE u == handler[h].user
           e == handler[h].entity
           p == handler[h].player
           t == handler[h].now
           unused == {a \in ActionIds : actions[a].status = "absent"}
<1>1. /\ u \in Users /\ e \in Entities /\ p \in Player /\ t \in Nat
  BY Facts DEF HarvestCreate, HandlerOK, HandlerState
<1>2. CASE ~(CanHarvest(u, e, p) /\ OneActiveIndex(u) /\ unused # {})
  BY <1>2, AnswerStep, Facts DEF HarvestCreate
<1>3. CASE CanHarvest(u, e, p) /\ OneActiveIndex(u) /\ unused # {}
  <2>1. PICK a : a \in unused /\ a = CHOOSE x \in unused : TRUE
    BY <1>3
  <2>2. PICK row : row = NewAction(u, e, t)
    OBVIOUS
  <2>3. /\ actions' = [actions EXCEPT ![a] = row] /\ Emit(a, {"started"})
        /\ players' = IF p.movement = NoMovement THEN players
                      ELSE [players EXCEPT ![u] = Settled(p)]
    BY <1>3, <2>1, <2>2 DEF HarvestCreate
  <2>4. row \in Row /\ row.status = "active" /\ row.user = u /\ RowOK(row)
    BY <1>1, <2>2, NewActionOK DEF IInv
  <2>5. a \in ActionIds /\ actions[a].status = "absent" /\ ActiveOf(row.user) = {}
    BY <1>3, <2>1, <2>4 DEF OneActiveIndex
  <2>6. /\ actions' \in [ActionIds -> Row] /\ OneActiveAction'
        /\ \A b \in ActionIds : RowOK(actions[b])'
        /\ CopiesKept
    BY <2>3, <2>4, <2>5, StoreRow
  <2>7. players' \in [Users -> Player] /\ \A v \in Users : MovementOK(players'[v])
    BY <1>1, <2>3, SettledOK, Facts
  <2>8. events' \in [ActionIds -> [EventTypes -> Nat]]
    BY <2>3, <2>5, EmitTyped DEF EventTypes
  <2>9. TypeOK'
    BY <2>6, <2>7, <2>8, Constants DEF HarvestCreate, Answer, IInv, TypeOK
  <2>10. \A g \in Handlers : HandlerOK(handler[g])'
    <3> SUFFICES ASSUME NEW g \in Handlers PROVE HandlerOK(handler[g])'
      OBVIOUS
    <3>1. CASE g = h
      BY <3>1, Constants, Facts DEF HarvestCreate, Answer, HandlerOK
    <3>2. CASE g # h
      BY <2>6, <3>2, OtherHandler, Facts DEF HarvestCreate, Answer
    <3> QED BY <3>1, <3>2
  <2>11. \A w \in Workers : WorkerOK(w, worker[w])'
    <3>1. UNCHANGED <<worker, lock>>
      BY DEF HarvestCreate
    <3>2. \A w \in Workers : worker[w].pc \in {"advance", "finish"} => worker[w].id # a
      BY <2>5, Facts DEF WorkerOK
    <3> QED BY <2>3, <2>5, <2>6, <3>1, <3>2, OtherWorker
  <2> QED BY <2>6, <2>7, <2>9, <2>10, <2>11 DEF IInv
<1> QED BY <1>2, <1>3

\* CancelActive's save of the copy it read.
LEMMA CancelSaveStep ==
  ASSUME IInv, NEW h \in Handlers, CancelSave(h)
  PROVE  IInv'
<1> DEFINE s == handler[h]
<1>1. PICK a, row : a = s.id /\ row = s.row
  OBVIOUS
<1>2. /\ s \in HandlerState /\ s.user \in Users /\ MovementOK(s.player)
      /\ s.op = "move" \/ s.tile # Water
      /\ a \in ActionIds /\ row \in Row /\ Copy(row, a, "cancelled")
  BY <1>1, Facts DEF CancelSave, HandlerOK, HandlerState
<1>3. RowOK(actions[a])
  BY <1>2, Facts
<1>4. SameAction(row, actions[a]) /\ RowOK(row) /\ row.status = "cancelled"
  BY <1>2, <1>3 DEF Copy, RowOK, SameAction
<1>5. actions' = [actions EXCEPT ![a] = row]
  BY <1>1, <1>2, <1>4, SaveActionStores, Facts DEF CancelSave
<1>6. /\ actions' \in [ActionIds -> Row] /\ OneActiveAction'
      /\ \A b \in ActionIds : RowOK(actions[b])'
      /\ CopiesKept
  BY <1>2, <1>4, <1>5, StoreRow
<1>7. events' \in [ActionIds -> [EventTypes -> Nat]]
  BY <1>1, <1>2, EmitTyped DEF CancelSave, EventTypes
<1>8. PICK x : x = [s EXCEPT !.pc = Cancelled(h), !.id = NoAction, !.row = AbsentRow]
  OBVIOUS
<1>9. handler' = [handler EXCEPT ![h] = x]
  BY <1>8, Facts DEF CancelSave
<1>10. x \in HandlerState /\ HandlerOK(x)'
  <2>1. /\ Cancelled(h) \in {"ensure", "saveTeleport"}
        /\ Cancelled(h) = "saveTeleport" => s.tile # Water
    BY <1>2 DEF Cancelled
  <2>2. x \in HandlerState
    BY <1>2, <1>8, <2>1, Constants DEF HandlerState, HandlerPCs
  <2>3. /\ x.pc = Cancelled(h) /\ x.user = s.user /\ x.tile = s.tile
        /\ x.player = s.player
    BY <1>2, <1>8 DEF HandlerState
  <2> QED BY <1>2, <2>1, <2>2, <2>3 DEF HandlerOK, MovementOK
<1>11. TypeOK'
  BY <1>6, <1>7, <1>9, <1>10 DEF CancelSave, IInv, TypeOK
<1>12. \A g \in Handlers : HandlerOK(handler[g])'
  <2> SUFFICES ASSUME NEW g \in Handlers PROVE HandlerOK(handler[g])'
    OBVIOUS
  <2>1. CASE g = h
    BY <1>9, <1>10, <2>1, Facts
  <2>2. CASE g # h
    BY <1>6, <1>9, <2>2, OtherHandler, Facts
  <2> QED BY <2>1, <2>2
<1>13. \A w \in Workers : WorkerOK(w, worker[w])'
  <2>1. UNCHANGED <<worker, lock>> /\ lock[a] = NoWorker
    BY <1>1 DEF CancelSave
  <2>2. \A w \in Workers : worker[w].pc \in {"advance", "finish"} => worker[w].id # a
    BY <2>1, Facts, ConstantsAssumption DEF WorkerOK
  <2> QED BY <1>2, <1>5, <1>6, <2>1, <2>2, OtherWorker
<1>14. \A u \in Users : MovementOK(players[u])'
  BY Facts DEF CancelSave, MovementOK
<1> QED BY <1>6, <1>11, <1>12, <1>13, <1>14 DEF IInv

-----------------------------------------------------------------------------
(* Steps of a worker *)

\* The claim's snapshot holds copies of stored actions.
LEMMA WorkerSnapshotStep ==
  ASSUME IInv, NEW w \in Workers, WorkerSnapshot(w)
  PROVE  IInv'
<1>1. PICK t \in RecentClock :
        worker' = [worker EXCEPT ![w].pc = "lock", ![w].now = t,
          ![w].snap = [a \in ActionIds |-> IF Due(actions[a], t) THEN actions[a] ELSE AbsentRow]]
  BY DEF WorkerSnapshot
<1>2. PICK snap : snap = [a \in ActionIds |-> IF Due(actions[a], t) THEN actions[a] ELSE AbsentRow]
  OBVIOUS
<1>3. snap \in [ActionIds -> Row] /\ t \in Nat
  BY <1>2, Constants, Facts DEF RecentClock
<1>4. \A a \in ActionIds : snap[a] # AbsentRow => Copy(snap[a], a, "active")
  BY <1>2, Facts DEF Due, Copy, RowOK, SameAction
<1>5. PICK y : y = [worker[w] EXCEPT !.pc = "lock", !.now = t, !.snap = snap]
  OBVIOUS
<1>6. y \in WorkerState /\ y.pc = "lock" /\ y.snap = snap
  BY <1>3, <1>5, Facts DEF WorkerState
<1>7. worker' = [worker EXCEPT ![w] = y]
  BY <1>1, <1>2, <1>5, Facts
<1>8. WorkerOK(w, y)'
  BY <1>4, <1>6 DEF WorkerOK, Copy, WorkerSnapshot, dbVars
<1> QED BY <1>6, <1>7, <1>8, WorkerMoves, Facts DEF WorkerSnapshot, IInv, TypeOK

\* A worker that ends its iteration, or dies, holds no lock.
LEMMA IdleWorkerStep ==
  ASSUME IInv, NEW w \in Workers, worker' = [worker EXCEPT ![w] = IdleWorker],
         lock' \in [ActionIds -> Workers \cup {NoWorker}],
         \A a \in ActionIds : lock[a] \in Workers \ {w} => lock'[a] = lock[a],
         faults' \in Nat, UNCHANGED <<now, dbVars, handler>>
  PROVE  IInv'
<1>1. WorkerOK(w, IdleWorker)'
  BY Constants DEF WorkerOK, IdleWorker
<1> QED BY <1>1, Constants, WorkerMoves

\* The claim locks a due row nobody else works on.
LEMMA WorkerLockStep ==
  ASSUME IInv, NEW w \in Workers, WorkerLock(w)
  PROVE  IInv'
<1> USE ConstantsAssumption
<1>1. lock \in [ActionIds -> Workers \cup {NoWorker}] /\ faults' \in Nat
  BY DEF WorkerLock, IInv, TypeOK
<1>2. CASE worker' = [worker EXCEPT ![w] = IdleWorker] /\ UNCHANGED lock
  BY <1>1, <1>2, IdleWorkerStep DEF WorkerLock
<1>3. ASSUME NEW a \in Claimable(w), lock' = [lock EXCEPT ![a] = w],
             worker' = [worker EXCEPT ![w] = [IdleWorker EXCEPT
               !.pc = "advance", !.now = worker[w].now, !.id = a, !.row = worker[w].snap[a]]]
      PROVE  IInv'
  <2>1. PICK row : row = worker[w].snap[a]
    OBVIOUS
  <2>2. /\ a \in ActionIds /\ lock[a] = NoWorker /\ actions[a].status = "active"
        /\ worker[w] \in WorkerState /\ row \in Row /\ Copy(row, a, "active")
    <3>1. /\ a \in ActionIds /\ lock[a] = NoWorker /\ actions[a].status = "active"
          /\ worker[w].snap[a] # AbsentRow
      BY DEF Claimable, Due
    <3>2. worker[w].pc = "lock" /\ worker[w] \in WorkerState /\ WorkerOK(w, worker[w])
      BY Facts DEF WorkerLock
    <3>3. row \in Row
      BY <2>1, <3>1, <3>2 DEF WorkerState
    <3>4. Copy(row, a, "active")
      BY <2>1, <3>1, <3>2 DEF WorkerOK
    <3> QED BY <3>1, <3>2, <3>3, <3>4
  <2>3. PICK y : y = [IdleWorker EXCEPT !.pc = "advance", !.now = worker[w].now, !.id = a, !.row = row]
    OBVIOUS
  <2>4. /\ y \in WorkerState /\ y.pc = "advance" /\ y.id = a /\ y.row = row
    BY <2>2, <2>3, Constants DEF IdleWorker, WorkerState
  <2>5. Replaying(y)
    BY <2>2, <2>4 DEF Copy, OnSchedule, Replaying, InLoop
  <2>6. lock'[a] = w /\ UNCHANGED actions
    BY <1>1, <1>3, <2>2 DEF WorkerLock, dbVars
  <2>7. WorkerOK(w, y)'
    BY <2>2, <2>4, <2>5, <2>6 DEF WorkerOK, Copy, Replaying, InLoop, AllTicks, NextTickDue, SameAction
  <2>8. /\ lock' \in [ActionIds -> Workers \cup {NoWorker}]
        /\ \A b \in ActionIds : lock[b] \in Workers \ {w} => lock'[b] = lock[b]
    BY <1>1, <1>3, <2>2
  <2>9. worker' = [worker EXCEPT ![w] = y]
    BY <1>3, <2>1, <2>3
  <2> QED BY <1>1, <2>4, <2>7, <2>8, <2>9, WorkerMoves DEF WorkerLock
<1> QED BY <1>2, <1>3 DEF WorkerLock

\* One turn of the replay loop.
LEMMA TickTurn ==
  ASSUME NEW r \in Row, r.interval > 0, r.started < r.ends, r.rewards <= r.ticks,
         r.next = NextTickDue(r), InLoop(r), NEW added \in {0, 1}, NEW q, NEW next,
         next = IF r.next >= r.ends THEN r.next ELSE minTime(r.next + r.interval, r.ends),
         q = [r EXCEPT !.ticks = r.ticks + 1, !.rewards = r.rewards + added, !.next = next]
  PROVE  /\ q \in Row /\ q.status = r.status /\ SameAction(q, r)
         /\ q.rewards <= q.ticks /\ q.next = NextTickDue(q)
         /\ r.next < r.ends => InLoop(q)
         /\ r.next >= r.ends => AllTicks(q) /\ r.next = r.ends
<1> DEFINE last == r.next >= r.ends
<1>1. /\ r.ticks \in Nat /\ r.rewards \in Nat /\ r.next \in Nat /\ r.interval \in Nat
      /\ r.started \in Nat /\ r.ends \in Nat
  BY DEF Row
<1>2. q \in Row
  <2>1. PICK ticks, rewards : ticks = r.ticks + 1 /\ rewards = r.rewards + added
    OBVIOUS
  <2>2. next \in Nat /\ ticks \in Nat /\ rewards \in Nat
    BY <1>1, <2>1 DEF minTime
  <2>3. q = [r EXCEPT !.ticks = ticks, !.rewards = rewards, !.next = next]
    BY <2>1
  <2> QED BY <2>2, <2>3 DEF Row
<1>3. /\ q.status = r.status /\ SameAction(q, r)
      /\ q.ticks = r.ticks + 1 /\ q.rewards = r.rewards + added
      /\ q.next = IF last THEN r.next ELSE minTime(r.next + r.interval, r.ends)
  BY DEF Row, SameAction
<1> DEFINE m == r.ticks * r.interval
<1>4. m \in Nat /\ (r.ticks + 1) * r.interval = m + r.interval
  BY <1>1, Distribute
<1>5. (q.ticks + 1) * q.interval = m + r.interval + r.interval
  BY <1>1, <1>3, <1>4, Distribute DEF SameAction
<1>6. q.ticks * q.interval = m + r.interval /\ (q.ticks - 1) * q.interval = m
  BY <1>1, <1>3, <1>4 DEF SameAction
<1>7. r.started + m < r.ends
  BY DEF InLoop
<1> HIDE DEF m
<1>8. r.next = IF r.started + (m + r.interval) < r.ends THEN r.started + (m + r.interval) ELSE r.ends
  BY <1>4 DEF NextTickDue, minTime
<1>9. q.next = NextTickDue(q)
  BY <1>1, <1>3, <1>4, <1>5, <1>8 DEF NextTickDue, minTime, SameAction
<1>10. ~last => InLoop(q)
  BY <1>1, <1>3, <1>4, <1>6, <1>8 DEF InLoop, SameAction
<1>11. last => AllTicks(q) /\ r.next = r.ends
  BY <1>1, <1>3, <1>4, <1>6, <1>7, <1>8 DEF AllTicks, SameAction
<1> QED BY <1>1, <1>2, <1>3, <1>9, <1>10, <1>11

\* advanceAction's loop.
LEMMA WorkerTickStep ==
  ASSUME IInv, NEW w \in Workers, WorkerTick(w)
  PROVE  IInv'
<1> DEFINE s == worker[w]
           r == s.row
<1>0. PICK next : next = IF r.next >= r.ends THEN r.next ELSE minTime(r.next + r.interval, r.ends)
  OBVIOUS
<1>1. PICK pc \in {"finish", "advance"} : pc = IF r.next >= r.ends THEN "finish" ELSE "advance"
  OBVIOUS
<1>2. PICK added \in {0, 1} : worker' = [worker EXCEPT ![w].pc = pc, ![w].granted = @ + added,
         ![w].row = [r EXCEPT !.ticks = r.ticks + 1, !.rewards = r.rewards + added, !.next = next]]
  <2>1. PICK hit \in Rolls : worker' = [worker EXCEPT ![w].pc = pc,
         ![w].granted = @ + (IF hit /\ Room(w) > 0 THEN 1 ELSE 0),
         ![w].row = [r EXCEPT !.ticks = r.ticks + 1,
            !.rewards = r.rewards + (IF hit /\ Room(w) > 0 THEN 1 ELSE 0), !.next = next]]
    BY <1>0, <1>1 DEF WorkerTick
  <2>2. PICK added \in {0, 1} : added = IF hit /\ Room(w) > 0 THEN 1 ELSE 0
    OBVIOUS
  <2> QED BY <2>1, <2>2
<1>3. /\ s \in WorkerState /\ r \in Row /\ s.pc = "advance" /\ MoreTicks(w)
      /\ s.id \in ActionIds /\ lock[s.id] = w /\ actions[s.id].status = "active"
      /\ r.status = "active" /\ SameAction(r, actions[s.id]) /\ Replaying(s)
  BY Facts DEF WorkerTick, WorkerOK, WorkerState
<1>4. PICK q : q = [r EXCEPT !.ticks = r.ticks + 1, !.rewards = r.rewards + added, !.next = next]
  OBVIOUS
<1>5. /\ q \in Row /\ q.status = r.status /\ SameAction(q, r)
      /\ q.rewards <= q.ticks /\ q.next = NextTickDue(q)
      /\ r.next < r.ends => InLoop(q)
      /\ r.next >= r.ends => AllTicks(q) /\ r.next = r.ends
  <2>1. r.interval > 0 /\ r.started < r.ends /\ r.rewards <= r.ticks
        /\ r.next = NextTickDue(r) /\ InLoop(r)
    BY <1>3 DEF Replaying
  <2> QED BY <1>0, <1>3, <1>4, <2>1, TickTurn
<1>6. PICK granted : granted = s.granted + added
  OBVIOUS
<1> PICK y : y = [s EXCEPT !.pc = pc, !.granted = granted, !.row = q]
  OBVIOUS
<1>7. /\ y \in WorkerState /\ y.row = q /\ y.id = s.id /\ y.now = s.now
      /\ y.pc = IF r.next >= r.ends THEN "finish" ELSE "advance"
  <2>1. granted \in Nat
    BY <1>3, <1>6 DEF WorkerState
  <2> QED BY <1>1, <1>3, <1>5, <2>1 DEF WorkerState
<1>8. worker' = [worker EXCEPT ![w] = y]
  BY <1>2, <1>4, <1>6, Facts
<1>9. Replaying(y)
  BY <1>3, <1>5, <1>7 DEF Replaying, MoreTicks, SameAction, Row, WorkerState
<1>10. UNCHANGED <<actions, lock>>
  BY DEF WorkerTick, dbVars
<1>11. WorkerOK(w, y)'
  BY <1>3, <1>5, <1>7, <1>9, <1>10 DEF WorkerOK, SameAction, Replaying, InLoop, AllTicks, NextTickDue
<1>12. lock' \in [ActionIds -> Workers \cup {NoWorker}] /\ faults' \in Nat
  BY DEF WorkerTick, IInv, TypeOK
<1> QED BY <1>7, <1>8, <1>10, <1>11, <1>12, WorkerMoves DEF WorkerTick

\* A worker's transaction that is rolled back.
LEMMA WorkerFaultStep ==
  ASSUME IInv, NEW w \in Workers, WorkerFault(w)
  PROVE  IInv'
<1>1. /\ lock' \in [ActionIds -> Workers \cup {NoWorker}]
      /\ \A a \in ActionIds : lock[a] \in Workers \ {w} => lock'[a] = lock[a]
      /\ faults' \in Nat
  BY DEF WorkerFault, IInv, TypeOK
<1> QED BY <1>1, IdleWorkerStep DEF WorkerFault

\* advanceAction's save and commit.
LEMMA WorkerFinishStep ==
  ASSUME IInv, NEW w \in Workers, WorkerFinish(w)
  PROVE  IInv'
<1> DEFINE s == worker[w]
           r == s.row
           u == r.user
           granted == s.granted
           level == IF granted > 0 THEN skillLevelForXP(xp[u] + granted) ELSE r.level
           done == s.now >= r.ends
           felled == done /\ trees[u][r.entity].state = "idle"
           emitted == (IF level > r.level THEN {"levelUp"} ELSE {})
                      \cup (IF felled THEN {"depleted"} ELSE {})
                      \cup (IF done THEN {"completed"} ELSE {})
           row == [r EXCEPT !.level = level, !.status = IF done THEN "completed" ELSE "active"]
<1>1. PICK a : a = s.id
  OBVIOUS
<1>2. /\ s \in WorkerState /\ r \in Row /\ s.pc \in {"advance", "finish"}
      /\ a \in ActionIds /\ lock[a] = w /\ actions[a].status = "active"
      /\ r.status = "active" /\ SameAction(r, actions[a]) /\ Replaying(s)
  BY <1>1, Facts DEF WorkerFinish, WorkerOK, WorkerState
<1>3. u \in Users /\ r.entity \in Entities
  BY <1>2, Facts DEF SameAction, RowOK
<1>4. xp \in [Users -> Nat] /\ inventory \in [Users -> Nat] /\ paid \in [ActionIds -> Nat]
      /\ outbox \in [ActionIds -> Nat] /\ granted \in Nat /\ r.level \in Nat
  BY <1>2 DEF IInv, TypeOK, WorkerState, Row
<1>5. level \in Nat
  BY <1>3, <1>4, LevelIsNat
<1>6. done <=> s.pc = "finish"
  <2>1. CASE s.pc = "finish"
    BY <1>2, <2>1 DEF Replaying
  <2>2. CASE s.pc = "advance"
    <3>1. r.next <= r.ends /\ r.next \in Nat /\ r.ends \in Nat /\ s.now \in Nat
      BY <1>2 DEF Replaying, NextTickDue, minTime, Row, WorkerState
    <3>2. ~MoreTicks(w)
      BY <2>2 DEF WorkerFinish
    <3> QED BY <2>2, <3>1, <3>2 DEF MoreTicks
  <2> QED BY <1>2, <2>1, <2>2
<1>7. /\ saveAction(a, row) /\ Emit(a, emitted)
      /\ inventory' = [inventory EXCEPT ![u] = @ + granted]
      /\ xp' = [xp EXCEPT ![u] = @ + granted]
      /\ paid' = [paid EXCEPT ![a] = @ + granted]
      /\ outbox' = [outbox EXCEPT ![a] = @ + (IF done THEN 1 ELSE 0)]
      /\ trees' = IF felled THEN [trees EXCEPT ![u][r.entity] =
                      [state |-> "depleted", expires |-> s.now + StumpLifetime]] ELSE trees
  BY <1>1 DEF WorkerFinish
<1>8. PICK new : new = row
  OBVIOUS
<1>9. /\ new \in Row /\ new.status = (IF done THEN "completed" ELSE "active")
      /\ SameAction(new, actions[a]) /\ new.user = u
  BY <1>2, <1>5, <1>8 DEF Row, Statuses, SameAction
<1>10. RowOK(new)
  BY <1>2, <1>3, <1>6, <1>8, <1>9 DEF RowOK, OnSchedule, Replaying, InLoop, AllTicks, NextTickDue, Row
<1>11. actions' = [actions EXCEPT ![a] = new]
  BY <1>2, <1>7, <1>8, <1>9, SaveActionStores, Facts
<1>12. /\ actions' \in [ActionIds -> Row] /\ OneActiveAction'
       /\ \A b \in ActionIds : RowOK(actions[b])'
       /\ CopiesKept
  BY <1>2, <1>9, <1>10, <1>11, StoreRow
<1>13. events' \in [ActionIds -> [EventTypes -> Nat]]
  <2>1. emitted \in SUBSET EventTypes
    BY DEF EventTypes
  <2> HIDE DEF emitted
  <2> QED BY <1>2, <1>7, <2>1, EmitTyped
<1>14. trees' \in TreesType
  <2>1. PICK tree : tree = [state |-> "depleted", expires |-> s.now + StumpLifetime]
    OBVIOUS
  <2>2. tree \in [state : {"unborn", "idle", "depleted", "deleted"}, expires : Nat]
    BY <1>2, <2>1, ConstantsAssumption DEF WorkerState
  <2>3. trees' = IF felled THEN [trees EXCEPT ![u][r.entity] = tree] ELSE trees
    BY <1>7, <2>1
  <2> HIDE DEF felled
  <2> QED BY <1>3, <2>2, <2>3, Facts DEF TreesType
<1>15. TypeOK'
  <2>1. inventory' \in [Users -> Nat] /\ xp' \in [Users -> Nat] /\ paid' \in [ActionIds -> Nat]
    <3> HIDE DEF granted, u
    <3>1. inventory' \in [Users -> Nat]
      BY <1>3, <1>4, <1>7
    <3>2. xp' \in [Users -> Nat]
      BY <1>3, <1>4, <1>7
    <3>3. paid' \in [ActionIds -> Nat]
      BY <1>2, <1>4, <1>7
    <3> QED BY <3>1, <3>2, <3>3
  <2>2. outbox' \in [ActionIds -> Nat]
    <3>1. PICK n \in {0, 1} : n = IF done THEN 1 ELSE 0
      OBVIOUS
    <3>2. outbox' = [outbox EXCEPT ![a] = @ + n]
      BY <1>7, <3>1
    <3> QED BY <1>2, <1>4, <3>2
  <2>3. lock' \in [ActionIds -> Workers \cup {NoWorker}]
        /\ worker' \in [Workers -> WorkerState]
    BY Constants DEF WorkerFinish, IInv, TypeOK
  <2>4. UNCHANGED <<now, players, handler, faults>>
    BY DEF WorkerFinish
  <2> QED BY <1>12, <1>13, <1>14, <2>1, <2>2, <2>3, <2>4 DEF IInv, TypeOK, TreesType
<1>16. \A g \in Handlers : HandlerOK(handler[g])'
  BY <1>12, OtherHandler DEF WorkerFinish
<1>17. \A v \in Workers : WorkerOK(v, worker[v])'
  <2> SUFFICES ASSUME NEW v \in Workers PROVE WorkerOK(v, worker[v])'
    OBVIOUS
  <2>1. CASE v = w
    BY <2>1, Constants, Facts DEF WorkerFinish, WorkerOK, IdleWorker
  <2>2. CASE v # w
    <3>1. worker'[v] = worker[v] /\ WorkerOK(v, worker[v])
      BY <2>2, Facts DEF WorkerFinish
    <3>2. \A b \in ActionIds \ {a} : lock'[b] = lock[b]
      BY <1>1 DEF WorkerFinish, IInv, TypeOK
    <3>3. worker[v].pc \in {"advance", "finish"} =>
            worker[v].id # a /\ lock'[worker[v].id] = lock[worker[v].id]
      BY <1>2, <2>2, <3>1, <3>2 DEF WorkerOK
    <3> QED BY <1>2, <1>11, <1>12, <3>1, <3>3, OtherWorker
  <2> QED BY <2>1, <2>2
<1>18. \A v \in Users : MovementOK(players[v])'
  BY Facts DEF WorkerFinish, MovementOK
<1> QED BY <1>12, <1>15, <1>16, <1>17, <1>18 DEF IInv

-----------------------------------------------------------------------------
(* Invariance *)

\* The clock, and stuttering.
LEMMA ClockStep == IInv /\ (Tick \/ UNCHANGED vars) => IInv'
<1> SUFFICES ASSUME IInv, Tick \/ UNCHANGED vars PROVE IInv'
  OBVIOUS
<1>1. /\ UNCHANGED <<players, trees, actions, inventory, xp, paid, events, outbox>>
      /\ UNCHANGED <<lock, worker, handler, faults>>
      /\ now' \in Nat
  BY Facts DEF Tick, vars, dbVars
<1>2. TypeOK'
  BY <1>1 DEF IInv, TypeOK
<1>3. OneActiveAction' /\ \A u \in Users : MovementOK(players[u])'
  BY <1>1 DEF IInv, OneActiveAction, MovementOK
<1>4. \A a \in ActionIds : RowOK(actions[a])'
  BY <1>1 DEF IInv, RowOK
<1>5. \A h \in Handlers : HandlerOK(handler[h])'
  BY <1>1 DEF IInv, HandlerOK, Copy
<1>6. \A w \in Workers : WorkerOK(w, worker[w])'
  BY <1>1 DEF IInv, WorkerOK, Copy, Replaying
<1> QED BY <1>2, <1>3, <1>4, <1>5, <1>6 DEF IInv

\* Every step preserves the invariant.
LEMMA StepIInv == IInv /\ [Next]_vars => IInv'
<1> SUFFICES ASSUME IInv, [Next]_vars PROVE IInv'
  OBVIOUS
<1>1. CASE Tick \/ UNCHANGED vars
  BY <1>1, ClockStep
<1>2. ASSUME NEW h \in Handlers, Request(h) PROVE IInv'
  <2>1. PICK u \in Users :
          \/ \E e \in Entities : HarvestReadActive(h, u, e)
          \/ Get(h, u) \/ ListEntities(h, u)
          \/ \E t \in Tiles \cup {Water} : Move(h, u, t) \/ TeleportCheck(h, u, t)
    BY <1>2 DEF Request
  <2>2. CASE \E e \in Entities : HarvestReadActive(h, u, e)
    BY <2>2, HarvestReadActiveStep
  <2>3. CASE Get(h, u) \/ ListEntities(h, u)
    BY <2>3, GetSteps, EntityLoads
  <2>4. CASE \E t \in Tiles \cup {Water} : Move(h, u, t) \/ TeleportCheck(h, u, t)
    BY <2>4, GetSteps, EntityLoads
  <2> QED BY <2>1, <2>2, <2>3, <2>4
<1>3. ASSUME NEW h \in Handlers, HandlerStep(h) PROVE IInv'
  <2>1. CASE HarvestReadPlayer(h) \/ HarvestCreate(h)
    BY <2>1, HarvestReadPlayerStep, HarvestCreateStep
  <2>2. CASE TeleportGet(h)
    BY <2>2, GetPlayerStep, Facts DEF TeleportGet, HandlerOK
  <2>3. CASE Settle(h) \/ ResolveAction(h) \/ CancelRead(h) \/ CancelSave(h)
    BY <2>3, SettleStep, ResolveActionStep, CancelReadStep, CancelSaveStep
  <2>4. CASE MoveCheck(h)
    BY <2>4, MoveCheckStep
  <2>5. CASE SaveMove(h) \/ SaveTeleport(h)
    BY <2>5, SaveMoveStep, SaveTeleportStep
  <2> QED BY <1>3, <2>1, <2>2, <2>3, <2>4, <2>5 DEF HandlerStep
<1>4. ASSUME NEW h \in Handlers, HandlerFault(h) PROVE IInv'
  BY <1>4, HandlerFaultStep
<1>5. ASSUME NEW w \in Workers, WorkerStep(w) \/ WorkerFault(w) PROVE IInv'
  BY <1>5, WorkerSnapshotStep, WorkerLockStep, WorkerTickStep, WorkerFinishStep, WorkerFaultStep
  DEF WorkerStep
<1> QED BY <1>1, <1>2, <1>3, <1>4, <1>5 DEF Next

\* The invariant holds in every reachable state.
LEMMA Invariance == Spec => []IInv
BY InitIInv, StepIInv, PTL DEF Spec

\* Every row and every local copy of one is always well-formed; a position
\* that is saved is always a tile of the map.
THEOREM TypeCorrect == Spec => []TypeOK
<1>1. IInv => TypeOK
  BY DEF IInv
<1> QED BY Invariance, <1>1, PTL

\* A player never has two active actions, whatever requests and workers
\* overlap: the partial unique index, and no stale copy revives a row.
THEOREM AtMostOneActive == Spec => []OneActiveAction
<1>1. IInv => OneActiveAction
  BY DEF IInv
<1> QED BY Invariance, <1>1, PTL

\* ticks_processed and next_tick_at of every stored action stay in step, and a
\* completed action has had exactly ceil((ends - started) / interval) ticks,
\* for any number of workers, however late and however often they fail.
THEOREM TicksOnSchedule == Spec => []TickSchedule
<1>1. IInv => TickSchedule
  BY DEF IInv, RowOK, TickSchedule
<1> QED BY Invariance, <1>1, PTL

\* An action that is over never becomes active again and no step changes whose
\* it is, its tree or its end.
THEOREM NoRevival == Spec => NeverRevived
<1> DEFINE Kept == \A a \in ActionIds : actions[a].status # "absent" =>
              /\ actions'[a].status = "active" => actions[a].status = "active"
              /\ actions'[a].user = actions[a].user
              /\ actions'[a].entity = actions[a].entity
              /\ actions'[a].ends = actions[a].ends
<1>1. IInv /\ [Next]_vars => [Kept]_vars
  <2> SUFFICES ASSUME IInv, Next PROVE Kept
    OBVIOUS
  <2>1. CASE UNCHANGED actions
    BY <2>1
  <2>2. ASSUME NEW h \in Handlers, HarvestCreate(h) PROVE Kept
    <3> DEFINE unused == {x \in ActionIds : actions[x].status = "absent"}
               row == NewAction(handler[h].user, handler[h].entity, handler[h].now)
    <3>1. PICK a : a = CHOOSE x \in unused : TRUE
      OBVIOUS
    <3>2. UNCHANGED actions \/ (unused # {} /\ actions' = [actions EXCEPT ![a] = row])
      BY <2>2, <3>1 DEF HarvestCreate
    <3>3. unused # {} => a \in ActionIds /\ actions[a].status = "absent"
      BY <3>1
    <3> HIDE DEF row, unused
    <3> QED BY <3>2, <3>3, Facts
  <2>3. ASSUME NEW h \in Handlers, CancelSave(h) PROVE Kept
    <3>1. PICK a, row : a = handler[h].id /\ row = handler[h].row
      OBVIOUS
    <3>2. a \in ActionIds /\ row \in Row /\ Copy(row, a, "cancelled")
      BY <2>3, <3>1, Facts DEF CancelSave, HandlerOK, HandlerState
    <3>3. actions' = [actions EXCEPT ![a] = row]
      BY <2>3, <3>1, <3>2, SaveActionStores, Facts DEF CancelSave, Copy
    <3> QED BY <3>2, <3>3, Facts DEF Copy, SameAction
  <2>4. ASSUME NEW w \in Workers, WorkerFinish(w) PROVE Kept
    <3>1. PICK a : a = worker[w].id
      OBVIOUS
    <3>2. /\ a \in ActionIds /\ actions[a].status = "active"
          /\ worker[w].row \in Row /\ SameAction(worker[w].row, actions[a])
      BY <2>4, <3>1, Facts DEF WorkerFinish, WorkerOK, WorkerState
    <3>3. PICK level, status : saveAction(a, [worker[w].row EXCEPT !.level = level, !.status = status])
      BY <2>4, <3>1 DEF WorkerFinish
    <3>4. PICK row : row = [worker[w].row EXCEPT !.level = level, !.status = status]
      OBVIOUS
    <3>5. row.ends = actions[a].ends
      BY <3>2, <3>4 DEF Row, SameAction
    <3> QED BY <3>2, <3>3, <3>4, <3>5, Facts DEF saveAction, Row
  <2>5. CASE Tick
    BY <2>1, <2>5 DEF Tick, dbVars
  <2>6. ASSUME NEW h \in Handlers, Request(h) PROVE Kept
    BY <2>1, <2>6 DEF Request, HarvestReadActive, Get, Move, GetPlayer, ListEntities,
       TeleportCheck, dbVars
  <2>7. ASSUME NEW h \in Handlers, HandlerStep(h) PROVE Kept
    BY <2>1, <2>2, <2>3, <2>7 DEF HandlerStep, HarvestReadPlayer, TeleportGet, GetPlayer, Settle,
       ResolveAction, CancelRead, MoveCheck, SaveMove, SaveTeleport, dbVars
  <2>8. ASSUME NEW h \in Handlers, HandlerFault(h) PROVE Kept
    BY <2>1, <2>8 DEF HandlerFault, dbVars
  <2>9. ASSUME NEW w \in Workers, WorkerStep(w) \/ WorkerFault(w) PROVE Kept
    BY <2>1, <2>4, <2>9 DEF WorkerStep, WorkerFault, WorkerSnapshot, WorkerLock, WorkerTick, dbVars
  <2> QED BY <2>5, <2>6, <2>7, <2>8, <2>9 DEF Next
<1> QED BY Invariance, <1>1, PTL DEF Spec, NeverRevived

=============================================================================
