-------------------- MODULE PlayerActions_serial_proofs --------------------
(***************************************************************************)
(* Further proofs about PlayerActions: that the durable events agree with  *)
(* the rows, always; and what holds as long as nothing overlaps, which is  *)
(* what the runs with two connections and with two workers show to fail    *)
(* otherwise: a harvester stands still beside a standing tree as long as   *)
(* no two requests of one player are under way, and a harvest is paid as   *)
(* scheduled as long as no two workers are.                                *)
(***************************************************************************)
EXTENDS PlayerActions_proofs

\* A player has one request at a time under way: one connection per player, and
\* no administrator moves it meanwhile.
SerialRequests ==
  \A g, h \in Handlers :
    handler[g].pc # "idle" /\ handler[h].pc # "idle" /\ handler[g].user = handler[h].user
    => g = h

\* One worker at a time has an iteration under way.
SerialWorkers ==
  \A v, w \in Workers : worker[v].pc # "idle" /\ worker[w].pc # "idle" => v = w

-----------------------------------------------------------------------------
(* The inductive invariants *)

AtRest(p) == p.movement = NoMovement \/ Arrived(p, now)

\* What a request that is the only one of its player knows about it.
Undisturbed(s) ==
  /\ s.pc = "harvestPlayer" => s.now <= now
  /\ s.pc = "harvestCreate" => s.player = players[s.user] /\ AtRest(s.player)
  /\ s.pc = "settle" => s.player = Settled(players[s.user])
  /\ s.pc = "cancelSave" => ActiveOf(s.user) \subseteq {s.id}
  /\ s.pc \in {"ensure", "saveMove", "saveTeleport"} => ActiveOf(s.user) = {}

\* While requests are serial: a harvester rests beside an idle tree.
StandInv ==
  /\ NeverMovingWhileHarvesting
  /\ HarvestBesideTree
  /\ \A h \in Handlers : Undisturbed(handler[h])

\* What a row was paid for: never more ticks than the schedule has.
Scheduled(p, row) == row.started + (p - 1) * row.interval < row.ends

RowPaid(a) ==
  /\ actions[a].status = "absent" => paid[a] = 0
  /\ actions[a].status # "absent" => Scheduled(paid[a], actions[a])
  /\ actions[a].rewards <= paid[a]
  /\ events[a]["cancelled"] = 0 => actions[a].rewards = paid[a]

\* A worker that is the only one claims rows as they are stored, and what it
\* has handed out so far is what its row has more than the stored one.
WorkerPays(s) ==
  /\ s.pc = "lock" => \A a \in ActionIds :
       s.snap[a] # AbsentRow /\ actions[a].status = "active"
       => s.snap[a].rewards = actions[a].rewards
  /\ s.pc \in {"advance", "finish"} =>
       /\ s.row.rewards = actions[s.id].rewards + s.granted
       /\ inventory[s.row.user] + s.granted <= SlotLimit

\* While workers are serial: the rows report what was paid.
PayInv ==
  /\ \A a \in ActionIds : RowPaid(a)
  /\ \A u \in Users : inventory[u] <= SlotLimit
  /\ \A h \in Handlers : handler[h].pc = "cancelSave" =>
       handler[h].row.rewards <= paid[handler[h].id]
  /\ \A w \in Workers : WorkerPays(worker[w])

-----------------------------------------------------------------------------
(* The steps of the system by what they store *)

\* A load of the entities, of any player, or none.
TreesLoaded == UNCHANGED trees \/ \E u \in Users : ensureResourceNodes(u)

\* All but three actions leave the rows, the events and the inventory alone.
LEMMA ThreeWriters ==
  ASSUME IInv, [Next]_vars
  PROVE  \/ \E h \in Handlers : HarvestCreate(h) \/ CancelSave(h)
         \/ \E w \in Workers : WorkerFinish(w)
         \/ UNCHANGED <<actions, inventory, xp, paid, events, outbox>> /\ TreesLoaded
<1> DEFINE Quiet == UNCHANGED <<actions, inventory, xp, paid, events, outbox>> /\ TreesLoaded
<1>1. CASE Tick \/ UNCHANGED vars
  BY <1>1 DEF Tick, vars, dbVars, TreesLoaded
<1>2. ASSUME NEW h \in Handlers, Request(h) \/ HandlerFault(h) PROVE Quiet
  <2>1. CASE HandlerFault(h)
    BY <2>1 DEF HandlerFault, dbVars, TreesLoaded
  <2>2. CASE Request(h)
    BY <2>2 DEF Request, HarvestReadActive, Get, Move, GetPlayer, ListEntities, TeleportCheck,
       dbVars, TreesLoaded
  <2> QED BY <1>2, <2>1, <2>2
<1>3. ASSUME NEW h \in Handlers, HandlerStep(h)
      PROVE  HarvestCreate(h) \/ CancelSave(h) \/ Quiet
  <2>1. CASE HarvestReadPlayer(h) \/ TeleportGet(h) \/ ResolveAction(h) \/ CancelRead(h)
    BY <2>1 DEF HarvestReadPlayer, TeleportGet, GetPlayer, ResolveAction, CancelRead, dbVars, TreesLoaded
  <2>2. CASE Settle(h) \/ SaveMove(h) \/ SaveTeleport(h)
    BY <2>2 DEF Settle, SaveMove, SaveTeleport, TreesLoaded
  <2>3. CASE MoveCheck(h)
    <3>1. handler[h].user \in Users
      BY <2>3, Facts DEF MoveCheck, HandlerOK
    <3> QED BY <2>3, <3>1 DEF MoveCheck, TreesLoaded
  <2> QED BY <1>3, <2>1, <2>2, <2>3 DEF HandlerStep
<1>4. ASSUME NEW w \in Workers, WorkerStep(w) \/ WorkerFault(w) PROVE WorkerFinish(w) \/ Quiet
  BY <1>4 DEF WorkerStep, WorkerFault, WorkerSnapshot, WorkerLock, WorkerTick, dbVars, TreesLoaded
<1> QED BY <1>1, <1>2, <1>3, <1>4 DEF Next

\* Loading the entities fells no tree, raises no felled one and takes none that stands.
LEMMA LoadedTrees ==
  ASSUME IInv, TreesLoaded, NEW u \in Users, NEW e \in Entities
  PROVE  /\ trees'[u][e].state \in {"depleted", "deleted"}
              <=> trees[u][e].state \in {"depleted", "deleted"}
         /\ trees[u][e].state = "idle" => trees'[u][e].state = "idle"
<1>1. CASE UNCHANGED trees
  BY <1>1
<1>2. ASSUME NEW v \in Users, ensureResourceNodes(v)
      PROVE  /\ trees'[u][e].state \in {"depleted", "deleted"}
                  <=> trees[u][e].state \in {"depleted", "deleted"}
             /\ trees[u][e].state = "idle" => trees'[u][e].state = "idle"
  <2> DEFINE expired == {x \in Entities : trees[v][x].state = "depleted" /\ trees[v][x].expires <= now}
             unborn == {x \in Entities : trees[v][x].state = "unborn"}
  <2>1. PICK born \in SUBSET unborn : trees' = [trees EXCEPT ![v] = Regrown(trees[v], expired, born)]
    BY <1>2 DEF ensureResourceNodes
  <2>2. trees \in TreesType
    BY Facts
  <2>3. CASE u # v
    BY <2>1, <2>2, <2>3 DEF TreesType
  <2>4. CASE u = v
    <3>1. trees'[u][e] = IF e \in expired THEN [trees[u][e] EXCEPT !.state = "deleted"]
                         ELSE IF e \in born THEN [trees[u][e] EXCEPT !.state = "idle"]
                         ELSE trees[u][e]
      BY <2>1, <2>2, <2>4 DEF Regrown, TreesType
    <3>2. trees[u][e] \in [state : {"unborn", "idle", "depleted", "deleted"}, expires : Nat]
      BY <2>2 DEF TreesType
    <3> QED BY <2>1, <2>4, <3>1, <3>2
  <2> QED BY <2>3, <2>4
<1> QED BY <1>1, <1>2 DEF TreesLoaded

\* appendEvents counts each event it is given once.
LEMMA EmitCounts ==
  ASSUME IInv, NEW a \in ActionIds, NEW types, Emit(a, types),
         NEW b \in ActionIds, NEW t \in EventTypes
  PROVE  events'[b][t] = events[b][t] + (IF b = a /\ t \in types THEN 1 ELSE 0)
<1>1. events \in [ActionIds -> [EventTypes -> Nat]]
  BY DEF IInv, TypeOK
<1> QED BY <1>1 DEF Emit

\* StartHarvest either refuses, or inserts an active row that was absent for a
\* player without one, beside a standing tree, and settles the player.
LEMMA CreateStores ==
  ASSUME IInv, NEW h \in Handlers, HarvestCreate(h)
  PROVE  \/ UNCHANGED <<actions, events, players>>
         \/ \E a \in ActionIds, row \in Row :
              LET s == handler[h] IN
              /\ actions[a].status = "absent" /\ actions' = [actions EXCEPT ![a] = row]
              /\ row = NewAction(s.user, s.entity, s.now)
              /\ row.status = "active" /\ row.user = s.user /\ row.entity = s.entity
              /\ row.rewards = 0 /\ RowOK(row)
              /\ CanHarvest(s.user, s.entity, s.player) /\ ActiveOf(s.user) = {}
              /\ Emit(a, {"started"})
              /\ players' = IF s.player.movement = NoMovement THEN players
                            ELSE [players EXCEPT ![s.user] = Settled(s.player)]
<1> DEFINE s == handler[h]
           unused == {a \in ActionIds : actions[a].status = "absent"}
<1>1. s.user \in Users /\ s.entity \in Entities /\ s.now \in Nat
  BY Facts DEF HarvestCreate, HandlerOK, HandlerState
<1>2. CASE ~(CanHarvest(s.user, s.entity, s.player) /\ OneActiveIndex(s.user) /\ unused # {})
  BY <1>2 DEF HarvestCreate
<1>3. CASE CanHarvest(s.user, s.entity, s.player) /\ OneActiveIndex(s.user) /\ unused # {}
  <2>1. PICK a : a \in unused /\ a = CHOOSE x \in unused : TRUE
    BY <1>3
  <2>2. PICK row : row = NewAction(s.user, s.entity, s.now)
    OBVIOUS
  <2>3. /\ actions' = [actions EXCEPT ![a] = row] /\ Emit(a, {"started"})
        /\ players' = IF s.player.movement = NoMovement THEN players
                      ELSE [players EXCEPT ![s.user] = Settled(s.player)]
    BY <1>3, <2>1, <2>2 DEF HarvestCreate
  <2>4. row \in Row /\ row.status = "active" /\ row.user = s.user /\ RowOK(row)
    BY <1>1, <2>2, NewActionOK DEF IInv
  <2>5. row.entity = s.entity /\ row.rewards = 0
    BY <2>2 DEF NewAction
  <2>6. a \in ActionIds /\ actions[a].status = "absent" /\ ActiveOf(s.user) = {}
    BY <1>3, <2>1 DEF OneActiveIndex
  <2> QED BY <1>3, <2>2, <2>3, <2>4, <2>5, <2>6
<1> QED BY <1>2, <1>3

\* CancelActive stores the copy it read, of a row no worker holds.
LEMMA CancelStores ==
  ASSUME IInv, NEW h \in Handlers, CancelSave(h)
  PROVE  LET a == handler[h].id  row == handler[h].row IN
         /\ a \in ActionIds /\ row \in Row /\ lock[a] = NoWorker
         /\ Copy(row, a, "cancelled") /\ actions' = [actions EXCEPT ![a] = row]
         /\ Emit(a, {"cancelled"})
<1>1. /\ handler[h].id \in ActionIds /\ handler[h].row \in Row
      /\ Copy(handler[h].row, handler[h].id, "cancelled")
  BY Facts DEF CancelSave, HandlerOK, HandlerState
<1>2. actions' = [actions EXCEPT ![handler[h].id] = handler[h].row]
  BY <1>1, SaveActionStores, Facts DEF CancelSave, Copy
<1> QED BY <1>1, <1>2 DEF CancelSave

\* What worker w knows of action a when it saves and commits, and the row and
\* events it stores: the row it holds is active, of a player and a tree it names
\* rightly.
Finishes(w, a, row, emitted) ==
  LET s == worker[w]
      r == s.row
      done == s.now >= r.ends
      felled == done /\ trees[r.user][r.entity].state = "idle"
  IN  /\ a = s.id /\ s \in WorkerState /\ s.pc \in {"advance", "finish"}
      /\ a \in ActionIds /\ lock[a] = w /\ actions[a].status = "active"
      /\ r \in Row /\ r.user \in Users /\ r.entity \in Entities
      /\ SameAction(r, actions[a]) /\ Replaying(s)
      /\ row \in Row /\ actions' = [actions EXCEPT ![a] = row] /\ SameAction(row, actions[a])
      /\ row.status = (IF done THEN "completed" ELSE "active")
      /\ row.rewards = r.rewards /\ row.ticks = r.ticks
      /\ Emit(a, emitted)
      /\ "completed" \in emitted <=> done
      /\ "depleted" \in emitted <=> felled
      /\ emitted \cap {"started", "cancelled"} = {}
      /\ trees' = IF felled THEN [trees EXCEPT ![r.user][r.entity] =
                      [state |-> "depleted", expires |-> s.now + StumpLifetime]] ELSE trees
      /\ outbox' = [outbox EXCEPT ![a] = @ + (IF done THEN 1 ELSE 0)]
      /\ paid' = [paid EXCEPT ![a] = @ + s.granted]
      /\ inventory' = [inventory EXCEPT ![r.user] = @ + s.granted]

LEMMA FinishStores ==
  ASSUME IInv, NEW w \in Workers, WorkerFinish(w)
  PROVE  \E a, row, emitted : Finishes(w, a, row, emitted)
<1> DEFINE s == worker[w]
           a == s.id
           r == s.row
           u == r.user
           level == IF s.granted > 0 THEN skillLevelForXP(xp[u] + s.granted) ELSE r.level
           done == s.now >= r.ends
           felled == done /\ trees[u][r.entity].state = "idle"
           emitted == (IF level > r.level THEN {"levelUp"} ELSE {})
                      \cup (IF felled THEN {"depleted"} ELSE {})
                      \cup (IF done THEN {"completed"} ELSE {})
           row == [r EXCEPT !.level = level, !.status = IF done THEN "completed" ELSE "active"]
<1>1. /\ s \in WorkerState /\ s.pc \in {"advance", "finish"}
      /\ a \in ActionIds /\ lock[a] = w /\ actions[a].status = "active"
      /\ r \in Row /\ SameAction(r, actions[a]) /\ Replaying(s)
  BY Facts DEF WorkerFinish, WorkerOK, WorkerState
<1>2. u \in Users /\ r.entity \in Entities
  BY <1>1, Facts DEF SameAction, RowOK
<1>3. level \in Nat
  <2>1. xp \in [Users -> Nat] /\ s.granted \in Nat /\ r.level \in Nat
    BY <1>1 DEF IInv, TypeOK, WorkerState, Row
  <2> QED BY <1>2, <2>1, LevelIsNat
<1>4. /\ saveAction(a, row) /\ Emit(a, emitted)
      /\ trees' = IF felled THEN [trees EXCEPT ![u][r.entity] =
                      [state |-> "depleted", expires |-> s.now + StumpLifetime]] ELSE trees
      /\ outbox' = [outbox EXCEPT ![a] = @ + (IF done THEN 1 ELSE 0)]
      /\ paid' = [paid EXCEPT ![a] = @ + s.granted]
      /\ inventory' = [inventory EXCEPT ![u] = @ + s.granted]
  BY DEF WorkerFinish
<1>5. PICK new : new = row
  OBVIOUS
<1>6. /\ new \in Row /\ new.status = (IF done THEN "completed" ELSE "active")
      /\ SameAction(new, actions[a]) /\ new.rewards = r.rewards /\ new.ticks = r.ticks
  BY <1>1, <1>3, <1>5 DEF Row, Statuses, SameAction
<1>7. actions' = [actions EXCEPT ![a] = new]
  BY <1>1, <1>4, <1>5, <1>6, SaveActionStores, Facts
<1>8. /\ "completed" \in emitted <=> done
      /\ "depleted" \in emitted <=> felled
      /\ emitted \cap {"started", "cancelled"} = {}
  OBVIOUS
<1>9. Finishes(w, a, new, emitted)
  <2> HIDE DEF emitted, felled, done
  <2> QED BY <1>1, <1>2, <1>4, <1>6, <1>7, <1>8 DEF Finishes, felled, done
<1> QED BY <1>9

-----------------------------------------------------------------------------
(* The events and the rows *)

\* The two parts of EventsMatchRows.
RowEvents(a) ==
  LET e == events[a]  s == actions[a].status IN
  /\ e["started"] = (IF s = "absent" THEN 0 ELSE 1)
  /\ e["completed"] <= 1 /\ outbox[a] = e["completed"]
  /\ s \in {"absent", "active"} => e["completed"] = 0 /\ e["cancelled"] = 0
  /\ s = "completed" => e["completed"] = 1
  /\ s = "cancelled" => e["cancelled"] >= 1
  /\ e["depleted"] <= e["completed"]

FelledBy(a, u, t) ==
  actions[a].user = u /\ actions[a].entity = t /\ events[a]["depleted"] = 1

TreeEvents(u, t) ==
  trees[u][t].state \in {"depleted", "deleted"} <=> \E a \in ActionIds : FelledBy(a, u, t)

LEMMA EventsParts ==
  EventsMatchRows <=> /\ \A a \in ActionIds : RowEvents(a)
                      /\ \A u \in Users, t \in Entities : TreeEvents(u, t)
BY DEF EventsMatchRows, RowEvents, TreeEvents, FelledBy

LEMMA EventsPartsAfter ==
  ASSUME \A a \in ActionIds : RowEvents(a)',
         \A u \in Users, t \in Entities : TreeEvents(u, t)'
  PROVE  EventsMatchRows'
BY DEF EventsMatchRows, RowEvents, TreeEvents, FelledBy

\* The counters, in the form the provers use.
LEMMA Counters ==
  ASSUME IInv, NEW a \in ActionIds
  PROVE  outbox[a] \in Nat /\ \A t \in EventTypes : events[a][t] \in Nat
BY DEF IInv, TypeOK

LEMMA EventsInit == Init => EventsMatchRows
<1> SUFFICES ASSUME Init PROVE EventsMatchRows
  OBVIOUS
<1>1. \A a \in ActionIds : RowEvents(a)
  BY DEF Init, RowEvents, EventTypes, AbsentRow
<1>2. \A u \in Users, t \in Entities : TreeEvents(u, t)
  BY DEF Init, TreeEvents, FelledBy, EventTypes
<1> QED BY <1>1, <1>2, EventsParts

\* A row that keeps its owner and target, with an event that is not about the
\* tree, leaves the trees' part alone.
LEMMA TreesUndisturbed ==
  ASSUME IInv, EventsMatchRows, UNCHANGED trees, NEW a \in ActionIds,
         \A b \in ActionIds : b # a => actions'[b] = actions[b] /\ events'[b] = events[b],
         events'[a]["depleted"] = events[a]["depleted"],
         events[a]["depleted"] = 1 => SameAction(actions'[a], actions[a])
  PROVE  \A u \in Users, t \in Entities : TreeEvents(u, t)'
<1> SUFFICES ASSUME NEW u \in Users, NEW t \in Entities PROVE TreeEvents(u, t)'
  OBVIOUS
<1>1. \A b \in ActionIds : FelledBy(b, u, t)' <=> FelledBy(b, u, t)
  BY DEF FelledBy, SameAction
<1>2. TreeEvents(u, t)
  BY EventsParts
<1> QED BY <1>1, <1>2 DEF TreeEvents

\* StartHarvest's commit.
LEMMA EventsCreate ==
  ASSUME IInv, EventsMatchRows, NEW h \in Handlers, HarvestCreate(h)
  PROVE  EventsMatchRows'
<1>0. UNCHANGED <<trees, outbox>>
  BY DEF HarvestCreate
<1>1. CASE UNCHANGED <<actions, events, players>>
  BY <1>0, <1>1 DEF EventsMatchRows
<1>2. ASSUME NEW a \in ActionIds, NEW row \in Row,
             actions[a].status = "absent", actions' = [actions EXCEPT ![a] = row],
             row.status = "active", Emit(a, {"started"})
      PROVE  EventsMatchRows'
  <2>1. \A b \in ActionIds : actions'[b] = IF b = a THEN row ELSE actions[b]
    BY <1>2, Facts
  <2>2. \A b \in ActionIds, t \in EventTypes :
          events'[b][t] = events[b][t] + (IF b = a /\ t \in {"started"} THEN 1 ELSE 0)
    BY <1>2, EmitCounts
  <2>3. \A b \in ActionIds : RowEvents(b) /\ outbox[b] \in Nat /\ \A t \in EventTypes : events[b][t] \in Nat
    BY EventsParts, Counters
  <2>4. \A b \in ActionIds : RowEvents(b)'
    BY <1>0, <1>2, <2>1, <2>2, <2>3 DEF RowEvents, EventTypes
  <2>5. \A b \in ActionIds : b # a => events'[b] = events[b]
    BY <1>2, Facts DEF Emit, IInv, TypeOK
  <2>6. events[a]["depleted"] = 0 /\ events'[a]["depleted"] = 0
    BY <1>2, <2>2, <2>3 DEF RowEvents, EventTypes
  <2>7. \A u \in Users, t \in Entities : TreeEvents(u, t)'
    BY <1>0, <2>1, <2>5, <2>6, TreesUndisturbed
  <2> QED BY <2>4, <2>7, EventsPartsAfter
<1> QED BY <1>1, <1>2, CreateStores

\* CancelActive's commit: it may also cancel what was completed meanwhile.
LEMMA EventsCancel ==
  ASSUME IInv, EventsMatchRows, NEW h \in Handlers, CancelSave(h)
  PROVE  EventsMatchRows'
<1>0. UNCHANGED <<trees, outbox>>
  BY DEF CancelSave
<1>1. PICK a, row : a = handler[h].id /\ row = handler[h].row
  OBVIOUS
<1>2. /\ a \in ActionIds /\ row \in Row /\ Copy(row, a, "cancelled")
      /\ actions' = [actions EXCEPT ![a] = row] /\ Emit(a, {"cancelled"})
  BY <1>1, CancelStores
<1>3. \A b \in ActionIds : actions'[b] = IF b = a THEN row ELSE actions[b]
  BY <1>2, Facts
<1>4. \A b \in ActionIds, t \in EventTypes :
        events'[b][t] = events[b][t] + (IF b = a /\ t \in {"cancelled"} THEN 1 ELSE 0)
  BY <1>2, EmitCounts
<1>5. \A b \in ActionIds : RowEvents(b) /\ outbox[b] \in Nat /\ \A t \in EventTypes : events[b][t] \in Nat
  BY EventsParts, Counters
<1>6. \A b \in ActionIds : RowEvents(b)'
  BY <1>0, <1>2, <1>3, <1>4, <1>5 DEF RowEvents, EventTypes, Copy
<1>7. \A b \in ActionIds : b # a => events'[b] = events[b]
  BY <1>2, Facts DEF Emit, IInv, TypeOK
<1>8. \A u \in Users, t \in Entities : TreeEvents(u, t)'
  <2>1. events'[a]["depleted"] = events[a]["depleted"]
    BY <1>2, <1>4, Counters DEF EventTypes
  <2>2. SameAction(actions'[a], actions[a])
    BY <1>2, <1>3 DEF Copy
  <2> QED BY <1>0, <1>2, <1>3, <1>7, <2>1, <2>2, TreesUndisturbed
<1> QED BY <1>6, <1>8, EventsPartsAfter

\* A worker's commit: completion, felling and their events together.
LEMMA EventsFinish ==
  ASSUME IInv, EventsMatchRows, NEW w \in Workers, WorkerFinish(w)
  PROVE  EventsMatchRows'
<1> DEFINE s == worker[w]
           r == s.row
           u == r.user
           e == r.entity
           done == s.now >= r.ends
           felled == done /\ trees[u][e].state = "idle"
<1>0. PICK a, row, emitted : Finishes(w, a, row, emitted)
  BY FinishStores
<1>1. /\ a \in ActionIds /\ actions[a].status = "active" /\ u \in Users /\ e \in Entities
      /\ SameAction(r, actions[a]) /\ row \in Row
      /\ actions' = [actions EXCEPT ![a] = row] /\ SameAction(row, actions[a])
      /\ row.status = (IF done THEN "completed" ELSE "active")
      /\ Emit(a, emitted) /\ emitted \cap {"started", "cancelled"} = {}
      /\ ("completed" \in emitted <=> done) /\ ("depleted" \in emitted <=> felled)
      /\ trees' = IF felled THEN [trees EXCEPT ![u][e] =
                      [state |-> "depleted", expires |-> s.now + StumpLifetime]] ELSE trees
      /\ outbox' = [outbox EXCEPT ![a] = @ + (IF done THEN 1 ELSE 0)]
  BY <1>0 DEF Finishes
<1>2. PICK Done \in BOOLEAN, Felled \in BOOLEAN : (Done <=> done) /\ (Felled <=> felled)
  OBVIOUS
<1>3. Felled => Done
  BY <1>2
<1>4. \A b \in ActionIds : actions'[b] = IF b = a THEN row ELSE actions[b]
  BY <1>1, Facts
<1>5. \A b \in ActionIds, t \in EventTypes :
        events'[b][t] = events[b][t] + (IF b = a /\ t \in emitted THEN 1 ELSE 0)
  BY <1>1, EmitCounts
<1>6. \A b \in ActionIds : outbox'[b] = outbox[b] + (IF b = a /\ Done THEN 1 ELSE 0)
  BY <1>1, <1>2 DEF IInv, TypeOK
<1>7. \A b \in ActionIds : RowEvents(b) /\ outbox[b] \in Nat /\ \A t \in EventTypes : events[b][t] \in Nat
  BY EventsParts, Counters
<1>8. /\ row.status = (IF Done THEN "completed" ELSE "active")
      /\ "completed" \in emitted <=> Done
      /\ "depleted" \in emitted <=> Felled
  BY <1>1, <1>2
<1> HIDE DEF done, felled
<1>9. events[a]["completed"] = 0 /\ events[a]["cancelled"] = 0 /\ events[a]["depleted"] = 0
  BY <1>1, <1>7 DEF RowEvents, EventTypes
<1>10. \A b \in ActionIds : RowEvents(b)'
  <2> SUFFICES ASSUME NEW b \in ActionIds PROVE RowEvents(b)'
    OBVIOUS
  <2>1. CASE b # a
    BY <1>4, <1>5, <1>6, <1>7, <2>1 DEF RowEvents, EventTypes
  <2>2. CASE b = a
    <3>1. events'[a]["started"] = 1 /\ events'[a]["cancelled"] = 0
      BY <1>1, <1>5, <1>7, <1>9 DEF RowEvents, EventTypes
    <3>2. /\ events'[a]["completed"] = (IF Done THEN 1 ELSE 0)
          /\ events'[a]["depleted"] = (IF Felled THEN 1 ELSE 0)
      BY <1>1, <1>5, <1>8, <1>9 DEF EventTypes
    <3>3. outbox'[a] = (IF Done THEN 1 ELSE 0)
      BY <1>1, <1>6, <1>7, <1>9 DEF RowEvents
    <3> QED BY <1>1, <1>3, <1>4, <1>8, <2>2, <3>1, <3>2, <3>3 DEF RowEvents
  <2> QED BY <2>1, <2>2
<1>11. \A b \in ActionIds : b # a => events'[b] = events[b]
  BY <1>1, Facts DEF Emit, IInv, TypeOK
<1>12. \A v \in Users, t \in Entities : TreeEvents(v, t)'
  <2>1. CASE ~Felled
    <3>1. UNCHANGED trees
      BY <1>1, <1>2, <2>1
    <3>2. events'[a]["depleted"] = 0
      BY <1>1, <1>5, <1>8, <1>9, <2>1 DEF EventTypes
    <3> QED BY <1>1, <1>4, <1>9, <1>11, <3>1, <3>2, TreesUndisturbed
  <2>2. CASE Felled
    <3> SUFFICES ASSUME NEW v \in Users, NEW t \in Entities PROVE TreeEvents(v, t)'
      OBVIOUS
    <3>1. trees' = [trees EXCEPT ![u][e] =
                     [state |-> "depleted", expires |-> s.now + StumpLifetime]]
      BY <1>1, <1>2, <2>2
    <3>2. events'[a]["depleted"] = 1
      BY <1>1, <1>5, <1>8, <1>9, <2>2 DEF EventTypes
    <3>3. actions'[a].user = u /\ actions'[a].entity = e
      BY <1>1, <1>4 DEF SameAction
    <3>4. TreeEvents(v, t)
      BY EventsParts
    <3>5. CASE v = u /\ t = e
      <4>1. trees'[v][t].state = "depleted"
        BY <1>1, <3>1, <3>5, Facts DEF TreesType
      <4>2. FelledBy(a, v, t)'
        BY <3>2, <3>3, <3>5 DEF FelledBy
      <4> QED BY <1>1, <4>1, <4>2 DEF TreeEvents
    <3>6. CASE ~(v = u /\ t = e)
      <4>1. trees'[v][t] = trees[v][t]
        BY <1>1, <3>1, <3>6, Facts DEF TreesType
      <4>2. \A b \in ActionIds : FelledBy(b, v, t)' <=> FelledBy(b, v, t)
        BY <1>1, <1>4, <1>9, <1>11, <3>3, <3>6 DEF FelledBy, SameAction
      <4> QED BY <3>4, <4>1, <4>2 DEF TreeEvents
    <3> QED BY <3>5, <3>6
  <2> QED BY <1>3, <2>1, <2>2
<1> QED BY <1>10, <1>12, EventsPartsAfter

\* Every step keeps the events and the rows together.
LEMMA EventsStep == IInv /\ EventsMatchRows /\ [Next]_vars => EventsMatchRows'
<1> SUFFICES ASSUME IInv, EventsMatchRows, [Next]_vars PROVE EventsMatchRows'
  OBVIOUS
<1>1. CASE UNCHANGED <<actions, inventory, xp, paid, events, outbox>> /\ TreesLoaded
  <2>1. \A a \in ActionIds : RowEvents(a)'
    BY <1>1, EventsParts DEF RowEvents
  <2>2. ASSUME NEW u \in Users, NEW t \in Entities PROVE TreeEvents(u, t)'
    <3>1. \A a \in ActionIds : FelledBy(a, u, t)' <=> FelledBy(a, u, t)
      BY <1>1 DEF FelledBy
    <3>2. TreeEvents(u, t)
      BY EventsParts
    <3> QED BY <1>1, <3>1, <3>2, LoadedTrees DEF TreeEvents
  <2> QED BY <2>1, <2>2, EventsPartsAfter
<1> QED BY <1>1, ThreeWriters, EventsCreate, EventsCancel, EventsFinish

\* The durable events agree with the rows, for any number of workers and
\* requests: a completion is recorded and enqueued once and only with the row's
\* completion, an active action has not been announced as over, and a tree is
\* down exactly when an action has announced that it felled it.
THEOREM EventsAgree == Spec => []EventsMatchRows
BY Invariance, EventsInit, EventsStep, PTL DEF Spec

-----------------------------------------------------------------------------
(* While requests are serial: where a harvester stands *)

LEMMA StandInit == Init => StandInv
<1> SUFFICES ASSUME Init PROVE StandInv
  OBVIOUS
<1>1. \A u \in Users : ActiveOf(u) = {}
  BY DEF Init, ActiveOf, AbsentRow
<1>2. \A h \in Handlers : Undisturbed(handler[h])
  BY DEF Init, Undisturbed, IdleHandler
<1> QED BY <1>1, <1>2 DEF StandInv, NeverMovingWhileHarvesting, HarvestBesideTree

\* A movement that was over stays over.
LEMMA RestLasts ==
  ASSUME IInv, NEW p \in Player, now' \in Nat, now' >= now, AtRest(p)
  PROVE  AtRest(p)'
BY Facts DEF AtRest, Arrived, Player, Movement

\* The clock never goes back.
LEMMA ClockForward ==
  ASSUME IInv, [Next]_vars
  PROVE  now' \in Nat /\ now' >= now
<1>1. CASE Tick
  BY <1>1, Facts DEF Tick
<1>2. CASE UNCHANGED vars
  BY <1>2, Facts DEF vars
<1>3. ASSUME NEW h \in Handlers, Request(h) \/ HandlerStep(h) \/ HandlerFault(h)
      PROVE  now' = now
  BY <1>3 DEF Request, HarvestReadActive, Get, Move, GetPlayer, ListEntities, TeleportCheck,
     HandlerStep, HarvestReadPlayer, HarvestCreate, TeleportGet, Settle, ResolveAction, CancelRead,
     CancelSave, MoveCheck, SaveMove, SaveTeleport, HandlerFault
<1>4. ASSUME NEW w \in Workers, WorkerStep(w) \/ WorkerFault(w)
      PROVE  now' = now
  BY <1>4 DEF WorkerStep, WorkerSnapshot, WorkerLock, WorkerTick, WorkerFinish, WorkerFault
<1> QED BY <1>1, <1>2, <1>3, <1>4, Facts DEF Next

\* What a step does to the rest of the system: nobody gets an active action, no
\* active action loses its tree, and the players stay where they are.
Calm ==
  /\ UNCHANGED players
  /\ \A a \in ActionIds : actions'[a].status = "active" =>
       actions[a].status = "active" /\ SameAction(actions'[a], actions[a])
  /\ \A u \in Users : \A a \in ActiveOf(u)' :
       trees[u][actions[a].entity].state = "idle" => trees'[u][actions[a].entity].state = "idle"

\* A calm step keeps the harvesters where they are, and what a request that
\* does not take it knows.
LEMMA CalmKeeps ==
  ASSUME IInv, StandInv, Calm, now' \in Nat, now' >= now
  PROVE  /\ NeverMovingWhileHarvesting' /\ HarvestBesideTree'
         /\ \A h \in Handlers : handler'[h] = handler[h] => Undisturbed(handler[h])'
<1>1. \A u \in Users : ActiveOf(u)' \subseteq ActiveOf(u)
  BY DEF Calm, ActiveOf, SameAction
<1>2. NeverMovingWhileHarvesting'
  <2> SUFFICES ASSUME NEW u \in Users, ActiveOf(u)' # {}
               PROVE  AtRest(players[u])'
    BY DEF NeverMovingWhileHarvesting, AtRest
  <2>1. AtRest(players[u])
    BY <1>1 DEF StandInv, NeverMovingWhileHarvesting, AtRest
  <2>2. players[u] \in Player /\ players' = players
    BY Facts DEF Calm
  <2>3. PICK p \in Player : p = players[u]
    BY <2>2
  <2>4. AtRest(p)'
    BY <2>1, <2>3, RestLasts
  <2> QED BY <2>2, <2>3, <2>4 DEF AtRest, Arrived
<1>3. HarvestBesideTree'
  <2> SUFFICES ASSUME NEW u \in Users, NEW a \in ActiveOf(u)'
               PROVE  /\ Settled(players'[u]).at \in Beside[actions'[a].entity]
                      /\ trees'[u][actions'[a].entity].state = "idle"
    BY DEF HarvestBesideTree
  <2>1. a \in ActiveOf(u) /\ a \in ActionIds /\ actions'[a].entity = actions[a].entity
    BY <1>1 DEF Calm, ActiveOf, SameAction
  <2>2. /\ Settled(players[u]).at \in Beside[actions[a].entity]
        /\ trees[u][actions[a].entity].state = "idle"
    BY <2>1 DEF StandInv, HarvestBesideTree
  <2> QED BY <2>1, <2>2 DEF Calm
<1>4. ASSUME NEW h \in Handlers, handler'[h] = handler[h]
      PROVE  Undisturbed(handler[h])'
  <2>1. Undisturbed(handler[h]) /\ handler[h] \in HandlerState /\ HandlerOK(handler[h])
    BY Facts DEF StandInv
  <2>2. handler[h].player \in Player /\ handler[h].now \in Nat /\ now \in Nat
    BY <2>1, Facts DEF HandlerState
  <2>3. AtRest(handler[h].player) => AtRest(handler[h].player)'
    <3>1. PICK p \in Player : p = handler[h].player
      BY <2>2
    <3>2. AtRest(p) => AtRest(p)'
      BY RestLasts
    <3> QED BY <1>4, <3>1, <3>2 DEF AtRest, Arrived
  <2>4. handler[h].pc # "idle" => ActiveOf(handler[h].user)' \subseteq ActiveOf(handler[h].user)
    BY <1>1, <1>4, <2>1 DEF HandlerOK
  <2>5. handler[h].pc = "harvestPlayer" => handler[h].now <= now'
    BY <2>1, <2>2 DEF Undisturbed
  <2>6. handler[h].pc = "harvestCreate" =>
          handler[h].player = players'[handler[h].user] /\ AtRest(handler[h].player)'
    BY <2>1, <2>3 DEF Undisturbed, Calm
  <2>7. handler[h].pc = "settle" => handler[h].player = Settled(players'[handler[h].user])
    BY <2>1 DEF Undisturbed, Calm
  <2>8. handler[h].pc = "cancelSave" => ActiveOf(handler[h].user)' \subseteq {handler[h].id}
    BY <2>1, <2>4 DEF Undisturbed
  <2>9. handler[h].pc \in {"ensure", "saveMove", "saveTeleport"} => ActiveOf(handler[h].user)' = {}
    BY <2>1, <2>4 DEF Undisturbed
  <2> QED BY <1>4, <2>5, <2>6, <2>7, <2>8, <2>9 DEF Undisturbed, AtRest, Arrived, ActiveOf
<1> QED BY <1>2, <1>3, <1>4

\* A calm step by a handler, which may go on.
LEMMA CalmMove ==
  ASSUME IInv, StandInv, Calm, UNCHANGED now, NEW h \in Handlers, NEW x,
         handler' = [handler EXCEPT ![h] = x], Undisturbed(x)'
  PROVE  StandInv'
<1>1. \A g \in Handlers : handler'[g] = IF g = h THEN x ELSE handler[g]
  BY Facts
<1>2. /\ NeverMovingWhileHarvesting' /\ HarvestBesideTree'
      /\ \A g \in Handlers : handler'[g] = handler[g] => Undisturbed(handler[g])'
  BY CalmKeeps, Facts
<1>3. ASSUME NEW g \in Handlers PROVE Undisturbed(handler[g])'
  <2>1. CASE g # h
    BY <1>1, <1>2, <2>1
  <2>2. CASE g = h
    BY <1>1, <2>2 DEF Undisturbed, AtRest, Arrived, ActiveOf
  <2> QED BY <2>1, <2>2
<1> QED BY <1>2, <1>3 DEF StandInv

\* A step that saves the player of the only request it has, or starts its
\* harvest, does not concern other players or other requests.
LEMMA PlayerSaved ==
  ASSUME IInv, StandInv, SerialRequests, UNCHANGED <<now, trees>>,
         NEW h \in Handlers, handler[h].pc # "idle", NEW u \in Users, u = handler[h].user,
         NEW x, handler' = [handler EXCEPT ![h] = x], Undisturbed(x)',
         \A v \in Users : v # u => players'[v] = players[v] /\ ActiveOf(v)' = ActiveOf(v),
         \A a \in ActionIds : actions[a].status = "active" => actions'[a] = actions[a],
         ActiveOf(u)' # {} => AtRest(players[u])',
         \A a \in ActiveOf(u)' : /\ Settled(players'[u]).at \in Beside[actions'[a].entity]
                                 /\ trees[u][actions'[a].entity].state = "idle"
  PROVE  StandInv'
<1>1. \A g \in Handlers : handler'[g] = IF g = h THEN x ELSE handler[g]
  BY Facts
<1>2. NeverMovingWhileHarvesting'
  <2> SUFFICES ASSUME NEW v \in Users, ActiveOf(v)' # {} PROVE AtRest(players[v])'
    BY DEF NeverMovingWhileHarvesting, AtRest
  <2>1. CASE v = u
    BY <2>1
  <2>2. CASE v # u
    BY <2>2 DEF StandInv, NeverMovingWhileHarvesting, AtRest, Arrived
  <2> QED BY <2>1, <2>2
<1>3. HarvestBesideTree'
  <2> SUFFICES ASSUME NEW v \in Users, NEW a \in ActiveOf(v)'
               PROVE  /\ Settled(players'[v]).at \in Beside[actions'[a].entity]
                      /\ trees[v][actions'[a].entity].state = "idle"
    BY DEF HarvestBesideTree
  <2>1. CASE v = u
    BY <2>1
  <2>2. CASE v # u
    <3>1. a \in ActiveOf(v) /\ actions'[a] = actions[a]
      BY <2>2 DEF ActiveOf
    <3> QED BY <2>2, <3>1 DEF StandInv, HarvestBesideTree
  <2> QED BY <2>1, <2>2
<1>4. ASSUME NEW g \in Handlers PROVE Undisturbed(handler[g])'
  <2>1. CASE g = h
    BY <1>1, <2>1 DEF Undisturbed, AtRest, Arrived, ActiveOf
  <2>2. CASE g # h /\ handler[g].pc = "idle"
    BY <1>1, <2>2 DEF Undisturbed
  <2>3. CASE g # h /\ handler[g].pc # "idle"
    <3>1. handler[g].user \in Users /\ handler[g].user # u /\ Undisturbed(handler[g])
      BY <2>3, Facts DEF SerialRequests, HandlerOK, StandInv
    <3>2. PICK v, s : v = handler[g].user /\ s = handler[g] /\ s = handler'[g]
      BY <1>1, <2>3
    <3>3. players'[v] = players[v] /\ ActiveOf(v)' = ActiveOf(v) /\ v = s.user
      BY <3>1, <3>2
    <3>4. Undisturbed(s)
      BY <3>1, <3>2
    <3>5. Undisturbed(s)'
      <4>1. ActiveOf(s.user)' = ActiveOf(s.user) /\ players'[s.user] = players[s.user]
        BY <3>3
      <4> QED BY <3>4, <4>1 DEF Undisturbed, AtRest, Arrived
    <3> QED BY <3>2, <3>5 DEF Undisturbed, AtRest, Arrived, ActiveOf
  <2> QED BY <2>1, <2>2, <2>3
<1> QED BY <1>2, <1>3, <1>4 DEF StandInv

\* Where the rows and the players stay, the step is calm.
LEMMA QuietCalm ==
  ASSUME IInv, UNCHANGED <<players, actions>>, TreesLoaded
  PROVE  Calm
<1>1. ASSUME NEW u \in Users, NEW a \in ActiveOf(u)'
      PROVE  trees[u][actions[a].entity].state = "idle" => trees'[u][actions[a].entity].state = "idle"
  <2>1. a \in ActionIds /\ actions[a].status = "active"
    BY <1>1 DEF ActiveOf
  <2>2. actions[a].entity \in Entities
    BY <2>1, Facts DEF RowOK
  <2> QED BY <2>2, LoadedTrees
<1> QED BY <1>1 DEF Calm, SameAction

\* A calm step after which the handler has answered, or goes on knowing nothing.
LEMMA CalmAnswer ==
  ASSUME IInv, StandInv, Calm, UNCHANGED now, NEW h \in Handlers, Answer(h)
  PROVE  StandInv'
<1>1. Undisturbed(IdleHandler)'
  BY DEF Undisturbed, IdleHandler
<1> QED BY <1>1, CalmMove DEF Answer

LEMMA CalmGoto ==
  ASSUME IInv, StandInv, Calm, UNCHANGED now, NEW h \in Handlers, NEW pc, Goto(h, pc),
         NEW u, u = handler[h].user,
         pc \in {"resolve", "getPlayer", "cancelRead"}
            \/ (pc \in {"ensure", "saveMove", "saveTeleport"} /\ ActiveOf(u)' = {})
  PROVE  StandInv'
<1>1. PICK x : x = [handler[h] EXCEPT !.pc = pc]
  OBVIOUS
<1>2. handler' = [handler EXCEPT ![h] = x] /\ x.pc = pc /\ x.user = handler[h].user
  BY <1>1, Facts DEF Goto, HandlerState
<1>3. pc \in {"ensure", "saveMove", "saveTeleport"} => ActiveOf(x.user)' = {}
  BY <1>2
<1>4. Undisturbed(x)'
  BY <1>2, <1>3 DEF Undisturbed
<1> QED BY <1>2, <1>4, CalmMove

\* A calm step of a worker or of the clock.
LEMMA CalmElsewhere ==
  ASSUME IInv, StandInv, Calm, [Next]_vars, UNCHANGED handler
  PROVE  StandInv'
<1>1. /\ NeverMovingWhileHarvesting' /\ HarvestBesideTree'
      /\ \A h \in Handlers : handler'[h] = handler[h] => Undisturbed(handler[h])'
  BY CalmKeeps, ClockForward
<1> QED BY <1>1 DEF StandInv

\* The two reads of StartHarvest.
LEMMA StandHarvest ==
  ASSUME IInv, StandInv, NEW h \in Handlers,
         HarvestReadPlayer(h) \/ \E u \in Users, e \in Entities : HarvestReadActive(h, u, e)
  PROVE  StandInv'
<1>0. Calm /\ UNCHANGED <<now, players>>
  BY QuietCalm DEF HarvestReadPlayer, HarvestReadActive, dbVars, TreesLoaded
<1>1. ASSUME NEW u \in Users, NEW e \in Entities, HarvestReadActive(h, u, e) PROVE StandInv'
  <2>1. PICK t \in RecentClock :
          handler' = [handler EXCEPT ![h] =
            [Arrive(h, u, "harvest", "harvestPlayer") EXCEPT !.entity = e, !.now = t]]
    BY <1>1 DEF HarvestReadActive
  <2>2. PICK x : x = [Arrive(h, u, "harvest", "harvestPlayer") EXCEPT !.entity = e, !.now = t]
    OBVIOUS
  <2>3. x.pc = "harvestPlayer" /\ x.now = t /\ t <= now
    BY <2>1, <2>2, Facts DEF Arrive, IdleHandler, RecentClock
  <2>4. Undisturbed(x)'
    BY <1>0, <2>3 DEF Undisturbed
  <2> QED BY <1>0, <2>1, <2>2, <2>4, CalmMove
<1>2. CASE HarvestReadPlayer(h) /\ Answer(h)
  BY <1>0, <1>2, CalmAnswer
<1>3. CASE HarvestReadPlayer(h) /\ ~Answer(h)
  <2> DEFINE p == players[handler[h].user]
  <2>1. /\ handler' = [handler EXCEPT ![h].pc = "harvestCreate", ![h].player = p]
        /\ handler[h].pc = "harvestPlayer"
        /\ p.movement = NoMovement \/ Arrived(p, handler[h].now)
    BY <1>3 DEF HarvestReadPlayer
  <2>2. PICK x : x = [handler[h] EXCEPT !.pc = "harvestCreate", !.player = p]
    OBVIOUS
  <2>3. /\ handler' = [handler EXCEPT ![h] = x]
        /\ x.pc = "harvestCreate" /\ x.player = p /\ x.user = handler[h].user
    BY <2>1, <2>2, Facts DEF HandlerState
  <2>4. AtRest(p)
    <3>1. handler[h].now \in Nat /\ handler[h].now <= now /\ p \in Player
      BY <2>1, Facts DEF StandInv, Undisturbed, HandlerState, HandlerOK
    <3> QED BY <2>1, <3>1, Facts DEF AtRest, Arrived, Player, Movement
  <2>5. Undisturbed(x)'
    <3>1. p = players'[x.user] /\ p = x.player
      BY <1>0, <2>3
    <3>2. AtRest(x.player)'
      BY <1>0, <2>4, <3>1 DEF AtRest, Arrived
    <3> QED BY <2>3, <3>1, <3>2 DEF Undisturbed
  <2> QED BY <1>0, <2>3, <2>5, CalmMove
<1> QED BY <1>1, <1>2, <1>3

\* resolveLifecycle's read: what it will settle is the stored row, settled.
LEMMA StandGetPlayer ==
  ASSUME IInv, StandInv, NEW h \in Handlers, NEW r \in HandlerState, GetPlayer(h, r)
  PROVE  StandInv'
<1>1. Calm /\ UNCHANGED <<now, players>>
  BY QuietCalm DEF GetPlayer, dbVars, TreesLoaded
<1> DEFINE p == players[r.user]
<1>2. PICK q, pc : /\ q = IF Arrived(p, now) THEN Settled(p) ELSE p
                   /\ pc = IF Arrived(p, now) THEN "settle" ELSE "resolve"
                   /\ handler' = [handler EXCEPT ![h] = [r EXCEPT !.player = q, !.pc = pc]]
  BY DEF GetPlayer
<1>3. PICK x : x = [r EXCEPT !.player = q, !.pc = pc]
  OBVIOUS
<1>4. x.pc = pc /\ x.player = q /\ x.user = r.user
  BY <1>3 DEF HandlerState
<1>5. pc \in {"settle", "resolve"} /\ (pc = "settle" => q = Settled(p))
  BY <1>2
<1>6. Undisturbed(x)'
  BY <1>1, <1>4, <1>5 DEF Undisturbed
<1> QED BY <1>1, <1>2, <1>3, <1>6, CalmMove

LEMMA StandRequest ==
  ASSUME IInv, StandInv, [Next]_vars, NEW h \in Handlers, Request(h)
  PROVE  StandInv'
<1>1. PICK u \in Users :
        \/ \E e \in Entities : HarvestReadActive(h, u, e)
        \/ Get(h, u) \/ ListEntities(h, u)
        \/ \E t \in Tiles \cup {Water} : Move(h, u, t) \/ TeleportCheck(h, u, t)
  BY DEF Request
<1>2. CASE \E e \in Entities : HarvestReadActive(h, u, e)
  BY <1>2, StandHarvest
<1>3. CASE Get(h, u)
  <2>1. PICK r : r = Arrive(h, u, "get", "idle")
    OBVIOUS
  <2>2. r \in HandlerState
    BY <2>1, Constants DEF Arrive, IdleHandler, HandlerState, HandlerPCs, OpNames
  <2> QED BY <1>3, <2>1, <2>2, StandGetPlayer DEF Get
<1>4. CASE ListEntities(h, u)
  <2>1. Calm
    BY <1>4, QuietCalm DEF ListEntities, TreesLoaded
  <2> QED BY <1>4, <2>1, CalmElsewhere DEF ListEntities
<1>5. ASSUME NEW t \in Tiles \cup {Water}, Move(h, u, t) PROVE StandInv'
  <2>1. PICK r : r = [Arrive(h, u, "move", "idle") EXCEPT !.tile = t]
    OBVIOUS
  <2>2. r \in HandlerState
    BY <2>1, Constants DEF Arrive, IdleHandler, HandlerState, HandlerPCs, OpNames
  <2> QED BY <1>5, <2>1, <2>2, StandGetPlayer DEF Move
<1>6. ASSUME NEW t \in Tiles \cup {Water}, TeleportCheck(h, u, t) PROVE StandInv'
  <2>1. Calm /\ UNCHANGED now
    BY <1>6, QuietCalm DEF TeleportCheck, TreesLoaded
  <2>2. CASE UNCHANGED handler
    BY <2>1, <2>2, CalmElsewhere
  <2>3. CASE handler' = [handler EXCEPT ![h] =
               [Arrive(h, u, "teleport", "cancelRead") EXCEPT !.tile = t]]
    <3>1. PICK x : x = [Arrive(h, u, "teleport", "cancelRead") EXCEPT !.tile = t]
      OBVIOUS
    <3>2. x.pc = "cancelRead"
      BY <3>1 DEF Arrive, IdleHandler
    <3>3. Undisturbed(x)'
      BY <3>2 DEF Undisturbed
    <3> QED BY <2>1, <2>3, <3>1, <3>3, CalmMove
  <2> QED BY <1>6, <2>2, <2>3 DEF TeleportCheck
<1> QED BY <1>1, <1>2, <1>3, <1>4, <1>5, <1>6

\* resolveLifecycle's read of the action, and CancelActive's.
LEMMA StandResolve ==
  ASSUME IInv, StandInv, NEW h \in Handlers, ResolveAction(h) \/ CancelRead(h)
  PROVE  StandInv'
<1> DEFINE u == handler[h].user
<1>1. Calm /\ UNCHANGED <<now, actions>>
  BY QuietCalm DEF ResolveAction, CancelRead, dbVars, TreesLoaded
<1>2. PICK v \in Users : v = u
  BY Facts DEF ResolveAction, CancelRead, HandlerOK
<1>3. ActiveOf(v)' = ActiveOf(v)
  BY <1>1 DEF ActiveOf
<1>4. CASE Answer(h)
  BY <1>1, <1>4, CalmAnswer
<1>5. CASE ResolveAction(h) /\ ~Answer(h)
  <2>1. PICK pc : /\ pc = IF ActiveOf(v) = {} THEN "ensure" ELSE "cancelRead"
                  /\ Goto(h, pc)
    BY <1>2, <1>5 DEF ResolveAction
  <2> QED BY <1>1, <1>2, <1>3, <2>1, CalmGoto
<1>6. CASE CancelRead(h) /\ ActiveOf(v) = {}
  <2>1. PICK pc : pc = Cancelled(h) /\ pc \in {"ensure", "saveTeleport"}
    BY DEF Cancelled
  <2>2. Goto(h, pc)
    BY <1>2, <1>6, <2>1 DEF CancelRead
  <2> QED BY <1>1, <1>2, <1>3, <1>6, <2>1, <2>2, CalmGoto
<1>7. CASE CancelRead(h) /\ ActiveOf(v) # {}
  <2>1. PICK a \in ActiveOf(v) :
          handler' = [handler EXCEPT ![h].pc = "cancelSave", ![h].id = a,
                        ![h].row = [actions[a] EXCEPT !.status = "cancelled"]]
    BY <1>2, <1>7 DEF CancelRead
  <2>2. PICK x : x = [handler[h] EXCEPT !.pc = "cancelSave", !.id = a,
                        !.row = [actions[a] EXCEPT !.status = "cancelled"]]
    OBVIOUS
  <2>3. /\ handler' = [handler EXCEPT ![h] = x]
        /\ x.pc = "cancelSave" /\ x.id = a /\ x.user = v
    BY <1>2, <2>1, <2>2, Facts DEF HandlerState
  <2>4. ActiveOf(v) \subseteq {a}
    BY <2>1 DEF IInv, OneActiveAction, ActiveOf
  <2>5. ActiveOf(x.user)' \subseteq {x.id}
    BY <1>3, <2>3, <2>4 DEF ActiveOf
  <2>6. Undisturbed(x)'
    BY <2>3, <2>5 DEF Undisturbed
  <2> QED BY <1>1, <2>3, <2>6, CalmMove
<1> QED BY <1>4, <1>5, <1>6, <1>7

\* CancelActive leaves its player without an active action.
LEMMA StandCancel ==
  ASSUME IInv, StandInv, NEW h \in Handlers, CancelSave(h)
  PROVE  StandInv'
<1>1. PICK a, row : a = handler[h].id /\ row = handler[h].row
  OBVIOUS
<1>2. /\ a \in ActionIds /\ row \in Row /\ row.status = "cancelled"
      /\ actions' = [actions EXCEPT ![a] = row]
  BY <1>1, CancelStores DEF Copy
<1>3. \A b \in ActionIds : actions'[b] = IF b = a THEN row ELSE actions[b]
  BY <1>2, Facts
<1>4. UNCHANGED <<now, players, trees>>
  BY DEF CancelSave
<1>5. Calm
  BY <1>2, <1>3, <1>4 DEF Calm, SameAction
<1>6. PICK v \in Users : v = handler[h].user
  BY Facts DEF CancelSave, HandlerOK
<1>7. ActiveOf(v) \subseteq {a}
  BY <1>1, <1>6 DEF CancelSave, StandInv, Undisturbed
<1>8. ActiveOf(v)' = {}
  BY <1>2, <1>3, <1>7 DEF ActiveOf
<1>9. PICK pc : pc = Cancelled(h) /\ pc \in {"ensure", "saveTeleport"}
  BY DEF Cancelled
<1>10. PICK x : x = [handler[h] EXCEPT !.pc = pc, !.id = NoAction, !.row = AbsentRow]
  OBVIOUS
<1>11. handler' = [handler EXCEPT ![h] = x] /\ x.pc = pc /\ x.user = v
  BY <1>6, <1>9, <1>10, Facts DEF CancelSave, HandlerState
<1>12. ActiveOf(x.user)' = {}
  BY <1>8, <1>11 DEF ActiveOf
<1>13. Undisturbed(x)'
  BY <1>9, <1>11, <1>12 DEF Undisturbed
<1> QED BY <1>4, <1>5, <1>11, <1>13, CalmMove

\* Move's load of the map and the entities.
LEMMA StandMoveCheck ==
  ASSUME IInv, StandInv, NEW h \in Handlers, MoveCheck(h)
  PROVE  StandInv'
<1>1. PICK u \in Users : u = handler[h].user
  BY Facts DEF MoveCheck, HandlerOK
<1>2. Calm /\ UNCHANGED <<now, actions>>
  BY <1>1, QuietCalm DEF MoveCheck, TreesLoaded
<1>3. ActiveOf(u)' = {}
  BY <1>1, <1>2 DEF MoveCheck, StandInv, Undisturbed, ActiveOf
<1>4. CASE Answer(h)
  BY <1>2, <1>4, CalmAnswer
<1>5. CASE Goto(h, "saveMove")
  BY <1>1, <1>2, <1>3, <1>5, CalmGoto
<1> QED BY <1>4, <1>5 DEF MoveCheck

\* StartHarvest's transaction: the player it read still stands where it was read.
LEMMA StandCreate ==
  ASSUME IInv, StandInv, SerialRequests, NEW h \in Handlers, HarvestCreate(h)
  PROVE  StandInv'
<1>0. PICK s : s = handler[h]
  OBVIOUS
<1>1. /\ s.pc = "harvestCreate" /\ s.user \in Users /\ s.entity \in Entities
      /\ s.player = players[s.user] /\ AtRest(s.player)
  BY <1>0, Facts DEF HarvestCreate, HandlerOK, StandInv, Undisturbed
<1>2. Answer(h) /\ UNCHANGED <<now, trees>>
  BY DEF HarvestCreate
<1>3. CASE UNCHANGED <<actions, events, players>>
  <2>1. Calm
    BY <1>2, <1>3, QuietCalm DEF TreesLoaded
  <2> QED BY <1>2, <2>1, CalmAnswer
<1>4. ASSUME NEW a \in ActionIds, NEW row \in Row,
             actions[a].status = "absent", actions' = [actions EXCEPT ![a] = row],
             row.status = "active", row.user = s.user, row.entity = s.entity,
             CanHarvest(s.user, s.entity, s.player), ActiveOf(s.user) = {},
             players' = IF s.player.movement = NoMovement THEN players
                        ELSE [players EXCEPT ![s.user] = Settled(s.player)]
      PROVE  StandInv'
  <2>1. PICK u \in Users : u = s.user
    BY <1>1
  <2>2. \A b \in ActionIds : actions'[b] = IF b = a THEN row ELSE actions[b]
    BY <1>4, Facts
  <2>3. \A b \in ActionIds : actions[b].status = "active" => actions'[b] = actions[b]
    BY <1>4, <2>2
  <2>4. \A v \in Users : v # u => players'[v] = players[v] /\ ActiveOf(v)' = ActiveOf(v)
    BY <1>4, <2>1, <2>2, Facts DEF ActiveOf
  <2>5. ActiveOf(u)' = {a}
    BY <1>4, <2>1, <2>2 DEF ActiveOf
  <2>6. Settled(players'[u]) = Settled(s.player) /\ AtRest(players[u])'
    <3>1. CASE s.player.movement = NoMovement
      BY <1>1, <1>4, <2>1, <3>1 DEF AtRest
    <3>2. CASE s.player.movement # NoMovement
      <4>1. players'[u] = Settled(s.player)
        BY <1>4, <2>1, <3>2, Facts
      <4> QED BY <4>1 DEF Settled, AtRest
    <3> QED BY <3>1, <3>2
  <2>7. Settled(players'[u]).at \in Beside[s.entity] /\ trees[u][s.entity].state = "idle"
    BY <1>4, <2>1, <2>6 DEF CanHarvest
  <2>8. \A b \in ActiveOf(u)' : /\ Settled(players'[u]).at \in Beside[actions'[b].entity]
                                /\ trees[u][actions'[b].entity].state = "idle"
    BY <1>4, <2>2, <2>5, <2>7
  <2>9. Undisturbed(IdleHandler)'
    BY DEF Undisturbed, IdleHandler
  <2> QED BY <1>0, <1>1, <1>2, <2>1, <2>3, <2>4, <2>6, <2>8, <2>9, PlayerSaved DEF Answer
<1> QED BY <1>0, <1>3, <1>4, CreateStores

\* The three saves of a player: a settled one stays where it was; the others
\* have no active action.
LEMMA StandSave ==
  ASSUME IInv, StandInv, SerialRequests, NEW h \in Handlers,
         Settle(h) \/ SaveMove(h) \/ SaveTeleport(h)
  PROVE  StandInv'
<1>0. PICK s : s = handler[h]
  OBVIOUS
<1>1. PICK u \in Users : u = s.user
  BY <1>0, Facts DEF Settle, SaveMove, SaveTeleport, HandlerOK
<1>2. UNCHANGED <<now, trees, actions>> /\ s.pc # "idle"
  BY <1>0 DEF Settle, SaveMove, SaveTeleport
<1>3. \A v \in Users : v # u => players'[v] = players[v] /\ ActiveOf(v)' = ActiveOf(v)
  BY <1>0, <1>1, <1>2, Facts DEF Settle, SaveMove, SaveTeleport, ActiveOf
<1>4. ActiveOf(u)' = ActiveOf(u)
  BY <1>2 DEF ActiveOf
<1>5. \E x : handler' = [handler EXCEPT ![h] = x] /\ x.pc \in {"idle", "resolve", "getPlayer"}
  <2>1. CASE SaveMove(h)
    <3>1. PICK x : x = IdleHandler
      OBVIOUS
    <3>2. x.pc = "idle" /\ handler' = [handler EXCEPT ![h] = x]
      BY <2>1, <3>1 DEF SaveMove, Answer, IdleHandler
    <3> QED BY <3>2
  <2>2. ASSUME NEW pc, Goto(h, pc), pc \in {"resolve", "getPlayer"}
        PROVE  \E x : handler' = [handler EXCEPT ![h] = x] /\ x.pc = pc
    <3>1. PICK x : x = [handler[h] EXCEPT !.pc = pc]
      OBVIOUS
    <3>2. x.pc = pc
      BY <3>1, Facts DEF HandlerState
    <3>3. handler' = [handler EXCEPT ![h] = x]
      BY <2>2, <3>1, Facts DEF Goto
    <3> QED BY <3>2, <3>3
  <2> QED BY <2>1, <2>2 DEF Settle, SaveTeleport
<1>6. PICK x : handler' = [handler EXCEPT ![h] = x] /\ x.pc \in {"idle", "resolve", "getPlayer"}
  BY <1>5
<1>7. Undisturbed(x)'
  BY <1>6 DEF Undisturbed
<1>8. /\ ActiveOf(u)' # {} => AtRest(players[u])'
      /\ \A a \in ActiveOf(u)' : /\ Settled(players'[u]).at \in Beside[actions'[a].entity]
                                 /\ trees[u][actions'[a].entity].state = "idle"
  <2>1. CASE SaveMove(h) \/ SaveTeleport(h)
    BY <1>0, <1>1, <1>4, <2>1 DEF SaveMove, SaveTeleport, StandInv, Undisturbed
  <2>2. CASE Settle(h)
    <3>1. players'[u] = Settled(players[u])
      BY <1>0, <1>1, <2>2, Facts DEF Settle, StandInv, Undisturbed
    <3>2. Settled(players'[u]) = Settled(players[u]) /\ AtRest(players[u])'
      BY <3>1 DEF Settled, AtRest
    <3> QED BY <1>2, <1>4, <3>2 DEF StandInv, HarvestBesideTree
  <2> QED BY <2>1, <2>2
<1>9. \A a \in ActionIds : actions[a].status = "active" => actions'[a] = actions[a]
  BY <1>2
<1> QED BY <1>0, <1>1, <1>2, <1>3, <1>6, <1>7, <1>8, <1>9, PlayerSaved

\* A worker's commit fells the tree of the action it completes, and of no other.
LEMMA StandFinish ==
  ASSUME IInv, StandInv, [Next]_vars, NEW w \in Workers, WorkerFinish(w)
  PROVE  StandInv'
<1> DEFINE s == worker[w]
           r == s.row
           done == s.now >= r.ends
           felled == done /\ trees[r.user][r.entity].state = "idle"
<1>0. PICK a, row, emitted : Finishes(w, a, row, emitted)
  BY FinishStores
<1>1. /\ a \in ActionIds /\ actions[a].status = "active"
      /\ r.user \in Users /\ r.entity \in Entities /\ SameAction(r, actions[a])
      /\ actions' = [actions EXCEPT ![a] = row] /\ SameAction(row, actions[a])
      /\ row.status = (IF done THEN "completed" ELSE "active")
      /\ trees' = IF felled THEN [trees EXCEPT ![r.user][r.entity] =
                      [state |-> "depleted", expires |-> s.now + StumpLifetime]] ELSE trees
  BY <1>0 DEF Finishes
<1>2. \A b \in ActionIds : actions'[b] = IF b = a THEN row ELSE actions[b]
  BY <1>1, Facts
<1>3. UNCHANGED <<players, handler>>
  BY DEF WorkerFinish
<1>4. \A b \in ActionIds : actions'[b].status = "active" =>
        actions[b].status = "active" /\ SameAction(actions'[b], actions[b])
  BY <1>1, <1>2 DEF SameAction
<1>5. ASSUME NEW u \in Users, NEW b \in ActiveOf(u)',
             trees[u][actions[b].entity].state = "idle"
      PROVE  trees'[u][actions[b].entity].state = "idle"
  <2>1. CASE ~felled
    BY <1>1, <1>5, <2>1
  <2>2. CASE felled
    <3>1. b \in ActionIds /\ actions[b].status = "active" /\ actions[b].user = u
      BY <1>4, <1>5 DEF ActiveOf, SameAction
    <3>2. b # a
      BY <1>1, <1>2, <1>5, <2>2 DEF ActiveOf
    <3>3. r.user # u
      BY <1>1, <3>1, <3>2 DEF IInv, OneActiveAction, SameAction
    <3> QED BY <1>1, <1>5, <2>2, <3>3, Facts DEF TreesType
  <2> QED BY <2>1, <2>2
<1>6. Calm
  BY <1>3, <1>4, <1>5 DEF Calm
<1> QED BY <1>3, <1>6, CalmElsewhere

\* Every step keeps the harvesters where they are as long as requests are serial.
LEMMA StandStep == IInv /\ StandInv /\ SerialRequests /\ [Next]_vars => StandInv'
<1> SUFFICES ASSUME IInv, StandInv, SerialRequests, [Next]_vars PROVE StandInv'
  OBVIOUS
<1>1. CASE Tick \/ UNCHANGED vars
  <2>1. Calm
    BY <1>1, QuietCalm DEF Tick, vars, dbVars, TreesLoaded
  <2> QED BY <1>1, <2>1, CalmElsewhere DEF Tick, vars
<1>2. ASSUME NEW h \in Handlers, HandlerStep(h) PROVE StandInv'
  <2>1. CASE TeleportGet(h)
    <3>1. handler[h] \in HandlerState
      BY Facts
    <3> QED BY <2>1, <3>1, StandGetPlayer DEF TeleportGet
  <2> QED BY <1>2, <2>1, StandHarvest, StandCreate, StandSave, StandResolve, StandCancel,
          StandMoveCheck DEF HandlerStep
<1>3. ASSUME NEW h \in Handlers, HandlerFault(h) PROVE StandInv'
  <2>1. Calm
    BY <1>3, QuietCalm DEF HandlerFault, dbVars, TreesLoaded
  <2> QED BY <1>3, <2>1, CalmAnswer DEF HandlerFault
<1>4. ASSUME NEW w \in Workers,
             WorkerSnapshot(w) \/ WorkerLock(w) \/ WorkerTick(w) \/ WorkerFault(w)
      PROVE  StandInv'
  <2>1. Calm /\ UNCHANGED handler
    BY <1>4, QuietCalm DEF WorkerSnapshot, WorkerLock, WorkerTick, WorkerFault, dbVars, TreesLoaded
  <2> QED BY <2>1, CalmElsewhere
<1> QED BY <1>1, <1>2, <1>3, <1>4, StandRequest, StandFinish DEF Next, WorkerStep

LEMMA StandInvariance == Spec /\ []SerialRequests => []StandInv
BY Invariance, StandInit, StandStep, PTL DEF Spec

\* As long as no two requests of one player overlap, whatever the workers do
\* meanwhile and wherever a request fails, a player with an active harvest is
\* not under way: StartHarvest refuses a player who is, and Move cancels the
\* harvest before it saves the movement.
THEOREM HarvestersStandStill == Spec /\ []SerialRequests => []NeverMovingWhileHarvesting
<1>1. StandInv => NeverMovingWhileHarvesting
  BY DEF StandInv
<1> QED BY <1>1, StandInvariance, PTL

\* Under the same condition a player with an active harvest stands beside the
\* tree, and the tree is standing.
THEOREM HarvestersStandBesideTree == Spec /\ []SerialRequests => []HarvestBesideTree
<1>1. StandInv => HarvestBesideTree
  BY DEF StandInv
<1> QED BY <1>1, StandInvariance, PTL

\* The condition holds where one connection serves its requests in turn, as in
\* the run of that name, for any number of players and workers.
THEOREM OneConnectionStands ==
  ASSUME NEW conn, Handlers = {conn}
  PROVE  Spec => [](NeverMovingWhileHarvesting /\ HarvestBesideTree)
<1>1. SerialRequests
  BY DEF SerialRequests
<1>2. StandInv => NeverMovingWhileHarvesting /\ HarvestBesideTree
  BY DEF StandInv
<1> QED BY <1>1, <1>2, StandInvariance, PTL

-----------------------------------------------------------------------------
(* While workers are serial: what a harvest is paid *)

\* Ticks that were not all rewarded end no earlier than the rewards do.
LEMMA Monotone ==
  ASSUME NEW i \in Nat, NEW x \in Int, NEW y \in Int, x <= y
  PROVE  x * i <= y * i
<1>1. PICK d \in Nat : y = x + d
  <2>1. y - x \in Nat /\ y = x + (y - x)
    OBVIOUS
  <2> QED BY <2>1
<1>2. y * i = x * i + d * i /\ d * i >= 0
  BY <1>1
<1> QED BY <1>2

\* The state PayInv speaks of, in the form the provers use.
LEMMA PayFacts ==
  ASSUME IInv
  PROVE  /\ paid \in [ActionIds -> Nat] /\ inventory \in [Users -> Nat]
         /\ events \in [ActionIds -> [EventTypes -> Nat]]
         /\ \A a \in ActionIds : actions[a] \in Row /\ RowOK(actions[a])
         /\ SlotLimit \in Nat
BY Facts, ConstantsAssumption DEF IInv, TypeOK

LEMMA PayInit == Init => PayInv
<1> SUFFICES ASSUME Init PROVE PayInv
  OBVIOUS
<1>1. \A a \in ActionIds : RowPaid(a)
  BY DEF Init, RowPaid, AbsentRow, EventTypes
<1>2. \A u \in Users : inventory[u] <= SlotLimit
  BY ConstantsAssumption DEF Init
<1>3. \A w \in Workers : WorkerPays(worker[w])
  BY DEF Init, WorkerPays, IdleWorker
<1> QED BY <1>1, <1>2, <1>3 DEF Init, PayInv, IdleHandler

\* Steps that store nothing a payment depends on: what is left to show is what
\* the processes know afterwards.
LEMMA PayQuiet ==
  ASSUME IInv, PayInv, UNCHANGED <<actions, inventory, paid, events>>,
         \A h \in Handlers : handler'[h].pc = "cancelSave" =>
            handler'[h].row.rewards <= paid[handler'[h].id],
         \A w \in Workers : worker'[w] = worker[w] \/ WorkerPays(worker'[w])
  PROVE  PayInv'
<1>1. \A a \in ActionIds : RowPaid(a)'
  BY DEF PayInv, RowPaid, Scheduled
<1>2. \A w \in Workers : WorkerPays(worker[w])'
  BY DEF PayInv, WorkerPays
<1> QED BY <1>1, <1>2 DEF PayInv

\* A cancellation's save follows its read.
LEMMA IntoCancelSave ==
  ASSUME IInv, [Next]_vars, NEW h \in Handlers, handler'[h].pc = "cancelSave"
  PROVE  handler'[h] = handler[h] \/ CancelRead(h)
<1>1. ASSUME Answer(h) PROVE FALSE
  BY <1>1, Facts DEF Answer, IdleHandler
<1>2. ASSUME NEW pc, pc # "cancelSave", Goto(h, pc) PROVE FALSE
  BY <1>2, Facts DEF Goto, HandlerState
<1>3. ASSUME NEW r \in HandlerState, GetPlayer(h, r) PROVE FALSE
  <2>1. PICK q, pc : /\ pc = IF Arrived(players[r.user], now) THEN "settle" ELSE "resolve"
                     /\ handler' = [handler EXCEPT ![h] = [r EXCEPT !.player = q, !.pc = pc]]
    BY <1>3 DEF GetPlayer
  <2>2. handler'[h].pc = pc
    BY <2>1, Facts DEF HandlerState
  <2> QED BY <2>1, <2>2
<1>4. ASSUME NEW g \in Handlers, Request(g) \/ HandlerFault(g) \/ HandlerStep(g), g # h
      PROVE  handler'[h] = handler[h]
  BY <1>4, Facts DEF Request, HarvestReadActive, Get, Move, GetPlayer, ListEntities, TeleportCheck,
     HandlerFault, Answer, Goto, HandlerStep, HarvestReadPlayer, HarvestCreate, TeleportGet, Settle,
     ResolveAction, CancelRead, CancelSave, MoveCheck, SaveMove, SaveTeleport
<1>5. ASSUME Request(h) PROVE handler'[h] = handler[h]
  <2>1. PICK u \in Users :
          \/ \E e \in Entities : HarvestReadActive(h, u, e)
          \/ Get(h, u) \/ ListEntities(h, u)
          \/ \E t \in Tiles \cup {Water} : Move(h, u, t) \/ TeleportCheck(h, u, t)
    BY <1>5 DEF Request
  <2>2. ASSUME NEW e \in Entities, HarvestReadActive(h, u, e) PROVE FALSE
    <3>1. PICK t \in RecentClock :
            handler' = [handler EXCEPT ![h] =
              [Arrive(h, u, "harvest", "harvestPlayer") EXCEPT !.entity = e, !.now = t]]
      BY <2>2 DEF HarvestReadActive
    <3>2. handler'[h].pc = "harvestPlayer"
      BY <3>1, Facts DEF Arrive, IdleHandler
    <3> QED BY <3>2
  <2>3. ASSUME Get(h, u) PROVE FALSE
    <3>1. PICK r : r = Arrive(h, u, "get", "idle")
      OBVIOUS
    <3>2. r \in HandlerState
      BY <3>1, Constants DEF Arrive, IdleHandler, HandlerState, HandlerPCs, OpNames
    <3> QED BY <1>3, <2>3, <3>1, <3>2 DEF Get
  <2>4. ASSUME NEW t \in Tiles \cup {Water}, Move(h, u, t) PROVE FALSE
    <3>1. PICK r : r = [Arrive(h, u, "move", "idle") EXCEPT !.tile = t]
      OBVIOUS
    <3>2. r \in HandlerState
      BY <3>1, Constants DEF Arrive, IdleHandler, HandlerState, HandlerPCs, OpNames
    <3> QED BY <1>3, <2>4, <3>1, <3>2 DEF Move
  <2>5. ASSUME NEW t \in Tiles \cup {Water}, TeleportCheck(h, u, t) PROVE handler'[h] = handler[h]
    <3>1. CASE handler' = [handler EXCEPT ![h] =
                 [Arrive(h, u, "teleport", "cancelRead") EXCEPT !.tile = t]]
      <4>1. handler'[h].pc = "cancelRead"
        BY <3>1, Facts DEF Arrive, IdleHandler
      <4> QED BY <4>1
    <3> QED BY <2>5, <3>1 DEF TeleportCheck
  <2> QED BY <2>1, <2>2, <2>3, <2>4, <2>5 DEF ListEntities
<1>6. CASE HandlerStep(h)
  <2>1. ASSUME HarvestReadPlayer(h) PROVE FALSE
    <3>1. handler' = [handler EXCEPT ![h].pc = "harvestCreate", ![h].player = players[handler[h].user]]
      BY <1>1, <2>1 DEF HarvestReadPlayer
    <3>2. handler'[h].pc = "harvestCreate"
      BY <3>1, Facts DEF HandlerState
    <3> QED BY <3>2
  <2>2. ASSUME CancelSave(h) PROVE FALSE
    <3>1. PICK pc \in {"ensure", "saveTeleport"} : pc = Cancelled(h)
      BY DEF Cancelled
    <3>2. handler' = [handler EXCEPT ![h].pc = pc, ![h].id = NoAction, ![h].row = AbsentRow]
      BY <2>2, <3>1 DEF CancelSave
    <3>3. handler'[h].pc = pc
      BY <3>2, Facts DEF HandlerState
    <3> QED BY <3>1, <3>3
  <2>3. ASSUME TeleportGet(h) PROVE FALSE
    <3>1. handler[h] \in HandlerState
      BY Facts
    <3> QED BY <1>3, <2>3, <3>1 DEF TeleportGet
  <2>4. ASSUME HarvestCreate(h) \/ SaveMove(h) PROVE FALSE
    BY <1>1, <2>4 DEF HarvestCreate, SaveMove
  <2>5. ASSUME Settle(h) \/ SaveTeleport(h) \/ MoveCheck(h) PROVE FALSE
    BY <1>1, <1>2, <2>5 DEF Settle, SaveTeleport, MoveCheck
  <2>6. ASSUME ResolveAction(h) PROVE FALSE
    <3>1. PICK pc \in {"ensure", "cancelRead"} :
            pc = IF ActiveOf(handler[h].user) = {} THEN "ensure" ELSE "cancelRead"
      OBVIOUS
    <3> QED BY <1>1, <1>2, <2>6, <3>1 DEF ResolveAction
  <2> QED BY <1>6, <2>1, <2>2, <2>3, <2>4, <2>5, <2>6 DEF HandlerStep
<1>7. ASSUME HandlerFault(h) PROVE FALSE
  BY <1>1, <1>7 DEF HandlerFault
<1>8. CASE Tick \/ UNCHANGED vars \/ \E w \in Workers : WorkerStep(w) \/ WorkerFault(w)
  BY <1>8 DEF Tick, vars, WorkerStep, WorkerFault, WorkerSnapshot, WorkerLock, WorkerTick, WorkerFinish
<1> QED BY <1>4, <1>5, <1>6, <1>7, <1>8 DEF Next

\* The reward count a cancellation copies has been paid.
LEMMA CancelCopies ==
  ASSUME IInv, PayInv, [Next]_vars, NEW h \in Handlers, handler'[h].pc = "cancelSave"
  PROVE  handler'[h].row.rewards <= paid[handler'[h].id]
<1>1. CASE handler'[h] = handler[h]
  BY <1>1 DEF PayInv
<1>2. CASE CancelRead(h)
  <2>1. CASE Goto(h, Cancelled(h))
    BY <2>1, Facts DEF Goto, Cancelled, HandlerState
  <2>2. ASSUME NEW a \in ActiveOf(handler[h].user),
               handler' = [handler EXCEPT ![h].pc = "cancelSave", ![h].id = a,
                             ![h].row = [actions[a] EXCEPT !.status = "cancelled"]]
        PROVE  handler'[h].row.rewards <= paid[handler'[h].id]
    <3>1. a \in ActionIds /\ actions[a] \in Row
      BY Facts DEF ActiveOf
    <3>2. handler'[h].id = a /\ handler'[h].row.rewards = actions[a].rewards
      BY <2>2, <3>1, Facts DEF HandlerState, Row
    <3> QED BY <3>1, <3>2 DEF PayInv, RowPaid
  <2> QED BY <1>2, <2>1, <2>2 DEF CancelRead
<1> QED BY <1>1, <1>2, IntoCancelSave

\* StartHarvest's new row has not been paid for.
LEMMA PayCreate ==
  ASSUME IInv, PayInv, [Next]_vars, NEW h \in Handlers, HarvestCreate(h)
  PROVE  PayInv'
<1>0. UNCHANGED <<inventory, paid, worker>>
  BY DEF HarvestCreate
<1>1. CASE UNCHANGED <<actions, events, players>>
  BY <1>0, <1>1, CancelCopies, PayQuiet
<1>2. ASSUME NEW a \in ActionIds, NEW row \in Row,
             actions[a].status = "absent", actions' = [actions EXCEPT ![a] = row],
             row.status = "active", row.rewards = 0, RowOK(row), Emit(a, {"started"})
      PROVE  PayInv'
  <2>1. \A b \in ActionIds : actions'[b] = IF b = a THEN row ELSE actions[b]
    BY <1>2, Facts
  <2>2. \A b \in ActionIds : events'[b]["cancelled"] = events[b]["cancelled"]
    BY <1>2, EmitCounts, PayFacts DEF EventTypes
  <2>3. \A b \in ActionIds : RowPaid(b)
    BY DEF PayInv
  <2>4. Scheduled(0, row)
    BY <1>2 DEF Scheduled, RowOK, OnSchedule, Row
  <2>5. \A b \in ActionIds : RowPaid(b)'
    BY <1>0, <1>2, <2>1, <2>2, <2>3, <2>4 DEF RowPaid, Scheduled
  <2>6. ASSUME NEW w \in Workers PROVE WorkerPays(worker[w])'
    <3>1. WorkerPays(worker[w]) /\ WorkerOK(w, worker[w])
      BY Facts DEF PayInv
    <3>2. worker[w].pc = "lock" => worker[w].snap[a] = AbsentRow
      BY <1>2, <3>1 DEF WorkerOK, Copy
    <3>3. worker[w].pc \in {"advance", "finish"} => worker[w].id \in ActionIds /\ worker[w].id # a
      BY <1>2, <3>1 DEF WorkerOK
    <3> QED BY <1>0, <2>1, <3>1, <3>2, <3>3 DEF WorkerPays
  <2> QED BY <1>0, <2>5, <2>6, CancelCopies DEF PayInv
<1> QED BY <1>1, <1>2, CreateStores

\* A cancellation's older copy reports no more than was paid.
LEMMA PayCancel ==
  ASSUME IInv, PayInv, [Next]_vars, NEW h \in Handlers, CancelSave(h)
  PROVE  PayInv'
<1>0. UNCHANGED <<inventory, paid, worker>>
  BY DEF CancelSave
<1>1. PICK a, row : a = handler[h].id /\ row = handler[h].row
  OBVIOUS
<1>2. /\ a \in ActionIds /\ row \in Row /\ lock[a] = NoWorker /\ row.status = "cancelled"
      /\ SameAction(row, actions[a]) /\ actions[a].status # "absent"
      /\ actions' = [actions EXCEPT ![a] = row] /\ Emit(a, {"cancelled"})
  BY <1>1, CancelStores DEF Copy
<1>3. \A b \in ActionIds : actions'[b] = IF b = a THEN row ELSE actions[b]
  BY <1>2, Facts
<1>4. row.rewards <= paid[a]
  BY <1>1 DEF CancelSave, PayInv
<1>5. \A b \in ActionIds : RowPaid(b)'
  <2>1. \A b \in ActionIds :
          events'[b]["cancelled"] = events[b]["cancelled"] + (IF b = a THEN 1 ELSE 0)
    BY <1>2, EmitCounts DEF EventTypes
  <2>2. \A b \in ActionIds : events[b]["cancelled"] \in Nat /\ RowPaid(b)
    BY PayFacts DEF PayInv, EventTypes
  <2>3. Scheduled(paid[a], row)
    BY <1>2, <2>2 DEF RowPaid, Scheduled, SameAction
  <2> QED BY <1>0, <1>2, <1>3, <1>4, <2>1, <2>2, <2>3 DEF RowPaid, Scheduled
<1>6. ASSUME NEW w \in Workers PROVE WorkerPays(worker[w])'
  <2>1. WorkerPays(worker[w]) /\ WorkerOK(w, worker[w])
    BY Facts DEF PayInv
  <2>2. worker[w].pc \in {"advance", "finish"} => worker[w].id \in ActionIds /\ worker[w].id # a
    BY <1>2, <2>1, ConstantsAssumption DEF WorkerOK
  <2> QED BY <1>0, <1>2, <1>3, <2>1, <2>2 DEF WorkerPays
<1> QED BY <1>0, <1>5, <1>6, CancelCopies DEF PayInv

\* A commit pays what the row it stores has more than the one it replaces, and
\* no more than the ticks it replayed.
LEMMA PayFinish ==
  ASSUME IInv, EventsMatchRows, PayInv, SerialWorkers, [Next]_vars,
         NEW w \in Workers, WorkerFinish(w)
  PROVE  PayInv'
<1> DEFINE s == worker[w]
           r == s.row
           done == s.now >= r.ends
<1>0. PICK a, row, emitted : Finishes(w, a, row, emitted)
  BY FinishStores
<1>1. /\ a = s.id /\ s \in WorkerState /\ s.pc \in {"advance", "finish"}
      /\ a \in ActionIds /\ actions[a].status = "active"
      /\ r \in Row /\ r.user \in Users /\ SameAction(r, actions[a]) /\ Replaying(s)
      /\ row \in Row /\ actions' = [actions EXCEPT ![a] = row] /\ SameAction(row, actions[a])
      /\ row.status = (IF done THEN "completed" ELSE "active")
      /\ row.rewards = r.rewards
      /\ Emit(a, emitted) /\ emitted \cap {"started", "cancelled"} = {}
      /\ paid' = [paid EXCEPT ![a] = @ + s.granted]
      /\ inventory' = [inventory EXCEPT ![r.user] = @ + s.granted]
  BY <1>0 DEF Finishes
<1>2. s.granted \in Nat /\ r.rewards = actions[a].rewards + s.granted
      /\ inventory[r.user] + s.granted <= SlotLimit
  BY <1>1 DEF PayInv, WorkerPays, WorkerState
<1>3. \A b \in ActionIds : actions'[b] = IF b = a THEN row ELSE actions[b]
  BY <1>1, Facts
<1>4. \A b \in ActionIds : paid'[b] = IF b = a THEN paid[b] + s.granted ELSE paid[b]
  BY <1>1, PayFacts
<1>5. \A u \in Users : inventory'[u] <= SlotLimit
  BY <1>1, <1>2, PayFacts DEF PayInv
<1>6. \A b \in ActionIds : events'[b]["cancelled"] = events[b]["cancelled"]
  BY <1>1, EmitCounts, PayFacts DEF EventTypes
<1>7. \A b \in ActionIds : RowPaid(b)'
  <2>1. \A b \in ActionIds : RowPaid(b)
    BY DEF PayInv
  <2>2. events[a]["cancelled"] = 0
    BY <1>1, EventsParts DEF RowEvents
  <2>3. paid'[a] = row.rewards
    BY <1>1, <1>2, <1>4, <2>1, <2>2 DEF RowPaid
  <2>4. Scheduled(row.rewards, row)
    <3>1. r.started \in Nat /\ r.ends \in Nat /\ r.interval \in Nat /\ r.ticks \in Nat /\ r.rewards \in Nat
      BY <1>1 DEF Row
    <3>2. r.rewards - 1 <= r.ticks - 1 /\ r.ticks - 1 <= r.ticks
      BY <1>1, <3>1 DEF Replaying
    <3>3. PICK x, y, z : x = r.rewards - 1 /\ y = r.ticks - 1 /\ z = r.ticks
      OBVIOUS
    <3>4. x * r.interval <= y * r.interval /\ y * r.interval <= z * r.interval
      <4>1. x \in Int /\ y \in Int /\ z \in Int /\ x <= y /\ y <= z
        BY <3>1, <3>2, <3>3
      <4> QED BY <3>1, <4>1, Monotone
    <3>5. r.started + y * r.interval < r.ends \/ r.started + z * r.interval < r.ends
      BY <1>1, <3>3 DEF Replaying, InLoop, AllTicks
    <3>6. x * r.interval \in Int /\ y * r.interval \in Int /\ z * r.interval \in Int
      BY <3>1, <3>3
    <3>7. r.started + x * r.interval < r.ends
      BY <3>1, <3>4, <3>5, <3>6
    <3> QED BY <1>1, <3>3, <3>7 DEF Scheduled, SameAction
  <2>5. \A b \in ActionIds : b # a => RowPaid(b)'
    BY <1>3, <1>4, <1>6, <2>1 DEF RowPaid, Scheduled
  <2>6. RowPaid(a)'
    BY <1>1, <1>3, <2>3, <2>4, PayFacts DEF RowPaid, Scheduled, Row
  <2> QED BY <2>5, <2>6
<1>8. ASSUME NEW h \in Handlers, handler'[h].pc = "cancelSave"
      PROVE  handler'[h].row.rewards <= paid'[handler'[h].id]
  <2>1. handler' = handler
    BY DEF WorkerFinish
  <2>2. handler[h].row \in Row /\ handler[h].id \in ActionIds
    BY <1>8, <2>1, Facts DEF HandlerOK, HandlerState
  <2>3. handler[h].row.rewards \in Nat /\ handler[h].row.rewards <= paid[handler[h].id]
    BY <1>8, <2>1, <2>2 DEF PayInv, Row
  <2> QED BY <1>2, <1>4, <2>1, <2>2, <2>3, PayFacts
<1>9. ASSUME NEW v \in Workers PROVE WorkerPays(worker[v])'
  <2>1. worker'[v].pc = "idle"
    <3>1. worker' = [worker EXCEPT ![w] = IdleWorker]
      BY DEF WorkerFinish
    <3>2. v # w => worker[v].pc = "idle"
      BY <1>1 DEF SerialWorkers
    <3> QED BY <3>1, <3>2, Facts DEF IdleWorker
  <2> QED BY <2>1 DEF WorkerPays
<1> QED BY <1>5, <1>7, <1>8, <1>9 DEF PayInv

\* The steps of a worker before it commits.
LEMMA PayWorker ==
  ASSUME IInv, PayInv, [Next]_vars, UNCHANGED <<actions, inventory, paid, events>>,
         NEW w \in Workers, NEW y, worker' = [worker EXCEPT ![w] = y], WorkerPays(y)
  PROVE  PayInv'
<1>1. \A v \in Workers : worker'[v] = worker[v] \/ WorkerPays(worker'[v])
  <2>1. \A v \in Workers : worker'[v] = IF v = w THEN y ELSE worker[v]
    BY Facts
  <2>2. worker'[w] = y
    BY <2>1
  <2>3. WorkerPays(worker'[w])
    BY <2>2 DEF WorkerPays
  <2> QED BY <2>1, <2>3
<1> QED BY <1>1, CancelCopies, PayQuiet

\* The claim's snapshot is what is stored.
LEMMA PaySnapshot ==
  ASSUME IInv, PayInv, [Next]_vars, NEW w \in Workers, WorkerSnapshot(w)
  PROVE  PayInv'
<1>1. PICK t \in RecentClock :
        worker' = [worker EXCEPT ![w].pc = "lock", ![w].now = t,
          ![w].snap = [a \in ActionIds |-> IF Due(actions[a], t) THEN actions[a] ELSE AbsentRow]]
  BY DEF WorkerSnapshot
<1>2. PICK snap : snap = [a \in ActionIds |-> IF Due(actions[a], t) THEN actions[a] ELSE AbsentRow]
  OBVIOUS
<1>3. PICK y : y = [worker[w] EXCEPT !.pc = "lock", !.now = t, !.snap = snap]
  OBVIOUS
<1>4. y.pc = "lock" /\ y.snap = snap
  BY <1>3, Facts DEF WorkerState
<1>5. worker' = [worker EXCEPT ![w] = y]
  BY <1>1, <1>2, <1>3, Facts
<1>6. WorkerPays(y)
  BY <1>2, <1>4 DEF WorkerPays
<1> QED BY <1>5, <1>6, PayWorker DEF WorkerSnapshot, dbVars

\* The claim takes the row as it is stored: it is still active.
LEMMA PayLock ==
  ASSUME IInv, PayInv, [Next]_vars, NEW w \in Workers, WorkerLock(w)
  PROVE  PayInv'
<1>1. UNCHANGED <<actions, inventory, paid, events>>
  BY DEF WorkerLock, dbVars
<1>2. CASE worker' = [worker EXCEPT ![w] = IdleWorker]
  <2>1. WorkerPays(IdleWorker)
    BY DEF WorkerPays, IdleWorker
  <2> QED BY <1>1, <1>2, <2>1, PayWorker
<1>3. ASSUME NEW a \in Claimable(w),
             worker' = [worker EXCEPT ![w] = [IdleWorker EXCEPT
               !.pc = "advance", !.now = worker[w].now, !.id = a, !.row = worker[w].snap[a]]]
      PROVE  PayInv'
  <2>1. PICK row : row = worker[w].snap[a]
    OBVIOUS
  <2>2. PICK y : y = [IdleWorker EXCEPT !.pc = "advance", !.now = worker[w].now, !.id = a, !.row = row]
    OBVIOUS
  <2>3. y.pc = "advance" /\ y.id = a /\ y.row = row /\ y.granted = 0
    BY <2>2 DEF IdleWorker
  <2>4. /\ a \in ActionIds /\ actions[a].status = "active" /\ row # AbsentRow
        /\ worker[w].pc = "lock" /\ WorkerPays(worker[w]) /\ WorkerOK(w, worker[w])
    BY <2>1, Facts DEF Claimable, Due, WorkerLock, PayInv
  <2>5. row.rewards = actions[a].rewards /\ row.user \in Users
    BY <2>1, <2>4, Facts DEF WorkerPays, WorkerOK, Copy, SameAction, RowOK
  <2>6. row.rewards \in Nat /\ inventory[row.user] \in Nat /\ inventory[row.user] <= SlotLimit
    BY <2>4, <2>5, PayFacts DEF PayInv, Row
  <2>7. WorkerPays(y)
    BY <2>3, <2>5, <2>6 DEF WorkerPays
  <2> QED BY <1>1, <1>3, <2>1, <2>2, <2>7, PayWorker
<1> QED BY <1>2, <1>3 DEF WorkerLock

\* A turn of the loop: AddInventoryItem is given what the slot has room for.
LEMMA PayTick ==
  ASSUME IInv, PayInv, [Next]_vars, NEW w \in Workers, WorkerTick(w)
  PROVE  PayInv'
<1> DEFINE s == worker[w]
           r == s.row
<1>0. PICK next, pc : /\ next = IF r.next >= r.ends THEN r.next ELSE minTime(r.next + r.interval, r.ends)
                      /\ pc = IF r.next >= r.ends THEN "finish" ELSE "advance"
  OBVIOUS
<1>1. PICK added \in {0, 1} :
        /\ added = 1 => Room(w) > 0
        /\ worker' = [worker EXCEPT ![w].pc = pc, ![w].granted = @ + added,
             ![w].row = [r EXCEPT !.ticks = r.ticks + 1, !.rewards = r.rewards + added, !.next = next]]
  <2>1. PICK hit \in Rolls : worker' = [worker EXCEPT ![w].pc = pc,
         ![w].granted = @ + (IF hit /\ Room(w) > 0 THEN 1 ELSE 0),
         ![w].row = [r EXCEPT !.ticks = r.ticks + 1,
            !.rewards = r.rewards + (IF hit /\ Room(w) > 0 THEN 1 ELSE 0), !.next = next]]
    BY <1>0 DEF WorkerTick
  <2>2. PICK added \in {0, 1} : added = IF hit /\ Room(w) > 0 THEN 1 ELSE 0
    OBVIOUS
  <2>3. added = 1 => Room(w) > 0
    BY <2>2
  <2>4. worker' = [worker EXCEPT ![w].pc = pc, ![w].granted = @ + added,
          ![w].row = [r EXCEPT !.ticks = r.ticks + 1, !.rewards = r.rewards + added, !.next = next]]
    BY <2>1, <2>2
  <2> QED BY <2>3, <2>4
<1>2. /\ s \in WorkerState /\ s.pc = "advance" /\ r \in Row
      /\ s.id \in ActionIds /\ r.user \in Users
      /\ r.rewards = actions[s.id].rewards + s.granted
      /\ inventory[r.user] + s.granted <= SlotLimit
  <2>1. s \in WorkerState /\ s.pc = "advance" /\ WorkerOK(w, s) /\ WorkerPays(s)
    BY Facts DEF WorkerTick, PayInv
  <2>2. r \in Row /\ s.id \in ActionIds /\ r.user \in Users
    BY <2>1, Facts DEF WorkerOK, WorkerState, SameAction, RowOK
  <2> QED BY <2>1, <2>2 DEF WorkerPays
<1>3. PICK q, granted : /\ granted = s.granted + added
                        /\ q = [r EXCEPT !.ticks = r.ticks + 1, !.rewards = r.rewards + added, !.next = next]
  OBVIOUS
<1>4. q.rewards = r.rewards + added /\ q.user = r.user
  BY <1>2, <1>3 DEF Row
<1>5. PICK y : y = [s EXCEPT !.pc = pc, !.granted = granted, !.row = q]
  OBVIOUS
<1>6. y.pc = pc /\ y.granted = granted /\ y.row = q /\ y.id = s.id
  BY <1>2, <1>5 DEF WorkerState
<1>7. worker' = [worker EXCEPT ![w] = y]
  BY <1>1, <1>3, <1>5, Facts
<1>8. q.rewards = actions[y.id].rewards + granted
  <2>1. actions[s.id].rewards \in Nat /\ s.granted \in Nat
    BY <1>2, PayFacts DEF Row, WorkerState
  <2> QED BY <1>2, <1>3, <1>4, <1>6, <2>1
<1>9. inventory[q.user] + granted <= SlotLimit
  <2>1. s.granted \in Nat /\ inventory[r.user] \in Nat /\ SlotLimit \in Nat
    BY <1>2, PayFacts DEF WorkerState
  <2> QED BY <1>1, <1>2, <1>3, <1>4, <2>1 DEF Room
<1>10. pc \in {"finish", "advance"}
  BY <1>0
<1>11. WorkerPays(y)
  BY <1>6, <1>8, <1>9, <1>10 DEF WorkerPays
<1> QED BY <1>7, <1>11, PayWorker DEF WorkerTick, dbVars

\* Every step keeps the rows and the payments together as long as workers are
\* serial.
LEMMA PayStep == IInv /\ EventsMatchRows /\ PayInv /\ SerialWorkers /\ [Next]_vars => PayInv'
<1> SUFFICES ASSUME IInv, EventsMatchRows, PayInv, SerialWorkers, [Next]_vars PROVE PayInv'
  OBVIOUS
<1>1. CASE UNCHANGED <<actions, inventory, paid, events, worker>>
  BY <1>1, CancelCopies, PayQuiet
<1>2. ASSUME NEW h \in Handlers, Request(h) \/ HandlerStep(h) \/ HandlerFault(h) PROVE PayInv'
  <2>1. CASE HarvestCreate(h) \/ CancelSave(h)
    BY <2>1, PayCreate, PayCancel
  <2>2. CASE ~(HarvestCreate(h) \/ CancelSave(h))
    BY <1>1, <1>2, <2>2 DEF Request, HarvestReadActive, Get, Move, GetPlayer, ListEntities,
       TeleportCheck, HandlerStep, HarvestReadPlayer, TeleportGet, Settle, ResolveAction, CancelRead,
       MoveCheck, SaveMove, SaveTeleport, HandlerFault, dbVars
  <2> QED BY <2>1, <2>2
<1>3. ASSUME NEW w \in Workers, WorkerFault(w) PROVE PayInv'
  <2>1. WorkerPays(IdleWorker)
    BY DEF WorkerPays, IdleWorker
  <2> QED BY <1>3, <2>1, PayWorker DEF WorkerFault, dbVars
<1>4. CASE Tick \/ UNCHANGED vars
  BY <1>1, <1>4 DEF Tick, vars, dbVars
<1> QED BY <1>2, <1>3, <1>4, PaySnapshot, PayLock, PayTick, PayFinish DEF Next, WorkerStep

\* As long as no two workers work at a time, wherever one is interrupted and
\* whatever is cancelled meanwhile, no tick is paid twice: an action hands out
\* no more than its schedule, its row reports what the inventory received
\* unless a cancellation wrote an older copy over it, and no slot overflows.
THEOREM OneWorkerPaysAsScheduled == Spec /\ []SerialWorkers => []PaidAsScheduled
<1>1. IInv /\ PayInv => PaidAsScheduled
  BY PayFacts DEF PayInv, RowPaid, Scheduled, RowOK, PaidAsScheduled
<1> QED BY <1>1, Invariance, EventsAgree, PayInit, PayStep, PTL DEF Spec

\* The condition holds where there is one action worker, for any number of
\* players, requests and interruptions.
THEOREM SingleWorkerPays ==
  ASSUME NEW w, Workers = {w}
  PROVE  Spec => []PaidAsScheduled
<1>1. SerialWorkers
  BY DEF SerialWorkers
<1> QED BY <1>1, OneWorkerPaysAsScheduled, PTL

=============================================================================
