--------------------------- MODULE EventDelivery ---------------------------
(***************************************************************************)
(* The transactional outbox of player events and its delivery to the       *)
(* players' inboxes.                                                       *)
(*                                                                         *)
(* Producers (the transactions of ActionService) append events and enqueue *)
(* a delivery for those worth a notification.  Dispatchers, one per process*)
(* that runs workers, each claim one pending delivery per transaction,     *)
(* insert the inbox item and mark the delivery.  Players list and          *)
(* acknowledge their inbox; a polling client pages through it with the id  *)
(* of the last item it saw (GET /v1/events/inbox?after_id=).               *)
(*                                                                         *)
(* Sequences hand out ids when a row is inserted, rows become visible at   *)
(* the commit, and an id taken by a transaction that rolls back is lost.   *)
(***************************************************************************)
EXTENDS Integers, FiniteSets

CONSTANTS
  Events,       \* player_events rows that may be appended
  Completed,    \* those of type action.completed
  Users,
  UserOf,       \* [Events -> Users]
  Dispatchers,  \* dispatcher workers
  Limit,        \* page size of ListInbox
  MaxTime,      \* bound: the clock stops here
  MaxInboxId,   \* bound: the inbox sequence stops here
  MaxFaults,    \* bound: transactions rolled back
  NoEvent

ASSUME DeliveryAssumption ==
  /\ Completed \subseteq Events
  /\ UserOf \in [Events -> Users]
  /\ Limit \in Nat \ {0}
  /\ MaxTime \in Nat /\ MaxInboxId \in Nat /\ MaxFaults \in Nat
  /\ NoEvent \notin Events

VARIABLES
  now,         \* the clock
  log,         \* committed player_events
  writing,     \* events appended in transactions that are still open
  outbox,      \* player_event_outbox rows, committed or being written
  outboxSeq,   \* last id of the outbox
  inbox,       \* committed player_event_inbox rows
  inboxSeq,    \* last id of the inbox
  dispatcher,  \* local state of each dispatcher
  cursor,      \* after_id of each user's polling client
  seen,        \* events that client was shown
  faults       \* rollbacks so far

outboxVars == <<log, writing, outbox, outboxSeq>>
clientVars == <<cursor, seen>>
vars == <<now, outboxVars, inbox, inboxSeq, dispatcher, clientVars, faults>>

Delivery == [status : {"none", "pending", "delivered"}, id : Nat, available : Nat]

Unread == -1

InboxItem == [id : Nat, event : Events, user : Users, read : Nat \cup {Unread}]

DispatcherState == [pc : {"idle", "claimed", "inserted"},
                    event : Events \cup {NoEvent}, id : Nat]

\* Every row and every local copy has the columns the code gives it; a delivery
\* is in no status but none, pending and delivered.
TypeOK ==
  /\ now \in Nat
  /\ log \subseteq Events
  /\ writing \subseteq Events
  /\ outbox \in [Events -> Delivery]
  /\ outboxSeq \in Nat
  /\ inbox \subseteq InboxItem
  /\ inboxSeq \in Nat
  /\ dispatcher \in [Dispatchers -> DispatcherState]
  /\ cursor \in [Users -> Nat]
  /\ seen \in [Users -> SUBSET Events]
  /\ faults \in Nat

IdleDispatcher == [pc |-> "idle", event |-> NoEvent, id |-> 0]

Init ==
  /\ now = 0
  /\ log = {} /\ writing = {}
  /\ outbox = [e \in Events |-> [status |-> "none", id |-> 0, available |-> 0]]
  /\ outboxSeq = 0
  /\ inbox = {} /\ inboxSeq = 0
  /\ dispatcher = [d \in Dispatchers |-> IdleDispatcher]
  /\ cursor = [u \in Users |-> 0]
  /\ seen = [u \in Users |-> {}]
  /\ faults = 0

-----------------------------------------------------------------------------
(* Producers *)

\* Seeded fault: every event is delivered.
enqueueEverything(e) == TRUE

shouldEnqueueInboxDelivery(e) == e \in Completed

\* appendEvents: AppendEvents and EnqueueDeliveries in an open transaction;
\* the outbox row gets its id and available_at now.
Append(e) ==
  /\ e \notin log \cup writing
  /\ writing' = writing \cup {e}
  /\ IF shouldEnqueueInboxDelivery(e)
     THEN /\ outbox' = [outbox EXCEPT ![e].id = outboxSeq + 1, ![e].available = now]
          /\ outboxSeq' = outboxSeq + 1
     ELSE UNCHANGED <<outbox, outboxSeq>>
  /\ UNCHANGED <<now, log, inbox, inboxSeq, dispatcher, clientVars, faults>>

ProducerCommit(e) ==
  /\ e \in writing
  /\ writing' = writing \ {e}
  /\ log' = log \cup {e}
  /\ outbox' = IF shouldEnqueueInboxDelivery(e)
               THEN [outbox EXCEPT ![e].status = "pending"] ELSE outbox
  /\ UNCHANGED <<now, outboxSeq, inbox, inboxSeq, dispatcher, clientVars, faults>>

ProducerRollback(e) ==
  /\ e \in writing
  /\ faults < MaxFaults
  /\ writing' = writing \ {e}
  /\ faults' = faults + 1
  /\ UNCHANGED <<now, log, outbox, outboxSeq, inbox, inboxSeq, dispatcher, clientVars>>

-----------------------------------------------------------------------------
(* Dispatchers: ProcessPending, one transaction per delivery *)

Held(e) == \E d \in Dispatchers : dispatcher[d].event = e

Pending == {e \in Events : outbox[e].status = "pending" /\ outbox[e].available <= now}

\* The claim's order: available_at, id.
ClaimsBefore(x, y) ==
  \/ outbox[x].available < outbox[y].available
  \/ outbox[x].available = outbox[y].available /\ outbox[x].id < outbox[y].id

\* FOR UPDATE SKIP LOCKED.  (The enclosing select reads the row in the
\* statement's snapshot, but the columns it uses never change.)
Claimable == {e \in Pending : ~Held(e)}

ClaimNextPendingDelivery(d) ==
  /\ dispatcher[d].pc = "idle"
  /\ \E e \in Claimable :
       /\ \A x \in Claimable : ~ClaimsBefore(x, e)
       /\ dispatcher' = [dispatcher EXCEPT ![d] = [pc |-> "claimed", event |-> e, id |-> 0]]
  /\ UNCHANGED <<now, outboxVars, inbox, inboxSeq, clientVars, faults>>

\* unique (event_id) of player_event_inbox.
NoItemYet(e) == \A r \in inbox : r.event # e

\* GetEvent and AppendInboxItems: the item takes the next id.  An uncommitted
\* item for the same event is waited for, a committed one is a violation of
\* the index, which ends the transaction.
AppendInboxItem(d) ==
  LET e == dispatcher[d].event IN
  /\ dispatcher[d].pc = "claimed"
  /\ \A x \in Dispatchers : ~(dispatcher[x].pc = "inserted" /\ dispatcher[x].event = e)
  /\ inboxSeq < MaxInboxId
  /\ inboxSeq' = inboxSeq + 1
  /\ dispatcher' = [dispatcher EXCEPT ![d] =
       IF NoItemYet(e) THEN [pc |-> "inserted", event |-> e, id |-> inboxSeq + 1]
       ELSE IdleDispatcher]
  /\ UNCHANGED <<now, outboxVars, inbox, clientVars, faults>>

\* Seeded fault: the delivery stays pending.
ForgetDelivery(e) == UNCHANGED outbox

\* Seeded fault: the update writes a status nobody looks for.
MarkDeliverySent(e) == outbox' = [outbox EXCEPT ![e].status = "sent"]

MarkDeliveryDelivered(e) == outbox' = [outbox EXCEPT ![e].status = "delivered"]

\* MarkDeliveryDelivered and the commit.
DispatcherCommit(d) ==
  LET e == dispatcher[d].event IN
  /\ dispatcher[d].pc = "inserted"
  /\ MarkDeliveryDelivered(e)
  /\ inbox' = inbox \cup {[id |-> dispatcher[d].id, event |-> e, user |-> UserOf[e],
                           read |-> Unread]}
  /\ dispatcher' = [dispatcher EXCEPT ![d] = IdleDispatcher]
  /\ UNCHANGED <<now, log, writing, outboxSeq, inboxSeq, clientVars, faults>>

\* A failed statement or a crash: rollback, the row lock is released.
DispatcherRollback(d) ==
  /\ dispatcher[d].pc # "idle"
  /\ faults < MaxFaults
  /\ dispatcher' = [dispatcher EXCEPT ![d] = IdleDispatcher]
  /\ faults' = faults + 1
  /\ UNCHANGED <<now, outboxVars, inbox, inboxSeq, clientVars>>

DispatcherStep(d) ==
  ClaimNextPendingDelivery(d) \/ AppendInboxItem(d) \/ DispatcherCommit(d)

-----------------------------------------------------------------------------
(* Players *)

\* ListInbox: the user's items after an id, oldest first, at most Limit.
ListInbox(u, after) ==
  LET items == {r \in inbox : r.user = u /\ r.id > after} IN
  {r \in items : Cardinality({s \in items : s.id < r.id}) < Limit}

\* A client without a realtime connection polls for what is new.
Poll(u) ==
  LET page == ListInbox(u, cursor[u]) IN
  /\ page # {}
  /\ seen' = [seen EXCEPT ![u] = @ \cup {r.event : r \in page}]
  /\ \E last \in page :
       /\ \A r \in page : r.id <= last.id
       /\ cursor' = [cursor EXCEPT ![u] = last.id]
  /\ UNCHANGED <<now, outboxVars, inbox, inboxSeq, dispatcher, faults>>

\* Seeded fault: every acknowledgement stamps read_at again.
MarkReadAgain(r, u, ids) ==
  IF r.user = u /\ r.id \in ids THEN [r EXCEPT !.read = now] ELSE r

\* MarkInboxItemsRead: ids of other users' items are ignored, and the first
\* read_at stays.
MarkRead(r, u, ids) ==
  IF r.user = u /\ r.id \in ids /\ r.read = Unread THEN [r EXCEPT !.read = now] ELSE r

AckInbox(u, ids) ==
  /\ ids # {}
  /\ inbox' = {MarkRead(r, u, ids) : r \in inbox}
  /\ UNCHANGED <<now, outboxVars, inboxSeq, dispatcher, clientVars, faults>>

Tick ==
  /\ now < MaxTime
  /\ now' = now + 1
  /\ UNCHANGED <<outboxVars, inbox, inboxSeq, dispatcher, clientVars, faults>>

Next ==
  \/ Tick
  \/ \E e \in Events : Append(e) \/ ProducerCommit(e) \/ ProducerRollback(e)
  \/ \E d \in Dispatchers : DispatcherStep(d) \/ DispatcherRollback(d)
  \/ \E u \in Users : Poll(u) \/ \E ids \in SUBSET (1..MaxInboxId) : AckInbox(u, ids)

Spec == Init /\ [][Next]_vars

\* The dispatcher's loop always comes back; nothing else is owed.
FairSpec == Spec /\ \A d \in Dispatchers : WF_vars(DispatcherStep(d))

-----------------------------------------------------------------------------
(* Properties *)

\* A completed action's event is delivered once: items and deliveries match
\* one to one although dispatchers race, fail and start over, each item goes
\* to the event's own player, and nothing else is ever delivered.
DeliveredOnce ==
  /\ \A r, s \in inbox : (r.id = s.id \/ r.event = s.event) => r = s
  /\ \A r \in inbox : /\ r.user = UserOf[r.event]
                      /\ r.event \in log \cap Completed
  /\ \A e \in Events : /\ outbox[e].status # "none" <=> e \in log \cap Completed
                       /\ outbox[e].status = "delivered" <=> \E r \in inbox : r.event = e

\* An item never leaves the inbox or changes hands, and the time it was first
\* read at never changes, however often it is acknowledged.
ItemsAreKept ==
  [][\A r \in inbox : \E s \in inbox' :
       /\ s.id = r.id /\ s.event = r.event /\ s.user = r.user
       /\ r.read # Unread => s.read = r.read]_vars

\* The outbox implements the promise of Notifications, eventual delivery of
\* every announced event included.
Promise == INSTANCE Notifications WITH
  announced <- {e \in Events : outbox[e].status # "none"},
  delivered <- {r.event : r \in inbox},
  read <- {r.event : r \in {s \in inbox : s.read # Unread}}

ImplementsNotifications == Promise!NSpec

\* A client that polls with the id of the last item it saw is shown every
\* item up to that id.
PollingMissesNothing ==
  \A r \in inbox : r.id <= cursor[r.user] => r.event \in seen[r.user]

=============================================================================
