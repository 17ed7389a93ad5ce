------------------------ MODULE EventDelivery_proofs ------------------------
(***************************************************************************)
(* Proofs about EventDelivery: types, delivery exactly once, and the       *)
(* refinement of the safety part of Notifications.                         *)
(***************************************************************************)
EXTENDS EventDelivery, FiniteSetTheorems, TLAPS

\* What a dispatcher's open transaction relies on: the delivery it holds is
\* pending and nobody else's (SKIP LOCKED), and the id its uncommitted item
\* took is in no committed item and in no other transaction.
TransactionsApart ==
  /\ \A d \in Dispatchers : dispatcher[d].pc # "idle" =>
       /\ dispatcher[d].event \in Events
       /\ outbox[dispatcher[d].event].status = "pending"
  /\ \A d \in Dispatchers : dispatcher[d].pc = "idle" => dispatcher[d].event = NoEvent
  /\ \A d, x \in Dispatchers :
       dispatcher[d].pc # "idle" /\ dispatcher[x].event = dispatcher[d].event => x = d
  /\ \A d \in Dispatchers : dispatcher[d].pc = "inserted" =>
       /\ dispatcher[d].id <= inboxSeq
       /\ \A r \in inbox : r.id # dispatcher[d].id
       /\ \A x \in Dispatchers :
            dispatcher[x].pc = "inserted" /\ dispatcher[x].id = dispatcher[d].id => x = d

\* The inductive invariant.
IInv ==
  /\ TypeOK
  /\ DeliveredOnce
  /\ TransactionsApart
  /\ log \cap writing = {}
  /\ \A r \in inbox : r.id <= inboxSeq

-----------------------------------------------------------------------------

\* The empty tables satisfy the invariant.
LEMMA InitIInv == Init => IInv
BY DeliveryAssumption DEF Init, IInv, TypeOK, DeliveredOnce, TransactionsApart, Delivery,
   DispatcherState, IdleDispatcher

\* An acknowledgement changes read_at and nothing else.
LEMMA MarkReadKeeps ==
  ASSUME NEW r \in InboxItem, NEW u, NEW ids, now \in Nat
  PROVE  /\ MarkRead(r, u, ids) \in InboxItem
         /\ MarkRead(r, u, ids).id = r.id
         /\ MarkRead(r, u, ids).event = r.event
         /\ MarkRead(r, u, ids).user = r.user
         /\ r.read # Unread => MarkRead(r, u, ids).read = r.read
BY DEF MarkRead, InboxItem, Unread

\* Every step of producers, dispatchers and players keeps the types of the
\* rows and of the dispatchers' transactions.
LEMMA TypeStep == TypeOK /\ TransactionsApart /\ [Next]_vars => TypeOK'
<1> SUFFICES ASSUME TypeOK, TransactionsApart, [Next]_vars PROVE TypeOK'
  OBVIOUS
<1> USE DeliveryAssumption
<1>1. CASE Tick
  BY <1>1 DEF Tick, TypeOK, outboxVars, clientVars
<1>2. ASSUME NEW e \in Events, Append(e) PROVE TypeOK'
  BY <1>2 DEF Append, TypeOK, Delivery, clientVars
<1>3. ASSUME NEW e \in Events, ProducerCommit(e) PROVE TypeOK'
  BY <1>3 DEF ProducerCommit, TypeOK, Delivery, clientVars
<1>4. ASSUME NEW e \in Events, ProducerRollback(e) PROVE TypeOK'
  BY <1>4 DEF ProducerRollback, TypeOK, clientVars
<1>5. ASSUME NEW d \in Dispatchers, ClaimNextPendingDelivery(d) PROVE TypeOK'
  BY <1>5 DEF ClaimNextPendingDelivery, Claimable, Pending, TypeOK, DispatcherState,
     outboxVars, clientVars
<1>6. ASSUME NEW d \in Dispatchers, AppendInboxItem(d) PROVE TypeOK'
  <2> DEFINE x == IF NoItemYet(dispatcher[d].event)
                  THEN [pc |-> "inserted", event |-> dispatcher[d].event, id |-> inboxSeq + 1]
                  ELSE IdleDispatcher
  <2>1. x \in DispatcherState
    BY DEF TypeOK, DispatcherState, IdleDispatcher
  <2>2. dispatcher' = [dispatcher EXCEPT ![d] = x]
    BY <1>6 DEF AppendInboxItem
  <2> QED BY <1>6, <2>1, <2>2 DEF AppendInboxItem, TypeOK, outboxVars, clientVars
<1>7. ASSUME NEW d \in Dispatchers, DispatcherCommit(d) PROVE TypeOK'
  BY <1>7 DEF DispatcherCommit, MarkDeliveryDelivered, TransactionsApart, TypeOK, Delivery,
     DispatcherState, IdleDispatcher, InboxItem, clientVars
<1>8. ASSUME NEW d \in Dispatchers, DispatcherRollback(d) PROVE TypeOK'
  BY <1>8 DEF DispatcherRollback, TypeOK, DispatcherState, IdleDispatcher, outboxVars, clientVars
<1>9. ASSUME NEW u \in Users, Poll(u) PROVE TypeOK'
  <2> DEFINE page == ListInbox(u, cursor[u])
  <2>1. page \subseteq inbox
    BY DEF ListInbox
  <2>2. cursor' \in [Users -> Nat]
    <3>1. PICK last \in page : cursor' = [cursor EXCEPT ![u] = last.id]
      BY <1>9 DEF Poll
    <3>2. last.id \in Nat
      BY <2>1 DEF TypeOK, InboxItem
    <3> QED BY <3>1, <3>2 DEF TypeOK
  <2>3. seen' \in [Users -> SUBSET Events]
    <3>1. {r.event : r \in page} \subseteq Events
      BY <2>1 DEF TypeOK, InboxItem
    <3> QED BY <1>9, <3>1 DEF Poll, TypeOK
  <2> QED BY <1>9, <2>2, <2>3 DEF Poll, TypeOK, outboxVars
<1>10. ASSUME NEW u \in Users, NEW ids \in SUBSET (1..MaxInboxId), AckInbox(u, ids)
       PROVE  TypeOK'
  BY <1>10, MarkReadKeeps DEF AckInbox, TypeOK, outboxVars, clientVars
<1>11. CASE UNCHANGED vars
  BY <1>11 DEF vars, outboxVars, clientVars, TypeOK
<1> QED
  BY <1>1, <1>2, <1>3, <1>4, <1>5, <1>6, <1>7, <1>8, <1>9, <1>10, <1>11
  DEF Next, DispatcherStep

\* Only these actions touch what the other conjuncts are about.
LEMMA DeliveryStep == IInv /\ [Next]_vars => IInv'
<1> SUFFICES ASSUME IInv, [Next]_vars PROVE IInv'
  OBVIOUS
<1> USE DeliveryAssumption
<1>0. TypeOK'
  BY TypeStep DEF IInv
<1> DEFINE Rest == /\ DeliveredOnce /\ TransactionsApart /\ log \cap writing = {}
                   /\ \A r \in inbox : r.id <= inboxSeq
<1> SUFFICES Rest'
  BY <1>0 DEF IInv
<1> USE DEF IInv
<1>1. CASE Tick \/ UNCHANGED vars
  BY <1>1 DEF Tick, vars, outboxVars, clientVars, DeliveredOnce, TransactionsApart
<1>2. ASSUME NEW e \in Events, Append(e) PROVE Rest'
  <2>1. \A x \in Events : outbox'[x].status = outbox[x].status
    BY <1>2 DEF Append, TypeOK, Delivery
  <2>2. DeliveredOnce'
    BY <1>2, <2>1 DEF Append, DeliveredOnce
  <2>3. TransactionsApart'
    BY <1>2, <2>1 DEF Append, TransactionsApart
  <2> QED BY <1>2, <2>2, <2>3 DEF Append
<1>3. ASSUME NEW e \in Events, ProducerCommit(e) PROVE Rest'
  BY <1>3 DEF ProducerCommit, shouldEnqueueInboxDelivery, TypeOK, Delivery, DeliveredOnce, TransactionsApart
<1>4. ASSUME NEW e \in Events, ProducerRollback(e) PROVE Rest'
  BY <1>4 DEF ProducerRollback, DeliveredOnce, TransactionsApart
<1>5. ASSUME NEW d \in Dispatchers, ClaimNextPendingDelivery(d) PROVE Rest'
  BY <1>5 DEF ClaimNextPendingDelivery, Claimable, Held, Pending, TypeOK, DispatcherState,
     outboxVars, DeliveredOnce, TransactionsApart
<1>6. ASSUME NEW d \in Dispatchers, AppendInboxItem(d) PROVE Rest'
  <2> DEFINE e == dispatcher[d].event
  <2>1. UNCHANGED <<log, writing, outbox, inbox>> /\ inboxSeq' = inboxSeq + 1
    BY <1>6 DEF AppendInboxItem, outboxVars
  <2>2. \A r \in inbox : r.id \in Nat /\ r.id <= inboxSeq
    BY DEF TypeOK, InboxItem
  <2>3. TransactionsApart'
    <3>1. CASE NoItemYet(e)
      <4>1. dispatcher' = [dispatcher EXCEPT ![d] =
              [pc |-> "inserted", event |-> e, id |-> inboxSeq + 1]]
        BY <1>6, <3>1 DEF AppendInboxItem
      <4> QED BY <1>6, <2>1, <2>2, <4>1
              DEF AppendInboxItem, TypeOK, DispatcherState, TransactionsApart
    <3>2. CASE ~NoItemYet(e)
      <4>1. dispatcher' = [dispatcher EXCEPT ![d] = IdleDispatcher]
        BY <1>6, <3>2 DEF AppendInboxItem
      <4> QED BY <1>6, <2>1, <2>2, <4>1
              DEF TypeOK, DispatcherState, IdleDispatcher, TransactionsApart
    <3> QED BY <3>1, <3>2
  <2>4. DeliveredOnce'
    BY <2>1 DEF DeliveredOnce
  <2>5. inboxSeq \in Nat
    BY DEF TypeOK
  <2>6. \A r \in inbox' : r.id <= inboxSeq'
    BY <2>1, <2>2, <2>5
  <2>7. (log \cap writing = {})'
    BY <2>1
  <2> QED BY <2>3, <2>4, <2>6, <2>7
<1>7. ASSUME NEW d \in Dispatchers, DispatcherCommit(d) PROVE Rest'
  <2> DEFINE e == dispatcher[d].event
             item == [id |-> dispatcher[d].id, event |-> e, user |-> UserOf[e], read |-> Unread]
  <2>1. /\ inbox' = inbox \cup {item} /\ outbox' = [outbox EXCEPT ![e].status = "delivered"]
        /\ dispatcher' = [dispatcher EXCEPT ![d] = IdleDispatcher]
        /\ UNCHANGED <<log, writing, inboxSeq>>
    BY <1>7 DEF DispatcherCommit, MarkDeliveryDelivered
  <2>2. /\ dispatcher[d].pc = "inserted" /\ e \in Events
        /\ outbox[e].status = "pending" /\ item.id <= inboxSeq
        /\ \A r \in inbox : r.id # item.id /\ r.event # e
    BY <1>7 DEF DispatcherCommit, TransactionsApart, DeliveredOnce
  <2>3. /\ outbox'[e].status = "delivered"
        /\ \A x \in Events \ {e} : outbox'[x].status = outbox[x].status
    BY <2>1, <2>2 DEF TypeOK, Delivery
  <2>4. DeliveredOnce'
    <3>1. \A r, s \in inbox' : (r.id = s.id \/ r.event = s.event) => r = s
      BY <2>1, <2>2 DEF DeliveredOnce
    <3>2. \A r \in inbox' : r.user = UserOf[r.event] /\ r.event \in log' \cap Completed
      BY <2>1, <2>2 DEF DeliveredOnce
    <3>3. \A x \in Events : /\ outbox'[x].status # "none" <=> x \in log' \cap Completed
                            /\ outbox'[x].status = "delivered" <=> \E r \in inbox' : r.event = x
      <4>1. item \in inbox' /\ item.event = e
        BY <2>1
      <4>2. \A x \in Events \ {e} : (\E r \in inbox' : r.event = x) <=> (\E r \in inbox : r.event = x)
        BY <2>1
      <4>3. e \in log' \cap Completed
        BY <2>1, <2>2 DEF DeliveredOnce
      <4> QED BY <2>1, <2>3, <4>1, <4>2, <4>3 DEF DeliveredOnce
    <3> QED BY <3>1, <3>2, <3>3 DEF DeliveredOnce
  <2>5. TransactionsApart'
    <3>1. dispatcher'[d] = IdleDispatcher /\ \A x \in Dispatchers \ {d} : dispatcher'[x] = dispatcher[x]
      BY <2>1 DEF TypeOK
    <3>2. \A x \in Dispatchers \ {d} : dispatcher[x].pc # "idle" => dispatcher[x].event # e
      BY <2>2 DEF TransactionsApart
    <3>3. NoEvent # e
      BY <2>2
    <3> QED BY <2>1, <2>2, <2>3, <3>1, <3>2, <3>3 DEF TransactionsApart, IdleDispatcher
  <2>6. \A r \in inbox' : r.id <= inboxSeq'
    BY <2>1, <2>2
  <2> QED BY <2>1, <2>4, <2>5, <2>6
<1>8. ASSUME NEW d \in Dispatchers, DispatcherRollback(d) PROVE Rest'
  BY <1>8 DEF DispatcherRollback, TypeOK, DispatcherState, IdleDispatcher, outboxVars,
     DeliveredOnce, TransactionsApart
<1>9. ASSUME NEW u \in Users, Poll(u) PROVE Rest'
  BY <1>9 DEF Poll, outboxVars, DeliveredOnce, TransactionsApart
<1>10. ASSUME NEW u \in Users, NEW ids \in SUBSET (1..MaxInboxId), AckInbox(u, ids)
       PROVE  Rest'
  <2>1. \A r \in inbox' : \E s \in inbox : r = MarkRead(s, u, ids)
    BY <1>10 DEF AckInbox
  <2>2. \A r \in inbox : MarkRead(r, u, ids) \in inbox'
    BY <1>10 DEF AckInbox
  <2> QED BY <1>10, <2>1, <2>2, MarkReadKeeps DEF AckInbox, TypeOK, outboxVars,
          DeliveredOnce, TransactionsApart
<1> QED
  BY <1>1, <1>2, <1>3, <1>4, <1>5, <1>6, <1>7, <1>8, <1>9, <1>10
  DEF Next, DispatcherStep

\* The rows and the dispatchers' transactions are always well-formed.
THEOREM TypeCorrect == Spec => []TypeOK
<1>1. IInv => TypeOK
  BY DEF IInv
<1> QED BY InitIInv, DeliveryStep, <1>1, PTL DEF Spec

\* A completed action's event reaches its player's inbox exactly once, for any
\* number of dispatchers, players and events and any pattern of failures.
THEOREM ExactlyOnce == Spec => []DeliveredOnce
<1>1. IInv => DeliveredOnce
  BY DEF IInv
<1> QED BY InitIInv, DeliveryStep, <1>1, PTL DEF Spec

\* What an item says about reading never changes but by acknowledgement: items
\* stay, with their owner and the time they were first read at.
THEOREM ItemsKept == Spec => ItemsAreKept
<1>1. IInv /\ [Next]_vars =>
        [\A r \in inbox : \E s \in inbox' :
           /\ s.id = r.id /\ s.event = r.event /\ s.user = r.user
           /\ r.read # Unread => s.read = r.read]_vars
  <2> SUFFICES ASSUME IInv, Next, NEW r \in inbox
               PROVE  \E s \in inbox' :
                        /\ s.id = r.id /\ s.event = r.event /\ s.user = r.user
                        /\ r.read # Unread => s.read = r.read
    OBVIOUS
  <2>1. CASE \E u \in Users, ids \in SUBSET (1..MaxInboxId) : AckInbox(u, ids)
    <3>1. PICK u \in Users, ids \in SUBSET (1..MaxInboxId) : AckInbox(u, ids)
      BY <2>1
    <3>2. MarkRead(r, u, ids) \in inbox'
      BY <3>1 DEF AckInbox
    <3> QED BY <3>2, MarkReadKeeps DEF IInv, TypeOK
  <2>2. CASE ~ \E u \in Users, ids \in SUBSET (1..MaxInboxId) : AckInbox(u, ids)
    <3>1. inbox \subseteq inbox'
      BY <2>2 DEF Next, Tick, Append, ProducerCommit, ProducerRollback, DispatcherStep,
         ClaimNextPendingDelivery, AppendInboxItem, DispatcherCommit, DispatcherRollback, Poll
    <3> QED BY <3>1
  <2> QED BY <2>1, <2>2
<1> QED BY InitIInv, DeliveryStep, <1>1, PTL DEF Spec, ItemsAreKept

-----------------------------------------------------------------------------

EventsOf(I) == {r.event : r \in I}
ReadItems(I) == {s \in I : s.read # Unread}
ItemsOf(I, u, ids) == {s \in I : s.user = u /\ s.id \in ids}

\* In the view of Notifications an acknowledgement reads the acknowledged items
\* of its user.
LEMMA AckReads ==
  ASSUME NEW u, NEW ids, TypeOK, AckInbox(u, ids)
  PROVE  /\ EventsOf(inbox') = EventsOf(inbox)
         /\ EventsOf(ReadItems(inbox')) =
              EventsOf(ReadItems(inbox)) \cup EventsOf(ItemsOf(inbox, u, ids))
<1>0. PICK J : J = inbox'
  OBVIOUS
<1> inbox \subseteq InboxItem /\ now \in Nat /\ J = {MarkRead(r, u, ids) : r \in inbox}
  BY <1>0 DEF AckInbox, TypeOK
<1>1. \A r \in inbox : /\ MarkRead(r, u, ids) \in J
                  /\ MarkRead(r, u, ids).event = r.event
                  /\ (MarkRead(r, u, ids).read # Unread) =
                       (r.read # Unread \/ (r.user = u /\ r.id \in ids))
  BY MarkReadKeeps DEF MarkRead, InboxItem, Unread
<1>2. \A s \in J : \E r \in inbox : s = MarkRead(r, u, ids)
  OBVIOUS
<1>3. {r.event : r \in J} = {r.event : r \in inbox}
  BY <1>1, <1>2
<1>4. ASSUME NEW r \in inbox, r.read # Unread \/ (r.user = u /\ r.id \in ids)
      PROVE  r.event \in {x.event : x \in {s \in J : s.read # Unread}}
  BY <1>1, <1>4
<1> DEFINE readI == {r.event : r \in {s \in inbox : s.read # Unread}}
           readJ == {r.event : r \in {s \in J : s.read # Unread}}
           acked == {r.event : r \in {s \in inbox : s.user = u /\ s.id \in ids}}
<1>5. readI \cup acked \subseteq readJ
  BY <1>4
<1>6. readJ \subseteq readI \cup acked
  <2> SUFFICES ASSUME NEW s \in J, s.read # Unread PROVE s.event \in readI \cup acked
    OBVIOUS
  <2>1. PICK r \in inbox : s = MarkRead(r, u, ids)
    BY <1>2
  <2>2. r.event = s.event /\ (r.read # Unread \/ (r.user = u /\ r.id \in ids))
    BY <1>1, <2>1
  <2> QED BY <2>2
<1> QED BY <1>0, <1>3, <1>5, <1>6 DEF EventsOf, ReadItems, ItemsOf

\* Every step of the outbox maps to a step of Notifications or to none: the
\* commit of a producer announces, a dispatcher's commit delivers, an
\* acknowledgement reads.
LEMMA RefinementStep == IInv /\ [Next]_vars => [Promise!NNext]_(Promise!nVars)
<1> SUFFICES ASSUME IInv, [Next]_vars PROVE [Promise!NNext]_(Promise!nVars)
  OBVIOUS
<1> USE DeliveryAssumption DEF IInv
<1> DEFINE announced == {e \in Events : outbox[e].status # "none"}
           delivered == {r.event : r \in inbox}
           read == {r.event : r \in {s \in inbox : s.read # Unread}}
<1>1. CASE UNCHANGED <<inbox, outbox>>
  BY <1>1 DEF Promise!nVars
<1>2. ASSUME NEW e \in Events, Append(e) PROVE UNCHANGED Promise!nVars
  <2>1. \A x \in Events : outbox'[x].status = outbox[x].status
    BY <1>2 DEF Append, TypeOK, Delivery
  <2>2. UNCHANGED inbox
    BY <1>2 DEF Append
  <2> QED BY <2>1, <2>2 DEF Promise!nVars
<1>3. ASSUME NEW e \in Events, ProducerCommit(e) PROVE [Promise!NNext]_(Promise!nVars)
  <2>1. CASE e \notin Completed
    BY <1>1, <1>3, <2>1 DEF ProducerCommit, shouldEnqueueInboxDelivery
  <2>2. CASE e \in Completed
    <3>1. outbox' = [outbox EXCEPT ![e].status = "pending"] /\ UNCHANGED inbox
      BY <1>3, <2>2 DEF ProducerCommit, shouldEnqueueInboxDelivery
    <3>2. outbox[e].status = "none"
      BY <1>3 DEF ProducerCommit, DeliveredOnce
    <3>3. announced' = announced \cup {e}
      BY <3>1 DEF TypeOK, Delivery
    <3>4. Promise!Announce(e)
      BY <2>2, <3>1, <3>2, <3>3 DEF Promise!Announce
    <3> QED BY <2>2, <3>4 DEF Promise!NNext
  <2> QED BY <2>1, <2>2
<1>4. ASSUME NEW d \in Dispatchers, DispatcherCommit(d) PROVE Promise!NNext
  <2>1. PICK e \in Events : e = dispatcher[d].event /\ outbox[e].status = "pending"
    BY <1>4 DEF DispatcherCommit, TransactionsApart
  <2>2. PICK item : /\ item.event = e /\ item.read = Unread
                    /\ inbox' = inbox \cup {item}
    BY <1>4, <2>1 DEF DispatcherCommit
  <2>3. outbox' = [outbox EXCEPT ![e].status = "delivered"]
    BY <1>4, <2>1 DEF DispatcherCommit, MarkDeliveryDelivered
  <2>4. e \in Completed /\ e \in announced \ delivered
    BY <2>1 DEF DeliveredOnce
  <2>5. announced' = announced
    BY <2>1, <2>3 DEF TypeOK, Delivery
  <2>6. delivered' = delivered \cup {e}
    BY <2>2
  <2>7. read' = read
    BY <2>2
  <2>8. Promise!Deliver(e)
    BY <2>4, <2>5, <2>6, <2>7 DEF Promise!Deliver
  <2> QED BY <2>4, <2>8 DEF Promise!NNext
<1>5. ASSUME NEW u \in Users, NEW ids \in SUBSET (1..MaxInboxId), AckInbox(u, ids)
      PROVE  Promise!NNext
  <2> DEFINE mine == {s \in inbox : s.user = u /\ s.id \in ids}
             S == {r.event : r \in mine}
  <2>1. S \subseteq Completed /\ S \subseteq delivered
    BY DEF DeliveredOnce
  <2>2. inbox' = {MarkRead(r, u, ids) : r \in inbox} /\ UNCHANGED outbox
    BY <1>5 DEF AckInbox, outboxVars
  <2>3. delivered' = delivered /\ read' = read \cup S
    <3>1. /\ EventsOf(inbox') = EventsOf(inbox)
          /\ EventsOf(ReadItems(inbox')) =
               EventsOf(ReadItems(inbox)) \cup EventsOf(ItemsOf(inbox, u, ids))
      BY <1>5, AckReads
    <3> QED BY <3>1 DEF EventsOf, ReadItems, ItemsOf
  <2>4. PICK R \in SUBSET Completed : R = S
    BY <2>1
  <2>5. Promise!Read(R)
    BY <2>1, <2>2, <2>3, <2>4 DEF Promise!Read
  <2> QED BY <2>5 DEF Promise!NNext
<1> QED
  BY <1>1, <1>2, <1>3, <1>4, <1>5
  DEF Next, vars, outboxVars, Tick, ProducerRollback, DispatcherStep, ClaimNextPendingDelivery,
      AppendInboxItem, DispatcherRollback, Poll

\* The outbox with any number of racing, failing dispatchers never does what
\* the promise of Notifications excludes.
THEOREM Refinement == Spec => Promise!NSafety
<1>1. Init => Promise!NInit
  BY DEF Init, Promise!NInit
<1> QED BY <1>1, InitIInv, DeliveryStep, RefinementStep, PTL DEF Spec, Promise!NSafety

-----------------------------------------------------------------------------
(* What polling relies on *)

\* No two transactions of dispatchers are open at once: the deployment with one
\* process that runs workers.  Without it an item with a lower id becomes
\* visible after one with a higher id, which is what the run of
\* EventDeliveryPolling.cfg shows.
SerialDispatch ==
  \A d, x \in Dispatchers : dispatcher[d].pc # "idle" /\ dispatcher[x].pc # "idle" => d = x

\* A cursor is the id of an item that is there, an item that is being inserted
\* comes after all of them, and a client was shown what its cursor passed.
PagesInOrder ==
  /\ IsFiniteSet(inbox)
  /\ \A u \in Users : cursor[u] = 0 \/ \E r \in inbox : r.id = cursor[u]
  /\ \A d \in Dispatchers : dispatcher[d].pc = "inserted" =>
       /\ dispatcher[d].id > 0
       /\ \A r \in inbox : r.id < dispatcher[d].id
  /\ PollingMissesNothing

\* The empty inbox has no pages.
LEMMA InitPages == Init => PagesInOrder
<1> SUFFICES ASSUME Init PROVE PagesInOrder
  OBVIOUS
<1>1. IsFiniteSet(inbox)
  BY FS_EmptySet DEF Init
<1> QED BY <1>1 DEF Init, PagesInOrder, PollingMissesNothing, IdleDispatcher

\* A page has no gap: whatever comes after the cursor and not after the last
\* item of the page is on the page.
LEMMA PageHasNoGap ==
  ASSUME IsFiniteSet(inbox), inbox \subseteq InboxItem, NEW u, NEW after \in Nat,
         NEW last \in ListInbox(u, after),
         NEW r \in inbox, r.user = u, r.id > after, r.id <= last.id
  PROVE  r \in ListInbox(u, after)
<1> DEFINE items == {s \in inbox : s.user = u /\ s.id > after}
           before(x) == {s \in items : s.id < x.id}
<1>1. IsFiniteSet(items)
  BY FS_Subset
<1>2. IsFiniteSet(before(last)) /\ IsFiniteSet(before(r))
  BY <1>1, FS_Subset
<1>3. last \in inbox /\ last.id \in Nat /\ r.id \in Nat /\ \A s \in inbox : s.id \in Nat
  BY DEF ListInbox, InboxItem
<1>4. before(r) \subseteq before(last)
  BY <1>3
<1>5. Cardinality(before(r)) <= Cardinality(before(last))
  BY <1>2, <1>4, FS_Subset
<1>6. Cardinality(before(r)) \in Nat /\ Cardinality(before(last)) \in Nat
  BY <1>2, FS_CardinalityType
<1>7. Cardinality(before(last)) < Limit
  BY DEF ListInbox
<1>8. Cardinality(before(r)) < Limit
  BY <1>5, <1>6, <1>7, DeliveryAssumption
<1>9. r \in items
  OBVIOUS
<1> QED BY <1>8, <1>9 DEF ListInbox

\* A poll moves the cursor to the last item of a page without a gap.
LEMMA PollPages ==
  ASSUME IInv, PagesInOrder, NEW u \in Users, Poll(u)
  PROVE  PagesInOrder'
<1> USE DEF PagesInOrder, IInv
<1> DEFINE page == ListInbox(u, cursor[u])
<1>1. /\ UNCHANGED <<inbox, dispatcher>>
      /\ seen' = [seen EXCEPT ![u] = @ \cup {r.event : r \in page}]
  BY DEF Poll
<1>2. PICK last \in page : cursor' = [cursor EXCEPT ![u] = last.id]
  BY DEF Poll
<1>3. last \in inbox /\ inbox \subseteq InboxItem
  BY DEF ListInbox, TypeOK
<1>4. \A v \in Users : /\ cursor'[v] = IF v = u THEN last.id ELSE cursor[v]
                       /\ seen[v] \subseteq seen'[v]
  BY <1>1, <1>2 DEF TypeOK
<1>5. \A v \in Users : cursor'[v] = 0 \/ \E r \in inbox' : r.id = cursor'[v]
  BY <1>1, <1>3, <1>4
<1>6. ASSUME NEW r \in inbox, r.id <= cursor'[r.user] PROVE r.event \in seen'[r.user]
  <2>1. r.user \in Users /\ r.id \in Nat /\ cursor[r.user] \in Nat
    BY DEF TypeOK, InboxItem
  <2>2. CASE r.id <= cursor[r.user]
    BY <1>4, <2>1, <2>2 DEF PollingMissesNothing
  <2>3. CASE ~(r.id <= cursor[r.user])
    <3>1. r.user = u /\ r.id <= last.id /\ r.id > cursor[u]
      BY <1>4, <1>6, <2>1, <2>3
    <3>2. r \in page
      BY <1>3, <2>1, <3>1, PageHasNoGap
    <3> QED BY <1>1, <3>1, <3>2 DEF TypeOK
  <2> QED BY <2>2, <2>3
<1>7. PollingMissesNothing'
  BY <1>1, <1>6 DEF PollingMissesNothing
<1> QED BY <1>1, <1>5, <1>7

\* An acknowledgement changes neither ids nor events nor owners.
LEMMA AckPages ==
  ASSUME IInv, PagesInOrder, NEW u \in Users, NEW ids, AckInbox(u, ids)
  PROVE  PagesInOrder'
<1> USE DEF PagesInOrder, IInv
<1>1. /\ inbox' = {MarkRead(r, u, ids) : r \in inbox}
      /\ UNCHANGED <<dispatcher, cursor, seen>>
  BY DEF AckInbox, clientVars
<1>2. IsFiniteSet(inbox')
  <2> DEFINE mark == [r \in inbox |-> MarkRead(r, u, ids)]
  <2>1. mark \in Surjection(inbox, inbox')
    BY <1>1 DEF Surjection
  <2> QED BY <2>1, FS_Surjection
<1>3. \A r \in inbox : /\ MarkRead(r, u, ids).id = r.id
                       /\ MarkRead(r, u, ids).event = r.event
                       /\ MarkRead(r, u, ids).user = r.user
  BY MarkReadKeeps DEF TypeOK
<1>4. \A r \in inbox : \E s \in inbox' : s.id = r.id
  BY <1>1, <1>3
<1>5. \A s \in inbox' : \E r \in inbox : s.id = r.id /\ s.event = r.event /\ s.user = r.user
  BY <1>1, <1>3
<1>6. \A v \in Users : cursor'[v] = 0 \/ \E r \in inbox' : r.id = cursor'[v]
  BY <1>1, <1>4
<1>7. PollingMissesNothing'
  BY <1>1, <1>5 DEF PollingMissesNothing
<1> QED BY <1>1, <1>2, <1>5, <1>6, <1>7

\* The item of the only open transaction takes an id above all items.
LEMMA AppendPages ==
  ASSUME IInv, PagesInOrder, SerialDispatch, NEW d \in Dispatchers, AppendInboxItem(d)
  PROVE  PagesInOrder'
<1> USE DEF PagesInOrder, IInv
<1>1. UNCHANGED <<inbox, cursor, seen>>
  BY DEF AppendInboxItem, clientVars
<1>2. PollingMissesNothing'
  BY <1>1 DEF PollingMissesNothing
<1>3. ASSUME NEW x \in Dispatchers, dispatcher'[x].pc = "inserted"
      PROVE  dispatcher'[x].id > 0 /\ \A r \in inbox : r.id < dispatcher'[x].id
  <2>1. x = d
    <3>1. ASSUME x # d PROVE dispatcher'[x] = dispatcher[x]
      BY <3>1 DEF AppendInboxItem, TypeOK
    <3> QED BY <1>3, <3>1 DEF AppendInboxItem, SerialDispatch
  <2>2. dispatcher'[d].id = inboxSeq + 1
    BY <1>3, <2>1 DEF AppendInboxItem, TypeOK, IdleDispatcher
  <2> QED BY <2>1, <2>2 DEF TypeOK, InboxItem
<1> QED BY <1>1, <1>2, <1>3

\* The item that becomes visible is after every cursor.
LEMMA CommitPages ==
  ASSUME IInv, PagesInOrder, SerialDispatch, NEW d \in Dispatchers, DispatcherCommit(d)
  PROVE  PagesInOrder'
<1> USE DEF PagesInOrder, IInv
<1>1. PICK item : /\ item.id = dispatcher[d].id
                  /\ inbox' = inbox \cup {item}
                  /\ item \in InboxItem
  <2>1. dispatcher[d].event \in Events /\ dispatcher[d].id \in Nat
    BY DEF DispatcherCommit, TransactionsApart, TypeOK, DispatcherState
  <2> DEFINE new == [id |-> dispatcher[d].id, event |-> dispatcher[d].event,
                     user |-> UserOf[dispatcher[d].event], read |-> Unread]
  <2>2. new.id = dispatcher[d].id /\ inbox' = inbox \cup {new}
    BY DEF DispatcherCommit
  <2>3. new \in InboxItem
    BY <2>1, DeliveryAssumption DEF InboxItem
  <2> QED BY <2>2, <2>3
<1>2. /\ UNCHANGED <<cursor, seen>>
      /\ dispatcher[d].pc = "inserted"
      /\ dispatcher' = [dispatcher EXCEPT ![d] = IdleDispatcher]
  BY DEF DispatcherCommit, clientVars
<1>3. IsFiniteSet(inbox')
  BY <1>1, FS_AddElement
<1>4. \A v \in Users : cursor'[v] = 0 \/ \E r \in inbox' : r.id = cursor'[v]
  BY <1>1, <1>2
<1>5. \A x \in Dispatchers : dispatcher'[x].pc # "inserted"
  BY <1>2 DEF SerialDispatch, TypeOK, IdleDispatcher
<1>6. \A v \in Users : cursor[v] < item.id
  BY <1>1, <1>2 DEF TypeOK, InboxItem
<1>7. PollingMissesNothing'
  <2>1. item.user \in Users /\ item.id \in Nat
    BY <1>1 DEF InboxItem
  <2>2. ~(item.id <= cursor[item.user])
    BY <1>6, <2>1 DEF TypeOK
  <2> QED BY <1>1, <1>2, <2>2 DEF PollingMissesNothing
<1> QED BY <1>3, <1>4, <1>5, <1>7

\* The steps that touch neither inbox nor cursors and insert no item.
LEMMA OtherPages ==
  ASSUME PagesInOrder, UNCHANGED <<inbox, cursor, seen>>,
         \A d \in Dispatchers : dispatcher'[d].pc = "inserted" => dispatcher'[d] = dispatcher[d]
  PROVE  PagesInOrder'
BY DEF PagesInOrder, PollingMissesNothing

\* While at most one dispatcher works, no step lets a cursor pass an item that
\* was not shown.
LEMMA PagesStep == IInv /\ PagesInOrder /\ SerialDispatch /\ [Next]_vars => PagesInOrder'
<1> SUFFICES ASSUME IInv, PagesInOrder, SerialDispatch, [Next]_vars PROVE PagesInOrder'
  OBVIOUS
<1>1. CASE UNCHANGED <<inbox, cursor, seen, dispatcher>>
  BY <1>1, OtherPages
<1>2. ASSUME NEW d \in Dispatchers, ClaimNextPendingDelivery(d) \/ DispatcherRollback(d)
      PROVE  PagesInOrder'
  <2>1. UNCHANGED <<inbox, cursor, seen>>
    BY <1>2 DEF ClaimNextPendingDelivery, DispatcherRollback, clientVars
  <2>2. \A x \in Dispatchers : dispatcher'[x].pc = "inserted" => dispatcher'[x] = dispatcher[x]
    BY <1>2 DEF ClaimNextPendingDelivery, DispatcherRollback, IInv, TypeOK, IdleDispatcher
  <2> QED BY <2>1, <2>2, OtherPages
<1>3. ASSUME NEW d \in Dispatchers, AppendInboxItem(d) PROVE PagesInOrder'
  BY <1>3, AppendPages
<1>4. ASSUME NEW d \in Dispatchers, DispatcherCommit(d) PROVE PagesInOrder'
  BY <1>4, CommitPages
<1>5. ASSUME NEW u \in Users, Poll(u) PROVE PagesInOrder'
  BY <1>5, PollPages
<1>6. ASSUME NEW u \in Users, NEW ids \in SUBSET (1..MaxInboxId), AckInbox(u, ids)
      PROVE  PagesInOrder'
  BY <1>6, AckPages
<1> QED
  BY <1>1, <1>2, <1>3, <1>4, <1>5, <1>6
  DEF Next, vars, outboxVars, clientVars, Tick, Append, ProducerCommit, ProducerRollback,
      DispatcherStep

\* While the dispatchers' transactions do not overlap, a client that polls with
\* the id of the last item it saw is shown every item: for any number of users
\* and items, any page size, and dispatchers that fail and start over.
THEOREM SerialPollingMissesNothing ==
  Spec /\ []SerialDispatch => []PollingMissesNothing
<1>1. PagesInOrder => PollingMissesNothing
  BY DEF PagesInOrder
<1> QED BY <1>1, InitIInv, InitPages, DeliveryStep, PagesStep, PTL DEF Spec

\* In particular with one dispatcher, which is how a single process runs.
THEOREM OneDispatcherPolling ==
  ASSUME NEW d, Dispatchers = {d}
  PROVE  Spec => []PollingMissesNothing
<1>1. SerialDispatch
  BY DEF SerialDispatch
<1> QED BY <1>1, SerialPollingMissesNothing, PTL

=============================================================================
