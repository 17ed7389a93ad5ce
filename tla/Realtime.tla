------------------------------ MODULE Realtime ------------------------------
(***************************************************************************)
(* Realtime updates of one player: from a commit, over Postgres NOTIFY,    *)
(* the broker of the API process and the two goroutines of a WebSocket     *)
(* session, to what the client shows.                                      *)
(*                                                                         *)
(* A notification carries topics, never data.  The listener goroutine      *)
(* merges it into the one-element channel of each subscriber; the session's*)
(* pusher takes it, reads each topic from the database and writes it to    *)
(* the socket unless it is what it wrote last.  The session's read loop    *)
(* answers the client's requests on the same socket.  Goroutines run       *)
(* between any two channel operations, reads and writes, so each of them   *)
(* is a step; what is written reaches the client in the order of writing.  *)
(* A client that acknowledges the items of its inbox shows them as read at  *)
(* once and merges the answer into the list of that moment.                 *)
(*                                                                         *)
(* The content of a topic is the stamp of the change that produced it (the *)
(* rows carry updated_at); only an empty list has no stamp.                *)
(***************************************************************************)
EXTENDS Integers, Sequences, FiniteSets

CONSTANTS
  Topics,
  Rank,         \* [Topics -> Nat], the order in which a push serves topics
  Lists,        \* topics whose content is a list and may be empty again
  Acked,        \* topics whose items the client acknowledges
  Silent,       \* topics that a read may change without announcing it
  Notices,      \* sets of topics that are announced together
  Writers,      \* handlers that announce after their commit, best effort
  Sessions,     \* WebSocket connections of the player
  MaxChanges,   \* bound: commits
  MaxRequests,  \* bound: requests beyond the fetches of a new connection
  MaxFaults,    \* bound: connections, reads, writes and publications that fail
  NoTopic, NoSession

ASSUME RealtimeAssumption ==
  /\ Rank \in [Topics -> Nat]
  /\ \A t, u \in Topics : Rank[t] = Rank[u] => t = u
  /\ Lists \subseteq Topics /\ Acked \subseteq Topics /\ Silent \subseteq Topics
  /\ Notices \subseteq SUBSET Topics /\ {} \notin Notices
  /\ MaxChanges \in Nat /\ MaxRequests \in Nat /\ MaxFaults \in Nat
  /\ NoTopic \notin Topics /\ NoSession \notin Sessions

VARIABLES
  db,         \* what a read of each topic returns
  changes,    \* commits so far
  writer,     \* per writer: topics committed and not yet announced
  listening,  \* the LISTEN connection is up
  wire,       \* notifications on it, oldest first
  broker,     \* local state of the listener goroutine in dispatch
  open,       \* subscribed sessions
  channel,    \* per session: the pending notification's topics, {} when empty
  pusher,     \* local state of each session's pusher
  last,       \* per session: wsRealtimeSnapshot, what was pushed last
  reader,     \* local state of each session's read loop
  fetch,      \* per session: what its client has still to fetch
  view,       \* what each client shows
  requests,   \* further requests so far
  faults,     \* faults so far
  gap         \* history: per session, topics that may stay behind

dbVars == <<db, changes, writer>>
brokerVars == <<listening, wire, broker>>
pushVars == <<pusher, last>>
clientVars == <<reader, fetch, view, requests>>
vars == <<dbVars, brokerVars, open, channel, pushVars, clientVars, faults, gap>>

Empty == 0
Nothing == -1
Contents == Nat
Own == -2      \* a list the client made up, which the server does not have
Shown == Contents \cup {Nothing, Own}

BrokerState == [pc : {"idle", "put", "take", "putBack"}, topics : SUBSET Topics,
                targets : SUBSET Sessions, session : Sessions \cup {NoSession},
                merged : SUBSET Topics]

PusherState == [pc : {"wait", "read", "write", "dead"}, todo : SUBSET Topics,
                topic : Topics \cup {NoTopic}, value : Shown, passed : BOOLEAN]

ReaderState == [pc : {"idle", "ack", "notify", "reply"}, topic : Topics \cup {NoTopic},
                value : Shown, base : Shown, passed : BOOLEAN]

IdleBroker == [pc |-> "idle", topics |-> {}, targets |-> {}, session |-> NoSession,
               merged |-> {}]
IdlePusher == [pc |-> "wait", todo |-> {}, topic |-> NoTopic, value |-> Nothing,
               passed |-> FALSE]
IdleReader == [pc |-> "idle", topic |-> NoTopic, value |-> Nothing, base |-> Nothing,
               passed |-> FALSE]

\* The state of the goroutines and queues is well-formed; in particular the
\* broker merges only while it has a subscriber and topics in hand.
TypeOK ==
  /\ db \in [Topics -> Contents] /\ changes \in Nat
  /\ writer \in [Writers -> SUBSET Topics]
  /\ listening \in BOOLEAN
  /\ wire \in Seq(SUBSET Topics)
  /\ broker \in BrokerState
  /\ open \subseteq Sessions
  /\ channel \in [Sessions -> SUBSET Topics]
  /\ pusher \in [Sessions -> PusherState]
  /\ last \in [Sessions -> [Topics -> Shown]]
  /\ reader \in [Sessions -> ReaderState]
  /\ fetch \in [Sessions -> SUBSET Topics]
  /\ view \in [Sessions -> [Topics -> Shown]]
  /\ requests \in Nat /\ faults \in Nat
  /\ gap \in [Sessions -> SUBSET Topics]
  /\ broker.pc \in {"take", "putBack"} => broker.session \in Sessions /\ broker.topics # {}

Init ==
  /\ db = [t \in Topics |-> Empty] /\ changes = 0
  /\ writer = [w \in Writers |-> {}]
  /\ listening = TRUE /\ wire = <<>> /\ broker = IdleBroker
  /\ open = {} /\ channel = [s \in Sessions |-> {}]
  /\ pusher = [s \in Sessions |-> IdlePusher]
  /\ last = [s \in Sessions |-> [t \in Topics |-> Nothing]]
  /\ reader = [s \in Sessions |-> IdleReader]
  /\ fetch = [s \in Sessions |-> {}]
  /\ view = [s \in Sessions |-> [t \in Topics |-> Nothing]]
  /\ requests = 0 /\ faults = 0
  /\ gap = [s \in Sessions |-> {}]

-----------------------------------------------------------------------------
(* Commits and announcements *)

\* Topics S are missed by every subscriber.
Missed(S) == [s \in Sessions |-> IF s \in open THEN gap[s] \cup S ELSE gap[s]]

\* The commit of a transaction that changes the topics of S.
Commit(S) ==
  /\ changes < MaxChanges
  /\ changes' = changes + 1
  /\ \E emptied \in SUBSET {t \in S \cap Lists : db[t] # Empty} :
       db' = [t \in Topics |-> IF t \in emptied THEN Empty
                               ELSE IF t \in S THEN changes + 1 ELSE db[t]]

\* publishRealtime: delivered to the connection that listens, if there is one.
Publish(S) ==
  IF listening THEN wire' = Append(wire, S) /\ gap' = gap
  ELSE gap' = Missed(S) /\ wire' = wire

\* notifyRealtimeStores: pg_notify inside the transaction.  A notice may name
\* topics whose content the transaction left alone.
WriteTx ==
  /\ \E N \in Notices : \E S \in SUBSET N \ {{}} : Commit(S) /\ Publish(N)
  /\ UNCHANGED <<writer, listening, broker, open, channel, pushVars, clientVars, faults>>

\* notifyRealtimeBestEffort: pg_notify in a statement of its own, later.
Write(w) ==
  /\ writer[w] = {}
  /\ \E N \in Notices : \E S \in SUBSET N \ {{}} :
       Commit(S) /\ writer' = [writer EXCEPT ![w] = N]
  /\ UNCHANGED <<brokerVars, open, channel, pushVars, clientVars, faults, gap>>

notifyRealtimeBestEffort(w) ==
  /\ writer[w] # {}
  /\ writer' = [writer EXCEPT ![w] = {}]
  /\ Publish(writer[w])
  /\ UNCHANGED <<db, changes, listening, broker, open, channel, pushVars, clientVars, faults>>

\* The error of the statement is dropped, or the process died before it.
NotifyFails(w) ==
  /\ writer[w] # {} /\ faults < MaxFaults
  /\ writer' = [writer EXCEPT ![w] = {}]
  /\ gap' = Missed(writer[w])
  /\ faults' = faults + 1
  /\ UNCHANGED <<db, changes, brokerVars, open, channel, pushVars, clientVars>>

\* Reading the player settles a finished movement, reading the entities removes
\* stumps and plants trees: both write and announce nothing.
UnannouncedWrite ==
  /\ \E t \in Silent : Commit({t}) /\ gap' = Missed({t})
  /\ UNCHANGED <<writer, brokerVars, open, channel, pushVars, clientVars, faults>>

-----------------------------------------------------------------------------
(* The broker: runListener, dispatch, queueRealtimeNotification *)

\* WaitForNotification, then dispatch copies the subscribers under its lock.
Receive ==
  /\ listening /\ wire # <<>> /\ broker.pc = "idle"
  /\ wire' = Tail(wire)
  /\ broker' = IF open = {} THEN IdleBroker
               ELSE [IdleBroker EXCEPT !.pc = "put", !.topics = Head(wire), !.targets = open]
  /\ UNCHANGED <<dbVars, listening, open, channel, pushVars, clientVars, faults, gap>>

\* The broker's state when it is done with subscriber s.
Forward(s) ==
  IF broker.targets \subseteq {s} THEN IdleBroker
  ELSE [broker EXCEPT !.pc = "put", !.targets = @ \ {s}, !.session = NoSession, !.merged = {}]

\* First select: the channel has room, or it has not.
TryPut(s) ==
  /\ broker.pc = "put" /\ s \in broker.targets
  /\ IF channel[s] = {}
     THEN /\ channel' = [channel EXCEPT ![s] = broker.topics]
          /\ broker' = Forward(s)
     ELSE /\ broker' = [broker EXCEPT !.pc = "take", !.session = s]
          /\ UNCHANGED channel
  /\ UNCHANGED <<dbVars, listening, wire, open, pushVars, clientVars, faults, gap>>

\* Seeded fault: the notification taken out is not merged.
WithPendingForgotten(pending) == broker.topics

WithPending(pending) == broker.topics \cup pending

\* Second select: take what is pending, unless the pusher was faster.
TakePending ==
  LET s == broker.session IN
  /\ broker.pc = "take"
  /\ channel' = [channel EXCEPT ![s] = {}]
  /\ broker' = [broker EXCEPT !.pc = "putBack", !.merged = WithPending(channel[s])]
  /\ UNCHANGED <<dbVars, listening, wire, open, pushVars, clientVars, faults, gap>>

\* Third select: there is room, since nobody else puts.
PutBack ==
  LET s == broker.session IN
  /\ broker.pc = "putBack"
  /\ channel' = IF channel[s] = {} THEN [channel EXCEPT ![s] = broker.merged] ELSE channel
  /\ broker' = Forward(s)
  /\ UNCHANGED <<dbVars, listening, wire, open, pushVars, clientVars, faults, gap>>

\* The LISTEN connection fails; what it had not handed over is gone.
ListenerFails ==
  /\ listening /\ broker.pc = "idle" /\ faults < MaxFaults
  /\ listening' = FALSE
  /\ wire' = <<>>
  /\ gap' = Missed(UNION {wire[i] : i \in DOMAIN wire})
  /\ faults' = faults + 1
  /\ UNCHANGED <<dbVars, broker, open, channel, pushVars, clientVars>>

\* Run connects again after realtimeReconnectDelay.
ListenerReconnects ==
  /\ ~listening
  /\ listening' = TRUE
  /\ UNCHANGED <<dbVars, wire, broker, open, channel, pushVars, clientVars, faults, gap>>

-----------------------------------------------------------------------------
(* WebSocket sessions: the pusher *)

\* A push and a reply pass each other when one is written between the other's
\* read and write.
Passed(g, t) == [g EXCEPT !.passed = @ \/ (g.pc # "idle" /\ g.topic = t)]

PushReceive(s) ==
  /\ s \in open /\ pusher[s].pc = "wait" /\ channel[s] # {}
  /\ pusher' = [pusher EXCEPT ![s].pc = "read", ![s].todo = channel[s]]
  /\ channel' = [channel EXCEPT ![s] = {}]
  /\ UNCHANGED <<dbVars, brokerVars, open, last, clientVars, faults, gap>>

NextTopic(s) == CHOOSE t \in pusher[s].todo : \A u \in pusher[s].todo : Rank[t] <= Rank[u]

\* The pusher goes on after topic t.
Served(s, t) ==
  LET rest == pusher[s].todo \ {t} IN
  [IdlePusher EXCEPT !.pc = IF rest = {} THEN "wait" ELSE "read", !.todo = rest]

\* jsonEqual on what was pushed last.
AlreadyPushed(s, t) == last[s][t] = db[t]

\* pushRealtimeNotification reads a topic; an unchanged content is not written.
PushRead(s) ==
  LET t == NextTopic(s) IN
  /\ s \in open /\ pusher[s].pc = "read"
  /\ IF AlreadyPushed(s, t)
     THEN /\ pusher' = [pusher EXCEPT ![s] = Served(s, t)]
          /\ gap' = IF view[s][t] = db[t] /\ ~(reader[s].topic = t /\ reader[s].value # db[t])
                    THEN gap ELSE [gap EXCEPT ![s] = @ \cup {t}]
     ELSE /\ pusher' = [pusher EXCEPT ![s].pc = "write", ![s].todo = @ \ {t},
                                      ![s].topic = t, ![s].value = db[t]]
          /\ gap' = [gap EXCEPT ![s] = @ \ {t}]
  /\ UNCHANGED <<dbVars, brokerVars, open, channel, last, clientVars, faults>>

\* A read that fails leaves the topic out, silently.
PushReadFails(s) ==
  LET t == NextTopic(s) IN
  /\ s \in open /\ pusher[s].pc = "read" /\ faults < MaxFaults
  /\ pusher' = [pusher EXCEPT ![s] = Served(s, t)]
  /\ gap' = [gap EXCEPT ![s] = @ \cup {t}]
  /\ faults' = faults + 1
  /\ UNCHANGED <<dbVars, brokerVars, open, channel, last, clientVars>>

PushWrite(s) ==
  LET t == pusher[s].topic IN
  /\ s \in open /\ pusher[s].pc = "write"
  /\ view' = [view EXCEPT ![s][t] = pusher[s].value]
  /\ last' = [last EXCEPT ![s][t] = pusher[s].value]
  /\ gap' = IF pusher[s].passed THEN [gap EXCEPT ![s] = @ \cup {t}] ELSE gap
  /\ pusher' = [pusher EXCEPT ![s] = Served(s, t)]
  /\ reader' = [reader EXCEPT ![s] = Passed(@, t)]
  /\ UNCHANGED <<dbVars, brokerVars, open, channel, fetch, requests, faults>>

\* The write times out: the goroutine returns, the connection stays.
PushWriteFails(s) ==
  /\ s \in open /\ pusher[s].pc = "write" /\ faults < MaxFaults
  /\ pusher' = [pusher EXCEPT ![s] = [IdlePusher EXCEPT !.pc = "dead"]]
  /\ faults' = faults + 1
  /\ UNCHANGED <<dbVars, brokerVars, open, channel, last, clientVars, gap>>

-----------------------------------------------------------------------------
(* WebSocket sessions: the read loop and the client *)

\* Seeded fault: what the connection missed is not fetched.
ConnectWithoutFetch(s) ==
  /\ s \notin open
  /\ open' = open \cup {s}
  /\ channel' = [channel EXCEPT ![s] = {}]
  /\ pusher' = [pusher EXCEPT ![s] = IdlePusher]
  /\ last' = [last EXCEPT ![s] = [t \in Topics |-> Nothing]]
  /\ reader' = [reader EXCEPT ![s] = IdleReader]
  /\ gap' = [gap EXCEPT ![s] = {}]
  /\ UNCHANGED <<dbVars, brokerVars, fetch, view, requests, faults>>

\* WebSocket subscribes before it reads the first message; a client that is
\* connected fetches every topic, and until then shows what it had.
Connect(s) ==
  /\ s \notin open
  /\ open' = open \cup {s}
  /\ channel' = [channel EXCEPT ![s] = {}]
  /\ pusher' = [pusher EXCEPT ![s] = IdlePusher]
  /\ last' = [last EXCEPT ![s] = [t \in Topics |-> Nothing]]
  /\ reader' = [reader EXCEPT ![s] = IdleReader]
  /\ fetch' = [fetch EXCEPT ![s] = Topics]
  /\ gap' = [gap EXCEPT ![s] = {}]
  /\ UNCHANGED <<dbVars, brokerVars, view, requests, faults>>

\* handleWebSocketMessage for player.get, inventory.get, ...: the read.
Answer(s, t) ==
  /\ reader' = [reader EXCEPT ![s] = [pc |-> "reply", topic |-> t, value |-> db[t],
                                      base |-> Nothing, passed |-> FALSE]]
  /\ gap' = [gap EXCEPT ![s] = @ \ {t}]
  /\ UNCHANGED <<dbVars, brokerVars, open, channel, pushVars, view, faults>>

Fetch(s, t) ==
  /\ s \in open /\ reader[s].pc = "idle" /\ t \in fetch[s]
  /\ fetch' = [fetch EXCEPT ![s] = @ \ {t}]
  /\ Answer(s, t)
  /\ UNCHANGED requests

Request(s, t) ==
  /\ s \in open /\ reader[s].pc = "idle" /\ t \notin fetch[s]
  /\ requests < MaxRequests
  /\ requests' = requests + 1
  /\ Answer(s, t)
  /\ UNCHANGED fetch

\* The service fails and the reply is an error: the client keeps what it shows.
FetchFails(s, t) ==
  /\ s \in open /\ reader[s].pc = "idle" /\ t \in fetch[s] /\ faults < MaxFaults
  /\ fetch' = [fetch EXCEPT ![s] = @ \ {t}]
  /\ gap' = [gap EXCEPT ![s] = @ \cup {t}]
  /\ faults' = faults + 1
  /\ UNCHANGED <<dbVars, brokerVars, open, channel, pushVars, reader, view, requests>>

Reply(s) ==
  LET t == reader[s].topic IN
  /\ s \in open /\ reader[s].pc = "reply" /\ pusher[s].pc # "dead"
  /\ view' = [view EXCEPT ![s][t] = reader[s].value]
  /\ gap' = IF reader[s].passed THEN [gap EXCEPT ![s] = @ \cup {t}] ELSE gap
  /\ reader' = [reader EXCEPT ![s] = IdleReader]
  /\ pusher' = [pusher EXCEPT ![s] = Passed(@, t)]
  /\ UNCHANGED <<dbVars, brokerVars, open, channel, last, fetch, requests, faults>>

\* EventInboxController.ack: the items shown are marked read on the spot, and
\* the list of this moment is kept for the answer.
Ack(s, t) ==
  /\ s \in open /\ reader[s].pc = "idle"
  /\ t \in Acked /\ view[s][t] \notin {Nothing, Empty}
  /\ requests < MaxRequests
  /\ requests' = requests + 1
  /\ reader' = [reader EXCEPT ![s] = [IdleReader EXCEPT !.pc = "ack", !.topic = t,
                                                       !.base = view[s][t]]]
  /\ view' = [view EXCEPT ![s][t] = Own]
  /\ UNCHANGED <<dbVars, brokerVars, open, channel, pushVars, fetch, faults, gap>>

\* _mergeAcked: the items of the answer replace those of the kept list.  They are
\* as they were before the update, which the select beside it cannot see.
Merged(s) == IF reader[s].base = db[reader[s].topic] THEN reader[s].base ELSE Own

\* AckInbox for events.ack: the items are marked in a statement of its own ...
AckInbox(s) ==
  LET t == reader[s].topic IN
  /\ reader[s].pc = "ack"
  /\ changes' = changes + 1
  /\ db' = [db EXCEPT ![t] = changes + 1]
  /\ reader' = [reader EXCEPT ![s].pc = "notify", ![s].value = Merged(s),
                                     ![s].base = Nothing]
  /\ UNCHANGED <<writer, brokerVars, open, channel, pushVars, fetch, view, requests, faults, gap>>

\* ... which is then announced, best effort, before the reply.
AckAnnounced(s) ==
  /\ reader[s].pc = "notify"
  /\ Publish({reader[s].topic})
  /\ reader' = [reader EXCEPT ![s].pc = "reply"]
  /\ UNCHANGED <<dbVars, listening, broker, open, channel, pushVars, fetch, view, requests, faults>>

\* The error of that statement is dropped.
AckUnannounced(s) ==
  /\ reader[s].pc = "notify" /\ faults < MaxFaults
  /\ faults' = faults + 1
  /\ gap' = Missed({reader[s].topic})
  /\ reader' = [reader EXCEPT ![s].pc = "reply"]
  /\ UNCHANGED <<dbVars, brokerVars, open, channel, pushVars, fetch, view, requests>>

\* An error: the list of before is shown again.
AckFails(s) ==
  LET t == reader[s].topic IN
  /\ reader[s].pc = "ack" /\ faults < MaxFaults
  /\ faults' = faults + 1
  /\ view' = [view EXCEPT ![s][t] = reader[s].base]
  /\ gap' = IF reader[s].passed THEN [gap EXCEPT ![s] = @ \cup {t}] ELSE gap
  /\ reader' = [reader EXCEPT ![s] = IdleReader]
  /\ pusher' = [pusher EXCEPT ![s] = Passed(@, t)]
  /\ UNCHANGED <<dbVars, brokerVars, open, channel, last, fetch, requests>>

\* Seeded fault: a subscriber leaves in the middle of the merge of its channel.
WithoutMidway(s) == [broker EXCEPT !.targets = @ \ {s}, !.session = NoSession]

\* The broker forgets a subscriber (unsubscribe).
Without(s) ==
  IF broker.pc \in {"take", "putBack"} /\ broker.session = s THEN Forward(s)
  ELSE IF broker.targets = {s} THEN IdleBroker
  ELSE [broker EXCEPT !.targets = @ \ {s}]

\* WebSocket returns: a read failed, or a write after the connection broke.  A
\* message that is being handled is handled to its end first.
Disconnect(s) ==
  /\ s \in open /\ reader[s].pc \notin {"ack", "notify"}
  /\ open' = open \ {s}
  /\ broker' = Without(s)
  /\ channel' = [channel EXCEPT ![s] = {}]
  /\ pusher' = [pusher EXCEPT ![s] = IdlePusher]
  /\ reader' = [reader EXCEPT ![s] = IdleReader]
  /\ fetch' = [fetch EXCEPT ![s] = {}]
  /\ gap' = [gap EXCEPT ![s] = {}]
  /\ last' = [last EXCEPT ![s] = [t \in Topics |-> Nothing]]
  /\ UNCHANGED <<dbVars, listening, wire, view, requests>>

ClientLeaves(s) ==
  /\ faults < MaxFaults
  /\ faults' = faults + 1
  /\ Disconnect(s)

ReplyFails(s) ==
  /\ reader[s].pc = "reply" /\ pusher[s].pc = "dead"
  /\ Disconnect(s)
  /\ UNCHANGED faults

BrokerStep ==
  Receive \/ (\E s \in Sessions : TryPut(s)) \/ TakePending \/ PutBack

PusherStep(s) == PushReceive(s) \/ PushRead(s) \/ PushWrite(s)

ReaderStep(s) ==
  \/ \E t \in Topics : Fetch(s, t)
  \/ AckInbox(s) \/ AckAnnounced(s) \/ Reply(s) \/ ReplyFails(s)

Next ==
  \/ WriteTx \/ UnannouncedWrite
  \/ \E w \in Writers : Write(w) \/ notifyRealtimeBestEffort(w) \/ NotifyFails(w)
  \/ BrokerStep \/ ListenerFails \/ ListenerReconnects
  \/ \E s \in Sessions :
       \/ PusherStep(s) \/ PushReadFails(s) \/ PushWriteFails(s)
       \/ Connect(s) \/ ReaderStep(s) \/ ClientLeaves(s)
       \/ AckUnannounced(s) \/ AckFails(s)
       \/ \E t \in Topics : Request(s, t) \/ Ack(s, t) \/ FetchFails(s, t)

Spec == Init /\ [][Next]_vars

\* Goroutines that can run do; the handler that committed goes on to announce;
\* a new connection's fetches are sent.
FairSpec ==
  /\ Spec
  /\ WF_vars(BrokerStep) /\ WF_vars(ListenerReconnects)
  /\ \A w \in Writers : WF_vars(notifyRealtimeBestEffort(w))
  /\ \A s \in Sessions : WF_vars(PusherStep(s)) /\ WF_vars(ReaderStep(s))

-----------------------------------------------------------------------------
(* Properties *)

\* Where an announced topic waits until the pusher of s reads it.
Coming(s) ==
  IF s \notin open THEN {} ELSE
    (UNION ({writer[w] : w \in Writers} \cup {wire[i] : i \in DOMAIN wire}))
    \cup {reader[r].topic : r \in {q \in open : reader[q].pc = "notify"}}
    \cup (IF s \in broker.targets THEN broker.topics ELSE {})
    \cup (IF broker.pc = "putBack" /\ broker.session = s THEN broker.merged ELSE {})
    \cup channel[s] \cup pusher[s].todo

Writing(s, t) == pusher[s].pc = "write" /\ pusher[s].topic = t
Replying(s, t) == reader[s].pc \in {"notify", "reply"} /\ reader[s].topic = t
Acknowledging(s, t) == reader[s].pc = "ack" /\ reader[s].topic = t

\* A client that shows an old content of a topic is about to get the new one -
\* the topic is announced and not read yet, or its content is being written or
\* fetched - or one of the few things happened that may leave it behind: an
\* announcement or a read was lost, a push and a reply passed each other, the
\* content is again what was pushed before, or the pusher is dead.  Neither the
\* merging of notifications nor a new connection ever loses an update, and what
\* an acknowledgement made of the list is corrected by the push it announces.
StaleForAReason ==
  \A s \in open, t \in Topics :
    \/ view[s][t] = db[t]
    \/ t \in Coming(s) \cup fetch[s] \cup gap[s]
    \/ Writing(s, t) /\ pusher[s].value = db[t]
    \/ Replying(s, t) /\ reader[s].value = db[t]
    \/ Acknowledging(s, t)
    \/ pusher[s].pc = "dead"

\* When nothing changes any more, every client with a pusher ends up showing
\* the database, save where one of those things happened.
Converges ==
  <>[](\A s \in open, t \in Topics :
         view[s][t] = db[t] \/ t \in gap[s] \/ pusher[s].pc = "dead")

\* Channels of one element, merged by three selects without a lock, are as
\* good as a set of topics per subscriber.
Feed == INSTANCE TopicFeed WITH
  content <- db, connected <- listening, losses <- faults,
  healthy <- {s \in open : pusher[s].pc # "dead"},
  dirty <- [s \in Sessions |-> Coming(s)],
  taken <- [s \in Sessions |-> [t \in Topics |->
              IF Writing(s, t) THEN pusher[s].value ELSE last[s][t]]]

ImplementsTopicFeed == Feed!FSpec
=============================================================================
