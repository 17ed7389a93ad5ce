-------------------------- MODULE Realtime_proofs --------------------------
(***************************************************************************)
(* Proofs about Realtime, for any topics, writers and sessions: types, that *)
(* a client that shows an old content has a reason to, and that the        *)
(* one-element channels of the broker implement a set of topics per        *)
(* subscriber (TopicFeed).                                                 *)
(***************************************************************************)
EXTENDS Realtime, FiniteSetTheorems, SequenceTheorems, WellFoundedInduction, TLAPS

-----------------------------------------------------------------------------
(* The inductive invariants *)

\* The broker serves subscribers only, and between the second and the third
\* select the channel it emptied stays empty: nobody else puts.
BrokerOK ==
  /\ broker.pc = "idle" => broker.targets = {}
  /\ broker.pc # "idle" => broker.topics # {}
  /\ broker.targets \subseteq open
  /\ broker.pc \in {"take", "putBack"} => broker.session \in broker.targets
  /\ broker.pc = "putBack" =>
       channel[broker.session] = {} /\ broker.topics \subseteq broker.merged

\* A pusher that reads has a topic left; the one it writes is not left.
PusherOK(p) ==
  /\ p.pc \in {"wait", "dead"} => p.todo = {}
  /\ p.pc = "read" => p.todo # {}
  /\ p.pc = "write" => p.topic \in Topics \ p.todo

\* A request is of an open session; an acknowledgement has no answer yet.
ReaderOK(s, r) ==
  /\ r.pc # "idle" => s \in open /\ r.topic \in Topics
  /\ r.pc = "ack" => r.value = Nothing

Shape ==
  /\ TypeOK
  /\ BrokerOK
  /\ \A i \in DOMAIN wire : wire[i] # {}
  /\ \A s \in Sessions : PusherOK(pusher[s]) /\ ReaderOK(s, reader[s])

\* Topic t of session s will be read, is known to be missed, or nobody pushes.
Owed(s, t) == t \in Coming(s) \cup gap[s] \/ pusher[s].pc = "dead"

BeingWritten(s, t) == Writing(s, t) /\ pusher[s].value = db[t]
BeingReplied(s, t) == Replying(s, t) /\ reader[s].value = db[t]

\* Of what a client shows, of what is being written to it, of the answer it is
\* sent and of the list an acknowledgement keeps: it is the current content, or
\* that is still to come.
ViewOK(s, t) ==
  \/ view[s][t] = db[t] \/ t \in fetch[s] \/ Owed(s, t)
  \/ BeingWritten(s, t) \/ BeingReplied(s, t) \/ Acknowledging(s, t)
PushOK(s, t) == Writing(s, t) =>
  pusher[s].value = db[t] \/ pusher[s].passed \/ Owed(s, t) \/ BeingReplied(s, t)
ReplyOK(s, t) == Replying(s, t) =>
  reader[s].value = db[t] \/ reader[s].passed \/ Owed(s, t) \/ BeingWritten(s, t)
AckOK(s, t) == Acknowledging(s, t) =>
  \/ reader[s].base = db[t] \/ reader[s].passed \/ t \in fetch[s]
  \/ Owed(s, t) \/ BeingWritten(s, t)

ReasonsAt(s, t) == ViewOK(s, t) /\ PushOK(s, t) /\ ReplyOK(s, t) /\ AckOK(s, t)

Reasons == \A s \in open, t \in Topics : ReasonsAt(s, t)

-----------------------------------------------------------------------------
(* Announcements on their way *)

\* Where an announcement waits that the broker has not received, and what the
\* broker and the pusher hold for a session.
OnWire(t) == \E i \in DOMAIN wire : t \in wire[i]

Announced(t) ==
  \/ \E w \in Writers : t \in writer[w]
  \/ OnWire(t)
  \/ \E r \in open : reader[r].pc = "notify" /\ reader[r].topic = t

Held(s, t) ==
  \/ s \in broker.targets /\ t \in broker.topics
  \/ broker.pc = "putBack" /\ broker.session = s /\ t \in broker.merged
  \/ t \in channel[s] \/ t \in pusher[s].todo

LEMMA ComingIs ==
  ASSUME NEW s, NEW t
  PROVE  t \in Coming(s) <=> s \in open /\ (Announced(t) \/ Held(s, t))
BY DEF Coming, Announced, OnWire, Held

LEMMA ComingIsAfter ==
  ASSUME NEW s, NEW t
  PROVE  t \in Coming(s)' <=> s \in open' /\ (Announced(t)' \/ Held(s, t)')
BY DEF Coming, Announced, OnWire, Held

\* What Shape says, in the form the provers use.
LEMMA Facts ==
  ASSUME Shape
  PROVE  /\ db \in [Topics -> Nat] /\ changes \in Nat /\ faults \in Nat /\ requests \in Nat
         /\ writer \in [Writers -> SUBSET Topics] /\ listening \in BOOLEAN
         /\ wire \in Seq(SUBSET Topics) /\ \A i \in DOMAIN wire : wire[i] # {}
         /\ broker \in BrokerState /\ BrokerOK
         /\ open \subseteq Sessions
         /\ channel \in [Sessions -> SUBSET Topics] /\ gap \in [Sessions -> SUBSET Topics]
         /\ fetch \in [Sessions -> SUBSET Topics]
         /\ pusher \in [Sessions -> PusherState] /\ \A s \in Sessions : PusherOK(pusher[s])
         /\ reader \in [Sessions -> ReaderState] /\ \A s \in Sessions : ReaderOK(s, reader[s])
         /\ last \in [Sessions -> [Topics -> Shown]] /\ view \in [Sessions -> [Topics -> Shown]]
BY DEF Shape, TypeOK, Contents

LEMMA Initial ==
  /\ IdleBroker \in BrokerState /\ IdleBroker.pc = "idle" /\ IdleBroker.targets = {}
  /\ IdlePusher \in PusherState /\ PusherOK(IdlePusher) /\ IdlePusher.pc = "wait"
  /\ IdlePusher.todo = {}
  /\ IdleReader \in ReaderState /\ IdleReader.pc = "idle"
  /\ \A s : ReaderOK(s, IdleReader)
BY DEF IdleBroker, BrokerState, IdlePusher, PusherState, PusherOK, IdleReader, ReaderState,
   ReaderOK, Shown, Contents, Nothing

LEMMA ShapeInit == Init => Shape
<1> SUFFICES ASSUME Init PROVE Shape
  OBVIOUS
<1>1. TypeOK
  BY Initial DEF Init, TypeOK, Contents, Empty, Shown, Nothing
<1>2. BrokerOK
  BY Initial DEF Init, BrokerOK
<1>3. \A s \in Sessions : PusherOK(pusher[s]) /\ ReaderOK(s, reader[s])
  BY Initial DEF Init
<1>4. \A i \in DOMAIN wire : wire[i] # {}
  BY DEF Init
<1> QED BY <1>1, <1>2, <1>3, <1>4 DEF Shape

\* Missed adds its topics for the subscribers.
LEMMA MissedIs ==
  ASSUME Shape, NEW S, S \subseteq Topics, gap' = Missed(S)
  PROVE  /\ gap' \in [Sessions -> SUBSET Topics]
         /\ \A s \in open : gap'[s] = gap[s] \cup S
         /\ \A s \in Sessions : gap[s] \subseteq gap'[s]
BY Facts DEF Missed

\* An announcement is on the wire, or known to be missed by every subscriber.
LEMMA PublishIs ==
  ASSUME Shape, NEW S, S \subseteq Topics, S # {}, Publish(S)
  PROVE  /\ wire' \in Seq(SUBSET Topics) /\ \A i \in DOMAIN wire' : wire'[i] # {}
         /\ gap' \in [Sessions -> SUBSET Topics]
         /\ listening => gap' = gap /\ \A t : OnWire(t)' <=> OnWire(t) \/ t \in S
         /\ ~listening => /\ \A t : OnWire(t)' <=> OnWire(t)
                          /\ \A s \in open : gap'[s] = gap[s] \cup S
<1>0. wire \in Seq(SUBSET Topics) /\ S \in SUBSET Topics /\ \A i \in DOMAIN wire : wire[i] # {}
  BY Facts
<1>1. CASE listening
  <2>1. wire' = Append(wire, S) /\ gap' = gap
    BY <1>1 DEF Publish
  <2>2. /\ wire' \in Seq(SUBSET Topics) /\ Len(wire') = Len(wire) + 1 /\ Len(wire) \in Nat
        /\ \A i \in 1..Len(wire) : wire'[i] = wire[i]
        /\ wire'[Len(wire) + 1] = S
    BY <1>0, <2>1, AppendProperties, LenProperties
  <2>3. DOMAIN wire = 1..Len(wire) /\ DOMAIN wire' = 1..(Len(wire) + 1)
    BY <1>0, <2>2, LenProperties
  <2>4. DOMAIN wire' = DOMAIN wire \cup {Len(wire) + 1}
    BY <2>2, <2>3
  <2>5. \A t : OnWire(t)' <=> OnWire(t) \/ t \in S
    BY <2>2, <2>3, <2>4 DEF OnWire
  <2>6. \A i \in DOMAIN wire' : wire'[i] # {}
    BY <1>0, <2>2, <2>3, <2>4
  <2> QED BY <1>1, <2>1, <2>2, <2>5, <2>6, Facts
<1>2. CASE ~listening
  BY <1>0, <1>2, MissedIs DEF Publish, OnWire
<1> QED BY <1>1, <1>2

\* What a commit changes is among the topics it is about.
LEMMA CommitIs ==
  ASSUME Shape, NEW S, Commit(S)
  PROVE  /\ db' \in [Topics -> Nat] /\ changes' \in Nat
         /\ \A t \in Topics : db'[t] # db[t] => t \in S
<1>1. PICK emptied \in SUBSET {t \in S \cap Lists : db[t] # Empty} :
        db' = [t \in Topics |-> IF t \in emptied THEN Empty
                                ELSE IF t \in S THEN changes + 1 ELSE db[t]]
  BY DEF Commit
<1> QED BY <1>1, Facts DEF Commit, Empty

-----------------------------------------------------------------------------
(* The abstract steps, in terms of the concrete state *)

\* The content of the last read of t for s, as Feed's refinement mapping has it.
TakenOf(s, t) == IF Writing(s, t) THEN pusher[s].value ELSE last[s][t]

Taken == [s \in Sessions |-> [t \in Topics |-> TakenOf(s, t)]]
Dirty == [s \in Sessions |-> Coming(s)]
Healthy == {s \in open : pusher[s].pc # "dead"}

\* Nothing the pushers have read or whether they live changes.
SamePushes ==
  /\ UNCHANGED open
  /\ \A s \in Sessions : /\ pusher'[s].pc = "dead" <=> pusher[s].pc = "dead"
                         /\ \A t \in Topics : TakenOf(s, t)' = TakenOf(s, t)

LEMMA SameTaken ==
  ASSUME SamePushes, open \subseteq Sessions
  PROVE  Taken' = Taken /\ Healthy' = Healthy
<1>1. Taken' = Taken
  BY DEF SamePushes, Taken
<1>2. Healthy' = Healthy
  BY DEF SamePushes, Healthy
<1> QED BY <1>1, <1>2

LEMMA DirtyIs == ASSUME NEW s \in Sessions PROVE Dirty[s] = Coming(s)
BY DEF Dirty

LEMMA DirtyIsAfter == ASSUME NEW s \in Sessions PROVE Dirty'[s] = Coming(s)'
BY DEF Dirty

\* A stutter of the abstract specification.
LEMMA FeedStutter ==
  ASSUME open \subseteq Sessions, SamePushes, UNCHANGED <<db, listening, faults>>,
         \A s \in Sessions : Coming(s)' = Coming(s)
  PROVE  UNCHANGED Feed!vars
<1>1. Dirty' = Dirty
  BY DEF Dirty
<1>2. Taken' = Taken /\ Healthy' = Healthy
  BY SameTaken
<1> QED BY <1>1, <1>2 DEF Feed!vars, Dirty, Taken, TakenOf, Healthy, SamePushes

LEMMA FeedChange ==
  ASSUME open \subseteq Sessions, SamePushes, UNCHANGED <<listening, faults>>,
         NEW A, A \subseteq Topics,
         \A s \in Sessions : Coming(s)' = IF s \in open THEN Coming(s) \cup A ELSE Coming(s),
         listening => \A t \in Topics : db'[t] # db[t] => t \in A \cup Silent
  PROVE  Feed!FNext
<1>1. Dirty' = [s \in Sessions |-> IF s \in open THEN Dirty[s] \cup A ELSE Dirty[s]]
  BY DEF Dirty
<1>2. Taken' = Taken /\ Healthy' = Healthy
  BY SameTaken
<1>3. Feed!Change
  BY <1>1, <1>2 DEF Feed!Change, Dirty, Taken, TakenOf, Healthy, SamePushes
<1> QED BY <1>3 DEF Feed!FNext

LEMMA FeedLose ==
  ASSUME open \subseteq Sessions, SamePushes, UNCHANGED db,
         faults' = faults + 1 \/ (listening = FALSE /\ faults' = faults),
         listening' = TRUE => listening = TRUE,
         \A s \in Sessions : Coming(s)' \subseteq Coming(s)
  PROVE  Feed!FNext
<1>1. \A s \in Sessions : Dirty'[s] \subseteq Dirty[s]
  BY DEF Dirty
<1>2. Taken' = Taken /\ Healthy' = Healthy
  BY SameTaken
<1>3. Feed!Lose
  BY <1>1, <1>2 DEF Feed!Lose, Dirty, Taken, TakenOf, Healthy, SamePushes
<1> QED BY <1>3 DEF Feed!FNext

LEMMA FeedTake ==
  ASSUME open \subseteq Sessions, UNCHANGED <<open, db, listening, faults>>,
         Healthy' = Healthy, NEW s \in Healthy, NEW t \in Topics, t \in Coming(s),
         \A r \in Sessions, u \in Topics :
            TakenOf(r, u)' = IF r = s /\ u = t THEN db[t] ELSE TakenOf(r, u),
         \A r \in Sessions : r # s => Coming(r)' = Coming(r),
         Coming(s)' = Coming(s) \/ Coming(s)' = Coming(s) \ {t}
  PROVE  Feed!FNext
<1>0. s \in Sessions
  BY DEF Healthy
<1>1. Taken' = [Taken EXCEPT ![s][t] = db[t]]
  BY <1>0 DEF Taken
<1>2. Dirty' \in {Dirty, [Dirty EXCEPT ![s] = @ \ {t}]} /\ t \in Dirty[s]
  BY <1>0 DEF Dirty
<1>3. Feed!Take(s, t)
  BY <1>1, <1>2 DEF Feed!Take, Dirty, Taken, TakenOf, Healthy
<1> QED BY <1>0, <1>3 DEF Feed!FNext

LEMMA FeedMembership ==
  ASSUME open \subseteq Sessions, UNCHANGED <<db, listening>>,
         \A s \in open \cap Healthy' :
            /\ s \in Healthy /\ Coming(s)' = Coming(s)
            /\ \A t \in Topics : TakenOf(s, t)' = TakenOf(s, t)
  PROVE  Feed!FNext
<1>1. \A s \in open \cap Healthy' :
        s \in Healthy /\ Dirty'[s] = Dirty[s] /\ Taken'[s] = Taken[s]
  BY DEF Dirty, Taken
<1>2. Healthy' \subseteq open'
  BY DEF Healthy
<1>3. Feed!Membership
  BY <1>1, <1>2 DEF Feed!Membership, Dirty, Taken, TakenOf, Healthy
<1> QED BY <1>3 DEF Feed!FNext

LEMMA FeedInit == Init => Feed!FInit
<1> SUFFICES ASSUME Init PROVE Feed!FInit
  OBVIOUS
<1>1. \A s \in Sessions : Coming(s) = {}
  BY DEF Init, Coming
<1> QED BY <1>1 DEF Init, Feed!FInit

-----------------------------------------------------------------------------
(* Steps that no session takes *)

\* Where no session moves, an owed topic stays owed and a changed one is.
LEMMA ReasonsKept ==
  ASSUME Reasons, UNCHANGED <<open, pusher, clientVars>>,
         \A s \in open, t \in Topics :
            /\ t \in Coming(s) \cup gap[s] => t \in Coming(s)' \cup gap'[s]
            /\ db'[t] # db[t] => t \in Coming(s)' \cup gap'[s]
  PROVE  Reasons'
<1> SUFFICES ASSUME NEW s \in open, NEW t \in Topics PROVE ReasonsAt(s, t)'
  BY DEF Reasons
<1>1. UNCHANGED <<reader, fetch, view>>
  BY DEF clientVars
<1>2. ReasonsAt(s, t)
  BY DEF Reasons
<1>3. Owed(s, t) => Owed(s, t)'
  BY DEF Owed
<1>4. db'[t] # db[t] => Owed(s, t)'
  BY DEF Owed
<1> QED BY <1>1, <1>2, <1>3, <1>4 DEF ReasonsAt, ViewOK, PushOK, ReplyOK, AckOK, BeingWritten,
       BeingReplied, Writing, Replying, Acknowledging

\* Commits, announcements and the listener's connection: what moves is of the
\* right type, and nothing else moves.
Outside == UNCHANGED <<broker, open, channel, pushVars, clientVars>>

LEMMA ShapeOutside ==
  ASSUME Shape, Outside, db' \in [Topics -> Nat], changes' \in Nat,
         writer' \in [Writers -> SUBSET Topics], listening' \in BOOLEAN,
         wire' \in Seq(SUBSET Topics), \A i \in DOMAIN wire' : wire'[i] # {},
         gap' \in [Sessions -> SUBSET Topics], faults' \in Nat
  PROVE  Shape'
<1>1. UNCHANGED <<broker, open, channel, pusher, last, reader, fetch, view, requests>>
  BY DEF Outside, pushVars, clientVars
<1> QED BY <1>1 DEF Shape, TypeOK, BrokerOK, ReaderOK, Contents

LEMMA SamePushesOutside == ASSUME Outside PROVE SamePushes
BY DEF Outside, SamePushes, pushVars, TakenOf, Writing

\* What comes to each session changes by what is announced.
LEMMA ComingOutside ==
  ASSUME Outside, NEW s, NEW t
  PROVE  t \in Coming(s)' <=> s \in open /\ (Announced(t)' \/ (t \in Coming(s) /\ Held(s, t)))
<1>1. open' = open /\ (Held(s, t)' <=> Held(s, t))
  BY DEF Outside, pushVars, Held
<1> QED BY <1>1, ComingIs, ComingIsAfter

LEMMA AnnouncedOutside ==
  ASSUME Outside, NEW t
  PROVE  Announced(t)' <=> \/ \E w \in Writers : t \in writer'[w]
                           \/ OnWire(t)'
                           \/ \E r \in open : reader[r].pc = "notify" /\ reader[r].topic = t
BY DEF Announced, Outside, clientVars

\* The transaction that announces what it changes.
LEMMA WriteTxStep ==
  ASSUME Shape, WriteTx
  PROVE  Shape' /\ Feed!FNext /\ (Reasons => Reasons')
<1>1. PICK N \in Notices : \E S \in SUBSET N \ {{}} : Commit(S) /\ Publish(N)
  BY DEF WriteTx
<1>2. N \subseteq Topics /\ N # {} /\ Outside /\ UNCHANGED <<writer, listening, faults>>
  BY RealtimeAssumption DEF WriteTx, Outside
<1>3. db' \in [Topics -> Nat] /\ changes' \in Nat /\ \A t \in Topics : db'[t] # db[t] => t \in N
  BY <1>1, CommitIs
<1>4. /\ wire' \in Seq(SUBSET Topics) /\ \A i \in DOMAIN wire' : wire'[i] # {}
      /\ gap' \in [Sessions -> SUBSET Topics]
      /\ listening => gap' = gap /\ \A t : OnWire(t)' <=> OnWire(t) \/ t \in N
      /\ ~listening => /\ \A t : OnWire(t)' <=> OnWire(t)
                       /\ \A s \in open : gap'[s] = gap[s] \cup N
  BY <1>1, <1>2, PublishIs
<1>5. Shape'
  BY <1>2, <1>3, <1>4, ShapeOutside, Facts
<1> DEFINE A == IF listening THEN N ELSE {}
<1>6. \A t : Announced(t)' <=> Announced(t) \/ t \in A
  BY <1>2, <1>4, AnnouncedOutside DEF Announced
<1>7. ASSUME NEW s \in Sessions
      PROVE  Coming(s)' = IF s \in open THEN Coming(s) \cup A ELSE Coming(s)
  <2>1. \A t : t \in Coming(s)' <=> t \in Coming(s) \/ (s \in open /\ t \in A)
    BY <1>2, <1>6, ComingOutside, ComingIs
  <2> QED BY <2>1
<1>8. Feed!FNext
  BY <1>2, <1>3, <1>7, FeedChange, SamePushesOutside, Facts
<1>9. ASSUME Reasons PROVE Reasons'
  <2>1. ASSUME NEW s \in open, NEW t \in Topics
        PROVE  /\ t \in Coming(s) \cup gap[s] => t \in Coming(s)' \cup gap'[s]
               /\ db'[t] # db[t] => t \in Coming(s)' \cup gap'[s]
    BY <1>3, <1>4, <1>7, Facts
  <2> QED BY <1>2, <1>9, <2>1, ReasonsKept DEF Outside, pushVars
<1> QED BY <1>5, <1>8, <1>9

\* A commit whose announcement is a statement of its own.
LEMMA WriteStep ==
  ASSUME Shape, NEW w \in Writers, Write(w)
  PROVE  Shape' /\ Feed!FNext /\ (Reasons => Reasons')
<1>1. PICK N \in Notices : \E S \in SUBSET N \ {{}} : Commit(S) /\ writer' = [writer EXCEPT ![w] = N]
  BY DEF Write
<1>2. N \subseteq Topics /\ Outside /\ UNCHANGED <<listening, wire, faults, gap>> /\ writer[w] = {}
  BY RealtimeAssumption DEF Write, Outside, brokerVars
<1>3. db' \in [Topics -> Nat] /\ changes' \in Nat /\ \A t \in Topics : db'[t] # db[t] => t \in N
  BY <1>1, CommitIs
<1>4. Shape'
  BY <1>1, <1>2, <1>3, ShapeOutside, Facts
<1>5. \A t : Announced(t)' <=> Announced(t) \/ t \in N
  <2>1. \A v \in Writers : writer'[v] = IF v = w THEN N ELSE writer[v]
    BY <1>1, Facts
  <2>2. \A t : OnWire(t)' <=> OnWire(t)
    BY <1>2 DEF OnWire
  <2> QED BY <1>2, <2>1, <2>2, AnnouncedOutside DEF Announced
<1>6. ASSUME NEW s \in Sessions
      PROVE  Coming(s)' = IF s \in open THEN Coming(s) \cup N ELSE Coming(s)
  <2>1. \A t : t \in Coming(s)' <=> t \in Coming(s) \/ (s \in open /\ t \in N)
    BY <1>2, <1>5, ComingOutside, ComingIs
  <2> QED BY <2>1
<1>7. Feed!FNext
  BY <1>2, <1>3, <1>6, FeedChange, SamePushesOutside, Facts
<1>8. ASSUME Reasons PROVE Reasons'
  BY <1>2, <1>3, <1>6, <1>8, ReasonsKept, Facts DEF Outside, pushVars
<1> QED BY <1>4, <1>7, <1>8

\* The announcement itself: from the writer onto the wire, or lost while nobody
\* listens.
LEMMA NotifyStep ==
  ASSUME Shape, NEW w \in Writers, notifyRealtimeBestEffort(w)
  PROVE  Shape' /\ [Feed!FNext]_(Feed!vars) /\ (Reasons => Reasons')
<1>1. PICK N : N = writer[w]
  OBVIOUS
<1>2. /\ N \subseteq Topics /\ N # {} /\ Outside /\ UNCHANGED <<db, changes, listening, faults>>
      /\ writer' = [writer EXCEPT ![w] = {}] /\ Publish(N)
  BY <1>1, Facts DEF notifyRealtimeBestEffort, Outside
<1>3. /\ wire' \in Seq(SUBSET Topics) /\ \A i \in DOMAIN wire' : wire'[i] # {}
      /\ gap' \in [Sessions -> SUBSET Topics]
      /\ listening => gap' = gap /\ \A t : OnWire(t)' <=> OnWire(t) \/ t \in N
      /\ ~listening => /\ \A t : OnWire(t)' <=> OnWire(t)
                       /\ \A s \in open : gap'[s] = gap[s] \cup N
  BY <1>2, PublishIs
<1>4. \A v \in Writers : writer'[v] = IF v = w THEN {} ELSE writer[v]
  BY <1>2, Facts
<1>5. Shape'
  BY <1>2, <1>3, ShapeOutside, Facts
<1>6. /\ \A t : Announced(t)' => Announced(t)
      /\ \A t : Announced(t) => Announced(t)' \/ (~listening /\ t \in N)
  BY <1>1, <1>2, <1>3, <1>4, AnnouncedOutside DEF Announced
<1>7. ASSUME NEW s \in Sessions
      PROVE  /\ Coming(s)' \subseteq Coming(s)
             /\ \A t \in Coming(s) : t \in Coming(s)' \/ (~listening /\ t \in N)
             /\ listening => Coming(s)' = Coming(s)
  <2>1. /\ \A t : t \in Coming(s)' => t \in Coming(s)
        /\ \A t : t \in Coming(s) => t \in Coming(s)' \/ (~listening /\ t \in N)
    BY <1>2, <1>6, ComingOutside, ComingIs
  <2> QED BY <2>1
<1>8. ASSUME listening PROVE UNCHANGED Feed!vars
  BY <1>2, <1>7, <1>8, FeedStutter, SamePushesOutside, Facts
<1>9. ASSUME ~listening PROVE Feed!FNext
  BY <1>2, <1>7, <1>9, FeedLose, SamePushesOutside, Facts
<1>10. ASSUME Reasons PROVE Reasons'
  <2>1. ASSUME NEW s \in open, NEW t \in Topics, t \in Coming(s) \cup gap[s]
        PROVE  t \in Coming(s)' \cup gap'[s]
    BY <1>3, <1>7, <2>1, Facts
  <2> QED BY <1>2, <1>10, <2>1, ReasonsKept DEF Outside, pushVars
<1> QED BY <1>5, <1>8, <1>9, <1>10

\* An announcement that is dropped.
LEMMA NotifyFailsStep ==
  ASSUME Shape, NEW w \in Writers, NotifyFails(w)
  PROVE  Shape' /\ Feed!FNext /\ (Reasons => Reasons')
<1>1. PICK N : N = writer[w]
  OBVIOUS
<1>2. /\ N \subseteq Topics /\ Outside /\ UNCHANGED <<db, changes, listening, wire>>
      /\ faults' = faults + 1
      /\ writer' = [writer EXCEPT ![w] = {}] /\ gap' = Missed(N)
  BY <1>1, Facts DEF NotifyFails, Outside, brokerVars
<1>3. gap' \in [Sessions -> SUBSET Topics] /\ \A s \in open : gap'[s] = gap[s] \cup N
  BY <1>2, MissedIs
<1>4. \A v \in Writers : writer'[v] = IF v = w THEN {} ELSE writer[v]
  BY <1>2, Facts
<1>5. Shape'
  BY <1>2, <1>3, ShapeOutside, Facts
<1>6. /\ \A t : Announced(t)' => Announced(t)
      /\ \A t : Announced(t) => Announced(t)' \/ t \in N
  <2>1. \A t : OnWire(t)' <=> OnWire(t)
    BY <1>2 DEF OnWire
  <2> QED BY <1>1, <1>2, <1>4, <2>1, AnnouncedOutside DEF Announced
<1>7. ASSUME NEW s \in Sessions
      PROVE  Coming(s)' \subseteq Coming(s) /\ \A t \in Coming(s) : t \in Coming(s)' \cup N
  <2>1. /\ \A t : t \in Coming(s)' => t \in Coming(s)
        /\ \A t : t \in Coming(s) => t \in Coming(s)' \/ t \in N
    BY <1>2, <1>6, ComingOutside, ComingIs
  <2> QED BY <2>1
<1>8. Feed!FNext
  BY <1>2, <1>7, FeedLose, SamePushesOutside, Facts
<1>9. ASSUME Reasons PROVE Reasons'
  <2>1. ASSUME NEW s \in open, NEW t \in Topics, t \in Coming(s) \cup gap[s]
        PROVE  t \in Coming(s)' \cup gap'[s]
    BY <1>3, <1>7, <2>1, Facts
  <2> QED BY <1>2, <1>9, <2>1, ReasonsKept DEF Outside, pushVars
<1> QED BY <1>5, <1>8, <1>9

\* Steps that leave everything that waits where it is.
LEMMA ComingStays ==
  ASSUME Outside, UNCHANGED <<writer, wire>>, NEW s
  PROVE  Coming(s)' = Coming(s)
BY DEF Outside, pushVars, clientVars, Coming

\* A read that writes.
LEMMA UnannouncedWriteStep ==
  ASSUME Shape, UnannouncedWrite
  PROVE  Shape' /\ Feed!FNext /\ (Reasons => Reasons')
<1>1. PICK u \in Silent : Commit({u}) /\ gap' = Missed({u})
  BY DEF UnannouncedWrite
<1>2. u \in Topics /\ Outside /\ UNCHANGED <<writer, listening, wire, faults>>
  BY RealtimeAssumption DEF UnannouncedWrite, Outside, brokerVars
<1>3. db' \in [Topics -> Nat] /\ changes' \in Nat /\ \A t \in Topics : db'[t] # db[t] => t = u
  BY <1>1, CommitIs
<1>4. gap' \in [Sessions -> SUBSET Topics] /\ \A s \in open : gap'[s] = gap[s] \cup {u}
  BY <1>1, <1>2, MissedIs
<1>5. Shape'
  BY <1>2, <1>3, <1>4, ShapeOutside, Facts
<1>6. \A s \in Sessions : Coming(s)' = Coming(s)
  BY <1>2, ComingStays
<1>7. Feed!FNext
  <2>1. \A s \in Sessions : Coming(s)' = IF s \in open THEN Coming(s) \cup {} ELSE Coming(s)
    BY <1>6
  <2> QED BY <1>2, <1>3, <2>1, FeedChange, SamePushesOutside, Facts
<1>8. ASSUME Reasons PROVE Reasons'
  <2>1. ASSUME NEW s \in open, NEW t \in Topics
        PROVE  /\ t \in Coming(s) \cup gap[s] => t \in Coming(s)' \cup gap'[s]
               /\ db'[t] # db[t] => t \in Coming(s)' \cup gap'[s]
    BY <1>3, <1>4, <1>6, Facts
  <2> QED BY <1>2, <1>8, <2>1, ReasonsKept DEF Outside, pushVars
<1> QED BY <1>5, <1>7, <1>8

\* The LISTEN connection fails and loses what is on it.
LEMMA ListenerFailsStep ==
  ASSUME Shape, ListenerFails
  PROVE  Shape' /\ Feed!FNext /\ (Reasons => Reasons')
<1>1. PICK N : N = UNION {wire[i] : i \in DOMAIN wire}
  OBVIOUS
<1>2. /\ Outside /\ UNCHANGED <<db, changes, writer>> /\ wire' = <<>> /\ listening' = FALSE
      /\ faults' = faults + 1 /\ gap' = Missed(N)
  BY <1>1 DEF ListenerFails, Outside, dbVars
<1>3. N \subseteq Topics /\ \A t : t \in N <=> OnWire(t)
  <2>1. \A i \in DOMAIN wire : wire[i] \subseteq Topics
    BY Facts, LenProperties, ElementOfSeq
  <2> QED BY <1>1, <2>1 DEF OnWire
<1>4. gap' \in [Sessions -> SUBSET Topics] /\ \A s \in open : gap'[s] = gap[s] \cup N
  BY <1>2, <1>3, MissedIs
<1>5. Shape'
  <2>1. wire' \in Seq(SUBSET Topics) /\ \A i \in DOMAIN wire' : wire'[i] # {}
    BY <1>2
  <2>2. /\ db' \in [Topics -> Nat] /\ changes' \in Nat /\ faults' \in Nat
        /\ writer' \in [Writers -> SUBSET Topics]
    BY <1>2, Facts
  <2>3. listening' \in BOOLEAN
    BY <1>2, Zenon
  <2> QED BY <1>2, <1>4, <2>1, <2>2, <2>3, ShapeOutside
<1>6. /\ \A t : Announced(t)' => Announced(t)
      /\ \A t : Announced(t) => Announced(t)' \/ t \in N
  <2>1. \A t : ~OnWire(t)'
    BY <1>2 DEF OnWire
  <2> QED BY <1>2, <1>3, <2>1, AnnouncedOutside DEF Announced
<1>7. ASSUME NEW s \in Sessions
      PROVE  Coming(s)' \subseteq Coming(s) /\ \A t \in Coming(s) : t \in Coming(s)' \cup N
  <2>1. /\ \A t : t \in Coming(s)' => t \in Coming(s)
        /\ \A t : t \in Coming(s) => t \in Coming(s)' \/ t \in N
    BY <1>2, <1>6, ComingOutside, ComingIs
  <2> QED BY <2>1
<1>8. Feed!FNext
  BY <1>2, <1>7, FeedLose, SamePushesOutside, Facts
<1>9. ASSUME Reasons PROVE Reasons'
  <2>1. ASSUME NEW s \in open, NEW t \in Topics, t \in Coming(s) \cup gap[s]
        PROVE  t \in Coming(s)' \cup gap'[s]
    BY <1>4, <1>7, <2>1, Facts
  <2> QED BY <1>2, <1>9, <2>1, ReasonsKept DEF Outside, pushVars
<1> QED BY <1>5, <1>8, <1>9

LEMMA ListenerReconnectsStep ==
  ASSUME Shape, ListenerReconnects
  PROVE  Shape' /\ Feed!FNext /\ (Reasons => Reasons')
<1>1. Outside /\ UNCHANGED <<db, changes, writer, wire, faults, gap>> /\ listening' = TRUE
  BY DEF ListenerReconnects, Outside, dbVars
<1>2. Shape'
  BY <1>1, ShapeOutside, Facts
<1>3. \A s \in Sessions : Coming(s)' = Coming(s)
  BY <1>1, ComingStays
<1>4. Feed!FNext
  <2>1. Dirty' = Dirty
    BY <1>3 DEF Dirty
  <2>2. Taken' = Taken /\ Healthy' = Healthy
    BY <1>1, SameTaken, SamePushesOutside, Facts
  <2>3. Feed!Reconnect
    BY <1>1, <2>1, <2>2 DEF Feed!Reconnect, Dirty, Taken, TakenOf, Healthy, Outside
  <2> QED BY <2>3 DEF Feed!FNext
<1>5. ASSUME Reasons PROVE Reasons'
  <2>1. ASSUME NEW s \in open, NEW t \in Topics
        PROVE  /\ t \in Coming(s) \cup gap[s] => t \in Coming(s)' \cup gap'[s]
               /\ db'[t] # db[t] => t \in Coming(s)' \cup gap'[s]
    BY <1>1, <1>3, Facts
  <2> QED BY <1>1, <1>5, <2>1, ReasonsKept DEF Outside, pushVars
<1> QED BY <1>2, <1>4, <1>5

-----------------------------------------------------------------------------
(* The broker *)

\* The broker moves notifications; nobody reads or commits.
InBroker ==
  UNCHANGED <<db, changes, writer, listening, open, pushVars, clientVars, faults, gap>>

LEMMA ShapeBroker ==
  ASSUME Shape, InBroker, broker' \in BrokerState, BrokerOK',
         wire' \in Seq(SUBSET Topics), \A i \in DOMAIN wire' : wire'[i] # {},
         channel' \in [Sessions -> SUBSET Topics]
  PROVE  Shape'
<1>1. UNCHANGED <<db, changes, writer, listening, open, pusher, last, reader, fetch, view,
                  requests, faults, gap>>
  BY DEF InBroker, pushVars, clientVars
<1>2. broker'.pc \in {"take", "putBack"} => broker'.session \in Sessions /\ broker'.topics # {}
  <2>1. open' \subseteq Sessions
    BY <1>1, Facts
  <2> QED BY <2>1 DEF BrokerOK
<1> QED BY <1>1, <1>2 DEF Shape, TypeOK, ReaderOK, Contents

\* A broker that neither loses a topic on its way to a session nor invents one
\* changes nothing that a session or the abstract specification can see.
LEMMA BrokerKeeps ==
  ASSUME Shape, InBroker,
         \A s \in open : \A t :
            (Announced(t)' \/ Held(s, t)') <=> (Announced(t) \/ Held(s, t))
  PROVE  UNCHANGED Feed!vars /\ (Reasons => Reasons')
<1>1. UNCHANGED <<db, listening, open, pusher, last, clientVars, faults, gap>>
  BY DEF InBroker, pushVars
<1>2. ASSUME NEW s \in Sessions PROVE Coming(s)' = Coming(s)
  <2>1. \A t : t \in Coming(s)' <=> t \in Coming(s)
    BY <1>1, ComingIs, ComingIsAfter
  <2> QED BY <2>1
<1>3. SamePushes
  BY <1>1 DEF SamePushes, TakenOf, Writing
<1>4. UNCHANGED Feed!vars
  BY <1>1, <1>2, <1>3, FeedStutter, Facts
<1>5. ASSUME Reasons PROVE Reasons'
  <2>1. ASSUME NEW s \in open, NEW t \in Topics
        PROVE  /\ t \in Coming(s) \cup gap[s] => t \in Coming(s)' \cup gap'[s]
               /\ db'[t] # db[t] => t \in Coming(s)' \cup gap'[s]
    BY <1>1, <1>2, Facts
  <2> QED BY <1>1, <1>5, <2>1, ReasonsKept
<1> QED BY <1>4, <1>5

\* What is not on the wire is announced or not as before.
LEMMA AnnouncedInBroker ==
  ASSUME InBroker, UNCHANGED wire, NEW t
  PROVE  Announced(t)' <=> Announced(t)
BY DEF InBroker, clientVars, Announced, OnWire

\* The broker goes on to the next subscriber, or waits.
LEMMA ForwardIs ==
  ASSUME Shape, broker.pc # "idle", NEW s \in Sessions
  PROVE  /\ Forward(s) \in BrokerState /\ Forward(s).pc \in {"idle", "put"}
         /\ Forward(s).targets = broker.targets \ {s}
         /\ Forward(s).pc = "idle" => Forward(s).targets = {}
         /\ Forward(s).pc = "put" => Forward(s).topics = broker.topics
         /\ Forward(s).targets # {} => Forward(s).topics = broker.topics
<1>1. CASE broker.targets \subseteq {s}
  BY <1>1, Initial DEF Forward
<1>2. CASE ~ broker.targets \subseteq {s}
  BY <1>2, Facts DEF Forward, BrokerState
<1> QED BY <1>1, <1>2

LEMMA ReceiveStep ==
  ASSUME Shape, Receive
  PROVE  Shape' /\ UNCHANGED Feed!vars /\ (Reasons => Reasons')
<1>1. PICK N : N = Head(wire)
  OBVIOUS
<1>2. /\ InBroker /\ wire # <<>> /\ broker.pc = "idle" /\ wire' = Tail(wire) /\ channel' = channel
      /\ broker' = IF open = {} THEN IdleBroker
                   ELSE [IdleBroker EXCEPT !.pc = "put", !.topics = N, !.targets = open]
  BY <1>1 DEF Receive, InBroker, dbVars
<1>3. /\ wire' \in Seq(SUBSET Topics) /\ N \subseteq Topics /\ Len(wire) \in Nat \ {0}
      /\ Len(wire') = Len(wire) - 1 /\ N = wire[1]
      /\ \A i \in 1..Len(wire') : wire'[i] = wire[i + 1]
  BY <1>1, <1>2, Facts, HeadTailProperties, EmptySeq, LenProperties
<1>4. DOMAIN wire = 1..Len(wire) /\ DOMAIN wire' = 1..Len(wire')
  BY <1>3, Facts, LenProperties
<1>5. \A t : OnWire(t) <=> t \in N \/ OnWire(t)'
  <2>1. ASSUME NEW t, OnWire(t) PROVE t \in N \/ OnWire(t)'
    <3>1. PICK i \in DOMAIN wire : t \in wire[i]
      BY <2>1 DEF OnWire
    <3>2. CASE i = 1
      BY <1>3, <3>1, <3>2
    <3>3. CASE i # 1
      <4>1. i - 1 \in 1..Len(wire') /\ wire'[i - 1] = wire[(i - 1) + 1] /\ (i - 1) + 1 = i
        BY <1>3, <1>4, <3>1, <3>3
      <4> QED BY <1>4, <3>1, <4>1 DEF OnWire
    <3> QED BY <3>2, <3>3
  <2>2. ASSUME NEW t, t \in N PROVE OnWire(t)
    BY <1>3, <1>4, <2>2 DEF OnWire
  <2>3. ASSUME NEW t, OnWire(t)' PROVE OnWire(t)
    <3>1. PICK i \in DOMAIN wire' : t \in wire'[i]
      BY <2>3 DEF OnWire
    <3>2. i + 1 \in DOMAIN wire /\ wire'[i] = wire[i + 1]
      BY <1>3, <1>4, <3>1
    <3> QED BY <3>1, <3>2 DEF OnWire
  <2> QED BY <2>1, <2>2, <2>3
<1>6. N # {} /\ \A i \in DOMAIN wire' : wire'[i] # {}
  <2>1. \A i \in DOMAIN wire : wire[i] # {}
    BY Facts
  <2>2. 1 \in DOMAIN wire /\ \A i \in DOMAIN wire' : i + 1 \in DOMAIN wire
    BY <1>3, <1>4
  <2> QED BY <1>3, <1>4, <2>1, <2>2
<1>7. /\ broker' \in BrokerState /\ broker'.targets = open
      /\ open # {} => broker'.topics = N /\ broker'.pc = "put"
      /\ open = {} => broker'.pc = "idle"
  <2>1. CASE open = {}
    BY <1>2, <2>1, Initial
  <2>2. CASE open # {}
    BY <1>2, <1>3, <2>2, Facts DEF IdleBroker, BrokerState
  <2> QED BY <2>1, <2>2
<1>8. Shape'
  <2>1. BrokerOK'
    BY <1>2, <1>6, <1>7 DEF BrokerOK, InBroker
  <2> QED BY <1>2, <1>3, <1>6, <1>7, <2>1, ShapeBroker, Facts
<1>9. ASSUME NEW s \in open, NEW t
      PROVE  (Announced(t)' \/ Held(s, t)') <=> (Announced(t) \/ Held(s, t))
  <2>1. broker.targets = {}
    BY <1>2, Facts DEF BrokerOK
  <2>2. Held(s, t)' <=> t \in N \/ Held(s, t)
    BY <1>2, <1>7, <2>1 DEF Held, InBroker, pushVars
  <2>3. Announced(t) <=> t \in N \/ Announced(t)'
    BY <1>2, <1>5 DEF Announced, InBroker, clientVars
  <2> QED BY <2>2, <2>3
<1> QED BY <1>2, <1>8, <1>9, BrokerKeeps

LEMMA TryPutStep ==
  ASSUME Shape, NEW s \in Sessions, TryPut(s)
  PROVE  Shape' /\ UNCHANGED Feed!vars /\ (Reasons => Reasons')
<1>1. InBroker /\ UNCHANGED wire /\ broker.pc = "put" /\ s \in broker.targets
  BY DEF TryPut, InBroker, dbVars
<1>2. BrokerOK /\ broker \in BrokerState /\ channel \in [Sessions -> SUBSET Topics]
  BY Facts
<1>3. \/ /\ channel[s] = {} /\ channel' = [channel EXCEPT ![s] = broker.topics]
         /\ broker' = Forward(s)
      \/ /\ broker' = [broker EXCEPT !.pc = "take", !.session = s] /\ channel' = channel
  BY DEF TryPut
<1>4. CASE channel[s] = {} /\ channel' = [channel EXCEPT ![s] = broker.topics] /\ broker' = Forward(s)
  <2>1. /\ broker' \in BrokerState /\ broker'.pc \in {"idle", "put"}
        /\ broker'.targets = broker.targets \ {s}
        /\ broker'.pc = "idle" => broker'.targets = {}
        /\ broker'.pc = "put" => broker'.topics = broker.topics
        /\ broker'.targets # {} => broker'.topics = broker.topics
    BY <1>1, <1>4, ForwardIs
  <2>2. channel' \in [Sessions -> SUBSET Topics]
        /\ \A r \in Sessions : channel'[r] = IF r = s THEN broker.topics ELSE channel[r]
    BY <1>2, <1>4 DEF BrokerState
  <2>3. BrokerOK'
    BY <1>1, <1>2, <2>1 DEF BrokerOK, InBroker
  <2>4. Shape'
    BY <1>1, <2>1, <2>2, <2>3, ShapeBroker, Facts
  <2>5. ASSUME NEW r \in open, NEW t PROVE Held(r, t)' <=> Held(r, t)
    <3>1. r \in Sessions /\ pusher' = pusher
      BY <1>1, Facts DEF InBroker, pushVars
    <3> QED BY <1>1, <1>4, <2>1, <2>2, <3>1 DEF Held
  <2> QED BY <1>1, <2>4, <2>5, BrokerKeeps, AnnouncedInBroker
<1>5. CASE broker' = [broker EXCEPT !.pc = "take", !.session = s] /\ channel' = channel
  <2>1. /\ broker' \in BrokerState /\ broker'.pc = "take" /\ broker'.session = s
        /\ broker'.targets = broker.targets /\ broker'.topics = broker.topics
    BY <1>2, <1>5 DEF BrokerState
  <2>2. BrokerOK'
    BY <1>1, <1>2, <2>1 DEF BrokerOK, InBroker
  <2>3. Shape'
    BY <1>1, <1>5, <2>1, <2>2, ShapeBroker, Facts
  <2>4. \A r \in open : \A t : Held(r, t)' <=> Held(r, t)
    BY <1>1, <1>5, <2>1 DEF Held, InBroker, pushVars
  <2> QED BY <1>1, <2>3, <2>4, BrokerKeeps, AnnouncedInBroker
<1> QED BY <1>3, <1>4, <1>5

LEMMA TakePendingStep ==
  ASSUME Shape, TakePending
  PROVE  Shape' /\ UNCHANGED Feed!vars /\ (Reasons => Reasons')
<1>1. PICK s : s = broker.session
  OBVIOUS
<1>2. /\ InBroker /\ UNCHANGED wire /\ broker.pc = "take"
      /\ channel' = [channel EXCEPT ![s] = {}]
      /\ broker' = [broker EXCEPT !.pc = "putBack", !.merged = broker.topics \cup channel[s]]
  BY <1>1 DEF TakePending, InBroker, dbVars, WithPending
<1>3. /\ BrokerOK /\ broker \in BrokerState /\ channel \in [Sessions -> SUBSET Topics]
      /\ s \in broker.targets /\ s \in Sessions
  BY <1>1, <1>2, Facts DEF BrokerOK
<1>4. /\ broker' \in BrokerState /\ broker'.pc = "putBack" /\ broker'.session = s
      /\ broker'.targets = broker.targets /\ broker'.topics = broker.topics
      /\ broker'.merged = broker.topics \cup channel[s]
  BY <1>1, <1>2, <1>3 DEF BrokerState
<1>5. channel' \in [Sessions -> SUBSET Topics]
      /\ \A r \in Sessions : channel'[r] = IF r = s THEN {} ELSE channel[r]
  BY <1>2, <1>3
<1>6. Shape'
  <2>1. BrokerOK'
    BY <1>2, <1>3, <1>4, <1>5 DEF BrokerOK, InBroker
  <2> QED BY <1>2, <1>4, <1>5, <2>1, ShapeBroker, Facts
<1>7. ASSUME NEW r \in open, NEW t PROVE Held(r, t)' <=> Held(r, t)
  <2>1. r \in Sessions /\ pusher' = pusher
    BY <1>2, Facts DEF InBroker, pushVars
  <2> QED BY <1>2, <1>3, <1>4, <1>5, <2>1 DEF Held
<1> QED BY <1>2, <1>6, <1>7, BrokerKeeps, AnnouncedInBroker

LEMMA PutBackStep ==
  ASSUME Shape, PutBack
  PROVE  Shape' /\ UNCHANGED Feed!vars /\ (Reasons => Reasons')
<1>1. PICK s : s = broker.session
  OBVIOUS
<1>2. /\ InBroker /\ UNCHANGED wire /\ broker.pc = "putBack"
      /\ channel' = IF channel[s] = {} THEN [channel EXCEPT ![s] = broker.merged] ELSE channel
      /\ broker' = Forward(s)
  BY <1>1 DEF PutBack, InBroker, dbVars
<1>3. /\ BrokerOK /\ broker \in BrokerState /\ channel \in [Sessions -> SUBSET Topics]
      /\ s \in broker.targets /\ s \in Sessions /\ channel[s] = {}
      /\ broker.topics \subseteq broker.merged
  BY <1>1, <1>2, Facts DEF BrokerOK
<1>4. /\ broker' \in BrokerState /\ broker'.pc \in {"idle", "put"}
      /\ broker'.targets = broker.targets \ {s}
      /\ broker'.pc = "idle" => broker'.targets = {}
      /\ broker'.pc = "put" => broker'.topics = broker.topics
      /\ broker'.targets # {} => broker'.topics = broker.topics
  BY <1>2, <1>3, ForwardIs
<1>5. channel' \in [Sessions -> SUBSET Topics]
      /\ \A r \in Sessions : channel'[r] = IF r = s THEN broker.merged ELSE channel[r]
  BY <1>2, <1>3 DEF BrokerState
<1>6. Shape'
  <2>1. BrokerOK'
    BY <1>2, <1>3, <1>4 DEF BrokerOK, InBroker
  <2> QED BY <1>2, <1>4, <1>5, <2>1, ShapeBroker, Facts
<1>7. ASSUME NEW r \in open, NEW t PROVE Held(r, t)' <=> Held(r, t)
  <2>1. r \in Sessions /\ pusher' = pusher
    BY <1>2, Facts DEF InBroker, pushVars
  <2> QED BY <1>1, <1>2, <1>3, <1>4, <1>5, <2>1 DEF Held
<1> QED BY <1>2, <1>6, <1>7, BrokerKeeps, AnnouncedInBroker

-----------------------------------------------------------------------------
(* Steps of one session *)

\* Session s moves and neither commits nor announces: the other sessions, the
\* broker and what is announced stay as they are.
Alone(s) ==
  /\ UNCHANGED <<db, changes, writer, listening, wire, broker, open>>
  /\ \A r \in Sessions : r # s =>
       /\ channel'[r] = channel[r] /\ pusher'[r] = pusher[r] /\ last'[r] = last[r]
       /\ reader'[r] = reader[r] /\ fetch'[r] = fetch[r] /\ view'[r] = view[r]
       /\ gap'[r] = gap[r]
  /\ reader'[s].pc = "notify" <=> reader[s].pc = "notify"
  /\ reader[s].pc = "notify" => reader'[s].topic = reader[s].topic

\* What comes to s that the session itself does not hold yet.
Before(s, t) ==
  \/ Announced(t)
  \/ s \in broker.targets /\ t \in broker.topics
  \/ broker.pc = "putBack" /\ broker.session = s /\ t \in broker.merged

LEMMA AloneKeeps ==
  ASSUME Shape, NEW s \in open, Alone(s)
  PROVE  /\ \A t : t \in Coming(s) <=> Before(s, t) \/ t \in channel[s] \/ t \in pusher[s].todo
         /\ \A t : t \in Coming(s)' <=> Before(s, t) \/ t \in channel'[s] \/ t \in pusher'[s].todo
         /\ \A r \in Sessions : r # s => Coming(r)' = Coming(r)
         /\ \A r \in Sessions : r # s => \A t : TakenOf(r, t)' = TakenOf(r, t)
<1>1. UNCHANGED <<writer, wire, broker, open>> /\ open \subseteq Sessions /\ s \in Sessions
  BY Facts DEF Alone
<1>2. ASSUME NEW t PROVE Announced(t)' <=> Announced(t)
  <2>1. OnWire(t)' <=> OnWire(t)
    BY <1>1 DEF OnWire
  <2>2. ASSUME NEW r \in open
        PROVE  (reader'[r].pc = "notify" /\ reader'[r].topic = t)
                 <=> (reader[r].pc = "notify" /\ reader[r].topic = t)
    BY <1>1 DEF Alone
  <2> QED BY <1>1, <2>1, <2>2 DEF Announced
<1>3. ASSUME NEW t
      PROVE  /\ t \in Coming(s) <=> Before(s, t) \/ t \in channel[s] \/ t \in pusher[s].todo
             /\ t \in Coming(s)' <=> Before(s, t) \/ t \in channel'[s] \/ t \in pusher'[s].todo
  BY <1>1, <1>2, ComingIs, ComingIsAfter DEF Held, Before
<1>4. ASSUME NEW r \in Sessions, r # s PROVE Coming(r)' = Coming(r)
  <2>1. channel'[r] = channel[r] /\ pusher'[r] = pusher[r]
    BY <1>4 DEF Alone
  <2>2. \A t : Held(r, t)' <=> Held(r, t)
    BY <1>1, <2>1 DEF Held
  <2>3. \A t : t \in Coming(r)' <=> t \in Coming(r)
    BY <1>1, <1>2, <2>2, ComingIs, ComingIsAfter
  <2> QED BY <2>3
<1>5. ASSUME NEW r \in Sessions, r # s, NEW t PROVE TakenOf(r, t)' = TakenOf(r, t)
  BY <1>5 DEF Alone, TakenOf, Writing
<1> QED BY <1>3, <1>4, <1>5

LEMMA ShapeAlone ==
  ASSUME Shape, NEW s \in open, Alone(s), faults' \in Nat, requests' \in Nat,
         channel' \in [Sessions -> SUBSET Topics], channel'[s] \subseteq channel[s],
         pusher' \in [Sessions -> PusherState], PusherOK(pusher'[s]),
         last' \in [Sessions -> [Topics -> Shown]],
         reader' \in [Sessions -> ReaderState], ReaderOK(s, reader[s])',
         fetch' \in [Sessions -> SUBSET Topics], view' \in [Sessions -> [Topics -> Shown]],
         gap' \in [Sessions -> SUBSET Topics]
  PROVE  Shape'
<1>1. UNCHANGED <<db, changes, writer, listening, wire, broker, open>>
  BY DEF Alone
<1>2. TypeOK'
  BY <1>1 DEF Shape, TypeOK
<1>3. BrokerOK'
  <2>1. BrokerOK /\ open \subseteq Sessions
    BY Facts
  <2>2. \A r \in Sessions : channel'[r] \subseteq channel[r]
    BY DEF Alone
  <2> QED BY <1>1, <2>1, <2>2 DEF BrokerOK
<1>4. ASSUME NEW r \in Sessions PROVE (PusherOK(pusher[r]) /\ ReaderOK(r, reader[r]))'
  <2>1. CASE r = s
    BY <2>1
  <2>2. CASE r # s
    <3>1. pusher'[r] = pusher[r] /\ reader'[r] = reader[r] /\ PusherOK(pusher[r])
          /\ ReaderOK(r, reader[r])
      BY <2>2, Facts DEF Alone
    <3> QED BY <1>1, <3>1 DEF ReaderOK
  <2> QED BY <2>1, <2>2
<1>5. \A i \in DOMAIN wire' : wire'[i] # {}
  BY <1>1, Facts
<1> QED BY <1>2, <1>3, <1>4, <1>5 DEF Shape

LEMMA ReasonsAlone ==
  ASSUME Shape, Reasons, NEW s \in open, Alone(s), \A t \in Topics : ReasonsAt(s, t)'
  PROVE  Reasons'
<1> SUFFICES ASSUME NEW r \in open, NEW t \in Topics, r # s PROVE ReasonsAt(r, t)'
  BY DEF Reasons, Alone
<1>1. r \in Sessions
  BY Facts
<1>2. Coming(r)' = Coming(r)
  BY <1>1, AloneKeeps
<1>3. /\ db' = db /\ pusher'[r] = pusher[r] /\ reader'[r] = reader[r]
      /\ fetch'[r] = fetch[r] /\ view'[r] = view[r] /\ gap'[r] = gap[r]
  BY <1>1 DEF Alone
<1>4. ReasonsAt(r, t)
  BY DEF Reasons
<1> QED BY <1>2, <1>3, <1>4 DEF ReasonsAt, ViewOK, PushOK, ReplyOK, AckOK, Owed, BeingWritten,
       BeingReplied, Writing, Replying, Acknowledging

\* Where s reads nothing and its pusher neither dies nor recovers, nothing
\* happens to the abstract pushes.
LEMMA SamePushesAlone ==
  ASSUME Shape, NEW s \in open, Alone(s),
         pusher'[s].pc = "dead" <=> pusher[s].pc = "dead",
         \A t \in Topics : TakenOf(s, t)' = TakenOf(s, t)
  PROVE  SamePushes
<1>1. UNCHANGED open
  BY DEF Alone
<1>2. ASSUME NEW r \in Sessions
      PROVE  /\ pusher'[r].pc = "dead" <=> pusher[r].pc = "dead"
             /\ \A t \in Topics : TakenOf(r, t)' = TakenOf(r, t)
  <2>1. CASE r = s
    BY <2>1
  <2>2. CASE r # s
    BY <2>2, AloneKeeps DEF Alone
  <2> QED BY <2>1, <2>2
<1> QED BY <1>1, <1>2 DEF SamePushes

\* A step between whose states nothing that comes to s differs.
LEMMA StutterAlone ==
  ASSUME Shape, NEW s \in open, Alone(s), UNCHANGED faults, SamePushes,
         \A t : t \in channel'[s] \/ t \in pusher'[s].todo
                  <=> t \in channel[s] \/ t \in pusher[s].todo
  PROVE  UNCHANGED Feed!vars /\ Coming(s)' = Coming(s)
<1>1. \A t : t \in Coming(s)' <=> t \in Coming(s)
  BY AloneKeeps
<1>2. Coming(s)' = Coming(s)
  BY <1>1
<1>3. \A r \in Sessions : Coming(r)' = Coming(r)
  BY <1>2, AloneKeeps
<1>4. UNCHANGED <<db, listening, faults>> /\ open \subseteq Sessions
  BY Facts DEF Alone
<1> QED BY <1>2, <1>3, <1>4, FeedStutter

\* A step of s with which something is lost.
LEMMA LoseAlone ==
  ASSUME Shape, NEW s \in open, Alone(s), faults' = faults + 1, SamePushes,
         Coming(s)' \subseteq Coming(s)
  PROVE  Feed!FNext
<1>1. \A r \in Sessions : Coming(r)' \subseteq Coming(r)
  BY AloneKeeps
<1>2. UNCHANGED <<db, listening>> /\ open \subseteq Sessions
  BY Facts DEF Alone
<1> QED BY <1>1, <1>2, FeedLose

-----------------------------------------------------------------------------
(* The pusher *)

\* Any topics that are left have a first one to serve.
LEMMA FirstTopic ==
  ASSUME NEW T, T \subseteq Topics, T # {}
  PROVE  \E t \in T : \A u \in T : Rank[t] <= Rank[u]
<1> DEFINE Below(t) == 0..Rank[t]
           Sets == {Below(t) : t \in T}
<1>0. \A t \in T : Rank[t] \in Nat
  BY RealtimeAssumption
<1>1. Sets \subseteq FiniteSubsetsOf(Nat) /\ Sets # {}
  <2>1. ASSUME NEW t \in T PROVE Below(t) \in SUBSET Nat /\ IsFiniteSet(Below(t))
    BY <1>0, FS_Interval
  <2> QED BY <2>1 DEF FiniteSubsetsOf
<1>2. PICK b \in Sets : \A c \in Sets : ~ (<<c, b>> \in StrictSubsetOrdering(Nat))
  BY <1>1, FS_StrictSubsetOrderingWellFounded, WFMin
<1>3. PICK t \in T : b = Below(t)
  BY <1>2
<1>4. ASSUME NEW u \in T, Rank[u] < Rank[t] PROVE FALSE
  <2>1. Below(u) \subseteq Below(t) /\ Below(u) # Below(t)
    BY <1>0, <1>4
  <2>2. Below(u) \in SUBSET Nat /\ Below(t) \in SUBSET Nat
    BY <1>0
  <2>3. <<Below(u), b>> \in StrictSubsetOrdering(Nat)
    BY <1>3, <2>1, <2>2 DEF StrictSubsetOrdering
  <2> QED BY <1>2, <2>3
<1>5. \A u \in T : Rank[t] <= Rank[u]
  BY <1>0, <1>4
<1> QED BY <1>5

LEMMA NextTopicIs ==
  ASSUME Shape, NEW s \in Sessions, pusher[s].pc = "read"
  PROVE  NextTopic(s) \in pusher[s].todo /\ NextTopic(s) \in Topics
<1>1. pusher[s].todo \subseteq Topics /\ pusher[s].todo # {}
  BY Facts DEF PusherState, PusherOK
<1> QED BY <1>1, FirstTopic DEF NextTopic

LEMMA ServedIs ==
  ASSUME Shape, NEW s \in Sessions, NEW t
  PROVE  /\ Served(s, t) \in PusherState /\ PusherOK(Served(s, t))
         /\ Served(s, t).pc \in {"wait", "read"}
         /\ Served(s, t).todo = pusher[s].todo \ {t}
<1>1. pusher[s].todo \subseteq Topics
  BY Facts DEF PusherState
<1> QED BY <1>1, Initial DEF Served, IdlePusher, PusherState, PusherOK

\* Passing changes nothing but the mark.
LEMMA PassedPusher ==
  ASSUME NEW g \in PusherState, NEW t
  PROVE  /\ Passed(g, t) \in PusherState /\ (PusherOK(g) => PusherOK(Passed(g, t)))
         /\ Passed(g, t).pc = g.pc /\ Passed(g, t).todo = g.todo
         /\ Passed(g, t).topic = g.topic /\ Passed(g, t).value = g.value
         /\ g.passed \/ (g.pc # "idle" /\ g.topic = t) => Passed(g, t).passed
<1>1. PICK b : b = (g.passed \/ (g.pc # "idle" /\ g.topic = t))
  OBVIOUS
<1>2. b \in BOOLEAN
  BY <1>1, Zenon
<1>3. Passed(g, t) = [g EXCEPT !.passed = b]
  BY <1>1, Zenon DEF Passed
<1>4. Passed(g, t).passed = b
  BY <1>3 DEF PusherState
<1>5. g.passed \/ (g.pc # "idle" /\ g.topic = t) => Passed(g, t).passed
  BY <1>1, <1>4, Zenon
<1> QED BY <1>2, <1>3, <1>5 DEF PusherState, PusherOK

LEMMA PassedReader ==
  ASSUME NEW g \in ReaderState, NEW t
  PROVE  /\ Passed(g, t) \in ReaderState
         /\ Passed(g, t).pc = g.pc /\ Passed(g, t).topic = g.topic
         /\ Passed(g, t).value = g.value /\ Passed(g, t).base = g.base
         /\ g.passed \/ (g.pc # "idle" /\ g.topic = t) => Passed(g, t).passed
<1>1. PICK b : b = (g.passed \/ (g.pc # "idle" /\ g.topic = t))
  OBVIOUS
<1>2. b \in BOOLEAN
  BY <1>1, Zenon
<1>3. Passed(g, t) = [g EXCEPT !.passed = b]
  BY <1>1, Zenon DEF Passed
<1>4. Passed(g, t).passed = b
  BY <1>3 DEF ReaderState
<1>5. g.passed \/ (g.pc # "idle" /\ g.topic = t) => Passed(g, t).passed
  BY <1>1, <1>4, Zenon
<1> QED BY <1>2, <1>3, <1>5 DEF ReaderState

LEMMA PushReceiveStep ==
  ASSUME Shape, NEW s \in Sessions, PushReceive(s)
  PROVE  Shape' /\ UNCHANGED Feed!vars /\ (Reasons => Reasons')
<1>1. /\ s \in open /\ pusher[s].pc = "wait" /\ channel[s] # {}
      /\ pusher' = [pusher EXCEPT ![s].pc = "read", ![s].todo = channel[s]]
      /\ channel' = [channel EXCEPT ![s] = {}]
      /\ UNCHANGED <<db, changes, writer, listening, wire, broker, open, last, reader, fetch,
                     view, requests, faults, gap>>
  BY DEF PushReceive, dbVars, brokerVars, clientVars
<1>2. /\ pusher \in [Sessions -> PusherState] /\ channel \in [Sessions -> SUBSET Topics]
      /\ pusher[s] \in PusherState /\ pusher[s].todo = {}
  BY <1>1, Facts DEF PusherOK
<1>3. /\ pusher' \in [Sessions -> PusherState] /\ channel' \in [Sessions -> SUBSET Topics]
      /\ \A r \in Sessions : r # s => pusher'[r] = pusher[r] /\ channel'[r] = channel[r]
      /\ channel'[s] = {} /\ pusher'[s].pc = "read" /\ pusher'[s].todo = channel[s]
  BY <1>1, <1>2 DEF PusherState
<1>4. Alone(s)
  BY <1>1, <1>3 DEF Alone
<1>5. Shape'
  <2>1. PusherOK(pusher'[s])
    BY <1>1, <1>3 DEF PusherOK
  <2>2. ReaderOK(s, reader[s])'
    BY <1>1, Facts DEF ReaderOK
  <2> QED BY <1>1, <1>3, <1>4, <2>1, <2>2, ShapeAlone, Facts
<1>6. SamePushes
  <2>1. \A t \in Topics : TakenOf(s, t)' = TakenOf(s, t)
    BY <1>1, <1>3 DEF TakenOf, Writing
  <2> QED BY <1>1, <1>3, <1>4, <2>1, SamePushesAlone
<1>7. UNCHANGED Feed!vars /\ Coming(s)' = Coming(s)
  BY <1>1, <1>2, <1>3, <1>4, <1>6, StutterAlone
<1>8. ASSUME Reasons PROVE Reasons'
  <2>1. ASSUME NEW t \in Topics PROVE ReasonsAt(s, t)'
    <3>1. ReasonsAt(s, t)
      BY <1>1, <1>8 DEF Reasons
    <3> QED BY <1>1, <1>3, <1>7, <3>1 DEF ReasonsAt, ViewOK, PushOK, ReplyOK, AckOK, Owed,
           BeingWritten, BeingReplied, Writing, Replying, Acknowledging
  <2> QED BY <1>1, <1>4, <1>8, <2>1, ReasonsAlone
<1> QED BY <1>5, <1>7, <1>8

\* A read: what was read is on its way to the client, unless it is what was
\* pushed last.
LEMMA PushReadStep ==
  ASSUME Shape, NEW s \in Sessions, PushRead(s)
  PROVE  Shape' /\ Feed!FNext /\ (Reasons => Reasons')
<1>1. PICK n : n = NextTopic(s)
  OBVIOUS
<1>2. /\ s \in open /\ pusher[s].pc = "read"
      /\ UNCHANGED <<db, changes, writer, listening, wire, broker, open, channel, last, reader,
                     fetch, view, requests, faults>>
  BY DEF PushRead, dbVars, brokerVars, clientVars
<1>3. n \in pusher[s].todo /\ n \in Topics
  BY <1>1, <1>2, NextTopicIs
<1>4. /\ pusher \in [Sessions -> PusherState] /\ gap \in [Sessions -> SUBSET Topics]
      /\ pusher[s] \in PusherState /\ db \in [Topics -> Nat]
  BY Facts
<1>5. \/ /\ last[s][n] = db[n]
         /\ pusher' = [pusher EXCEPT ![s] = Served(s, n)]
         /\ gap' = IF view[s][n] = db[n] /\ ~(reader[s].topic = n /\ reader[s].value # db[n])
                   THEN gap ELSE [gap EXCEPT ![s] = @ \cup {n}]
      \/ /\ pusher' = [pusher EXCEPT ![s].pc = "write", ![s].todo = @ \ {n},
                                     ![s].topic = n, ![s].value = db[n]]
         /\ gap' = [gap EXCEPT ![s] = @ \ {n}]
  BY <1>1 DEF PushRead, AlreadyPushed
<1>6. /\ pusher' \in [Sessions -> PusherState] /\ PusherOK(pusher'[s])
      /\ gap' \in [Sessions -> SUBSET Topics]
      /\ \A r \in Sessions : r # s => pusher'[r] = pusher[r] /\ gap'[r] = gap[r]
      /\ pusher'[s].todo = pusher[s].todo \ {n}
      /\ pusher'[s].pc # "dead"
      /\ gap'[s] \cup {n} = gap[s] \cup {n}
      /\ \/ /\ pusher'[s].pc \in {"wait", "read"} /\ last[s][n] = db[n]
            /\ \/ n \in gap'[s]
               \/ view[s][n] = db[n] /\ ~(reader[s].topic = n /\ reader[s].value # db[n])
         \/ pusher'[s].pc = "write" /\ pusher'[s].topic = n /\ pusher'[s].value = db[n]
  <2>1. CASE /\ last[s][n] = db[n]
             /\ pusher' = [pusher EXCEPT ![s] = Served(s, n)]
             /\ gap' = IF view[s][n] = db[n] /\ ~(reader[s].topic = n /\ reader[s].value # db[n])
                       THEN gap ELSE [gap EXCEPT ![s] = @ \cup {n}]
    <3>1. /\ Served(s, n) \in PusherState /\ PusherOK(Served(s, n))
          /\ Served(s, n).pc \in {"wait", "read"} /\ Served(s, n).todo = pusher[s].todo \ {n}
      BY ServedIs
    <3> QED BY <1>3, <1>4, <2>1, <3>1
  <2>2. CASE /\ pusher' = [pusher EXCEPT ![s].pc = "write", ![s].todo = @ \ {n},
                                         ![s].topic = n, ![s].value = db[n]]
             /\ gap' = [gap EXCEPT ![s] = @ \ {n}]
    BY <1>3, <1>4, <2>2 DEF PusherState, PusherOK, Shown, Contents
  <2> QED BY <1>5, <2>1, <2>2
<1>7. Alone(s)
  BY <1>2, <1>6 DEF Alone
<1>8. Shape'
  <2>1. ReaderOK(s, reader[s])'
    BY <1>2, Facts DEF ReaderOK
  <2> QED BY <1>2, <1>6, <1>7, <2>1, ShapeAlone, Facts
<1>9. \A t : t \in Coming(s)' \cup {n} <=> t \in Coming(s)
  BY <1>2, <1>3, <1>6, <1>7, AloneKeeps
<1>10. Feed!FNext
  <2>1. Healthy' = Healthy /\ s \in Healthy
    <3>1. \A r \in open : pusher'[r].pc = "dead" <=> pusher[r].pc = "dead"
      BY <1>2, <1>6, Facts
    <3> QED BY <1>2, <3>1 DEF Healthy
  <2>2. \A t \in Topics : TakenOf(s, t)' = IF t = n THEN db[n] ELSE TakenOf(s, t)
    BY <1>2, <1>6 DEF TakenOf, Writing
  <2>3. \A r \in Sessions, u \in Topics :
          TakenOf(r, u)' = IF r = s /\ u = n THEN db[n] ELSE TakenOf(r, u)
    BY <1>2, <1>7, <2>2, AloneKeeps
  <2>4. n \in Coming(s) /\ (Coming(s)' = Coming(s) \/ Coming(s)' = Coming(s) \ {n})
    BY <1>9
  <2>5. \A r \in Sessions : r # s => Coming(r)' = Coming(r)
    BY <1>2, <1>7, AloneKeeps
  <2> QED BY <1>2, <1>3, <2>1, <2>3, <2>4, <2>5, FeedTake, Facts
<1>11. ASSUME Reasons PROVE Reasons'
  <2>1. ASSUME NEW t \in Topics PROVE ReasonsAt(s, t)'
    <3>1. ReasonsAt(s, t)
      BY <1>2, <1>11 DEF Reasons
    <3>2. CASE t # n
      <4>1. (t \in Coming(s)' <=> t \in Coming(s)) /\ (t \in gap'[s] <=> t \in gap[s])
        BY <1>6, <1>9, <3>2
      <4>2. ~Writing(s, t)' /\ ~Writing(s, t)
        BY <1>2, <1>6, <3>2 DEF Writing
      <4> QED BY <1>2, <1>6, <3>1, <4>1, <4>2 DEF ReasonsAt, ViewOK, PushOK, ReplyOK, AckOK,
             Owed, BeingWritten, BeingReplied, Replying, Acknowledging
    <3>3. CASE t = n
      <4>1. CASE n \in gap'[s]
        BY <3>3, <4>1 DEF ReasonsAt, ViewOK, PushOK, ReplyOK, AckOK, Owed
      <4>2. CASE pusher'[s].pc = "write" /\ pusher'[s].topic = n /\ pusher'[s].value = db[n]
        BY <1>2, <3>3, <4>2 DEF ReasonsAt, ViewOK, PushOK, ReplyOK, AckOK, BeingWritten, Writing
      <4>3. CASE /\ pusher'[s].pc \in {"wait", "read"} /\ view[s][n] = db[n]
                 /\ ~(reader[s].topic = n /\ reader[s].value # db[n])
        <5>1. ~Writing(s, t)' /\ db[n] # Nothing
          BY <1>3, <1>4, <4>3 DEF Writing, Nothing
        <5>2. ~Acknowledging(s, t)
          BY <3>3, <4>3, <5>1, Facts DEF Acknowledging, ReaderOK
        <5>3. Replying(s, t) => reader[s].value = db[t]
          BY <3>3, <4>3 DEF Replying
        <5> QED BY <1>2, <3>3, <4>3, <5>1, <5>2, <5>3 DEF ReasonsAt, ViewOK, PushOK, ReplyOK,
               AckOK, Replying, Acknowledging
      <4> QED BY <1>6, <4>1, <4>2, <4>3
    <3> QED BY <3>2, <3>3
  <2> QED BY <1>2, <1>7, <1>11, <2>1, ReasonsAlone
<1> QED BY <1>8, <1>10, <1>11

LEMMA PushReadFailsStep ==
  ASSUME Shape, NEW s \in Sessions, PushReadFails(s)
  PROVE  Shape' /\ Feed!FNext /\ (Reasons => Reasons')
<1>1. PICK n : n = NextTopic(s)
  OBVIOUS
<1>2. /\ s \in open /\ pusher[s].pc = "read"
      /\ pusher' = [pusher EXCEPT ![s] = Served(s, n)]
      /\ gap' = [gap EXCEPT ![s] = @ \cup {n}] /\ faults' = faults + 1
      /\ UNCHANGED <<db, changes, writer, listening, wire, broker, open, channel, last, reader,
                     fetch, view, requests>>
  BY <1>1 DEF PushReadFails, dbVars, brokerVars, clientVars
<1>3. n \in pusher[s].todo /\ n \in Topics
  BY <1>1, <1>2, NextTopicIs
<1>4. /\ Served(s, n) \in PusherState /\ PusherOK(Served(s, n))
      /\ Served(s, n).pc \in {"wait", "read"} /\ Served(s, n).todo = pusher[s].todo \ {n}
  BY ServedIs
<1>5. /\ pusher' \in [Sessions -> PusherState] /\ gap' \in [Sessions -> SUBSET Topics]
      /\ \A r \in Sessions : r # s => pusher'[r] = pusher[r] /\ gap'[r] = gap[r]
      /\ pusher'[s] = Served(s, n) /\ gap'[s] = gap[s] \cup {n}
  BY <1>2, <1>3, <1>4, Facts
<1>6. Alone(s)
  BY <1>2, <1>5 DEF Alone
<1>7. Shape'
  <2>1. ReaderOK(s, reader[s])' /\ faults' \in Nat
    BY <1>2, Facts DEF ReaderOK
  <2> QED BY <1>2, <1>4, <1>5, <1>6, <2>1, ShapeAlone, Facts
<1>8. Coming(s)' \subseteq Coming(s) /\ Coming(s) \subseteq Coming(s)' \cup {n}
  <2>1. \A t : (t \in Coming(s)' => t \in Coming(s)) /\ (t \in Coming(s) => t \in Coming(s)' \/ t = n)
    BY <1>2, <1>4, <1>5, <1>6, AloneKeeps
  <2> QED BY <2>1
<1>9. SamePushes
  <2>1. \A t \in Topics : TakenOf(s, t)' = TakenOf(s, t)
    BY <1>2, <1>4, <1>5 DEF TakenOf, Writing
  <2> QED BY <1>2, <1>4, <1>5, <1>6, <2>1, SamePushesAlone
<1>10. Feed!FNext
  BY <1>2, <1>6, <1>8, <1>9, LoseAlone
<1>11. ASSUME Reasons PROVE Reasons'
  <2>1. ASSUME NEW t \in Topics PROVE ReasonsAt(s, t)'
    <3>1. ReasonsAt(s, t)
      BY <1>2, <1>11 DEF Reasons
    <3>2. t \in Coming(s) \cup gap[s] => t \in Coming(s)' \cup gap'[s]
      BY <1>5, <1>8
    <3>3. ~Writing(s, t)' /\ ~Writing(s, t)
      BY <1>2, <1>4, <1>5 DEF Writing
    <3> QED BY <1>2, <3>1, <3>2, <3>3 DEF ReasonsAt, ViewOK, PushOK, ReplyOK, AckOK,
           Owed, BeingWritten, BeingReplied, Replying, Acknowledging
  <2> QED BY <1>2, <1>6, <1>11, <2>1, ReasonsAlone
<1> QED BY <1>7, <1>10, <1>11

\* A write: the client shows what was read, and a reply that it passed may undo it.
LEMMA PushWriteStep ==
  ASSUME Shape, NEW s \in Sessions, PushWrite(s)
  PROVE  Shape' /\ UNCHANGED Feed!vars /\ (Reasons => Reasons')
<1>1. PICK n : n = pusher[s].topic
  OBVIOUS
<1>2. /\ s \in open /\ pusher[s].pc = "write"
      /\ view' = [view EXCEPT ![s][n] = pusher[s].value]
      /\ last' = [last EXCEPT ![s][n] = pusher[s].value]
      /\ gap' = IF pusher[s].passed THEN [gap EXCEPT ![s] = @ \cup {n}] ELSE gap
      /\ pusher' = [pusher EXCEPT ![s] = Served(s, n)]
      /\ reader' = [reader EXCEPT ![s] = Passed(reader[s], n)]
      /\ UNCHANGED <<db, changes, writer, listening, wire, broker, open, channel, fetch,
                     requests, faults>>
  BY <1>1 DEF PushWrite, dbVars, brokerVars
<1>3. /\ pusher[s] \in PusherState /\ reader[s] \in ReaderState /\ pusher[s].value \in Shown
      /\ n \in Topics \ pusher[s].todo
      /\ view \in [Sessions -> [Topics -> Shown]] /\ last \in [Sessions -> [Topics -> Shown]]
      /\ gap \in [Sessions -> SUBSET Topics]
      /\ pusher \in [Sessions -> PusherState] /\ reader \in [Sessions -> ReaderState]
  BY <1>1, <1>2, Facts DEF PusherState, PusherOK
<1>4. /\ Served(s, n) \in PusherState /\ PusherOK(Served(s, n))
      /\ Served(s, n).pc \in {"wait", "read"} /\ Served(s, n).todo = pusher[s].todo
  <2>1. pusher[s].todo \ {n} = pusher[s].todo
    BY <1>3
  <2> QED BY <2>1, ServedIs
<1>5. /\ Passed(reader[s], n) \in ReaderState
      /\ Passed(reader[s], n).pc = reader[s].pc /\ Passed(reader[s], n).topic = reader[s].topic
      /\ Passed(reader[s], n).value = reader[s].value
      /\ Passed(reader[s], n).base = reader[s].base
      /\ reader[s].passed \/ (reader[s].pc # "idle" /\ reader[s].topic = n)
           => Passed(reader[s], n).passed
  BY <1>3, PassedReader
<1>6. /\ pusher' \in [Sessions -> PusherState] /\ reader' \in [Sessions -> ReaderState]
      /\ pusher'[s] = Served(s, n) /\ reader'[s] = Passed(reader[s], n)
      /\ \A r \in Sessions : r # s => pusher'[r] = pusher[r] /\ reader'[r] = reader[r]
  BY <1>2, <1>3, <1>4, <1>5
<1>7. /\ view' \in [Sessions -> [Topics -> Shown]] /\ last' \in [Sessions -> [Topics -> Shown]]
      /\ \A t \in Topics : /\ view'[s][t] = IF t = n THEN pusher[s].value ELSE view[s][t]
                           /\ last'[s][t] = IF t = n THEN pusher[s].value ELSE last[s][t]
      /\ \A r \in Sessions : r # s => view'[r] = view[r] /\ last'[r] = last[r]
  BY <1>2, <1>3
<1>8. /\ gap' \in [Sessions -> SUBSET Topics]
      /\ \A r \in Sessions : r # s => gap'[r] = gap[r]
      /\ gap[s] \subseteq gap'[s] /\ (pusher[s].passed => n \in gap'[s])
  BY <1>2, <1>3
<1>9. Alone(s)
  BY <1>2, <1>5, <1>6, <1>7, <1>8 DEF Alone
<1>10. Shape'
  <2>1. ReaderOK(s, reader[s])'
    <3>1. ReaderOK(s, reader[s])
      BY Facts
    <3> QED BY <1>2, <1>5, <1>6, <3>1 DEF ReaderOK
  <2>2. channel' \in [Sessions -> SUBSET Topics] /\ channel'[s] = channel[s]
        /\ fetch' \in [Sessions -> SUBSET Topics] /\ requests' \in Nat /\ faults' \in Nat
    BY <1>2, Facts
  <2> QED BY <1>2, <1>4, <1>6, <1>7, <1>8, <1>9, <2>1, <2>2, ShapeAlone
<1>11. SamePushes
  <2>1. \A t \in Topics : TakenOf(s, t)' = TakenOf(s, t)
    BY <1>1, <1>2, <1>4, <1>6, <1>7 DEF TakenOf, Writing
  <2> QED BY <1>2, <1>4, <1>6, <1>9, <2>1, SamePushesAlone
<1>12. UNCHANGED Feed!vars /\ Coming(s)' = Coming(s)
  BY <1>2, <1>4, <1>6, <1>9, <1>11, StutterAlone
<1>13. ASSUME Reasons PROVE Reasons'
  <2>1. ASSUME NEW t \in Topics PROVE ReasonsAt(s, t)'
    <3>1. ReasonsAt(s, t)
      BY <1>2, <1>13 DEF Reasons
    <3>2. Owed(s, t) => Owed(s, t)'
      BY <1>2, <1>8, <1>12 DEF Owed
    <3>3. ~Writing(s, t)' /\ (Writing(s, t) <=> t = n)
      BY <1>1, <1>2, <1>4, <1>6 DEF Writing
    <3>4. /\ BeingReplied(s, t)' <=> BeingReplied(s, t)
          /\ Replying(s, t)' <=> Replying(s, t)
          /\ Acknowledging(s, t)' <=> Acknowledging(s, t)
      BY <1>2, <1>5, <1>6 DEF BeingReplied, Replying, Acknowledging
    <3>5. CASE t # n
      <4>1. view'[s][t] = view[s][t]
        BY <1>7, <3>5
      <4>2. reader[s].passed => reader'[s].passed
        BY <1>5, <1>6
      <4> QED BY <1>2, <1>5, <1>6, <3>1, <3>2, <3>3, <3>4, <3>5, <4>1, <4>2
             DEF ReasonsAt, ViewOK, PushOK, ReplyOK, AckOK, BeingWritten
    <3>6. CASE t = n
      <4>1. view'[s][t] = pusher[s].value
        BY <1>3, <1>7, <3>6
      <4>2. Replying(s, t) \/ Acknowledging(s, t) => reader'[s].passed
        BY <1>5, <1>6, <3>6 DEF Replying, Acknowledging
      <4>3. pusher[s].passed => Owed(s, t)'
        BY <1>8, <3>6 DEF Owed
      <4> QED BY <1>2, <3>1, <3>2, <3>3, <3>4, <3>6, <4>1, <4>2, <4>3
             DEF ReasonsAt, ViewOK, PushOK, ReplyOK, AckOK
    <3> QED BY <3>5, <3>6
  <2> QED BY <1>2, <1>9, <1>13, <2>1, ReasonsAlone
<1> QED BY <1>10, <1>12, <1>13

LEMMA PushWriteFailsStep ==
  ASSUME Shape, NEW s \in Sessions, PushWriteFails(s)
  PROVE  Shape' /\ Feed!FNext /\ (Reasons => Reasons')
<1>1. /\ s \in open /\ pusher' = [pusher EXCEPT ![s] = [IdlePusher EXCEPT !.pc = "dead"]]
      /\ faults' = faults + 1
      /\ UNCHANGED <<db, changes, writer, listening, wire, broker, open, channel, last, reader,
                     fetch, view, requests, gap>>
  BY DEF PushWriteFails, dbVars, brokerVars, clientVars
<1>2. PICK d : d = [IdlePusher EXCEPT !.pc = "dead"]
  OBVIOUS
<1>3. d \in PusherState /\ PusherOK(d) /\ d.pc = "dead"
  BY <1>2, Initial DEF IdlePusher, PusherState, PusherOK
<1>4. /\ pusher' \in [Sessions -> PusherState] /\ pusher'[s] = d
      /\ \A r \in Sessions : r # s => pusher'[r] = pusher[r]
  BY <1>1, <1>2, <1>3, Facts
<1>5. Alone(s)
  BY <1>1, <1>4 DEF Alone
<1>6. Shape'
  <2>1. ReaderOK(s, reader[s])' /\ faults' \in Nat
    BY <1>1, Facts DEF ReaderOK
  <2> QED BY <1>1, <1>3, <1>4, <1>5, <2>1, ShapeAlone, Facts
<1>7. Feed!FNext
  <2>1. s \notin Healthy' /\ \A r \in open : r # s => (r \in Healthy' <=> r \in Healthy)
    BY <1>1, <1>3, <1>4, Facts DEF Healthy
  <2> QED BY <1>1, <1>5, <2>1, FeedMembership, AloneKeeps, Facts
<1>8. ASSUME Reasons PROVE Reasons'
  <2>1. ASSUME NEW t \in Topics PROVE ReasonsAt(s, t)'
    BY <1>3, <1>4 DEF ReasonsAt, ViewOK, PushOK, ReplyOK, AckOK, Owed
  <2> QED BY <1>1, <1>5, <1>8, <2>1, ReasonsAlone
<1> QED BY <1>6, <1>7, <1>8

-----------------------------------------------------------------------------
(* The read loop and the client *)

\* A request is answered with what a read returns now.
LEMMA AnswerStep ==
  ASSUME Shape, NEW s \in open, NEW n \in Topics, reader[s].pc = "idle", Answer(s, n),
         requests' \in Nat, fetch' \in [Sessions -> SUBSET Topics],
         \A r \in Sessions : r # s => fetch'[r] = fetch[r],
         \A t \in Topics : t # n => (t \in fetch'[s] <=> t \in fetch[s])
  PROVE  Shape' /\ UNCHANGED Feed!vars /\ (Reasons => Reasons')
<1>1. PICK g : g = [pc |-> "reply", topic |-> n, value |-> db[n], base |-> Nothing,
                    passed |-> FALSE]
  OBVIOUS
<1>2. /\ reader' = [reader EXCEPT ![s] = g] /\ gap' = [gap EXCEPT ![s] = @ \ {n}]
      /\ UNCHANGED <<db, changes, writer, listening, wire, broker, open, channel, pusher, last,
                     view, faults>>
  BY <1>1 DEF Answer, dbVars, brokerVars, pushVars
<1>3. g \in ReaderState /\ g.pc = "reply" /\ g.topic = n /\ g.value = db[n] /\ s \in Sessions
  BY <1>1, Facts DEF ReaderState, Shown, Contents, Nothing
<1>4. /\ reader' \in [Sessions -> ReaderState] /\ reader'[s] = g
      /\ gap' \in [Sessions -> SUBSET Topics] /\ gap'[s] = gap[s] \ {n}
      /\ \A r \in Sessions : r # s => reader'[r] = reader[r] /\ gap'[r] = gap[r]
  BY <1>2, <1>3, Facts
<1>5. Alone(s)
  BY <1>2, <1>3, <1>4 DEF Alone
<1>6. Shape'
  <2>1. ReaderOK(s, reader[s])'
    BY <1>2, <1>3, <1>4 DEF ReaderOK
  <2>2. PusherOK(pusher'[s]) /\ channel'[s] \subseteq channel[s]
    BY <1>2, <1>3, Facts
  <2> QED BY <1>2, <1>4, <1>5, <2>1, <2>2, ShapeAlone, Facts
<1>7. SamePushes
  BY <1>2, <1>5, SamePushesAlone DEF TakenOf, Writing
<1>8. UNCHANGED Feed!vars /\ Coming(s)' = Coming(s)
  BY <1>2, <1>5, <1>7, StutterAlone
<1>9. ASSUME Reasons PROVE Reasons'
  <2>1. ASSUME NEW t \in Topics PROVE ReasonsAt(s, t)'
    <3>1. ReasonsAt(s, t) /\ ~Replying(s, t) /\ ~Acknowledging(s, t) /\ ~Acknowledging(s, t)'
      BY <1>3, <1>4, <1>9 DEF Reasons, Replying, Acknowledging
    <3>2. CASE t = n
      <4>1. BeingReplied(s, t)' /\ reader'[s].value = db'[t]
        BY <1>2, <1>3, <1>4, <3>2 DEF BeingReplied, Replying
      <4> QED BY <3>1, <4>1 DEF ReasonsAt, ViewOK, PushOK, ReplyOK, AckOK
    <3>3. CASE t # n
      <4>1. ~Replying(s, t)'
        BY <1>3, <1>4, <3>3 DEF Replying
      <4>2. Owed(s, t) => Owed(s, t)'
        BY <1>2, <1>4, <1>8, <3>3 DEF Owed
      <4>3. (Writing(s, t)' <=> Writing(s, t)) /\ (BeingWritten(s, t)' <=> BeingWritten(s, t))
        BY <1>2 DEF Writing, BeingWritten
      <4> QED BY <1>2, <3>1, <3>3, <4>1, <4>2, <4>3 DEF ReasonsAt, ViewOK, PushOK, ReplyOK,
             AckOK, BeingReplied
    <3> QED BY <3>2, <3>3
  <2> QED BY <1>5, <1>9, <2>1, ReasonsAlone
<1> QED BY <1>6, <1>8, <1>9

LEMMA FetchStep ==
  ASSUME Shape, NEW s \in Sessions, NEW n \in Topics, Fetch(s, n)
  PROVE  Shape' /\ UNCHANGED Feed!vars /\ (Reasons => Reasons')
<1>1. /\ s \in open /\ reader[s].pc = "idle" /\ Answer(s, n) /\ requests' = requests
      /\ fetch' = [fetch EXCEPT ![s] = @ \ {n}]
  BY DEF Fetch
<1>2. requests' \in Nat /\ fetch' \in [Sessions -> SUBSET Topics] /\ fetch'[s] = fetch[s] \ {n}
      /\ \A r \in Sessions : r # s => fetch'[r] = fetch[r]
  BY <1>1, Facts
<1> QED BY <1>1, <1>2, AnswerStep

LEMMA RequestStep ==
  ASSUME Shape, NEW s \in Sessions, NEW n \in Topics, Request(s, n)
  PROVE  Shape' /\ UNCHANGED Feed!vars /\ (Reasons => Reasons')
<1>1. /\ s \in open /\ reader[s].pc = "idle" /\ Answer(s, n) /\ requests' = requests + 1
      /\ fetch' = fetch
  BY DEF Request
<1>2. requests' \in Nat /\ fetch' \in [Sessions -> SUBSET Topics]
  BY <1>1, Facts
<1> QED BY <1>1, <1>2, AnswerStep

LEMMA FetchFailsStep ==
  ASSUME Shape, NEW s \in Sessions, NEW n \in Topics, FetchFails(s, n)
  PROVE  Shape' /\ Feed!FNext /\ (Reasons => Reasons')
<1>1. /\ s \in open /\ fetch' = [fetch EXCEPT ![s] = @ \ {n}]
      /\ gap' = [gap EXCEPT ![s] = @ \cup {n}] /\ faults' = faults + 1
      /\ UNCHANGED <<db, changes, writer, listening, wire, broker, open, channel, pusher, last,
                     reader, view, requests>>
  BY DEF FetchFails, dbVars, brokerVars, pushVars
<1>2. /\ fetch' \in [Sessions -> SUBSET Topics] /\ gap' \in [Sessions -> SUBSET Topics]
      /\ fetch'[s] = fetch[s] \ {n} /\ gap'[s] = gap[s] \cup {n}
      /\ \A r \in Sessions : r # s => fetch'[r] = fetch[r] /\ gap'[r] = gap[r]
  BY <1>1, Facts
<1>3. Alone(s)
  BY <1>1, <1>2 DEF Alone
<1>4. Shape'
  <2>1. ReaderOK(s, reader[s])' /\ faults' \in Nat
    BY <1>1, Facts DEF ReaderOK
  <2>2. PusherOK(pusher'[s]) /\ channel'[s] \subseteq channel[s]
    BY <1>1, Facts
  <2> QED BY <1>1, <1>2, <1>3, <2>1, <2>2, ShapeAlone, Facts
<1>5. SamePushes
  BY <1>1, <1>3, SamePushesAlone DEF TakenOf, Writing
<1>6. \A t : t \in Coming(s)' <=> t \in Coming(s)
  BY <1>1, <1>3, AloneKeeps
<1>7. Feed!FNext
  BY <1>1, <1>3, <1>5, <1>6, LoseAlone
<1>8. ASSUME Reasons PROVE Reasons'
  <2>1. ASSUME NEW t \in Topics PROVE ReasonsAt(s, t)'
    <3>1. ReasonsAt(s, t)
      BY <1>1, <1>8 DEF Reasons
    <3>2. Owed(s, t) => Owed(s, t)'
      BY <1>1, <1>2, <1>6 DEF Owed
    <3>3. t \in fetch[s] => t \in fetch'[s] \/ Owed(s, t)'
      BY <1>2 DEF Owed
    <3> QED BY <1>1, <3>1, <3>2, <3>3 DEF ReasonsAt, ViewOK, PushOK, ReplyOK, AckOK,
           BeingWritten, BeingReplied, Writing, Replying, Acknowledging
  <2> QED BY <1>1, <1>3, <1>8, <2>1, ReasonsAlone
<1> QED BY <1>4, <1>7, <1>8

\* A reply: the client shows the answer, and a push that it passed may undo it.
LEMMA ReplyStep ==
  ASSUME Shape, NEW s \in Sessions, Reply(s)
  PROVE  Shape' /\ UNCHANGED Feed!vars /\ (Reasons => Reasons')
<1>1. PICK n : n = reader[s].topic
  OBVIOUS
<1>2. /\ s \in open /\ reader[s].pc = "reply"
      /\ view' = [view EXCEPT ![s][n] = reader[s].value]
      /\ gap' = IF reader[s].passed THEN [gap EXCEPT ![s] = @ \cup {n}] ELSE gap
      /\ reader' = [reader EXCEPT ![s] = IdleReader]
      /\ pusher' = [pusher EXCEPT ![s] = Passed(pusher[s], n)]
      /\ UNCHANGED <<db, changes, writer, listening, wire, broker, open, channel, last, fetch,
                     requests, faults>>
  BY <1>1 DEF Reply, dbVars, brokerVars
<1>3. /\ reader[s] \in ReaderState /\ pusher[s] \in PusherState /\ PusherOK(pusher[s])
      /\ reader[s].value \in Shown /\ n \in Topics
      /\ view \in [Sessions -> [Topics -> Shown]] /\ gap \in [Sessions -> SUBSET Topics]
      /\ pusher \in [Sessions -> PusherState] /\ reader \in [Sessions -> ReaderState]
  BY <1>1, <1>2, Facts DEF ReaderState, ReaderOK
<1>4. /\ Passed(pusher[s], n) \in PusherState /\ PusherOK(Passed(pusher[s], n))
      /\ Passed(pusher[s], n).pc = pusher[s].pc /\ Passed(pusher[s], n).todo = pusher[s].todo
      /\ Passed(pusher[s], n).topic = pusher[s].topic
      /\ Passed(pusher[s], n).value = pusher[s].value
      /\ pusher[s].passed \/ (pusher[s].pc # "idle" /\ pusher[s].topic = n)
           => Passed(pusher[s], n).passed
  BY <1>3, PassedPusher
<1>5. /\ pusher' \in [Sessions -> PusherState] /\ reader' \in [Sessions -> ReaderState]
      /\ pusher'[s] = Passed(pusher[s], n) /\ reader'[s] = IdleReader
      /\ \A r \in Sessions : r # s => pusher'[r] = pusher[r] /\ reader'[r] = reader[r]
  BY <1>2, <1>3, <1>4, Initial
<1>6. /\ view' \in [Sessions -> [Topics -> Shown]]
      /\ \A t \in Topics : view'[s][t] = IF t = n THEN reader[s].value ELSE view[s][t]
      /\ \A r \in Sessions : r # s => view'[r] = view[r]
  BY <1>2, <1>3
<1>7. /\ gap' \in [Sessions -> SUBSET Topics]
      /\ \A r \in Sessions : r # s => gap'[r] = gap[r]
      /\ gap[s] \subseteq gap'[s] /\ (reader[s].passed => n \in gap'[s])
  BY <1>2, <1>3
<1>8. Alone(s)
  BY <1>2, <1>5, <1>6, <1>7, Initial DEF Alone
<1>9. Shape'
  <2>1. ReaderOK(s, reader[s])'
    BY <1>5, Initial DEF ReaderOK
  <2>2. /\ channel' \in [Sessions -> SUBSET Topics] /\ channel'[s] \subseteq channel[s]
        /\ fetch' \in [Sessions -> SUBSET Topics] /\ requests' \in Nat /\ faults' \in Nat
        /\ last' \in [Sessions -> [Topics -> Shown]]
    BY <1>2, Facts
  <2> QED BY <1>2, <1>4, <1>5, <1>6, <1>7, <1>8, <2>1, <2>2, ShapeAlone
<1>10. SamePushes
  <2>1. \A t \in Topics : TakenOf(s, t)' = TakenOf(s, t)
    BY <1>2, <1>4, <1>5 DEF TakenOf, Writing
  <2> QED BY <1>2, <1>4, <1>5, <1>8, <2>1, SamePushesAlone
<1>11. UNCHANGED Feed!vars /\ Coming(s)' = Coming(s)
  BY <1>2, <1>4, <1>5, <1>8, <1>10, StutterAlone
<1>12. ASSUME Reasons PROVE Reasons'
  <2>1. ASSUME NEW t \in Topics PROVE ReasonsAt(s, t)'
    <3>1. ReasonsAt(s, t)
      BY <1>2, <1>12 DEF Reasons
    <3>2. Owed(s, t) => Owed(s, t)'
      BY <1>2, <1>4, <1>5, <1>7, <1>11 DEF Owed
    <3>3. /\ BeingWritten(s, t)' <=> BeingWritten(s, t)
          /\ Writing(s, t)' <=> Writing(s, t)
          /\ pusher'[s].value = pusher[s].value /\ (pusher[s].passed => pusher'[s].passed)
      BY <1>2, <1>4, <1>5 DEF BeingWritten, Writing
    <3>4. /\ ~Replying(s, t)' /\ ~Acknowledging(s, t)' /\ ~Acknowledging(s, t)
          /\ Replying(s, t) <=> t = n
      BY <1>1, <1>2, <1>5, Initial DEF Replying, Acknowledging
    <3>5. CASE t # n
      <4>1. view'[s][t] = view[s][t]
        BY <1>6, <3>5
      <4> QED BY <1>2, <3>1, <3>2, <3>3, <3>4, <3>5, <4>1
             DEF ReasonsAt, ViewOK, PushOK, ReplyOK, AckOK, BeingReplied
    <3>6. CASE t = n
      <4>1. view'[s][t] = reader[s].value
        BY <1>3, <1>6, <3>6
      <4>2. Writing(s, t) => pusher'[s].passed
        BY <1>4, <1>5, <3>6 DEF Writing
      <4>3. reader[s].passed => Owed(s, t)'
        BY <1>7, <3>6 DEF Owed
      <4> QED BY <1>2, <3>1, <3>2, <3>3, <3>4, <3>6, <4>1, <4>2, <4>3
             DEF ReasonsAt, ViewOK, PushOK, ReplyOK, AckOK
    <3> QED BY <3>5, <3>6
  <2> QED BY <1>2, <1>8, <1>12, <2>1, ReasonsAlone
<1> QED BY <1>9, <1>11, <1>12

\* The client marks what it shows as read, and keeps the list for the answer.
LEMMA AckStep ==
  ASSUME Shape, NEW s \in Sessions, NEW n \in Topics, Ack(s, n)
  PROVE  Shape' /\ UNCHANGED Feed!vars /\ (Reasons => Reasons')
<1>1. PICK g : g = [IdleReader EXCEPT !.pc = "ack", !.topic = n, !.base = view[s][n]]
  OBVIOUS
<1>2. /\ s \in open /\ reader[s].pc = "idle" /\ requests' = requests + 1
      /\ reader' = [reader EXCEPT ![s] = g] /\ view' = [view EXCEPT ![s][n] = Own]
      /\ UNCHANGED <<db, changes, writer, listening, wire, broker, open, channel, pusher, last,
                     fetch, faults, gap>>
  BY <1>1 DEF Ack, dbVars, brokerVars, pushVars
<1>3. view \in [Sessions -> [Topics -> Shown]] /\ view[s][n] \in Shown /\ Own \in Shown
      /\ Nothing \in Shown
  BY Facts DEF Shown
<1>4. g \in ReaderState /\ g.pc = "ack" /\ g.topic = n /\ g.value = Nothing
      /\ g.base = view[s][n]
  BY <1>1, <1>3 DEF IdleReader, ReaderState
<1>5. /\ reader' \in [Sessions -> ReaderState] /\ reader'[s] = g
      /\ \A r \in Sessions : r # s => reader'[r] = reader[r]
  BY <1>2, <1>4, Facts
<1>6. /\ view' \in [Sessions -> [Topics -> Shown]]
      /\ \A t \in Topics : t # n => view'[s][t] = view[s][t]
      /\ \A r \in Sessions : r # s => view'[r] = view[r]
  BY <1>2, <1>3
<1>7. Alone(s)
  BY <1>2, <1>4, <1>5, <1>6 DEF Alone
<1>8. Shape'
  <2>1. ReaderOK(s, reader[s])'
    BY <1>2, <1>4, <1>5 DEF ReaderOK
  <2>2. PusherOK(pusher'[s]) /\ channel'[s] \subseteq channel[s] /\ requests' \in Nat
    BY <1>2, Facts
  <2> QED BY <1>2, <1>5, <1>6, <1>7, <2>1, <2>2, ShapeAlone, Facts
<1>9. SamePushes
  BY <1>2, <1>7, SamePushesAlone DEF TakenOf, Writing
<1>10. UNCHANGED Feed!vars /\ Coming(s)' = Coming(s)
  BY <1>2, <1>7, <1>9, StutterAlone
<1>11. ASSUME Reasons PROVE Reasons'
  <2>1. ASSUME NEW t \in Topics PROVE ReasonsAt(s, t)'
    <3>1. ReasonsAt(s, t)
      BY <1>2, <1>11 DEF Reasons
    <3>2. /\ Owed(s, t)' <=> Owed(s, t)
          /\ BeingWritten(s, t)' <=> BeingWritten(s, t)
          /\ Writing(s, t)' <=> Writing(s, t)
      BY <1>2, <1>10 DEF Owed, BeingWritten, Writing
    <3>3. /\ ~Replying(s, t) /\ ~Replying(s, t)' /\ ~Acknowledging(s, t)
          /\ Acknowledging(s, t)' <=> t = n
      BY <1>2, <1>4, <1>5 DEF Replying, Acknowledging
    <3>4. reader'[s].base = view[s][n]
      BY <1>4, <1>5
    <3> QED BY <1>2, <1>6, <3>1, <3>2, <3>3, <3>4
           DEF ReasonsAt, ViewOK, PushOK, ReplyOK, AckOK, BeingReplied
  <2> QED BY <1>2, <1>7, <1>11, <2>1, ReasonsAlone
<1> QED BY <1>8, <1>10, <1>11

\* The client takes its marks back.
LEMMA AckFailsStep ==
  ASSUME Shape, NEW s \in Sessions, AckFails(s)
  PROVE  Shape' /\ Feed!FNext /\ (Reasons => Reasons')
<1>1. PICK n : n = reader[s].topic
  OBVIOUS
<1>2. /\ reader[s].pc = "ack" /\ faults' = faults + 1
      /\ view' = [view EXCEPT ![s][n] = reader[s].base]
      /\ gap' = IF reader[s].passed THEN [gap EXCEPT ![s] = @ \cup {n}] ELSE gap
      /\ reader' = [reader EXCEPT ![s] = IdleReader]
      /\ pusher' = [pusher EXCEPT ![s] = Passed(pusher[s], n)]
      /\ UNCHANGED <<db, changes, writer, listening, wire, broker, open, channel, last, fetch,
                     requests>>
  BY <1>1 DEF AckFails, dbVars, brokerVars
<1>3. /\ reader[s] \in ReaderState /\ pusher[s] \in PusherState /\ PusherOK(pusher[s])
      /\ reader[s].base \in Shown /\ n \in Topics /\ s \in open
      /\ view \in [Sessions -> [Topics -> Shown]] /\ gap \in [Sessions -> SUBSET Topics]
      /\ pusher \in [Sessions -> PusherState] /\ reader \in [Sessions -> ReaderState]
  BY <1>1, <1>2, Facts DEF ReaderState, ReaderOK
<1>4. /\ Passed(pusher[s], n) \in PusherState /\ PusherOK(Passed(pusher[s], n))
      /\ Passed(pusher[s], n).pc = pusher[s].pc /\ Passed(pusher[s], n).todo = pusher[s].todo
      /\ Passed(pusher[s], n).topic = pusher[s].topic
      /\ Passed(pusher[s], n).value = pusher[s].value
      /\ pusher[s].passed \/ (pusher[s].pc # "idle" /\ pusher[s].topic = n)
           => Passed(pusher[s], n).passed
  BY <1>3, PassedPusher
<1>5. /\ pusher' \in [Sessions -> PusherState] /\ reader' \in [Sessions -> ReaderState]
      /\ pusher'[s] = Passed(pusher[s], n) /\ reader'[s] = IdleReader
      /\ \A r \in Sessions : r # s => pusher'[r] = pusher[r] /\ reader'[r] = reader[r]
  BY <1>2, <1>3, <1>4, Initial
<1>6. /\ view' \in [Sessions -> [Topics -> Shown]]
      /\ \A t \in Topics : view'[s][t] = IF t = n THEN reader[s].base ELSE view[s][t]
      /\ \A r \in Sessions : r # s => view'[r] = view[r]
  BY <1>2, <1>3
<1>7. /\ gap' \in [Sessions -> SUBSET Topics]
      /\ \A r \in Sessions : r # s => gap'[r] = gap[r]
      /\ gap[s] \subseteq gap'[s] /\ (reader[s].passed => n \in gap'[s])
  BY <1>2, <1>3
<1>8. Alone(s)
  BY <1>2, <1>5, <1>6, <1>7, Initial DEF Alone
<1>9. Shape'
  <2>1. ReaderOK(s, reader[s])'
    BY <1>5, Initial DEF ReaderOK
  <2>2. /\ channel' \in [Sessions -> SUBSET Topics] /\ channel'[s] \subseteq channel[s]
        /\ fetch' \in [Sessions -> SUBSET Topics] /\ requests' \in Nat /\ faults' \in Nat
        /\ last' \in [Sessions -> [Topics -> Shown]]
    BY <1>2, Facts
  <2> QED BY <1>3, <1>4, <1>5, <1>6, <1>7, <1>8, <2>1, <2>2, ShapeAlone
<1>10. SamePushes
  <2>1. \A t \in Topics : TakenOf(s, t)' = TakenOf(s, t)
    BY <1>2, <1>4, <1>5 DEF TakenOf, Writing
  <2> QED BY <1>3, <1>4, <1>5, <1>8, <2>1, SamePushesAlone
<1>11. \A t : t \in Coming(s)' <=> t \in Coming(s)
  BY <1>2, <1>3, <1>4, <1>5, <1>8, AloneKeeps
<1>12. Feed!FNext
  BY <1>2, <1>3, <1>8, <1>10, <1>11, LoseAlone
<1>13. ASSUME Reasons PROVE Reasons'
  <2>1. ASSUME NEW t \in Topics PROVE ReasonsAt(s, t)'
    <3>1. ReasonsAt(s, t)
      BY <1>3, <1>13 DEF Reasons
    <3>2. Owed(s, t) => Owed(s, t)'
      BY <1>2, <1>4, <1>5, <1>7, <1>11 DEF Owed
    <3>3. /\ BeingWritten(s, t)' <=> BeingWritten(s, t)
          /\ Writing(s, t)' <=> Writing(s, t)
          /\ pusher'[s].value = pusher[s].value /\ (pusher[s].passed => pusher'[s].passed)
      BY <1>2, <1>4, <1>5 DEF BeingWritten, Writing
    <3>4. /\ ~Replying(s, t) /\ ~Replying(s, t)' /\ ~Acknowledging(s, t)'
          /\ Acknowledging(s, t) <=> t = n
      BY <1>1, <1>2, <1>5, Initial DEF Replying, Acknowledging
    <3>5. CASE t # n
      <4>1. view'[s][t] = view[s][t]
        BY <1>6, <3>5
      <4> QED BY <1>2, <3>1, <3>2, <3>3, <3>4, <3>5, <4>1
             DEF ReasonsAt, ViewOK, PushOK, ReplyOK, AckOK, BeingReplied
    <3>6. CASE t = n
      <4>1. view'[s][t] = reader[s].base
        BY <1>3, <1>6, <3>6
      <4>2. Writing(s, t) => pusher'[s].passed
        BY <1>4, <1>5, <3>6 DEF Writing
      <4>3. reader[s].passed => Owed(s, t)'
        BY <1>7, <3>6 DEF Owed
      <4> QED BY <1>2, <3>1, <3>2, <3>3, <3>4, <3>6, <4>1, <4>2, <4>3
             DEF ReasonsAt, ViewOK, PushOK, ReplyOK, AckOK
    <3> QED BY <3>5, <3>6
  <2> QED BY <1>3, <1>8, <1>13, <2>1, ReasonsAlone
<1> QED BY <1>9, <1>12, <1>13

\* The items are marked: every subscriber is owed the list, first of all the
\* one that will announce it.
LEMMA AckInboxStep ==
  ASSUME Shape, NEW s \in Sessions, AckInbox(s)
  PROVE  Shape' /\ Feed!FNext /\ (Reasons => Reasons')
<1>1. PICK n : n = reader[s].topic
  OBVIOUS
<1>2. PICK g : g = [reader[s] EXCEPT !.pc = "notify", !.value = Merged(s), !.base = Nothing]
  OBVIOUS
<1>3. /\ reader[s].pc = "ack" /\ changes' = changes + 1
      /\ db' = [db EXCEPT ![n] = changes + 1] /\ reader' = [reader EXCEPT ![s] = g]
      /\ UNCHANGED <<writer, listening, wire, broker, open, channel, pusher, last, fetch, view,
                     requests, faults, gap>>
  <2>1. reader' = [reader EXCEPT ![s].pc = "notify", ![s].value = Merged(s), ![s].base = Nothing]
    BY DEF AckInbox
  <2>2. reader' = [reader EXCEPT ![s] = g]
    BY <1>2, <2>1, Facts
  <2> QED BY <1>1, <2>2 DEF AckInbox, brokerVars, pushVars
<1>4. /\ s \in open /\ n \in Topics /\ reader \in [Sessions -> ReaderState]
      /\ reader[s] \in ReaderState /\ open \subseteq Sessions
      /\ pusher \in [Sessions -> PusherState] /\ db \in [Topics -> Nat] /\ changes \in Nat
  BY <1>1, <1>3, Facts DEF ReaderOK
<1>5. g \in ReaderState /\ g.pc = "notify" /\ g.topic = n
  <2>1. Merged(s) \in Shown /\ Nothing \in Shown
    BY <1>4 DEF Merged, Shown, ReaderState
  <2> QED BY <1>1, <1>2, <1>4, <2>1 DEF ReaderState
<1>6. /\ reader' \in [Sessions -> ReaderState] /\ reader'[s] = g
      /\ \A r \in Sessions : r # s => reader'[r] = reader[r]
  BY <1>3, <1>4, <1>5
<1>7. /\ db' \in [Topics -> Nat] /\ changes' \in Nat
      /\ \A t \in Topics : t # n => db'[t] = db[t]
  BY <1>3, <1>4
<1>8. Shape'
  <2>1. TypeOK'
    BY <1>3, <1>6, <1>7 DEF Shape, TypeOK, Contents
  <2>2. ASSUME NEW r \in Sessions PROVE ReaderOK(r, reader[r])'
    <3>1. ReaderOK(r, reader[r])
      BY Facts
    <3>2. CASE r = s
      BY <1>3, <1>4, <1>5, <1>6, <3>2 DEF ReaderOK
    <3>3. CASE r # s
      BY <1>3, <1>6, <3>1, <3>3 DEF ReaderOK
    <3> QED BY <3>2, <3>3
  <2> QED BY <1>3, <2>1, <2>2 DEF Shape, BrokerOK
<1>9. ASSUME NEW t PROVE Announced(t)' <=> Announced(t) \/ t = n
  <2>1. OnWire(t)' <=> OnWire(t)
    BY <1>3 DEF OnWire
  <2> QED BY <1>3, <1>4, <1>5, <1>6, <2>1 DEF Announced
<1>10. ASSUME NEW r \in Sessions
       PROVE  Coming(r)' = IF r \in open THEN Coming(r) \cup {n} ELSE Coming(r)
  <2>1. \A t : Held(r, t)' <=> Held(r, t)
    BY <1>3 DEF Held
  <2>2. \A t : t \in Coming(r)' <=> t \in Coming(r) \/ (r \in open /\ t = n)
    BY <1>3, <1>9, <2>1, ComingIs, ComingIsAfter
  <2> QED BY <2>2
<1>11. Feed!FNext
  <2>1. SamePushes
    BY <1>3 DEF SamePushes, TakenOf, Writing
  <2> QED BY <1>3, <1>4, <1>7, <1>10, <2>1, FeedChange
<1>12. ASSUME Reasons PROVE Reasons'
  <2>1. ASSUME NEW r \in open, NEW t \in Topics PROVE ReasonsAt(r, t)'
    <3>1. ReasonsAt(r, t) /\ r \in Sessions
      BY <1>4, <1>12 DEF Reasons
    <3>2. CASE t = n
      <4>1. Owed(r, t)'
        BY <1>10, <3>1, <3>2 DEF Owed
      <4> QED BY <4>1 DEF ReasonsAt, ViewOK, PushOK, ReplyOK, AckOK
    <3>3. CASE t # n
      <4>1. Owed(r, t)' <=> Owed(r, t)
        BY <1>3, <1>10, <3>1, <3>3 DEF Owed
      <4>2. /\ Replying(r, t)' <=> Replying(r, t)
            /\ Acknowledging(r, t)' <=> Acknowledging(r, t)
            /\ Replying(r, t) \/ Acknowledging(r, t) => reader'[r] = reader[r]
        <5>1. CASE r = s
          BY <1>1, <1>3, <1>5, <1>6, <3>3, <5>1 DEF Replying, Acknowledging
        <5>2. CASE r # s
          BY <1>6, <3>1, <5>2 DEF Replying, Acknowledging
        <5> QED BY <5>1, <5>2
      <4> QED BY <1>3, <1>7, <3>1, <3>3, <4>1, <4>2 DEF ReasonsAt, ViewOK, PushOK, ReplyOK,
             AckOK, BeingWritten, BeingReplied, Writing
    <3> QED BY <3>2, <3>3
  <2> QED BY <1>3, <2>1 DEF Reasons
<1> QED BY <1>8, <1>11, <1>12

\* What the announcement of an acknowledgement leaves alone, and where it may end.
Settles(s) ==
  /\ reader[s].pc = "notify" /\ reader' = [reader EXCEPT ![s].pc = "reply"]
  /\ UNCHANGED <<db, changes, writer, listening, broker, open, channel, pusher, last, fetch,
                 view, requests>>

LEMMA SettleStep ==
  ASSUME Shape, NEW s \in Sessions, Settles(s), NEW n, n = reader[s].topic,
         wire' \in Seq(SUBSET Topics), \A i \in DOMAIN wire' : wire'[i] # {},
         gap' \in [Sessions -> SUBSET Topics], faults' \in Nat,
         \A t : (OnWire(t) => OnWire(t)') /\ (OnWire(t)' => OnWire(t) \/ t = n),
         \/ OnWire(n)' /\ gap' = gap /\ faults' = faults
         \/ /\ \A r \in open : gap'[r] = gap[r] \cup {n}
            /\ faults' = faults + 1 \/ (listening = FALSE /\ faults' = faults)
  PROVE  Shape' /\ [Feed!FNext]_(Feed!vars) /\ (Reasons => Reasons')
<1>1. /\ reader \in [Sessions -> ReaderState] /\ reader[s].pc = "notify" /\ s \in open
      /\ open \subseteq Sessions /\ n \in Topics
  BY Facts DEF Settles, ReaderOK
<1>2. /\ reader' \in [Sessions -> ReaderState] /\ reader'[s].pc = "reply"
      /\ \A r \in Sessions : /\ reader'[r].topic = reader[r].topic
                             /\ reader'[r].value = reader[r].value
                             /\ reader'[r].base = reader[r].base
                             /\ reader'[r].passed = reader[r].passed
                             /\ r # s => reader'[r] = reader[r]
  BY <1>1 DEF Settles, ReaderState
<1>3. UNCHANGED <<db, changes, writer, listening, broker, open, channel, pusher, last, fetch,
                  view, requests>>
  BY DEF Settles
<1>4. Shape'
  <2>1. TypeOK'
    BY <1>2, <1>3 DEF Shape, TypeOK
  <2>2. ASSUME NEW r \in Sessions PROVE ReaderOK(r, reader[r])'
    <3>1. ReaderOK(r, reader[r])
      BY Facts
    <3>2. CASE r = s
      BY <1>1, <1>2, <1>3, <3>1, <3>2 DEF ReaderOK
    <3>3. CASE r # s
      BY <1>2, <1>3, <3>1, <3>3 DEF ReaderOK
    <3> QED BY <3>2, <3>3
  <2> QED BY <1>3, <2>1, <2>2 DEF Shape, BrokerOK
<1>5. /\ \A t : Announced(t)' => Announced(t)
      /\ \A t : Announced(t) => Announced(t)' \/ t = n
  BY <1>1, <1>2, <1>3 DEF Announced
<1>6. ASSUME NEW r \in Sessions
      PROVE  /\ Coming(r)' \subseteq Coming(r) /\ Coming(r) \subseteq Coming(r)' \cup {n}
             /\ OnWire(n)' => Coming(r)' = Coming(r)
  <2>1. \A t : Held(r, t)' <=> Held(r, t)
    BY <1>3 DEF Held
  <2>2. OnWire(n)' => Announced(n)'
    BY DEF Announced
  <2>3. \A t : /\ t \in Coming(r)' => t \in Coming(r)
               /\ t \in Coming(r) => t \in Coming(r)' \/ t = n
               /\ OnWire(n)' /\ t \in Coming(r) => t \in Coming(r)'
    BY <1>3, <1>5, <2>1, <2>2, ComingIs, ComingIsAfter
  <2> QED BY <2>3
<1>7. SamePushes
  BY <1>3 DEF SamePushes, TakenOf, Writing
<1>8. ASSUME OnWire(n)', faults' = faults PROVE UNCHANGED Feed!vars
  BY <1>1, <1>3, <1>6, <1>7, <1>8, FeedStutter
<1>9. ASSUME faults' = faults + 1 \/ (listening = FALSE /\ faults' = faults) PROVE Feed!FNext
  <2>1. listening' = TRUE => listening = TRUE
    BY <1>3
  <2>2. UNCHANGED db
    BY <1>3
  <2> QED BY <1>1, <1>6, <1>7, <1>9, <2>1, <2>2, FeedLose
<1>10. ASSUME NEW r \in open, NEW t \in Topics, Owed(r, t) PROVE Owed(r, t)'
  <2>1. t \in Coming(r) \cup gap[r] => t \in Coming(r)' \cup gap'[r]
    BY <1>1, <1>6
  <2> QED BY <1>3, <1>10, <2>1 DEF Owed
<1>11. ASSUME Reasons PROVE Reasons'
  <2>1. ASSUME NEW r \in open, NEW t \in Topics PROVE ReasonsAt(r, t)'
    <3>1. ReasonsAt(r, t) /\ r \in Sessions
      BY <1>1, <1>11 DEF Reasons
    <3>2. Owed(r, t) => Owed(r, t)'
      BY <1>10
    <3>3. /\ Replying(r, t)' <=> Replying(r, t)
          /\ Acknowledging(r, t)' <=> Acknowledging(r, t)
      <4>1. CASE r = s
        BY <1>1, <1>2, <4>1 DEF Replying, Acknowledging
      <4>2. CASE r # s
        BY <1>2, <3>1, <4>2 DEF Replying, Acknowledging
      <4> QED BY <4>1, <4>2
    <3> QED BY <1>2, <1>3, <3>1, <3>2, <3>3 DEF ReasonsAt, ViewOK, PushOK, ReplyOK, AckOK,
           BeingWritten, BeingReplied, Writing
  <2> QED BY <1>3, <2>1 DEF Reasons
<1> QED BY <1>4, <1>8, <1>9, <1>11

LEMMA AckAnnouncedStep ==
  ASSUME Shape, NEW s \in Sessions, AckAnnounced(s)
  PROVE  Shape' /\ [Feed!FNext]_(Feed!vars) /\ (Reasons => Reasons')
<1>1. PICK n : n = reader[s].topic
  OBVIOUS
<1>2. Settles(s) /\ Publish({n}) /\ faults' = faults
  BY <1>1 DEF AckAnnounced, Settles, dbVars, pushVars
<1>3. n \in Topics /\ faults' \in Nat
  BY <1>1, <1>2, Facts DEF Settles, ReaderOK
<1>4. /\ wire' \in Seq(SUBSET Topics) /\ \A i \in DOMAIN wire' : wire'[i] # {}
      /\ gap' \in [Sessions -> SUBSET Topics]
      /\ listening => gap' = gap /\ \A t : OnWire(t)' <=> OnWire(t) \/ t = n
      /\ ~listening => /\ \A t : OnWire(t)' <=> OnWire(t)
                       /\ \A r \in open : gap'[r] = gap[r] \cup {n}
  <2>1. {n} \subseteq Topics /\ {n} # {} /\ \A t : t \in {n} <=> t = n
    BY <1>3
  <2> QED BY <1>2, <2>1, PublishIs
<1>5. \A t : (OnWire(t) => OnWire(t)') /\ (OnWire(t)' => OnWire(t) \/ t = n)
  BY <1>4
<1>6. \/ OnWire(n)' /\ gap' = gap /\ faults' = faults
      \/ /\ \A r \in open : gap'[r] = gap[r] \cup {n}
         /\ faults' = faults + 1 \/ (listening = FALSE /\ faults' = faults)
  <2>1. listening \in BOOLEAN
    BY Facts
  <2>2. ~listening => listening = FALSE
    BY <2>1, Zenon
  <2> QED BY <1>2, <1>4, <2>2
<1> QED BY <1>1, <1>2, <1>3, <1>4, <1>5, <1>6, SettleStep

LEMMA AckUnannouncedStep ==
  ASSUME Shape, NEW s \in Sessions, AckUnannounced(s)
  PROVE  Shape' /\ [Feed!FNext]_(Feed!vars) /\ (Reasons => Reasons')
<1>1. PICK n : n = reader[s].topic
  OBVIOUS
<1>2. Settles(s) /\ gap' = Missed({n}) /\ wire' = wire /\ faults' = faults + 1
  BY <1>1 DEF AckUnannounced, Settles, dbVars, brokerVars, pushVars
<1>3. n \in Topics /\ faults' \in Nat
  BY <1>1, <1>2, Facts DEF Settles, ReaderOK
<1>4. /\ gap' \in [Sessions -> SUBSET Topics]
      /\ \A r \in open : gap'[r] = gap[r] \cup {n}
  BY <1>2, <1>3, MissedIs
<1>5. \A t : OnWire(t)' <=> OnWire(t)
  BY <1>2 DEF OnWire
<1>6. wire' \in Seq(SUBSET Topics) /\ \A i \in DOMAIN wire' : wire'[i] # {}
  BY <1>2, Facts
<1> QED BY <1>1, <1>2, <1>3, <1>4, <1>5, <1>6, SettleStep

-----------------------------------------------------------------------------
(* Sessions come and go *)

\* A session to which nothing comes or happens keeps its reasons.
LEMMA SameReasons ==
  ASSUME Reasons, NEW r \in open, NEW t \in Topics, UNCHANGED db, Coming(r)' = Coming(r),
         pusher'[r] = pusher[r], reader'[r] = reader[r], fetch'[r] = fetch[r],
         view'[r] = view[r], gap'[r] = gap[r]
  PROVE  ReasonsAt(r, t)'
<1>1. ReasonsAt(r, t)
  BY DEF Reasons
<1> QED BY <1>1 DEF ReasonsAt, ViewOK, PushOK, ReplyOK, AckOK, Owed, BeingWritten,
       BeingReplied, Writing, Replying, Acknowledging

\* A new session shows what its client had and fetches everything.
LEMMA ConnectStep ==
  ASSUME Shape, NEW s \in Sessions, Connect(s)
  PROVE  Shape' /\ Feed!FNext /\ (Reasons => Reasons')
<1>1. /\ s \notin open /\ open' = open \cup {s}
      /\ channel' = [channel EXCEPT ![s] = {}] /\ pusher' = [pusher EXCEPT ![s] = IdlePusher]
      /\ last' = [last EXCEPT ![s] = [t \in Topics |-> Nothing]]
      /\ reader' = [reader EXCEPT ![s] = IdleReader] /\ fetch' = [fetch EXCEPT ![s] = Topics]
      /\ gap' = [gap EXCEPT ![s] = {}]
      /\ UNCHANGED <<db, changes, writer, listening, wire, broker, view, requests, faults>>
  BY DEF Connect, dbVars, brokerVars
<1>2. open \subseteq Sessions /\ BrokerOK /\ reader[s].pc = "idle"
  BY <1>1, Facts DEF ReaderOK, ReaderState
<1>3. /\ channel' \in [Sessions -> SUBSET Topics] /\ pusher' \in [Sessions -> PusherState]
      /\ last' \in [Sessions -> [Topics -> Shown]] /\ reader' \in [Sessions -> ReaderState]
      /\ fetch' \in [Sessions -> SUBSET Topics] /\ gap' \in [Sessions -> SUBSET Topics]
      /\ channel'[s] = {} /\ pusher'[s] = IdlePusher /\ reader'[s] = IdleReader
      /\ fetch'[s] = Topics
  BY <1>1, Facts, Initial DEF Shown
<1>4. \A r \in Sessions : r # s =>
        /\ channel'[r] = channel[r] /\ pusher'[r] = pusher[r] /\ last'[r] = last[r]
        /\ reader'[r] = reader[r] /\ fetch'[r] = fetch[r] /\ gap'[r] = gap[r]
  BY <1>1, Facts
<1>5. Shape'
  <2>1. TypeOK'
    BY <1>1, <1>2, <1>3 DEF Shape, TypeOK
  <2>2. BrokerOK'
    BY <1>1, <1>2, <1>3, <1>4 DEF BrokerOK
  <2>3. ASSUME NEW r \in Sessions PROVE (PusherOK(pusher[r]) /\ ReaderOK(r, reader[r]))'
    <3>1. CASE r = s
      BY <1>3, <3>1, Initial DEF ReaderOK
    <3>2. CASE r # s
      <4>1. PusherOK(pusher[r]) /\ ReaderOK(r, reader[r])
        BY Facts
      <4> QED BY <1>1, <1>4, <3>2, <4>1 DEF ReaderOK
    <3> QED BY <3>1, <3>2
  <2> QED BY <1>1, <2>1, <2>2, <2>3, Facts DEF Shape
<1>6. ASSUME NEW r \in open PROVE Coming(r)' = Coming(r) /\ r \in Sessions /\ r # s
  <2>1. r \in Sessions /\ r # s
    BY <1>1, <1>2
  <2>2. ASSUME NEW t PROVE Announced(t)' <=> Announced(t)
    <3>1. OnWire(t)' <=> OnWire(t)
      BY <1>1 DEF OnWire
    <3>2. \A q \in open : reader'[q] = reader[q]
      BY <1>1, <1>2, <1>4
    <3>3. reader'[s].pc # "notify"
      BY <1>3, Initial
    <3> QED BY <1>1, <3>1, <3>2, <3>3 DEF Announced
  <2>3. \A t : Held(r, t)' <=> Held(r, t)
    BY <1>1, <1>4, <2>1 DEF Held
  <2>4. \A t : t \in Coming(r)' <=> t \in Coming(r)
    BY <1>1, <2>2, <2>3, ComingIs, ComingIsAfter
  <2> QED BY <2>1, <2>4
<1>7. Feed!FNext
  <2>1. ASSUME NEW r \in open \cap Healthy'
        PROVE  /\ r \in Healthy /\ Coming(r)' = Coming(r)
               /\ \A t \in Topics : TakenOf(r, t)' = TakenOf(r, t)
    <3>1. pusher'[r] = pusher[r] /\ last'[r] = last[r]
      BY <1>4, <1>6
    <3> QED BY <1>6, <3>1 DEF Healthy, TakenOf, Writing
  <2> QED BY <1>1, <1>2, <2>1, FeedMembership
<1>8. ASSUME Reasons PROVE Reasons'
  <2>1. ASSUME NEW t \in Topics PROVE ReasonsAt(s, t)'
    BY <1>3, Initial DEF ReasonsAt, ViewOK, PushOK, ReplyOK, AckOK, Writing, Replying,
       Acknowledging
  <2>2. ASSUME NEW r \in open, NEW t \in Topics PROVE ReasonsAt(r, t)'
    BY <1>1, <1>4, <1>6, <1>8, SameReasons
  <2> QED BY <1>1, <2>1, <2>2 DEF Reasons
<1> QED BY <1>5, <1>7, <1>8

\* What the broker holds for the others when it forgets s.
LEMMA WithoutIs ==
  ASSUME Shape, NEW s \in open
  PROVE  /\ Without(s) \in BrokerState
         /\ Without(s).targets = broker.targets \ {s}
         /\ Without(s).pc = "idle" => Without(s).targets = {}
         /\ Without(s).pc # "idle" =>
              /\ broker.pc # "idle" /\ Without(s).topics = broker.topics
              /\ Without(s).pc # "put" =>
                   /\ Without(s).pc = broker.pc /\ Without(s).session = broker.session
                   /\ Without(s).merged = broker.merged
         /\ Without(s).targets # {} => Without(s).topics = broker.topics
         /\ broker.pc = "putBack" /\ broker.session # s =>
              /\ Without(s).pc = "putBack" /\ Without(s).session = broker.session
              /\ Without(s).merged = broker.merged
         /\ Without(s).pc \in {"take", "putBack"} => broker.session # s
<1>1. broker \in BrokerState /\ BrokerOK /\ s \in Sessions
  BY Facts
<1>2. CASE broker.pc \in {"take", "putBack"} /\ broker.session = s
  BY <1>1, <1>2, ForwardIs DEF Without
<1>3. CASE ~(broker.pc \in {"take", "putBack"} /\ broker.session = s) /\ broker.targets = {s}
  BY <1>1, <1>3, Initial DEF Without, BrokerOK
<1>4. CASE ~(broker.pc \in {"take", "putBack"} /\ broker.session = s) /\ broker.targets # {s}
  <2>1. Without(s) = [broker EXCEPT !.targets = broker.targets \ {s}]
    BY <1>4 DEF Without
  <2> QED BY <1>1, <1>4, <2>1 DEF BrokerState, BrokerOK
<1> QED BY <1>2, <1>3, <1>4

LEMMA DisconnectStep ==
  ASSUME Shape, NEW s \in Sessions, Disconnect(s), faults' \in Nat
  PROVE  Shape' /\ Feed!FNext /\ (Reasons => Reasons')
<1>1. /\ s \in open /\ reader[s].pc \notin {"ack", "notify"} /\ open' = open \ {s}
      /\ broker' = Without(s)
      /\ channel' = [channel EXCEPT ![s] = {}] /\ pusher' = [pusher EXCEPT ![s] = IdlePusher]
      /\ reader' = [reader EXCEPT ![s] = IdleReader] /\ fetch' = [fetch EXCEPT ![s] = {}]
      /\ gap' = [gap EXCEPT ![s] = {}]
      /\ last' = [last EXCEPT ![s] = [t \in Topics |-> Nothing]]
      /\ UNCHANGED <<db, changes, writer, listening, wire, view, requests>>
  BY DEF Disconnect, dbVars
<1>2. open \subseteq Sessions /\ BrokerOK
  BY Facts
<1>3. /\ channel' \in [Sessions -> SUBSET Topics] /\ pusher' \in [Sessions -> PusherState]
      /\ last' \in [Sessions -> [Topics -> Shown]] /\ reader' \in [Sessions -> ReaderState]
      /\ fetch' \in [Sessions -> SUBSET Topics] /\ gap' \in [Sessions -> SUBSET Topics]
      /\ channel'[s] = {} /\ pusher'[s] = IdlePusher /\ reader'[s] = IdleReader
  BY <1>1, Facts, Initial DEF Shown
<1>4. \A r \in Sessions : r # s =>
        /\ channel'[r] = channel[r] /\ pusher'[r] = pusher[r] /\ last'[r] = last[r]
        /\ reader'[r] = reader[r] /\ fetch'[r] = fetch[r] /\ gap'[r] = gap[r]
  BY <1>1, Facts
<1>5. /\ broker' \in BrokerState
      /\ broker'.targets = broker.targets \ {s}
      /\ broker'.pc = "idle" => broker'.targets = {}
      /\ broker'.pc # "idle" =>
           /\ broker.pc # "idle" /\ broker'.topics = broker.topics
           /\ broker'.pc # "put" =>
                /\ broker'.pc = broker.pc /\ broker'.session = broker.session
                /\ broker'.merged = broker.merged
      /\ broker'.targets # {} => broker'.topics = broker.topics
      /\ broker.pc = "putBack" /\ broker.session # s =>
           /\ broker'.pc = "putBack" /\ broker'.session = broker.session
           /\ broker'.merged = broker.merged
      /\ broker'.pc \in {"take", "putBack"} => broker.session # s
  BY <1>1, WithoutIs
<1>6. BrokerOK'
  BY <1>1, <1>2, <1>4, <1>5 DEF BrokerOK, BrokerState
<1>7. Shape'
  <2>1. TypeOK'
    <3>1. broker'.pc \in {"take", "putBack"} => broker'.session \in Sessions /\ broker'.topics # {}
      BY <1>1, <1>2, <1>5, <1>6 DEF BrokerOK
    <3> QED BY <1>1, <1>2, <1>3, <1>5, <3>1 DEF Shape, TypeOK
  <2>2. ASSUME NEW r \in Sessions PROVE (PusherOK(pusher[r]) /\ ReaderOK(r, reader[r]))'
    <3>1. CASE r = s
      BY <1>3, <3>1, Initial DEF ReaderOK
    <3>2. CASE r # s
      <4>1. PusherOK(pusher[r]) /\ ReaderOK(r, reader[r])
        BY Facts
      <4> QED BY <1>1, <1>4, <3>2, <4>1 DEF ReaderOK
    <3> QED BY <3>1, <3>2
  <2> QED BY <1>1, <1>6, <2>1, <2>2, Facts DEF Shape
<1>8. ASSUME NEW r \in open, r # s PROVE Coming(r)' = Coming(r) /\ r \in Sessions
  <2>1. r \in Sessions
    BY <1>2
  <2>2. ASSUME NEW t PROVE Announced(t)' <=> Announced(t)
    <3>1. OnWire(t)' <=> OnWire(t)
      BY <1>1 DEF OnWire
    <3>2. \A q \in open' : reader'[q] = reader[q]
      BY <1>1, <1>2, <1>4
    <3> QED BY <1>1, <3>1, <3>2 DEF Announced
  <2>3. ASSUME NEW t PROVE Held(r, t)' <=> Held(r, t)
    <3>1. channel'[r] = channel[r] /\ pusher'[r] = pusher[r]
      BY <1>4, <1>8, <2>1
    <3>2. (r \in broker'.targets /\ t \in broker'.topics)
             <=> (r \in broker.targets /\ t \in broker.topics)
      BY <1>5, <1>8
    <3>3. (broker'.pc = "putBack" /\ broker'.session = r /\ t \in broker'.merged)
             <=> (broker.pc = "putBack" /\ broker.session = r /\ t \in broker.merged)
      BY <1>5, <1>8
    <3> QED BY <3>1, <3>2, <3>3 DEF Held
  <2>4. \A t : t \in Coming(r)' <=> t \in Coming(r)
    BY <1>1, <1>8, <2>2, <2>3, ComingIs, ComingIsAfter
  <2> QED BY <2>1, <2>4
<1>9. Feed!FNext
  <2>1. ASSUME NEW r \in open \cap Healthy'
        PROVE  /\ r \in Healthy /\ Coming(r)' = Coming(r)
               /\ \A t \in Topics : TakenOf(r, t)' = TakenOf(r, t)
    <3>1. r # s
      BY <1>1 DEF Healthy
    <3>2. pusher'[r] = pusher[r] /\ last'[r] = last[r]
      BY <1>4, <1>8, <3>1
    <3> QED BY <1>8, <3>1, <3>2 DEF Healthy, TakenOf, Writing
  <2> QED BY <1>1, <1>2, <2>1, FeedMembership
<1>10. ASSUME Reasons PROVE Reasons'
  <2>1. ASSUME NEW r \in open, r # s, NEW t \in Topics PROVE ReasonsAt(r, t)'
    BY <1>1, <1>4, <1>8, <1>10, <2>1, SameReasons
  <2> QED BY <1>1, <2>1 DEF Reasons
<1> QED BY <1>7, <1>9, <1>10

-----------------------------------------------------------------------------
(* The theorems *)

\* Every step keeps the invariants and is a step or a stutter of TopicFeed.
LEMMA NextStep ==
  ASSUME Shape, Next
  PROVE  Shape' /\ [Feed!FNext]_(Feed!vars) /\ (Reasons => Reasons')
<1>1. CASE WriteTx
  BY <1>1, WriteTxStep
<1>2. CASE UnannouncedWrite
  BY <1>2, UnannouncedWriteStep
<1>3. CASE \E w \in Writers : Write(w) \/ notifyRealtimeBestEffort(w) \/ NotifyFails(w)
  BY <1>3, WriteStep, NotifyStep, NotifyFailsStep
<1>4. CASE BrokerStep
  BY <1>4, ReceiveStep, TryPutStep, TakePendingStep, PutBackStep DEF BrokerStep
<1>5. CASE ListenerFails
  BY <1>5, ListenerFailsStep
<1>6. CASE ListenerReconnects
  BY <1>6, ListenerReconnectsStep
<1>7. ASSUME NEW s \in Sessions,
             \/ PusherStep(s) \/ PushReadFails(s) \/ PushWriteFails(s)
             \/ Connect(s) \/ ReaderStep(s) \/ ClientLeaves(s)
             \/ AckUnannounced(s) \/ AckFails(s)
             \/ \E t \in Topics : Request(s, t) \/ Ack(s, t) \/ FetchFails(s, t)
      PROVE  Shape' /\ [Feed!FNext]_(Feed!vars) /\ (Reasons => Reasons')
  <2>1. CASE PusherStep(s)
    BY <2>1, PushReceiveStep, PushReadStep, PushWriteStep DEF PusherStep
  <2>2. CASE PushReadFails(s)
    BY <2>2, PushReadFailsStep
  <2>3. CASE PushWriteFails(s)
    BY <2>3, PushWriteFailsStep
  <2>4. CASE Connect(s)
    BY <2>4, ConnectStep
  <2>5. CASE \E t \in Topics : Fetch(s, t)
    BY <2>5, FetchStep
  <2>6. CASE AckInbox(s)
    BY <2>6, AckInboxStep
  <2>7. CASE AckAnnounced(s)
    BY <2>7, AckAnnouncedStep
  <2>8. CASE Reply(s)
    BY <2>8, ReplyStep
  <2>9. CASE ReplyFails(s)
    <3>1. Disconnect(s) /\ faults' \in Nat
      BY <2>9, Facts DEF ReplyFails
    <3> QED BY <3>1, DisconnectStep
  <2>10. CASE ClientLeaves(s)
    <3>1. Disconnect(s) /\ faults' \in Nat
      BY <2>10, Facts DEF ClientLeaves
    <3> QED BY <3>1, DisconnectStep
  <2>11. CASE AckUnannounced(s)
    BY <2>11, AckUnannouncedStep
  <2>12. CASE AckFails(s)
    BY <2>12, AckFailsStep
  <2>13. CASE \E t \in Topics : Request(s, t) \/ Ack(s, t) \/ FetchFails(s, t)
    BY <2>13, RequestStep, AckStep, FetchFailsStep
  <2> QED BY <1>7, <2>1, <2>2, <2>3, <2>4, <2>5, <2>6, <2>7, <2>8, <2>9, <2>10, <2>11, <2>12,
         <2>13 DEF ReaderStep
<1> QED BY <1>1, <1>2, <1>3, <1>4, <1>5, <1>6, <1>7 DEF Next

LEMMA StutterStep ==
  ASSUME Shape, UNCHANGED vars
  PROVE  Shape' /\ UNCHANGED Feed!vars /\ (Reasons => Reasons')
<1>1. Outside /\ UNCHANGED <<db, changes, writer, listening, wire, broker, open, channel, faults,
                             gap, pusher, clientVars>>
  BY DEF vars, Outside, dbVars, brokerVars, pushVars
<1>2. \A s \in Sessions : Coming(s)' = Coming(s)
  BY <1>1, ComingStays
<1>3. Shape'
  BY <1>1, ShapeOutside, Facts
<1>4. UNCHANGED Feed!vars
  BY <1>1, <1>2, FeedStutter, SamePushesOutside, Facts
<1>5. ASSUME Reasons PROVE Reasons'
  <2>1. ASSUME NEW s \in open, NEW t \in Topics
        PROVE  /\ t \in Coming(s) \cup gap[s] => t \in Coming(s)' \cup gap'[s]
               /\ db'[t] # db[t] => t \in Coming(s)' \cup gap'[s]
    BY <1>1, <1>2, Facts
  <2> QED BY <1>1, <1>5, <2>1, ReasonsKept
<1> QED BY <1>3, <1>4, <1>5

LEMMA Invariance == Spec => [](Shape /\ Reasons)
<1>1. Init => Shape /\ Reasons
  BY ShapeInit DEF Init, Reasons
<1>2. Shape /\ Reasons /\ [Next]_vars => (Shape /\ Reasons)'
  BY NextStep, StutterStep
<1> QED BY <1>1, <1>2, PTL DEF Spec

\* The goroutines and queues are well-formed in every state; in particular the
\* three selects of the broker (queueRealtimeNotification) have a subscriber
\* and topics in hand whenever they take out what is pending and put it back.
THEOREM TypeCorrect == Spec => []TypeOK
<1>1. Shape /\ Reasons => TypeOK
  BY DEF Shape
<1> QED BY <1>1, Invariance, PTL

\* A client that shows an old content of a topic is about to get the current
\* one, or an announcement or a read was lost, a push and a reply passed each
\* other, the content is again what was pushed before, or its pusher is dead.
\* It rests on what is true of the content being written, of the answer being
\* sent and of the list an acknowledgement keeps, whatever the client shows.
THEOREM StaleOnlyForAReason == Spec => []StaleForAReason
<1>1. ASSUME Reasons PROVE StaleForAReason
  <2>1. ASSUME NEW s \in open, NEW t \in Topics
        PROVE  \/ view[s][t] = db[t]
               \/ t \in Coming(s) \cup fetch[s] \cup gap[s]
               \/ Writing(s, t) /\ pusher[s].value = db[t]
               \/ Replying(s, t) /\ reader[s].value = db[t]
               \/ Acknowledging(s, t)
               \/ pusher[s].pc = "dead"
    BY <1>1 DEF Reasons, ReasonsAt, ViewOK, Owed, BeingWritten, BeingReplied
  <2> QED BY <2>1 DEF StaleForAReason
<1> QED BY <1>1, Invariance, PTL

\* To the sessions, the wire, the dispatch loop and the one-element channels
\* that three selects merge into without a lock are a set of topics each: a
\* commit adds what it announces, a read takes a topic with the content of that
\* moment, and only a fault or a connection that is down loses one.
THEOREM Refinement == Spec => ImplementsTopicFeed
<1>1. Init => Feed!FInit
  BY FeedInit
<1>2. Shape /\ [Next]_vars => [Feed!FNext]_(Feed!vars)
  BY NextStep, StutterStep
<1>3. Spec => []Shape
  BY Invariance, PTL
<1> QED BY <1>1, <1>2, <1>3, PTL DEF Spec, ImplementsTopicFeed, Feed!FSpec

=============================================================================
