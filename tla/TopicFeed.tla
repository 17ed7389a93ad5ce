----------------------------- MODULE TopicFeed -----------------------------
(***************************************************************************)
(* What the realtime broker promises a subscriber: the set of topics that  *)
(* changed since they were last read for it.  A topic enters the set when  *)
(* its content changes and leaves it only when its current content is      *)
(* read; the exceptions are topics whose changes nobody announces, a loss  *)
(* the environment is charged with, and the time without a listener.       *)
(***************************************************************************)
EXTENDS Naturals

CONSTANTS Topics, Sessions,
  Silent    \* topics that may also change unannounced

VARIABLES
  content,    \* what a read of each topic returns
  connected,  \* the listener's connection is up
  losses,     \* losses the environment caused
  open,       \* the subscribed sessions
  healthy,    \* those whose pusher still runs
  dirty,      \* per session: topics announced and not read since
  taken       \* per session and topic: content of the last read

vars == <<content, connected, losses, open, healthy, dirty, taken>>

FInit ==
  /\ connected = TRUE
  /\ losses = 0
  /\ open = {} /\ healthy = {}
  /\ dirty = [s \in Sessions |-> {}]

\* A commit: every subscriber is owed what it announces, and all it changes is
\* announced.
Change ==
  /\ UNCHANGED <<connected, losses, open, healthy, taken>>
  /\ \E announced \in SUBSET Topics :
       /\ dirty' = [s \in Sessions |-> IF s \in open THEN dirty[s] \cup announced ELSE dirty[s]]
       /\ connected = TRUE => \A t \in Topics : content'[t] # content[t] => t \in announced \cup Silent

\* The current content of an announced topic is read for a session; the topic
\* stays in the set when it was announced again meanwhile.
Take(s, t) ==
  /\ s \in healthy /\ t \in dirty[s]
  /\ UNCHANGED <<content, connected, losses, open, healthy>>
  /\ taken' = [taken EXCEPT ![s][t] = content[t]]
  /\ dirty' \in {dirty, [dirty EXCEPT ![s] = @ \ {t}]}

\* Announcements get lost.
Lose ==
  /\ losses' = losses + 1 \/ (connected = FALSE /\ losses' = losses)
  /\ connected' = TRUE => connected = TRUE
  /\ UNCHANGED <<content, open, healthy, taken>>
  /\ \A s \in Sessions : dirty'[s] \subseteq dirty[s]

Reconnect ==
  /\ connected' = TRUE
  /\ UNCHANGED <<content, losses, open, healthy, dirty, taken>>

\* Sessions come, stop pushing and go; the others are not disturbed.
Membership ==
  /\ UNCHANGED <<content, connected>>
  /\ healthy' \subseteq open'
  /\ \A s \in open \cap healthy' :
       s \in healthy /\ taken'[s] = taken[s] /\ dirty'[s] = dirty[s]

FNext ==
  \/ Change \/ Lose \/ Reconnect \/ Membership
  \/ \E s \in Sessions, t \in Topics : Take(s, t)

FSpec == FInit /\ [][FNext]_vars
=============================================================================
