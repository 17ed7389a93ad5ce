-------------------------- MODULE Sessions_proofs ---------------------------
(***************************************************************************)
(* Tokens, names and what the client holds, for any number of sessions,    *)
(* tokens, futures, upgrades and faults.                                   *)
(***************************************************************************)
EXTENDS Sessions, TLAPS

USE SessionsAssumption

Busy(c) == calls[c].pc # "idle"

\* A session's hash is that of a pair of its own.
OwnTokens == \A s \in 1..opened : sessionOf[sessions[s].token] = s

\* Answers and what an operation holds are real tokens; an answer belongs to
\* the session of the token it was exchanged for.
AnswersOK ==
  /\ \A c \in Calls : calls[c].pc = "answered" =>
       calls[c].next \in 1..minted /\ sessionOf[calls[c].next] = sessionOf[calls[c].token]
  /\ op.pc \in {"signedIn", "logout"} => op.token \in 1..minted

\* refreshTokens never starts a second refresh.
OneFlight == \A q, r \in Slots : Busy(q) /\ Busy(r) => q = r

\* An exchanged token is not the one its session would accept, so a call that
\* passed the check has a token nobody exchanged, or one of overlapping calls.
Exchanges ==
  \A t \in Tokens :
    /\ exchanged[t] > 0 => /\ t <= minted
                           /\ sessions[sessionOf[t]].revoked \/ sessions[sessionOf[t]].token # t
    /\ exchanged[t] <= 1 \/ t \in overlap
    /\ \A c \in Calls : calls[c].pc = "checked" /\ calls[c].token = t =>
         exchanged[t] = 0 \/ t \in overlap

UniqueNames == \A u, v \in UserIds : name[u] = name[v] /\ name[u] # NoName => u = v

\* Between the answer of a sign-in and its being stored nothing else refers to
\* the new session.
NewLogin ==
  op.pc = "signedIn" =>
    /\ sessions[sessionOf[op.token]].token = op.token
    /\ storage # 0 => sessionOf[storage] # sessionOf[op.token]
    /\ \A c \in Calls : Busy(c) => sessionOf[calls[c].token] # sessionOf[op.token]

Live == current # 0 /\ Accepts(sessions[current].token)

\* InStep, at rest or not: the refresh under way is of the pair in storage; while
\* the session is live, storage or the answer holds what it would accept, and
\* a refusal cannot be under way.
Follows ==
  reasons = {} =>
    /\ storage # 0 => sessionOf[storage] = current
    /\ \A c \in Late : Busy(c) => sessionOf[calls[c].token] # current
    /\ \A r \in Slots : Busy(r) => calls[r].token = storage
    /\ Live => \A r \in Slots :
                 /\ calls[r].pc # "refused"
                 /\ calls[r].pc = "answered" => calls[r].next = sessions[current].token
    /\ Live /\ (\A r \in Slots : calls[r].pc # "answered") => storage = sessions[current].token

\* The inductive invariant.
IInv ==
  /\ TypeOK /\ OwnTokens /\ AnswersOK /\ OneFlight
  /\ Exchanges /\ UniqueNames /\ NewLogin /\ Follows

-----------------------------------------------------------------------------
(* Operators and the initial state *)

\* Bounds as the provers use them: ids below the counters are ids of the tables.
LEMMA Ranges ==
  ASSUME IInv
  PROVE  /\ minted \in Nat /\ opened \in Nat /\ minted <= MaxTokens /\ opened <= MaxSessions
         /\ \A t \in 1..minted : t \in Tokens /\ sessionOf[t] \in 1..opened /\ sessionOf[t] \in SessionIds
         /\ \A s \in 1..opened : s \in SessionIds /\ sessions[s].token \in 1..minted
         /\ \A c \in Calls : calls[c] \in Call /\ (Busy(c) => calls[c].token \in 1..minted)
         /\ Slots \subseteq Calls /\ Late \subseteq Calls /\ Slots \cap Late = {}
<1>1. minted \in Nat /\ opened \in Nat /\ minted <= MaxTokens /\ opened <= MaxSessions
  BY DEF IInv, TypeOK
<1>2. \A t \in 1..minted : t \in Tokens /\ sessionOf[t] \in 1..opened /\ sessionOf[t] \in SessionIds
  BY <1>1 DEF IInv, TypeOK, Tokens, SessionIds
<1>3. \A s \in 1..opened : s \in SessionIds /\ sessions[s].token \in 1..minted
  BY <1>1 DEF IInv, TypeOK, SessionIds
<1>4. \A c \in Calls : calls[c] \in Call /\ (Busy(c) => calls[c].token \in 1..minted)
  BY DEF IInv, TypeOK, Busy
<1>5. Slots \subseteq Calls /\ Late \subseteq Calls /\ Slots \cap Late = {}
  BY DEF Calls, Late
<1> QED
  BY <1>1, <1>2, <1>3, <1>4, <1>5

\* A session that is live holds a token of its own, not expired, and is not
\* revoked; and nothing more.
LEMMA LiveMeans ==
  ASSUME IInv
  PROVE  Live <=> /\ current # 0
                  /\ sessions[current].token \notin expired
                  /\ ~sessions[current].revoked
<1>1. current # 0 => current \in 1..opened
  BY Ranges DEF IInv, TypeOK
<1> QED
  BY <1>1 DEF IInv, Live, Accepts, OwnTokens

\* Nothing has happened yet.
LEMMA InitIInv == Init => IInv
<1> SUFFICES ASSUME Init PROVE IInv
  OBVIOUS
<1> USE DEF Init
<1>1. TypeOK
  <2>1. sessions \in [SessionIds -> Session]
    BY DEF Session
  <2>2. calls \in [Calls -> Call] /\ op \in Op /\ \A c \in Calls : calls[c].pc = "idle"
    BY DEF NoCall, Call, At, Op
  <2>3. name \in [UserIds -> Names \cup {NoName}] /\ exchanged \in [Tokens -> Nat]
    OBVIOUS
  <2>4. sessionOf \in [Tokens -> 0..MaxSessions]
    OBVIOUS
  <2>5. \A t \in Tokens : ~(t <= minted)
    BY DEF Tokens
  <2> QED
    BY <2>1, <2>2, <2>3, <2>4, <2>5 DEF TypeOK
<1>2. \A c \in Calls : calls[c].pc = "idle"
  BY DEF NoCall
<1>3. op.pc = "start"
  BY DEF At
<1>4. Slots \subseteq Calls /\ Late \subseteq Calls
  BY DEF Calls
<1>5. OwnTokens /\ AnswersOK /\ OneFlight
  BY <1>2, <1>3, <1>4 DEF OwnTokens, AnswersOK, OneFlight, Busy
<1>6. Exchanges /\ UniqueNames /\ NewLogin
  BY <1>2, <1>3 DEF Exchanges, UniqueNames, NewLogin
<1>7. Follows
  BY <1>2, <1>4 DEF Follows, Live, Busy
<1> QED
  BY <1>1, <1>5, <1>6, <1>7 DEF IInv

-----------------------------------------------------------------------------
(* AuthService *)

\* The check of a refresh: a call that passes has the token its session holds,
\* which nobody has exchanged; a refused one shows that the session is not live.
LEMMA CheckKeeps == ASSUME IInv, NEW c \in Calls, CheckRefresh(c) PROVE IInv'
<1> DEFINE t == calls[c].token
           p == IF Accepts(t) THEN "checked" ELSE "refused"
<1> USE DEF IInv
<1>1. /\ calls[c].pc = "sent" /\ t \in 1..minted /\ calls[c] \in Call
      /\ UNCHANGED <<accountVars, sessionVars, expired, storage, op, faults, historyVars,
                     current, reasons>>
      /\ calls' = [calls EXCEPT ![c].pc = p]
  BY Ranges DEF CheckRefresh, Busy
<1>2. /\ calls' \in [Calls -> Call] /\ calls'[c] = [calls[c] EXCEPT !.pc = p]
      /\ \A d \in Calls \ {c} : calls'[d] = calls[d]
  BY <1>1 DEF TypeOK, Call
<1>3. calls'[c].pc = p /\ calls'[c].token = t
  BY <1>1, <1>2 DEF Call
<1>4. \A d \in Calls : calls'[d].token = calls[d].token /\ (Busy(d)' <=> Busy(d))
  BY <1>1, <1>2, <1>3 DEF Busy
<1>5. \A d \in Calls : calls'[d].pc = "answered" => calls'[d] = calls[d]
  BY <1>2, <1>3
<1>6. TypeOK'
  BY <1>1, <1>2, <1>4 DEF TypeOK, Busy, accountVars, sessionVars, historyVars
<1>7. OwnTokens' /\ UniqueNames'
  BY <1>1 DEF OwnTokens, UniqueNames, accountVars, sessionVars
<1>8. AnswersOK'
  BY <1>1, <1>5 DEF AnswersOK, sessionVars
<1>9. OneFlight'
  BY <1>4, Ranges DEF OneFlight
<1>10. Exchanges'
  <2>1. Accepts(t) => exchanged[t] = 0
    BY <1>1, Ranges DEF Exchanges, Accepts, TypeOK
  <2>2. \A d \in Calls : calls'[d].pc = "checked" =>
          exchanged[calls'[d].token] = 0 \/ calls'[d].token \in overlap
    BY <1>2, <1>3, <2>1, Ranges DEF Exchanges, Busy
  <2> QED
    BY <1>1, <2>2 DEF Exchanges, sessionVars, historyVars
<1>11. NewLogin'
  BY <1>1, <1>4 DEF NewLogin, sessionVars
<1>12. Follows'
  <2> SUFFICES ASSUME reasons = {} PROVE Follows'
    BY <1>1 DEF Follows
  <2>1. Live' <=> Live
    BY <1>1 DEF Live, Accepts, sessionVars
  <2>2. \A r \in Slots : Live => calls'[r].pc # "refused"
    <3> SUFFICES ASSUME Live, c \in Slots PROVE Accepts(t)
      BY <1>2, <1>3, Ranges DEF Follows
    <3>1. t = storage /\ \A r \in Slots \ {c} : ~Busy(r)
      BY <1>1 DEF Follows, OneFlight, Busy
    <3>2. storage = sessions[current].token
      BY <1>1, <3>1 DEF Follows, Busy
    <3> QED
      BY <3>1, <3>2 DEF Live
  <2>3. \A r \in Slots : calls'[r].pc = "answered" <=> calls[r].pc = "answered"
    BY <1>1, <1>2, <1>3, Ranges
  <2>4. \A r \in Slots : calls'[r].pc = "answered" => calls'[r].next = calls[r].next
    BY <1>5, Ranges
  <2>5. \A r \in Slots : Busy(r)' => calls'[r].token = storage
    BY <1>4, Ranges DEF Follows
  <2>6. \A d \in Late : Busy(d)' => sessionOf[calls'[d].token] # current
    BY <1>4, Ranges DEF Follows
  <2> QED
    BY <1>1, <2>1, <2>2, <2>3, <2>4, <2>5, <2>6 DEF Follows, sessionVars
<1> QED
  BY <1>6, <1>7, <1>8, <1>9, <1>10, <1>11, <1>12

\* The exchange itself: the session's hash becomes the new token, unless the
\* session was revoked meanwhile.
LEMMA RefreshKeeps == ASSUME IInv, NEW c \in Calls, Refresh(c) PROVE IInv'
<1> DEFINE t == calls[c].token
           s == sessionOf[t]
           n == minted + 1
<1> USE DEF IInv
<1>1. /\ calls[c].pc = "checked" /\ t \in 1..minted /\ calls[c] \in Call
      /\ s \in 1..opened /\ s \in SessionIds
      /\ UNCHANGED <<accountVars, opened, expired, storage, op, faults, current, reasons>>
  BY Ranges DEF Refresh, Busy
<1>2. /\ minted < MaxTokens /\ minted' = n /\ n \in Tokens /\ n \notin 1..minted
      /\ sessionOf' = [sessionOf EXCEPT ![n] = s]
  BY Ranges DEF Refresh, MintPair, Tokens
<1>3. sessionOf' \in [Tokens -> 0..MaxSessions] /\ sessionOf'[n] = s
      /\ \A u \in Tokens \ {n} : sessionOf'[u] = sessionOf[u]
  BY <1>1, <1>2 DEF TypeOK, SessionIds
<1>4. \A u \in 1..minted : sessionOf'[u] = sessionOf[u]
  BY <1>2, <1>3, Ranges
<1>5. sessions' = IF sessions[s].revoked THEN sessions ELSE [sessions EXCEPT ![s].token = n]
  BY DEF Refresh, UpdateRefreshHash
<1>6. /\ sessions' \in [SessionIds -> Session]
      /\ \A q \in SessionIds \ {s} : sessions'[q] = sessions[q]
      /\ sessions'[s].revoked = sessions[s].revoked
      /\ sessions'[s].token = IF sessions[s].revoked THEN sessions[s].token ELSE n
  <2>1. sessions[s] \in Session /\ n \in 0..MaxTokens
    BY <1>1, <1>2 DEF TypeOK, Tokens
  <2>2. [sessions[s] EXCEPT !.token = n] \in Session
    BY <2>1 DEF Session
  <2>3. CASE sessions[s].revoked
    BY <1>1, <1>5, <2>3 DEF TypeOK
  <2>4. CASE ~sessions[s].revoked
    <3>1. sessions'[s] = [sessions[s] EXCEPT !.token = n]
      BY <1>1, <1>5, <2>4 DEF TypeOK
    <3>2. sessions'[s].revoked = sessions[s].revoked /\ sessions'[s].token = n
      BY <2>1, <3>1 DEF Session
    <3> QED
      BY <1>1, <1>5, <2>2, <2>4, <3>1, <3>2 DEF TypeOK
  <2> QED
    BY <2>3, <2>4
<1>7. /\ calls' \in [Calls -> Call]
      /\ calls'[c].pc = "answered" /\ calls'[c].next = n /\ calls'[c].token = t
      /\ \A d \in Calls \ {c} : calls'[d] = calls[d]
  <2>1. calls' = [calls EXCEPT ![c].pc = "answered", ![c].next = n]
    BY DEF Refresh
  <2>2. n \in 0..MaxTokens
    BY <1>2 DEF Tokens
  <2> QED
    BY <1>1, <2>1, <2>2 DEF TypeOK, Call
<1>8. \A d \in Calls : calls'[d].token = calls[d].token /\ (Busy(d)' <=> Busy(d))
  BY <1>1, <1>7 DEF Busy
<1>9. /\ exchanged' = [exchanged EXCEPT ![t] = @ + 1]
      /\ overlap' = IF \E d \in Calls \ {c} : calls[d].pc = "checked" /\ calls[d].token = t
                    THEN overlap \cup {t} ELSE overlap
  BY DEF Refresh
<1>10. /\ t \in Tokens /\ exchanged[t] \in Nat /\ exchanged'[t] = exchanged[t] + 1
       /\ exchanged' \in [Tokens -> Nat] /\ \A u \in Tokens \ {t} : exchanged'[u] = exchanged[u]
       /\ overlap \subseteq overlap' /\ overlap' \subseteq Tokens
  BY <1>1, <1>9, Ranges DEF TypeOK
<1>11. TypeOK'
  <2>1. \A u \in Tokens : u <= n => sessionOf'[u] \in 1..opened
    BY <1>1, <1>2, <1>3, <1>4, Ranges DEF Tokens
  <2>2. \A q \in 1..opened : sessions'[q].token \in 1..n
    BY <1>2, <1>6, Ranges
  <2>3. \A d \in Calls : calls'[d].pc # "idle" => calls'[d].token \in 1..n
    BY <1>2, <1>8, Ranges DEF Busy
  <2>4. minted' \in 0..MaxTokens /\ storage' \in 0..minted'
    BY <1>1, <1>2 DEF TypeOK
  <2> QED
    BY <1>1, <1>2, <1>3, <1>6, <1>7, <1>10, <2>1, <2>2, <2>3, <2>4 DEF TypeOK, accountVars
<1>12. OwnTokens'
  <2> SUFFICES ASSUME NEW q \in 1..opened PROVE sessionOf'[sessions'[q].token] = q
    BY <1>1 DEF OwnTokens
  <2>1. CASE sessions'[q].token = n
    <3>1. q = s
      BY <1>2, <1>6, <2>1, Ranges
    <3> QED
      BY <1>3, <2>1, <3>1
  <2>2. CASE sessions'[q].token # n
    <3>1. sessions'[q].token = sessions[q].token
      BY <1>6, <2>2, Ranges
    <3> QED
      BY <1>4, <3>1, Ranges DEF OwnTokens
  <2> QED
    BY <2>1, <2>2
<1>13. AnswersOK'
  <2>1. ASSUME NEW d \in Calls, calls'[d].pc = "answered"
        PROVE  calls'[d].next \in 1..n /\ sessionOf'[calls'[d].next] = sessionOf'[calls'[d].token]
    <3>1. CASE d = c
      BY <1>1, <1>2, <1>3, <1>4, <1>7, <3>1, Ranges
    <3>2. CASE d # c
      BY <1>4, <1>7, <2>1, <3>2, Ranges DEF AnswersOK, Busy
    <3> QED
      BY <3>1, <3>2
  <2>2. op'.pc \in {"signedIn", "logout"} => op'.token \in 1..n
    BY <1>1, Ranges DEF AnswersOK
  <2> QED
    BY <1>2, <2>1, <2>2 DEF AnswersOK
<1>14. OneFlight' /\ UniqueNames'
  BY <1>1, <1>8, Ranges DEF OneFlight, UniqueNames, accountVars
<1>15. Exchanges'
  <2>1. ASSUME NEW u \in Tokens, exchanged'[u] > 0
        PROVE  u <= n /\ (sessions'[sessionOf'[u]].revoked \/ sessions'[sessionOf'[u]].token # u)
    <3>1. u \in 1..minted
      <4>1. CASE u = t
        BY <1>1, <4>1
      <4>2. CASE u # t
        <5>1. exchanged[u] > 0
          BY <1>10, <2>1, <4>2
        <5>2. u <= minted
          BY <5>1 DEF Exchanges
        <5> QED
          BY <5>2, Ranges DEF Tokens
      <4> QED
        BY <4>1, <4>2
    <3>2. sessionOf'[u] = sessionOf[u] /\ sessionOf[u] \in SessionIds /\ u # n
      BY <1>2, <1>4, <3>1, Ranges
    <3>3. CASE sessionOf[u] = s
      BY <1>2, <1>6, <3>1, <3>2, <3>3, Ranges
    <3>4. CASE sessionOf[u] # s
      <4>1. u # t
        BY <3>4
      <4>2. exchanged[u] > 0
        BY <1>10, <2>1, <4>1
      <4> QED
        BY <1>2, <1>6, <3>1, <3>2, <3>4, <4>2, Ranges DEF Exchanges
    <3> QED
      BY <3>3, <3>4
  <2>2. \A u \in Tokens : exchanged'[u] <= 1 \/ u \in overlap'
    <3>1. exchanged[t] = 0 \/ t \in overlap
      BY <1>1, <1>10 DEF Exchanges
    <3>2. \A u \in Tokens \ {t} : exchanged[u] <= 1 \/ u \in overlap
      BY DEF Exchanges
    <3>3. exchanged'[t] <= 1 \/ t \in overlap'
      <4>1. overlap \subseteq overlap' /\ exchanged'[t] = exchanged[t] + 1
        BY <1>10
      <4> QED
        BY <3>1, <4>1
    <3>4. \A u \in Tokens \ {t} : exchanged'[u] <= 1 \/ u \in overlap'
      <4> SUFFICES ASSUME NEW u \in Tokens \ {t} PROVE exchanged'[u] <= 1 \/ u \in overlap'
        OBVIOUS
      <4>1. exchanged'[u] = exchanged[u] /\ overlap \subseteq overlap'
        BY <1>10
      <4> QED
        BY <3>2, <4>1
    <3> QED
      BY <3>3, <3>4
  <2>3. ASSUME NEW d \in Calls, calls'[d].pc = "checked"
        PROVE  exchanged'[calls'[d].token] = 0 \/ calls'[d].token \in overlap'
    <3>1. d # c /\ calls'[d] = calls[d]
      BY <1>7, <2>3
    <3>2. calls[d].token \in Tokens
      BY <2>3, <3>1, Ranges DEF Busy
    <3>3. CASE calls[d].token = t
      BY <1>9, <2>3, <3>1, <3>3
    <3>4. CASE calls[d].token # t
      BY <1>10, <2>3, <3>1, <3>2, <3>4 DEF Exchanges
    <3> QED
      BY <3>1, <3>3, <3>4
  <2> QED
    BY <1>2, <2>1, <2>2, <2>3 DEF Exchanges
<1>16. NewLogin'
  <2> SUFFICES ASSUME op.pc = "signedIn" PROVE NewLogin'
    BY <1>1 DEF NewLogin
  <2>1. op.token \in 1..minted /\ sessionOf'[op.token] = sessionOf[op.token]
        /\ sessionOf[op.token] \in SessionIds
    BY <1>4, Ranges DEF AnswersOK
  <2>2. s # sessionOf[op.token]
    BY <1>1 DEF NewLogin, Busy
  <2>3. storage # 0 => sessionOf'[storage] = sessionOf[storage]
    BY <1>4, Ranges DEF TypeOK
  <2>4. \A d \in Calls : Busy(d)' => sessionOf'[calls'[d].token] = sessionOf[calls[d].token]
    BY <1>4, <1>8, Ranges
  <2> QED
    BY <1>1, <1>6, <1>8, <2>1, <2>2, <2>3, <2>4 DEF NewLogin
<1>17. Follows'
  <2> SUFFICES ASSUME reasons = {} PROVE Follows'
    BY <1>1 DEF Follows
  <2>1. storage # 0 => storage \in 1..minted /\ sessionOf'[storage] = current
    BY <1>4, Ranges DEF TypeOK, Follows
  <2>2. \A d \in Late : Busy(d)' => sessionOf'[calls'[d].token] # current
    BY <1>4, <1>8, Ranges DEF Follows
  <2>3. \A r \in Slots : Busy(r)' => calls'[r].token = storage
    BY <1>8, Ranges DEF Follows
  <2>4. current # 0 => current \in SessionIds
    BY Ranges DEF TypeOK
  <2>5. Live' => current # 0 /\ sessions'[current].token \notin expired /\ ~sessions'[current].revoked
    <3>1. current # 0 => sessionOf'[sessions'[current].token] = current
      BY <1>1, <1>12, Ranges DEF OwnTokens, TypeOK
    <3> QED
      BY <1>1, <3>1 DEF Live, Accepts
  <2>6. CASE c \in Slots
    <3>1. \A r \in Slots \ {c} : ~Busy(r)'
      BY <1>1, <1>8, <2>6, Ranges DEF OneFlight, Busy
    <3>2. current = s /\ (~sessions[s].revoked => sessions'[current].token = n)
      BY <1>1, <1>6, <2>6 DEF Follows, Busy
    <3>3. Live' => \A r \in Slots :
                 /\ calls'[r].pc # "refused"
                 /\ calls'[r].pc = "answered" => calls'[r].next = sessions'[current].token
      BY <1>6, <1>7, <2>5, <3>1, <3>2 DEF Busy
    <3>4. ~\A r \in Slots : calls'[r].pc # "answered"
      BY <1>7, <2>6
    <3> QED
      BY <1>1, <2>1, <2>2, <2>3, <3>3, <3>4 DEF Follows
  <2>7. CASE c \notin Slots
    <3>1. c \in Late
      BY <2>7 DEF Calls
    <3>2. current # s
      BY <1>1, <3>1 DEF Follows, Busy
    <3>3. current # 0 => sessions'[current] = sessions[current]
      BY <1>6, <2>4, <3>2
    <3>4. Live' => Live
      BY <2>5, <3>3, LiveMeans
    <3>5. \A r \in Slots : calls'[r] = calls[r]
      BY <1>7, <2>7, Ranges
    <3>6. Live' => \A r \in Slots :
                 /\ calls'[r].pc # "refused"
                 /\ calls'[r].pc = "answered" => calls'[r].next = sessions'[current].token
      BY <3>3, <3>4, <3>5 DEF Follows, Live
    <3>7. Live' /\ (\A r \in Slots : calls'[r].pc # "answered") => storage = sessions'[current].token
      BY <3>3, <3>4, <3>5 DEF Follows, Live
    <3> QED
      BY <1>1, <2>1, <2>2, <2>3, <3>6, <3>7 DEF Follows
  <2> QED
    BY <2>6, <2>7
<1> QED
  BY <1>11, <1>12, <1>13, <1>14, <1>15, <1>16, <1>17

\* A sign-in opens a session nothing refers to yet.
LEMMA OpenKeeps ==
  ASSUME IInv, NEW u \in UserIds, issueSession(u), op' = [pc |-> "signedIn", token |-> minted + 1],
         registered' \in 0..MaxSessions, registered' <= opened + 1,
         UNCHANGED <<name, upgrades, upgraded, expired, calls, storage, faults, historyVars,
                     current, reasons>>
  PROVE  IInv'
<1> DEFINE s == opened + 1
           n == minted + 1
<1> USE DEF IInv
<1>1. /\ minted < MaxTokens /\ minted' = n /\ n \in Tokens /\ n \notin 1..minted
      /\ opened < MaxSessions /\ opened' = s /\ s \in SessionIds /\ s \notin 1..opened
      /\ sessionOf' = [sessionOf EXCEPT ![n] = s]
      /\ sessions' = [sessions EXCEPT ![s] = [user |-> u, token |-> n, revoked |-> FALSE]]
  BY Ranges DEF issueSession, MintPair, Tokens, SessionIds
<1>2. /\ sessionOf' \in [Tokens -> 0..MaxSessions] /\ sessionOf'[n] = s
      /\ \A t \in 1..minted : sessionOf'[t] = sessionOf[t] /\ sessionOf'[t] # s
  <2>1. sessionOf \in [Tokens -> 0..MaxSessions] /\ s \in 0..MaxSessions
    BY <1>1 DEF TypeOK, SessionIds
  <2>2. \A t \in 1..minted : t \in Tokens /\ t # n /\ sessionOf[t] # s
    BY <1>1, Ranges
  <2> QED
    BY <1>1, <2>1, <2>2
<1>3. /\ sessions' \in [SessionIds -> Session] /\ sessions'[s].token = n
      /\ \A q \in 1..opened : sessions'[q] = sessions[q]
  <2>1. [user |-> u, token |-> n, revoked |-> FALSE] \in Session
    BY <1>1 DEF Session, Tokens, UserIds
  <2> QED
    BY <1>1, <2>1, Ranges DEF TypeOK
<1>4. op' \in Op /\ op'.pc = "signedIn" /\ op'.token = n
  BY <1>1 DEF Op, Tokens
<1>5. TypeOK'
  <2>1. \A t \in Tokens : t <= n => sessionOf'[t] \in 1..s
    BY <1>1, <1>2, Ranges DEF Tokens
  <2>2. \A q \in 1..s : sessions'[q].token \in 1..n
    BY <1>1, <1>3, Ranges
  <2>3. \A d \in Calls : calls[d].pc # "idle" => calls[d].token \in 1..n
    BY Ranges DEF Busy
  <2>4. minted' \in 0..MaxTokens /\ storage' \in 0..n /\ opened' \in 0..MaxSessions /\ current' \in 0..s
    BY <1>1, Ranges DEF TypeOK
  <2> QED
    BY <1>1, <1>2, <1>3, <1>4, <2>1, <2>2, <2>3, <2>4 DEF TypeOK, historyVars
<1>6. OwnTokens'
  BY <1>1, <1>2, <1>3, Ranges DEF OwnTokens
<1>7. AnswersOK'
  BY <1>1, <1>2, <1>4, Ranges DEF AnswersOK, Busy
<1>8. OneFlight' /\ UniqueNames'
  BY DEF OneFlight, UniqueNames, Busy
<1>9. Exchanges'
  <2> SUFFICES ASSUME NEW t \in Tokens
               PROVE  /\ exchanged[t] > 0 =>
                          t <= n /\ (sessions'[sessionOf'[t]].revoked \/ sessions'[sessionOf'[t]].token # t)
                      /\ exchanged[t] <= 1 \/ t \in overlap
                      /\ \A c \in Calls : calls[c].pc = "checked" /\ calls[c].token = t =>
                           exchanged[t] = 0 \/ t \in overlap
    BY <1>1 DEF Exchanges, historyVars
  <2>1. exchanged[t] > 0 => t \in 1..minted
    BY Ranges DEF Exchanges, Tokens
  <2> QED
    BY <1>1, <1>2, <1>3, <2>1, Ranges DEF Exchanges
<1>10. NewLogin'
  <2>1. storage # 0 => storage \in 1..minted
    BY Ranges DEF TypeOK
  <2> QED
    BY <1>2, <1>3, <1>4, <2>1, Ranges DEF NewLogin, Busy
<1>11. Follows'
  <2> SUFFICES ASSUME reasons = {} PROVE Follows'
    BY DEF Follows
  <2>1. storage # 0 => storage \in 1..minted
    BY Ranges DEF TypeOK
  <2>2. current # 0 => current \in 1..opened
    BY Ranges DEF TypeOK
  <2>3. Live' => Live /\ sessions'[current] = sessions[current]
    BY <1>2, <1>3, <2>2, Ranges DEF Live, Accepts, OwnTokens
  <2>4. \A c \in Late : Busy(c) => sessionOf'[calls[c].token] # current
    BY <1>2, Ranges DEF Follows
  <2>5. storage # 0 => sessionOf'[storage] = current
    BY <1>2, <2>1 DEF Follows
  <2> QED
    BY <2>3, <2>4, <2>5 DEF Follows, Busy
<1> QED
  BY <1>5, <1>6, <1>7, <1>8, <1>9, <1>10, <1>11

\* Revocation only makes a session less live.
LEMMA RevokeKeeps == ASSUME IInv, Revoke PROVE IInv'
<1> DEFINE s == sessionOf[op.token]
<1> USE DEF IInv
<1>1. /\ s \in SessionIds /\ op' = At("clear") /\ op'.pc = "clear" /\ op' \in Op
      /\ UNCHANGED <<accountVars, opened, minted, sessionOf, expired, calls, storage, faults,
                     historyVars, current, reasons>>
  BY Ranges DEF Revoke, AnswersOK, At, Op
<1>2. sessions' = [sessions EXCEPT ![s].revoked = TRUE]
  BY DEF Revoke
<1>3. /\ sessions' \in [SessionIds -> Session]
      /\ \A q \in SessionIds : /\ sessions'[q].token = sessions[q].token
                               /\ sessions[q].revoked => sessions'[q].revoked
  <2>1. sessions \in [SessionIds -> Session] /\ sessions[s] \in Session
    BY <1>1 DEF TypeOK
  <2>2. sessions'[s] = [sessions[s] EXCEPT !.revoked = TRUE]
        /\ \A q \in SessionIds \ {s} : sessions'[q] = sessions[q]
    BY <1>1, <1>2, <2>1
  <2>3. sessions'[s] \in Session /\ sessions'[s].token = sessions[s].token /\ sessions'[s].revoked
    BY <2>1, <2>2 DEF Session
  <2> QED
    BY <1>1, <1>2, <2>1, <2>2, <2>3
<1>4. TypeOK'
  BY <1>1, <1>3, Ranges DEF TypeOK, accountVars, historyVars
<1>5. OwnTokens' /\ AnswersOK' /\ OneFlight' /\ UniqueNames' /\ NewLogin'
  BY <1>1, <1>3, Ranges DEF OwnTokens, AnswersOK, OneFlight, Busy, UniqueNames, NewLogin, accountVars
<1>6. Exchanges'
  <2>1. \A t \in Tokens : exchanged[t] > 0 =>
          t <= minted /\ (sessions'[sessionOf[t]].revoked \/ sessions'[sessionOf[t]].token # t)
    <3> SUFFICES ASSUME NEW t \in Tokens, exchanged[t] > 0
                 PROVE  t <= minted /\ (sessions'[sessionOf[t]].revoked \/ sessions'[sessionOf[t]].token # t)
      OBVIOUS
    <3>1. t \in 1..minted
      BY Ranges DEF Exchanges, Tokens
    <3> QED
      BY <1>3, <3>1, Ranges DEF Exchanges
  <2> QED
    BY <1>1, <2>1 DEF Exchanges, historyVars
<1>7. Follows'
  <2>1. current # 0 => current \in 1..opened
    BY Ranges DEF TypeOK
  <2>2. current # 0 => sessions'[current].token = sessions[current].token
    BY <1>3, <2>1, Ranges
  <2>3. Live' => Live
    BY <1>1, <1>3, <2>1, <2>2, Ranges DEF Live, Accepts
  <2> QED
    BY <1>1, <2>2, <2>3 DEF Follows, Busy, Live
<1> QED
  BY <1>4, <1>5, <1>6, <1>7

\* So does expiry.
LEMMA ExpireKeeps == ASSUME IInv, NEW t \in Tokens, Expire(t) PROVE IInv'
<1> USE DEF IInv
<1>1. /\ expired' = expired \cup {t}
      /\ UNCHANGED <<accountVars, sessionVars, calls, storage, op, faults, historyVars,
                     current, reasons>>
  BY DEF Expire
<1>2. TypeOK'
  BY <1>1 DEF TypeOK, accountVars, sessionVars, historyVars
<1>3. OwnTokens' /\ AnswersOK' /\ OneFlight' /\ UniqueNames' /\ NewLogin' /\ Exchanges'
  BY <1>1 DEF OwnTokens, AnswersOK, OneFlight, Busy, UniqueNames, NewLogin, Exchanges,
              accountVars, sessionVars, historyVars
<1>4. Live' => Live
  BY <1>1 DEF Live, Accepts, sessionVars
<1>5. Follows'
  BY <1>1, <1>4 DEF Follows, Busy, sessionVars
<1> QED
  BY <1>2, <1>3, <1>5

\* The checks of an upgrade.
LEMMA UpgradeKeeps == ASSUME IInv, NEW u \in UserIds, NEW n \in Names, UpgradeGuest(u, n) PROVE IInv'
<1> USE DEF IInv
<1>1. /\ upgraded' \in 1..MaxUpgrades /\ upgrades' = upgrades \cup {<<upgraded', u, n>>}
      /\ UNCHANGED <<registered, name, sessionVars, expired, calls, storage, op, faults,
                     historyVars, current, reasons>>
  BY DEF UpgradeGuest, TypeOK
<1>2. TypeOK'
  BY <1>1 DEF TypeOK, sessionVars, historyVars
<1>3. OwnTokens' /\ AnswersOK' /\ OneFlight' /\ UniqueNames' /\ NewLogin' /\ Exchanges'
  BY <1>1 DEF OwnTokens, AnswersOK, OneFlight, Busy, UniqueNames, NewLogin, Exchanges,
              sessionVars, historyVars
<1>4. Follows'
  BY <1>1 DEF Follows, Busy, Live, Accepts, sessionVars
<1> QED
  BY <1>2, <1>3, <1>4

\* Its update names a guest with a name nobody has.
LEMMA UpgradeStoredKeeps == ASSUME IInv, NEW up \in upgrades, UpgradeStored(up) PROVE IInv'
<1> USE DEF IInv
<1>1. /\ up[2] \in UserIds /\ up[3] \in Names /\ upgrades' \subseteq upgrades
      /\ UNCHANGED <<registered, upgraded, sessionVars, expired, calls, storage, op, faults,
                     historyVars, current, reasons>>
  BY DEF UpgradeStored, TypeOK
<1>2. name' = IF MayUpgrade(up[2], up[3]) THEN [name EXCEPT ![up[2]] = up[3]] ELSE name
  BY DEF UpgradeStored
<1>3. name' \in [UserIds -> Names \cup {NoName}] /\ UniqueNames'
  <2>1. CASE MayUpgrade(up[2], up[3])
    BY <1>1, <1>2, <2>1 DEF MayUpgrade, TypeOK, UniqueNames
  <2>2. CASE ~MayUpgrade(up[2], up[3])
    BY <1>2, <2>2 DEF TypeOK, UniqueNames
  <2> QED
    BY <2>1, <2>2
<1>4. TypeOK'
  BY <1>1, <1>3 DEF TypeOK, sessionVars, historyVars
<1>5. OwnTokens' /\ AnswersOK' /\ OneFlight' /\ NewLogin' /\ Exchanges'
  BY <1>1 DEF OwnTokens, AnswersOK, OneFlight, Busy, NewLogin, Exchanges,
              sessionVars, historyVars
<1>6. Follows'
  BY <1>1 DEF Follows, Busy, Live, Accepts, sessionVars
<1> QED
  BY <1>3, <1>4, <1>5, <1>6

-----------------------------------------------------------------------------
(* TokenRefresher *)

\* A refresh starts with the pair in storage, and alone.
LEMMA StartKeeps == ASSUME IInv, NEW r \in Slots, refreshTokens(r) PROVE IInv'
<1> USE DEF IInv
<1>1. /\ \A q \in Slots : ~Busy(q)
      /\ storage \in 1..minted /\ r \in Calls
      /\ calls' = [calls EXCEPT ![r] = [pc |-> "sent", token |-> storage, next |-> 0]]
      /\ UNCHANGED <<accountVars, sessionVars, expired, storage, op, faults, historyVars,
                     current, reasons>>
  BY Ranges DEF refreshTokens, NoneInFlight, Busy, TypeOK
<1>2. /\ calls' \in [Calls -> Call] /\ calls'[r].pc = "sent" /\ calls'[r].token = storage
      /\ \A d \in Calls \ {r} : calls'[d] = calls[d]
  <2>1. [pc |-> "sent", token |-> storage, next |-> 0] \in Call
    BY <1>1, Ranges DEF Call
  <2> QED
    BY <1>1, <2>1 DEF TypeOK
<1>3. \A q \in Slots \ {r} : ~Busy(q)'
  BY <1>1, <1>2, Ranges DEF Busy
<1>4. TypeOK'
  BY <1>1, <1>2 DEF TypeOK, accountVars, sessionVars, historyVars
<1>5. OwnTokens' /\ UniqueNames' /\ OneFlight'
  BY <1>1, <1>3 DEF OwnTokens, UniqueNames, OneFlight, accountVars, sessionVars
<1>6. AnswersOK' /\ Exchanges'
  BY <1>1, <1>2 DEF AnswersOK, Exchanges, sessionVars, historyVars
<1>7. NewLogin'
  BY <1>1, <1>2 DEF NewLogin, Busy, sessionVars
<1>8. Follows'
  <2>1. Live' <=> Live
    BY <1>1 DEF Live, Accepts, sessionVars
  <2>2. \A d \in Late : calls'[d] = calls[d]
    BY <1>2, Ranges
  <2>3. \A q \in Slots : calls'[q].pc \notin {"refused", "answered"} /\ calls[q].pc # "answered"
    BY <1>1, <1>2, <1>3 DEF Busy
  <2> QED
    BY <1>1, <1>2, <1>3, <2>1, <2>2, <2>3 DEF Follows, Busy, sessionVars
<1> QED
  BY <1>4, <1>5, <1>6, <1>7, <1>8

\* What the end of a call of slot r leaves of the calls.
Ended(r) ==
  /\ calls' \in [Calls -> Call]
  /\ \A d \in Calls : (calls'[d].pc = "idle") \/ (\E e \in Calls : calls'[d] = calls[e])
  /\ \A q \in Slots : calls'[q].pc = "idle" \/ (q # r /\ calls'[q] = calls[q])

LEMMA ResetEnds ==
  ASSUME IInv, NEW r \in Slots, calls' = [calls EXCEPT ![r] = NoCall]
  PROVE  Ended(r) /\ \A d \in Late : calls'[d] = calls[d]
<1>1. r \in Calls /\ calls \in [Calls -> Call] /\ NoCall \in Call /\ NoCall.pc = "idle"
  BY Ranges DEF IInv, TypeOK, NoCall, Call
<1>2. \A d \in Calls \ {r} : calls'[d] = calls[d]
  BY <1>1
<1>3. calls'[r].pc = "idle" /\ calls' \in [Calls -> Call]
  BY <1>1
<1> QED
  BY <1>1, <1>2, <1>3, Ranges DEF Ended

\* Nothing about the server's tables depends on how a call ends.
LEMMA EndedKeeps ==
  ASSUME IInv, NEW r \in Slots, Ended(r), UNCHANGED <<accountVars, sessionVars, historyVars>>
  PROVE  /\ (OwnTokens /\ OneFlight /\ Exchanges /\ UniqueNames)'
         /\ \A c \in Calls : Busy(c)' => calls'[c].token \in 1..minted'
         /\ \A c \in Calls : calls'[c].pc = "answered" =>
              calls'[c].next \in 1..minted /\ sessionOf[calls'[c].next] = sessionOf[calls'[c].token]
<1> USE DEF IInv, sessionVars
<1>1. OwnTokens' /\ UniqueNames'
  BY DEF OwnTokens, UniqueNames, accountVars
<1>2. OneFlight'
  BY Ranges DEF OneFlight, Ended, Busy
<1>3. Exchanges'
  BY DEF Exchanges, Ended, historyVars
<1>4. \A c \in Calls : Busy(c)' => calls'[c].token \in 1..minted'
  BY Ranges DEF Ended, Busy
<1>5. \A c \in Calls : calls'[c].pc = "answered" =>
        calls'[c].next \in 1..minted /\ sessionOf[calls'[c].next] = sessionOf[calls'[c].token]
  BY DEF Ended, AnswersOK
<1> QED
  BY <1>1, <1>2, <1>3, <1>4, <1>5

\* The answer of the only refresh under way is stored.
LEMMA KeepKeeps == ASSUME IInv, NEW r \in Slots, Keep(r) PROVE IInv'
<1> USE DEF IInv
<1>1. /\ calls[r].pc = "answered" /\ Busy(r) /\ storage' = calls[r].next /\ storage' \in 1..minted
      /\ r \in Calls /\ sessionOf[storage'] = sessionOf[calls[r].token]
      /\ UNCHANGED <<accountVars, sessionVars, expired, op, faults, historyVars, current, reasons>>
  BY Ranges DEF Keep, Busy, AnswersOK
<1>2. Ended(r) /\ \A d \in Late : calls'[d] = calls[d]
  BY ResetEnds DEF Keep
<1>3. (OwnTokens /\ OneFlight /\ Exchanges /\ UniqueNames)'
  BY <1>1, <1>2, EndedKeeps
<1>4. TypeOK'
  <2>1. \A c \in Calls : calls'[c].pc # "idle" => calls'[c].token \in 1..minted'
    BY <1>1, <1>2, EndedKeeps DEF Busy
  <2>2. storage' \in 0..minted'
    BY <1>1, Ranges DEF sessionVars
  <2> QED
    BY <1>1, <1>2, <2>1, <2>2 DEF TypeOK, Ended, accountVars, sessionVars, historyVars
<1>5. AnswersOK'
  BY <1>1, <1>2, EndedKeeps DEF AnswersOK, sessionVars
<1>6. NewLogin'
  BY <1>1, <1>2 DEF NewLogin, Ended, Busy, sessionVars
<1>7. Follows'
  <2>1. Live' <=> Live
    BY <1>1 DEF Live, Accepts, sessionVars
  <2>2. \A q \in Slots : calls'[q].pc = "idle"
    BY <1>1, <1>2 DEF OneFlight, Ended, Busy
  <2> SUFFICES ASSUME reasons = {} PROVE Follows'
    BY <1>1 DEF Follows
  <2>3. calls[r].token = storage /\ storage # 0
    BY <1>1, Ranges DEF Follows
  <2>4. sessionOf'[storage'] = current
    BY <1>1, <2>3 DEF Follows, sessionVars
  <2>5. Live' => storage' = sessions'[current].token
    BY <1>1, <2>1 DEF Follows, sessionVars
  <2>6. \A d \in Late : Busy(d)' => sessionOf'[calls'[d].token] # current
    BY <1>1, <1>2 DEF Follows, Busy, sessionVars
  <2> QED
    BY <1>1, <2>2, <2>4, <2>5, <2>6 DEF Follows, Busy
<1> QED
  BY <1>3, <1>4, <1>5, <1>6, <1>7

\* A refusal is under way only when the session is not live.
LEMMA ForgetKeeps == ASSUME IInv, NEW r \in Slots, Forget(r) PROVE IInv'
<1> USE DEF IInv
<1>1. /\ calls[r].pc = "refused" /\ Busy(r) /\ storage' = 0 /\ r \in Calls
      /\ UNCHANGED <<accountVars, sessionVars, expired, op, faults, historyVars, current, reasons>>
  BY Ranges DEF Forget, Busy
<1>2. Ended(r) /\ \A d \in Late : calls'[d] = calls[d]
  BY ResetEnds DEF Forget
<1>3. (OwnTokens /\ OneFlight /\ Exchanges /\ UniqueNames)'
  BY <1>1, <1>2, EndedKeeps
<1>4. TypeOK'
  <2>1. \A c \in Calls : calls'[c].pc # "idle" => calls'[c].token \in 1..minted'
    BY <1>1, <1>2, EndedKeeps DEF Busy
  <2>2. storage' \in 0..minted'
    BY <1>1, Ranges DEF sessionVars
  <2> QED
    BY <1>1, <1>2, <2>1, <2>2 DEF TypeOK, Ended, accountVars, sessionVars, historyVars
<1>5. AnswersOK'
  BY <1>1, <1>2, EndedKeeps DEF AnswersOK, sessionVars
<1>6. NewLogin'
  BY <1>1, <1>2 DEF NewLogin, Ended, Busy, sessionVars
<1>7. Follows'
  <2>1. Live' <=> Live
    BY <1>1 DEF Live, Accepts, sessionVars
  <2>2. \A q \in Slots : calls'[q].pc = "idle"
    BY <1>1, <1>2 DEF OneFlight, Ended, Busy
  <2>3. reasons = {} => ~Live
    BY <1>1 DEF Follows
  <2> QED
    BY <1>1, <1>2, <2>1, <2>2, <2>3 DEF Follows, Busy, sessionVars
<1> QED
  BY <1>3, <1>4, <1>5, <1>6, <1>7

\* A call without an answer may go on at the server, and is a reason.
LEMMA LostKeeps ==
  ASSUME IInv, NEW r \in Slots, Unanswered(r), faults < MaxFaults, faults' = faults + 1,
         op' = op \/ op' = At("start"), reasons' = reasons \cup {"lost"},
         UNCHANGED <<accountVars, sessionVars, expired, storage, historyVars, current>>
  PROVE  IInv'
<1> USE DEF IInv
<1>1. Ended(r)
  <2>1. /\ faults \in Nat /\ faults + 1 \in Late /\ faults + 1 \in Calls /\ r \in Calls
        /\ faults + 1 \notin Slots /\ r # faults + 1
        /\ NoCall \in Call /\ NoCall.pc = "idle" /\ calls \in [Calls -> Call]
    <3>1. faults \in Nat /\ faults + 1 \in Late
      BY DEF TypeOK, Late
    <3> QED
      BY <3>1, Ranges DEF TypeOK, NoCall, Call
  <2>2. CASE calls' = [calls EXCEPT ![r] = NoCall]
    BY <2>2, ResetEnds
  <2>3. CASE calls' = [calls EXCEPT ![r] = NoCall, ![faults + 1] = calls[r]]
    <3>1. calls' \in [Calls -> Call] /\ calls'[r].pc = "idle" /\ calls'[faults + 1] = calls[r]
      BY <2>1, <2>3
    <3>2. \A d \in Calls \ {r, faults + 1} : calls'[d] = calls[d]
      BY <2>1, <2>3
    <3> QED
      BY <2>1, <3>1, <3>2, Ranges DEF Ended
  <2> QED
    BY <2>2, <2>3 DEF Unanswered
<1>2. (OwnTokens /\ OneFlight /\ Exchanges /\ UniqueNames)'
  BY <1>1, EndedKeeps
<1>3. op' \in Op /\ (op' = op \/ op'.pc = "start")
  BY DEF TypeOK, At, Op
<1>4. TypeOK'
  <2>1. \A c \in Calls : calls'[c].pc # "idle" => calls'[c].token \in 1..minted'
    BY <1>1, EndedKeeps DEF Busy
  <2> QED
    BY <1>1, <1>3, <2>1 DEF TypeOK, Ended, accountVars, sessionVars, historyVars
<1>5. AnswersOK'
  BY <1>1, <1>3, EndedKeeps DEF AnswersOK, sessionVars
<1>6. NewLogin'
  BY <1>1, <1>3 DEF NewLogin, Ended, Busy, sessionVars
<1>7. Follows'
  BY DEF Follows
<1> QED
  BY <1>2, <1>4, <1>5, <1>6, <1>7

-----------------------------------------------------------------------------
(* AuthRepository *)

\* Steps of an operation that change neither storage nor the server.
LEMMA OpKeeps ==
  ASSUME IInv, op' \in Op, op'.pc # "signedIn", op'.pc = "logout" => op'.token \in 1..minted,
         faults' \in 0..MaxFaults, reasons' = reasons,
         UNCHANGED <<accountVars, sessionVars, expired, calls, storage, historyVars, current>>
  PROVE  IInv'
<1> USE DEF IInv
<1>1. TypeOK'
  BY DEF TypeOK, accountVars, sessionVars, historyVars
<1>2. OwnTokens' /\ AnswersOK' /\ OneFlight' /\ UniqueNames' /\ NewLogin' /\ Exchanges'
  BY DEF OwnTokens, AnswersOK, OneFlight, Busy, UniqueNames, NewLogin, Exchanges,
         accountVars, sessionVars, historyVars
<1>3. Follows'
  BY DEF Follows, Busy, Live, Accepts, sessionVars
<1> QED
  BY <1>1, <1>2, <1>3

\* Steps that write storage: a new sign-in's pair, or nothing.
LEMMA StoreKeeps ==
  ASSUME IInv, op' \in Op, op'.pc \notin {"signedIn", "logout"},
         storage' \in 0..minted, current' \in 0..opened,
         faults' \in 0..MaxFaults, reasons' \subseteq {"lost", "crossed", "gaveUp"},
         UNCHANGED <<accountVars, sessionVars, expired, calls, historyVars>>, Follows'
  PROVE  IInv'
<1> USE DEF IInv
<1>1. TypeOK'
  BY DEF TypeOK, accountVars, sessionVars, historyVars
<1>2. OwnTokens' /\ AnswersOK' /\ OneFlight' /\ UniqueNames' /\ NewLogin' /\ Exchanges'
  BY DEF OwnTokens, AnswersOK, OneFlight, Busy, UniqueNames, NewLogin, Exchanges,
         accountVars, sessionVars, historyVars
<1> QED
  BY <1>1, <1>2

\* me() of a restore: a failure clears storage and is a reason, unless there was
\* nothing to clear.
LEMMA MeFailsKeeps == ASSUME IInv, MeFails PROVE IInv'
<1> USE DEF IInv
<1>1. /\ op' \in Op /\ op'.pc = "login" /\ storage' = 0 /\ faults' \in 0..MaxFaults
      /\ reasons' \subseteq {"lost", "crossed", "gaveUp"}
      /\ UNCHANGED <<accountVars, sessionVars, expired, calls, historyVars, current>>
  <2>1. op' \in Op /\ op'.pc = "login"
    BY DEF MeFails, At, Op
  <2>2. faults' \in 0..MaxFaults /\ reasons' \subseteq {"lost", "crossed", "gaveUp"}
    <3>1. /\ faults \in 0..MaxFaults /\ reasons \subseteq {"lost", "crossed", "gaveUp"}
          /\ faults < MaxFaults => faults + 1 \in 0..MaxFaults
      BY DEF TypeOK
    <3>2. CASE storage = 0
      BY <3>1, <3>2 DEF MeFails
    <3>3. CASE storage # 0
      <4>1. faults < MaxFaults /\ faults' = faults + 1 /\ reasons' = reasons \cup {"gaveUp"}
        BY <3>3 DEF MeFails
      <4> QED
        BY <3>1, <4>1
    <3> QED
      BY <3>2, <3>3
  <2> QED
    BY <2>1, <2>2 DEF MeFails
<1>2. storage' \in 0..minted /\ current' \in 0..opened
  BY <1>1, Ranges DEF TypeOK
<1>3. Follows'
  <2>1. CASE storage = 0
    BY <1>1, <2>1 DEF MeFails, Follows, Busy, Live, Accepts, sessionVars
  <2>2. CASE storage # 0
    BY <2>2 DEF MeFails, Follows
  <2> QED
    BY <2>1, <2>2
<1> QED
  BY <1>1, <1>2, <1>3, StoreKeeps

\* Storing a sign-in: client and server agree, unless a refresh is under way.
LEMMA KeepLoginKeeps == ASSUME IInv, KeepLogin PROVE IInv'
<1> USE DEF IInv
<1>1. /\ op.pc = "signedIn" /\ op.token \in 1..minted
      /\ op' \in Op /\ op'.pc = "idle" /\ storage' = op.token /\ current' = sessionOf[op.token]
      /\ reasons' = Crossed
      /\ UNCHANGED <<accountVars, sessionVars, expired, calls, faults, historyVars>>
  BY DEF KeepLogin, AnswersOK, At, Op
<1>2. storage' \in 0..minted /\ current' \in 0..opened /\ faults' \in 0..MaxFaults
      /\ reasons' \subseteq {"lost", "crossed", "gaveUp"}
  BY <1>1, Ranges DEF TypeOK, Crossed
<1>3. Follows'
  <2> SUFFICES ASSUME ~Refreshing PROVE Follows'
    BY <1>1 DEF Follows, Crossed
  <2>1. \A r \in Slots : calls'[r].pc = "idle"
    BY <1>1 DEF Refreshing
  <2>2. \A d \in Late : Busy(d)' => sessionOf'[calls'[d].token] # current'
    BY <1>1, Ranges DEF NewLogin, Busy, sessionVars
  <2>3. sessions'[current'].token = storage' /\ sessionOf'[storage'] = current'
    BY <1>1 DEF NewLogin, sessionVars
  <2> QED
    BY <2>1, <2>2, <2>3 DEF Follows, Busy
<1> QED
  BY <1>1, <1>2, <1>3, StoreKeeps

\* The end of a logout: nothing is held, unless a refresh is under way.
LEMMA ClearKeeps == ASSUME IInv, Clear PROVE IInv'
<1> USE DEF IInv
<1>1. /\ op' \in Op /\ op'.pc = "idle" /\ storage' = 0 /\ current' = 0
      /\ reasons' = Crossed
      /\ UNCHANGED <<accountVars, sessionVars, expired, calls, faults, historyVars>>
  BY DEF Clear, At, Op
<1>2. storage' \in 0..minted /\ current' \in 0..opened /\ faults' \in 0..MaxFaults
      /\ reasons' \subseteq {"lost", "crossed", "gaveUp"}
  BY <1>1, Ranges DEF TypeOK, Crossed
<1>3. Follows'
  <2> SUFFICES ASSUME ~Refreshing PROVE Follows'
    BY <1>1 DEF Follows, Crossed
  <2>1. \A r \in Slots : calls'[r].pc = "idle"
    BY <1>1 DEF Refreshing
  <2>2. \A d \in Late : Busy(d)' => sessionOf'[calls'[d].token] # current'
    BY <1>1, Ranges DEF Busy, sessionVars
  <2>3. ~Live'
    BY <1>1 DEF Live
  <2> QED
    BY <1>1, <2>1, <2>2, <2>3 DEF Follows, Busy
<1> QED
  BY <1>1, <1>2, <1>3, StoreKeeps

\* A restart leaves storage and the server, and drops a refresh under way.
LEMMA RestartKeeps == ASSUME IInv, Restart PROVE IInv'
<1>1. /\ faults < MaxFaults /\ faults' = faults + 1 /\ op' = At("start")
      /\ UNCHANGED <<accountVars, sessionVars, expired, storage, historyVars, current>>
  BY DEF Restart
<1>2. CASE Refreshing
  <2>1. PICK r \in Slots : Unanswered(r) /\ reasons' = reasons \cup {"lost"}
    BY <1>2 DEF Restart
  <2> QED
    BY <1>1, <2>1, LostKeeps
<1>3. CASE ~Refreshing
  <2>1. UNCHANGED <<calls, reasons>> /\ op' \in Op /\ op'.pc = "start" /\ faults' \in 0..MaxFaults
    BY <1>1, <1>3 DEF Restart, At, Op, IInv, TypeOK
  <2> QED
    BY <1>1, <2>1, OpKeeps
<1> QED
  BY <1>2, <1>3

-----------------------------------------------------------------------------
(* Theorems *)

\* Every step preserves the invariant.
LEMMA StepIInv == IInv /\ [Next]_vars => IInv'
<1> SUFFICES ASSUME IInv, [Next]_vars PROVE IInv'
  OBVIOUS
<1>1. ASSUME NEW c \in Calls, CheckRefresh(c) \/ Refresh(c) PROVE IInv'
  BY <1>1, CheckKeeps, RefreshKeeps
<1>2. ASSUME NEW r \in Slots, refreshTokens(r) PROVE IInv'
  BY <1>2, StartKeeps
<1>3. ASSUME NEW r \in Slots, Keep(r) PROVE IInv'
  BY <1>3, KeepKeeps
<1>4. ASSUME NEW r \in Slots, Forget(r) PROVE IInv'
  BY <1>4, ForgetKeeps
<1>5. ASSUME NEW r \in Slots, RefreshFails(r) PROVE IInv'
  BY <1>5, LostKeeps DEF RefreshFails
<1>6. ASSUME NEW t \in Tokens, Expire(t) PROVE IInv'
  BY <1>6, ExpireKeeps
<1>7. ASSUME NEW u \in UserIds, NEW n \in Names, UpgradeGuest(u, n) PROVE IInv'
  BY <1>7, UpgradeKeeps
<1>8. ASSUME NEW up \in upgrades, UpgradeStored(up) PROVE IInv'
  BY <1>8, UpgradeStoredKeeps
<1>9. CASE restore \/ MeSucceeds
  <2>1. op' \in Op /\ op'.pc \in {"login", "me", "idle"} /\ faults' \in 0..MaxFaults
    BY <1>9 DEF restore, MeSucceeds, At, Op, IInv, TypeOK
  <2> QED
    BY <1>9, <2>1, OpKeeps DEF restore, MeSucceeds
<1>10. CASE LoginFails \/ LogoutFails
  <2>1. op' \in Op /\ op'.pc \in {"idle", "clear"} /\ faults' \in 0..MaxFaults
    BY <1>10 DEF LoginFails, LogoutFails, At, Op, IInv, TypeOK
  <2> QED
    BY <1>10, <2>1, OpKeeps DEF LoginFails, LogoutFails
<1>11. CASE logout
  <2>1. op' \in Op /\ op'.pc = "logout" /\ op'.token \in 1..minted /\ faults' \in 0..MaxFaults
    BY <1>11, Ranges DEF logout, Op, IInv, TypeOK
  <2> QED
    BY <1>11, <2>1, OpKeeps DEF logout
<1>12. CASE LoginGuest
  <2>1. registered + 1 \in UserIds /\ registered' \in 0..MaxSessions /\ registered' <= opened + 1
    BY <1>12 DEF LoginGuest, issueSession, UserIds, IInv, TypeOK
  <2> QED
    BY <1>12, <2>1, OpenKeeps DEF LoginGuest
<1>13. ASSUME NEW n \in Names, LoginPassword(n) PROVE IInv'
  <2>1. PICK u \in UserIds : issueSession(u)
    BY <1>13 DEF LoginPassword
  <2>2. registered' \in 0..MaxSessions /\ registered' <= opened + 1
    BY <1>13 DEF LoginPassword, accountVars, IInv, TypeOK
  <2> QED
    BY <1>13, <2>1, <2>2, OpenKeeps DEF LoginPassword, accountVars
<1>14. CASE MeFails \/ KeepLogin \/ Revoke \/ Clear \/ Restart
  BY <1>14, MeFailsKeeps, KeepLoginKeeps, RevokeKeeps, ClearKeeps, RestartKeeps
<1>15. CASE UNCHANGED vars
  <2>1. TypeOK'
    BY <1>15 DEF vars, IInv, TypeOK, accountVars, sessionVars, historyVars
  <2>2. (OwnTokens /\ AnswersOK /\ OneFlight /\ UniqueNames /\ NewLogin /\ Exchanges)'
    BY <1>15 DEF vars, IInv, OwnTokens, AnswersOK, OneFlight, Busy, UniqueNames, NewLogin,
                 Exchanges, accountVars, sessionVars, historyVars
  <2>3. Follows'
    BY <1>15 DEF vars, IInv, Follows, Busy, Live, Accepts, sessionVars
  <2> QED
    BY <2>1, <2>2, <2>3 DEF IInv
<1> QED
  BY <1>1, <1>2, <1>3, <1>4, <1>5, <1>6, <1>7, <1>8, <1>9, <1>10, <1>11, <1>12, <1>13, <1>14, <1>15
     DEF Next

\* The invariant holds in every reachable state.
LEMMA Invariance == Spec => []IInv
<1> QED
  BY InitIInv, StepIInv, PTL DEF Spec

\* Tables, calls and the client's state stay well-formed.
THEOREM TypeCorrect == Spec => []TypeOK
<1>1. IInv => TypeOK
  BY DEF IInv
<1> QED
  BY <1>1, Invariance, PTL

\* AuthService.Refresh exchanges a refresh token once, unless two calls had
\* passed the check with it at the same time.
THEOREM NoReplay == Spec => []ExchangedOnce
<1>1. IInv => ExchangedOnce
  BY DEF IInv, Exchanges, ExchangedOnce
<1> QED
  BY <1>1, Invariance, PTL

\* What TokenRefresher and AuthRepository keep in storage is, at rest, what the
\* server would accept for the session signed in to last, but for the reasons.
THEOREM ClientInStep == Spec => []InStep
<1>1. IInv => InStep
  <2> SUFFICES ASSUME IInv, AtRest, reasons = {}
               PROVE  IF current # 0 /\ Accepts(sessions[current].token)
                      THEN storage = sessions[current].token
                      ELSE storage = 0 \/ sessionOf[storage] = current
    BY DEF InStep
  <2>1. \A r \in Slots : calls[r].pc = "idle"
    BY DEF AtRest, Refreshing
  <2> QED
    BY <2>1 DEF IInv, Follows, Live
<1> QED
  BY <1>1, Invariance, PTL

\* AuthService.UpgradeGuest gives a name to one user, for good.
THEOREM NamesAreKept == Spec => NameKeepsUser
<1> DEFINE A == \A u \in UserIds : name[u] # NoName =>
                  name'[u] = name[u] /\ \A v \in UserIds \ {u} : name'[v] # name[u]
<1>1. IInv /\ [Next]_vars => [A]_vars
  <2> SUFFICES ASSUME IInv, [Next]_vars, NEW u \in UserIds, name[u] # NoName
               PROVE  name'[u] = name[u] /\ \A v \in UserIds \ {u} : name'[v] # name[u]
    OBVIOUS
  <2>1. name \in [UserIds -> Names \cup {NoName}] /\ UniqueNames
    BY DEF IInv, TypeOK
  <2>2. CASE name' = name
    BY <2>1, <2>2 DEF UniqueNames
  <2>3. ASSUME NEW up \in upgrades, UpgradeStored(up), name' # name
        PROVE  name'[u] = name[u] /\ \A v \in UserIds \ {u} : name'[v] # name[u]
    <3>1. up[2] \in UserIds /\ MayUpgrade(up[2], up[3]) /\ name' = [name EXCEPT ![up[2]] = up[3]]
      BY <2>3 DEF UpgradeStored, IInv, TypeOK
    <3> QED
      BY <2>1, <3>1 DEF MayUpgrade, UniqueNames
  <2>4. (\E up \in upgrades : UpgradeStored(up)) \/ name' = name
    BY DEF Next, vars, CheckRefresh, Refresh, refreshTokens, Keep, Forget, RefreshFails, Expire,
           UpgradeGuest, restore, MeSucceeds, MeFails, LoginGuest, LoginFails, KeepLogin,
           LoginPassword, logout, Revoke, LogoutFails, Clear, Restart, accountVars
  <2> QED
    BY <2>2, <2>3, <2>4
<1> QED
  BY <1>1, Invariance, PTL DEF Spec, NameKeepsUser
=============================================================================
