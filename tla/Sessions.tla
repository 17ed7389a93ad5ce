------------------------------ MODULE Sessions ------------------------------
(***************************************************************************)
(* Accounts, sessions and the tokens a client holds.                       *)
(*                                                                         *)
(* Signing in creates a session row with the hash of its refresh token.    *)
(* Refreshing exchanges that token for a new pair: the row is read and     *)
(* checked in one statement and the new hash stored in another.  The       *)
(* client keeps one pair in storage; its token refresher, its restore at   *)
(* the start, its logins and its logout all read and write it, with a call *)
(* to the server in between, and a call's answer may be lost.              *)
(*                                                                         *)
(* The two tokens of a pair are one number, in the order of minting; a     *)
(* hash is the token it was made of.  Access tokens are never looked up:   *)
(* whether one is still valid only decides if the interceptor refreshes    *)
(* first, and a refresh may start at any time here, as it does when the    *)
(* game socket reconnects.                                                 *)
(***************************************************************************)
EXTENDS Integers, FiniteSets

CONSTANTS
  Slots,        \* futures of the token refresher; _refreshInFlight is one of them
  Names,        \* user names of local accounts
  NoName,
  MaxSessions,  \* bound: sessions, one per sign-in; guests get a user each
  MaxTokens,    \* bound: pairs minted
  MaxUpgrades,  \* bound: upgrades of guests
  MaxExpiries,  \* bound: refresh tokens that expire
  MaxFaults     \* bound: calls that fail or are not answered

ASSUME SessionsAssumption ==
  /\ MaxSessions \in Nat /\ MaxTokens \in Nat /\ MaxUpgrades \in Nat
  /\ MaxExpiries \in Nat /\ MaxFaults \in Nat
  /\ NoName \notin Names
  /\ Slots \cap Nat = {}

SessionIds == 1..MaxSessions
UserIds == 1..MaxSessions
Tokens == 1..MaxTokens
Late == 1..MaxFaults
Calls == Slots \cup Late

VARIABLES
  \* server
  registered,  \* users created
  name,        \* users: a guest has no name
  upgrades,    \* upgrades that passed their checks: <<number, user, name>>
  upgraded,    \* upgrades so far
  opened,      \* sessions created
  sessions,    \* sessions: user, refresh_hash, revoked_at
  minted,      \* pairs minted
  sessionOf,   \* the session in each token's claims
  expired,     \* refresh tokens past their time
  calls,       \* POST /v1/auth/refresh of each slot; those of Late have no client left
  \* client
  storage,     \* TokenStorage: the pair it holds, 0 for none
  op,          \* the AuthRepository operation under way
  \* bounds and history
  faults,
  exchanged,   \* times each token was exchanged
  overlap,     \* tokens that two calls had checked at the same time
  current,     \* the session the client signed in to last, 0 when signed out
  reasons      \* what may have put storage and that session out of step

accountVars == <<registered, name, upgrades, upgraded>>
sessionVars == <<opened, sessions, minted, sessionOf>>
historyVars == <<exchanged, overlap>>
vars == <<accountVars, sessionVars, expired, calls, storage, op, faults, historyVars,
          current, reasons>>

Session == [user : 0..MaxSessions, token : 0..MaxTokens, revoked : BOOLEAN]
Call == [pc : {"idle", "sent", "checked", "answered", "refused"}, token : 0..MaxTokens,
         next : 0..MaxTokens]
Op == [pc : {"start", "me", "login", "signedIn", "logout", "clear", "idle"},
       token : 0..MaxTokens]

NoCall == [pc |-> "idle", token |-> 0, next |-> 0]
At(pc) == [pc |-> pc, token |-> 0]

\* Rows, calls and the client's state are well-formed: a session has the token
\* of its own last pair, and a call that passed its check carries a real token.
TypeOK ==
  /\ registered \in 0..MaxSessions
  /\ name \in [UserIds -> Names \cup {NoName}]
  /\ upgrades \subseteq (1..MaxUpgrades) \X UserIds \X Names
  /\ upgraded \in 0..MaxUpgrades
  /\ opened \in 0..MaxSessions /\ registered <= opened
  /\ sessions \in [SessionIds -> Session]
  /\ minted \in 0..MaxTokens
  /\ sessionOf \in [Tokens -> 0..MaxSessions]
  /\ \A t \in Tokens : t <= minted => sessionOf[t] \in 1..opened
  /\ \A s \in 1..opened : sessions[s].token \in 1..minted
  /\ expired \subseteq Tokens
  /\ calls \in [Calls -> Call]
  /\ \A c \in Calls : calls[c].pc # "idle" => calls[c].token \in 1..minted
  /\ storage \in 0..minted
  /\ op \in Op
  /\ faults \in 0..MaxFaults
  /\ exchanged \in [Tokens -> Nat] /\ overlap \subseteq Tokens
  /\ current \in 0..opened
  /\ reasons \subseteq {"lost", "crossed", "gaveUp"}

Init ==
  /\ registered = 0 /\ name = [u \in UserIds |-> NoName]
  /\ upgrades = {} /\ upgraded = 0
  /\ opened = 0
  /\ sessions = [s \in SessionIds |-> [user |-> 0, token |-> 0, revoked |-> FALSE]]
  /\ minted = 0 /\ sessionOf = [t \in Tokens |-> 0] /\ expired = {}
  /\ calls = [c \in Calls |-> NoCall]
  /\ storage = 0 /\ op = At("start")
  /\ faults = 0
  /\ exchanged = [t \in Tokens |-> 0] /\ overlap = {}
  /\ current = 0 /\ reasons = {}

-----------------------------------------------------------------------------
(* AuthService: sessions *)

\* Seeded fault: the claims do not name the session.
MintAnonymous(s) ==
  /\ minted < MaxTokens
  /\ minted' = minted + 1
  /\ sessionOf' = sessionOf

MintPair(s) ==
  /\ minted < MaxTokens
  /\ minted' = minted + 1
  /\ sessionOf' = [sessionOf EXCEPT ![minted + 1] = s]

issueSession(user) ==
  /\ opened < MaxSessions
  /\ opened' = opened + 1
  /\ MintPair(opened + 1)
  /\ sessions' = [sessions EXCEPT ![opened + 1] =
                    [user |-> user, token |-> minted + 1, revoked |-> FALSE]]

\* The row's own expiry is that of the token it was stored with.
Accepts(t) ==
  /\ t \notin expired
  /\ ~sessions[sessionOf[t]].revoked
  /\ sessions[sessionOf[t]].token = t

\* Refresh up to its first statement.
CheckRefresh(c) ==
  /\ calls[c].pc = "sent"
  /\ calls' = [calls EXCEPT ![c].pc = IF Accepts(calls[c].token) THEN "checked" ELSE "refused"]
  /\ UNCHANGED <<accountVars, sessionVars, expired, storage, op, faults, historyVars,
                 current, reasons>>

\* Seeded fault: the row keeps the hash it had.
KeepRefreshHash(s, t) == sessions' = sessions

\* where revoked_at is null; that no row matched is not noticed.
UpdateRefreshHash(s, t) ==
  sessions' = IF sessions[s].revoked THEN sessions
              ELSE [sessions EXCEPT ![s].token = t]

\* The rest of Refresh: the new pair is stored and answered.
Refresh(c) ==
  LET t == calls[c].token IN
  /\ calls[c].pc = "checked"
  /\ MintPair(sessionOf[t])
  /\ UpdateRefreshHash(sessionOf[t], minted + 1)
  /\ calls' = [calls EXCEPT ![c].pc = "answered", ![c].next = minted + 1]
  /\ exchanged' = [exchanged EXCEPT ![t] = @ + 1]
  /\ overlap' = IF \E d \in Calls \ {c} : calls[d].pc = "checked" /\ calls[d].token = t
                THEN overlap \cup {t} ELSE overlap
  /\ UNCHANGED <<accountVars, opened, expired, storage, op, faults, current, reasons>>

Expire(t) ==
  /\ t \in 1..minted \ expired /\ Cardinality(expired) < MaxExpiries
  /\ expired' = expired \cup {t}
  /\ UNCHANGED <<accountVars, sessionVars, calls, storage, op, faults, historyVars,
                 current, reasons>>

-----------------------------------------------------------------------------
(* AuthService: accounts *)

\* Validation passed and nobody else has the name.
UpgradeGuest(u, n) ==
  /\ upgraded < MaxUpgrades
  /\ u <= registered
  /\ \A v \in UserIds \ {u} : name[v] # n
  /\ upgraded' = upgraded + 1
  /\ upgrades' = upgrades \cup {<<upgraded + 1, u, n>>}
  /\ UNCHANGED <<registered, name, sessionVars, expired, calls, storage, op, faults,
                 historyVars, current, reasons>>

\* Seeded fault: where id = $1, whatever the user's provider.
UpgradeAnyUser(u, n) == \A v \in UserIds \ {u} : name[v] # n

\* where id = $1 and provider = 'guest'; the unique index on the name.
MayUpgrade(u, n) ==
  /\ name[u] = NoName
  /\ \A v \in UserIds \ {u} : name[v] # n

\* The update: it names the user or is refused.
UpgradeStored(up) ==
  /\ up \in upgrades
  /\ upgrades' = upgrades \ {up}
  /\ name' = IF MayUpgrade(up[2], up[3]) THEN [name EXCEPT ![up[2]] = up[3]] ELSE name
  /\ UNCHANGED <<registered, upgraded, sessionVars, expired, calls, storage, op, faults,
                 historyVars, current, reasons>>

-----------------------------------------------------------------------------
(* TokenRefresher *)

\* Seeded fault: every caller starts a refresh of its own.
NobodyElse(r) == calls[r].pc = "idle"

\* _refreshInFlight ??= _doRefresh()
NoneInFlight(r) == \A q \in Slots : calls[q].pc = "idle"

refreshTokens(r) ==
  /\ NoneInFlight(r) /\ storage # 0
  /\ calls' = [calls EXCEPT ![r] = [pc |-> "sent", token |-> storage, next |-> 0]]
  /\ UNCHANGED <<accountVars, sessionVars, expired, storage, op, faults, historyVars,
                 current, reasons>>

\* The answer is written, whatever storage holds by now.
Keep(r) ==
  /\ calls[r].pc = "answered"
  /\ storage' = calls[r].next
  /\ calls' = [calls EXCEPT ![r] = NoCall]
  /\ UNCHANGED <<accountVars, sessionVars, expired, op, faults, historyVars, current, reasons>>

\* 400 or 401: storage is cleared, whatever it holds by now.
Forget(r) ==
  /\ calls[r].pc = "refused"
  /\ storage' = 0
  /\ calls' = [calls EXCEPT ![r] = NoCall]
  /\ UNCHANGED <<accountVars, sessionVars, expired, op, faults, historyVars, current, reasons>>

\* A call without an answer: the server may still be at it.
Unanswered(r) ==
  calls' \in {[calls EXCEPT ![r] = NoCall],
              [calls EXCEPT ![r] = NoCall, ![faults + 1] = calls[r]]}

\* Timeout, broken connection or a 5xx: null, and storage is left alone.
RefreshFails(r) ==
  /\ calls[r].pc # "idle" /\ faults < MaxFaults
  /\ Unanswered(r)
  /\ faults' = faults + 1
  /\ reasons' = reasons \cup {"lost"}
  /\ UNCHANGED <<accountVars, sessionVars, expired, storage, op, historyVars, current>>

-----------------------------------------------------------------------------
(* AuthRepository *)

Refreshing == \E r \in Slots : calls[r].pc # "idle"

restore ==
  /\ op.pc = "start"
  /\ op' = At(IF storage = 0 THEN "login" ELSE "me")
  /\ UNCHANGED <<accountVars, sessionVars, expired, calls, storage, faults, historyVars,
                 current, reasons>>

MeSucceeds ==
  /\ op.pc = "me" /\ storage # 0
  /\ op' = At("idle")
  /\ UNCHANGED <<accountVars, sessionVars, expired, calls, storage, faults, historyVars,
                 current, reasons>>

\* Any failure clears storage: the tokens were refused, or the call failed.
MeFails ==
  /\ op.pc = "me"
  /\ IF storage = 0 THEN UNCHANGED <<faults, reasons>>
     ELSE /\ faults < MaxFaults /\ faults' = faults + 1
          /\ reasons' = reasons \cup {"gaveUp"}
  /\ storage' = 0
  /\ op' = At("login")
  /\ UNCHANGED <<accountVars, sessionVars, expired, calls, historyVars, current>>

LoginGuest ==
  /\ op.pc = "login"
  /\ registered' = registered + 1
  /\ issueSession(registered + 1)
  /\ op' = [pc |-> "signedIn", token |-> minted + 1]
  /\ UNCHANGED <<name, upgrades, upgraded, expired, calls, storage, faults, historyVars,
                 current, reasons>>

LoginPassword(n) ==
  /\ op.pc = "idle"
  /\ \E u \in UserIds : name[u] = n /\ issueSession(u)
  /\ op' = [pc |-> "signedIn", token |-> minted + 1]
  /\ UNCHANGED <<accountVars, expired, calls, storage, faults, historyVars, current, reasons>>

LoginFails ==
  /\ op.pc = "login" /\ faults < MaxFaults
  /\ faults' = faults + 1
  /\ op' = At("idle")
  /\ UNCHANGED <<accountVars, sessionVars, expired, calls, storage, historyVars, current,
                 reasons>>

\* A refresh that is under way will write over what a sign-in or a logout wrote.
Crossed == IF Refreshing THEN {"crossed"} ELSE {}

KeepLogin ==
  /\ op.pc = "signedIn"
  /\ storage' = op.token
  /\ current' = sessionOf[op.token]
  /\ reasons' = Crossed
  /\ op' = At("idle")
  /\ UNCHANGED <<accountVars, sessionVars, expired, calls, faults, historyVars>>

logout ==
  /\ op.pc = "idle" /\ storage # 0
  /\ op' = [pc |-> "logout", token |-> storage]
  /\ UNCHANGED <<accountVars, sessionVars, expired, calls, storage, faults, historyVars,
                 current, reasons>>

Revoke ==
  /\ op.pc = "logout"
  /\ sessions' = [sessions EXCEPT ![sessionOf[op.token]].revoked = TRUE]
  /\ op' = At("clear")
  /\ UNCHANGED <<accountVars, opened, minted, sessionOf, expired, calls, storage, faults,
                 historyVars, current, reasons>>

\* The call fails; storage is cleared all the same (finally).
LogoutFails ==
  /\ op.pc = "logout" /\ faults < MaxFaults
  /\ faults' = faults + 1
  /\ op' = At("clear")
  /\ UNCHANGED <<accountVars, sessionVars, expired, calls, storage, historyVars, current,
                 reasons>>

Clear ==
  /\ op.pc = "clear"
  /\ storage' = 0 /\ current' = 0
  /\ reasons' = Crossed
  /\ op' = At("idle")
  /\ UNCHANGED <<accountVars, sessionVars, expired, calls, faults, historyVars>>

\* The app is closed and started again: only storage and the server remain.
Restart ==
  /\ faults < MaxFaults
  /\ faults' = faults + 1
  /\ op' = At("start")
  /\ IF Refreshing
     THEN /\ \E r \in Slots : calls[r].pc # "idle" /\ Unanswered(r)
          /\ reasons' = reasons \cup {"lost"}
     ELSE UNCHANGED <<calls, reasons>>
  /\ UNCHANGED <<accountVars, sessionVars, expired, storage, historyVars, current>>

Next ==
  \/ \E c \in Calls : CheckRefresh(c) \/ Refresh(c)
  \/ \E r \in Slots : refreshTokens(r) \/ Keep(r) \/ Forget(r) \/ RefreshFails(r)
  \/ \E t \in Tokens : Expire(t)
  \/ \E u \in UserIds, n \in Names : UpgradeGuest(u, n)
  \/ \E up \in upgrades : UpgradeStored(up)
  \/ restore \/ MeSucceeds \/ MeFails \/ LoginGuest \/ LoginFails \/ KeepLogin
  \/ \E n \in Names : LoginPassword(n)
  \/ logout \/ Revoke \/ LogoutFails \/ Clear \/ Restart

Spec == Init /\ [][Next]_vars

-----------------------------------------------------------------------------
(* Properties *)

\* A refresh token is exchanged once.  The check and the update are two
\* statements, so it is exchanged again only by a call that had checked it
\* before: retries of a lost answer and logouts in between make no difference.
ExchangedOnce == \A t \in Tokens : exchanged[t] <= 1 \/ t \in overlap

AtRest == ~Refreshing /\ op.pc \in {"start", "idle"}

\* The client and the server agree whenever nothing is under way: while the
\* session signed in to last would accept a refresh, the client holds exactly
\* the token it would accept; and it never holds another session's.  The
\* exceptions are a refresh whose answer was lost, a refresh that was under way
\* across a sign-in or a logout, and a restore that failed.
InStep ==
  AtRest /\ reasons = {} =>
    IF current # 0 /\ Accepts(sessions[current].token)
    THEN storage = sessions[current].token
    ELSE storage = 0 \/ sessionOf[storage] = current

\* Whoever signs in with a name signs in to the same user ever after, however
\* upgrades of guests to that name, or of that guest to another, overlap.
NameKeepsUser ==
  [][\A u \in UserIds : name[u] # NoName =>
       name'[u] = name[u] /\ \A v \in UserIds \ {u} : name'[v] # name[u]]_vars
=============================================================================
