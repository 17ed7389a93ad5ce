--------------------------- MODULE ResourceNodes ---------------------------
(***************************************************************************)
(* The world of one player: the rows of user_entities, which are a bank,   *)
(* trees and stumps.                                                       *)
(*                                                                         *)
(* Nothing plants trees in the background.  Whoever reads the entities -   *)
(* entities.get, bootstrap, a deposit, the start of a harvest - first runs *)
(* ensureResourceNodes: it lists the rows, deletes expired stumps, creates *)
(* a missing bank and plants missing trees, one statement after another,   *)
(* each committed alone, deciding everything from the list it read first.  *)
(* Two such loads interleave at every statement, a load may end at any     *)
(* failed statement, and the worker fells trees meanwhile.                 *)
(***************************************************************************)
EXTENDS Integers, FiniteSets

CONSTANTS
  Kinds,          \* 1..n, tree kinds in the order of treeDefinitions
  Target,         \* [Kinds -> Nat]: scaledTreeTargetCounts(resourceNodeTargetCount)
  resourceNodeTargetCount,
  Candidates,     \* [Kinds -> set of places]: forestCandidates of the kind's forests
  minForestTreeGapTiles,
  BankAt,         \* where the bank stands
  Bank,           \* the entity type "bank"
  resourceStumpLifetime,
  Loaders,        \* requests that read the entities
  Grown,          \* the rows at the start
  Ids,            \* bound: 1..n, row ids; a uuid is an id nobody holds
  MaxTime,        \* bound: the clock
  MaxFells,       \* bound: trees felled
  MaxFaults       \* bound: statements that fail

Places == (UNION {Candidates[k] : k \in Kinds}) \cup {BankAt}

Rows == [id : Ids, kind : Kinds \cup {Bank}, at : Places,
         state : {"idle", "depleted"}, expires : Nat]

\* absInt(a.X-b.X) >= minGap || absInt(a.Y-b.Y) >= minGap
hasMinimumGap(a, b) ==
  \E i \in {1, 2} : a[i] - b[i] >= minForestTreeGapTiles \/ b[i] - a[i] >= minForestTreeGapTiles

OfKind(S, k) == {e \in S : e.kind = k}
IsActive(e) == e.kind # Bank /\ e.state = "idle"
Active(S, k) == {e \in S : IsActive(e) /\ e.kind = k}
IsBank(e) == e.kind = Bank

ASSUME ResourceNodesAssumption ==
  /\ Kinds \subseteq Nat \ {0} /\ Bank \notin Kinds
  /\ Target \in [Kinds -> Nat] /\ resourceNodeTargetCount \in Nat
  /\ \A k \in Kinds : Candidates[k] \subseteq Int \X Int
  /\ BankAt \in Int \X Int
  /\ minForestTreeGapTiles \in Nat \ {0}
  /\ resourceStumpLifetime \in Nat
  /\ Ids \subseteq Nat \ {0} /\ IsFiniteSet(Ids)
  /\ MaxTime \in Nat /\ MaxFells \in Nat /\ MaxFaults \in Nat

\* The rows at the start are what loads that did not overlap leave behind.
ASSUME GrownAssumption ==
  /\ Grown \subseteq Rows /\ IsFiniteSet(Grown)
  /\ \A e \in Grown : IsBank(e) => e.state = "idle" /\ e.at = BankAt
  /\ Grown # {} => \E e \in Grown : IsBank(e)
  /\ \A e, f \in Grown : e # f => e.id # f.id /\ hasMinimumGap(e.at, f.at)
  /\ \A k \in Kinds : Cardinality(Active(Grown, k)) <= Target[k]
  /\ \A k \in Kinds : {e.at : e \in OfKind(Grown, k)} \subseteq Candidates[k]

VARIABLES
  rows,    \* user_entities
  now,     \* the clock
  load,    \* per loader: where it is in ensureResourceNodes
  raced,   \* history: pairs of rows, the later created by a load that had not
           \* seen the earlier
  fells,   \* trees felled so far
  faults   \* failed statements so far

vars == <<rows, now, load, raced, fells, faults>>

\* seen: the list `filtered`; expired: the stumps that are still to be deleted
LoadState == [pc : {"idle", "ensure"}, seen : SUBSET Rows, expired : SUBSET Rows]
NotLoading == [pc |-> "idle", seen |-> {}, expired |-> {}]

IdsOf(S) == {e.id : e \in S}

\* Rows and loads are well-formed, no two rows share an id, and a bank is
\* never a stump.
TypeOK ==
  /\ rows \subseteq Rows
  /\ \A e, f \in rows : e.id = f.id => e = f
  /\ \A e \in rows : IsBank(e) => e.at = BankAt /\ e.state = "idle"
  /\ now \in Nat
  /\ load \in [Loaders -> LoadState]
  /\ raced \subseteq SUBSET Ids
  /\ fells \in Nat /\ faults \in Nat

Init ==
  /\ rows = Grown
  /\ now = 0
  /\ load = [l \in Loaders |-> NotLoading]
  /\ raced = {} /\ fells = 0 /\ faults = 0

-----------------------------------------------------------------------------
(* ensureResourceNodes, statement by statement *)

\* Seeded fault: a stump goes one moment early.
StumpExpiredEarly(e, t) == e.expires <= t + 1

stumpExpired(e, t) == e.expires <= t

HeldIds == IdsOf(rows) \cup UNION {IdsOf(load[l].seen \cup load[l].expired) : l \in Loaders}

FreshId == CHOOSE i \in Ids \ HeldIds : TRUE

Expired == {e \in rows : e.state = "depleted" /\ stumpExpired(e, now)}

\* The caller takes the time and the rows are listed; the two are one step.
ListEntities(l) ==
  /\ load[l].pc = "idle"
  /\ load' = [load EXCEPT ![l] = [pc |-> "ensure", seen |-> rows \ Expired,
                                  expired |-> Expired]]
  /\ UNCHANGED <<rows, now, raced, fells, faults>>

\* A row that is gone already is no error.
DeleteEntity(l) ==
  /\ load[l].pc = "ensure"
  /\ \E e \in load[l].expired :
       /\ load' = [load EXCEPT ![l].expired = @ \ {e}]
       /\ rows' = {f \in rows : f.id # e.id}
       /\ raced' = {pair \in raced : e.id \notin pair}
  /\ UNCHANGED <<now, fells, faults>>

\* An insert: no constraint refuses it, whatever the rows are by now.
CreateEntity(l, kind, at) ==
  LET e == [id |-> FreshId, kind |-> kind, at |-> at, state |-> "idle", expires |-> 0] IN
  /\ Ids \ HeldIds # {}
  /\ rows' = rows \cup {e}
  /\ load' = [load EXCEPT ![l].seen = @ \cup {e}]
  /\ raced' = raced \cup {{e.id, i} : i \in IdsOf(rows) \ IdsOf(load[l].seen)}
  /\ UNCHANGED <<now, fells, faults>>

Deleted(l) == load[l].pc = "ensure" /\ load[l].expired = {}
HasBank(l) == \E e \in load[l].seen : IsBank(e)

ensureBankEntity(l) ==
  /\ Deleted(l) /\ ~HasBank(l)
  /\ CreateEntity(l, Bank, BankAt)

\* Seeded fault: one tree more than the target.
MissingOneTooMany(seen) == {k \in Kinds : Cardinality(Active(seen, k)) <= Target[k]}

\* Seeded fault: the last tree of a kind is not missed.
MissingOneTooFew(seen) == {k \in Kinds : Cardinality(Active(seen, k)) < Target[k] - 1}

\* Seeded fault: a stump counts as the tree it was.
MissingCountsStumps(seen) ==
  {k \in Kinds : Cardinality(OfKind(seen, k)) < Target[k]}

\* Kinds still to be planted.  The code computes the list once; each tree it
\* creates is one of it, so what is left of the list follows from `filtered`.
missingTreeTypes(seen) ==
  IF Cardinality({e \in seen : IsActive(e)}) >= resourceNodeTargetCount THEN {}
  ELSE {k \in Kinds : Cardinality(Active(seen, k)) < Target[k]}

IsNext(k, seen) == k \in missingTreeTypes(seen) /\ \A j \in missingTreeTypes(seen) : k <= j

\* Seeded fault: stumps do not keep trees away.
CanPlaceOnStumps(p, seen) ==
  \A e \in seen : e.state = "idle" => hasMinimumGap(p, e.at)

canPlaceForestTree(p, seen) == \A e \in seen : hasMinimumGap(p, e.at)

Room(k, seen) == {p \in Candidates[k] : canPlaceForestTree(p, seen)}

\* The candidates are shuffled: any of them may come first.
spawnResourceEntity(l) ==
  LET seen == load[l].seen IN
  /\ Deleted(l) /\ HasBank(l)
  /\ \E k \in Kinds : IsNext(k, seen) /\ \E p \in Room(k, seen) : CreateEntity(l, k, p)

\* The list is worked off, or its next kind has no room (break).
Finished(l) ==
  /\ Deleted(l) /\ HasBank(l)
  /\ \A k \in Kinds : IsNext(k, load[l].seen) => Room(k, load[l].seen) = {}

Return(l) ==
  /\ Finished(l)
  /\ load' = [load EXCEPT ![l] = NotLoading]
  /\ UNCHANGED <<rows, now, raced, fells, faults>>

\* Any statement may fail; what was committed before it stays.
LoadFails(l) ==
  /\ load[l].pc # "idle" /\ faults < MaxFaults
  /\ load' = [load EXCEPT ![l] = NotLoading]
  /\ faults' = faults + 1
  /\ UNCHANGED <<rows, now, raced, fells>>

-----------------------------------------------------------------------------
(* The worker and the clock *)

\* Seeded fault: whatever entity the action names is felled.
DepleteAnyEntity(e) ==
  /\ fells < MaxFells /\ now + resourceStumpLifetime <= MaxTime
  /\ rows' = (rows \ {e}) \cup
             {[e EXCEPT !.state = "depleted", !.expires = now + resourceStumpLifetime]}
  /\ fells' = fells + 1
  /\ UNCHANGED <<now, load, raced, faults>>

\* depleteResourceNode, at the end of a harvest of a tree that still stands.
depleteResourceNode(e) ==
  /\ IsActive(e)
  /\ fells < MaxFells /\ now + resourceStumpLifetime <= MaxTime
  /\ rows' = (rows \ {e}) \cup
             {[e EXCEPT !.state = "depleted", !.expires = now + resourceStumpLifetime]}
  /\ fells' = fells + 1
  /\ UNCHANGED <<now, load, raced, faults>>

Tick ==
  /\ now < MaxTime
  /\ now' = now + 1
  /\ UNCHANGED <<rows, load, raced, fells, faults>>

LoadStep(l) ==
  \/ ListEntities(l) \/ DeleteEntity(l)
  \/ ensureBankEntity(l) \/ spawnResourceEntity(l) \/ Return(l)

Next ==
  \/ \E l \in Loaders : LoadStep(l) \/ LoadFails(l)
  \/ \E e \in rows : depleteResourceNode(e)
  \/ Tick

Spec == Init /\ [][Next]_vars

\* Time passes, and the player's client keeps reading the entities.
FairSpec == Spec /\ WF_vars(Tick) /\ \A l \in Loaders : WF_vars(LoadStep(l))

-----------------------------------------------------------------------------
(* Properties *)

Raced(e, f) == {e.id, f.id} \in raced

\* Two entities stand closer than the minimum gap - two banks, or trees that
\* grow into each other or into a stump - only if two loads overlapped and the
\* later one had not seen the row of the earlier.  Failed statements, restarts
\* of a half-done load, fellings during a load and stumps never cause it.
SpacedUnlessRaced ==
  \A e, f \in rows : e # f => hasMinimumGap(e.at, f.at) \/ Raced(e, f)

\* Likewise for the number of trees: among trees of one kind of which no two
\* were created by overlapping loads there are never more than the target.
NoSurplusUnlessRaced ==
  \A k \in Kinds : \A S \in SUBSET Active(rows, k) :
    (\A e, f \in S : e # f => ~Raced(e, f)) => Cardinality(S) <= Target[k]

\* A load removes nothing but expired stumps, however old its list is: a tree
\* that stands is never lost, and a stump not before its time.
OnlyExpiredStumpsGo ==
  [][\A e \in rows :
       e.id \notin IdsOf(rows') => e.state = "depleted" /\ e.expires <= now]_vars

Short(k) == Cardinality(Active(rows, k)) < Target[k]

\* Nothing is left to do: one could not plant anything more.
Restored ==
  /\ \E e \in rows : IsBank(e)
  /\ \A e \in rows : e.state = "idle"
  /\ \/ Cardinality({e \in rows : IsActive(e)}) >= resourceNodeTargetCount
     \/ \A k \in Kinds : Short(k) =>
          \E j \in Kinds : j <= k /\ Short(j) /\
            \A p \in Candidates[j] : \E e \in rows : ~hasMinimumGap(p, e.at)

\* Whatever was felled, failed half-way or was created twice, later loads
\* restore the world: the bank stands, stumps are gone, and trees are missing
\* only behind a kind that has no room left.
EventuallyRestored == <>[]Restored

Sites == {<<Bank, BankAt>>} \cup UNION {{k} \X Candidates[k] : k \in Kinds}

\* The places of a kind that nothing spoils but a row on the place itself: out of
\* the reach of the bank, of the other kinds' places and of the kind's other places.
Apart ==
  [k \in Kinds |-> {p \in Candidates[k] :
     \A s \in Sites : s = <<k, p>> \/ hasMinimumGap(p, s[2])}]

Stumps(S, k) == {e \in OfKind(S, k) : e.state = "depleted"}

\* Each kind has such places for its target and the stumps still in its forests.
Roomy(S) == \A k \in Kinds : Cardinality(Apart[k]) >= Target[k] + Cardinality(Stumps(S, k))

\* Where there is room for every kind, no kind blocks the kinds after it (break):
\* a load that comes to its end has planted each up to its target, wherever the
\* shuffle put the trees before, whatever was felled and whichever loads failed
\* half-way - unless a surplus that overlapping loads left of one kind stands for
\* the missing trees of another.
TargetsReached ==
  \A l \in Loaders :
    Finished(l) /\ Roomy(load[l].seen) =>
      \/ \A k \in Kinds : Cardinality(Active(load[l].seen, k)) >= Target[k]
      \/ Cardinality({e \in load[l].seen : IsActive(e)}) >= resourceNodeTargetCount
=============================================================================
