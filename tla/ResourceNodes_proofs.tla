------------------------ MODULE ResourceNodes_proofs ------------------------
(***************************************************************************)
(* Spacing, numbers and lifetime of a player's entities, for any number of *)
(* overlapping loads, any places, targets and stump lifetime; and that     *)
(* every kind is planted where there is room for it.                       *)
(***************************************************************************)
EXTENDS ResourceNodes, FiniteSetTheorems, WellFoundedInduction, TLAPS

USE ResourceNodesAssumption

FiniteRows == IsFiniteSet(rows) /\ \A l \in Loaders : IsFiniteSet(load[l].seen)

\* The bank of a list that has any row is in the list, and stands for good.
BanksStay ==
  /\ rows # {} => \E e \in rows : IsBank(e)
  /\ \A l \in Loaders :
       /\ \A e \in load[l].seen : IsBank(e) => e \in rows
       /\ load[l].seen \cup load[l].expired # {} => HasBank(l)

\* What a load knows of a row: its kind and place for good, and everything
\* once it is a stump.
Agree(e, f) ==
  e.id = f.id => e.kind = f.kind /\ e.at = f.at /\ (f.state = "depleted" => e = f)

CopiesAgree ==
  \A l \in Loaders :
    /\ \A e \in rows, f \in load[l].seen \cup load[l].expired : Agree(e, f)
    /\ \A f \in load[l].expired : ~IsBank(f) /\ f.state = "depleted" /\ f.expires <= now
    /\ load[l].pc = "idle" => load[l] = NotLoading

\* The inductive invariant.
IInv ==
  /\ TypeOK /\ FiniteRows /\ BanksStay /\ CopiesAgree
  /\ SpacedUnlessRaced /\ NoSurplusUnlessRaced

-----------------------------------------------------------------------------
(* Operators *)

\* Being raced and keeping the gap do not depend on an order.
LEMMA RacedSymmetric == \A e, f : Raced(e, f) <=> Raced(f, e)
<1> TAKE e, f
<1>1. {e.id, f.id} = {f.id, e.id}
  OBVIOUS
<1> QED
  BY <1>1 DEF Raced

\* (The same of the gap.)
LEMMA GapSymmetric == \A a, b : hasMinimumGap(a, b) <=> hasMinimumGap(b, a)
BY DEF hasMinimumGap

\* A new id is one that no row and no list holds.
LEMMA FreshIdIsFresh == ASSUME Ids \ HeldIds # {} PROVE FreshId \in Ids \ HeldIds
BY DEF FreshId

\* A set whose members have ids of their own, all found in T, is no larger.
LEMMA CountById ==
  ASSUME NEW S, NEW T, IsFiniteSet(T),
         \A e, f \in S : e.id = f.id => e = f,
         \A e \in S : \E g \in T : g.id = e.id
  PROVE  IsFiniteSet(S) /\ Cardinality(S) <= Cardinality(T)
<1> DEFINE h == [e \in S |-> CHOOSE g \in T : g.id = e.id]
<1>1. \A e \in S : h[e] \in T /\ h[e].id = e.id
  OBVIOUS
<1>2. h \in [S -> T]
  BY <1>1
<1>3. \A e, f \in S : h[e] = h[f] => e = f
  BY <1>1
<1> HIDE DEF h
<1>4. h \in Injection(S, T)
  BY <1>2, <1>3 DEF Injection, IsInjective
<1> QED
  BY <1>4, FS_Injection

-----------------------------------------------------------------------------
(* The initial state *)

\* The world that loads without overlap left behind satisfies the invariant.
LEMMA InitIInv == Init => IInv
<1> SUFFICES ASSUME Init PROVE IInv
  OBVIOUS
<1> USE GrownAssumption DEF Init
<1>1. TypeOK
  BY DEF TypeOK, LoadState, NotLoading
<1>2. FiniteRows
  BY FS_EmptySet DEF FiniteRows, NotLoading
<1>3. BanksStay /\ CopiesAgree
  BY DEF BanksStay, CopiesAgree, NotLoading
<1>4. SpacedUnlessRaced
  BY DEF SpacedUnlessRaced
<1>5. NoSurplusUnlessRaced
  <2> SUFFICES ASSUME NEW k \in Kinds, NEW S \in SUBSET Active(rows, k)
               PROVE  Cardinality(S) <= Target[k]
    BY DEF NoSurplusUnlessRaced
  <2>1. IsFiniteSet(Active(rows, k))
    BY FS_Subset DEF Active
  <2>2. Cardinality(S) <= Cardinality(Active(rows, k)) /\ IsFiniteSet(S)
    BY <2>1, FS_Subset
  <2>3. Cardinality(S) \in Nat /\ Cardinality(Active(rows, k)) \in Nat /\ Target[k] \in Nat
    BY <2>1, <2>2, FS_CardinalityType
  <2> QED
    BY <2>2, <2>3
<1> QED
  BY <1>1, <1>2, <1>3, <1>4, <1>5 DEF IInv

-----------------------------------------------------------------------------
(* An insert *)

\* What an insert of row n by load l changes.
Inserted(l, n) ==
  /\ n \in Rows /\ n.state = "idle"
  /\ rows' = rows \cup {n}
  /\ load' \in [Loaders -> LoadState]
  /\ load'[l].seen = load[l].seen \cup {n}
  /\ load'[l].expired = load[l].expired /\ load'[l].pc = load[l].pc
  /\ \A m \in Loaders \ {l} : load'[m] = load[m]
  /\ raced' = raced \cup {{n.id, i} : i \in IdsOf(rows) \ IdsOf(load[l].seen)}
  /\ UNCHANGED <<now, fells, faults>>
  /\ \A f \in rows : f.id # n.id
  /\ \A m \in Loaders : \A f \in load[m].seen \cup load[m].expired : f.id # n.id

\* CreateEntity inserts a row with an id that neither a row nor a list holds.
LEMMA CreateEffect ==
  ASSUME IInv, NEW l \in Loaders, NEW kind \in Kinds \cup {Bank}, NEW at \in Places,
         CreateEntity(l, kind, at)
  PROVE  \E n : Inserted(l, n) /\ n.kind = kind /\ n.at = at
<1> DEFINE n == [id |-> FreshId, kind |-> kind, at |-> at, state |-> "idle", expires |-> 0]
<1>1. FreshId \in Ids \ HeldIds
  BY FreshIdIsFresh DEF CreateEntity
<1>2. n \in Rows /\ n.kind = kind /\ n.at = at /\ n.state = "idle" /\ n.id = FreshId
  BY <1>1 DEF Rows
<1>3. rows' = rows \cup {n} /\ UNCHANGED <<now, fells, faults>>
  BY DEF CreateEntity
<1>4. load' = [load EXCEPT ![l].seen = @ \cup {n}]
  BY DEF CreateEntity
<1>5. load \in [Loaders -> LoadState]
  BY DEF IInv, TypeOK
<1>6. raced' = raced \cup {{n.id, i} : i \in IdsOf(rows) \ IdsOf(load[l].seen)}
  BY DEF CreateEntity
<1>7. n.id \notin HeldIds
  BY <1>1, <1>2
<1> HIDE DEF n
<1>8. load'[l] = [load[l] EXCEPT !.seen = @ \cup {n}] /\ \A m \in Loaders \ {l} : load'[m] = load[m]
  BY <1>4, <1>5
<1>9. /\ load'[l].seen = load[l].seen \cup {n}
      /\ load'[l].expired = load[l].expired /\ load'[l].pc = load[l].pc
      /\ load'[l] \in LoadState
  BY <1>2, <1>5, <1>8 DEF LoadState
<1>12. load' \in [Loaders -> LoadState]
  BY <1>4, <1>5, <1>8, <1>9
<1>10. \A f \in rows : f.id # n.id
  BY <1>7 DEF HeldIds, IdsOf
<1>11. \A m \in Loaders : \A f \in load[m].seen \cup load[m].expired : f.id # n.id
  BY <1>7 DEF HeldIds, IdsOf
<1> QED
  BY <1>2, <1>3, <1>6, <1>8, <1>9, <1>10, <1>11, <1>12 DEF Inserted

\* An insert by a load that is at work, of its bank or after it, keeps the rows
\* well-formed and the lists in agreement with them.
LEMMA CreateKeepsRows ==
  ASSUME IInv, NEW l \in Loaders, NEW n, Inserted(l, n),
         load[l].pc = "ensure", IF IsBank(n) THEN n.at = BankAt ELSE HasBank(l)
  PROVE  (TypeOK /\ FiniteRows /\ BanksStay /\ CopiesAgree)'
<1> USE DEF IInv, Inserted
<1>2. TypeOK'
  <2>1. rows' \subseteq Rows /\ \A e, f \in rows' : e.id = f.id => e = f
    BY DEF TypeOK, IsBank
  <2>2. \A e \in rows' : IsBank(e) => e.at = BankAt /\ e.state = "idle"
    BY DEF TypeOK, IsBank
  <2>3. raced' \subseteq SUBSET Ids
    <3>1. n.id \in Ids
      BY DEF Rows
    <3>2. IdsOf(rows) \subseteq Ids
      BY DEF TypeOK, IdsOf, Rows
    <3>3. \A i \in IdsOf(rows) \ IdsOf(load[l].seen) : {n.id, i} \in SUBSET Ids
      BY <3>1, <3>2
    <3>4. raced \subseteq SUBSET Ids
      BY DEF TypeOK
    <3> SUFFICES ASSUME NEW pair \in raced' PROVE pair \in SUBSET Ids
      OBVIOUS
    <3>5. pair \in raced \/ \E i \in IdsOf(rows) \ IdsOf(load[l].seen) : pair = {n.id, i}
      OBVIOUS
    <3> QED
      BY <3>3, <3>4, <3>5
  <2> QED
    BY <2>1, <2>2, <2>3 DEF TypeOK
<1>3. FiniteRows'
  <2>1. IsFiniteSet(rows')
    BY FS_AddElement DEF FiniteRows
  <2>2. IsFiniteSet(load'[l].seen)
    BY FS_AddElement DEF FiniteRows
  <2> QED
    BY <2>1, <2>2 DEF FiniteRows
<1>4. BanksStay'
  <2>1. HasBank(l)'
    BY DEF HasBank, TypeOK, LoadState
  <2>2. \E e \in rows' : IsBank(e)
    BY DEF HasBank, BanksStay
  <2>3. \A e \in load'[l].seen : IsBank(e) => e \in rows'
    BY DEF BanksStay, TypeOK, LoadState
  <2>4. ASSUME NEW m \in Loaders \ {l}
        PROVE  /\ \A e \in load'[m].seen : IsBank(e) => e \in rows'
               /\ load'[m].seen \cup load'[m].expired # {} => HasBank(m)'
    BY <2>4 DEF BanksStay, HasBank
  <2> QED
    BY <2>1, <2>2, <2>3, <2>4 DEF BanksStay
<1>5. CopiesAgree'
  <2>1. \A m \in Loaders : load'[m].expired = load[m].expired /\ load'[m].pc = load[m].pc
    BY DEF TypeOK, LoadState
  <2>2. \A m \in Loaders : \A f \in load[m].seen \cup load[m].expired : Agree(n, f)
    BY DEF Agree
  <2>3. \A e \in rows : Agree(e, n)
    BY DEF Agree
  <2>4. Agree(n, n)
    BY DEF Agree
  <2>5. \A m \in Loaders : \A e \in rows, f \in load[m].seen \cup load[m].expired : Agree(e, f)
    BY DEF CopiesAgree
  <2>6. \A m \in Loaders : load'[m].seen \subseteq load[m].seen \cup {n}
    BY DEF TypeOK, LoadState
  <2>7. \A m \in Loaders : \A e \in rows', f \in load'[m].seen \cup load'[m].expired : Agree(e, f)
    BY <2>1, <2>2, <2>3, <2>4, <2>5, <2>6
  <2>8. \A m \in Loaders : load'[m].pc = "idle" => load'[m] = NotLoading
    BY DEF CopiesAgree, TypeOK, LoadState
  <2>9. \A m \in Loaders : \A f \in load'[m].expired :
          ~IsBank(f) /\ f.state = "depleted" /\ f.expires <= now'
    BY <2>1 DEF CopiesAgree
  <2> QED
    BY <2>7, <2>8, <2>9 DEF CopiesAgree
<1> QED
  BY <1>2, <1>3, <1>4, <1>5

\* An insert away from every row the load has seen.
LEMMA CreateKeepsSpaced ==
  ASSUME IInv, NEW l \in Loaders, NEW n, Inserted(l, n),
         \A f \in load[l].seen : hasMinimumGap(n.at, f.at)
  PROVE  SpacedUnlessRaced'
<1> USE DEF IInv, Inserted
<1>2. ASSUME NEW f \in rows PROVE hasMinimumGap(n.at, f.at) \/ Raced(n, f)'
  <2>1. CASE \E g \in load[l].seen : g.id = f.id
    BY <2>1 DEF CopiesAgree, Agree
  <2>2. CASE ~\E g \in load[l].seen : g.id = f.id
    <3>1. f.id \in IdsOf(rows) \ IdsOf(load[l].seen)
      BY <2>2 DEF IdsOf
    <3> QED
      BY <3>1 DEF Raced
  <2> QED
    BY <2>1, <2>2
<1>3. \A f \in rows : hasMinimumGap(f.at, n.at) \/ Raced(f, n)'
  <2>1. \A f : Raced(f, n)' <=> Raced(n, f)'
    <3> TAKE f
    <3>1. {n.id, f.id} = {f.id, n.id}
      OBVIOUS
    <3> QED
      BY <3>1 DEF Raced
  <2> QED
    BY <1>2, <2>1, GapSymmetric
<1>4. \A e, f \in rows : e # f => hasMinimumGap(e.at, f.at) \/ Raced(e, f)'
  BY DEF SpacedUnlessRaced, Raced
<1>5. rows' = rows \cup {n}
  OBVIOUS
<1> QED
  BY <1>2, <1>3, <1>4, <1>5 DEF SpacedUnlessRaced

\* An insert of a tree of which the load has seen too few.
LEMMA CreateKeepsNumbers ==
  ASSUME IInv, NEW l \in Loaders, NEW n, Inserted(l, n),
         ~IsBank(n) => Cardinality(Active(load[l].seen, n.kind)) < Target[n.kind]
  PROVE  NoSurplusUnlessRaced'
<1> DEFINE seen == load[l].seen
<1> USE DEF IInv, Inserted
<1> SUFFICES ASSUME NEW k \in Kinds, NEW S \in SUBSET Active(rows', k),
                    \A e, f \in S : e # f => ~Raced(e, f)'
             PROVE  Cardinality(S) <= Target[k]
  BY DEF NoSurplusUnlessRaced, Active, IsActive
<1>2. \A e, f \in S : e # f => ~Raced(e, f)
  BY DEF Raced
<1>3. CASE n \notin S
  <2>1. S \subseteq Active(rows, k)
    BY <1>3 DEF Active
  <2> QED
    BY <1>2, <2>1 DEF NoSurplusUnlessRaced
<1>4. CASE n \in S
  <2>1. n.kind = k /\ ~IsBank(n)
    BY <1>4 DEF Active, IsBank
  <2>2. ASSUME NEW f \in S \ {n} PROVE \E g \in Active(seen, k) : g.id = f.id
    <3>1. f \in rows /\ f.kind = k /\ f.state = "idle" /\ f.kind # Bank
      BY DEF Active, IsActive
    <3>2. f.id \in IdsOf(seen)
      <4> SUFFICES ASSUME f.id \notin IdsOf(seen) PROVE FALSE
        OBVIOUS
      <4>1. f.id \in IdsOf(rows) \ IdsOf(seen)
        BY <3>1 DEF IdsOf
      <4>2. Raced(n, f)'
        BY <4>1 DEF Raced
      <4> QED
        BY <1>4, <4>2
    <3>3. PICK g \in seen : g.id = f.id
      BY <3>2 DEF IdsOf
    <3>4. Agree(f, g)
      BY <3>1 DEF CopiesAgree
    <3>5. g \in Rows
      BY DEF TypeOK, LoadState
    <3>6. g.kind = k /\ g.state = "idle"
      BY <3>1, <3>3, <3>4, <3>5 DEF Agree, Rows
    <3> QED
      BY <2>1, <3>3, <3>6 DEF Active, IsActive
  <2>3. IsFiniteSet(Active(seen, k)) /\ Cardinality(Active(seen, k)) \in Nat
    BY FS_Subset, FS_CardinalityType DEF FiniteRows, Active
  <2>4. \A e, f \in S \ {n} : e.id = f.id => e = f
    BY DEF TypeOK, Active
  <2>5. IsFiniteSet(S \ {n}) /\ Cardinality(S \ {n}) <= Cardinality(Active(seen, k))
    BY <2>2, <2>3, <2>4, CountById
  <2>6. Cardinality(S \ {n}) \in Nat
    BY <2>5, FS_CardinalityType
  <2>7. S = (S \ {n}) \cup {n}
    BY <1>4
  <2>8. Cardinality(S) = Cardinality(S \ {n}) + 1
    BY <2>5, <2>7, FS_AddElement
  <2>9. Target[k] \in Nat
    OBVIOUS
  <2> QED
    BY <2>1, <2>3, <2>5, <2>6, <2>8, <2>9
<1> QED
  BY <1>3, <1>4

-----------------------------------------------------------------------------
(* The other steps *)

\* Rows and pairs that do not change keep their distance and their number.
LEMMA SameRows ==
  ASSUME IInv, UNCHANGED <<rows, raced>>
  PROVE  (SpacedUnlessRaced /\ NoSurplusUnlessRaced)'
<1>1. SpacedUnlessRaced'
  BY DEF IInv, SpacedUnlessRaced, Raced
<1>2. NoSurplusUnlessRaced'
  BY DEF IInv, NoSurplusUnlessRaced, Raced, Active
<1> QED
  BY <1>1, <1>2

\* A load begins with the rows as they are.
LEMMA ListKeeps == ASSUME IInv, NEW l \in Loaders, ListEntities(l) PROVE IInv'
<1> USE DEF IInv
<1>1. load \in [Loaders -> LoadState] /\ UNCHANGED <<rows, now, raced, fells, faults>>
  BY DEF ListEntities, TypeOK
<1>2. /\ load'[l] = [pc |-> "ensure", seen |-> rows \ Expired, expired |-> Expired]
      /\ \A m \in Loaders \ {l} : load'[m] = load[m]
  BY <1>1 DEF ListEntities
<1>3. Expired \subseteq rows /\ \A e \in Expired : e.state = "depleted" /\ e.expires <= now /\ ~IsBank(e)
  BY DEF Expired, stumpExpired, TypeOK
<1>4. TypeOK'
  BY <1>1, <1>3 DEF ListEntities, LoadState, TypeOK
<1>5. FiniteRows'
  <2>1. IsFiniteSet(rows \ Expired)
    BY FS_Subset DEF FiniteRows
  <2>2. load'[l].seen = rows \ Expired
    BY <1>2
  <2>3. \A m \in Loaders : IsFiniteSet(load'[m].seen)
    BY <1>2, <2>1, <2>2 DEF FiniteRows
  <2> QED
    BY <1>1, <2>3 DEF FiniteRows
<1>6. BanksStay'
  <2>1. ASSUME NEW m \in Loaders
        PROVE  /\ \A e \in load'[m].seen : IsBank(e) => e \in rows'
               /\ load'[m].seen \cup load'[m].expired # {} => HasBank(m)'
    <3>1. CASE m = l
      BY <1>1, <1>2, <1>3, <3>1 DEF BanksStay, HasBank
    <3>2. CASE m # l
      BY <1>1, <1>2, <3>2 DEF BanksStay, HasBank
    <3> QED
      BY <3>1, <3>2
  <2> QED
    BY <1>1, <2>1 DEF BanksStay
<1>7. CopiesAgree'
  <2>1. \A e, f \in rows : Agree(e, f)
    BY DEF TypeOK, Agree
  <2> QED
    BY <1>1, <1>2, <1>3, <2>1 DEF CopiesAgree
<1> QED
  BY <1>1, <1>4, <1>5, <1>6, <1>7, SameRows

\* Deleting an expired stump takes no other row away, and no bank.
LEMMA DeleteEffect ==
  ASSUME IInv, NEW l \in Loaders, DeleteEntity(l)
  PROVE  \E e \in load[l].expired :
           /\ rows' = {f \in rows : f.id # e.id}
           /\ \A f \in rows : f.id = e.id => f = e
           /\ raced' = {pair \in raced : e.id \notin pair}
           /\ load' \in [Loaders -> LoadState]
           /\ load'[l].seen = load[l].seen /\ load'[l].pc = "ensure"
           /\ load'[l].expired = load[l].expired \ {e}
           /\ \A m \in Loaders \ {l} : load'[m] = load[m]
           /\ ~IsBank(e) /\ e.state = "depleted" /\ e.expires <= now
           /\ UNCHANGED <<now, fells, faults>>
<1> USE DEF IInv
<1>1. PICK e \in load[l].expired :
        /\ load' = [load EXCEPT ![l].expired = @ \ {e}]
        /\ rows' = {f \in rows : f.id # e.id}
        /\ raced' = {pair \in raced : e.id \notin pair}
  BY DEF DeleteEntity
<1>2. load \in [Loaders -> LoadState] /\ load[l].pc = "ensure" /\ UNCHANGED <<now, fells, faults>>
  BY DEF DeleteEntity, TypeOK
<1>3. /\ load'[l] = [load[l] EXCEPT !.expired = @ \ {e}]
      /\ \A m \in Loaders \ {l} : load'[m] = load[m]
  BY <1>1, <1>2
<1>4. /\ load'[l].seen = load[l].seen /\ load'[l].pc = "ensure"
      /\ load'[l].expired = load[l].expired \ {e} /\ load'[l] \in LoadState
  BY <1>2, <1>3 DEF LoadState
<1>5. load' \in [Loaders -> LoadState]
  BY <1>1, <1>2, <1>3, <1>4
<1>6. ~IsBank(e) /\ e.state = "depleted" /\ e.expires <= now /\ \A f \in rows : f.id = e.id => f = e
  BY DEF CopiesAgree, Agree
<1> QED
  BY <1>1, <1>2, <1>3, <1>4, <1>5, <1>6

LEMMA DeleteKeeps == ASSUME IInv, NEW l \in Loaders, DeleteEntity(l) PROVE IInv'
<1> USE DEF IInv
<1>1. PICK e \in load[l].expired :
        /\ rows' = {f \in rows : f.id # e.id}
        /\ \A f \in rows : f.id = e.id => f = e
        /\ raced' = {pair \in raced : e.id \notin pair}
        /\ load' \in [Loaders -> LoadState]
        /\ load'[l].seen = load[l].seen /\ load'[l].pc = "ensure"
        /\ load'[l].expired = load[l].expired \ {e}
        /\ \A m \in Loaders \ {l} : load'[m] = load[m]
        /\ ~IsBank(e) /\ e.state = "depleted" /\ e.expires <= now
        /\ UNCHANGED <<now, fells, faults>>
  BY DeleteEffect
<1>2. rows' \subseteq rows /\ raced' \subseteq raced
  BY <1>1
<1>3. \A f \in rows : IsBank(f) => f \in rows'
  BY <1>1
<1>4. \A m \in Loaders : load'[m].seen = load[m].seen /\ load'[m].expired \subseteq load[m].expired
  BY <1>1
<1>5. TypeOK'
  BY <1>1, <1>2 DEF TypeOK
<1>6. FiniteRows'
  BY <1>2, <1>4, FS_Subset DEF FiniteRows
<1>7. BanksStay'
  <2>1. \A m \in Loaders : load'[m].seen \cup load'[m].expired # {} => HasBank(m)'
    BY <1>4 DEF BanksStay, HasBank
  <2> QED
    BY <1>2, <1>3, <1>4, <2>1 DEF BanksStay
<1>8. CopiesAgree'
  <2>1. \A m \in Loaders : \A f \in rows', g \in load'[m].seen \cup load'[m].expired : Agree(f, g)
    BY <1>2, <1>4 DEF CopiesAgree
  <2>2. \A m \in Loaders : \A f \in load'[m].expired :
          ~IsBank(f) /\ f.state = "depleted" /\ f.expires <= now'
    BY <1>1, <1>4 DEF CopiesAgree
  <2>3. \A m \in Loaders : load'[m].pc = "idle" => load'[m] = NotLoading
    BY <1>1 DEF CopiesAgree
  <2> QED
    BY <2>1, <2>2, <2>3 DEF CopiesAgree
<1>9. \A f, g \in rows' : Raced(f, g) => Raced(f, g)'
  BY <1>1 DEF Raced
<1>10. SpacedUnlessRaced'
  BY <1>2, <1>9 DEF SpacedUnlessRaced
<1>11. NoSurplusUnlessRaced'
  <2> SUFFICES ASSUME NEW k \in Kinds, NEW S \in SUBSET Active(rows', k),
                      \A f, g \in S : f # g => ~Raced(f, g)'
               PROVE  Cardinality(S) <= Target[k]
    BY DEF NoSurplusUnlessRaced, Active, IsActive
  <2>1. S \subseteq rows' /\ S \in SUBSET Active(rows, k)
    BY <1>2 DEF Active
  <2>2. \A f, g \in S : f # g => ~Raced(f, g)
    BY <1>9, <2>1
  <2> QED
    BY <2>1, <2>2 DEF NoSurplusUnlessRaced
<1> QED
  BY <1>5, <1>6, <1>7, <1>8, <1>10, <1>11

\* ensureBankEntity inserts the bank in its place.
LEMMA BankEffect ==
  ASSUME IInv, NEW l \in Loaders, ensureBankEntity(l)
  PROVE  \E n : Inserted(l, n) /\ n.kind = Bank /\ n.at = BankAt
<1>1. BankAt \in Places /\ Bank \in Kinds \cup {Bank}
  BY DEF Places
<1>2. CreateEntity(l, Bank, BankAt)
  BY DEF ensureBankEntity
<1> HIDE ResourceNodesAssumption
<1> QED
  BY <1>1, <1>2, CreateEffect

\* The first bank is inserted by a load that has seen no row at all.
LEMMA BankKeeps == ASSUME IInv, NEW l \in Loaders, ensureBankEntity(l) PROVE IInv'
<1>1. \E n : Inserted(l, n) /\ n.kind = Bank /\ n.at = BankAt
  BY BankEffect
<1>2. PICK n : Inserted(l, n) /\ n.kind = Bank /\ n.at = BankAt
  BY <1>1
<1>3. IsBank(n)
  BY <1>2 DEF IsBank
<1>4. load[l].pc = "ensure" /\ load[l].seen = {}
  BY DEF ensureBankEntity, Deleted, BanksStay, IInv
<1>5. (TypeOK /\ FiniteRows /\ BanksStay /\ CopiesAgree)'
  BY <1>2, <1>3, <1>4, CreateKeepsRows
<1>6. SpacedUnlessRaced'
  BY <1>2, <1>4, CreateKeepsSpaced
<1>7. NoSurplusUnlessRaced'
  BY <1>2, <1>3, CreateKeepsNumbers
<1> QED
  BY <1>5, <1>6, <1>7 DEF IInv

\* A tree is inserted where the load has seen room for it.
LEMMA SpawnKeeps == ASSUME IInv, NEW l \in Loaders, spawnResourceEntity(l) PROVE IInv'
<1> USE DEF IInv
<1>1. load[l].pc = "ensure" /\ HasBank(l)
  BY DEF spawnResourceEntity, Deleted
<1>2. PICK k \in Kinds : k \in missingTreeTypes(load[l].seen) /\
        \E p \in Room(k, load[l].seen) : CreateEntity(l, k, p)
  BY DEF spawnResourceEntity, IsNext
<1>9. PICK p \in Room(k, load[l].seen) : CreateEntity(l, k, p)
  BY <1>2
<1>3. p \in Places /\ \A f \in load[l].seen : hasMinimumGap(p, f.at)
  BY DEF Room, Places, canPlaceForestTree
<1>4. PICK n : Inserted(l, n) /\ n.kind = k /\ n.at = p
  BY <1>3, <1>9, CreateEffect
<1>5. ~IsBank(n) /\ Cardinality(Active(load[l].seen, k)) < Target[k]
  BY <1>2, <1>4 DEF missingTreeTypes, IsBank
<1>6. (TypeOK /\ FiniteRows /\ BanksStay /\ CopiesAgree)'
  BY <1>1, <1>4, <1>5, CreateKeepsRows
<1>7. SpacedUnlessRaced'
  BY <1>3, <1>4, CreateKeepsSpaced
<1>8. NoSurplusUnlessRaced'
  BY <1>4, <1>5, CreateKeepsNumbers
<1> QED
  BY <1>6, <1>7, <1>8

\* A load that ends, well or not, leaves only what it committed.
LEMMA EndKeeps ==
  ASSUME IInv, NEW l \in Loaders, load' = [load EXCEPT ![l] = NotLoading],
         UNCHANGED <<rows, now, raced, fells>>, faults' \in Nat
  PROVE  IInv'
<1> USE DEF IInv
<1>1. load \in [Loaders -> LoadState] /\ NotLoading \in LoadState
  BY DEF TypeOK, NotLoading, LoadState
<1>2. TypeOK'
  BY <1>1 DEF TypeOK
<1>3. load'[l] = NotLoading /\ \A m \in Loaders \ {l} : load'[m] = load[m]
  BY <1>1
<1>4. FiniteRows'
  BY <1>3, FS_EmptySet DEF FiniteRows, NotLoading
<1>5. BanksStay'
  <2>1. ASSUME NEW m \in Loaders
        PROVE  /\ \A e \in load'[m].seen : IsBank(e) => e \in rows'
               /\ load'[m].seen \cup load'[m].expired # {} => HasBank(m)'
    BY <1>3 DEF BanksStay, HasBank, NotLoading
  <2> QED
    BY <2>1 DEF BanksStay
<1>6. CopiesAgree'
  BY <1>3 DEF CopiesAgree, NotLoading
<1> QED
  BY <1>2, <1>4, <1>5, <1>6, SameRows

\* A felled tree keeps its id, kind and place, and no list had it as a stump.
LEMMA DepleteKeeps == ASSUME IInv, NEW e \in rows, depleteResourceNode(e) PROVE IInv'
<1> USE DEF IInv
<1> DEFINE s == [e EXCEPT !.state = "depleted", !.expires = now + resourceStumpLifetime]
<1>1. /\ rows' = (rows \ {e}) \cup {s} /\ fells' = fells + 1 /\ IsActive(e)
      /\ UNCHANGED <<now, load, raced, faults>>
  BY DEF depleteResourceNode
<1>2. e \in Rows /\ now + resourceStumpLifetime \in Nat
  BY DEF TypeOK
<1>3. s \in Rows /\ s.id = e.id /\ s.kind = e.kind /\ s.at = e.at /\ s.state = "depleted"
  BY <1>2 DEF Rows
<1>4. ~IsBank(s) /\ ~IsBank(e) /\ e.state = "idle"
  BY <1>1, <1>3 DEF IsActive, IsBank
<1> HIDE DEF s
<1>5. TypeOK'
  <2>1. rows' \subseteq Rows
    BY <1>1, <1>3 DEF TypeOK
  <2>2. \A f, g \in rows' : f.id = g.id => f = g
    BY <1>1, <1>3 DEF TypeOK
  <2>3. \A f \in rows' : IsBank(f) => f.at = BankAt /\ f.state = "idle"
    BY <1>1, <1>4 DEF TypeOK
  <2> QED
    BY <1>1, <2>1, <2>2, <2>3 DEF TypeOK
<1>6. FiniteRows'
  <2>1. IsFiniteSet(rows \ {e})
    BY FS_Subset DEF FiniteRows
  <2>2. IsFiniteSet(rows')
    BY <1>1, <2>1, FS_AddElement
  <2> QED
    BY <1>1, <2>2 DEF FiniteRows
<1>7. BanksStay'
  <2>1. \A f \in rows : IsBank(f) => f \in rows'
    BY <1>1, <1>4
  <2> QED
    BY <1>1, <2>1 DEF BanksStay, HasBank
<1>8. CopiesAgree'
  <2>1. ASSUME NEW m \in Loaders, NEW f \in load[m].seen \cup load[m].expired PROVE Agree(s, f)
    <3>1. Agree(e, f)
      BY DEF CopiesAgree
    <3> QED
      BY <1>3, <1>4, <3>1 DEF Agree
  <2>2. \A m \in Loaders : \A g \in rows', f \in load'[m].seen \cup load'[m].expired : Agree(g, f)
    BY <1>1, <2>1 DEF CopiesAgree
  <2> QED
    BY <1>1, <2>2 DEF CopiesAgree
<1>9. \A f \in rows' : \E g \in rows : g.id = f.id /\ g.at = f.at
  BY <1>1, <1>3
<1>10. SpacedUnlessRaced'
  <2> SUFFICES ASSUME NEW f \in rows', NEW g \in rows', f # g
               PROVE  hasMinimumGap(f.at, g.at) \/ Raced(f, g)
    BY <1>1 DEF SpacedUnlessRaced, Raced
  <2>1. f.id # g.id
    BY <1>5 DEF TypeOK
  <2>2. PICK f1 \in rows, g1 \in rows : f1.id = f.id /\ f1.at = f.at /\ g1.id = g.id /\ g1.at = g.at
    BY <1>9
  <2> QED
    BY <2>1, <2>2 DEF SpacedUnlessRaced, Raced
<1>11. NoSurplusUnlessRaced'
  <2>1. \A k \in Kinds : Active(rows', k) \subseteq Active(rows, k)
    BY <1>1, <1>3 DEF Active, IsActive
  <2> SUFFICES ASSUME NEW k \in Kinds, NEW S \in SUBSET Active(rows', k),
                      \A f, g \in S : f # g => ~Raced(f, g)'
               PROVE  Cardinality(S) <= Target[k]
    BY DEF NoSurplusUnlessRaced, Active, IsActive
  <2>2. S \in SUBSET Active(rows, k) /\ \A f, g \in S : f # g => ~Raced(f, g)
    BY <1>1, <2>1 DEF Raced
  <2> QED
    BY <2>2 DEF NoSurplusUnlessRaced
<1> QED
  BY <1>5, <1>6, <1>7, <1>8, <1>10, <1>11

\* Time only makes stumps expire.
LEMMA TickKeeps == ASSUME IInv, Tick PROVE IInv'
<1> USE DEF IInv, Tick
<1>1. TypeOK'
  BY DEF TypeOK
<1>2. FiniteRows' /\ BanksStay'
  BY DEF FiniteRows, BanksStay, HasBank
<1>3. CopiesAgree'
  <2>1. \A m \in Loaders : \A f \in load[m].expired : f.expires \in Nat
    BY DEF TypeOK, LoadState, Rows
  <2> QED
    BY <2>1 DEF CopiesAgree, TypeOK
<1> QED
  BY <1>1, <1>2, <1>3, SameRows

\* Every step preserves the invariant.
LEMMA StepIInv == IInv /\ [Next]_vars => IInv'
<1> SUFFICES ASSUME IInv, [Next]_vars PROVE IInv'
  OBVIOUS
<1>1. ASSUME NEW l \in Loaders, ListEntities(l) PROVE IInv'
  BY <1>1, ListKeeps
<1>2. ASSUME NEW l \in Loaders, DeleteEntity(l) PROVE IInv'
  BY <1>2, DeleteKeeps
<1>3. ASSUME NEW l \in Loaders, ensureBankEntity(l) PROVE IInv'
  BY <1>3, BankKeeps
<1>4. ASSUME NEW l \in Loaders, spawnResourceEntity(l) PROVE IInv'
  BY <1>4, SpawnKeeps
<1>5. ASSUME NEW l \in Loaders, Return(l) PROVE IInv'
  BY <1>5, EndKeeps DEF Return, IInv, TypeOK
<1>6. ASSUME NEW l \in Loaders, LoadFails(l) PROVE IInv'
  <2>1. faults' \in Nat
    BY <1>6 DEF LoadFails, IInv, TypeOK
  <2> QED
    BY <1>6, <2>1, EndKeeps DEF LoadFails
<1>7. ASSUME NEW e \in rows, depleteResourceNode(e) PROVE IInv'
  BY <1>7, DepleteKeeps
<1>8. CASE Tick
  BY <1>8, TickKeeps
<1>9. CASE UNCHANGED vars
  BY <1>9, SameRows DEF vars, IInv, TypeOK, FiniteRows, BanksStay, HasBank, CopiesAgree
<1> QED
  BY <1>1, <1>2, <1>3, <1>4, <1>5, <1>6, <1>7, <1>8, <1>9 DEF Next, LoadStep

-----------------------------------------------------------------------------
(* Room for every kind *)

\* A tree stands on a place of its kind, in the table and in the lists.
OnOwnPlaces ==
  \A l \in Loaders : \A e \in rows \cup load[l].seen : IsBank(e) \/ e.at \in Candidates[e.kind]

\* The world at the start stands as the assumption says.
LEMMA InitOwnPlaces == Init => OnOwnPlaces
<1> SUFFICES ASSUME Init, NEW e \in Grown, ~IsBank(e) PROVE e.at \in Candidates[e.kind]
  BY DEF Init, OnOwnPlaces, NotLoading
<1>1. e.kind \in Kinds
  BY GrownAssumption DEF Rows, IsBank
<1>2. e \in OfKind(Grown, e.kind)
  BY DEF OfKind
<1> QED
  BY <1>1, <1>2, GrownAssumption

\* Inserts take a place of the kind, and no step moves a row.
LEMMA StepOwnPlaces == IInv /\ OnOwnPlaces /\ [Next]_vars => OnOwnPlaces'
<1> SUFFICES ASSUME IInv, OnOwnPlaces, [Next]_vars PROVE OnOwnPlaces'
  OBVIOUS
<1> DEFINE Own(e) == IsBank(e) \/ e.at \in Candidates[e.kind]
<1>1. load \in [Loaders -> LoadState] /\ \A l \in Loaders : \A e \in rows \cup load[l].seen : Own(e)
  BY DEF OnOwnPlaces, IInv, TypeOK
<1>2. ASSUME NEW l \in Loaders, ListEntities(l) PROVE OnOwnPlaces'
  BY <1>1, <1>2 DEF ListEntities, OnOwnPlaces
<1>3. ASSUME NEW l \in Loaders, DeleteEntity(l) PROVE OnOwnPlaces'
  <2>1. rows' \subseteq rows /\ \A m \in Loaders : load'[m].seen = load[m].seen
    BY <1>3, DeleteEffect
  <2> QED
    BY <1>1, <2>1 DEF OnOwnPlaces
<1>4. ASSUME NEW l \in Loaders, NEW n, Inserted(l, n), Own(n) PROVE OnOwnPlaces'
  <2>1. rows' = rows \cup {n} /\ \A m \in Loaders : load'[m].seen \subseteq load[m].seen \cup {n}
    BY <1>4 DEF Inserted
  <2> QED
    BY <1>1, <1>4, <2>1 DEF OnOwnPlaces
<1>5. ASSUME NEW l \in Loaders, ensureBankEntity(l) PROVE OnOwnPlaces'
  <2>1. \E n : Inserted(l, n) /\ n.kind = Bank
    BY <1>5, BankEffect
  <2> QED
    BY <1>4, <2>1 DEF IsBank
<1>6. ASSUME NEW l \in Loaders, spawnResourceEntity(l) PROVE OnOwnPlaces'
  <2>1. PICK k \in Kinds : \E p \in Candidates[k] : CreateEntity(l, k, p)
    BY <1>6 DEF spawnResourceEntity, Room
  <2>2. PICK p \in Candidates[k] : CreateEntity(l, k, p)
    BY <2>1
  <2>3. p \in Places
    BY DEF Places
  <2>4. \E n : Inserted(l, n) /\ n.kind = k /\ n.at = p
    BY <2>2, <2>3, CreateEffect
  <2> QED
    BY <1>4, <2>4
<1>7. ASSUME NEW l \in Loaders, Return(l) \/ LoadFails(l) PROVE OnOwnPlaces'
  BY <1>1, <1>7 DEF Return, LoadFails, NotLoading, OnOwnPlaces
<1>8. ASSUME NEW e \in rows, depleteResourceNode(e) PROVE OnOwnPlaces'
  <2> DEFINE s == [e EXCEPT !.state = "depleted", !.expires = now + resourceStumpLifetime]
  <2>1. rows' = (rows \ {e}) \cup {s} /\ UNCHANGED load
    BY <1>8 DEF depleteResourceNode
  <2>2. s.kind = e.kind /\ s.at = e.at
    BY DEF IInv, TypeOK, Rows
  <2> HIDE DEF s
  <2>3. \A l \in Loaders : Own(s)
    BY <1>1, <2>2 DEF IsBank
  <2> QED
    BY <1>1, <2>1, <2>3 DEF OnOwnPlaces
<1>9. CASE Tick \/ UNCHANGED vars
  BY <1>1, <1>9 DEF Tick, vars, OnOwnPlaces
<1> QED
  BY <1>2, <1>3, <1>5, <1>6, <1>7, <1>8, <1>9 DEF Next, LoadStep

\* Of the kinds still to be planted one comes first.
LEMMA LeastKind ==
  ASSUME NEW T, T \subseteq Kinds, T # {} PROVE \E k \in T : \A j \in T : k <= j
<1> DEFINE Less == OpToRel(<, Nat)
<1>1. \A m, n \in Nat : m < n => <<m, n>> \in Less
  BY DEF OpToRel
<1>2. IsWellFoundedOn(Less, Nat)
  BY NatLessThanWellFounded, Zenon
<1> HIDE DEF Less
<1>3. T \subseteq Nat
  OBVIOUS
<1>4. PICK k \in T : \A j \in T : ~(<<j, k>> \in Less)
  BY <1>2, <1>3, WFMin
<1>5. ASSUME NEW j \in T PROVE k <= j
  <2>1. j \in Nat /\ k \in Nat /\ ~(j < k)
    BY <1>1, <1>3, <1>4
  <2> QED
    BY <2>1
<1> QED
  BY <1>5

\* A kind that finds no room has a row on each of its places apart, and no other
\* kind can be on one of them.
LEMMA FullIfNoRoom ==
  ASSUME NEW k \in Kinds, NEW S \in SUBSET Rows, IsFiniteSet(S), Room(k, S) = {},
         \A e \in S : IF IsBank(e) THEN e.at = BankAt ELSE e.at \in Candidates[e.kind]
  PROVE  Cardinality(Apart[k]) \in Nat /\ Cardinality(Apart[k]) <= Cardinality(OfKind(S, k))
<1>1. ASSUME NEW p \in Apart[k] PROVE \E e \in OfKind(S, k) : e.at = p
  <2>1. p \in Candidates[k] /\ \A s \in Sites : s = <<k, p>> \/ hasMinimumGap(p, s[2])
    BY DEF Apart
  <2>2. PICK e \in S : ~hasMinimumGap(p, e.at)
    BY <2>1 DEF Room, canPlaceForestTree
  <2>3. e.kind \in Kinds \cup {Bank}
    BY DEF Rows
  <2>4. <<e.kind, e.at>> \in Sites
    <3>1. CASE IsBank(e)
      <4>1. <<e.kind, e.at>> = <<Bank, BankAt>>
        BY <3>1 DEF IsBank
      <4> QED
        BY <4>1 DEF Sites
    <3>2. CASE ~IsBank(e)
      <4>1. e.kind \in Kinds /\ e.at \in Candidates[e.kind]
        BY <2>3, <3>2 DEF IsBank
      <4>2. <<e.kind, e.at>> \in {e.kind} \X Candidates[e.kind]
        BY <4>1
      <4> QED
        BY <4>1, <4>2 DEF Sites
    <3> QED
      BY <3>1, <3>2
  <2>5. <<e.kind, e.at>>[2] = e.at
    OBVIOUS
  <2>6. <<e.kind, e.at>> = <<k, p>>
    BY <2>1, <2>2, <2>4, <2>5
  <2> QED
    BY <2>6 DEF OfKind
<1> DEFINE h == [p \in Apart[k] |-> CHOOSE e \in OfKind(S, k) : e.at = p]
<1>2. \A p \in Apart[k] : h[p] \in OfKind(S, k) /\ h[p].at = p
  BY <1>1
<1>3. h \in [Apart[k] -> OfKind(S, k)]
  BY <1>2
<1> HIDE DEF h
<1>4. h \in Injection(Apart[k], OfKind(S, k))
  BY <1>2, <1>3 DEF Injection, IsInjective
<1>5. IsFiniteSet(OfKind(S, k))
  BY FS_Subset DEF OfKind
<1>6. IsFiniteSet(Apart[k]) /\ Cardinality(Apart[k]) <= Cardinality(OfKind(S, k))
  BY <1>4, <1>5, FS_Injection
<1> QED
  BY <1>6, FS_CardinalityType

\* The rows of a kind are its trees and its stumps.
LEMMA TreesAndStumps ==
  ASSUME NEW k \in Kinds, NEW S \in SUBSET Rows, IsFiniteSet(S)
  PROVE  /\ Cardinality(Active(S, k)) \in Nat /\ Cardinality(Stumps(S, k)) \in Nat
         /\ Cardinality(OfKind(S, k)) \in Nat
         /\ Cardinality(OfKind(S, k)) <= Cardinality(Active(S, k)) + Cardinality(Stumps(S, k))
<1>1. OfKind(S, k) = Active(S, k) \cup Stumps(S, k)
  BY DEF OfKind, Active, Stumps, IsActive, Rows
<1>2. IsFiniteSet(Active(S, k)) /\ IsFiniteSet(Stumps(S, k)) /\ IsFiniteSet(OfKind(S, k))
  BY FS_Subset DEF Active, Stumps, OfKind
<1>3. IsFiniteSet(Active(S, k) \cap Stumps(S, k))
  BY <1>2, FS_Subset
<1>4. /\ Cardinality(Active(S, k)) \in Nat /\ Cardinality(Stumps(S, k)) \in Nat
      /\ Cardinality(OfKind(S, k)) \in Nat /\ Cardinality(Active(S, k) \cap Stumps(S, k)) \in Nat
  BY <1>2, <1>3, FS_CardinalityType
<1>5. Cardinality(OfKind(S, k)) =
        Cardinality(Active(S, k)) + Cardinality(Stumps(S, k)) - Cardinality(Active(S, k) \cap Stumps(S, k))
  BY <1>1, <1>2, FS_Union
<1> QED
  BY <1>4, <1>5

\* The first kind that a finished load left short would fill all its places apart.
LEMMA EndedFull == IInv /\ OnOwnPlaces => TargetsReached
<1> SUFFICES ASSUME IInv, OnOwnPlaces, NEW l \in Loaders, Finished(l), Roomy(load[l].seen),
                    ~(Cardinality({e \in load[l].seen : IsActive(e)}) >= resourceNodeTargetCount),
                    NEW i \in Kinds, ~(Cardinality(Active(load[l].seen, i)) >= Target[i])
             PROVE  FALSE
  BY DEF TargetsReached
<1> DEFINE seen == load[l].seen
<1>1. seen \in SUBSET Rows /\ IsFiniteSet(seen)
  BY DEF IInv, TypeOK, LoadState, FiniteRows
<1>2. \A e \in seen : IF IsBank(e) THEN e.at = BankAt ELSE e.at \in Candidates[e.kind]
  BY DEF IInv, BanksStay, TypeOK, OnOwnPlaces
<1>3. missingTreeTypes(seen) = {k \in Kinds : Cardinality(Active(seen, k)) < Target[k]}
  BY DEF missingTreeTypes
<1>4. i \in missingTreeTypes(seen) /\ missingTreeTypes(seen) \subseteq Kinds
  <2>1. Cardinality(Active(seen, i)) \in Nat /\ Target[i] \in Nat
    BY <1>1, TreesAndStumps
  <2> QED
    BY <1>3, <2>1
<1>5. PICK k \in missingTreeTypes(seen) : \A j \in missingTreeTypes(seen) : k <= j
  BY <1>4, LeastKind
<1>6. k \in Kinds /\ Cardinality(Active(seen, k)) < Target[k] /\ Target[k] \in Nat
  BY <1>3, <1>5
<1>7. Room(k, seen) = {}
  BY <1>5, <1>6 DEF Finished, IsNext
<1> HIDE DEF seen
<1>8. Cardinality(Apart[k]) \in Nat /\ Cardinality(Apart[k]) <= Cardinality(OfKind(seen, k))
  BY <1>1, <1>2, <1>6, <1>7, FullIfNoRoom
<1>9. Cardinality(Apart[k]) >= Target[k] + Cardinality(Stumps(seen, k))
  BY <1>6 DEF Roomy, seen
<1>10. Cardinality(OfKind(seen, k)) <= Cardinality(Active(seen, k)) + Cardinality(Stumps(seen, k))
       /\ Cardinality(Active(seen, k)) \in Nat /\ Cardinality(Stumps(seen, k)) \in Nat
       /\ Cardinality(OfKind(seen, k)) \in Nat
  BY <1>1, <1>6, TreesAndStumps
<1> QED
  BY <1>6, <1>8, <1>9, <1>10

-----------------------------------------------------------------------------
(* Theorems *)

\* The invariant holds in every reachable state.
LEMMA Invariance == Spec => []IInv
<1> QED
  BY InitIInv, StepIInv, PTL DEF Spec

\* Rows and loads stay well-formed, whatever loads overlap or break off: row
\* ids stay unique, and a bank stays in its place and is never felled.
THEOREM TypeCorrect == Spec => []TypeOK
<1>1. IInv => TypeOK
  BY DEF IInv
<1> QED
  BY <1>1, Invariance, PTL

\* Entities stand at least minForestTreeGapTiles apart, unless a load created
\* the later without having seen the earlier (ensureBankEntity,
\* spawnResourceEntity).
THEOREM Spaced == Spec => []SpacedUnlessRaced
<1>1. IInv => SpacedUnlessRaced
  BY DEF IInv
<1> QED
  BY <1>1, Invariance, PTL

\* missingTreeTypes never lets a kind grow past its target, races aside.
THEOREM WithinTarget == Spec => []NoSurplusUnlessRaced
<1>1. IInv => NoSurplusUnlessRaced
  BY DEF IInv
<1> QED
  BY <1>1, Invariance, PTL

\* A row that is gone was an expired stump at the moment it went, although the
\* load that deletes it decided so from an older list.
THEOREM OnlyStumpsDeleted == Spec => OnlyExpiredStumpsGo
<1> DEFINE A == \A e \in rows :
                  e.id \notin IdsOf(rows') => e.state = "depleted" /\ e.expires <= now
<1>1. IInv /\ [Next]_vars => [A]_vars
  <2> SUFFICES ASSUME IInv, [Next]_vars, NEW e \in rows, e.id \notin IdsOf(rows')
               PROVE  e.state = "depleted" /\ e.expires <= now
    OBVIOUS
  <2>1. ASSUME NEW l \in Loaders, DeleteEntity(l) PROVE e.state = "depleted" /\ e.expires <= now
    <3>1. PICK x \in load[l].expired :
            /\ rows' = {f \in rows : f.id # x.id}
            /\ \A f \in rows : f.id = x.id => f = x
            /\ x.state = "depleted" /\ x.expires <= now
      BY <2>1, DeleteEffect
    <3>2. e.id = x.id
      BY <3>1 DEF IdsOf
    <3> QED
      BY <3>1, <3>2
  <2>2. ASSUME rows \subseteq rows' PROVE FALSE
    BY <2>2 DEF IdsOf
  <2>3. ASSUME NEW x \in rows, depleteResourceNode(x) PROVE FALSE
    <3>1. rows' = (rows \ {x}) \cup
             {[x EXCEPT !.state = "depleted", !.expires = now + resourceStumpLifetime]}
      BY <2>3 DEF depleteResourceNode
    <3>2. x \in Rows
      BY DEF IInv, TypeOK
    <3>3. [x EXCEPT !.state = "depleted", !.expires = now + resourceStumpLifetime].id = x.id
      BY <3>2 DEF Rows
    <3> QED
      BY <3>1, <3>3 DEF IdsOf
  <2>4. ASSUME NEW l \in Loaders, LoadStep(l), ~DeleteEntity(l) PROVE rows \subseteq rows'
    BY <2>4 DEF LoadStep, ListEntities, ensureBankEntity, spawnResourceEntity, CreateEntity, Return
  <2>5. ASSUME NEW l \in Loaders, LoadFails(l) PROVE rows \subseteq rows'
    BY <2>5 DEF LoadFails
  <2>6. Tick \/ UNCHANGED vars => rows \subseteq rows'
    BY DEF Tick, vars
  <2> QED
    BY <2>1, <2>2, <2>3, <2>4, <2>5, <2>6 DEF Next
<1> QED
  BY <1>1, Invariance, PTL DEF Spec, OnlyExpiredStumpsGo

\* Where every kind has places apart for its target and its stumps, a load that
\* ends has planted all of them (the break of ensureResourceNodes is never taken),
\* whatever the shuffle, the loads before and beside it and the worker did, unless
\* overlapping loads left as many trees as there should be in all.
THEOREM EveryKindPlanted == Spec => []TargetsReached
<1> QED
  BY InitOwnPlaces, StepOwnPlaces, EndedFull, Invariance, PTL DEF Spec
=============================================================================
