------------------------- MODULE PathSearch_proofs -------------------------
(***************************************************************************)
(* Proofs about PathSearch: costs s + d*sqrt(2) are ordered as the numbers *)
(* they stand for, the heuristic is consistent, and the loop of            *)
(* fastestPath finds a shortest path on every map, or shows that there is  *)
(* none, in whatever order nodes of equal priority are popped.             *)
(***************************************************************************)
EXTENDS PathSearch, FiniteSetTheorems, WellFoundedInduction, TLAPS

\* x + y*sqrt(2) >= 0
NonNegative(x, y) ==
  \/ x >= 0 /\ y >= 0
  \/ x < 0 /\ y > 0 /\ x * x <= 2 * (y * y)
  \/ x >= 0 /\ y < 0 /\ x * x >= 2 * (y * y)

Cost == Nat \X Nat

\* a is not dearer than b.
AtMost(a, b) == ~Cheaper(b, a)

-----------------------------------------------------------------------------
(* Costs are ordered like the numbers they stand for *)

\* Squares are ordered like their roots.
LEMMA SquaresOrder ==
  ASSUME NEW a \in Nat, NEW b \in Nat, a * a <= b * b
  PROVE  a <= b
<1> SUFFICES ASSUME b < a PROVE FALSE
  OBVIOUS
<1>1. b * b <= b * a
  BY Z3
<1>2. b * a < a * a
  BY Z3
<1> QED BY <1>1, <1>2

\* A product grows with its factors.
LEMMA ProductsOrder ==
  ASSUME NEW a \in Nat, NEW b \in Nat, NEW c \in Nat, NEW e \in Nat, a <= c, b <= e
  PROVE  a * b <= c * e
<1>1. a * b <= c * b
  BY Z3
<1>2. c * b <= c * e
  BY Z3
<1> QED BY <1>1, <1>2

\* If a <= b*sqrt(2) and c <= e*sqrt(2), then a*c <= 2*b*e.
LEMMA MixedBelow ==
  ASSUME NEW a \in Nat, NEW b \in Nat, NEW c \in Nat, NEW e \in Nat,
         a * a <= 2 * (b * b), c * c <= 2 * (e * e)
  PROVE  a * c <= 2 * (b * e)
<1>1. a * a \in Nat /\ c * c \in Nat /\ b * b \in Nat /\ e * e \in Nat /\ a * c \in Nat /\ b * e \in Nat
  OBVIOUS
<1>2. (a * a) * (c * c) <= (2 * (b * b)) * (2 * (e * e))
  BY <1>1, ProductsOrder
<1>3. (a * c) * (a * c) = (a * a) * (c * c)
  BY Z3
<1>4. (2 * (b * e)) * (2 * (b * e)) = (2 * (b * b)) * (2 * (e * e))
  BY Z3
<1>5. (a * c) * (a * c) <= (2 * (b * e)) * (2 * (b * e))
  BY <1>2, <1>3, <1>4
<1>6. 2 * (b * e) \in Nat
  BY <1>1
<1> QED BY <1>1, <1>5, <1>6, SquaresOrder

\* If a >= b*sqrt(2) and c >= e*sqrt(2), then a*c >= 2*b*e.
LEMMA MixedAbove ==
  ASSUME NEW a \in Nat, NEW b \in Nat, NEW c \in Nat, NEW e \in Nat,
         a * a >= 2 * (b * b), c * c >= 2 * (e * e)
  PROVE  a * c >= 2 * (b * e)
<1>1. a * a \in Nat /\ c * c \in Nat /\ b * b \in Nat /\ e * e \in Nat /\ a * c \in Nat /\ b * e \in Nat
  OBVIOUS
<1>0. 2 * (b * b) \in Nat /\ 2 * (e * e) \in Nat /\ 2 * (b * e) \in Nat
  BY <1>1
<1>2. (a * a) * (c * c) >= (2 * (b * b)) * (2 * (e * e))
  BY <1>0, <1>1, ProductsOrder
<1>3. (a * c) * (a * c) = (a * a) * (c * c)
  BY Z3
<1>4. (2 * (b * e)) * (2 * (b * e)) = (2 * (b * b)) * (2 * (e * e))
  BY Z3
<1>5. (2 * (b * e)) * (2 * (b * e)) <= (a * c) * (a * c)
  BY <1>2, <1>3, <1>4
<1> QED BY <1>0, <1>1, <1>5, SquaresOrder

\* If a <= b*sqrt(2) and c <= e*sqrt(2), then a+c <= (b+e)*sqrt(2).
LEMMA SumBelow ==
  ASSUME NEW a \in Nat, NEW b \in Nat, NEW c \in Nat, NEW e \in Nat,
         a * a <= 2 * (b * b), c * c <= 2 * (e * e)
  PROVE  /\ (a + c) * (a + c) <= 2 * ((b + e) * (b + e))
         /\ a * a < 2 * (b * b) => (a + c) * (a + c) < 2 * ((b + e) * (b + e))
<1>1. a * c <= 2 * (b * e)
  BY MixedBelow
<1>2. (a + c) * (a + c) = a * a + 2 * (a * c) + c * c
  BY Z3
<1>3. (b + e) * (b + e) = b * b + 2 * (b * e) + e * e
  BY Z3
<1> QED BY <1>1, <1>2, <1>3

\* If a >= b*sqrt(2) and c >= e*sqrt(2), then a+c >= (b+e)*sqrt(2).
LEMMA SumAbove ==
  ASSUME NEW a \in Nat, NEW b \in Nat, NEW c \in Nat, NEW e \in Nat,
         a * a >= 2 * (b * b), c * c >= 2 * (e * e)
  PROVE  /\ (a + c) * (a + c) >= 2 * ((b + e) * (b + e))
         /\ a * a > 2 * (b * b) => (a + c) * (a + c) > 2 * ((b + e) * (b + e))
<1>1. a * c >= 2 * (b * e)
  BY MixedAbove
<1>2. (a + c) * (a + c) = a * a + 2 * (a * c) + c * c
  BY Z3
<1>3. (b + e) * (b + e) = b * b + 2 * (b * e) + e * e
  BY Z3
<1> QED BY <1>1, <1>2, <1>3
\* Natural numbers of both kinds of steps may be added.
LEMMA NonNegativeWithPositive ==
  ASSUME NEW x \in Nat, NEW y \in Nat, NEW u \in Int, NEW v \in Int, NonNegative(u, v)
  PROVE  NonNegative(x + u, y + v)
<1>1. CASE u >= 0 /\ v >= 0
  BY <1>1 DEF NonNegative
<1>2. CASE u < 0 /\ v > 0 /\ u * u <= 2 * (v * v)
  <2>1. CASE x + u >= 0
    BY <1>2, <2>1 DEF NonNegative
  <2>2. CASE x + u < 0
    <3> DEFINE c == -u
               X == -(x + u)
    <3>1. c \in Nat /\ X \in Nat /\ X <= c /\ v \in Nat /\ y + v \in Nat /\ v <= y + v
      BY <1>2, <2>2
    <3>2. X * X <= c * c
      BY <3>1, ProductsOrder
    <3>3. v * v <= (y + v) * (y + v)
      BY <3>1, ProductsOrder
    <3>4. c * c = u * u /\ X * X = (x + u) * (x + u)
      BY Z3
    <3>5. (x + u) * (x + u) \in Int /\ u * u \in Int /\ v * v \in Int
          /\ (y + v) * (y + v) \in Int
      OBVIOUS
    <3> HIDE DEF c, X
    <3>6. (x + u) * (x + u) <= 2 * ((y + v) * (y + v))
      BY <1>2, <3>2, <3>3, <3>4, <3>5
    <3> QED BY <1>2, <2>2, <3>6 DEF NonNegative
  <2> QED BY <2>1, <2>2
<1>3. CASE u >= 0 /\ v < 0 /\ u * u >= 2 * (v * v)
  <2>1. CASE y + v >= 0
    BY <1>3, <2>1 DEF NonNegative
  <2>2. CASE y + v < 0
    <3> DEFINE e == -v
               Y == -(y + v)
    <3>1. e \in Nat /\ Y \in Nat /\ Y <= e /\ u \in Nat /\ x + u \in Nat /\ u <= x + u
      BY <1>3, <2>2
    <3>2. Y * Y <= e * e
      BY <3>1, ProductsOrder
    <3>3. u * u <= (x + u) * (x + u)
      BY <3>1, ProductsOrder
    <3>4. e * e = v * v /\ Y * Y = (y + v) * (y + v)
      BY Z3
    <3>5. (x + u) * (x + u) \in Int /\ u * u \in Int /\ v * v \in Int
          /\ (y + v) * (y + v) \in Int
      OBVIOUS
    <3> HIDE DEF e, Y
    <3>6. (x + u) * (x + u) >= 2 * ((y + v) * (y + v))
      BY <1>3, <3>2, <3>3, <3>4, <3>5
    <3> QED BY <1>3, <2>2, <3>6 DEF NonNegative
  <2> QED BY <2>1, <2>2
<1> QED BY <1>1, <1>2, <1>3 DEF NonNegative

\* a - b*sqrt(2) and e*sqrt(2) - c, both at least 0.
LEMMA NonNegativeOpposite ==
  ASSUME NEW a \in Nat, NEW b \in Nat, NEW c \in Nat, NEW e \in Nat,
         a * a >= 2 * (b * b), c * c <= 2 * (e * e)
  PROVE  NonNegative(a - c, e - b)
<1>0. /\ a * a \in Nat /\ b * b \in Nat /\ c * c \in Nat /\ e * e \in Nat
  OBVIOUS
<1>1. CASE a >= c /\ e >= b
  BY <1>1 DEF NonNegative
<1>2. CASE a >= c /\ e < b
  <2> DEFINE X == a - c
             B == b - e
  <2>1. X \in Nat /\ B \in Nat /\ X + c = a /\ B + e = b
    BY <1>2
  <2>2. X * X \in Int /\ B * B \in Int /\ B * B = (e - b) * (e - b)
    BY <2>1, Z3
  <2>3. X * X >= 2 * (B * B)
    <3> HIDE DEF X, B
    <3>1. SUFFICES ASSUME X * X < 2 * (B * B) PROVE FALSE
      BY <2>2
    <3>2. X * X <= 2 * (B * B)
      BY <2>2, <3>1
    <3>3. (X + c) * (X + c) < 2 * ((B + e) * (B + e))
      BY <2>1, <3>1, <3>2, SumBelow
    <3>4. a * a < 2 * (b * b)
      BY <2>1, <3>3
    <3> QED BY <1>0, <3>4
  <2> QED BY <1>2, <2>2, <2>3 DEF NonNegative
<1>3. CASE a < c /\ e <= b
  <2>1. a * a < c * c
    <3>1. a * a <= a * c /\ a * c < c * c
      BY <1>3, Z3
    <3> QED BY <1>0, <3>1
  <2>2. e * e <= b * b
    BY <1>3, ProductsOrder
  <2> QED BY <1>0, <2>1, <2>2
<1>4. CASE a < c /\ e > b
  <2> DEFINE X == c - a
             B == e - b
  <2>1. X \in Nat /\ B \in Nat /\ X + a = c /\ B + b = e
    BY <1>4
  <2>2. X * X \in Int /\ B * B \in Int /\ X * X = (a - c) * (a - c)
    BY <2>1, Z3
  <2>3. X * X <= 2 * (B * B)
    <3> HIDE DEF X, B
    <3>1. SUFFICES ASSUME X * X > 2 * (B * B) PROVE FALSE
      BY <2>2
    <3>2. X * X >= 2 * (B * B)
      BY <2>2, <3>1
    <3>3. (X + a) * (X + a) > 2 * ((B + b) * (B + b))
      BY <2>1, <3>1, <3>2, SumAbove
    <3>4. c * c > 2 * (e * e)
      BY <2>1, <3>3
    <3> QED BY <1>0, <3>4
  <2> QED BY <1>4, <2>2, <2>3 DEF NonNegative
<1> QED BY <1>1, <1>2, <1>3, <1>4

\* What is not negative may be added.
LEMMA NonNegativeSum ==
  ASSUME NEW x \in Int, NEW y \in Int, NonNegative(x, y),
         NEW u \in Int, NEW v \in Int, NonNegative(u, v)
  PROVE  NonNegative(x + u, y + v)
<1> DEFINE West(a, b) == a < 0 /\ b > 0 /\ a * a <= 2 * (b * b)
           East(a, b) == a >= 0 /\ b < 0 /\ a * a >= 2 * (b * b)
<1>1. CASE x >= 0 /\ y >= 0
  <2>1. x \in Nat /\ y \in Nat
    BY <1>1
  <2> QED BY <2>1, NonNegativeWithPositive, Zenon
<1>2. CASE u >= 0 /\ v >= 0
  <2>1. u \in Nat /\ v \in Nat
    BY <1>2
  <2>2. NonNegative(u + x, v + y)
    BY <2>1, NonNegativeWithPositive, Zenon
  <2> QED BY <2>2 DEF NonNegative
<1>3. CASE West(x, y) /\ West(u, v)
  <2>1. PICK a \in Nat, c \in Nat : a = -x /\ c = -u
    BY <1>3
  <2>2. a * a = x * x /\ c * c = u * u /\ (a + c) * (a + c) = (x + u) * (x + u)
    BY <2>1, Z3
  <2>3. (a + c) * (a + c) <= 2 * ((y + v) * (y + v))
    BY <1>3, <2>2, SumBelow
  <2> QED BY <1>3, <2>2, <2>3 DEF NonNegative
<1>4. CASE East(x, y) /\ East(u, v)
  <2>1. PICK b \in Nat, e \in Nat : b = -y /\ e = -v
    BY <1>4
  <2>2. b * b = y * y /\ e * e = v * v /\ (b + e) * (b + e) = (y + v) * (y + v)
    BY <2>1, Z3
  <2>3. (x + u) * (x + u) >= 2 * ((b + e) * (b + e))
    BY <1>4, <2>2, SumAbove
  <2> QED BY <1>4, <2>2, <2>3 DEF NonNegative
<1>5. CASE East(x, y) /\ West(u, v)
  <2>1. PICK b \in Nat, c \in Nat : b = -y /\ c = -u
    BY <1>5
  <2>2. b * b = y * y /\ c * c = u * u /\ x - c = x + u /\ v - b = y + v
    BY <2>1, Z3
  <2>3. x \in Nat /\ v \in Nat /\ x * x >= 2 * (b * b) /\ c * c <= 2 * (v * v)
    BY <1>5, <2>2
  <2>4. NonNegative(x - c, v - b)
    BY <2>1, <2>3, NonNegativeOpposite, Zenon
  <2> QED BY <2>2, <2>4
<1>6. CASE West(x, y) /\ East(u, v)
  <2>1. PICK e \in Nat, a \in Nat : e = -v /\ a = -x
    BY <1>6
  <2>2. e * e = v * v /\ a * a = x * x /\ u - a = x + u /\ y - e = y + v
    BY <2>1, Z3
  <2>3. u \in Nat /\ y \in Nat /\ u * u >= 2 * (e * e) /\ a * a <= 2 * (y * y)
    BY <1>6, <2>2
  <2>4. NonNegative(u - a, y - e)
    BY <2>1, <2>3, NonNegativeOpposite, Zenon
  <2> QED BY <2>2, <2>4
<1> QED BY <1>1, <1>2, <1>3, <1>4, <1>5, <1>6 DEF NonNegative

\* Not dearer: the difference is not negative.
LEMMA AtMostIs ==
  ASSUME NEW a \in Cost, NEW b \in Cost
  PROVE  /\ a[1] \in Nat /\ a[2] \in Nat /\ b[1] \in Nat /\ b[2] \in Nat
         /\ AtMost(a, b) <=> NonNegative(b[1] - a[1], b[2] - a[2])
<1> DEFINE x == b[1] - a[1]
           y == b[2] - a[2]
<1>1. a[1] \in Nat /\ a[2] \in Nat /\ b[1] \in Nat /\ b[2] \in Nat
  BY DEF Cost
<1>2. x \in Int /\ y \in Int /\ x * x \in Int /\ y * y \in Int
  BY <1>1
<1>3. (a[2] - b[2]) * (a[2] - b[2]) = y * y
  BY <1>1, Z3
<1>4. 2 * (a[2] - b[2]) * (a[2] - b[2]) = 2 * (y * y)
  BY <1>1, Z3
<1>5. a[2] - b[2] = -y
  BY <1>1
<1>6. Cheaper(b, a) <=> \/ x < 0 /\ -y >= 0
                        \/ x < 0 /\ -y < 0 /\ x * x > 2 * (y * y)
                        \/ x >= 0 /\ -y > 0 /\ x * x < 2 * (y * y)
  <2> HIDE DEF y
  <2> QED BY <1>4, <1>5 DEF Cheaper
<1>7. ~Cheaper(b, a) <=> NonNegative(x, y)
  <2> HIDE DEF x, y
  <2> QED BY <1>2, <1>6 DEF NonNegative
<1> QED BY <1>1, <1>7 DEF AtMost

\* A cost is not dearer than itself.
LEMMA AtMostReflexive ==
  ASSUME NEW a \in Cost
  PROVE  AtMost(a, a)
<1>1. a[1] - a[1] = 0 /\ a[2] - a[2] = 0
  BY AtMostIs
<1>2. NonNegative(0, 0)
  BY DEF NonNegative
<1> QED BY <1>1, <1>2, AtMostIs

\* What is not dearer than something not dearer is not dearer.
LEMMA AtMostTransitive ==
  ASSUME NEW a \in Cost, NEW b \in Cost, NEW c \in Cost, AtMost(a, b), AtMost(b, c)
  PROVE  AtMost(a, c)
<1>1. PICK x \in Int, y \in Int : x = b[1] - a[1] /\ y = b[2] - a[2] /\ NonNegative(x, y)
  BY AtMostIs
<1>2. PICK u \in Int, v \in Int : u = c[1] - b[1] /\ v = c[2] - b[2] /\ NonNegative(u, v)
  BY AtMostIs
<1>3. NonNegative(x + u, y + v)
  BY <1>1, <1>2, NonNegativeSum, Zenon
<1>4. x + u = c[1] - a[1] /\ y + v = c[2] - a[2]
  BY <1>1, <1>2, AtMostIs
<1> QED BY <1>3, <1>4, AtMostIs

\* What is cheaper is not dearer.
LEMMA CheaperAtMost ==
  ASSUME NEW a \in Cost, NEW b \in Cost, Cheaper(a, b)
  PROVE  AtMost(a, b)
<1>1. PICK x \in Int, y \in Int : x = b[1] - a[1] /\ y = b[2] - a[2]
  BY AtMostIs
<1>2. ~AtMost(b, a) /\ a[1] - b[1] = -x /\ a[2] - b[2] = -y
  BY <1>1, AtMostIs DEF AtMost
<1>3. ~NonNegative(-x, -y)
  BY <1>2, AtMostIs
<1>4. (-x) * (-x) = x * x /\ (-y) * (-y) = y * y /\ x * x \in Int /\ y * y \in Int
  BY Z3
<1>5. NonNegative(x, y)
  BY <1>3, <1>4 DEF NonNegative
<1> QED BY <1>1, <1>5, AtMostIs

\* Costs are added kind by kind.
LEMMA PlusCost ==
  ASSUME NEW a \in Cost, NEW b \in Cost
  PROVE  /\ Plus(a, b) \in Cost
         /\ Plus(a, b)[1] = a[1] + b[1]
         /\ Plus(a, b)[2] = a[2] + b[2]
BY DEF Plus, Cost

\* Costs may be added in any order of brackets.
LEMMA PlusAssociative ==
  ASSUME NEW a \in Cost, NEW b \in Cost, NEW c \in Cost
  PROVE  Plus(Plus(a, b), c) = Plus(a, Plus(b, c))
BY DEF Plus, Cost

\* No steps cost nothing.
LEMMA PlusZero ==
  ASSUME NEW a \in Cost
  PROVE  <<0, 0>> \in Cost /\ Plus(a, <<0, 0>>) = a /\ Plus(<<0, 0>>, a) = a
BY DEF Plus, Cost

\* The same may be added on both sides.
LEMMA PlusOrder ==
  ASSUME NEW a \in Cost, NEW b \in Cost, NEW c \in Cost, AtMost(a, b)
  PROVE  AtMost(Plus(a, c), Plus(b, c)) /\ AtMost(Plus(c, a), Plus(c, b))
<1>0. \A i \in {1, 2} : a[i] \in Nat /\ b[i] \in Nat /\ c[i] \in Nat
  BY DEF Cost
<1>1. \A x, y \in Cost : /\ Plus(x, y) \in Cost
                         /\ Plus(x, y)[1] = x[1] + y[1] /\ Plus(x, y)[2] = x[2] + y[2]
  BY PlusCost
<1>2. \A i \in {1, 2} : /\ Plus(a, c)[i] = a[i] + c[i] /\ Plus(b, c)[i] = b[i] + c[i]
                        /\ Plus(c, a)[i] = c[i] + a[i] /\ Plus(c, b)[i] = c[i] + b[i]
  BY <1>1
<1>3. \A i \in {1, 2} : /\ Plus(b, c)[i] - Plus(a, c)[i] = b[i] - a[i]
                        /\ Plus(c, b)[i] - Plus(c, a)[i] = b[i] - a[i]
  BY <1>0, <1>2
<1>4. NonNegative(b[1] - a[1], b[2] - a[2])
  BY AtMostIs
<1>5. AtMost(Plus(a, c), Plus(b, c))
  BY <1>1, <1>3, <1>4, AtMostIs
<1>6. AtMost(Plus(c, a), Plus(c, b))
  BY <1>1, <1>3, <1>4, AtMostIs
<1> QED BY <1>5, <1>6

-----------------------------------------------------------------------------
(* The heuristic *)

Point == Int \X Int

\* A neighbor is one of the eight points around a point.
LEMMA NeighborIs ==
  ASSUME NEW map, NEW p \in Point, NEW q \in neighbors(map, p)
  PROVE  /\ q \in Point /\ q # p
         /\ q[1] - p[1] \in {-1, 0, 1} /\ q[2] - p[2] \in {-1, 0, 1}
<1>1. p[1] \in Int /\ p[2] \in Int
  BY DEF Point
<1>2. q \in ((p[1] - 1)..(p[1] + 1)) \X ((p[2] - 1)..(p[2] + 1)) /\ q # p
  BY DEF neighbors
<1>3. q[1] \in (p[1] - 1)..(p[1] + 1) /\ q[2] \in (p[2] - 1)..(p[2] + 1) /\ q = <<q[1], q[2]>>
  BY <1>2
<1> QED BY <1>1, <1>2, <1>3 DEF Point

\* There are finitely many of them.
LEMMA FewNeighbors ==
  ASSUME NEW map, NEW p \in Point
  PROVE  IsFiniteSet(neighbors(map, p))
<1>1. p[1] \in Int /\ p[2] \in Int
  BY DEF Point
<1>2. IsFiniteSet((p[1] - 1)..(p[1] + 1)) /\ IsFiniteSet((p[2] - 1)..(p[2] + 1))
  BY <1>1, FS_Interval
<1>3. IsFiniteSet(((p[1] - 1)..(p[1] + 1)) \X ((p[2] - 1)..(p[2] + 1)))
  BY <1>2, FS_Product
<1>4. neighbors(map, p) \subseteq ((p[1] - 1)..(p[1] + 1)) \X ((p[2] - 1)..(p[2] + 1))
  BY DEF neighbors
<1> QED BY <1>3, <1>4, FS_Subset

\* A step is straight or diagonal.
LEMMA StepCostType ==
  ASSUME NEW p, NEW q
  PROVE  stepCost(p, q) \in Cost
BY DEF stepCost, Cost

\* The heuristic counts steps, and none from a point to itself.
LEMMA HeuristicType ==
  ASSUME NEW p \in Point, NEW t \in Point
  PROVE  /\ heuristic(p, t) \in Cost
         /\ heuristic(t, t) = <<0, 0>>
BY DEF heuristic, Cost, Point, Abs

\* No step is free.
LEMMA StepIsDearer ==
  ASSUME NEW a \in Cost, NEW p, NEW q
  PROVE  ~AtMost(Plus(a, stepCost(p, q)), a)
<1> DEFINE step == stepCost(p, q)
<1>1. step \in Cost /\ step \in {<<0, 1>>, <<1, 0>>}
  BY StepCostType DEF stepCost
<1>2. step[1] \in Nat /\ step[2] \in Nat /\ a[1] \in Nat /\ a[2] \in Nat
  BY <1>1 DEF Cost
<1> HIDE DEF step
<1>3. /\ Plus(a, step) \in Cost
      /\ Plus(a, step)[1] = a[1] + step[1] /\ Plus(a, step)[2] = a[2] + step[2]
  BY <1>1, PlusCost
<1>4. a[1] - Plus(a, step)[1] = -step[1] /\ a[2] - Plus(a, step)[2] = -step[2]
  BY <1>2, <1>3
<1>5. ~NonNegative(-step[1], -step[2])
  <2>1. CASE step = <<0, 1>>
    <3>1. step[1] = 0 /\ step[2] = 1
      BY <2>1
    <3> QED BY <3>1 DEF NonNegative
  <2>2. CASE step = <<1, 0>>
    <3>1. step[1] = 1 /\ step[2] = 0
      BY <2>2
    <3> QED BY <3>1 DEF NonNegative
  <2> QED BY <1>1, <2>1, <2>2
<1>6. ~AtMost(Plus(a, step), a)
  BY <1>3, <1>4, <1>5, AtMostIs
<1> QED BY <1>6 DEF step

\* The distances of the offsets behind heuristic.
Octile(dx, dy) == IF dx < dy THEN <<dy - dx, dx>> ELSE <<dx - dy, dy>>

\* The heuristic depends on the offsets alone.
LEMMA HeuristicOctile ==
  ASSUME NEW p \in Point, NEW t \in Point
  PROVE  heuristic(p, t) = Octile(Abs(p[1] - t[1]), Abs(p[2] - t[2]))
BY DEF heuristic, Point, Abs, Octile

\* The differences a step can make.
LEMMA SmallDifferences ==
  /\ NonNegative(0, 0) /\ NonNegative(0, 1) /\ NonNegative(0, 2) /\ NonNegative(2, 0)
  /\ NonNegative(2, -1) /\ NonNegative(-2, 2) /\ NonNegative(1, 0) /\ NonNegative(1, 1)
BY DEF NonNegative

\* What a straight step changes of them.
LEMMA OctileStraight ==
  ASSUME NEW dx \in Nat, NEW dy \in Nat, NEW ex \in Nat, NEW ey \in Nat,
         \/ ex - dx \in {-1, 1} /\ ey = dy
         \/ ey - dy \in {-1, 1} /\ ex = dx
  PROVE  LET x == 1 + Octile(ex, ey)[1] - Octile(dx, dy)[1]
             y == Octile(ex, ey)[2] - Octile(dx, dy)[2]
         IN  <<x, y>> \in {<<0, 0>>, <<0, 1>>, <<2, 0>>, <<2, -1>>}
BY DEF Octile

\* The same for a diagonal step.
LEMMA OctileDiagonal ==
  ASSUME NEW dx \in Nat, NEW dy \in Nat, NEW ex \in Nat, NEW ey \in Nat,
         ex - dx \in {-1, 1}, ey - dy \in {-1, 1}
  PROVE  LET x == Octile(ex, ey)[1] - Octile(dx, dy)[1]
             y == 1 + Octile(ex, ey)[2] - Octile(dx, dy)[2]
         IN  <<x, y>> \in {<<0, 0>>, <<0, 1>>, <<0, 2>>, <<2, 0>>, <<-2, 2>>}
BY DEF Octile

\* The heuristic never falls by more than a step costs, whichever of the eight
\* neighbors the step leads to: heuristic and stepCost of player.go belong
\* together, which is what makes the first path that reaches the target a
\* shortest one.
THEOREM HeuristicConsistent ==
  ASSUME NEW map, NEW p \in Point, NEW target \in Point, NEW q \in neighbors(map, p)
  PROVE  ~Cheaper(Plus(stepCost(p, q), heuristic(q, target)), heuristic(p, target))
<1> DEFINE dx == Abs(p[1] - target[1])
           dy == Abs(p[2] - target[2])
           ex == Abs(q[1] - target[1])
           ey == Abs(q[2] - target[2])
           new == Plus(stepCost(p, q), heuristic(q, target))
           old == heuristic(p, target)
<1>1. q \in Point /\ p # q
  BY NeighborIs
<1>2. /\ p = <<p[1], p[2]>> /\ q = <<q[1], q[2]>>
      /\ \A i \in {1, 2} : p[i] \in Int /\ q[i] \in Int /\ target[i] \in Int
  BY <1>1 DEF Point
<1>3. dx \in Nat /\ dy \in Nat /\ ex \in Nat /\ ey \in Nat
  BY <1>2 DEF Abs
<1>4. /\ p[1] = q[1] => ex = dx
      /\ p[1] # q[1] => ex - dx \in {-1, 1}
      /\ p[2] = q[2] => ey = dy
      /\ p[2] # q[2] => ey - dy \in {-1, 1}
  <2>1. \A i \in {1, 2} : q[i] - p[i] \in {-1, 0, 1}
    BY NeighborIs
  <2>2. \A m, n, t \in Int :
          /\ m = n => Abs(n - t) = Abs(m - t)
          /\ m # n /\ n - m \in {-1, 0, 1} => Abs(n - t) - Abs(m - t) \in {-1, 1}
    BY DEF Abs
  <2> QED BY <1>2, <2>1, <2>2
<1>5. p[1] # q[1] \/ p[2] # q[2]
  BY <1>1, <1>2
<1>6. /\ old = Octile(dx, dy) /\ heuristic(q, target) = Octile(ex, ey)
      /\ old \in Cost /\ heuristic(q, target) \in Cost /\ new \in Cost
  BY <1>1, HeuristicOctile, HeuristicType, StepCostType, PlusCost
<1>7. /\ new[1] = stepCost(p, q)[1] + Octile(ex, ey)[1]
      /\ new[2] = stepCost(p, q)[2] + Octile(ex, ey)[2]
  BY <1>6, StepCostType, PlusCost
<1>8. /\ Octile(ex, ey)[1] \in Nat /\ Octile(ex, ey)[2] \in Nat
      /\ Octile(dx, dy)[1] \in Nat /\ Octile(dx, dy)[2] \in Nat
  BY <1>6 DEF Cost
<1> HIDE DEF dx, dy, ex, ey, new, old
<1>9. NonNegative(new[1] - old[1], new[2] - old[2])
  <2>1. CASE p[1] # q[1] /\ p[2] # q[2]
    <3> DEFINE x == Octile(ex, ey)[1] - Octile(dx, dy)[1]
               y == 1 + Octile(ex, ey)[2] - Octile(dx, dy)[2]
    <3>1. stepCost(p, q)[1] = 0 /\ stepCost(p, q)[2] = 1
      BY <2>1 DEF stepCost
    <3>2. new[1] - old[1] = x /\ new[2] - old[2] = y
      BY <1>6, <1>7, <1>8, <3>1 DEF Cost
    <3>3. <<x, y>> \in {<<0, 0>>, <<0, 1>>, <<0, 2>>, <<2, 0>>, <<-2, 2>>}
      BY <1>3, <1>4, <2>1, OctileDiagonal
    <3>4. NonNegative(x, y)
      <4> HIDE DEF x, y
      <4> QED BY <3>3, SmallDifferences
    <3> QED BY <3>2, <3>4
  <2>2. CASE ~(p[1] # q[1] /\ p[2] # q[2])
    <3> DEFINE x == 1 + Octile(ex, ey)[1] - Octile(dx, dy)[1]
               y == Octile(ex, ey)[2] - Octile(dx, dy)[2]
    <3>1. stepCost(p, q)[1] = 1 /\ stepCost(p, q)[2] = 0
      BY <2>2 DEF stepCost
    <3>2. new[1] - old[1] = x /\ new[2] - old[2] = y
      BY <1>6, <1>7, <1>8, <3>1 DEF Cost
    <3>3. <<x, y>> \in {<<0, 0>>, <<0, 1>>, <<2, 0>>, <<2, -1>>}
      BY <1>3, <1>4, <1>5, <2>2, OctileStraight
    <3>4. NonNegative(x, y)
      <4> HIDE DEF x, y
      <4> QED BY <3>3, SmallDifferences
    <3> QED BY <3>2, <3>4
  <2> QED BY <2>1, <2>2
<1>10. AtMost(old, new)
  BY <1>6, <1>9, AtMostIs
<1> QED BY <1>10 DEF AtMost, new, old


-----------------------------------------------------------------------------
(* Along a walk *)

\* Induction over data in the form of a set.
LEMMA UpTo ==
  ASSUME NEW k \in Nat, NEW S, 1 \in S, \A i \in 1..(k - 1) : i \in S => i + 1 \in S
  PROVE  1..k \subseteq S
<1> SUFFICES ASSUME (1..k) \ S # {} PROVE FALSE
  OBVIOUS
<1> DEFINE T == (1..k) \ S
           Less == OpToRel(<, Nat)
<1>1. \A m, n \in Nat : m < n => <<m, n>> \in Less
  BY DEF OpToRel
<1>2. IsWellFoundedOn(Less, Nat)
  BY NatLessThanWellFounded, Zenon
<1> HIDE DEF Less
<1>3. T \subseteq Nat /\ T # {}
  OBVIOUS
<1>4. PICK m \in T : \A n \in T : ~(<<n, m>> \in Less)
  BY <1>2, <1>3, WFMin
<1>5. m \in 1..k /\ m \notin S /\ m # 1
  OBVIOUS
<1>6. m - 1 \in 1..(k - 1) /\ m - 1 \in 1..k /\ (m - 1) + 1 = m
  BY <1>5
<1>7. <<m - 1, m>> \in Less
  <2>1. m \in Nat /\ m - 1 \in Nat /\ m - 1 < m
    BY <1>5, <1>6
  <2> QED BY <1>1, <2>1
<1>8. m - 1 \notin T
  BY <1>4, <1>7
<1>9. m - 1 \in S
  BY <1>6, <1>8
<1> QED BY <1>5, <1>6, <1>9

\* The same from the end.
LEMMA DownTo ==
  ASSUME NEW k \in Nat, NEW S, k \in S, \A i \in 1..(k - 1) : i + 1 \in S => i \in S
  PROVE  1..k \subseteq S
<1> DEFINE T == {j \in 1..k : k + 1 - j \in S}
<1>1. ASSUME k # 0 PROVE 1 \in T
  BY <1>1
<1>2. ASSUME NEW i \in 1..(k - 1), i \in T PROVE i + 1 \in T
  <2>1. k - i \in 1..(k - 1) /\ (k - i) + 1 = k + 1 - i /\ k + 1 - (i + 1) = k - i
    BY <1>2
  <2> QED BY <1>2, <2>1
<1>3. CASE k = 0
  BY <1>3
<1>4. CASE k # 0
  <2>1. 1..k \subseteq T
    <3> HIDE DEF T
    <3> QED BY <1>1, <1>2, <1>4, UpTo
  <2>2. ASSUME NEW j \in 1..k PROVE j \in S
    <3>1. k + 1 - j \in 1..k /\ k + 1 - (k + 1 - j) = j
      OBVIOUS
    <3> QED BY <2>1, <3>1
  <2> QED BY <2>2
<1> QED BY <1>3, <1>4

\* The points w[1], ..., w[k] of a walk from a point, and what it costs to get
\* to each of them.
Walk(map, from, k, w, c) ==
  /\ k \in Nat \ {0}
  /\ w \in [1..k -> Point] /\ c \in [1..k -> Cost]
  /\ w[1] = from /\ c[1] = <<0, 0>>
  /\ \A i \in 1..(k - 1) : /\ w[i + 1] \in neighbors(map, w[i])
                           /\ c[i + 1] = Plus(c[i], stepCost(w[i], w[i + 1]))

\* What is still to walk is at least the heuristic: it never overestimates.
LEMMA NeverOverestimates ==
  ASSUME NEW map, NEW from \in Point, NEW k, NEW w, NEW c, Walk(map, from, k, w, c),
         NEW j \in 1..k
  PROVE  AtMost(Plus(c[j], heuristic(w[j], w[k])), c[k])
<1> DEFINE t == w[k]
           S == {i \in 1..k : AtMost(Plus(c[i], heuristic(w[i], t)), c[k])}
<1>0. k \in Nat /\ k >= 1 /\ \A i \in 1..k : w[i] \in Point /\ c[i] \in Cost
  BY DEF Walk
<1>1. k \in S
  <2>1. Plus(c[k], heuristic(w[k], t)) = c[k]
    BY <1>0, HeuristicType, PlusZero
  <2> QED BY <1>0, <2>1, AtMostReflexive
<1>2. ASSUME NEW i \in 1..(k - 1), i + 1 \in S PROVE i \in S
  <2>1. /\ i \in 1..k /\ i + 1 \in 1..k
        /\ w[i] \in Point /\ w[i + 1] \in Point /\ t \in Point /\ c[i] \in Cost /\ c[k] \in Cost
    BY <1>0
  <2> DEFINE step == stepCost(w[i], w[i + 1])
             h == heuristic(w[i], t)
             next == heuristic(w[i + 1], t)
  <2>2. h \in Cost /\ next \in Cost /\ step \in Cost
    BY <2>1, HeuristicType, StepCostType
  <2>3. w[i + 1] \in neighbors(map, w[i]) /\ c[i + 1] = Plus(c[i], step)
    BY DEF Walk
  <2>4. AtMost(h, Plus(step, next))
    BY <2>1, <2>3, HeuristicConsistent DEF AtMost
  <2>5. AtMost(Plus(c[i + 1], next), c[k])
    BY <1>2
  <2> HIDE DEF step, h, next
  <2>6. Plus(c[i + 1], next) = Plus(c[i], Plus(step, next))
    BY <2>1, <2>2, <2>3, PlusAssociative
  <2>7. AtMost(Plus(c[i], h), Plus(c[i], Plus(step, next)))
    BY <2>1, <2>2, <2>4, PlusOrder, PlusCost
  <2>8. AtMost(Plus(c[i], h), c[k])
    BY <2>1, <2>2, <2>5, <2>6, <2>7, AtMostTransitive, PlusCost
  <2> QED BY <2>1, <2>8 DEF h
<1>3. 1..k \subseteq S
  <2> HIDE DEF S
  <2> QED BY <1>0, <1>1, <1>2, DownTo
<1> QED BY <1>3

-----------------------------------------------------------------------------
(* What the loop maintains *)

\* The node that carries the present cost of p is still to be popped.
Waiting(s, target, p) ==
  \E n \in s.open : n.point = p /\ n.priority = Plus(s.cost[p], heuristic(p, target))

\* No neighbor of p can be improved from p.
Relaxed(map, s, p) ==
  \A q \in neighbors(map, p) :
    q \in DOMAIN s.cost /\ AtMost(s.cost[q], Plus(s.cost[p], stepCost(p, q)))

SearchType(s) ==
  /\ DOMAIN s.cost \subseteq Point /\ IsFiniteSet(DOMAIN s.cost)
  /\ \A p \in DOMAIN s.cost : s.cost[p] \in Cost
  /\ DOMAIN s.came \subseteq DOMAIN s.cost
  /\ \A n \in s.open : n.point \in DOMAIN s.cost /\ n.priority \in Cost

\* A point whose node has been popped since it was last improved has nothing to
\* give to its neighbors; priorities are never below what they are now worth;
\* cameFrom leads, from every point but the start, over an allowed step to a
\* point at least that much cheaper; the node of the target stays until it is
\* popped.
SearchOK(map, from, target, s) ==
  /\ SearchType(s)
  /\ from \in DOMAIN s.cost /\ AtMost(s.cost[from], <<0, 0>>)
  /\ \A p \in DOMAIN s.cost : Waiting(s, target, p) \/ Relaxed(map, s, p)
  /\ \A n \in s.open : AtMost(Plus(s.cost[n.point], heuristic(n.point, target)), n.priority)
  /\ \A q \in DOMAIN s.cost : q = from \/ q \in DOMAIN s.came
  /\ \A q \in DOMAIN s.came :
       /\ s.came[q] \in DOMAIN s.cost /\ q \in neighbors(map, s.came[q])
       /\ AtMost(Plus(s.cost[s.came[q]], stepCost(s.came[q], q)), s.cost[q])
  /\ target \in DOMAIN s.cost => \E n \in s.open : n.point = target

\* The loop starts with the node of the start.
LEMMA StartedOK ==
  ASSUME NEW map, NEW from \in Point, NEW target \in Point, from # target
  PROVE  SearchOK(map, from, target, Started(from, target))
<1> DEFINE s == Started(from, target)
           node == [point |-> from, priority |-> heuristic(from, target)]
<1>1. /\ DOMAIN s.cost = {from} /\ s.cost[from] = <<0, 0>>
      /\ DOMAIN s.came = {} /\ s.open = {node}
  BY DEF Started
<1>2. /\ heuristic(from, target) \in Cost /\ <<0, 0>> \in Cost
      /\ Plus(<<0, 0>>, heuristic(from, target)) = heuristic(from, target)
  BY HeuristicType, PlusZero
<1>3. node.point = from /\ node.priority = heuristic(from, target)
  OBVIOUS
<1> HIDE DEF s, node
<1>4. SearchType(s)
  <2>1. IsFiniteSet({from})
    BY FS_Singleton
  <2>2. IsFiniteSet(DOMAIN s.cost)
    BY <1>1, <2>1
  <2> QED BY <1>1, <1>2, <1>3, <2>2 DEF SearchType
<1>5. Waiting(s, target, from)
  BY <1>1, <1>2, <1>3 DEF Waiting
<1>6. AtMost(<<0, 0>>, <<0, 0>>) /\ AtMost(heuristic(from, target), heuristic(from, target))
  BY <1>2, AtMostReflexive
<1>7. SearchOK(map, from, target, s)
  BY <1>1, <1>2, <1>3, <1>4, <1>5, <1>6 DEF SearchOK
<1> QED BY <1>7 DEF s

\* One turn of the loop, point by point.
LEMMA ExpandedIs ==
  ASSUME NEW map, NEW target, NEW s, NEW n
  PROVE  LET p == n.point
             better == {q \in neighbors(map, p) : Improves(s, p, q)}
             node(q) == [point |-> q, priority |-> Plus(Plus(s.cost[p], stepCost(p, q)),
                                                        heuristic(q, target))]
             x == Expanded(map, target, s, n)
         IN  /\ DOMAIN x.cost = better \cup DOMAIN s.cost
             /\ DOMAIN x.came = better \cup DOMAIN s.came
             /\ \A q \in better : /\ x.cost[q] = Plus(s.cost[p], stepCost(p, q))
                                  /\ x.came[q] = p
                                  /\ node(q) \in x.open
             /\ \A q \in DOMAIN s.cost \ better : x.cost[q] = s.cost[q]
             /\ \A q \in DOMAIN s.came \ better : x.came[q] = s.came[q]
             /\ \A m \in s.open : m # n => m \in x.open
             /\ \A m \in x.open : m \in s.open \/ \E q \in better : m = node(q)
BY DEF Expanded


\* A turn of the loop keeps its invariant, whichever of the first nodes is
\* popped, as long as it is not the target's.
LEMMA ExpandedOK ==
  ASSUME NEW map, NEW from \in Point, NEW target \in Point, NEW s,
         SearchOK(map, from, target, s),
         NEW n \in First(s.open), n.point # target
  PROVE  SearchOK(map, from, target, Expanded(map, target, s, n))
<1> DEFINE p == n.point
           better == {q \in neighbors(map, p) : Improves(s, p, q)}
           new(q) == Plus(s.cost[p], stepCost(p, q))
           node(q) == [point |-> q, priority |-> Plus(new(q), heuristic(q, target))]
           x == Expanded(map, target, s, n)
<1>1. /\ DOMAIN x.cost = better \cup DOMAIN s.cost
      /\ DOMAIN x.came = better \cup DOMAIN s.came
      /\ \A q \in better : x.cost[q] = new(q) /\ x.came[q] = p /\ node(q) \in x.open
      /\ \A q \in DOMAIN s.cost \ better : x.cost[q] = s.cost[q]
      /\ \A q \in DOMAIN s.came \ better : x.came[q] = s.came[q]
      /\ \A m \in s.open : m # n => m \in x.open
      /\ \A m \in x.open : m \in s.open \/ \E q \in better : m = node(q)
  BY ExpandedIs
<1>2. n \in s.open /\ p \in DOMAIN s.cost /\ p \in Point /\ s.cost[p] \in Cost
  BY DEF First, SearchOK, SearchType
<1>3. \A q \in better : /\ q \in Point /\ q # p /\ new(q) \in Cost
                        /\ heuristic(q, target) \in Cost
                        /\ node(q).point = q
                        /\ node(q).priority = Plus(new(q), heuristic(q, target))
                        /\ node(q).priority \in Cost
  BY <1>2, NeighborIs, StepCostType, HeuristicType, PlusCost
<1>4. \A q \in neighbors(map, p) : q \in better \/ (q \in DOMAIN s.cost /\ AtMost(s.cost[q], new(q)))
  BY DEF Improves, AtMost
<1>5. \A q \in DOMAIN s.cost : /\ s.cost[q] \in Cost /\ x.cost[q] \in Cost
                               /\ AtMost(x.cost[q], s.cost[q])
  <2> SUFFICES ASSUME NEW q \in DOMAIN s.cost
               PROVE  s.cost[q] \in Cost /\ x.cost[q] \in Cost /\ AtMost(x.cost[q], s.cost[q])
    OBVIOUS
  <2>1. s.cost[q] \in Cost
    BY DEF SearchOK, SearchType
  <2>2. CASE q \in better
    <3>1. Cheaper(new(q), s.cost[q]) /\ x.cost[q] = new(q) /\ new(q) \in Cost
      BY <1>1, <1>3, <2>2 DEF Improves
    <3> QED BY <2>1, <3>1, CheaperAtMost
  <2>3. CASE q \notin better
    BY <1>1, <2>1, <2>3, AtMostReflexive
  <2> QED BY <2>2, <2>3
<1> HIDE DEF x, better, new, node
<1>6. SearchType(x)
  <2>1. DOMAIN x.cost \subseteq Point /\ \A q \in DOMAIN x.cost : x.cost[q] \in Cost
    BY <1>1, <1>3, <1>5 DEF SearchOK, SearchType
  <2>2. DOMAIN x.came \subseteq DOMAIN x.cost
    BY <1>1 DEF SearchOK, SearchType
  <2>4. IsFiniteSet(DOMAIN x.cost)
    <3>1. better \subseteq neighbors(map, p)
      BY DEF better
    <3>2. IsFiniteSet(better) /\ IsFiniteSet(DOMAIN s.cost)
      BY <1>2, <3>1, FewNeighbors, FS_Subset DEF SearchOK, SearchType
    <3>3. IsFiniteSet(better \cup DOMAIN s.cost)
      BY <3>2, FS_Union
    <3>4. DOMAIN x.cost = better \cup DOMAIN s.cost
      BY <1>1
    <3> QED BY <3>3, <3>4
  <2>3. \A m \in x.open : m.point \in DOMAIN x.cost /\ m.priority \in Cost
    BY <1>1, <1>3 DEF SearchOK, SearchType
  <2> QED BY <2>1, <2>2, <2>3, <2>4 DEF SearchType
<1>7. from \in DOMAIN x.cost /\ AtMost(x.cost[from], <<0, 0>>)
  <2>1. from \in DOMAIN s.cost /\ AtMost(s.cost[from], <<0, 0>>)
    BY DEF SearchOK
  <2>2. <<0, 0>> \in Cost
    BY DEF Cost
  <2> QED BY <1>1, <1>5, <2>1, <2>2, AtMostTransitive
<1>8. ASSUME NEW q \in DOMAIN x.cost PROVE Waiting(x, target, q) \/ Relaxed(map, x, q)
  <2>1. CASE q \in better
    BY <1>1, <1>3, <2>1 DEF Waiting
  <2>2. CASE q \notin better /\ q # p
    <3>1. q \in DOMAIN s.cost /\ x.cost[q] = s.cost[q]
      BY <1>1, <2>2
    <3>2. CASE Waiting(s, target, q)
      <4>1. PICK m \in s.open : m.point = q /\ m.priority = Plus(s.cost[q], heuristic(q, target))
        BY <3>2 DEF Waiting
      <4>2. m \in x.open
        BY <1>1, <2>2, <4>1 DEF p
      <4> QED BY <3>1, <4>1, <4>2 DEF Waiting
    <3>3. CASE Relaxed(map, s, q)
      <4> SUFFICES ASSUME NEW r \in neighbors(map, q)
                   PROVE  r \in DOMAIN x.cost /\ AtMost(x.cost[r], Plus(x.cost[q], stepCost(q, r)))
        BY DEF Relaxed
      <4>1. r \in DOMAIN s.cost /\ AtMost(s.cost[r], Plus(s.cost[q], stepCost(q, r)))
        BY <3>3 DEF Relaxed
      <4>2. Plus(s.cost[q], stepCost(q, r)) \in Cost
        BY <1>5, <3>1, StepCostType, PlusCost
      <4> QED BY <1>1, <1>5, <3>1, <4>1, <4>2, AtMostTransitive
    <3>4. Waiting(s, target, q) \/ Relaxed(map, s, q)
      BY <3>1 DEF SearchOK
    <3> QED BY <3>2, <3>3, <3>4
  <2>3. CASE q \notin better /\ q = p
    <3> SUFFICES ASSUME NEW r \in neighbors(map, p)
                 PROVE  r \in DOMAIN x.cost /\ AtMost(x.cost[r], Plus(x.cost[p], stepCost(p, r)))
      BY <2>3 DEF Relaxed
    <3>1. x.cost[p] = s.cost[p] /\ Plus(x.cost[p], stepCost(p, r)) = new(r)
      BY <1>1, <1>2, <2>3 DEF new
    <3>2. CASE r \in better
      BY <1>1, <1>3, <3>1, <3>2, AtMostReflexive
    <3>3. CASE r \notin better
      <4>1. r \in DOMAIN s.cost /\ x.cost[r] = s.cost[r] /\ AtMost(s.cost[r], new(r))
        BY <1>1, <1>4, <3>3
      <4> QED BY <1>1, <3>1, <4>1
    <3> QED BY <3>2, <3>3
  <2> QED BY <2>1, <2>2, <2>3
<1>9. ASSUME NEW m \in x.open
      PROVE  AtMost(Plus(x.cost[m.point], heuristic(m.point, target)), m.priority)
  <2>1. CASE m \in s.open
    <3>1. /\ m.point \in DOMAIN s.cost /\ m.point \in Point /\ m.priority \in Cost
          /\ AtMost(Plus(s.cost[m.point], heuristic(m.point, target)), m.priority)
      BY <2>1 DEF SearchOK, SearchType
    <3>2. heuristic(m.point, target) \in Cost
      BY <3>1, HeuristicType
    <3>3. AtMost(Plus(x.cost[m.point], heuristic(m.point, target)),
                 Plus(s.cost[m.point], heuristic(m.point, target)))
      BY <1>5, <3>1, <3>2, PlusOrder
    <3> QED BY <1>5, <3>1, <3>2, <3>3, AtMostTransitive, PlusCost
  <2>2. ASSUME NEW q \in better, m = node(q)
        PROVE  AtMost(Plus(x.cost[m.point], heuristic(m.point, target)), m.priority)
    <3>1. m.point = q /\ m.priority = Plus(x.cost[q], heuristic(q, target)) /\ m.priority \in Cost
      BY <1>1, <1>3, <2>2
    <3> QED BY <3>1, AtMostReflexive
  <2> QED BY <1>1, <2>1, <2>2
<1>10. ASSUME NEW q \in DOMAIN x.came
       PROVE  /\ x.came[q] \in DOMAIN x.cost /\ q \in neighbors(map, x.came[q])
              /\ AtMost(Plus(x.cost[x.came[q]], stepCost(x.came[q], q)), x.cost[q])
  <2>1. CASE q \in better
    <3>1. x.came[q] = p /\ q \in neighbors(map, p) /\ x.cost[q] = new(q)
      BY <1>1, <2>1 DEF better
    <3>2. /\ AtMost(x.cost[p], s.cost[p]) /\ x.cost[p] \in Cost /\ s.cost[p] \in Cost
          /\ stepCost(p, q) \in Cost
      BY <1>2, <1>5, StepCostType
    <3>3. AtMost(Plus(x.cost[p], stepCost(p, q)), Plus(s.cost[p], stepCost(p, q)))
      BY <3>2, PlusOrder
    <3> QED BY <1>1, <1>2, <3>1, <3>3 DEF new
  <2>2. CASE q \notin better
    <3> DEFINE r == s.came[q]
    <3>1. x.came[q] = r /\ q \in DOMAIN s.came /\ q \in DOMAIN s.cost /\ x.cost[q] = s.cost[q]
      BY <1>1, <2>2 DEF SearchOK, SearchType
    <3>2. /\ r \in DOMAIN s.cost /\ q \in neighbors(map, r)
          /\ AtMost(Plus(s.cost[r], stepCost(r, q)), s.cost[q])
      BY <3>1 DEF SearchOK
    <3>3. /\ AtMost(x.cost[r], s.cost[r]) /\ x.cost[r] \in Cost /\ s.cost[r] \in Cost
          /\ stepCost(r, q) \in Cost /\ s.cost[q] \in Cost
      BY <1>5, <3>1, <3>2, StepCostType
    <3> HIDE DEF r
    <3>4. AtMost(Plus(x.cost[r], stepCost(r, q)), Plus(s.cost[r], stepCost(r, q)))
      BY <3>3, PlusOrder
    <3>5. AtMost(Plus(x.cost[r], stepCost(r, q)), s.cost[q])
      BY <3>2, <3>3, <3>4, AtMostTransitive, PlusCost
    <3> QED BY <1>1, <3>1, <3>2, <3>5
  <2> QED BY <2>1, <2>2
<1>11. ASSUME target \in DOMAIN x.cost PROVE \E m \in x.open : m.point = target
  <2>1. CASE target \in better
    BY <1>1, <1>3, <2>1
  <2>2. CASE target \notin better
    <3>1. PICK m \in s.open : m.point = target
      BY <1>1, <1>11, <2>2 DEF SearchOK
    <3> QED BY <1>1, <3>1
  <2> QED BY <2>1, <2>2
<1>12. \A q \in DOMAIN x.cost : q = from \/ q \in DOMAIN x.came
  BY <1>1 DEF SearchOK
<1>13. SearchOK(map, from, target, x)
  BY <1>6, <1>7, <1>8, <1>9, <1>10, <1>11, <1>12 DEF SearchOK
<1> QED BY <1>13 DEF x


-----------------------------------------------------------------------------
(* What the path is worth *)

\* Along a walk, as long as no node of a point reached waits, every point is
\* known at no more than the walk's cost.
LEMMA KnownAlong ==
  ASSUME NEW map, NEW from \in Point, NEW target \in Point, NEW s,
         SearchOK(map, from, target, s),
         NEW k, NEW w, NEW c, Walk(map, from, k, w, c),
         \A i \in 1..k : w[i] \in DOMAIN s.cost /\ AtMost(s.cost[w[i]], c[i])
                         => ~Waiting(s, target, w[i])
  PROVE  \A i \in 1..k : w[i] \in DOMAIN s.cost /\ AtMost(s.cost[w[i]], c[i])
<1> DEFINE S == {i \in 1..k : w[i] \in DOMAIN s.cost /\ AtMost(s.cost[w[i]], c[i])}
<1>1. k \in Nat /\ k >= 1 /\ \A i \in 1..k : w[i] \in Point /\ c[i] \in Cost
  BY DEF Walk
<1>2. 1 \in S
  <2>1. w[1] = from /\ c[1] = <<0, 0>>
    BY DEF Walk
  <2>2. from \in DOMAIN s.cost /\ AtMost(s.cost[from], <<0, 0>>)
    BY DEF SearchOK
  <2> QED BY <1>1, <2>1, <2>2
<1>3. ASSUME NEW i \in 1..(k - 1), i \in S PROVE i + 1 \in S
  <2> DEFINE p == w[i]
             q == w[i + 1]
             step == stepCost(p, q)
  <2>1. /\ p \in DOMAIN s.cost /\ AtMost(s.cost[p], c[i]) /\ q \in neighbors(map, p)
        /\ i \in 1..k /\ i + 1 \in 1..k /\ c[i + 1] = Plus(c[i], step)
    BY <1>1, <1>3 DEF Walk
  <2>2. Relaxed(map, s, p)
    BY <2>1 DEF SearchOK
  <2>3. q \in DOMAIN s.cost /\ AtMost(s.cost[q], Plus(s.cost[p], step))
    BY <2>1, <2>2 DEF Relaxed
  <2>4. s.cost[p] \in Cost /\ s.cost[q] \in Cost /\ c[i] \in Cost /\ step \in Cost
    BY <1>1, <2>1, <2>3, StepCostType DEF SearchOK, SearchType
  <2> HIDE DEF step
  <2>5. AtMost(Plus(s.cost[p], step), Plus(c[i], step))
    BY <2>1, <2>4, PlusOrder
  <2>6. AtMost(s.cost[q], c[i + 1])
    BY <2>1, <2>3, <2>4, <2>5, AtMostTransitive, PlusCost
  <2> QED BY <2>1, <2>3, <2>6
<1>4. 1..k \subseteq S
  <2> HIDE DEF S
  <2> QED BY <1>1, <1>2, <1>3, UpTo
<1> QED BY <1>4

\* When the target's node is popped, no walk to the target is cheaper than the
\* target's known cost.
LEMMA PoppedIsBest ==
  ASSUME NEW map, NEW from \in Point, NEW target \in Point, NEW s,
         SearchOK(map, from, target, s),
         NEW n \in First(s.open), n.point = target,
         NEW k, NEW w, NEW c, Walk(map, from, k, w, c), w[k] = target
  PROVE  AtMost(s.cost[target], c[k])
<1>1. k \in 1..k /\ \A i \in 1..k : w[i] \in Point /\ c[i] \in Cost
  BY DEF Walk
<1>2. CASE \A i \in 1..k : w[i] \in DOMAIN s.cost /\ AtMost(s.cost[w[i]], c[i])
                           => ~Waiting(s, target, w[i])
  BY <1>1, <1>2, KnownAlong
<1>3. ASSUME NEW i \in 1..k, w[i] \in DOMAIN s.cost, AtMost(s.cost[w[i]], c[i]),
             Waiting(s, target, w[i])
      PROVE  AtMost(s.cost[target], c[k])
  <2> DEFINE p == w[i]
             h == heuristic(p, target)
  <2>1. PICK m \in s.open : m.point = p /\ m.priority = Plus(s.cost[p], h)
    BY <1>3 DEF Waiting
  <2>2. /\ p \in Point /\ h \in Cost /\ c[i] \in Cost /\ c[k] \in Cost
        /\ s.cost[p] \in Cost /\ m.priority \in Cost
    BY <1>1, <1>3, <2>1, HeuristicType DEF SearchOK, SearchType
  <2>3. n \in s.open /\ AtMost(n.priority, m.priority)
    BY <2>1 DEF First, AtMost
  <2>4. n.priority \in Cost /\ target \in DOMAIN s.cost /\ s.cost[target] \in Cost
    BY <2>3 DEF SearchOK, SearchType
  <2>5. AtMost(s.cost[target], n.priority)
    <3>1. AtMost(Plus(s.cost[target], heuristic(target, target)), n.priority)
      BY <2>3 DEF SearchOK
    <3> QED BY <2>4, <3>1, HeuristicType, PlusZero
  <2>6. AtMost(Plus(c[i], h), c[k])
    BY <1>3, NeverOverestimates
  <2> HIDE DEF h, p
  <2>7. AtMost(Plus(s.cost[p], h), Plus(c[i], h)) /\ Plus(c[i], h) \in Cost
    BY <1>3, <2>2, PlusOrder, PlusCost DEF p
  <2>8. AtMost(s.cost[target], m.priority)
    BY <2>2, <2>3, <2>4, <2>5, AtMostTransitive
  <2>9. AtMost(m.priority, c[k])
    BY <2>1, <2>2, <2>6, <2>7, AtMostTransitive
  <2> QED BY <2>2, <2>4, <2>8, <2>9, AtMostTransitive
<1> QED BY <1>2, <1>3

\* reconstructPath goes back from the target through cameFrom until it is at
\* the start: w is that path, from its start, and c what it costs.
Traced(s, from, target, k, w, c) ==
  /\ k \in Nat \ {0}
  /\ w \in [1..k -> Point] /\ c \in [1..k -> Cost]
  /\ w[1] = from /\ w[k] = target /\ c[1] = <<0, 0>>
  /\ \A i \in 1..(k - 1) : /\ w[i + 1] \in DOMAIN s.came /\ s.came[w[i + 1]] = w[i]
                           /\ c[i + 1] = Plus(c[i], stepCost(w[i], w[i + 1]))

\* It is a walk, and costs no more than the target's known cost.
LEMMA TracedIsWalk ==
  ASSUME NEW map, NEW from \in Point, NEW target \in Point, NEW s,
         SearchOK(map, from, target, s),
         NEW k, NEW w, NEW c, Traced(s, from, target, k, w, c), target \in DOMAIN s.cost
  PROVE  Walk(map, from, k, w, c) /\ AtMost(c[k], s.cost[target])
<1> DEFINE S == {i \in 1..k : w[i] \in DOMAIN s.cost /\ AtMost(c[i], s.cost[w[i]])}
<1>1. k \in Nat /\ k >= 1 /\ \A i \in 1..k : w[i] \in Point /\ c[i] \in Cost
  BY DEF Traced
<1>2. \A p \in DOMAIN s.cost : s.cost[p] \in Cost
  BY DEF SearchOK, SearchType
<1>3. 1 \in S
  <2>1. \A x \in Cost : AtMost(<<0, 0>>, x)
    <3> SUFFICES ASSUME NEW x \in Cost PROVE AtMost(<<0, 0>>, x)
      OBVIOUS
    <3>1. <<0, 0>> \in Cost /\ x[1] \in Nat /\ x[2] \in Nat
      BY DEF Cost
    <3>2. x[1] - <<0, 0>>[1] = x[1] /\ x[2] - <<0, 0>>[2] = x[2] /\ NonNegative(x[1], x[2])
      BY <3>1 DEF NonNegative
    <3> QED BY <3>1, <3>2, AtMostIs
  <2>2. from \in DOMAIN s.cost /\ w[1] = from /\ c[1] = <<0, 0>>
    BY DEF SearchOK, Traced
  <2> QED BY <1>1, <1>2, <2>1, <2>2
<1>4. ASSUME NEW i \in 1..(k - 1)
      PROVE  /\ w[i + 1] \in neighbors(map, w[i]) /\ w[i + 1] \in DOMAIN s.cost
             /\ w[i] \in DOMAIN s.cost
             /\ AtMost(Plus(s.cost[w[i]], stepCost(w[i], w[i + 1])), s.cost[w[i + 1]])
  BY <1>4 DEF Traced, SearchOK, SearchType
<1>5. ASSUME NEW i \in 1..(k - 1), i \in S PROVE i + 1 \in S
  <2> DEFINE step == stepCost(w[i], w[i + 1])
  <2>1. /\ c[i + 1] = Plus(c[i], step) /\ i + 1 \in 1..k /\ step \in Cost
        /\ c[i] \in Cost /\ c[i + 1] \in Cost /\ AtMost(c[i], s.cost[w[i]])
        /\ s.cost[w[i]] \in Cost /\ s.cost[w[i + 1]] \in Cost
    BY <1>1, <1>2, <1>4, <1>5, StepCostType DEF Traced
  <2>2. AtMost(Plus(c[i], step), Plus(s.cost[w[i]], step))
    <3> HIDE DEF step
    <3> QED BY <2>1, PlusOrder
  <2>3. AtMost(Plus(s.cost[w[i]], step), s.cost[w[i + 1]])
    BY <1>4
  <2> HIDE DEF step
  <2>4. AtMost(c[i + 1], s.cost[w[i + 1]])
    BY <2>1, <2>2, <2>3, AtMostTransitive, PlusCost
  <2> QED BY <1>4, <2>1, <2>4
<1>6. 1..k \subseteq S
  <2> HIDE DEF S
  <2> QED BY <1>1, <1>3, <1>5, UpTo
<1>7. Walk(map, from, k, w, c)
  BY <1>4 DEF Walk, Traced
<1>8. w[k] = target
  BY DEF Traced
<1> QED BY <1>1, <1>6, <1>7, <1>8

\* Each entry leads to a point that is strictly cheaper.
LEMMA CameFromCheaper ==
  ASSUME NEW map, NEW from \in Point, NEW target \in Point, NEW s,
         SearchOK(map, from, target, s), NEW q \in DOMAIN s.cost, q # from
  PROVE  /\ q \in DOMAIN s.came /\ s.came[q] \in DOMAIN s.cost
         /\ ~AtMost(s.cost[q], s.cost[s.came[q]])
<1>1. q \in DOMAIN s.came
  BY DEF SearchOK
<1>2. PICK p \in DOMAIN s.cost :
        p = s.came[q] /\ AtMost(Plus(s.cost[p], stepCost(p, q)), s.cost[q])
  BY <1>1 DEF SearchOK
<1>3. s.cost[p] \in Cost /\ s.cost[q] \in Cost
  BY DEF SearchOK, SearchType
<1>4. ASSUME AtMost(s.cost[q], s.cost[p]) PROVE FALSE
  <2>1. AtMost(Plus(s.cost[p], stepCost(p, q)), s.cost[p])
    BY <1>2, <1>3, <1>4, AtMostTransitive, StepCostType, PlusCost
  <2> QED BY <1>3, <2>1, StepIsDearer
<1> QED BY <1>1, <1>2, <1>4

\* A path back to the start exists: of the points without one, all of which
\* have an entry, a cheapest would have an entry without one.
LEMMA SeenIsTraced ==
  ASSUME NEW map, NEW from \in Point, NEW target \in Point, NEW s,
         SearchOK(map, from, target, s), NEW q \in DOMAIN s.cost
  PROVE  \E k, w, c : Traced(s, from, q, k, w, c)
<1> DEFINE seen == DOMAIN s.cost
           lost == {p \in seen : ~\E k, w, c : Traced(s, from, p, k, w, c)}
           Below(p) == {r \in seen : AtMost(s.cost[r], s.cost[p])}
           Sets == {Below(p) : p \in lost}
<1>0. IsFiniteSet(seen) /\ seen \subseteq Point /\ \A p \in seen : s.cost[p] \in Cost
  BY DEF SearchOK, SearchType
<1>1. Sets \subseteq FiniteSubsetsOf(seen)
  <2>1. ASSUME NEW p \in lost PROVE Below(p) \in SUBSET seen /\ IsFiniteSet(Below(p))
    BY <1>0, FS_Subset
  <2> QED BY <2>1 DEF FiniteSubsetsOf
<1>2. SUFFICES ASSUME lost # {} PROVE FALSE
  OBVIOUS
<1>3. PICK b \in Sets : \A d \in Sets : ~(<<d, b>> \in StrictSubsetOrdering(seen))
  <2>1. Sets # {}
    BY <1>2
  <2> HIDE DEF Sets, seen
  <2> QED BY <1>0, <1>1, <2>1, FS_StrictSubsetOrderingWellFounded, WFMin
<1>4. PICK p \in lost : b = Below(p)
  BY <1>3
<1>5. p # from
  <2> DEFINE w == [i \in 1..1 |-> from]
             c == [i \in 1..1 |-> <<0, 0>>]
  <2>1. Traced(s, from, from, 1, w, c)
    BY DEF Traced, Cost
  <2> QED BY <2>1
<1> DEFINE r == s.came[p]
<1>6. p \in DOMAIN s.came /\ r \in seen /\ ~AtMost(s.cost[p], s.cost[r])
  BY <1>5, CameFromCheaper
<1>7. AtMost(s.cost[r], s.cost[p])
  BY <1>0, <1>6, CheaperAtMost DEF AtMost
<1>8. r \in lost
  <2> SUFFICES ASSUME NEW k, NEW w, NEW c, Traced(s, from, r, k, w, c)
               PROVE  FALSE
    BY <1>6
  <2> DEFINE v == [i \in 1..(k + 1) |-> IF i = k + 1 THEN p ELSE w[i]]
             f == [i \in 1..(k + 1) |-> IF i = k + 1 THEN Plus(c[k], stepCost(r, p)) ELSE c[i]]
  <2>1. /\ k \in Nat /\ k >= 1 /\ w[1] = from /\ w[k] = r /\ c[1] = <<0, 0>>
        /\ \A i \in 1..k : w[i] \in Point /\ c[i] \in Cost
        /\ \A i \in 1..(k - 1) : /\ w[i + 1] \in DOMAIN s.came /\ s.came[w[i + 1]] = w[i]
                                 /\ c[i + 1] = Plus(c[i], stepCost(w[i], w[i + 1]))
    BY DEF Traced
  <2>2. /\ v[k + 1] = p /\ f[k + 1] = Plus(c[k], stepCost(r, p))
        /\ \A i \in 1..k : v[i] = w[i] /\ f[i] = c[i]
    BY <2>1
  <2>3. v \in [1..(k + 1) -> Point]
    BY <1>0, <2>1
  <2>4. f \in [1..(k + 1) -> Cost]
    <3>1. Plus(c[k], stepCost(r, p)) \in Cost
      BY <2>1, StepCostType, PlusCost
    <3> QED BY <2>1, <3>1
  <2> HIDE DEF v, f, r
  <2>5. ASSUME NEW i \in 1..k
        PROVE  /\ v[i + 1] \in DOMAIN s.came /\ s.came[v[i + 1]] = v[i]
               /\ f[i + 1] = Plus(f[i], stepCost(v[i], v[i + 1]))
    <3>1. CASE i = k
      BY <1>6, <2>1, <2>2, <3>1 DEF r
    <3>2. CASE i # k
      <4>1. i \in 1..(k - 1) /\ i + 1 \in 1..k
        BY <2>1, <3>2
      <4> QED BY <2>1, <2>2, <4>1
    <3> QED BY <3>1, <3>2
  <2>6. Traced(s, from, p, k + 1, v, f)
    <3>1. (k + 1) - 1 = k /\ 1 \in 1..k /\ k + 1 \in Nat \ {0}
      BY <2>1
    <3> QED BY <2>1, <2>2, <2>3, <2>4, <2>5, <3>1 DEF Traced
  <2> QED BY <2>6
<1>9. <<Below(r), b>> \in StrictSubsetOrdering(seen)
  <2>1. Below(r) \subseteq Below(p)
    <3> SUFFICES ASSUME NEW x \in seen, AtMost(s.cost[x], s.cost[r])
                 PROVE  AtMost(s.cost[x], s.cost[p])
      OBVIOUS
    <3> QED BY <1>0, <1>6, <1>7, AtMostTransitive
  <2>2. p \in Below(p) /\ p \notin Below(r)
    BY <1>0, <1>6, AtMostReflexive
  <2>3. Below(r) \in SUBSET seen /\ Below(p) \in SUBSET seen
    OBVIOUS
  <2> HIDE DEF Below, seen
  <2> QED BY <1>4, <2>1, <2>2, <2>3 DEF StrictSubsetOrdering
<1> QED BY <1>3, <1>8, <1>9

-----------------------------------------------------------------------------
(* The loop *)

VARIABLE search

\* fastestPath between two points that differ: a turn for each popped node,
\* until it is the target's or none is left.
Turn(map, target) ==
  \E n \in First(search.open) :
    n.point # target /\ search' = Expanded(map, target, search, n)

Loop(map, from, target) == search = Started(from, target) /\ [][Turn(map, target)]_search

\* The path that is returned if the loop stops at a node of the target: it is a
\* walk, and no walk is cheaper.
ShortestWhenFound(map, from, target) ==
  \A n \in First(search.open) : n.point = target =>
    \A k, w, c : Traced(search, from, target, k, w, c) =>
      /\ Walk(map, from, k, w, c)
      /\ \A kk, ww, cc : Walk(map, from, kk, ww, cc) /\ ww[kk] = target => ~Cheaper(cc[kk], c[k])

\* The start alone is returned when no node is left: there is no walk.
NoneWhenExhausted(map, from, target) ==
  search.open = {} => ~\E k, w, c : Walk(map, from, k, w, c) /\ w[k] = target

\* From every point that was seen, cameFrom leads back to the start.
BackToStart(from) ==
  \A q \in DOMAIN search.cost : \E k, w, c : Traced(search, from, q, k, w, c)

\* Every turn keeps the invariant.
LEMMA LoopOK ==
  ASSUME NEW map, NEW from \in Point, NEW target \in Point, from # target
  PROVE  Loop(map, from, target) => []SearchOK(map, from, target, search)
<1>1. search = Started(from, target) => SearchOK(map, from, target, search)
  BY StartedOK
<1>2. SearchOK(map, from, target, search) /\ [Turn(map, target)]_search
      => SearchOK(map, from, target, search)'
  <2> SUFFICES ASSUME SearchOK(map, from, target, search), [Turn(map, target)]_search
               PROVE  SearchOK(map, from, target, search)'
    OBVIOUS
  <2>1. CASE UNCHANGED search
    BY <2>1 DEF SearchOK, SearchType, Waiting, Relaxed
  <2>2. CASE Turn(map, target)
    <3>1. PICK n \in First(search.open) :
            n.point # target /\ search' = Expanded(map, target, search, n)
      BY <2>2 DEF Turn
    <3>2. SearchOK(map, from, target, Expanded(map, target, search, n))
      BY <3>1, ExpandedOK
    <3> QED BY <3>1, <3>2
  <2> QED BY <2>1, <2>2
<1> QED BY <1>1, <1>2, PTL DEF Loop

\* Whatever the order in which nodes of equal priority leave the heap, and on
\* every map, the path found is a shortest one among all walks over allowed
\* steps.
THEOREM PathIsShortest ==
  ASSUME NEW map, NEW from \in Point, NEW target \in Point, from # target
  PROVE  Loop(map, from, target) => []ShortestWhenFound(map, from, target)
<1>1. SearchOK(map, from, target, search) => ShortestWhenFound(map, from, target)
  <2> SUFFICES ASSUME SearchOK(map, from, target, search),
                      NEW n \in First(search.open), n.point = target,
                      NEW k, NEW w, NEW c, Traced(search, from, target, k, w, c)
               PROVE  /\ Walk(map, from, k, w, c)
                      /\ \A kk, ww, cc : Walk(map, from, kk, ww, cc) /\ ww[kk] = target
                                         => ~Cheaper(cc[kk], c[k])
    BY DEF ShortestWhenFound
  <2>1. target \in DOMAIN search.cost /\ search.cost[target] \in Cost
    BY DEF First, SearchOK, SearchType
  <2>2. Walk(map, from, k, w, c) /\ AtMost(c[k], search.cost[target])
    BY <2>1, TracedIsWalk
  <2>3. ASSUME NEW kk, NEW ww, NEW cc, Walk(map, from, kk, ww, cc), ww[kk] = target
        PROVE  ~Cheaper(cc[kk], c[k])
    <3>1. AtMost(search.cost[target], cc[kk])
      BY <2>3, PoppedIsBest
    <3>2. c[k] \in Cost /\ cc[kk] \in Cost
      BY <2>2, <2>3 DEF Walk
    <3>3. AtMost(c[k], cc[kk])
      BY <2>1, <2>2, <3>1, <3>2, AtMostTransitive
    <3> QED BY <3>3 DEF AtMost
  <2> QED BY <2>2, <2>3
<1> QED BY <1>1, LoopOK, PTL

\* The path that reconstructPath looks for is there: going back it never meets a
\* point without an entry, a branch that is dead, nor runs in a circle.
THEOREM CameFromLeadsBack ==
  ASSUME NEW map, NEW from \in Point, NEW target \in Point, from # target
  PROVE  Loop(map, from, target) => []BackToStart(from)
<1>1. SearchOK(map, from, target, search) => BackToStart(from)
  BY SeenIsTraced DEF BackToStart
<1> QED BY <1>1, LoopOK, PTL

\* A player stays where he is only when there is no way: if the loop runs out of
\* nodes, no walk over allowed steps leads to the target.
THEOREM NoPathMissed ==
  ASSUME NEW map, NEW from \in Point, NEW target \in Point, from # target
  PROVE  Loop(map, from, target) => []NoneWhenExhausted(map, from, target)
<1>1. SearchOK(map, from, target, search) => NoneWhenExhausted(map, from, target)
  <2> SUFFICES ASSUME SearchOK(map, from, target, search), search.open = {},
                      NEW k, NEW w, NEW c, Walk(map, from, k, w, c), w[k] = target
               PROVE  FALSE
    BY DEF NoneWhenExhausted
  <2>1. target \notin DOMAIN search.cost
    BY DEF SearchOK
  <2>2. \A p : ~Waiting(search, target, p)
    BY DEF Waiting
  <2>3. \A i \in 1..k : w[i] \in DOMAIN search.cost
    BY <2>2, KnownAlong
  <2> QED BY <2>1, <2>3 DEF Walk
<1> QED BY <1>1, LoopOK, PTL

=============================================================================
