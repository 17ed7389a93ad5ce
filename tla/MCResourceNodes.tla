-------------------------- MODULE MCResourceNodes --------------------------
(* Two kinds of trees, one of each, on a strip next to the bank.  A tree of *)
(* the first kind on its first place leaves no room for the other kind.   *)
EXTENDS ResourceNodes, Forests

CONSTANT bank

MCKinds == {1, 2}
MCTarget == <<1, 1>>
MCCandidates == <<{<<3, 0>>, <<6, 0>>}, {<<4, 0>>}>>
MCBankAt == <<0, 0>>
MCIds == 1..8

\* The quota, against its definition: the total is handed out, every kind gets
\* its share rounded down or up, and none is rounded up before one with a larger
\* remainder or, on a tie, before an earlier one.
QuotaOf(total, weights) ==
  LET count == scaledTreeTargetCounts(total, weights)
      sum == MapThenSumSet(LAMBDA k : weights[k], DOMAIN weights)
      rest(k) == (total * weights[k]) % sum
      up(k) == count[k] - (total * weights[k]) \div sum
  IN  /\ MapThenSumSet(LAMBDA k : count[k], DOMAIN weights) = total
      /\ \A k \in DOMAIN weights : up(k) \in {0, 1}
      /\ \A j, k \in DOMAIN weights :
           up(j) < up(k) => rest(k) > rest(j) \/ (rest(k) = rest(j) /\ k < j)

ASSUME QuotaAssumption ==
  /\ \A total \in 1..12 : \A weights \in [1..3 -> 1..4] : QuotaOf(total, weights)
  /\ \A total \in 1..100 : QuotaOf(total, treeTargetWeights)
=============================================================================
