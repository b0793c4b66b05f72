-------------------------- MODULE TwoWayRanging_proofs -------------------------
(***************************************************************************)
(* What follows from the abstract exchange alone, for any tags and anchors *)
(* and any number of POLLs: an anchor's ranges are in the order of the     *)
(* POLLs, so that no POLL is ranged twice and none after a newer one.      *)
(***************************************************************************)
EXTENDS TwoWayRanging, TLAPS

(* The last range is of no newer POLL than the one the anchor has.         *)
Inv ==
  /\ ofAnchor \in [Pair -> AnchorSide]
  /\ \A p \in Pair : ofAnchor[p].ranged <= ofAnchor[p].taken

InOrder(p) ==
  \/ ofAnchor'[p].ranged = ofAnchor[p].ranged
  \/ ofAnchor'[p].ranged > ofAnchor[p].ranged
  \/ ofAnchor'[p] = Fresh

LEMMA InitInv == Init => Inv
  BY DEF Init, Inv, Fresh, AnchorSide, Never

LEMMA FreshType == Fresh \in AnchorSide /\ Fresh.ranged <= Fresh.taken
  BY DEF Fresh, AnchorSide, Never

(* One step keeps the invariant and the order.                             *)
LEMMA Step ==
  ASSUME Inv, [Next]_pairVars
  PROVE  Inv' /\ \A p \in Pair : InOrder(p)
<1>0. /\ ofAnchor \in [Pair -> AnchorSide]
      /\ \A p \in Pair : /\ ofAnchor[p].ranged \in Int /\ ofAnchor[p].taken \in Int
                         /\ ofAnchor[p].ranged <= ofAnchor[p].taken
  BY DEF Inv, AnchorSide
<1>1. CASE ofAnchor' = ofAnchor
  BY <1>0, <1>1 DEF Inv, InOrder
<1>2. ASSUME NEW p \in Pair, Take(p)
      PROVE  Inv' /\ \A q \in Pair : InOrder(q)
  <2>1. /\ ofAnchor' \in [Pair -> AnchorSide]
        /\ ofAnchor'[p].taken > ofAnchor[p].taken
        /\ ofAnchor'[p].ranged = ofAnchor[p].ranged
        /\ \A q \in Pair \ {p} : ofAnchor'[q] \in {ofAnchor[q], Fresh}
    BY <1>2 DEF Take, OnlyAnchorSide
  <2>2. PICK n \in Int : ofAnchor'[p].taken = n
    BY <2>1 DEF AnchorSide
  <2>3. n > ofAnchor[p].taken
    BY <2>1, <2>2
  <2>4. ofAnchor[p].ranged <= n
    BY <1>0, <2>3
  <2>5. ofAnchor'[p].ranged <= ofAnchor'[p].taken
    BY <2>1, <2>2, <2>4
  <2>6. \A q \in Pair \ {p} : ofAnchor'[q].ranged <= ofAnchor'[q].taken
    BY <1>0, <2>1, FreshType
  <2> QED
    BY <2>1, <2>5, <2>6 DEF Inv, InOrder
<1>3. ASSUME NEW p \in Pair, ComputeRange(p)
      PROVE  Inv' /\ \A q \in Pair : InOrder(q)
  <2> DEFINE new == [ofAnchor EXCEPT ![p].ranged = ofAnchor[p].taken]
  <2>1. ofAnchor' = new /\ ofAnchor[p].ranged # ofAnchor[p].taken
    BY <1>3 DEF ComputeRange
  <2>2. new \in [Pair -> AnchorSide]
    BY <1>0 DEF AnchorSide
  <2>3. /\ new[p].ranged = ofAnchor[p].taken /\ new[p].taken = ofAnchor[p].taken
        /\ \A q \in Pair \ {p} : new[q] = ofAnchor[q]
    BY <1>0 DEF AnchorSide
  <2> HIDE DEF new
  <2>4. \A q \in Pair : new[q].ranged <= new[q].taken
    BY <1>0, <2>3
  <2>5. new[p].ranged > ofAnchor[p].ranged
    BY <1>0, <2>1, <2>3
  <2>6. Inv'
    BY <2>1, <2>2, <2>4 DEF Inv
  <2>7. \A q \in Pair : InOrder(q)
    BY <2>1, <2>3, <2>5 DEF InOrder
  <2> QED
    BY <2>6, <2>7
<1>4. ASSUME NEW a \in Anchors, AnchorForgets(a)
      PROVE  Inv' /\ \A q \in Pair : InOrder(q)
  <2>1. /\ ofAnchor' \in [Pair -> AnchorSide]
        /\ \A q \in Pair : ofAnchor'[q] \in {ofAnchor[q], Fresh}
    BY <1>4 DEF AnchorForgets, OnlyAnchorSide
  <2> QED
    BY <1>0, <2>1, FreshType DEF Inv, InOrder
<1>5. ASSUME \E t \in Tags : Ask(t) \/ TagForgets(t)
      PROVE  ofAnchor' = ofAnchor
  BY <1>5 DEF Ask, TagForgets, OnlyTagSide
<1>6. ASSUME NEW p \in Pair, Answer(p)
      PROVE  ofAnchor' = ofAnchor
  BY <1>6 DEF Answer, OnlyTagSide
<1> QED
  BY <1>1, <1>2, <1>3, <1>4, <1>5, <1>6 DEF Next, pairVars

(* Once an anchor has computed the range of a POLL, it computes none of    *)
(* that POLL or an older one while it knows the tag.                       *)
THEOREM InOrderTheorem == Spec => RangesInOrder
<1>1. Inv /\ [Next]_pairVars => Inv'
  BY Step
<1>2. Inv /\ [Next]_pairVars => [\A p \in Pair : InOrder(p)]_pairVars
  BY Step
<1> QED
  BY <1>1, <1>2, InitInv, PTL DEF Spec, RangesInOrder, InOrder
================================================================================
