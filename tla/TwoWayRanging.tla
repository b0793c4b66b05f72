----------------------------- MODULE TwoWayRanging -----------------------------
(***************************************************************************)
(* What two-way ranging promises of each pair of a tag and an anchor: the  *)
(* two keep a record each, and a range is computed when, of one and the    *)
(* same POLL, the tag has had the answer and has reported it, the anchor   *)
(* still has its own part, and there has been no range yet.                *)
(*                                                                         *)
(* There are no frames, no tables and no time here.  Either side may at    *)
(* any moment forget the other.  What a tag holds of an anchor it has not  *)
(* asked since is arbitrary, and no range comes of it.                     *)
(***************************************************************************)
EXTENDS Integers

CONSTANTS Tags, Anchors

Pair == Tags \X Anchors
Never == -1   \* in the place of the number of a POLL

VARIABLES
  ofTag,      \* the POLL last asked; whether it is answered, and reported
  ofAnchor    \* the POLL last taken; the one the last range was of

pairVars == <<ofTag, ofAnchor>>

TagSide == [asked : Int, answered : BOOLEAN, reported : BOOLEAN]
AnchorSide == [taken : Int, ranged : Int]

Stranger == [asked |-> Never, answered |-> FALSE, reported |-> FALSE]
Fresh == [taken |-> Never, ranged |-> Never]

Init ==
  /\ ofTag = [p \in Pair |-> Stranger]
  /\ ofAnchor = [p \in Pair |-> Fresh]

PairsOfTag(t) == {p \in Pair : p[1] = t}
PairsOfAnchor(a) == {p \in Pair : p[2] = a}

OnlyTagSide(P) ==
  /\ ofTag' \in [Pair -> TagSide] /\ \A q \in Pair \ P : ofTag'[q] = ofTag[q]
  /\ UNCHANGED ofAnchor

OnlyAnchorSide(P) ==
  /\ ofAnchor' \in [Pair -> AnchorSide] /\ \A q \in Pair \ P : ofAnchor'[q] = ofAnchor[q]
  /\ UNCHANGED ofTag

(* With one POLL, newer than any before, tag t asks all anchors it knows.  *)
Ask(t) ==
  \E P \in SUBSET PairsOfTag(t) :
    /\ OnlyTagSide(P)
    /\ \A p \in P :
         /\ ofTag'[p].asked > ofTag[p].asked
         /\ ~ofTag'[p].answered /\ ~ofTag'[p].reported
         /\ \A q \in P : ofTag'[p] = ofTag'[q]

(* The anchor takes a POLL, newer than the one it has if it has one.  When *)
(* its table is full it forgets another tag.                               *)
Take(p) ==
  /\ OnlyAnchorSide(PairsOfAnchor(p[2]))
  /\ ofAnchor'[p].taken > ofAnchor[p].taken
  /\ ofAnchor'[p].ranged = ofAnchor[p].ranged
  /\ \A q \in Pair \ {p} : ofAnchor'[q] \in {ofAnchor[q], Fresh}

(* The tag has the answer to the POLL that it asked last and the anchor    *)
(* has taken, unless either has forgotten it since.  The tag reports to    *)
(* anchors that have answered.                                             *)
Answer(p) ==
  /\ OnlyTagSide(PairsOfTag(p[1]))
  /\ Never \in {ofTag[p].asked, ofAnchor[p].taken} \/ ofTag[p].asked = ofAnchor[p].taken
  /\ ofTag'[p].answered
  /\ \A q \in PairsOfTag(p[1]) :
       /\ ofTag'[q].asked = ofTag[q].asked
       /\ ofTag'[q].answered # ofTag[q].answered => q = p
       /\ ofTag'[q].reported # ofTag[q].reported => ofTag'[q].reported /\ ofTag'[q].answered

(* The anchor has the report, unless the tag has forgotten it since.       *)
ComputeRange(p) ==
  /\ ofAnchor[p].taken # Never
  /\ ofAnchor[p].ranged # ofAnchor[p].taken
  /\ \/ ofTag[p].asked = Never
     \/ ofTag[p].asked = ofAnchor[p].taken /\ ofTag[p].answered /\ ofTag[p].reported
  /\ ofAnchor' = [ofAnchor EXCEPT ![p].ranged = ofAnchor[p].taken]
  /\ UNCHANGED ofTag

(* Some anchors are forgotten, or one is met.                              *)
TagForgets(t) ==
  /\ OnlyTagSide(PairsOfTag(t))
  /\ \A p \in Pair : ofTag'[p] # ofTag[p] => ofTag'[p].asked = Never

AnchorForgets(a) ==
  /\ OnlyAnchorSide(PairsOfAnchor(a))
  /\ \A p \in Pair : ofAnchor'[p] \in {ofAnchor[p], Fresh}

Next ==
  \/ \E t \in Tags : Ask(t) \/ TagForgets(t)
  \/ \E p \in Pair : Take(p) \/ Answer(p) \/ ComputeRange(p)
  \/ \E a \in Anchors : AnchorForgets(a)

Spec == Init /\ [][Next]_pairVars

(* The anchor computes ranges in the order of the POLLs: each is of a      *)
(* newer one than the last, unless it has forgotten the tag in between.    *)
RangesInOrder ==
  [][\A p \in Pair :
       \/ ofAnchor'[p].ranged = ofAnchor[p].ranged
       \/ ofAnchor'[p].ranged > ofAnchor[p].ranged
       \/ ofAnchor'[p] = Fresh]_pairVars
================================================================================
