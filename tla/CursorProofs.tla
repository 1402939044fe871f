--------------------------- MODULE CursorProofs ---------------------------
(***************************************************************************)
(* Cursor, for a plan of any size and any orders over it: the counts are   *)
(* exact, an operation leaves both watermarks as far as they can go, and   *)
(* the structure implements a plain set of positions.                      *)
(*                                                                         *)
(* The inductive invariant says of the cursor and of the file alike        *)
(* (Sound) that the three parts do not overlap and that `ahead' counts     *)
(* what the walk passed at or past the watermark, and (Turns) what each    *)
(* half of catch_up has established when the other takes over.             *)
(***************************************************************************)
EXTENDS Cursor, FiniteSetTheorems, TLAPS

Sound(w, a, o, r, h) ==
  /\ r <= WalkLen(o)
  /\ h <= r
  /\ \A p \in a : p >= w /\ p \notin Covered(o, r)
  /\ h = Cardinality(AheadOf(o, r, w))

Turns ==
  /\ pc = "walk" => order # NoWalk
  /\ pc \in {"walk", "idle"} => watermark \notin above \cup Covered(order, reached)
  /\ pc = "idle" /\ reached < WalkLen(order) =>
       order[reached] >= watermark /\ order[reached] \notin above

IInv ==
  /\ TypeOK
  /\ Sound(watermark, above, order, reached, ahead)
  /\ Sound(saved.watermark, saved.settled_above, saved.order,
           saved.reached, saved.ahead)
  /\ Turns

----------------------------------------------------------------------------
(* An order is defined on 0..len-1, its values are positions below len,    *)
(* and it names each once.                                                 *)
LEMMA OrderFacts ==
  ASSUME NEW o \in Orders
  PROVE  /\ WalkLen(o) \in 0 .. Total
         /\ DOMAIN o = 0 .. WalkLen(o) - 1
         /\ \A i \in 0 .. WalkLen(o) - 1 : o[i] \in 0 .. WalkLen(o) - 1
         /\ \A i, j \in 0 .. WalkLen(o) - 1 : o[i] = o[j] => i = j
<1>1. PICK n \in 0 .. Total :
        /\ o \in [0 .. n - 1 -> 0 .. n - 1]
        /\ \A i, j \in 0 .. n - 1 : o[i] = o[j] => i = j
  BY OrdersAssumption DEF IsOrder
<1>2. DOMAIN o = 0 .. n - 1
  BY <1>1
<1>3. n \in Int /\ n - 1 \in Int /\ n >= 0
  BY TotalAssumption
<1>4. Cardinality(0 .. n - 1) = n
  BY <1>3, FS_Interval, SMT
<1>5. WalkLen(o) = n
  BY <1>2, <1>4, NoWalkAssumption DEF WalkLen
<1> QED
  BY <1>1, <1>2, <1>5

(* No walk covers nothing, and a walk covers positions of its own range.   *)
LEMMA CoveredFacts ==
  ASSUME NEW o \in Orders \cup {NoWalk}, NEW r \in 0 .. Total
  PROVE  /\ WalkLen(o) \in 0 .. Total
         /\ Covered(o, r) \subseteq 0 .. WalkLen(o) - 1
         /\ Covered(o, r) \subseteq Positions
<1>1. CASE o = NoWalk
  BY <1>1, TotalAssumption DEF Covered, WalkLen
<1>2. CASE o \in Orders
  <2>1. Covered(o, r) = {o[i] : i \in {j \in DOMAIN o : j < r}}
    BY <1>2, NoWalkAssumption DEF Covered
  <2> QED
    BY <1>2, <2>1, OrderFacts, TotalAssumption DEF Positions
<1> QED
  BY <1>1, <1>2

(* One more step of a walk covers one more position, a new one.            *)
LEMMA CoveredStep ==
  ASSUME NEW o \in Orders, NEW r \in 0 .. Total, r < WalkLen(o)
  PROVE  /\ Covered(o, r + 1) = Covered(o, r) \cup {o[r]}
         /\ o[r] \notin Covered(o, r)
         /\ o[r] \in Positions
<1>1. \A k : Covered(o, k) = {o[i] : i \in {j \in DOMAIN o : j < k}}
  BY NoWalkAssumption DEF Covered
<1>2. r \in 0 .. WalkLen(o) - 1
  BY OrderFacts, TotalAssumption
<1>3. {j \in DOMAIN o : j < r + 1} = {j \in DOMAIN o : j < r} \cup {r}
  BY <1>2, OrderFacts
<1> QED
  BY <1>1, <1>2, <1>3, OrderFacts, TotalAssumption DEF Positions

(* What a walk has passed is finite, and so is what of it is ahead.        *)
LEMMA FiniteParts ==
  ASSUME NEW o \in Orders \cup {NoWalk}, NEW r \in 0 .. Total, NEW w \in 0 .. Total
  PROVE  /\ IsFiniteSet(Positions)
         /\ IsFiniteSet(AheadOf(o, r, w))
         /\ AheadOf(o, r, w) \subseteq Positions
         /\ Cardinality(AheadOf(o, r, w)) \in Nat
         /\ Cardinality(AheadOf(o, r, w)) <= Minus(WalkLen(o), w)
<1>1. IsFiniteSet(Positions)
  BY FS_Interval, TotalAssumption DEF Positions
<1>2. AheadOf(o, r, w) \subseteq Positions
  BY CoveredFacts DEF AheadOf
<1>3. IsFiniteSet(AheadOf(o, r, w)) /\ Cardinality(AheadOf(o, r, w)) \in Nat
  BY <1>1, <1>2, FS_Subset, FS_CardinalityType
<1>4. AheadOf(o, r, w) \subseteq w .. WalkLen(o) - 1
  BY CoveredFacts, TotalAssumption DEF AheadOf
<1>5. WalkLen(o) \in Nat /\ w \in Nat
  BY CoveredFacts, TotalAssumption
<1>6. /\ IsFiniteSet(w .. WalkLen(o) - 1)
      /\ Cardinality(w .. WalkLen(o) - 1) = Minus(WalkLen(o), w)
  <2>1. WalkLen(o) - 1 \in Int /\ w \in Int
    BY <1>5
  <2>2. /\ IsFiniteSet(w .. WalkLen(o) - 1)
        /\ Cardinality(w .. WalkLen(o) - 1)
             = IF w > WalkLen(o) - 1 THEN 0 ELSE WalkLen(o) - 1 - w + 1
    BY <2>1, FS_Interval
  <2> QED
    BY <1>5, <2>2 DEF Minus
<1>7. Cardinality(AheadOf(o, r, w)) <= Minus(WalkLen(o), w)
  <2>1. Cardinality(AheadOf(o, r, w)) <= Cardinality(w .. WalkLen(o) - 1)
    BY <1>4, <1>6, FS_Subset, Zenon
  <2> QED
    BY <1>6, <2>1
<1> QED
  BY <1>1, <1>2, <1>3, <1>7
----------------------------------------------------------------------------
(* A cursor that has settled nothing along a walk is sound.                *)
LEMMA SoundStart ==
  ASSUME NEW o \in Orders \cup {NoWalk}, NEW w \in 0 .. Total,
         NEW a \in SUBSET Positions, \A p \in a : p >= w
  PROVE  Sound(w, a, o, 0, 0)
<1>1. Covered(o, 0) = {}
  <2>1. CASE o = NoWalk
    BY <2>1 DEF Covered
  <2>2. CASE o \in Orders
    BY <2>2, OrderFacts, TotalAssumption, NoWalkAssumption DEF Covered
  <2> QED
    BY <2>1, <2>2
<1>2. AheadOf(o, 0, w) = {}
  BY <1>1 DEF AheadOf
<1>3. 0 \in 0 .. Total
  BY TotalAssumption
<1>4. WalkLen(o) >= 0
  BY <1>3, CoveredFacts
<1> QED
  BY <1>1, <1>2, <1>4, FS_EmptySet DEF Sound

(* What the file holds survives the clamping of Walked::clamped unchanged, *)
(* when the engine wrote it.                                               *)
LEMMA ClampedIsIdentity ==
  ASSUME NEW c \in Checkpoints,
         Sound(c.watermark, c.settled_above, c.order, c.reached, c.ahead)
  PROVE  ClampedReached(c) = c.reached /\ ClampedAhead(c) = c.ahead
<1>1. /\ c.order \in Orders \cup {NoWalk}
      /\ c.reached \in 0 .. Total
      /\ c.watermark \in 0 .. Total
      /\ c.ahead \in 0 .. Total
  BY DEF Checkpoints
<1>2. c.ahead <= Minus(WalkLen(c.order), c.watermark)
  BY <1>1, FiniteParts DEF Sound
<1>3. Minus(WalkLen(c.order), c.watermark) \in Nat
  BY <1>1, CoveredFacts, TotalAssumption DEF Minus
<1>4. ClampedReached(c) = c.reached
  BY <1>1, CoveredFacts, TotalAssumption DEF Sound, ClampedReached, Least
<1> QED
  BY <1>1, <1>2, <1>3, <1>4, TotalAssumption DEF Sound, ClampedAhead, Least

(* The initial cursor satisfies the invariant.                             *)
LEMMA InitIInv == Init => IInv
<1> SUFFICES ASSUME Init PROVE IInv
  OBVIOUS
<1>1. TypeOK
  <2>1. Fresh \in Checkpoints
    BY TotalAssumption DEF Fresh, Checkpoints
  <2>2. 0 \in 0 .. Total
    BY TotalAssumption
  <2>3. walked \in BOOLEAN
    BY DEF Init
  <2> QED
    BY <2>1, <2>2, <2>3 DEF Init, TypeOK
<1>2. Sound(watermark, above, order, reached, ahead)
  BY <1>1, SoundStart DEF Init, TypeOK
<1>3. Sound(saved.watermark, saved.settled_above, saved.order,
            saved.reached, saved.ahead)
  BY <1>2 DEF Init, Fresh
<1>4. Turns
  BY DEF Init, Turns, Covered, WalkLen
<1> QED
  BY <1>1, <1>2, <1>3, <1>4 DEF IInv
----------------------------------------------------------------------------
(* Each action preserves the invariant.                                    *)
LEMMA AlongIInv ==
  ASSUME IInv, NEW o \in Orders, Along(o)
  PROVE  IInv'
<1> USE DEF IInv
<1>1. TypeOK'
  BY TotalAssumption DEF TypeOK, Along
<1>2. Sound(watermark, above, order, reached, ahead)'
  BY SoundStart DEF Sound, Along, TypeOK
<1>3. Turns'
  BY DEF Turns, Along
<1> QED
  BY <1>1, <1>2, <1>3 DEF Along

LEMMA SettleIInv ==
  ASSUME IInv, NEW p \in Positions, Settle(p)
  PROVE  IInv'
<1> USE DEF IInv
<1>1. TypeOK'
  BY DEF TypeOK, Settle
<1>2. Sound(watermark, above, order, reached, ahead)'
  <2>1. p >= watermark /\ p \notin Covered(order, reached)
    BY TotalAssumption DEF Settle, IsSettled, TypeOK, Positions
  <2> QED
    BY <2>1 DEF Sound, Settle
<1>3. Turns'
  BY DEF Turns, Settle
<1> QED
  BY <1>1, <1>2, <1>3 DEF Settle

LEMMA PassListedIInv ==
  ASSUME IInv, PassListed
  PROVE  IInv'
<1> USE DEF IInv
<1>1. watermark \in Positions /\ watermark + 1 \in 0 .. Total
  BY TotalAssumption DEF TypeOK, PassListed, Positions
<1>2. TypeOK'
  BY <1>1 DEF TypeOK, PassListed
<1>3. AheadOf(order, reached, watermark + 1) = AheadOf(order, reached, watermark)
  BY <1>1, CoveredFacts DEF AheadOf, PassListed, Sound, TypeOK, Positions
<1>4. \A p \in above \ {watermark} : p >= watermark + 1
  BY <1>1 DEF Sound, TypeOK, Positions
<1>5. Sound(watermark, above, order, reached, ahead)'
  BY <1>3, <1>4 DEF Sound, PassListed
<1>6. Turns'
  BY DEF Turns, PassListed
<1> QED
  BY <1>2, <1>5, <1>6 DEF PassListed

LEMMA PassCoveredIInv ==
  ASSUME IInv, PassCovered
  PROVE  IInv'
<1> USE DEF IInv
<1>1. watermark \in Positions /\ watermark + 1 \in 0 .. Total
  BY CoveredFacts, TotalAssumption DEF TypeOK, PassCovered, Positions
<1>2. /\ IsFiniteSet(AheadOf(order, reached, watermark))
      /\ Cardinality(AheadOf(order, reached, watermark)) = ahead
  BY FiniteParts DEF Sound, TypeOK
<1>3. /\ watermark \in AheadOf(order, reached, watermark)
      /\ AheadOf(order, reached, watermark + 1)
           = AheadOf(order, reached, watermark) \ {watermark}
  BY <1>1, CoveredFacts DEF AheadOf, PassCovered, TypeOK, Positions
<1>4. Cardinality(AheadOf(order, reached, watermark + 1)) = ahead - 1
  BY <1>2, <1>3, FS_RemoveElement
<1>5. Cardinality(AheadOf(order, reached, watermark + 1)) \in Nat
  BY <1>1, FiniteParts DEF TypeOK
<1>6. ahead' = ahead - 1 /\ ahead' \in 0 .. Total /\ ahead' <= reached
  BY <1>4, <1>5, TotalAssumption DEF PassCovered, Minus, TypeOK, Sound
<1>7. TypeOK'
  BY <1>1, <1>6 DEF TypeOK, PassCovered
<1>8. \A p \in above : p >= watermark + 1
  BY <1>1 DEF Sound, TypeOK, Positions, PassCovered
<1>9. Sound(watermark, above, order, reached, ahead)'
  BY <1>4, <1>6, <1>8 DEF Sound, PassCovered
<1>10. Turns'
  BY DEF Turns, PassCovered
<1> QED
  BY <1>7, <1>9, <1>10 DEF PassCovered

LEMMA PlanStopsIInv ==
  ASSUME IInv, PlanStops
  PROVE  IInv'
<1> USE DEF IInv
<1>1. TypeOK'
  BY DEF TypeOK, PlanStops, cursor
<1>2. Sound(watermark, above, order, reached, ahead)'
  BY DEF Sound, PlanStops, cursor
<1>3. order = NoWalk => ~(reached < WalkLen(order))
  BY TotalAssumption DEF TypeOK, WalkLen
<1>4. Turns'
  BY <1>3 DEF Turns, PlanStops, cursor
<1> QED
  BY <1>1, <1>2, <1>4 DEF PlanStops

LEMMA WalkBelowIInv ==
  ASSUME IInv, WalkBelow
  PROVE  IInv'
<1> USE DEF IInv
<1>1. order \in Orders
  BY DEF Turns, WalkBelow, TypeOK
<1>2. WalkLen(order) \in 0 .. Total /\ reached + 1 \in 0 .. Total
  BY <1>1, OrderFacts, TotalAssumption DEF WalkBelow, TypeOK
<1>3. /\ Covered(order, reached + 1) = Covered(order, reached) \cup {order[reached]}
      /\ order[reached] \in Positions
  BY <1>1, CoveredStep DEF WalkBelow, TypeOK
<1>4. TypeOK'
  BY <1>2 DEF TypeOK, WalkBelow
<1>5. AheadOf(order, reached + 1, watermark) = AheadOf(order, reached, watermark)
  BY <1>3, TotalAssumption DEF AheadOf, WalkBelow, TypeOK, Positions
<1>6. \A p \in above : p \notin Covered(order, reached + 1)
  BY <1>3, TotalAssumption DEF Sound, WalkBelow, TypeOK, Positions
<1>7. Sound(watermark, above, order, reached, ahead)'
  BY <1>2, <1>5, <1>6, TotalAssumption DEF Sound, WalkBelow, TypeOK
<1>8. Turns'
  BY <1>3, TotalAssumption DEF Turns, WalkBelow, TypeOK, Positions
<1> QED
  BY <1>4, <1>7, <1>8 DEF WalkBelow
LEMMA WalkListedIInv ==
  ASSUME IInv, WalkListed
  PROVE  IInv'
<1> USE DEF IInv
<1>1. order \in Orders
  BY DEF Turns, WalkListed, TypeOK
<1>2. WalkLen(order) \in 0 .. Total /\ reached + 1 \in 0 .. Total
  BY <1>1, OrderFacts, TotalAssumption DEF WalkListed, TypeOK
<1>3. /\ Covered(order, reached + 1) = Covered(order, reached) \cup {order[reached]}
      /\ order[reached] \notin Covered(order, reached)
      /\ order[reached] \in Positions
  BY <1>1, CoveredStep DEF WalkListed, TypeOK
<1>4. /\ AheadOf(order, reached + 1, watermark)
           = AheadOf(order, reached, watermark) \cup {order[reached]}
      /\ order[reached] \notin AheadOf(order, reached, watermark)
  BY <1>3 DEF AheadOf, WalkListed
<1>5. /\ IsFiniteSet(AheadOf(order, reached, watermark))
      /\ Cardinality(AheadOf(order, reached, watermark)) = ahead
  BY FiniteParts DEF Sound, TypeOK
<1>6. Cardinality(AheadOf(order, reached + 1, watermark)) = ahead + 1
  BY <1>4, <1>5, FS_AddElement
<1>7. ahead + 1 <= reached + 1 /\ ahead + 1 \in 0 .. Total
  BY <1>2, TotalAssumption DEF Sound, TypeOK
<1>8. TypeOK'
  BY <1>2, <1>7 DEF TypeOK, WalkListed
<1>9. \A p \in above \ {order[reached]} : p \notin Covered(order, reached + 1)
  BY <1>3 DEF Sound
<1>10. Sound(watermark, above, order, reached, ahead)'
  BY <1>2, <1>6, <1>7, <1>9, TotalAssumption DEF Sound, WalkListed, TypeOK
<1>11. Turns'
  BY <1>3 DEF Turns, WalkListed
<1> QED
  BY <1>8, <1>10, <1>11 DEF WalkListed

LEMMA WalkStopsIInv ==
  ASSUME IInv, WalkStops
  PROVE  IInv'
<1> USE DEF IInv
<1>1. TypeOK'
  BY DEF TypeOK, WalkStops, cursor
<1>2. Sound(watermark, above, order, reached, ahead)'
  BY DEF Sound, WalkStops, cursor
<1>3. Turns'
  BY DEF Turns, WalkStops, cursor
<1> QED
  BY <1>1, <1>2, <1>3 DEF WalkStops

LEMMA SaveIInv ==
  ASSUME IInv, Save
  PROVE  IInv'
<1> USE DEF IInv
<1>1. TypeOK'
  BY DEF TypeOK, Save, cursor, Snapshot, Checkpoints
<1>2. Sound(watermark, above, order, reached, ahead)'
  BY DEF Sound, Save, cursor
<1>3. Sound(saved.watermark, saved.settled_above, saved.order,
            saved.reached, saved.ahead)'
  BY DEF Save, Snapshot
<1>4. Turns'
  BY DEF Turns, Save, cursor
<1> QED
  BY <1>1, <1>2, <1>3, <1>4

LEMMA RestartIInv ==
  ASSUME IInv, Restart
  PROVE  IInv'
<1> USE DEF IInv
<1>1. /\ saved.watermark \in 0 .. Total
      /\ saved.settled_above \subseteq Positions
      /\ saved.order \in Orders \cup {NoWalk}
      /\ saved.reached \in 0 .. Total
      /\ saved.ahead \in 0 .. Total
  BY DEF TypeOK, Checkpoints
<1>2. ClampedReached(saved) = saved.reached /\ ClampedAhead(saved) = saved.ahead
  BY ClampedIsIdentity DEF TypeOK
<1>3. /\ watermark' = saved.watermark /\ order' = saved.order
      /\ reached' = saved.reached /\ ahead' = saved.ahead
      /\ above' \subseteq saved.settled_above
  BY <1>2 DEF Restart
<1>4. TypeOK'
  BY <1>1, <1>3 DEF TypeOK, Restart
<1>5. Sound(watermark, above, order, reached, ahead)'
  BY <1>3 DEF Sound
<1>6. Turns'
  BY DEF Turns, Restart
<1> QED
  BY <1>4, <1>5, <1>6 DEF Restart

(* The invariant is inductive.                                             *)
THEOREM Invariance == Spec => []IInv
<1>1. Init => IInv
  BY InitIInv
<1>2. IInv /\ [Next]_vars => IInv'
  <2> SUFFICES ASSUME IInv, [Next]_vars PROVE IInv'
    OBVIOUS
  <2>1. CASE UNCHANGED vars
    BY <2>1 DEF IInv, TypeOK, Sound, Turns, vars
  <2>2. CASE Next
    BY <2>2, AlongIInv, SettleIInv, PassListedIInv, PassCoveredIInv,
       PlanStopsIInv, WalkBelowIInv, WalkListedIInv, WalkStopsIInv,
       SaveIInv, RestartIInv DEF Next, CatchUp
  <2> QED
    BY <2>1, <2>2
<1> QED
  BY <1>1, <1>2, PTL DEF Spec
----------------------------------------------------------------------------
(* The parts of a sound cursor add up to the positions it settles.         *)
LEMMA PartsAddUp ==
  ASSUME NEW w \in 0 .. Total, NEW a \in SUBSET Positions,
         NEW o \in Orders \cup {NoWalk}, NEW r \in 0 .. Total, NEW h,
         Sound(w, a, o, r, h)
  PROVE  w + h + Cardinality(a)
           = Cardinality({p \in Positions : IsSettled(w, a, o, r, p)})
<1> DEFINE below == 0 .. w - 1
           far == AheadOf(o, r, w)
<1>0. w \in Nat /\ w \in Int /\ w - 1 \in Int /\ 0 \in Int
  BY TotalAssumption
<1>1. IsFiniteSet(below) /\ Cardinality(below) = w
  <2>1. /\ IsFiniteSet(below)
        /\ Cardinality(below) = IF 0 > w - 1 THEN 0 ELSE w - 1 - 0 + 1
    BY <1>0, FS_Interval
  <2> QED
    BY <1>0, <2>1
<1>2. /\ IsFiniteSet(Positions) /\ IsFiniteSet(far)
      /\ Cardinality(far) = h /\ h \in Nat
  BY FiniteParts DEF Sound
<1>3. IsFiniteSet(a) /\ Cardinality(a) \in Nat
  BY <1>2, FS_Subset, FS_CardinalityType
<1>4. below \cap far = {}
  BY TotalAssumption DEF AheadOf
<1>5. (below \cup far) \cap a = {}
  <2> SUFFICES ASSUME NEW p \in a PROVE p \notin below /\ p \notin far
    OBVIOUS
  <2>1. p >= w /\ p \notin Covered(o, r)
    BY DEF Sound
  <2>2. p \in Int
    BY TotalAssumption DEF Positions
  <2> QED
    BY <1>0, <2>1, <2>2 DEF AheadOf
<1>6. {p \in Positions : IsSettled(w, a, o, r, p)} = (below \cup far) \cup a
  <2>1. Covered(o, r) \subseteq Positions
    BY CoveredFacts
  <2>2. ASSUME NEW p \in Positions
        PROVE  IsSettled(w, a, o, r, p) <=> p \in (below \cup far) \cup a
    <3>1. p \in below <=> p < w
      BY <1>0, TotalAssumption DEF Positions
    <3>2. p \in far <=> p \in Covered(o, r) /\ p >= w
      BY DEF AheadOf
    <3>3. p < w \/ p >= w
      BY <1>0, TotalAssumption DEF Positions
    <3> QED
      BY <3>1, <3>2, <3>3 DEF IsSettled
  <2>3. below \subseteq Positions /\ far \subseteq Positions
    BY <2>1, TotalAssumption DEF AheadOf, Positions
  <2> HIDE DEF below, far
  <2> QED
    BY <2>2, <2>3
<1> HIDE DEF below, far
<1>7. IsFiniteSet(below \cup far) /\ Cardinality(below \cup far) = w + h
  <2>1. /\ IsFiniteSet(below \cup far)
        /\ Cardinality(below \cup far)
             = Cardinality(below) + Cardinality(far) - Cardinality(below \cap far)
    BY <1>1, <1>2, FS_Union
  <2> QED
    BY <1>0, <1>1, <1>2, <1>4, <2>1, FS_EmptySet
<1>8. Cardinality((below \cup far) \cup a) = w + h + Cardinality(a)
  <2>1. Cardinality((below \cup far) \cup a)
          = Cardinality(below \cup far) + Cardinality(a)
              - Cardinality((below \cup far) \cap a)
    BY <1>3, <1>7, FS_Union
  <2>2. Cardinality((below \cup far) \cap a) = 0
    BY <1>5, FS_EmptySet
  <2> QED
    BY <1>0, <1>2, <1>3, <1>7, <2>1, <2>2
<1> QED
  BY <1>6, <1>8

(* Every count, record and watermark keeps its type: in particular `ahead' *)
(* never passes the plan's size and a walk is never counted past its end.  *)
THEOREM TypeCorrect == Spec => []TypeOK
<1>1. IInv => TypeOK
  BY DEF IInv
<1> QED
  BY <1>1, Invariance, PTL

(* Cursor::settled_count is the number of settled positions, at every pass *)
(* of catch_up and after every resume, for any plan and any order.         *)
THEOREM Counts == Spec => []CountExact
<1>1. IInv => CountExact
  <2> SUFFICES ASSUME IInv PROVE CountExact
    OBVIOUS
  <2>0. /\ watermark \in 0 .. Total /\ above \in SUBSET Positions
        /\ order \in Orders \cup {NoWalk} /\ reached \in 0 .. Total
        /\ Sound(watermark, above, order, reached, ahead)
    BY DEF IInv, TypeOK
  <2>1. watermark + ahead + Cardinality(above)
          = Cardinality({p \in Positions :
                           IsSettled(watermark, above, order, reached, p)})
    BY <2>0, PartsAddUp
  <2> QED
    BY <2>1 DEF CountExact, SettledCount, Settled
<1> QED
  BY <1>1, Invariance, PTL

(* Checkpoint::settled_count is the number of positions the file settles.  *)
THEOREM SavedCounts == Spec => []SavedCountExact
<1>1. IInv => SavedCountExact
  <2> SUFFICES ASSUME IInv PROVE SavedCountExact
    OBVIOUS
  <2>1. saved \in Checkpoints
    BY DEF IInv, TypeOK
  <2>2. ClampedReached(saved) = saved.reached /\ ClampedAhead(saved) = saved.ahead
    BY <2>1, ClampedIsIdentity DEF IInv
  <2>3. {p \in saved.settled_above :
           /\ p >= saved.watermark
           /\ p \notin Covered(saved.order, ClampedReached(saved))}
        = saved.settled_above
    BY <2>2 DEF IInv, Sound
  <2>4. /\ saved.watermark \in 0 .. Total
        /\ saved.settled_above \in SUBSET Positions
        /\ saved.order \in Orders \cup {NoWalk} /\ saved.reached \in 0 .. Total
    BY <2>1 DEF Checkpoints
  <2>5. saved.watermark + saved.ahead + Cardinality(saved.settled_above)
          = Cardinality({p \in Positions :
                           IsSettled(saved.watermark, saved.settled_above,
                                     saved.order, saved.reached, p)})
    BY <2>4, PartsAddUp DEF IInv
  <2> QED
    BY <2>2, <2>3, <2>5 DEF SavedCountExact, SavedCount, SavedSettled
<1> QED
  BY <1>1, Invariance, PTL

(* Whenever an operation has returned, both watermarks are as far as they  *)
(* can go and the set holds nothing either could pass.                     *)
THEOREM NothingLeftToPass == Spec => []CaughtUp
<1>1. IInv => CaughtUp
  <2> SUFFICES ASSUME IInv, pc = "idle" PROVE CaughtUp!2
    BY DEF CaughtUp
  <2>1. watermark \notin Settled
    BY TotalAssumption DEF IInv, Turns, TypeOK, Settled, IsSettled, Positions
  <2>2. ASSUME reached < WalkLen(order)
        PROVE  order[reached] \notin Settled
    <3>1. order \in Orders
      BY <2>2, TotalAssumption DEF IInv, TypeOK, WalkLen
    <3>2. order[reached] \in Positions /\ order[reached] \notin Covered(order, reached)
      BY <2>2, <3>1, CoveredStep DEF IInv, TypeOK
    <3> QED
      BY <2>2, <3>2, TotalAssumption
      DEF IInv, Turns, TypeOK, Settled, IsSettled, Positions
  <2>3. \A p \in above : p > watermark /\ p \notin Covered(order, reached)
    BY TotalAssumption DEF IInv, Turns, TypeOK, Sound, Positions
  <2> QED
    BY <2>1, <2>2, <2>3
<1> QED
  BY <1>1, Invariance, PTL
----------------------------------------------------------------------------
(* Every pass of catch_up moves positions between the parts and leaves the *)
(* set they describe as it was.                                            *)
LEMMA CatchUpKeepsSettled ==
  ASSUME IInv, CatchUp
  PROVE  Settled' = Settled /\ saved' = saved
<1> USE DEF IInv
<1>1. CASE PassListed
  BY <1>1, TotalAssumption DEF PassListed, Settled, IsSettled, TypeOK, Positions
<1>2. CASE PassCovered
  BY <1>2, TotalAssumption DEF PassCovered, Settled, IsSettled, TypeOK, Positions
<1>3. CASE PlanStops
  BY <1>3 DEF PlanStops, Settled, cursor
<1>4. CASE WalkBelow
  <2>1. Covered(order, reached + 1) = Covered(order, reached) \cup {order[reached]}
    BY <1>4, CoveredStep DEF WalkBelow, Turns, TypeOK
  <2> QED
    BY <1>4, <2>1 DEF WalkBelow, Settled, IsSettled
<1>5. CASE WalkListed
  <2>1. Covered(order, reached + 1) = Covered(order, reached) \cup {order[reached]}
    BY <1>5, CoveredStep DEF WalkListed, Turns, TypeOK
  <2> QED
    BY <1>5, <2>1 DEF WalkListed, Settled, IsSettled
<1>6. CASE WalkStops
  BY <1>6 DEF WalkStops, Settled, cursor
<1> QED
  BY <1>1, <1>2, <1>3, <1>4, <1>5, <1>6 DEF CatchUp

(* The two watermarks and the set implement a plain set of positions:      *)
(* settling adds the one position, saving copies the set, a restart brings *)
(* back the copy, and nothing else changes what is settled.                *)
THEOREM Refinement == Spec => ImplementsSettledSet
<1>1. Init => Abstract!Init
  <2> SUFFICES ASSUME Init PROVE Settled = {} /\ SavedSettled = {}
    BY DEF Abstract!Init
  <2> QED
    BY TotalAssumption
    DEF Init, Fresh, Settled, SavedSettled, IsSettled, Covered, Positions
<1>2. IInv /\ [Next]_vars => [Abstract!Next]_<<Settled, SavedSettled>>
  <2> SUFFICES ASSUME IInv, [Next]_vars
               PROVE  Abstract!Next \/ (Settled' = Settled /\ SavedSettled' = SavedSettled)
    OBVIOUS
  <2>1. CASE UNCHANGED vars
    BY <2>1 DEF vars, Settled, SavedSettled
  <2>2. ASSUME NEW o \in Orders, Along(o)
        PROVE  Settled' = Settled /\ SavedSettled' = SavedSettled
    <3>1. Covered(order, reached) = {}
      BY <2>2 DEF Along, Covered
    <3>2. Covered(o, 0) = {}
      BY OrderFacts, NoWalkAssumption, TotalAssumption DEF Covered
    <3> QED
      BY <2>2, <3>1, <3>2 DEF Along, Settled, SavedSettled, IsSettled
  <2>3. ASSUME NEW p \in Positions, Settle(p)
        PROVE  Abstract!Settle(p)
    BY <2>3 DEF Settle, Abstract!Settle, Settled, SavedSettled, IsSettled
  <2>4. CASE CatchUp
    BY <2>4, CatchUpKeepsSettled DEF SavedSettled
  <2>5. ASSUME Save PROVE Abstract!Save
    BY <2>5 DEF Save, Abstract!Save, cursor, Snapshot, Settled, SavedSettled
  <2>6. ASSUME Restart PROVE Abstract!Restart
    <3>1. saved \in Checkpoints
      BY DEF IInv, TypeOK
    <3>2. ClampedReached(saved) = saved.reached
      BY <3>1, ClampedIsIdentity DEF IInv
    <3>3. above' = saved.settled_above
      BY <2>6, <3>2 DEF Restart, IInv, Sound
    <3> QED
      BY <2>6, <3>2, <3>3 DEF Restart, Abstract!Restart, Settled, SavedSettled
  <2> QED
    BY <2>1, <2>2, <2>3, <2>4, <2>5, <2>6 DEF Next, Abstract!Next
<1> QED
  BY <1>1, <1>2, Invariance, PTL DEF Spec, ImplementsSettledSet, Abstract!Spec

(* catch_up neither settles a position nor forgets one, as a property of   *)
(* every step it takes.                                                    *)
THEOREM Conservation == Spec => CatchUpConserves
<1>1. IInv /\ [Next]_vars => [CatchUp => Settled' = Settled]_vars
  BY CatchUpKeepsSettled
<1> QED
  BY <1>1, Invariance, PTL DEF Spec, CatchUpConserves

(* A walk read as reached past its end covers what the whole walk does.    *)
LEMMA ClampedCovers ==
  ASSUME NEW c \in Checkpoints
  PROVE  Covered(c.order, ClampedReached(c)) = Covered(c.order, c.reached)
<1>1. c.order \in Orders \cup {NoWalk} /\ c.reached \in Nat
  BY TotalAssumption DEF Checkpoints
<1>2. CASE c.order = NoWalk
  BY <1>2 DEF Covered
<1>3. CASE c.order \in Orders
  <2>1. WalkLen(c.order) \in Nat /\ \A j \in DOMAIN c.order : j \in Nat /\ j < WalkLen(c.order)
    BY <1>3, OrderFacts, TotalAssumption
  <2>2. {j \in DOMAIN c.order : j < ClampedReached(c)} = {j \in DOMAIN c.order : j < c.reached}
    BY <1>1, <2>1 DEF ClampedReached, Least
  <2> QED
    BY <2>2 DEF Covered
<1> QED
  BY <1>1, <1>2, <1>3

(* from_checkpoint settles exactly what a file of the right shape names,   *)
(* whoever wrote it and however often: nothing is assumed of how the file  *)
(* came to be, nor that its count, its set and its walk agree.             *)
THEOREM AnyFileIsReadWhole == [](saved \in Checkpoints) => ResumeReadsTheFile
<1>1. saved \in Checkpoints => [Restart => Settled' = SavedSettled]_vars
  <2> SUFFICES ASSUME saved \in Checkpoints, Restart PROVE Settled' = SavedSettled
    OBVIOUS
  <2>1. Covered(saved.order, ClampedReached(saved)) = Covered(saved.order, saved.reached)
    BY ClampedCovers
  <2>2. saved.settled_above \subseteq Nat /\ saved.watermark \in Nat
    BY TotalAssumption DEF Checkpoints, Positions
  <2>3. \A p \in Positions :
          IsSettled(watermark', above', order', reached', p) <=>
          IsSettled(saved.watermark, saved.settled_above, saved.order, saved.reached, p)
    BY <2>1, <2>2, TotalAssumption DEF Restart, IsSettled, Positions
  <2> QED
    BY <2>3 DEF Settled, SavedSettled
<1> QED
  BY <1>1, PTL DEF ResumeReadsTheFile
============================================================================
