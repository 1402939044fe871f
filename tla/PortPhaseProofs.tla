-------------------------- MODULE PortPhaseProofs --------------------------
(***************************************************************************)
(* Proofs about Dispatcher and PortPhase, for any plan, any permutation of *)
(* it, any batch size, any scanners and any limits.                        *)
(***************************************************************************)
EXTENDS PortPhase, FiniteSetTheorems, TLAPS

----------------------------------------------------------------------------
(* Sequences without repetition                                            *)

\* What a walk yields from its k-th element on.
From(s, k) == {s[i] : i \in k .. Len(s)}

(* Appending an element that is not there: Place, Send and Push.           *)
LEMMA AppendNew ==
  ASSUME NEW S, NEW s \in Seq(S), NEW e \in S
  PROVE  /\ Append(s, e) \in Seq(S) /\ Len(Append(s, e)) = Len(s) + 1
         /\ Range(Append(s, e)) = Range(s) \cup {e}
         /\ IsInjective(s) /\ e \notin Range(s) => IsInjective(Append(s, e))
<1> DEFINE t == Append(s, e)
<1>1. /\ t \in Seq(S) /\ Len(t) = Len(s) + 1 /\ DOMAIN t = 1 .. Len(s) + 1
      /\ DOMAIN s = 1 .. Len(s) /\ Len(s) \in Nat
  OBVIOUS
<1>2. /\ \A i \in 1 .. Len(s) : t[i] = s[i]
      /\ t[Len(s) + 1] = e
  OBVIOUS
<1> HIDE DEF t
<1>3. Range(t) = Range(s) \cup {e}
  BY <1>1, <1>2 DEF Range
<1>4. IsInjective(s) /\ e \notin Range(s) => IsInjective(t)
  BY <1>1, <1>2 DEF Range, IsInjective
<1> QED  BY Zenon, <1>1, <1>3, <1>4 DEF t

(* Taking one out of a batch, wherever it is: what the shuffle does.       *)
LEMMA RemoveOne ==
  ASSUME NEW S, NEW s \in Seq(S), NEW i \in DOMAIN s
  PROVE  /\ Without(s, i) \in Seq(S) /\ Len(Without(s, i)) = Len(s) - 1
         /\ IsInjective(s) => /\ Range(Without(s, i)) = Range(s) \ {s[i]}
                              /\ IsInjective(Without(s, i))
<1> DEFINE t == Without(s, i)
           u == SubSeq(s, 1, i - 1)
           v == SubSeq(s, i + 1, Len(s))
<1>1. i \in 1 .. Len(s) /\ Len(s) \in Nat /\ DOMAIN s = 1 .. Len(s)
  OBVIOUS
<1>2. /\ u \in Seq(S) /\ Len(u) = i - 1
      /\ \A j \in 1 .. i - 1 : u[j] = s[j]
  BY <1>1
<1>3. /\ v \in Seq(S) /\ Len(v) = Len(s) - i
      /\ \A j \in 1 .. Len(s) - i : v[j] = s[j + i]
  BY <1>1
<1>4. t = u \o v
  BY Zenon DEF Without
<1> HIDE DEF t, u, v
<1>5. /\ t \in Seq(S) /\ Len(t) = Len(s) - 1 /\ DOMAIN t = 1 .. Len(s) - 1
      /\ \A j \in 1 .. Len(s) - 1 : t[j] = IF j < i THEN s[j] ELSE s[j + 1]
  <2>1. t \in Seq(S) /\ Len(t) = Len(s) - 1 /\ DOMAIN t = 1 .. Len(s) - 1
    <3> u \in Seq(S) /\ v \in Seq(S)  BY Zenon, <1>2, <1>3
    <3>1. t \in Seq(S) /\ Len(t) = Len(u) + Len(v)
      BY <1>4
    <3>2. Len(t) = Len(s) - 1
      BY <3>1, <1>1, <1>2, <1>3
    <3>3. DOMAIN t = 1 .. Len(t)
      BY <3>1
    <3> QED  BY Zenon, <3>1, <3>2, <3>3
  <2>2. ASSUME NEW j \in 1 .. Len(s) - 1
        PROVE  t[j] = IF j < i THEN s[j] ELSE s[j + 1]
    <3>1. CASE j < i
      <4>1. t[j] = u[j]  BY <3>1, <1>1, <1>2, <1>3, <1>4
      <4> QED  BY <4>1, <3>1, <1>1, <1>2
    <3>2. CASE ~(j < i)
      <4>1. t[j] = v[j - (i - 1)]
        <5> u \in Seq(S) /\ v \in Seq(S)  BY Zenon, <1>2, <1>3
        <5>1. j \in 1 .. Len(u) + Len(v) /\ ~(j <= Len(u))  BY <3>2, <1>1, <1>2, <1>3
        <5>2. t[j] = v[j - Len(u)]  BY <1>4, <5>1
        <5> QED  BY Zenon, <1>2, <5>2
      <4>2. j - (i - 1) \in 1 .. Len(s) - i /\ (j - (i - 1)) + i = j + 1
        BY <3>2, <1>1
      <4> QED  BY Zenon, <4>1, <4>2, <3>2, <1>3
    <3> QED  BY Zenon, <3>1, <3>2
  <2> QED  BY Zenon, <2>1, <2>2
<1>6. ASSUME IsInjective(s)
      PROVE  Range(t) = Range(s) \ {s[i]} /\ IsInjective(t)
  <2>1. \A j, k \in 1 .. Len(s) : s[j] = s[k] => j = k
    BY Zenon, <1>6, <1>1 DEF IsInjective
  <2>2. ASSUME NEW j \in 1 .. Len(s) - 1
        PROVE  t[j] \in Range(s) \ {s[i]}
    BY <2>1, <1>1, <1>5 DEF Range
  <2>3. ASSUME NEW k \in 1 .. Len(s), k # i
        PROVE  s[k] \in Range(t)
    <3>1. CASE k < i
      BY <3>1, <1>1, <1>5 DEF Range
    <3>2. CASE k > i
      <4>1. k - 1 \in 1 .. Len(s) - 1 /\ ~(k - 1 < i) /\ (k - 1) + 1 = k
        BY <3>2, <1>1
      <4>2. t[k - 1] = s[k]  BY Zenon, <4>1, <1>5
      <4> QED  BY Zenon, <4>1, <4>2, <1>5 DEF Range
    <3> QED  BY <3>1, <3>2, <2>3, <1>1
  <2>4. Range(t) = Range(s) \ {s[i]}
    BY Zenon, <2>2, <2>3, <1>1, <1>5 DEF Range
  <2>5. IsInjective(t)
    <3> SUFFICES ASSUME NEW j \in 1 .. Len(s) - 1, NEW k \in 1 .. Len(s) - 1,
                        t[j] = t[k]
                 PROVE  j = k
      BY Zenon, <1>5 DEF IsInjective
    <3>1. /\ j < i => t[j] = s[j]
          /\ ~(j < i) => t[j] = s[j + 1]
          /\ k < i => t[k] = s[k]
          /\ ~(k < i) => t[k] = s[k + 1]
      BY Zenon, <1>5
    <3> j \in 1 .. Len(s) /\ k \in 1 .. Len(s)
        /\ j + 1 \in 1 .. Len(s) /\ k + 1 \in 1 .. Len(s)
        /\ j \in Int /\ k \in Int
      BY <1>1
    <3>2. CASE j < i /\ k < i
      BY Zenon, <3>1, <3>2, <2>1, <1>1
    <3>3. CASE j < i /\ ~(k < i)
      <4>1. s[j] = s[k + 1]  BY Zenon, <3>1, <3>3
      <4> QED  BY <4>1, <3>3, <2>1, <1>1
    <3>4. CASE ~(j < i) /\ k < i
      <4>1. s[j + 1] = s[k]  BY Zenon, <3>1, <3>4
      <4> QED  BY <4>1, <3>4, <2>1, <1>1
    <3>5. CASE ~(j < i) /\ ~(k < i)
      <4>1. s[j + 1] = s[k + 1]  BY Zenon, <3>1, <3>5
      <4>2. j + 1 = k + 1  BY Zenon, <4>1, <2>1
      <4> QED  BY <4>2, <1>1
    <3> QED  BY Zenon, <3>2, <3>3, <3>4, <3>5
  <2> QED  BY Zenon, <2>4, <2>5
<1> QED  BY Zenon, <1>5, <1>6 DEF t

(* Receiving the first of a channel: Take, Pops.                           *)
LEMMA TakeFirst ==
  ASSUME NEW S, NEW s \in Seq(S), s # <<>>
  PROVE  /\ Tail(s) \in Seq(S) /\ Len(Tail(s)) = Len(s) - 1 /\ Len(s) \in Nat
         /\ Head(s) \in S /\ Head(s) \in Range(s)
         /\ Range(Tail(s)) \subseteq Range(s)
         /\ Range(s) \subseteq Range(Tail(s)) \cup {Head(s)}
         /\ IsInjective(s) => /\ IsInjective(Tail(s))
                              /\ Range(Tail(s)) = Range(s) \ {Head(s)}
<1> DEFINE t == Tail(s)
           n == Len(s)
<1>1. /\ n \in Nat /\ n >= 1 /\ DOMAIN s = 1 .. n /\ s \in [1 .. n -> S]
      /\ Head(s) = s[1]
  OBVIOUS
<1>2. /\ t \in Seq(S) /\ Len(t) = n - 1 /\ DOMAIN t = 1 .. n - 1
      /\ \A i \in 1 .. n - 1 : t[i] = s[i + 1]
  OBVIOUS
<1> HIDE DEF t, n
<1>3. Head(s) \in S /\ Head(s) \in Range(s)
  BY <1>1 DEF Range
<1>4. Range(t) \subseteq Range(s)
  <2> SUFFICES ASSUME NEW i \in 1 .. n - 1  PROVE t[i] \in Range(s)
    BY Zenon, <1>2 DEF Range
  <2>1. i + 1 \in 1 .. n  BY <1>1
  <2> QED  BY Zenon, <2>1, <1>1, <1>2 DEF Range
<1>5. Range(s) \subseteq Range(t) \cup {Head(s)}
  <2> SUFFICES ASSUME NEW i \in 1 .. n, i # 1  PROVE s[i] \in Range(t)
    BY Zenon, <1>1 DEF Range
  <2>1. i - 1 \in 1 .. n - 1 /\ (i - 1) + 1 = i  BY <1>1
  <2>2. t[i - 1] = s[i]  BY Zenon, <2>1, <1>2
  <2> QED  BY Zenon, <2>1, <2>2, <1>2 DEF Range
<1>6. ASSUME IsInjective(s)  PROVE IsInjective(t) /\ Head(s) \notin Range(t)
  <2>1. \A i, j \in 1 .. n : s[i] = s[j] => i = j
    BY Zenon, <1>1, <1>6 DEF IsInjective
  <2>2. \A i \in 1 .. n - 1 : i + 1 \in 1 .. n /\ i + 1 # 1 /\ i \in Int
    BY <1>1
  <2>3. IsInjective(t)
    <3> SUFFICES ASSUME NEW i \in 1 .. n - 1, NEW j \in 1 .. n - 1, t[i] = t[j]
                 PROVE  i = j
      BY Zenon, <1>2 DEF IsInjective
    <3>1. i + 1 = j + 1  BY Zenon, <1>2, <2>1, <2>2
    <3> QED  BY <3>1, <2>2
  <2>4. ASSUME NEW i \in 1 .. n - 1  PROVE t[i] # Head(s)
    <3>1. 1 \in 1 .. n  BY <1>1
    <3> QED  BY <1>1, <1>2, <2>1, <2>2, <3>1
  <2> QED  BY Zenon, <1>2, <2>3, <2>4 DEF Range
<1>7. IsInjective(s) => Range(t) = Range(s) \ {Head(s)}
  BY Zenon, <1>4, <1>5, <1>6
<1> QED  BY Zenon, <1>1, <1>2, <1>3, <1>4, <1>5, <1>6, <1>7 DEF t, n

(* One step along a walk that names nothing twice.                         *)
LEMMA OneOn ==
  ASSUME NEW S, NEW s \in Seq(S), IsInjective(s), NEW k \in 1 .. Len(s)
  PROVE  /\ s[k] \in S /\ s[k] \in From(s, k)
         /\ From(s, k + 1) = From(s, k) \ {s[k]}
<1>1. \A i, j \in 1 .. Len(s) : s[i] = s[j] => i = j
  BY DEF IsInjective
<1>2. Len(s) \in Nat /\ s[k] \in S
  OBVIOUS
<1>3. k \in k .. Len(s) /\ k + 1 .. Len(s) = (k .. Len(s)) \ {k}
      /\ k .. Len(s) \subseteq 1 .. Len(s)
  BY <1>2
<1>4. From(s, k + 1) = From(s, k) \ {s[k]}
  <2>1. ASSUME NEW x \in From(s, k + 1)  PROVE x \in From(s, k) \ {s[k]}
    <3>1. PICK i \in k + 1 .. Len(s) : x = s[i]  BY Zenon, <2>1 DEF From
    <3>2. i \in k .. Len(s) /\ i # k /\ i \in 1 .. Len(s)  BY Zenon, <1>2, <1>3, <3>1
    <3> QED  BY Zenon, <1>1, <3>1, <3>2 DEF From
  <2>2. ASSUME NEW x \in From(s, k) \ {s[k]}  PROVE x \in From(s, k + 1)
    <3>1. PICK i \in k .. Len(s) : x = s[i]  BY Zenon, <2>2 DEF From
    <3>2. i \in k + 1 .. Len(s)  BY Zenon, <1>3, <3>1, <2>2
    <3> QED  BY Zenon, <3>1, <3>2 DEF From
  <2> QED  BY Zenon, <2>1, <2>2
<1> QED  BY Zenon, <1>2, <1>3, <1>4 DEF From

(* A seed's permutation names every target, so none twice.                 *)
LEMMA WalksOnce ==
  ASSUME NEW w \in Walks
  PROVE  IsInjective(w) /\ w \in Seq(Positions) /\ DOMAIN w = Positions
<1>1. /\ w \in Seq(Positions) /\ Len(w) = Total /\ Range(w) = Positions
      /\ Total \in Nat
  BY Zenon, PlanAssumption
<1>2. DOMAIN w = Positions /\ w \in [Positions -> Positions]
  BY <1>1 DEF Positions
<1>3. \A t \in Positions : \E s \in Positions : w[s] = t
  BY Zenon, <1>1, <1>2 DEF Range
<1>4. w \in Surjection(Positions, Positions)
  BY Zenon, <1>2, <1>3 DEF Surjection, Range
<1>5. IsFiniteSet(Positions)
  BY <1>1, FS_Interval DEF Positions
<1>6. w \in Injection(Positions, Positions)
  BY Zenon, <1>4, <1>5, FS_SurjSameCardinalityImpliesInj
<1> QED  BY Zenon, <1>1, <1>2, <1>6 DEF Injection, IsInjective

(* Resumed past its first n targets, a permutation still names each of the *)
(* others, once.                                                           *)
LEMMA ResumedWalk ==
  ASSUME NEW w \in Walks, NEW n \in 0 .. Total
  PROVE  LET s == SubSeq(w, n + 1, Total)
             over == Range(SubSeq(w, 1, n))
         IN  /\ s \in Seq(Positions) /\ IsInjective(s)
             /\ over \subseteq Positions
             /\ Positions \ over \subseteq From(s, 1)
<1> DEFINE s == SubSeq(w, n + 1, Total)
           u == SubSeq(w, 1, n)
<1>1. /\ w \in Seq(Positions) /\ Len(w) = Total /\ Range(w) = Positions
      /\ Total \in Nat /\ n \in Nat /\ n <= Total
  BY PlanAssumption
<1>2. \A i, j \in 1 .. Total : w[i] = w[j] => i = j
  BY Zenon, WalksOnce DEF IsInjective, Positions
<1>3. /\ s \in Seq(Positions) /\ Len(s) = Total - n /\ DOMAIN s = 1 .. Total - n
      /\ \A i \in 1 .. Total - n : s[i] = w[i + n]
  BY <1>1
<1>4. /\ u \in Seq(Positions) /\ Len(u) = n /\ DOMAIN u = 1 .. n
      /\ \A i \in 1 .. n : u[i] = w[i]
  BY <1>1
<1> HIDE DEF s, u
<1>5. IsInjective(s)
  <2> SUFFICES ASSUME NEW i \in 1 .. Total - n, NEW j \in 1 .. Total - n, s[i] = s[j]
               PROVE  i = j
    BY Zenon, <1>3 DEF IsInjective
  <2>1. i + n \in 1 .. Total /\ j + n \in 1 .. Total  BY <1>1
  <2>2. w[i + n] = w[j + n]  BY Zenon, <1>3
  <2>3. i + n = j + n  BY Zenon, <2>1, <2>2, <1>2
  <2> QED  BY <2>3, <1>1
<1>6. Range(u) \subseteq Positions
  BY <1>4 DEF Range
<1>7. ASSUME NEW p \in Positions, p \notin Range(u)
      PROVE  p \in From(s, 1)
  <2>1. PICK i \in DOMAIN w : p = w[i]  BY Zenon, <1>1, <1>7 DEF Range
  <2>2. i \in 1 .. Total  BY <1>1, <2>1
  <2>3. ~(i \in 1 .. n)  BY Zenon, <1>4, <1>7, <2>1 DEF Range
  <2>4. i - n \in 1 .. Total - n /\ (i - n) + n = i  BY <1>1, <2>2, <2>3
  <2>5. s[i - n] = p  BY Zenon, <1>3, <2>1, <2>4
  <2> QED  BY Zenon, <2>4, <2>5, <1>3 DEF From
<1> QED  BY Zenon, <1>3, <1>5, <1>6, <1>7 DEF s, u

LEMMA InPlanOrder ==
  /\ PlanOrder \in Seq(Positions) /\ IsInjective(PlanOrder)
  /\ Positions \subseteq From(PlanOrder, 1)
<1>1. Total \in Nat  BY Zenon, PlanAssumption
<1>2. PlanOrder \in Seq(Positions) /\ Len(PlanOrder) = Total
  BY <1>1 DEF PlanOrder, Positions
<1>3. IsInjective(PlanOrder)
  BY Zenon DEF PlanOrder, IsInjective
<1>4. Positions \subseteq From(PlanOrder, 1)
  BY Zenon, <1>1, <1>2 DEF PlanOrder, From, Positions
<1> QED  BY Zenon, <1>2, <1>3, <1>4
----------------------------------------------------------------------------
(* The walk                                                                *)

\* What the walk has yet to dispose of: ahead of it, or in its batch.
Left == From(stream, at) \cup Range(batch)

\* Owed targets it passed over.
PassedBy == Owed \ (Left \cup Range(emitted))

(* Every target is in one place: ahead, in the batch or emitted.           *)
Apart ==
  /\ IsInjective(stream) /\ IsInjective(batch) /\ IsInjective(emitted)
  /\ Range(batch) \cap From(stream, at) = {}
  /\ Range(emitted) \cap Left = {}
  /\ Range(batch) \cup Range(emitted) \subseteq live \ earlier
  /\ Range(chan) \subseteq Range(emitted)

Staged ==
  /\ wpc \in {"look", "place"} => Len(batch) < BatchSize
  /\ wpc = "place" => at <= Len(stream)

(* While it runs, the walk's two counts are those of the targets it has    *)
(* disposed of and of those it passed over undecided.  A target passed     *)
(* over may be filed unroutable after it was counted, so the second is     *)
(* only bounded by what is settled now.                                    *)
Counted ==
  /\ accounted = Cardinality(Owed \ Left)
  /\ Cardinality(PassedBy \ settled) <= unreached
  /\ unreached <= Cardinality(PassedBy \ (settled \ unroutable))
  /\ Owed \cap Left \cap settled \subseteq unroutable
  /\ (PassedBy \ settled) \cap (live \cup silent) = {}

(* Once it has ended, of everything it did not emit.                       *)
Closed ==
  /\ Cardinality(Unaccounted) <= unreached
  /\ unreached <= Cardinality(Owed \ (Range(emitted) \cup (settled \ unroutable)))
  /\ stop \/ ~listening \/ Unaccounted \cap (live \cup silent) = {}

WalkInv ==
  /\ TypeOK /\ Apart /\ Staged
  /\ wpc # "ended" => Counted
  /\ wpc = "ended" => Closed

(* Counting targets of the plan.                                           *)
LEMMA PlanCounts ==
  ASSUME NEW S \in SUBSET Positions
  PROVE  /\ IsFiniteSet(S) /\ Cardinality(S) \in 0 .. Total
         /\ \A T \in SUBSET S : Cardinality(T) <= Cardinality(S)
         /\ \A T \in SUBSET S :
              Cardinality(S \ T) = Cardinality(S) - Cardinality(T)
         /\ \A p \in Positions \ S : Cardinality(S \cup {p}) = Cardinality(S) + 1
         /\ \A T \in SUBSET Positions :
              S \cap T = {} => Cardinality(S \cup T) = Cardinality(S) + Cardinality(T)
<1>1. IsFiniteSet(Positions) /\ Cardinality(Positions) = Total /\ Total \in Nat
  <2>1. Total \in Nat  BY Zenon, PlanAssumption
  <2> QED  BY <2>1, FS_Interval DEF Positions
<1>2. \A T \in SUBSET Positions :
        IsFiniteSet(T) /\ Cardinality(T) \in Nat /\ Cardinality(T) <= Total
  BY Zenon, <1>1, FS_Subset, FS_CardinalityType
<1>3. \A T \in SUBSET S : Cardinality(T) <= Cardinality(S)
  BY Zenon, <1>2, FS_Subset
<1>4. ASSUME NEW p \in Positions \ S
      PROVE  Cardinality(S \cup {p}) = Cardinality(S) + 1
  BY Zenon, <1>2, FS_AddElement
<1>5. ASSUME NEW T \in SUBSET Positions, NEW R \in SUBSET Positions, R \cap T = {}
      PROVE  Cardinality(R \cup T) = Cardinality(R) + Cardinality(T)
  <2>1. Cardinality(R \cup T) =
          Cardinality(R) + Cardinality(T) - Cardinality(R \cap T)
    BY Zenon, <1>2, FS_Union
  <2>2. Cardinality(R \cap T) = 0  BY Zenon, <1>5, FS_EmptySet
  <2>3. Cardinality(R) \in Nat /\ Cardinality(T) \in Nat  BY Zenon, <1>2
  <2> QED  BY <2>1, <2>2, <2>3
<1>6. ASSUME NEW T \in SUBSET S
      PROVE  Cardinality(S \ T) = Cardinality(S) - Cardinality(T)
  <2>1. S = (S \ T) \cup T /\ (S \ T) \cap T = {}  BY Zenon, <1>6
  <2>2. Cardinality(S) = Cardinality(S \ T) + Cardinality(T)
    <3> (S \ T) \in SUBSET Positions /\ T \in SUBSET Positions  BY Zenon, <1>6
    <3> QED  BY Zenon, <2>1, <1>5
  <2>3. Cardinality(S \ T) \in Nat /\ Cardinality(T) \in Nat  BY Zenon, <1>2, <1>6
  <2> QED  BY <2>2, <2>3
<1> QED  BY <1>1, <1>2, <1>3, <1>4, <1>5, <1>6

LEMMA WalkInit == Init => WalkInv
<1> SUFFICES ASSUME Init PROVE WalkInv  OBVIOUS
<1>1. Total \in Nat /\ BatchSize \in Nat \ {0}  BY Zenon, PlanAssumption
<1>2. /\ stream \in Seq(Positions) /\ IsInjective(stream) /\ shuffled \in BOOLEAN
      /\ earlier \subseteq Positions /\ Owed \subseteq From(stream, 1)
  <2>1. PICK s \in Streams, hold \in SUBSET Positions :
          \/ stream = s.walk /\ shuffled = FALSE /\ earlier = s.over \cup hold
          \/ stream = PlanOrder /\ shuffled = TRUE /\ earlier = hold
    BY Zenon DEF Init
  <2>2. PICK w \in Walks, n \in 0 .. Total :
          s = [walk |-> SubSeq(w, n + 1, Total), over |-> Range(SubSeq(w, 1, n))]
    BY DEF Streams
  <2>3. s.walk = SubSeq(w, n + 1, Total) /\ s.over = Range(SubSeq(w, 1, n))
    BY Zenon, <2>2
  <2>4. CASE stream = s.walk /\ shuffled = FALSE /\ earlier = s.over \cup hold
    BY Zenon, <2>3, <2>4, ResumedWalk DEF Owed
  <2>5. CASE stream = PlanOrder /\ shuffled = TRUE /\ earlier = hold
    BY Zenon, <2>5, InPlanOrder DEF Owed
  <2> QED  BY Zenon, <2>1, <2>4, <2>5
<1>3. /\ live \subseteq Positions /\ silent \subseteq Positions
      /\ barred = {} /\ settled = earlier /\ unroutable = {}
      /\ wpc = "look" /\ at = 1 /\ batch = <<>> /\ accounted = 0 /\ unreached = 0
      /\ emitted = <<>> /\ chan = <<>> /\ listening = TRUE /\ stop \in BOOLEAN
  BY Zenon DEF Init
<1>4. Range(<<>>) = {} /\ IsInjective(<<>>) /\ Len(<<>>) = 0 /\ <<>> \in Seq(Positions)
  BY DEF Range, IsInjective
<1>5. Len(stream) \in Nat  BY <1>2
<1>6. TypeOK
  BY <1>1, <1>2, <1>3, <1>4, <1>5 DEF TypeOK
<1>7. Apart /\ Staged
  BY <1>1, <1>2, <1>3, <1>4 DEF Apart, Staged, Left
<1>8. Owed \ Left = {} /\ PassedBy = {}
  BY Zenon, <1>2, <1>3, <1>4 DEF Left, PassedBy
<1>9. Counted
  <2>1. Cardinality({}) = 0  BY Zenon, FS_EmptySet
  <2>2. Owed \cap settled = {}  BY Zenon, <1>3 DEF Owed
  <2>3. PassedBy \ settled = {} /\ PassedBy \ (settled \ unroutable) = {}  BY Zenon, <1>8
  <2>4. /\ accounted = Cardinality(Owed \ Left)
        /\ Cardinality(PassedBy \ settled) <= unreached
        /\ unreached <= Cardinality(PassedBy \ (settled \ unroutable))
    <3>1. /\ Cardinality(Owed \ Left) = 0 /\ Cardinality(PassedBy \ settled) = 0
          /\ Cardinality(PassedBy \ (settled \ unroutable)) = 0
      BY <1>8, <2>1, <2>3, Zenon
    <3> QED  BY <1>3, <3>1
  <2> QED  BY Zenon, <2>2, <2>3, <2>4 DEF Counted
<1> QED  BY Zenon, <1>3, <1>6, <1>7, <1>9 DEF WalkInv

(* What goes on beside the walk: it may settle a target only as unroutable *)
(* or once emitted, and a stop or a hang-up is for good.                   *)
LEMMA AsideStep ==
  ASSUME WalkInv, UNCHANGED walk, barred' \subseteq Positions,
         settled \subseteq settled', settled' \subseteq Positions,
         unroutable' \subseteq settled',
         settled' \ unroutable' \subseteq (settled \ unroutable) \cup Range(emitted),
         chan' \in Seq(Positions), Len(chan') <= 2 * BatchSize,
         Range(chan') \subseteq Range(emitted),
         listening' \in BOOLEAN, stop' \in BOOLEAN,
         listening' => listening, stop => stop'
  PROVE  WalkInv'
<1>1. /\ stream' = stream /\ shuffled' = shuffled /\ earlier' = earlier
      /\ live' = live /\ silent' = silent /\ wpc' = wpc /\ at' = at
      /\ batch' = batch /\ accounted' = accounted /\ unreached' = unreached
      /\ emitted' = emitted
  BY Zenon DEF walk, plan, counts
<1>2. TypeOK /\ Apart /\ Staged  BY Zenon DEF WalkInv
<1>3. TypeOK'  BY Zenon, <1>1, <1>2 DEF TypeOK
<1>4. Left' = Left /\ PassedBy' = PassedBy /\ Owed' = Owed
  BY Zenon, <1>1 DEF Left, PassedBy, Owed
<1>5. Apart' /\ Staged'  BY Zenon, <1>1, <1>2, <1>4 DEF Apart, Staged
<1>6. Owed \subseteq Positions /\ PassedBy \subseteq Owed
  BY Zenon DEF Owed, PassedBy
<1>7. ASSUME wpc # "ended"  PROVE Counted'
  <2>1. Counted  BY Zenon, <1>7 DEF WalkInv
  <2>2. PassedBy \cap Range(emitted) = {} /\ Left \cap Range(emitted) = {}
    BY Zenon, <1>2 DEF PassedBy, Apart
  <2>3. /\ PassedBy \ settled' \subseteq PassedBy \ settled
        /\ PassedBy \ (settled \ unroutable) \subseteq PassedBy \ (settled' \ unroutable')
        /\ Owed \cap Left \cap settled' \subseteq unroutable'
    BY Zenon, <2>1, <2>2 DEF Counted
  <2>4. /\ Cardinality(PassedBy \ settled') <= Cardinality(PassedBy \ settled)
        /\ Cardinality(PassedBy \ (settled \ unroutable))
             <= Cardinality(PassedBy \ (settled' \ unroutable'))
    <3>1. PassedBy \ settled \in SUBSET Positions
          /\ PassedBy \ (settled' \ unroutable') \in SUBSET Positions
      BY Zenon, <1>6
    <3> QED  BY Zenon, <2>3, <3>1, PlanCounts
  <2>5. /\ Cardinality(PassedBy \ settled') \in Int
        /\ Cardinality(PassedBy \ settled) \in Int
        /\ Cardinality(PassedBy \ (settled \ unroutable)) \in Int
        /\ Cardinality(PassedBy \ (settled' \ unroutable')) \in Int
    BY <1>6, PlanCounts
  <2>6. /\ Cardinality(PassedBy \ settled') <= unreached
        /\ unreached <= Cardinality(PassedBy \ (settled' \ unroutable'))
    <3>1. unreached \in Int  BY <1>2 DEF TypeOK
    <3>2. /\ Cardinality(PassedBy \ settled) <= unreached
          /\ unreached <= Cardinality(PassedBy \ (settled \ unroutable))
      BY Zenon, <2>1 DEF Counted
    <3> QED  BY <2>4, <2>5, <3>1, <3>2
  <2>7. (PassedBy \ settled') \cap (live \cup silent) = {}
    BY Zenon, <2>1, <2>3 DEF Counted
  <2>8. accounted = Cardinality(Owed \ Left)  BY Zenon, <2>1 DEF Counted
  <2> QED  BY Zenon, <1>1, <1>4, <2>3, <2>6, <2>7, <2>8 DEF Counted
<1>8. ASSUME wpc = "ended"  PROVE Closed'
  <2>1. Closed  BY Zenon, <1>8 DEF WalkInv
  <2> DEFINE E == Range(emitted)
             U == Owed \ (E \cup settled)
             V == Owed \ (E \cup settled')
             X == Owed \ (E \cup (settled \ unroutable))
             Y == Owed \ (E \cup (settled' \ unroutable'))
  <2>2. U \subseteq Positions /\ V \subseteq U /\ Y \subseteq Positions /\ X \subseteq Y
        /\ X \subseteq Positions /\ V \subseteq Positions
    BY Zenon, <1>6
  <2>3. Unaccounted = U /\ Unaccounted' = V
    BY Zenon, <1>1, <1>4 DEF Unaccounted
  <2>4. /\ Cardinality(U) <= unreached /\ unreached <= Cardinality(X)
        /\ stop \/ ~listening \/ U \cap (live \cup silent) = {}
    BY Zenon, <2>1, <2>3 DEF Closed
  <2> HIDE DEF U, V, X, Y
  <2>5. /\ Cardinality(V) <= Cardinality(U) /\ Cardinality(X) <= Cardinality(Y)
        /\ Cardinality(U) \in Int /\ Cardinality(V) \in Int
        /\ Cardinality(X) \in Int /\ Cardinality(Y) \in Int
    BY <2>2, PlanCounts
  <2>6. unreached \in Int  BY <1>2 DEF TypeOK
  <2>7. Cardinality(V) <= unreached /\ unreached <= Cardinality(Y)
    BY <2>4, <2>5, <2>6
  <2>8. stop' \/ ~listening' \/ V \cap (live \cup silent) = {}
    BY Zenon, <2>2, <2>4
  <2>9. Y = (Owed \ (Range(emitted) \cup (settled \ unroutable)))'
    BY Zenon, <1>1, <1>4 DEF Y
  <2> QED  BY Zenon, <1>1, <2>3, <2>7, <2>8, <2>9 DEF Closed
<1> QED  BY Zenon, <1>1, <1>3, <1>5, <1>7, <1>8 DEF WalkInv

(* A walk that stops short: what is left is all counted, so whatever it    *)
(* did not emit is counted once.                                           *)
LEMMA StopsShort ==
  ASSUME WalkInv, wpc # "ended", stop \/ ~listening, StoppedShort,
         UNCHANGED <<plan, barred, at, settled, unroutable, emitted, chan,
                     listening, stop>>
  PROVE  WalkInv'
<1>1. /\ stream' = stream /\ shuffled' = shuffled /\ earlier' = earlier
      /\ live' = live /\ silent' = silent /\ barred' = barred /\ at' = at
      /\ settled' = settled /\ unroutable' = unroutable /\ emitted' = emitted
      /\ chan' = chan /\ listening' = listening /\ stop' = stop
      /\ accounted' = accounted /\ wpc' = "ended" /\ batch' = <<>>
      /\ unreached' = unreached + (Cardinality(Owed) - accounted)
  BY Zenon DEF plan, StoppedShort
<1>2. TypeOK /\ Apart /\ Staged /\ Counted  BY Zenon DEF WalkInv
<1>3. Range(<<>>) = {} /\ IsInjective(<<>>) /\ Len(<<>>) = 0 /\ <<>> \in Seq(Positions)
  BY DEF Range, IsInjective
<1>4. Owed' = Owed /\ Left' \subseteq Left /\ Owed \subseteq Positions
      /\ Left \cap Range(emitted) = {}
  BY Zenon, <1>1, <1>2, <1>3 DEF Owed, Left, Apart
<1>5. Apart'
  BY Zenon, <1>1, <1>2, <1>3, <1>4 DEF Apart
<1>6. Staged'
  BY Zenon, <1>1 DEF Staged
<1> DEFINE L == Owed \cap Left
           U == Owed \ (Range(emitted) \cup settled)
           X == Owed \ (Range(emitted) \cup (settled \ unroutable))
           F == PassedBy \ settled
           G == PassedBy \ (settled \ unroutable)
<1>7. /\ F \in SUBSET Positions /\ G \in SUBSET Positions /\ L \in SUBSET Positions
      /\ U \subseteq F \cup L /\ X = G \cup L /\ G \cap L = {} /\ F \cap L = {}
      /\ Owed \ (Owed \ Left) = L
  <2>1. L \cap settled \subseteq unroutable  BY Zenon, <1>2 DEF Counted
  <2> QED  BY Zenon, <2>1, <1>4 DEF PassedBy
<1>8. Cardinality(L) = Cardinality(Owed) - accounted
  <2>1. Cardinality(Owed \ (Owed \ Left)) = Cardinality(Owed) - Cardinality(Owed \ Left)
    BY Zenon, <1>4, PlanCounts
  <2> QED  BY Zenon, <2>1, <1>2, <1>7 DEF Counted
<1>9. /\ Cardinality(F) <= unreached /\ unreached <= Cardinality(G)
  BY Zenon, <1>2 DEF Counted
<1>10. Unaccounted' = U
       /\ (Owed \ (Range(emitted) \cup (settled \ unroutable)))' = X
  BY Zenon, <1>1, <1>4 DEF Unaccounted
<1> HIDE DEF L, U, X, F, G
<1>11. /\ Cardinality(U) <= Cardinality(F) + Cardinality(L)
       /\ Cardinality(X) = Cardinality(G) + Cardinality(L)
       /\ Cardinality(F) \in Int /\ Cardinality(L) \in Int /\ Cardinality(G) \in Int
       /\ Cardinality(U) \in Nat /\ Cardinality(X) \in 0 .. Total
  <2>1. (F \cup L) \in SUBSET Positions /\ U \in SUBSET Positions
        /\ X \in SUBSET Positions
    BY Zenon, <1>7
  <2>2. Cardinality(F \cup L) = Cardinality(F) + Cardinality(L)  BY Zenon, <1>7, PlanCounts
  <2>3. Cardinality(X) = Cardinality(G) + Cardinality(L)  BY Zenon, <1>7, PlanCounts
  <2>4. Cardinality(U) <= Cardinality(F \cup L)  BY Zenon, <1>7, <2>1, PlanCounts
  <2> QED  BY <2>1, <2>2, <2>3, <2>4, <1>7, PlanCounts
<1>12. unreached \in Int  BY <1>2 DEF TypeOK
<1>13. Cardinality(U) <= unreached' /\ unreached' <= Cardinality(X)
  BY <1>1, <1>8, <1>9, <1>11, <1>12
<1>14. Closed'
  <2>1. stop' \/ ~listening'  BY <1>1
  <2>2. /\ Cardinality(Unaccounted') <= unreached'
        /\ unreached' <= Cardinality((Owed \ (Range(emitted) \cup (settled \ unroutable)))')
    BY <1>10, <1>13, Zenon
  <2> QED  BY <2>1, <2>2, Zenon DEF Closed
<1>15. unreached' \in 0 .. Total
  <2>1. unreached' = unreached + Cardinality(L)  BY Zenon, <1>1, <1>8
  <2>2. unreached' \in Int /\ Total \in Nat  BY <2>1, <1>11, <1>12, PlanAssumption
  <2> QED  BY <2>2, <1>11, <1>13
<1>16. TypeOK'
  <2>1. Len(batch') <= BatchSize  BY <1>1, <1>3, PlanAssumption
  <2> QED  BY Zenon, <1>1, <1>2, <1>3, <1>15, <2>1 DEF TypeOK
<1> QED  BY Zenon, <1>1, <1>5, <1>6, <1>14, <1>16 DEF WalkInv

(* One target on, in no batch: the sets every such step changes alike.     *)
LEMMA PassSets ==
  ASSUME WalkInv, Passed
  PROVE  /\ Planned \in Positions /\ Planned \in Left
         /\ Planned \notin Range(batch) /\ Planned \notin Range(emitted)
         /\ Left' = Left \ {Planned} /\ Owed' = Owed
         /\ at' \in 1 .. Len(stream) + 1 /\ Apart' /\ Staged'
<1>1. /\ stream' = stream /\ shuffled' = shuffled /\ earlier' = earlier
      /\ live' = live /\ silent' = silent /\ barred' = barred /\ at' = at + 1
      /\ unroutable' = unroutable /\ emitted' = emitted /\ batch' = batch
      /\ chan' = chan /\ listening' = listening /\ stop' = stop
      /\ wpc = "place" /\ wpc' = "look"
  BY Zenon DEF plan, Passed
<1>2. TypeOK /\ Apart /\ Staged  BY Zenon DEF WalkInv
<1>3. stream \in Seq(Positions) /\ IsInjective(stream) /\ at \in 1 .. Len(stream)
  BY <1>1, <1>2 DEF TypeOK, Apart, Staged
<1>4. /\ Planned \in Positions /\ Planned \in From(stream, at)
      /\ From(stream, at + 1) = From(stream, at) \ {Planned}
  BY Zenon, <1>3, OneOn DEF Planned
<1>5. Planned \notin Range(batch) /\ Planned \notin Range(emitted)
  BY Zenon, <1>2, <1>4 DEF Apart, Left
<1>6. Left' = Left \ {Planned} /\ Owed' = Owed
  BY Zenon, <1>1, <1>4, <1>5 DEF Left, Owed
<1>7. at' \in 1 .. Len(stream) + 1
  BY <1>1, <1>3
<1>8. Apart'
  BY Zenon, <1>1, <1>2, <1>4, <1>6 DEF Apart
<1>9. Staged'
  BY Zenon, <1>1, <1>2 DEF Staged
<1> QED  BY Zenon, <1>4, <1>5, <1>6, <1>7, <1>8, <1>9 DEF Left

LEMMA PassSettledStep ==
  ASSUME WalkInv, PassSettled
  PROVE  WalkInv'
<1>0. Passed  BY Zenon DEF PassSettled
<1>1. /\ stream' = stream /\ shuffled' = shuffled /\ earlier' = earlier
      /\ live' = live /\ silent' = silent /\ barred' = barred
      /\ unroutable' = unroutable /\ emitted' = emitted /\ batch' = batch
      /\ chan' = chan /\ listening' = listening /\ stop' = stop
      /\ wpc = "place" /\ wpc' = "look" /\ Planned \in earlier
      /\ accounted' = accounted /\ unreached' = unreached /\ settled' = settled
  BY Zenon DEF plan, counts, Passed, PassSettled
<1>2. TypeOK /\ Apart /\ Staged /\ Counted  BY Zenon, <1>1 DEF WalkInv
<1>3. TypeOK'  BY Zenon, <1>0, <1>1, <1>2, PassSets DEF TypeOK
<1>4. Owed' = Owed /\ Owed \ Left' = Owed \ Left /\ PassedBy' = PassedBy
      /\ Left' \subseteq Left
  BY Zenon, <1>0, <1>1, PassSets DEF Owed, PassedBy
<1>5. Counted'
  BY Zenon, <1>1, <1>2, <1>4 DEF Counted
<1> QED  BY Zenon, <1>0, <1>1, <1>3, <1>5, PassSets DEF WalkInv

(* A target passed over is counted as disposed of, and, unless it is       *)
(* settled as it is passed, as unreached.                                  *)
LEMMA PassOwed ==
  ASSUME WalkInv, Passed, Planned \notin earlier,
         accounted' = accounted + 1,
         \/ settled' = settled \cup {Planned} /\ unreached' = unreached
         \/ /\ settled' = settled /\ unreached' = unreached + 1
            /\ Planned \notin settled \cup live \cup silent
  PROVE  WalkInv'
<1>1. /\ stream' = stream /\ shuffled' = shuffled /\ earlier' = earlier
      /\ live' = live /\ silent' = silent /\ barred' = barred
      /\ unroutable' = unroutable /\ emitted' = emitted /\ batch' = batch
      /\ chan' = chan /\ listening' = listening /\ stop' = stop
      /\ wpc = "place" /\ wpc' = "look"
  BY Zenon DEF plan, Passed
<1>2. TypeOK /\ Apart /\ Staged /\ Counted  BY Zenon, <1>1 DEF WalkInv
<1>3. PICK p \in Positions : p = Planned  BY Zenon, PassSets
<1>4. /\ p \in Left /\ p \notin Range(batch) /\ p \notin Range(emitted)
      /\ Left' = Left \ {p} /\ Owed' = Owed /\ p \in Owed
      /\ at' \in 1 .. Len(stream) + 1 /\ Apart' /\ Staged'
  BY Zenon, <1>3, PassSets DEF Owed
<1>5. Owed \subseteq Positions /\ Owed \ Left' = (Owed \ Left) \cup {p}
      /\ PassedBy' = PassedBy \cup {p} /\ PassedBy \subseteq Positions
      /\ p \notin PassedBy
  BY Zenon, <1>1, <1>4 DEF Owed, PassedBy
<1>6. accounted' = Cardinality(Owed' \ Left')
  <2>1. accounted = Cardinality(Owed \ Left)  BY Zenon, <1>2 DEF Counted
  <2>2. Cardinality((Owed \ Left) \cup {p}) = Cardinality(Owed \ Left) + 1
    <3>1. (Owed \ Left) \in SUBSET Positions /\ p \in Positions \ (Owed \ Left)
      BY Zenon, <1>4, <1>5
    <3> QED  BY Zenon, <3>1, PlanCounts
  <2>3. Owed' \ Left' = (Owed \ Left) \cup {p}  BY Zenon, <1>4, <1>5
  <2> QED  BY <2>1, <2>2, <2>3, Zenon
<1> DEFINE F == PassedBy \ settled
           G == PassedBy \ (settled \ unroutable)
           H == PassedBy' \ settled'
           K == PassedBy' \ (settled' \ unroutable')
<1>7. /\ F \in SUBSET Positions /\ G \in SUBSET Positions
      /\ H \in SUBSET Positions /\ K \in SUBSET Positions
      /\ p \notin F /\ p \notin G /\ p \in Positions
  BY Zenon, <1>5
<1>8. Cardinality(F) <= unreached /\ unreached <= Cardinality(G) /\ unreached \in Int
  BY <1>2 DEF Counted, TypeOK
<1>9. Cardinality(H) <= unreached' /\ unreached' <= Cardinality(K)
      /\ unreached' \in Int
  <2>1. CASE settled' = settled \cup {p} /\ unreached' = unreached
    <3>1. H = F /\ G \subseteq K
      BY Zenon, <2>1, <1>1, <1>5
    <3> HIDE DEF F, G, H, K
    <3>2. Cardinality(G) <= Cardinality(K) /\ Cardinality(G) \in Int
          /\ Cardinality(K) \in Int
      BY <3>1, <1>7, PlanCounts
    <3> QED  BY <2>1, <3>1, <3>2, <1>8
  <2>2. CASE settled' = settled /\ unreached' = unreached + 1 /\ p \notin settled
    <3>1. H = F \cup {p} /\ K = G \cup {p}
      BY Zenon, <2>2, <1>1, <1>5
    <3> HIDE DEF F, G, H, K
    <3>2. /\ Cardinality(H) = Cardinality(F) + 1 /\ Cardinality(K) = Cardinality(G) + 1
          /\ Cardinality(F) \in Int /\ Cardinality(G) \in Int
      BY <3>1, <1>7, PlanCounts
    <3> QED  BY <2>2, <3>2, <1>8
  <2> QED  BY Zenon, <2>1, <2>2, <1>3
<1>10. Owed \cap Left' \cap settled' \subseteq unroutable
  <2>1. Owed \cap Left \cap settled \subseteq unroutable  BY Zenon, <1>2 DEF Counted
  <2>2. settled' \subseteq settled \cup {p}  BY Zenon, <1>3
  <2> QED  BY Zenon, <1>4, <2>1, <2>2
<1>11. H \cap (live \cup silent) = {}
  <2>1. F \cap (live \cup silent) = {}  BY Zenon, <1>2 DEF Counted
  <2>2. H \subseteq F \cup {p}  BY Zenon, <1>3, <1>5
  <2>3. p \in H => p \notin live \cup silent  BY Zenon, <1>3
  <2> QED  BY Zenon, <2>1, <2>2, <2>3
<1>12. Counted'
  BY Zenon, <1>1, <1>4, <1>6, <1>9, <1>10, <1>11 DEF Counted
<1>13. TypeOK'
  <2>1. accounted' \in 0 .. Total
    <3>1. (Owed' \ Left') \in SUBSET Positions  BY Zenon, <1>4, <1>5
    <3> QED  BY Zenon, <1>6, <3>1, PlanCounts
  <2>2. unreached' \in 0 .. Total
    <3> HIDE DEF H, K
    <3>1. Cardinality(H) \in 0 .. Total /\ Cardinality(K) \in 0 .. Total
      BY Zenon, <1>7, PlanCounts
    <3>2. Total \in Nat  BY Zenon, PlanAssumption
    <3> QED  BY <1>9, <3>1, <3>2
  <2>3. settled' \subseteq Positions /\ unroutable' \subseteq settled'
    BY Zenon, <1>1, <1>2, <1>3 DEF TypeOK
  <2> QED  BY Zenon, <1>1, <1>2, <1>4, <2>1, <2>2, <2>3 DEF TypeOK
<1> QED  BY Zenon, <1>1, <1>4, <1>12, <1>13 DEF WalkInv

(* The walk goes on with nothing moved: Look, Flush and Check.             *)
LEMMA GoesOn ==
  ASSUME WalkInv, wpc # "ended", wpc' \in {"look", "place", "drain"},
         wpc' = "look" => Len(batch) < BatchSize,
         wpc' = "place" => Len(batch) < BatchSize /\ at <= Len(stream),
         UNCHANGED <<plan, barred, at, batch, counts, settled, unroutable, emitted,
                     chan, listening, stop>>
  PROVE  WalkInv'
<1>1. /\ stream' = stream /\ shuffled' = shuffled /\ earlier' = earlier
      /\ live' = live /\ silent' = silent /\ barred' = barred /\ at' = at
      /\ settled' = settled /\ unroutable' = unroutable /\ emitted' = emitted
      /\ chan' = chan /\ listening' = listening /\ stop' = stop
      /\ accounted' = accounted /\ unreached' = unreached /\ batch' = batch
  BY Zenon DEF plan, counts
<1>2. TypeOK /\ Apart /\ Counted  BY Zenon DEF WalkInv
<1>3. TypeOK'  BY Zenon, <1>1, <1>2 DEF TypeOK
<1>4. Left' = Left /\ PassedBy' = PassedBy /\ Owed' = Owed
  BY Zenon, <1>1 DEF Left, PassedBy, Owed
<1>5. Apart' /\ Staged'  BY Zenon, <1>1, <1>2, <1>4 DEF Apart, Staged
<1>6. Counted'  BY Zenon, <1>1, <1>2, <1>4 DEF Counted
<1> QED  BY Zenon, <1>3, <1>5, <1>6 DEF WalkInv

LEMMA PlaceStep ==
  ASSUME WalkInv, Place
  PROVE  WalkInv'
<1>1. /\ stream' = stream /\ shuffled' = shuffled /\ earlier' = earlier
      /\ live' = live /\ silent' = silent /\ barred' = barred /\ at' = at + 1
      /\ settled' = settled /\ unroutable' = unroutable /\ emitted' = emitted
      /\ chan' = chan /\ listening' = listening /\ stop' = stop
      /\ accounted' = accounted /\ unreached' = unreached /\ wpc = "place"
      /\ batch' = Append(batch, Planned) /\ Planned \in live \ (earlier \cup barred)
      /\ wpc' = IF Len(batch') >= BatchSize THEN "drain" ELSE "look"
  BY Zenon DEF plan, counts, Place
<1>2. TypeOK /\ Apart /\ Staged /\ Counted  BY Zenon, <1>1 DEF WalkInv
<1>3. stream \in Seq(Positions) /\ IsInjective(stream) /\ at \in 1 .. Len(stream)
  BY <1>1, <1>2 DEF TypeOK, Apart, Staged
<1>4. /\ Planned \in Positions /\ Planned \in From(stream, at)
      /\ From(stream, at + 1) = From(stream, at) \ {Planned}
  BY Zenon, <1>3, OneOn DEF Planned
<1>5. Planned \notin Range(batch) /\ Planned \notin Range(emitted)
  BY Zenon, <1>2, <1>4 DEF Apart, Left
<1>6. /\ batch' \in Seq(Positions) /\ Len(batch') = Len(batch) + 1
      /\ Range(batch') = Range(batch) \cup {Planned} /\ IsInjective(batch')
  BY <1>1, <1>2, <1>4, <1>5, AppendNew DEF TypeOK, Apart
<1>7. Left' = Left /\ Owed' = Owed /\ PassedBy' = PassedBy
  <2>1. Left' = Left  BY Zenon, <1>1, <1>4, <1>6 DEF Left
  <2> QED  BY Zenon, <1>1, <2>1 DEF Owed, PassedBy
<1>8. Apart'
  BY Zenon, <1>1, <1>2, <1>4, <1>6, <1>7 DEF Apart
<1>9. Counted'
  BY Zenon, <1>1, <1>2, <1>7 DEF Counted
<1>10. Len(batch) \in Nat /\ Len(batch) < BatchSize /\ BatchSize \in Nat
  BY <1>1, <1>2, PlanAssumption DEF TypeOK, Staged
<1>11. Staged' /\ wpc' \in {"look", "drain"}
  BY <1>1, <1>6, <1>10 DEF Staged
<1>12. TypeOK'
  <2>1. at' \in 1 .. Len(stream') + 1 /\ Len(batch') <= BatchSize
    BY <1>1, <1>3, <1>6, <1>10
  <2> QED  BY Zenon, <1>1, <1>2, <1>6, <1>11, <2>1 DEF TypeOK
<1> QED  BY Zenon, <1>8, <1>9, <1>11, <1>12 DEF WalkInv

(* A send takes one target out of the batch, whichever the shuffle put     *)
(* first, and into the channel.                                            *)
LEMMA SendStep ==
  ASSUME WalkInv, Send
  PROVE  WalkInv'
<1>1. /\ stream' = stream /\ shuffled' = shuffled /\ earlier' = earlier
      /\ live' = live /\ silent' = silent /\ barred' = barred /\ at' = at
      /\ settled' = settled /\ unroutable' = unroutable
      /\ listening' = listening /\ stop' = stop
      /\ accounted' = accounted + 1 /\ unreached' = unreached
      /\ wpc = "drain" /\ wpc' = "check"
      /\ batch # <<>> /\ Len(chan) < 2 * BatchSize
  BY Zenon DEF plan, Send
<1>2. TypeOK /\ Apart /\ Staged /\ Counted  BY Zenon, <1>1 DEF WalkInv
<1>3. batch \in Seq(Positions) /\ emitted \in Seq(Positions) /\ chan \in Seq(Positions)
      /\ IsInjective(batch) /\ IsInjective(emitted) /\ Len(batch) <= BatchSize
  BY Zenon, <1>2 DEF TypeOK, Apart
<1>4. PICK i : /\ i \in DOMAIN batch
               /\ chan' = Append(chan, batch[i])
               /\ emitted' = Append(emitted, batch[i])
               /\ batch' = Without(batch, i)
  <2>1. 1 \in DOMAIN batch  BY <1>1, <1>3
  <2>2. (IF shuffled THEN DOMAIN batch ELSE {1}) \subseteq DOMAIN batch  BY Zenon, <2>1
  <2> QED  BY <2>2, Zenon DEF Send
<1>5. PICK p \in Positions : p = batch[i]  BY <1>3, <1>4
<1>6. /\ p \in Range(batch) /\ p \notin Range(emitted) /\ p \notin From(stream, at)
      /\ p \in live \ earlier
  <2>1. p \in Range(batch)  BY Zenon, <1>4, <1>5 DEF Range
  <2> QED  BY Zenon, <2>1, <1>2 DEF Apart, Left
<1>7. /\ batch' \in Seq(Positions) /\ Len(batch') = Len(batch) - 1
      /\ Range(batch') = Range(batch) \ {p} /\ IsInjective(batch')
  BY Zenon, <1>3, <1>4, <1>5, RemoveOne
<1>8. /\ emitted' \in Seq(Positions) /\ Range(emitted') = Range(emitted) \cup {p}
      /\ IsInjective(emitted')
      /\ chan' \in Seq(Positions) /\ Range(chan') = Range(chan) \cup {p}
      /\ Len(chan') = Len(chan) + 1
  BY <1>3, <1>4, <1>5, <1>6, AppendNew
<1>9. Left' = Left \ {p} /\ Owed' = Owed /\ PassedBy' = PassedBy
  <2>1. Left' = Left \ {p}  BY Zenon, <1>1, <1>6, <1>7 DEF Left
  <2> QED  BY <1>1, <1>8, <2>1, <1>6 DEF Owed, PassedBy, Left
<1>10. Apart'
  BY Zenon, <1>1, <1>2, <1>6, <1>7, <1>8, <1>9 DEF Apart
<1>11. Staged'
  BY Zenon, <1>1 DEF Staged
<1>12. accounted' = Cardinality(Owed' \ Left') /\ accounted' \in 0 .. Total
  <2>1. accounted = Cardinality(Owed \ Left)  BY Zenon, <1>2 DEF Counted
  <2>2. /\ (Owed \ Left) \in SUBSET Positions /\ p \in Positions \ (Owed \ Left)
        /\ Owed' \ Left' = (Owed \ Left) \cup {p}
        /\ Owed' \ Left' \in SUBSET Positions
    BY Zenon, <1>6, <1>9 DEF Owed, Left
  <2>3. Cardinality((Owed \ Left) \cup {p}) = Cardinality(Owed \ Left) + 1
    BY Zenon, <2>2, PlanCounts
  <2>4. accounted' = Cardinality(Owed' \ Left')
    BY <1>1, <2>1, <2>2, <2>3, Zenon
  <2> QED  BY Zenon, <2>2, <2>4, PlanCounts
<1>13. Counted'
  BY Zenon, <1>1, <1>2, <1>9, <1>12 DEF Counted
<1>14. TypeOK'
  <2>1. Len(batch') <= BatchSize /\ Len(chan') <= 2 * BatchSize
    <3>1. BatchSize \in Nat /\ Len(batch) \in Nat /\ Len(chan) \in Nat
      BY <1>3, PlanAssumption
    <3> QED  BY <1>1, <1>3, <1>7, <1>8, <3>1
  <2> QED  BY Zenon, <1>1, <1>2, <1>7, <1>8, <1>12, <2>1 DEF TypeOK
<1> QED  BY Zenon, <1>1, <1>10, <1>11, <1>13, <1>14 DEF WalkInv

LEMMA DrainedStep ==
  ASSUME WalkInv, Drained
  PROVE  WalkInv'
<1>1. /\ stream' = stream /\ shuffled' = shuffled /\ earlier' = earlier
      /\ live' = live /\ silent' = silent /\ barred' = barred /\ at' = at
      /\ settled' = settled /\ unroutable' = unroutable /\ emitted' = emitted
      /\ chan' = chan /\ listening' = listening /\ stop' = stop
      /\ accounted' = accounted /\ unreached' = unreached /\ batch' = batch
      /\ wpc = "drain" /\ batch = <<>>
      /\ wpc' = IF at > Len(stream) THEN "ended" ELSE "look"
  BY Zenon DEF plan, counts, Drained
<1>2. TypeOK /\ Apart /\ Counted  BY Zenon, <1>1 DEF WalkInv
<1>3. Len(batch) < BatchSize  BY <1>1, PlanAssumption
<1>4. CASE ~(at > Len(stream))
  BY Zenon, <1>1, <1>3, <1>4, GoesOn DEF plan, counts
<1>5. CASE at > Len(stream)
  <2>1. wpc' = "ended"  BY Zenon, <1>1, <1>5
  <2>2. Left = {}
    <3>1. at .. Len(stream) = {}
      BY <1>2, <1>5 DEF TypeOK
    <3> QED  BY <1>1, <3>1 DEF Left, From, Range
  <2>3. /\ Left' = Left /\ PassedBy' = PassedBy /\ Owed' = Owed
        /\ PassedBy = Owed \ Range(emitted)
    BY Zenon, <1>1, <2>2 DEF Left, PassedBy, Owed
  <2>4. TypeOK' /\ Apart' /\ Staged'
    BY Zenon, <1>1, <1>2, <2>1, <2>3 DEF TypeOK, Apart, Staged
  <2>5. /\ Unaccounted' = PassedBy \ settled
        /\ (Owed \ (Range(emitted) \cup (settled \ unroutable)))'
             = PassedBy \ (settled \ unroutable)
    BY Zenon, <1>1, <2>3 DEF Unaccounted
  <2>6. /\ Cardinality(PassedBy \ settled) <= unreached'
        /\ unreached' <= Cardinality(PassedBy \ (settled \ unroutable))
        /\ (PassedBy \ settled) \cap (live' \cup silent') = {}
    BY Zenon, <1>1, <1>2 DEF Counted
  <2>7. Closed'
    BY <2>5, <2>6, Zenon DEF Closed
  <2> QED  BY Zenon, <2>1, <2>4, <2>7 DEF WalkInv
<1> QED  BY Zenon, <1>4, <1>5

LEMMA WalkStep ==
  ASSUME WalkInv, Walk
  PROVE  WalkInv'
<1>1. TypeOK /\ Staged  BY Zenon DEF WalkInv
<1>2. CASE Look
  <2>1. wpc = "look" /\ at <= Len(stream) /\ Len(batch) < BatchSize
        /\ UNCHANGED <<plan, barred, at, settled, unroutable, emitted, chan,
                       listening, stop>>
    BY Zenon, <1>1, <1>2 DEF Look, Staged
  <2>2. CASE stop /\ StoppedShort
    BY Zenon, <2>1, <2>2, StopsShort
  <2>3. CASE wpc' = "place" /\ UNCHANGED <<batch, counts>>
    BY Zenon, <2>1, <2>3, GoesOn
  <2> QED  BY Zenon, <1>2, <2>2, <2>3 DEF Look
<1>3. CASE PassSettled
  BY Zenon, <1>3, PassSettledStep
<1>4. CASE PassWithheld
  BY Zenon, <1>4, PassOwed DEF PassWithheld
<1>5. CASE PassScreened
  BY Zenon, <1>5, PassOwed DEF PassScreened
<1>6. CASE Place
  BY Zenon, <1>6, PlaceStep
<1>7. CASE Flush
  BY Zenon, <1>7, GoesOn DEF Flush
<1>8. CASE Send
  BY Zenon, <1>8, SendStep
<1>9. CASE SendFails
  BY Zenon, <1>9, StopsShort DEF SendFails
<1>10. CASE Check
  <2>1. wpc = "check"
        /\ UNCHANGED <<plan, barred, at, settled, unroutable, emitted, chan,
                       listening, stop>>
    BY Zenon, <1>10 DEF Check
  <2>2. CASE stop /\ StoppedShort
    BY Zenon, <2>1, <2>2, StopsShort
  <2>3. CASE wpc' = "drain" /\ UNCHANGED <<batch, counts>>
    BY Zenon, <2>1, <2>3, GoesOn
  <2> QED  BY Zenon, <1>10, <2>2, <2>3 DEF Check
<1>11. CASE Drained
  BY Zenon, <1>11, DrainedStep
<1> QED  BY Zenon, <1>2, <1>3, <1>4, <1>5, <1>6, <1>7, <1>8, <1>9, <1>10, <1>11 DEF Walk

LEMMA ConsumerStep ==
  ASSUME WalkInv,
         \/ Stop \/ Take \/ HangUp
         \/ \E p \in Positions : Bar(p) \/ FileUnroutable(p) \/ Settle(p)
  PROVE  WalkInv'
<1>1. /\ chan \in Seq(Positions) /\ Len(chan) <= 2 * BatchSize
      /\ Range(chan) \subseteq Range(emitted) /\ barred \subseteq Positions
      /\ settled \subseteq Positions /\ unroutable \subseteq settled
      /\ listening \in BOOLEAN /\ stop \in BOOLEAN
      /\ emitted \in Seq(Positions) /\ BatchSize \in Nat
  BY Zenon, PlanAssumption DEF WalkInv, TypeOK, Apart
<1>2. CASE Stop
  BY Zenon, <1>1, <1>2, AsideStep DEF Stop
<1>3. CASE Take
  <2>1. /\ chan # <<>> /\ chan' = Tail(chan) /\ UNCHANGED walk
        /\ barred' = barred /\ settled' = settled /\ unroutable' = unroutable
        /\ listening' = listening /\ stop' = stop
    BY Zenon, <1>3 DEF Take
  <2>2. chan' \in Seq(Positions) /\ Len(chan') = Len(chan) - 1 /\ Len(chan) \in Nat
    BY Zenon, <1>1, <2>1, TakeFirst
  <2>3. Range(chan') \subseteq Range(chan)
    BY Zenon, <1>1, <2>1, TakeFirst
  <2>4. Len(chan') <= 2 * BatchSize
    BY <1>1, <2>2
  <2> QED  BY Zenon, <1>1, <2>1, <2>2, <2>3, <2>4, AsideStep
<1>4. CASE HangUp
  <2>1. /\ chan' = <<>> /\ UNCHANGED walk
        /\ barred' = barred /\ settled' = settled /\ unroutable' = unroutable
        /\ listening' = FALSE /\ stop' = stop
    BY Zenon, <1>4 DEF HangUp
  <2>2. chan' \in Seq(Positions) /\ Len(chan') <= 2 * BatchSize /\ Range(chan') = {}
    BY <1>1, <2>1 DEF Range
  <2> QED  BY Zenon, <1>1, <2>1, <2>2, AsideStep
<1>5. ASSUME NEW p \in Positions, Bar(p)
      PROVE  WalkInv'
  BY Zenon, <1>1, <1>5, AsideStep DEF Bar
<1>6. ASSUME NEW p \in Positions, FileUnroutable(p)
      PROVE  WalkInv'
  <2>1. /\ settled' = settled \cup {p} /\ unroutable' = unroutable \cup {p}
        /\ UNCHANGED walk /\ barred' = barred /\ chan' = chan
        /\ listening' = listening /\ stop' = stop
    BY Zenon, <1>6 DEF FileUnroutable
  <2> QED  BY Zenon, <1>1, <2>1, AsideStep
<1>7. ASSUME NEW p \in Positions, Settle(p)
      PROVE  WalkInv'
  <2>1. /\ settled' = settled \cup {p} /\ unroutable' = unroutable
        /\ p \in Range(emitted)
        /\ UNCHANGED walk /\ barred' = barred /\ chan' = chan
        /\ listening' = listening /\ stop' = stop
    BY Zenon, <1>7 DEF Settle
  <2> QED  BY Zenon, <1>1, <2>1, AsideStep
<1> QED  BY Zenon, <1>2, <1>3, <1>4, <1>5, <1>6, <1>7

LEMMA WalkPreserved ==
  ASSUME WalkInv, [Next]_vars
  PROVE  WalkInv'
<1>1. CASE Walk
  BY Zenon, <1>1, WalkStep
<1>2. CASE \/ Stop \/ Take \/ HangUp
           \/ \E p \in Positions : Bar(p) \/ FileUnroutable(p) \/ Settle(p)
  BY Zenon, <1>2, ConsumerStep
<1>3. CASE UNCHANGED vars
  <2>1. /\ UNCHANGED walk /\ barred' = barred /\ settled' = settled
        /\ unroutable' = unroutable /\ chan' = chan
        /\ listening' = listening /\ stop' = stop
    BY Zenon, <1>3 DEF vars, walk, plan, counts
  <2>2. TypeOK /\ Apart  BY Zenon DEF WalkInv
  <2> QED  BY Zenon, <2>1, <2>2, AsideStep DEF TypeOK, Apart
<1> QED  BY Zenon, <1>1, <1>2, <1>3 DEF Next

(* What holds of the walk follows from its invariant.                      *)
LEMMA WalkInvImplies ==
  ASSUME WalkInv
  PROVE  TypeOK /\ EmittedOnce /\ TallyAddsUp /\ WalkedWhole
<1>1. TypeOK /\ Apart  BY Zenon DEF WalkInv
<1>2. EmittedOnce
  BY Zenon, <1>1 DEF Apart, EmittedOnce
<1>3. ASSUME wpc = "ended"
      PROVE  /\ unreached >= Cardinality(Unaccounted)
             /\ unroutable = {} => unreached = Cardinality(Unaccounted)
             /\ ~stop /\ listening => \A p \in Unaccounted : p \notin live \cup silent
  <2>1. Closed  BY Zenon, <1>3 DEF WalkInv
  <2>2. unreached \in Int  BY <1>1 DEF TypeOK
  <2>3. Unaccounted \in SUBSET Positions  BY Zenon DEF Unaccounted, Owed
  <2>4. Cardinality(Unaccounted) \in Int  BY <2>3, PlanCounts
  <2>5. unroutable = {} =>
          Owed \ (Range(emitted) \cup (settled \ unroutable)) = Unaccounted
    BY Zenon DEF Unaccounted
  <2>6. unroutable = {} => unreached <= Cardinality(Unaccounted)
    BY Zenon, <2>1, <2>5 DEF Closed
  <2> QED  BY <2>1, <2>2, <2>4, <2>6 DEF Closed
<1> QED  BY Zenon, <1>1, <1>2, <1>3 DEF TallyAddsUp, WalkedWhole

(* The walk's invariant, whatever consumes its channel.                    *)
THEOREM WalkInvariant == Spec => []WalkInv
<1>1. Init => WalkInv  BY Zenon, WalkInit
<1>2. WalkInv /\ [Next]_vars => WalkInv'  BY Zenon, WalkPreserved
<1> QED  BY <1>1, <1>2, PTL DEF Spec

(* Type correctness: no count of the walk leaves the plan's range, and no  *)
(* batch or channel its bound.                                             *)
THEOREM WalkTypeCorrect == Spec => []TypeOK
<1>1. WalkInv => TypeOK  BY Zenon, WalkInvImplies
<1> QED  BY <1>1, WalkInvariant, PTL

(* No target is emitted twice, nor one settled earlier, nor one at a host  *)
(* that did not answer: for any plan, walk, batch size and resume point.   *)
THEOREM NothingIsAskedTwice == Spec => []EmittedOnce
<1>1. WalkInv => EmittedOnce  BY Zenon, WalkInvImplies
<1> QED  BY <1>1, WalkInvariant, PTL

(* The count of unreached targets adds the tally up to the plan, however   *)
(* the walk ended.                                                         *)
THEOREM TallyAlwaysAddsUp == Spec => []TallyAddsUp
<1>1. WalkInv => TallyAddsUp  BY Zenon, WalkInvImplies
<1> QED  BY <1>1, WalkInvariant, PTL

(* Nothing but a stop or a receiver that is gone leaves a target behind.   *)
THEOREM PlanIsWalkedWhole == Spec => []WalkedWhole
<1>1. WalkInv => WalkedWhole  BY Zenon, WalkInvImplies
<1> QED  BY <1>1, WalkInvariant, PTL
----------------------------------------------------------------------------
(* The phase                                                               *)

InRouter == IF rpc \in {"route", "push"} THEN {carried} ELSE {}
Queued == UNION {Range(route[s]) : s \in Scanners}
InHand == {hand[s] : s \in {s \in Scanners : spc[s] \in {"admit", "readmit"}}}
InFlight == UNION {asking[s] : s \in Scanners}
KeptBack == UNION {heldBack[s] : s \in Scanners}
Recorded == {p \in Positions : recorded[p] # 0}

\* Where a target the walk emitted may be.
Spots ==
  [chan |-> Range(chan), router |-> InRouter, queue |-> Queued, hand |-> InHand,
   flight |-> InFlight, held |-> KeptBack, panicked |-> panicked,
   recorded |-> Recorded]

Places == {"chan", "router", "queue", "hand", "flight", "held", "panicked", "recorded"}

(* It is in one of them, until the receiver is dropped with what was in    *)
(* the channel.                                                            *)
OneSpot ==
  /\ \A x, y \in Places : x # y => Spots[x] \cap Spots[y] = {}
  /\ \A x \in Places : Spots[x] \subseteq Range(emitted)
  /\ rpc # "dropped" => \A p \in Range(emitted) : \E x \in Places : p \in Spots[x]

(* Where the router stands, and what it has in its hands.                  *)
Routing ==
  /\ rpc \in {"route", "push"} => carried \in Positions
  /\ rpc = "push" => /\ RouteOf[carried] \in Scanners
                     /\ Len(route[RouteOf[carried]]) < RouteDepth
  /\ rpc = "ended" => chan = <<>> /\ wpc = "ended"
  /\ listening <=> rpc # "dropped"
  /\ IsInjective(chan)

Stations == {"refuse", "run", "admit", "interrupt", "close", "drain", "pool", "again",
             "readmit", "done"}

\* Where a scanner may stand that has targets in flight or kept back.
InFlightWhile(s) ==
  IF s \in Raw THEN {"run", "interrupt"}
  ELSE {"run", "admit", "close", "drain", "pool", "again", "readmit"}

(* A scanner has only targets it claims, each once and within its bounds,  *)
(* and is done only with none in flight or kept back, as only a pool has.  *)
InOrder(s) ==
  /\ Len(route[s]) <= RouteDepth /\ IsInjective(route[s])
  /\ Cardinality(asking[s]) <= Limit
  /\ \A p \in Range(route[s]) \cup asking[s] \cup heldBack[s] : RouteOf[p] = s
  /\ spc[s] \in {"admit", "readmit"} => hand[s] \in Positions /\ RouteOf[hand[s]] = s
  /\ spc[s] \in {"admit", "pool", "again", "readmit"} => s \notin Raw
  /\ spc[s] \in {"refuse", "interrupt"} => s \in Raw
  /\ asking[s] # {} => spc[s] \in InFlightWhile(s)
  /\ heldBack[s] # {} => s \notin Raw /\ spc[s] \in InFlightWhile(s)

Framed ==
  /\ rpc \in {"drop", "recv", "route", "push", "ended", "dropped"}
  /\ carried \in Positions \cup {None}
  /\ open \subseteq Scanners
  /\ route \in [Scanners -> Seq(Positions)]
  /\ spc \in [Scanners -> Stations]
  /\ hand \in [Scanners -> Positions \cup {None}]
  /\ asking \in [Scanners -> SUBSET Positions]
  /\ heldBack \in [Scanners -> SUBSET Positions]
  /\ panicked \subseteq Positions
  /\ recorded \in [Positions -> {0, 1}]

PhaseInv ==
  /\ WalkInv /\ Framed /\ Routing /\ OneSpot
  /\ \A s \in Scanners : InOrder(s)

(* Every step of the phase is one of the walk, of its environment, or none *)
(* that the walk sees.                                                     *)
LEMMA PhaseSimulates ==
  ASSUME [PhaseNext]_phaseVars
  PROVE  [Next]_vars
<1>1. CASE Around
  BY Zenon, <1>1 DEF Around, Next
<1>2. CASE DropReceiver
  BY Zenon, <1>2 DEF DropReceiver, Next
<1>3. CASE Router
  <2>1. CASE RouterTakes  BY Zenon, <2>1 DEF RouterTakes, Next
  <2>2. CASE Undeliverable  BY Zenon, <2>2 DEF Undeliverable
  <2>3. CASE Permit  BY Zenon, <2>3 DEF Permit
  <2>4. CASE Push  BY Zenon, <2>4 DEF Push
  <2>5. CASE RouterEnds  BY Zenon, <2>5 DEF RouterEnds
  <2> QED  BY Zenon, <1>3, <2>1, <2>2, <2>3, <2>4, <2>5 DEF Router
<1>4. ASSUME NEW s \in Scanners, Scanner(s) \/ Mishap(s)
      PROVE  [Next]_vars
  <2>1. ASSUME NEW p \in Positions, Resolve(s, p)  PROVE [Next]_vars
    <3>1. Settle(p) \/ UNCHANGED vars  BY Zenon, <2>1 DEF Resolve
    <3> QED  BY Zenon, <3>1 DEF Next
  <2>2. ASSUME NEW p \in Positions, Panic(s, p)  PROVE [Next]_vars
    BY Zenon, <2>2 DEF Panic
  <2>5. ASSUME NEW p \in Positions, HoldDown(s, p)  PROVE [Next]_vars
    BY Zenon, <2>5 DEF HoldDown
  <2>6. CASE AskAgain(s) \/ HeldUnasked(s) \/ AskedAgain(s)
    BY Zenon, <2>6 DEF AskAgain, HeldUnasked, AskedAgain
  <2>3. CASE \/ Ask(s) \/ TakeInHand(s) \/ Admit(s) \/ Unasked(s) \/ RawStops(s)
             \/ RefuseEnds(s)
    BY Zenon, <2>3 DEF Ask, TakeInHand, Admit, Unasked, RawStops, RefuseEnds
  <2>4. CASE \/ Interrupt(s) \/ PoolStops(s) \/ Close(s) \/ Drain(s)
             \/ DrainEnds(s) \/ PoolDrained(s)
    BY Zenon, <2>4 DEF Interrupt, PoolStops, Close, Drain, DrainEnds, PoolDrained
  <2> QED  BY Zenon, <1>4, <2>1, <2>2, <2>3, <2>4, <2>5, <2>6 DEF Scanner, Mishap, RawFinishes
<1>5. CASE UNCHANGED phaseVars
  BY Zenon, <1>5 DEF phaseVars
<1> QED  BY Zenon, <1>1, <1>2, <1>3, <1>4, <1>5 DEF PhaseNext

(* The phase is a consumer of the walk: whatever its router and scanners   *)
(* do, the walk's channel sees only what Dispatcher lets a consumer do.    *)
THEOREM PhaseImplementsWalk == PhaseSpec => Spec
<1>1. PhaseInit => Init  BY Zenon DEF PhaseInit
<1>2. [PhaseNext]_phaseVars => [Next]_vars  BY Zenon, PhaseSimulates
<1> QED  BY <1>1, <1>2, PTL DEF PhaseSpec, Spec

\* What moving P from x to y makes of the targets at z.
Shifted(S, z, x, y, P) == IF z = x THEN S \ P ELSE IF z = y THEN S \cup P ELSE S

Moving(x, y, P) ==
  /\ Range(chan)' = Shifted(Range(chan), "chan", x, y, P)
  /\ InRouter' = Shifted(InRouter, "router", x, y, P)
  /\ Queued' = Shifted(Queued, "queue", x, y, P)
  /\ InHand' = Shifted(InHand, "hand", x, y, P)
  /\ InFlight' = Shifted(InFlight, "flight", x, y, P)
  /\ KeptBack' = Shifted(KeptBack, "held", x, y, P)
  /\ panicked' = Shifted(panicked, "panicked", x, y, P)
  /\ Recorded' = Shifted(Recorded, "recorded", x, y, P)

(* What is at each place, before a step and after it.                      *)
LEMMA SpotsAre ==
  /\ Spots["chan"] = Range(chan) /\ Spots["router"] = InRouter
  /\ Spots["queue"] = Queued /\ Spots["hand"] = InHand
  /\ Spots["flight"] = InFlight /\ Spots["held"] = KeptBack
  /\ Spots["panicked"] = panicked /\ Spots["recorded"] = Recorded
  /\ Spots'["chan"] = Range(chan)' /\ Spots'["router"] = InRouter'
  /\ Spots'["queue"] = Queued' /\ Spots'["hand"] = InHand'
  /\ Spots'["flight"] = InFlight' /\ Spots'["held"] = KeptBack'
  /\ Spots'["panicked"] = panicked' /\ Spots'["recorded"] = Recorded'
BY Zenon DEF Spots

(* Targets that go from one place to another are still in one.             *)
LEMMA MoveSpot ==
  ASSUME OneSpot, NEW x \in Places, NEW y \in Places, x # y, NEW P,
         P \subseteq Spots[x], emitted' = emitted, rpc' = "dropped" <=> rpc = "dropped",
         Moving(x, y, P)
  PROVE  OneSpot'
<1>1. \A z \in Places : Spots'[z] = Shifted(Spots[z], z, x, y, P)
  BY Zenon, SpotsAre DEF Places, Moving
<1> DEFINE S == Spots
           T == Spots'
           E == Range(emitted)
<1>2. /\ \A z \in Places : T[z] = IF z = x THEN S[z] \ P
                                  ELSE IF z = y THEN S[z] \cup P ELSE S[z]
      /\ \A u, v \in Places : u # v => S[u] \cap S[v] = {}
      /\ \A u \in Places : S[u] \subseteq E
      /\ P \subseteq S[x] /\ E = Range(emitted)'
      /\ rpc # "dropped" => \A p \in E : \E u \in Places : p \in S[u]
  BY Zenon, <1>1 DEF OneSpot, Shifted
<1> HIDE DEF S, T, E
<1>3. \A u, v \in Places : u # v => T[u] \cap T[v] = {}
  BY Zenon, <1>2
<1>4. \A u \in Places : T[u] \subseteq E
  BY Zenon, <1>2
<1>5. ASSUME rpc # "dropped", NEW p \in E
      PROVE  \E u \in Places : p \in T[u]
  <2>1. CASE p \in P
    BY Zenon, <2>1, <1>2
  <2>2. CASE p \notin P
    BY Zenon, <2>2, <1>2, <1>5
  <2> QED  BY Zenon, <2>1, <2>2
<1> QED  BY Zenon, <1>2, <1>3, <1>4, <1>5 DEF OneSpot, S, T

LEMMA KeepSpots ==
  ASSUME OneSpot, emitted' = emitted, rpc' = "dropped" <=> rpc = "dropped",
         Range(chan)' = Range(chan), InRouter' = InRouter, Queued' = Queued,
         InHand' = InHand, InFlight' = InFlight, KeptBack' = KeptBack,
         panicked' = panicked, Recorded' = Recorded
  PROVE  OneSpot'
<1>1. Spots' = Spots  BY Zenon DEF Spots
<1> QED  BY Zenon, <1>1 DEF OneSpot

(* Once recorded, a target is nowhere else, so it is recorded once.        *)
LEMMA RecordsOnce ==
  ASSUME Framed, OneSpot, NEW x \in Places, x # "recorded",
         NEW P \in SUBSET Positions, P \subseteq Spots[x],
         recorded' = [p \in Positions |-> IF p \in P THEN recorded[p] + 1 ELSE recorded[p]]
  PROVE  recorded' \in [Positions -> {0, 1}] /\ Recorded' = Recorded \cup P
<1>1. P \cap Recorded = {}
  <2>1. Spots["recorded"] = Recorded  BY Zenon DEF Spots
  <2>2. "recorded" \in Places  BY Zenon DEF Places
  <2>3. Spots[x] \cap Spots["recorded"] = {}  BY Zenon, <2>2 DEF OneSpot
  <2> QED  BY Zenon, <2>1, <2>3
<1>2. \A p \in P : recorded[p] = 0
  BY Zenon, <1>1 DEF Recorded
<1>3. recorded \in [Positions -> {0, 1}]  BY Zenon DEF Framed
<1>4. ASSUME NEW p \in Positions
      PROVE  recorded'[p] \in {0, 1} /\ (recorded'[p] # 0 <=> p \in P \/ recorded[p] # 0)
  BY <1>2, <1>3
<1>5. recorded' \in [Positions -> {0, 1}]
  BY Zenon, <1>4
<1> QED  BY Zenon, <1>4, <1>5 DEF Recorded

LEMMA RecordsOne ==
  ASSUME Framed, OneSpot, NEW x \in Places, x # "recorded",
         NEW p \in Positions, p \in Spots[x], Records(p)
  PROVE  recorded' \in [Positions -> {0, 1}] /\ Recorded' = Recorded \cup {p}
<1>1. recorded \in [Positions -> {0, 1}]  BY Zenon DEF Framed
<1>2. recorded' = [q \in Positions |-> IF q \in {p} THEN recorded[q] + 1 ELSE recorded[q]]
  BY Zenon, <1>1 DEF Records
<1>3. {p} \in SUBSET Positions /\ {p} \subseteq Spots[x]  BY Zenon
<1> QED  BY Zenon, <1>2, <1>3, RecordsOnce

(* A queue that is as it was is no longer than it was.                     *)
LEMMA NoLonger == \A m, n \in Nat : m = n => m <= n
OBVIOUS

(* A step of one scanner: what it does to its own lot decides.             *)
LEMMA OneScanner ==
  ASSUME PhaseInv, WalkInv', NEW s \in Scanners, UNCHANGED router,
         chan' = chan, wpc' = wpc, listening' = listening,
         open' \subseteq Scanners, panicked' \subseteq Positions,
         recorded' \in [Positions -> {0, 1}],
         route' \in [Scanners -> Seq(Positions)], spc' \in [Scanners -> Stations],
         hand' \in [Scanners -> Positions \cup {None}],
         asking' \in [Scanners -> SUBSET Positions],
         heldBack' \in [Scanners -> SUBSET Positions],
         \A t \in Scanners : t # s =>
           /\ route'[t] = route[t] /\ spc'[t] = spc[t] /\ heldBack'[t] = heldBack[t]
           /\ hand'[t] = hand[t] /\ asking'[t] = asking[t],
         Len(route'[s]) <= Len(route[s]), InOrder(s)', OneSpot'
  PROVE  PhaseInv'
<1>1. Framed'
  BY Zenon DEF PhaseInv, Framed, router
<1>2. ASSUME NEW t \in Scanners  PROVE InOrder(t)'
  <2>1. CASE t # s
    <3>1. InOrder(t)  BY Zenon DEF PhaseInv
    <3> QED  BY ZenonT(40), <2>1, <3>1 DEF InOrder
  <2> QED  BY ZenonT(40), <2>1
<1>3. Routing'
  <2>1. Routing /\ rpc' = rpc /\ carried' = carried  BY ZenonT(40) DEF PhaseInv, router
  <2>2. ASSUME rpc = "push"
        PROVE  /\ RouteOf[carried] \in Scanners
               /\ Len(route'[RouteOf[carried]]) < RouteDepth
    <3>1. PICK t \in Scanners : t = RouteOf[carried]  BY Zenon, <2>1, <2>2 DEF Routing
    <3>2. Len(route[t]) < RouteDepth  BY Zenon, <2>1, <2>2, <3>1 DEF Routing
    <3>3. Len(route[t]) \in Nat /\ Len(route'[t]) \in Nat /\ RouteDepth \in Nat
      BY RoutingAssumption DEF PhaseInv, Framed
    <3>4. Len(route'[t]) <= Len(route[t])
      <4>1. CASE t = s  BY ZenonT(40), <4>1
      <4>2. CASE t # s
        <5>1. Len(route'[t]) = Len(route[t])  BY Zenon, <4>2
        <5> QED  BY Zenon, <5>1, <3>3, NoLonger
      <4> QED  BY Zenon, <4>1, <4>2
    <3> QED  BY <3>1, <3>2, <3>3, <3>4
  <2> QED  BY Zenon, <2>1, <2>2 DEF Routing
<1> QED  BY Zenon, <1>1, <1>2, <1>3 DEF PhaseInv

(* A scanner takes the first of its channel.                               *)
LEMMA PopsOne ==
  ASSUME PhaseInv, NEW s \in Scanners, Pops(s)
  PROVE  /\ Head(route[s]) \in Positions /\ Head(route[s]) \in Queued
         /\ RouteOf[Head(route[s])] = s
         /\ route' \in [Scanners -> Seq(Positions)]
         /\ \A t \in Scanners : t # s => route'[t] = route[t]
         /\ Len(route'[s]) <= Len(route[s]) /\ Len(route'[s]) <= RouteDepth
         /\ IsInjective(route'[s])
         /\ Range(route'[s]) \subseteq Range(route[s])
         /\ Queued' = Queued \ {Head(route[s])}
<1>1. /\ route \in [Scanners -> Seq(Positions)] /\ InOrder(s)
      /\ route[s] # <<>> /\ route' = [route EXCEPT ![s] = Tail(@)]
      /\ RouteDepth \in Nat
  BY Zenon, RoutingAssumption DEF PhaseInv, Framed, Pops
<1>2. route[s] \in Seq(Positions) /\ route'[s] = Tail(route[s])
      /\ \A t \in Scanners : t # s => route'[t] = route[t]
  BY Zenon, <1>1
<1>3. PICK h \in Positions : h = Head(route[s])  BY Zenon, <1>1, <1>2, TakeFirst
<1>4. /\ route'[s] \in Seq(Positions) /\ Len(route'[s]) = Len(route[s]) - 1
      /\ Len(route[s]) \in Nat /\ h \in Range(route[s]) /\ IsInjective(route'[s])
      /\ Range(route'[s]) = Range(route[s]) \ {h}
  BY Zenon, <1>1, <1>2, <1>3, TakeFirst DEF InOrder
<1>5. Len(route'[s]) <= Len(route[s]) /\ Len(route'[s]) <= RouteDepth
  <2>1. Len(route[s]) <= RouteDepth  BY Zenon, <1>1 DEF InOrder
  <2> QED  BY <1>1, <1>4, <2>1
<1>6. route' \in [Scanners -> Seq(Positions)]
  BY Zenon, <1>1, <1>2, <1>4
<1>7. RouteOf[h] = s /\ h \in Queued
  BY Zenon, <1>1, <1>4 DEF InOrder, Queued
<1>8. \A t \in Scanners : t # s => h \notin Range(route[t])
  BY Zenon, <1>7 DEF PhaseInv, InOrder
<1>9. Queued' = Queued \ {h}
  BY Zenon, <1>2, <1>4, <1>8 DEF Queued
<1> QED  BY ZenonT(40), <1>2, <1>3, <1>4, <1>5, <1>6, <1>7, <1>9

(* A step of the scanners that the walk and the router do not see leaves   *)
(* the targets with them where they were.                                  *)
LEMMA UnseenByRouter ==
  ASSUME UNCHANGED <<vars, router>>
  PROVE  /\ emitted' = emitted /\ chan' = chan /\ wpc' = wpc
         /\ listening' = listening /\ rpc' = rpc /\ Range(chan)' = Range(chan)
         /\ InRouter' = InRouter /\ UNCHANGED router /\ UNCHANGED vars
BY Zenon DEF vars, router, InRouter

LEMMA WalkUnchanged ==
  ASSUME WalkInv, UNCHANGED vars
  PROVE  WalkInv'
BY Zenon, WalkPreserved

LEMMA AskStep ==
  ASSUME PhaseInv, NEW s \in Scanners, Ask(s)
  PROVE  PhaseInv'
<1>1. /\ s \in Raw /\ spc[s] = "run" /\ Cardinality(asking[s]) < Limit /\ Pops(s)
      /\ asking' = [asking EXCEPT ![s] = @ \cup {Head(route[s])}]
      /\ UNCHANGED <<vars, router>> /\ open' = open /\ spc' = spc /\ hand' = hand
      /\ heldBack' = heldBack /\ panicked' = panicked /\ recorded' = recorded
  BY Zenon DEF Ask
<1>2. PICK h \in Positions : h = Head(route[s])  BY Zenon, <1>1, PopsOne
<1>3. /\ h \in Queued /\ RouteOf[h] = s /\ Queued' = Queued \ {h}
      /\ route' \in [Scanners -> Seq(Positions)]
      /\ \A t \in Scanners : t # s => route'[t] = route[t]
      /\ Len(route'[s]) <= Len(route[s]) /\ Len(route'[s]) <= RouteDepth
      /\ IsInjective(route'[s]) /\ Range(route'[s]) \subseteq Range(route[s])
  BY Zenon, <1>1, <1>2, PopsOne
<1>4. WalkInv /\ Framed /\ OneSpot /\ InOrder(s)  BY Zenon DEF PhaseInv
<1>5. /\ asking' \in [Scanners -> SUBSET Positions]
      /\ asking'[s] = asking[s] \cup {h}
      /\ \A t \in Scanners : t # s => asking'[t] = asking[t]
  BY Zenon, <1>1, <1>2, <1>4 DEF Framed
<1>6. InFlight' = InFlight \cup {h}
  BY Zenon, <1>5 DEF InFlight
<1>7. InOrder(s)'
  <2>1. Cardinality(asking'[s]) <= Limit
    <3>1. asking[s] \in SUBSET Positions  BY Zenon, <1>4 DEF Framed
    <3>2. IsFiniteSet(asking[s]) /\ Cardinality(asking[s]) \in Nat
      BY <3>1, PlanCounts
    <3>3. \/ Cardinality(asking[s] \cup {h}) = Cardinality(asking[s])
          \/ Cardinality(asking[s] \cup {h}) = Cardinality(asking[s]) + 1
      BY Zenon, <3>2, FS_AddElement
    <3>4. Limit \in Nat  BY Zenon, RoutingAssumption
    <3>5. /\ Cardinality(asking[s]) < Limit
          /\ Cardinality(asking'[s]) = Cardinality(asking[s] \cup {h})
      BY Zenon, <1>1, <1>5
    <3> QED  BY <3>2, <3>3, <3>4, <3>5
  <2>2. \A p \in Range(route'[s]) \cup asking'[s] \cup heldBack'[s] : RouteOf[p] = s
    BY Zenon, <1>1, <1>3, <1>4, <1>5 DEF InOrder
  <2>3. spc'[s] = "run" /\ "run" \in InFlightWhile(s)  BY Zenon, <1>1 DEF InFlightWhile
  <2>4. heldBack'[s] = {}  BY Zenon, <1>1, <1>4 DEF InOrder
  <2> QED  BY Zenon, <1>3, <2>1, <2>2, <2>3, <2>4 DEF InOrder
<1>8. OneSpot'
  <2>1. "queue" \in Places /\ "flight" \in Places /\ {h} \subseteq Spots["queue"]
    BY ZenonT(40), <1>3 DEF Places, Spots
  <2>2. InHand' = InHand /\ KeptBack' = KeptBack /\ Recorded' = Recorded
    BY ZenonT(40), <1>1 DEF InHand, KeptBack, Recorded
  <2>3. Moving("queue", "flight", {h})
    BY Zenon, <1>1, <1>3, <1>6, <2>2, UnseenByRouter DEF Moving, Shifted
  <2>4. emitted' = emitted /\ rpc' = rpc  BY Zenon, <1>1, UnseenByRouter
  <2> QED  BY Zenon, <1>4, <2>1, <2>3, <2>4, MoveSpot
<1>9. WalkInv'  BY Zenon, <1>1, <1>4, WalkUnchanged
<1> QED
  BY ZenonT(40), <1>1, <1>3, <1>4, <1>5, <1>7, <1>8, <1>9, OneScanner, UnseenByRouter DEF Framed

LEMMA TakeInHandStep ==
  ASSUME PhaseInv, NEW s \in Scanners, TakeInHand(s)
  PROVE  PhaseInv'
<1>1. /\ s \notin Raw /\ spc[s] = "run" /\ Pops(s)
      /\ spc' = [spc EXCEPT ![s] = "admit"]
      /\ hand' = [hand EXCEPT ![s] = Head(route[s])]
      /\ UNCHANGED <<vars, router>> /\ open' = open /\ asking' = asking
      /\ heldBack' = heldBack /\ panicked' = panicked /\ recorded' = recorded
  BY Zenon DEF TakeInHand, Goes
<1>2. PICK h \in Positions : h = Head(route[s])  BY Zenon, <1>1, PopsOne
<1>3. /\ h \in Queued /\ RouteOf[h] = s /\ Queued' = Queued \ {h}
      /\ route' \in [Scanners -> Seq(Positions)]
      /\ \A t \in Scanners : t # s => route'[t] = route[t]
      /\ Len(route'[s]) <= Len(route[s]) /\ Len(route'[s]) <= RouteDepth
      /\ IsInjective(route'[s]) /\ Range(route'[s]) \subseteq Range(route[s])
  BY Zenon, <1>1, <1>2, PopsOne
<1>4. WalkInv /\ Framed /\ OneSpot /\ InOrder(s)  BY Zenon DEF PhaseInv
<1>5. /\ hand' \in [Scanners -> Positions \cup {None}] /\ hand'[s] = h
      /\ spc' \in [Scanners -> Stations] /\ spc'[s] = "admit"
      /\ \A t \in Scanners : t # s => hand'[t] = hand[t] /\ spc'[t] = spc[t]
  BY Zenon, <1>1, <1>2, <1>4 DEF Framed, Stations
<1>6. InHand' = InHand \cup {h}
  BY <1>1, <1>5 DEF InHand
<1>7. InOrder(s)'
  <2>1. \A p \in Range(route'[s]) \cup asking'[s] \cup heldBack'[s] : RouteOf[p] = s
    BY Zenon, <1>1, <1>3, <1>4 DEF InOrder
  <2>2. "admit" \in InFlightWhile(s)  BY Zenon, <1>1 DEF InFlightWhile
  <2>3. Cardinality(asking'[s]) <= Limit  BY ZenonT(40), <1>1, <1>4 DEF InOrder
  <2> QED  BY ZenonT(40), <1>1, <1>3, <1>5, <2>1, <2>2, <2>3 DEF InOrder
<1>8. OneSpot'
  <2>1. "queue" \in Places /\ "hand" \in Places /\ {h} \subseteq Spots["queue"]
    BY ZenonT(40), <1>3 DEF Places, Spots
  <2>2. InFlight' = InFlight /\ KeptBack' = KeptBack /\ Recorded' = Recorded
    BY ZenonT(40), <1>1 DEF InFlight, KeptBack, Recorded
  <2>3. Moving("queue", "hand", {h})
    BY Zenon, <1>1, <1>3, <1>6, <2>2, UnseenByRouter DEF Moving, Shifted
  <2>4. emitted' = emitted /\ rpc' = rpc  BY Zenon, <1>1, UnseenByRouter
  <2> QED  BY ZenonT(40), <1>4, <2>1, <2>3, <2>4, MoveSpot
<1>9. WalkInv'  BY Zenon, <1>1, <1>4, WalkUnchanged
<1> QED
  BY Zenon, <1>1, <1>3, <1>4, <1>5, <1>7, <1>8, <1>9, OneScanner, UnseenByRouter DEF Framed

LEMMA AdmitStep ==
  ASSUME PhaseInv, NEW s \in Scanners, Admit(s)
  PROVE  PhaseInv'
<1>1. /\ spc[s] \in {"admit", "readmit"} /\ Cardinality(asking[s]) < Limit
      /\ \/ spc[s] = "admit" /\ spc' = [spc EXCEPT ![s] = "run"]
         \/ spc[s] = "readmit" /\ spc' = [spc EXCEPT ![s] = "again"]
      /\ asking' = [asking EXCEPT ![s] = @ \cup {hand[s]}]
      /\ hand' = [hand EXCEPT ![s] = None]
      /\ UNCHANGED <<vars, router>> /\ route' = route /\ open' = open
      /\ heldBack' = heldBack /\ panicked' = panicked /\ recorded' = recorded
  BY Zenon DEF Admit, Admits, Goes
<1>2. WalkInv /\ Framed /\ OneSpot /\ InOrder(s)  BY Zenon DEF PhaseInv
<1>3. PICK h \in Positions : h = hand[s] /\ RouteOf[h] = s
  BY Zenon, <1>1, <1>2 DEF InOrder
<1>4. /\ hand' \in [Scanners -> Positions \cup {None}]
      /\ spc' \in [Scanners -> Stations] /\ spc'[s] \in {"run", "again"}
      /\ asking' \in [Scanners -> SUBSET Positions]
      /\ asking'[s] = asking[s] \cup {h}
      /\ \A t \in Scanners : t # s =>
           hand'[t] = hand[t] /\ spc'[t] = spc[t] /\ asking'[t] = asking[t]
  BY Zenon, <1>1, <1>2, <1>3 DEF Framed, Stations
<1>5. InHand' = InHand \ {h} /\ h \in InHand
  <2>1. \A t \in Scanners : spc[t] \in {"admit", "readmit"} /\ hand[t] = h => t = s
    BY Zenon, <1>3 DEF PhaseInv, InOrder
  <2> QED  BY <1>1, <1>3, <1>4, <2>1 DEF InHand
<1>6. InFlight' = InFlight \cup {h}
  BY <1>4 DEF InFlight
<1>7. InOrder(s)'
  <2>1. Cardinality(asking'[s]) <= Limit
    <3>1. asking[s] \in SUBSET Positions  BY Zenon, <1>2 DEF Framed
    <3>2. IsFiniteSet(asking[s]) /\ Cardinality(asking[s]) \in Nat
      BY <3>1, PlanCounts
    <3>3. \/ Cardinality(asking[s] \cup {h}) = Cardinality(asking[s])
          \/ Cardinality(asking[s] \cup {h}) = Cardinality(asking[s]) + 1
      BY Zenon, <3>2, FS_AddElement
    <3>4. Limit \in Nat  BY Zenon, RoutingAssumption
    <3>5. /\ Cardinality(asking[s]) < Limit
          /\ Cardinality(asking'[s]) = Cardinality(asking[s] \cup {h})
      BY Zenon, <1>1, <1>4
    <3> QED  BY <3>2, <3>3, <3>4, <3>5
  <2>2. \A p \in Range(route'[s]) \cup asking'[s] \cup heldBack'[s] : RouteOf[p] = s
    BY Zenon, <1>1, <1>2, <1>3, <1>4 DEF InOrder
  <2>3. s \notin Raw /\ spc'[s] \in InFlightWhile(s)
    BY Zenon, <1>1, <1>2, <1>4 DEF InOrder, InFlightWhile
  <2>4. Len(route'[s]) <= RouteDepth /\ IsInjective(route'[s])
    BY ZenonT(40), <1>1, <1>2 DEF InOrder
  <2> QED  BY ZenonT(40), <1>4, <2>1, <2>2, <2>3, <2>4 DEF InOrder
<1>8. OneSpot'
  <2>1. "hand" \in Places /\ "flight" \in Places /\ {h} \subseteq Spots["hand"]
    BY Zenon, <1>5 DEF Places, Spots
  <2>2. Queued' = Queued /\ KeptBack' = KeptBack /\ Recorded' = Recorded
    BY Zenon, <1>1 DEF Queued, KeptBack, Recorded
  <2>3. Moving("hand", "flight", {h})
    BY Zenon, <1>1, <1>5, <1>6, <2>2, UnseenByRouter DEF Moving, Shifted
  <2>4. emitted' = emitted /\ rpc' = rpc  BY Zenon, <1>1, UnseenByRouter
  <2> QED  BY ZenonT(40), <1>2, <2>1, <2>3, <2>4, MoveSpot
<1>9. WalkInv'  BY Zenon, <1>1, <1>2, WalkUnchanged
<1>10. Len(route'[s]) <= Len(route[s])
  BY <1>1, <1>2 DEF Framed
<1> QED
  BY Zenon, <1>1, <1>2, <1>4, <1>7, <1>8, <1>9, <1>10, OneScanner, UnseenByRouter DEF Framed

(* Unasked, Drain, and a pool that stops with a target in hand: the first  *)
(* of the channel is recorded.                                             *)
LEMMA RecordFirst ==
  ASSUME PhaseInv, NEW s \in Scanners, Pops(s), Records(Head(route[s])),
         UNCHANGED <<vars, router, open, hand, asking, heldBack, panicked>>,
         \/ spc' = spc
         \/ s \notin Raw /\ Goes(s, "run", "close")
  PROVE  PhaseInv'
<1>1. /\ UNCHANGED <<vars, router>> /\ open' = open /\ hand' = hand
      /\ asking' = asking /\ heldBack' = heldBack /\ panicked' = panicked
  OBVIOUS
<1>2. PICK h \in Positions : h = Head(route[s])  BY Zenon, PopsOne
<1>3. /\ h \in Queued /\ RouteOf[h] = s /\ Queued' = Queued \ {h}
      /\ route' \in [Scanners -> Seq(Positions)]
      /\ \A t \in Scanners : t # s => route'[t] = route[t]
      /\ Len(route'[s]) <= Len(route[s]) /\ Len(route'[s]) <= RouteDepth
      /\ IsInjective(route'[s]) /\ Range(route'[s]) \subseteq Range(route[s])
  BY Zenon, <1>2, PopsOne
<1>4. WalkInv /\ Framed /\ OneSpot /\ InOrder(s)  BY Zenon DEF PhaseInv
<1>5. /\ "queue" \in Places /\ "recorded" \in Places /\ h \in Spots["queue"]
  BY ZenonT(40), <1>3 DEF Places, Spots
<1>6. recorded' \in [Positions -> {0, 1}] /\ Recorded' = Recorded \cup {h}
  <2>1. Records(h)  BY Zenon, <1>2
  <2> QED  BY Zenon, <1>4, <1>5, <2>1, RecordsOne
<1>7. /\ spc' \in [Scanners -> Stations]
      /\ \A t \in Scanners : t # s => spc'[t] = spc[t]
      /\ \A t \in Scanners : spc'[t] \in {"admit", "readmit"} => spc'[t] = spc[t]
      /\ \A t \in Scanners : spc[t] \in {"admit", "readmit"} => spc'[t] = spc[t]
      /\ spc'[s] = spc[s] \/ (spc'[s] = "close" /\ s \notin Raw)
  BY Zenon, <1>4 DEF Framed, Stations, Goes
<1>8. InOrder(s)'
  <2>1. \A p \in Range(route'[s]) \cup asking'[s] \cup heldBack'[s] : RouteOf[p] = s
    BY ZenonT(40), <1>1, <1>3, <1>4 DEF InOrder
  <2>2. /\ asking'[s] # {} => spc'[s] \in InFlightWhile(s)
        /\ heldBack'[s] # {} => s \notin Raw /\ spc'[s] \in InFlightWhile(s)
    BY ZenonT(40), <1>1, <1>4, <1>7 DEF InFlightWhile, InOrder
  <2>3. Cardinality(asking'[s]) <= Limit  BY ZenonT(40), <1>1, <1>4 DEF InOrder
  <2>4. /\ spc'[s] \in {"admit", "readmit"} => hand'[s] \in Positions /\ RouteOf[hand'[s]] = s
        /\ spc'[s] \in {"admit", "pool", "again", "readmit"} => s \notin Raw
        /\ spc'[s] \in {"refuse", "interrupt"} => s \in Raw
    BY ZenonT(40), <1>1, <1>4, <1>7 DEF InOrder
  <2> QED  BY ZenonT(40), <1>3, <2>1, <2>2, <2>3, <2>4 DEF InOrder
<1>9. OneSpot'
  <2>1. InFlight' = InFlight /\ InHand' = InHand /\ KeptBack' = KeptBack
    BY ZenonT(40), <1>1, <1>7 DEF InFlight, InHand, KeptBack
  <2>2. Moving("queue", "recorded", {h})
    BY Zenon, <1>1, <1>3, <1>6, <2>1, UnseenByRouter DEF Moving, Shifted
  <2>3. emitted' = emitted /\ rpc' = rpc  BY Zenon, <1>1, UnseenByRouter
  <2> QED  BY ZenonT(40), <1>4, <1>5, <2>2, <2>3, MoveSpot
<1>10. WalkInv'  BY Zenon, <1>1, <1>4, WalkUnchanged
<1> QED
  BY ZenonT(40), <1>1, <1>3, <1>4, <1>6, <1>7, <1>8, <1>9, <1>10, OneScanner, UnseenByRouter
  DEF Framed

(* A probe that resolves, or panics: out of flight, and recorded or not.   *)
LEMMA OutOfFlight ==
  ASSUME PhaseInv, NEW s \in Scanners, NEW p \in asking[s],
         asking' = [asking EXCEPT ![s] = @ \ {p}]
  PROVE  /\ p \in Positions /\ p \in InFlight /\ InFlight' = InFlight \ {p}
         /\ asking' \in [Scanners -> SUBSET Positions]
         /\ asking'[s] = asking[s] \ {p}
         /\ \A t \in Scanners : t # s => asking'[t] = asking[t]
         /\ Cardinality(asking'[s]) <= Limit
<1>1. Framed /\ InOrder(s)  BY Zenon DEF PhaseInv
<1>2. /\ p \in Positions /\ p \in InFlight
      /\ asking' \in [Scanners -> SUBSET Positions]
      /\ asking'[s] = asking[s] \ {p}
      /\ \A t \in Scanners : t # s => asking'[t] = asking[t]
  BY Zenon, <1>1 DEF Framed, InFlight
<1>3. \A t \in Scanners : t # s => p \notin asking[t]
  <2>1. \A t \in Scanners : \A q \in asking[t] : RouteOf[q] = t
    BY Zenon DEF PhaseInv, InOrder
  <2> QED  BY Zenon, <2>1
<1>4. InFlight' = InFlight \ {p}
  BY <1>2, <1>3 DEF InFlight
<1>5. Cardinality(asking'[s]) <= Limit
  <2>1. asking[s] \in SUBSET Positions /\ asking'[s] \in SUBSET asking[s]
    BY Zenon, <1>1, <1>2 DEF Framed
  <2>2. Cardinality(asking'[s]) <= Cardinality(asking[s])  BY Zenon, <2>1, PlanCounts
  <2>3. Cardinality(asking[s]) \in Nat /\ Cardinality(asking'[s]) \in Nat
    BY <2>1, PlanCounts
  <2>4. Cardinality(asking[s]) <= Limit /\ Limit \in Nat
    BY Zenon, <1>1, RoutingAssumption DEF InOrder
  <2> QED  BY <2>2, <2>3, <2>4
<1> QED  BY Zenon, <1>2, <1>4, <1>5

LEMMA ResolveStep ==
  ASSUME PhaseInv, NEW s \in Scanners, NEW p \in Positions, Resolve(s, p)
  PROVE  PhaseInv'
<1>1. /\ p \in asking[s] /\ asking' = [asking EXCEPT ![s] = @ \ {p}] /\ Records(p)
      /\ Settle(p) \/ UNCHANGED vars
      /\ UNCHANGED router /\ route' = route /\ open' = open /\ spc' = spc
      /\ hand' = hand /\ heldBack' = heldBack /\ panicked' = panicked
  BY Zenon DEF Resolve
<1>2. WalkInv /\ Framed /\ OneSpot /\ InOrder(s)  BY Zenon DEF PhaseInv
<1>3. /\ emitted' = emitted /\ chan' = chan /\ wpc' = wpc /\ listening' = listening
  BY Zenon, <1>1 DEF Settle, walk, vars
<1>4. WalkInv'
  <2>1. CASE Settle(p)  BY Zenon, <1>2, <2>1, ConsumerStep
  <2>2. CASE UNCHANGED vars  BY Zenon, <1>2, <2>2, WalkUnchanged
  <2> QED  BY Zenon, <1>1, <2>1, <2>2
<1>5. /\ p \in InFlight /\ InFlight' = InFlight \ {p}
      /\ asking' \in [Scanners -> SUBSET Positions]
      /\ asking'[s] = asking[s] \ {p}
      /\ \A t \in Scanners : t # s => asking'[t] = asking[t]
      /\ Cardinality(asking'[s]) <= Limit
  BY ZenonT(40), <1>1, OutOfFlight
<1>6. "flight" \in Places /\ "recorded" \in Places /\ p \in Spots["flight"]
  BY Zenon, <1>5 DEF Places, Spots
<1>7. recorded' \in [Positions -> {0, 1}] /\ Recorded' = Recorded \cup {p}
  BY ZenonT(40), <1>1, <1>2, <1>6, RecordsOne
<1>8. InOrder(s)'
  BY ZenonT(40), <1>1, <1>2, <1>5 DEF InOrder
<1>9. OneSpot'
  <2>1. /\ Queued' = Queued /\ InHand' = InHand /\ KeptBack' = KeptBack /\ rpc' = rpc
        /\ Range(chan)' = Range(chan) /\ InRouter' = InRouter
    BY ZenonT(40), <1>1, <1>3 DEF Queued, InHand, KeptBack, InRouter, router
  <2>2. Moving("flight", "recorded", {p})
    BY Zenon, <1>1, <1>5, <1>7, <2>1 DEF Moving, Shifted
  <2> QED  BY ZenonT(40), <1>2, <1>3, <1>6, <2>1, <2>2, MoveSpot
<1>10. Len(route'[s]) <= Len(route[s])
  BY <1>1, <1>2 DEF Framed
<1> QED
  BY Zenon, <1>1, <1>2, <1>3, <1>4, <1>5, <1>7, <1>8, <1>9, <1>10, OneScanner DEF Framed

LEMMA PanicStep ==
  ASSUME PhaseInv, NEW s \in Scanners, NEW p \in Positions, Panic(s, p)
  PROVE  PhaseInv'
<1>1. /\ p \in asking[s] /\ asking' = [asking EXCEPT ![s] = @ \ {p}]
      /\ panicked' = panicked \cup {p} /\ heldBack' = heldBack
      /\ UNCHANGED <<vars, router>> /\ route' = route /\ open' = open /\ spc' = spc
      /\ hand' = hand /\ recorded' = recorded
  BY Zenon DEF Panic
<1>2. WalkInv /\ Framed /\ OneSpot /\ InOrder(s)  BY Zenon DEF PhaseInv
<1>3. /\ p \in InFlight /\ InFlight' = InFlight \ {p}
      /\ asking' \in [Scanners -> SUBSET Positions]
      /\ asking'[s] = asking[s] \ {p}
      /\ \A t \in Scanners : t # s => asking'[t] = asking[t]
      /\ Cardinality(asking'[s]) <= Limit
  BY ZenonT(40), <1>1, OutOfFlight
<1>4. "flight" \in Places /\ "panicked" \in Places /\ {p} \subseteq Spots["flight"]
  BY Zenon, <1>3 DEF Places, Spots
<1>5. InOrder(s)'
  BY ZenonT(40), <1>1, <1>2, <1>3 DEF InOrder
<1>6. OneSpot'
  <2>1. /\ Queued' = Queued /\ InHand' = InHand /\ KeptBack' = KeptBack
        /\ Recorded' = Recorded
    BY ZenonT(40), <1>1 DEF Queued, InHand, KeptBack, Recorded
  <2>2. Moving("flight", "panicked", {p})
    BY Zenon, <1>1, <1>3, <2>1, UnseenByRouter DEF Moving, Shifted
  <2>3. emitted' = emitted /\ rpc' = rpc  BY Zenon, <1>1, UnseenByRouter
  <2> QED  BY ZenonT(40), <1>2, <1>4, <2>2, <2>3, MoveSpot
<1>7. WalkInv'  BY Zenon, <1>1, <1>2, WalkUnchanged
<1>8. Len(route'[s]) <= Len(route[s]) /\ panicked' \subseteq Positions
  BY <1>1, <1>2 DEF Framed
<1> QED
  BY Zenon, <1>1, <1>2, <1>3, <1>5, <1>6, <1>7, <1>8, OneScanner, UnseenByRouter DEF Framed

(* A port kept back gives up its room.                                     *)
LEMMA HoldDownStep ==
  ASSUME PhaseInv, NEW s \in Scanners, NEW p \in Positions, HoldDown(s, p)
  PROVE  PhaseInv'
<1>1. /\ p \in asking[s] /\ asking' = [asking EXCEPT ![s] = @ \ {p}]
      /\ heldBack' = [heldBack EXCEPT ![s] = @ \cup {p}]
      /\ spc[s] \in {"admit", "pool"}
      /\ UNCHANGED <<vars, router>> /\ route' = route /\ open' = open /\ spc' = spc
      /\ hand' = hand /\ panicked' = panicked /\ recorded' = recorded
  BY Zenon DEF HoldDown
<1>2. WalkInv /\ Framed /\ OneSpot /\ InOrder(s)  BY Zenon DEF PhaseInv
<1>3. /\ p \in InFlight /\ InFlight' = InFlight \ {p}
      /\ asking' \in [Scanners -> SUBSET Positions]
      /\ asking'[s] = asking[s] \ {p}
      /\ \A t \in Scanners : t # s => asking'[t] = asking[t]
      /\ Cardinality(asking'[s]) <= Limit
  BY ZenonT(40), <1>1, OutOfFlight
<1>4. /\ heldBack' \in [Scanners -> SUBSET Positions]
      /\ heldBack'[s] = heldBack[s] \cup {p}
      /\ \A t \in Scanners : t # s => heldBack'[t] = heldBack[t]
  BY Zenon, <1>1, <1>2 DEF Framed
<1>5. KeptBack' = KeptBack \cup {p}  BY Zenon, <1>4 DEF KeptBack
<1>6. "flight" \in Places /\ "held" \in Places /\ {p} \subseteq Spots["flight"]
  BY Zenon, <1>3 DEF Places, Spots
<1>7. InOrder(s)'
  <2>1. \A q \in Range(route'[s]) \cup asking'[s] \cup heldBack'[s] : RouteOf[q] = s
    BY ZenonT(40), <1>1, <1>2, <1>3, <1>4 DEF InOrder
  <2>2. s \notin Raw /\ spc'[s] \in InFlightWhile(s)
    BY Zenon, <1>1, <1>2 DEF InOrder, InFlightWhile
  <2>3. Len(route'[s]) <= RouteDepth /\ IsInjective(route'[s])
    BY ZenonT(40), <1>1, <1>2 DEF InOrder
  <2>4. spc'[s] \in {"admit", "readmit"} => hand'[s] \in Positions /\ RouteOf[hand'[s]] = s
    BY ZenonT(40), <1>1, <1>2 DEF InOrder
  <2>5. spc'[s] \notin {"refuse", "interrupt"}  BY Zenon, <1>1
  <2> QED  BY ZenonT(40), <1>3, <2>1, <2>2, <2>3, <2>4, <2>5 DEF InOrder
<1>8. OneSpot'
  <2>1. Queued' = Queued /\ InHand' = InHand /\ Recorded' = Recorded
    BY ZenonT(40), <1>1 DEF Queued, InHand, Recorded
  <2>2. Moving("flight", "held", {p})
    BY Zenon, <1>1, <1>3, <1>5, <2>1, UnseenByRouter DEF Moving, Shifted
  <2>3. emitted' = emitted /\ rpc' = rpc  BY Zenon, <1>1, UnseenByRouter
  <2> QED  BY ZenonT(40), <1>2, <1>6, <2>2, <2>3, MoveSpot
<1>9. WalkInv'  BY Zenon, <1>1, <1>2, WalkUnchanged
<1>10. Len(route'[s]) <= Len(route[s])
  BY <1>1, <1>2 DEF Framed
<1> QED
  BY Zenon, <1>1, <1>2, <1>3, <1>4, <1>7, <1>8, <1>9, <1>10, OneScanner, UnseenByRouter
  DEF Framed

(* A port that was kept back is so no longer: asked again, or recorded.    *)
LEMMA NoLongerHeld ==
  ASSUME PhaseInv, NEW s \in Scanners, NEW p \in heldBack[s],
         heldBack' = [heldBack EXCEPT ![s] = @ \ {p}]
  PROVE  /\ p \in Positions /\ RouteOf[p] = s /\ s \notin Raw
         /\ p \in KeptBack /\ KeptBack' = KeptBack \ {p}
         /\ heldBack' \in [Scanners -> SUBSET Positions]
         /\ heldBack'[s] = heldBack[s] \ {p}
         /\ \A t \in Scanners : t # s => heldBack'[t] = heldBack[t]
<1>1. Framed /\ InOrder(s)  BY Zenon DEF PhaseInv
<1>2. /\ p \in Positions /\ p \in KeptBack
      /\ heldBack' \in [Scanners -> SUBSET Positions]
      /\ heldBack'[s] = heldBack[s] \ {p}
      /\ \A t \in Scanners : t # s => heldBack'[t] = heldBack[t]
  BY Zenon, <1>1 DEF Framed, KeptBack
<1>3. \A t \in Scanners : t # s => p \notin heldBack[t]
  <2>1. \A t \in Scanners : \A q \in heldBack[t] : RouteOf[q] = t
    BY Zenon DEF PhaseInv, InOrder
  <2> QED  BY Zenon, <2>1
<1>4. KeptBack' = KeptBack \ {p}
  BY <1>2, <1>3 DEF KeptBack
<1>5. RouteOf[p] = s /\ s \notin Raw  BY Zenon, <1>1 DEF InOrder
<1> QED  BY Zenon, <1>2, <1>4, <1>5

LEMMA AskAgainStep ==
  ASSUME PhaseInv, NEW s \in Scanners, AskAgain(s)
  PROVE  PhaseInv'
<1>1. /\ spc[s] = "again" /\ spc' = [spc EXCEPT ![s] = "readmit"]
      /\ UNCHANGED <<vars, router>> /\ route' = route /\ open' = open
      /\ asking' = asking /\ panicked' = panicked /\ recorded' = recorded
  BY Zenon DEF AskAgain, Goes
<1>2. PICK p \in heldBack[s] : /\ hand' = [hand EXCEPT ![s] = p]
                              /\ heldBack' = [heldBack EXCEPT ![s] = @ \ {p}]
  BY Zenon DEF AskAgain
<1>3. /\ p \in Positions /\ RouteOf[p] = s /\ s \notin Raw
      /\ p \in KeptBack /\ KeptBack' = KeptBack \ {p}
      /\ heldBack' \in [Scanners -> SUBSET Positions]
      /\ heldBack'[s] = heldBack[s] \ {p}
      /\ \A t \in Scanners : t # s => heldBack'[t] = heldBack[t]
  BY ZenonT(40), <1>2, NoLongerHeld
<1>4. WalkInv /\ Framed /\ OneSpot /\ InOrder(s)  BY Zenon DEF PhaseInv
<1>5. /\ hand' \in [Scanners -> Positions \cup {None}] /\ hand'[s] = p
      /\ spc' \in [Scanners -> Stations] /\ spc'[s] = "readmit"
      /\ \A t \in Scanners : t # s => hand'[t] = hand[t] /\ spc'[t] = spc[t]
  BY Zenon, <1>1, <1>2, <1>3, <1>4 DEF Framed, Stations
<1>6. InHand' = InHand \cup {p}
  BY <1>1, <1>5 DEF InHand
<1>7. InOrder(s)'
  <2>1. \A q \in Range(route'[s]) \cup asking'[s] \cup heldBack'[s] : RouteOf[q] = s
    BY Zenon, <1>1, <1>3, <1>4 DEF InOrder
  <2>2. "readmit" \in InFlightWhile(s)  BY Zenon, <1>3 DEF InFlightWhile
  <2>3. Cardinality(asking'[s]) <= Limit  BY ZenonT(40), <1>1, <1>4 DEF InOrder
  <2>4. Len(route'[s]) <= RouteDepth /\ IsInjective(route'[s])
    BY ZenonT(40), <1>1, <1>4 DEF InOrder
  <2> QED  BY ZenonT(40), <1>3, <1>5, <2>1, <2>2, <2>3, <2>4 DEF InOrder
<1>8. OneSpot'
  <2>1. "held" \in Places /\ "hand" \in Places /\ {p} \subseteq Spots["held"]
    BY ZenonT(40), <1>3 DEF Places, Spots
  <2>2. InFlight' = InFlight /\ Queued' = Queued /\ Recorded' = Recorded
    BY ZenonT(40), <1>1 DEF InFlight, Queued, Recorded
  <2>3. Moving("held", "hand", {p})
    BY Zenon, <1>1, <1>3, <1>6, <2>2, UnseenByRouter DEF Moving, Shifted
  <2>4. emitted' = emitted /\ rpc' = rpc  BY Zenon, <1>1, UnseenByRouter
  <2> QED  BY ZenonT(40), <1>4, <2>1, <2>3, <2>4, MoveSpot
<1>9. WalkInv'  BY Zenon, <1>1, <1>4, WalkUnchanged
<1>10. Len(route'[s]) <= Len(route[s])
  BY <1>1, <1>4 DEF Framed
<1> QED
  BY Zenon, <1>1, <1>3, <1>4, <1>5, <1>7, <1>8, <1>9, <1>10, OneScanner, UnseenByRouter
  DEF Framed

LEMMA HeldUnaskedStep ==
  ASSUME PhaseInv, NEW s \in Scanners, HeldUnasked(s)
  PROVE  PhaseInv'
<1>1. /\ spc[s] = "again" /\ spc' = spc /\ hand' = hand
      /\ UNCHANGED <<vars, router>> /\ route' = route /\ open' = open
      /\ asking' = asking /\ panicked' = panicked
  BY Zenon DEF HeldUnasked
<1>2. PICK p \in heldBack[s] : /\ Records(p)
                              /\ heldBack' = [heldBack EXCEPT ![s] = @ \ {p}]
  BY Zenon DEF HeldUnasked
<1>3. /\ p \in Positions /\ RouteOf[p] = s /\ s \notin Raw
      /\ p \in KeptBack /\ KeptBack' = KeptBack \ {p}
      /\ heldBack' \in [Scanners -> SUBSET Positions]
      /\ heldBack'[s] = heldBack[s] \ {p}
      /\ \A t \in Scanners : t # s => heldBack'[t] = heldBack[t]
  BY ZenonT(40), <1>2, NoLongerHeld
<1>4. WalkInv /\ Framed /\ OneSpot /\ InOrder(s)  BY Zenon DEF PhaseInv
<1>5. "held" \in Places /\ "recorded" \in Places /\ p \in Spots["held"]
  BY Zenon, <1>3 DEF Places, Spots
<1>6. recorded' \in [Positions -> {0, 1}] /\ Recorded' = Recorded \cup {p}
  BY ZenonT(40), <1>2, <1>3, <1>4, <1>5, RecordsOne
<1>7. InOrder(s)'
  <2>1. \A q \in Range(route'[s]) \cup asking'[s] \cup heldBack'[s] : RouteOf[q] = s
    BY Zenon, <1>1, <1>3, <1>4 DEF InOrder
  <2>2. "again" \in InFlightWhile(s)  BY Zenon, <1>3 DEF InFlightWhile
  <2>3. Cardinality(asking'[s]) <= Limit  BY ZenonT(40), <1>1, <1>4 DEF InOrder
  <2>4. Len(route'[s]) <= RouteDepth /\ IsInjective(route'[s])
    BY ZenonT(40), <1>1, <1>4 DEF InOrder
  <2> QED  BY ZenonT(40), <1>1, <1>3, <2>1, <2>2, <2>3, <2>4 DEF InOrder
<1>8. OneSpot'
  <2>1. InFlight' = InFlight /\ Queued' = Queued /\ InHand' = InHand
    BY ZenonT(40), <1>1 DEF InFlight, Queued, InHand
  <2>2. Moving("held", "recorded", {p})
    BY Zenon, <1>1, <1>3, <1>6, <2>1, UnseenByRouter DEF Moving, Shifted
  <2>3. emitted' = emitted /\ rpc' = rpc  BY Zenon, <1>1, UnseenByRouter
  <2> QED  BY ZenonT(40), <1>4, <1>5, <2>2, <2>3, MoveSpot
<1>9. WalkInv'  BY Zenon, <1>1, <1>4, WalkUnchanged
<1>10. Len(route'[s]) <= Len(route[s])
  BY <1>1, <1>4 DEF Framed
<1> QED
  BY Zenon, <1>1, <1>3, <1>4, <1>6, <1>7, <1>8, <1>9, <1>10, OneScanner, UnseenByRouter
  DEF Framed

(* A scanner goes from one station to another with its targets: not to or  *)
(* from waiting for room, and to its end with none in flight or kept back. *)
LEMMA StationStep ==
  ASSUME PhaseInv, NEW s \in Scanners, NEW from,
         NEW to \in Stations \ {"admit", "readmit"}, from \notin {"admit", "readmit"},
         Goes(s, from, to), open' \subseteq Scanners,
         UNCHANGED <<vars, router, route, hand, asking, heldBack, panicked, recorded>>,
         to \in {"pool", "again"} => s \notin Raw,
         to \in {"refuse", "interrupt"} => s \in Raw,
         asking[s] # {} => to \in InFlightWhile(s),
         heldBack[s] # {} => to \in InFlightWhile(s)
  PROVE  PhaseInv'
<1>1. /\ UNCHANGED <<vars, router>> /\ route' = route /\ hand' = hand
      /\ asking' = asking /\ heldBack' = heldBack /\ panicked' = panicked /\ recorded' = recorded
      /\ spc[s] = from /\ spc' = [spc EXCEPT ![s] = to]
  BY Zenon DEF Goes
<1>2. WalkInv /\ Framed /\ OneSpot /\ InOrder(s)  BY Zenon DEF PhaseInv
<1>3. /\ spc' \in [Scanners -> Stations] /\ spc'[s] = to
      /\ \A t \in Scanners : t # s => spc'[t] = spc[t]
      /\ \A t \in Scanners : spc'[t] \in {"admit", "readmit"} => spc'[t] = spc[t]
      /\ \A t \in Scanners : spc[t] \in {"admit", "readmit"} => spc'[t] = spc[t]
  BY Zenon, <1>1, <1>2 DEF Framed
<1>4. InOrder(s)'
  BY ZenonT(40), <1>1, <1>2, <1>3 DEF InOrder
<1>5. OneSpot'
  <2>0. hand' = hand  BY Zenon, <1>1
  <2>1. /\ Queued' = Queued /\ InHand' = InHand /\ InFlight' = InFlight
        /\ KeptBack' = KeptBack /\ Recorded' = Recorded
    <3>1. InHand' = InHand  BY <1>3, <2>0 DEF InHand
    <3> QED  BY Zenon, <1>1, <3>1 DEF Queued, InFlight, KeptBack, Recorded
  <2> QED  BY ZenonT(40), <1>1, <1>2, <2>1, UnseenByRouter, KeepSpots
<1>6. WalkInv'  BY Zenon, <1>1, <1>2, WalkUnchanged
<1>7. Len(route'[s]) <= Len(route[s])
  BY <1>1, <1>2 DEF Framed
<1> QED
  BY Zenon, <1>1, <1>2, <1>3, <1>4, <1>5, <1>6, <1>7, OneScanner, UnseenByRouter DEF Framed

(* Everything in flight is recorded at once: resolve_remaining.            *)
LEMMA InterruptStep ==
  ASSUME PhaseInv, NEW s \in Scanners, Interrupt(s)
  PROVE  PhaseInv'
<1>1. /\ spc[s] = "interrupt" /\ spc' = [spc EXCEPT ![s] = "close"]
      /\ recorded' = [p \in Positions |->
                        IF p \in asking[s] THEN recorded[p] + 1 ELSE recorded[p]]
      /\ asking' = [asking EXCEPT ![s] = {}]
      /\ UNCHANGED <<vars, router>> /\ route' = route /\ open' = open /\ hand' = hand
      /\ heldBack' = heldBack /\ panicked' = panicked
  BY Zenon DEF Interrupt, Goes
<1>2. WalkInv /\ Framed /\ OneSpot /\ InOrder(s)  BY Zenon DEF PhaseInv
<1>3. /\ spc' \in [Scanners -> Stations] /\ spc'[s] = "close"
      /\ \A t \in Scanners : t # s => spc'[t] = spc[t] /\ asking'[t] = asking[t]
      /\ \A t \in Scanners : spc'[t] \in {"admit", "readmit"} => spc'[t] = spc[t]
      /\ \A t \in Scanners : spc[t] \in {"admit", "readmit"} => spc'[t] = spc[t]
      /\ asking' \in [Scanners -> SUBSET Positions] /\ asking'[s] = {}
  BY Zenon, <1>1, <1>2 DEF Framed, Stations
<1>4. PICK P \in SUBSET Positions : P = asking[s]  BY Zenon, <1>2 DEF Framed
<1>5. /\ "flight" \in Places /\ "recorded" \in Places /\ P \subseteq Spots["flight"]
      /\ InFlight' = InFlight \ P
  <2>1. \A t \in Scanners : t # s => asking[t] \cap P = {}
    BY <1>4 DEF PhaseInv, InOrder
  <2>2. P \subseteq InFlight  BY Zenon, <1>4 DEF InFlight
  <2>3. InFlight' = InFlight \ P  BY <1>3, <1>4, <2>1 DEF InFlight
  <2> QED  BY ZenonT(40), <2>2, <2>3 DEF Places, Spots
<1>6. recorded' \in [Positions -> {0, 1}] /\ Recorded' = Recorded \cup P
  BY Zenon, <1>1, <1>2, <1>4, <1>5, RecordsOnce
<1>7. InOrder(s)'
  <2>1. Cardinality(asking'[s]) <= Limit
    BY <1>3, FS_EmptySet, RoutingAssumption
  <2> QED  BY ZenonT(40), <1>1, <1>2, <1>3, <2>1 DEF InOrder
<1>8. OneSpot'
  <2>0. hand' = hand  BY Zenon, <1>1
  <2>1. Queued' = Queued /\ InHand' = InHand /\ KeptBack' = KeptBack
    <3>1. InHand' = InHand  BY <1>3, <2>0 DEF InHand
    <3> QED  BY Zenon, <1>1, <3>1 DEF Queued, KeptBack
  <2>2. Moving("flight", "recorded", P)
    BY Zenon, <1>1, <1>5, <1>6, <2>1, UnseenByRouter DEF Moving, Shifted
  <2>3. emitted' = emitted /\ rpc' = rpc  BY Zenon, <1>1, UnseenByRouter
  <2> QED  BY Zenon, <1>2, <1>5, <2>2, <2>3, MoveSpot
<1>9. WalkInv'  BY Zenon, <1>1, <1>2, WalkUnchanged
<1>10. Len(route'[s]) <= Len(route[s])
  BY <1>1, <1>2 DEF Framed
<1> QED
  BY Zenon, <1>1, <1>2, <1>3, <1>6, <1>7, <1>8, <1>9, <1>10, OneScanner, UnseenByRouter
  DEF Framed

LEMMA ScannerStep ==
  ASSUME PhaseInv, NEW s \in Scanners, Scanner(s) \/ Mishap(s)
  PROVE  PhaseInv'
<1>0. InOrder(s) /\ open \subseteq Scanners  BY Zenon DEF PhaseInv, Framed
<1>1. CASE Ask(s)  BY Zenon, <1>1, AskStep
<1>2. CASE TakeInHand(s)  BY Zenon, <1>2, TakeInHandStep
<1>3. CASE Admit(s)  BY Zenon, <1>3, AdmitStep
<1>4. CASE \E p \in Positions : Resolve(s, p)  BY Zenon, <1>4, ResolveStep
<1>5. CASE \E p \in Positions : Panic(s, p)  BY Zenon, <1>5, PanicStep
<1>6. CASE Unasked(s)
  BY Zenon, <1>6, RecordFirst DEF Unasked
<1>7. CASE Drain(s)
  BY Zenon, <1>7, RecordFirst DEF Drain
<1>8. CASE RawStops(s)
  <2>1. heldBack[s] = {}  BY Zenon, <1>0, <1>8 DEF InOrder, RawStops
  <2> QED  BY ZenonT(40), <1>0, <1>8, <2>1, StationStep DEF RawStops, Stations, InFlightWhile
<1>9. CASE RefuseEnds(s)
  <2>1. spc[s] = "refuse"  BY Zenon, <1>9 DEF RefuseEnds, Goes
  <2>2. asking[s] = {} /\ heldBack[s] = {}
    BY Zenon, <1>0, <2>1 DEF InOrder, InFlightWhile
  <2> QED  BY Zenon, <1>0, <1>9, <2>2, StationStep DEF RefuseEnds, Stations
<1>10. CASE Interrupt(s)  BY Zenon, <1>10, InterruptStep
<1>11. CASE PoolStops(s)
  <2>1. CASE Pops(s) /\ Records(Head(route[s]))
    BY Zenon, <1>11, <2>1, RecordFirst DEF PoolStops
  <2>2. CASE UNCHANGED <<route, recorded>>
    BY ZenonT(40), <1>0, <1>11, <2>2, StationStep DEF PoolStops, Stations, InFlightWhile
  <2> QED  BY Zenon, <1>11, <2>1, <2>2 DEF PoolStops
<1>12. CASE Close(s)
  <2>1. spc[s] = "close"  BY Zenon, <1>12 DEF Close, Goes
  <2>2. asking[s] # {} \/ heldBack[s] # {} => "drain" \in InFlightWhile(s)
    BY Zenon, <1>0, <2>1 DEF InOrder, InFlightWhile
  <2>3. open' \subseteq Scanners  BY Zenon, <1>0, <1>12 DEF Close
  <2> QED  BY Zenon, <1>12, <2>2, <2>3, StationStep DEF Close, Stations
<1>13. CASE DrainEnds(s)
  <2>1. spc[s] = "drain"  BY Zenon, <1>13 DEF DrainEnds, Goes
  <2>2. asking[s] # {} \/ heldBack[s] # {} => s \notin Raw
    BY Zenon, <1>0, <2>1 DEF InOrder, InFlightWhile
  <2>3. PICK to \in {"done", "pool"} :
          to = (IF s \in Raw THEN "done" ELSE "pool") /\ Goes(s, "drain", to)
    BY Zenon, <1>13 DEF DrainEnds
  <2>4. asking[s] # {} \/ heldBack[s] # {} => to \in InFlightWhile(s)
    BY Zenon, <2>2, <2>3 DEF InFlightWhile
  <2>5. UNCHANGED <<vars, router, route, open, hand, asking, heldBack, panicked, recorded>>
    BY Zenon, <1>13 DEF DrainEnds
  <2> QED  BY Zenon, <1>0, <2>3, <2>4, <2>5, StationStep DEF Stations
<1>14. CASE PoolDrained(s)
  <2>1. spc[s] = "pool"  BY Zenon, <1>14 DEF PoolDrained, Goes
  <2>2. s \notin Raw /\ "again" \in InFlightWhile(s)
    BY Zenon, <1>0, <2>1 DEF InOrder, InFlightWhile
  <2> QED  BY Zenon, <1>0, <1>14, <2>2, StationStep DEF PoolDrained, Stations
<1>15. CASE AskedAgain(s)
  BY Zenon, <1>0, <1>15, StationStep DEF AskedAgain, Stations
<1>16. CASE \E p \in Positions : HoldDown(s, p)  BY Zenon, <1>16, HoldDownStep
<1>17. CASE AskAgain(s)  BY Zenon, <1>17, AskAgainStep
<1>18. CASE HeldUnasked(s)  BY Zenon, <1>18, HeldUnaskedStep
<1> QED
  BY Zenon, <1>1, <1>2, <1>3, <1>4, <1>5, <1>6, <1>7, <1>8, <1>9, <1>10, <1>11, <1>12,
     <1>13, <1>14, <1>15, <1>16, <1>17, <1>18
  DEF Scanner, Mishap, RawFinishes

(* A step of the router alone: the scanners' own lots are as they were.    *)
LEMMA OthersInOrder ==
  ASSUME PhaseInv, UNCHANGED <<route, spc, hand, asking, heldBack>>
  PROVE  /\ \A s \in Scanners : InOrder(s)'
         /\ Queued' = Queued /\ InHand' = InHand /\ InFlight' = InFlight
         /\ KeptBack' = KeptBack
<1>1. ASSUME NEW s \in Scanners  PROVE InOrder(s)'
  <2>1. InOrder(s)  BY Zenon DEF PhaseInv
  <2> QED  BY ZenonT(40), <2>1 DEF InOrder
<1>2. Queued' = Queued /\ InHand' = InHand /\ InFlight' = InFlight /\ KeptBack' = KeptBack
  BY Zenon DEF Queued, InHand, InFlight, KeptBack
<1> QED  BY Zenon, <1>1, <1>2

LEMMA RouterTakesStep ==
  ASSUME PhaseInv, RouterTakes
  PROVE  PhaseInv'
<1>1. /\ rpc = "recv" /\ Take /\ chan # <<>> /\ chan' = Tail(chan)
      /\ carried' = Head(chan) /\ rpc' = "route"
      /\ UNCHANGED scanners /\ emitted' = emitted /\ wpc' = wpc
      /\ listening' = listening
  BY Zenon DEF RouterTakes, Take, walk
<1>2. /\ route' = route /\ open' = open /\ spc' = spc /\ hand' = hand
      /\ asking' = asking /\ heldBack' = heldBack /\ panicked' = panicked /\ recorded' = recorded
  BY Zenon, <1>1 DEF scanners
<1>3. WalkInv /\ Framed /\ Routing /\ OneSpot /\ chan \in Seq(Positions)
  BY Zenon DEF PhaseInv, WalkInv, TypeOK
<1>4. PICK h \in Positions : h = Head(chan)  BY Zenon, <1>1, <1>3, TakeFirst
<1>5. h \in Range(chan) /\ Range(chan)' = Range(chan) \ {h} /\ IsInjective(chan')
  BY Zenon, <1>1, <1>3, <1>4, TakeFirst DEF Routing
<1>6. WalkInv'  BY Zenon, <1>1, <1>3, ConsumerStep
<1>7. Framed' /\ Routing'
  BY Zenon, <1>1, <1>2, <1>3, <1>4, <1>5 DEF Framed, Routing
<1>8. InRouter = {} /\ InRouter' = {h} /\ Recorded' = Recorded
  BY Zenon, <1>1, <1>2, <1>4 DEF InRouter, Recorded
<1>9. OneSpot'
  <2>1. "chan" \in Places /\ "router" \in Places /\ {h} \subseteq Spots["chan"]
    BY Zenon, <1>5 DEF Places, Spots
  <2>2. Moving("chan", "router", {h})
    BY Zenon, <1>2, <1>5, <1>8, OthersInOrder DEF Moving, Shifted
  <2> QED  BY Zenon, <1>1, <1>3, <2>1, <2>2, MoveSpot
<1> QED  BY Zenon, <1>2, <1>6, <1>7, <1>9, OthersInOrder DEF PhaseInv

LEMMA UndeliverableStep ==
  ASSUME PhaseInv, Undeliverable
  PROVE  PhaseInv'
<1>1. /\ rpc = "route" /\ Records(carried) /\ rpc' = "recv" /\ carried' = None
      /\ UNCHANGED vars
      /\ route' = route /\ open' = open /\ spc' = spc /\ hand' = hand
      /\ asking' = asking /\ heldBack' = heldBack /\ panicked' = panicked
  BY Zenon DEF Undeliverable
<1>2. WalkInv /\ Framed /\ Routing /\ OneSpot  BY Zenon DEF PhaseInv
<1>3. PICK h \in Positions : h = carried  BY Zenon, <1>1, <1>2 DEF Routing
<1>4. InRouter = {h} /\ InRouter' = {}
  BY Zenon, <1>1, <1>3 DEF InRouter
<1>5. "router" \in Places /\ "recorded" \in Places /\ h \in Spots["router"]
  BY Zenon, <1>4 DEF Places, Spots
<1>6. recorded' \in [Positions -> {0, 1}] /\ Recorded' = Recorded \cup {h}
  BY Zenon, <1>1, <1>2, <1>3, <1>5, RecordsOne
<1>7. WalkInv' /\ emitted' = emitted /\ chan' = chan /\ wpc' = wpc
      /\ listening' = listening
  BY Zenon, <1>1, <1>2, WalkUnchanged DEF vars
<1>8. Framed' /\ Routing'
  BY Zenon, <1>1, <1>2, <1>6, <1>7 DEF Framed, Routing
<1>9. OneSpot'
  <2>1. Range(chan)' = Range(chan)  BY Zenon, <1>7
  <2>2. Moving("router", "recorded", {h})
    BY Zenon, <1>1, <1>4, <1>6, <2>1, OthersInOrder DEF Moving, Shifted
  <2> QED  BY Zenon, <1>1, <1>2, <1>5, <1>7, <2>2, MoveSpot
<1> QED  BY Zenon, <1>1, <1>7, <1>8, <1>9, OthersInOrder DEF PhaseInv

(* The router stands elsewhere, with the same target in its hands.         *)
LEMMA RouterMoves ==
  ASSUME PhaseInv, Permit \/ RouterEnds
  PROVE  PhaseInv'
<1>1. /\ UNCHANGED <<vars, carried, scanners>>
      /\ \/ /\ rpc = "route" /\ rpc' = "push" /\ RouteOf[carried] \in open
            /\ Len(route[RouteOf[carried]]) < RouteDepth
         \/ rpc = "recv" /\ rpc' = "ended" /\ chan = <<>> /\ wpc = "ended"
  BY Zenon DEF Permit, RouterEnds
<1>2. /\ route' = route /\ open' = open /\ spc' = spc /\ hand' = hand
      /\ asking' = asking /\ heldBack' = heldBack /\ panicked' = panicked /\ recorded' = recorded
      /\ carried' = carried /\ UNCHANGED vars
  BY Zenon, <1>1 DEF scanners
<1>3. WalkInv /\ Framed /\ Routing /\ OneSpot  BY Zenon DEF PhaseInv
<1>4. WalkInv' /\ emitted' = emitted /\ chan' = chan /\ wpc' = wpc
      /\ listening' = listening
  BY Zenon, <1>2, <1>3, WalkUnchanged DEF vars
<1>5. InRouter' = InRouter /\ Recorded' = Recorded
  BY Zenon, <1>1, <1>2 DEF InRouter, Recorded
<1>6. Framed' /\ Routing'
  BY Zenon, <1>1, <1>2, <1>3, <1>4 DEF Framed, Routing
<1>7. OneSpot'
  BY Zenon, <1>1, <1>2, <1>3, <1>4, <1>5, OthersInOrder, KeepSpots
<1> QED  BY Zenon, <1>2, <1>4, <1>6, <1>7, OthersInOrder DEF PhaseInv

(* Past its permit a push has the room the permit was given for.           *)
LEMMA PushStep ==
  ASSUME PhaseInv, Push
  PROVE  PhaseInv'
<1>1. /\ rpc = "push" /\ rpc' = "recv" /\ carried' = None
      /\ route' = [route EXCEPT ![RouteOf[carried]] = Append(@, carried)]
      /\ UNCHANGED vars /\ open' = open /\ spc' = spc /\ hand' = hand
      /\ asking' = asking /\ heldBack' = heldBack /\ panicked' = panicked /\ recorded' = recorded
  BY Zenon DEF Push
<1>2. WalkInv /\ Framed /\ Routing /\ OneSpot  BY Zenon DEF PhaseInv
<1>3. PICK h \in Positions : h = carried  BY Zenon, <1>1, <1>2 DEF Routing
<1>4. PICK s \in Scanners : s = RouteOf[h]  BY Zenon, <1>1, <1>2, <1>3 DEF Routing
<1>5. /\ route[s] \in Seq(Positions) /\ Len(route[s]) < RouteDepth
      /\ route'[s] = Append(route[s], h)
      /\ \A t \in Scanners : t # s => route'[t] = route[t]
      /\ DOMAIN route' = Scanners
  BY Zenon, <1>1, <1>2, <1>3, <1>4 DEF Framed, Routing
<1>6. InRouter = {h} /\ InRouter' = {} /\ Recorded' = Recorded
      /\ InHand' = InHand /\ InFlight' = InFlight /\ KeptBack' = KeptBack
  BY Zenon, <1>1, <1>3 DEF InRouter, Recorded, InHand, InFlight, KeptBack
<1>7. h \notin Queued
  <2>1. Spots["router"] = {h} /\ Spots["queue"] = Queued  BY Zenon, <1>6 DEF Spots
  <2>2. Spots["router"] \cap Spots["queue"] = {}  BY Zenon, <1>2 DEF OneSpot, Places
  <2> QED  BY Zenon, <2>1, <2>2
<1>8. IsInjective(route[s]) /\ h \notin Range(route[s])
  BY ZenonT(40), <1>7 DEF PhaseInv, InOrder, Queued
<1>9. /\ route'[s] \in Seq(Positions) /\ Len(route'[s]) = Len(route[s]) + 1
      /\ Range(route'[s]) = Range(route[s]) \cup {h} /\ IsInjective(route'[s])
  BY <1>5, <1>8, AppendNew
<1>10. Queued' = Queued \cup {h}
  BY ZenonT(40), <1>5, <1>9 DEF Queued
<1>11. WalkInv' /\ emitted' = emitted /\ chan' = chan /\ wpc' = wpc
       /\ listening' = listening
  BY Zenon, <1>1, <1>2, WalkUnchanged DEF vars
<1>12. Framed' /\ Routing'
  <2>1. route' \in [Scanners -> Seq(Positions)]
    <3>1. route' = [t \in Scanners |-> route'[t]]
      BY Zenon, <1>1, <1>2 DEF Framed
    <3>2. \A t \in Scanners : route'[t] \in Seq(Positions)
      BY ZenonT(40), <1>2, <1>5, <1>9 DEF Framed
    <3> QED  BY Zenon, <3>1, <3>2
  <2> QED  BY Zenon, <1>1, <1>2, <1>11, <2>1 DEF Framed, Routing
<1>13. ASSUME NEW t \in Scanners  PROVE InOrder(t)'
  <2>1. InOrder(t)  BY Zenon DEF PhaseInv
  <2>2. CASE t # s
    BY Zenon, <1>1, <1>5, <2>1, <2>2 DEF InOrder
  <2>3. CASE t = s
    <3>1. Len(route'[t]) <= RouteDepth
      <4>1. Len(route[s]) \in Nat /\ RouteDepth \in Nat
        BY <1>5, RoutingAssumption
      <4> QED  BY <1>5, <1>9, <2>3, <4>1
    <3>2. \A p \in Range(route'[t]) \cup asking'[t] \cup heldBack'[t] : RouteOf[p] = t
      BY ZenonT(40), <1>1, <1>4, <1>9, <2>1, <2>3 DEF InOrder
    <3> QED  BY ZenonT(40), <1>1, <1>9, <2>1, <2>3, <3>1, <3>2 DEF InOrder
  <2> QED  BY Zenon, <2>2, <2>3
<1>14. OneSpot'
  <2>1. "router" \in Places /\ "queue" \in Places /\ {h} \subseteq Spots["router"]
    BY Zenon, <1>6 DEF Places, Spots
  <2>2. Range(chan)' = Range(chan)  BY Zenon, <1>11
  <2>3. Moving("router", "queue", {h})
    BY Zenon, <1>1, <1>6, <1>10, <2>2 DEF Moving, Shifted
  <2> QED  BY Zenon, <1>1, <1>2, <1>11, <2>1, <2>3, MoveSpot
<1> QED  BY Zenon, <1>11, <1>12, <1>13, <1>14 DEF PhaseInv

LEMMA DropReceiverStep ==
  ASSUME PhaseInv, DropReceiver
  PROVE  PhaseInv'
<1>1. /\ rpc = "drop" /\ rpc' = "dropped" /\ carried' = carried /\ HangUp
      /\ listening' = FALSE /\ chan' = <<>> /\ emitted' = emitted
      /\ UNCHANGED scanners
  BY Zenon DEF DropReceiver, HangUp, walk
<1>2. /\ route' = route /\ open' = open /\ spc' = spc /\ hand' = hand
      /\ asking' = asking /\ heldBack' = heldBack /\ panicked' = panicked /\ recorded' = recorded
  BY Zenon, <1>1 DEF scanners
<1>3. WalkInv /\ Framed /\ Routing /\ OneSpot  BY Zenon DEF PhaseInv
<1>4. WalkInv'  BY Zenon, <1>1, <1>3, ConsumerStep
<1>5. Range(chan)' = {} /\ IsInjective(chan')
  BY <1>1 DEF Range, IsInjective
<1>6. Framed' /\ Routing'
  BY Zenon, <1>1, <1>2, <1>3, <1>5 DEF Framed, Routing
<1>7. OneSpot'
  <2>1. InRouter' = InRouter /\ Recorded' = Recorded
    BY Zenon, <1>1, <1>2 DEF InRouter, Recorded
  <2>2. /\ Queued' = Queued /\ InHand' = InHand /\ InFlight' = InFlight
        /\ KeptBack' = KeptBack
    BY Zenon, <1>2, OthersInOrder
  <2>3. \A z \in Places : Spots'[z] \subseteq Spots[z]
    BY Zenon, <1>2, <1>5, <2>1, <2>2, SpotsAre DEF Places
  <2>4. \A x, y \in Places : x # y => Spots'[x] \cap Spots'[y] = {}
    BY Zenon, <1>3, <2>3 DEF OneSpot
  <2>5. \A x \in Places : Spots'[x] \subseteq Range(emitted)
    BY Zenon, <1>3, <2>3 DEF OneSpot
  <2> QED  BY Zenon, <1>1, <2>4, <2>5 DEF OneSpot
<1> QED  BY Zenon, <1>2, <1>4, <1>6, <1>7, OthersInOrder DEF PhaseInv

(* A send adds to the channel a target that was nowhere.                   *)
LEMMA SendArrives ==
  ASSUME WalkInv, IsInjective(chan), Send
  PROVE  \E p \in Positions :
           /\ p \notin Range(emitted) /\ Range(emitted)' = Range(emitted) \cup {p}
           /\ Range(chan)' = Range(chan) \cup {p} /\ IsInjective(chan')
<1>1. /\ batch \in Seq(Positions) /\ emitted \in Seq(Positions) /\ chan \in Seq(Positions)
      /\ batch # <<>> /\ Range(chan) \subseteq Range(emitted)
      /\ Range(batch) \cap Range(emitted) = {}
  BY Zenon DEF WalkInv, TypeOK, Apart, Left, Send
<1>2. PICK i : /\ i \in DOMAIN batch
               /\ chan' = Append(chan, batch[i])
               /\ emitted' = Append(emitted, batch[i])
  <2>1. 1 \in DOMAIN batch  BY <1>1
  <2>2. (IF shuffled THEN DOMAIN batch ELSE {1}) \subseteq DOMAIN batch  BY Zenon, <2>1
  <2> QED  BY <2>2, Zenon DEF Send
<1>3. PICK p \in Positions : p = batch[i]
  <2>1. batch \in [1 .. Len(batch) -> Positions] /\ DOMAIN batch = 1 .. Len(batch)  BY <1>1
  <2> QED  BY Zenon, <1>2, <2>1
<1>4. p \notin Range(emitted)
  <2>1. p \in Range(batch)  BY Zenon, <1>2, <1>3 DEF Range
  <2> QED  BY Zenon, <1>1, <2>1
<1>5. /\ Range(Append(emitted, p)) = Range(emitted) \cup {p}
      /\ Range(Append(chan, p)) = Range(chan) \cup {p}
      /\ p \notin Range(chan) => IsInjective(Append(chan, p))
  <2>1. emitted \in Seq(Positions) /\ chan \in Seq(Positions)  BY Zenon, <1>1
  <2>2. Range(Append(emitted, p)) = Range(emitted) \cup {p}  BY <2>1, AppendNew
  <2>3. Range(Append(chan, p)) = Range(chan) \cup {p}  BY <2>1, AppendNew
  <2>4. p \notin Range(chan) => IsInjective(Append(chan, p))  BY Zenon, <2>1, AppendNew
  <2> QED  BY Zenon, <2>2, <2>3, <2>4
<1>6. p \notin Range(chan)  BY Zenon, <1>1, <1>4
<1>7. chan' = Append(chan, p) /\ emitted' = Append(emitted, p)  BY Zenon, <1>2, <1>3
<1>8. Range(chan)' = Range(chan') /\ Range(emitted)' = Range(emitted')  BY DEF Range
<1> QED  BY Zenon, <1>4, <1>5, <1>6, <1>7, <1>8

LEMMA AroundStep ==
  ASSUME PhaseInv, Around, UNCHANGED <<router, scanners>>
  PROVE  PhaseInv'
<1>1. /\ rpc' = rpc /\ carried' = carried /\ route' = route /\ open' = open
      /\ spc' = spc /\ hand' = hand /\ asking' = asking /\ heldBack' = heldBack
      /\ panicked' = panicked /\ recorded' = recorded
  BY Zenon DEF router, scanners
<1>2. WalkInv /\ Framed /\ Routing /\ OneSpot  BY Zenon DEF PhaseInv
<1>3. WalkInv'
  BY Zenon, <1>2, WalkStep, ConsumerStep DEF Around
<1>4. Framed' /\ InRouter' = InRouter /\ Recorded' = Recorded
  BY Zenon, <1>1, <1>2 DEF Framed, InRouter, Recorded
<1>5. /\ Queued' = Queued /\ InHand' = InHand /\ InFlight' = InFlight
      /\ KeptBack' = KeptBack
      /\ \A s \in Scanners : InOrder(s)'
  BY Zenon, <1>1, OthersInOrder
<1>6. CASE Send
  <2>1. listening /\ listening' = listening /\ wpc = "drain" /\ wpc' = "check"
    BY Zenon, <1>6 DEF Send
  <2>2. PICK p \in Positions :
          /\ p \notin Range(emitted) /\ Range(emitted)' = Range(emitted) \cup {p}
          /\ Range(chan)' = Range(chan) \cup {p} /\ IsInjective(chan')
    BY Zenon, <1>2, <1>6, SendArrives DEF Routing
  <2>3. Routing'
    BY Zenon, <1>1, <1>2, <2>1, <2>2 DEF Routing
  <2>4. \A z \in Places : Spots'[z] = IF z = "chan" THEN Spots[z] \cup {p} ELSE Spots[z]
    BY Zenon, <1>1, <1>4, <1>5, <2>2, SpotsAre DEF Places
  <2>5. /\ \A x, y \in Places : x # y => Spots[x] \cap Spots[y] = {}
        /\ \A x \in Places : Spots[x] \subseteq Range(emitted)
        /\ rpc # "dropped" => \A q \in Range(emitted) : \E x \in Places : q \in Spots[x]
    BY Zenon, <1>2 DEF OneSpot
  <2>6. \A x, y \in Places : x # y => Spots'[x] \cap Spots'[y] = {}
    <3>1. \A x \in Places : p \notin Spots[x]  BY Zenon, <2>2, <2>5
    <3> SUFFICES ASSUME NEW x \in Places, NEW y \in Places, x # y
                 PROVE  Spots'[x] \cap Spots'[y] = {}
      BY Zenon
    <3>2. Spots[x] \cap Spots[y] = {} /\ p \notin Spots[x] /\ p \notin Spots[y]
      BY Zenon, <2>5, <3>1
    <3>3. CASE x = "chan"
      <4>1. Spots'[x] = Spots[x] \cup {p} /\ Spots'[y] = Spots[y]  BY Zenon, <2>4, <3>3
      <4> QED  BY Zenon, <3>2, <4>1
    <3>4. CASE y = "chan"
      <4>1. Spots'[y] = Spots[y] \cup {p} /\ Spots'[x] = Spots[x]  BY Zenon, <2>4, <3>4
      <4> QED  BY Zenon, <3>2, <4>1
    <3>5. CASE x # "chan" /\ y # "chan"
      <4>1. Spots'[y] = Spots[y] /\ Spots'[x] = Spots[x]  BY Zenon, <2>4, <3>5
      <4> QED  BY Zenon, <3>2, <4>1
    <3> QED  BY Zenon, <3>3, <3>4, <3>5
  <2>7. \A x \in Places : Spots'[x] \subseteq Range(emitted)'
    BY Zenon, <2>2, <2>4, <2>5
  <2>8. "chan" \in Places  BY Zenon DEF Places
  <2>9. rpc # "dropped" => \A q \in Range(emitted)' : \E x \in Places : q \in Spots'[x]
    BY Zenon, <2>2, <2>4, <2>5, <2>8
  <2>10. OneSpot'
    BY Zenon, <1>1, <2>6, <2>7, <2>9 DEF OneSpot
  <2> QED  BY Zenon, <1>3, <1>4, <1>5, <2>3, <2>10 DEF PhaseInv
<1>7. CASE ~Send
  <2>1. /\ emitted' = emitted /\ chan' = chan /\ listening' = listening
        /\ wpc = "ended" => wpc' = "ended"
    <3>1. CASE Walk
      BY Zenon, <1>7, <3>1
      DEF Walk, Look, PassSettled, PassWithheld, PassScreened, Passed, Place, Flush,
          SendFails, Check, Drained
    <3>2. CASE Stop \/ \E p \in Positions : Bar(p) \/ FileUnroutable(p)
      BY Zenon, <3>2 DEF Stop, Bar, FileUnroutable, walk
    <3> QED  BY Zenon, <3>1, <3>2 DEF Around
  <2>2. Routing'
    BY Zenon, <1>1, <1>2, <2>1 DEF Routing
  <2>3. OneSpot'
    BY Zenon, <1>1, <1>2, <1>4, <1>5, <2>1, KeepSpots
  <2> QED  BY Zenon, <1>3, <1>4, <1>5, <2>2, <2>3 DEF PhaseInv
<1> QED  BY Zenon, <1>6, <1>7

LEMMA PhaseStart == PhaseInit => PhaseInv
<1> SUFFICES ASSUME PhaseInit PROVE PhaseInv  OBVIOUS
<1>1. /\ chan = <<>> /\ emitted = <<>> /\ listening = TRUE
      /\ rpc = (IF stop THEN "drop" ELSE "recv") /\ carried = None
      /\ route = [s \in Scanners |-> <<>>] /\ open = Scanners
      /\ hand = [s \in Scanners |-> None] /\ asking = [s \in Scanners |-> {}]
      /\ heldBack = [s \in Scanners |-> {}]
      /\ panicked = {} /\ recorded = [p \in Positions |-> 0]
  BY Zenon DEF PhaseInit, Init
<1>2. PICK mismatched \in SUBSET Raw :
        spc = [s \in Scanners |-> IF stop THEN "done"
                 ELSE IF s \in mismatched THEN "refuse" ELSE "run"]
  BY Zenon DEF PhaseInit
<1>3. WalkInv  BY Zenon, WalkInit DEF PhaseInit
<1>4. Range(<<>>) = {} /\ IsInjective(<<>>) /\ Len(<<>>) = 0 /\ <<>> \in Seq(Positions)
  BY DEF Range, IsInjective
<1>5. \A s \in Scanners : /\ spc[s] \in {"done", "refuse", "run"}
                          /\ spc[s] = "refuse" => s \in Raw
  BY Zenon, <1>2
<1>6. Framed
  <2>1. spc \in [Scanners -> Stations]  BY Zenon, <1>2 DEF Stations
  <2> QED  BY Zenon, <1>1, <1>4, <2>1 DEF Framed
<1>7. Routing
  BY Zenon, <1>1, <1>4 DEF Routing
<1>8. ASSUME NEW s \in Scanners  PROVE InOrder(s)
  <2>1. Cardinality({}) = 0 /\ RouteDepth \in Nat /\ Limit \in Nat
    BY Zenon, FS_EmptySet, RoutingAssumption
  <2>2. route[s] = <<>> /\ asking[s] = {} /\ heldBack[s] = {}  BY Zenon, <1>1
  <2>3. Len(route[s]) <= RouteDepth /\ Cardinality(asking[s]) <= Limit
    BY <1>4, <2>1, <2>2
  <2> QED  BY ZenonT(40), <1>4, <1>5, <2>2, <2>3 DEF InOrder
<1>9. OneSpot
  <2>1. \A s \in Scanners : /\ Range(route[s]) = {} /\ asking[s] = {} /\ heldBack[s] = {}
                            /\ spc[s] \notin {"admit", "readmit"}
    BY Zenon, <1>1, <1>4, <1>5
  <2>2. /\ InRouter = {} /\ Queued = {} /\ InHand = {} /\ InFlight = {} /\ KeptBack = {}
        /\ Recorded = {}
    BY Zenon, <1>1, <2>1 DEF InRouter, Queued, InHand, InFlight, KeptBack, Recorded
  <2>3. \A x \in Places : Spots[x] = {}
    <3>1. Spots = [chan |-> {}, router |-> {}, queue |-> {}, hand |-> {}, flight |-> {},
                   held |-> {}, panicked |-> {}, recorded |-> {}]
      BY Zenon, <1>1, <1>4, <2>2 DEF Spots
    <3> QED  BY <3>1 DEF Places
  <2> QED  BY Zenon, <1>1, <1>4, <2>3 DEF OneSpot
<1> QED  BY Zenon, <1>3, <1>6, <1>7, <1>8, <1>9 DEF PhaseInv

LEMMA PhasePreserved ==
  ASSUME PhaseInv, [PhaseNext]_phaseVars
  PROVE  PhaseInv'
<1>1. CASE Around /\ UNCHANGED <<router, scanners>>
  BY Zenon, <1>1, AroundStep
<1>2. CASE DropReceiver
  BY Zenon, <1>2, DropReceiverStep
<1>3. CASE Router
  BY Zenon, <1>3, RouterTakesStep, UndeliverableStep, RouterMoves, PushStep DEF Router
<1>4. CASE \E s \in Scanners : Scanner(s) \/ Mishap(s)
  BY Zenon, <1>4, ScannerStep
<1>5. CASE UNCHANGED phaseVars
  <2>1. UNCHANGED vars /\ UNCHANGED router /\ UNCHANGED scanners
    BY Zenon, <1>5 DEF phaseVars
  <2>2. /\ route' = route /\ open' = open /\ spc' = spc /\ hand' = hand
        /\ asking' = asking /\ heldBack' = heldBack /\ panicked' = panicked /\ recorded' = recorded
        /\ rpc' = rpc /\ carried' = carried
    BY Zenon, <2>1 DEF router, scanners
  <2>3. WalkInv /\ Framed /\ Routing /\ OneSpot  BY Zenon DEF PhaseInv
  <2>4. WalkInv' /\ emitted' = emitted /\ chan' = chan /\ wpc' = wpc
        /\ listening' = listening
    BY Zenon, <2>1, <2>3, WalkUnchanged DEF vars
  <2>5. Framed' /\ Routing' /\ InRouter' = InRouter /\ Recorded' = Recorded
    BY Zenon, <2>2, <2>3, <2>4 DEF Framed, Routing, InRouter, Recorded
  <2>6. OneSpot'
    BY Zenon, <2>2, <2>3, <2>4, <2>5, OthersInOrder, KeepSpots
  <2> QED  BY Zenon, <2>2, <2>4, <2>5, <2>6, OthersInOrder DEF PhaseInv
<1> QED  BY Zenon, <1>1, <1>2, <1>3, <1>4, <1>5 DEF PhaseNext

(* The phase's invariant, however its tasks are interleaved.               *)
THEOREM PhaseInvariant == PhaseSpec => []PhaseInv
<1>1. PhaseInit => PhaseInv  BY Zenon, PhaseStart
<1>2. PhaseInv /\ [PhaseNext]_phaseVars => PhaseInv'  BY Zenon, PhasePreserved
<1> QED  BY <1>1, <1>2, PTL DEF PhaseSpec

(* Type correctness: no channel of the phase, and no scanner, ever holds   *)
(* more than its bound.                                                    *)
THEOREM PhaseTypeCorrect == PhaseSpec => []PhaseTypeOK
<1>1. PhaseInv => PhaseTypeOK
  <2> SUFFICES ASSUME PhaseInv PROVE PhaseTypeOK  OBVIOUS
  <2>1. TypeOK /\ Framed  BY Zenon DEF PhaseInv, WalkInv
  <2>2. \A s \in Scanners : Len(route[s]) <= RouteDepth /\ Cardinality(asking[s]) <= Limit
    BY Zenon DEF PhaseInv, InOrder
  <2>3. recorded \in [Positions -> Nat]  BY <2>1 DEF Framed
  <2> QED  BY Zenon, <2>1, <2>2, <2>3 DEF PhaseTypeOK, Framed, Stations
<1> QED  BY <1>1, PhaseInvariant, PTL

(* No target's outcome is recorded twice, and at the end each that the     *)
(* walk emitted has one, but for those whose probe panicked and those that *)
(* slipped in behind a closing receiver: whoever stops first.              *)
THEOREM EachOutcomeRecordedOnce == PhaseSpec => []RecordedOnce
<1>1. PhaseInv => RecordedOnce
  <2> SUFFICES ASSUME PhaseInv PROVE RecordedOnce  OBVIOUS
  <2>1. recorded \in [Positions -> {0, 1}] /\ OneSpot /\ Routing
        /\ emitted \in Seq(Positions)
    BY Zenon DEF PhaseInv, Framed, WalkInv, TypeOK
  <2>2. ASSUME PhaseOver, NEW p \in Range(emitted) \ (panicked \cup Slipped)
        PROVE  recorded[p] = 1
    <3>1. rpc = "ended"
      <4>1. ASSUME rpc = "dropped"  PROVE Range(emitted) \subseteq Slipped
        BY Zenon, <4>1 DEF Slipped
      <4> QED  BY Zenon, <2>2, <4>1 DEF PhaseOver
    <3>2. PICK x \in Places : p \in Spots[x]  BY Zenon, <2>1, <2>2, <3>1 DEF OneSpot
    <3>3. Range(chan) = {} /\ InRouter = {}
      BY <2>1, <3>1 DEF Routing, InRouter, Range
    <3>4. \A s \in Scanners : spc[s] = "done"  BY Zenon, <2>2 DEF PhaseOver
    <3>5. InHand = {} /\ InFlight = {} /\ KeptBack = {}
      <4>1. \A s \in Scanners : asking[s] = {} /\ heldBack[s] = {}
        BY Zenon, <3>4 DEF PhaseInv, InOrder, InFlightWhile
      <4> QED  BY Zenon, <3>4, <4>1 DEF InHand, InFlight, KeptBack
    <3>6. p \notin Queued
      <4>1. Queued \subseteq Slipped  BY Zenon, <3>4 DEF Queued, Slipped
      <4> QED  BY Zenon, <2>2, <4>1
    <3>7. p \in Recorded
      <4>1. p \notin panicked  BY Zenon, <2>2
      <4> QED  BY Zenon, <3>2, <3>3, <3>5, <3>6, <4>1, SpotsAre DEF Places
    <3> QED  BY Zenon, <2>1, <3>7 DEF Recorded
  <2>3. \A p \in Positions : recorded[p] <= 1  BY <2>1
  <2> QED  BY Zenon, <2>2, <2>3 DEF RecordedOnce
<1> QED  BY <1>1, PhaseInvariant, PTL

\* Nothing is in flight that was not first received from the walk.
AskedWasReceived ==
  \A s \in Scanners : asking[s] \subseteq Range(emitted) \ Range(chan)

(* So a verdict always settles its target: Resolve never meets Settle's    *)
(* guard closed.                                                           *)
THEOREM OnlyReceivedIsAsked == PhaseSpec => []AskedWasReceived
<1>1. PhaseInv => AskedWasReceived
  <2> SUFFICES ASSUME PhaseInv, NEW s \in Scanners, NEW p \in asking[s]
               PROVE  p \in Range(emitted) \ Range(chan)
    BY Zenon DEF AskedWasReceived
  <2>1. p \in Spots["flight"] /\ Spots["chan"] = Range(chan)
    BY Zenon DEF Spots, InFlight
  <2>2. "flight" \in Places /\ "chan" \in Places  BY Zenon DEF Places
  <2> QED  BY <2>1, <2>2 DEF PhaseInv, OneSpot
<1> QED  BY <1>1, PhaseInvariant, PTL
============================================================================
