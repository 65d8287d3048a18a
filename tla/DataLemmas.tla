------------------------------ MODULE DataLemmas ------------------------------
(***************************************************************************)
(* Lemmas about naturals and sequences that the proofs about several        *)
(* components use: the queues of the trace writers and of the capture       *)
(* buffers, the keys and events that paging and rate limiting order.        *)
(***************************************************************************)
EXTENDS Integers, Sequences, SequencesExt, FiniteSets, FiniteSetTheorems,
        WellFoundedInduction, TLAPS

-------------------------------------------------------------------------------
(* Sequences as queues without repetitions.                                 *)

(* No element twice. *)
Distinct(q) == \A i, j \in DOMAIN q : q[i] = q[j] => i = j

(* A queue gains the element put() appends and stays free of repetitions    *)
(* when that element was not in it.                                         *)
LEMMA AppendedElements ==
    ASSUME NEW S, NEW q \in Seq(S), NEW w \in S
    PROVE  /\ Append(q, w) \in Seq(S)
           /\ ToSet(Append(q, w)) = ToSet(q) \cup {w}
           /\ Distinct(q) /\ w \notin ToSet(q) => Distinct(Append(q, w))
<1>1. PICK a : a = Append(q, w)
  OBVIOUS
<1>2. PICK m : m = Len(q)
  OBVIOUS
<1>3. /\ a \in Seq(S) /\ m \in Nat /\ DOMAIN q = 1..m /\ DOMAIN a = 1..(m + 1)
      /\ a[m + 1] = w /\ \A i \in 1..m : a[i] = q[i]
  BY <1>1, <1>2
<1>4. 1..(m + 1) = 1..m \cup {m + 1} /\ m + 1 \notin 1..m
  BY <1>3
<1>5. ToSet(a) = ToSet(q) \cup {w}
  <2>1. ASSUME NEW v PROVE v \in ToSet(a) <=> v \in ToSet(q) \cup {w}
    BY <1>3, <1>4, Zenon DEF ToSet
  <2> QED BY <2>1, Zenon
<1>6. ASSUME Distinct(q), w \notin ToSet(q) PROVE Distinct(a)
  <2> SUFFICES ASSUME NEW i \in 1..(m + 1), NEW j \in 1..(m + 1), a[i] = a[j] PROVE i = j
    BY <1>3 DEF Distinct
  <2>1. \A k \in 1..m : a[k] # w
    BY <1>3, <1>6 DEF ToSet
  <2>2. CASE i \in 1..m /\ j \in 1..m
    BY <1>3, <1>6, <2>2 DEF Distinct
  <2> QED BY <1>3, <1>4, <2>1, <2>2
<1> QED BY <1>1, <1>3, <1>5, <1>6

(* A queue loses the element get() takes and nothing else; of a queue free  *)
(* of repetitions the rest no longer holds it.                              *)
LEMMA TailElements ==
    ASSUME NEW S, NEW q \in Seq(S), q # <<>>
    PROVE  /\ Tail(q) \in Seq(S) /\ Head(q) \in S
           /\ ToSet(q) = ToSet(Tail(q)) \cup {Head(q)}
           /\ Distinct(q) => Distinct(Tail(q)) /\ Head(q) \notin ToSet(Tail(q))
<1>1. PICK t : t = Tail(q)
  OBVIOUS
<1>2. PICK m : m = Len(q) - 1
  OBVIOUS
<1>3. /\ m \in Nat /\ DOMAIN q = 1..(m + 1) /\ DOMAIN t = 1..m /\ Head(q) = q[1]
      /\ t \in Seq(S) /\ Head(q) \in S /\ \A i \in 1..m : t[i] = q[i + 1]
  BY <1>1, <1>2
<1>4. /\ \A i \in 1..m : i + 1 \in 1..(m + 1) /\ i + 1 # 1
      /\ \A i, j \in 1..m : i + 1 = j + 1 => i = j
      /\ 1 \in 1..(m + 1)
  BY <1>3
<1>5. \A i \in 1..(m + 1) : i = 1 \/ (\E k \in 1..m : i = k + 1)
  <2>1. \A i \in 1..(m + 1) : i = 1 \/ (i - 1 \in 1..m /\ i = (i - 1) + 1)
    BY <1>3
  <2> QED BY <2>1, Zenon
<1>6. ToSet(q) = ToSet(t) \cup {Head(q)}
  <2>1. ASSUME NEW v \in ToSet(q) PROVE v \in ToSet(t) \cup {Head(q)}
    <3>1. PICK i \in 1..(m + 1) : v = q[i]
      BY <1>3 DEF ToSet
    <3>2. CASE i = 1
      BY <1>3, <3>1, <3>2
    <3>3. ASSUME NEW k \in 1..m, i = k + 1 PROVE v \in ToSet(t)
      BY <1>3, <3>1, <3>3 DEF ToSet
    <3> QED BY <1>5, <3>1, <3>2, <3>3
  <2>2. ASSUME NEW v \in ToSet(t) \cup {Head(q)} PROVE v \in ToSet(q)
    <3>1. CASE v = Head(q)
      BY <1>3, <1>4, <3>1 DEF ToSet
    <3>2. CASE v \in ToSet(t)
      BY <1>3, <1>4, <3>2 DEF ToSet
    <3> QED BY <3>1, <3>2
  <2> QED BY <2>1, <2>2
<1>7. ASSUME Distinct(q) PROVE Distinct(t) /\ Head(q) \notin ToSet(t)
  <2>1. ASSUME NEW i \in 1..m PROVE t[i] # Head(q)
    BY <1>3, <1>4, <1>7 DEF Distinct
  <2>2. ASSUME NEW i \in 1..m, NEW j \in 1..m, t[i] = t[j] PROVE i = j
    <3>1. q[i + 1] = q[j + 1] /\ i + 1 \in DOMAIN q /\ j + 1 \in DOMAIN q
      BY <1>3, <1>4, <2>2
    <3>2. i + 1 = j + 1
      BY <1>7, <3>1 DEF Distinct
    <3> QED BY <1>4, <3>2
  <2> QED BY <1>3, <2>1, <2>2 DEF Distinct, ToSet
<1> QED BY <1>1, <1>3, <1>6, <1>7

(* The elements of a queue are of its element type, and only the empty      *)
(* queue has none.                                                          *)
LEMMA NoElements ==
    ASSUME NEW S, NEW q \in Seq(S)
    PROVE  /\ ToSet(q) \subseteq S
           /\ q = <<>> <=> ToSet(q) = {}
  BY DEF ToSet

-------------------------------------------------------------------------------
(* The order of the naturals.                                               *)

(* Every nonempty set of naturals has a least element. The library states   *)
(* this through induction with an operator parameter; here it follows from  *)
(* the well-founded order of the intervals 0..n under inclusion.            *)
LEMMA LeastNatural ==
    ASSUME NEW T \in SUBSET Nat, T # {}
    PROVE  \E n \in T : \A m \in T : n <= m
<1> DEFINE U == {0..n : n \in T}
<1>1. U \subseteq FiniteSubsetsOf(Nat) /\ U # {}
  <2>1. \A n \in T : 0..n \subseteq Nat /\ IsFiniteSet(0..n)
    BY FS_Interval
  <2> QED BY <2>1 DEF FiniteSubsetsOf
<1>2. IsWellFoundedOn(StrictSubsetOrdering(Nat), FiniteSubsetsOf(Nat))
  BY FS_StrictSubsetOrderingWellFounded
<1>3. PICK x \in U : \A y \in U : ~ (<<y, x>> \in StrictSubsetOrdering(Nat))
  BY <1>1, <1>2, WFMin
<1>4. PICK n \in T : x = 0..n
  OBVIOUS
<1>5. ASSUME NEW m \in T, m < n PROVE FALSE
  <2>1. 0..m \in U /\ 0..m \subseteq Nat /\ 0..n \subseteq Nat
    OBVIOUS
  <2>2. 0..m \subseteq 0..n /\ n \in 0..n /\ n \notin 0..m
    BY <1>5
  <2>3. <<0..m, 0..n>> \in StrictSubsetOrdering(Nat)
    BY <2>1, <2>2 DEF StrictSubsetOrdering
  <2> QED BY <1>3, <1>4, <2>1, <2>3
<1> QED BY <1>5
===============================================================================
