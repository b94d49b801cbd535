------------------------- MODULE ReservationLedger_proofs -------------------------
(***************************************************************************)
(* Proofs that StatefulReserve keeps its counters exact (NoLostUpdate) and  *)
(* that it implements ReservationLedger.                                    *)
(*                                                                          *)
(* Both are about sums over sets of charges.  The sum is a fold, that is a  *)
(* recursive function: what is needed of it is proved first, by looking at  *)
(* a set of least size for which it would be wrong.                         *)
(***************************************************************************)
EXTENDS StatefulReserve_proofs

--------------------------------------------------------------------------------
(* The sum over a finite set of charges, each a call and the number of one  *)
(* of its candidates.                                                       *)

Charge == UNION {{c} \X DOMAIN Cands[c] : c \in Calls}
Inc(x) == Cands[x[1]][x[2]].inc
Pick(S) == CHOOSE x \in S : TRUE

(* g sums the subsets of S, taking out one element after the other. *)
Sums(S, g) ==
    g = [s \in SUBSET S |-> IF s = {} THEN 0 ELSE Inc(Pick(s)) + g[s \ {Pick(s)}]]
Total(S) == (CHOOSE g : Sums(S, g))[S]

LEMMA TotalIs ==
  ASSUME NEW S
  PROVE  MapThenSumSet(LAMBDA x : Cands[x[1]][x[2]].inc, S) = Total(S)
  BY Zenon DEF MapThenSumSet, MapThenFoldSet, Total, Sums, Inc, Pick

LEMMA IncType == \A x \in Charge : Inc(x) \in Int
<1> SUFFICES ASSUME NEW x \in Charge
             PROVE  Inc(x) \in Int
  OBVIOUS
<1>1. PICK c \in Calls : x \in {c} \X DOMAIN Cands[c]
  BY DEF Charge
<1>2. x[1] = c /\ x[2] \in DOMAIN Cands[c]
  BY <1>1
<1>3. Cands[c] \in Seq(Candidate)
  BY CandsAssumption
<1>4. Cands[c][x[2]] \in Candidate
  BY <1>2, <1>3
<1> QED
  BY <1>2, <1>4 DEF Inc, Candidate

LEMMA PickIn == ASSUME NEW S, S # {} PROVE Pick(S) \in S
  BY DEF Pick

(* What a function that sums gives for one set. *)
LEMMA SumsAt ==
  ASSUME NEW S, NEW g, Sums(S, g), NEW s \in SUBSET S
  PROVE  /\ s = {} => g[s] = 0
         /\ s # {} => g[s] = Inc(Pick(s)) + g[s \ {Pick(s)}]
  BY Zenon DEF Sums

(* Without the element picked a finite set is smaller. *)
LEMMA PickSmaller ==
  ASSUME NEW S, IsFiniteSet(S), NEW x \in S
  PROVE  /\ IsFiniteSet(S \ {x})
         /\ Cardinality(S \ {x}) \in Nat
         /\ Cardinality(S) \in Nat
         /\ Cardinality(S \ {x}) < Cardinality(S)
<1>1. IsFiniteSet(S \ {x}) /\ Cardinality(S \ {x}) = Cardinality(S) - 1
  BY FS_RemoveElement
<1>2. Cardinality(S) \in Nat /\ Cardinality(S \ {x}) \in Nat
  BY <1>1, FS_CardinalityType
<1> QED
  BY <1>1, <1>2

(* Two functions that sum agree on the sets both know. *)
LEMMA SumsUnique ==
  ASSUME NEW S, IsFiniteSet(S), NEW T \in SUBSET S, NEW g, NEW h,
         Sums(S, g), Sums(T, h)
  PROVE  \A U \in SUBSET T : g[U] = h[U]
<1> DEFINE wrong == {U \in SUBSET T : g[U] # h[U]}
<1> SUFFICES ASSUME wrong # {}
             PROVE  FALSE
  OBVIOUS
<1>1. \A U \in SUBSET T : IsFiniteSet(U)
  BY FS_Subset
<1>2. PICK U \in wrong : \A V \in wrong : Cardinality(U) <= Cardinality(V)
  <2>1. \A V \in wrong : IsFiniteSet(V)
    BY <1>1
  <2> HIDE DEF wrong
  <2> QED
    BY <2>1, LeastSet
<1>3. U # {}
  <2>1. U \in SUBSET S /\ U \in SUBSET T
    OBVIOUS
  <2> QED
    BY <2>1, SumsAt
<1>4. Pick(U) \in U
  BY <1>3, PickIn
<1>5. U \ {Pick(U)} \notin wrong
  <2>1. Cardinality(U \ {Pick(U)}) < Cardinality(U)
        /\ Cardinality(U \ {Pick(U)}) \in Nat /\ Cardinality(U) \in Nat
    BY <1>1, <1>4, PickSmaller
  <2> HIDE DEF wrong
  <2>2. ASSUME U \ {Pick(U)} \in wrong
        PROVE  FALSE
    <3>1. Cardinality(U) <= Cardinality(U \ {Pick(U)})
      BY <1>2, <2>2
    <3> QED
      BY <2>1, <3>1
  <2> QED
    BY <2>2
<1>6. g[U \ {Pick(U)}] = h[U \ {Pick(U)}]
  BY <1>5
<1>7. U \in SUBSET S /\ U \in SUBSET T
  OBVIOUS
<1>8. g[U] = Inc(Pick(U)) + g[U \ {Pick(U)}]
  BY <1>3, <1>7, SumsAt
<1>9. h[U] = Inc(Pick(U)) + h[U \ {Pick(U)}]
  BY <1>3, <1>7, SumsAt
<1> QED
  BY <1>6, <1>8, <1>9
(* There is a function that sums, with integers as its values: of those on  *)
(* the sets of at most n elements, each is made from the one before.        *)
LEMMA SumsExist ==
  ASSUME NEW S \in SUBSET Charge, IsFiniteSet(S)
  PROVE  \E g \in [SUBSET S -> Int] : Sums(S, g)
<1> DEFINE D(n) == {T \in SUBSET S : Cardinality(T) <= n}
           value(g, s) == IF s = {} THEN 0 ELSE Inc(Pick(s)) + g[s \ {Pick(s)}]
           good(n) == \E g \in [D(n) -> Int] : \A s \in D(n) : g[s] = value(g, s)
           bad == {n \in Nat : ~good(n)}
<1>1. \A T \in SUBSET S : IsFiniteSet(T) /\ Cardinality(T) \in Nat
  BY FS_Subset, FS_CardinalityType
<1>2. \A s \in SUBSET S : s # {} => Pick(s) \in s /\ Inc(Pick(s)) \in Int
  BY PickIn, IncType
<1>3. good(0)
  <2> DEFINE g == [s \in D(0) |-> 0]
  <2>1. \A s \in D(0) : s = {}
    <3>1. ASSUME NEW s \in D(0)
          PROVE  s = {}
      <4>1. Cardinality(s) = 0
        BY <1>1
      <4> QED
        BY <1>1, <4>1, FS_EmptySet
    <3> QED
      BY <3>1
  <2>2. \A s \in D(0) : g[s] = value(g, s)
    BY <2>1
  <2>3. g \in [D(0) -> Int]
    OBVIOUS
  <2> QED
    BY <2>2, <2>3
<1>4. ASSUME NEW n \in Nat, good(n)
      PROVE  good(n + 1)
  <2>1. PICK g \in [D(n) -> Int] : \A s \in D(n) : g[s] = value(g, s)
    BY <1>4
  <2> DEFINE h == [s \in D(n + 1) |-> value(g, s)]
  <2>2. \A s \in D(n + 1) : s # {} => s \ {Pick(s)} \in D(n)
    <3>1. ASSUME NEW s \in D(n + 1), s # {}
          PROVE  s \ {Pick(s)} \in D(n)
      <4>1. /\ Cardinality(s \ {Pick(s)}) < Cardinality(s)
            /\ Cardinality(s \ {Pick(s)}) \in Nat /\ Cardinality(s) \in Nat
        BY <1>1, <1>2, <3>1, PickSmaller
      <4>2. Cardinality(s) <= n + 1 /\ s \ {Pick(s)} \in SUBSET S
        OBVIOUS
      <4>3. Cardinality(s \ {Pick(s)}) <= n
        BY <4>1, <4>2
      <4> QED
        BY <4>2, <4>3
    <3> QED
      BY <3>1
  <2>3. h \in [D(n + 1) -> Int]
    <3>1. ASSUME NEW s \in D(n + 1)
          PROVE  value(g, s) \in Int
      <4>1. s \in SUBSET S
        OBVIOUS
      <4> HIDE DEF D
      <4> QED
        BY <1>2, <2>1, <2>2, <4>1
    <3> HIDE DEF D, value
    <3> QED
      BY <3>1
  <2>4. \A s \in D(n) : s \in D(n + 1) /\ h[s] = g[s]
    <3>1. \A s \in D(n) : s \in D(n + 1)
      BY <1>1
    <3> HIDE DEF D, value
    <3> QED
      BY <3>1, <2>1
  <2>5. \A s \in D(n + 1) : h[s] = value(h, s)
    <3>1. ASSUME NEW s \in D(n + 1)
          PROVE  value(g, s) = value(h, s)
      <4> HIDE DEF D, h
      <4> QED
        BY <2>2, <2>4, <3>1
    <3> HIDE DEF D, value
    <3> QED
      BY <3>1
  <2> HIDE DEF D, value, h
  <2> QED
    BY <2>3, <2>5
<1>5. bad = {}
  <2> HIDE DEF good
  <2> SUFFICES ASSUME bad # {}
               PROVE  FALSE
    OBVIOUS
  <2>1. PICK n \in bad : \A m \in bad : n <= m
    <3>1. bad \in SUBSET Nat
      OBVIOUS
    <3> HIDE DEF bad
    <3> QED
      BY <3>1, LeastNat
  <2>2. n # 0
    BY <1>3
  <2>3. n - 1 \in Nat /\ n - 1 \notin bad
    <3>1. n - 1 \in Nat /\ ~(n <= n - 1)
      BY <2>2
    <3> HIDE DEF bad
    <3> QED
      BY <2>1, <3>1
  <2>4. good(n - 1 + 1)
    BY <1>4, <2>3
  <2>5. n - 1 + 1 = n
    OBVIOUS
  <2>6. good(n)
    BY <2>4, <2>5, Zenon
  <2> QED
    BY <2>6
<1>6. good(Cardinality(S))
  <2> HIDE DEF good
  <2>1. Cardinality(S) \in Nat
    BY <1>1
  <2> QED
    BY <1>5, <2>1
<1>7. D(Cardinality(S)) = SUBSET S
  BY FS_Subset
<1>8. PICK g \in [SUBSET S -> Int] : \A s \in SUBSET S : g[s] = value(g, s)
  <2> HIDE DEF D, value
  <2> QED
    BY <1>6, <1>7
<1>9. g = [s \in SUBSET S |-> value(g, s)]
  <2> HIDE DEF value
  <2> QED
    BY <1>8
<1> QED
  BY <1>9 DEF Sums
(* The total of no charge is nothing; of others, it is the increment of one *)
(* of them and the total of the rest.                                       *)
LEMMA TotalPick ==
  ASSUME NEW S \in SUBSET Charge, IsFiniteSet(S)
  PROVE  /\ Total(S) \in Int
         /\ S = {} => Total(S) = 0
         /\ S # {} => Total(S) = Inc(Pick(S)) + Total(S \ {Pick(S)})
<1> DEFINE G(T) == CHOOSE g : Sums(T, g)
<1>1. ASSUME NEW T \in SUBSET S
      PROVE  Sums(T, G(T))
  <2>1. T \in SUBSET Charge /\ IsFiniteSet(T)
    BY FS_Subset
  <2>2. \E g : Sums(T, g)
    BY <2>1, SumsExist
  <2> QED
    BY <2>2
<1>2. PICK g \in [SUBSET S -> Int] : Sums(S, g)
  BY SumsExist
<1>3. \A T \in SUBSET S : Total(T) = G(T)[T]
  BY Zenon DEF Total
<1> HIDE DEF G
<1>4. \A T \in SUBSET S : Total(T) = g[T]
  <2> SUFFICES ASSUME NEW T \in SUBSET S
               PROVE  Total(T) = g[T]
    OBVIOUS
  <2>1. Sums(T, G(T)) /\ T \in SUBSET T
    BY <1>1
  <2>2. g[T] = G(T)[T]
    BY <1>2, <2>1, SumsUnique
  <2> QED
    BY <1>3, <2>2
<1>5. S \in SUBSET S /\ S \ {Pick(S)} \in SUBSET S
  OBVIOUS
<1>6. /\ S = {} => g[S] = 0
      /\ S # {} => g[S] = Inc(Pick(S)) + g[S \ {Pick(S)}]
  BY <1>2, <1>5, SumsAt
<1>7. Total(S) = g[S] /\ Total(S \ {Pick(S)}) = g[S \ {Pick(S)}]
  BY <1>4, <1>5
<1>8. g[S] \in Int
  BY <1>2, <1>5
<1> QED
  BY <1>6, <1>7, <1>8

LEMMA TotalType ==
  ASSUME NEW S \in SUBSET Charge, IsFiniteSet(S)
  PROVE  Total(S) \in Int
  BY TotalPick

LEMMA TotalEmpty == Total({}) = 0
<1>1. {} \in SUBSET Charge /\ IsFiniteSet({})
  BY FS_EmptySet
<1> QED
  BY <1>1, TotalPick

(* It does not matter which element is taken out.                           *)
LEMMA TotalRemove ==
  ASSUME NEW S \in SUBSET Charge, IsFiniteSet(S)
  PROVE  \A x \in S : Total(S) = Inc(x) + Total(S \ {x})
<1> DEFINE right(T) == \A x \in T : Total(T) = Inc(x) + Total(T \ {x})
           wrong == {T \in SUBSET S : ~right(T)}
<1>1. \A T \in SUBSET S : T \in SUBSET Charge /\ IsFiniteSet(T)
  BY FS_Subset
<1>2. SUFFICES ASSUME wrong # {}
               PROVE  FALSE
  OBVIOUS
<1>3. PICK T \in wrong : \A U \in wrong : Cardinality(T) <= Cardinality(U)
  <2>1. \A U \in wrong : IsFiniteSet(U)
    BY <1>1
  <2> HIDE DEF wrong
  <2> QED
    BY <1>2, <2>1, LeastSet
<1>4. T \in SUBSET S /\ ~right(T)
  OBVIOUS
<1>5. PICK x \in T : Total(T) # Inc(x) + Total(T \ {x})
  BY <1>4
<1> DEFINE y == Pick(T)
<1>6. y \in T /\ Total(T) = Inc(y) + Total(T \ {y})
  <2>1. T # {}
    BY <1>5
  <2> QED
    BY <1>1, <1>4, <2>1, PickIn, TotalPick
<1>7. x # y
  BY <1>5, <1>6
<1>8. \A z \in T : right(T \ {z})
  <2> SUFFICES ASSUME NEW z \in T
               PROVE  right(T \ {z})
    OBVIOUS
  <2>1. /\ Cardinality(T \ {z}) < Cardinality(T)
        /\ Cardinality(T \ {z}) \in Nat /\ Cardinality(T) \in Nat
    BY <1>1, <1>4, PickSmaller
  <2>2. T \ {z} \in SUBSET S
    BY <1>4
  <2>3. T \ {z} \notin wrong
    <3> HIDE DEF wrong
    <3>1. ASSUME T \ {z} \in wrong
          PROVE  FALSE
      <4>1. Cardinality(T) <= Cardinality(T \ {z})
        BY <1>3, <3>1
      <4> QED
        BY <2>1, <4>1
    <3> QED
      BY <3>1
  <2> HIDE DEF right
  <2> QED
    BY <2>2, <2>3
<1> DEFINE rest == (T \ {x}) \ {y}
<1>9. Total(T \ {y}) = Inc(x) + Total(rest)
  <2>1. x \in T \ {y} /\ (T \ {y}) \ {x} = rest
    BY <1>7
  <2>2. Total(T \ {y}) = Inc(x) + Total((T \ {y}) \ {x})
    BY <1>6, <1>8, <2>1
  <2> QED
    BY <2>1, <2>2
<1>10. Total(T \ {x}) = Inc(y) + Total(rest)
  <2>1. y \in T \ {x}
    BY <1>6, <1>7
  <2> QED
    BY <1>5, <1>8, <2>1
<1>11. Inc(x) \in Int /\ Inc(y) \in Int /\ Total(rest) \in Int
  <2>1. rest \in SUBSET S
    BY <1>4
  <2>2. Total(rest) \in Int
    BY <1>1, <2>1, TotalType
  <2> QED
    BY <1>4, <1>6, <2>2, IncType
<1> HIDE DEF rest, y
<1>12. Total(T) = Inc(x) + Total(T \ {x})
  BY <1>6, <1>9, <1>10, <1>11
<1> QED
  BY <1>5, <1>12

(* A further charge adds its increment.                                     *)
LEMMA TotalAdd ==
  ASSUME NEW S \in SUBSET Charge, IsFiniteSet(S), NEW x \in Charge \ S
  PROVE  Total(S \cup {x}) = Total(S) + Inc(x)
<1>1. S \cup {x} \in SUBSET Charge /\ IsFiniteSet(S \cup {x})
  BY FS_AddElement
<1>2. Total(S \cup {x}) = Inc(x) + Total((S \cup {x}) \ {x})
  BY <1>1, TotalRemove
<1>3. (S \cup {x}) \ {x} = S
  OBVIOUS
<1>4. Total(S) \in Int /\ Inc(x) \in Int
  BY TotalType, IncType
<1>5. Total(S \cup {x}) = Inc(x) + Total(S)
  BY <1>2, <1>3, Zenon
<1> QED
  BY <1>4, <1>5

(* The total of two sets of charges that have none in common.               *)
LEMMA TotalUnion ==
  ASSUME NEW S \in SUBSET Charge, IsFiniteSet(S),
         NEW T \in SUBSET Charge, IsFiniteSet(T), S \cap T = {}
  PROVE  Total(S \cup T) = Total(S) + Total(T)
<1> DEFINE right(U) == Total(S \cup U) = Total(S) + Total(U)
           wrong == {U \in SUBSET T : ~right(U)}
<1>1. \A U \in SUBSET T : /\ U \in SUBSET Charge /\ IsFiniteSet(U)
                          /\ S \cup U \in SUBSET Charge /\ IsFiniteSet(S \cup U)
  BY FS_Subset, FS_Union
<1>2. SUFFICES ASSUME wrong # {}
               PROVE  FALSE
  OBVIOUS
<1>3. PICK U \in wrong : \A V \in wrong : Cardinality(U) <= Cardinality(V)
  <2>1. \A V \in wrong : IsFiniteSet(V)
    BY <1>1
  <2> HIDE DEF wrong
  <2> QED
    BY <1>2, <2>1, LeastSet
<1>4. U \in SUBSET T /\ ~right(U)
  OBVIOUS
<1>5. Total(S) \in Int
  BY TotalType
<1>6. U # {}
  <2>1. S \cup {} = S
    OBVIOUS
  <2>2. right({})
    BY <1>5, <2>1, TotalEmpty
  <2> HIDE DEF right
  <2> QED
    BY <1>4, <2>2
<1>7. PICK x \in U : TRUE
  BY <1>6
<1> DEFINE V == U \ {x}
<1>8. V \in SUBSET T /\ U = V \cup {x} /\ x \in Charge \ V /\ x \in Charge \ (S \cup V)
  BY <1>4
<1>9. right(V)
  <2>1. /\ Cardinality(V) < Cardinality(U)
        /\ Cardinality(V) \in Nat /\ Cardinality(U) \in Nat
    BY <1>1, <1>4, PickSmaller
  <2>2. V \notin wrong
    <3> HIDE DEF wrong, V
    <3>1. ASSUME V \in wrong
          PROVE  FALSE
      <4>1. Cardinality(U) <= Cardinality(V)
        BY <1>3, <3>1
      <4> QED
        BY <2>1, <4>1
    <3> QED
      BY <3>1
  <2> HIDE DEF right, V
  <2> QED
    BY <1>8, <2>2
<1> HIDE DEF V
<1>10. Total(U) = Total(V) + Inc(x)
  BY <1>1, <1>8, TotalAdd
<1>11. Total(S \cup U) = Total(S \cup V) + Inc(x)
  <2>1. S \cup U = (S \cup V) \cup {x}
    BY <1>8
  <2>2. Total((S \cup V) \cup {x}) = Total(S \cup V) + Inc(x)
    BY <1>1, <1>8, TotalAdd
  <2> QED
    BY <2>1, <2>2
<1>12. Total(V) \in Int /\ Inc(x) \in Int
  BY <1>1, <1>8, TotalType, IncType
<1>13. right(U)
  BY <1>5, <1>9, <1>10, <1>11, <1>12
<1> QED
  BY <1>4, <1>13
--------------------------------------------------------------------------------
(* The invariant.                                                           *)

(* What a call has charged, and what has been charged by those whose        *)
(* reservation took effect; of such a set, what is on counter k.            *)
Own(c) == {c} \X charges[c]
Effective == UNION {{c} \X charges[c] : c \in {d \in Calls : Finished(d)}}
On(T, k) == {x \in T : CounterOf(x[1], x[2]) = k}

(* What an open transaction charged lies on rows it has locked, and those   *)
(* hold the committed value and its charges.                                *)
OpenInv(c) ==
    /\ pc[c] \in InTx => \A i \in charges[c] : lock[CounterOf(c, i)] = c
    /\ pc[c] \in InTx => \A k \in Counters :
         lock[k] = c => working[k] = stored[k] + Total(On(Own(c), k))
    /\ pc[c] \in {"check", "insert", "lock", "update", "deny"} => \A i \in charges[c] : i < idx[c]
    /\ pc[c] = "event" => \A i \in charges[c] : i <= idx[c]

Balanced ==
    /\ IsFiniteSet(Effective)
    /\ \A k \in Counters : stored[k] = Total(On(Effective, k))

SumInv == Balanced /\ \A c \in Calls : OpenInv(c)

LEMMA EffectiveIs ==
  \A x : x \in Effective <=>
    \E c \in Calls : \E i \in charges[c] : Finished(c) /\ x = <<c, i>>
  BY DEF Effective

LEMMA OwnIs ==
  ASSUME NEW c
  PROVE  \A x : x \in Own(c) <=> \E i \in charges[c] : x = <<c, i>>
  BY DEF Own

(* What is charged is a finite set of charges.                              *)
LEMMA OwnType ==
  ASSUME TypeOK, NEW c \in Calls, NEW k
  PROVE  /\ Own(c) \in SUBSET Charge /\ IsFiniteSet(Own(c))
         /\ On(Own(c), k) \in SUBSET Charge /\ IsFiniteSet(On(Own(c), k))
<1>1. Cands[c] \in Seq(Candidate) /\ charges[c] \in SUBSET DOMAIN Cands[c]
  BY CandsAssumption DEF TypeOK, TablesTypeOK
<1>2. IsFiniteSet(1 .. Len(Cands[c])) /\ DOMAIN Cands[c] = 1 .. Len(Cands[c])
  <2>1. Len(Cands[c]) \in Int /\ 1 \in Int /\ DOMAIN Cands[c] = 1 .. Len(Cands[c])
    BY <1>1
  <2> QED
    BY <2>1, FS_Interval
<1>3. IsFiniteSet(charges[c]) /\ IsFiniteSet({c})
  BY <1>1, <1>2, FS_Subset, FS_Singleton
<1>4. IsFiniteSet(Own(c))
  BY <1>3, FS_Product DEF Own
<1>5. Own(c) \in SUBSET Charge
  BY <1>1 DEF Own, Charge
<1>6. On(Own(c), k) \in SUBSET Own(c)
  BY DEF On
<1> QED
  BY <1>4, <1>5, <1>6, FS_Subset

LEMMA EffectiveType ==
  ASSUME TypeOK, IsFiniteSet(Effective), NEW k
  PROVE  /\ Effective \in SUBSET Charge
         /\ On(Effective, k) \in SUBSET Charge /\ IsFiniteSet(On(Effective, k))
<1>1. Effective \in SUBSET Charge
  <2> SUFFICES ASSUME NEW x \in Effective
               PROVE  x \in Charge
    OBVIOUS
  <2>1. PICK c \in Calls : \E i \in charges[c] : x = <<c, i>>
    BY EffectiveIs
  <2>1a. PICK i \in charges[c] : x = <<c, i>>
    BY <2>1
  <2>2. i \in DOMAIN Cands[c]
    BY DEF TypeOK, TablesTypeOK
  <2> QED
    BY <2>1a, <2>2 DEF Charge
<1>2. On(Effective, k) \in SUBSET Effective
  BY DEF On
<1> QED
  BY <1>1, <1>2, FS_Subset

LEMMA SumInit == Init => SumInv
<1> SUFFICES ASSUME Init
             PROVE  SumInv
  OBVIOUS
<1>1. Effective = {}
  BY EffectiveIs DEF Init, Finished
<1>2. \A k \in Counters : On(Effective, k) = {} /\ stored[k] = 0
  BY <1>1 DEF On, Init
<1>3. \A c \in Calls : OpenInv(c)
  BY DEF Init, OpenInv, InTx, InStatement
<1> QED
  BY <1>1, <1>2, <1>3, FS_EmptySet, TotalEmpty DEF SumInv, Balanced

(* What counts of the calls that do not move stays as it is.                *)
LEMMA OthersStay ==
  ASSUME TypeOK, NEW c \in Calls, CallStep(c), NEW d \in Calls, d # c
  PROVE  /\ Own(d)' = Own(d)
         /\ Finished(d)' <=> Finished(d)
         /\ \A k : On(Own(d), k)' = On(Own(d), k)
<1>1. SameCall(d) /\ \A i : CounterOf(d, i)' = CounterOf(d, i)
  BY OneMoves, KeysStay
<1> QED
  BY <1>1 DEF SameCall, Own, On, Finished

(* A call that stays what it was, among those that count or not, leaves the *)
(* effective charges alone.                                                 *)
LEMMA EffectiveStays ==
  ASSUME TypeOK, NEW c \in Calls, CallStep(c),
         \/ ~Finished(c) /\ ~Finished(c)'
         \/ charges'[c] = {} /\ (Finished(c) => charges[c] = {})
         \/ Finished(c) /\ Finished(c)' /\ charges'[c] = charges[c]
  PROVE  /\ Effective' = Effective
         /\ \A k : On(Effective, k)' = On(Effective, k)
<1>1. \A x : x \in Effective' <=>
        \E d \in Calls : \E i \in charges'[d] : Finished(d)' /\ x = <<d, i>>
  BY DEF Effective
<1>2. \A d \in Calls \ {c} : (Finished(d)' <=> Finished(d)) /\ charges'[d] = charges[d]
  BY OneMoves DEF SameCall, Finished
<1>3. Effective' = Effective
  <2>1. ASSUME NEW x \in Effective PROVE x \in Effective'
    <3>0. PICK d \in Calls : Finished(d) /\ \E i \in charges[d] : x = <<d, i>>
      BY EffectiveIs
    <3>1. PICK i \in charges[d] : Finished(d) /\ x = <<d, i>>
      BY <3>0
    <3>2. Finished(d)' /\ i \in charges'[d]
      BY <3>1, <1>2
    <3> QED
      BY <1>1, <3>1, <3>2
  <2>2. ASSUME NEW x \in Effective' PROVE x \in Effective
    <3>0. PICK d \in Calls : Finished(d)' /\ \E i \in charges'[d] : x = <<d, i>>
      BY <1>1
    <3>1. PICK i \in charges'[d] : Finished(d)' /\ x = <<d, i>>
      BY <3>0
    <3>2. Finished(d) /\ i \in charges[d]
      BY <3>1, <1>2
    <3> QED
      BY EffectiveIs, <3>1, <3>2
  <2> QED
    BY <2>1, <2>2
<1>4. \A x \in Effective : CounterOf(x[1], x[2])' = CounterOf(x[1], x[2])
  <2> SUFFICES ASSUME NEW x \in Effective
               PROVE  CounterOf(x[1], x[2])' = CounterOf(x[1], x[2])
    OBVIOUS
  <2>0. PICK d \in Calls : Finished(d) /\ \E i \in charges[d] : x = <<d, i>>
    BY EffectiveIs
  <2>1. PICK i \in charges[d] : Finished(d) /\ x = <<d, i>>
    BY <2>0
  <2>2. CounterOf(d, i)' = CounterOf(d, i)
    BY <2>1, KeysStay DEF Finished
  <2> QED
    BY <2>1, <2>2
<1> QED
  BY <1>3, <1>4 DEF On

(* Then a committed counter that does not change stays a sum.               *)
LEMMA BalanceStays ==
  ASSUME TypeOK, Balanced, NEW c \in Calls, CallStep(c), stored' = stored,
         \/ ~Finished(c) /\ ~Finished(c)'
         \/ charges'[c] = {} /\ (Finished(c) => charges[c] = {})
         \/ Finished(c) /\ Finished(c)' /\ charges'[c] = charges[c]
  PROVE  Balanced'
<1>1. Effective' = Effective /\ \A k : On(Effective, k)' = On(Effective, k)
  BY EffectiveStays
<1>2. IsFiniteSet(Effective)'
  BY <1>1 DEF Balanced
<1>3. ASSUME NEW k \in Counters
      PROVE  stored'[k] = Total(On(Effective, k)')
  BY <1>1 DEF Balanced
<1> QED
  BY <1>2, <1>3 DEF Balanced

(* An open transaction that takes a step without charging anything: the     *)
(* rows it locks on the way were free.                                      *)
LEMMA OpenStays ==
  ASSUME IInv, NEW c \in Calls, OpenInv(c), CallStep(c),
         pc[c] \in InTx, pc'[c] \in InTx,
         charges' = charges, stored' = stored, working' = working,
         \A k \in Counters : lock'[k] = lock[k] \/ (lock[k] = Nobody /\ lock'[k] = c),
         pc'[c] \in {"check", "insert", "lock", "update", "deny"} => \A i \in charges[c] : i < idx'[c],
         pc'[c] # "event"
  PROVE  OpenInv(c)'
<1>1. TypeOK /\ LockInv
  BY DEF IInv
<1>2. Own(c)' = Own(c) /\ \A i : CounterOf(c, i)' = CounterOf(c, i)
  BY <1>1, KeysStay DEF Own, InTx, InStatement
<1>3. \A k : On(Own(c), k)' = On(Own(c), k)
  <2>1. \A x \in Own(c) : CounterOf(x[1], x[2])' = CounterOf(x[1], x[2])
    BY <1>2 DEF Own
  <2> QED
    BY <1>2, <2>1 DEF On
<1>4. \A i \in charges[c] : CounterOf(c, i) \in Counters /\ lock[CounterOf(c, i)] = c
  BY <1>1, CandidateType DEF OpenInv, TypeOK, TablesTypeOK
<1>5. ASSUME NEW k \in Counters, lock'[k] = c
      PROVE  working'[k] = stored'[k] + Total(On(Own(c), k)')
  <2>1. CASE lock[k] = c
    BY <1>3, <2>1 DEF OpenInv
  <2>2. CASE lock[k] = Nobody
    <3>1. On(Own(c), k) = {}
      BY <1>4, <2>2, NobodyAssumption DEF On, Own
    <3>2. working[k] = stored[k] /\ stored[k] \in Int
      BY <1>1, <2>2 DEF LockInv, TypeOK, TablesTypeOK
    <3>3. Total(On(Own(c), k)') = 0
      BY <1>3, <3>1, TotalEmpty
    <3>4. working'[k] = working[k] /\ stored'[k] = stored[k]
      OBVIOUS
    <3> QED
      BY <3>2, <3>3, <3>4
  <2> QED
    BY <1>5, <2>1, <2>2
<1>6. \A i \in charges'[c] : lock'[CounterOf(c, i)'] = c
  BY <1>2, <1>4, NobodyAssumption
<1> QED
  BY <1>5, <1>6 DEF OpenInv

(* The update adds one charge, on a row the transaction has locked.         *)
LEMMA OpenUpdates ==
  ASSUME IInv, NEW c \in Calls, OpenInv(c), UpdateRow(c)
  PROVE  OpenInv(c)'
<1> DEFINE x == <<c, idx[c]>>
<1>1. /\ TypeOK /\ pc[c] = "update" /\ pc[c] \in InTx
      /\ lock[Here(c)] = c /\ Here(c) \in Counters /\ Cand(c).inc \in Int
      /\ idx[c] \in DOMAIN Cands[c] /\ idx[c] \in Nat
  BY HereType DEF IInv, UpdateRow, LimitInv, InTx, InStatement, TypeOK, ControlTypeOK
<1>2. /\ charges'[c] = charges[c] \cup {idx[c]}
      /\ lock' = lock /\ stored' = stored /\ win' = win
      /\ working' = [working EXCEPT ![Here(c)] = working[Here(c)] + Cand(c).inc]
  BY <1>1 DEF UpdateRow, TypeOK, TablesTypeOK
<1>3. Own(c)' = Own(c) \cup {x} /\ \A d, i : CounterOf(d, i)' = CounterOf(d, i)
  BY <1>2 DEF Own, CounterOf
<1>4. \A i \in charges[c] : i < idx[c] /\ i \in Nat
  BY <1>1 DEF OpenInv, TypeOK, TablesTypeOK
<1>5. x \in Charge /\ x \notin Own(c) /\ Inc(x) = Cand(c).inc
  BY <1>1, <1>4 DEF Charge, Own, Inc, Cand
<1>6. ASSUME NEW k
      PROVE  On(Own(c), k)' = IF k = Here(c) THEN On(Own(c), k) \cup {x} ELSE On(Own(c), k)
  <2>1. CounterOf(x[1], x[2]) = Here(c)
    BY DEF Here
  <2> HIDE DEF x
  <2> QED
    BY <1>3, <2>1 DEF On
<1> HIDE DEF x
<1>7. ASSUME NEW k \in Counters, lock'[k] = c
      PROVE  working'[k] = stored'[k] + Total(On(Own(c), k)')
  <2>1. working[k] = stored[k] + Total(On(Own(c), k)) /\ working[k] \in Int /\ stored[k] \in Int
    BY <1>1, <1>2, <1>7 DEF OpenInv, TypeOK, TablesTypeOK
  <2>2. CASE k = Here(c)
    <3>1. /\ On(Own(c), k) \in SUBSET Charge /\ IsFiniteSet(On(Own(c), k))
          /\ x \in Charge \ On(Own(c), k)
      BY <1>1, <1>5, OwnType DEF On
    <3>2. Total(On(Own(c), k) \cup {x}) = Total(On(Own(c), k)) + Inc(x)
      BY <3>1, TotalAdd
    <3>3. On(Own(c), k)' = On(Own(c), k) \cup {x}
      BY <1>6, <2>2
    <3>4. Total(On(Own(c), k)') = Total(On(Own(c), k)) + Cand(c).inc
      BY <1>5, <3>2, <3>3
    <3>5. working'[k] = working[k] + Cand(c).inc /\ Total(On(Own(c), k)) \in Int
      BY <1>1, <1>2, <2>2, <3>1, TotalType DEF TypeOK, TablesTypeOK
    <3> QED
      BY <1>1, <1>2, <2>1, <3>4, <3>5
  <2>3. CASE k # Here(c)
    <3>1. On(Own(c), k)' = On(Own(c), k) /\ working'[k] = working[k]
      BY <1>2, <1>6, <2>3 DEF TypeOK, TablesTypeOK
    <3> QED
      BY <1>2, <2>1, <3>1
  <2> QED
    BY <2>2, <2>3
<1>8. \A i \in charges'[c] : lock'[CounterOf(c, i)'] = c
  BY <1>1, <1>2, <1>3 DEF OpenInv, Here
<1>9. /\ pc'[c] \in {"check", "insert", "lock", "update", "deny"} => \A i \in charges'[c] : i < idx'[c]
      /\ pc'[c] = "event" => \A i \in charges'[c] : i <= idx'[c]
  <2>1. CASE Idem[c] = NoKey
    <3>1. /\ pc'[c] \in {"check", "insert", "commit"}
          /\ pc'[c] \in {"check", "insert"} => idx'[c] = idx[c] + 1
      BY <1>1, <2>1, AdvanceMoves DEF UpdateRow, TypeOK
    <3> QED
      BY <1>1, <1>2, <1>4, <3>1
  <2>2. CASE Idem[c] # NoKey
    <3>1. pc'[c] = "event" /\ idx' = idx
      BY <1>1, <2>2 DEF UpdateRow, TypeOK, ControlTypeOK
    <3> QED
      BY <1>1, <1>2, <1>4, <3>1
  <2> QED
    BY <2>1, <2>2
<1> QED
  BY <1>7, <1>8, <1>9 DEF OpenInv

(* COMMIT installs the values that hold the charges of its transaction.     *)
LEMMA CommitBalances ==
  ASSUME IInv, Balanced, NEW c \in Calls, OpenInv(c), Commit(c)
  PROVE  Balanced'
<1>1. TypeOK /\ pc[c] \in InTx /\ ~Finished(c) /\ CallStep(c)
  BY DEF IInv, Commit, InTx, InStatement, Finished, CallStep, Statement
<1>2. /\ charges' = charges /\ win' = win /\ pc' = [pc EXCEPT ![c] = "committed"]
      /\ stored' = [k \in Counters |-> IF lock[k] = c THEN working[k] ELSE stored[k]]
  BY DEF Commit, Install
<1>3. \A d \in Calls : Finished(d)' <=> Finished(d) \/ d = c
  BY <1>1, <1>2 DEF Finished, TypeOK, ControlTypeOK
<1>4. Effective' = Effective \cup Own(c)
  <2>1. \A x : x \in Effective' <=>
          \E d \in Calls : \E i \in charges[d] : Finished(d)' /\ x = <<d, i>>
    BY <1>2 DEF Effective
  <2> QED
    BY <1>3, <2>1, EffectiveIs, OwnIs
<1>5. Effective \cap Own(c) = {}
  <2> SUFFICES ASSUME NEW x \in Effective, x \in Own(c)
               PROVE  FALSE
    OBVIOUS
  <2>1. PICK d \in Calls : Finished(d) /\ \E i \in charges[d] : x = <<d, i>>
    BY EffectiveIs
  <2>2. x[1] = d /\ x[1] = c
    BY <2>1, OwnIs
  <2> QED
    BY <1>1, <2>1, <2>2
<1>6. IsFiniteSet(Effective)'
  <2>1. IsFiniteSet(Effective) /\ IsFiniteSet(Own(c))
    BY <1>1, OwnType DEF Balanced
  <2>2. IsFiniteSet(Effective \cup Own(c))
    BY <2>1, FS_Union
  <2> QED
    BY <1>4, <2>2
<1>7. ASSUME NEW k \in Counters
      PROVE  stored'[k] = Total(On(Effective, k)')
  <2>1. On(Effective, k)' = On(Effective, k) \cup On(Own(c), k)
    <3>1. \A x : CounterOf(x[1], x[2])' = CounterOf(x[1], x[2])
      BY <1>2 DEF CounterOf
    <3> QED
      BY <1>4, <3>1 DEF On
  <2>2. stored[k] = Total(On(Effective, k)) /\ stored[k] \in Int
    BY <1>1 DEF Balanced, TypeOK, TablesTypeOK
  <2>3. CASE lock[k] = c
    <3>1. /\ On(Effective, k) \in SUBSET Charge /\ IsFiniteSet(On(Effective, k))
          /\ On(Own(c), k) \in SUBSET Charge /\ IsFiniteSet(On(Own(c), k))
          /\ On(Effective, k) \cap On(Own(c), k) = {}
      BY <1>1, <1>5, EffectiveType, OwnType DEF Balanced, On
    <3>2. Total(On(Effective, k) \cup On(Own(c), k))
            = Total(On(Effective, k)) + Total(On(Own(c), k))
      BY <3>1, TotalUnion
    <3>3. stored'[k] = stored[k] + Total(On(Own(c), k))
      BY <1>1, <1>2, <2>3 DEF OpenInv
    <3> QED
      BY <2>1, <2>2, <3>2, <3>3
  <2>4. CASE lock[k] # c
    <3>1. On(Own(c), k) = {}
      BY <1>1, <2>4 DEF On, Own, OpenInv
    <3>2. stored'[k] = stored[k] /\ On(Effective, k)' = On(Effective, k)
      BY <1>2, <2>1, <2>4, <3>1
    <3> QED
      BY <2>2, <3>2
  <2> QED
    BY <2>3, <2>4
<1> QED
  BY <1>6, <1>7 DEF Balanced

LEMMA SumStep == IInv /\ SumInv /\ [Next]_vars => SumInv'
<1> SUFFICES ASSUME IInv, SumInv, [Next]_vars
             PROVE  SumInv'
  OBVIOUS
<1>0. TypeOK /\ LockInv /\ EventInv /\ Balanced /\ \A c \in Calls : OpenInv(c)
  BY DEF IInv, SumInv
<1>1. CASE Tick \/ UNCHANGED vars
  <2>1. UNCHANGED <<pc, idx, win, lock, stored, working, charges>>
    BY <1>1 DEF Tick, vars, txVars
  <2>2. /\ \A c, i : CounterOf(c, i)' = CounterOf(c, i)
        /\ \A c : Own(c)' = Own(c) /\ (Finished(c)' <=> Finished(c))
    BY <2>1 DEF CounterOf, Own, Finished
  <2>3. Effective' = Effective
    BY <2>1 DEF Effective, Finished
  <2>4. /\ \A k : On(Effective, k)' = On(Effective, k)
        /\ \A c, k : On(Own(c), k)' = On(Own(c), k)
    BY <2>2, <2>3 DEF On
  <2>5. Balanced'
    BY <1>0, <2>1, <2>3, <2>4 DEF Balanced
  <2>6. \A c \in Calls : OpenInv(c)'
    BY <1>0, <2>1, <2>2, <2>4 DEF OpenInv
  <2> QED
    BY <2>5, <2>6 DEF SumInv
<1>2. ASSUME NEW c \in Calls, CallStep(c)
      PROVE  SumInv'
  <2>1. ASSUME NEW d \in Calls, d # c
        PROVE  OpenInv(d)'
    <3>1. SameCall(d) /\ \A i : CounterOf(d, i)' = CounterOf(d, i)
      BY <1>0, <1>2, <2>1, OneMoves, KeysStay
    <3>2. OpenInv(d) /\ \A k : On(Own(d), k)' = On(Own(d), k)
      BY <1>0, <1>2, <2>1, OthersStay
    <3>3. ASSUME pc[d] \in InTx, NEW i \in charges[d]
          PROVE  lock'[CounterOf(d, i)] = d
      <4>1. CounterOf(d, i) \in Counters /\ lock[CounterOf(d, i)] = d
        BY <1>0, <3>2, <3>3, CandidateType DEF OpenInv, TypeOK, TablesTypeOK
      <4> QED
        BY <1>0, <1>2, <2>1, <4>1, RowsOfOthers, NobodyAssumption
    <3>4. ASSUME pc[d] \in InTx, NEW k \in Counters, lock'[k] = d
          PROVE  working'[k] = stored'[k] + Total(On(Own(d), k)')
      <4>1. lock[k] = d /\ working'[k] = working[k] /\ stored'[k] = stored[k]
        BY <1>0, <1>2, <2>1, <3>4, RowsOfOthers, NobodyAssumption
      <4> QED
        BY <3>2, <3>4, <4>1 DEF OpenInv
    <3> QED
      BY <3>1, <3>2, <3>3, <3>4 DEF OpenInv, SameCall
  <2>2. Balanced' /\ OpenInv(c)'
    <3> USE DEF TypeOK, ControlTypeOK, TablesTypeOK, txVars
    <3>0. ASSUME pc'[c] \notin InTx
          PROVE  OpenInv(c)'
      BY <3>0 DEF OpenInv, InTx, InStatement
    <3>1. CASE Start(c) \/ Decline(c) \/ ConnectFails(c)
      <4>1. /\ pc[c] \in {"idle", "connect"} /\ pc'[c] \in {"connect", "done"}
            /\ charges'[c] = {} /\ stored' = stored
        BY <1>0, <3>1 DEF Start, Decline, ConnectFails, Answer, EventInv
      <4> QED
        BY <1>0, <1>2, <3>0, <4>1, BalanceStays DEF Finished, InTx, InStatement
    <3>2. CASE Connect(c)
      <4>1. /\ pc[c] = "connect" /\ pc'[c] \in {"check", "insert"}
            /\ charges'[c] = {} /\ stored' = stored /\ lock' = lock
        BY <1>0, <3>2 DEF Connect, FirstStatement, EventInv
      <4>2. \A k \in Counters : lock[k] # c
        BY <1>0, <4>1 DEF LockInv, InTx, InStatement
      <4>3. OpenInv(c)'
        BY <4>1, <4>2 DEF OpenInv
      <4> QED
        BY <1>0, <1>2, <4>1, <4>3, BalanceStays DEF Finished
    <3>3. CASE CheckEvent(c) \/ RecordEvent(c)
      <4>1. /\ pc[c] \in {"check", "event"} /\ pc'[c] \in {"check", "insert", "commit"}
            /\ UNCHANGED <<charges, stored, working, lock>>
            /\ idx'[c] \in {idx[c], idx[c] + 1}
            /\ pc[c] = "event" /\ pc'[c] # "commit" => idx'[c] = idx[c] + 1
        BY <1>0, <3>3, AdvanceMoves DEF CheckEvent, RecordEvent, Advance
      <4>2. \A i \in charges[c] : i \in Nat /\ idx[c] \in Nat
                 /\ (pc[c] = "check" => i < idx[c]) /\ (pc[c] = "event" => i <= idx[c])
        BY <1>0 DEF OpenInv
      <4>3. pc'[c] \in {"check", "insert", "lock", "update", "deny"} => \A i \in charges[c] : i < idx'[c]
        BY <4>1, <4>2
      <4>4. OpenInv(c)'
        BY <1>0, <1>2, <4>1, <4>3, OpenStays DEF InTx, InStatement
      <4> QED
        BY <1>0, <1>2, <4>1, <4>4, BalanceStays DEF Finished
    <3>4. CASE InsertRow(c) \/ LockRow(c)
      <4>1. /\ pc[c] \in {"insert", "lock"} /\ pc'[c] \in {"lock", "update", "deny"}
            /\ UNCHANGED <<charges, stored, working, idx>>
            /\ \A k \in Counters : lock'[k] = lock[k] \/ (lock[k] = Nobody /\ lock'[k] = c)
        BY <1>0, <3>4 DEF InsertRow, LockRow
      <4>2. \A i \in charges[c] : i < idx'[c]
        BY <1>0, <4>1 DEF OpenInv
      <4>3. OpenInv(c)'
        BY <1>0, <1>2, <4>1, <4>2, OpenStays DEF InTx, InStatement
      <4> QED
        BY <1>0, <1>2, <4>1, <4>3, BalanceStays DEF Finished
    <3>5. CASE StatementFails(c) \/ DeadlockVictim(c)
      <4>1. /\ pc[c] \in InTx /\ pc'[c] = "failing"
            /\ UNCHANGED <<charges, stored, working, lock>>
        BY <1>0, <3>5, VictimWaits DEF StatementFails, DeadlockVictim, InTx, InStatement
      <4>2. OpenInv(c)'
        BY <1>0, <1>2, <4>1, OpenStays DEF InTx, InStatement
      <4> QED
        BY <1>0, <1>2, <4>1, <4>2, BalanceStays DEF Finished, InTx, InStatement
    <3>6. CASE UpdateRow(c)
      <4>1. pc[c] = "update" /\ pc'[c] \in {"check", "insert", "commit", "event"} /\ stored' = stored
        BY <1>0, <3>6, AdvanceMoves DEF UpdateRow
      <4>2. OpenInv(c)'
        BY <1>0, <3>6, OpenUpdates
      <4> QED
        BY <1>0, <1>2, <4>1, <4>2, BalanceStays DEF Finished
    <3>7. CASE Commit(c)
      <4>1. pc'[c] = "committed"
        BY <1>0, <3>7 DEF Commit
      <4> QED
        BY <1>0, <3>0, <3>7, <4>1, CommitBalances DEF InTx, InStatement
    <3>8. CASE Return(c) \/ CommitAnswerLost(c)
      <4>1. pc[c] = "committed" /\ pc'[c] = "done" /\ charges' = charges /\ stored' = stored
        BY <1>0, <3>8 DEF Return, CommitAnswerLost, Answer
      <4> QED
        BY <1>0, <1>2, <3>0, <4>1, BalanceStays DEF Finished, InTx, InStatement
    <3>9. CASE Rollback(c) \/ Abort(c)
      <4>1. /\ pc[c] \in {"deny", "failing"} /\ pc'[c] = "done"
            /\ charges'[c] = {} /\ stored' = stored
        BY <1>0, <3>9 DEF Rollback, Abort, Answer, Undo
      <4> QED
        BY <1>0, <1>2, <3>0, <4>1, BalanceStays DEF Finished, InTx, InStatement
    <3> QED
      BY <1>2, <3>1, <3>2, <3>3, <3>4, <3>5, <3>6, <3>7, <3>8, <3>9
      DEF CallStep, Statement, Failure
  <2> QED
    BY <2>1, <2>2 DEF SumInv
<1> QED
  BY <1>1, <1>2 DEF Next, AllAnswered, CallStep

(* A committed counter is the sum of what the calls whose reservation took  *)
(* effect charged to it, however reserve calls interleave, fail, are rolled *)
(* back or lose the answer of COMMIT.                                       *)
THEOREM NothingLost == Spec => []NoLostUpdate
<1>1. Spec => [](IInv /\ SumInv)
  <2>1. Init => IInv /\ SumInv
    BY InvInit, SumInit
  <2>2. IInv /\ SumInv /\ [Next]_vars => (IInv /\ SumInv)'
    BY InvStep, SumStep
  <2> QED
    BY <2>1, <2>2, PTL DEF Spec
<1>2. SumInv => NoLostUpdate
  <2> SUFFICES ASSUME SumInv, NEW k \in Counters
               PROVE  stored[k] = MapThenSumSet(LAMBDA x : Cands[x[1]][x[2]].inc, On(Effective, k))
    BY Zenon DEF NoLostUpdate, On, Effective
  <2>1. stored[k] = Total(On(Effective, k))
    BY DEF SumInv, Balanced
  <2>2. MapThenSumSet(LAMBDA x : Cands[x[1]][x[2]].inc, On(Effective, k)) = Total(On(Effective, k))
    BY TotalIs
  <2> QED
    BY <2>1, <2>2, Zenon
<1> QED
  BY <1>1, <1>2, PTL

--------------------------------------------------------------------------------
(* The refinement: what an open transaction will show when it commits, or   *)
(* when it refuses.                                                         *)

(* The charges of c up to its candidate n.                                  *)
Upto(c, n) == {c} \X {j \in charges[c] : j <= n}

(* Candidate i is charged, or its event is on record, or is that of an      *)
(* earlier candidate which is charged.                                      *)
Covered(c, i) ==
    \/ i \in charges[c]
    \/ Keyed(c) /\ (OnRecord(c, i) \/ \E j \in charges[c] : j < i /\ CounterOf(c, j) = CounterOf(c, i))

(* Nobody has been told; each charge fits on top of the committed value and *)
(* the charges before it, and a refused one does not.                       *)
FitInv(c) ==
    /\ pc[c] # "done" => outcome[c] = "none"
    /\ pc[c] \in InTx => \A i \in charges[c] :
         stored[CounterOf(c, i)] + Total(On(Upto(c, i), CounterOf(c, i))) <= Cands[c][i].limit
    /\ pc[c] = "deny" => lock[Here(c)] = c /\ working[Here(c)] + Cand(c).inc > Cand(c).limit

(* The events a transaction wrote are those of its charges, and every       *)
(* candidate it has been through is covered.                                *)
CoverInv(c) ==
    /\ newEvents[c] # {} => pc[c] \in InTx /\ Keyed(c)
    /\ \A k \in newEvents[c] : \E j \in charges[c] : CounterOf(c, j) = k
    /\ pc[c] = "event" => idx[c] \in charges[c]
    /\ pc[c] \in {"check", "insert", "lock", "update", "deny"} =>
         \A i \in DOMAIN Cands[c] : i < idx[c] => Covered(c, i)
    /\ pc[c] = "event" => \A i \in DOMAIN Cands[c] : i <= idx[c] => Covered(c, i)
    /\ pc[c] = "commit" => \A i \in DOMAIN Cands[c] : Covered(c, i)

ShowInv == \A c \in Calls : FitInv(c) /\ CoverInv(c)

LEMMA ShowInit == Init => ShowInv
  BY DEF Init, ShowInv, FitInv, CoverInv, InTx, InStatement

(* The calls that do not move.                                              *)
LEMMA OthersShow ==
  ASSUME IInv, SumInv, ShowInv, NEW c \in Calls, CallStep(c), NEW d \in Calls, d # c
  PROVE  FitInv(d)' /\ CoverInv(d)'
<1>1. /\ TypeOK /\ OpenInv(d) /\ FitInv(d) /\ CoverInv(d) /\ LimitInv
      /\ SameCall(d) /\ \A i : CounterOf(d, i)' = CounterOf(d, i)
  BY OneMoves, KeysStay DEF IInv, SumInv, ShowInv
<1>2. ASSUME NEW i
      PROVE  On(Upto(d, i), CounterOf(d, i))' = On(Upto(d, i), CounterOf(d, i))
  <2>1. Upto(d, i)' = Upto(d, i)
    BY <1>1 DEF Upto, SameCall
  <2>2. \A x \in Upto(d, i) : CounterOf(x[1], x[2])' = CounterOf(x[1], x[2])
    BY <1>1 DEF Upto
  <2> QED
    BY <1>1, <2>1, <2>2 DEF On
<1>3. ASSUME NEW k \in Counters, lock[k] = d
      PROVE  lock'[k] = d /\ working'[k] = working[k] /\ stored'[k] = stored[k]
  BY <1>1, <1>3, RowsOfOthers, NobodyAssumption
<1>4. ASSUME pc[d] \in InTx, NEW i \in charges[d]
      PROVE  stored'[CounterOf(d, i)'] + Total(On(Upto(d, i), CounterOf(d, i))') <= Cands[d][i].limit
  <2>1. CounterOf(d, i) \in Counters /\ lock[CounterOf(d, i)] = d
    BY <1>1, <1>4, CandidateType DEF OpenInv, TypeOK, TablesTypeOK
  <2>2. stored'[CounterOf(d, i)'] = stored[CounterOf(d, i)]
    BY <1>1, <1>3, <2>1
  <2>3. Total(On(Upto(d, i), CounterOf(d, i))') = Total(On(Upto(d, i), CounterOf(d, i)))
    BY <1>2
  <2> QED
    BY <1>1, <1>4, <2>2, <2>3 DEF FitInv
<1>5. ASSUME pc[d] = "deny"
      PROVE  lock'[Here(d)'] = d /\ working'[Here(d)'] + Cand(d)'.inc > Cand(d)'.limit
  <2>1. Here(d)' = Here(d) /\ Cand(d)' = Cand(d)
    BY <1>1 DEF SameCall, Here, Cand, CounterOf
  <2>2. Here(d) \in Counters
    BY <1>1, <1>5, HereType DEF InTx, InStatement, TypeOK
  <2> QED
    BY <1>1, <1>3, <1>5, <2>1, <2>2 DEF FitInv
<1>6. FitInv(d)'
  BY <1>1, <1>4, <1>5 DEF FitInv, SameCall
<1>7. \A i : Covered(d, i) => Covered(d, i)'
  BY <1>1, EventsGrow DEF Covered, OnRecord, Keyed, SameCall
<1>8. CoverInv(d)'
  BY <1>1, <1>7 DEF CoverInv, SameCall, Keyed
<1> QED
  BY <1>6, <1>8

(* The charges of a transaction that does not charge still fit.             *)
LEMMA FitStays ==
  ASSUME IInv, SumInv, ShowInv, NEW c \in Calls, CallStep(c),
         pc[c] \in InTx, pc'[c] \in InTx,
         charges' = charges, stored' = stored, outcome' = outcome,
         pc'[c] = "deny" =>
           lock'[Here(c)'] = c /\ working'[Here(c)'] + Cand(c)'.inc > Cand(c)'.limit
  PROVE  FitInv(c)'
<1>1. /\ TypeOK /\ FitInv(c) /\ pc[c] # "idle" /\ pc[c] # "done"
      /\ \A i : CounterOf(c, i)' = CounterOf(c, i)
  BY KeysStay DEF IInv, ShowInv, InTx, InStatement
<1>2. ASSUME NEW i
      PROVE  On(Upto(c, i), CounterOf(c, i))' = On(Upto(c, i), CounterOf(c, i))
  <2>1. Upto(c, i)' = Upto(c, i)
    BY DEF Upto
  <2>2. \A x \in Upto(c, i) : CounterOf(x[1], x[2])' = CounterOf(x[1], x[2])
    BY <1>1 DEF Upto
  <2> QED
    BY <1>1, <2>1, <2>2 DEF On
<1>3. ASSUME NEW i \in charges[c]
      PROVE  stored'[CounterOf(c, i)'] + Total(On(Upto(c, i), CounterOf(c, i))') <= Cands[c][i].limit
  <2>1. Total(On(Upto(c, i), CounterOf(c, i))') = Total(On(Upto(c, i), CounterOf(c, i)))
    BY <1>2
  <2> QED
    BY <1>1, <2>1 DEF FitInv
<1> QED
  BY <1>1, <1>3 DEF FitInv

(* What is covered stays covered.                                           *)
LEMMA CoverKept ==
  ASSUME TypeOK, NEW c \in Calls, CallStep(c), pc[c] # "idle", charges[c] \subseteq charges'[c]
  PROVE  /\ \A i : CounterOf(c, i)' = CounterOf(c, i)
         /\ \A i : Covered(c, i) => Covered(c, i)'
  BY KeysStay, EventsGrow DEF Covered, OnRecord, Keyed

(* Where a transaction is in its list of candidates.                        *)
Passed(c) ==
    /\ pc[c] = "event" => idx[c] \in charges[c]
    /\ pc[c] \in {"check", "insert", "lock", "update", "deny"} =>
         \A i \in DOMAIN Cands[c] : i < idx[c] => Covered(c, i)
    /\ pc[c] = "event" => \A i \in DOMAIN Cands[c] : i <= idx[c] => Covered(c, i)
    /\ pc[c] = "commit" => \A i \in DOMAIN Cands[c] : Covered(c, i)

LEMMA AdvancePasses ==
  ASSUME ControlTypeOK, NEW c \in Calls, Advance(c), pc[c] \in InTx,
         \A i \in DOMAIN Cands[c] : i <= idx[c] => Covered(c, i)'
  PROVE  Passed(c)'
<1>1. /\ pc'[c] \in {"check", "insert", "commit"}
      /\ pc'[c] \in {"check", "insert"} => idx'[c] = idx[c] + 1
      /\ pc'[c] = "commit" => idx[c] >= Len(Cands[c])
  BY AdvanceMoves
<1>2. DOMAIN Cands[c] = 1..Len(Cands[c]) /\ Len(Cands[c]) \in Nat /\ idx[c] \in Nat
  BY CandsAssumption DEF ControlTypeOK
<1>3. /\ pc'[c] \in {"check", "insert"} => \A i \in DOMAIN Cands[c] : i < idx'[c] => i <= idx[c]
      /\ pc'[c] = "commit" => \A i \in DOMAIN Cands[c] : i <= idx[c]
  BY <1>1, <1>2
<1> QED
  BY <1>1, <1>3 DEF Passed

LEMMA PassedStep ==
  ASSUME IInv, SumInv, ShowInv, NEW c \in Calls, CallStep(c)
  PROVE  Passed(c)'
<1> USE DEF TypeOK, ControlTypeOK, TablesTypeOK, txVars
<1>0. TypeOK /\ CoverInv(c) /\ OpenInv(c) /\ EventInv
  BY DEF IInv, SumInv, ShowInv
<1>1. ASSUME pc'[c] \notin InTx
      PROVE  Passed(c)'
  BY <1>1 DEF Passed, InTx, InStatement
<1>2. CASE Start(c) \/ Decline(c) \/ ConnectFails(c)
  BY <1>0, <1>1, <1>2 DEF Start, Decline, ConnectFails, Answer, InTx, InStatement
<1>3. CASE Connect(c)
  <2>1. idx'[c] = 1 /\ pc'[c] \in {"check", "insert"}
    BY <1>0, <1>3 DEF Connect, FirstStatement
  <2>2. \A i \in DOMAIN Cands[c] : ~(i < idx'[c])
    BY <2>1, CandsAssumption
  <2> QED
    BY <2>1, <2>2 DEF Passed
<1>4. \A i \in DOMAIN Cands[c] : i <= idx[c] => i < idx[c] \/ i = idx[c]
  BY <1>0, CandsAssumption
<1>5. CASE CheckEvent(c)
  <2>1. charges' = charges /\ pc[c] = "check" /\ pc[c] \in InTx
    BY <1>5 DEF CheckEvent, InTx, InStatement
  <2>2. \A i : Covered(c, i) => Covered(c, i)'
    BY <1>0, <2>1, CoverKept
  <2>3. CASE EventVisible(c, Here(c))
    <3>1. Covered(c, idx[c])
      <4>1. Keyed(c)
        BY <1>0, <2>1 DEF EventInv
      <4>2. CASE <<Idem[c], Here(c)>> \in events
        BY <4>1, <4>2 DEF Covered, OnRecord, Here
      <4>3. CASE Here(c) \in newEvents[c]
        <5>1. PICK j \in charges[c] : CounterOf(c, j) = Here(c)
          BY <1>0, <4>3 DEF CoverInv
        <5>2. j < idx[c]
          BY <1>0, <2>1 DEF OpenInv
        <5> QED
          BY <4>1, <5>1, <5>2 DEF Covered, Here
      <4> QED
        BY <2>3, <4>2, <4>3 DEF EventVisible
    <3>2. \A i \in DOMAIN Cands[c] : i < idx[c] => Covered(c, i)
      BY <1>0, <2>1 DEF CoverInv
    <3>3. \A i \in DOMAIN Cands[c] : i <= idx[c] => Covered(c, i)'
      BY <1>4, <2>2, <3>1, <3>2
    <3>4. Advance(c)
      BY <1>5, <2>3 DEF CheckEvent
    <3> QED
      BY <1>0, <2>1, <3>3, <3>4, AdvancePasses
  <2>4. CASE ~EventVisible(c, Here(c))
    <3>1. pc'[c] = "insert" /\ idx' = idx
      BY <1>0, <1>5, <2>4 DEF CheckEvent
    <3> QED
      BY <1>0, <2>1, <2>2, <3>1 DEF CoverInv, Passed
  <2> QED
    BY <2>3, <2>4
<1>6. CASE InsertRow(c) \/ LockRow(c)
  <2>1. /\ charges' = charges /\ idx' = idx
        /\ pc[c] \in {"insert", "lock"} /\ pc'[c] \in {"lock", "update", "deny"}
    BY <1>0, <1>6 DEF InsertRow, LockRow
  <2>2. \A i : Covered(c, i) => Covered(c, i)'
    BY <1>0, <2>1, CoverKept
  <2> QED
    BY <1>0, <2>1, <2>2 DEF CoverInv, Passed
<1>7. CASE UpdateRow(c)
  <2>1. charges'[c] = charges[c] \cup {idx[c]} /\ pc[c] = "update" /\ pc[c] \in InTx
    BY <1>0, <1>7 DEF UpdateRow, InTx, InStatement
  <2>2. \A i : Covered(c, i) => Covered(c, i)'
    BY <1>0, <2>1, CoverKept
  <2>3. \A i \in charges'[c] : Covered(c, i)'
    BY DEF Covered
  <2>4. \A i \in DOMAIN Cands[c] : i <= idx[c] => Covered(c, i)'
    <3>1. \A i \in DOMAIN Cands[c] : i < idx[c] => Covered(c, i)
      BY <1>0, <2>1 DEF CoverInv
    <3> QED
      BY <1>4, <2>1, <2>2, <2>3, <3>1
  <2>5. CASE Keyed(c)
    <3>1. pc'[c] = "event" /\ idx' = idx
      BY <1>0, <1>7, <2>5 DEF UpdateRow, Keyed
    <3> QED
      BY <2>1, <2>4, <3>1 DEF Passed
  <2>6. CASE ~Keyed(c)
    <3>1. Advance(c)
      BY <1>7, <2>6 DEF UpdateRow, Keyed
    <3> QED
      BY <1>0, <2>1, <2>4, <3>1, AdvancePasses
  <2> QED
    BY <2>5, <2>6
<1>8. CASE RecordEvent(c)
  <2>1. charges' = charges /\ pc[c] = "event" /\ pc[c] \in InTx /\ Advance(c)
    BY <1>8 DEF RecordEvent, InTx, InStatement
  <2>2. \A i \in DOMAIN Cands[c] : i <= idx[c] => Covered(c, i)'
    BY <1>0, <2>1, CoverKept DEF CoverInv
  <2> QED
    BY <1>0, <2>1, <2>2, AdvancePasses
<1>9. CASE \/ Commit(c) \/ StatementFails(c) \/ DeadlockVictim(c)
           \/ Return(c) \/ CommitAnswerLost(c) \/ Rollback(c) \/ Abort(c)
  <2>1. pc'[c] \in {"committed", "failing", "done"}
    BY <1>0, <1>9
    DEF Commit, StatementFails, DeadlockVictim, Return, CommitAnswerLost, Rollback, Abort, Answer
  <2> QED
    BY <2>1 DEF Passed
<1> QED
  BY <1>2, <1>3, <1>5, <1>6, <1>7, <1>8, <1>9 DEF CallStep, Statement, Failure

LEMMA CoverStep ==
  ASSUME IInv, SumInv, ShowInv, NEW c \in Calls, CallStep(c)
  PROVE  CoverInv(c)'
<1> USE DEF TypeOK, ControlTypeOK, TablesTypeOK, txVars
<1>0. TypeOK /\ CoverInv(c) /\ EventInv /\ (Keyed(c)' <=> Keyed(c))
  BY DEF IInv, ShowInv, Keyed
<1>1. /\ newEvents'[c] # {} => pc'[c] \in InTx /\ Keyed(c)
      /\ \A k \in newEvents'[c] : \E j \in charges'[c] : CounterOf(c, j)' = k
  <2>1. CASE \/ Start(c) \/ Decline(c) \/ ConnectFails(c) \/ Connect(c) \/ Commit(c)
             \/ Return(c) \/ CommitAnswerLost(c) \/ Rollback(c) \/ Abort(c)
    <3>1. newEvents'[c] = {}
      BY <1>0, <2>1 DEF Start, Decline, ConnectFails, Connect, Commit, Return, CommitAnswerLost,
         Rollback, Abort, Install, Undo, EventInv
    <3> QED
      BY <3>1
  <2>2. CASE \/ CheckEvent(c) \/ InsertRow(c) \/ LockRow(c) \/ UpdateRow(c)
             \/ StatementFails(c) \/ DeadlockVictim(c)
    <3>1. newEvents' = newEvents /\ charges[c] \subseteq charges'[c] /\ pc[c] # "idle"
      <4>1. CASE CheckEvent(c) \/ InsertRow(c) \/ LockRow(c)
        BY <4>1 DEF CheckEvent, InsertRow, LockRow
      <4>2. CASE UpdateRow(c)
        BY <1>0, <4>2 DEF UpdateRow
      <4>3. CASE StatementFails(c) \/ DeadlockVictim(c)
        BY <4>3, VictimWaits DEF StatementFails, DeadlockVictim, InStatement
      <4> QED
        BY <2>2, <4>1, <4>2, <4>3
    <3>2. pc'[c] \in InTx
      BY <1>0, <2>2, AdvanceMoves DEF CheckEvent, InsertRow, LockRow, UpdateRow, StatementFails,
         DeadlockVictim, InTx, InStatement
    <3>3. \A i : CounterOf(c, i)' = CounterOf(c, i)
      BY <1>0, <3>1, CoverKept
    <3> QED
      BY <1>0, <3>1, <3>2, <3>3 DEF CoverInv
  <2>3. CASE RecordEvent(c)
    <3>1. /\ newEvents'[c] = newEvents[c] \cup {CounterOf(c, idx[c])} /\ charges' = charges
          /\ pc[c] = "event" /\ pc'[c] \in InTx
      BY <1>0, <2>3, AdvanceMoves DEF RecordEvent, Here, InTx, InStatement
    <3>2. \A i : CounterOf(c, i)' = CounterOf(c, i)
      BY <1>0, <3>1, CoverKept
    <3>3. Keyed(c) /\ idx[c] \in charges[c]
      BY <1>0, <3>1 DEF CoverInv, EventInv
    <3> QED
      BY <1>0, <3>1, <3>2, <3>3 DEF CoverInv
  <2> QED
    BY <2>1, <2>2, <2>3 DEF CallStep, Statement, Failure
<1>2. Passed(c)'
  BY PassedStep
<1> QED
  BY <1>0, <1>1, <1>2 DEF CoverInv, Passed

(* The update charges what the limit check found to fit.                    *)
LEMMA FitUpdates ==
  ASSUME IInv, SumInv, ShowInv, NEW c \in Calls, UpdateRow(c)
  PROVE  FitInv(c)'
<1>1. /\ TypeOK /\ pc[c] = "update" /\ pc[c] \in InTx /\ OpenInv(c) /\ FitInv(c)
      /\ lock[Here(c)] = c /\ working[Here(c)] + Cand(c).inc <= Cand(c).limit
      /\ Here(c) \in Counters /\ Cand(c).inc \in Int /\ idx[c] \in Nat
  BY HereType
  DEF IInv, SumInv, ShowInv, UpdateRow, LimitInv, InTx, InStatement, TypeOK, ControlTypeOK
<1>2. /\ charges'[c] = charges[c] \cup {idx[c]}
      /\ lock' = lock /\ stored' = stored /\ win' = win /\ outcome' = outcome
      /\ working' = [working EXCEPT ![Here(c)] = working[Here(c)] + Cand(c).inc]
  BY <1>1 DEF UpdateRow, TypeOK, TablesTypeOK
<1>3. \A d, i : CounterOf(d, i)' = CounterOf(d, i)
  BY <1>2 DEF CounterOf
<1>4. \A i \in charges[c] : i < idx[c] /\ i \in Nat
  BY <1>1 DEF OpenInv, TypeOK, TablesTypeOK
<1>5. ASSUME NEW i \in charges[c]
      PROVE  stored'[CounterOf(c, i)'] + Total(On(Upto(c, i), CounterOf(c, i))') <= Cands[c][i].limit
  <2>1. {j \in charges'[c] : j <= i} = {j \in charges[c] : j <= i}
    BY <1>1, <1>2, <1>4
  <2>2. On(Upto(c, i), CounterOf(c, i))' = On(Upto(c, i), CounterOf(c, i))
    <3>1. Upto(c, i)' = Upto(c, i)
      BY <2>1 DEF Upto
    <3> QED
      BY <1>3, <3>1 DEF On
  <2>3. Total(On(Upto(c, i), CounterOf(c, i))') = Total(On(Upto(c, i), CounterOf(c, i)))
    BY <2>2
  <2> QED
    BY <1>1, <1>2, <1>3, <2>3 DEF FitInv
<1>6. ASSUME NEW i, i = idx[c], NEW k, k = Here(c)
      PROVE  stored'[CounterOf(c, i)'] + Total(On(Upto(c, i), CounterOf(c, i))') <= Cands[c][i].limit
  <2>1. CounterOf(c, i) = k /\ CounterOf(c, i)' = k /\ k \in Counters
    BY <1>1, <1>3, <1>6 DEF Here
  <2>2. {j \in charges'[c] : j <= i} = charges'[c]
    BY <1>1, <1>2, <1>4, <1>6
  <2>3. Upto(c, i)' = Own(c)'
    BY <2>2 DEF Upto, Own
  <2>4. On(Upto(c, i), CounterOf(c, i))' = On(Own(c), k)'
    BY <2>1, <2>3 DEF On
  <2>5. OpenInv(c)'
    BY <1>1, OpenUpdates
  <2>6. pc'[c] \in InTx /\ lock'[k] = c
    BY <1>1, <1>2, <1>6, AdvanceMoves
    DEF UpdateRow, InTx, InStatement, TypeOK, ControlTypeOK
  <2>7. working'[k] = stored'[k] + Total(On(Own(c), k)')
    BY <2>1, <2>5, <2>6 DEF OpenInv
  <2>8. working'[k] <= Cands[c][i].limit
    BY <1>1, <1>2, <1>6, <2>1 DEF Cand, TypeOK, TablesTypeOK
  <2>9. Total(On(Upto(c, i), CounterOf(c, i))') = Total(On(Own(c), k)')
    BY <2>4
  <2> QED
    BY <2>1, <2>7, <2>8, <2>9
<1>7. pc'[c] # "deny" /\ outcome[c] = "none"
  BY <1>1, AdvanceMoves DEF UpdateRow, FitInv, TypeOK, ControlTypeOK
<1>8. \A i \in charges'[c] :
        stored'[CounterOf(c, i)'] + Total(On(Upto(c, i), CounterOf(c, i))') <= Cands[c][i].limit
  BY <1>2, <1>5, <1>6
<1> QED
  BY <1>2, <1>7, <1>8 DEF FitInv

LEMMA FitStep ==
  ASSUME IInv, SumInv, ShowInv, NEW c \in Calls, CallStep(c)
  PROVE  FitInv(c)'
<1> USE DEF TypeOK, ControlTypeOK, TablesTypeOK, txVars
<1>0. TypeOK /\ FitInv(c)
  BY DEF IInv, ShowInv
<1>1. CASE Start(c) \/ Decline(c) \/ ConnectFails(c)
  <2>1. /\ pc'[c] \in {"connect", "done"}
        /\ pc'[c] = "connect" => outcome'[c] = outcome[c] /\ pc[c] # "done"
    BY <1>0, <1>1 DEF Start, Decline, ConnectFails, Answer
  <2> QED
    BY <1>0, <2>1 DEF FitInv, InTx, InStatement
<1>2. CASE Connect(c)
  <2>1. /\ pc[c] = "connect" /\ pc'[c] \in {"check", "insert"}
        /\ charges'[c] = {} /\ outcome' = outcome
    BY <1>0, <1>2 DEF Connect, FirstStatement, IInv, EventInv
  <2> QED
    BY <1>0, <2>1 DEF FitInv
<1>3. CASE CheckEvent(c) \/ RecordEvent(c) \/ InsertRow(c)
  <2>1. /\ pc[c] \in {"check", "event", "insert"} /\ pc'[c] \in {"check", "insert", "commit", "lock"}
        /\ UNCHANGED <<charges, stored, outcome>>
    BY <1>0, <1>3, AdvanceMoves DEF CheckEvent, RecordEvent, InsertRow
  <2> QED
    BY <1>0, <2>1, FitStays DEF InTx, InStatement
<1>4. CASE LockRow(c)
  <2>1. /\ pc[c] = "lock" /\ pc'[c] \in {"deny", "update"} /\ pc[c] \in InTx
        /\ UNCHANGED <<charges, stored, outcome, working, idx, win>>
    BY <1>0, <1>4 DEF LockRow, InTx, InStatement
  <2>2. /\ Here(c) \in Counters /\ Cand(c).inc \in Int /\ Cand(c).limit \in Int
        /\ Here(c)' = Here(c) /\ Cand(c)' = Cand(c)
    BY <1>0, <2>1, HereType DEF Here, Cand, CounterOf
  <2>3. pc'[c] = "deny" =>
          lock'[Here(c)] = c /\ working'[Here(c)] + Cand(c).inc > Cand(c).limit
    BY <1>0, <1>4, <2>1, <2>2 DEF LockRow
  <2> QED
    BY <1>0, <2>1, <2>2, <2>3, FitStays DEF InTx, InStatement
<1>5. CASE UpdateRow(c)
  BY <1>5, FitUpdates
<1>6. CASE StatementFails(c) \/ DeadlockVictim(c)
  <2>1. /\ pc[c] \in InTx /\ pc'[c] = "failing"
        /\ UNCHANGED <<charges, stored, outcome>>
    BY <1>0, <1>6, VictimWaits DEF StatementFails, DeadlockVictim, InTx, InStatement
  <2> QED
    BY <1>0, <2>1, FitStays DEF InTx, InStatement
<1>7. CASE Commit(c) \/ Return(c) \/ CommitAnswerLost(c) \/ Rollback(c) \/ Abort(c)
  <2>1. /\ pc'[c] \in {"committed", "done"} /\ pc[c] # "done"
        /\ pc'[c] = "committed" => outcome' = outcome
    BY <1>0, <1>7 DEF Commit, Return, CommitAnswerLost, Rollback, Abort, Answer
  <2> QED
    BY <1>0, <2>1 DEF FitInv, InTx, InStatement
<1> QED
  BY <1>1, <1>2, <1>3, <1>4, <1>5, <1>6, <1>7 DEF CallStep, Statement, Failure

LEMMA ShowStep == IInv /\ SumInv /\ ShowInv /\ [Next]_vars => ShowInv'
<1> SUFFICES ASSUME IInv, SumInv, ShowInv, [Next]_vars
             PROVE  ShowInv'
  OBVIOUS
<1>1. CASE Tick \/ UNCHANGED vars
  <2>1. UNCHANGED <<pc, idx, win, lock, stored, working, charges, newEvents, events, outcome>>
    BY <1>1 DEF Tick, vars, txVars
  <2>2. \A c, i : CounterOf(c, i)' = CounterOf(c, i)
    BY <2>1 DEF CounterOf
  <2>3. \A c, i : On(Upto(c, i), CounterOf(c, i))' = On(Upto(c, i), CounterOf(c, i))
    BY <2>1, <2>2 DEF On, Upto
  <2>4. \A c : Here(c)' = Here(c) /\ Cand(c)' = Cand(c)
    BY <2>1 DEF Here, Cand, CounterOf
  <2>5. \A c, i : Covered(c, i)' <=> Covered(c, i)
    BY <2>1, <2>2 DEF Covered, OnRecord, Keyed
  <2>6. \A c \in Calls : FitInv(c)'
    BY <2>1, <2>2, <2>3, <2>4 DEF FitInv, ShowInv
  <2>7. \A c \in Calls : CoverInv(c)'
    BY <2>1, <2>2, <2>5 DEF CoverInv, ShowInv, Keyed
  <2> QED
    BY <2>6, <2>7 DEF ShowInv
<1>2. ASSUME NEW c \in Calls, CallStep(c)
      PROVE  ShowInv'
  BY <1>2, OthersShow, FitStep, CoverStep DEF ShowInv
<1> QED
  BY <1>1, <1>2 DEF Next, AllAnswered, CallStep

--------------------------------------------------------------------------------
(* Each step of the protocol is one of the ledger, or none.                 *)

(* What the ledger calls charged and settled.                               *)
ChargedBy(c) == IF Finished(c) THEN charges[c] ELSE {}
ToldLater == {c \in Calls : pc[c] = "committed"}

(* The ledger's keys and sums are those of the proof.                       *)
LEMMA LedgerTerms ==
  /\ \A c, i : Ledger!KeyOf(c, i) = CounterOf(c, i)
  /\ \A c, S, k : Ledger!Sum(c, S, k) = Total(On({c} \X S, k))
<1>1. \A c, i : Ledger!KeyOf(c, i) = CounterOf(c, i)
  BY DEF Ledger!KeyOf, CounterOf, Window
<1>2. ASSUME NEW c, NEW S, NEW k
      PROVE  Ledger!Sum(c, S, k) = Total(On({c} \X S, k))
  <2> DEFINE T == {x \in {c} \X S : Ledger!KeyOf(x[1], x[2]) = k}
  <2>1. T = On({c} \X S, k)
    BY <1>1 DEF On
  <2>2. Ledger!MapThenSumSet(LAMBDA x : Cands[x[1]][x[2]].inc, T) = Total(T)
    BY Zenon DEF Ledger!MapThenSumSet, Ledger!MapThenFoldSet, Total, Sums, Inc, Pick
  <2>3. Ledger!Sum(c, S, k) = Total(T)
    BY <2>2, Zenon DEF Ledger!Sum
  <2> HIDE DEF T
  <2> QED
    BY <2>1, <2>3
<1> QED
  BY <1>1, <1>2

(* COMMIT is the ledger's Reserve, of the candidates the call is charged for. *)
LEMMA CommitReserves ==
  ASSUME IInv, SumInv, ShowInv, NEW c \in Calls, Commit(c)
  PROVE  Ledger!Reserve(c)
<1>1. /\ TypeOK /\ EventInv /\ OpenInv(c) /\ FitInv(c) /\ CoverInv(c)
      /\ pc[c] = "commit" /\ pc[c] \in InTx
  BY DEF IInv, SumInv, ShowInv, Commit, InTx, InStatement
<1>2. /\ charges' = charges /\ pc' = [pc EXCEPT ![c] = "committed"]
      /\ stored' = [k \in Counters |-> IF lock[k] = c THEN working[k] ELSE stored[k]]
      /\ events' = events \cup {<<Idem[c], k>> : k \in newEvents[c]}
      /\ win' = win /\ outcome' = outcome
  BY DEF Commit, Install
<1> DEFINE S == charges[c]
<1>3. S \in SUBSET DOMAIN Cands[c] /\ DOMAIN Cands[c] = 1..Len(Cands[c])
  BY <1>1, CandsAssumption DEF TypeOK, TablesTypeOK
<1>4. Ledger!MayCharge(c, Len(Cands[c]), S)
  <2>1. \A i \in DOMAIN Cands[c] : Covered(c, i)
    BY <1>1 DEF CoverInv
  <2> QED
    BY <1>3, <2>1, LedgerTerms DEF Ledger!MayCharge, Ledger!EventOf, Covered, OnRecord, Keyed
<1>5. ASSUME NEW i \in S
      PROVE  Ledger!After(c, i, S) <= Cands[c][i].limit
  <2>1. Ledger!After(c, i, S)
          = stored[CounterOf(c, i)] + Total(On({c} \X {j \in S : j <= i}, CounterOf(c, i)))
    BY LedgerTerms DEF Ledger!After
  <2> QED
    BY <1>1, <2>1 DEF FitInv, Upto
<1>6. [d \in Calls |-> ChargedBy(d)]' = [[d \in Calls |-> ChargedBy(d)] EXCEPT ![c] = S]
  BY <1>1, <1>2 DEF ChargedBy, Finished, TypeOK, ControlTypeOK
<1>7. stored' = [k \in Ledger!LedgerCounters |-> stored[k] + Ledger!Sum(c, S, k)]
  <2>1. ASSUME NEW k \in Counters
        PROVE  stored'[k] = stored[k] + Total(On(Own(c), k))
    <3>1. stored[k] \in Int /\ stored'[k] = IF lock[k] = c THEN working[k] ELSE stored[k]
      BY <1>1, <1>2 DEF TypeOK, TablesTypeOK
    <3>2. CASE lock[k] = c
      BY <1>1, <3>1, <3>2 DEF OpenInv
    <3>3. CASE lock[k] # c
      <4>1. On(Own(c), k) = {}
        BY <1>1, <3>3 DEF On, Own, OpenInv
      <4> QED
        BY <3>1, <3>3, <4>1, TotalEmpty
    <3> QED
      BY <3>2, <3>3
  <2>2. \A k : Ledger!Sum(c, S, k) = Total(On(Own(c), k))
    BY LedgerTerms DEF Own
  <2>3. Ledger!LedgerCounters = Counters
    BY DEF Ledger!LedgerCounters, Counters
  <2> QED
    BY <1>2, <2>1, <2>2, <2>3
<1>8. events' = events \cup IF Idem[c] = NoKey THEN {} ELSE {Ledger!EventOf(c, i) : i \in S}
  <2>1. \A i : Ledger!EventOf(c, i) = <<Idem[c], CounterOf(c, i)>>
    BY LedgerTerms DEF Ledger!EventOf
  <2>2. CASE Idem[c] = NoKey
    <3>1. newEvents[c] = {}
      BY <1>1, <2>2 DEF CoverInv, Keyed
    <3> QED
      BY <1>2, <2>2, <3>1
  <2>3. CASE Idem[c] # NoKey
    <3>1. \A i \in S : <<Idem[c], CounterOf(c, i)>> \in events \/ CounterOf(c, i) \in newEvents[c]
      BY <1>1, <2>3 DEF EventInv, Keyed, OnRecord
    <3>2. \A k \in newEvents[c] : \E i \in S : CounterOf(c, i) = k
      BY <1>1 DEF CoverInv
    <3> QED
      BY <1>2, <2>1, <2>3, <3>1, <3>2
  <2> QED
    BY <2>2, <2>3
<1>9. ToldLater' = ToldLater \cup {c} /\ c \notin ToldLater /\ outcome[c] = "none"
  BY <1>1, <1>2 DEF ToldLater, FitInv, TypeOK, ControlTypeOK
<1> QED
  BY <1>2, <1>3, <1>4, <1>5, <1>6, <1>7, <1>8, <1>9 DEF Ledger!Reserve, ChargedBy, ToldLater

(* ROLLBACK is the ledger's Refuse, of the candidate that does not fit.     *)
LEMMA RollbackRefuses ==
  ASSUME IInv, SumInv, ShowInv, NEW c \in Calls, Rollback(c)
  PROVE  Ledger!Refuse(c)
<1>1. /\ TypeOK /\ OpenInv(c) /\ FitInv(c) /\ CoverInv(c)
      /\ pc[c] = "deny" /\ pc[c] \in InTx
  BY DEF IInv, SumInv, ShowInv, Rollback, InTx, InStatement
<1>2. PICK n : n = idx[c]
  OBVIOUS
<1>3. PICK k : k = CounterOf(c, n)
  OBVIOUS
<1> DEFINE x == <<c, n>>
           S == charges[c] \cup {n}
<1>4. /\ n \in DOMAIN Cands[c] /\ n \in Nat /\ k \in Counters
      /\ lock[k] = c /\ working[k] + Cands[c][n].inc > Cands[c][n].limit
      /\ Cands[c][n].inc \in Int
  BY <1>1, <1>2, <1>3, HereType DEF FitInv, Here, Cand, TypeOK, ControlTypeOK
<1>5. \A i \in charges[c] : i < n /\ i \in Nat /\ i \in DOMAIN Cands[c]
  BY <1>1, <1>2 DEF OpenInv, TypeOK, TablesTypeOK
<1>6. DOMAIN Cands[c] = 1..Len(Cands[c]) /\ Len(Cands[c]) \in Nat
  BY CandsAssumption
<1>7. S \in SUBSET (1..n) /\ n \in S
  BY <1>4, <1>5, <1>6
<1>8. Ledger!MayCharge(c, n, S)
  <2>1. \A i \in (1..n) \ S : i \in DOMAIN Cands[c] /\ i < n /\ i \notin charges[c]
    BY <1>4, <1>6
  <2>2. \A i \in (1..n) \ S : Covered(c, i)
    BY <1>1, <1>2, <2>1 DEF CoverInv
  <2> QED
    BY <2>1, <2>2, LedgerTerms DEF Ledger!MayCharge, Ledger!EventOf, Covered, OnRecord, Keyed
<1>9. Ledger!After(c, n, S) > Cands[c][n].limit
  <2>1. {j \in S : j <= n} = S
    BY <1>4, <1>5
  <2>2. Ledger!After(c, n, S) = stored[k] + Total(On({c} \X S, k))
    BY <1>3, <2>1, LedgerTerms DEF Ledger!After
  <2>3. On({c} \X S, k) = On(Own(c), k) \cup {x}
    BY <1>3 DEF On, Own
  <2>4. x \in Charge \ On(Own(c), k) /\ Inc(x) = Cands[c][n].inc
    BY <1>4, <1>5 DEF Charge, On, Own, Inc
  <2>5. On(Own(c), k) \in SUBSET Charge /\ IsFiniteSet(On(Own(c), k))
    BY <1>1, OwnType
  <2> HIDE DEF x, S
  <2>6. Total(On({c} \X S, k)) = Total(On(Own(c), k)) + Cands[c][n].inc
    <3>1. Total(On(Own(c), k) \cup {x}) = Total(On(Own(c), k)) + Inc(x)
      BY <2>4, <2>5, TotalAdd
    <3> QED
      BY <2>3, <2>4, <3>1
  <2>7. working[k] = stored[k] + Total(On(Own(c), k))
    BY <1>1, <1>4 DEF OpenInv
  <2>8. stored[k] \in Int /\ Total(On(Own(c), k)) \in Int
    BY <1>1, <1>4, <2>5, TotalType DEF TypeOK, TablesTypeOK
  <2>9. Ledger!After(c, n, S) = working[k] + Cands[c][n].inc
    BY <1>4, <2>2, <2>6, <2>7, <2>8
  <2> QED
    BY <1>4, <2>9
<1>10. /\ outcome' = [outcome EXCEPT ![c] = "deny"] /\ outcome[c] = "none"
       /\ UNCHANGED <<win, stored, events>>
  BY <1>1 DEF Rollback, Answer, Undo, FitInv
<1>11. ToldLater' = ToldLater /\ c \notin ToldLater
  BY <1>1 DEF Rollback, Answer, ToldLater, TypeOK, ControlTypeOK
<1>12. [d \in Calls |-> ChargedBy(d)]' = [d \in Calls |-> ChargedBy(d)]
  <2>1. /\ \A d \in Calls \ {c} : charges'[d] = charges[d] /\ pc'[d] = pc[d]
        /\ charges'[c] = {}
    BY <1>1 DEF Rollback, Answer, Undo, TypeOK, ControlTypeOK, TablesTypeOK
  <2>2. \A d \in Calls : ChargedBy(d)' = ChargedBy(d)
    BY <1>1, <2>1 DEF ChargedBy, Finished
  <2> QED
    BY <2>2
<1> HIDE DEF S
<1> QED
  BY <1>4, <1>7, <1>8, <1>9, <1>10, <1>11, <1>12 DEF Ledger!Refuse, ChargedBy, ToldLater

LEMMA LedgerInits == Init => Ledger!LedgerInit
<1> SUFFICES ASSUME Init
             PROVE  Ledger!LedgerInit
  OBVIOUS
<1>1. /\ [c \in Calls |-> ChargedBy(c)] = [c \in Calls |-> {}]
      /\ ToldLater = {} /\ Ledger!LedgerCounters = Counters
  BY DEF Init, ChargedBy, ToldLater, Finished, Counters, Ledger!LedgerCounters
<1> QED
  BY <1>1 DEF Init, Ledger!LedgerInit, ChargedBy, ToldLater

(* A step that commits nothing and tells nobody is none of the ledger's.    *)
LEMMA LedgerStutters ==
  ASSUME IInv, NEW c \in Calls, CallStep(c),
         pc[c] \in InTx \cup {"connect"}, pc'[c] \in InTx,
         UNCHANGED <<win, stored, events, outcome>>
  PROVE  UNCHANGED Ledger!ledgerVars
<1>1. TypeOK
  BY DEF IInv
<1>2. \A d \in Calls \ {c} : pc'[d] = pc[d] /\ charges'[d] = charges[d]
  BY <1>1, OneMoves DEF SameCall
<1>3. /\ pc[c] # "committed" /\ ~Finished(c)
      /\ pc'[c] # "committed" /\ ~Finished(c)'
  BY DEF InTx, InStatement, Finished
<1>4. \A d \in Calls : ChargedBy(d)' = ChargedBy(d)
  BY <1>2, <1>3 DEF ChargedBy, Finished
<1>5. [d \in Calls |-> ChargedBy(d)]' = [d \in Calls |-> ChargedBy(d)]
  BY <1>4
<1>6. ToldLater' = ToldLater
  BY <1>2, <1>3 DEF ToldLater
<1> QED
  BY <1>5, <1>6 DEF Ledger!ledgerVars, ChargedBy, ToldLater

LEMMA LedgerStep ==
  ASSUME IInv, SumInv, ShowInv, NEW c \in Calls, CallStep(c)
  PROVE  Ledger!LedgerNext \/ UNCHANGED Ledger!ledgerVars
<1> USE DEF TypeOK, ControlTypeOK, TablesTypeOK, txVars
<1>0. TypeOK /\ EventInv /\ FitInv(c)
  BY DEF IInv, ShowInv
<1>1. \A d \in Calls \ {c} : pc'[d] = pc[d] /\ charges'[d] = charges[d]
  BY <1>0, OneMoves DEF SameCall
<1>2. ASSUME charges'[c] = {}, Finished(c) => charges[c] = {}
      PROVE  [d \in Calls |-> ChargedBy(d)]' = [d \in Calls |-> ChargedBy(d)]
  <2>1. \A d \in Calls : ChargedBy(d)' = ChargedBy(d)
    BY <1>1, <1>2 DEF ChargedBy, Finished
  <2> QED
    BY <2>1
<1>3. ASSUME pc[c] # "committed", pc'[c] # "committed"
      PROVE  ToldLater' = ToldLater /\ c \notin ToldLater
  BY <1>1, <1>3 DEF ToldLater
<1>4. CASE Start(c)
  <2>1. /\ win' = [win EXCEPT ![c] = clock] /\ UNCHANGED <<stored, events, charges>>
        /\ pc[c] = "idle" /\ pc'[c] \in {"connect", "done"} /\ charges[c] = {} /\ clock \in 0..MaxClock
    BY <1>0, <1>4 DEF Start, Answer, EventInv
  <2>2. /\ outcome' = [outcome EXCEPT ![c] = IF Cands[c] = <<>> THEN "pass" ELSE "none"]
        /\ outcome[c] = "none"
    BY <1>0, <1>4, <2>1 DEF Start, Answer, FitInv
  <2>3. Ledger!Begin(c, clock)
    BY <1>2, <1>3, <2>1, <2>2 DEF Ledger!Begin, ChargedBy, ToldLater
  <2> QED
    BY <2>1, <2>3 DEF Ledger!LedgerNext
<1>5. CASE Decline(c) \/ ConnectFails(c) \/ Abort(c)
  <2>1. /\ \E what \in {"declined", "error"} : outcome' = [outcome EXCEPT ![c] = what]
        /\ UNCHANGED <<win, stored, events>>
        /\ pc[c] \in {"connect", "failing"} /\ pc'[c] = "done" /\ charges'[c] = {}
    BY <1>0, <1>5 DEF Decline, ConnectFails, Abort, Answer, Undo, EventInv
  <2>2. outcome[c] = "none" /\ ~Finished(c)
    BY <1>0, <2>1 DEF FitInv, Finished
  <2>3. Ledger!GiveUp(c)
    BY <1>2, <1>3, <2>1, <2>2 DEF Ledger!GiveUp, ChargedBy, ToldLater
  <2> QED
    BY <2>3 DEF Ledger!LedgerNext
<1>6. CASE Return(c) \/ CommitAnswerLost(c)
  <2>1. /\ \E what \in {"pass", "error"} : outcome' = [outcome EXCEPT ![c] = what]
        /\ UNCHANGED <<win, stored, events, charges>>
        /\ pc[c] = "committed" /\ pc'[c] = "done" /\ outcome[c] = "none"
    BY <1>0, <1>6 DEF Return, CommitAnswerLost, Answer, FitInv
  <2>2. \A d \in Calls : ChargedBy(d)' = ChargedBy(d)
    BY <1>1, <2>1 DEF ChargedBy, Finished
  <2>3. [d \in Calls |-> ChargedBy(d)]' = [d \in Calls |-> ChargedBy(d)]
    BY <2>2
  <2>4. ToldLater' = ToldLater \ {c} /\ c \in ToldLater
    BY <1>1, <2>1 DEF ToldLater
  <2>5. Ledger!Confirm(c)
    BY <2>1, <2>3, <2>4 DEF Ledger!Confirm, ChargedBy, ToldLater
  <2> QED
    BY <2>5 DEF Ledger!LedgerNext
<1>7. CASE Commit(c)
  BY <1>7, CommitReserves DEF Ledger!LedgerNext
<1>8. CASE Rollback(c)
  BY <1>8, RollbackRefuses DEF Ledger!LedgerNext
<1>9. CASE Connect(c) \/ CheckEvent(c) \/ RecordEvent(c) \/ UpdateRow(c)
  <2>1. /\ pc[c] \in InTx \cup {"connect"} /\ pc'[c] \in InTx
        /\ UNCHANGED <<win, stored, events, outcome>>
    BY <1>0, <1>9, AdvanceMoves
    DEF Connect, FirstStatement, CheckEvent, RecordEvent, UpdateRow, InTx, InStatement
  <2> QED
    BY <2>1, LedgerStutters
<1>10. CASE InsertRow(c) \/ LockRow(c) \/ StatementFails(c) \/ DeadlockVictim(c)
  <2>1. /\ pc[c] \in InTx \cup {"connect"} /\ pc'[c] \in InTx
        /\ UNCHANGED <<win, stored, events, outcome>>
    BY <1>0, <1>10, VictimWaits
    DEF InsertRow, LockRow, StatementFails, DeadlockVictim, InTx, InStatement
  <2> QED
    BY <2>1, LedgerStutters
<1> QED
  BY <1>4, <1>5, <1>6, <1>7, <1>8, <1>9, <1>10 DEF CallStep, Statement, Failure

(* The transaction of reserve, statement by statement and among others,     *)
(* does what one step of the ledger does when it commits, and nothing       *)
(* before; what it refuses has no room.                                     *)
THEOREM LedgerImplemented == Spec => ImplementsLedger
<1>1. Init => IInv /\ SumInv /\ ShowInv
  BY InvInit, SumInit, ShowInit
<1>2. IInv /\ SumInv /\ ShowInv /\ [Next]_vars => (IInv /\ SumInv /\ ShowInv)'
  BY InvStep, SumStep, ShowStep
<1>3. IInv /\ SumInv /\ ShowInv /\ [Next]_vars => [Ledger!LedgerNext]_Ledger!ledgerVars
  <2> SUFFICES ASSUME IInv, SumInv, ShowInv, [Next]_vars
               PROVE  Ledger!LedgerNext \/ UNCHANGED Ledger!ledgerVars
    OBVIOUS
  <2>1. CASE Tick \/ UNCHANGED vars
    BY <2>1 DEF Tick, vars, txVars, Finished, Ledger!ledgerVars
  <2>2. ASSUME NEW c \in Calls, CallStep(c)
        PROVE  Ledger!LedgerNext \/ UNCHANGED Ledger!ledgerVars
    BY <2>2, LedgerStep
  <2> QED
    BY <2>1, <2>2 DEF Next, AllAnswered, CallStep
<1> QED
  BY <1>1, <1>2, <1>3, LedgerInits, PTL DEF Spec, ImplementsLedger, Ledger!LedgerSpec
==================================================================================
