--------------------------- MODULE Delegation_proofs ---------------------------
(***************************************************************************)
(* Proofs about Delegation, for any credentials and requests and chains of  *)
(* any length.                                                              *)
(***************************************************************************)
EXTENDS Delegation, TLAPS, NaturalsInduction, WellFoundedInduction

--------------------------------------------------------------------------------
(* Type correctness.                                                        *)

LEMMA TypeInit == Init => TypeOK
  BY ConfigType DEF Init, TypeOK, Outcomes

(* The chain stays within its size while links are verified.                *)
Sized ==
  /\ pc \in {"verify", "evaluate"} => size <= MaxDepth
  /\ pc = "verify" => Len(chain) < size
  /\ pc = "evaluate" => Len(chain) = size /\ size > 0
  /\ pc = "receive" => chain = <<>>

LEMMA AcceptType ==
  ASSUME TypeOK, Sized, NEW cred \in Credentials, pc = "verify", Accept(cred), UNCHANGED <<size, request>>
  PROVE  TypeOK' /\ Sized'
<1>1. /\ chain' \in Seq(Credentials) /\ Len(chain') = Len(chain) + 1
      /\ Len(chain) \in Nat /\ size \in Nat
  BY DEF Accept, TypeOK
<1> QED
  BY <1>1, ConfigType DEF Accept, TypeOK, Sized

LEMMA TypeStep == TypeOK /\ Sized /\ [Next]_vars => TypeOK' /\ Sized'
<1> SUFFICES ASSUME TypeOK, Sized, [Next]_vars
             PROVE  TypeOK' /\ Sized'
  OBVIOUS
<1>1. CASE Receive
  <2>1. PICK n \in 1..MaxDepth + 2 : size' = n /\ (IF DepthExceeded(n) THEN Answer("delegation_depth_exceeded")
                                                  ELSE pc' = "verify" /\ UNCHANGED reply)
    BY <1>1 DEF Receive
  <2> QED
    BY <1>1, <2>1, ConfigType DEF Receive, DepthExceeded, Answer, TypeOK, Sized, Outcomes
<1>2. CASE Refuse
  BY <1>2 DEF Refuse, Answer, TypeOK, Sized, Outcomes
<1>3. ASSUME NEW cred \in Credentials, VerifyRoot(cred)
      PROVE  TypeOK' /\ Sized'
  BY <1>3, AcceptType DEF VerifyRoot
<1>4. ASSUME NEW cred \in Credentials, VerifyDelegate(cred)
      PROVE  TypeOK' /\ Sized'
  <2>1. CASE Accept(cred)
    BY <1>4, <2>1, AcceptType DEF VerifyDelegate
  <2>2. CASE UNCHANGED chain /\ (Answer("delegation_chain_broken") \/ Answer("delegation_widened"))
    BY <1>4, <2>2 DEF VerifyDelegate, Answer, TypeOK, Sized, Outcomes
  <2> QED
    BY <1>4, <2>1, <2>2 DEF VerifyDelegate
<1>5. ASSUME NEW r \in Requests, Evaluate(r)
      PROVE  TypeOK' /\ Sized'
  BY <1>5 DEF Evaluate, Answer, TypeOK, Sized, Outcomes
<1>6. CASE UNCHANGED vars
  BY <1>6 DEF vars, TypeOK, Sized
<1> QED
  BY <1>1, <1>2, <1>3, <1>4, <1>5, <1>6 DEF Next, Answered

LEMMA TypeAlways == Spec => [](TypeOK /\ Sized)
<1>1. Init => TypeOK /\ Sized
  BY TypeInit DEF Init, Sized
<1> QED
  BY <1>1, TypeStep, PTL DEF Spec

(* Every variable keeps its type, and no chain is longer than max_depth.    *)
THEOREM TypeCorrect == Spec => []TypeOK
  BY TypeAlways, PTL

--------------------------------------------------------------------------------
(* Globs: when one is taken to refine another, it matches nothing else.     *)
(*                                                                          *)
(* Matching and refinement are recursive functions.  Each is shown to have  *)
(* one solution, that there is a way to cut the string up between the       *)
(* tokens of the pattern (Rest), and to divide the segments of the delegate *)
(* among those of the parent (Aligned): what the recursion finds is the     *)
(* same, by looking at a least place where it would not be.  Then a cut of  *)
(* the string for the delegate, read at the division, is one for the        *)
(* parent.                                                                  *)

(* Texts: the provers do not know which strings there are.                  *)
Letters == STRING \cup {"/", "*", "**", Sentinel}
Words == Seq(Letters)

LEMMA LeastNat ==
  ASSUME NEW T \in SUBSET Nat, T # {}
  PROVE  \E x \in T : \A y \in T : x <= y
<1> DEFINE R == OpToRel(<, Nat)
<1>1. \E x \in T : \A y \in T : ~ (<<y, x>> \in R)
  <2> HIDE DEF R
  <2>1. IsWellFoundedOn(R, Nat)
    BY NatLessThanWellFounded, Zenon DEF R
  <2> QED
    BY <2>1, WFMin, Zenon
<1>2. PICK x \in T : \A y \in T : ~ (<<y, x>> \in R)
  BY <1>1
<1>3. ASSUME NEW y \in T, y < x
      PROVE  <<y, x>> \in R
  BY <1>3, Zenon DEF OpToRel
<1> HIDE DEF R
<1>4. ASSUME NEW y \in T
      PROVE  x <= y
  <2>1. ~(y < x)
    BY <1>2, <1>3
  <2> QED
    BY <2>1
<1> QED
  BY <1>4

--------------------------------------------------------------------------------
(* Matching without recursion.                                              *)

(* Token t matches s from a on and up to b.                                 *)
Token(t, s, a, b) ==
  IF t \in Stars
    THEN a <= b /\ \A x \in a..b - 1 : Takes(t, s[x])
    ELSE a <= Len(s) /\ s[a] = t /\ b = a + 1

(* The tokens from the i-th on match s from a up to b: they cut it up.      *)
Cuts(tokens, s, i, a, b, cut) ==
  LET n == Len(tokens) IN
  /\ cut \in [i..n + 1 -> 1..Len(s) + 1]
  /\ cut[i] = a /\ cut[n + 1] = b
  /\ \A k, l \in i..n + 1 : k <= l => cut[k] <= cut[l]
  /\ \A k \in i..n : Token(tokens[k], s, cut[k], cut[k + 1])

Rest(tokens, s, i, j) == \E cut : Cuts(tokens, s, i, j, Len(s) + 1, cut)

LEMMA RestEnd ==
  ASSUME NEW tokens \in Words, NEW s \in Words, NEW j \in 1..Len(s) + 1
  PROVE  Rest(tokens, s, Len(tokens) + 1, j) <=> j > Len(s)
<1> DEFINE n == Len(tokens)
           m == Len(s)
<1>1. n \in Nat /\ m \in Nat
  BY DEF Words
<1>2. ASSUME Rest(tokens, s, n + 1, j)
      PROVE  j > m
  BY <1>1, <1>2 DEF Rest, Cuts
<1>3. ASSUME j > m
      PROVE  Rest(tokens, s, n + 1, j)
  <2>1. Cuts(tokens, s, n + 1, j, m + 1, [k \in n + 1..n + 1 |-> j])
    BY <1>1, <1>3 DEF Cuts
  <2> QED
    BY <2>1 DEF Rest
<1> QED
  BY <1>2, <1>3

LEMMA RestToken ==
  ASSUME NEW tokens \in Words, NEW s \in Words,
         NEW i \in 1..Len(tokens), NEW j \in 1..Len(s) + 1, NEW l \in j..Len(s) + 1,
         Token(tokens[i], s, j, l), Rest(tokens, s, i + 1, l)
  PROVE  Rest(tokens, s, i, j)
<1> DEFINE n == Len(tokens)
           m == Len(s)
<1>1. n \in Nat /\ m \in Nat
  BY DEF Words
<1>2. PICK cut : Cuts(tokens, s, i + 1, l, m + 1, cut)
  BY DEF Rest
<1> DEFINE more == [k \in i..n + 1 |-> IF k = i THEN j ELSE cut[k]]
<1>3. more[i] = j /\ \A k \in i + 1..n + 1 : more[k] = cut[k]
  BY <1>1
<1>4. more \in [i..n + 1 -> 1..m + 1]
  BY <1>1, <1>2 DEF Cuts
<1> HIDE DEF more
<1>5. \A k \in i + 1..n + 1 : cut[k] \in 1..m + 1 /\ l <= cut[k]
  BY <1>1, <1>2 DEF Cuts
<1>6. \A k, h \in i..n + 1 : k <= h => more[k] <= more[h]
  BY <1>1, <1>2, <1>3, <1>5 DEF Cuts
<1>7. \A k \in i..n : Token(tokens[k], s, more[k], more[k + 1])
  BY <1>1, <1>2, <1>3 DEF Cuts
<1>8. more[n + 1] = m + 1
  BY <1>1, <1>2, <1>3 DEF Cuts
<1> QED
  BY <1>3, <1>4, <1>6, <1>7, <1>8 DEF Cuts, Rest

LEMMA RestFirst ==
  ASSUME NEW tokens \in Words, NEW s \in Words,
         NEW i \in 1..Len(tokens), NEW j \in 1..Len(s) + 1, Rest(tokens, s, i, j)
  PROVE  \E l \in j..Len(s) + 1 : Token(tokens[i], s, j, l) /\ Rest(tokens, s, i + 1, l)
<1> DEFINE n == Len(tokens)
           m == Len(s)
<1>1. n \in Nat /\ m \in Nat
  BY DEF Words
<1>2. PICK cut : Cuts(tokens, s, i, j, m + 1, cut)
  BY DEF Rest
<1> DEFINE less == [k \in i + 1..n + 1 |-> cut[k]]
<1>3. \A k \in i + 1..n + 1 : less[k] = cut[k]
  OBVIOUS
<1>4. less \in [i + 1..n + 1 -> 1..m + 1]
  BY <1>1, <1>2 DEF Cuts
<1> HIDE DEF less
<1>5. Cuts(tokens, s, i + 1, cut[i + 1], m + 1, less)
  BY <1>1, <1>2, <1>3, <1>4 DEF Cuts
<1>6. cut[i + 1] \in j..m + 1 /\ Token(tokens[i], s, j, cut[i + 1])
  BY <1>1, <1>2 DEF Cuts
<1> QED
  BY <1>5, <1>6 DEF Rest

(* A star takes nothing, or one character more.                             *)
LEMMA RestStar ==
  ASSUME NEW tokens \in Words, NEW s \in Words,
         NEW i \in 1..Len(tokens), NEW j \in 1..Len(s) + 1, tokens[i] \in Stars
  PROVE  Rest(tokens, s, i, j) <=>
           \/ Rest(tokens, s, i + 1, j)
           \/ j <= Len(s) /\ Takes(tokens[i], s[j]) /\ Rest(tokens, s, i, j + 1)
<1> DEFINE n == Len(tokens)
           m == Len(s)
<1>1. n \in Nat /\ m \in Nat
  BY DEF Words
<1>2. ASSUME Rest(tokens, s, i + 1, j)
      PROVE  Rest(tokens, s, i, j)
  <2>1. Token(tokens[i], s, j, j)
    BY <1>1 DEF Token
  <2> QED
    BY <1>2, <2>1, RestToken
<1>3. ASSUME j <= m, Takes(tokens[i], s[j]), Rest(tokens, s, i, j + 1)
      PROVE  Rest(tokens, s, i, j)
  <2>1. j + 1 \in 1..m + 1
    BY <1>1, <1>3
  <2>2. PICK l \in j + 1..m + 1 : Token(tokens[i], s, j + 1, l) /\ Rest(tokens, s, i + 1, l)
    BY <1>3, <2>1, RestFirst
  <2>3. Token(tokens[i], s, j, l)
    BY <1>1, <1>3, <2>2 DEF Token
  <2> QED
    BY <1>1, <2>2, <2>3, RestToken
<1>4. ASSUME Rest(tokens, s, i, j), ~Rest(tokens, s, i + 1, j)
      PROVE  j <= m /\ Takes(tokens[i], s[j]) /\ Rest(tokens, s, i, j + 1)
  <2>1. PICK l \in j..m + 1 : Token(tokens[i], s, j, l) /\ Rest(tokens, s, i + 1, l)
    BY <1>4, RestFirst
  <2>2. l # j
    BY <1>4, <2>1
  <2>3. j <= m /\ j + 1 \in 1..m + 1 /\ l \in j + 1..m + 1
    BY <1>1, <2>1, <2>2
  <2>4. Token(tokens[i], s, j + 1, l) /\ Takes(tokens[i], s[j])
    BY <1>1, <2>1, <2>3 DEF Token
  <2> QED
    BY <2>1, <2>3, <2>4, RestToken
<1> QED
  BY <1>2, <1>3, <1>4

LEMMA RestLiteral ==
  ASSUME NEW tokens \in Words, NEW s \in Words,
         NEW i \in 1..Len(tokens), NEW j \in 1..Len(s) + 1, tokens[i] \notin Stars
  PROVE  Rest(tokens, s, i, j) <=>
           j <= Len(s) /\ s[j] = tokens[i] /\ Rest(tokens, s, i + 1, j + 1)
<1> DEFINE m == Len(s)
<1>1. m \in Nat
  BY DEF Words
<1>2. ASSUME Rest(tokens, s, i, j)
      PROVE  j <= m /\ s[j] = tokens[i] /\ Rest(tokens, s, i + 1, j + 1)
  BY <1>2, RestFirst DEF Token
<1>3. ASSUME j <= m, s[j] = tokens[i], Rest(tokens, s, i + 1, j + 1)
      PROVE  Rest(tokens, s, i, j)
  <2>1. j + 1 \in j..m + 1 /\ Token(tokens[i], s, j, j + 1)
    BY <1>1, <1>3 DEF Token
  <2> QED
    BY <1>3, <2>1, RestToken
<1> QED
  BY <1>2, <1>3

--------------------------------------------------------------------------------
(* The recursive function of MatchesTokens.                                 *)

FromBody(tokens, s, f, i, j) ==
  IF i > Len(tokens) THEN j > Len(s)
  ELSE IF tokens[i] \in Stars
    THEN \/ f[<<i + 1, j>>]
         \/ j <= Len(s) /\ Takes(tokens[i], s[j]) /\ f[<<i, j + 1>>]
    ELSE j <= Len(s) /\ s[j] = tokens[i] /\ f[<<i + 1, j + 1>>]

LEMMA BodyEnd ==
  ASSUME NEW tokens, NEW s, NEW f, NEW i, NEW j, i > Len(tokens)
  PROVE  FromBody(tokens, s, f, i, j) = (j > Len(s))
  BY Zenon DEF FromBody
LEMMA BodyStar ==
  ASSUME NEW tokens, NEW s, NEW f, NEW i, NEW j, ~(i > Len(tokens)), tokens[i] \in Stars
  PROVE  FromBody(tokens, s, f, i, j) =
                 (\/ f[<<i + 1, j>>]
                  \/ j <= Len(s) /\ Takes(tokens[i], s[j]) /\ f[<<i, j + 1>>])
  BY Zenon DEF FromBody
LEMMA BodyLiteral ==
  ASSUME NEW tokens, NEW s, NEW f, NEW i, NEW j, ~(i > Len(tokens)), tokens[i] \notin Stars
  PROVE  FromBody(tokens, s, f, i, j) = (j <= Len(s) /\ s[j] = tokens[i] /\ f[<<i + 1, j + 1>>])
  BY Zenon DEF FromBody
LEMMA BodyType ==
  ASSUME NEW tokens \in Words, NEW s \in Words, NEW f,
         NEW i \in 1..Len(tokens) + 1, NEW j \in 1..Len(s) + 1
  PROVE  FromBody(tokens, s, f, i, j) \in BOOLEAN
<1>0. (j > Len(s)) \in BOOLEAN
  OBVIOUS
<1>1. CASE i > Len(tokens)
  <2>1. FromBody(tokens, s, f, i, j) = (j > Len(s))
    BY <1>1, BodyEnd, Zenon
  <2> QED
    BY <1>0, <2>1, Zenon
<1>2. CASE ~(i > Len(tokens)) /\ tokens[i] \in Stars
  BY <1>2, BodyStar
<1>3. CASE ~(i > Len(tokens)) /\ tokens[i] \notin Stars
  BY <1>3, BodyLiteral
<1> QED
  BY <1>1, <1>2, <1>3

Grid(n, m) == (1..n + 1) \X (1..m + 1)

Fills(tokens, s, f) ==
  f = [at \in Grid(Len(tokens), Len(s)) |-> FromBody(tokens, s, f, at[1], at[2])]

LEMMA MatchesIs ==
  ASSUME NEW tokens, NEW s
  PROVE  MatchesTokens(tokens, s) = (CHOOSE f : Fills(tokens, s, f))[<<1, 1>>]
  BY DEF MatchesTokens, Fills, FromBody, Grid

LEMMA FillsAt ==
  ASSUME NEW tokens \in Words, NEW s \in Words, NEW f, Fills(tokens, s, f),
         NEW i \in 1..Len(tokens) + 1, NEW j \in 1..Len(s) + 1
  PROVE  f[<<i, j>>] = FromBody(tokens, s, f, i, j)
<1>1. <<i, j>> \in Grid(Len(tokens), Len(s)) /\ <<i, j>>[1] = i /\ <<i, j>>[2] = j
  BY DEF Grid
<1> HIDE DEF FromBody
<1> QED
  BY <1>1 DEF Fills

(* It has one solution, and that is Rest.                                   *)
LEMMA FillsExist ==
  ASSUME NEW tokens \in Words, NEW s \in Words
  PROVE  \E f : Fills(tokens, s, f)
<1> DEFINE n == Len(tokens)
           m == Len(s)
           f == [at \in Grid(n, m) |-> Rest(tokens, s, at[1], at[2])]
<1>1. n \in Nat /\ m \in Nat
  BY DEF Words
<1>2. \A i \in 1..n + 1, j \in 1..m + 1 : f[<<i, j>>] = Rest(tokens, s, i, j)
  BY DEF Grid
<1>3. ASSUME NEW i \in 1..n + 1, NEW j \in 1..m + 1
      PROVE  Rest(tokens, s, i, j) <=> FromBody(tokens, s, f, i, j)
  <2> HIDE DEF f
  <2>1. CASE i = n + 1
    <3>1. i > n
      BY <1>1, <2>1
    <3> QED
      <4>1. FromBody(tokens, s, f, i, j) = (j > m)
        BY <3>1, BodyEnd, Zenon
      <4>2. Rest(tokens, s, i, j) <=> j > m
        BY <2>1, RestEnd
      <4> QED
        BY <4>1, <4>2
  <2>2. CASE i \in 1..n /\ tokens[i] \in Stars
    <3>1. i + 1 \in 1..n + 1 /\ i \in 1..n + 1 /\ (j <= m => j + 1 \in 1..m + 1)
      BY <1>1, <2>2
    <3>2. /\ f[<<i + 1, j>>] = Rest(tokens, s, i + 1, j)
          /\ j <= m => f[<<i, j + 1>>] = Rest(tokens, s, i, j + 1)
      BY <1>2, <3>1
    <3> QED
      <4>1. ~(i > n)
        BY <1>1, <2>2
      <4>2. FromBody(tokens, s, f, i, j) =
              (\/ f[<<i + 1, j>>]
               \/ j <= m /\ Takes(tokens[i], s[j]) /\ f[<<i, j + 1>>])
        BY <2>2, <4>1, BodyStar, Zenon
      <4> QED
        BY <2>2, <3>2, <4>2, RestStar
  <2>3. CASE i \in 1..n /\ tokens[i] \notin Stars
    <3>1. i + 1 \in 1..n + 1 /\ (j <= m => j + 1 \in 1..m + 1)
      BY <1>1, <2>3
    <3>2. j <= m => f[<<i + 1, j + 1>>] = Rest(tokens, s, i + 1, j + 1)
      BY <1>2, <3>1
    <3> QED
      <4>1. ~(i > n)
        BY <1>1, <2>3
      <4>2. FromBody(tokens, s, f, i, j) =
              (j <= m /\ s[j] = tokens[i] /\ f[<<i + 1, j + 1>>])
        BY <2>3, <4>1, BodyLiteral, Zenon
      <4> QED
        <5>1. Rest(tokens, s, i, j) <=>
                j <= m /\ s[j] = tokens[i] /\ Rest(tokens, s, i + 1, j + 1)
          BY <2>3, RestLiteral
        <5> QED
          BY <3>2, <4>2, <5>1
  <2>4. i = n + 1 \/ i \in 1..n
    BY <1>1
  <2> QED
    BY <2>1, <2>2, <2>3, <2>4
<1>4. f = [at \in Grid(n, m) |-> FromBody(tokens, s, f, at[1], at[2])]
  <2>1. \A at \in Grid(n, m) : Rest(tokens, s, at[1], at[2]) = FromBody(tokens, s, f, at[1], at[2])
    <3> HIDE DEF f
    <3>1. \A at \in Grid(n, m) : at[1] \in 1..n + 1 /\ at[2] \in 1..m + 1
      BY DEF Grid
    <3>2. \A at \in Grid(n, m) : /\ Rest(tokens, s, at[1], at[2]) <=> FromBody(tokens, s, f, at[1], at[2])
                                 /\ FromBody(tokens, s, f, at[1], at[2]) \in BOOLEAN
      BY <1>3, <3>1, BodyType
    <3>3. \A i, j : Rest(tokens, s, i, j) \in BOOLEAN
      BY DEF Rest
    <3> QED
      BY <3>2, <3>3
  <2> QED
    BY <2>1, Zenon
<1> QED
  BY <1>4 DEF Fills

LEMMA FillsUnique ==
  ASSUME NEW tokens \in Words, NEW s \in Words, NEW f, Fills(tokens, s, f),
         NEW i0 \in 1..Len(tokens) + 1, NEW j0 \in 1..Len(s) + 1
  PROVE  f[<<i0, j0>>] <=> Rest(tokens, s, i0, j0)
<1> DEFINE n == Len(tokens)
           m == Len(s)
           Agree(i, j) == f[<<i, j>>] <=> Rest(tokens, s, i, j)
           Far(i, j) == (n + 1 - i) + (m + 1 - j)
           wrong == {d \in Nat : \E i \in 1..n + 1, j \in 1..m + 1 : Far(i, j) = d /\ ~Agree(i, j)}
<1>1. n \in Nat /\ m \in Nat
  BY DEF Words
<1>2. SUFFICES ASSUME ~Agree(i0, j0)
               PROVE  FALSE
  OBVIOUS
<1>3. Far(i0, j0) \in wrong
  BY <1>1, <1>2
<1>4. PICK d \in wrong : \A e \in wrong : d <= e
  <2> HIDE DEF wrong
  <2>1. wrong \in SUBSET Nat
    BY DEF wrong
  <2> QED
    BY <1>3, <2>1, LeastNat
<1>5. PICK i \in 1..n + 1, j \in 1..m + 1 : Far(i, j) = d /\ ~Agree(i, j)
  OBVIOUS
<1>6. ASSUME NEW k \in 1..n + 1, NEW l \in 1..m + 1, Far(k, l) < Far(i, j)
      PROVE  Agree(k, l)
  <2>1. Far(k, l) \in Nat
    BY <1>1
  <2>2. Far(k, l) \notin wrong
    <3>1. d \in Nat
      OBVIOUS
    <3> HIDE DEF wrong, Far
    <3> QED
      BY <1>4, <1>5, <1>6, <2>1, <3>1
  <2> QED
    BY <2>1, <2>2
<1>7. f[<<i, j>>] = FromBody(tokens, s, f, i, j)
  BY FillsAt
<1>8. CASE i = n + 1
  <2>1. i > n
    BY <1>1, <1>8
  <2> QED
    <3>1. FromBody(tokens, s, f, i, j) = (j > m)
      BY <2>1, BodyEnd, Zenon
    <3>2. Rest(tokens, s, i, j) <=> j > m
      BY <1>8, RestEnd
    <3> QED
      BY <1>5, <1>7, <3>1, <3>2
<1>9. CASE i \in 1..n /\ tokens[i] \in Stars
  <2>1. i \in 1..n
    BY <1>9
  <2>2. i + 1 \in 1..n + 1 /\ Far(i + 1, j) < Far(i, j)
    BY <1>1, <2>1
  <2>3. j <= m => j + 1 \in 1..m + 1 /\ Far(i, j + 1) < Far(i, j)
    BY <1>1
  <2>4. Agree(i + 1, j) /\ (j <= m => Agree(i, j + 1))
    <3> HIDE DEF Agree, Far
    <3> QED
      BY <1>6, <2>2, <2>3
  <2> QED
    <3>1. ~(i > n)
      BY <1>1, <2>1
    <3>2. FromBody(tokens, s, f, i, j) =
            (\/ f[<<i + 1, j>>]
             \/ j <= m /\ Takes(tokens[i], s[j]) /\ f[<<i, j + 1>>])
      BY <1>9, <3>1, BodyStar, Zenon
    <3> QED
      BY <1>5, <1>7, <1>9, <2>4, <3>2, RestStar
<1>10. CASE i \in 1..n /\ tokens[i] \notin Stars
  <2>1. i \in 1..n
    BY <1>10
  <2>2. j <= m => i + 1 \in 1..n + 1 /\ j + 1 \in 1..m + 1 /\ Far(i + 1, j + 1) < Far(i, j)
    BY <1>1, <2>1
  <2>3. j <= m => Agree(i + 1, j + 1)
    <3> HIDE DEF Agree, Far
    <3> QED
      BY <1>6, <2>2
  <2> QED
    <3>1. ~(i > n)
      BY <1>1, <2>1
    <3>2. FromBody(tokens, s, f, i, j) =
            (j <= m /\ s[j] = tokens[i] /\ f[<<i + 1, j + 1>>])
      BY <1>10, <3>1, BodyLiteral, Zenon
    <3> QED
      <4>1. Rest(tokens, s, i, j) <=>
              j <= m /\ s[j] = tokens[i] /\ Rest(tokens, s, i + 1, j + 1)
        BY <1>10, RestLiteral
      <4> QED
        BY <1>5, <1>7, <2>3, <3>2, <4>1
<1> QED
  BY <1>1, <1>8, <1>9, <1>10

LEMMA MatchesSpan ==
  ASSUME NEW tokens \in Words, NEW s \in Words
  PROVE  MatchesTokens(tokens, s) <=> Rest(tokens, s, 1, 1)
<1>1. Len(tokens) \in Nat /\ Len(s) \in Nat
  BY DEF Words
<1>2. 1 \in 1..Len(tokens) + 1 /\ 1 \in 1..Len(s) + 1
  BY <1>1
<1> DEFINE f == CHOOSE f : Fills(tokens, s, f)
<1>3. Fills(tokens, s, f)
  BY FillsExist
<1>4. MatchesTokens(tokens, s) = f[<<1, 1>>]
  BY MatchesIs
<1> HIDE DEF f
<1> QED
  BY <1>2, <1>3, <1>4, FillsUnique

(* The tokens match what is in s from a up to b.                            *)
Span(tokens, s, a, b) == \E cut : Cuts(tokens, s, 1, a, b, cut)

LEMMA Joined ==
  ASSUME NEW x \in Words, NEW y \in Words
  PROVE  /\ x \o y \in Words /\ Len(x \o y) = Len(x) + Len(y)
         /\ Len(x) \in Nat /\ Len(y) \in Nat
         /\ \A k \in 1..Len(x) : (x \o y)[k] = x[k]
         /\ \A k \in 1..Len(y) : (x \o y)[Len(x) + k] = y[k]
  BY DEF Words

LEMMA SpanRange ==
  ASSUME NEW tokens \in Words, NEW s \in Words, NEW a, NEW b, Span(tokens, s, a, b)
  PROVE  a \in 1..Len(s) + 1 /\ b \in a..Len(s) + 1
<1>1. Len(tokens) \in Nat /\ Len(s) \in Nat
  BY DEF Words
<1>2. PICK cut : Cuts(tokens, s, 1, a, b, cut)
  BY DEF Span
<1>3. 1 \in 1..Len(tokens) + 1 /\ Len(tokens) + 1 \in 1..Len(tokens) + 1
  BY <1>1
<1> QED
  BY <1>1, <1>2, <1>3 DEF Cuts

LEMMA SpanApart ==
  ASSUME NEW x \in Words, NEW y \in Words, NEW s \in Words,
         NEW a, NEW c, Span(x \o y, s, a, c)
  PROVE  \E b \in a..c : Span(x, s, a, b) /\ Span(y, s, b, c)
<1> DEFINE p == Len(x)
           q == Len(y)
           m == Len(s)
           xy == x \o y
<1>1. /\ p \in Nat /\ q \in Nat /\ m \in Nat
      /\ Len(xy) = p + q
      /\ \A k \in 1..p : xy[k] = x[k]
      /\ \A k \in 1..q : xy[p + k] = y[k]
  BY Joined DEF Words
<1> HIDE DEF xy
<1>2. PICK cut : Cuts(xy, s, 1, a, c, cut)
  BY DEF Span, xy
<1>3. /\ cut \in [1..p + q + 1 -> 1..m + 1]
      /\ cut[1] = a /\ cut[p + q + 1] = c
      /\ \A k, l \in 1..p + q + 1 : k <= l => cut[k] <= cut[l]
      /\ \A k \in 1..p + q : Token(xy[k], s, cut[k], cut[k + 1])
  BY <1>1, <1>2 DEF Cuts
<1> DEFINE left == [k \in 1..p + 1 |-> cut[k]]
           right == [k \in 1..q + 1 |-> cut[p + k]]
<1>4. Cuts(x, s, 1, a, cut[p + 1], left)
  <2>1. left \in [1..p + 1 -> 1..m + 1] /\ \A k \in 1..p + 1 : left[k] = cut[k]
    BY <1>1, <1>3
  <2> HIDE DEF left
  <2>2. \A k \in 1..p : k \in 1..p + q /\ k \in 1..p + 1 /\ k + 1 \in 1..p + 1
    BY <1>1
  <2>3. \A k \in 1..p : Token(x[k], s, left[k], left[k + 1])
    BY <1>1, <1>3, <2>1, <2>2
  <2> QED
    BY <1>1, <1>3, <2>1, <2>3 DEF Cuts
<1>5. Cuts(y, s, 1, cut[p + 1], c, right)
  <2>1. right \in [1..q + 1 -> 1..m + 1] /\ \A k \in 1..q + 1 : right[k] = cut[p + k]
    BY <1>1, <1>3
  <2> HIDE DEF right
  <2>2. \A k \in 1..q : p + k \in 1..p + q /\ k \in 1..q + 1 /\ k + 1 \in 1..q + 1
                        /\ p + k + 1 = p + (k + 1)
    BY <1>1
  <2>3. \A k \in 1..q : Token(y[k], s, right[k], right[k + 1])
    BY <1>1, <1>3, <2>1, <2>2
  <2>4. /\ right[1] = cut[p + 1] /\ right[q + 1] = c
        /\ \A k, l \in 1..q + 1 : k <= l => right[k] <= right[l]
    <3>1. 1 \in 1..q + 1 /\ q + 1 \in 1..q + 1 /\ p + (q + 1) = p + q + 1
      BY <1>1
    <3>2. right[1] = cut[p + 1] /\ right[q + 1] = c
      BY <1>3, <2>1, <3>1
    <3>3. ASSUME NEW k \in 1..q + 1, NEW l \in 1..q + 1, k <= l
          PROVE  right[k] <= right[l]
      <4>1. p + k \in 1..p + q + 1 /\ p + l \in 1..p + q + 1 /\ p + k <= p + l
        BY <1>1, <3>3
      <4> QED
        BY <1>3, <2>1, <4>1
    <3> QED
      BY <3>2, <3>3
  <2> QED
    BY <2>1, <2>3, <2>4 DEF Cuts
<1>6. cut[p + 1] \in a..c
  BY <1>1, <1>3
<1> QED
  BY <1>4, <1>5, <1>6 DEF Span

LEMMA SpanTogether ==
  ASSUME NEW x \in Words, NEW y \in Words, NEW s \in Words,
         NEW a, NEW b, NEW c, Span(x, s, a, b), Span(y, s, b, c)
  PROVE  Span(x \o y, s, a, c)
<1> DEFINE p == Len(x)
           q == Len(y)
           m == Len(s)
           xy == x \o y
<1>1. /\ p \in Nat /\ q \in Nat /\ m \in Nat
      /\ Len(xy) = p + q
      /\ \A k \in 1..p : xy[k] = x[k]
      /\ \A k \in 1..q : xy[p + k] = y[k]
  BY Joined DEF Words
<1> HIDE DEF xy
<1>2. PICK left : Cuts(x, s, 1, a, b, left)
  BY DEF Span
<1>3. PICK right : Cuts(y, s, 1, b, c, right)
  BY DEF Span
<1> DEFINE cut == [k \in 1..p + q + 1 |-> IF k <= p + 1 THEN left[k] ELSE right[k - p]]
<1>4. /\ cut \in [1..p + q + 1 -> 1..m + 1]
      /\ \A k \in 1..p + 1 : cut[k] = left[k]
      /\ \A k \in 1..q + 1 : cut[p + k] = right[k]
  BY <1>1, <1>2, <1>3 DEF Cuts
<1> HIDE DEF cut
<1>5. cut[1] = a /\ cut[p + 1] = b /\ cut[p + q + 1] = c
  <2>1. 1 \in 1..p + 1 /\ p + 1 \in 1..p + 1 /\ q + 1 \in 1..q + 1 /\ p + q + 1 = p + (q + 1)
    BY <1>1
  <2> QED
    BY <1>2, <1>3, <1>4, <2>1 DEF Cuts
<1>6. \A k, l \in 1..p + q + 1 : k <= l => cut[k] <= cut[l]
  <2> SUFFICES ASSUME NEW k \in 1..p + q + 1, NEW l \in 1..p + q + 1, k <= l
               PROVE  cut[k] <= cut[l]
    OBVIOUS
  <2>1. CASE l <= p + 1
    BY <1>1, <1>2, <1>4, <2>1 DEF Cuts
  <2>2. CASE k >= p + 1
    <3>1. k - p \in 1..q + 1 /\ l - p \in 1..q + 1 /\ k - p <= l - p
          /\ k = p + (k - p) /\ l = p + (l - p)
      BY <1>1, <2>2
    <3>2. right[k - p] <= right[l - p]
      BY <1>3, <3>1 DEF Cuts
    <3> QED
      BY <1>4, <3>1, <3>2
  <2>3. CASE k <= p + 1 /\ l >= p + 1
    <3>1. k \in 1..p + 1 /\ l - p \in 1..q + 1 /\ l = p + (l - p)
      BY <1>1, <2>3
    <3>2. left[k] <= b /\ b <= right[l - p] /\ left[k] \in Nat /\ b \in Nat /\ right[l - p] \in Nat
      <4>1. 1 \in 1..q + 1 /\ p + 1 \in 1..p + 1 /\ l - p \in 1..q + 1 /\ k <= p + 1 /\ 1 <= l - p
        BY <1>1, <2>3, <3>1
      <4>2. left[k] <= left[p + 1] /\ left[p + 1] = b /\ left[k] \in 1..m + 1 /\ left[p + 1] \in 1..m + 1
        BY <1>2, <3>1, <4>1 DEF Cuts
      <4>3. right[1] <= right[l - p] /\ right[1] = b /\ right[l - p] \in 1..m + 1
        BY <1>3, <4>1 DEF Cuts
      <4> QED
        BY <1>1, <4>2, <4>3
    <3> QED
      BY <1>4, <3>1, <3>2
  <2> QED
    BY <1>1, <2>1, <2>2, <2>3
<1>7. \A k \in 1..p + q : Token(xy[k], s, cut[k], cut[k + 1])
  <2> SUFFICES ASSUME NEW k \in 1..p + q
               PROVE  Token(xy[k], s, cut[k], cut[k + 1])
    OBVIOUS
  <2>1. CASE k \in 1..p
    <3>1. k \in 1..p + 1 /\ k + 1 \in 1..p + 1
      BY <1>1, <2>1
    <3> QED
      BY <1>1, <1>2, <1>4, <2>1, <3>1 DEF Cuts
  <2>2. CASE k - p \in 1..q
    <3>1. k - p \in 1..q + 1 /\ k - p + 1 \in 1..q + 1 /\ k = p + (k - p) /\ k + 1 = p + (k - p + 1)
      BY <1>1, <2>2
    <3>2. Token(y[k - p], s, right[k - p], right[k - p + 1])
      BY <1>3, <2>2 DEF Cuts
    <3>3. xy[p + (k - p)] = y[k - p] /\ cut[p + (k - p)] = right[k - p]
          /\ cut[p + (k - p + 1)] = right[k - p + 1]
      BY <1>1, <1>4, <2>2, <3>1
    <3> QED
      BY <3>1, <3>2, <3>3
  <2> QED
    BY <1>1, <2>1, <2>2
<1>8. Cuts(xy, s, 1, a, c, cut)
  BY <1>1, <1>4, <1>5, <1>6, <1>7 DEF Cuts
<1> QED
  BY <1>8 DEF Span, xy

LEMMA SpanOne ==
  ASSUME NEW t, NEW s \in Words,
         NEW a \in 1..Len(s) + 1, NEW b \in a..Len(s) + 1
  PROVE  Span(<<t>>, s, a, b) <=> Token(t, s, a, b)
<1> DEFINE one == <<t>>
<1>1. Len(s) \in Nat
  BY DEF Words
<1>4. Len(one) = 1 /\ one[1] = t
  OBVIOUS
<1> HIDE DEF one
<1>2. ASSUME Span(one, s, a, b)
      PROVE  Token(t, s, a, b)
  <2>1. PICK cut : Cuts(one, s, 1, a, b, cut)
    BY <1>2 DEF Span
  <2> QED
    <3>1. cut[1] = a /\ cut[2] = b /\ Token(one[1], s, cut[1], cut[2])
      <4>1. 1 \in 1..1 /\ 1 + 1 = 2
        OBVIOUS
      <4> QED
        BY <1>4, <2>1, <4>1, Zenon DEF Cuts
    <3> QED
      BY <1>4, <3>1
<1>3. ASSUME Token(t, s, a, b)
      PROVE  Span(one, s, a, b)
  <2> DEFINE cut == [k \in 1..2 |-> IF k = 1 THEN a ELSE b]
  <2>1. cut \in [1..2 -> 1..Len(s) + 1] /\ cut[1] = a /\ cut[2] = b
    BY <1>1
  <2> HIDE DEF cut
  <2>2. \A k, l \in 1..2 : k <= l => cut[k] <= cut[l]
    <3>1. \A k \in 1..2 : k = 1 \/ k = 2
      OBVIOUS
    <3> QED
      BY <1>1, <2>1, <3>1
  <2>3. \A k \in 1..1 : Token(one[k], s, cut[k], cut[k + 1])
    <3>1. \A k \in 1..1 : k = 1
      OBVIOUS
    <3>2. 1 + 1 = 2 /\ Token(one[1], s, cut[1], cut[2])
      BY <1>3, <1>4, <2>1
    <3> QED
      BY <3>1, <3>2, Zenon
  <2>4. Cuts(one, s, 1, a, b, cut)
    BY <1>1, <1>4, <2>1, <2>2, <2>3 DEF Cuts
  <2> QED
    BY <2>4 DEF Span
<1> QED
  BY <1>2, <1>3 DEF one

Patterns == Seq(Words) \ {<<>>}

LEMMA PatternIs ==
  ASSUME NEW pattern \in Patterns
  PROVE  /\ Len(pattern) \in Nat \ {0} /\ DOMAIN pattern = 1..Len(pattern)
         /\ \A k \in 1..Len(pattern) : pattern[k] \in Words
         /\ <<"/">> \in Words
<1>1. <<"/">> \in Words
  BY DEF Words, Letters
<1> HIDE DEF Words
<1> QED
  BY <1>1 DEF Patterns

Writes(pattern, f) ==
  f = [k \in 1..Len(pattern) |->
         IF k = 1 THEN pattern[1] ELSE f[k - 1] \o <<"/">> \o pattern[k]]

LEMMA FlatIs ==
  ASSUME NEW pattern
  PROVE  Flat(pattern) = (CHOOSE f : Writes(pattern, f))[Len(pattern)]
  BY DEF Flat, Writes

(* w[k] is what the first k segments make.                                  *)
Written(pattern, h, w) ==
  /\ w \in [1..h -> Words] /\ w[1] = pattern[1]
  /\ \A k \in 2..h : w[k] = w[k - 1] \o <<"/">> \o pattern[k]

LEMMA CanBeWritten ==
  ASSUME NEW pattern \in Patterns
  PROVE  \E w : Written(pattern, Len(pattern), w)
<1> DEFINE n == Len(pattern)
           missing == {h \in Nat \ {0} : h <= n /\ ~ \E w : Written(pattern, h, w)}
<1>1. n \in Nat \ {0} /\ <<"/">> \in Words /\ \A k \in 1..n : pattern[k] \in Words
  BY PatternIs
<1> HIDE DEF n
<1>2. SUFFICES ASSUME missing # {}
               PROVE  FALSE
  BY <1>1 DEF n
<1>3. PICK h \in missing : \A e \in missing : h <= e
  <2> missing \in SUBSET Nat
    OBVIOUS
  <2> HIDE DEF missing
  <2> QED
    BY <1>2, LeastNat
<1>4. CASE h = 1
  <2> DEFINE w == [k \in 1..1 |-> pattern[1]]
  <2>1. Written(pattern, 1, w)
    BY <1>1 DEF Written
  <2> QED
    BY <1>4, <2>1
<1>5. CASE h # 1
  <2>1. h \in Nat /\ h - 1 \in Nat \ {0} /\ h - 1 < h /\ h <= n
    BY <1>5
  <2>2. h - 1 \notin missing
    <3>1. ~ (h <= h - 1)
      BY <2>1
    <3> HIDE DEF missing
    <3> QED
      BY <1>3, <3>1
  <2>3. PICK v : Written(pattern, h - 1, v)
    BY <1>1, <2>1, <2>2
  <2> DEFINE last == v[h - 1] \o <<"/">> \o pattern[h]
             w == [k \in 1..h |-> IF k = h THEN last ELSE v[k]]
  <2>4. last \in Words
    <3>1. v[h - 1] \in Words /\ pattern[h] \in Words
      BY <1>1, <2>1, <2>3 DEF Written
    <3>2. v[h - 1] \o <<"/">> \in Words
      BY <1>1, <3>1, Joined
    <3> QED
      BY <3>1, <3>2, Joined
  <2>5. w \in [1..h -> Words]
    BY <2>1, <2>3, <2>4 DEF Written
  <2> HIDE DEF last
  <2>6. w[h] = last /\ \A k \in 1..h - 1 : w[k] = v[k]
    BY <2>1
  <2> HIDE DEF w
  <2>7. ASSUME NEW k \in 2..h
        PROVE  w[k] = w[k - 1] \o <<"/">> \o pattern[k]
    <3>1. k - 1 \in 1..h - 1
      BY <2>1
    <3>2. CASE k = h
      BY <2>6, <3>1, <3>2 DEF last
    <3>3. CASE k # h
      <4>1. k \in 1..h - 1 /\ k \in 2..h - 1
        BY <2>1, <3>3
      <4> QED
        BY <2>3, <2>6, <3>1, <4>1 DEF Written
    <3> QED
      BY <3>2, <3>3
  <2>8. w[1] = pattern[1]
    BY <2>1, <2>3, <2>6 DEF Written
  <2>9. Written(pattern, h, w)
    BY <2>5, <2>7, <2>8 DEF Written
  <2> QED
    BY <2>9
<1> QED
  BY <1>4, <1>5

LEMMA FlatWritten ==
  ASSUME NEW pattern \in Patterns
  PROVE  \E w : Written(pattern, Len(pattern), w) /\ Flat(pattern) = w[Len(pattern)]
<1> DEFINE n == Len(pattern)
           f == CHOOSE f : Writes(pattern, f)
<1>1. n \in Nat \ {0} /\ <<"/">> \in Words /\ \A k \in 1..n : pattern[k] \in Words
  BY PatternIs
<1>2. \E w : Writes(pattern, w)
  <2>1. PICK w : Written(pattern, n, w)
    BY CanBeWritten
  <2>2. \A k \in 1..n : w[k] = IF k = 1 THEN pattern[1] ELSE w[k - 1] \o <<"/">> \o pattern[k]
    <3> TAKE k \in 1..n
    <3>1. CASE k = 1
      BY <2>1, <3>1 DEF Written
    <3>2. CASE k # 1
      <4>1. k \in 2..n
        BY <1>1, <3>2
      <4> QED
        BY <2>1, <3>2, <4>1 DEF Written
    <3> QED
      BY <3>1, <3>2
  <2>3. w = [k \in 1..n |-> IF k = 1 THEN pattern[1] ELSE w[k - 1] \o <<"/">> \o pattern[k]]
    BY <2>1, <2>2 DEF Written
  <2> QED
    BY <2>3 DEF Writes
<1>3. Writes(pattern, f)
  BY <1>2
<1>4. Flat(pattern) = f[n]
  BY FlatIs
<1> HIDE DEF f
<1>5. f[1] = pattern[1] /\ \A k \in 2..n : f[k] = f[k - 1] \o <<"/">> \o pattern[k]
  <2>1. \A k \in 1..n : f[k] = IF k = 1 THEN pattern[1] ELSE f[k - 1] \o <<"/">> \o pattern[k]
    BY <1>3, Zenon DEF Writes
  <2>2. 1 \in 1..n /\ \A k \in 2..n : k \in 1..n /\ k # 1
    BY <1>1
  <2> QED
    BY <2>1, <2>2
<1>6. DOMAIN f = 1..n /\ f = [k \in 1..n |-> f[k]]
  BY <1>3, Zenon DEF Writes
<1> DEFINE bad == {k \in Nat : k \in 1..n /\ f[k] \notin Words}
<1>7. bad = {}
  <2> SUFFICES ASSUME bad # {}
               PROVE  FALSE
    OBVIOUS
  <2>1. PICK k \in bad : \A e \in bad : k <= e
    <3> bad \in SUBSET Nat
      OBVIOUS
    <3> HIDE DEF bad
    <3> QED
      BY LeastNat
  <2>2. k # 1
    BY <1>1, <1>5
  <2>3. k - 1 \in 1..n /\ k \in 2..n /\ ~ (k <= k - 1) /\ k - 1 \in Nat
    BY <1>1, <2>2
  <2>4. f[k - 1] \in Words
    <3>1. k - 1 \notin bad
      <4> HIDE DEF bad
      <4> QED
        BY <2>1, <2>3
    <3> QED
      BY <2>3, <3>1
  <2>5. f[k - 1] \o <<"/">> \in Words
    BY <1>1, <2>4, Joined
  <2>6. f[k - 1] \o <<"/">> \o pattern[k] \in Words
    BY <1>1, <2>5, Joined
  <2> QED
    BY <1>5, <2>3, <2>6
<1>8. f \in [1..n -> Words]
  BY <1>6, <1>7
<1>9. Written(pattern, n, f)
  BY <1>5, <1>8 DEF Written
<1> QED
  BY <1>4, <1>9

(* The first h segments lie in s, one after the other, up to b: the k-th    *)
(* from at[k] on, with a separator before the next.                         *)
Lays(pattern, s, h, b, at) ==
  /\ at \in [1..h + 1 -> Nat] /\ at[1] = 1 /\ at[h + 1] = b + 1
  /\ \A k \in 1..h : Span(pattern[k], s, at[k], at[k + 1] - 1)
  /\ \A k \in 2..h : s[at[k] - 1] = "/"

Laid(pattern, s, h, b) == \E at : Lays(pattern, s, h, b, at)

LEMMA LaidFirst ==
  ASSUME NEW pattern \in Patterns, NEW s \in Words, NEW b \in 1..Len(s) + 1
  PROVE  Laid(pattern, s, 1, b) <=> Span(pattern[1], s, 1, b)
<1>1. Len(s) \in Nat
  BY DEF Words
<1>2. ASSUME Laid(pattern, s, 1, b)
      PROVE  Span(pattern[1], s, 1, b)
  <2>1. PICK at : Lays(pattern, s, 1, b, at)
    BY <1>2 DEF Laid
  <2>2. 1 \in 1..1 /\ 1 + 1 = 2
    OBVIOUS
  <2>3. at[1] = 1 /\ at[2] = b + 1 /\ Span(pattern[1], s, at[1], at[2] - 1)
    BY <2>1, <2>2, Zenon DEF Lays
  <2>4. b + 1 - 1 = b
    BY <1>1
  <2> QED
    BY <2>3, <2>4
<1>3. ASSUME Span(pattern[1], s, 1, b)
      PROVE  Laid(pattern, s, 1, b)
  <2> DEFINE at == [k \in 1..2 |-> IF k = 1 THEN 1 ELSE b + 1]
  <2>1. at \in [1..2 -> Nat] /\ at[1] = 1 /\ at[2] = b + 1
    BY <1>1
  <2> HIDE DEF at
  <2>2. b + 1 - 1 = b /\ 1 + 1 = 2 /\ (\A k \in 1..1 : k = 1) /\ (\A k \in 2..1 : FALSE)
    BY <1>1
  <2>3. Lays(pattern, s, 1, b, at)
    BY <1>3, <2>1, <2>2 DEF Lays
  <2> QED
    BY <2>3 DEF Laid
<1> QED
  BY <1>2, <1>3

LEMMA LaidNext ==
  ASSUME NEW pattern \in Patterns, NEW s \in Words, NEW h \in 1..Len(pattern) - 1,
         NEW c \in 1..Len(s), NEW b \in 1..Len(s) + 1,
         Laid(pattern, s, h, c), s[c] = "/", Span(pattern[h + 1], s, c + 1, b)
  PROVE  Laid(pattern, s, h + 1, b)
<1>1. Len(s) \in Nat /\ h \in Nat /\ h >= 1
  BY PatternIs DEF Words
<1>2. PICK old : Lays(pattern, s, h, c, old)
  BY DEF Laid
<1> DEFINE at == [k \in 1..h + 2 |-> IF k = h + 2 THEN b + 1 ELSE old[k]]
<1>3. at \in [1..h + 2 -> Nat] /\ at[h + 2] = b + 1 /\ \A k \in 1..h + 1 : at[k] = old[k]
  BY <1>1, <1>2 DEF Lays
<1> HIDE DEF at
<1>4. at[1] = 1 /\ at[h + 1] = c + 1
  BY <1>1, <1>2, <1>3 DEF Lays
<1>5. ASSUME NEW k \in 1..h + 1
      PROVE  Span(pattern[k], s, at[k], at[k + 1] - 1)
  <2>1. CASE k = h + 1
    <3>1. k + 1 = h + 2 /\ b + 1 - 1 = b
      BY <1>1, <2>1
    <3> QED
      BY <1>3, <1>4, <2>1, <3>1
  <2>2. CASE k # h + 1
    <3>1. k \in 1..h /\ k + 1 \in 1..h + 1
      BY <1>1, <2>2
    <3> QED
      BY <1>2, <1>3, <3>1 DEF Lays
  <2> QED
    BY <2>1, <2>2
<1>6. ASSUME NEW k \in 2..h + 1
      PROVE  s[at[k] - 1] = "/"
  <2>1. CASE k = h + 1
    <3>1. c + 1 - 1 = c
      BY <1>1
    <3> QED
      BY <1>4, <2>1, <3>1
  <2>2. CASE k # h + 1
    <3>1. k \in 2..h /\ k \in 1..h + 1
      BY <1>1, <2>2
    <3> QED
      BY <1>2, <1>3, <3>1 DEF Lays
  <2> QED
    BY <2>1, <2>2
<1>7. h + 1 + 1 = h + 2
  BY <1>1
<1>8. Lays(pattern, s, h + 1, b, at)
  BY <1>3, <1>4, <1>5, <1>6, <1>7 DEF Lays
<1> QED
  BY <1>8 DEF Laid

LEMMA LaidLast ==
  ASSUME NEW pattern \in Patterns, NEW s \in Words, NEW h \in 1..Len(pattern) - 1,
         NEW b \in 1..Len(s) + 1, Laid(pattern, s, h + 1, b)
  PROVE  \E c \in 1..Len(s) : /\ Laid(pattern, s, h, c) /\ s[c] = "/"
                              /\ Span(pattern[h + 1], s, c + 1, b)
<1>1. Len(s) \in Nat /\ h \in Nat /\ h >= 1 /\ h + 1 \in 1..Len(pattern) /\ h \in 1..Len(pattern)
  BY PatternIs DEF Words
<1>2. PICK at : Lays(pattern, s, h + 1, b, at)
  BY DEF Laid
<1>3. /\ at \in [1..h + 2 -> Nat] /\ at[1] = 1 /\ at[h + 2] = b + 1
      /\ \A k \in 1..h + 1 : Span(pattern[k], s, at[k], at[k + 1] - 1)
      /\ \A k \in 2..h + 1 : s[at[k] - 1] = "/"
  <2>1. h + 1 + 1 = h + 2
    BY <1>1
  <2> QED
    BY <1>2, <2>1 DEF Lays
<1> DEFINE c == at[h + 1] - 1
           old == [k \in 1..h + 1 |-> at[k]]
<1>4. /\ Span(pattern[h], s, at[h], c)
      /\ Span(pattern[h + 1], s, at[h + 1], b)
      /\ s[c] = "/"
  <2>1. h \in 1..h + 1 /\ h + 1 \in 1..h + 1 /\ h + 1 \in 2..h + 1 /\ h + 1 + 1 = h + 2 /\ b + 1 - 1 = b
    BY <1>1
  <2> QED
    BY <1>3, <2>1
<1>5. at[h + 1] \in 1..Len(s) + 1 /\ c \in Nat /\ c >= 1
  <2>1. pattern[h] \in Words /\ pattern[h + 1] \in Words
    BY <1>1, PatternIs
  <2> HIDE DEF c
  <2>2. at[h] \in 1..Len(s) + 1 /\ c \in at[h]..Len(s) + 1
    BY <1>4, <2>1, SpanRange
  <2>3. at[h + 1] \in 1..Len(s) + 1
    BY <1>4, <2>1, SpanRange
  <2> QED
    BY <1>1, <2>2, <2>3
<1>6. c \in 1..Len(s) /\ c + 1 = at[h + 1]
  BY <1>1, <1>5
<1>7. Lays(pattern, s, h, c, old)
  <2>1. old \in [1..h + 1 -> Nat] /\ \A k \in 1..h + 1 : old[k] = at[k]
    BY <1>1, <1>3
  <2> HIDE DEF old, c
  <2>2. old[1] = 1 /\ old[h + 1] = c + 1
    BY <1>1, <1>3, <1>6, <2>1
  <2>3. ASSUME NEW k \in 1..h
        PROVE  Span(pattern[k], s, old[k], old[k + 1] - 1)
    <3>1. k \in 1..h + 1 /\ k + 1 \in 1..h + 1
      BY <1>1
    <3> QED
      BY <1>3, <2>1, <3>1
  <2>4. ASSUME NEW k \in 2..h
        PROVE  s[old[k] - 1] = "/"
    <3>1. k \in 1..h + 1 /\ k \in 2..h + 1
      BY <1>1
    <3> QED
      BY <1>3, <2>1, <3>1
  <2> QED
    BY <2>1, <2>2, <2>3, <2>4 DEF Lays
<1> QED
  BY <1>4, <1>6, <1>7 DEF Laid

(* What the first segments make matches as they do.                         *)
LEMMA WrittenLaid ==
  ASSUME NEW pattern \in Patterns, NEW s \in Words,
         NEW w, Written(pattern, Len(pattern), w),
         NEW h0 \in 1..Len(pattern), NEW b0 \in 1..Len(s) + 1
  PROVE  Span(w[h0], s, 1, b0) <=> Laid(pattern, s, h0, b0)
<1> DEFINE n == Len(pattern)
           m == Len(s)
           Agree(h, b) == Span(w[h], s, 1, b) <=> Laid(pattern, s, h, b)
           wrong == {h \in Nat : h \in 1..n /\ \E b \in 1..m + 1 : ~Agree(h, b)}
<1>1. /\ n \in Nat \ {0} /\ m \in Nat /\ <<"/">> \in Words
      /\ \A k \in 1..n : pattern[k] \in Words /\ w[k] \in Words
  <2>1. m \in Nat
    BY DEF Words
  <2> QED
    BY <2>1, PatternIs DEF Written
<1>2. SUFFICES ASSUME wrong # {}
               PROVE  FALSE
  BY <1>1
<1>3. PICK h \in wrong : \A e \in wrong : h <= e
  <2> wrong \in SUBSET Nat
    OBVIOUS
  <2> HIDE DEF wrong
  <2> QED
    BY <1>2, LeastNat
<1>4. PICK b \in 1..m + 1 : ~Agree(h, b)
  OBVIOUS
<1>5. h \in 1..n
  OBVIOUS
<1>6. CASE h = 1
  <2>1. w[1] = pattern[1]
    BY DEF Written
  <2> QED
    BY <1>4, <1>6, <2>1, LaidFirst
<1>7. CASE h # 1
  <2> DEFINE g == h - 1
  <2>1. g \in 1..n - 1 /\ g \in 1..n /\ h \in 2..n /\ g + 1 = h /\ g \in Nat /\ ~ (h <= g)
    BY <1>1, <1>5, <1>7
  <2>2. w[h] = w[g] \o <<"/">> \o pattern[h]
    BY <2>1 DEF Written
  <2> HIDE DEF g
  <2>3. w[g] \in Words /\ pattern[h] \in Words /\ w[g] \o <<"/">> \in Words
    BY <1>1, <2>1, Joined
  <2>4. g \notin wrong
    <3> HIDE DEF wrong
    <3> QED
      BY <1>3, <2>1
  <2>5. ASSUME NEW c \in 1..m + 1
        PROVE  Agree(g, c)
    BY <2>1, <2>4
  <2>6. ASSUME Span(w[h], s, 1, b)
        PROVE  Laid(pattern, s, h, b)
    <3>1. PICK d \in 1..b : Span(w[g] \o <<"/">>, s, 1, d) /\ Span(pattern[h], s, d, b)
      BY <2>2, <2>3, <2>6, SpanApart
    <3>2. PICK c \in 1..d : Span(w[g], s, 1, c) /\ Span(<<"/">>, s, c, d)
      BY <1>1, <2>3, <3>1, SpanApart
    <3>3. c \in 1..m + 1 /\ d \in c..m + 1
      BY <1>1, <3>1, <3>2
    <3>4. Token("/", s, c, d)
      BY <3>2, <3>3, SpanOne
    <3>5. c \in 1..m /\ s[c] = "/" /\ d = c + 1
      BY <1>1, <3>3, <3>4 DEF Token, Stars
    <3>6. Laid(pattern, s, g, c)
      BY <2>5, <3>2, <3>3
    <3> QED
      BY <2>1, <3>1, <3>5, <3>6, LaidNext
  <2>7. ASSUME Laid(pattern, s, h, b)
        PROVE  Span(w[h], s, 1, b)
    <3>1. PICK c \in 1..m : Laid(pattern, s, g, c) /\ s[c] = "/" /\ Span(pattern[h], s, c + 1, b)
      BY <2>1, <2>7, LaidLast
    <3>2. c \in 1..m + 1 /\ c + 1 \in c..m + 1 /\ c <= m
      BY <1>1
    <3>3. Span(w[g], s, 1, c)
      BY <2>5, <3>1, <3>2
    <3>4. Token("/", s, c, c + 1)
      BY <3>1, <3>2 DEF Token, Stars
    <3>5. Span(<<"/">>, s, c, c + 1)
      BY <3>2, <3>4, SpanOne
    <3>6. Span(w[g] \o <<"/">>, s, 1, c + 1)
      BY <1>1, <2>3, <3>3, <3>5, SpanTogether
    <3> QED
      BY <2>2, <2>3, <3>1, <3>6, SpanTogether
  <2> QED
    BY <1>4, <2>6, <2>7
<1> QED
  BY <1>6, <1>7

(* A string matches when the segments lie in it end to end.                 *)
LEMMA MatchesLaid ==
  ASSUME NEW pattern \in Patterns, NEW s \in Words
  PROVE  MatchesGlob(pattern, s) <=> Laid(pattern, s, Len(pattern), Len(s) + 1)
<1> DEFINE n == Len(pattern)
           m == Len(s)
<1>1. n \in 1..n /\ m \in Nat /\ m + 1 \in 1..m + 1
  BY PatternIs DEF Words
<1>2. PICK w : Written(pattern, n, w) /\ Flat(pattern) = w[n]
  BY FlatWritten
<1>3. w[n] \in Words
  BY <1>1, <1>2 DEF Written
<1>4. MatchesGlob(pattern, s) <=> Rest(w[n], s, 1, 1)
  BY <1>2, <1>3, MatchesSpan DEF MatchesGlob
<1>5. Rest(w[n], s, 1, 1) <=> Span(w[n], s, 1, m + 1)
  BY DEF Rest, Span
<1> QED
  BY <1>1, <1>2, <1>4, <1>5, WrittenLaid

(* A segment that is not just stars of any depth.                           *)
OneLevel(seg) == \A k \in DOMAIN seg : seg[k] \notin {"/", "**"}

(* It matches nothing with a separator in it.                               *)
LEMMA NoSeparator ==
  ASSUME NEW seg \in Words, OneLevel(seg), NEW s \in Words,
         NEW a, NEW b, Span(seg, s, a, b), NEW x \in a..b - 1
  PROVE  s[x] # "/"
<1> DEFINE n == Len(seg)
           m == Len(s)
<1>1. n \in Nat /\ m \in Nat /\ DOMAIN seg = 1..n
  BY DEF Words
<1>2. PICK cut : Cuts(seg, s, 1, a, b, cut)
  BY DEF Span
<1>3. /\ cut \in [1..n + 1 -> 1..m + 1] /\ cut[1] = a /\ cut[n + 1] = b
      /\ \A k \in 1..n : Token(seg[k], s, cut[k], cut[k + 1])
  BY <1>2 DEF Cuts
<1> DEFINE after == {k \in Nat : k \in 1..n + 1 /\ x < cut[k]}
<1>4. x \in Nat /\ a \in Nat /\ b \in Nat /\ a <= x /\ x < b
  BY <1>1, <1>3
<1>5. n + 1 \in after
  BY <1>1, <1>3, <1>4
<1>6. PICK k \in after : \A e \in after : k <= e
  <2> after \in SUBSET Nat
    OBVIOUS
  <2> HIDE DEF after
  <2> QED
    BY <1>5, LeastNat
<1> DEFINE g == k - 1
<1>7. k # 1
  BY <1>3, <1>4
<1>8. g \in 1..n /\ g \in 1..n + 1 /\ g + 1 = k /\ g \in Nat /\ ~ (k <= g)
  BY <1>1, <1>7
<1>9. x < cut[g + 1]
  BY <1>8
<1> HIDE DEF g
<1>10. cut[g] <= x
  <2>1. g \notin after
    <3> HIDE DEF after
    <3> QED
      BY <1>6, <1>8
  <2> QED
    BY <1>3, <1>4, <1>8, <2>1
<1>11. Token(seg[g], s, cut[g], cut[g + 1]) /\ seg[g] # "/" /\ seg[g] # "**"
  BY <1>1, <1>3, <1>8 DEF OneLevel
<1>12. cut[g] \in 1..m + 1 /\ cut[g + 1] \in 1..m + 1
  BY <1>1, <1>3, <1>8
<1>13. CASE seg[g] \in Stars
  <2>1. \A y \in cut[g]..cut[g + 1] - 1 : s[y] # "/"
    BY <1>11, <1>13 DEF Token, Stars, Takes
  <2>2. x \in cut[g]..cut[g + 1] - 1
    BY <1>4, <1>9, <1>10, <1>12
  <2> QED
    BY <2>1, <2>2
<1>14. CASE seg[g] \notin Stars
  <2>1. s[cut[g]] = seg[g] /\ cut[g + 1] = cut[g] + 1
    BY <1>11, <1>14 DEF Token
  <2>2. x = cut[g]
    BY <1>4, <1>9, <1>10, <1>12, <2>1
  <2> QED
    BY <1>11, <2>1, <2>2
<1> QED
  BY <1>13, <1>14

(* Two segments the comparison of tokens is right about: the sentinel that  *)
(* stands for a star of the delegate is no character of the parent's, and   *)
(* no star of the delegate takes a separator.                               *)
Distinct(p, d) ==
  \/ p = d
  \/ /\ \A k \in DOMAIN d : d[k] # "**"
     /\ (\A k \in DOMAIN d : d[k] \notin Stars) \/ (\A k \in DOMAIN p : p[k] # Sentinel)

LEMMA SegmentSound ==
  ASSUME NEW p \in Words, NEW d \in Words, IntraSegmentSubset(p, d), Distinct(p, d),
         \A k \in DOMAIN d : d[k] # "/",
         NEW s \in Words, NEW a, NEW b, Span(d, s, a, b),
         (\A x \in DOMAIN s : s[x] # LineBreak) \/ (\A k \in DOMAIN p : p[k] # "**")
  PROVE  Span(p, s, a, b)
<1>1. CASE p = d
  BY <1>1
<1>2. CASE p # d
  <2> DEFINE n == Len(p)
             h == Len(d)
             m == Len(s)
             t == Tokens(p)
             u == WithSentinel(d)
  <2>1. n \in Nat /\ h \in Nat /\ m \in Nat /\ DOMAIN p = 1..n /\ DOMAIN d = 1..h
    BY DEF Words
  <2>2. /\ t \in Words /\ Len(t) = n
        /\ \A k \in 1..n : t[k] = IF p[k] \in Stars THEN "*" ELSE p[k]
    <3>1. \A k \in 1..n : p[k] \in Letters
      BY DEF Words
    <3>2. \A k \in 1..n : (IF p[k] \in Stars THEN "*" ELSE p[k]) \in Letters
      BY <3>1 DEF Letters
    <3>3. t = [k \in 1..n |-> IF p[k] \in Stars THEN "*" ELSE p[k]]
      BY <2>1 DEF Tokens
    <3> QED
      BY <2>1, <3>2, <3>3 DEF Words
  <2>3. /\ u \in Words /\ Len(u) = h
        /\ \A k \in 1..h : u[k] = IF d[k] \in Stars THEN Sentinel ELSE d[k]
    <3>1. \A k \in 1..h : d[k] \in Letters
      BY DEF Words
    <3>2. \A k \in 1..h : (IF d[k] \in Stars THEN Sentinel ELSE d[k]) \in Letters
      BY <3>1 DEF Letters
    <3>3. u = [k \in 1..h |-> IF d[k] \in Stars THEN Sentinel ELSE d[k]]
      BY <2>1 DEF WithSentinel
    <3> QED
      BY <2>1, <3>2, <3>3 DEF Words
  <2> HIDE DEF t, u
  <2>4. Rest(t, u, 1, 1)
    <3>1. MatchesTokens(t, u)
      BY <1>2 DEF IntraSegmentSubset, TokenSubset, t, u
    <3> QED
      BY <2>2, <2>3, <3>1, MatchesSpan
  <2>5. PICK to : Cuts(t, u, 1, 1, h + 1, to)
    BY <2>3, <2>4 DEF Rest
  <2>6. /\ to \in [1..n + 1 -> 1..h + 1] /\ to[1] = 1 /\ to[n + 1] = h + 1
        /\ \A k, l \in 1..n + 1 : k <= l => to[k] <= to[l]
        /\ \A k \in 1..n : Token(t[k], u, to[k], to[k + 1])
    BY <2>2, <2>3, <2>5 DEF Cuts
  <2>7. PICK old : Cuts(d, s, 1, a, b, old)
    BY DEF Span
  <2>8. /\ old \in [1..h + 1 -> 1..m + 1] /\ old[1] = a /\ old[h + 1] = b
        /\ \A k, l \in 1..h + 1 : k <= l => old[k] <= old[l]
        /\ \A k \in 1..h : Token(d[k], s, old[k], old[k + 1])
    BY <2>7 DEF Cuts
  <2> DEFINE cut == [k \in 1..n + 1 |-> old[to[k]]]
  <2>9. cut \in [1..n + 1 -> 1..m + 1] /\ \A k \in 1..n + 1 : cut[k] = old[to[k]]
    BY <2>6, <2>8
  <2> HIDE DEF cut
  <2>10. cut[1] = a /\ cut[n + 1] = b
    BY <2>1, <2>6, <2>8, <2>9
  <2>11. ASSUME NEW k \in 1..n + 1, NEW l \in 1..n + 1, k <= l
         PROVE  cut[k] <= cut[l]
    <3>1. to[k] \in 1..h + 1 /\ to[l] \in 1..h + 1 /\ to[k] <= to[l]
      BY <2>6, <2>11
    <3>2. old[to[k]] <= old[to[l]]
      BY <2>8, <3>1
    <3> QED
      BY <2>9, <3>2
  <2>12. ASSUME NEW k \in 1..n
         PROVE  Token(p[k], s, cut[k], cut[k + 1])
    <3>1. k \in 1..n + 1 /\ k + 1 \in 1..n + 1 /\ k <= k + 1
      BY <2>1
    <3>2. /\ to[k] \in 1..h + 1 /\ to[k + 1] \in 1..h + 1
          /\ cut[k] \in 1..m + 1 /\ cut[k + 1] \in 1..m + 1 /\ cut[k] <= cut[k + 1]
      BY <2>6, <2>9, <2>11, <3>1
    <3>3. OneLevel(d)
      BY <1>2 DEF Distinct, OneLevel
    <3>4. CASE p[k] = "**"
      <4>1. \A x \in cut[k]..cut[k + 1] - 1 : x \in DOMAIN s
        BY <2>1, <3>2 DEF Words
      <4>2. \A x \in cut[k]..cut[k + 1] - 1 : s[x] # LineBreak
        BY <2>1, <3>4, <4>1
      <4> QED
        BY <3>2, <3>4, <4>2 DEF Token, Stars, Takes
    <3>5. CASE p[k] = "*"
      <4>1. a <= cut[k] /\ cut[k + 1] <= b /\ a \in Nat /\ b \in Nat
        <5>1. 1 \in 1..n + 1 /\ n + 1 \in 1..n + 1 /\ 1 <= k /\ k + 1 <= n + 1
          BY <2>1
        <5> QED
          BY <2>9, <2>10, <2>11, <3>1, <5>1
      <4>2. \A x \in cut[k]..cut[k + 1] - 1 : x \in a..b - 1
        BY <3>2, <4>1
      <4>3. \A x \in cut[k]..cut[k + 1] - 1 : s[x] # "/"
        BY <3>3, <4>2, NoSeparator
      <4> QED
        BY <3>2, <3>5, <4>3 DEF Token, Stars, Takes
    <3>6. CASE p[k] \notin Stars
      <4>1. t[k] = p[k] /\ t[k] \notin Stars
        BY <2>2, <3>6
      <4>2. Token(t[k], u, to[k], to[k + 1])
        BY <2>6
      <4>3. to[k] <= h /\ u[to[k]] = p[k] /\ to[k + 1] = to[k] + 1
        BY <2>3, <4>1, <4>2 DEF Token
      <4>4. to[k] \in 1..h
        BY <2>1, <3>2, <4>3
      <4>5. d[to[k]] = p[k]
        BY <1>2, <2>1, <2>3, <3>6, <4>3, <4>4 DEF Distinct
      <4>6. Token(d[to[k]], s, old[to[k]], old[to[k] + 1])
        BY <2>8, <4>4
      <4> QED
        BY <2>9, <3>1, <4>3, <4>5, <4>6
    <3> QED
      BY <3>4, <3>5, <3>6 DEF Stars
  <2>13. Cuts(p, s, 1, a, b, cut)
    BY <2>9, <2>10, <2>11, <2>12 DEF Cuts
  <2> QED
    BY <2>13 DEF Span
<1> QED
  BY <1>1, <1>2

(* The k-th segment of the parent may stand for those of the delegate from  *)
(* i on and before j.                                                       *)
Stands(p, d, k, i, j) ==
  IF p[k] = AnyDepth
    THEN i <= j
    ELSE i <= Len(d) /\ d[i] # AnyDepth /\ IntraSegmentSubset(p[k], d[i]) /\ j = i + 1

Aligns(p, d, g, i, al) ==
  LET n == Len(p) IN
  /\ al \in [g..n + 1 -> 1..Len(d) + 1]
  /\ al[g] = i /\ al[n + 1] = Len(d) + 1
  /\ \A k \in g..n : Stands(p, d, k, al[k], al[k + 1])

Aligned(p, d, g, i) == \E al : Aligns(p, d, g, i, al)

LEMMA AlignedEnd ==
  ASSUME NEW p \in Patterns, NEW d \in Patterns, NEW i \in 1..Len(d) + 1
  PROVE  Aligned(p, d, Len(p) + 1, i) <=> i > Len(d)
<1> DEFINE n == Len(p)
           m == Len(d)
<1>1. n \in Nat /\ m \in Nat
  BY PatternIs
<1>2. ASSUME Aligned(p, d, n + 1, i)
      PROVE  i > m
  BY <1>1, <1>2 DEF Aligned, Aligns
<1>3. ASSUME i > m
      PROVE  Aligned(p, d, n + 1, i)
  <2>1. Aligns(p, d, n + 1, i, [k \in n + 1..n + 1 |-> i])
    BY <1>1, <1>3 DEF Aligns
  <2> QED
    BY <2>1 DEF Aligned
<1> QED
  BY <1>2, <1>3

LEMMA AlignedMore ==
  ASSUME NEW p \in Patterns, NEW d \in Patterns,
         NEW g \in 1..Len(p), NEW i \in 1..Len(d) + 1, NEW j \in i..Len(d) + 1,
         Stands(p, d, g, i, j), Aligned(p, d, g + 1, j)
  PROVE  Aligned(p, d, g, i)
<1> DEFINE n == Len(p)
           m == Len(d)
<1>1. n \in Nat /\ m \in Nat
  BY PatternIs
<1>2. PICK al : Aligns(p, d, g + 1, j, al)
  BY DEF Aligned
<1> DEFINE more == [k \in g..n + 1 |-> IF k = g THEN i ELSE al[k]]
<1>3. more[g] = i /\ \A k \in g + 1..n + 1 : more[k] = al[k]
  BY <1>1
<1>4. more \in [g..n + 1 -> 1..m + 1]
  BY <1>1, <1>2 DEF Aligns
<1> HIDE DEF more
<1>5. \A k \in g..n : Stands(p, d, k, more[k], more[k + 1])
  <2>1. /\ al[g + 1] = j
        /\ \A k \in g + 1..n : Stands(p, d, k, al[k], al[k + 1])
    BY <1>2 DEF Aligns
  <2> TAKE k \in g..n
  <2>2. CASE k = g
    <3>1. g + 1 \in g + 1..n + 1
      BY <1>1
    <3> QED
      BY <1>3, <2>1, <2>2, <3>1
  <2>3. CASE k # g
    <3>1. k \in g + 1..n /\ k \in g + 1..n + 1 /\ k + 1 \in g + 1..n + 1
      BY <1>1, <2>3
    <3> QED
      BY <1>3, <2>1, <3>1
  <2> QED
    BY <2>2, <2>3
<1>6. more[n + 1] = m + 1
  BY <1>1, <1>2, <1>3 DEF Aligns
<1> QED
  BY <1>3, <1>4, <1>5, <1>6 DEF Aligns, Aligned

LEMMA AlignedFirst ==
  ASSUME NEW p \in Patterns, NEW d \in Patterns,
         NEW g \in 1..Len(p), NEW i \in 1..Len(d) + 1, Aligned(p, d, g, i)
  PROVE  \E j \in i..Len(d) + 1 : Stands(p, d, g, i, j) /\ Aligned(p, d, g + 1, j)
<1> DEFINE n == Len(p)
           m == Len(d)
<1>1. n \in Nat /\ m \in Nat
  BY PatternIs
<1>2. PICK al : Aligns(p, d, g, i, al)
  BY DEF Aligned
<1> DEFINE less == [k \in g + 1..n + 1 |-> al[k]]
<1>3. \A k \in g + 1..n + 1 : less[k] = al[k]
  OBVIOUS
<1>4. less \in [g + 1..n + 1 -> 1..m + 1]
  BY <1>1, <1>2 DEF Aligns
<1> HIDE DEF less
<1>5. Aligns(p, d, g + 1, al[g + 1], less)
  <2>1. \A k \in g + 1..n : /\ k \in g..n /\ k \in g + 1..n + 1
                            /\ k + 1 \in g + 1..n + 1
    BY <1>1
  <2>2. \A k \in g + 1..n : Stands(p, d, k, less[k], less[k + 1])
    BY <1>2, <1>3, <2>1 DEF Aligns
  <2>3. less[g + 1] = al[g + 1] /\ less[n + 1] = m + 1
    BY <1>1, <1>2, <1>3 DEF Aligns
  <2> QED
    BY <1>4, <2>2, <2>3 DEF Aligns
<1>6. Stands(p, d, g, i, al[g + 1]) /\ al[g + 1] \in 1..m + 1
  BY <1>1, <1>2 DEF Aligns
<1>7. al[g + 1] \in i..m + 1
  BY <1>1, <1>6 DEF Stands
<1> QED
  BY <1>5, <1>6, <1>7 DEF Aligned

(* Past the last segment of the delegate only "**" is left.                 *)
LEMMA AlignedOver ==
  ASSUME NEW p \in Patterns, NEW d \in Patterns, NEW g \in 1..Len(p)
  PROVE  Aligned(p, d, g, Len(d) + 1) <=> \A k \in g..Len(p) : p[k] = AnyDepth
<1> DEFINE n == Len(p)
           m == Len(d)
<1>1. n \in Nat /\ m \in Nat
  BY PatternIs
<1>2. ASSUME \A k \in g..n : p[k] = AnyDepth
      PROVE  Aligned(p, d, g, m + 1)
  <2> DEFINE al == [k \in g..n + 1 |-> m + 1]
  <2>1. al \in [g..n + 1 -> 1..m + 1] /\ \A k \in g..n + 1 : al[k] = m + 1
    BY <1>1
  <2> HIDE DEF al
  <2>2. \A k \in g..n : Stands(p, d, k, al[k], al[k + 1])
    BY <1>1, <1>2, <2>1 DEF Stands
  <2>3. Aligns(p, d, g, m + 1, al)
    BY <1>1, <2>1, <2>2 DEF Aligns
  <2> QED
    BY <2>3 DEF Aligned
<1>3. ASSUME Aligned(p, d, g, m + 1), NEW k0 \in g..n, p[k0] # AnyDepth
      PROVE  FALSE
  <2>1. PICK al : Aligns(p, d, g, m + 1, al)
    BY <1>3 DEF Aligned
  <2>2. /\ al \in [g..n + 1 -> 1..m + 1] /\ al[g] = m + 1
        /\ \A k \in g..n : Stands(p, d, k, al[k], al[k + 1])
    BY <2>1 DEF Aligns
  <2> DEFINE low == {k \in Nat : k \in g..n + 1 /\ al[k] # m + 1}
  <2>3. \A k \in g..n + 1 : al[k] = m + 1
    <3>1. CASE low = {}
      BY <1>1, <3>1
    <3>2. CASE low # {}
      <4>1. PICK k \in low : \A e \in low : k <= e
        <5> low \in SUBSET Nat
          OBVIOUS
        <5> HIDE DEF low
        <5> QED
          BY <3>2, LeastNat
      <4> DEFINE l == k - 1
      <4>2. k # g
        BY <2>2
      <4>3. l \in g..n /\ l \in g..n + 1 /\ l + 1 = k /\ l \in Nat /\ ~ (k <= l)
        BY <1>1, <4>2
      <4> HIDE DEF l
      <4>4. l \notin low
        <5> HIDE DEF low
        <5> QED
          BY <4>1, <4>3
      <4>5. al[l] = m + 1
        BY <4>3, <4>4
      <4>6. Stands(p, d, l, m + 1, al[k])
        BY <2>2, <4>3, <4>5
      <4>7. al[k] \in 1..m + 1 /\ al[k] >= m + 1
        BY <1>1, <2>2, <4>6 DEF Stands
      <4> QED
        BY <1>1, <4>7
    <3> QED
      BY <3>1, <3>2
  <2>4. Stands(p, d, k0, m + 1, al[k0 + 1])
    BY <1>1, <2>2, <2>3
  <2> QED
    BY <1>1, <1>3, <2>4 DEF Stands
<1> QED
  BY <1>2, <1>3

LEMMA AlignedAny ==
  ASSUME NEW p \in Patterns, NEW d \in Patterns,
         NEW g \in 1..Len(p), NEW i \in 1..Len(d), p[g] = AnyDepth
  PROVE  Aligned(p, d, g, i) <=>
           g = Len(p) \/ \E j \in i..Len(d) + 1 : Aligned(p, d, g + 1, j)
<1> DEFINE n == Len(p)
           m == Len(d)
<1>1. n \in Nat /\ m \in Nat
  BY PatternIs
<1>2. ASSUME Aligned(p, d, g, i)
      PROVE  \E j \in i..m + 1 : Aligned(p, d, g + 1, j)
  BY <1>1, <1>2, AlignedFirst
<1>3. ASSUME NEW j \in i..m + 1, Aligned(p, d, g + 1, j)
      PROVE  Aligned(p, d, g, i)
  <2>1. Stands(p, d, g, i, j)
    BY DEF Stands
  <2> QED
    BY <1>1, <1>3, <2>1, AlignedMore
<1>4. ASSUME g = n
      PROVE  Aligned(p, d, g, i)
  <2>1. m + 1 \in i..m + 1 /\ m + 1 \in 1..m + 1
    BY <1>1
  <2>2. Aligned(p, d, g + 1, m + 1)
    BY <1>1, <1>4, <2>1, AlignedEnd
  <2> QED
    BY <1>3, <2>1, <2>2
<1> QED
  BY <1>2, <1>3, <1>4

LEMMA AlignedOne ==
  ASSUME NEW p \in Patterns, NEW d \in Patterns,
         NEW g \in 1..Len(p), NEW i \in 1..Len(d), p[g] # AnyDepth
  PROVE  Aligned(p, d, g, i) <=>
           d[i] # AnyDepth /\ IntraSegmentSubset(p[g], d[i]) /\ Aligned(p, d, g + 1, i + 1)
<1> DEFINE m == Len(d)
<1>1. Len(p) \in Nat /\ m \in Nat
  BY PatternIs
<1>2. ASSUME Aligned(p, d, g, i)
      PROVE  d[i] # AnyDepth /\ IntraSegmentSubset(p[g], d[i]) /\ Aligned(p, d, g + 1, i + 1)
  <2>1. PICK j \in i..m + 1 : Stands(p, d, g, i, j) /\ Aligned(p, d, g + 1, j)
    BY <1>1, <1>2, AlignedFirst
  <2> QED
    BY <2>1 DEF Stands
<1>3. ASSUME d[i] # AnyDepth, IntraSegmentSubset(p[g], d[i]), Aligned(p, d, g + 1, i + 1)
      PROVE  Aligned(p, d, g, i)
  <2>1. i + 1 \in i..m + 1 /\ i \in 1..m + 1 /\ Stands(p, d, g, i, i + 1)
    BY <1>1, <1>3 DEF Stands
  <2> QED
    BY <1>3, <2>1, AlignedMore
<1> QED
  BY <1>2, <1>3

JoinBody(p, d, f, i, j) ==
  IF i > Len(p) \/ j > Len(d)
    THEN j > Len(d) /\ \A k \in i..Len(p) : p[k] = AnyDepth
    ELSE IF p[i] = AnyDepth
      THEN i = Len(p) \/ \E k \in j..Len(d) + 1 : f[<<i + 1, k>>]
      ELSE d[j] # AnyDepth /\ IntraSegmentSubset(p[i], d[j]) /\ f[<<i + 1, j + 1>>]

LEMMA JoinEnd ==
  ASSUME NEW p, NEW d, NEW f, NEW i, NEW j, i > Len(p) \/ j > Len(d)
  PROVE  JoinBody(p, d, f, i, j) = (j > Len(d) /\ \A k \in i..Len(p) : p[k] = AnyDepth)
  BY Zenon DEF JoinBody

LEMMA JoinAny ==
  ASSUME NEW p, NEW d, NEW f, NEW i, NEW j, ~(i > Len(p) \/ j > Len(d)), p[i] = AnyDepth
  PROVE  JoinBody(p, d, f, i, j) = (i = Len(p) \/ \E k \in j..Len(d) + 1 : f[<<i + 1, k>>])
  BY Zenon DEF JoinBody

LEMMA JoinOne ==
  ASSUME NEW p, NEW d, NEW f, NEW i, NEW j, ~(i > Len(p) \/ j > Len(d)), p[i] # AnyDepth
  PROVE  JoinBody(p, d, f, i, j) =
           (d[j] # AnyDepth /\ IntraSegmentSubset(p[i], d[j]) /\ f[<<i + 1, j + 1>>])
  BY Zenon DEF JoinBody

Joins(p, d, f) ==
  f = [at \in Grid(Len(p), Len(d)) |-> JoinBody(p, d, f, at[1], at[2])]

(* As SegmentSubset has it.                                                 *)
SubsetFrom(p, d, from) ==
  from = [at \in (1..Len(p) + 1) \X (1..Len(d) + 1) |->
            LET i == at[1]
                j == at[2]
            IN IF i > Len(p) \/ j > Len(d) THEN j > Len(d) /\ \A k \in i..Len(p) : p[k] = AnyDepth
               ELSE IF p[i] = AnyDepth
                 THEN i = Len(p) \/ \E k \in j..Len(d) + 1 : from[<<i + 1, k>>]
                 ELSE /\ d[j] # AnyDepth
                      /\ IntraSegmentSubset(p[i], d[j])
                      /\ from[<<i + 1, j + 1>>]]

LEMMA SubsetIs ==
  ASSUME NEW p, NEW d
  PROVE  SegmentSubset(p, d) = (CHOOSE from : SubsetFrom(p, d, from))[<<1, 1>>]
  BY DEF SegmentSubset, SubsetFrom

LEMMA SubsetFromIs ==
  ASSUME NEW p, NEW d, NEW f
  PROVE  SubsetFrom(p, d, f) <=> Joins(p, d, f)
  BY DEF Joins, JoinBody, Grid, SubsetFrom

LEMMA JoinsAt ==
  ASSUME NEW p, NEW d, NEW f, Joins(p, d, f),
         NEW i \in 1..Len(p) + 1, NEW j \in 1..Len(d) + 1
  PROVE  f[<<i, j>>] = JoinBody(p, d, f, i, j)
<1>1. <<i, j>> \in Grid(Len(p), Len(d)) /\ <<i, j>>[1] = i /\ <<i, j>>[2] = j
  BY DEF Grid
<1> QED
  BY <1>1 DEF Joins

(* Where the values further on are those of Aligned, the body's value is.   *)
LEMMA JoinBodyIs ==
  ASSUME NEW p \in Patterns, NEW d \in Patterns, NEW f,
         NEW i \in 1..Len(p) + 1, NEW j \in 1..Len(d) + 1,
         \A k \in 1..Len(d) + 1 : i <= Len(p) => (f[<<i + 1, k>>] <=> Aligned(p, d, i + 1, k))
  PROVE  JoinBody(p, d, f, i, j) = Aligned(p, d, i, j)
<1> DEFINE n == Len(p)
           m == Len(d)
           rest == \A k \in i..n : p[k] = AnyDepth
<1>1. n \in Nat /\ m \in Nat
  BY PatternIs
<1>2. Aligned(p, d, i, j) \in BOOLEAN
  BY DEF Aligned
<1>3. CASE i > n
  <2>1. i = n + 1 /\ rest
    BY <1>1, <1>3
  <2>2. JoinBody(p, d, f, i, j) = (j > m /\ rest)
    BY <1>3, JoinEnd, Zenon
  <2>3. Aligned(p, d, i, j) <=> j > m
    BY <2>1, AlignedEnd
  <2> HIDE DEF rest
  <2> QED
    BY <1>1, <1>2, <2>1, <2>2, <2>3
<1>4. CASE ~(i > n) /\ j > m
  <2>1. i \in 1..n /\ j = m + 1
    BY <1>1, <1>4
  <2>2. JoinBody(p, d, f, i, j) = (j > m /\ rest)
    BY <1>4, JoinEnd, Zenon
  <2>3. Aligned(p, d, i, j) <=> rest
    BY <2>1, AlignedOver
  <2> HIDE DEF rest
  <2> QED
    BY <1>2, <1>4, <2>2, <2>3
<1>5. CASE ~(i > n \/ j > m) /\ p[i] = AnyDepth
  <2> DEFINE some == \E k \in j..m + 1 : f[<<i + 1, k>>]
  <2>1. i \in 1..n /\ j \in 1..m /\ i <= n
    BY <1>1, <1>5
  <2>2. JoinBody(p, d, f, i, j) = (i = n \/ some)
    BY <1>5, JoinAny, Zenon
  <2>3. Aligned(p, d, i, j) <=> i = n \/ \E k \in j..m + 1 : Aligned(p, d, i + 1, k)
    BY <1>5, <2>1, AlignedAny
  <2>4. some <=> \E k \in j..m + 1 : Aligned(p, d, i + 1, k)
    <3>1. \A k \in j..m + 1 : f[<<i + 1, k>>] <=> Aligned(p, d, i + 1, k)
      BY <1>1, <2>1
    <3> QED
      BY <3>1, Zenon
  <2> HIDE DEF some
  <2> QED
    BY <1>2, <2>2, <2>3, <2>4
<1>6. CASE ~(i > n \/ j > m) /\ p[i] # AnyDepth
  <2>1. i \in 1..n /\ j \in 1..m /\ i <= n /\ j + 1 \in 1..m + 1
    BY <1>1, <1>6
  <2>2. JoinBody(p, d, f, i, j) =
          (d[j] # AnyDepth /\ IntraSegmentSubset(p[i], d[j]) /\ f[<<i + 1, j + 1>>])
    <3>1. ~(i > n \/ j > m)
      BY <1>6
    <3>2. p[i] # AnyDepth
      BY <1>6
    <3> QED
      BY <3>1, <3>2, Zenon DEF JoinBody
  <2>3. Aligned(p, d, i, j) <=>
          d[j] # AnyDepth /\ IntraSegmentSubset(p[i], d[j]) /\ Aligned(p, d, i + 1, j + 1)
    BY <1>6, <2>1, AlignedOne
  <2>4. f[<<i + 1, j + 1>>] <=> Aligned(p, d, i + 1, j + 1)
    BY <2>1
  <2> QED
    BY <1>2, <2>2, <2>3, <2>4
<1> QED
  BY <1>3, <1>4, <1>5, <1>6

LEMMA SubsetAligned ==
  ASSUME NEW p \in Patterns, NEW d \in Patterns
  PROVE  SegmentSubset(p, d) <=> Aligned(p, d, 1, 1)
<1> DEFINE n == Len(p)
           m == Len(d)
           g == [at \in Grid(n, m) |-> Aligned(p, d, at[1], at[2])]
           f == CHOOSE f : SubsetFrom(p, d, f)
<1>1. n \in Nat \ {0} /\ m \in Nat \ {0}
  BY PatternIs
<1>2. \A at \in Grid(n, m) : at[1] \in 1..n + 1 /\ at[2] \in 1..m + 1
  BY DEF Grid
<1>3. \A i \in 1..n + 1, j \in 1..m + 1 : g[<<i, j>>] = Aligned(p, d, i, j)
  BY DEF Grid
<1>4. Joins(p, d, g)
  <2> HIDE DEF g
  <2>1. ASSUME NEW i \in 1..n + 1, NEW j \in 1..m + 1
        PROVE  JoinBody(p, d, g, i, j) = Aligned(p, d, i, j)
    <3>1. i <= n => i + 1 \in 1..n + 1
      BY <1>1
    <3>2. \A k \in 1..m + 1 : i <= n => (g[<<i + 1, k>>] <=> Aligned(p, d, i + 1, k))
      BY <1>3, <3>1
    <3> QED
      BY <3>2, JoinBodyIs
  <2>2. \A at \in Grid(n, m) : JoinBody(p, d, g, at[1], at[2]) = Aligned(p, d, at[1], at[2])
    BY <1>2, <2>1
  <2>3. g = [at \in Grid(n, m) |-> JoinBody(p, d, g, at[1], at[2])]
    BY <2>2, Zenon DEF g
  <2> QED
    BY <2>3 DEF Joins
<1>5. Joins(p, d, f)
  <2>1. SubsetFrom(p, d, f)
    BY <1>4, SubsetFromIs
  <2> QED
    BY <2>1, SubsetFromIs
<1>6. SegmentSubset(p, d) = f[<<1, 1>>]
  BY SubsetIs
<1> HIDE DEF f, g
<1> DEFINE Agree(i, j) == f[<<i, j>>] <=> Aligned(p, d, i, j)
           wrong == {e \in Nat : \E i \in 1..n + 1, j \in 1..m + 1 : n + 1 - i = e /\ ~Agree(i, j)}
<1>7. wrong = {}
  <2> SUFFICES ASSUME wrong # {}
               PROVE  FALSE
    OBVIOUS
  <2>1. PICK e \in wrong : \A x \in wrong : e <= x
    <3> wrong \in SUBSET Nat
      OBVIOUS
    <3> HIDE DEF wrong
    <3> QED
      BY LeastNat
  <2>2. PICK i \in 1..n + 1, j \in 1..m + 1 : n + 1 - i = e /\ ~Agree(i, j)
    OBVIOUS
  <2>3. ASSUME NEW k \in 1..m + 1, i <= n
        PROVE  Agree(i + 1, k)
    <3>1. i + 1 \in 1..n + 1 /\ n + 1 - (i + 1) \in Nat /\ ~ (e <= n + 1 - (i + 1))
      BY <1>1, <2>2, <2>3
    <3>2. n + 1 - (i + 1) \notin wrong
      <4> HIDE DEF wrong
      <4> QED
        BY <2>1, <3>1
    <3> QED
      BY <3>1, <3>2
  <2>4. JoinBody(p, d, f, i, j) = Aligned(p, d, i, j)
    <3>1. \A k \in 1..m + 1 : i <= n => (f[<<i + 1, k>>] <=> Aligned(p, d, i + 1, k))
      BY <2>3
    <3> HIDE DEF wrong, Agree
    <3> QED
      BY <3>1, JoinBodyIs
  <2>5. f[<<i, j>>] = JoinBody(p, d, f, i, j)
    BY <1>5, JoinsAt
  <2> QED
    BY <2>2, <2>4, <2>5
<1>8. 1 \in 1..n + 1 /\ 1 \in 1..m + 1 /\ n + 1 - 1 \in Nat
  BY <1>1
<1>9. Agree(1, 1)
  BY <1>7, <1>8
<1> QED
  BY <1>6, <1>9

LEMMA Rising ==
  ASSUME NEW h \in Nat, NEW f, \A k \in 1..h + 1 : f[k] \in Nat,
         \A k \in 1..h : f[k] < f[k + 1],
         NEW i \in 1..h + 1, NEW j0 \in 1..h + 1, i < j0
  PROVE  f[i] < f[j0]
<1> DEFINE wrong == {j \in Nat : j \in 1..h + 1 /\ i < j /\ ~(f[i] < f[j])}
<1>1. SUFFICES ASSUME wrong # {}
               PROVE  FALSE
  OBVIOUS
<1>2. PICK j \in wrong : \A e \in wrong : j <= e
  <2> wrong \in SUBSET Nat
    OBVIOUS
  <2> HIDE DEF wrong
  <2> QED
    BY <1>1, LeastNat
<1> DEFINE g == j - 1
<1>3. g \in 1..h /\ g \in 1..h + 1 /\ g + 1 = j /\ g \in Nat /\ ~ (j <= g) /\ i <= g
  OBVIOUS
<1>4. ~(f[i] < f[j])
  OBVIOUS
<1> HIDE DEF g
<1>5. g \notin wrong
  <2> HIDE DEF wrong
  <2> QED
    BY <1>2, <1>3
<1>6. f[g] < f[j]
  BY <1>3
<1>7. i = g \/ f[i] < f[g]
  BY <1>3, <1>5
<1>8. f[i] \in Nat /\ f[g] \in Nat /\ f[j] \in Nat
  BY <1>3
<1> QED
  BY <1>4, <1>6, <1>7, <1>8

(* Comparable patterns: of segments that can be told apart, with at most    *)
(* one "**", which some segment of the delegate is left for.                *)
Plain(p, d) ==
  /\ \A i \in DOMAIN p, j \in DOMAIN d :
       p[i] # AnyDepth /\ d[j] # AnyDepth => Distinct(p[i], d[j])
  /\ \A i, j \in DOMAIN p : p[i] = AnyDepth /\ p[j] = AnyDepth => i = j
  /\ (\E i \in DOMAIN p : p[i] = AnyDepth) => Len(p) <= Len(d)

(* A star of any depth that meets the end of a line stops there.            *)
Unbroken(p, s) ==
  \/ \A x \in DOMAIN s : s[x] # LineBreak
  \/ \A i \in DOMAIN p : \A k \in DOMAIN p[i] : p[i][k] # "**"

(* Then every segment of the parent stands for one at least.                *)
LEMMA AlignedApart ==
  ASSUME NEW p \in Patterns, NEW d \in Patterns, Plain(p, d),
         NEW al, Aligns(p, d, 1, 1, al), NEW k0 \in 1..Len(p)
  PROVE  al[k0] < al[k0 + 1]
<1> DEFINE n == Len(p)
           m == Len(d)
<1>1. /\ n \in Nat \ {0} /\ m \in Nat \ {0}
      /\ DOMAIN p = 1..n /\ DOMAIN d = 1..m
  BY PatternIs
<1>2. /\ al \in [1..n + 1 -> 1..m + 1] /\ al[1] = 1 /\ al[n + 1] = m + 1
      /\ \A k \in 1..n : Stands(p, d, k, al[k], al[k + 1])
  BY DEF Aligns
<1>3. ASSUME NEW k \in 1..n, p[k] # AnyDepth
      PROVE  al[k + 1] = al[k] + 1
  BY <1>2, <1>3 DEF Stands
<1>4. CASE p[k0] # AnyDepth
  <2>1. al[k0] \in 1..m + 1
    BY <1>1, <1>2
  <2> QED
    BY <1>3, <1>4, <2>1
<1>5. CASE p[k0] = AnyDepth
  <2>1. n <= m
    BY <1>1, <1>5 DEF Plain
  <2>2. \A k \in 1..n : k # k0 => p[k] # AnyDepth
    BY <1>1, <1>5 DEF Plain
  <2>3. al[k0] = k0
    <3> DEFINE wrong == {k \in Nat : k \in 1..k0 /\ al[k] # k}
    <3>1. SUFFICES ASSUME wrong # {}
                   PROVE  FALSE
      BY <1>1
    <3>2. PICK k \in wrong : \A e \in wrong : k <= e
      <4> wrong \in SUBSET Nat
        OBVIOUS
      <4> HIDE DEF wrong
      <4> QED
        BY <3>1, LeastNat
    <3> DEFINE g == k - 1
    <3>3. k # 1
      BY <1>2
    <3>4. g \in 1..n /\ g \in 1..k0 /\ g # k0 /\ g + 1 = k /\ g \in Nat /\ ~ (k <= g)
      BY <1>1, <3>3
    <3>5. al[k] # k
      OBVIOUS
    <3> HIDE DEF g
    <3>6. g \notin wrong
      <4> HIDE DEF wrong
      <4> QED
        BY <3>2, <3>4
    <3>7. al[g] = g
      BY <3>4, <3>6
    <3>8. al[g + 1] = al[g] + 1
      BY <1>3, <2>2, <3>4
    <3> QED
      BY <3>4, <3>5, <3>7, <3>8
  <2>4. al[k0 + 1] = m - n + (k0 + 1)
    <3> DEFINE wrong == {e \in Nat : \E k \in k0 + 1..n + 1 : n + 1 - k = e /\ al[k] # m - n + k}
    <3>1. SUFFICES ASSUME wrong # {}
                   PROVE  FALSE
      <4>1. k0 + 1 \in k0 + 1..n + 1 /\ n + 1 - (k0 + 1) \in Nat
        BY <1>1
      <4> QED
        BY <4>1
    <3>2. PICK e \in wrong : \A x \in wrong : e <= x
      <4> wrong \in SUBSET Nat
        OBVIOUS
      <4> HIDE DEF wrong
      <4> QED
        BY <3>1, LeastNat
    <3>3. PICK k \in k0 + 1..n + 1 : n + 1 - k = e /\ al[k] # m - n + k
      OBVIOUS
    <3> HIDE DEF wrong
    <3>4. k # n + 1
      <4>1. m - n + (n + 1) = m + 1
        BY <1>1
      <4> QED
        BY <1>2, <3>3, <4>1
    <3>5. /\ k \in 1..n /\ k # k0 /\ k + 1 \in k0 + 1..n + 1
          /\ n + 1 - (k + 1) \in Nat /\ ~ (e <= n + 1 - (k + 1))
      BY <1>1, <3>3, <3>4
    <3>6. n + 1 - (k + 1) \notin wrong
      BY <3>2, <3>5
    <3>7. al[k + 1] = m - n + (k + 1)
      BY <3>5, <3>6 DEF wrong
    <3>8. al[k + 1] = al[k] + 1
      BY <1>3, <2>2, <3>5
    <3>9. al[k] \in 1..m + 1
      BY <1>1, <1>2, <3>5
    <3> QED
      BY <1>1, <3>3, <3>5, <3>7, <3>8, <3>9
  <2> QED
    BY <1>1, <2>1, <2>3, <2>4
<1> QED
  BY <1>4, <1>5

(* No separator within a segment.                                           *)
Split(pattern) == \A i \in DOMAIN pattern : \A k \in DOMAIN pattern[i] : pattern[i][k] # "/"

(* Where the segments of the delegate lie, those of the parent do.          *)
LEMMA AlignedSound ==
  ASSUME NEW p \in Patterns, NEW d \in Patterns, Plain(p, d), Split(d),
         Aligned(p, d, 1, 1), NEW s \in Words, Unbroken(p, s), Laid(d, s, Len(d), Len(s) + 1)
  PROVE  Laid(p, s, Len(p), Len(s) + 1)
<1> DEFINE n == Len(p)
           m == Len(d)
           q == Len(s)
<1>1. /\ n \in Nat \ {0} /\ m \in Nat \ {0} /\ q \in Nat
      /\ DOMAIN p = 1..n /\ DOMAIN d = 1..m
      /\ \A k \in 1..n : p[k] \in Words
      /\ \A k \in 1..m : d[k] \in Words
  <2>1. q \in Nat
    BY DEF Words
  <2> QED
    BY <2>1, PatternIs
<1>2. PICK al : Aligns(p, d, 1, 1, al)
  BY DEF Aligned
<1>3. /\ al \in [1..n + 1 -> 1..m + 1] /\ al[1] = 1 /\ al[n + 1] = m + 1
      /\ \A k \in 1..n : Stands(p, d, k, al[k], al[k + 1])
  BY <1>2 DEF Aligns
<1>4. \A k \in 1..n : al[k] < al[k + 1]
  BY <1>2, AlignedApart
<1>5. \A k \in 1..n + 1 : al[k] \in Nat
  BY <1>3
<1>6. PICK old : Lays(d, s, m, q + 1, old)
  BY DEF Laid
<1>7. /\ old \in [1..m + 1 -> Nat] /\ old[1] = 1 /\ old[m + 1] = q + 2
      /\ \A k \in 1..m : Span(d[k], s, old[k], old[k + 1] - 1)
      /\ \A k \in 2..m : s[old[k] - 1] = "/"
  <2>1. q + 1 + 1 = q + 2
    BY <1>1
  <2> QED
    BY <1>6, <2>1 DEF Lays
<1>8. ASSUME NEW k \in 1..m
      PROVE  old[k] \in 1..q + 1 /\ old[k + 1] - 1 \in old[k]..q + 1 /\ old[k] < old[k + 1]
  <2>1. Span(d[k], s, old[k], old[k + 1] - 1) /\ d[k] \in Words
    BY <1>1, <1>7
  <2>2. old[k] \in 1..q + 1 /\ old[k + 1] - 1 \in old[k]..q + 1
    BY <2>1, SpanRange
  <2>3. old[k] \in Nat /\ old[k + 1] \in Nat
    <3>1. k \in 1..m + 1 /\ k + 1 \in 1..m + 1
      BY <1>1
    <3> QED
      BY <1>7, <3>1
  <2> QED
    BY <1>1, <2>2, <2>3
<1>9. \A k \in 1..m : old[k] < old[k + 1]
  BY <1>8
<1>10. \A k \in 1..m + 1 : old[k] \in Nat
  BY <1>7
<1> DEFINE at == [k \in 1..n + 1 |-> old[al[k]]]
<1>11. at \in [1..n + 1 -> Nat] /\ \A k \in 1..n + 1 : at[k] = old[al[k]]
  BY <1>3, <1>7
<1> HIDE DEF at
<1>12. at[1] = 1 /\ at[n + 1] = q + 1 + 1
  BY <1>1, <1>3, <1>7, <1>11
<1>13. ASSUME NEW k \in 1..n
       PROVE  Span(p[k], s, at[k], at[k + 1] - 1)
  <2>1. k \in 1..n + 1 /\ k + 1 \in 1..n + 1
    BY <1>1
  <2>2. /\ at[k] = old[al[k]] /\ at[k + 1] = old[al[k + 1]]
        /\ al[k] \in 1..m + 1 /\ al[k + 1] \in 1..m + 1 /\ al[k] < al[k + 1]
        /\ Stands(p, d, k, al[k], al[k + 1])
    BY <1>3, <1>4, <1>11, <2>1
  <2>3. al[k] \in 1..m
    BY <1>1, <2>2
  <2>4. CASE p[k] = AnyDepth
    <3>1. old[al[k]] < old[al[k + 1]]
      BY <1>1, <1>9, <1>10, <2>2, Rising
    <3>2. at[k] \in 1..q + 1
      BY <1>8, <2>2, <2>3
    <3>3. at[k + 1] - 1 \in at[k]..q + 1
      <4> DEFINE h == al[k + 1] - 1
      <4>1. h \in 1..m /\ h + 1 = al[k + 1]
        BY <1>1, <2>2
      <4> HIDE DEF h
      <4>2. old[h + 1] - 1 \in old[h]..q + 1 /\ old[h] \in 1..q + 1
        BY <1>8, <4>1
      <4>3. at[k + 1] - 1 <= q + 1 /\ at[k + 1] \in Nat
        BY <1>1, <1>11, <2>1, <2>2, <4>1, <4>2
      <4> QED
        BY <1>1, <2>2, <3>1, <3>2, <4>3
    <3>4. Token("**", s, at[k], at[k + 1] - 1)
      <4>1. \A x \in at[k]..at[k + 1] - 1 - 1 : x \in DOMAIN s
        BY <1>1, <3>2, <3>3 DEF Words
      <4>2. 1 \in DOMAIN p[k] /\ p[k][1] = "**"
        BY <2>4 DEF AnyDepth
      <4>3. \A x \in DOMAIN s : s[x] # LineBreak
        BY <1>1, <4>2 DEF Unbroken
      <4> QED
        BY <3>2, <3>3, <4>1, <4>3 DEF Token, Stars, Takes
    <3>5. Span(<<"**">>, s, at[k], at[k + 1] - 1)
      BY <3>2, <3>3, <3>4, SpanOne
    <3> QED
      BY <2>4, <3>5 DEF AnyDepth
  <2>5. CASE p[k] # AnyDepth
    <3>1. d[al[k]] # AnyDepth /\ IntraSegmentSubset(p[k], d[al[k]]) /\ al[k + 1] = al[k] + 1
      BY <2>2, <2>5 DEF Stands
    <3>2. Distinct(p[k], d[al[k]]) /\ \A x \in DOMAIN d[al[k]] : d[al[k]][x] # "/"
      BY <1>1, <2>3, <2>5, <3>1 DEF Plain, Split
    <3>3. Span(d[al[k]], s, old[al[k]], old[al[k] + 1] - 1)
      BY <1>7, <2>3
    <3>4. Span(d[al[k]], s, at[k], at[k + 1] - 1)
      BY <2>2, <3>1, <3>3
    <3>5. p[k] \in Words /\ d[al[k]] \in Words
      BY <1>1, <2>3
    <3> QED
      BY <1>1, <3>1, <3>2, <3>4, <3>5, SegmentSound DEF Unbroken
  <2> QED
    BY <2>4, <2>5
<1>14. ASSUME NEW k \in 2..n
       PROVE  s[at[k] - 1] = "/"
  <2>1. k \in 1..n + 1 /\ 1 \in 1..n + 1 /\ n + 1 \in 1..n + 1 /\ 1 < k /\ k < n + 1
    BY <1>1
  <2>2. al[1] < al[k] /\ al[k] < al[n + 1]
    BY <1>1, <1>4, <1>5, <2>1, Rising
  <2>3. al[k] \in 2..m
    BY <1>1, <1>3, <2>1, <2>2
  <2> QED
    BY <1>7, <1>11, <2>1, <2>3
<1>15. Lays(p, s, n, q + 1, at)
  BY <1>11, <1>12, <1>13, <1>14 DEF Lays
<1> QED
  BY <1>15 DEF Laid

LEMMA TextIsWord == Texts \subseteq Words
<1> SUFFICES ASSUME NEW s \in Texts
             PROVE  s \in Words
  OBVIOUS
<1>1. Len(s) \in Nat /\ s = [k \in 1..Len(s) |-> s[k]] /\ \A k \in 1..Len(s) : s[k] \in Letters
  BY DEF Texts, Letters
<1> QED
  BY <1>1 DEF Words

LEMMA GlobIsPattern ==
  ASSUME NEW g \in Globs
  PROVE  g \in Patterns /\ Split(g)
<1>1. g \in Seq(Texts) /\ g # <<>> /\ Split(g)
  BY DEF Globs, Split
<1>2. Len(g) \in Nat /\ g = [k \in 1..Len(g) |-> g[k]] /\ \A k \in 1..Len(g) : g[k] \in Texts
  BY <1>1
<1>3. g \in Seq(Words)
  <2>1. \A k \in 1..Len(g) : g[k] \in Words
    BY <1>2, TextIsWord
  <2> HIDE DEF Words, Texts
  <2> QED
    BY <1>2, <2>1
<1> QED
  BY <1>1, <1>3 DEF Patterns

(* isRestrictedGlobRefinement never accepts a pattern that matches more,    *)
(* for patterns that Plain lets pass, of any length and over any string     *)
(* that has no line break in it where the parent has a "**": "sound (never  *)
(* false-accepts)", delegationVerifier.js:325.                              *)
THEOREM GlobSound ==
  ASSUME NEW p \in Globs, NEW d \in Globs, GlobRefines(p, d), NEW v \in Texts,
         p = d \/ (Plain(p, d) /\ Unbroken(p, v)),
         MatchesGlob(d, v)
  PROVE  MatchesGlob(p, v)
<1>1. p \in Patterns /\ d \in Patterns /\ Split(d) /\ v \in Words
  BY GlobIsPattern, TextIsWord
<1>2. CASE p = d
  BY <1>2
<1>3. CASE p # d
  <2>1. Aligned(p, d, 1, 1)
    BY <1>1, <1>3, SubsetAligned DEF GlobRefines
  <2>2. Laid(d, v, Len(d), Len(v) + 1)
    BY <1>1, MatchesLaid
  <2>3. Laid(p, v, Len(p), Len(v) + 1)
    BY <1>1, <1>3, <2>1, <2>2, AlignedSound
  <2> QED
    BY <1>1, <2>3, MatchesLaid
<1> QED
  BY <1>2, <1>3

--------------------------------------------------------------------------------
(* What the attenuation of one constraint means for a value.                *)

(* Prefixes compose. *)
LEMMA PrefixTransitive ==
  ASSUME NEW S, NEW a \in Seq(S), NEW b \in Seq(S), NEW c \in Seq(S),
         IsPrefix(a, b), IsPrefix(b, c)
  PROVE  IsPrefix(a, c)
<1>1. /\ Len(a) \in Nat /\ Len(b) \in Nat /\ Len(c) \in Nat
      /\ Len(a) <= Len(b) /\ Len(b) <= Len(c)
      /\ SubSeq(a, 1, Len(a)) = SubSeq(b, 1, Len(a))
      /\ SubSeq(b, 1, Len(b)) = SubSeq(c, 1, Len(b))
  BY DEF IsPrefix
<1>2. \A i \in 1..Len(a) : SubSeq(b, 1, Len(a))[i] = SubSeq(c, 1, Len(a))[i]
  <2> TAKE i \in 1..Len(a)
  <2>1. SubSeq(b, 1, Len(a))[i] = b[i] /\ SubSeq(c, 1, Len(a))[i] = c[i]
    BY <1>1
  <2>2. SubSeq(b, 1, Len(b))[i] = b[i] /\ SubSeq(c, 1, Len(b))[i] = c[i]
    BY <1>1
  <2> QED
    BY <1>1, <2>1, <2>2
<1>3. SubSeq(b, 1, Len(a)) = SubSeq(c, 1, Len(a))
  BY <1>1, <1>2
<1> QED
  BY <1>1, <1>3 DEF IsPrefix

LEMMA NumericSound ==
  ASSUME NEW p, NEW d, NEW v, p.operator \in Operators, p.value \in Int, d.value \in Int,
         NumericAttenuation(p, d), NumericLimit(d, v)
  PROVE  NumericLimit(p, v)
  BY DEF NumericAttenuation, NumericLimit, Compares, Operators

LEMMA EnumeratedSound ==
  ASSUME NEW p, NEW d, NEW v, d.allowed # Absent, d.denied # Absent,
         EnumeratedAttenuation(p, d), EnumeratedList(d, v)
  PROVE  EnumeratedList(p, v)
  BY DEF EnumeratedAttenuation, EnumeratedList

LEMMA TemporalSound ==
  ASSUME NEW p, NEW d, NEW t,
         WellFormed(p), WellFormed(d), p.type = "TemporalWindowConstraint", d.type = p.type,
         d.validFrom # Absent, d.validUntil # Absent, d.daysOfWeek \notin {Absent, {}},
         d.timezone = p.timezone,
         TemporalAttenuation(p, d), TemporalWindow(d, t)
  PROVE  TemporalWindow(p, t)
<1> DEFINE now == LocalTime[d.timezone][t]
<1>1. /\ p.validFrom \in Nat \cup {Absent} /\ p.validUntil \in Nat \cup {Absent}
      /\ d.validFrom \in Nat /\ d.validUntil \in Nat /\ d.timezone \in DOMAIN LocalTime
  BY DEF WellFormed, Stateful
<1>2. t \in DOMAIN LocalTime[d.timezone] /\ now.minute \in Nat
  BY <1>1, LocalTimeType DEF TemporalWindow
<1>3. now.day \in d.daysOfWeek /\ now.minute >= d.validFrom /\ now.minute <= d.validUntil
  BY DEF TemporalWindow
<1> HIDE DEF now
<1>4. p.validFrom = Absent \/ now.minute >= p.validFrom
  BY <1>1, <1>2, <1>3 DEF TemporalAttenuation
<1>5. p.validUntil = Absent \/ now.minute <= p.validUntil
  BY <1>1, <1>2, <1>3 DEF TemporalAttenuation
<1>6. p.daysOfWeek = Absent \/ now.day \in p.daysOfWeek
  BY <1>3 DEF TemporalAttenuation
<1> QED
  BY <1>2, <1>4, <1>5, <1>6 DEF TemporalWindow, now

LEMMA StringPatternSound ==
  ASSUME NEW p, NEW d, NEW v,
         WellFormed(p), WellFormed(d), p.type = "StringPatternConstraint", d.type = p.type,
         p.matchType # "restricted_glob",
         StringPatternAttenuation(p, d), StringPattern(d, v)
  PROVE  StringPattern(p, v)
<1>1. /\ p.pattern \in Texts /\ d.pattern \in Texts /\ v \in Texts /\ v # Absent
      /\ d.matchType = p.matchType /\ p.matchType \in {"exact", "prefix", "suffix"}
  BY DEF WellFormed, Stateful, StringPatternAttenuation, StringPattern, MatchTypes
<1>2. CASE p.matchType = "exact"
  BY <1>1, <1>2 DEF StringPatternAttenuation, StringPattern
<1>3. CASE p.matchType = "prefix"
  <2>1. IsPrefix(p.pattern, d.pattern) /\ IsPrefix(d.pattern, v)
    BY <1>1, <1>3 DEF StringPatternAttenuation, StringPattern
  <2>2. IsPrefix(p.pattern, v)
    BY <1>1, <2>1, PrefixTransitive DEF Texts
  <2> QED
    BY <1>1, <1>3, <2>2 DEF StringPattern
<1>4. CASE p.matchType = "suffix"
  <2>1. IsSuffix(p.pattern, d.pattern) /\ IsSuffix(d.pattern, v)
    BY <1>1, <1>4 DEF StringPatternAttenuation, StringPattern
  <2>2. \A s \in Texts : Reverse(s) \in Texts
    BY DEF Reverse, Texts
  <2>3. IsSuffix(p.pattern, v)
    BY <1>1, <2>1, <2>2, PrefixTransitive DEF Texts, IsSuffix
  <2> QED
    BY <1>1, <1>4, <2>3 DEF StringPattern
<1> QED
  BY <1>1, <1>2, <1>3, <1>4

--------------------------------------------------------------------------------
(* A chain never widens.                                                    *)

ConstraintsOf(cred) == {cred.constraints[i] : i \in DOMAIN cred.constraints}

(* Every part that verification would skip when it is missing is there.     *)
SpelledOut(c) ==
  /\ c.type = "TemporalWindowConstraint" =>
       c.validFrom # Absent /\ c.validUntil # Absent /\ c.daysOfWeek \notin {Absent, {}}
  /\ c.type = "EnumeratedListConstraint" => c.allowed # Absent /\ c.denied # Absent

(* Constraints with one target constrain one field, in one time zone, and a *)
(* glob is accepted as a refinement of a plain one.                         *)
Comparable(p, d) ==
  /\ d.field = p.field
  /\ p.type = "TemporalWindowConstraint" => d.timezone = p.timezone
  /\ p.type = "StringPatternConstraint" /\ p.matchType = "restricted_glob"
       /\ d.matchType = p.matchType /\ GlobRefines(p.pattern, d.pattern) =>
         p.pattern = d.pattern \/ Plain(p.pattern, d.pattern)

Careful ==
  \A c1, c2 \in UNION {ConstraintsOf(cred) : cred \in Credentials} :
    /\ c1.type \notin Stateful => SpelledOut(c1)
    /\ c1.type \notin Stateful /\ ConstraintsSameTarget(c1, c2) => Comparable(c1, c2)

(* No text that is presented runs over more than one line.                  *)
OneLine ==
  \A r \in Requests : \A f \in Fields : r.context[f] \in Texts =>
    \A k \in DOMAIN r.context[f] : r.context[f][k] # LineBreak

LEMMA ConstraintSound ==
  ASSUME NEW p, NEW d, NEW context, WellFormed(p), WellFormed(d), SpelledOut(d),
         context[p.field] \in Texts => \A k \in DOMAIN context[p.field] : context[p.field][k] # LineBreak,
         ConstraintsSameTarget(p, d), p.type \notin Stateful => Comparable(p, d),
         IsMoreRestrictive(p, d), Satisfies(d, context)
  PROVE  Satisfies(p, context)
<1>1. d.type = p.type
  BY DEF ConstraintsSameTarget
<1>2. CASE p.type \in Stateful
  BY <1>2 DEF Satisfies
<1>3. CASE p.type = "NumericLimitConstraint"
  <2>1. NumericAttenuation(p, d) /\ NumericLimit(d, context[d.field]) /\ d.field = p.field
    BY <1>1, <1>3 DEF IsMoreRestrictive, Satisfies, Stateful, Comparable
  <2>2. p.operator \in Operators /\ p.value \in Int /\ d.value \in Int
    BY <1>1, <1>3 DEF WellFormed, Stateful
  <2>3. NumericLimit(p, context[p.field])
    BY <2>1, <2>2, NumericSound
  <2> QED
    BY <1>3, <2>3 DEF Satisfies
<1>4. CASE p.type = "TemporalWindowConstraint"
  <2>1. /\ TemporalAttenuation(p, d) /\ TemporalWindow(d, context[d.field])
        /\ d.field = p.field /\ d.timezone = p.timezone
    BY <1>1, <1>4 DEF IsMoreRestrictive, Satisfies, Stateful, Comparable
  <2>2. d.validFrom # Absent /\ d.validUntil # Absent /\ d.daysOfWeek \notin {Absent, {}}
    BY <1>1, <1>4 DEF SpelledOut
  <2>3. TemporalWindow(p, context[p.field])
    BY <1>1, <1>4, <2>1, <2>2, TemporalSound
  <2> QED
    BY <1>4, <2>3 DEF Satisfies
<1>5. CASE p.type = "EnumeratedListConstraint"
  <2>1. EnumeratedAttenuation(p, d) /\ EnumeratedList(d, context[d.field]) /\ d.field = p.field
    BY <1>1, <1>5 DEF IsMoreRestrictive, Satisfies, Stateful, Comparable
  <2>2. EnumeratedList(p, context[p.field])
    BY <1>1, <1>5, <2>1, EnumeratedSound DEF SpelledOut
  <2> QED
    BY <1>5, <2>2 DEF Satisfies
<1>6. CASE p.type = "StringPatternConstraint"
  <2>1. StringPatternAttenuation(p, d) /\ StringPattern(d, context[d.field]) /\ d.field = p.field
    BY <1>1, <1>6 DEF IsMoreRestrictive, Satisfies, Stateful, Comparable
  <2>2. StringPattern(p, context[p.field])
    <3>1. CASE p.matchType # "restricted_glob"
      BY <1>1, <1>6, <2>1, <3>1, StringPatternSound
    <3>2. CASE p.matchType = "restricted_glob"
      <4>1. d.matchType = p.matchType /\ GlobRefines(p.pattern, d.pattern)
        BY <2>1, <3>2 DEF StringPatternAttenuation
      <4>2. /\ context[p.field] \in Texts /\ context[p.field] # Absent
            /\ MatchesGlob(d.pattern, context[p.field])
        BY <2>1, <3>2, <4>1 DEF StringPattern
      <4>3. p.pattern = d.pattern \/ Plain(p.pattern, d.pattern)
        BY <1>6, <3>2, <4>1 DEF Comparable, Stateful
      <4>4. p.pattern \in Globs /\ d.pattern \in Globs
        BY <1>1, <1>6, <3>2, <4>1 DEF WellFormed, Stateful
      <4>5. MatchesGlob(p.pattern, context[p.field])
        BY <4>1, <4>2, <4>3, <4>4, GlobSound DEF Unbroken
      <4> QED
        BY <3>2, <4>2, <4>5 DEF StringPattern
    <3> QED
      BY <3>1, <3>2
  <2> QED
    BY <1>6, <2>2 DEF Satisfies
<1> QED
  BY <1>2, <1>3, <1>4, <1>5, <1>6 DEF WellFormed

LEMMA AttenuationSound ==
  ASSUME Careful, OneLine, NEW parent \in Credentials, NEW delegate \in Credentials,
         VerifyAttenuation(parent, delegate), NEW r \in Requests, Permits(delegate, r)
  PROVE  Permits(parent, r)
<1>1. r.action \in parent.permissions
  BY DEF VerifyAttenuation, Permits
<1>2. ASSUME NEW i \in DOMAIN parent.constraints
      PROVE  Satisfies(parent.constraints[i], r.context)
  <2>1. PICK j \in DOMAIN delegate.constraints :
          /\ FirstMatch(parent.constraints[i], delegate, j)
          /\ IsMoreRestrictive(parent.constraints[i], delegate.constraints[j])
    BY <1>2 DEF VerifyAttenuation
  <2> DEFINE p == parent.constraints[i]
             d == delegate.constraints[j]
  <2>2. WellFormed(p) /\ WellFormed(d)
    BY <1>2, <2>1, CredentialsType
  <2>3. ConstraintsSameTarget(p, d)
    BY <2>1 DEF FirstMatch
  <2>4. p \in UNION {ConstraintsOf(cred) : cred \in Credentials}
    BY <1>2 DEF ConstraintsOf
  <2>5. d \in UNION {ConstraintsOf(cred) : cred \in Credentials}
    BY <2>1 DEF ConstraintsOf
  <2>6. Satisfies(d, r.context)
    BY <2>1 DEF Permits, EvaluateConstraints
  <2>7. IsMoreRestrictive(p, d)
    BY <2>1
  <2>8. p.field \in Fields
    BY <1>2, CredentialsType
  <2> HIDE DEF p, d
  <2>9. SpelledOut(d)
    BY <2>5 DEF Careful, SpelledOut, Stateful
  <2>10. p.type \notin Stateful => Comparable(p, d)
    BY <2>3, <2>4, <2>5 DEF Careful
  <2>11. r.context[p.field] \in Texts =>
           \A k \in DOMAIN r.context[p.field] : r.context[p.field][k] # LineBreak
    BY <2>8 DEF OneLine
  <2>12. Satisfies(p, r.context)
    BY <2>2, <2>3, <2>6, <2>7, <2>9, <2>10, <2>11, ConstraintSound
  <2> QED
    BY <2>12 DEF p
<1> QED
  BY <1>1, <1>2 DEF Permits, EvaluateConstraints

(* What the last credential allows, all allow; an allow is the leaf's.      *)
Narrowing ==
  /\ \A i \in DOMAIN chain : \A r \in Requests :
       Permits(chain[Len(chain)], r) => Permits(chain[i], r)
  /\ pc # "done" => reply = "none"
  /\ reply = "allow" => request \in Requests /\ Permits(chain[Len(chain)], request)

LEMMA NarrowingInit == Init => Narrowing
  BY DEF Init, Narrowing

LEMMA Appended ==
  ASSUME TypeOK, NEW cred \in Credentials, chain' = Append(chain, cred)
  PROVE  /\ Len(chain) \in Nat /\ Len(chain') = Len(chain) + 1
         /\ DOMAIN chain' = 1..Len(chain) + 1 /\ DOMAIN chain = 1..Len(chain)
         /\ chain'[Len(chain')] = cred
         /\ \A i \in DOMAIN chain : chain'[i] = chain[i] /\ chain[i] \in Credentials
  BY DEF TypeOK

LEMMA NarrowingStep ==
  ASSUME Careful, OneLine, RequireAttenuation, TypeOK, Sized, Narrowing, [Next]_vars
  PROVE  Narrowing'
<1>1. CASE Receive
  <2>1. chain' = chain /\ request' = request /\ reply' # "allow"
        /\ (pc' # "done" => reply' = "none")
    BY <1>1 DEF Receive, Answer, Narrowing
  <2> QED
    BY <2>1 DEF Narrowing
<1>2. CASE Refuse
  BY <1>2 DEF Refuse, Answer, Narrowing
<1>3. ASSUME NEW cred \in Credentials, VerifyRoot(cred)
      PROVE  Narrowing'
  <2>1. chain' = Append(chain, cred) /\ reply' = "none" /\ Len(chain) = 0
    BY <1>3 DEF VerifyRoot, Accept, Narrowing
  <2>2. \A i \in DOMAIN chain' : i = Len(chain')
    BY <2>1, Appended
  <2> QED
    BY <2>1, <2>2 DEF Narrowing
<1>4. ASSUME NEW cred \in Credentials, VerifyDelegate(cred)
      PROVE  Narrowing'
  <2>1. CASE Accept(cred) /\ VerifyAttenuation(chain[Len(chain)], cred)
    <3>1. chain' = Append(chain, cred) /\ reply' = "none"
      BY <1>4, <2>1 DEF VerifyDelegate, Accept, Narrowing
    <3>2. Len(chain) \in DOMAIN chain
      BY <1>4, <3>1, Appended DEF VerifyDelegate, TypeOK
    <3>3. ASSUME NEW i \in DOMAIN chain', NEW r \in Requests, Permits(cred, r)
          PROVE  Permits(chain'[i], r)
      <4>1. CASE i = Len(chain')
        BY <3>1, <3>3, <4>1, Appended
      <4>2. CASE i \in DOMAIN chain
        <5>1. Permits(chain[Len(chain)], r)
          BY <2>1, <3>1, <3>2, <3>3, Appended, AttenuationSound
        <5>2. Permits(chain[i], r)
          BY <4>2, <5>1 DEF Narrowing
        <5> QED
          BY <3>1, <4>2, <5>2, Appended
      <4> QED
        BY <3>1, <3>3, <4>1, <4>2, Appended
    <3> QED
      BY <3>1, <3>3, Appended DEF Narrowing
  <2>2. CASE UNCHANGED chain /\ (Answer("delegation_chain_broken") \/ Answer("delegation_widened"))
    BY <2>2 DEF Answer, Narrowing
  <2> QED
    BY <1>4, <2>1, <2>2 DEF VerifyDelegate
<1>5. ASSUME NEW r \in Requests, Evaluate(r)
      PROVE  Narrowing'
  <2>1. chain' = chain /\ request' = r /\ pc' = "done"
    BY <1>5 DEF Evaluate, Answer
  <2>2. reply' = "allow" => Permits(chain[Len(chain)], r)
    BY <1>5 DEF Evaluate, Answer, Permits
  <2> QED
    BY <1>5, <2>1, <2>2 DEF Narrowing
<1>6. CASE UNCHANGED vars
  BY <1>6 DEF vars, Narrowing
<1> QED
  BY <1>1, <1>2, <1>3, <1>4, <1>5, <1>6 DEF Next, Answered

(* When credentials spell their restrictions out, and no text of a request  *)
(* has a line break, what the engine allows to the leaf of a chain of any   *)
(* length every credential of the chain allows.                             *)
THEOREM NeverWidens == Careful /\ OneLine => (Spec => []NeverWidened)
<1>1. CASE ~RequireAttenuation
  <2>1. NeverWidened
    BY <1>1 DEF NeverWidened
  <2> QED
    BY <2>1, PTL
<1>2. CASE RequireAttenuation /\ Careful /\ OneLine
  <2>1. TypeOK /\ Sized /\ Narrowing /\ [Next]_vars => Narrowing'
    BY <1>2, NarrowingStep
  <2>2. Narrowing => NeverWidened
    BY DEF Narrowing, NeverWidened
  <2> QED
    BY <2>1, <2>2, NarrowingInit, TypeAlways, PTL DEF Spec
<1> QED
  BY <1>1, <1>2

--------------------------------------------------------------------------------
(* Counter limits.                                                          *)

(* The reservation enforces the limits that attenuation compares, if none   *)
(* is null before another is given, and constraints that are compared       *)
(* divide their counters in the same way.                                   *)
CarefulLimits ==
  \A c1, c2 \in UNION {ConstraintsOf(cred) : cred \in Credentials} :
    c1.type \in Stateful =>
      /\ \A k \in 1..2 : c1.limits[k] # Null
      /\ ConstraintsSameTarget(c1, c2) => c2.scopeFields = c1.scopeFields

LEMMA LimitsAgree ==
  ASSUME NEW c, \A k \in 1..2 : c.limits[k] # Null
  PROVE  EnforcedLimit(c) = ComparedLimit(c)
<1>1. {k \in 1..3 : c.limits[k] \notin {Absent, Null} \/ k = 3} =
        {k \in 1..3 : c.limits[k] \notin {Absent} \/ k = 3}
  OBVIOUS
<1> QED
  BY <1>1, Zenon DEF EnforcedLimit, ComparedLimit, LimitPast

KeptBy(p, cred) ==
  \E b \in DOMAIN cred.constraints : LET d == cred.constraints[b] IN
    Kept(p, d) /\ d.type \in Stateful /\ EnforcedLimit(p) \in Int /\ EnforcedLimit(d) \in Int

(* One link keeps a limit of the parent.                                    *)
LEMMA LinkKeeps ==
  ASSUME CarefulLimits, NEW parent \in Credentials, NEW delegate \in Credentials,
         NEW i \in DOMAIN parent.constraints, NEW j \in DOMAIN delegate.constraints,
         parent.constraints[i].type \in Stateful,
         ConstraintsSameTarget(parent.constraints[i], delegate.constraints[j]),
         IsMoreRestrictive(parent.constraints[i], delegate.constraints[j])
  PROVE  /\ Kept(parent.constraints[i], delegate.constraints[j])
         /\ delegate.constraints[j].type \in Stateful
         /\ EnforcedLimit(parent.constraints[i]) \in Int
         /\ EnforcedLimit(delegate.constraints[j]) \in Int
<1> DEFINE q == parent.constraints[i]
           d == delegate.constraints[j]
           all == UNION {ConstraintsOf(cred) : cred \in Credentials}
<1>1. q \in all /\ d \in all
  BY DEF ConstraintsOf
<1>2. q.type \in Stateful /\ ConstraintsSameTarget(q, d) /\ IsMoreRestrictive(q, d)
  OBVIOUS
<1> HIDE DEF q, d, all
<1>3. d.type = q.type /\ d.id = q.id
  BY <1>2 DEF ConstraintsSameTarget
<1>4. d.scopeFields = q.scopeFields
  BY <1>1, <1>2 DEF CarefulLimits, all
<1>5. EnforcedLimit(q) = ComparedLimit(q) /\ EnforcedLimit(d) = ComparedLimit(d)
  <2>1. (\A k \in 1..2 : q.limits[k] # Null) /\ (\A k \in 1..2 : d.limits[k] # Null)
    BY <1>1, <1>2, <1>3 DEF CarefulLimits, all
  <2> QED
    BY <2>1, LimitsAgree
<1>6. StatefulAttenuation(q, d)
  BY <1>2 DEF IsMoreRestrictive, Stateful
<1> QED
  BY <1>2, <1>3, <1>4, <1>5, <1>6 DEF StatefulAttenuation, SameStatefulWindow, Kept, q, d

LEMMA KeptTransitive ==
  ASSUME CarefulLimits, NEW parent \in Credentials, NEW delegate \in Credentials,
         VerifyAttenuation(parent, delegate), NEW p, KeptBy(p, parent)
  PROVE  KeptBy(p, delegate)
<1>1. PICK i \in DOMAIN parent.constraints :
        /\ Kept(p, parent.constraints[i]) /\ parent.constraints[i].type \in Stateful
        /\ EnforcedLimit(p) \in Int /\ EnforcedLimit(parent.constraints[i]) \in Int
  BY DEF KeptBy
<1>2. PICK j \in DOMAIN delegate.constraints :
        /\ ConstraintsSameTarget(parent.constraints[i], delegate.constraints[j])
        /\ IsMoreRestrictive(parent.constraints[i], delegate.constraints[j])
  BY DEF VerifyAttenuation, FirstMatch
<1> DEFINE q == parent.constraints[i]
           d == delegate.constraints[j]
<1>3. /\ Kept(p, q) /\ EnforcedLimit(p) \in Int /\ EnforcedLimit(q) \in Int
      /\ Kept(q, d) /\ d.type \in Stateful /\ EnforcedLimit(d) \in Int
  BY <1>1, <1>2, LinkKeeps
<1> HIDE DEF q, d
<1>4. Kept(p, d)
  BY <1>3 DEF Kept
<1> QED
  BY <1>2, <1>3, <1>4 DEF KeptBy, d

LEMMA KeptByDelegate ==
  ASSUME CarefulLimits, NEW parent \in Credentials, NEW delegate \in Credentials,
         VerifyAttenuation(parent, delegate),
         NEW a \in DOMAIN parent.constraints, parent.constraints[a].type \in Stateful
  PROVE  KeptBy(parent.constraints[a], delegate)
<1>1. PICK j \in DOMAIN delegate.constraints :
        /\ ConstraintsSameTarget(parent.constraints[a], delegate.constraints[j])
        /\ IsMoreRestrictive(parent.constraints[a], delegate.constraints[j])
  BY DEF VerifyAttenuation, FirstMatch
<1> QED
  BY <1>1, LinkKeeps DEF KeptBy

(* The last credential keeps the limits of all before it.                   *)
Lowering ==
  \A i \in 1..Len(chain) - 1 : \A a \in DOMAIN chain[i].constraints :
    chain[i].constraints[a].type \in Stateful => KeptBy(chain[i].constraints[a], chain[Len(chain)])

LEMMA LoweringStep ==
  ASSUME CarefulLimits, RequireAttenuation, TypeOK, Lowering, [Next]_vars
  PROVE  Lowering'
<1>1. ASSUME NEW cred \in Credentials, VerifyRoot(cred)
      PROVE  Lowering'
  <2>1. chain' = Append(chain, cred) /\ Len(chain) = 0
    BY <1>1 DEF VerifyRoot, Accept
  <2> QED
    BY <2>1, Appended DEF Lowering
<1>2. ASSUME NEW cred \in Credentials, Accept(cred), chain # <<>>,
             VerifyAttenuation(chain[Len(chain)], cred)
      PROVE  Lowering'
  <2>1. chain' = Append(chain, cred) /\ Len(chain) \in DOMAIN chain
    BY <1>2 DEF Accept, TypeOK
  <2>2. ASSUME NEW i \in 1..Len(chain') - 1, NEW a \in DOMAIN chain'[i].constraints,
               chain'[i].constraints[a].type \in Stateful
        PROVE  KeptBy(chain'[i].constraints[a], cred)
    <3>1. i \in 1..Len(chain) /\ chain'[i] = chain[i] /\ chain[i] \in Credentials
      BY <2>1, Appended
    <3>2. CASE i = Len(chain)
      BY <1>2, <2>2, <3>1, <3>2, KeptByDelegate
    <3>3. CASE i # Len(chain)
      <4>1. i \in 1..Len(chain) - 1
        BY <3>1, <3>3, <2>1, Appended
      <4>2. KeptBy(chain[i].constraints[a], chain[Len(chain)])
        BY <2>2, <3>1, <4>1 DEF Lowering
      <4>3. chain[Len(chain)] \in Credentials
        BY <2>1, Appended
      <4>4. KeptBy(chain[i].constraints[a], cred)
        BY <1>2, <4>2, <4>3, KeptTransitive
      <4> QED
        BY <3>1, <4>4
    <3> QED
      BY <3>2, <3>3
  <2> QED
    BY <2>1, <2>2, Appended DEF Lowering
<1>3. CASE UNCHANGED chain
  BY <1>3 DEF Lowering
<1>4. ASSUME NEW cred \in Credentials, VerifyDelegate(cred)
      PROVE  Lowering'
  BY <1>2, <1>3, <1>4 DEF VerifyDelegate
<1> QED
  BY <1>1, <1>3, <1>4 DEF Next, Receive, Refuse, Evaluate, Answered, vars

(* When limits are written so that comparison and reservation read the same *)
(* one, and counters are not divided on the way down, the leaf of a chain   *)
(* of any length carries every counter limit of the credentials above it,   *)
(* over the same window and not raised.                                     *)
THEOREM LimitsLowered == CarefulLimits => (Spec => []LimitsOnlyLowered)
<1>1. CASE ~RequireAttenuation
  <2>1. LimitsOnlyLowered
    BY <1>1 DEF LimitsOnlyLowered
  <2> QED
    BY <2>1, PTL
<1>2. CASE RequireAttenuation /\ CarefulLimits
  <2>1. TypeOK /\ Lowering /\ [Next]_vars => Lowering'
    BY <1>2, LoweringStep
  <2>2. Lowering => LimitsOnlyLowered
    BY DEF Lowering, LimitsOnlyLowered, KeptBy
  <2>3. Init => Lowering
    BY DEF Init, Lowering
  <2> QED
    BY <2>1, <2>2, <2>3, TypeAlways, PTL DEF Spec
<1> QED
  BY <1>1, <1>2
================================================================================
