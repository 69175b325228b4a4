---------------------------- MODULE Lists_proofs ----------------------------
(***************************************************************************)
(* What the operators of Lists compute, for lists of every length: they are *)
(* recursive functions, and the induction over their length is done here,   *)
(* over the naturals (Induct) and over lists (SeqInduct), so that the other *)
(* proofs only cite the outcome.                                            *)
(***************************************************************************)
EXTENDS Lists, SequenceTheorems, FiniteSetTheorems, WellFoundedInduction, TLAPS

-----------------------------------------------------------------------------
(* Numbers.                                                                *)

\* A set of naturals that is not empty has a least element.
LEMMA Least ==
  ASSUME NEW S \in SUBSET Nat, S # {}
  PROVE  \E m \in S : \A n \in S : m <= n
  <1>1. IsWellFoundedOn(OpToRel(<, Nat), Nat) BY NatLessThanWellFounded
  <1>2. PICK x \in S : \A y \in S : ~ (<<y, x>> \in OpToRel(<, Nat))
    BY <1>1, WFMin
  <1>3. ASSUME NEW y \in S PROVE x <= y
    <2>1. <<y, x>> \notin OpToRel(<, Nat) BY <1>2
    <2>2. ~(y < x) BY <2>1, Zenon DEF OpToRel
    <2> QED BY <2>2
  <1> QED BY <1>3

\* Induction over the naturals, for a set.
LEMMA Induct ==
  ASSUME NEW S, 0 \in S, \A n \in Nat : n \in S => n + 1 \in S
  PROVE  Nat \subseteq S
  <1> SUFFICES ASSUME Nat \ S # {} PROVE FALSE OBVIOUS
  <1>1. PICK m \in Nat \ S : \A n \in Nat \ S : m <= n BY Least
  <1>2. m - 1 \in Nat BY <1>1
  <1> QED BY <1>1, <1>2

\* The smaller of two numbers.
LEMMA MinOf ==
  ASSUME NEW m \in Nat, NEW n \in Nat
  PROVE  Min({m, n}) \in {m, n} /\ Min({m, n}) <= m /\ Min({m, n}) <= n
  BY DEF Min

\* The largest of a bounded set of integers is in it and above all of it.
LEMMA MaxOf ==
  ASSUME NEW lo \in Int, NEW hi \in Int, NEW S \in SUBSET (lo..hi), S # {}
  PROVE  Max(S) \in S /\ \A y \in S : Max(S) >= y
  <1> DEFINE T == {hi - x : x \in S}
  <1>1. T \in SUBSET Nat /\ T # {} OBVIOUS
  <1> HIDE DEF T
  <1>2. PICK m \in T : \A n \in T : m <= n BY <1>1, Least
  <1> USE DEF T
  <1>3. PICK x \in S : m = hi - x OBVIOUS
  <1>4. \A y \in S : x >= y
    <2> TAKE y \in S
    <2>1. hi - x <= hi - y BY <1>2, <1>3
    <2> QED BY <2>1
  <1> QED BY <1>4 DEF Max

-----------------------------------------------------------------------------
(* Recursive functions and lists: what they compute is shown step by step. *)

\* f starts at b and takes the given step from each number to the next, up to n.
Follows(f, n, b, step) == f[0] = b /\ \A i \in 1..n : f[i] = step[<<i, f[i - 1]>>]

\* Every recursion over the numbers up to n has a function that follows it.
LEMMA RecursionExists ==
  ASSUME NEW n \in Nat, NEW V, NEW b \in V, NEW step \in [(1..n) \X V -> V]
  PROVE \E f \in [0..n -> V] : Follows(f, n, b, step)
  <1> USE DEF Follows
  <1> DEFINE Good(f, m) == f[0] = b /\ \A i \in 1..m : f[i] = step[<<i, f[i-1]>>]
             S == {m \in Nat : m <= n => \E f \in [0..m -> V] : Good(f, m)}
  <1>1. 0 \in S
    <2>1. [i \in 0..0 |-> b] \in [0..0 -> V] /\ Good([i \in 0..0 |-> b], 0) OBVIOUS
    <2> QED BY <2>1
  <1>2. ASSUME NEW m \in Nat, m \in S PROVE m + 1 \in S
    <2> SUFFICES ASSUME m + 1 <= n PROVE \E f \in [0..(m+1) -> V] : Good(f, m + 1) OBVIOUS
    <2>1. PICK f \in [0..m -> V] : Good(f, m) BY <1>2
    <2> DEFINE g == [i \in 0..(m+1) |-> IF i = m + 1 THEN step[<<m + 1, f[m]>>] ELSE f[i]]
    <2>2. step[<<m + 1, f[m]>>] \in V OBVIOUS
    <2>3. g \in [0..(m+1) -> V] BY <2>2
    <2>4. g[0] = b BY <2>1
    <2>5. ASSUME NEW i \in 1..(m+1) PROVE g[i] = step[<<i, g[i-1]>>]
      <3>1. CASE i = m + 1
         <4>1. g[i] = step[<<m + 1, f[m]>>] /\ g[m] = f[m] /\ i - 1 = m BY <3>1
         <4> QED BY <4>1, <3>1
      <3>2. CASE i # m + 1
         <4>1. i \in 1..m /\ g[i] = f[i] /\ g[i-1] = f[i-1] BY <3>2
         <4> QED BY <4>1, <2>1
      <3> QED BY <3>1, <3>2
    <2> HIDE DEF g
    <2> QED BY <2>3, <2>4, <2>5
  <1>3. n \in S 
    <2> HIDE DEF S
    <2> QED BY <1>1, <1>2, Induct
  <1> QED BY <1>3

\* Induction over lists, built from the empty one by appending.
LEMMA SeqInduct ==
  ASSUME NEW V, NEW S, <<>> \in S,
         \A s \in Seq(V), x \in V : s \in S => Append(s, x) \in S
  PROVE  Seq(V) \subseteq S
  <1> DEFINE N == {n \in Nat : \A s \in Seq(V) : Len(s) = n => s \in S}
  <1>1. 0 \in N
    <2>1. \A s \in Seq(V) : Len(s) = 0 => s = <<>> OBVIOUS
    <2> QED BY <2>1
  <1>2. ASSUME NEW n \in Nat, n \in N PROVE n + 1 \in N
    <2> SUFFICES ASSUME NEW s \in Seq(V), Len(s) = n + 1 PROVE s \in S OBVIOUS
    <2> DEFINE t == [i \in 1..n |-> s[i]]
    <2>1. t \in Seq(V) /\ Len(t) = n
      <3>1. \A i \in 1..n : s[i] \in V OBVIOUS
      <3> QED BY <3>1
    <2>2. s[n + 1] \in V OBVIOUS
    <2>3. s = Append(t, s[n + 1]) OBVIOUS
    <2> HIDE DEF t
    <2>4. t \in S BY <2>1, <1>2
    <2>5. Append(t, s[n + 1]) \in S BY <2>1, <2>2, <2>4
    <2> QED BY <2>3, <2>5
  <1>3. Nat \subseteq N
    <2> HIDE DEF N
    <2> QED BY <1>1, <1>2, Induct
  <1>4. ASSUME NEW s \in Seq(V) PROVE s \in S
    <2>1. Len(s) \in Nat OBVIOUS
    <2>2. Len(s) \in N BY <2>1, <1>3
    <2> QED BY <2>2
  <1> QED BY <1>4

-----------------------------------------------------------------------------
(* Picking by position.                                                    *)

\* What At computes, step by step: the list picked below each position.
LEMMA AtSteps ==
  ASSUME NEW V, NEW s \in Seq(V), NEW I
  PROVE  \E picked \in [0..Len(s) -> Seq(V)] :
           /\ picked[0] = <<>> /\ At(s, I) = picked[Len(s)]
           /\ \A i \in 1..Len(s) :
                picked[i] = IF i \in I THEN Append(picked[i - 1], s[i]) ELSE picked[i - 1]
  <1> DEFINE n == Len(s)
             step == [x \in (1..n) \X Seq(V) |-> IF x[1] \in I THEN Append(x[2], s[x[1]]) ELSE x[2]]
             Def(f) == [i \in 0..n |-> IF i = 0 THEN <<>>
                                       ELSE IF i \in I THEN Append(f[i - 1], s[i]) ELSE f[i - 1]]
             P == CHOOSE f : f = Def(f)
  <1>1. n \in Nat OBVIOUS
  <1>2. step \in [(1..n) \X Seq(V) -> Seq(V)] OBVIOUS
  <1>3. \A i \in 1..n, t \in Seq(V) : step[<<i, t>>] = IF i \in I THEN Append(t, s[i]) ELSE t OBVIOUS
  <1> HIDE DEF n, step
  <1>4. <<>> \in Seq(V) OBVIOUS
  <1>5. PICK f \in [0..n -> Seq(V)] : Follows(f, n, <<>>, step)
    BY <1>1, <1>2, <1>4, RecursionExists
  <1>6. \A i \in 0..n : f[i] = IF i = 0 THEN <<>> ELSE step[<<i, f[i-1]>>] BY <1>5, <1>1 DEF Follows
  <1>7. \A i \in 1..n : f[i-1] \in Seq(V) BY <1>1
  <1>8. \A i \in 0..n : f[i] = IF i = 0 THEN <<>> ELSE IF i \in I THEN Append(f[i - 1], s[i]) ELSE f[i - 1]
    <2> TAKE i \in 0..n
    <2>1. CASE i = 0 BY <1>6, <2>1
    <2>2. CASE i # 0
       <3>1. i \in 1..n BY <2>2, <1>1
       <3> QED BY <3>1, <1>3, <1>6, <1>7
    <2> QED BY <2>1, <2>2
  <1>9. f = Def(f) BY <1>8
  <1>10. P = Def(P) BY <1>9
  <1>11. At(s, I) = P[n] BY DEF At, n
  <1> HIDE DEF P
  <1>12. \A i \in 0..n : P[i] = IF i = 0 THEN <<>> ELSE IF i \in I THEN Append(P[i - 1], s[i]) ELSE P[i - 1]
    BY <1>10
  <1>13. P = [i \in 0..n |-> P[i]] BY <1>10
  <1> HIDE DEF Def
  <1> DEFINE S == {m \in Nat : m <= n => P[m] \in Seq(V)}
  <1>14. P[0] = <<>> BY <1>12, <1>1
  <1>15. 0 \in S BY <1>14, <1>4
  <1>16. ASSUME NEW m \in Nat, m \in S PROVE m + 1 \in S 
    <2> SUFFICES ASSUME m + 1 <= n PROVE P[m + 1] \in Seq(V) OBVIOUS
    <2>1. P[m] \in Seq(V) /\ m + 1 \in 0..n /\ (m + 1) - 1 = m /\ m + 1 # 0 BY <1>16, <1>1
    <2>2. P[m + 1] = IF m + 1 \in I THEN Append(P[m], s[m + 1]) ELSE P[m] BY <2>1, <1>12
    <2>3. s[m + 1] \in V BY <2>1 DEF n
    <2> QED BY <2>1, <2>2, <2>3
  <1>17. \A m \in 0..n : P[m] \in Seq(V) 
    <2> HIDE DEF S
    <2>1. Nat \subseteq S BY <1>15, <1>16, Induct
    <2> QED BY <2>1, <1>1 DEF S
  <1>18. P \in [0..n -> Seq(V)] BY <1>17, <1>13
  <1>19. \A i \in 1..n : P[i] = IF i \in I THEN Append(P[i - 1], s[i]) ELSE P[i - 1] BY <1>12, <1>1
  <1> QED BY <1>14, <1>19, <1>11, <1>18 DEF n

\* ix lists, in order, the positions of s below m that are in I, and t what is there.
Picks(ix, t, s, I, m) ==
  /\ ix \in [1..Len(t) -> 1..m]
  /\ \A k \in 1..Len(t) : t[k] = s[ix[k]] /\ ix[k] \in I
  /\ \A k, l \in 1..Len(t) : k < l => ix[k] < ix[l]
  /\ \A i \in 1..m : i \in I => \E k \in 1..Len(t) : ix[k] = i

\* At picks what is at the positions, in their order, and nothing else.
LEMMA AtPositions ==
  ASSUME NEW V, NEW s \in Seq(V), NEW I
  PROVE  At(s, I) \in Seq(V) /\ \E ix : Picks(ix, At(s, I), s, I, Len(s))
  <1>1. PICK p \in [0..Len(s) -> Seq(V)] :
           /\ p[0] = <<>> /\ At(s, I) = p[Len(s)]
           /\ \A i \in 1..Len(s) : p[i] = IF i \in I THEN Append(p[i - 1], s[i]) ELSE p[i - 1]
    BY AtSteps
  <1> DEFINE n == Len(s)
             S == {m \in Nat : m <= n => \E ix : Picks(ix, p[m], s, I, m)}
  <1>2. n \in Nat OBVIOUS
  <1>3. 0 \in S
    <2>1. Len(p[0]) = 0 BY <1>1
    <2>2. Picks([k \in 1..0 |-> 0], p[0], s, I, 0) BY <2>1 DEF Picks
    <2> QED BY <2>2
  <1>4. ASSUME NEW m \in Nat, m \in S PROVE m + 1 \in S
    <2> SUFFICES ASSUME m + 1 <= n PROVE \E ix : Picks(ix, p[m + 1], s, I, m + 1) OBVIOUS
    <2>0. m \in 0..Len(s) /\ m + 1 \in 1..Len(s) /\ (m + 1) - 1 = m BY <1>2
    <2>1. PICK ix : Picks(ix, p[m], s, I, m) BY <1>4, <2>0
    <2>2. p[m] \in Seq(V) BY <2>0
    <2>3. p[m + 1] = IF m + 1 \in I THEN Append(p[m], s[m + 1]) ELSE p[m] BY <2>0, <1>1
    <2>4. CASE m + 1 \notin I
      <3>1. p[m + 1] = p[m] BY <2>3, <2>4
      <3>2. Picks(ix, p[m], s, I, m + 1)
        <4>1. ix \in [1..Len(p[m]) -> 1..(m + 1)] BY <2>1, <2>2 DEF Picks
        <4>2. \A i \in 1..(m + 1) : i \in I => i \in 1..m BY <2>4
        <4> QED BY <2>1, <4>1, <4>2 DEF Picks
      <3> QED BY <3>1, <3>2
    <2>5. CASE m + 1 \in I
      <3> DEFINE t == p[m + 1]
                 L == Len(p[m])
                 jx == [k \in 1..(L + 1) |-> IF k = L + 1 THEN m + 1 ELSE ix[k]]
      <3>1. t = Append(p[m], s[m + 1]) BY <2>3, <2>5
      <3>a. s[m + 1] \in V BY <2>0
      <3>2. L \in Nat /\ Len(t) = L + 1 /\ t[L + 1] = s[m + 1] /\ \A k \in 1..L : t[k] = p[m][k]
        BY <3>1, <2>2, <3>a
      <3>3. \A k \in 1..L : ix[k] \in 1..m /\ p[m][k] = s[ix[k]] /\ ix[k] \in I BY <2>1 DEF Picks
      <3>4. \A k \in 1..L : jx[k] = ix[k] BY <3>2
      <3>5. jx[L + 1] = m + 1 BY <3>2
      <3>6. \A k \in 1..(L + 1) : k = L + 1 \/ k \in 1..L BY <3>2
      <3>7. jx \in [1..(L + 1) -> 1..(m + 1)] BY <3>3, <3>6
      <3> HIDE DEF t, L, jx
      <3>8. \A k \in 1..(L + 1) : t[k] = s[jx[k]] /\ jx[k] \in I
        BY <3>2, <3>3, <3>4, <3>5, <3>6, <2>5
      <3>9. \A k, l \in 1..(L + 1) : k < l => jx[k] < jx[l]
        <4> SUFFICES ASSUME NEW k \in 1..(L + 1), NEW l \in 1..(L + 1), k < l PROVE jx[k] < jx[l]
          OBVIOUS
        <4>1. k \in 1..L BY <3>2
        <4>2. CASE l = L + 1 BY <4>1, <4>2, <3>3, <3>4, <3>5
        <4>3. CASE l \in 1..L
          <5>1. ix[k] < ix[l] BY <4>1, <4>3, <2>1 DEF Picks, L
          <5> QED BY <4>1, <4>3, <5>1, <3>4
        <4> QED BY <4>2, <4>3, <3>6
      <3>10. \A i \in 1..(m + 1) : i \in I => \E k \in 1..(L + 1) : jx[k] = i
        <4> SUFFICES ASSUME NEW i \in 1..(m + 1), i \in I PROVE \E k \in 1..(L + 1) : jx[k] = i
          OBVIOUS
        <4>1. CASE i = m + 1 BY <4>1, <3>5, <3>2
        <4>2. CASE i # m + 1
          <5>1. i \in 1..m BY <4>2
          <5>2. PICK k \in 1..L : ix[k] = i BY <5>1, <2>1 DEF Picks, L
          <5> QED BY <5>2, <3>4, <3>2
        <4> QED BY <4>1, <4>2
      <3>11. Picks(jx, t, s, I, m + 1) BY <3>7, <3>8, <3>9, <3>10, <3>2 DEF Picks
      <3> QED BY <3>11 DEF t
    <2> QED BY <2>4, <2>5
  <1>5. n \in S
    <2> HIDE DEF S, n
    <2> QED BY <1>2, <1>3, <1>4, Induct
  <1>6. p[n] \in Seq(V) BY <1>2
  <1> QED BY <1>1, <1>5, <1>2, <1>6

\* The elements At picks are those at the positions.
LEMMA AtElements ==
  ASSUME NEW V, NEW s \in Seq(V), NEW I
  PROVE  /\ At(s, I) \in Seq(V)
         /\ ToSet(At(s, I)) = {s[i] : i \in I \cap 1..Len(s)}
  <1> DEFINE t == At(s, I)
  <1>1. t \in Seq(V) /\ \E ix : Picks(ix, t, s, I, Len(s)) BY AtPositions
  <1>2. PICK ix : Picks(ix, t, s, I, Len(s)) BY <1>1
  <1> HIDE DEF t
  <1>3. DOMAIN t = 1..Len(t) BY <1>1
  <1>4. ASSUME NEW x \in ToSet(t) PROVE x \in {s[i] : i \in I \cap 1..Len(s)}
    <2>1. PICK k \in 1..Len(t) : x = t[k] BY <1>3 DEF ToSet
    <2>2. ix[k] \in 1..Len(s) /\ ix[k] \in I /\ t[k] = s[ix[k]] BY <1>2 DEF Picks
    <2> QED BY <2>1, <2>2
  <1>5. ASSUME NEW i \in I \cap 1..Len(s) PROVE s[i] \in ToSet(t)
    <2>1. PICK k \in 1..Len(t) : ix[k] = i BY <1>2 DEF Picks
    <2>2. t[k] = s[i] BY <2>1, <1>2 DEF Picks
    <2> QED BY <2>2, <1>3 DEF ToSet
  <1> QED BY <1>1, <1>4, <1>5 DEF t

\* Where no position is picked, nothing is.
LEMMA AtNone ==
  ASSUME NEW V, NEW s \in Seq(V), NEW I, I \cap 1..Len(s) = {}
  PROVE  At(s, I) = <<>>
  <1>1. At(s, I) \in Seq(V) /\ ToSet(At(s, I)) = {} BY AtElements
  <1>2. Len(At(s, I)) = 0 BY <1>1 DEF ToSet
  <1> QED BY <1>1, <1>2

\* Where every position is picked, the whole list is.
LEMMA AtAll ==
  ASSUME NEW V, NEW s \in Seq(V), NEW I, 1..Len(s) \subseteq I
  PROVE  At(s, I) = s
  <1>1. PICK p \in [0..Len(s) -> Seq(V)] :
           /\ p[0] = <<>> /\ At(s, I) = p[Len(s)]
           /\ \A i \in 1..Len(s) : p[i] = IF i \in I THEN Append(p[i - 1], s[i]) ELSE p[i - 1]
    BY AtSteps, ZenonT(30)
  <1> DEFINE n == Len(s)
             S == {m \in Nat : m <= n => Len(p[m]) = m /\ \A i \in 1..m : p[m][i] = s[i]}
  <1>2. n \in Nat OBVIOUS
  <1>3. 0 \in S BY <1>1
  <1>4. ASSUME NEW m \in Nat, m \in S PROVE m + 1 \in S
    <2> SUFFICES ASSUME m + 1 <= n
                 PROVE  Len(p[m + 1]) = m + 1 /\ \A i \in 1..(m + 1) : p[m + 1][i] = s[i]
      OBVIOUS
    <2>0. m \in 0..Len(s) /\ m + 1 \in 1..Len(s) /\ (m + 1) - 1 = m BY <1>2
    <2>1. p[m + 1] = Append(p[m], s[m + 1]) BY <2>0, <1>1
    <2>2. p[m] \in Seq(V) /\ s[m + 1] \in V BY <2>0
    <2>3. Len(p[m]) = m /\ \A i \in 1..m : p[m][i] = s[i] BY <1>4, <2>0
    <2> QED BY <2>0, <2>1, <2>2, <2>3
  <1>5. n \in S
    <2> HIDE DEF S, n
    <2> QED BY <1>2, <1>3, <1>4, Induct
  <1>6. p[n] \in Seq(V) BY <1>2
  <1>7. Len(p[n]) = Len(s) /\ \A i \in 1..Len(s) : p[n][i] = s[i] BY <1>5, <1>2
  <1>8. p[n] = s
    <2> DEFINE q == p[n]
    <2>1. q \in Seq(V) /\ Len(q) = Len(s) /\ \A i \in 1..Len(s) : q[i] = s[i] BY <1>6, <1>7
    <2> HIDE DEF q
    <2>2. q = s BY <2>1
    <2> QED BY <2>2 DEF q
  <1> QED BY <1>1, <1>8

\* Where one position is picked, its element is.
LEMMA AtOne ==
  ASSUME NEW V, NEW s \in Seq(V), NEW I, NEW i \in 1..Len(s), I \cap 1..Len(s) = {i}
  PROVE  At(s, I) = <<s[i]>>
  <1> DEFINE t == At(s, I)
  <1>1. t \in Seq(V) /\ \E ix : Picks(ix, t, s, I, Len(s)) BY AtPositions
  <1>2. PICK ix : Picks(ix, t, s, I, Len(s)) BY <1>1
  <1> HIDE DEF t
  <1>3. Len(t) \in Nat /\ \A k \in 1..Len(t) : ix[k] = i /\ t[k] = s[i] BY <1>1, <1>2 DEF Picks
  <1>4. PICK k \in 1..Len(t) : ix[k] = i BY <1>2 DEF Picks
  <1>5. Len(t) = 1
    <2> SUFFICES ASSUME Len(t) # 1 PROVE FALSE OBVIOUS
    <2> DEFINE n == Len(t)
    <2>0. n \in Nat /\ 1 <= k /\ k <= n /\ k \in Nat /\ n # 1 BY <1>3, <1>4
    <2> HIDE DEF n
    <2>1. 1 \in 1..n /\ 2 \in 1..n BY <2>0
    <2> USE DEF n
    <2>2. ix[1] < ix[2] BY <2>1, <1>2 DEF Picks
    <2> QED BY <2>1, <2>2, <1>3
  <1>6. t[1] = s[i] BY <1>3, <1>5
  <1>7. t = <<s[i]>> BY <1>1, <1>5, <1>6
  <1> QED BY <1>7 DEF t

\* p lists what has been picked of s below each position.
Picked(p, s, I) ==
  /\ p[0] = <<>> /\ At(s, I) = p[Len(s)]
  /\ \A i \in 1..Len(s) : p[i] = IF i \in I THEN Append(p[i - 1], s[i]) ELSE p[i - 1]

\* AtSteps, with the steps under one name.
LEMMA PickedExists ==
  ASSUME NEW V, NEW s \in Seq(V), NEW I PROVE \E p \in [0..Len(s) -> Seq(V)] : Picked(p, s, I)
  BY AtSteps DEF Picked

\* At of a longer list: the last element is picked or not, the rest is as before.
LEMMA AtAppend ==
  ASSUME NEW V, NEW s \in Seq(V), NEW x \in V, NEW I, NEW J,
         \A i \in 1..Len(s) : i \in I <=> i \in J
  PROVE  At(Append(s, x), I)
           = IF Len(s) + 1 \in I THEN Append(At(s, J), x) ELSE At(s, J)
  <1> DEFINE t == Append(s, x)
             n == Len(s)
  <1>1. t \in Seq(V) /\ n \in Nat /\ Len(t) = n + 1 /\ t[n + 1] = x /\ \A i \in 1..n : t[i] = s[i]
    OBVIOUS
  <1> HIDE DEF t
  <1>2. PICK p \in [0..Len(s) -> Seq(V)] : Picked(p, s, J) BY PickedExists
  <1>3. PICK q \in [0..Len(t) -> Seq(V)] : Picked(q, t, I) BY <1>1, PickedExists
  <1> HIDE DEF n
  <1> DEFINE S == {m \in Nat : m <= n => q[m] = p[m]}
  <1>4. 0 \in S BY <1>2, <1>3 DEF Picked
  <1>5. ASSUME NEW m \in Nat, m \in S PROVE m + 1 \in S
    <2> SUFFICES ASSUME m + 1 <= n PROVE q[m + 1] = p[m + 1] OBVIOUS
    <2>1. m + 1 \in 1..Len(s) /\ m + 1 \in 1..Len(t) /\ (m + 1) - 1 = m BY <1>1 DEF n
    <2>2. q[m + 1] = IF m + 1 \in I THEN Append(q[m], t[m + 1]) ELSE q[m]
      BY <2>1, <1>3 DEF Picked
    <2>3. p[m + 1] = IF m + 1 \in J THEN Append(p[m], s[m + 1]) ELSE p[m]
      BY <2>1, <1>2 DEF Picked
    <2>4. q[m] = p[m] /\ t[m + 1] = s[m + 1] BY <1>1, <1>5, <2>1 DEF n
    <2>5. m + 1 \in I <=> m + 1 \in J BY <2>1
    <2> QED BY <2>2, <2>3, <2>4, <2>5
  <1>6. q[n] = p[n]
    <2>1. n \in Nat BY <1>1
    <2>2. n \in S
      <3> HIDE DEF S
      <3> QED BY <2>1, <1>4, <1>5, Induct
    <2> QED BY <2>1, <2>2
  <1>7. n + 1 \in 1..Len(t) /\ (n + 1) - 1 = n BY <1>1
  <1>8. q[n + 1] = IF n + 1 \in I THEN Append(q[n], t[n + 1]) ELSE q[n]
    BY <1>7, <1>3 DEF Picked
  <1>9. At(t, I) = q[n + 1] /\ At(s, J) = p[n] BY <1>1, <1>2, <1>3 DEF Picked, n
  <1> QED BY <1>1, <1>6, <1>8, <1>9 DEF t, n

\* No more is picked than there is.
LEMMA AtLength ==
  ASSUME NEW V, NEW s \in Seq(V), NEW I
  PROVE  Len(At(s, I)) \in Nat /\ Len(At(s, I)) <= Len(s)
  <1>1. PICK p \in [0..Len(s) -> Seq(V)] : Picked(p, s, I) BY PickedExists
  <1>2. /\ p[0] = <<>> /\ At(s, I) = p[Len(s)]
        /\ \A i \in 1..Len(s) : p[i] = IF i \in I THEN Append(p[i - 1], s[i]) ELSE p[i - 1]
    BY <1>1 DEF Picked
  <1> DEFINE S == {m \in Nat : m <= Len(s) => Len(p[m]) <= m}
  <1>3. 0 \in S BY <1>2
  <1>4. ASSUME NEW m \in Nat, m \in S PROVE m + 1 \in S
    <2> SUFFICES ASSUME m + 1 <= Len(s) PROVE Len(p[m + 1]) <= m + 1 OBVIOUS
    <2>1. m \in 0..Len(s) /\ m + 1 \in 1..Len(s) /\ (m + 1) - 1 = m OBVIOUS
    <2>2. p[m] \in Seq(V) /\ Len(p[m]) <= m BY <2>1, <1>4
    <2>3. p[m + 1] = IF m + 1 \in I THEN Append(p[m], s[m + 1]) ELSE p[m] BY <1>2, <2>1
    <2> DEFINE u == p[m]
    <2>4. u \in Seq(V) /\ Len(u) \in Nat /\ Len(u) <= m BY <2>2
    <2>5. s[m + 1] \in V BY <2>1
    <2> HIDE DEF u
    <2>6. Len(Append(u, s[m + 1])) = Len(u) + 1 BY <2>4, <2>5
    <2> QED BY <2>3, <2>4, <2>6 DEF u
  <1> HIDE DEF S
  <1>5. Len(s) \in S BY <1>3, <1>4, Induct
  <1>6. Len(p[Len(s)]) <= Len(s) BY <1>5 DEF S
  <1>7. p[Len(s)] \in Seq(V) OBVIOUS
  <1> QED BY <1>2, <1>6, <1>7

-----------------------------------------------------------------------------
(* Joining lists.                                                          *)

\* Two lists, one after the other, have the elements of both.
LEMMA ConcatElements ==
  ASSUME NEW V, NEW s \in Seq(V), NEW t \in Seq(V)
  PROVE  ToSet(s \o t) = ToSet(s) \cup ToSet(t)
  <1> DEFINE st == s \o t
  <1>1. /\ st \in Seq(V) /\ Len(st) = Len(s) + Len(t)
        /\ \A i \in 1..Len(s) : st[i] = s[i]
        /\ \A i \in 1..Len(t) : st[Len(s) + i] = t[i]
    OBVIOUS
  <1>2. Len(s) \in Nat /\ Len(t) \in Nat /\ DOMAIN s = 1..Len(s) /\ DOMAIN t = 1..Len(t)
    OBVIOUS
  <1> HIDE DEF st
  <1>3. DOMAIN st = 1..(Len(s) + Len(t)) BY <1>1
  <1>4. \A i \in 1..Len(s) : s[i] \in ToSet(st) BY <1>1, <1>2, <1>3, SMTT(30) DEF ToSet
  <1>5. ASSUME NEW i \in 1..Len(t) PROVE t[i] \in ToSet(st)
    <2>1. Len(s) + i \in DOMAIN st BY <1>2, <1>3
    <2> QED BY <2>1, <1>1 DEF ToSet
  <1>6. ASSUME NEW j \in DOMAIN st PROVE st[j] \in ToSet(s) \cup ToSet(t)
    <2>1. CASE j <= Len(s)
      <3>1. j \in 1..Len(s) BY <2>1, <1>2, <1>3
      <3> QED BY <3>1, <1>1, <1>2 DEF ToSet
    <2>2. CASE j > Len(s)
      <3>1. j - Len(s) \in 1..Len(t) /\ Len(s) + (j - Len(s)) = j BY <2>2, <1>2, <1>3
      <3>2. st[j] = t[j - Len(s)] BY <3>1, <1>1
      <3> QED BY <3>1, <3>2, <1>2 DEF ToSet
    <2> QED BY <2>1, <2>2, <1>2, <1>3
  <1> QED BY <1>2, <1>4, <1>5, <1>6 DEF ToSet, st

\* What FlattenSeq computes, step by step: the lists below each position, joined.
LEMMA FlattenSteps ==
  ASSUME NEW V, NEW ss \in Seq(Seq(V))
  PROVE  \E flat \in [0..Len(ss) -> Seq(V)] :
           /\ flat[0] = <<>> /\ FlattenSeq(ss) = flat[Len(ss)]
           /\ \A i \in 1..Len(ss) : flat[i] = flat[i - 1] \o ss[i]
  <1> DEFINE n == Len(ss)
             step == [x \in (1..n) \X Seq(V) |-> x[2] \o ss[x[1]]]
             Def(f) == [i \in 1..n |-> IF i = 1 THEN ss[i] ELSE f[i - 1] \o ss[i]]
             P == CHOOSE f : f = Def(f)
  <1>1. n \in Nat /\ \A i \in 1..n : ss[i] \in Seq(V) OBVIOUS
  <1>2. step \in [(1..n) \X Seq(V) -> Seq(V)] BY <1>1
  <1>3. \A i \in 1..n, t \in Seq(V) : step[<<i, t>>] = t \o ss[i] OBVIOUS
  <1>4. FlattenSeq(ss) = IF n = 0 THEN ss ELSE P[n] BY DEF FlattenSeq
  <1> HIDE DEF n, step
  <1>5. <<>> \in Seq(V) OBVIOUS
  <1>6. PICK f \in [0..n -> Seq(V)] : Follows(f, n, <<>>, step)
    BY <1>1, <1>2, <1>5, RecursionExists
  <1>7. f[0] = <<>> /\ \A i \in 1..n : f[i] = step[<<i, f[i-1]>>] BY <1>6 DEF Follows
  <1>8. \A i \in 1..n : f[i-1] \in Seq(V) BY <1>1
  <1>9. \A i \in 1..n : f[i] = f[i - 1] \o ss[i] BY <1>3, <1>7, <1>8
  <1>10. 1 <= n => f[1] = ss[1]
    <2> SUFFICES ASSUME 1 <= n PROVE f[1] = ss[1] OBVIOUS
    <2>1. 1 \in 1..n /\ 1 - 1 = 0 BY <1>1
    <2>2. f[1] = <<>> \o ss[1] BY <2>1, <1>9, <1>7
    <2>3. ss[1] \in Seq(V) BY <2>1, <1>1
    <2> QED BY <2>2, <2>3
  <1> DEFINE g == [i \in 1..n |-> f[i]]
  <1>11. \A i \in 1..n : g[i] = IF i = 1 THEN ss[i] ELSE g[i - 1] \o ss[i]
    <2> TAKE i \in 1..n
    <2>1. CASE i = 1 BY <2>1, <1>10, <1>1
    <2>2. CASE i # 1
      <3>1. i - 1 \in 1..n BY <2>2, <1>1
      <3>2. g[i] = f[i] /\ g[i - 1] = f[i - 1] BY <3>1
      <3> QED BY <3>2, <1>9, <2>2
    <2> QED BY <2>1, <2>2
  <1>12. g = Def(g)
    <2>1. DOMAIN g = 1..n OBVIOUS
    <2>2. g = [i \in 1..n |-> g[i]] OBVIOUS
    <2> HIDE DEF g
    <2> QED BY <2>2, <1>11
  <1>13. P = Def(P) BY <1>12
  <1> HIDE DEF P, g
  <1>14. \A i \in 1..n : P[i] = IF i = 1 THEN ss[i] ELSE P[i - 1] \o ss[i] BY <1>13
  <1> HIDE DEF Def
  <1> DEFINE S == {m \in Nat : m \in 1..n => P[m] = f[m]}
  <1>15. 0 \in S BY <1>1
  <1>16. ASSUME NEW m \in Nat, m \in S PROVE m + 1 \in S
    <2> SUFFICES ASSUME m + 1 \in 1..n PROVE P[m + 1] = f[m + 1] OBVIOUS
    <2>1. CASE m = 0 BY <2>1, <1>14, <1>10, <1>1
    <2>2. CASE m # 0
      <3>1. m \in 1..n /\ (m + 1) - 1 = m /\ m + 1 # 1 BY <2>2, <1>1
      <3>2. P[m + 1] = P[m] \o ss[m + 1] BY <3>1, <1>14
      <3>3. f[m + 1] = f[m] \o ss[m + 1] BY <3>1, <1>9
      <3> QED BY <3>1, <3>2, <3>3, <1>16
    <2> QED BY <2>1, <2>2
  <1>17. Nat \subseteq S
    <2> HIDE DEF S
    <2> QED BY <1>15, <1>16, Induct
  <1>18. FlattenSeq(ss) = f[n]
    <2>1. CASE n = 0
      <3>1. ss = <<>> BY <2>1 DEF n
      <3> QED BY <3>1, <2>1, <1>4, <1>7
    <2>2. CASE n # 0 BY <2>2, <1>1, <1>17, <1>4
    <2> QED BY <2>1, <2>2
  <1> QED BY <1>18, <1>7, <1>9 DEF n

\* A list of lists, flattened, has the elements of all of them.
LEMMA FlattenElements ==
  ASSUME NEW V, NEW ss \in Seq(Seq(V))
  PROVE  /\ FlattenSeq(ss) \in Seq(V)
         /\ ToSet(FlattenSeq(ss)) = UNION {ToSet(ss[i]) : i \in 1..Len(ss)}
  <1>1. PICK f \in [0..Len(ss) -> Seq(V)] :
           /\ f[0] = <<>> /\ FlattenSeq(ss) = f[Len(ss)]
           /\ \A i \in 1..Len(ss) : f[i] = f[i - 1] \o ss[i]
    BY FlattenSteps
  <1> DEFINE n == Len(ss)
             S == {m \in Nat : m <= n => ToSet(f[m]) = UNION {ToSet(ss[i]) : i \in 1..m}}
  <1>2. n \in Nat /\ \A i \in 1..n : ss[i] \in Seq(V) OBVIOUS
  <1>3. 0 \in S
    <2>1. ToSet(f[0]) = {} BY <1>1 DEF ToSet
    <2> QED BY <2>1
  <1>4. ASSUME NEW m \in Nat, m \in S PROVE m + 1 \in S
    <2> SUFFICES ASSUME m + 1 <= n
                 PROVE  ToSet(f[m + 1]) = UNION {ToSet(ss[i]) : i \in 1..(m + 1)}
      OBVIOUS
    <2>0. m \in 0..Len(ss) /\ m + 1 \in 1..Len(ss) /\ (m + 1) - 1 = m BY <1>2
    <2>1. f[m + 1] = f[m] \o ss[m + 1] BY <2>0, <1>1
    <2>2. f[m] \in Seq(V) /\ ss[m + 1] \in Seq(V) BY <2>0, <1>2
    <2>3. ToSet(f[m]) = UNION {ToSet(ss[i]) : i \in 1..m} BY <1>4, <2>0
    <2>4. ToSet(f[m] \o ss[m + 1]) = ToSet(f[m]) \cup ToSet(ss[m + 1])
      BY <2>2, ConcatElements
    <2>5. \A i \in 1..(m + 1) : i \in 1..m \/ i = m + 1 BY <2>0
    <2>6. 1..m \subseteq 1..(m + 1) /\ m + 1 \in 1..(m + 1) BY <2>0
    <2>7. UNION {ToSet(ss[i]) : i \in 1..(m + 1)}
            = (UNION {ToSet(ss[i]) : i \in 1..m}) \cup ToSet(ss[m + 1])
      BY <2>5, <2>6, Zenon
    <2> QED BY <2>1, <2>3, <2>4, <2>7
  <1>5. n \in S
    <2> HIDE DEF S, n
    <2> QED BY <1>2, <1>3, <1>4, Induct
  <1> QED BY <1>1, <1>5, <1>2

-----------------------------------------------------------------------------
(* Keeping the elements of a set.                                          *)

\* The elements of s that are in A, in their order: what Filter computes.
Keep(s, A) == At(s, {i \in DOMAIN s : s[i] \in A})

\* Of nothing, nothing is kept.
LEMMA KeepEmpty == ASSUME NEW A PROVE Keep(<<>>, A) = <<>>
  <1>1. <<>> \in Seq({}) /\ Len(<<>>) = 0 OBVIOUS
  <1> DEFINE I == {i \in DOMAIN <<>> : <<>>[i] \in A}
  <1>2. I \cap 1..Len(<<>>) = {} BY <1>1
  <1> HIDE DEF I
  <1>3. At(<<>>, I) = <<>> BY <1>1, <1>2, AtNone
  <1> QED BY <1>3 DEF Keep, I

\* An appended element is kept when it is in A.
LEMMA KeepAppend ==
  ASSUME NEW V, NEW s \in Seq(V), NEW x \in V, NEW A
  PROVE  Keep(Append(s, x), A) = IF x \in A THEN Append(Keep(s, A), x) ELSE Keep(s, A)
  <1> DEFINE t == Append(s, x)
             I == {i \in DOMAIN t : t[i] \in A}
             J == {i \in DOMAIN s : s[i] \in A}
  <1>1. Len(s) \in Nat /\ DOMAIN s = 1..Len(s) /\ DOMAIN t = 1..(Len(s) + 1)
    OBVIOUS
  <1>2. t[Len(s) + 1] = x /\ \A i \in 1..Len(s) : t[i] = s[i] OBVIOUS
  <1>3. \A i \in 1..Len(s) : i \in I <=> i \in J BY <1>1, <1>2
  <1>4. Len(s) + 1 \in I <=> x \in A BY <1>1, <1>2
  <1>5. Keep(t, A) = At(t, I) /\ Keep(s, A) = At(s, J) BY DEF Keep
  <1> HIDE DEF I, J
  <1>6. At(t, I) = IF Len(s) + 1 \in I THEN Append(At(s, J), x) ELSE At(s, J)
    BY <1>3, AtAppend
  <1> QED BY <1>4, <1>5, <1>6

\* What is kept are the elements in A.
LEMMA KeepElements ==
  ASSUME NEW V, NEW s \in Seq(V), NEW A
  PROVE  Keep(s, A) \in Seq(V) /\ ToSet(Keep(s, A)) = ToSet(s) \cap A
  <1> DEFINE I == {i \in DOMAIN s : s[i] \in A}
  <1>1. DOMAIN s = 1..Len(s) OBVIOUS
  <1> HIDE DEF I
  <1>2. At(s, I) \in Seq(V) /\ ToSet(At(s, I)) = {s[i] : i \in I \cap 1..Len(s)} BY AtElements
  <1> USE DEF I
  <1> QED BY <1>1, <1>2 DEF Keep, ToSet

\* Keeping twice is keeping what is in both.
LEMMA KeepKeep ==
  ASSUME NEW V, NEW A, NEW B, NEW s \in Seq(V)
  PROVE  Keep(Keep(s, A), B) = Keep(s, A \cap B)
  <1> DEFINE S == {t \in Seq(V) : Keep(Keep(t, A), B) = Keep(t, A \cap B)}
  <1>1. <<>> \in S BY KeepEmpty
  <1>2. ASSUME NEW t \in Seq(V), NEW x \in V, t \in S PROVE Append(t, x) \in S
    <2>1. Keep(t, A) \in Seq(V) BY KeepElements
    <2>2. Keep(Append(t, x), A) = IF x \in A THEN Append(Keep(t, A), x) ELSE Keep(t, A)
      BY KeepAppend
    <2>3. Keep(Append(Keep(t, A), x), B)
            = IF x \in B THEN Append(Keep(Keep(t, A), B), x) ELSE Keep(Keep(t, A), B)
      BY <2>1, KeepAppend
    <2>4. Keep(Append(t, x), A \cap B)
            = IF x \in A \cap B THEN Append(Keep(t, A \cap B), x) ELSE Keep(t, A \cap B)
      BY KeepAppend
    <2>5. Append(t, x) \in Seq(V) OBVIOUS
    <2>6. Keep(Keep(t, A), B) = Keep(t, A \cap B) BY <1>2
    <2>7. Keep(Keep(Append(t, x), A), B) = Keep(Append(t, x), A \cap B)
      <3>1. CASE x \in A /\ x \in B BY <3>1, <2>2, <2>3, <2>4, <2>6
      <3>2. CASE x \in A /\ x \notin B BY <3>2, <2>2, <2>3, <2>4, <2>6
      <3>3. CASE x \notin A BY <3>3, <2>2, <2>4, <2>6
      <3> QED BY <3>1, <3>2, <3>3
    <2> QED BY <2>5, <2>7
  <1>3. Seq(V) \subseteq S
    <2> HIDE DEF S
    <2> QED BY <1>1, <1>2, SeqInduct
  <1> QED BY <1>3

\* Keeping of two lists, one after the other.
LEMMA KeepConcat ==
  ASSUME NEW V, NEW A, NEW s \in Seq(V), NEW t \in Seq(V)
  PROVE  Keep(s \o t, A) = Keep(s, A) \o Keep(t, A)
  <1> DEFINE S == {u \in Seq(V) : Keep(s \o u, A) = Keep(s, A) \o Keep(u, A)}
  <1>1. Keep(s, A) \in Seq(V) BY KeepElements
  <1>2. <<>> \in S
    <2>1. s \o <<>> = s OBVIOUS
    <2>2. Keep(s, A) \o <<>> = Keep(s, A) BY <1>1
    <2>3. Keep(<<>>, A) = <<>> BY KeepEmpty
    <2>4. Keep(s \o <<>>, A) = Keep(s, A) \o Keep(<<>>, A) BY <2>1, <2>2, <2>3, Zenon
    <2> QED BY <2>4
  <1>3. ASSUME NEW u \in Seq(V), NEW x \in V, u \in S PROVE Append(u, x) \in S
    <2>1. s \o Append(u, x) = Append(s \o u, x) OBVIOUS
    <2>2. s \o u \in Seq(V) /\ Append(u, x) \in Seq(V) OBVIOUS
    <2>3. Keep(Append(s \o u, x), A)
            = IF x \in A THEN Append(Keep(s \o u, A), x) ELSE Keep(s \o u, A)
      BY <2>2, KeepAppend
    <2>4. Keep(Append(u, x), A) = IF x \in A THEN Append(Keep(u, A), x) ELSE Keep(u, A)
      BY KeepAppend
    <2>5. Keep(u, A) \in Seq(V) BY KeepElements
    <2>6. Keep(s, A) \o Append(Keep(u, A), x) = Append(Keep(s, A) \o Keep(u, A), x)
      BY <1>1, <2>5
    <2> QED BY <1>3, <2>1, <2>2, <2>3, <2>4, <2>6
  <1>4. Seq(V) \subseteq S
    <2> HIDE DEF S
    <2> QED BY <1>2, <1>3, SeqInduct
  <1> QED BY <1>4

\* Everything is kept of a list whose elements are all in A.
LEMMA KeepAll ==
  ASSUME NEW V, NEW s \in Seq(V), NEW A, ToSet(s) \subseteq A
  PROVE  Keep(s, A) = s
  <1> DEFINE I == {i \in DOMAIN s : s[i] \in A}
  <1>1. 1..Len(s) \subseteq I BY DEF ToSet
  <1> HIDE DEF I
  <1>2. At(s, I) = s BY <1>1, AtAll
  <1> QED BY <1>2 DEF Keep, I

\* Nothing is kept of a list that has no element in A.
LEMMA KeepNone ==
  ASSUME NEW V, NEW s \in Seq(V), NEW A, ToSet(s) \cap A = {}
  PROVE  Keep(s, A) = <<>>
  <1> DEFINE I == {i \in DOMAIN s : s[i] \in A}
  <1>1. I \cap 1..Len(s) = {} BY DEF ToSet
  <1> HIDE DEF I
  <1>2. At(s, I) = <<>> BY <1>1, AtNone
  <1> QED BY <1>2 DEF Keep, I

\* Keeping makes a list shorter when it leaves an element out, and never longer.
LEMMA KeepLength ==
  ASSUME NEW V, NEW A, NEW s \in Seq(V)
  PROVE  /\ Len(Keep(s, A)) \in Nat /\ Len(Keep(s, A)) <= Len(s)
         /\ (\E x \in ToSet(s) : x \notin A) => Len(Keep(s, A)) < Len(s)
  <1> DEFINE S == {t \in Seq(V) : /\ Len(Keep(t, A)) <= Len(t)
                                  /\ (\E x \in ToSet(t) : x \notin A) => Len(Keep(t, A)) < Len(t)}
  <1>1. <<>> \in S
    <2>1. Keep(<<>>, A) = <<>> BY KeepEmpty
    <2>2. ToSet(<<>>) = {} BY DEF ToSet
    <2> QED BY <2>1, <2>2
  <1>2. ASSUME NEW t \in Seq(V), NEW x \in V, t \in S PROVE Append(t, x) \in S
    <2> DEFINE k == Keep(t, A)
               u == Append(t, x)
    <2>1. k \in Seq(V) BY KeepElements
    <2>2. Keep(u, A) = IF x \in A THEN Append(k, x) ELSE k BY KeepAppend
    <2>3. Len(k) \in Nat /\ Len(t) \in Nat /\ Len(k) <= Len(t) BY <2>1, <1>2
    <2>4. (\E y \in ToSet(t) : y \notin A) => Len(k) < Len(t) BY <1>2
    <2>5. ToSet(u) = ToSet(t) \cup {x}
      <3>1. u = t \o <<x>> /\ <<x>> \in Seq(V) OBVIOUS
      <3>2. ToSet(t \o <<x>>) = ToSet(t) \cup ToSet(<<x>>)
        <4> HIDE DEF S, k, u
        <4> QED BY <3>1, ConcatElements, ZenonT(30)
      <3>3. ToSet(<<x>>) = {x} BY DEF ToSet
      <3> QED BY <3>1, <3>2, <3>3
    <2>6. Len(u) = Len(t) + 1 /\ u \in Seq(V) OBVIOUS
    <2> HIDE DEF k, u
    <2>7. Len(Append(k, x)) = Len(k) + 1 BY <2>1
    <2>8. CASE x \in A
      <3>1. Len(Keep(u, A)) = Len(k) + 1 BY <2>2, <2>7, <2>8
      <3> QED BY <3>1, <2>3, <2>4, <2>5, <2>6, <2>8 DEF u
    <2>9. CASE x \notin A
      <3>1. Len(Keep(u, A)) = Len(k) BY <2>2, <2>9
      <3> QED BY <3>1, <2>3, <2>6 DEF u
    <2> QED BY <2>8, <2>9
  <1> HIDE DEF S
  <1>3. s \in S BY <1>1, <1>2, SeqInduct
  <1>4. Keep(s, A) \in Seq(V) BY KeepElements
  <1> QED BY <1>3, <1>4 DEF S

-----------------------------------------------------------------------------
(* Lists of any elements.                                                  *)

\* The empty list is a list.
LEMMA NoElement == IsList(<<>>)
  <1>1. <<>> \in Seq({}) OBVIOUS
  <1>2. ToSet(<<>>) = {} BY DEF ToSet
  <1> QED BY <1>1, <1>2 DEF IsList

\* So is a list of one.
LEMMA OneElement == ASSUME NEW x PROVE IsList(<<x>>)
  <1>1. <<x>> \in Seq({x}) /\ ToSet(<<x>>) = {x} BY DEF ToSet
  <1> QED BY <1>1 DEF IsList

\* So is one list after the other.
LEMMA BothLists ==
  ASSUME NEW s, NEW t, IsList(s), IsList(t)
  PROVE  IsList(s \o t)
  <1> DEFINE V == ToSet(s) \cup ToSet(t)
  <1>1. s \in Seq(V) /\ t \in Seq(V) BY DEF IsList
  <1> HIDE DEF V
  <1>2. s \o t \in Seq(V) BY <1>1
  <1>3. ToSet(s \o t) = V BY <1>1, ConcatElements DEF V
  <1> QED BY <1>2, <1>3 DEF IsList

\* SetToSeq lists a finite set, every element once.
LEMMA SetToSeqLists ==
  ASSUME NEW S, IsFiniteSet(S)
  PROVE  /\ SetToSeq(S) \in Seq(S)
         /\ \A i, j \in 1..Len(SetToSeq(S)) : SetToSeq(S)[i] = SetToSeq(S)[j] => i = j
         /\ \A x \in S : \E i \in 1..Len(SetToSeq(S)) : SetToSeq(S)[i] = x
  <1> DEFINE k == Cardinality(S)
             s == SetToSeq(S)
  <1>1. k \in Nat /\ ExistsBijection(1..k, S) BY FS_CardinalityType
  <1>2. PICK f \in [1..k -> S] : IsInjective(f)
    BY <1>1 DEF ExistsBijection, Bijection, Injection
  <1>3. s \in [1..k -> S] /\ IsInjective(s) BY <1>2 DEF SetToSeq
  <1> HIDE DEF s
  <1>4. s \in Injection(1..k, S) BY <1>3 DEF Injection
  <1>5. IsFiniteSet(1..k) /\ Cardinality(1..k) = k BY <1>1, FS_Interval
  <1>6. s \in Surjection(1..k, S) BY <1>4, <1>5, FS_Injection
  <1>7. s \in Seq(S) /\ Len(s) = k BY <1>1, <1>3
  <1>8. \A i, j \in 1..k : s[i] = s[j] => i = j BY <1>3 DEF IsInjective
  <1>9. \A x \in S : \E i \in 1..k : s[i] = x BY <1>6 DEF Surjection
  <1> QED BY <1>7, <1>8, <1>9 DEF s

\* A stretch of a list: what stands between two of its positions.
LEMMA Stretch ==
  ASSUME NEW V, NEW s \in Seq(V), NEW a \in 0..Len(s), NEW b \in a..Len(s)
  PROVE  /\ SubSeq(s, a + 1, b) \in Seq(V) /\ Len(SubSeq(s, a + 1, b)) = b - a
         /\ \A i \in 1..(b - a) : SubSeq(s, a + 1, b)[i] = s[a + i]
  <1> DEFINE n == Len(s)
             t == SubSeq(s, a + 1, b)
  <1>1. n \in Nat /\ a \in Nat /\ b \in Nat /\ a <= b /\ b <= n OBVIOUS
  <1>2. \A i \in 1..n : s[i] \in V OBVIOUS
  <1>3. t = [i \in 1..(b - a) |-> s[a + i]]
    <2>1. t = [i \in 1..(b - (a + 1) + 1) |-> s[i + (a + 1) - 1]] BY <1>1
    <2>2. b - (a + 1) + 1 = b - a /\ \A i \in 1..(b - a) : i + (a + 1) - 1 = a + i BY <1>1
    <2> QED BY <2>1, <2>2
  <1> HIDE DEF t, n
  <1>4. \A i \in 1..(b - a) : a + i \in 1..n BY <1>1
  <1>5. b - a \in Nat BY <1>1
  <1>6. \A i \in 1..(b - a) : t[i] \in V BY <1>2, <1>3, <1>4
  <1>7. t \in Seq(V) /\ Len(t) = b - a BY <1>3, <1>5, <1>6
  <1> QED BY <1>3, <1>7 DEF t

-----------------------------------------------------------------------------
(* Adding up.                                                              *)

\* f holds what t adds up to, up to each of its positions.
Sums(f, t) == f[0] = 0 /\ Total(t) = f[Len(t)] /\ \A i \in 1..Len(t) : f[i] = f[i - 1] + t[i]

\* What Total computes, step by step.
LEMMA TotalSteps ==
  ASSUME NEW t \in Seq(Int)
  PROVE  \E f \in [0..Len(t) -> Int] : Sums(f, t)
  <1> DEFINE n == Len(t)
             step == [x \in (1..n) \X Int |-> x[2] + t[x[1]]]
             Def(f) == [i \in 0..n |-> IF i = 0 THEN 0 ELSE f[i - 1] + t[i]]
             P == CHOOSE f : f = Def(f)
  <1>1. n \in Nat /\ \A i \in 1..n : t[i] \in Int OBVIOUS
  <1>2. Total(t) = P[n] BY DEF Total
  <1> HIDE DEF n
  <1>3. step \in [(1..n) \X Int -> Int] BY <1>1
  <1>4. \A i \in 1..n, k \in Int : step[<<i, k>>] = k + t[i] OBVIOUS
  <1> HIDE DEF step
  <1>5. PICK f \in [0..n -> Int] : Follows(f, n, 0, step)
    <2>1. 0 \in Int OBVIOUS
    <2> HIDE DEF P, Def
    <2> QED BY <1>1, <1>3, <2>1, RecursionExists
  <1>6. f[0] = 0 /\ \A i \in 1..n : f[i] = step[<<i, f[i - 1]>>] BY <1>5 DEF Follows
  <1>7. \A i \in 1..n : f[i - 1] \in Int BY <1>1
  <1>8. \A i \in 0..n : f[i] = IF i = 0 THEN 0 ELSE f[i - 1] + t[i]
    <2> TAKE i \in 0..n
    <2>1. CASE i = 0 BY <2>1, <1>6
    <2>2. CASE i # 0
      <3>1. i \in 1..n BY <2>2, <1>1
      <3> QED BY <3>1, <2>2, <1>4, <1>6, <1>7
    <2> QED BY <2>1, <2>2
  <1>9. f = Def(f) BY <1>8
  <1>10. P = Def(P)
    <2> HIDE DEF Def
    <2> QED BY <1>9, Zenon DEF P
  <1> HIDE DEF P
  <1>11. \A i \in 0..n : P[i] = IF i = 0 THEN 0 ELSE P[i - 1] + t[i] BY <1>10
  <1> DEFINE S == {m \in Nat : m <= n => P[m] = f[m]}
  <1>12. 0 \in S BY <1>1, <1>6, <1>11
  <1>13. ASSUME NEW m \in Nat, m \in S PROVE m + 1 \in S
    <2> SUFFICES ASSUME m + 1 <= n PROVE P[m + 1] = f[m + 1] OBVIOUS
    <2>1. m + 1 \in 0..n /\ m + 1 # 0 /\ (m + 1) - 1 = m /\ m <= n BY <1>1
    <2>2. P[m] = f[m] BY <1>13, <2>1
    <2> QED BY <2>1, <2>2, <1>8, <1>11
  <1>14. P[n] = f[n]
    <2> HIDE DEF S
    <2>1. n \in S BY <1>1, <1>12, <1>13, Induct
    <2> QED BY <2>1, <1>1 DEF S
  <1>15. \A i \in 1..n : f[i] = f[i - 1] + t[i] BY <1>1, <1>8
  <1> QED BY <1>2, <1>6, <1>14, <1>15 DEF Sums, n

\* Numbers add up to a number, nothing to nothing.
LEMMA TotalType ==
  ASSUME NEW t \in Seq(Int)
  PROVE  Total(t) \in Int /\ (Len(t) = 0 => Total(t) = 0)
  <1>1. PICK f \in [0..Len(t) -> Int] : Sums(f, t) BY TotalSteps
  <1>2. Len(t) \in 0..Len(t) OBVIOUS
  <1> QED BY <1>1, <1>2 DEF Sums

\* One number changed by d changes the total by d.
LEMMA TotalBump ==
  ASSUME NEW s \in Seq(Int), NEW t \in Seq(Int), Len(s) = Len(t), NEW j \in 1..Len(s), NEW d \in Int,
         t[j] = s[j] + d, \A i \in 1..Len(s) : i # j => t[i] = s[i]
  PROVE  Total(t) = Total(s) + d
  <1> DEFINE n == Len(s)
  <1>1. n \in Nat /\ n = Len(t) /\ j \in 1..n OBVIOUS
  <1>2. PICK f \in [0..Len(s) -> Int] : Sums(f, s) BY TotalSteps
  <1>3. PICK g \in [0..Len(t) -> Int] : Sums(g, t) BY TotalSteps
  <1>4. /\ f[0] = 0 /\ Total(s) = f[n] /\ \A i \in 1..n : f[i] = f[i - 1] + s[i]
        /\ g[0] = 0 /\ Total(t) = g[n] /\ \A i \in 1..n : g[i] = g[i - 1] + t[i]
    BY <1>1, <1>2, <1>3 DEF Sums
  <1>5. \A i \in 0..n : f[i] \in Int /\ g[i] \in Int BY <1>1
  <1>6. \A i \in 1..n : s[i] \in Int OBVIOUS
  <1> DEFINE S == {m \in Nat : m <= n => g[m] = IF m < j THEN f[m] ELSE f[m] + d}
  <1> HIDE DEF n
  <1>7. 0 \in S BY <1>1, <1>4
  <1>8. ASSUME NEW m \in Nat, m \in S PROVE m + 1 \in S
    <2> SUFFICES ASSUME m + 1 <= n
                 PROVE  g[m + 1] = IF m + 1 < j THEN f[m + 1] ELSE f[m + 1] + d
      OBVIOUS
    <2>1. m + 1 \in 1..n /\ (m + 1) - 1 = m /\ m <= n /\ m \in 0..n BY <1>1
    <2>2. g[m + 1] = g[m] + t[m + 1] /\ f[m + 1] = f[m] + s[m + 1] BY <2>1, <1>4
    <2>3. g[m] = IF m < j THEN f[m] ELSE f[m] + d BY <1>8, <2>1
    <2>4. f[m] \in Int /\ s[m + 1] \in Int BY <2>1, <1>5, <1>6
    <2>5. t[m + 1] = IF m + 1 = j THEN s[m + 1] + d ELSE s[m + 1] BY <2>1 DEF n
    <2> DEFINE a == f[m]
               b == s[m + 1]
               x == g[m + 1]
               y == f[m + 1]
    <2>6. a \in Int /\ b \in Int /\ y = a + b BY <2>2, <2>4
    <2>7. x = (IF m < j THEN a ELSE a + d) + (IF m + 1 = j THEN b + d ELSE b)
      BY <2>2, <2>3, <2>5
    <2> HIDE DEF a, b, x, y
    <2>8. j \in Nat BY <1>1
    <2>9. x = IF m + 1 < j THEN y ELSE y + d BY <2>6, <2>7, <2>8
    <2> QED BY <2>9 DEF x, y
  <1>9. n \in S
    <2> HIDE DEF S
    <2> QED BY <1>1, <1>7, <1>8, Induct
  <1>10. g[n] = f[n] + d BY <1>1, <1>9
  <1> QED BY <1>4, <1>10

\* What is left of two lists added up position by position.
LEMMA TotalZero ==
  ASSUME NEW t \in Seq(Int), \A i \in 1..Len(t) : t[i] = 0
  PROVE  Total(t) = 0
  <1>1. PICK f \in [0..Len(t) -> Int] : Sums(f, t) BY TotalSteps
  <1>2. /\ f[0] = 0 /\ Total(t) = f[Len(t)]
        /\ \A i \in 1..Len(t) : f[i] = f[i - 1] + t[i]
    BY <1>1 DEF Sums
  <1> DEFINE n == Len(t)
             S == {m \in Nat : m <= n => f[m] = 0}
  <1>3. n \in Nat OBVIOUS
  <1>4. 0 \in S BY <1>2
  <1>5. ASSUME NEW m \in Nat, m \in S PROVE m + 1 \in S
    <2> SUFFICES ASSUME m + 1 <= n PROVE f[m + 1] = 0 OBVIOUS
    <2>1. m + 1 \in 1..n /\ (m + 1) - 1 = m /\ m <= n OBVIOUS
    <2>2. f[m + 1] = f[m] + t[m + 1] BY <2>1, <1>2
    <2> QED BY <2>1, <2>2, <1>5
  <1>6. n \in S
    <2> HIDE DEF S, n
    <2> QED BY <1>3, <1>4, <1>5, Induct
  <1> QED BY <1>2, <1>6

-----------------------------------------------------------------------------
(* Counting by class.                                                      *)

\* How many elements of s have each of the classes 1 to n.
ClassCounts(s, V, n, cls) == [i \in 1..n |-> Len(Keep(s, {x \in V : cls[x] = i}))]

\* The classes make up the list.
LEMMA ClassesMakeUp ==
  ASSUME NEW V, NEW n \in Nat, NEW cls \in [V -> 1..n], NEW s \in Seq(V)
  PROVE  ClassCounts(s, V, n, cls) \in Seq(Nat) /\ Total(ClassCounts(s, V, n, cls)) = Len(s)
  <1> DEFINE Of(i) == {x \in V : cls[x] = i}
             S == {u \in Seq(V) : Total(ClassCounts(u, V, n, cls)) = Len(u)}
  <1>1. ASSUME NEW u \in Seq(V)
        PROVE  /\ ClassCounts(u, V, n, cls) \in Seq(Nat) /\ ClassCounts(u, V, n, cls) \in Seq(Int)
               /\ Len(ClassCounts(u, V, n, cls)) = n
               /\ \A i \in 1..n : ClassCounts(u, V, n, cls)[i] = Len(Keep(u, Of(i)))
    <2> DEFINE c == ClassCounts(u, V, n, cls)
    <2>1. c = [i \in 1..n |-> Len(Keep(u, Of(i)))] BY DEF ClassCounts
    <2> HIDE DEF Of, c
    <2>2. \A i \in 1..n : Len(Keep(u, Of(i))) \in Nat
      <3> TAKE i \in 1..n
      <3>1. Keep(u, Of(i)) \in Seq(V) BY KeepElements
      <3> QED BY <3>1
    <2>3. c \in [1..n -> Nat] BY <2>1, <2>2
    <2>4. c \in Seq(Nat) /\ c \in Seq(Int) /\ Len(c) = n BY <2>3
    <2>5. \A i \in 1..n : c[i] = Len(Keep(u, Of(i))) BY <2>1
    <2> QED BY <2>4, <2>5 DEF c, Of
  <1>2. <<>> \in S
    <2>1. <<>> \in Seq(V) OBVIOUS
    <2> DEFINE c == ClassCounts(<<>>, V, n, cls)
    <2>2. c \in Seq(Int) /\ Len(c) = n /\ \A i \in 1..n : c[i] = Len(Keep(<<>>, Of(i)))
      BY <1>1, <2>1
    <2> HIDE DEF c, Of
    <2>3. \A i \in 1..n : c[i] = 0 BY <2>2, KeepEmpty
    <2>4. Total(c) = 0 BY <2>2, <2>3, TotalZero
    <2> QED BY <2>1, <2>4 DEF c
  <1>3. ASSUME NEW u \in Seq(V), NEW x \in V, u \in S PROVE Append(u, x) \in S
    <2> DEFINE w == Append(u, x)
               c == ClassCounts(u, V, n, cls)
               d == ClassCounts(w, V, n, cls)
               j == cls[x]
    <2>1. w \in Seq(V) /\ Len(w) = Len(u) + 1 OBVIOUS
    <2>2. c \in Seq(Int) /\ Len(c) = n /\ \A i \in 1..n : c[i] = Len(Keep(u, Of(i))) BY <1>1
    <2>3. d \in Seq(Int) /\ Len(d) = n /\ \A i \in 1..n : d[i] = Len(Keep(w, Of(i)))
      BY <1>1, <2>1
    <2>4. j \in 1..n /\ \A i \in 1..n : x \in Of(i) <=> i = j OBVIOUS
    <2>5. Total(c) = Len(u) BY <1>3
    <2> HIDE DEF c, d, j, Of
    <2>6. ASSUME NEW i \in 1..n PROVE d[i] = IF i = j THEN c[i] + 1 ELSE c[i]
      <3> DEFINE k == Keep(u, Of(i))
      <3>1. k \in Seq(V) BY KeepElements
      <3>2. Keep(w, Of(i)) = IF x \in Of(i) THEN Append(k, x) ELSE k BY KeepAppend
      <3> HIDE DEF k
      <3>3. Len(Append(k, x)) = Len(k) + 1 BY <3>1
      <3>4. c[i] = Len(k) /\ d[i] = Len(Keep(w, Of(i))) BY <2>2, <2>3 DEF k
      <3> QED BY <2>4, <3>2, <3>3, <3>4
    <2> HIDE DEF w
    <2>7. Total(d) = Total(c) + 1
      <3>1. 1 \in Int /\ c \in Seq(Int) /\ d \in Seq(Int) /\ Len(c) = Len(d) BY <2>2, <2>3
      <3>2. j \in 1..Len(c) /\ d[j] = c[j] + 1 BY <2>2, <2>4, <2>6
      <3>3. \A i \in 1..Len(c) : i # j => d[i] = c[i] BY <2>2, <2>6
      <3> QED BY <3>1, <3>2, <3>3, TotalBump
    <2>8. Total(d) = Len(w) BY <2>1, <2>5, <2>7
    <2> QED BY <2>1, <2>8 DEF w, d
  <1>4. s \in S
    <2> HIDE DEF S
    <2> QED BY <1>2, <1>3, SeqInduct
  <1> QED BY <1>1, <1>4

\* A list has what it has in A and what it has outside A.
LEMMA KeepSplit ==
  ASSUME NEW V, NEW A, NEW B, A \cap B = {}, V \subseteq A \cup B, NEW s \in Seq(V)
  PROVE  Len(s) = Len(Keep(s, A)) + Len(Keep(s, B))
  <1> DEFINE S == {u \in Seq(V) : Len(u) = Len(Keep(u, A)) + Len(Keep(u, B))}
  <1>1. <<>> \in S BY KeepEmpty
  <1>2. ASSUME NEW u \in Seq(V), NEW x \in V, u \in S PROVE Append(u, x) \in S
    <2> DEFINE a == Keep(u, A)
               b == Keep(u, B)
               w == Append(u, x)
    <2>1. a \in Seq(V) /\ b \in Seq(V) BY KeepElements
    <2>2. Keep(w, A) = (IF x \in A THEN Append(a, x) ELSE a)
          /\ Keep(w, B) = (IF x \in B THEN Append(b, x) ELSE b)
      BY KeepAppend
    <2>3. Len(u) = Len(a) + Len(b) BY <1>2
    <2>4. w \in Seq(V) /\ Len(w) = Len(u) + 1 OBVIOUS
    <2> HIDE DEF a, b, w
    <2>5. Len(Append(a, x)) = Len(a) + 1 /\ Len(Append(b, x)) = Len(b) + 1 BY <2>1
    <2>6. Len(a) \in Nat /\ Len(b) \in Nat BY <2>1
    <2>7. CASE x \in A /\ x \notin B BY <2>2, <2>3, <2>4, <2>5, <2>6, <2>7 DEF w
    <2>8. CASE x \in B /\ x \notin A BY <2>2, <2>3, <2>4, <2>5, <2>6, <2>8 DEF w
    <2> QED BY <2>7, <2>8
  <1>3. s \in S
    <2> HIDE DEF S
    <2> QED BY <1>1, <1>2, SeqInduct
  <1> QED BY <1>3

\* t counts, for every d in D, the elements of s that are of d.
CountsOf(t, s, V, of, D) ==
  /\ of \in [V -> D]
  /\ t = [i \in 1..Len(SetToSeq(D)) |-> Len(Keep(s, {x \in V : of[x] = SetToSeq(D)[i]}))]

\* The classes make up the list when they are the elements of a set, too.
LEMMA GroupsMakeUp ==
  ASSUME NEW V, NEW D, IsFiniteSet(D), NEW of, NEW s \in Seq(V),
         NEW t, CountsOf(t, s, V, of, D)
  PROVE  t \in Seq(Int) /\ Total(t) = Len(s)
  <1> DEFINE r == SetToSeq(D)
             n == Len(r)
             cls == [x \in V |-> CHOOSE i \in 1..n : r[i] = of[x]]
             c == ClassCounts(s, V, n, cls)
  <1>0. of \in [V -> D] BY DEF CountsOf
  <1>1. /\ r \in Seq(D) /\ \A i, j \in 1..n : r[i] = r[j] => i = j
        /\ \A x \in D : \E i \in 1..n : r[i] = x
    BY SetToSeqLists
  <1>2. n \in Nat BY <1>1
  <1> HIDE DEF r, n
  <1>3. \A x \in V : cls[x] \in 1..n /\ r[cls[x]] = of[x] BY <1>0, <1>1
  <1>4. cls \in [V -> 1..n] BY <1>3
  <1> HIDE DEF cls
  <1>5. \A i \in 1..n : {x \in V : cls[x] = i} = {x \in V : of[x] = r[i]}
    <2> TAKE i \in 1..n
    <2>1. \A x \in V : cls[x] = i <=> of[x] = r[i] BY <1>1, <1>3
    <2> QED BY <2>1
  <1>6. c = t BY <1>5 DEF ClassCounts, CountsOf, r, n
  <1>7. c \in Seq(Nat) /\ Total(c) = Len(s) BY <1>2, <1>4, ClassesMakeUp
  <1> HIDE DEF c
  <1>8. c \in Seq(Int)
    <2>1. \A i \in 1..Len(c) : c[i] \in Int BY <1>7
    <2> QED BY <2>1, <1>7
  <1> QED BY <1>6, <1>7, <1>8

-----------------------------------------------------------------------------
(* Products, and sums of amounts by class.                                  *)

\* f holds what t multiplies up to, up to each of its positions.
Products(f, t) ==
  f[0] = 1 /\ Multiplied(t) = f[Len(t)] /\ \A i \in 1..Len(t) : f[i] = f[i - 1] * t[i]

\* What Multiplied computes, step by step; numbers multiply to a number.
LEMMA MultipliedType ==
  ASSUME NEW t \in Seq(Int)
  PROVE  Multiplied(t) \in Int
  <1> DEFINE n == Len(t)
             step == [x \in (1..n) \X Int |-> x[2] * t[x[1]]]
             Def(f) == [i \in 0..n |-> IF i = 0 THEN 1 ELSE f[i - 1] * t[i]]
             P == CHOOSE f : f = Def(f)
  <1>1. n \in Nat /\ \A i \in 1..n : t[i] \in Int OBVIOUS
  <1>2. Multiplied(t) = P[n] BY DEF Multiplied
  <1> HIDE DEF n
  <1>3. step \in [(1..n) \X Int -> Int]
    <2>1. \A x \in (1..n) \X Int : x[2] * t[x[1]] \in Int
      <3> TAKE x \in (1..n) \X Int
      <3>1. x[2] \in Int /\ t[x[1]] \in Int BY <1>1
      <3> DEFINE a == x[2]
                 b == t[x[1]]
      <3>2. a \in Int /\ b \in Int BY <3>1
      <3> HIDE DEF a, b
      <3>3. a * b \in Int BY <3>2
      <3> QED BY <3>3 DEF a, b
    <2> QED BY <2>1
  <1>4. \A i \in 1..n, k \in Int : step[<<i, k>>] = k * t[i] OBVIOUS
  <1> HIDE DEF step
  <1>5. PICK f \in [0..n -> Int] : Follows(f, n, 1, step)
    <2>1. 1 \in Int OBVIOUS
    <2> HIDE DEF P, Def
    <2> QED BY <1>1, <1>3, <2>1, RecursionExists
  <1>6. f[0] = 1 /\ \A i \in 1..n : f[i] = step[<<i, f[i - 1]>>] BY <1>5 DEF Follows
  <1>7. \A i \in 1..n : f[i - 1] \in Int BY <1>1
  <1>8. \A i \in 0..n : f[i] = IF i = 0 THEN 1 ELSE f[i - 1] * t[i]
    <2> TAKE i \in 0..n
    <2>1. CASE i = 0 BY <2>1, <1>6
    <2>2. CASE i # 0
      <3>1. i \in 1..n BY <2>2, <1>1
      <3>2. f[i] = f[i - 1] * t[i] BY <3>1, <1>4, <1>6, <1>7
      <3> QED BY <3>2, <2>2
    <2> QED BY <2>1, <2>2
  <1>9. f = Def(f) BY <1>8, Zenon
  <1>10. P = Def(P)
    <2> HIDE DEF Def
    <2> QED BY <1>9, Zenon DEF P
  <1> HIDE DEF P
  <1>11. \A i \in 0..n : P[i] = IF i = 0 THEN 1 ELSE P[i - 1] * t[i] BY <1>10, Zenon
  <1> DEFINE S == {m \in Nat : m <= n => P[m] = f[m]}
  <1>12. 0 \in S BY <1>1, <1>6, <1>11
  <1>13. ASSUME NEW m \in Nat, m \in S PROVE m + 1 \in S
    <2> SUFFICES ASSUME m + 1 <= n PROVE P[m + 1] = f[m + 1] OBVIOUS
    <2>1. m + 1 \in 0..n /\ m + 1 # 0 /\ (m + 1) - 1 = m /\ m <= n BY <1>1
    <2>2. P[m] = f[m] BY <1>13, <2>1
    <2>3. P[m + 1] = P[m] * t[m + 1] /\ f[m + 1] = f[m] * t[m + 1] BY <2>1, <1>8, <1>11
    <2> QED BY <2>2, <2>3
  <1>14. P[n] = f[n]
    <2> HIDE DEF S
    <2>1. n \in S BY <1>1, <1>12, <1>13, Induct
    <2> QED BY <2>1, <1>1 DEF S
  <1>15. f[n] \in Int BY <1>1
  <1> QED BY <1>2, <1>14, <1>15

\* An appended number is added.
LEMMA TotalAppend ==
  ASSUME NEW t \in Seq(Int), NEW x \in Int
  PROVE  Total(Append(t, x)) = Total(t) + x
  <1> DEFINE u == Append(t, x)
             n == Len(t)
  <1>1. u \in Seq(Int) /\ Len(u) = n + 1 /\ n \in Nat /\ u[n + 1] = x /\ \A i \in 1..n : u[i] = t[i]
    OBVIOUS
  <1>2. PICK f \in [0..Len(t) -> Int] : Sums(f, t) BY TotalSteps
  <1> HIDE DEF u
  <1>3. PICK g \in [0..Len(u) -> Int] : Sums(g, u) BY <1>1, TotalSteps
  <1>4. /\ f[0] = 0 /\ Total(t) = f[n] /\ \A i \in 1..n : f[i] = f[i - 1] + t[i]
        /\ g[0] = 0 /\ Total(u) = g[n + 1] /\ \A i \in 1..(n + 1) : g[i] = g[i - 1] + u[i]
    BY <1>1, <1>2, <1>3 DEF Sums
  <1> DEFINE S == {m \in Nat : m <= n => g[m] = f[m]}
  <1> HIDE DEF n
  <1>5. 0 \in S BY <1>1, <1>4
  <1>6. ASSUME NEW m \in Nat, m \in S PROVE m + 1 \in S
    <2> SUFFICES ASSUME m + 1 <= n PROVE g[m + 1] = f[m + 1] OBVIOUS
    <2>1. m + 1 \in 1..n /\ m + 1 \in 1..(n + 1) /\ (m + 1) - 1 = m /\ m <= n BY <1>1
    <2>2. g[m] = f[m] BY <1>6, <2>1
    <2>3. g[m + 1] = g[m] + u[m + 1] /\ f[m + 1] = f[m] + t[m + 1] /\ u[m + 1] = t[m + 1]
      BY <2>1, <1>1, <1>4
    <2> QED BY <2>2, <2>3
  <1>7. g[n] = f[n]
    <2> HIDE DEF S
    <2>1. n \in S BY <1>1, <1>5, <1>6, Induct
    <2> QED BY <2>1, <1>1 DEF S
  <1>8. n + 1 \in 1..(n + 1) /\ (n + 1) - 1 = n BY <1>1
  <1>9. g[n + 1] = g[n] + u[n + 1] BY <1>4, <1>8
  <1> QED BY <1>1, <1>4, <1>7, <1>9 DEF u

\* The list of what f makes of the elements of s.
Through(s, f) == Map(s, LAMBDA x : f[x])

\* t is as long as s, and made of it element by element.
MadeOf(t, s, f) == Len(t) = Len(s) /\ \A i \in 1..Len(s) : t[i] = f[s[i]]

\* It is, by f.
LEMMA ThroughIs ==
  ASSUME NEW V, NEW s \in Seq(V), NEW f
  PROVE  /\ Through(s, f) \in Seq({f[x] : x \in V})
         /\ MadeOf(Through(s, f), s, f)
  <1> DEFINE t == [i \in DOMAIN s |-> f[s[i]]]
  <1>1. t \in Seq({f[x] : x \in V}) /\ Len(t) = Len(s) /\ \A i \in 1..Len(s) : t[i] = f[s[i]] OBVIOUS
  <1>2. Through(s, f) = t \o <<>> BY DEF Through, Map
  <1> HIDE DEF t
  <1>3. t \o <<>> = t BY <1>1
  <1>4. MadeOf(t, s, f) BY <1>1 DEF MadeOf
  <1> QED BY <1>1, <1>2, <1>3, <1>4

\* What is made are values of f.
LEMMA ThroughType ==
  ASSUME NEW V, NEW W, NEW s \in Seq(V), NEW f \in [V -> W]
  PROVE  Through(s, f) \in Seq(W)
  <1>1. {f[x] : x \in V} \subseteq W OBVIOUS
  <1>2. Through(s, f) \in Seq({f[x] : x \in V}) BY ThroughIs
  <1> DEFINE R == {f[x] : x \in V}
  <1> HIDE DEF R
  <1> QED BY <1>1, <1>2 DEF R

\* Of one more element, one more is made.
LEMMA ThroughAppend ==
  ASSUME NEW V, NEW s \in Seq(V), NEW x \in V, NEW f
  PROVE  Through(Append(s, x), f) = Append(Through(s, f), f[x])
  <1> DEFINE u == Append(s, x)
             a == Through(u, f)
             b == Through(s, f)
             n == Len(s)
             W == {f[v] : v \in V}
  <1>1. u \in Seq(V) /\ Len(u) = n + 1 /\ n \in Nat /\ u[n + 1] = x /\ \A i \in 1..n : u[i] = s[i]
    OBVIOUS
  <1> HIDE DEF u
  <1>2. a \in Seq(W) /\ Len(a) = n + 1 /\ \A i \in 1..(n + 1) : a[i] = f[u[i]]
    <2>1. u \in Seq(V) BY <1>1
    <2>2. a \in Seq(W) /\ MadeOf(a, u, f) BY ONLY <2>1, ThroughIs
    <2> QED BY <2>2, <1>1 DEF MadeOf
  <1>3. b \in Seq(W) /\ Len(b) = n /\ \A i \in 1..n : b[i] = f[s[i]]
    <2>1. s \in Seq(V) OBVIOUS
    <2>2. b \in Seq(W) /\ MadeOf(b, s, f) BY ONLY <2>1, ThroughIs
    <2> QED BY <2>2 DEF MadeOf
  <1>4. f[x] \in W OBVIOUS
  <1> DEFINE y == f[x]
             c == Append(b, y)
  <1> HIDE DEF a, b, n, y, W
  <1>5. c \in Seq(W) /\ Len(c) = n + 1 /\ c[n + 1] = y /\ \A i \in 1..n : c[i] = b[i]
    BY <1>1, <1>3, <1>4 DEF y
  <1>6. \A i \in 1..(n + 1) : a[i] = c[i]
    <2> TAKE i \in 1..(n + 1)
    <2>1. CASE i = n + 1 BY <2>1, <1>1, <1>2, <1>5 DEF y
    <2>2. CASE i # n + 1
      <3>1. i \in 1..n BY <2>2, <1>1
      <3> QED BY <3>1, <1>1, <1>2, <1>3, <1>5
    <2> QED BY <2>1, <2>2
  <1> HIDE DEF c
  <1>7. a = c BY <1>2, <1>5, <1>6
  <1> QED BY <1>7 DEF a, b, c, u, y

\* Nothing is made of nothing.
LEMMA ThroughEmpty ==
  ASSUME NEW f PROVE Through(<<>>, f) = <<>>
  <1> DEFINE t == [i \in DOMAIN <<>> |-> f[<<>>[i]]]
  <1>2. t = <<>> OBVIOUS
  <1>3. Through(<<>>, f) = t \o <<>> BY DEF Through, Map
  <1> HIDE DEF t
  <1> QED BY <1>2, <1>3

\* Keeping of what was made those in B is making of those that become one.
LEMMA KeepThrough ==
  ASSUME NEW V, NEW f, NEW B, NEW s \in Seq(V)
  PROVE  Keep(Through(s, f), B) = Through(Keep(s, {x \in V : f[x] \in B}), f)
  <1> DEFINE A == {x \in V : f[x] \in B}
             W == {f[v] : v \in V}
             S == {u \in Seq(V) : Keep(Through(u, f), B) = Through(Keep(u, A), f)}
  <1>1. <<>> \in S BY KeepEmpty, ThroughEmpty
  <1>2. ASSUME NEW u \in Seq(V), NEW x \in V, u \in S PROVE Append(u, x) \in S
    <2>1. x \in A <=> f[x] \in B OBVIOUS
    <2>2. Keep(Through(u, f), B) = Through(Keep(u, A), f) BY <1>2
    <2> HIDE DEF A
    <2>3. Keep(u, A) \in Seq(V) BY KeepElements
    <2>4. Through(u, f) \in Seq(W) /\ f[x] \in W BY ThroughIs
    <2> HIDE DEF W
    <2>5. Through(Append(u, x), f) = Append(Through(u, f), f[x]) BY ThroughAppend
    <2>6. Keep(Append(Through(u, f), f[x]), B)
            = IF f[x] \in B THEN Append(Keep(Through(u, f), B), f[x]) ELSE Keep(Through(u, f), B)
      <3> DEFINE t == Through(u, f)
                 y == f[x]
      <3>1. t \in Seq(W) /\ y \in W BY <2>4
      <3> HIDE DEF t, y
      <3>2. Keep(Append(t, y), B) = IF y \in B THEN Append(Keep(t, B), y) ELSE Keep(t, B)
        BY <3>1, KeepAppend
      <3> QED BY <3>2 DEF t, y
    <2>7. Keep(Append(u, x), A) = IF x \in A THEN Append(Keep(u, A), x) ELSE Keep(u, A) BY KeepAppend
    <2>8. Through(Append(Keep(u, A), x), f) = Append(Through(Keep(u, A), f), f[x])
      BY <2>3, ThroughAppend
    <2>9. Keep(Through(Append(u, x), f), B) = Through(Keep(Append(u, x), A), f)
      BY ONLY <2>1, <2>2, <2>5, <2>6, <2>7, <2>8
    <2>10. Append(u, x) \in Seq(V) OBVIOUS
    <2> QED BY <2>9, <2>10
  <1>3. s \in S
    <2> HIDE DEF S
    <2> QED BY <1>1, <1>2, SeqInduct
  <1> QED BY <1>3

\* What the elements of s in each of the classes 1 to n amount to.
ClassAmounts(s, V, n, cls, w) ==
  [i \in 1..n |-> Total(Through(Keep(s, {x \in V : cls[x] = i}), w))]

\* The classes' amounts make up the amount of the list.
LEMMA ClassAmountsMakeUp ==
  ASSUME NEW V, NEW n \in Nat, NEW cls \in [V -> 1..n], NEW w \in [V -> Int], NEW s \in Seq(V)
  PROVE  /\ ClassAmounts(s, V, n, cls, w) \in Seq(Int)
         /\ Total(ClassAmounts(s, V, n, cls, w)) = Total(Through(s, w))
  <1> DEFINE Of(i) == {x \in V : cls[x] = i}
             Amounts(u) == ClassAmounts(u, V, n, cls, w)
             S == {u \in Seq(V) : Total(Amounts(u)) = Total(Through(u, w))}
  <1>1. ASSUME NEW u \in Seq(V)
        PROVE  /\ Amounts(u) \in Seq(Int) /\ Len(Amounts(u)) = n
               /\ \A i \in 1..n : Amounts(u)[i] = Total(Through(Keep(u, Of(i)), w))
    <2> DEFINE c == Amounts(u)
    <2>1. c = [i \in 1..n |-> Total(Through(Keep(u, Of(i)), w))] BY DEF ClassAmounts
    <2> HIDE DEF Of, c
    <2>2. \A i \in 1..n : Total(Through(Keep(u, Of(i)), w)) \in Int
      <3> TAKE i \in 1..n
      <3>1. Keep(u, Of(i)) \in Seq(V) BY KeepElements
      <3>2. Through(Keep(u, Of(i)), w) \in Seq(Int) BY <3>1, ThroughType
      <3> QED BY <3>2, TotalType
    <2>3. c \in [1..n -> Int] BY <2>1, <2>2
    <2>4. c \in Seq(Int) /\ Len(c) = n BY <2>3
    <2>5. \A i \in 1..n : c[i] = Total(Through(Keep(u, Of(i)), w)) BY <2>1
    <2> QED BY <2>4, <2>5 DEF c, Of
  <1> HIDE DEF Amounts
  <1>2. <<>> \in S
    <2>1. <<>> \in Seq(V) /\ <<>> \in Seq(Int) /\ Len(<<>>) = 0 OBVIOUS
    <2>2. Total(<<>>) = 0 BY <2>1, TotalType
    <2> DEFINE c == Amounts(<<>>)
    <2>3. c \in Seq(Int) /\ Len(c) = n /\ \A i \in 1..n : c[i] = Total(Through(Keep(<<>>, Of(i)), w))
      BY <1>1, <2>1
    <2> HIDE DEF c, Of
    <2>4. \A i \in 1..n : c[i] = 0 BY <2>2, <2>3, KeepEmpty, ThroughEmpty
    <2>5. Total(c) = 0 BY <2>3, <2>4, TotalZero
    <2> QED BY <2>1, <2>2, <2>5, ThroughEmpty DEF c
  <1>3. ASSUME NEW u \in Seq(V), NEW x \in V, u \in S PROVE Append(u, x) \in S
    <2> DEFINE v == Append(u, x)
               c == Amounts(u)
               d == Amounts(v)
               j == cls[x]
               y == w[x]
    <2>1. v \in Seq(V) OBVIOUS
    <2>2. c \in Seq(Int) /\ Len(c) = n /\ \A i \in 1..n : c[i] = Total(Through(Keep(u, Of(i)), w)) BY <1>1
    <2>3. d \in Seq(Int) /\ Len(d) = n /\ \A i \in 1..n : d[i] = Total(Through(Keep(v, Of(i)), w))
      BY <1>1, <2>1
    <2>4. j \in 1..n /\ \A i \in 1..n : x \in Of(i) <=> i = j OBVIOUS
    <2>5. Total(c) = Total(Through(u, w)) BY <1>3
    <2>6. y \in Int OBVIOUS
    <2>7. \A t \in Seq(V) : Total(Through(Append(t, x), w)) = Total(Through(t, w)) + y
      <3> TAKE t \in Seq(V)
      <3>1. Through(t, w) \in Seq(Int) BY ThroughType
      <3>2. Through(Append(t, x), w) = Append(Through(t, w), y) BY ThroughAppend
      <3> HIDE DEF y
      <3> QED BY <2>6, <3>1, <3>2, TotalAppend
    <2> HIDE DEF c, d, j, y, Of
    <2>8. ASSUME NEW i \in 1..n PROVE d[i] = IF i = j THEN c[i] + y ELSE c[i]
      <3> DEFINE k == Keep(u, Of(i))
      <3>1. k \in Seq(V) BY KeepElements
      <3>2. Keep(v, Of(i)) = IF x \in Of(i) THEN Append(k, x) ELSE k BY KeepAppend
      <3>3. c[i] = Total(Through(k, w)) /\ d[i] = Total(Through(Keep(v, Of(i)), w)) BY <2>2, <2>3
      <3> HIDE DEF k, v
      <3>4. Total(Through(Append(k, x), w)) = Total(Through(k, w)) + y BY <3>1, <2>7
      <3> QED BY ONLY <2>4, <3>2, <3>3, <3>4, i \in 1..n
    <2>10. Total(d) = Total(c) + y
      <3>1. c \in Seq(Int) /\ d \in Seq(Int) /\ Len(c) = Len(d) BY <2>2, <2>3
      <3>2. j \in 1..Len(c) /\ d[j] = c[j] + y BY <2>2, <2>4, <2>8
      <3>3. \A i \in 1..Len(c) : i # j => d[i] = c[i] BY <2>2, <2>8
      <3> QED BY <2>6, <3>1, <3>2, <3>3, TotalBump
    <2>11. Total(Through(v, w)) = Total(Through(u, w)) + y BY <2>7
    <2>12. Total(d) = Total(Through(v, w)) BY <2>5, <2>10, <2>11
    <2> QED BY <2>1, <2>12 DEF d
  <1>4. s \in S
    <2> HIDE DEF S
    <2> QED BY <1>2, <1>3, SeqInduct
  <1> QED BY <1>1, <1>4 DEF Amounts

\* t holds, for every d in D, what the elements of s that are of d amount to.
AmountsOf(t, s, V, of, D, w) ==
  /\ of \in [V -> D] /\ w \in [V -> Int]
  /\ t = [i \in 1..Len(SetToSeq(D)) |-> Total(Through(Keep(s, {x \in V : of[x] = SetToSeq(D)[i]}), w))]

\* The classes' amounts make up the amount when they are the elements of a set, too.
LEMMA AmountsMakeUp ==
  ASSUME NEW V, NEW D, IsFiniteSet(D), NEW of, NEW w, NEW s \in Seq(V),
         NEW t, AmountsOf(t, s, V, of, D, w)
  PROVE  t \in Seq(Int) /\ Total(t) = Total(Through(s, w))
  <1> DEFINE r == SetToSeq(D)
             n == Len(r)
             cls == [x \in V |-> CHOOSE i \in 1..n : r[i] = of[x]]
             c == ClassAmounts(s, V, n, cls, w)
  <1>0. of \in [V -> D] /\ w \in [V -> Int] BY DEF AmountsOf
  <1>1. /\ r \in Seq(D) /\ \A i, j \in 1..n : r[i] = r[j] => i = j
        /\ \A x \in D : \E i \in 1..n : r[i] = x
    BY SetToSeqLists
  <1>2. n \in Nat BY <1>1
  <1> HIDE DEF r, n
  <1>3. \A x \in V : cls[x] \in 1..n /\ r[cls[x]] = of[x] BY <1>0, <1>1
  <1>4. cls \in [V -> 1..n] BY <1>3
  <1> HIDE DEF cls
  <1>5. \A i \in 1..n : {x \in V : cls[x] = i} = {x \in V : of[x] = r[i]}
    <2> TAKE i \in 1..n
    <2>1. \A x \in V : cls[x] = i <=> of[x] = r[i] BY <1>1, <1>3
    <2> QED BY <2>1
  <1>6. c = t BY <1>5 DEF ClassAmounts, AmountsOf, r, n
  <1>7. c \in Seq(Int) /\ Total(c) = Total(Through(s, w)) BY <1>0, <1>2, <1>4, ClassAmountsMakeUp
  <1> QED BY <1>6, <1>7
=============================================================================
