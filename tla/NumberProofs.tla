---------------------------- MODULE NumberProofs ----------------------------
(* Facts about numbers that the proofs of several components rest on.        *)
EXTENDS Integers, WellFoundedInduction, TLAPS

\* A set of numbers that is not empty has a least element: the first index
\* with a property, which the models choose where the code walks a list.
LEMMA Least ==
    ASSUME NEW S, S \subseteq Nat, S # {}
    PROVE  \E i \in S : \A j \in S : i <= j
<1> DEFINE R == {ss \in Nat \X Nat : ss[1] < ss[2]}
<1>1. IsWellFoundedOn(R, Nat)
  BY NatLessThanWellFounded DEF OpToRel
<1>2. PICK i \in S : \A j \in S : ~ (<<j, i>> \in R)
  <2> HIDE DEF R
  <2> QED BY <1>1, WFMin
<1>3. \A j \in S : ~ (j < i)
  BY <1>2
<1> QED BY <1>3

\* The C cast of a number to a signed type of 2 * h values: one that the type
\* holds survives, whether the residue is taken as it is or h or more.
LEMMA CastExact ==
    ASSUME NEW h \in Nat, h >= 1, NEW x \in Int, -h <= x, x < h
    PROVE  LET r == x % (2 * h) IN (IF r >= h THEN r - 2 * h ELSE r) = x
<1> DEFINE m == 2 * h
<1>0. m \in Nat /\ m >= 1
  OBVIOUS
<1>1. CASE x >= 0
  <2>1. x < m
    BY <1>1
  <2>2. x % m = x
    <3> HIDE DEF m
    <3> QED BY <1>0, <1>1, <2>1
  <2> QED BY <2>2, <1>1
<1>2. CASE x < 0
  <2>1. -m < x
    BY <1>2
  <2>2. x % m = x + m
    <3> HIDE DEF m
    <3> QED BY <1>0, <1>2, <2>1
  <2> QED BY <2>2, <1>2
<1> QED BY <1>1, <1>2

\* Induction up to n, for a property given as the set of its numbers.
LEMMA UpTo ==
    ASSUME NEW n \in Nat, NEW S, 0 \in S, \A k \in 0 .. n - 1 : k \in S => k + 1 \in S
    PROVE  \A k \in 0 .. n : k \in S
<1> DEFINE T == {k \in 0 .. n : k \notin S}
<1> SUFFICES ASSUME T # {} PROVE FALSE
  OBVIOUS
<1>1. PICK m \in T : \A k \in T : m <= k
  <2>1. T \subseteq Nat
    OBVIOUS
  <2> HIDE DEF T
  <2> QED BY <2>1, Least
<1>2. m \in 0 .. n /\ m \notin S /\ m # 0
  BY <1>1
<1>3. m - 1 \in 0 .. n - 1 /\ (m - 1) + 1 = m /\ ~(m <= m - 1)
  BY <1>2
<1>4. m - 1 \in S
  BY <1>1, <1>3
<1> QED BY <1>2, <1>3, <1>4

\* s holds the sums of f[1], f[1] + f[2] and so on.
IsSum(s, f, n) ==
    /\ s \in [0 .. n -> Nat] /\ s[0] = 0
    /\ \A k \in 1 .. n : s[k] = s[k - 1] + f[k]

\* However many numbers there are, the function of their partial sums exists.
LEMMA IsSumExists ==
    ASSUME NEW n \in Nat, NEW f \in [1 .. n -> Nat]
    PROVE  \E s : IsSum(s, f, n)
<1> DEFINE S == {m \in 0 .. n : \E s : IsSum(s, f, m)}
<1>1. 0 \in S
  <2> DEFINE s == [k \in 0 .. 0 |-> 0]
  <2>1. s \in [0 .. 0 -> Nat] /\ s[0] = 0
    OBVIOUS
  <2> HIDE DEF s
  <2>2. IsSum(s, f, 0)
    BY <2>1 DEF IsSum
  <2> QED BY <2>2
<1>2. ASSUME NEW m \in 0 .. n - 1, m \in S PROVE m + 1 \in S
  <2>1. PICK s : IsSum(s, f, m)
    BY <1>2
  <2> DEFINE t == [k \in 0 .. m + 1 |-> IF k = m + 1 THEN s[m] + f[m + 1] ELSE s[k]]
  <2>2. m \in Nat /\ m + 1 \in 1 .. n /\ s \in [0 .. m -> Nat] /\ s[0] = 0
    BY <2>1 DEF IsSum
  <2>3. s[m] \in Nat /\ f[m + 1] \in Nat
    BY <2>2
  <2>4. s[m] + f[m + 1] \in Nat
    BY <2>3
  <2>5. ASSUME NEW k \in 0 .. m + 1 PROVE t[k] \in Nat
    <3>1. k # m + 1 => k \in 0 .. m
      BY <2>2
    <3> QED BY <2>2, <2>4, <3>1
  <2>6. t \in [0 .. m + 1 -> Nat]
    BY <2>5
  <2>7. t[0] = 0
    BY <2>2
  <2>8. ASSUME NEW k \in 1 .. m + 1 PROVE t[k] = t[k - 1] + f[k]
    <3>1. k \in 0 .. m + 1 /\ k - 1 \in 0 .. m + 1 /\ k - 1 # m + 1
      BY <2>2
    <3>2. t[k - 1] = s[k - 1]
      BY <3>1
    <3>3. CASE k = m + 1
      <4>1. k - 1 = m /\ t[k] = s[m] + f[m + 1]
        BY <2>2, <3>1, <3>3
      <4> QED BY <3>2, <3>3, <4>1
    <3>4. CASE k # m + 1
      <4>1. k \in 1 .. m /\ t[k] = s[k]
        BY <2>2, <3>1, <3>4
      <4> HIDE DEF t
      <4> QED BY <2>1, <3>2, <4>1 DEF IsSum
    <3> QED BY <3>3, <3>4
  <2>9. IsSum(t, f, m + 1)
    <3> HIDE DEF t
    <3> QED BY <2>6, <2>7, <2>8 DEF IsSum
  <2>10. m + 1 \in 0 .. n
    BY <2>2
  <2> HIDE DEF t
  <2> QED BY <2>9, <2>10
<1>3. n \in 0 .. n
  OBVIOUS
<1>4. n \in S
  <2> HIDE DEF S
  <2> QED BY <1>1, <1>2, <1>3, UpTo
<1> QED BY <1>4

\* Sums of the same numbers are equal, whatever follows them.
LEMMA IsSumUnique ==
    ASSUME NEW n \in Nat, NEW f, NEW g, NEW s, NEW t, NEW m \in Nat, NEW k \in Nat,
           IsSum(s, f, n), IsSum(t, g, m), k <= n, k <= m,
           \A j \in 1 .. k : f[j] = g[j]
    PROVE  s[k] = t[k]
<1> DEFINE S == {j \in 0 .. k : s[j] = t[j]}
<1>1. 0 \in S
  BY DEF IsSum
<1>2. ASSUME NEW j \in 0 .. k - 1, j \in S PROVE j + 1 \in S
  <2>1. j + 1 \in 1 .. n /\ j + 1 \in 1 .. m /\ j + 1 \in 1 .. k /\ (j + 1) - 1 = j
    OBVIOUS
  <2>2. s[j + 1] = s[j] + f[j + 1] /\ t[j + 1] = t[j] + g[j + 1] /\ s[j] = t[j]
    BY <1>2, <2>1 DEF IsSum
  <2>3. f[j + 1] = g[j + 1] /\ j + 1 \in 0 .. k
    BY <2>1
  <2> QED BY <2>2, <2>3
<1>3. k \in 0 .. k
  OBVIOUS
<1>4. k \in S
  <2> HIDE DEF S
  <2> QED BY <1>1, <1>2, <1>3, UpTo
<1> QED BY <1>4
=============================================================================
