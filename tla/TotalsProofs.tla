---------------------------- MODULE TotalsProofs ----------------------------
(***************************************************************************)
(* What appending to, taking from and updating a sequence does to its      *)
(* total.  A recursive function is known to exist only by induction, and   *)
(* the induction principle is derived here in a first-order form from the  *)
(* well-foundedness of < on Nat.                                           *)
(***************************************************************************)
EXTENDS Totals, WellFoundedInduction, TLAPS

(* A nonempty set of naturals has a least element. *)
LEMMA LeastElement ==
    ASSUME NEW T \in SUBSET Nat, T # {}
    PROVE  \E n \in T : \A m \in T : n <= m
<1>1. PICK n \in T : \A y \in T : ~ (<<y, n>> \in OpToRel(<, Nat))
    BY NatLessThanWellFounded, WFMin
<1>2. ASSUME NEW m \in T PROVE n <= m
    <2>1. n \in Nat /\ m \in Nat
        OBVIOUS
    <2>2. ~ (m < n)
        BY <1>1, <2>1 DEF OpToRel
    <2>3. QED
        BY <2>1, <2>2
<1>3. QED
    BY <1>2

(* A set that holds 0 and is closed under successor holds every natural. *)
LEMMA Induction ==
    ASSUME NEW S, 0 \in S, \A n \in Nat : n \in S => n + 1 \in S
    PROVE  \A n \in Nat : n \in S
<1> DEFINE Bad == {n \in Nat : n \notin S}
<1> SUFFICES ASSUME Bad # {} PROVE FALSE
    OBVIOUS
<1>1. PICK n \in Bad : \A m \in Bad : n <= m
    <2>1. Bad \in SUBSET Nat
        OBVIOUS
    <2> HIDE DEF Bad
    <2>2. QED
        BY <2>1, LeastElement
<1>2. n \in Nat /\ n # 0
    BY <1>1
<1>3. n - 1 \in Nat /\ n - 1 \in S
    BY <1>1, <1>2
<1>4. (n - 1) + 1 \in S
    BY <1>3
<1>5. QED
    BY <1>1, <1>2, <1>4

(* p is the function of the sums of the prefixes of s up to length n. *)
IsPrefixSum(p, s, n) ==
    /\ p \in [0..n -> Nat]
    /\ p[0] = 0
    /\ \A i \in 0..n - 1 : p[i + 1] = p[i] + s[i + 1]

(* Every sequence of naturals has a prefix-sum function. *)
LEMMA PrefixSumExists ==
    ASSUME NEW s \in Seq(Nat)
    PROVE  \E p : IsPrefixSum(p, s, Len(s))
<1> DEFINE S == {n \in Nat : n <= Len(s) => \E p : IsPrefixSum(p, s, n)}
<1>1. 0 \in S
    <2>1. IsPrefixSum([i \in 0..0 |-> 0], s, 0)
        BY DEF IsPrefixSum
    <2>2. QED
        BY <2>1
<1>2. ASSUME NEW n \in Nat, n \in S PROVE n + 1 \in S
    <2> SUFFICES ASSUME n + 1 <= Len(s)
                 PROVE  \E p : IsPrefixSum(p, s, n + 1)
        OBVIOUS
    <2>1. PICK p : IsPrefixSum(p, s, n)
        BY <1>2
    <2> DEFINE q == [i \in 0..n + 1 |-> IF i = n + 1 THEN p[n] + s[n + 1] ELSE p[i]]
    <2>2. s[n + 1] \in Nat
        OBVIOUS
    <2>3. q \in [0..n + 1 -> Nat] /\ q[0] = 0
        BY <2>1, <2>2 DEF IsPrefixSum
    <2>4. ASSUME NEW i \in 0..(n + 1) - 1 PROVE q[i + 1] = q[i] + s[i + 1]
        <3>1. CASE i = n
            BY <2>1, <2>2, <3>1 DEF IsPrefixSum
        <3>2. CASE i # n
            BY <2>1, <3>2 DEF IsPrefixSum
        <3>3. QED
            BY <3>1, <3>2
    <2>5. IsPrefixSum(q, s, n + 1)
        BY <2>3, <2>4 DEF IsPrefixSum
    <2>6. QED
        BY <2>5
<1> HIDE DEF S
<1>3. \A n \in Nat : n \in S
    BY <1>1, <1>2, Induction
<1>4. Len(s) \in S
    BY <1>3
<1>5. QED
    BY <1>4 DEF S

(* Total is the last value of any prefix-sum function. *)
LEMMA TotalIsPrefixSum ==
    ASSUME NEW s \in Seq(Nat), NEW p, IsPrefixSum(p, s, Len(s))
    PROVE  Total(s) = p[Len(s)] /\ p[Len(s)] \in Nat
<1> DEFINE F(f) == [i \in 0..Len(s) |-> IF i = 0 THEN 0 ELSE f[i - 1] + s[i]]
           sum == CHOOSE f : f = F(f)
<1>1. p = F(p)
    <2>1. ASSUME NEW i \in 0..Len(s), i # 0 PROVE p[i] = p[i - 1] + s[i]
        <3>1. i - 1 \in 0..Len(s) - 1 /\ (i - 1) + 1 = i
            BY <2>1
        <3>2. QED
            BY <3>1 DEF IsPrefixSum
    <2>2. QED
        BY <2>1 DEF IsPrefixSum
<1>2. sum = F(sum)
    BY <1>1
<1> HIDE DEF sum
<1> DEFINE S == {n \in Nat : n <= Len(s) => sum[n] = p[n]}
<1>3. 0 \in S
    BY <1>2 DEF IsPrefixSum
<1>4. ASSUME NEW n \in Nat, n \in S PROVE n + 1 \in S
    <2> SUFFICES ASSUME n + 1 <= Len(s) PROVE sum[n + 1] = p[n + 1]
        OBVIOUS
    <2>1. sum[n] = p[n]
        BY <1>4
    <2>2. sum[n + 1] = sum[n] + s[n + 1]
        BY <1>2
    <2>3. p[n + 1] = p[n] + s[n + 1]
        BY DEF IsPrefixSum
    <2>4. QED
        BY <2>1, <2>2, <2>3
<1> HIDE DEF S
<1>5. \A n \in Nat : n \in S
    BY <1>3, <1>4, Induction
<1>6. sum[Len(s)] = p[Len(s)]
    BY <1>5 DEF S
<1>7. p[Len(s)] \in Nat
    BY DEF IsPrefixSum
<1>8. QED
    BY <1>6, <1>7 DEF Total, sum

(* The total of a sequence of naturals is a natural. *)
LEMMA TotalType ==
    ASSUME NEW s \in Seq(Nat)
    PROVE  Total(s) \in Nat
BY PrefixSumExists, TotalIsPrefixSum

(* The empty sequence totals 0. *)
LEMMA TotalEmpty == Total(<<>>) = 0
<1> DEFINE p == [i \in 0..0 |-> 0]
<1>1. <<>> \in Seq(Nat) /\ Len(<<>>) = 0
    OBVIOUS
<1>2. IsPrefixSum(p, <<>>, Len(<<>>)) /\ p[0] = 0
    BY <1>1 DEF IsPrefixSum
<1> HIDE DEF p
<1>3. QED
    BY <1>1, <1>2, TotalIsPrefixSum

(* Appending an element adds it. *)
LEMMA TotalAppend ==
    ASSUME NEW s \in Seq(Nat), NEW v \in Nat
    PROVE  Total(Append(s, v)) = Total(s) + v
<1>1. PICK p : IsPrefixSum(p, s, Len(s))
    BY PrefixSumExists
<1> DEFINE t == Append(s, v)
           n == Len(s)
           q == [i \in 0..n + 1 |-> IF i = n + 1 THEN p[n] + v ELSE p[i]]
<1>2. /\ t \in Seq(Nat) /\ Len(t) = n + 1 /\ t[n + 1] = v /\ n \in Nat
      /\ \A i \in 1..n : t[i] = s[i]
    OBVIOUS
<1>3. Total(s) = p[n] /\ p \in [0..n -> Nat] /\ p[0] = 0
    BY <1>1, TotalIsPrefixSum DEF IsPrefixSum
<1>4. \A i \in 0..n - 1 : p[i + 1] = p[i] + s[i + 1]
    BY <1>1 DEF IsPrefixSum
<1> HIDE DEF t, n
<1>5. q \in [0..n + 1 -> Nat] /\ q[0] = 0 /\ q[n + 1] = p[n] + v
    BY <1>2, <1>3
<1>6. ASSUME NEW i \in 0..(n + 1) - 1 PROVE q[i + 1] = q[i] + t[i + 1]
    <2>1. CASE i = n
        BY <1>2, <1>3, <2>1
    <2>2. CASE i # n
        BY <1>2, <1>3, <1>4, <2>2
    <2>3. QED
        BY <2>1, <2>2
<1> HIDE DEF q
<1>7. IsPrefixSum(q, t, Len(t))
    BY <1>2, <1>5, <1>6 DEF IsPrefixSum
<1>8. Total(t) = q[Len(t)]
    BY <1>2, <1>7, TotalIsPrefixSum
<1>9. QED
    BY <1>2, <1>3, <1>5, <1>8 DEF t

(* Taking the head off subtracts it. *)
LEMMA TotalTail ==
    ASSUME NEW s \in Seq(Nat), s # <<>>
    PROVE  Total(s) = Head(s) + Total(Tail(s))
<1>1. PICK p : IsPrefixSum(p, Tail(s), Len(Tail(s)))
    <2>1. Tail(s) \in Seq(Nat)
        OBVIOUS
    <2>2. QED
        BY <2>1, PrefixSumExists
<1> DEFINE t == Tail(s)
           n == Len(t)
           h == Head(s)
           q == [i \in 0..n + 1 |-> IF i = 0 THEN 0 ELSE h + p[i - 1]]
<1>2. /\ Len(s) = n + 1 /\ n \in Nat /\ h = s[1] /\ h \in Nat /\ t \in Seq(Nat)
      /\ \A i \in 1..n : s[i + 1] = t[i]
    OBVIOUS
<1>3. Total(t) = p[n] /\ p \in [0..n -> Nat] /\ p[0] = 0
    BY <1>1, <1>2, TotalIsPrefixSum DEF IsPrefixSum
<1>4. \A i \in 0..n - 1 : p[i + 1] = p[i] + t[i + 1]
    BY <1>1 DEF IsPrefixSum
<1> HIDE DEF t, n, h
<1>5. q \in [0..n + 1 -> Nat] /\ q[0] = 0 /\ q[n + 1] = h + p[n]
    BY <1>2, <1>3
<1>6. ASSUME NEW i \in 0..(n + 1) - 1 PROVE q[i + 1] = q[i] + s[i + 1]
    <2>1. CASE i = 0
        BY <1>2, <1>3, <2>1
    <2>2. CASE i # 0
        <3> DEFINE j == i - 1
        <3>1. j \in 0..n - 1 /\ j + 1 = i
            BY <1>2, <2>2
        <3>2. q[i] = h + p[j] /\ q[i + 1] = h + p[i]
            BY <1>2, <2>2
        <3>3. s[i + 1] = t[i]
            BY <1>2, <2>2
        <3> HIDE DEF j, q
        <3>4. p[i] = p[j] + t[i]
            BY <1>4, <3>1
        <3>5. p[j] \in Nat /\ p[i] \in Nat
            BY <1>2, <1>3, <3>1
        <3>6. t[i] \in Nat
            BY <1>2, <2>2, SMTT(20) DEF n
        <3>7. h + p[i] = (h + p[j]) + t[i]
            <4>1. h \in Nat
                BY <1>2
            <4>2. h + (p[j] + t[i]) = (h + p[j]) + t[i]
                BY <3>5, <3>6, <4>1
            <4>3. QED
                BY <3>4, <4>2
        <3>8. QED
            BY <3>2, <3>3, <3>7
    <2>3. QED
        BY <2>1, <2>2
<1> HIDE DEF q
<1>7. IsPrefixSum(q, s, Len(s))
    BY <1>2, <1>5, <1>6 DEF IsPrefixSum
<1>8. Total(s) = q[Len(s)]
    BY <1>2, <1>7, TotalIsPrefixSum
<1>9. QED
    BY <1>2, <1>3, <1>5, <1>8 DEF t, h

(* Replacing one element changes the total by the difference. *)
LEMMA TotalUpdate ==
    ASSUME NEW s \in Seq(Nat), NEW k \in 1..Len(s), NEW v \in Nat
    PROVE  /\ s[k] \in Nat
           /\ s[k] <= Total(s)
           /\ Total([s EXCEPT ![k] = v]) + s[k] = Total(s) + v
<1>1. PICK p : IsPrefixSum(p, s, Len(s))
    BY PrefixSumExists
<1> DEFINE t == [s EXCEPT ![k] = v]
           n == Len(s)
           q == [i \in 0..n |-> IF i < k THEN p[i] ELSE (p[i] - s[k]) + v]
<1>2. /\ t \in Seq(Nat) /\ Len(t) = n /\ t[k] = v /\ s[k] \in Nat
      /\ n \in Nat /\ k \in 1..n /\ k \in Nat
      /\ \A i \in 1..n : i # k => t[i] = s[i]
      /\ \A i \in 1..n : s[i] \in Nat
    OBVIOUS
<1>3. Total(s) = p[n] /\ p \in [0..n -> Nat] /\ p[0] = 0
    BY <1>1, TotalIsPrefixSum DEF IsPrefixSum
<1>4. \A i \in 0..n - 1 : p[i + 1] = p[i] + s[i + 1]
    BY <1>1 DEF IsPrefixSum
<1> HIDE DEF t, n
<1>5. ASSUME NEW i \in 0..n - 1 PROVE q[i + 1] = q[i] + t[i + 1]
    <2>1. p[i + 1] = p[i] + s[i + 1] /\ p[i] \in Nat /\ s[i + 1] \in Nat
        BY <1>2, <1>3, <1>4, SMTT(20)
    <2>2. CASE i + 1 < k
        BY <1>2, <2>1, <2>2
    <2>3. CASE i + 1 = k
        BY <1>2, <2>1, <2>3, SMTT(20)
    <2>4. CASE i + 1 > k
        <3>1. q[i + 1] = (p[i + 1] - s[k]) + v /\ q[i] = (p[i] - s[k]) + v
            BY <1>2, <2>4
        <3>2. t[i + 1] = s[i + 1]
            BY <1>2, <2>4
        <3> HIDE DEF q
        <3>3. s[k] \in Nat
            BY <1>2
        <3>4. (p[i + 1] - s[k]) + v = ((p[i] - s[k]) + v) + s[i + 1]
            BY <2>1, <3>3
        <3>5. QED
            BY <3>1, <3>2, <3>4
    <2>5. QED
        BY <1>2, <2>2, <2>3, <2>4
<1>6. \A i \in k..n : p[i] >= s[k]
    <2> DEFINE S == {m \in Nat : k + m <= n => p[k + m] >= s[k]}
    <2>1. 0 \in S
        <3>1. k - 1 \in 0..n - 1 /\ (k - 1) + 1 = k
            BY <1>2
        <3>2. p[k] = p[k - 1] + s[k] /\ p[k - 1] \in Nat
            BY <1>2, <1>3, <1>4, <3>1, SMTT(20)
        <3>3. QED
            BY <1>2, <3>2
    <2>2. ASSUME NEW m \in Nat, m \in S PROVE m + 1 \in S
        <3> SUFFICES ASSUME k + (m + 1) <= n PROVE p[k + (m + 1)] >= s[k]
            OBVIOUS
        <3>1. k + m \in 0..n - 1 /\ (k + m) + 1 = k + (m + 1)
            BY <1>2
        <3> DEFINE j == k + m
        <3>2. p[j] >= s[k]
            BY <1>2, <2>2
        <3>3. j \in 0..n - 1 /\ j + 1 = k + (m + 1) /\ j \in 0..n /\ j + 1 \in 1..n
            BY <1>2, <3>1
        <3> HIDE DEF j, S
        <3>4. p[j + 1] = p[j] + s[j + 1] /\ p[j] \in Nat /\ s[j + 1] \in Nat
            BY <1>2, <1>3, <1>4, <3>3
        <3>5. p[j + 1] >= s[k]
            BY <1>2, <3>2, <3>4, SMTT(20)
        <3>6. QED
            BY <3>3, <3>5
    <2> HIDE DEF S
    <2>3. \A m \in Nat : m \in S
        BY <2>1, <2>2, Induction
    <2>4. ASSUME NEW i \in k..n PROVE p[i] >= s[k]
        <3>1. i - k \in Nat /\ k + (i - k) = i
            BY <1>2
        <3>2. i - k \in S
            BY <2>3, <3>1
        <3>3. QED
            BY <1>2, <3>1, <3>2 DEF S
    <2>5. QED
        BY <2>4
<1>7. q \in [0..n -> Nat] /\ q[0] = 0
    <2>1. ASSUME NEW i \in 0..n
          PROVE  (IF i < k THEN p[i] ELSE (p[i] - s[k]) + v) \in Nat
        <3>1. p[i] \in Nat
            BY <1>3
        <3>2. CASE i < k
            BY <3>1, <3>2
        <3>3. CASE ~ (i < k)
            <4>1. p[i] >= s[k]
                BY <1>2, <1>6, <3>3
            <4>2. QED
                BY <1>2, <3>1, <3>3, <4>1, SMTT(20)
        <3>4. QED
            BY <3>2, <3>3
    <2>2. q[0] = 0
        BY <1>2, <1>3
    <2>3. QED
        BY <2>1, <2>2
<1>8. q[n] = (p[n] - s[k]) + v /\ p[n] \in Nat /\ p[n] >= s[k]
    BY <1>2, <1>3, <1>6
<1> HIDE DEF q
<1>9. IsPrefixSum(q, t, Len(t))
    BY <1>2, <1>5, <1>7 DEF IsPrefixSum
<1>10. Total(t) = q[n]
    BY <1>2, <1>9, TotalIsPrefixSum
<1>11. QED
    BY <1>2, <1>3, <1>8, <1>10 DEF t

(* A sequence of zeros totals 0. *)
LEMMA TotalZeros ==
    ASSUME NEW s \in Seq(Nat), \A i \in 1..Len(s) : s[i] = 0
    PROVE  Total(s) = 0
<1> DEFINE p == [i \in 0..Len(s) |-> 0]
<1>1. Len(s) \in Nat
    OBVIOUS
<1>2. IsPrefixSum(p, s, Len(s)) /\ p[Len(s)] = 0
    BY <1>1 DEF IsPrefixSum
<1> HIDE DEF p
<1>3. QED
    BY <1>2, TotalIsPrefixSum

(* A function on 1..n with natural values is a sequence of naturals. *)
LEMMA FunctionIsSequence ==
    ASSUME NEW n \in Nat, NEW f \in [1..n -> Nat]
    PROVE  f \in Seq(Nat) /\ Len(f) = n
OBVIOUS

(* The same for a function on 1..n. *)
LEMMA TotalNone ==
    ASSUME NEW n \in Nat, NEW f \in [1..n -> Nat], \A i \in 1..n : f[i] = 0
    PROVE  Total(f) = 0
<1>1. f \in Seq(Nat) /\ Len(f) = n
    BY FunctionIsSequence
<1>2. QED
    BY <1>1, TotalZeros

(* The per-task form of TotalUpdate. *)
LEMMA TotalUpdateFunction ==
    ASSUME NEW n \in Nat, NEW f \in [1..n -> Nat], NEW k \in 1..n, NEW v \in Nat
    PROVE  /\ f[k] \in Nat
           /\ f[k] <= Total(f)
           /\ Total([f EXCEPT ![k] = v]) \in Nat
           /\ Total([f EXCEPT ![k] = v]) + f[k] = Total(f) + v
<1>1. f \in Seq(Nat) /\ Len(f) = n
    BY FunctionIsSequence
<1>2. [f EXCEPT ![k] = v] \in [1..n -> Nat]
    OBVIOUS
<1>3. [f EXCEPT ![k] = v] \in Seq(Nat)
    BY <1>2, FunctionIsSequence
<1>4. QED
    BY <1>1, <1>3, TotalUpdate, TotalType

(* Elements that are at most b sum up to at most b each, all but the k-th.  *)
LEMMA TotalBound ==
    ASSUME NEW n \in Nat, NEW f \in [1..n -> Nat], NEW k \in 1..n, NEW b \in Nat,
           \A i \in 1..n : f[i] <= b
    PROVE  Total(f) <= f[k] + (n - 1) * b
<1>1. f \in Seq(Nat) /\ Len(f) = n
    BY FunctionIsSequence
<1>2. PICK p : IsPrefixSum(p, f, n)
    BY <1>1, PrefixSumExists
<1>3. Total(f) = p[n]
    BY <1>1, <1>2, TotalIsPrefixSum
<1> DEFINE Bound(i) == IF k <= i THEN f[k] + (i - 1) * b ELSE i * b
           S == {i \in Nat : i <= n => p[i] <= Bound(i)}
<1>4. 0 \in S
    BY <1>2 DEF IsPrefixSum
<1>5. ASSUME NEW i \in Nat, i \in S PROVE i + 1 \in S
    <2> SUFFICES ASSUME i + 1 <= n PROVE p[i + 1] <= Bound(i + 1)
        OBVIOUS
    <2>1. /\ p[i] \in Nat /\ p[i] <= Bound(i) /\ p[i + 1] = p[i] + f[i + 1]
          /\ f[i + 1] \in Nat /\ f[i + 1] <= b /\ f[k] \in Nat
        BY <1>2, <1>5 DEF IsPrefixSum
    <2>2. (i + 1) * b = i * b + b /\ i * b = (i - 1) * b + b
        OBVIOUS
    <2>3. i * b \in Int /\ (i - 1) * b \in Int
        OBVIOUS
    <2>4. CASE k <= i
        <3>1. Bound(i) = f[k] + (i - 1) * b /\ Bound(i + 1) = f[k] + i * b
            BY <2>4
        <3> HIDE DEF Bound
        <3>2. QED
            BY <2>1, <2>2, <2>3, <3>1, SMTT(20)
    <2>5. CASE k = i + 1
        <3>1. Bound(i) = i * b /\ Bound(i + 1) = f[k] + i * b
            BY <2>5
        <3> HIDE DEF Bound
        <3>2. QED
            BY <2>1, <2>3, <2>5, <3>1
    <2>6. CASE k > i + 1
        <3>1. Bound(i) = i * b /\ Bound(i + 1) = i * b + b
            BY <2>2, <2>6
        <3> HIDE DEF Bound
        <3>2. QED
            BY <2>1, <2>3, <3>1
    <2>7. QED
        BY <2>4, <2>5, <2>6
<1>6. \A i \in Nat : i \in S
    <2> HIDE DEF S
    <2>1. QED
        BY <1>4, <1>5, Induction
<1>7. p[n] <= Bound(n)
    BY <1>6
<1>8. QED
    BY <1>3, <1>7

(* A function on 1..n that differs from f only at k. *)
LEMMA TotalOneChanged ==
    ASSUME NEW n \in Nat, NEW f \in [1..n -> Nat], NEW g \in [1..n -> Nat],
           NEW k \in 1..n, \A i \in 1..n \ {k} : g[i] = f[i]
    PROVE  /\ f[k] \in Nat /\ g[k] \in Nat /\ f[k] <= Total(f)
           /\ Total(f) \in Nat /\ Total(g) \in Nat
           /\ Total(g) + f[k] = Total(f) + g[k]
<1>1. g = [f EXCEPT ![k] = g[k]]
    OBVIOUS
<1>2. f[k] \in Nat /\ g[k] \in Nat
    OBVIOUS
<1>3. /\ f \in Seq(Nat) /\ Len(f) = n
      /\ g \in Seq(Nat)
    BY FunctionIsSequence
<1>4. \A v \in Nat : /\ f[k] <= Total(f)
                      /\ Total([f EXCEPT ![k] = v]) + f[k] = Total(f) + v
    BY <1>3, TotalUpdate
<1>5. QED
    BY <1>1, <1>2, <1>3, <1>4, TotalType, Zenon

(* Totals add up element by element. *)
LEMMA TotalSum ==
    ASSUME NEW n \in Nat, NEW f \in [1..n -> Nat], NEW g \in [1..n -> Nat],
           NEW h \in [1..n -> Nat], \A i \in 1..n : h[i] = f[i] + g[i]
    PROVE  Total(h) = Total(f) + Total(g)
<1>1. /\ f \in Seq(Nat) /\ Len(f) = n
      /\ g \in Seq(Nat) /\ Len(g) = n
      /\ h \in Seq(Nat) /\ Len(h) = n
    BY FunctionIsSequence
<1>2. PICK p : IsPrefixSum(p, f, n)
    BY <1>1, PrefixSumExists
<1>3. PICK q : IsPrefixSum(q, g, n)
    BY <1>1, PrefixSumExists
<1>4. PICK r : IsPrefixSum(r, h, n)
    BY <1>1, PrefixSumExists
<1>5. Total(f) = p[n] /\ Total(g) = q[n] /\ Total(h) = r[n]
    BY <1>1, <1>2, <1>3, <1>4, TotalIsPrefixSum
<1> DEFINE S == {i \in Nat : i <= n => r[i] = p[i] + q[i]}
<1>6. 0 \in S
    BY <1>2, <1>3, <1>4 DEF IsPrefixSum
<1>7. ASSUME NEW i \in Nat, i \in S PROVE i + 1 \in S
    <2> SUFFICES ASSUME i + 1 <= n PROVE r[i + 1] = p[i + 1] + q[i + 1]
        OBVIOUS
    <2>1. /\ p[i + 1] = p[i] + f[i + 1] /\ q[i + 1] = q[i] + g[i + 1]
          /\ r[i + 1] = r[i] + h[i + 1]
        BY <1>2, <1>3, <1>4 DEF IsPrefixSum
    <2>2. p[i] \in Nat /\ q[i] \in Nat
        BY <1>2, <1>3 DEF IsPrefixSum
    <2>3. f[i + 1] \in Nat /\ g[i + 1] \in Nat /\ h[i + 1] = f[i + 1] + g[i + 1]
        <3>1. i + 1 \in 1..n
            OBVIOUS
        <3> DEFINE j == i + 1
        <3> HIDE DEF j, S
        <3>2. f[j] \in Nat /\ g[j] \in Nat /\ h[j] = f[j] + g[j]
            BY <3>1 DEF j
        <3>3. QED
            BY <3>2 DEF j
    <2>4. r[i] = p[i] + q[i]
        <3>1. i <= n
            OBVIOUS
        <3>2. QED
            BY ONLY <1>7, <3>1
    <2>5. QED
        <3> DEFINE a == p[i]
                   b == q[i]
                   c == f[i + 1]
                   d == g[i + 1]
        <3>1. /\ a \in Nat /\ b \in Nat /\ c \in Nat /\ d \in Nat
              /\ p[i + 1] = a + c /\ q[i + 1] = b + d
              /\ r[i + 1] = (a + b) + (c + d)
            BY <2>1, <2>2, <2>3, <2>4, Zenon
        <3> HIDE DEF a, b, c, d, S
        <3>2. QED
            BY <3>1
<1>8. \A i \in Nat : i \in S
    <2> HIDE DEF S
    <2>1. QED
        BY <1>6, <1>7, Induction
<1>9. r[n] = p[n] + q[n]
    BY <1>8
<1>10. QED
    BY <1>5, <1>9

(* Elements that are at most as large have at most as large a total.       *)
LEMMA TotalMonotone ==
    ASSUME NEW n \in Nat, NEW f \in [1..n -> Nat], NEW g \in [1..n -> Nat],
           \A i \in 1..n : f[i] <= g[i]
    PROVE  Total(f) <= Total(g)
<1> DEFINE d == [i \in 1..n |-> g[i] - f[i]]
<1>1. d \in [1..n -> Nat] /\ \A i \in 1..n : g[i] = f[i] + d[i]
    OBVIOUS
<1> HIDE DEF d
<1>2. Total(g) = Total(f) + Total(d)
    BY <1>1, TotalSum
<1>3. Total(d) \in Nat /\ Total(f) \in Nat
    BY <1>1, FunctionIsSequence, TotalType
<1>4. QED
    BY <1>2, <1>3

(* n elements that are at most b total at most n * b. *)
LEMMA TotalAtMost ==
    ASSUME NEW n \in Nat, NEW f \in [1..n -> Nat], NEW b \in Nat,
           \A i \in 1..n : f[i] <= b
    PROVE  Total(f) <= n * b
<1>1. CASE n = 0
    <2>1. \A i \in 1..n : f[i] = 0
        BY <1>1
    <2>2. Total(f) = 0
        BY <2>1, TotalNone
    <2>3. QED
        BY <1>1, <2>2
<1>2. CASE n # 0
    <2>1. n \in 1..n
        BY <1>2
    <2>2. Total(f) <= f[n] + (n - 1) * b
        BY <2>1, TotalBound
    <2>3. f[n] \in Nat /\ f[n] <= b
        BY <2>1
    <2>4. f \in Seq(Nat)
        BY FunctionIsSequence
    <2>5. Total(f) \in Nat
        BY <2>4, TotalType
    <2>6. (n - 1) * b + b = n * b /\ (n - 1) * b \in Int /\ n * b \in Int
        OBVIOUS
    <2>7. QED
        BY ONLY <2>2, <2>3, <2>5, <2>6, b \in Nat
<1>3. QED
    BY <1>1, <1>2
=============================================================================
