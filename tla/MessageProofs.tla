---------------------------- MODULE MessageProofs ----------------------------
(***************************************************************************)
(* What a device sends, from the bytes of its stream to the files on disk. *)
(* For any limits and packets, the handler takes the packets that were     *)
(* sent and its answers can be taken in the same way (MqttCodec).  For any *)
(* number of channels and any messages of the right shape, what the state  *)
(* file holds is of one report, and a device that was answered finds what  *)
(* it reported on disk (StatusDecoder).                                    *)
(***************************************************************************)
EXTENDS StatusDecoder, MqttCodec, FiniteSetTheorems, SequenceTheorems, TLAPS

-----------------------------------------------------------------------------
(* Numbers                                                                 *)

\* Induction over a set of numbers: without it, the numbers it lacks up to some n
\* would each have a smaller one among them, so that n numbers fit into n - 1
LEMMA SetInduction ==
  ASSUME NEW S, 0 \in S, \A n \in Nat : n \in S => n + 1 \in S
  PROVE  Nat \subseteq S
<1> SUFFICES ASSUME NEW n \in Nat, n \notin S PROVE FALSE
  OBVIOUS
<1> DEFINE lacks == {k \in 0 .. n : k \notin S}
           below == lacks \ {n}
           f == [k \in lacks |-> k - 1]
<1>1. IsFiniteSet(0 .. n)
  BY FS_Interval
<1>2. IsFiniteSet(lacks)
  BY <1>1, FS_Subset
<1>3. n \in lacks
  OBVIOUS
<1>4. /\ IsFiniteSet(below) /\ Cardinality(below) = Cardinality(lacks) - 1
      /\ Cardinality(lacks) \in Nat
  BY <1>2, <1>3, FS_RemoveElement, FS_CardinalityType
<1>5. f \in [lacks -> below]
  <2>1. ASSUME NEW k \in lacks PROVE k - 1 \in below
    <3>1. k \in Nat /\ k <= n /\ k # 0 /\ k \notin S
      OBVIOUS
    <3>2. k - 1 \in Nat /\ (k - 1) + 1 = k
      BY <3>1
    <3>3. k - 1 \notin S
      BY <3>1, <3>2
    <3>4. QED
      BY <3>1, <3>2, <3>3
  <2>2. QED
    BY <2>1
<1>6. Cardinality(below) < Cardinality(lacks)
  BY <1>4
<1> HIDE DEF below
<1>7. \E x, y \in lacks : x # y /\ f[x] = f[y]
  <2> HIDE DEF lacks, f
  <2>1. QED
    BY <1>2, <1>4, <1>5, <1>6, FS_PigeonHole
<1>8. QED
  BY <1>7

\* The largest of some places in a sequence is one of them
LEMMA LastPlace ==
  ASSUME NEW n \in Nat, NEW S \in SUBSET (1 .. n), S # {}
  PROVE  Max(S) \in S /\ \A k \in S : k <= Max(S)
<1> DEFINE Bounds == {k \in Nat : (\E x \in S : x > n - k) => \E x \in S : \A y \in S : x >= y}
<1>1. 0 \in Bounds
  OBVIOUS
<1>2. ASSUME NEW k \in Nat, k \in Bounds PROVE k + 1 \in Bounds
  <2> SUFFICES ASSUME NEW x \in S, x > n - (k + 1) PROVE \E m \in S : \A y \in S : m >= y
    OBVIOUS
  <2>1. CASE \E y \in S : y > n - k
    BY <1>2, <2>1
  <2>2. CASE \A y \in S : ~(y > n - k)
    <3>1. \A y \in S : x >= y
      BY <2>2
    <3>2. QED
      BY <3>1
  <2>3. QED
    BY <2>1, <2>2
<1>3. Nat \subseteq Bounds
  <2> HIDE DEF Bounds
  <2>1. QED
    BY <1>1, <1>2, SetInduction
<1>4. \E x \in S : \A y \in S : x >= y
  <2>1. n \in Bounds
    BY <1>3
  <2>2. \E x \in S : x > n - n
    <3>1. PICK x \in S : TRUE
      OBVIOUS
    <3>2. x > n - n
      OBVIOUS
    <3>3. QED
      BY <3>2
  <2>3. QED
    BY <2>1, <2>2
<1>5. QED
  BY <1>4 DEF Max

\* And the smallest is
LEMMA FirstPlace ==
  ASSUME NEW n \in Nat, NEW S \in SUBSET (1 .. n), S # {}
  PROVE  Min(S) \in S /\ \A k \in S : Min(S) <= k
<1> DEFINE Bounds == {k \in Nat : (\E x \in S : x <= k) => \E x \in S : \A y \in S : x <= y}
<1>1. 0 \in Bounds
  OBVIOUS
<1>2. ASSUME NEW k \in Nat, k \in Bounds PROVE k + 1 \in Bounds
  <2> SUFFICES ASSUME NEW x \in S, x <= k + 1 PROVE \E m \in S : \A y \in S : m <= y
    OBVIOUS
  <2>1. CASE \E y \in S : y <= k
    BY <1>2, <2>1
  <2>2. CASE \A y \in S : ~(y <= k)
    <3>1. \A y \in S : x <= y
      BY <2>2
    <3>2. QED
      BY <3>1
  <2>3. QED
    BY <2>1, <2>2
<1>3. Nat \subseteq Bounds
  <2> HIDE DEF Bounds
  <2>1. QED
    BY <1>1, <1>2, SetInduction
<1>4. PICK x \in S : TRUE
  OBVIOUS
<1>5. \E m \in S : \A y \in S : m <= y
  <2>1. n \in Bounds
    BY <1>3
  <2>2. x <= n
    OBVIOUS
  <2>3. QED
    BY <2>1, <2>2
<1>6. QED
  BY <1>5 DEF Min

-----------------------------------------------------------------------------
(* Recursive functions                                                     *)

\* g gives the value at a place of D, given those at places of lower rank
Gives(D, rank, S, g) ==
  /\ g \in [D \X [D -> S] -> S]
  /\ \A n \in D : \A p, q \in [D -> S] :
       (\A i \in D : rank[i] < rank[n] => p[i] = q[i]) => g[<<n, p>>] = g[<<n, q>>]
Follows(D, f, g) == \A n \in D : f[n] = g[<<n, f>>]

\* A function that is defined place by place, in the order of a rank, exists
LEMMA Recursion ==
  ASSUME NEW D, NEW b \in Nat, NEW rank \in [D -> 0 .. b], NEW S, S # {},
         NEW g, Gives(D, rank, S, g)
  PROVE  \E f \in [D -> S] : Follows(D, f, g)
<1> DEFINE Below(k) == \E f \in [D -> S] : \A n \in D : rank[n] < k => f[n] = g[<<n, f>>]
           Reached == {k \in Nat : Below(k)}
<1>0. /\ g \in [D \X [D -> S] -> S]
      /\ \A n \in D : \A p, q \in [D -> S] :
           (\A i \in D : rank[i] < rank[n] => p[i] = q[i]) => g[<<n, p>>] = g[<<n, q>>]
  BY DEF Gives
<1>1. 0 \in Reached
  <2>1. PICK e \in S : TRUE
    OBVIOUS
  <2>2. [n \in D |-> e] \in [D -> S] /\ \A n \in D : ~(rank[n] < 0)
    BY <2>1
  <2>3. QED
    BY <2>2
<1>2. ASSUME NEW k \in Nat, k \in Reached PROVE k + 1 \in Reached
  <2>1. PICK f \in [D -> S] : \A n \in D : rank[n] < k => f[n] = g[<<n, f>>]
    BY <1>2
  <2> DEFINE t == [n \in D |-> IF rank[n] = k THEN g[<<n, f>>] ELSE f[n]]
  <2>2. t \in [D -> S]
    BY <1>0
  <2>3. \A n \in D : t[n] = IF rank[n] = k THEN g[<<n, f>>] ELSE f[n]
    OBVIOUS
  <2> HIDE DEF t
  <2>4. ASSUME NEW n \in D, rank[n] < k + 1 PROVE t[n] = g[<<n, t>>]
    <3>1. \A i \in D : rank[i] < rank[n] => rank[i] # k
      <4>1. rank[n] \in Nat /\ \A i \in D : rank[i] \in Nat
        OBVIOUS
      <4>2. QED
        BY <2>4, <4>1
    <3>1a. \A i \in D : rank[i] < rank[n] => f[i] = t[i]
      BY <2>3, <3>1
    <3>2. g[<<n, f>>] = g[<<n, t>>]
      BY <1>0, <2>2, <3>1a
    <3>3. CASE rank[n] = k
      BY <2>3, <3>2, <3>3
    <3>4. CASE rank[n] # k
      <4>1. rank[n] < k
        BY <2>4, <3>4
      <4>2. t[n] = f[n] /\ f[n] = g[<<n, f>>]
        BY <2>1, <2>3, <3>4, <4>1
      <4>3. QED
        BY <3>2, <4>2
    <3>5. QED
      BY <3>3, <3>4
  <2>5. \A n \in D : rank[n] < k + 1 => t[n] = g[<<n, t>>]
    BY <2>4
  <2>6. QED
    BY <2>2, <2>5
<1>3. Nat \subseteq Reached
  <2> HIDE DEF Reached
  <2>1. QED
    BY <1>1, <1>2, SetInduction
<1>4. Below(b + 1)
  <2>1. b + 1 \in Nat
    OBVIOUS
  <2> HIDE DEF Below
  <2>2. QED
    BY <1>3, <2>1
<1>5. PICK f \in [D -> S] : \A n \in D : rank[n] < b + 1 => f[n] = g[<<n, f>>]
  BY <1>4
<1>6. \A n \in D : rank[n] < b + 1
  OBVIOUS
<1>7. \A n \in D : f[n] = g[<<n, f>>]
  BY <1>5, <1>6
<1>8. QED
  BY <1>7 DEF Follows

\* and has the type that each place keeps
Keeps(D, rank, S, f) ==
  /\ f = [n \in D |-> f[n]]
  /\ \A n \in D : (\A i \in D : rank[i] < rank[n] => f[i] \in S) => f[n] \in S

LEMMA Typing ==
  ASSUME NEW D, NEW b \in Nat, NEW rank \in [D -> 0 .. b], NEW S, NEW f, Keeps(D, rank, S, f)
  PROVE  f \in [D -> S]
<1> USE DEF Keeps
<1> DEFINE Typed == {k \in Nat : \A n \in D : rank[n] < k => f[n] \in S}
<1>1. 0 \in Typed
  OBVIOUS
<1>2. ASSUME NEW k \in Nat, k \in Typed PROVE k + 1 \in Typed
  <2> SUFFICES ASSUME NEW n \in D, rank[n] < k + 1 PROVE f[n] \in S
    OBVIOUS
  <2>1. \A i \in D : rank[i] < rank[n] => rank[i] < k
    OBVIOUS
  <2>2. \A i \in D : rank[i] < rank[n] => f[i] \in S
    BY <1>2, <2>1
  <2>3. QED
    BY <2>2
<1>3. Nat \subseteq Typed
  <2> HIDE DEF Typed
  <2>1. QED
    BY <1>1, <1>2, SetInduction
<1>4. b + 1 \in Typed /\ \A n \in D : rank[n] < b + 1
  BY <1>3
<1>5. \A n \in D : f[n] \in S
  BY <1>4
<1>6. QED
  BY <1>5

\* On an interval every number is its own rank
GivesUp(a, b, S, g) ==
  /\ g \in [(a .. b) \X [a .. b -> S] -> S]
  /\ \A n \in a .. b : \A p, q \in [a .. b -> S] :
       (\A i \in a .. n - 1 : p[i] = q[i]) => g[<<n, p>>] = g[<<n, q>>]
KeepsUp(a, b, S, f) ==
  /\ f = [n \in a .. b |-> f[n]]
  /\ \A n \in a .. b : (\A i \in a .. n - 1 : f[i] \in S) => f[n] \in S

LEMMA IntervalRecursion ==
  ASSUME NEW a \in Nat, NEW b \in Nat, NEW S
  PROVE  /\ \A g : S # {} /\ GivesUp(a, b, S, g) => \E f \in [a .. b -> S] : Follows(a .. b, f, g)
         /\ \A f : KeepsUp(a, b, S, f) => f \in [a .. b -> S]
<1> DEFINE D == a .. b
           rank == [n \in D |-> n]
<1>1. rank \in [D -> 0 .. b] /\ \A n \in D : rank[n] = n
  OBVIOUS
<1> HIDE DEF rank
<1>2. \A n \in D : \A i \in a .. n - 1 : i \in D /\ rank[i] < rank[n]
  BY <1>1
<1> HIDE DEF D
<1>3. ASSUME NEW g, S # {}, GivesUp(a, b, S, g) PROVE \E f \in [D -> S] : Follows(D, f, g)
  <2>1. Gives(D, rank, S, g)
    BY <1>2, <1>3 DEF Gives, GivesUp, D
  <2>2. QED
    BY <1>1, <1>3, <2>1, Recursion
<1>4. ASSUME NEW f, KeepsUp(a, b, S, f) PROVE f \in [D -> S]
  <2>1. f = [n \in D |-> f[n]]
    BY <1>4 DEF KeepsUp, D
  <2>2. \A n \in D : (\A i \in D : rank[i] < rank[n] => f[i] \in S) => f[n] \in S
    BY <1>2, <1>4 DEF KeepsUp, D
  <2>3. Keeps(D, rank, S, f)
    BY <2>1, <2>2 DEF Keeps
  <2>4. QED
    BY <1>1, <2>3, Typing
<1>5. QED
  BY <1>3, <1>4 DEF D

-----------------------------------------------------------------------------
(* The loops of the length field                                           *)

LEMMA Limits ==
  /\ Base \in Nat /\ Base >= 3 /\ Base <= 128 /\ MaxBytes \in Nat /\ MaxBytes > 0
  /\ MaxPacket \in Nat /\ Base <= MaxPacket + 1
BY CodecAssumption

LEMMA BytesAreNumbers ==
  ASSUME NEW s \in Seq(Byte)
  PROVE  Len(s) \in Nat /\ \A i \in 1 .. Len(s) : s[i] \in Nat /\ s[i] \in Byte
<1>1. Len(s) \in Nat /\ \A i \in 1 .. Len(s) : s[i] \in Byte
  OBVIOUS
<1>2. \A b \in Byte : b \in Nat
  BY DEF Byte
<1>3. QED
  BY <1>1, <1>2

LEMMA Quotients ==
  ASSUME NEW x \in Nat
  PROVE  /\ x \div Base \in Nat /\ x % Base \in 0 .. Base - 1
         /\ x = Base * (x \div Base) + (x % Base)
         /\ x > 0 => x \div Base < x
         /\ x % Base < 128 /\ (Base + (x % Base)) % Base = x % Base
<1>1. Base \in Nat /\ Base >= 3 /\ Base <= 128
  BY CodecAssumption
<1>2. x \div Base \in Int /\ x % Base \in 0 .. Base - 1 /\ x = Base * (x \div Base) + (x % Base)
  BY <1>1
<1>3. x \div Base >= 0
  BY <1>1, <1>2
<1>4. x > 0 => x \div Base < x
  BY <1>1, <1>2, <1>3
<1>5. (Base + (x % Base)) % Base = x % Base
  BY <1>1, <1>2
<1>6. QED
  BY <1>1, <1>2, <1>3, <1>4, <1>5

\* What is left of the length after each round
LEMMA RoundsOf ==
  ASSUME NEW length \in Nat
  PROVE  /\ Rounds(length) \in [0 .. length + 1 -> Nat]
         /\ Rounds(length)[0] = length
         /\ \A n \in 1 .. length + 1 : Rounds(length)[n] = Rounds(length)[n - 1] \div Base
<1> DEFINE D == 0 .. length + 1
           Is(f) == f = [n \in D |-> IF n = 0 THEN length ELSE f[n - 1] \div Base]
           left == CHOOSE f : Is(f)
           g == [x \in D \X [D -> Nat] |-> IF x[1] = 0 THEN length ELSE x[2][x[1] - 1] \div Base]
<1>1. g \in [D \X [D -> Nat] -> Nat]
  <2>1. ASSUME NEW n \in D, NEW p \in [D -> Nat], n # 0 PROVE p[n - 1] \div Base \in Nat
    <3>1. p[n - 1] \in Nat
      BY <2>1
    <3>2. QED
      BY <3>1, Quotients
  <2>2. QED
    BY <2>1
<1>2. ASSUME NEW n \in D, NEW p \in [D -> Nat], NEW q \in [D -> Nat],
             \A i \in 0 .. n - 1 : p[i] = q[i]
      PROVE  g[<<n, p>>] = g[<<n, q>>]
  <2>1. g[<<n, p>>] = IF n = 0 THEN length ELSE p[n - 1] \div Base
    OBVIOUS
  <2>2. g[<<n, q>>] = IF n = 0 THEN length ELSE q[n - 1] \div Base
    OBVIOUS
  <2>3. n # 0 => p[n - 1] = q[n - 1]
    BY <1>2
  <2>4. QED
    BY <2>1, <2>2, <2>3
<1>3. PICK f \in [D -> Nat] : Follows(0 .. length + 1, f, g)
  <2> HIDE DEF g
  <2>1. GivesUp(0, length + 1, Nat, g)
    BY <1>1, <1>2 DEF GivesUp
  <2>2. length + 1 \in Nat /\ Nat # {}
    OBVIOUS
  <2>3. QED
    BY <2>1, <2>2, IntervalRecursion
<1>5. \A n \in D : f[n] = IF n = 0 THEN length ELSE f[n - 1] \div Base
  BY <1>3 DEF Follows
<1>6. Is(f)
  BY <1>5
<1>7. Is(left)
  BY <1>6
<1>8. left = Rounds(length)
  BY DEF Rounds
<1> HIDE DEF left
<1>9a. left = [n \in D |-> left[n]]
  BY <1>7
<1>9. left[0] = length /\ \A n \in 1 .. length + 1 : left[n] = left[n - 1] \div Base
  BY <1>7
<1>10. ASSUME NEW n \in D, \A i \in 0 .. n - 1 : left[i] \in Nat PROVE left[n] \in Nat
  <2>1. CASE n = 0
    BY <1>9, <2>1
  <2>2. CASE n # 0
    <3>1. n \in 1 .. length + 1 /\ n - 1 \in 0 .. n - 1
      BY <2>2
    <3>1a. left[n - 1] \in Nat /\ left[n] = left[n - 1] \div Base
      BY <1>9, <1>10, <3>1
    <3>2. left[n - 1] \div Base \in Nat
      BY <3>1a, Quotients
    <3>3. QED
      BY <3>1a, <3>2
  <2>3. QED
    BY <2>1, <2>2
<1>11. left \in [D -> Nat]
  <2>1. KeepsUp(0, length + 1, Nat, left)
    BY <1>9a, <1>10 DEF KeepsUp
  <2>2. length + 1 \in Nat
    OBVIOUS
  <2>3. QED
    BY <2>1, <2>2, IntervalRecursion
<1>12. QED
  BY <1>8, <1>9, <1>11

LEMMA Multipliers ==
  /\ multiplier \in [1 .. MaxBytes + 1 -> Nat] /\ multiplier[1] = 1
  /\ \A n \in 1 .. MaxBytes : multiplier[n + 1] = Base * multiplier[n]
<1> DEFINE D == 1 .. MaxBytes + 1
           Is(f) == f = [n \in D |-> IF n = 1 THEN 1 ELSE Base * f[n - 1]]
           g == [x \in D \X [D -> Nat] |-> IF x[1] = 1 THEN 1 ELSE Base * x[2][x[1] - 1]]
<1>1. Base \in Nat /\ MaxBytes \in Nat /\ MaxBytes > 0 /\ MaxBytes + 1 \in Nat
  BY CodecAssumption
<1>2. \A x, y \in Nat : x * y \in Nat
  OBVIOUS
<1>3. g \in [D \X [D -> Nat] -> Nat]
  <2>1. ASSUME NEW n \in D, NEW p \in [D -> Nat], n # 1 PROVE Base * p[n - 1] \in Nat
    <3>1. n - 1 \in D
      BY <1>1, <2>1
    <3>2. p[n - 1] \in Nat
      BY <3>1
    <3>3. QED
      BY <1>1, <1>2, <3>2
  <2>2. QED
    BY <2>1
<1>4. ASSUME NEW n \in D, NEW p \in [D -> Nat], NEW q \in [D -> Nat],
             \A i \in 1 .. n - 1 : p[i] = q[i]
      PROVE  g[<<n, p>>] = g[<<n, q>>]
  <2>1. g[<<n, p>>] = IF n = 1 THEN 1 ELSE Base * p[n - 1]
    OBVIOUS
  <2>2. g[<<n, q>>] = IF n = 1 THEN 1 ELSE Base * q[n - 1]
    OBVIOUS
  <2>3. n # 1 => p[n - 1] = q[n - 1]
    BY <1>4
  <2>4. QED
    BY <2>1, <2>2, <2>3
<1>5. PICK f \in [D -> Nat] : Follows(1 .. MaxBytes + 1, f, g)
  <2> HIDE DEF g
  <2>1. GivesUp(1, MaxBytes + 1, Nat, g)
    BY <1>3, <1>4 DEF GivesUp
  <2>2. Nat # {} /\ 1 \in Nat
    OBVIOUS
  <2>3. QED
    BY <1>1, <2>1, <2>2, IntervalRecursion
<1>6. \A n \in D : f[n] = IF n = 1 THEN 1 ELSE Base * f[n - 1]
  BY <1>5 DEF Follows
<1>7. Is(f)
  BY <1>6
<1>8. Is(multiplier)
  BY <1>7 DEF multiplier
<1> HIDE DEF multiplier
<1>9a. multiplier = [n \in D |-> multiplier[n]]
  BY <1>8
<1>9b. \A n \in D : multiplier[n] = IF n = 1 THEN 1 ELSE Base * multiplier[n - 1]
  BY <1>8
<1>9. \A n \in D : /\ n = 1 => multiplier[n] = 1
                   /\ n # 1 => multiplier[n] = Base * multiplier[n - 1]
  BY <1>9b
<1> HIDE DEF D
<1>10. ASSUME NEW n \in D, \A i \in 1 .. n - 1 : multiplier[i] \in Nat PROVE multiplier[n] \in Nat
  <2>1. CASE n = 1
    BY <1>9, <2>1
  <2>2. CASE n # 1
    <3>1. n - 1 \in 1 .. n - 1
      BY <1>1, <2>2 DEF D
    <3>2. multiplier[n - 1] \in Nat
      BY <1>10, <3>1
    <3>3. multiplier[n] = Base * multiplier[n - 1]
      BY <1>9, <2>2
    <3>4. QED
      BY <1>1, <1>2, <3>2, <3>3
  <2>3. QED
    BY <2>1, <2>2
<1>11. multiplier \in [D -> Nat]
  <2>1. KeepsUp(1, MaxBytes + 1, Nat, multiplier)
    BY <1>9a, <1>10 DEF KeepsUp, D
  <2>2. QED
    BY <1>1, <2>1, IntervalRecursion DEF D
<1>12. \A n \in 1 .. MaxBytes : n + 1 \in D /\ n + 1 # 1 /\ (n + 1) - 1 = n
  BY <1>1 DEF D
<1>13. 1 \in D
  BY <1>1 DEF D
<1>14. QED
  BY <1>9, <1>11, <1>12, <1>13 DEF D

\* The digits of a length: D[n] is what the n-th round puts out
Digits(length, D) ==
  /\ D \in Seq(Byte) /\ Len(D) \in 1 .. length + 1
  /\ \A n \in 1 .. Len(D) : /\ D[n] >= Base <=> n < Len(D)
                            /\ D[n] % Base = Rounds(length)[n - 1] % Base
  /\ \A n \in 1 .. Len(D) : Rounds(length)[n] = 0 <=> n = Len(D)

LEMMA LoopEnds == ASSUME NEW length \in Nat PROVE Digits(length, remaining(length))
<1> DEFINE left == Rounds(length)
           zero == {n \in 1 .. length + 1 : left[n] = 0}
           last == Min(zero)
<1>1. Base \in Nat /\ Base >= 3 /\ Base <= 128
  BY CodecAssumption
<1>2. /\ left \in [0 .. length + 1 -> Nat] /\ left[0] = length
      /\ \A n \in 1 .. length + 1 : left[n] = left[n - 1] \div Base
  BY RoundsOf
<1> HIDE DEF left
<1>3. zero # {}
  <2> DEFINE Sinks == {n \in Nat : n <= length + 1 => left[n] = 0 \/ left[n] + n <= length}
  <2>1. 0 \in Sinks
    BY <1>2
  <2>2. ASSUME NEW n \in Nat, n \in Sinks PROVE n + 1 \in Sinks
    <3> SUFFICES ASSUME n + 1 <= length + 1
                 PROVE  left[n + 1] = 0 \/ left[n + 1] + (n + 1) <= length
      OBVIOUS
    <3>1. left[n] \in Nat /\ (left[n] = 0 \/ left[n] + n <= length)
      BY <1>2, <2>2
    <3>2. left[n + 1] = left[n] \div Base
      BY <1>2
    <3>3. left[n + 1] \in Nat /\ (left[n] > 0 => left[n + 1] < left[n])
      BY <3>1, <3>2, Quotients
    <3>4. left[n] = 0 => left[n + 1] = 0
      BY <1>1, <3>2
    <3>5. QED
      BY <3>1, <3>3, <3>4
  <2>3. Nat \subseteq Sinks
    <3> HIDE DEF Sinks
    <3>1. QED
      BY <2>1, <2>2, SetInduction
  <2>4. length + 1 \in Nat
    OBVIOUS
  <2>5. left[length + 1] = 0 \/ left[length + 1] + (length + 1) <= length
    BY <2>3, <2>4
  <2>6. left[length + 1] \in Nat
    BY <1>2
  <2>7. left[length + 1] = 0
    BY <2>5, <2>6
  <2>8. QED
    BY <2>7
<1>4. last \in zero /\ \A k \in zero : last <= k
  <2>1. zero \in SUBSET (1 .. length + 1) /\ length + 1 \in Nat
    OBVIOUS
  <2> HIDE DEF zero
  <2>2. QED
    BY <1>3, <2>1, FirstPlace
<1> DEFINE D == [n \in 1 .. last |-> (left[n - 1] % Base) + IF n < last THEN Base ELSE 0]
<1>5. remaining(length) = D
  BY DEF remaining, left
<1>6. last \in 1 .. length + 1 /\ left[last] = 0 /\ \A n \in 1 .. last : left[n] = 0 => n = last
  BY <1>4
<1> HIDE DEF last
<1>7. ASSUME NEW n \in 1 .. last
      PROVE  /\ left[n - 1] % Base \in 0 .. Base - 1
             /\ (Base + (left[n - 1] % Base)) % Base = left[n - 1] % Base
             /\ (left[n - 1] % Base) % Base = left[n - 1] % Base
  <2>1. left[n - 1] \in Nat
    BY <1>2, <1>6
  <2>2. /\ left[n - 1] % Base \in 0 .. Base - 1
        /\ (Base + (left[n - 1] % Base)) % Base = left[n - 1] % Base
    BY <2>1, Quotients
  <2>3. \A r \in 0 .. Base - 1 : r % Base = r
    BY <1>1
  <2>4. QED
    BY <2>2, <2>3
<1>8. ASSUME NEW n \in 1 .. last
      PROVE  D[n] \in Byte /\ (D[n] >= Base <=> n < last) /\ D[n] % Base = left[n - 1] % Base
  <2>1. CASE n < last
    <3>1. D[n] = (left[n - 1] % Base) + Base
      BY <2>1
    <3>2. D[n] = Base + (left[n - 1] % Base)
      BY <1>1, <1>7, <3>1
    <3> DEFINE x == left[n - 1] % Base
    <3>3. x \in 0 .. Base - 1 /\ (Base + x) % Base = x
      BY <1>7
    <3> HIDE DEF D, x
    <3>4. D[n] = Base + x
      BY <3>2 DEF x
    <3>5. D[n] \in Byte /\ (D[n] >= Base <=> n < last) /\ D[n] % Base = x
      BY <1>1, <2>1, <3>3, <3>4 DEF Byte
    <3>6. QED
      BY <3>5 DEF x
  <2>2. CASE n = last
    <3>1. D[n] = (left[n - 1] % Base) + 0
      BY <2>2
    <3>2. D[n] = left[n - 1] % Base
      BY <1>7, <3>1
    <3> HIDE DEF D
    <3>3. QED
      BY <1>1, <1>7, <2>2, <3>2 DEF Byte
  <2>3. QED
    BY <1>6, <2>1, <2>2
<1>9. D \in Seq(Byte) /\ Len(D) = last
  <2>1. last \in Nat /\ D = [n \in 1 .. last |-> D[n]]
    BY <1>6
  <2>2. D \in [1 .. last -> Byte]
    <3> HIDE DEF D
    <3>1. QED
      BY <1>8, <2>1
  <2> HIDE DEF D
  <2>3. QED
    BY <2>1, <2>2
<1> HIDE DEF D
<1>10. QED
  BY <1>5, <1>6, <1>8, <1>9 DEF Digits, left

\* What read_packet has counted after each byte of the length
Counted(stream, k, v) ==
  /\ v \in [0 .. k -> Nat] /\ v[0] = 0 /\ v[k] = Value(stream, k)
  /\ \A n \in 1 .. k : v[n] = v[n - 1] + (stream[n + 1] % Base) * multiplier[n]

LEMMA ValueOf ==
  ASSUME NEW stream \in Seq(Byte), NEW k \in 0 .. MaxBytes, k < Len(stream)
  PROVE  \E v : Counted(stream, k, v)
<1> DEFINE D == 0 .. k
           add == [n \in 1 .. k |-> (stream[n + 1] % Base) * multiplier[n]]
           Is(f) == f = [n \in D |-> IF n = 0 THEN 0
                                     ELSE f[n - 1] + (stream[n + 1] % Base) * multiplier[n]]
           v == CHOOSE f : Is(f)
           g == [x \in D \X [D -> Nat] |-> IF x[1] = 0 THEN 0 ELSE x[2][x[1] - 1] + add[x[1]]]
<1>1. k \in Nat /\ MaxBytes \in Nat /\ Base \in Nat /\ Base >= 3 /\ Len(stream) \in Nat
  BY CodecAssumption
<1>2. ASSUME NEW n \in 1 .. k PROVE (stream[n + 1] % Base) * multiplier[n] \in Nat
  <2>1. n + 1 \in 1 .. Len(stream) /\ n \in 1 .. MaxBytes + 1
    BY <1>1
  <2>2. stream[n + 1] \in Nat /\ multiplier[n] \in Nat
    <3>1. stream[n + 1] \in Nat
      BY <2>1, BytesAreNumbers
    <3>2. multiplier \in [1 .. MaxBytes + 1 -> Nat]
      BY Multipliers
    <3>3. multiplier[n] \in Nat
      BY <2>1, <3>2
    <3>4. QED
      BY <3>1, <3>3
  <2>3. stream[n + 1] % Base \in Nat
    BY <1>1, <2>2
  <2>4. \A x, y \in Nat : x * y \in Nat
    OBVIOUS
  <2>5. QED
    BY <2>2, <2>3, <2>4
<1>3. add \in [1 .. k -> Nat]
  BY <1>2
<1>4. \A n \in 1 .. k : add[n] = (stream[n + 1] % Base) * multiplier[n]
  OBVIOUS
<1> HIDE DEF add
<1>5. g \in [D \X [D -> Nat] -> Nat]
  <2>1. ASSUME NEW n \in D, NEW p \in [D -> Nat], n # 0 PROVE p[n - 1] + add[n] \in Nat
    <3>1. n - 1 \in D /\ n \in 1 .. k
      BY <1>1, <2>1
    <3>2. p[n - 1] \in Nat /\ add[n] \in Nat
      BY <1>3, <3>1
    <3>3. QED
      BY <3>2
  <2>2. QED
    BY <2>1
<1>6. ASSUME NEW n \in D, NEW p \in [D -> Nat], NEW q \in [D -> Nat],
             \A i \in 0 .. n - 1 : p[i] = q[i]
      PROVE  g[<<n, p>>] = g[<<n, q>>]
  <2>1. g[<<n, p>>] = IF n = 0 THEN 0 ELSE p[n - 1] + add[n]
    OBVIOUS
  <2>2. g[<<n, q>>] = IF n = 0 THEN 0 ELSE q[n - 1] + add[n]
    OBVIOUS
  <2>3. n # 0 => p[n - 1] = q[n - 1]
    BY <1>6
  <2>4. QED
    BY <2>1, <2>2, <2>3
<1>7. PICK f \in [D -> Nat] : Follows(0 .. k, f, g)
  <2> HIDE DEF g
  <2>1. GivesUp(0, k, Nat, g)
    BY <1>5, <1>6 DEF GivesUp
  <2>2. Nat # {}
    OBVIOUS
  <2>3. QED
    BY <1>1, <2>1, <2>2, IntervalRecursion
<1>8. \A n \in D : f[n] = IF n = 0 THEN 0 ELSE f[n - 1] + add[n]
  BY <1>7 DEF Follows
<1>9. \A n \in D : f[n] = IF n = 0 THEN 0 ELSE f[n - 1] + (stream[n + 1] % Base) * multiplier[n]
  <2>1. \A n \in D : n # 0 => n \in 1 .. k
    BY <1>1
  <2>2. QED
    BY <1>4, <1>8, <2>1
<1>10. Is(f)
  BY <1>9
<1>11. Is(v)
  BY <1>10
<1>12. v[k] = Value(stream, k)
  BY DEF Value
<1> HIDE DEF v
<1>13. v = [n \in D |-> v[n]]
  BY <1>11
<1>14. v[0] = 0 /\ \A n \in 1 .. k : v[n] = v[n - 1] + (stream[n + 1] % Base) * multiplier[n]
  BY <1>1, <1>11
<1>15. ASSUME NEW n \in D, \A i \in 0 .. n - 1 : v[i] \in Nat PROVE v[n] \in Nat
  <2>1. CASE n = 0
    BY <1>14, <2>1
  <2>2. CASE n # 0
    <3>1. n \in 1 .. k /\ n - 1 \in 0 .. n - 1
      BY <1>1, <2>2
    <3>2. v[n - 1] \in Nat /\ v[n] = v[n - 1] + add[n] /\ add[n] \in Nat
      BY <1>3, <1>4, <1>14, <1>15, <3>1
    <3>3. QED
      BY <3>2
  <2>3. QED
    BY <2>1, <2>2
<1>16. v \in [D -> Nat]
  <2>1. KeepsUp(0, k, Nat, v)
    BY <1>13, <1>15 DEF KeepsUp
  <2>2. QED
    BY <1>1, <2>1, IntervalRecursion
<1>17. QED
  BY <1>12, <1>14, <1>16 DEF Counted

\* Reading a length undoes writing it: what was counted and what is still to come
\* always make up the length
LEMMA LengthIsRead ==
  ASSUME NEW length \in Nat, NEW D, Digits(length, D), Len(D) <= MaxBytes,
         NEW stream \in Seq(Byte), Len(D) < Len(stream),
         \A n \in 1 .. Len(D) : stream[n + 1] = D[n]
  PROVE  Value(stream, Len(D)) = length
<1> DEFINE left == Rounds(length)
           k == Len(D)
<1>1. /\ Base \in Nat /\ Base >= 3 /\ MaxBytes \in Nat
      /\ k \in Nat /\ k > 0 /\ k <= length + 1 /\ k <= MaxBytes
  BY CodecAssumption DEF Digits
<1>2. PICK v : Counted(stream, k, v)
  BY <1>1, ValueOf
<1>3. /\ left \in [0 .. length + 1 -> Nat] /\ left[0] = length
      /\ \A n \in 1 .. length + 1 : left[n] = left[n - 1] \div Base
  BY RoundsOf
<1>4. left[k] = 0 /\ \A n \in 1 .. k : stream[n + 1] % Base = left[n - 1] % Base
  BY <1>1 DEF Digits
<1> HIDE DEF left, k
<1> DEFINE Agree == {n \in Nat : n <= k => v[n] + left[n] * multiplier[n + 1] = length}
<1>5. 0 \in Agree
  BY <1>1, <1>2, <1>3, Multipliers DEF Counted
<1>6. ASSUME NEW n \in Nat, n \in Agree PROVE n + 1 \in Agree
  <2> SUFFICES ASSUME n + 1 <= k
               PROVE  v[n + 1] + left[n + 1] * multiplier[(n + 1) + 1] = length
    OBVIOUS
  <2>1. n <= k /\ n + 1 \in 1 .. k /\ n \in 0 .. k /\ n + 1 \in 1 .. MaxBytes
        /\ n \in 0 .. length + 1 /\ n + 1 \in 1 .. length + 1 /\ n + 1 \in 1 .. MaxBytes + 1
    BY <1>1
  <2> DEFINE q == left[n]
             d == q % Base
             m == multiplier[n + 1]
             u == v[n]
             h == q \div Base
  <2>2. q \in Nat /\ m \in Nat /\ u \in Nat
    BY <1>2, <1>3, <2>1, Multipliers DEF Counted
  <2>3. v[n + 1] = u + d * m
    <3>1. v[n + 1] = v[(n + 1) - 1] + (stream[(n + 1) + 1] % Base) * multiplier[n + 1]
      BY <1>2, <2>1 DEF Counted
    <3>2. stream[(n + 1) + 1] % Base = left[(n + 1) - 1] % Base /\ (n + 1) - 1 = n
      BY <1>4, <2>1
    <3>3. QED
      BY <3>1, <3>2
  <2>4. left[n + 1] = h
    <3>1. left[n + 1] = left[(n + 1) - 1] \div Base /\ (n + 1) - 1 = n
      BY <1>3, <2>1
    <3>2. QED
      BY <3>1
  <2>5. multiplier[(n + 1) + 1] = Base * m
    BY <2>1, Multipliers
  <2>6. h \in Nat /\ d \in Nat /\ q = Base * h + d
    <3> HIDE DEF q
    <3>1. q \div Base \in Nat /\ q % Base \in 0 .. Base - 1 /\ q = Base * (q \div Base) + (q % Base)
      BY <2>2, Quotients
    <3> HIDE DEF h, d
    <3>2. h \in Nat /\ d \in 0 .. Base - 1 /\ q = Base * h + d
      BY <3>1 DEF h, d
    <3>3. QED
      BY <1>1, <3>2
  <2>7. u + q * m = length
    BY <1>6, <2>1
  <2> HIDE DEF q, d, m, u, h
  <2>8. h * (Base * m) = (Base * h) * m /\ q * m = (Base * h) * m + d * m
    BY <1>1, <2>2, <2>6
  <2>9. u + d * m + h * (Base * m) = length
    BY <1>1, <2>2, <2>6, <2>7, <2>8
  <2>10. QED
    BY <2>3, <2>4, <2>5, <2>9
<1>7. Nat \subseteq Agree
  <2> HIDE DEF Agree
  <2>1. QED
    BY <1>5, <1>6, SetInduction
<1>8. v[k] + left[k] * multiplier[k + 1] = length
  <2>1. k \in Agree
    BY <1>1, <1>7
  <2>2. QED
    BY <1>1, <2>1
<1>9. multiplier[k + 1] \in Nat /\ v[k] \in Nat
  BY <1>1, <1>2, Multipliers DEF Counted
<1>10. v[k] = length
  BY <1>4, <1>8, <1>9
<1>11. QED
  BY <1>2, <1>10 DEF Counted, k

\* A length that is not above the limit has no more bytes than may be
LEMMA FewDigits ==
  ASSUME NEW length \in Nat, length <= MaxPacket, NEW D, Digits(length, D)
  PROVE  Len(D) <= MaxBytes
<1> DEFINE left == Rounds(length)
<1>1. /\ Base \in Nat /\ Base >= 3 /\ MaxBytes \in Nat /\ MaxPacket \in Nat
      /\ MaxPacket < multiplier[MaxBytes + 1] /\ Len(D) \in Nat /\ Len(D) <= length + 1
  BY CodecAssumption DEF Digits
<1>2. /\ left \in [0 .. length + 1 -> Nat] /\ left[0] = length
      /\ \A n \in 1 .. length + 1 : left[n] = left[n - 1] \div Base
  BY RoundsOf
<1>3. \A n \in 1 .. Len(D) : left[n] = 0 <=> n = Len(D)
  BY DEF Digits
<1> HIDE DEF left
<1> DEFINE Small == {n \in Nat : n <= MaxBytes /\ n <= length + 1 =>
                                   left[n] * multiplier[n + 1] <= length}
<1>4. 0 \in Small
  BY <1>2, Multipliers
<1>5. ASSUME NEW n \in Nat, n \in Small PROVE n + 1 \in Small
  <2> SUFFICES ASSUME n + 1 <= MaxBytes, n + 1 <= length + 1
               PROVE  left[n + 1] * multiplier[(n + 1) + 1] <= length
    OBVIOUS
  <2>1. n \in 0 .. length + 1 /\ n + 1 \in 1 .. length + 1 /\ n + 1 \in 1 .. MaxBytes
        /\ n + 1 \in 1 .. MaxBytes + 1 /\ (n + 1) - 1 = n
    BY <1>1
  <2> DEFINE q == left[n]
             m == multiplier[n + 1]
             h == q \div Base
             d == q % Base
  <2>2. q \in Nat /\ m \in Nat
    BY <1>2, <2>1, Multipliers
  <2>3. left[n + 1] = h
    BY <1>2, <2>1
  <2>4. multiplier[(n + 1) + 1] = Base * m
    BY <2>1, Multipliers
  <2>5. h \in Nat /\ d \in Nat /\ q = Base * h + d
    <3> HIDE DEF q
    <3>1. q \div Base \in Nat /\ q % Base \in 0 .. Base - 1 /\ q = Base * (q \div Base) + (q % Base)
      BY <2>2, Quotients
    <3> HIDE DEF h, d
    <3>2. h \in Nat /\ d \in 0 .. Base - 1 /\ q = Base * h + d
      BY <3>1 DEF h, d
    <3>3. QED
      BY <1>1, <3>2
  <2>6. q * m <= length
    BY <1>1, <1>5, <2>1
  <2> HIDE DEF q, m, h, d
  <2>7. h * (Base * m) = (Base * h) * m /\ q * m = (Base * h) * m + d * m /\ d * m \in Nat
    <3>1. \A x, y \in Nat : x * y \in Nat
      OBVIOUS
    <3>2. QED
      BY <1>1, <2>2, <2>5, <3>1
  <2>8. h * (Base * m) <= length
    BY <1>1, <2>2, <2>5, <2>6, <2>7
  <2>9. QED
    BY <2>3, <2>4, <2>8
<1>6. Nat \subseteq Small
  <2> HIDE DEF Small
  <2>1. QED
    BY <1>4, <1>5, SetInduction
<1>7. SUFFICES ASSUME Len(D) > MaxBytes PROVE FALSE
  BY <1>1
<1>8. MaxBytes \in Small /\ MaxBytes <= length + 1 /\ MaxBytes \in 0 .. length + 1
  BY <1>1, <1>6, <1>7
<1>9. left[MaxBytes] \in Nat /\ left[MaxBytes] * multiplier[MaxBytes + 1] <= length
  BY <1>1, <1>2, <1>8
<1>10. MaxBytes \in 1 .. Len(D) /\ MaxBytes # Len(D)
  BY <1>1, <1>7, CodecAssumption
<1>11. left[MaxBytes] # 0
  BY <1>3, <1>10
<1>12. multiplier[MaxBytes + 1] \in Nat
  BY <1>1, Multipliers
<1>13. \A x, y \in Nat : x # 0 => y <= x * y
  OBVIOUS
<1>14. multiplier[MaxBytes + 1] <= left[MaxBytes] * multiplier[MaxBytes + 1]
  BY <1>9, <1>11, <1>12, <1>13
<1>15. left[MaxBytes] * multiplier[MaxBytes + 1] \in Nat
  BY <1>9, <1>12
<1>16. QED
  BY <1>1, <1>9, <1>12, <1>14, <1>15

-----------------------------------------------------------------------------
(* How much of a stream read_packet takes                                  *)

\* stream begins as packet does, or is cut off within it
Begins(stream, packet) ==
  \A i \in 1 .. Len(stream) : i <= Len(packet) => stream[i] = packet[i]

\* The places where the length field of a stream may end
LastBytes(stream) ==
  {k \in 1 .. MaxBytes : k < Len(stream) /\ stream[k + 1] < Base
                         /\ \A j \in 1 .. k - 1 : stream[j + 1] >= Base}

LEMMA OneLastByte ==
  ASSUME NEW stream \in Seq(Byte), NEW k \in LastBytes(stream)
  PROVE  LastBytes(stream) = {k}
<1>1. /\ MaxBytes \in Nat /\ Base \in Nat /\ Len(stream) \in Nat
      /\ \A i \in 1 .. Len(stream) : stream[i] \in Nat
  BY Limits, BytesAreNumbers
<1>2. ASSUME NEW j \in LastBytes(stream), j < k PROVE FALSE
  <2>1. j \in 1 .. k - 1 /\ j + 1 \in 1 .. Len(stream)
    BY <1>1, <1>2 DEF LastBytes
  <2>2. stream[j + 1] >= Base /\ stream[j + 1] < Base
    BY <2>1 DEF LastBytes
  <2>3. QED
    BY <1>1, <2>1, <2>2
<1>3. ASSUME NEW j \in LastBytes(stream), k < j PROVE FALSE
  <2>1. k \in 1 .. j - 1 /\ k + 1 \in 1 .. Len(stream)
    BY <1>1, <1>3 DEF LastBytes
  <2>2. stream[k + 1] >= Base /\ stream[k + 1] < Base
    BY <2>1 DEF LastBytes
  <2>3. QED
    BY <1>1, <2>1, <2>2
<1>4. \A j \in LastBytes(stream) : j \in Nat
  BY <1>1 DEF LastBytes
<1>5. QED
  BY <1>2, <1>3, <1>4

\* Taken, for a field that ends at its k-th byte and for one that does not end
LEMMA TakenWith ==
  ASSUME NEW stream \in Seq(Byte), NEW k \in LastBytes(stream)
  PROVE  /\ Value(stream, k) > MaxPacket => Taken(stream) = 0
         /\ Value(stream, k) <= MaxPacket =>
              Taken(stream) = IF 1 + k + Value(stream, k) > Len(stream) THEN Len(stream)
                              ELSE 1 + k + Value(stream, k)
<1> DEFINE last == LastBytes(stream)
           here == CHOOSE j \in last : TRUE
<1>1. last = {k}
  BY OneLastByte
<1>2. here = k
  BY <1>1
<1>3. Taken(stream) = IF last = {} THEN IF Len(stream) <= MaxBytes THEN Len(stream) ELSE 0
                      ELSE IF Exceeds(Value(stream, here)) THEN 0
                      ELSE IF 1 + here + Value(stream, here) > Len(stream) THEN Len(stream)
                      ELSE 1 + here + Value(stream, here)
  BY DEF Taken, LastBytes
<1> HIDE DEF last, here
<1>4. Taken(stream) = IF Exceeds(Value(stream, k)) THEN 0
                      ELSE IF 1 + k + Value(stream, k) > Len(stream) THEN Len(stream)
                      ELSE 1 + k + Value(stream, k)
  BY <1>1, <1>2, <1>3
<1>5. k \in 0 .. MaxBytes /\ k < Len(stream) /\ MaxPacket \in Nat
  BY CodecAssumption DEF LastBytes
<1>6. Value(stream, k) \in Nat
  <2>1. PICK v : Counted(stream, k, v)
    BY <1>5, ValueOf
  <2>2. k \in 0 .. k
    BY <1>5
  <2>3. QED
    BY <2>1, <2>2 DEF Counted
<1>7. QED
  BY <1>4, <1>5, <1>6 DEF Exceeds

LEMMA TakenWithout ==
  ASSUME NEW stream \in Seq(Byte), LastBytes(stream) = {}
  PROVE  Taken(stream) = IF Len(stream) <= MaxBytes THEN Len(stream) ELSE 0
BY DEF Taken, LastBytes

LEMMA TakenBound ==
  ASSUME NEW stream \in Seq(Byte)
  PROVE  Taken(stream) \in 0 .. Len(stream) /\ Taken(stream) <= 1 + MaxBytes + MaxPacket
<1>1. MaxBytes \in Nat /\ MaxPacket \in Nat /\ Len(stream) \in Nat
  BY CodecAssumption
<1>2. CASE LastBytes(stream) = {}
  BY <1>1, <1>2, TakenWithout
<1>3. ASSUME NEW k \in LastBytes(stream)
      PROVE  Taken(stream) \in 0 .. Len(stream) /\ Taken(stream) <= 1 + MaxBytes + MaxPacket
  <2>1. k \in 1 .. MaxBytes /\ k < Len(stream)
    BY DEF LastBytes
  <2>2. Value(stream, k) \in Nat
    <3>1. PICK v : Counted(stream, k, v)
      BY <1>1, <2>1, ValueOf
    <3>2. k \in 0 .. k
      BY <1>1, <2>1
    <3>3. QED
      BY <3>1, <3>2 DEF Counted
  <2> DEFINE n == Value(stream, k)
  <2>3. /\ n > MaxPacket => Taken(stream) = 0
        /\ n <= MaxPacket =>
             Taken(stream) = IF 1 + k + n > Len(stream) THEN Len(stream) ELSE 1 + k + n
    BY TakenWith
  <2> HIDE DEF n
  <2>4. n \in Nat
    BY <2>2 DEF n
  <2>5. QED
    BY <1>1, <2>1, <2>3, <2>4
<1>4. QED
  BY <1>2, <1>3

\* read_packet takes the packet that a stream begins with, or what there is of it,
\* or it raises
TakesIt(packet, stream) ==
  \/ Taken(stream) = 0
  \/ Len(stream) <= Len(packet) /\ Taken(stream) = Len(stream)
  \/ Len(stream) >= Len(packet) /\ Taken(stream) = Len(packet)

LEMMA EndlessInStep ==
  ASSUME NEW packet \in Seq(Byte), Endless(packet),
         NEW stream \in Seq(Byte), Begins(stream, packet)
  PROVE  TakesIt(packet, stream)
<1>1. MaxBytes \in Nat /\ Base \in Nat /\ Len(stream) \in Nat /\ Len(packet) \in Nat
  BY CodecAssumption
<1>2. LastBytes(stream) = {}
  <2> SUFFICES ASSUME NEW k \in LastBytes(stream) PROVE FALSE
    OBVIOUS
  <2>1. k \in 1 .. MaxBytes /\ k < Len(stream) /\ stream[k + 1] < Base
    BY DEF LastBytes
  <2>2. k + 1 \in 2 .. MaxBytes + 1 /\ k + 1 <= Len(packet) /\ k + 1 \in 1 .. Len(stream)
        /\ k + 1 \in 1 .. Len(packet)
    BY <1>1, <2>1 DEF Endless
  <2>3. stream[k + 1] = packet[k + 1] /\ packet[k + 1] >= Base /\ packet[k + 1] \in Nat
    BY <2>2, BytesAreNumbers DEF Begins, Endless
  <2>4. QED
    BY <1>1, <2>1, <2>3
<1>3. QED
  BY <1>1, <1>2, TakenWithout DEF TakesIt, Endless

\* packet is a first byte, the digits D of a length and as many bytes
Made(packet, D, length) ==
  /\ packet \in Seq(Byte) /\ length \in Nat /\ Digits(length, D)
  /\ Len(packet) = 1 + Len(D) + length
  /\ \A n \in 1 .. Len(D) : packet[n + 1] = D[n]

\* What a stream has of its digits, when it begins with such a packet
LEMMA MadeDigits ==
  ASSUME NEW packet, NEW D, NEW length, Made(packet, D, length),
         NEW stream \in Seq(Byte), Begins(stream, packet),
         NEW n \in 1 .. Len(D), n < Len(stream)
  PROVE  /\ stream[n + 1] = D[n] /\ D[n] \in Nat
         /\ n < Len(D) => stream[n + 1] >= Base
         /\ n = Len(D) => stream[n + 1] < Base
<1>1. /\ Len(stream) \in Nat /\ length \in Nat /\ Len(D) \in Nat /\ D \in Seq(Byte)
      /\ Len(packet) = 1 + Len(D) + length
  BY DEF Made, Digits
<1>2. n + 1 \in 1 .. Len(stream) /\ n + 1 <= Len(packet)
  BY <1>1
<1>3. stream[n + 1] = D[n]
  BY <1>2 DEF Begins, Made
<1>4. D[n] \in Nat /\ (D[n] >= Base <=> n < Len(D))
  BY <1>1, BytesAreNumbers DEF Made, Digits
<1>5. QED
  BY <1>1, <1>3, <1>4, Limits

LEMMA MadeIsTaken ==
  ASSUME NEW packet, NEW D, NEW length, Made(packet, D, length), Len(D) <= MaxBytes,
         NEW stream \in Seq(Byte), Begins(stream, packet), Len(D) < Len(stream)
  PROVE  /\ length > MaxPacket => Taken(stream) = 0
         /\ length <= MaxPacket => Taken(stream) = IF Len(packet) > Len(stream)
                                                   THEN Len(stream) ELSE Len(packet)
<1>1. /\ Len(stream) \in Nat /\ length \in Nat /\ Len(D) \in Nat /\ Len(D) > 0
      /\ Len(packet) = 1 + Len(D) + length /\ Digits(length, D)
  BY DEF Made, Digits
<1>2. ASSUME NEW n \in 1 .. Len(D)
      PROVE  /\ stream[n + 1] = D[n]
             /\ n < Len(D) => stream[n + 1] >= Base
             /\ n = Len(D) => stream[n + 1] < Base
  <2>1. n < Len(stream)
    BY <1>1
  <2>2. QED
    BY <2>1, MadeDigits
<1>3. Len(D) \in LastBytes(stream)
  <2>1. Len(D) \in 1 .. MaxBytes /\ Len(D) \in 1 .. Len(D)
    BY <1>1, Limits
  <2>2. \A j \in 1 .. Len(D) - 1 : j \in 1 .. Len(D) /\ j < Len(D)
    BY <1>1
  <2>3. QED
    BY <1>2, <2>1, <2>2 DEF LastBytes
<1>4. Value(stream, Len(D)) = length
  BY <1>1, <1>2, LengthIsRead
<1>5. QED
  BY <1>1, <1>3, <1>4, TakenWith

LEMMA MadeInStep ==
  ASSUME NEW packet, NEW D, NEW length, Made(packet, D, length),
         NEW stream \in Seq(Byte), Begins(stream, packet)
  PROVE  TakesIt(packet, stream)
<1>1. /\ Len(stream) \in Nat /\ Len(packet) \in Nat /\ length \in Nat /\ Len(D) \in Nat
      /\ Len(packet) = 1 + Len(D) + length /\ packet \in Seq(Byte) /\ Digits(length, D)
  BY DEF Made, Digits
<1>2. CASE Len(stream) <= Len(D)
  <2>1. LastBytes(stream) = {}
    <3> SUFFICES ASSUME NEW k \in LastBytes(stream) PROVE FALSE
      OBVIOUS
    <3>1. k \in 1 .. MaxBytes /\ k < Len(stream) /\ stream[k + 1] < Base
      BY DEF LastBytes
    <3>2. k \in 1 .. Len(D) /\ k < Len(D)
      BY <1>1, <1>2, <3>1, Limits
    <3>3. stream[k + 1] >= Base /\ stream[k + 1] \in Nat
      BY <3>1, <3>2, MadeDigits
    <3>4. QED
      BY <3>1, <3>3, Limits
  <2>2. QED
    BY <1>1, <1>2, <2>1, TakenWithout, Limits DEF TakesIt
<1>3. CASE Len(stream) > Len(D) /\ Len(D) <= MaxBytes
  BY <1>1, <1>3, MadeIsTaken, Limits DEF TakesIt
<1>4. CASE Len(D) > MaxBytes
  <2>1. ASSUME NEW n \in 2 .. MaxBytes + 1 PROVE packet[n] >= Base
    <3>1. n - 1 \in 1 .. Len(D) /\ n - 1 < Len(D) /\ (n - 1) + 1 = n
      BY <1>1, <1>4, Limits
    <3>2. packet[(n - 1) + 1] = D[n - 1] /\ D[n - 1] >= Base
      BY <3>1 DEF Made, Digits
    <3>3. QED
      BY <3>1, <3>2
  <2>2. Endless(packet)
    BY <1>1, <1>4, <2>1, Limits DEF Endless
  <2>3. QED
    BY <1>1, <2>2, EndlessInStep
<1>5. QED
  BY <1>1, <1>2, <1>3, <1>4, Limits

LEMMA BodyOffset ==
  ASSUME NEW packet \in Seq(Byte)
  PROVE  body_offset(packet) = 0 \/ body_offset(packet) \in 3 .. Len(packet) + 1
<1> DEFINE ends == {n \in 2 .. Len(packet) : packet[n] < Base}
           first == CHOOSE n \in ends : \A m \in ends : n <= m
<1>1. CASE ends = {}
  BY <1>1 DEF body_offset
<1>2. CASE ends # {}
  <2>1. ends \in SUBSET (1 .. Len(packet)) /\ Len(packet) \in Nat
    OBVIOUS
  <2> HIDE DEF ends
  <2>2. Min(ends) \in ends /\ \A k \in ends : Min(ends) <= k
    BY <1>2, <2>1, FirstPlace
  <2>3. first \in ends
    BY <2>2
  <2>4. first \in 2 .. Len(packet)
    BY <2>3 DEF ends
  <2>5. body_offset(packet) = 1 + first
    BY <1>2 DEF body_offset, ends
  <2> HIDE DEF first
  <2>6. QED
    BY <2>1, <2>4, <2>5
<1>3. QED
  BY <1>1, <1>2

LEMMA FramedIsMade ==
  ASSUME NEW packet \in Seq(Byte), Framed(packet)
  PROVE  \E D, length : Made(packet, D, length)
<1> DEFINE at == body_offset(packet)
           length == Len(packet) + 1 - at
           D == remaining(length)
<1>1. at \in 3 .. Len(packet) + 1 /\ SubSeq(packet, 2, at - 1) = D /\ Len(packet) \in Nat
  BY BodyOffset DEF Framed
<1> HIDE DEF at
<1>2. length \in Nat
  BY <1>1
<1>3. Digits(length, D)
  BY <1>2, LoopEnds
<1>4. Len(D) = at - 2 /\ \A n \in 1 .. Len(D) : D[n] = packet[n + 1]
  <2>1. \A i \in 2 .. at - 1 : packet[i] \in Byte
    BY <1>1
  <2>2. /\ Len(SubSeq(packet, 2, at - 1)) = IF 2 <= at - 1 THEN at - 1 - 2 + 1 ELSE 0
        /\ \A i \in 1 .. at - 1 - 2 + 1 : SubSeq(packet, 2, at - 1)[i] = packet[2 + i - 1]
    BY <1>1, <2>1, SubSeqProperties
  <2> HIDE DEF D
  <2>3. QED
    BY <1>1, <2>2
<1> HIDE DEF D
<1>5. Len(packet) = 1 + Len(D) + length
  BY <1>1, <1>4
<1>6. QED
  BY <1>2, <1>3, <1>4, <1>5 DEF Made

\* Every packet the server frames, and that is within the limit, is read as it is
LEMMA FrameIsTaken ==
  ASSUME NEW first \in Byte, NEW body \in Seq(Byte), Len(body) <= MaxPacket
  PROVE  /\ Frame(first, body) \in Seq(Byte)
         /\ Taken(Frame(first, body)) = Len(Frame(first, body))
<1> DEFINE D == remaining(Len(body))
           packet == <<first>> \o D \o body
<1>1. Len(body) \in Nat /\ Digits(Len(body), D)
  BY LoopEnds
<1> HIDE DEF D
<1>2. D \in Seq(Byte) /\ Len(D) \in Nat /\ Len(D) > 0
  BY <1>1 DEF Digits
<1>3. /\ packet \in Seq(Byte) /\ Len(packet) = 1 + Len(D) + Len(body)
      /\ \A n \in 1 .. Len(D) : packet[n + 1] = D[n]
  BY <1>1, <1>2
<1> HIDE DEF packet
<1>4. Made(packet, D, Len(body))
  BY <1>1, <1>3 DEF Made
<1>5. Len(D) <= MaxBytes
  BY <1>1, FewDigits
<1>6. Begins(packet, packet)
  BY DEF Begins
<1>7. Taken(packet) = Len(packet)
  <2>1. Len(D) < Len(packet) /\ Len(packet) \in Nat
    BY <1>1, <1>2, <1>3
  <2>2. Taken(packet) = IF Len(packet) > Len(packet) THEN Len(packet) ELSE Len(packet)
    BY <1>3, <1>4, <1>5, <1>6, <2>1, MadeIsTaken
  <2>3. QED
    BY <2>2
<1>8. Frame(first, body) = packet
  BY DEF Frame, D, packet
<1>9. QED
  BY <1>3, <1>7, <1>8

\* So is one whose length is a single byte
LEMMA ShortIsTaken ==
  ASSUME NEW s \in Seq(Byte), Len(s) >= 2, s[2] < Base, Len(s) = 2 + s[2]
  PROVE  Taken(s) = Len(s)
<1>1. Len(s) \in Nat /\ s[2] \in Nat
  BY BytesAreNumbers
<1>2. 1 \in LastBytes(s)
  BY <1>1, Limits DEF LastBytes
<1>3. PICK v : Counted(s, 1, v)
  BY <1>1, Limits, ValueOf
<1>4. v[1] = v[0] + (s[2] % Base) * multiplier[1] /\ v[0] = 0 /\ v[1] = Value(s, 1)
  BY <1>3 DEF Counted
<1>5. multiplier[1] = 1
  BY Multipliers
<1>6. s[2] % Base = s[2]
  BY <1>1, Limits
<1>6a. Value(s, 1) = s[2]
  BY <1>1, <1>4, <1>5, <1>6
<1>7. s[2] <= MaxPacket
  BY <1>1, Limits
<1>8. QED
  BY <1>1, <1>2, <1>6a, <1>7, TakenWith

-----------------------------------------------------------------------------
(* What is answered                                                        *)

LEMMA StringEnd ==
  ASSUME NEW packet \in Seq(Byte), NEW at \in Nat \ {0}
  PROVE  \/ mqtt_string(packet, at) = 0
         \/ at + 1 <= Len(packet) /\ mqtt_string(packet, at) \in at + 2 .. Len(packet) + 1
<1>1. Len(packet) \in Nat
  OBVIOUS
<1>2. CASE at + 1 > Len(packet)
  BY <1>2 DEF mqtt_string
<1>3. CASE at + 1 <= Len(packet)
  <2> DEFINE after == at + 2 + packet[at] * 256 + packet[at + 1]
  <2>1. at \in 1 .. Len(packet) /\ at + 1 \in 1 .. Len(packet)
    BY <1>1, <1>3
  <2>2. packet[at] \in Nat /\ packet[at + 1] \in Nat
    BY <2>1, BytesAreNumbers
  <2>3. after \in Nat /\ after >= at + 2
    BY <2>2
  <2> HIDE DEF after
  <2>4. mqtt_string(packet, at) = IF after > Len(packet) + 1 THEN 0 ELSE after
    BY <1>1, <1>3 DEF mqtt_string, after
  <2>5. QED
    BY <1>1, <1>3, <2>3, <2>4
<1>4. QED
  BY <1>1, <1>2, <1>3

BytesOrBad == Seq(Byte) \cup {Bad}

\* One round of the loop over the filters, given what the rounds after it grant
Grant(packet, at, rest) ==
  LET after == mqtt_string(packet, at)
  IN  IF at + 1 > Len(packet) \/ after > Len(packet) THEN <<>>
      ELSE IF after = 0 \/ rest = Bad THEN Bad ELSE <<packet[after]>> \o rest

LEMMA GrantsAreBytes ==
  ASSUME NEW packet \in Seq(Byte), body_offset(packet) # 0
  PROVE  Grants(packet) \in BytesOrBad
<1> DEFINE last == Len(packet) + 3
           D == 1 .. last
           next(at) == mqtt_string(packet, at) + 1
           Goes(at) == at + 1 <= Len(packet) /\ next(at) - 1 <= Len(packet) /\ next(at) # 1
           Is(f) == f = [at \in D |-> Grant(packet, at, f[next(at)])]
           from == CHOOSE f : Is(f)
           rank == [at \in D |-> last - at]
           g == [x \in D \X [D -> BytesOrBad] |->
                   Grant(packet, x[1], IF Goes(x[1]) THEN x[2][next(x[1])] ELSE <<>>)]
<1>1. Len(packet) \in Nat /\ last \in Nat /\ D \subseteq Nat \ {0}
  OBVIOUS
<1>2. ASSUME NEW at \in D, Goes(at)
      PROVE  /\ next(at) - 1 \in 1 .. Len(packet) /\ packet[next(at) - 1] \in Byte
             /\ next(at) \in D /\ at < next(at) /\ next(at) - 1 = mqtt_string(packet, at)
  <2>1. mqtt_string(packet, at) = 0 \/ mqtt_string(packet, at) \in at + 2 .. Len(packet) + 1
    BY <1>1, StringEnd
  <2>2. mqtt_string(packet, at) \in at + 2 .. Len(packet)
    BY <1>1, <1>2, <2>1
  <2>3. packet[mqtt_string(packet, at)] \in Byte
    BY <1>1, <2>2, BytesAreNumbers
  <2>4. QED
    BY <1>1, <2>2, <2>3
<1>3. ASSUME NEW at \in D, NEW rest, Goes(at) => rest \in BytesOrBad
      PROVE  Grant(packet, at, rest) \in BytesOrBad
  <2>1. CASE Goes(at) /\ rest # Bad
    <3>1. packet[next(at) - 1] \in Byte /\ next(at) - 1 = mqtt_string(packet, at)
      BY <1>2, <2>1
    <3>2. rest \in Seq(Byte)
      BY <1>3, <2>1 DEF BytesOrBad
    <3>3. <<packet[mqtt_string(packet, at)]>> \o rest \in Seq(Byte)
      BY <3>1, <3>2
    <3>4. QED
      BY <3>3 DEF BytesOrBad, Grant
  <2>2. CASE ~(Goes(at) /\ rest # Bad)
    <3>1. mqtt_string(packet, at) = 0 \/ mqtt_string(packet, at) \in at + 2 .. Len(packet) + 1
      BY <1>1, StringEnd
    <3>2. Grant(packet, at, rest) = <<>> \/ Grant(packet, at, rest) = Bad
      BY <1>1, <2>2, <3>1 DEF Grant
    <3>3. <<>> \in Seq(Byte)
      OBVIOUS
    <3>4. QED
      BY <3>2, <3>3 DEF BytesOrBad
  <2>3. QED
    BY <2>1, <2>2
<1>4. rank \in [D -> 0 .. last] /\ \A at \in D : rank[at] = last - at
  BY <1>1
<1> HIDE DEF rank
<1>5. ASSUME NEW at \in D, Goes(at) PROVE next(at) \in D /\ rank[next(at)] < rank[at]
  <2>1. next(at) \in D /\ at < next(at)
    BY <1>2, <1>5
  <2> HIDE DEF next, Goes
  <2>2. rank[next(at)] = last - next(at) /\ rank[at] = last - at
    BY <1>4, <2>1
  <2>3. QED
    BY <1>1, <2>1, <2>2
<1>6. \A at \in D : \A rest : ~Goes(at) => Grant(packet, at, rest) = Grant(packet, at, <<>>)
  <2> SUFFICES ASSUME NEW at \in D, NEW rest, ~Goes(at)
               PROVE  Grant(packet, at, rest) = Grant(packet, at, <<>>)
    OBVIOUS
  <2>1. mqtt_string(packet, at) = 0 \/ mqtt_string(packet, at) \in at + 2 .. Len(packet) + 1
    BY <1>1, StringEnd
  <2>2. QED
    BY <1>1, <2>1 DEF Grant
<1> HIDE DEF Goes, next
<1>7. \A at \in D : \A p : <<at, p>> \in D \X [D -> BytesOrBad] =>
                             g[<<at, p>>] = Grant(packet, at, IF Goes(at) THEN p[next(at)] ELSE <<>>)
  OBVIOUS
<1>8. g \in [D \X [D -> BytesOrBad] -> BytesOrBad]
  <2>1. ASSUME NEW at \in D, NEW p \in [D -> BytesOrBad]
        PROVE  Grant(packet, at, IF Goes(at) THEN p[next(at)] ELSE <<>>) \in BytesOrBad
    <3>1. Goes(at) => p[next(at)] \in BytesOrBad
      BY <1>5
    <3>2. QED
      BY <1>3, <3>1
  <2>2. QED
    BY <2>1
<1> HIDE DEF g
<1>9. PICK f \in [D -> BytesOrBad] : Follows(D, f, g)
  <2>1. ASSUME NEW at \in D, NEW p \in [D -> BytesOrBad], NEW q \in [D -> BytesOrBad],
               \A i \in D : rank[i] < rank[at] => p[i] = q[i]
        PROVE  g[<<at, p>>] = g[<<at, q>>]
    <3>1. Goes(at) => p[next(at)] = q[next(at)]
      BY <1>5, <2>1
    <3>2. QED
      BY <1>7, <3>1
  <2>2. Gives(D, rank, BytesOrBad, g)
    BY <1>8, <2>1 DEF Gives
  <2>3. BytesOrBad # {}
    BY DEF BytesOrBad
  <2> HIDE DEF D
  <2>4. QED
    BY <1>1, <1>4, <2>2, <2>3, Recursion
<1>10. \A at \in D : f[at] = Grant(packet, at, f[next(at)])
  <2> SUFFICES ASSUME NEW at \in D PROVE f[at] = Grant(packet, at, f[next(at)])
    OBVIOUS
  <2>1. f[at] = Grant(packet, at, IF Goes(at) THEN f[next(at)] ELSE <<>>)
    BY <1>7, <1>9 DEF Follows
  <2>2. QED
    BY <1>6, <2>1
<1> HIDE DEF D
<1>11. Is(f)
  BY <1>10
<1>12. Is(from)
  BY <1>11
<1> HIDE DEF from
<1>13. from = [at \in D |-> from[at]] /\ \A at \in D : from[at] = Grant(packet, at, from[next(at)])
  BY <1>12
<1>14. from \in [D -> BytesOrBad]
  <2>1. ASSUME NEW at \in D, \A i \in D : rank[i] < rank[at] => from[i] \in BytesOrBad
        PROVE  from[at] \in BytesOrBad
    <3>1. Goes(at) => from[next(at)] \in BytesOrBad
      BY <1>5, <2>1
    <3>2. QED
      BY <1>3, <1>13, <3>1
  <2>2. Keeps(D, rank, BytesOrBad, from)
    BY <1>13, <2>1 DEF Keeps
  <2>3. QED
    BY <1>1, <1>4, <2>2, Typing
<1>15. Grants(packet) = from[body_offset(packet) + 2]
  BY DEF Grants, Grant, from, next, D
<1>16. body_offset(packet) + 2 \in D
  BY <1>1, BodyOffset DEF D
<1>17. QED
  BY <1>14, <1>15, <1>16

\* An answer that the device reads as one packet, or the SUBACK that it does not
Readable(r) ==
  r \in Seq(Byte) /\ (Taken(r) = Len(r) \/ (r[1] = 144 /\ r[2] >= Base))

LEMMA SubackAnswers ==
  ASSUME NEW packet \in Seq(Byte), body_offset(packet) # 0, Suback(packet) # Bad
  PROVE  Readable(Suback(packet))
<1> DEFINE at == body_offset(packet)
           id == SubSeq(packet, at, IF at < Len(packet) THEN at + 1 ELSE Len(packet))
           body == id \o Grants(packet)
<1>1. at \in 3 .. Len(packet) + 1 /\ Len(packet) \in Nat
  BY BodyOffset
<1> HIDE DEF at
<1>2. id \in Seq(Byte)
  <2> DEFINE last == IF at < Len(packet) THEN at + 1 ELSE Len(packet)
  <2>1. last \in Int /\ last <= Len(packet) /\ at \in Int
    BY <1>1
  <2> HIDE DEF last
  <2>2. \A i \in at .. last : i \in 1 .. Len(packet)
    BY <1>1, <2>1
  <2>3. \A i \in at .. last : packet[i] \in Byte
    BY <2>2, BytesAreNumbers
  <2>4. SubSeq(packet, at, last) \in Seq(Byte)
    BY <2>1, <2>3, SubSeqProperties
  <2>5. QED
    BY <2>4 DEF last
<1> HIDE DEF id
<1>3. /\ Suback(packet) = IF Grants(packet) = Bad \/ Len(body) > 255 THEN Bad
                          ELSE <<144, Len(body)>> \o body
  BY DEF Suback, at, id
<1>4. Grants(packet) \in Seq(Byte)
  BY <1>3, GrantsAreBytes DEF BytesOrBad
<1>5. body \in Seq(Byte) /\ Len(body) \in Nat
  BY <1>2, <1>4
<1> HIDE DEF body
<1>6. Len(body) \in Byte /\ Suback(packet) = <<144, Len(body)>> \o body
  <2> DEFINE raises == Grants(packet) = Bad \/ Len(body) > 255
             answer == <<144, Len(body)>> \o body
  <2>1. Suback(packet) = IF raises THEN Bad ELSE answer
    BY <1>3
  <2> HIDE DEF raises, answer
  <2>2. ~raises /\ Suback(packet) = answer
    BY <2>1
  <2>3. Len(body) <= 255
    BY <1>5, <2>2 DEF raises
  <2>4. \A n \in Nat : n <= 255 => n \in Byte
    BY DEF Byte
  <2>5. Len(body) \in Byte
    BY <1>5, <2>3, <2>4
  <2>6. QED
    BY <2>2, <2>5 DEF answer
<1> DEFINE r == <<144, Len(body)>> \o body
<1>7. 144 \in Byte
  BY DEF Byte
<1>8. r \in Seq(Byte) /\ Len(r) = 2 + Len(body) /\ r[1] = 144 /\ r[2] = Len(body)
  BY <1>5, <1>6, <1>7
<1> HIDE DEF r
<1>9. CASE Len(body) < Base
  <2>1. Len(r) >= 2 /\ r[2] < Base /\ Len(r) = 2 + r[2]
    BY <1>5, <1>8, <1>9
  <2>2. QED
    BY <1>6, <1>8, <2>1, ShortIsTaken DEF Readable, r
<1>10. CASE Len(body) >= Base
  BY <1>6, <1>8, <1>10 DEF Readable, r
<1>11. QED
  BY <1>5, <1>9, <1>10, Limits

LEMMA AcknowledgeAnswers ==
  ASSUME NEW packet \in Seq(Byte), body_offset(packet) # 0, packet # <<>>,
         Acknowledge(packet) # Bad, Acknowledge(packet) # <<>>
  PROVE  Readable(Acknowledge(packet))
<1> DEFINE at == body_offset(packet)
           after == mqtt_string(packet, at)
           qos == (packet[1] \div 2) % 4
           r == <<64, 2, packet[after], packet[after + 1]>>
<1>1. at \in 3 .. Len(packet) + 1 /\ Len(packet) \in Nat /\ at \in Nat \ {0}
  BY BodyOffset
<1>2. after = 0 \/ after \in at + 2 .. Len(packet) + 1
  BY <1>1, StringEnd
<1>3. qos \in 0 .. 3
  <2>1. 1 \in 1 .. Len(packet)
    BY <1>1
  <2>2. packet[1] \in Nat
    BY <2>1, BytesAreNumbers
  <2>3. QED
    BY <2>2
<1>4. Acknowledge(packet) =
        CASE after = 0 \/ qos > 1 \/ (qos = 1 /\ after + 1 > Len(packet)) -> Bad
          [] after # 0 /\ qos = 0 -> <<>>
          [] after # 0 /\ qos = 1 /\ after + 1 <= Len(packet) -> r
  BY DEF Acknowledge
<1> HIDE DEF at, after, qos, r
<1>5. after # 0 /\ qos = 1 /\ after + 1 <= Len(packet)
  BY <1>1, <1>2, <1>3, <1>4
<1>6. Acknowledge(packet) = r
  BY <1>1, <1>2, <1>4, <1>5
<1>7. packet[after] \in Byte /\ packet[after + 1] \in Byte
  <2>1. after \in 1 .. Len(packet) /\ after + 1 \in 1 .. Len(packet)
    BY <1>1, <1>2, <1>5
  <2>2. QED
    BY <2>1, BytesAreNumbers
<1>8. 64 \in Byte /\ 2 \in Byte
  BY DEF Byte
<1>9. r \in Seq(Byte) /\ Len(r) = 4 /\ r[2] = 2
  BY <1>7, <1>8 DEF r
<1>10. Len(r) >= 2 /\ r[2] < Base /\ Len(r) = 2 + r[2]
  BY <1>9, Limits
<1>11. Taken(r) = Len(r)
  BY <1>9, <1>10, ShortIsTaken
<1>12. QED
  BY <1>6, <1>9, <1>11 DEF Readable

LEMMA ConstantAnswers == Readable(<<32, 2, 0, 0>>) /\ Readable(<<208, 0>>)
<1>1. 32 \in Byte /\ 2 \in Byte /\ 0 \in Byte /\ 208 \in Byte
  BY DEF Byte
<1> DEFINE a == <<32, 2, 0, 0>>
           b == <<208, 0>>
<1>2. a \in Seq(Byte) /\ Len(a) = 4 /\ a[2] = 2 /\ b \in Seq(Byte) /\ Len(b) = 2 /\ b[2] = 0
  BY <1>1
<1> HIDE DEF a, b
<1>3. /\ Len(a) >= 2 /\ a[2] < Base /\ Len(a) = 2 + a[2]
      /\ Len(b) >= 2 /\ b[2] < Base /\ Len(b) = 2 + b[2]
  BY <1>2, Limits
<1>4. Taken(a) = Len(a) /\ Taken(b) = Len(b)
  BY <1>2, <1>3, ShortIsTaken
<1>5. QED
  BY <1>2, <1>4 DEF Readable, a, b

LEMMA ReplyAnswers ==
  ASSUME NEW packet \in Seq(Byte), packet # <<>>, NEW r \in {Reply(packet), Greeting(packet)},
         r # Bad, r # <<>>
  PROVE  Readable(r)
<1>1. CASE r = Greeting(packet)
  BY <1>1, ConstantAnswers DEF Greeting
<1>2. CASE r = Reply(packet)
  <2>1. body_offset(packet) # 0
    BY <1>2 DEF Reply
  <2>2. Reply(packet) = CASE Type(packet) = 8 -> Suback(packet)
                          [] Type(packet) = 3 -> Acknowledge(packet)
                          [] Type(packet) = 12 -> <<208, 0>>
                          [] Type(packet) \notin {3, 8, 12} -> <<>>
    BY <2>1 DEF Reply
  <2>3. \/ r = Suback(packet) \/ r = Acknowledge(packet) \/ r = <<208, 0>> \/ r = <<>>
    BY <1>2, <2>2
  <2>4. QED
    BY <2>1, <2>3, SubackAnswers, AcknowledgeAnswers, ConstantAnswers
<1>3. QED
  BY <1>1, <1>2

LEMMA ResponseAnswers ==
  ASSUME NEW packet \in Seq(Byte), NEW more \in Responds(packet)
  PROVE  more = <<>> \/ \E r : more = <<r>> /\ Readable(r)
<1>1. CASE more = <<>>
  BY <1>1
<1>2. CASE more # <<>>
  <2>1. PICK body \in Response : more = <<Frame(48, body)>>
    BY <1>2 DEF Responds
  <2>2. body \in Seq(Byte) /\ Len(body) <= MaxPacket /\ 48 \in Byte
    BY CodecAssumption DEF Byte
  <2>3. Readable(Frame(48, body))
    BY <2>2, FrameIsTaken DEF Readable
  <2>4. QED
    BY <2>1, <2>3
<1>3. QED
  BY <1>1, <1>2

AllReadable(rs) == rs \in Seq(Seq(Byte)) /\ \A n \in DOMAIN rs : Readable(rs[n])

LEMMA MoreAnswers ==
  ASSUME NEW rs, AllReadable(rs), NEW r, Readable(r)
  PROVE  AllReadable(rs \o <<r>>)
<1>1. rs \in Seq(Seq(Byte)) /\ r \in Seq(Byte) /\ Len(rs) \in Nat
  BY DEF AllReadable, Readable
<1>2. rs \o <<r>> \in Seq(Seq(Byte)) /\ Len(rs \o <<r>>) = Len(rs) + 1
  BY <1>1
<1>3. ASSUME NEW n \in 1 .. Len(rs) + 1 PROVE Readable((rs \o <<r>>)[n])
  <2>1. (rs \o <<r>>)[n] = IF n <= Len(rs) THEN rs[n] ELSE r
    BY <1>1
  <2>2. n <= Len(rs) => Readable(rs[n])
    BY <1>1 DEF AllReadable
  <2>3. QED
    BY <2>1, <2>2
<1>4. QED
  BY <1>1, <1>2, <1>3 DEF AllReadable

-----------------------------------------------------------------------------
(* The stream of a device's packets                                        *)

\* f gives what the first n packets are, one after the other
Joins(f, packets) ==
  /\ f \in [0 .. Len(packets) -> Seq(Byte)] /\ f[0] = <<>>
  /\ \A n \in 1 .. Len(packets) : f[n] = f[n - 1] \o packets[n]

\* The stream is what all of them are
LEMMA StreamJoins ==
  ASSUME NEW packets \in Seq(Seq(Byte))
  PROVE  \E f : Joins(f, packets) /\ f[Len(packets)] = FlattenSeq(packets)
<1> DEFINE S == Seq(Byte)
           N == Len(packets)
           D == 1 .. N
           Is(h) == h = [n \in D |-> IF n = 1 THEN packets[n] ELSE h[n - 1] \o packets[n]]
           flatten == CHOOSE h : Is(h)
           g == [x \in D \X [D -> S] |-> IF x[1] = 1 THEN packets[1]
                                        ELSE x[2][x[1] - 1] \o packets[x[1]]]
           f == [n \in 0 .. N |-> IF n = 0 THEN <<>> ELSE flatten[n]]
<1>1. N \in Nat /\ \A n \in D : packets[n] \in S
  OBVIOUS
<1>2. CASE N = 0
  <2> DEFINE e == [n \in 0 .. N |-> <<>>]
  <2>1. <<>> \in S /\ packets = <<>>
    BY <1>2
  <2>2. e \in [0 .. N -> S] /\ e[0] = <<>> /\ e[N] = <<>>
    BY <1>2, <2>1
  <2>3. FlattenSeq(packets) = <<>>
    BY <1>2, <2>1 DEF FlattenSeq
  <2> HIDE DEF e
  <2>4. Joins(e, packets)
    BY <1>2, <2>2 DEF Joins
  <2>5. QED
    BY <2>2, <2>3, <2>4
<1>3. CASE N # 0
  <2>1. \A a, b \in S : a \o b \in S
    OBVIOUS
  <2> HIDE DEF S
  <2>2. ASSUME NEW n \in D, n # 1 PROVE n - 1 \in D /\ n - 1 \in 1 .. n - 1
    BY <1>1, <2>2
  <2>3. 1 \in D /\ N \in D
    BY <1>1, <1>3
  <2>4. GivesUp(1, N, S, g)
    <3> HIDE DEF D
    <3>1. g \in [D \X [D -> S] -> S]
      BY <1>1, <2>1, <2>2, <2>3
    <3>2. ASSUME NEW n \in D, NEW p \in [D -> S], NEW q \in [D -> S],
                 \A i \in 1 .. n - 1 : p[i] = q[i]
          PROVE  g[<<n, p>>] = g[<<n, q>>]
      BY <2>2, <3>2
    <3>3. QED
      BY <3>1, <3>2 DEF GivesUp, D
  <2>5. PICK h \in [D -> S] : Follows(1 .. N, h, g)
    BY <1>1, <2>3, <2>4, IntervalRecursion
  <2>6. \A n \in D : h[n] = IF n = 1 THEN packets[n] ELSE h[n - 1] \o packets[n]
    BY <2>5 DEF Follows
  <2>7. Is(flatten)
    <3>1. Is(h)
      BY <2>5, <2>6
    <3>2. QED
      BY <3>1
  <2>8. FlattenSeq(packets) = flatten[N]
    BY <1>3 DEF FlattenSeq
  <2> HIDE DEF flatten
  <2>9. flatten = [n \in D |-> flatten[n]]
    BY <2>7
  <2>10. \A n \in D : flatten[n] = IF n = 1 THEN packets[n] ELSE flatten[n - 1] \o packets[n]
    BY <2>7
  <2>11. ASSUME NEW n \in D, \A i \in 1 .. n - 1 : flatten[i] \in S PROVE flatten[n] \in S
    <3>1. CASE n = 1
      BY <1>1, <2>10, <3>1
    <3>2. CASE n # 1
      <4>1. flatten[n - 1] \in S /\ packets[n] \in S
        BY <1>1, <2>2, <2>11, <3>2
      <4>2. QED
        BY <2>1, <2>10, <3>2, <4>1
    <3>3. QED
      BY <3>1, <3>2
  <2>12. flatten \in [D -> S]
    <3>1. KeepsUp(1, N, S, flatten)
      BY <2>9, <2>11 DEF KeepsUp
    <3>2. QED
      BY <1>1, <3>1, IntervalRecursion
  <2>13. <<>> \in S /\ \A a \in S : <<>> \o a = a
    BY DEF S
  <2>14. \A n \in 0 .. N : n # 0 => n \in D
    BY <1>1
  <2>15. f \in [0 .. N -> S]
    BY <2>12, <2>13, <2>14
  <2>16. 0 \in 0 .. N /\ N \in 0 .. N /\ \A n \in D : n \in 0 .. N /\ n # 0 /\ n - 1 \in 0 .. N
    BY <1>1
  <2>17. f[0] = <<>> /\ f[N] = flatten[N]
    BY <1>3, <2>16
  <2>18. ASSUME NEW n \in D PROVE f[n] = f[n - 1] \o packets[n]
    <3>1. CASE n = 1
      <4>1. f[n] = packets[n] /\ f[n - 1] = <<>>
        BY <2>10, <2>16, <3>1
      <4>2. QED
        BY <1>1, <2>13, <4>1
    <3>2. CASE n # 1
      <4>1. n - 1 # 0
        BY <1>1, <3>2
      <4>2. f[n] = flatten[n] /\ f[n - 1] = flatten[n - 1]
        BY <2>16, <4>1
      <4>3. QED
        BY <2>10, <3>2, <4>2
    <3>3. QED
      BY <3>1, <3>2
  <2> HIDE DEF f
  <2>19. Joins(f, packets)
    BY <2>15, <2>17, <2>18 DEF Joins, S
  <2>20. QED
    BY <2>8, <2>17, <2>19
<1>4. QED
  BY <1>2, <1>3

\* t starts with s
Starts(s, t) == Len(s) <= Len(t) /\ \A i \in 1 .. Len(s) : t[i] = s[i]

LEMMA StartsMore ==
  ASSUME NEW s \in Seq(Byte), NEW t \in Seq(Byte), NEW u \in Seq(Byte)
  PROVE  Starts(s, s) /\ (Starts(s, t) => Starts(s, t \o u))
<1>1. Len(s) \in Nat /\ Len(t) \in Nat /\ Len(u) \in Nat
  OBVIOUS
<1>2. /\ Len(t \o u) = Len(t) + Len(u)
      /\ \A i \in 1 .. Len(t) + Len(u) : i <= Len(t) => (t \o u)[i] = t[i]
  BY ConcatProperties
<1>3. ASSUME Starts(s, t) PROVE Starts(s, t \o u)
  <2>1. Len(s) <= Len(t \o u)
    BY <1>1, <1>2, <1>3 DEF Starts
  <2>2. ASSUME NEW i \in 1 .. Len(s) PROVE (t \o u)[i] = s[i]
    <3>1. i \in 1 .. Len(t) + Len(u) /\ i <= Len(t)
      BY <1>1, <1>3 DEF Starts
    <3>2. QED
      BY <1>2, <1>3, <3>1 DEF Starts
  <2>3. QED
    BY <2>1, <2>2 DEF Starts
<1>4. QED
  BY <1>1, <1>3 DEF Starts

\* What the first packets are is where the stream starts
LEMMA StreamStarts ==
  ASSUME NEW packets \in Seq(Seq(Byte)), NEW f, Joins(f, packets), NEW k \in 0 .. Len(packets)
  PROVE  Starts(f[k], f[Len(packets)])
<1> DEFINE N == Len(packets)
           S == {n \in Nat : k <= n /\ n <= N => Starts(f[k], f[n])}
<1>1. N \in Nat /\ k \in Nat /\ k <= N /\ \A n \in 1 .. N : packets[n] \in Seq(Byte)
  OBVIOUS
<1>2. \A n \in 0 .. N : f[n] \in Seq(Byte)
  BY DEF Joins
<1>3. \A n \in 1 .. N : f[n] = f[n - 1] \o packets[n]
  BY DEF Joins
<1>4. Starts(f[k], f[k])
  BY <1>2, StartsMore
<1> HIDE DEF N
<1>5. ASSUME NEW n \in Nat, n \in S PROVE n + 1 \in S
  <2> SUFFICES ASSUME k <= n + 1, n + 1 <= N PROVE Starts(f[k], f[n + 1])
    OBVIOUS
  <2>1. CASE k = n + 1
    BY <1>4, <2>1
  <2>2. CASE k # n + 1
    <3>1. k <= n /\ n <= N /\ n + 1 \in 1 .. N /\ n \in 0 .. N /\ (n + 1) - 1 = n
      BY <1>1, <2>2
    <3>2. Starts(f[k], f[n])
      BY <1>5, <3>1
    <3>3. f[n] \in Seq(Byte) /\ f[k] \in Seq(Byte) /\ packets[n + 1] \in Seq(Byte)
      BY <1>1, <1>2, <3>1
    <3>4. f[n + 1] = f[n] \o packets[n + 1]
      BY <1>3, <3>1
    <3>5. Starts(f[k], f[n] \o packets[n + 1])
      BY <3>2, <3>3, StartsMore
    <3>6. QED
      BY <3>4, <3>5
  <2>3. QED
    BY <2>1, <2>2
<1>6. 0 \in S
  <2> SUFFICES ASSUME k <= 0 PROVE Starts(f[k], f[0])
    OBVIOUS
  <2>1. k = 0
    BY <1>1
  <2>2. QED
    BY <1>4, <2>1
<1>7. Nat \subseteq S
  <2> HIDE DEF S
  <2>1. QED
    BY <1>5, <1>6, SetInduction
<1>8. QED
  BY <1>1, <1>7 DEF N

\* The device's stream once k packets of it have been taken
Rest(packets, k, stream) ==
  \E f, cut : /\ Joins(f, packets) /\ k \in 0 .. Len(packets)
              /\ cut \in Len(f[k]) .. Len(f[Len(packets)])
              /\ stream = SubSeq(f[Len(packets)], Len(f[k]) + 1, cut)

\* Before anything is taken it is all of the stream, up to where it ends
LEMMA RestAtFirst ==
  ASSUME NEW packets \in Seq(Seq(Byte)), NEW cut \in 0 .. Len(FlattenSeq(packets))
  PROVE  /\ Rest(packets, 0, SubSeq(FlattenSeq(packets), 1, cut))
         /\ SubSeq(FlattenSeq(packets), 1, cut) \in Seq(Byte)
<1>1. PICK f : Joins(f, packets) /\ f[Len(packets)] = FlattenSeq(packets)
  BY StreamJoins
<1>2. Len(packets) \in Nat
  OBVIOUS
<1>3. f[0] = <<>> /\ Len(<<>>) = 0 /\ f[Len(packets)] \in Seq(Byte)
  BY <1>1, <1>2 DEF Joins
<1>4. Len(f[0]) = 0 /\ 0 \in 0 .. Len(packets)
  BY <1>2, <1>3
<1>5. cut \in Len(f[0]) .. Len(f[Len(packets)])
  BY <1>1, <1>4
<1>6. SubSeq(FlattenSeq(packets), 1, cut) = SubSeq(f[Len(packets)], Len(f[0]) + 1, cut)
  BY <1>1, <1>4
<1>7. Rest(packets, 0, SubSeq(FlattenSeq(packets), 1, cut))
  BY <1>1, <1>4, <1>5, <1>6 DEF Rest
<1>8. SubSeq(FlattenSeq(packets), 1, cut) \in Seq(Byte)
  <2> DEFINE all == FlattenSeq(packets)
  <2>1. all \in Seq(Byte) /\ Len(all) \in Nat
    BY <1>1, <1>3
  <2> HIDE DEF all
  <2>2. \A i \in 1 .. cut : all[i] \in Byte
    BY <2>1, BytesAreNumbers DEF all
  <2>3. SubSeq(all, 1, cut) \in Seq(Byte)
    BY <2>1, <2>2, SubSeqProperties
  <2>4. QED
    BY <2>3 DEF all
<1>9. QED
  BY <1>7, <1>8

\* What is left begins as the next packet does, and what is left after it is the rest
LEMMA NextPacket ==
  ASSUME NEW packets \in Seq(Seq(Byte)), NEW k, NEW stream \in Seq(Byte), stream # <<>>,
         Rest(packets, k, stream)
  PROVE  /\ k \in 0 .. Len(packets) - 1
         /\ Begins(stream, packets[k + 1])
         /\ Len(stream) >= Len(packets[k + 1]) =>
              /\ SubSeq(stream, 1, Len(packets[k + 1])) = packets[k + 1]
              /\ Rest(packets, k + 1, SubSeq(stream, Len(packets[k + 1]) + 1, Len(stream)))
<1>1. PICK f, cut : /\ Joins(f, packets) /\ k \in 0 .. Len(packets)
                    /\ cut \in Len(f[k]) .. Len(f[Len(packets)])
                    /\ stream = SubSeq(f[Len(packets)], Len(f[k]) + 1, cut)
  BY DEF Rest
<1> DEFINE N == Len(packets)
           all == f[N]
           a == Len(f[k])
           packet == packets[k + 1]
           b == Len(packet)
<1>2. N \in Nat /\ all \in Seq(Byte) /\ a \in Nat /\ Len(all) \in Nat /\ f[k] \in Seq(Byte)
  <2>1. N \in Nat
    OBVIOUS
  <2>2. f \in [0 .. N -> Seq(Byte)] /\ k \in 0 .. N /\ N \in 0 .. N
    BY <1>1, <2>1 DEF Joins
  <2>3. all \in Seq(Byte) /\ f[k] \in Seq(Byte)
    <3> HIDE DEF N
    <3>1. QED
      BY <2>2
  <2>4. QED
    BY <2>1, <2>3
<1>3. cut \in Nat /\ a <= cut /\ cut <= Len(all)
  BY <1>1, <1>2
<1>4. /\ Len(stream) = cut - a
      /\ \A i \in 1 .. cut - a : stream[i] = all[a + i]
  <2> HIDE DEF N, all, a
  <2>1. stream = SubSeq(all, a + 1, cut)
    BY <1>1 DEF N, all, a
  <2>2. \A i \in a + 1 .. cut : i \in 1 .. Len(all)
    BY <1>2, <1>3
  <2>3. \A i \in a + 1 .. cut : all[i] \in Byte
    BY <1>2, <2>2, BytesAreNumbers
  <2>4. a + 1 \in Int /\ cut \in Int
    BY <1>2, <1>3
  <2>5. /\ Len(stream) = IF a + 1 <= cut THEN cut - (a + 1) + 1 ELSE 0
        /\ \A i \in 1 .. cut - (a + 1) + 1 : stream[i] = all[a + 1 + i - 1]
    BY <2>1, <2>3, <2>4, SubSeqProperties
  <2>6. cut - (a + 1) + 1 = cut - a
    BY <1>2, <1>3
  <2>7. Len(stream) = cut - a
    BY <1>2, <1>3, <2>5
  <2>8. ASSUME NEW i \in 1 .. cut - a PROVE stream[i] = all[a + i]
    <3>1. a + 1 + i - 1 = a + i
      BY <1>2, <1>3
    <3>2. QED
      BY <2>5, <2>6, <3>1
  <2>9. QED
    BY <2>7, <2>8
<1>5. cut > a
  <2>1. Len(stream) # 0
    OBVIOUS
  <2>2. QED
    BY <1>2, <1>3, <1>4, <2>1
<1>6. k \in 0 .. N - 1 /\ k + 1 \in 1 .. N /\ k + 1 \in 0 .. N /\ (k + 1) - 1 = k
  <2>1. k # N
    BY <1>2, <1>3, <1>5
  <2>2. QED
    BY <1>1, <1>2, <2>1
<1>7. packet \in Seq(Byte) /\ b \in Nat
  <2>1. packet \in Seq(Byte)
    BY <1>6
  <2>2. QED
    BY <2>1
<1>8. f[k + 1] = f[k] \o packet
  BY <1>1, <1>6 DEF Joins
<1>9. Starts(f[k + 1], all)
  BY <1>1, <1>6, StreamStarts
<1> HIDE DEF N, all, packet
<1>10. /\ Len(f[k + 1]) = a + b
       /\ \A i \in 1 .. a + b : f[k + 1][i] = IF i <= a THEN f[k][i] ELSE packet[i - a]
  BY <1>2, <1>7, <1>8, ConcatProperties
<1> HIDE DEF a, b
<1>11. a + b <= Len(all) /\ \A i \in 1 .. b : all[a + i] = packet[i]
  <2>1. a + b <= Len(all)
    BY <1>9, <1>10 DEF Starts
  <2>2. ASSUME NEW i \in 1 .. b PROVE all[a + i] = packet[i]
    <3>1. a + i \in 1 .. a + b /\ ~(a + i <= a) /\ (a + i) - a = i
      BY <1>2, <1>7
    <3>2. all[a + i] = f[k + 1][a + i]
      BY <1>9, <1>10, <3>1 DEF Starts
    <3>3. QED
      BY <1>10, <3>1, <3>2
  <2>3. QED
    BY <2>1, <2>2
<1>12. Begins(stream, packet)
  <2> SUFFICES ASSUME NEW i \in 1 .. Len(stream), i <= Len(packet) PROVE stream[i] = packet[i]
    BY DEF Begins
  <2>1. i \in 1 .. cut - a /\ i \in 1 .. b
    BY <1>4, <1>7 DEF b
  <2>2. QED
    BY <1>4, <1>11, <2>1
<1>13. ASSUME Len(stream) >= b PROVE SubSeq(stream, 1, b) = packet
  <2>1. \A i \in 1 .. b : stream[i] = packet[i] /\ packet[i] \in Byte
    <3>1. \A i \in 1 .. b : i \in 1 .. Len(stream) /\ i <= Len(packet) /\ i \in 1 .. Len(packet)
      BY <1>3, <1>4, <1>2, <1>7, <1>13 DEF b
    <3>2. QED
      BY <1>7, <1>12, <3>1, BytesAreNumbers DEF Begins
  <2>2. SubSeq(stream, 1, b) \in Seq(Byte) /\ Len(SubSeq(stream, 1, b)) = b
        /\ \A i \in 1 .. b : SubSeq(stream, 1, b)[i] = stream[i]
    <3>1. /\ SubSeq(stream, 1, b) \in Seq(Byte)
          /\ Len(SubSeq(stream, 1, b)) = IF 1 <= b THEN b - 1 + 1 ELSE 0
          /\ \A i \in 1 .. b - 1 + 1 : SubSeq(stream, 1, b)[i] = stream[1 + i - 1]
      BY <1>7, <2>1, SubSeqProperties
    <3>2. b - 1 + 1 = b /\ \A i \in 1 .. b : 1 + i - 1 = i
      BY <1>7
    <3>3. QED
      BY <1>7, <3>1, <3>2
  <2>3. QED
    BY <1>7, <2>1, <2>2, SeqEqual DEF b
<1>14. ASSUME Len(stream) >= b
       PROVE  Rest(packets, k + 1, SubSeq(stream, b + 1, Len(stream)))
  <2>1. a + b <= cut
    BY <1>2, <1>3, <1>4, <1>7, <1>14
  <2>2. cut \in Len(f[k + 1]) .. Len(all)
    BY <1>2, <1>3, <1>7, <1>10, <2>1
  <2> DEFINE left == SubSeq(stream, b + 1, Len(stream))
             same == SubSeq(all, Len(f[k + 1]) + 1, cut)
  <2>3. /\ left \in Seq(Byte) /\ Len(left) = cut - (a + b)
        /\ \A i \in 1 .. cut - (a + b) : left[i] = all[a + b + i]
    <3>1. \A i \in b + 1 .. Len(stream) : i \in 1 .. Len(stream)
      BY <1>7
    <3>2. \A i \in b + 1 .. Len(stream) : stream[i] \in Byte
      BY <3>1, BytesAreNumbers
    <3>3. b + 1 \in Int /\ Len(stream) \in Int
      BY <1>7
    <3>4. /\ left \in Seq(Byte)
          /\ Len(left) = IF b + 1 <= Len(stream) THEN Len(stream) - (b + 1) + 1 ELSE 0
          /\ \A i \in 1 .. Len(stream) - (b + 1) + 1 : left[i] = stream[b + 1 + i - 1]
      BY <3>2, <3>3, SubSeqProperties
    <3>5. Len(left) = cut - (a + b) /\ Len(stream) - (b + 1) + 1 = cut - (a + b)
      BY <1>2, <1>3, <1>4, <1>7, <2>1, <3>4
    <3>6. ASSUME NEW i \in 1 .. cut - (a + b) PROVE left[i] = all[a + b + i]
      <4>1. b + 1 + i - 1 = b + i /\ b + i \in 1 .. cut - a /\ a + (b + i) = a + b + i
        BY <1>2, <1>3, <1>7, <2>1
      <4>2. left[i] = stream[b + 1 + i - 1]
        BY <3>4, <3>5
      <4>3. QED
        BY <1>4, <4>1, <4>2
    <3>7. QED
      BY <3>4, <3>5, <3>6
  <2>4. /\ same \in Seq(Byte) /\ Len(same) = cut - (a + b)
        /\ \A i \in 1 .. cut - (a + b) : same[i] = all[a + b + i]
    <3>1. Len(f[k + 1]) = a + b /\ a + b + 1 \in Int /\ cut \in Int
      BY <1>2, <1>3, <1>7, <1>10
    <3>2. \A i \in a + b + 1 .. cut : i \in 1 .. Len(all)
      BY <1>2, <1>3, <1>7
    <3>3. \A i \in a + b + 1 .. cut : all[i] \in Byte
      BY <1>2, <3>2, BytesAreNumbers
    <3>4. same = SubSeq(all, a + b + 1, cut)
      BY <3>1
    <3>5. /\ same \in Seq(Byte)
          /\ Len(same) = IF a + b + 1 <= cut THEN cut - (a + b + 1) + 1 ELSE 0
          /\ \A i \in 1 .. cut - (a + b + 1) + 1 : same[i] = all[a + b + 1 + i - 1]
      <4> HIDE DEF same
      <4>1. QED
        BY <3>1, <3>3, <3>4, SubSeqProperties
    <3>6. Len(same) = cut - (a + b) /\ cut - (a + b + 1) + 1 = cut - (a + b)
      <4>1. /\ cut - (a + b + 1) + 1 = cut - (a + b)
            /\ (IF a + b + 1 <= cut THEN cut - (a + b + 1) + 1 ELSE 0) = cut - (a + b)
        BY <1>2, <1>3, <1>7, <2>1
      <4>2. QED
        BY <3>5, <4>1
    <3>7. ASSUME NEW i \in 1 .. cut - (a + b) PROVE same[i] = all[a + b + i]
      <4>1. a + b + 1 + i - 1 = a + b + i
        BY <1>2, <1>3, <1>7
      <4>2. QED
        BY <3>5, <3>6, <4>1
    <3>8. QED
      BY <3>5, <3>6, <3>7
  <2> HIDE DEF left, same
  <2>5. left = same
    BY <2>3, <2>4, SeqEqual
  <2>6. QED
    BY <1>1, <1>6, <2>2, <2>5 DEF Rest, left, same, N, all
<1>15. QED
  BY <1>6, <1>12, <1>13, <1>14 DEF N, packet, b

-----------------------------------------------------------------------------
(* The connection                                                          *)

\* Nothing was read or answered before the device was there
Untouched == handler = "accept" => inbox = <<>> /\ replies = <<>>
Chosen == handler # "accept" => sent \in Sent
\* What has not been read is the rest of what the device sends
Remains == handler \in {"connect", "loop"} => wire = <<>> \/ Rest(sent, Len(inbox), wire)

WireInv ==
  WireTypeOK /\ Untouched /\ Chosen /\ Remains /\ HandlerIsInStep /\ AllReadable(replies)

\* read_packet takes the packet the device sent, or all that there is of it
LEMMA TakenIsNext ==
  ASSUME NEW packets \in Sent, NEW k, NEW stream \in Seq(Byte), Rest(packets, k, stream),
         Taken(stream) > 0
  PROVE  /\ k \in 0 .. Len(packets) - 1 /\ packets[k + 1] \in Seq(Byte)
         /\ Begins(stream, packets[k + 1]) /\ TakesIt(packets[k + 1], stream)
         /\ Len(stream) >= Len(packets[k + 1]) =>
              /\ SubSeq(stream, 1, Len(packets[k + 1])) = packets[k + 1]
              /\ Rest(packets, k + 1, SubSeq(stream, Len(packets[k + 1]) + 1, Len(stream)))
<1>1. /\ packets \in Seq(Seq(Byte))
      /\ \A n \in DOMAIN packets : Framed(packets[n]) \/ Endless(packets[n])
  BY CodecAssumption
<1>2. stream # <<>>
  <2>1. Len(stream) > 0
    BY TakenBound
  <2>2. QED
    BY <2>1
<1>3. /\ k \in 0 .. Len(packets) - 1
      /\ Begins(stream, packets[k + 1])
      /\ Len(stream) >= Len(packets[k + 1]) =>
           /\ SubSeq(stream, 1, Len(packets[k + 1])) = packets[k + 1]
           /\ Rest(packets, k + 1, SubSeq(stream, Len(packets[k + 1]) + 1, Len(stream)))
  BY <1>1, <1>2, NextPacket
<1>4. k + 1 \in DOMAIN packets /\ packets[k + 1] \in Seq(Byte)
  BY <1>1, <1>3
<1> DEFINE packet == packets[k + 1]
<1> HIDE DEF packet
<1>5. packet \in Seq(Byte) /\ Begins(stream, packet) /\ (Framed(packet) \/ Endless(packet))
  BY <1>1, <1>3, <1>4 DEF packet
<1>6. TakesIt(packet, stream)
  <2>1. CASE Endless(packet)
    BY <1>5, <2>1, EndlessInStep
  <2>2. CASE Framed(packet)
    <3>1. PICK D, length : Made(packet, D, length)
      BY <1>5, <2>2, FramedIsMade
    <3>2. QED
      BY <1>5, <3>1, MadeInStep
  <2>3. QED
    BY <1>5, <2>1, <2>2
<1>7. QED
  BY <1>3, <1>4, <1>6 DEF packet

\* A part of a stream
LEMMA PartOf ==
  ASSUME NEW s \in Seq(Byte), NEW m \in Nat \ {0}, NEW n \in 0 .. Len(s)
  PROVE  /\ SubSeq(s, m, n) \in Seq(Byte)
         /\ m = 1 => Len(SubSeq(s, m, n)) = n /\ \A i \in 1 .. n : SubSeq(s, m, n)[i] = s[i]
         /\ m = n + 1 => SubSeq(s, m, n) = <<>>
<1>1. Len(s) \in Nat /\ m \in Int /\ n \in Int
  OBVIOUS
<1>2. \A i \in m .. n : i \in 1 .. Len(s)
  BY <1>1
<1>3. \A i \in m .. n : s[i] \in Byte
  BY <1>2, BytesAreNumbers
<1>4. /\ SubSeq(s, m, n) \in Seq(Byte)
      /\ Len(SubSeq(s, m, n)) = IF m <= n THEN n - m + 1 ELSE 0
      /\ \A i \in 1 .. n - m + 1 : SubSeq(s, m, n)[i] = s[m + i - 1]
  BY <1>1, <1>3, SubSeqProperties
<1>5. ASSUME m = 1
      PROVE  Len(SubSeq(s, m, n)) = n /\ \A i \in 1 .. n : SubSeq(s, m, n)[i] = s[i]
  <2>1. n - m + 1 = n /\ (IF m <= n THEN n - m + 1 ELSE 0) = n
    BY <1>1, <1>5
  <2>2. \A i \in 1 .. n : m + i - 1 = i
    BY <1>5
  <2>3. QED
    BY <1>4, <2>1, <2>2
<1>6. ASSUME m = n + 1 PROVE SubSeq(s, m, n) = <<>>
  BY <1>1, <1>6, SubSeqEmpty
<1>7. QED
  BY <1>4, <1>5, <1>6

\* The packets read so far and the answers so far, after one more packet
InOrder(packets, read, left) ==
  \A n \in DOMAIN read :
    /\ read[n] = packets[n] \/ (n = Len(read) /\ left = <<>> /\ IsPrefix(read[n], packets[n]))
    /\ Len(read[n]) <= 1 + MaxBytes + MaxPacket

LEMMA StepsOn ==
  ASSUME NEW packets \in Sent, NEW read \in Seq(Seq(Byte)), NEW stream \in Seq(Byte),
         InOrder(packets, read, stream), Taken(stream) > 0, Rest(packets, Len(read), stream)
  PROVE  LET packet == SubSeq(stream, 1, Taken(stream))
             left == SubSeq(stream, Taken(stream) + 1, Len(stream))
         IN  /\ packet \in Seq(Byte) /\ packet # <<>> /\ left \in Seq(Byte)
             /\ InOrder(packets, Append(read, packet), left)
             /\ left = <<>> \/ Rest(packets, Len(read) + 1, left)
<1> DEFINE t == Taken(stream)
           k == Len(read)
           next == packets[k + 1]
           packet == SubSeq(stream, 1, t)
           left == SubSeq(stream, t + 1, Len(stream))
<1>1. t \in 1 .. Len(stream) /\ t <= 1 + MaxBytes + MaxPacket /\ Len(stream) \in Nat /\ k \in Nat
      /\ t \in 0 .. Len(stream) /\ t + 1 \in Nat \ {0} /\ Len(stream) \in 0 .. Len(stream)
  BY TakenBound, Limits
<1>2. /\ k \in 0 .. Len(packets) - 1 /\ next \in Seq(Byte)
      /\ Begins(stream, next) /\ TakesIt(next, stream)
      /\ Len(stream) >= Len(next) =>
           /\ SubSeq(stream, 1, Len(next)) = next
           /\ Rest(packets, k + 1, SubSeq(stream, Len(next) + 1, Len(stream)))
  BY TakenIsNext
<1>3. stream # <<>>
  BY <1>1
<1> HIDE DEF t, k, next
<1>4. packet \in Seq(Byte) /\ Len(packet) = t /\ \A i \in 1 .. t : packet[i] = stream[i]
  BY <1>1, PartOf
<1>5. left \in Seq(Byte) /\ (t = Len(stream) => left = <<>>)
  <2>1. left \in Seq(Byte)
    BY <1>1, PartOf
  <2>2. ASSUME t = Len(stream) PROVE left = <<>>
    <3>1. t + 1 = Len(stream) + 1
      BY <2>2
    <3>2. QED
      BY <1>1, <3>1, PartOf
  <2>3. QED
    BY <2>1, <2>2
<1>6. \/ Len(stream) <= Len(next) /\ t = Len(stream)
      \/ Len(stream) >= Len(next) /\ t = Len(next)
  BY <1>1, <1>2 DEF TakesIt, t
<1>7. \/ packet = next \/ (left = <<>> /\ IsPrefix(packet, next))
  <2>1. CASE Len(stream) >= Len(next) /\ t = Len(next)
    BY <1>2, <2>1
  <2>2. CASE Len(stream) <= Len(next) /\ t = Len(stream)
    <3>1. Len(next) \in Nat /\ t \in 0 .. Len(next) /\ t \in 0 .. Len(packet)
      BY <1>1, <1>2, <1>4, <2>2
    <3>2. \A i \in 1 .. t : i \in 1 .. Len(stream) /\ i <= Len(next)
      BY <1>1, <2>2
    <3>3. \A i \in 1 .. t : packet[i] = next[i]
      BY <1>2, <1>4, <3>2 DEF Begins
    <3> DEFINE p == SubSeq(packet, 1, t)
               q == SubSeq(next, 1, t)
    <3>4. p \in Seq(Byte) /\ Len(p) = t /\ \A i \in 1 .. t : p[i] = packet[i]
      <4> HIDE DEF packet
      <4>1. QED
        BY <1>4, <3>1, PartOf
    <3>5. q \in Seq(Byte) /\ Len(q) = t /\ \A i \in 1 .. t : q[i] = next[i]
      BY <1>2, <3>1, PartOf
    <3> HIDE DEF p, q, packet
    <3>6. p = q
      BY <3>3, <3>4, <3>5, SeqEqual
    <3>7. SubSeq(packet, 1, Len(packet)) = SubSeq(next, 1, Len(packet))
      BY <1>4, <3>6 DEF p, q
    <3>8. IsPrefix(packet, next)
      BY <1>4, <2>2, <3>7 DEF IsPrefix
    <3>9. QED
      BY <1>5, <2>2, <3>8
  <2>3. QED
    BY <1>6, <2>1, <2>2
<1>8. left = <<>> \/ Rest(packets, k + 1, left)
  <2>1. CASE t = Len(stream)
    BY <1>5, <2>1
  <2>2. CASE t # Len(stream)
    BY <1>2, <1>6, <2>2
  <2>3. QED
    BY <2>1, <2>2
<1> HIDE DEF packet, left
<1> DEFINE more == Append(read, packet)
<1>9. more \in Seq(Seq(Byte)) /\ Len(more) = k + 1
      /\ \A n \in 1 .. k + 1 : more[n] = IF n <= k THEN read[n] ELSE packet
  <2>1. read \in Seq(Seq(Byte)) /\ packet \in Seq(Byte)
    BY <1>4
  <2>2. QED
    BY <2>1 DEF k
<1>10. InOrder(packets, more, left)
  <2> SUFFICES ASSUME NEW n \in 1 .. k + 1
               PROVE  /\ more[n] = packets[n]
                           \/ (n = k + 1 /\ left = <<>> /\ IsPrefix(more[n], packets[n]))
                      /\ Len(more[n]) <= 1 + MaxBytes + MaxPacket
    BY <1>9 DEF InOrder
  <2>1. CASE n <= k
    <3>1. n \in DOMAIN read /\ more[n] = read[n]
      BY <1>1, <1>9, <2>1 DEF k
    <3>2. QED
      BY <1>3, <3>1 DEF InOrder
  <2>2. CASE ~(n <= k)
    <3>1. n = k + 1 /\ more[n] = packet /\ packets[n] = next
      BY <1>1, <1>9, <2>2 DEF next
    <3>2. QED
      BY <1>1, <1>4, <1>7, <3>1
  <2>3. QED
    BY <2>1, <2>2
<1>11. packet # <<>>
  BY <1>1, <1>4
<1>12. QED
  BY <1>4, <1>5, <1>8, <1>10, <1>11 DEF packet, left, t, k

\* What is in step is in order and answered with answers
LEMMA InStepIs ==
  HandlerIsInStep <=>
    /\ InOrder(sent, inbox, wire)
    /\ \A n \in DOMAIN replies :
         Taken(replies[n]) = Len(replies[n]) \/ (replies[n][1] = 144 /\ replies[n][2] >= Base)
BY DEF HandlerIsInStep, InOrder

LEMMA AnswersInStep ==
  ASSUME NEW rs, AllReadable(rs)
  PROVE  \A n \in DOMAIN rs : Taken(rs[n]) = Len(rs[n]) \/ (rs[n][1] = 144 /\ rs[n][2] >= Base)
BY DEF AllReadable, Readable

LEMMA WireInvInit == WireInit => WireInv
<1> SUFFICES ASSUME WireInit PROVE WireInv
  OBVIOUS
<1>1. /\ sent = <<>> /\ wire = <<>> /\ inbox = <<>> /\ replies = <<>> /\ handler = "accept"
  BY DEF WireInit
<1>2. AllReadable(replies)
  BY <1>1 DEF AllReadable
<1>3. HandlerIsInStep
  BY <1>1 DEF HandlerIsInStep
<1>4. WireTypeOK
  BY <1>1 DEF WireTypeOK
<1>5. Untouched /\ Chosen /\ Remains
  BY <1>1 DEF Untouched, Chosen, Remains
<1>6. QED
  BY <1>2, <1>3, <1>4, <1>5 DEF WireInv

LEMMA ConnectsKeeps ==
  ASSUME WireInv, NEW packets \in Sent, Connects(packets)
  PROVE  WireInv'
<1>1. /\ handler = "accept" /\ handler' = "connect" /\ sent' = packets
      /\ inbox' = inbox /\ replies' = replies
  BY DEF Connects
<1>2. PICK cut \in 0 .. Len(FlattenSeq(packets)) : wire' = SubSeq(FlattenSeq(packets), 1, cut)
  BY DEF Connects
<1>3. packets \in Seq(Seq(Byte))
  BY CodecAssumption
<1>4. Rest(packets, 0, wire') /\ wire' \in Seq(Byte)
  BY <1>2, <1>3, RestAtFirst
<1>5. inbox' = <<>> /\ replies' = <<>> /\ Len(inbox') = 0
  BY <1>1 DEF WireInv, Untouched
<1>6. WireTypeOK'
  BY <1>1, <1>4, <1>5 DEF WireTypeOK
<1>7. Untouched' /\ Chosen' /\ Remains'
  BY <1>1, <1>4, <1>5 DEF Untouched, Chosen, Remains
<1>8. HandlerIsInStep'
  BY <1>5 DEF HandlerIsInStep
<1>9. AllReadable(replies')
  BY <1>1 DEF WireInv
<1>10. QED
  BY <1>6, <1>7, <1>8, <1>9 DEF WireInv

\* What is sent back to one packet
LEMMA SendsAnswers ==
  ASSUME AllReadable(replies), NEW packet \in Seq(Byte), packet # <<>>,
         NEW reply \in {Reply(packet), Greeting(packet)}, reply # Bad,
         NEW more \in Responds(packet), Sends(reply, more)
  PROVE  AllReadable(replies')
<1>1. more = <<>> \/ \E r : more = <<r>> /\ Readable(r)
  BY ResponseAnswers
<1>2. ASSUME NEW rs, AllReadable(rs) PROVE AllReadable(rs \o more)
  <2>1. CASE more = <<>>
    <3>1. rs \o more = rs
      BY <1>2, <2>1 DEF AllReadable
    <3>2. QED
      BY <1>2, <3>1
  <2>2. CASE more # <<>>
    <3>1. PICK r : more = <<r>> /\ Readable(r)
      BY <1>1, <2>2
    <3>2. QED
      BY <1>2, <3>1, MoreAnswers
  <2>3. QED
    BY <2>1, <2>2
<1>3. CASE reply = <<>>
  <2>1. replies' = replies \o more
    BY <1>3 DEF Sends
  <2>2. QED
    BY <1>2, <2>1
<1>4. CASE reply # <<>>
  <2>1. Readable(reply)
    BY <1>4, ReplyAnswers
  <2>2. AllReadable(replies \o <<reply>>)
    BY <2>1, MoreAnswers
  <2>3. AllReadable((replies \o <<reply>>) \o more)
    BY <1>2, <2>2
  <2>4. replies' = replies \o (<<reply>> \o more)
    BY <1>4 DEF Sends
  <2> DEFINE one == <<reply>>
             S == Seq(Byte)
  <2>5. more \in Seq(S) /\ one \in Seq(S) /\ replies \in Seq(S)
    <3>1. reply \in S /\ replies \in Seq(S)
      BY <2>1 DEF Readable, AllReadable
    <3>2. more = <<>> \/ \E r : more = <<r>> /\ r \in S
      BY <1>1 DEF Readable
    <3> HIDE DEF S
    <3>3. <<>> \in Seq(S) /\ \A r \in S : <<r>> \in Seq(S)
      OBVIOUS
    <3>4. more \in Seq(S)
      BY <3>2, <3>3
    <3>5. one \in Seq(S)
      BY <3>1, <3>3
    <3>6. QED
      BY <3>1, <3>4, <3>5
  <2>6. replies' = (replies \o one) \o more
    <3>1. replies' = replies \o (one \o more)
      BY <2>4
    <3> HIDE DEF one, S
    <3>2. (replies \o one) \o more = replies \o (one \o more)
      BY <2>5, ConcatAssociative
    <3>3. QED
      BY <3>1, <3>2
  <2>7. QED
    BY <2>3, <2>6
<1>5. QED
  BY <1>3, <1>4

LEMMA HandleKeeps ==
  ASSUME WireInv, Handle
  PROVE  WireInv'
<1> DEFINE packet == SubSeq(wire, 1, Taken(wire))
           left == SubSeq(wire, Taken(wire) + 1, Len(wire))
           reply == IF handler = "connect" THEN Greeting(packet) ELSE Reply(packet)
<1>1. /\ handler \in {"connect", "loop"} /\ Taken(wire) > 0 /\ sent' = sent
      /\ inbox' = Append(inbox, packet) /\ wire' = left
  BY DEF Handle
<1>2. \/ handler' = "closed" /\ replies' = replies
      \/ /\ handler' \in {"loop", "closed"} /\ reply # Bad
         /\ \E more \in Responds(packet) : Sends(reply, more)
  BY DEF Handle, Responds
<1>3. /\ sent \in Sent /\ wire \in Seq(Byte) /\ inbox \in Seq(Seq(Byte)) /\ Len(inbox) \in Nat
      /\ InOrder(sent, inbox, wire)
  BY <1>1, InStepIs DEF WireInv, WireTypeOK, Chosen
<1>4. Rest(sent, Len(inbox), wire)
  <2>1. Len(wire) > 0
    BY <1>1, <1>3, TakenBound
  <2>2. wire # <<>>
    BY <2>1
  <2>3. QED
    BY <1>1, <2>2 DEF WireInv, Remains
<1>5. /\ packet \in Seq(Byte) /\ packet # <<>> /\ left \in Seq(Byte)
      /\ InOrder(sent, Append(inbox, packet), left)
      /\ left = <<>> \/ Rest(sent, Len(inbox) + 1, left)
  BY <1>1, <1>3, <1>4, StepsOn
<1> HIDE DEF packet, left
<1>6. inbox' \in Seq(Seq(Byte)) /\ Len(inbox') = Len(inbox) + 1
  <2>1. packet \in Seq(Byte)
    BY <1>5
  <2>2. QED
    BY <1>1, <1>3, <2>1
<1>7. AllReadable(replies')
  <2>1. AllReadable(replies) /\ reply \in {Reply(packet), Greeting(packet)}
    BY DEF WireInv
  <2> HIDE DEF reply
  <2>2. QED
    BY <1>2, <1>5, <2>1, SendsAnswers
<1>8. WireTypeOK'
  <2>1. replies' \in Seq(Seq(Byte)) /\ handler' \in {"accept", "connect", "loop", "closed"}
    BY <1>2, <1>7 DEF AllReadable
  <2>2. sent' \in Sent \cup {<<>>} /\ wire' \in Seq(Byte)
    BY <1>1, <1>3, <1>5
  <2>3. QED
    BY <1>6, <2>1, <2>2 DEF WireTypeOK
<1>9. Untouched' /\ Chosen' /\ Remains'
  BY <1>1, <1>2, <1>3, <1>5, <1>6 DEF Untouched, Chosen, Remains
<1>10. HandlerIsInStep'
  <2>1. InOrder(sent', inbox', wire')
    BY <1>1, <1>5
  <2>2. \A n \in DOMAIN replies' :
          Taken(replies'[n]) = Len(replies'[n]) \/ (replies'[n][1] = 144 /\ replies'[n][2] >= Base)
    BY <1>7, AnswersInStep
  <2>3. QED
    BY <2>1, <2>2 DEF HandlerIsInStep, InOrder
<1>11. QED
  BY <1>7, <1>8, <1>9, <1>10 DEF WireInv

LEMMA HangUpKeeps ==
  ASSUME WireInv, HangUp
  PROVE  WireInv'
<1>1. /\ handler' = "closed" /\ handler # "accept"
      /\ sent' = sent /\ wire' = wire /\ inbox' = inbox /\ replies' = replies
  BY DEF HangUp
<1>2. WireTypeOK' /\ Untouched' /\ Chosen' /\ Remains'
  BY <1>1 DEF WireInv, WireTypeOK, Untouched, Chosen, Remains
<1>3. HandlerIsInStep' /\ AllReadable(replies')
  BY <1>1 DEF WireInv, HandlerIsInStep
<1>4. QED
  BY <1>2, <1>3 DEF WireInv

LEMMA WireInvHolds == WireSpec => []WireInv
<1>1. ASSUME WireInv, [WireNext]_wireVars PROVE WireInv'
  <2>1. CASE UNCHANGED wireVars
    <3>1. sent' = sent /\ wire' = wire /\ inbox' = inbox /\ replies' = replies /\ handler' = handler
      BY <2>1 DEF wireVars
    <3>2. WireTypeOK' /\ Untouched' /\ Chosen' /\ Remains'
      BY <1>1, <3>1 DEF WireInv, WireTypeOK, Untouched, Chosen, Remains
    <3>3. HandlerIsInStep' /\ AllReadable(replies')
      BY <1>1, <3>1 DEF WireInv, HandlerIsInStep
    <3>4. QED
      BY <3>2, <3>3 DEF WireInv
  <2>2. CASE \E packets \in Sent : Connects(packets)
    BY <1>1, <2>2, ConnectsKeeps
  <2>3. CASE Handle
    BY <1>1, <2>3, HandleKeeps
  <2>4. CASE HangUp
    BY <1>1, <2>4, HangUpKeeps
  <2>5. QED
    BY <1>1, <2>1, <2>2, <2>3, <2>4 DEF WireNext
<1>2. QED
  BY <1>1, WireInvInit, PTL DEF WireSpec

\* The state of a connection has its types: the bytes of what is read and of what is
\* answered are bytes, whatever a device sends (read_packet, _handle, _packet)
THEOREM WireTypes == WireSpec => []WireTypeOK
<1>1. WireInv => WireTypeOK
  BY DEF WireInv
<1>2. QED
  BY <1>1, WireInvHolds, PTL

\* The server takes the packets a device sent, whole and in its order, for any base,
\* limit and packets, and each of its answers is read as one packet: read_packet and
\* remaining() are inverse to one another up to the limit (mqtt_server.py:11-56)
THEOREM StaysInStep == WireSpec => []HandlerIsInStep
<1>1. WireInv => HandlerIsInStep
  BY DEF WireInv
<1>2. QED
  BY <1>1, WireInvHolds, PTL

-----------------------------------------------------------------------------
(* The sum of the currents                                                 *)

\* A sum of numbers is a number
LEMMA TotalType ==
  ASSUME NEW parts \in Seq(Nat)
  PROVE  Total(parts) \in Nat
<1> DEFINE last == Len(parts)
           Sum(s) == s = [n \in 0 .. last |-> IF n = 0 THEN 0 ELSE s[n - 1] + parts[n]]
           sum == CHOOSE s : Sum(s)
           Partial(k, s) == /\ s \in [0 .. k -> Nat]
                            /\ \A n \in 0 .. k : s[n] = IF n = 0 THEN 0 ELSE s[n - 1] + parts[n]
           Reached == {k \in Nat : k <= last => \E s : Partial(k, s)}
<1>1. last \in Nat /\ \A n \in 1 .. last : parts[n] \in Nat
  OBVIOUS
<1>2. 0 \in Reached
  <2>1. Partial(0, [n \in 0 .. 0 |-> 0])
    OBVIOUS
  <2>2. QED
    BY <2>1
<1>3. ASSUME NEW k \in Nat, k \in Reached PROVE k + 1 \in Reached
  <2> SUFFICES ASSUME k + 1 <= last PROVE \E s : Partial(k + 1, s)
    OBVIOUS
  <2>1. PICK s : Partial(k, s)
    <3>1. k <= last
      BY <1>1
    <3> HIDE DEF last, Partial
    <3>2. QED
      BY <1>3, <3>1
  <2> DEFINE t == [n \in 0 .. k + 1 |-> IF n <= k THEN s[n] ELSE s[k] + parts[k + 1]]
  <2>2. parts[k + 1] \in Nat
    BY <1>1
  <2>3. t \in [0 .. k + 1 -> Nat]
    BY <2>1, <2>2
  <2>4. ASSUME NEW n \in 0 .. k + 1 PROVE t[n] = IF n = 0 THEN 0 ELSE t[n - 1] + parts[n]
    <3>1. CASE n = 0
      BY <2>1, <3>1
    <3>2. CASE n # 0 /\ n <= k
      BY <2>1, <3>2
    <3>3. CASE n = k + 1
      BY <2>1, <3>3
    <3>4. QED
      BY <3>1, <3>2, <3>3
  <2>5. Partial(k + 1, t)
    BY <2>3, <2>4
  <2>6. QED
    BY <2>5
<1>4. Nat \subseteq Reached
  <2> HIDE DEF Reached
  <2>1. QED
    BY <1>2, <1>3, SetInduction
<1>5. PICK s : Partial(last, s)
  <2>1. last <= last
    BY <1>1
  <2> HIDE DEF last, Partial
  <2>2. QED
    BY <1>1, <1>4, <2>1
<1>6. Sum(s)
  BY <1>5
<1>7. Sum(sum)
  BY <1>6
<1> DEFINE Numbers == {k \in Nat : k <= last => sum[k] \in Nat}
<1> HIDE DEF sum
<1>8. \A n \in 0 .. last : sum[n] = IF n = 0 THEN 0 ELSE sum[n - 1] + parts[n]
  BY <1>7
<1>9. 0 \in Numbers
  BY <1>1, <1>8
<1>10. ASSUME NEW k \in Nat, k \in Numbers PROVE k + 1 \in Numbers
  <2> SUFFICES ASSUME k + 1 <= last PROVE sum[k + 1] \in Nat
    OBVIOUS
  <2>1. sum[k] \in Nat /\ parts[k + 1] \in Nat
    BY <1>1, <1>10
  <2>2. sum[k + 1] = sum[k] + parts[k + 1]
    BY <1>1, <1>8
  <2>3. QED
    BY <2>1, <2>2
<1>11. Nat \subseteq Numbers
  <2> HIDE DEF Numbers
  <2>1. QED
    BY <1>9, <1>10, SetInduction
<1>12. sum[last] \in Nat
  BY <1>1, <1>11
<1>13. Total(parts) = sum[last]
  BY DEF Total, sum
<1>14. QED
  BY <1>12, <1>13

-----------------------------------------------------------------------------
(* Items that are taken one after the other                                *)

\* What the last of some items say stands in the state and the energy file
Shows(items, on, meter) ==
  /\ \A c \in Channel :
       Setters(items, c) # {} => items[Max(Setters(items, c))].switches[c] = on[c]
  /\ Meters(items) # {} => items[Max(Meters(items))].energy = meter

LEMMA ShowsNothing == \A on, meter : Shows(<<>>, on, meter)
BY DEF Shows, Setters, Meters

\* C are the places in s \o t of the places A in s and B in t
Joined(s, t, A, B, C) ==
  /\ A \in SUBSET (1 .. Len(s)) /\ B \in SUBSET (1 .. Len(t))
  /\ \A n : n \in C <=> n \in A \/ \E k \in B : n = Len(s) + k

\* The last of them is that of the second sequence, if it has one
LastWins(s, t, A, B, C) ==
  /\ B # {} => (s \o t)[Max(C)] = t[Max(B)]
  /\ B = {} => C = A /\ (A # {} => (s \o t)[Max(C)] = s[Max(A)])

LEMMA LastOfConcat ==
  ASSUME NEW s \in Seq(Item), NEW t \in Seq(Item),
         NEW A, NEW B, NEW C, Joined(s, t, A, B, C)
  PROVE  LastWins(s, t, A, B, C)
<1>0. Len(s) \in Nat /\ Len(t) \in Nat
  OBVIOUS
<1>1. /\ A \in SUBSET (1 .. Len(s)) /\ B \in SUBSET (1 .. Len(t))
      /\ \A n : n \in C <=> n \in A \/ \E k \in B : n = Len(s) + k
  BY DEF Joined
<1>2. \A n \in 1 .. Len(s) + Len(t) : (s \o t)[n] = IF n <= Len(s) THEN s[n] ELSE t[n - Len(s)]
  OBVIOUS
<1>3. ASSUME B # {} PROVE (s \o t)[Max(C)] = t[Max(B)]
  <2>1. Max(B) \in B /\ \A k \in B : k <= Max(B)
    BY <1>0, <1>1, <1>3, LastPlace
  <2> DEFINE n == Len(s) + Len(t)
             b == Max(B)
             m == Max(C)
  <2>2. C \in SUBSET (1 .. n) /\ C # {} /\ n \in Nat
    <3>1. n \in Nat /\ \A k \in A : k \in 1 .. n
      BY <1>0, <1>1
    <3>2. \A k \in B : Len(s) + k \in 1 .. n /\ Len(s) + k \in C
      BY <1>0, <1>1
    <3> HIDE DEF n
    <3>3. C # {}
      BY <1>1, <1>3, <3>2
    <3>4. \A k \in C : k \in 1 .. n
      BY <1>1, <3>1, <3>2
    <3>5. QED
      BY <3>1, <3>3, <3>4
  <2>3. m \in C /\ \A k \in C : k <= m
    <3> HIDE DEF n
    <3>1. QED
      BY <2>2, LastPlace
  <2> HIDE DEF b, m
  <2>4. b \in B /\ b \in 1 .. Len(t) /\ \A k \in B : k <= b
    BY <1>0, <1>1, <2>1 DEF b
  <2>5. Len(s) + b \in C
    BY <1>0, <1>1, <2>4
  <2>6. m = Len(s) + b
    <3>1. m \in 1 .. n
      BY <2>2, <2>3
    <3>2. m >= Len(s) + b
      BY <1>0, <1>1, <2>3, <2>4, <2>5, <3>1
    <3>3. m \notin A
      BY <1>0, <1>1, <2>4, <3>1, <3>2
    <3>4. PICK k \in B : m = Len(s) + k
      BY <1>0, <1>1, <2>3, <3>3
    <3>5. QED
      BY <1>0, <2>4, <3>2, <3>4
  <2>7. (s \o t)[m] = t[b]
    BY <1>0, <1>1, <1>2, <2>4, <2>6
  <2>8. QED
    BY <2>7 DEF b, m
<1>4. ASSUME B = {}, A # {} PROVE (s \o t)[Max(A)] = s[Max(A)]
  <2>1. Max(A) \in 1 .. Len(s)
    BY <1>0, <1>1, <1>4, LastPlace
  <2>2. QED
    BY <1>0, <1>1, <1>2, <2>1
<1>5. B = {} => C = A
  BY <1>1
<1>6. QED
  BY <1>3, <1>4, <1>5 DEF LastWins

LEMMA PlacesOfConcat ==
  ASSUME NEW s \in Seq(Item), NEW t \in Seq(Item)
  PROVE  /\ \A c : Joined(s, t, Setters(s, c), Setters(t, c), Setters(s \o t, c))
         /\ Joined(s, t, Meters(s), Meters(t), Meters(s \o t))
<1>1. /\ Len(s) \in Nat /\ Len(t) \in Nat
      /\ DOMAIN s = 1 .. Len(s) /\ DOMAIN t = 1 .. Len(t)
      /\ DOMAIN (s \o t) = 1 .. Len(s) + Len(t)
  OBVIOUS
<1>2. /\ \A n \in 1 .. Len(s) : n \in DOMAIN (s \o t) /\ (s \o t)[n] = s[n]
      /\ \A k \in 1 .. Len(t) : Len(s) + k \in DOMAIN (s \o t) /\ (s \o t)[Len(s) + k] = t[k]
      /\ \A n \in DOMAIN (s \o t) :
           n \in 1 .. Len(s) \/ \E k \in 1 .. Len(t) : n = Len(s) + k
  <2>1. ASSUME NEW n \in DOMAIN (s \o t), n \notin 1 .. Len(s)
        PROVE  \E k \in 1 .. Len(t) : n = Len(s) + k
    <3>1. n - Len(s) \in 1 .. Len(t) /\ n = Len(s) + (n - Len(s))
      BY <1>1, <2>1
    <3>2. QED
      BY <3>1
  <2>2. ASSUME NEW k \in 1 .. Len(t)
        PROVE  Len(s) + k \in DOMAIN (s \o t) /\ (s \o t)[Len(s) + k] = t[k]
    BY <1>1
  <2>3. ASSUME NEW n \in 1 .. Len(s) PROVE n \in DOMAIN (s \o t) /\ (s \o t)[n] = s[n]
    BY <1>1
  <2>4. QED
    BY <2>1, <2>2, <2>3
<1> DEFINE st == s \o t
<1> HIDE DEF st
<1>3. /\ \A n \in 1 .. Len(s) : n \in DOMAIN st /\ st[n] = s[n]
      /\ \A k \in 1 .. Len(t) : Len(s) + k \in DOMAIN st /\ st[Len(s) + k] = t[k]
      /\ \A n \in DOMAIN st : n \in 1 .. Len(s) \/ \E k \in 1 .. Len(t) : n = Len(s) + k
  BY <1>2 DEF st
<1>4. ASSUME NEW c PROVE Joined(s, t, Setters(s, c), Setters(t, c), Setters(st, c))
  BY <1>1, <1>3, Zenon DEF Setters, Joined
<1>5. Joined(s, t, Meters(s), Meters(t), Meters(st))
  BY <1>1, <1>3, Zenon DEF Meters, Joined
<1>6. QED
  BY <1>4, <1>5 DEF st

\* What some items leave shows all of them, and those before them that it was
\* built upon
LEMMA ShowsConcat ==
  ASSUME NEW s \in Seq(Item), NEW t \in Seq(Item), NEW on, NEW meter, Shows(s, on, meter),
         NEW newOn, newOn = [c \in Channel |-> IF Setters(t, c) = {} THEN on[c]
                                               ELSE t[Max(Setters(t, c))].switches[c]],
         NEW newMeter, newMeter = IF Meters(t) = {} THEN meter ELSE t[Max(Meters(t))].energy
  PROVE  Shows(s \o t, newOn, newMeter)
<1> DEFINE st == s \o t
<1>1. /\ \A c : LastWins(s, t, Setters(s, c), Setters(t, c), Setters(st, c))
      /\ LastWins(s, t, Meters(s), Meters(t), Meters(st))
  BY PlacesOfConcat, LastOfConcat
<1>2. /\ \A c :
           /\ Setters(t, c) # {} => st[Max(Setters(st, c))] = t[Max(Setters(t, c))]
           /\ Setters(t, c) = {} =>
                /\ Setters(st, c) = Setters(s, c)
                /\ Setters(s, c) # {} => st[Max(Setters(st, c))] = s[Max(Setters(s, c))]
      /\ Meters(t) # {} => st[Max(Meters(st))] = t[Max(Meters(t))]
      /\ Meters(t) = {} =>
           /\ Meters(st) = Meters(s)
           /\ Meters(s) # {} => st[Max(Meters(st))] = s[Max(Meters(s))]
  BY <1>1 DEF LastWins
<1> HIDE DEF st
<1>3. ASSUME NEW c \in Channel, Setters(st, c) # {}
      PROVE  st[Max(Setters(st, c))].switches[c] = newOn[c]
  BY <1>2, <1>3 DEF Shows
<1>4. ASSUME Meters(st) # {} PROVE st[Max(Meters(st))].energy = newMeter
  BY <1>2, <1>4 DEF Shows
<1>5. Shows(st, newOn, newMeter)
  BY <1>3, <1>4 DEF Shows
<1>6. QED
  BY <1>5 DEF st

-----------------------------------------------------------------------------
(* Types                                                                   *)

\* The items before one that raises are items
LEMMA SoundType == ASSUME NEW items \in Seq(Item) PROVE Sound(items) \in Seq(Item)
<1> DEFINE I == {n \in 1 .. Len(items) : items[n].raises}
           bad == SelectInSeq(items, LAMBDA item : item.raises)
<1>1. Len(items) \in Nat
  OBVIOUS
<1>2. bad = IF I # {} THEN Min(I) ELSE 0
  BY DEF SelectInSeq
<1>3. bad = 0 \/ bad \in 1 .. Len(items)
  BY <1>1, <1>2, FirstPlace
<1>4. Sound(items) = IF bad = 0 THEN items ELSE SubSeq(items, 1, bad - 1)
  BY DEF Sound
<1> HIDE DEF bad
<1>5. QED
  BY <1>1, <1>3, <1>4

\* What a report says has the type of what it is stored in
LEMMA SwitchedType ==
  ASSUME DecoderTypeOK, NEW items \in Seq(Item)
  PROVE  Switched(items) \in [Channel -> BOOLEAN \cup {Gone}] /\ Metered(items) \in Nat \cup {Gone}
<1>1. ASSUME NEW S \in SUBSET (DOMAIN items), S # {} PROVE Max(S) \in S /\ items[Max(S)] \in Item
  <2>1. Len(items) \in Nat /\ DOMAIN items = 1 .. Len(items)
    OBVIOUS
  <2>2. Max(S) \in S
    BY <1>1, <2>1, LastPlace
  <2>3. QED
    BY <2>1, <2>2
<1>2. ASSUME NEW c \in Channel, Setters(items, c) # {}
      PROVE  items[Max(Setters(items, c))].switches[c] \in BOOLEAN
  <2> DEFINE last == Max(Setters(items, c))
  <2>1. c \in DOMAIN items[last].switches /\ items[last] \in Item
    BY <1>1, <1>2 DEF Setters
  <2> HIDE DEF last
  <2>2. QED
    BY <2>1 DEF Item, last
<1>3. Meters(items) # {} => items[Max(Meters(items))].energy \in Nat \cup {Gone}
  BY <1>1 DEF Meters, Item
<1>4. switch \in [Channel -> BOOLEAN \cup {Gone}] /\ energy \in Nat \cup {Gone}
  BY DEF DecoderTypeOK
<1>5. QED
  BY <1>2, <1>3, <1>4 DEF Switched, Metered

\* The parts of a report that fits
LEMMA ReportParts ==
  ASSUME NEW m \in Message
  PROVE  /\ Reported(m) \subseteq 1 .. Len(m.i) /\ Reported(m) \subseteq Channel
         /\ HasCurrents(m) /\ Len(m.i) # 1 => Reported(m) = Channel
         /\ \E n \in Nat : Reported(m) = 1 .. n
         /\ \A c \in Reported(m) : m.i[c] \in Nat
         /\ HasMeters(m) => \A c \in Channel : m.w[c] \in Nat
         /\ HasMeters(m) /\ Len(m.w) > Channels => m.w[Channels + 1] \in Nat
         /\ HasTemperatures(m) => \A c \in Channel : Signed(m.t[c]) \in Int
<1> USE DecoderAssumption
<1>1. m.i \in Seq(Nat) /\ m.w \in Seq(Nat) /\ m.t \in Seq([digits : 1 .. 8, value : Nat])
  BY MessageAssumption
<1>2. Len(m.i) \in Nat /\ Len(m.w) \in Nat /\ Len(m.t) \in Nat
  BY <1>1
<1>3. /\ Reported(m) \subseteq 1 .. Len(m.i) /\ Reported(m) \subseteq Channel
      /\ HasCurrents(m) /\ Len(m.i) # 1 => Reported(m) = Channel
      /\ \E n \in Nat : Reported(m) = 1 .. n
  BY <1>2 DEF Reported, Channel, HasCurrents, Fits
<1>4. \A c \in Reported(m) : m.i[c] \in Nat
  BY <1>1, <1>3
<1>5. /\ HasMeters(m) => \A c \in Channel : m.w[c] \in Nat
      /\ HasMeters(m) /\ Len(m.w) > Channels => m.w[Channels + 1] \in Nat
  BY <1>1, <1>2 DEF HasMeters, Fits, Channel
<1>6. ASSUME HasTemperatures(m), NEW c \in Channel PROVE Signed(m.t[c]) \in Int
  <2>1. m.t[c] \in [digits : 1 .. 8, value : Nat]
    <3>1. Len(m.t) = Channels
      BY <1>6 DEF HasTemperatures, Fits
    <3>2. c \in 1 .. Len(m.t)
      BY <3>1 DEF Channel
    <3>3. QED
      BY <1>1, <3>2, ElementOfSeq
  <2>2. 16 ^ m.t[c].digits \in Int
    BY <2>1
  <2>3. QED
    BY <2>1, <2>2 DEF Signed
<1>7. QED
  BY <1>3, <1>4, <1>5, <1>6

LEMMA DisplayedType ==
  ASSUME NEW m \in Message, NEW on, NEW c \in Reported(m)
  PROVE  Displayed(m, on, c) \in Nat
<1>1. m.i[c] \in Nat
  BY ReportParts
<1>2. QED
  BY <1>1, DecoderAssumption DEF Displayed

LEMMA ReadingsType ==
  ASSUME DecoderTypeOK, NEW m \in Message, NEW on
  PROVE  /\ Readings(m, on) \in [Family -> [Channel -> Int \cup {Gone}]]
         /\ Readings(m, on)["current"] \in [Channel -> Nat \cup {Gone}]
<1>1. reading["current"] \in [Channel -> Nat \cup {Gone}]
  BY DEF DecoderTypeOK
<1>2. CASE ~HasExtension(m)
  BY <1>2 DEF Readings, Cleared, NoReadings, Family
<1>3. CASE HasExtension(m)
  <2> DEFINE r == Readings(m, on)
  <2>1. r = [current |-> r["current"], meter |-> r["meter"], celsius |-> r["celsius"]]
    BY <1>3 DEF Readings
  <2>2. r["current"] \in [Channel -> Nat \cup {Gone}]
    BY <1>1, <1>3, DisplayedType DEF Readings
  <2>3. r["meter"] \in [Channel -> Int \cup {Gone}]
    BY <1>3, ReportParts DEF Readings
  <2>4. r["celsius"] \in [Channel -> Int \cup {Gone}]
    BY <1>3, ReportParts DEF Readings
  <2> HIDE DEF r
  <2>5. r \in [Family -> [Channel -> Int \cup {Gone}]]
    BY <2>1, <2>2, <2>3, <2>4 DEF Family
  <2>6. QED
    BY <2>2, <2>5 DEF r
<1>4. QED
  BY <1>2, <1>3

LEMMA ExtensionType ==
  ASSUME NEW m \in Message, NEW on
  PROVE  /\ Extension(m, on) \in Totals \cup {Gone}
         /\ HasExtension(m) => Extension(m, on) \in Totals
         /\ HasExtension(m) /\ HasCurrents(m) => Extension(m, on).current \in Nat
         /\ HasExtension(m) /\ HasMeters(m) => Extension(m, on).meter \in Nat
<1>1. CASE ~HasExtension(m)
  BY <1>1 DEF Extension
<1>2. CASE HasExtension(m)
  <2> DEFINE parts == [c \in Reported(m) |-> Displayed(m, on, c)]
  <2>1. Total(parts) \in Nat
    <3>1. PICK n \in Nat : Reported(m) = 1 .. n
      BY ReportParts
    <3>2. parts \in [1 .. n -> Nat]
      BY <3>1, DisplayedType
    <3>3. parts \in Seq(Nat)
      BY <3>2, SeqDef
    <3>4. QED
      BY <3>3, TotalType
  <2>2. Total(m.w) \in Nat
    BY MessageAssumption, TotalType
  <2>3. HasMeters(m) => (IF Len(m.w) > Channels THEN m.w[Channels + 1] ELSE Total(m.w)) \in Nat
    BY <2>2, ReportParts
  <2>4. QED
    BY <1>2, <2>1, <2>3 DEF Extension, Totals
<1>3. QED
  BY <1>1, <1>2

-----------------------------------------------------------------------------
(* The handler                                                             *)

\* A message is handled to its end before it is answered, and what was handled
\* of it so far is on disk
InHand == stage \in {"status", "events", "respond"} => message \in Message /\ ~answered
StatusFirst == stage = "events" => Shows(message.status, switch, energy)
AllShown == Shows(message.status \o message.events, switch, energy)
DecoderInv ==
  /\ DecoderTypeOK /\ OneReport
  /\ InHand /\ StatusFirst /\ (stage = "respond" \/ answered => AllShown)

\* After a report the readings are its own
LEMMA ReportTaken ==
  ASSUME DecoderTypeOK, NEW m \in Message, NEW on, switch' = on,
         reading' = Readings(m, on), extended' = Extension(m, on)
  PROVE  OneReport'
<1> USE DecoderAssumption
<1>1. CASE ~HasExtension(m)
  BY <1>1 DEF Readings, Extension, Cleared, OneReport
<1>2. CASE HasExtension(m)
  <2>1. extended' \in Totals /\ extended' # Gone
    BY <1>2, ExtensionType
  <2>2. /\ HasCurrents(m) <=> extended'.current # Gone
        /\ HasMeters(m) <=> extended'.meter # Gone
        /\ extended'.single <=> Len(m.i) = 1
    <3>1. /\ ~HasCurrents(m) => extended'.current = Gone
          /\ ~HasMeters(m) => extended'.meter = Gone
          /\ extended'.single <=> Len(m.i) = 1
      BY <1>2 DEF Extension
    <3>2. /\ HasCurrents(m) => extended'.current \in Nat
          /\ HasMeters(m) => extended'.meter \in Nat
      BY <1>2, ExtensionType
    <3>3. QED
      BY <3>1, <3>2
  <2>3. ~HasCurrents(m) => \A c \in Channel : reading'["current"][c] = Gone
    BY <1>2 DEF Readings
  <2>4. ~HasMeters(m) => \A c \in Channel : reading'["meter"][c] = Gone
    BY <1>2 DEF Readings
  <2>5. ASSUME HasCurrents(m), Len(m.i) # 1
        PROVE  /\ Total(reading'["current"]) = extended'.current
               /\ \A c \in Channel : switch'[c] # TRUE => reading'["current"][c] = 0
    <3>1. Reported(m) = Channel
      BY <2>5, ReportParts
    <3>2. reading'["current"] = [c \in Channel |-> Displayed(m, on, c)]
      BY <1>2, <2>5, <3>1 DEF Readings
    <3>3. extended'.current = Total([c \in Channel |-> Displayed(m, on, c)])
      BY <1>2, <2>5, <3>1 DEF Extension
    <3>4. \A c \in Channel : on[c] # TRUE => Displayed(m, on, c) = 0
      BY DEF Displayed
    <3>5. QED
      BY <3>2, <3>3, <3>4
  <2>6. QED
    BY <2>1, <2>2, <2>3, <2>4, <2>5 DEF OneReport
<1>3. QED
  BY <1>1, <1>2

LEMMA ShowsTaken ==
  ASSUME DecoderTypeOK, NEW s \in Seq(Item), NEW t \in Seq(Item), Shows(s, switch, energy),
         switch' = Switched(t), energy' = Metered(t)
  PROVE  Shows(s \o t, switch', energy')
BY ShowsConcat DEF Switched, Metered

LEMMA DecoderStep == DecoderInv /\ [DecoderNext]_decoderVars => DecoderInv'
<1> SUFFICES ASSUME DecoderInv, [DecoderNext]_decoderVars PROVE DecoderInv'
  OBVIOUS
<1> USE DecoderAssumption
<1>1. /\ DecoderTypeOK /\ OneReport /\ InHand /\ StatusFirst
      /\ stage = "respond" \/ answered => AllShown
  BY DEF DecoderInv
<1>2. ASSUME NEW m \in Message
      PROVE  /\ m.status \in Seq(Item) /\ m.events \in Seq(Item)
             /\ m.status \o <<>> = m.status /\ <<>> \o m.events = m.events
  BY MessageAssumption
<1>3. ASSUME NEW m \in Message, Receive(m) PROVE DecoderInv'
  <2>1. DecoderTypeOK'
    <3>1. stage' \in {"read", "status", "events", "respond"}
      BY <1>3 DEF Receive, After
    <3>2. /\ UNCHANGED <<switch, reading, extended, writer, energy>>
          /\ message' = m /\ answered' = FALSE /\ taken' = taken + 1 /\ taken < MaxMessages
      BY <1>3 DEF Receive, stateFile
    <3>3. taken' \in 0 .. MaxMessages
      BY <1>1, <3>2 DEF DecoderTypeOK
    <3>4. QED
      BY <1>1, <3>1, <3>2, <3>3 DEF DecoderTypeOK
  <2>2. OneReport'
    BY <1>1, <1>3 DEF OneReport, Receive, stateFile
  <2>3. /\ message' = m /\ answered' = FALSE
        /\ stage' = "events" => m.status = <<>>
        /\ stage' = "respond" => m.status = <<>> /\ m.events = <<>>
    BY <1>3 DEF Receive, After
  <2>4. m.status = <<>> /\ m.events = <<>> => m.status \o m.events = <<>>
    BY <1>2
  <2>5. InHand' /\ StatusFirst' /\ (stage' = "respond" => AllShown')
    BY <2>3, <2>4, ShowsNothing DEF InHand, StatusFirst, AllShown
  <2>6. QED
    BY <2>1, <2>2, <2>3, <2>5 DEF DecoderInv
<1>4. CASE TakeStatus
  <2> DEFINE m == message
             items == message.status
  <2>1. m \in Message /\ ~answered /\ message' = message /\ answered' = answered
        /\ taken' = taken
    BY <1>1, <1>4 DEF TakeStatus, InHand
  <2>2. CASE Sound(items) # items
    <3>1. stage' = "closed" /\ UNCHANGED <<switch, reading, extended, writer>>
      BY <1>4, <2>2 DEF TakeStatus, stateFile
    <3>2. energy' \in Nat \cup {Gone}
      <4>1. Sound(items) \in Seq(Item)
        BY <1>2, <2>1, SoundType
      <4>2. QED
        BY <1>1, <1>4, <4>1, SwitchedType DEF TakeStatus
    <3>3. QED
      BY <1>1, <2>1, <3>1, <3>2
      DEF DecoderInv, DecoderTypeOK, OneReport, InHand, StatusFirst
  <2>3. CASE Sound(items) = items
    <3>1. /\ switch' = Switched(items) /\ energy' = Metered(items)
          /\ reading' = Readings(m, switch') /\ extended' = Extension(m, switch')
          /\ writer' = "status" /\ stage' = After(m, "status")
      BY <1>4, <2>3 DEF TakeStatus
    <3>2. DecoderTypeOK'
      <4>1. /\ switch' \in [Channel -> BOOLEAN \cup {Gone}] /\ energy' \in Nat \cup {Gone}
        BY <1>1, <1>2, <2>1, <3>1, SwitchedType
      <4>2. /\ reading' \in [Family -> [Channel -> Int \cup {Gone}]]
            /\ reading'["current"] \in [Channel -> Nat \cup {Gone}]
            /\ extended' \in Totals \cup {Gone}
        BY <1>1, <2>1, <3>1, ReadingsType, ExtensionType
      <4>3. stage' \in {"events", "respond", "read"}
        BY <3>1 DEF After
      <4>4. QED
        BY <1>1, <2>1, <3>1, <4>1, <4>2, <4>3 DEF DecoderTypeOK
    <3>3. OneReport'
      BY <1>1, <2>1, <3>1, ReportTaken
    <3>4. Shows(items, switch', energy')
      <4>1. Shows(<<>> \o items, switch', energy')
        <5>1. <<>> \in Seq(Item) /\ items \in Seq(Item) /\ Shows(<<>>, switch, energy)
          BY <1>2, <2>1, ShowsNothing
        <5> HIDE DEF items
        <5>2. QED
          BY <1>1, <3>1, <5>1, ShowsTaken
      <4>2. QED
        BY <1>2, <2>1, <4>1
    <3>5. stage' = "respond" => m.events = <<>>
      BY <3>1 DEF After
    <3>6. InHand' /\ StatusFirst' /\ (stage' = "respond" => AllShown')
      BY <1>2, <2>1, <3>4, <3>5 DEF InHand, StatusFirst, AllShown
    <3>7. QED
      BY <2>1, <3>2, <3>3, <3>6 DEF DecoderInv
  <2>4. QED
    BY <2>2, <2>3
<1>5. CASE TakeEvents
  <2> DEFINE items == message.events
  <2>1. /\ message \in Message /\ ~answered /\ message' = message /\ answered' = answered
        /\ UNCHANGED <<reading, extended, taken>> /\ stage = "events"
    BY <1>1, <1>5 DEF TakeEvents, InHand
  <2>2. CASE Sound(items) # items
    <3>1. stage' = "closed" /\ UNCHANGED <<switch, writer>> /\ energy' = Metered(Sound(items))
      BY <1>5, <2>2 DEF TakeEvents
    <3>2. energy' \in Nat \cup {Gone}
      <4>1. Sound(items) \in Seq(Item)
        BY <1>2, <2>1, SoundType
      <4>2. QED
        BY <1>1, <3>1, <4>1, SwitchedType
    <3>3. QED
      BY <1>1, <2>1, <3>1, <3>2
      DEF DecoderInv, DecoderTypeOK, OneReport, InHand, StatusFirst
  <2>3. CASE Sound(items) = items
    <3>1. /\ switch' = Switched(items) /\ energy' = Metered(items)
          /\ writer' = "events" /\ stage' = After(message, "events")
      BY <1>5, <2>3 DEF TakeEvents
    <3>2. stage' \in {"respond", "read"}
      BY <3>1 DEF After
    <3>3. switch' \in [Channel -> BOOLEAN \cup {Gone}] /\ energy' \in Nat \cup {Gone}
      BY <1>1, <1>2, <2>1, <3>1, SwitchedType
    <3>4. DecoderTypeOK'
      BY <1>1, <2>1, <3>1, <3>2, <3>3 DEF DecoderTypeOK
    <3>5. OneReport'
      BY <1>1, <2>1, <3>1 DEF OneReport
    <3>6. Shows(message.status \o items, switch', energy')
      BY <1>1, <1>2, <2>1, <3>1, ShowsTaken DEF StatusFirst
    <3>7. InHand' /\ StatusFirst' /\ AllShown'
      BY <2>1, <3>2, <3>6 DEF InHand, StatusFirst, AllShown
    <3>8. QED
      BY <3>4, <3>5, <3>7 DEF DecoderInv
  <2>4. QED
    BY <2>2, <2>3
<1>6. CASE Respond
  <2>1. /\ UNCHANGED <<switch, reading, extended, writer, energy, message, taken>>
        /\ stage = "respond" /\ stage' \in {"read", "closed"} /\ answered' \in BOOLEAN
    BY <1>1, <1>6 DEF Respond, stateFile, DecoderTypeOK
  <2>2. DecoderTypeOK' /\ OneReport' /\ InHand' /\ StatusFirst' /\ AllShown'
    BY <1>1, <2>1 DEF DecoderTypeOK, OneReport, InHand, StatusFirst, AllShown
  <2>3. QED
    BY <2>2 DEF DecoderInv
<1>7. CASE Broken
  <2>1. /\ UNCHANGED <<switch, reading, extended, writer, message, answered, taken>>
        /\ stage' = "closed" /\ ~answered /\ message \in Message
    BY <1>1, <1>7 DEF Broken, stateFile, DecoderTypeOK, InHand
  <2>2. energy' \in Nat \cup {Gone}
    <3>1. message.status \in Seq(Item) /\ message.events \in Seq(Item)
      BY <1>2, <2>1
    <3>2. Sound(message.status) \in Seq(Item) /\ Sound(message.events) \in Seq(Item)
      BY <3>1, SoundType
    <3>3. QED
      BY <1>1, <1>7, <3>1, <3>2, SwitchedType DEF Broken, DecoderTypeOK
  <2>3. DecoderTypeOK' /\ OneReport' /\ InHand' /\ StatusFirst'
    BY <1>1, <2>1, <2>2 DEF DecoderTypeOK, OneReport, InHand, StatusFirst
  <2>4. QED
    BY <2>1, <2>3 DEF DecoderInv
<1>8. CASE Reconnect \/ UNCHANGED decoderVars
  <2>1. /\ UNCHANGED <<switch, reading, extended, writer, energy, message, answered, taken>>
        /\ stage' = stage \/ stage' = "read"
    BY <1>8 DEF Reconnect, decoderVars, stateFile
  <2>2. DecoderTypeOK' /\ OneReport' /\ InHand' /\ StatusFirst' /\ (AllShown => AllShown')
    BY <1>1, <2>1 DEF DecoderTypeOK, OneReport, InHand, StatusFirst, AllShown
  <2>3. QED
    BY <1>1, <2>1, <2>2 DEF DecoderInv
<1>9. CASE Misshapen
  <2>1. /\ UNCHANGED <<switch, reading, extended, writer, energy>>
        /\ message' = Gone /\ answered' = FALSE /\ stage' = "closed"
        /\ taken' = taken + 1 /\ taken < MaxMessages
    BY <1>9 DEF Misshapen, stateFile
  <2>2. taken' \in 0 .. MaxMessages
    BY <1>1, <2>1 DEF DecoderTypeOK
  <2>3. DecoderTypeOK' /\ OneReport' /\ InHand' /\ StatusFirst'
    BY <1>1, <2>1, <2>2 DEF DecoderTypeOK, OneReport, InHand, StatusFirst
  <2>4. QED
    BY <2>1, <2>3 DEF DecoderInv
<1>10. QED
  BY <1>3, <1>4, <1>5, <1>6, <1>7, <1>8, <1>9 DEF DecoderNext

LEMMA AlwaysDecoder == DecoderSpec => []DecoderInv
<1>1. ASSUME DecoderInit PROVE DecoderInv
  <2>1. /\ reading \in [Family -> [Channel -> Int \cup {Gone}]]
        /\ reading["current"] \in [Channel -> Nat \cup {Gone}]
    BY <1>1 DEF DecoderInit, NoReadings, Family
  <2>2. DecoderTypeOK
    <3>1. taken \in 0 .. MaxMessages
      BY <1>1, DecoderAssumption DEF DecoderInit
    <3>2. /\ switch \in [Channel -> BOOLEAN \cup {Gone}] /\ extended \in Totals \cup {Gone}
          /\ energy \in Nat \cup {Gone} /\ message \in Message \cup {Gone}
      BY <1>1 DEF DecoderInit
    <3>3. /\ stage \in {"read", "status", "events", "respond", "closed"} /\ answered \in BOOLEAN
          /\ writer \in {"status", "events"}
      BY <1>1 DEF DecoderInit
    <3>4. QED
      BY <2>1, <3>1, <3>2, <3>3 DEF DecoderTypeOK
  <2>3. QED
    BY <1>1, <2>2 DEF DecoderInit, DecoderInv, OneReport, InHand, StatusFirst
<1>2. QED
  BY <1>1, DecoderStep, PTL DEF DecoderSpec

\* Every variable keeps its type, the sums of what a device reports included
THEOREM DecoderTypes == DecoderSpec => []DecoderTypeOK
<1>1. DecoderInv => DecoderTypeOK
  BY DEF DecoderInv
<1>2. QED
  BY <1>1, AlwaysDecoder, PTL

\* The extended readings of the state file are those of one report
\* (_extended_status)
THEOREM ReadingsOfOneReport == DecoderSpec => []OneReport
<1>1. DecoderInv => OneReport
  BY DEF DecoderInv
<1>2. QED
  BY <1>1, AlwaysDecoder, PTL

\* A device that got its response finds all its message said on disk (_onem2m)
THEOREM AnswerMeansKept == DecoderSpec => []AnsweredIsKept
<1>1. DecoderInv => AnsweredIsKept
  <2> SUFFICES ASSUME DecoderInv, answered PROVE AnsweredIsKept
    BY DEF AnsweredIsKept
  <2> DEFINE items == message.status \o message.events
  <2>1. Shows(items, switch, energy) /\ switch \in [Channel -> BOOLEAN \cup {Gone}]
    BY DEF DecoderInv, AllShown, DecoderTypeOK
  <2> HIDE DEF items
  <2>2. Switched(items) = switch /\ Metered(items) = energy
    BY <2>1 DEF Shows, Switched, Metered
  <2>3. QED
    BY <2>2 DEF AnsweredIsKept, items
<1>2. QED
  BY <1>1, AlwaysDecoder, PTL
=============================================================================
