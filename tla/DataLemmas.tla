----------------------------- MODULE DataLemmas ------------------------------
(***************************************************************************)
(* Induction over the naturals, upward and downward, in the first-order    *)
(* form that the provers can use: over the members of a set.  From it,     *)
(* that the folds of the community modules satisfy the equations that      *)
(* define them, that a function which looks only at earlier or only at     *)
(* later places exists, and what sums over sequences and over sets,        *)
(* remainders and prefixes do.                                             *)
(***************************************************************************)
EXTENDS Integers, Sequences, SequencesExt, FiniteSetsExt, WellFoundedInduction,
        SequenceTheorems, FiniteSetTheorems, TLAPS

(* Every non-empty set of naturals has a least member. *)
LEMMA LeastNatural ==
  ASSUME NEW T, T \subseteq Nat, T # {}
  PROVE  \E x \in T : \A y \in T : x <= y
  <1>1. PICK x \in T : \A y \in T : ~(<<y, x>> \in OpToRel(<,Nat))
    BY NatLessThanWellFounded, WFMin
  <1>2. ASSUME NEW y \in T
        PROVE  x <= y
    <2>1. x \in Nat /\ y \in Nat
      OBVIOUS
    <2>2. ~(<<y, x>> \in {ss \in Nat \X Nat : ss[1] < ss[2]})
      BY <1>1 DEF OpToRel
    <2> QED BY <2>1, <2>2
  <1> QED BY <1>2

(* A set with 0 that is closed under successor has every natural. *)
LEMMA SetInduction ==
  ASSUME NEW S, 0 \in S, \A n \in Nat : n \in S => n + 1 \in S
  PROVE  \A n \in Nat : n \in S
  <1> DEFINE T == Nat \ S
  <1>1. CASE T # {}
    <2>1. PICK x \in T : \A y \in T : x <= y
      BY <1>1, LeastNatural
    <2>2. x # 0 /\ x - 1 \in Nat
      OBVIOUS
    <2>3. x - 1 \in S
      BY <2>1, <2>2
    <2> QED BY <2>2, <2>3
  <1> QED BY <1>1

(* The same up to a bound. *)
LEMMA BoundedInduction ==
  ASSUME NEW m \in Nat, NEW S, 0 \in S,
         \A n \in 0..(m - 1) : n \in S => n + 1 \in S
  PROVE  \A n \in 0..m : n \in S
  <1> DEFINE T == {n \in Nat : n <= m => n \in S}
  <1>1. \A n \in Nat : n \in T
    <2>1. 0 \in T
      OBVIOUS
    <2>2. \A n \in Nat : n \in T => n + 1 \in T
      OBVIOUS
    <2> HIDE DEF T
    <2> QED BY <2>1, <2>2, SetInduction
  <1> QED BY <1>1

(* A non-empty set of naturals below a bound has a maximum. *)
LEMMA MaxOfBounded ==
  ASSUME NEW m \in Nat, NEW T, T \subseteq 1..m, T # {}
  PROVE  Max(T) \in T /\ \A y \in T : y <= Max(T)
  <1> DEFINE U == {m - y : y \in T}
  <1>1. U \subseteq Nat /\ U # {}
    <2>1. \A y \in T : y \in 1..m /\ m - y \in Nat
      OBVIOUS
    <2> QED BY <2>1
  <1>2. PICK u \in U : \A v \in U : u <= v
    <2> HIDE DEF U
    <2> QED BY <1>1, LeastNatural
  <1>3. PICK x \in T : u = m - x
    OBVIOUS
  <1>4. ASSUME NEW y \in T
        PROVE  x >= y
    <2>1. m - y \in U /\ x \in Int /\ y \in Int
      OBVIOUS
    <2>2. m - x <= m - y
      BY <1>2, <1>3, <2>1
    <2> QED BY <2>1, <2>2
  <1>5. \E z \in T : \A y \in T : z >= y
    BY <1>4
  <1>6. Max(T) \in T /\ \A y \in T : Max(T) >= y
    BY <1>5 DEF Max
  <1> QED BY <1>6

(* The maximum of a set with a greatest member is that member. *)
LEMMA MaxIs ==
  ASSUME NEW T, T \subseteq Int, NEW x \in T, \A y \in T : y <= x
  PROVE  Max(T) = x
  <1>1. \E z \in T : \A y \in T : z >= y
    OBVIOUS
  <1>2. Max(T) \in T /\ \A y \in T : Max(T) >= y
    BY <1>1 DEF Max
  <1>3. Max(T) \in Int /\ x \in Int /\ Max(T) <= x /\ Max(T) >= x
    BY <1>2
  <1> QED BY <1>3

(* iter folds every subset of 1..n, the greatest member last.  The operator *)
(* to fold with is given as a function of the result so far and the index. *)
IsFold(X, base, n, step, iter) ==
  /\ iter \in [SUBSET (1..n) -> X]
  /\ iter[{}] = base
  /\ \A s \in SUBSET (1..n) :
       s # {} => iter[s] = step[<<iter[s \ {Max(s)}], Max(s)>>]

(* The function that MapThenFoldSet chooses exists. *)
LEMMA FoldExists ==
  ASSUME NEW X, NEW base \in X, NEW n \in Nat, NEW step \in [X \X (1..n) -> X]
  PROVE  \E iter : IsFold(X, base, n, step, iter)
  <1> DEFINE Folds(m, iter) == IsFold(X, base, m, step, iter)
             S == {m \in 0..n : \E iter : Folds(m, iter)}
  <1> USE DEF IsFold
  <1>1. 0 \in S
    <2> DEFINE iter == [s \in SUBSET (1..0) |-> base]
    <2>1. SUBSET (1..0) = {{}}
      OBVIOUS
    <2>2. Folds(0, iter)
      BY <2>1
    <2> HIDE DEF Folds
    <2> QED BY <2>2
  <1>2. ASSUME NEW m \in 0..(n - 1), m \in S
        PROVE  m + 1 \in S
    <2>1. PICK old : Folds(m, old)
      BY <1>2
    <2> DEFINE new == [s \in SUBSET (1..(m + 1)) |->
                         IF m + 1 \in s THEN step[<<old[s \ {m + 1}], m + 1>>]
                         ELSE old[s]]
    <2>2. ASSUME NEW s \in SUBSET (1..(m + 1))
          PROVE  /\ m + 1 \in s => /\ s \ {m + 1} \in SUBSET (1..m)
                                   /\ Max(s) = m + 1
                                   /\ s \ {Max(s)} = s \ {m + 1}
                 /\ m + 1 \notin s => s \in SUBSET (1..m)
      <3>1. CASE m + 1 \in s
        <4>1. s \subseteq Int /\ \A y \in s : y <= m + 1
          OBVIOUS
        <4>2. Max(s) = m + 1
          BY <3>1, <4>1, MaxIs
        <4> QED BY <3>1, <4>2
      <3>2. CASE m + 1 \notin s
        BY <3>2
      <3> QED BY <3>1, <3>2
    <2>3. /\ m \in Nat /\ m + 1 \in 1..n /\ SUBSET (1..m) \subseteq SUBSET (1..(m + 1))
          /\ \A s \in SUBSET (1..m) : m + 1 \notin s
      OBVIOUS
    <2>4. new \in [SUBSET (1..(m + 1)) -> X]
      <3>1. ASSUME NEW s \in SUBSET (1..(m + 1))
            PROVE  (IF m + 1 \in s THEN step[<<old[s \ {m + 1}], m + 1>>] ELSE old[s]) \in X
        BY <2>1, <2>2, <2>3
      <3> QED BY <3>1
    <2>5. \A s \in SUBSET (1..m) : new[s] = old[s]
      BY <2>3
    <2>6. new[{}] = base
      BY <2>1, <2>5
    <2>7. ASSUME NEW s \in SUBSET (1..(m + 1)), s # {}
          PROVE  new[s] = step[<<new[s \ {Max(s)}], Max(s)>>]
      <3>1. CASE m + 1 \in s
        <4>1. new[s] = step[<<old[s \ {m + 1}], m + 1>>]
          BY <3>1
        <4> HIDE DEF new
        <4> QED BY <2>2, <2>5, <3>1, <4>1
      <3>2. CASE m + 1 \notin s
        <4>1. s \in SUBSET (1..m)
          BY <2>2, <3>2
        <4>2. s \ {Max(s)} \in SUBSET (1..m)
          BY <4>1
        <4>3. old[s] = step[<<old[s \ {Max(s)}], Max(s)>>]
          BY <2>1, <2>7, <4>1
        <4> HIDE DEF new
        <4> QED BY <2>5, <4>1, <4>2, <4>3
      <3> QED BY <3>1, <3>2
    <2>8. Folds(m + 1, new)
      <3> HIDE DEF new
      <3> QED BY <2>4, <2>6, <2>7
    <2> HIDE DEF Folds
    <2> QED BY <2>3, <2>8
  <1>3. n \in S
    <2> HIDE DEF S
    <2> QED BY <1>1, <1>2, BoundedInduction
  <1> QED BY <1>3

(* f has the results of a fold of the first 0, 1, ... n members. *)
FoldsUp(X, base, n, step, f) ==
  /\ f \in [0..n -> X]
  /\ f[0] = base
  /\ \A i \in 1..n : f[i] = step[<<f[i - 1], i>>]

(* it satisfies the equation of a fold where the result so far has its type. *)
FoldsWithin(X, base, n, step, it) ==
  /\ it[{}] = base
  /\ \A t \in SUBSET (1..n) : t # {} /\ it[t \ {Max(t)}] \in X =>
       it[t] = step[<<it[t \ {Max(t)}], Max(t)>>]

(* What MapThenFoldSet chooses goes up through the members. *)
LEMMA FoldGoesUp ==
  ASSUME NEW X, NEW base \in X, NEW n \in Nat, NEW step \in [X \X (1..n) -> X], NEW it,
         FoldsWithin(X, base, n, step, it)
  PROVE  \E f : FoldsUp(X, base, n, step, f) /\ it[1..n] = f[n]
  <1> DEFINE f == [k \in 0..n |-> it[1..k]]
             S == {k \in 0..n : it[1..k] \in X}
  <1> USE DEF FoldsWithin
  <1>1. ASSUME NEW k \in 1..n, it[1..(k - 1)] \in X
        PROVE  it[1..k] = step[<<it[1..(k - 1)], k>>]
    <2>1. /\ 1..k \in SUBSET (1..n) /\ k \in 1..k /\ 1..k \subseteq Int
          /\ \A y \in 1..k : y <= k
      OBVIOUS
    <2>2. Max(1..k) = k
      BY <2>1, MaxIs
    <2>3. (1..k) \ {k} = 1..(k - 1)
      OBVIOUS
    <2>4. 1..k # {}
      BY <2>1
    <2> QED BY <1>1, <2>1, <2>2, <2>3, <2>4
  <1>2. ASSUME NEW x \in X, NEW k \in 1..n
        PROVE  step[<<x, k>>] \in X
    OBVIOUS
  <1>3. \A k \in 0..n : k \in S
    <2>1. 0 \in S
      <3>1. 1..0 = {}
        OBVIOUS
      <3> QED BY <3>1
    <2>2. \A k \in 0..(n - 1) : k \in S => k + 1 \in S
      <3> SUFFICES ASSUME NEW k \in 0..(n - 1), k \in S
                   PROVE  k + 1 \in S
        OBVIOUS
      <3>1. k + 1 \in 1..n /\ (k + 1) - 1 = k /\ k + 1 \in 0..n
        OBVIOUS
      <3>2. it[1..(k + 1)] = step[<<it[1..k], k + 1>>]
        BY <1>1, <3>1
      <3> QED BY <1>2, <3>1, <3>2
    <2> HIDE DEF S
    <2> QED BY <2>1, <2>2, BoundedInduction
  <1>4. f \in [0..n -> X] /\ f[0] = base /\ f[n] = it[1..n]
    <2>1. 1..0 = {} /\ 0 \in 0..n /\ n \in 0..n
      OBVIOUS
    <2> QED BY <1>3, <2>1
  <1>5. ASSUME NEW i \in 1..n
        PROVE  f[i] = step[<<f[i - 1], i>>]
    <2>1. i \in 0..n /\ i - 1 \in 0..n
      OBVIOUS
    <2>2. f[i] = it[1..i] /\ f[i - 1] = it[1..(i - 1)]
      BY <2>1
    <2>3. it[1..(i - 1)] \in X
      BY <1>3, <2>1
    <2> QED BY <1>1, <2>2, <2>3
  <1> HIDE DEF f
  <1> QED BY <1>4, <1>5 DEF FoldsUp

-----------------------------------------------------------------------------
(* Sums of sequences.  t is the sum of q if some function of its prefixes   *)
(* adds up to it.                                                          *)
PartialSums(q, f) ==
  /\ f \in [0..Len(q) -> Int]
  /\ f[0] = 0
  /\ \A i \in 1..Len(q) : f[i] = f[i - 1] + q[i]

IsSum(q, t) == \E f : PartialSums(q, f) /\ t = f[Len(q)]

(* A sequence has only one sum. *)
LEMMA SumUnique ==
  ASSUME NEW q \in Seq(Int), NEW t, IsSum(q, t), NEW u, IsSum(q, u)
  PROVE  t = u /\ t \in Int
  <1>1. PICK f : PartialSums(q, f) /\ t = f[Len(q)]
    BY DEF IsSum
  <1>2. PICK g : PartialSums(q, g) /\ u = g[Len(q)]
    BY DEF IsSum
  <1> DEFINE n == Len(q)
             S == {i \in 0..n : f[i] = g[i]}
  <1>3. n \in Nat
    OBVIOUS
  <1>4. 0 \in S
    BY <1>1, <1>2, <1>3 DEF PartialSums
  <1>5. \A i \in 0..(n - 1) : i \in S => i + 1 \in S
    <2> SUFFICES ASSUME NEW i \in 0..(n - 1), i \in S
                 PROVE  i + 1 \in S
      OBVIOUS
    <2>1. i + 1 \in 1..n /\ (i + 1) - 1 = i /\ f[i] = g[i]
      BY <1>3
    <2> QED BY <1>1, <1>2, <2>1 DEF PartialSums
  <1>6. \A i \in 0..n : i \in S
    <2> HIDE DEF S, n
    <2> QED BY <1>3, <1>4, <1>5, BoundedInduction
  <1>7. f[n] = g[n] /\ f[n] \in Int
    BY <1>1, <1>3, <1>6 DEF PartialSums
  <1> QED BY <1>1, <1>2, <1>7

(* The empty sequence sums up to 0. *)
LEMMA SumEmpty == IsSum(<< >>, 0)
  <1> DEFINE f == [i \in 0..0 |-> 0]
  <1>1. PartialSums(<< >>, f)
    BY DEF PartialSums
  <1> QED BY <1>1 DEF IsSum

(* One more element adds to the sum. *)
LEMMA SumAppend ==
  ASSUME NEW q \in Seq(Int), NEW t, IsSum(q, t), NEW x \in Int
  PROVE  IsSum(Append(q, x), t + x)
  <1>1. PICK f : PartialSums(q, f) /\ t = f[Len(q)]
    BY DEF IsSum
  <1> DEFINE n == Len(q)
             g == [i \in 0..(n + 1) |-> IF i <= n THEN f[i] ELSE t + x]
  <1>2. /\ n \in Nat /\ Len(Append(q, x)) = n + 1 /\ Append(q, x)[n + 1] = x
        /\ \A i \in 1..n : Append(q, x)[i] = q[i]
    OBVIOUS
  <1>3. t \in Int /\ f \in [0..n -> Int]
    BY <1>1, <1>2 DEF PartialSums
  <1>4. g \in [0..(n + 1) -> Int] /\ g[0] = 0 /\ g[n + 1] = t + x
    BY <1>1, <1>2, <1>3 DEF PartialSums
  <1>5. ASSUME NEW i \in 1..(n + 1)
        PROVE  g[i] = g[i - 1] + Append(q, x)[i]
    <2>1. CASE i <= n
      BY <1>1, <1>2, <2>1 DEF PartialSums
    <2>2. CASE i = n + 1
      BY <1>1, <1>2, <1>3, <2>2 DEF PartialSums
    <2> QED BY <1>2, <2>1, <2>2
  <1> HIDE DEF g
  <1>6. PartialSums(Append(q, x), g) /\ t + x = g[Len(Append(q, x))]
    BY <1>2, <1>4, <1>5 DEF PartialSums
  <1> QED BY <1>6 DEF IsSum

(* What RemoveAt leaves. *)
LEMMA RemoveAtShape ==
  ASSUME NEW T, NEW q \in Seq(T), NEW k \in 1..Len(q)
  PROVE  /\ RemoveAt(q, k) \in Seq(T)
         /\ Len(RemoveAt(q, k)) = Len(q) - 1
         /\ \A i \in 1..(Len(q) - 1) :
              RemoveAt(q, k)[i] = IF i < k THEN q[i] ELSE q[i + 1]
  <1> DEFINE a == SubSeq(q, 1, k - 1)
             z == SubSeq(q, k + 1, Len(q))
  <1>0. Len(q) \in Nat /\ k \in 1..Len(q)
    OBVIOUS
  <1>1. a \in Seq(T) /\ Len(a) = k - 1 /\ \A i \in 1..(k - 1) : a[i] = q[i]
    OBVIOUS
  <1>2. /\ z \in Seq(T) /\ Len(z) = Len(q) - k
        /\ \A i \in 1..(Len(q) - k) : z[i] = q[k + i]
    OBVIOUS
  <1>3. RemoveAt(q, k) = a \o z
    BY DEF RemoveAt
  <1> HIDE DEF a, z
  <1>4. /\ a \o z \in Seq(T) /\ Len(a \o z) = Len(a) + Len(z)
        /\ \A i \in 1..(Len(a) + Len(z)) :
             (a \o z)[i] = IF i <= Len(a) THEN a[i] ELSE z[i - Len(a)]
    <2>1. a \in Seq(T) /\ z \in Seq(T)
      BY <1>1, <1>2
    <2> QED BY <2>1, ConcatProperties
  <1>5. Len(a \o z) = Len(q) - 1
    BY <1>0, <1>1, <1>2, <1>4
  <1>6. ASSUME NEW i \in 1..(Len(q) - 1)
        PROVE  (a \o z)[i] = IF i < k THEN q[i] ELSE q[i + 1]
    <2>0. i \in 1..(Len(a) + Len(z)) /\ i \in Int
      BY <1>0, <1>1, <1>2
    <2>1. CASE i < k
      <3>1. i <= Len(a) /\ i \in 1..(k - 1)
        BY <1>0, <1>1, <2>0, <2>1
      <3> QED BY <1>1, <1>4, <2>0, <2>1, <3>1
    <2>2. CASE ~(i < k)
      <3>1. /\ ~(i <= Len(a)) /\ i - Len(a) \in 1..(Len(q) - k)
            /\ k + (i - Len(a)) = i + 1
        BY <1>0, <1>1, <2>0, <2>2
      <3> QED BY <1>2, <1>4, <2>0, <2>2, <3>1
    <2> QED BY <2>1, <2>2
  <1> QED BY <1>3, <1>4, <1>5, <1>6

(* An element that is removed is subtracted. *)
LEMMA SumRemoveAt ==
  ASSUME NEW q \in Seq(Int), NEW t, IsSum(q, t), NEW k \in 1..Len(q)
  PROVE  IsSum(RemoveAt(q, k), t - q[k])
  <1>1. PICK f : PartialSums(q, f) /\ t = f[Len(q)]
    BY DEF IsSum
  <1> DEFINE n == Len(q)
             r == RemoveAt(q, k)
             g == [i \in 0..(n - 1) |-> IF i < k THEN f[i] ELSE f[i + 1] - q[k]]
  <1>2. /\ n \in Nat /\ k \in 1..n /\ q[k] \in Int
        /\ r \in Seq(Int) /\ Len(r) = n - 1
        /\ \A i \in 1..(n - 1) : r[i] = IF i < k THEN q[i] ELSE q[i + 1]
    BY RemoveAtShape
  <1> HIDE DEF r, n
  <1>t. n \in Nat /\ k \in 1..n /\ q[k] \in Int
    BY <1>2
  <1>3. /\ f \in [0..n -> Int] /\ f[0] = 0
        /\ \A i \in 1..n : f[i] = f[i - 1] + q[i]
    BY <1>1 DEF PartialSums, n
  <1>f. f \in [0..n -> Int]
    BY <1>3
  <1>4. \A i \in 0..(n - 1) : g[i] = IF i < k THEN f[i] ELSE f[i + 1] - q[k]
    OBVIOUS
  <1>g. g \in [0..(n - 1) -> Int]
    <2>1. \A i \in 0..(n - 1) : i \in 0..n /\ i + 1 \in 0..n
      BY <1>2
    <2>2. \A i \in 0..(n - 1) : (IF i < k THEN f[i] ELSE f[i + 1] - q[k]) \in Int
      BY <1>t, <1>f, <2>1
    <2> QED BY <2>2
  <1> HIDE DEF g
  <1>0. g[0] = 0
    <2>1. 0 \in 0..(n - 1) /\ 0 < k
      BY <1>t
    <2> QED BY <1>3, <1>4, <2>1
  <1>5. ASSUME NEW i \in 1..(n - 1)
        PROVE  g[i] = g[i - 1] + r[i]
    <2>0. i \in 0..(n - 1) /\ i - 1 \in 0..(n - 1) /\ i \in 1..n /\ i \in Int
      BY <1>2
    <2>1. CASE i < k
      <3>1. g[i] = f[i] /\ g[i - 1] = f[i - 1] /\ r[i] = q[i]
        BY <1>2, <1>4, <2>0, <2>1
      <3> QED BY <1>3, <2>0, <3>1
    <2>2. CASE i = k
      <3>1. /\ g[i] = f[i + 1] - q[k] /\ g[i - 1] = f[i - 1] /\ r[i] = q[i + 1]
        BY <1>2, <1>4, <2>0, <2>2
      <3>2. /\ f[i + 1] = f[i] + q[i + 1] /\ f[i] = f[i - 1] + q[k]
            /\ q[i + 1] \in Int /\ f[i - 1] \in Int
        <4>1. i + 1 \in 1..n /\ (i + 1) - 1 = i /\ i \in 1..n /\ i - 1 \in 0..n
          BY <1>2
        <4>2. q[i + 1] \in Int
          BY <4>1 DEF n
        <4> QED BY <1>3, <2>2, <4>1, <4>2
      <3> QED BY <1>t, <2>0, <3>1, <3>2
    <2>3. CASE i > k
      <3>1. /\ g[i] = f[i + 1] - q[k] /\ g[i - 1] = f[i] - q[k] /\ r[i] = q[i + 1]
        <4>1. ~(i < k) /\ ~(i - 1 < k) /\ (i - 1) + 1 = i
          BY <1>2, <2>0, <2>3
        <4> QED BY <1>2, <1>4, <2>0, <4>1
      <3>2. /\ f[i + 1] = f[i] + q[i + 1]
            /\ q[i + 1] \in Int /\ f[i] \in Int
        <4>1. i + 1 \in 1..n /\ (i + 1) - 1 = i /\ i \in 0..n
          BY <1>2
        <4>2. q[i + 1] \in Int
          BY <4>1 DEF n
        <4> QED BY <1>3, <4>1, <4>2
      <3> QED BY <1>t, <2>0, <3>1, <3>2
    <2> QED BY <1>2, <2>1, <2>2, <2>3
  <1>6. g[n - 1] = t - q[k]
    <2>0. n - 1 \in 0..(n - 1) /\ n \in 1..n /\ t = f[n] /\ (n - 1) + 1 = n
      BY <1>1, <1>2 DEF n
    <2>1. CASE k = n
      <3>1. f[n] = f[n - 1] + q[n] /\ f[n - 1] \in Int
        BY <1>2, <1>3, <2>0
      <3>2. g[n - 1] = f[n - 1]
        BY <1>2, <1>4, <2>0, <2>1
      <3> QED BY <1>2, <2>0, <2>1, <3>1, <3>2
    <2>2. CASE k < n
      BY <1>2, <1>4, <2>0, <2>2
    <2> QED BY <1>2, <2>1, <2>2
  <1>7. PartialSums(r, g) /\ t - q[k] = g[Len(r)]
    BY <1>2, <1>g, <1>0, <1>5, <1>6 DEF PartialSums
  <1> QED BY <1>7 DEF IsSum, r

(* An element that is replaced counts with its new value. *)
LEMMA SumChange ==
  ASSUME NEW q \in Seq(Int), NEW t, IsSum(q, t), NEW k \in 1..Len(q), NEW x \in Int
  PROVE  IsSum([q EXCEPT ![k] = x], t - q[k] + x)
  <1>1. PICK f : PartialSums(q, f) /\ t = f[Len(q)]
    BY DEF IsSum
  <1> DEFINE n == Len(q)
             r == [q EXCEPT ![k] = x]
             g == [i \in 0..n |-> IF i < k THEN f[i] ELSE f[i] - q[k] + x]
  <1>2. /\ n \in Nat /\ k \in 1..n /\ q[k] \in Int
        /\ \A i \in 1..n : q[i] \in Int
        /\ Len(r) = n
        /\ \A i \in 1..n : r[i] = IF i = k THEN x ELSE q[i]
    OBVIOUS
  <1> HIDE DEF r, n
  <1>t. n \in Nat /\ k \in 1..n /\ q[k] \in Int
    BY <1>2
  <1>3. /\ f \in [0..n -> Int] /\ f[0] = 0 /\ t = f[n]
        /\ \A i \in 1..n : f[i] = f[i - 1] + q[i]
    BY <1>1 DEF PartialSums, n
  <1>f. f \in [0..n -> Int]
    BY <1>3
  <1>4. \A i \in 0..n : g[i] = IF i < k THEN f[i] ELSE f[i] - q[k] + x
    OBVIOUS
  <1>g. g \in [0..n -> Int]
    <2>1. \A i \in 0..n : (IF i < k THEN f[i] ELSE f[i] - q[k] + x) \in Int
      BY <1>t, <1>f
    <2> QED BY <2>1
  <1> HIDE DEF g
  <1>0. g[0] = 0 /\ g[n] = t - q[k] + x
    <2>1. 0 \in 0..n /\ 0 < k /\ n \in 0..n /\ ~(n < k)
      BY <1>t
    <2> QED BY <1>3, <1>4, <2>1
  <1>5. ASSUME NEW i \in 1..n
        PROVE  g[i] = g[i - 1] + r[i]
    <2>0. i \in 0..n /\ i - 1 \in 0..n /\ i \in Int
      BY <1>2
    <2>1. CASE i < k
      <3>1. g[i] = f[i] /\ g[i - 1] = f[i - 1] /\ r[i] = q[i]
        BY <1>2, <1>4, <2>0, <2>1
      <3> QED BY <1>3, <3>1
    <2>2. CASE i = k
      <3>1. g[i] = f[i] - q[k] + x /\ g[i - 1] = f[i - 1] /\ r[i] = x
        BY <1>2, <1>4, <2>0, <2>2
      <3>2. f[i] = f[i - 1] + q[k] /\ f[i - 1] \in Int
        BY <1>2, <1>3, <2>0, <2>2
      <3> QED BY <1>t, <2>0, <3>1, <3>2
    <2>3. CASE i > k
      <3>1. g[i] = f[i] - q[k] + x /\ g[i - 1] = f[i - 1] - q[k] + x /\ r[i] = q[i]
        BY <1>2, <1>4, <2>0, <2>3
      <3>2. f[i] = f[i - 1] + q[i] /\ f[i - 1] \in Int /\ q[i] \in Int
        BY <1>2, <1>3, <2>0
      <3> QED BY <1>t, <2>0, <3>1, <3>2
    <2> QED BY <1>2, <2>1, <2>2, <2>3
  <1>6. PartialSums(r, g) /\ t - q[k] + x = g[Len(r)]
    BY <1>2, <1>g, <1>0, <1>5 DEF PartialSums
  <1> QED BY <1>6 DEF IsSum, r

-----------------------------------------------------------------------------
(* A remainder is determined by its range and its multiple. *)
LEMMA RemainderUnique ==
  ASSUME NEW m \in Nat, m > 0, NEW a \in Int, NEW b \in Int,
         NEW r \in 0..(m - 1), NEW s \in 0..(m - 1), m * a + r = m * b + s
  PROVE  r = s
  OBVIOUS

(* Numbers a multiple of m apart have the same remainder. *)
LEMMA ModMultiple ==
  ASSUME NEW m \in Nat, m > 0, NEW u \in Int, NEW v \in Int, NEW k \in Int, v = u + m * k
  PROVE  v % m = u % m
  <1>1. /\ u = m * (u \div m) + (u % m) /\ u % m \in 0..(m - 1) /\ u \div m \in Int
        /\ v = m * (v \div m) + (v % m) /\ v % m \in 0..(m - 1) /\ v \div m \in Int
    OBVIOUS
  <1> DEFINE a == u \div m
             b == v \div m
             r == u % m
             s == v % m
  <1>2. a \in Int /\ b \in Int /\ r \in 0..(m - 1) /\ s \in 0..(m - 1) /\ a + k \in Int
    BY <1>1
  <1>3. u = m * a + r /\ v = m * b + s
    BY <1>1
  <1> HIDE DEF a, b, r, s
  <1>4. m * (a + k) = m * a + m * k
    BY <1>2
  <1>5. m * (a + k) + r = m * b + s
    BY <1>2, <1>3, <1>4
  <1>6. r = s
    BY <1>2, <1>5, RemainderUnique
  <1> QED BY <1>6 DEF r, s

(* A sum may be reduced before or after adding to it. *)
LEMMA ModAdd ==
  ASSUME NEW m \in Nat, m > 0, NEW t \in Int, NEW q \in Int
  PROVE  (t + q) % m = ((t % m) + q) % m
  <1>1. t = m * (t \div m) + (t % m) /\ t % m \in Int /\ t \div m \in Int
    OBVIOUS
  <1> DEFINE a == t \div m
             r == t % m
  <1>2. t = m * a + r /\ r \in Int /\ a \in Int
    BY <1>1
  <1> HIDE DEF a, r
  <1>3. t + q \in Int /\ r + q \in Int /\ t + q = (r + q) + m * a
    BY <1>2
  <1>4. (t + q) % m = (r + q) % m
    BY <1>2, <1>3, ModMultiple, ZenonT(30)
  <1> QED BY <1>4 DEF r

(* A prefix, element by element. *)
LEMMA PrefixIs ==
  ASSUME NEW T, NEW a \in Seq(T), NEW t \in Seq(T)
  PROVE  IsPrefix(a, t) <=> Len(a) <= Len(t) /\ \A i \in 1..Len(a) : a[i] = t[i]
  <1> DEFINE n == Len(a)
  <1>1. n \in Nat /\ Len(t) \in Nat
    OBVIOUS
  <1>2. SubSeq(a, 1, n) \in Seq(T) /\ Len(SubSeq(a, 1, n)) = n
        /\ \A i \in 1..n : SubSeq(a, 1, n)[i] = a[i]
    OBVIOUS
  <1>3. ASSUME n <= Len(t)
        PROVE  /\ SubSeq(t, 1, n) \in Seq(T) /\ Len(SubSeq(t, 1, n)) = n
               /\ \A i \in 1..n : SubSeq(t, 1, n)[i] = t[i]
    BY <1>1, <1>3
  <1>4. ASSUME n <= Len(t), \A i \in 1..n : a[i] = t[i]
        PROVE  SubSeq(a, 1, n) = SubSeq(t, 1, n)
    <2> DEFINE u == SubSeq(a, 1, n)
               v == SubSeq(t, 1, n)
    <2>1. /\ u \in Seq(T) /\ Len(u) = n /\ v \in Seq(T) /\ Len(v) = n
          /\ \A i \in 1..Len(u) : u[i] = v[i]
      BY <1>2, <1>3, <1>4
    <2> HIDE DEF u, v
    <2>2. u = v
      BY <2>1, SeqEqual
    <2> QED BY <2>2 DEF u, v
  <1>5. ASSUME n <= Len(t), SubSeq(a, 1, n) = SubSeq(t, 1, n)
        PROVE  \A i \in 1..n : a[i] = t[i]
    BY <1>2, <1>3, <1>5
  <1> HIDE DEF n
  <1> QED BY <1>4, <1>5 DEF IsPrefix, n

(* A prefix of a prefix is one. *)
LEMMA PrefixOfPrefix ==
  ASSUME NEW T, NEW a \in Seq(T), NEW b \in Seq(T), NEW c \in Seq(T),
         IsPrefix(a, b), IsPrefix(b, c)
  PROVE  IsPrefix(a, c)
  <1>1. /\ Len(a) <= Len(b) /\ \A i \in 1..Len(a) : a[i] = b[i]
        /\ Len(b) <= Len(c) /\ \A i \in 1..Len(b) : b[i] = c[i]
    BY PrefixIs
  <1>2. Len(a) \in Nat /\ Len(b) \in Nat /\ Len(c) \in Nat
    OBVIOUS
  <1>3. Len(a) <= Len(c) /\ \A i \in 1..Len(a) : a[i] = c[i]
    BY <1>1, <1>2
  <1> QED BY <1>3, PrefixIs

(* A sequence is a prefix of any that goes on from it. *)
LEMMA PrefixOfConcat ==
  ASSUME NEW T, NEW a \in Seq(T), NEW b \in Seq(T)
  PROVE  IsPrefix(a, a \o b)
  <1> DEFINE c == a \o b
  <1>1. /\ c \in Seq(T) /\ Len(c) = Len(a) + Len(b)
        /\ \A i \in 1..(Len(a) + Len(b)) : c[i] = IF i <= Len(a) THEN a[i] ELSE b[i - Len(a)]
    BY ConcatProperties
  <1>2. Len(a) \in Nat /\ Len(b) \in Nat
    OBVIOUS
  <1> HIDE DEF c
  <1>3. Len(a) <= Len(c) /\ \A i \in 1..Len(a) : a[i] = c[i]
    BY <1>1, <1>2
  <1>4. IsPrefix(a, c)
    BY <1>1, <1>3, PrefixIs
  <1> QED BY <1>4 DEF c

(* What is appended to the second part is appended to the whole. *)
LEMMA ConcatAppend ==
  ASSUME NEW T, NEW a \in Seq(T), NEW b \in Seq(T), NEW x \in T
  PROVE  a \o Append(b, x) = Append(a \o b, x)
  <1>1. Append(b, x) = b \o <<x>> /\ <<x>> \in Seq(T)
    BY AppendIsConcat
  <1>2. a \o b \in Seq(T)
    BY ConcatProperties
  <1>3. Append(a \o b, x) = (a \o b) \o <<x>>
    BY <1>2, AppendIsConcat
  <1> QED BY <1>1, <1>3, ConcatAssociative

(* A head that moves over to the first part leaves the whole as it is. *)
LEMMA ConcatHeadTail ==
  ASSUME NEW T, NEW a \in Seq(T), NEW b \in Seq(T), b # << >>
  PROVE  Append(a, Head(b)) \o Tail(b) = a \o b
  <1>1. /\ Head(b) \in T /\ Tail(b) \in Seq(T) /\ Len(Tail(b)) = Len(b) - 1
        /\ \A i \in 1..Len(Tail(b)) : Tail(b)[i] = b[i + 1]
    BY HeadTailProperties
  <1> DEFINE h == <<Head(b)>>
             c == h \o Tail(b)
  <1>2. h \in Seq(T) /\ Len(h) = 1 /\ h[1] = b[1]
    BY <1>1
  <1>3. Len(b) \in Nat /\ Len(b) >= 1
    OBVIOUS
  <1> HIDE DEF h
  <1>4. /\ c \in Seq(T) /\ Len(c) = 1 + Len(Tail(b))
        /\ \A i \in 1..(1 + Len(Tail(b))) : c[i] = IF i <= 1 THEN h[i] ELSE Tail(b)[i - 1]
    <2> DEFINE u == Tail(b)
    <2>1. h \in Seq(T) /\ u \in Seq(T)
      BY <1>1, <1>2
    <2> HIDE DEF u
    <2>2. /\ h \o u \in Seq(T) /\ Len(h \o u) = Len(h) + Len(u)
          /\ \A i \in 1..(Len(h) + Len(u)) :
               (h \o u)[i] = IF i <= Len(h) THEN h[i] ELSE u[i - Len(h)]
      BY <2>1, ConcatProperties
    <2> QED BY <1>2, <2>2 DEF u
  <1> HIDE DEF c
  <1>5. c = b
    <2>1. Len(c) = Len(b)
      BY <1>1, <1>3, <1>4
    <2>2. \A i \in 1..Len(c) : c[i] = b[i]
      BY <1>1, <1>2, <1>3, <1>4
    <2> QED BY <1>4, <2>1, <2>2, SeqEqual
  <1>6. Append(a, Head(b)) = a \o h
    BY <1>1, AppendIsConcat DEF h
  <1>7. (a \o h) \o Tail(b) = a \o (h \o Tail(b))
    BY <1>1, <1>2, ConcatAssociative, SMTT(30)
  <1> QED BY <1>5, <1>6, <1>7 DEF c

(* The first n + 1 elements are the first n and one more. *)
LEMMA CutAppend ==
  ASSUME NEW T, NEW s \in Seq(T), NEW n \in Nat, n < Len(s)
  PROVE  /\ SubSeq(s, 1, n) \in Seq(T) /\ Len(SubSeq(s, 1, n)) = n
         /\ SubSeq(s, 1, n + 1) = Append(SubSeq(s, 1, n), s[n + 1])
  <1> DEFINE a == SubSeq(s, 1, n)
             b == SubSeq(s, 1, n + 1)
             x == s[n + 1]
             c == Append(a, x)
  <1>1. Len(s) \in Nat /\ x \in T /\ \A i \in 1..(n + 1) : s[i] \in T
    OBVIOUS
  <1>2. a \in Seq(T) /\ Len(a) = n /\ \A i \in 1..n : a[i] = s[i]
    OBVIOUS
  <1>3. b \in Seq(T) /\ Len(b) = n + 1 /\ \A i \in 1..(n + 1) : b[i] = s[i]
    OBVIOUS
  <1> HIDE DEF a, b
  <1>4. /\ c \in Seq(T) /\ Len(c) = n + 1 /\ c[n + 1] = x
        /\ \A i \in 1..n : c[i] = a[i]
    BY <1>1, <1>2, AppendProperties
  <1> HIDE DEF c, x
  <1>5. \A i \in 1..(n + 1) : c[i] = b[i]
    BY <1>2, <1>3, <1>4 DEF x
  <1>6. b = c
    BY <1>3, <1>4, <1>5, SeqEqual
  <1> QED BY <1>2, <1>6 DEF a, b, c, x

(* Nothing is a beginning of everything. *)
LEMMA EmptyIsPrefix ==
  ASSUME NEW T, NEW u \in Seq(T)
  PROVE  IsPrefix(<< >>, u)
  <1> DEFINE e == << >>
  <1>1. e \in Seq(T) /\ e \o u = u
    BY ConcatEmptySeq
  <1> HIDE DEF e
  <1>2. IsPrefix(e, e \o u)
    BY <1>1, PrefixOfConcat
  <1> QED BY <1>1, <1>2 DEF e

(* A sequence is a beginning of itself. *)
LEMMA PrefixOfSelf ==
  ASSUME NEW T, NEW a \in Seq(T)
  PROVE  IsPrefix(a, a)
  BY PrefixIs

(* w is defined on m..L, by what stops there or by a later place. *)
IsWalk(X, L, stop, base, past, step, m, w) ==
  /\ w \in [m..L -> X]
  /\ \A i \in m..L : w[i] = IF i \in stop THEN base[i] ELSE step[<<i, w[past[i]]>>]

(* A function on 0..L that looks only at later places exists. *)
LEMMA WalkExists ==
  ASSUME NEW X, NEW L \in Nat, NEW stop \in SUBSET (0..L), L \in stop,
         NEW base \in [0..L -> X], NEW past \in [0..L -> Nat],
         \A i \in 0..L : i \notin stop => past[i] \in (i + 1)..L,
         NEW step \in [(0..L) \X X -> X]
  PROVE  \E w : IsWalk(X, L, stop, base, past, step, 0, w)
  <1> DEFINE Walk(m, w) == IsWalk(X, L, stop, base, past, step, m, w)
             S == {d \in 0..L : \E w : Walk(L - d, w)}
  <1>1. 0 \in S
    <2> DEFINE w == [i \in L..L |-> base[i]]
    <2>1. Walk(L, w)
      BY DEF IsWalk
    <2>2. L - 0 = L /\ 0 \in 0..L
      OBVIOUS
    <2> HIDE DEF w, Walk
    <2>3. \E v : Walk(L - 0, v)
      BY <2>1, <2>2
    <2> QED BY <2>2, <2>3
  <1>2. ASSUME NEW d \in 0..(L - 1), d \in S PROVE d + 1 \in S
    <2> DEFINE m == L - d
               l == L - (d + 1)
    <2>1. PICK w : Walk(m, w)
      BY <1>2
    <2>2. /\ w \in [m..L -> X]
          /\ \A i \in m..L : w[i] = IF i \in stop THEN base[i] ELSE step[<<i, w[past[i]]>>]
      BY <2>1 DEF IsWalk
    <2>3. l \in 0..L /\ m = l + 1 /\ d + 1 \in 0..L
      OBVIOUS
    <2> HIDE DEF m, l
    <2> DEFINE new == IF l \in stop THEN base[l] ELSE step[<<l, w[past[l]]>>]
               v == [i \in l..L |-> IF i = l THEN new ELSE w[i]]
    <2>4. new \in X
      <3>1. CASE l \in stop
        BY <2>3, <3>1
      <3>2. CASE l \notin stop
        <4>1. past[l] \in m..L
          BY <2>3, <3>2
        <4>2. w[past[l]] \in X
          BY <2>2, <4>1
        <4> QED BY <2>3, <3>2, <4>2
      <3> QED BY <3>1, <3>2
    <2> HIDE DEF new
    <2>5. \A i \in m..L : v[i] = w[i] /\ i \in l..L
      BY <2>3
    <2>6. v[l] = new /\ l \in l..L
      BY <2>3
    <2>7. v \in [l..L -> X]
      <3>1. \A i \in l..L : i = l \/ i \in m..L
        BY <2>3
      <3> QED BY <2>2, <2>4, <3>1
    <2> HIDE DEF v
    <2>8. ASSUME NEW i \in l..L
          PROVE  v[i] = IF i \in stop THEN base[i] ELSE step[<<i, v[past[i]]>>]
      <3>1. i \notin stop => past[i] \in m..L
        BY <2>3
      <3>2. i \notin stop => v[past[i]] = w[past[i]]
        BY <2>5, <3>1
      <3>3. CASE i = l
        BY <2>6, <3>2, <3>3 DEF new
      <3>4. CASE i # l
        <4>1. i \in m..L
          BY <2>3, <3>4
        <4> QED BY <2>2, <2>5, <3>2, <4>1
      <3> QED BY <3>3, <3>4
    <2>9. Walk(l, v)
      BY <2>7, <2>8 DEF IsWalk
    <2> QED BY <2>3, <2>9 DEF l
  <1>3. \A d \in 0..L : d \in S
    <2> HIDE DEF S
    <2> QED BY <1>1, <1>2, BoundedInduction
  <1>4. L \in S
    <2> HIDE DEF S
    <2>1. L \in 0..L
      OBVIOUS
    <2> QED BY <1>3, <2>1
  <1>5. PICK w : Walk(L - L, w)
    BY <1>4
  <1>6. L - L = 0
    OBVIOUS
  <1> QED BY <1>5, <1>6

(* What holds at a place if it holds at all later ones, holds everywhere. *)
LEMMA DownwardInduction ==
  ASSUME NEW L \in Nat, NEW S,
         \A i \in 0..L : (\A j \in (i + 1)..L : j \in S) => i \in S
  PROVE  \A i \in 0..L : i \in S
  <1> DEFINE T == {d \in 0..L : \A j \in (L - d)..L : j \in S}
  <1>1. 0 \in T
    <2>1. \A j \in (L + 1)..L : j \in S
      OBVIOUS
    <2>2. L \in S
      BY <2>1
    <2>3. \A j \in (L - 0)..L : j = L
      OBVIOUS
    <2> QED BY <2>2, <2>3
  <1>2. ASSUME NEW d \in 0..(L - 1), d \in T PROVE d + 1 \in T
    <2> DEFINE i == L - (d + 1)
    <2>1. i \in 0..L /\ i + 1 = L - d /\ d + 1 \in 0..L
      OBVIOUS
    <2>2. \A j \in (i + 1)..L : j \in S
      BY <1>2, <2>1
    <2>3. i \in S
      BY <2>1, <2>2
    <2>4. \A j \in i..L : j = i \/ j \in (i + 1)..L
      BY <2>1
    <2> QED BY <2>1, <2>2, <2>3, <2>4
  <1>3. \A d \in 0..L : d \in T
    <2> HIDE DEF T
    <2> QED BY <1>1, <1>2, BoundedInduction
  <1>4. L \in T
    <2> HIDE DEF T
    <2>1. L \in 0..L
      OBVIOUS
    <2> QED BY <1>3, <2>1
  <1>5. L - L = 0
    OBVIOUS
  <1> QED BY <1>4, <1>5

(* The same on all naturals, if it holds from L on. *)
LEMMA DownwardOnNat ==
  ASSUME NEW L \in Nat, NEW S, \A i \in Nat : i >= L => i \in S,
         \A i \in Nat : (\A j \in Nat : j > i => j \in S) => i \in S
  PROVE  \A i \in Nat : i \in S
  <1>1. ASSUME NEW i \in 0..L, \A j \in (i + 1)..L : j \in S PROVE i \in S
    <2>1. \A j \in Nat : j > i => j \in (i + 1)..L \/ j >= L
      OBVIOUS
    <2>2. \A j \in Nat : j > i => j \in S
      BY <1>1, <2>1
    <2> QED BY <2>2
  <1>2. \A i \in 0..L : i \in S
    BY <1>1, DownwardInduction
  <1>3. \A i \in Nat : i \in 0..L \/ i >= L
    OBVIOUS
  <1> QED BY <1>2, <1>3

(* The same for a function on all naturals, if every place from L on stops. *)
IsWalkOnNat(X, stop, base, past, step, w) ==
  /\ w \in [Nat -> X]
  /\ \A i \in Nat : w[i] = IF i \in stop THEN base[i] ELSE step[<<i, w[past[i]]>>]

(* It exists, even if a place before L looks beyond L. *)
LEMMA WalkOnNatExists ==
  ASSUME NEW X, NEW L \in Nat, NEW stop \in SUBSET Nat,
         \A i \in Nat : i >= L => i \in stop,
         NEW base \in [Nat -> X], NEW past \in [Nat -> Nat],
         \A i \in Nat : i \notin stop => past[i] > i,
         NEW step \in [Nat \X X -> X]
  PROVE  \E w : IsWalkOnNat(X, stop, base, past, step, w)
  <1> DEFINE St == stop \cap (0..L)
             Ba == [i \in 0..L |-> base[i]]
             Pa == [i \in 0..L |-> IF past[i] > L THEN i + 1 ELSE past[i]]
             Sp == [c \in (0..L) \X X |->
                      IF past[c[1]] > L THEN step[<<c[1], base[past[c[1]]]>>] ELSE step[c]]
  <1>1. St \in SUBSET (0..L) /\ L \in St
    OBVIOUS
  <1>2. Ba \in [0..L -> X] /\ Pa \in [0..L -> Nat]
    OBVIOUS
  <1>3. \A i \in 0..L : i \notin St => Pa[i] \in (i + 1)..L
    OBVIOUS
  <1>4. Sp \in [(0..L) \X X -> X]
    <2>1. ASSUME NEW c \in (0..L) \X X
          PROVE  /\ step[c] \in X /\ step[<<c[1], base[past[c[1]]]>>] \in X
      <3>1. c[1] \in Nat /\ c[2] \in X /\ c \in Nat \X X
        OBVIOUS
      <3>2. base[past[c[1]]] \in X
        BY <3>1
      <3> QED BY <3>1, <3>2
    <2> QED BY <2>1
  <1> HIDE DEF St, Ba, Pa, Sp
  <1>5. PICK v : IsWalk(X, L, St, Ba, Pa, Sp, 0, v)
    BY <1>1, <1>2, <1>3, <1>4, WalkExists
  <1>6. /\ v \in [0..L -> X]
        /\ \A i \in 0..L : v[i] = IF i \in St THEN Ba[i] ELSE Sp[<<i, v[Pa[i]]>>]
    BY <1>5 DEF IsWalk
  <1> DEFINE w == [i \in Nat |-> IF i <= L THEN v[i] ELSE base[i]]
  <1>7. w \in [Nat -> X]
    BY <1>6
  <1>8. /\ \A i \in 0..L : w[i] = v[i]
        /\ \A i \in Nat : i > L => w[i] = base[i]
    OBVIOUS
  <1> HIDE DEF w
  <1>9. ASSUME NEW i \in Nat
        PROVE  w[i] = IF i \in stop THEN base[i] ELSE step[<<i, w[past[i]]>>]
    <2>1. CASE i >= L
      <3>1. i \in stop
        BY <2>1
      <3>2. CASE i > L
        BY <1>8, <3>1, <3>2
      <3>3. CASE i = L
        <4>1. L \in 0..L /\ v[L] = Ba[L] /\ Ba[L] = base[L]
          BY <1>1, <1>6 DEF Ba
        <4> QED BY <1>8, <3>1, <3>3, <4>1
      <3> QED BY <2>1, <3>2, <3>3
    <2>2. CASE i < L
      <3>1. i \in 0..L /\ (i \in St <=> i \in stop) /\ Ba[i] = base[i]
        BY <2>2 DEF St, Ba
      <3>2. CASE i \in stop
        BY <1>6, <1>8, <3>1, <3>2
      <3>3. CASE i \notin stop
        <4>0. Pa[i] \in (i + 1)..L
          BY <1>3, <3>1, <3>3
        <4>1. v[i] = Sp[<<i, v[Pa[i]]>>] /\ Pa[i] \in 0..L
          <5>1. Pa[i] \in 0..L
            BY <4>0
          <5>2. i \notin St
            BY <3>1, <3>3
          <5> QED BY <1>6, <3>1, <5>1, <5>2
        <4>2. v[Pa[i]] \in X
          BY <1>6, <4>1
        <4>3. past[i] \in Nat
          BY <3>1
        <4>4. CASE past[i] > L
          <5>1. v[i] = step[<<i, base[past[i]]>>]
            BY <3>1, <4>1, <4>2, <4>4 DEF Sp
          <5> QED BY <1>8, <3>1, <3>3, <4>3, <4>4, <5>1
        <4>5. CASE ~(past[i] > L)
          <5>1. Pa[i] = past[i]
            BY <3>1, <4>5 DEF Pa
          <5>2. Sp[<<i, v[Pa[i]]>>] = step[<<i, v[Pa[i]]>>]
            BY <3>1, <4>2, <4>5 DEF Sp
          <5>3. w[past[i]] = v[Pa[i]]
            BY <1>8, <4>1, <5>1
          <5> QED BY <1>8, <3>1, <3>3, <4>1, <5>2, <5>3
        <4> QED BY <4>4, <4>5
      <3> QED BY <3>2, <3>3
    <2> QED BY <2>1, <2>2
  <1> QED BY <1>7, <1>9 DEF IsWalkOnNat

(* f counts up from 0: each value comes of the one before. *)
CountsUp(X, L, base, step, f) ==
  /\ f \in [0..L -> X]
  /\ f[0] = base
  /\ \A i \in 1..L : f[i] = step[<<i, f[i - 1]>>]

(* There is such a function: a walk, seen from its end. *)
LEMMA CountUpExists ==
  ASSUME NEW X, NEW L \in Nat, NEW base \in X, NEW step \in [(1..L) \X X -> X]
  PROVE  \E f : CountsUp(X, L, base, step, f)
  <1> DEFINE St == {L}
             Ba == [i \in 0..L |-> base]
             Pa == [i \in 0..L |-> i + 1]
             Sp == [c \in (0..L) \X X |-> IF c[1] < L THEN step[<<L - c[1], c[2]>>] ELSE base]
  <1>1. St \in SUBSET (0..L) /\ L \in St /\ Ba \in [0..L -> X] /\ Pa \in [0..L -> Nat]
    OBVIOUS
  <1>2. \A i \in 0..L : i \notin St => Pa[i] \in (i + 1)..L
    OBVIOUS
  <1>3. Sp \in [(0..L) \X X -> X]
    <2>1. ASSUME NEW c \in (0..L) \X X, c[1] < L PROVE step[<<L - c[1], c[2]>>] \in X
      <3>1. L - c[1] \in 1..L /\ c[2] \in X
        BY <2>1
      <3> QED BY <3>1
    <2> QED BY <2>1
  <1>4. \A i \in 0..(L - 1), x \in X : Sp[<<i, x>>] = step[<<L - i, x>>]
    OBVIOUS
  <1> HIDE DEF Sp
  <1>5. PICK w : IsWalk(X, L, St, Ba, Pa, Sp, 0, w)
    <2> HIDE DEF St, Ba, Pa
    <2> QED BY <1>1, <1>2, <1>3, WalkExists
  <1>6. /\ w \in [0..L -> X]
        /\ \A i \in 0..L : w[i] = IF i \in St THEN Ba[i] ELSE Sp[<<i, w[Pa[i]]>>]
    BY <1>5 DEF IsWalk
  <1> DEFINE f == [k \in 0..L |-> w[L - k]]
  <1>7. f \in [0..L -> X]
    BY <1>6
  <1>8. f[0] = base
    <2>1. 0 \in 0..L /\ L \in 0..L /\ L - 0 = L
      OBVIOUS
    <2>2. w[L] = base
      BY <1>6, <2>1
    <2> QED BY <2>1, <2>2
  <1>9. ASSUME NEW k \in 1..L PROVE f[k] = step[<<k, f[k - 1]>>]
    <2>1. L - k \in 0..(L - 1) /\ L - k \in 0..L /\ (L - k) + 1 = L - (k - 1)
          /\ L - (k - 1) \in 0..L /\ k - 1 \in 0..L /\ k \in 0..L /\ L - (L - k) = k
      OBVIOUS
    <2>2. w[L - k] = Sp[<<L - k, w[L - (k - 1)]>>]
      BY <1>6, <2>1
    <2>3. w[L - (k - 1)] \in X
      BY <1>6, <2>1
    <2>4. Sp[<<L - k, w[L - (k - 1)]>>] = step[<<k, w[L - (k - 1)]>>]
      BY <1>4, <2>1, <2>3
    <2> QED BY <2>1, <2>2, <2>4
  <1> HIDE DEF f
  <1> QED BY <1>7, <1>8, <1>9 DEF CountsUp

-----------------------------------------------------------------------------
(* A set of parts of a finite set that has the empty one, and with a part   *)
(* any part of one element more, has every part.                           *)
LEMMA FiniteInduction ==
  ASSUME NEW S, IsFiniteSet(S), NEW P, {} \in P,
         \A s \in SUBSET S : \A x \in S \ s : s \in P => s \cup {x} \in P
  PROVE  \A s \in SUBSET S : s \in P
  <1> DEFINE T == {n \in Nat : \A s \in SUBSET S : Cardinality(s) = n => s \in P}
  <1>1. \A s \in SUBSET S : IsFiniteSet(s) /\ Cardinality(s) \in Nat
    BY FS_Subset, FS_CardinalityType
  <1>2. 0 \in T
    BY <1>1, FS_EmptySet
  <1>3. ASSUME NEW n \in Nat, n \in T PROVE n + 1 \in T
    <2>1. ASSUME NEW s \in SUBSET S, Cardinality(s) = n + 1 PROVE s \in P
      <3>1. s # {}
        BY <1>1, <2>1, FS_EmptySet
      <3>2. PICK x \in s : TRUE
        BY <3>1
      <3> DEFINE r == s \ {x}
      <3>3. r \in SUBSET S /\ x \in S \ r /\ r \cup {x} = s
        BY <3>2
      <3>4. Cardinality(r) = n
        <4>1. IsFiniteSet(s)
          BY <1>1
        <4>2. Cardinality(r) = Cardinality(s) - 1
          BY <3>2, <4>1, FS_RemoveElement
        <4> QED BY <2>1, <4>2
      <3>5. r \in P
        BY <1>3, <3>3, <3>4
      <3> HIDE DEF r
      <3> QED BY <3>3, <3>5
    <2> QED BY <2>1
  <1>4. \A n \in Nat : n \in T
    <2> HIDE DEF T
    <2> QED BY <1>2, <1>3, SetInduction
  <1> QED BY <1>1, <1>4

(* Sums over finite sets.  sum adds up f over every part of S. *)
SumsParts(S, f, sum) ==
  /\ \A x \in S : f[x] \in Int
  /\ sum \in [SUBSET S -> Int]
  /\ sum[{}] = 0
  /\ \A s \in SUBSET S : \A x \in s : sum[s] = sum[s \ {x}] + f[x]

IsSetSum(S, f, t) == \E sum : SumsParts(S, f, sum) /\ t = sum[S]

(* Nothing sums up to 0. *)
LEMMA SetSumEmpty ==
  ASSUME NEW f
  PROVE  IsSetSum({}, f, 0)
  <1> DEFINE sum == [s \in SUBSET {} |-> 0]
  <1>1. SumsParts({}, f, sum)
    BY DEF SumsParts
  <1> QED BY <1>1 DEF IsSetSum

(* One more element adds to the sum. *)
LEMMA SetSumWith ==
  ASSUME NEW S, NEW f, NEW t, IsSetSum(S, f, t), NEW x, x \notin S, f[x] \in Int
  PROVE  IsSetSum(S \cup {x}, f, t + f[x])
  <1>1. PICK sum : SumsParts(S, f, sum) /\ t = sum[S]
    BY DEF IsSetSum
  <1> DEFINE U == S \cup {x}
             new == [s \in SUBSET U |-> IF x \in s THEN sum[s \ {x}] + f[x] ELSE sum[s]]
  <1>2. /\ sum \in [SUBSET S -> Int] /\ sum[{}] = 0 /\ \A y \in S : f[y] \in Int
        /\ \A s \in SUBSET S : \A y \in s : sum[s] = sum[s \ {y}] + f[y]
    BY <1>1 DEF SumsParts
  <1>3. \A s \in SUBSET U : IF x \in s THEN s \ {x} \in SUBSET S ELSE s \in SUBSET S
    OBVIOUS
  <1>4. new \in [SUBSET U -> Int]
    <2>1. ASSUME NEW s \in SUBSET U
          PROVE  (IF x \in s THEN sum[s \ {x}] + f[x] ELSE sum[s]) \in Int
      <3>1. CASE x \in s
        <4>1. sum[s \ {x}] \in Int
          BY <1>2, <1>3, <3>1
        <4> QED BY <3>1, <4>1
      <3>2. CASE x \notin s
        BY <1>2, <1>3, <3>2
      <3> QED BY <3>1, <3>2
    <2> QED BY <2>1
  <1>5. new[{}] = 0
    BY <1>2
  <1>6. ASSUME NEW s \in SUBSET U, NEW y \in s PROVE new[s] = new[s \ {y}] + f[y]
    <2>1. CASE y = x
      BY <2>1
    <2>2. CASE y # x /\ x \in s
      <3>1. s \ {x} \in SUBSET S /\ y \in s \ {x} /\ x \in s \ {y} /\ s \ {y} \in SUBSET U
            /\ (s \ {x}) \ {y} = (s \ {y}) \ {x} /\ (s \ {y}) \ {x} \in SUBSET S
        BY <2>2
      <3>2. sum[s \ {x}] = sum[(s \ {y}) \ {x}] + f[y]
        BY <1>2, <3>1
      <3>3. sum[s \ {x}] \in Int /\ sum[(s \ {y}) \ {x}] \in Int
        BY <1>2, <3>1
      <3>4. new[s] = sum[s \ {x}] + f[x] /\ new[s \ {y}] = sum[(s \ {y}) \ {x}] + f[x]
        BY <2>2, <3>1
      <3>5. f[y] \in Int
        BY <1>2, <3>1
      <3> HIDE DEF new
      <3> QED BY <3>2, <3>3, <3>4, <3>5
    <2>3. CASE x \notin s
      <3>1. s \in SUBSET S /\ s \ {y} \in SUBSET U /\ x \notin s \ {y}
        BY <2>3
      <3> QED BY <1>2, <2>3, <3>1
    <2> QED BY <2>1, <2>2, <2>3
  <1>7. new[U] = t + f[x]
    <2>1. U \in SUBSET U /\ x \in U /\ U \ {x} = S
      OBVIOUS
    <2> QED BY <1>1, <2>1
  <1> HIDE DEF new
  <1>8. SumsParts(U, f, new)
    <2>1. \A y \in U : f[y] \in Int
      BY <1>2
    <2> QED BY <1>4, <1>5, <1>6, <2>1 DEF SumsParts
  <1> QED BY <1>7, <1>8 DEF IsSetSum

(* An element that goes is subtracted. *)
LEMMA SetSumWithout ==
  ASSUME NEW S, NEW f, NEW t, IsSetSum(S, f, t), NEW x \in S
  PROVE  IsSetSum(S \ {x}, f, t - f[x]) /\ t \in Int /\ f[x] \in Int
  <1>1. PICK sum : SumsParts(S, f, sum) /\ t = sum[S]
    BY DEF IsSetSum
  <1> DEFINE U == S \ {x}
             new == [s \in SUBSET U |-> sum[s]]
  <1>2. /\ sum \in [SUBSET S -> Int] /\ sum[{}] = 0 /\ \A y \in S : f[y] \in Int
        /\ \A s \in SUBSET S : \A y \in s : sum[s] = sum[s \ {y}] + f[y]
    BY <1>1 DEF SumsParts
  <1>3. new \in [SUBSET U -> Int] /\ new[{}] = 0
    BY <1>2
  <1>4. \A s \in SUBSET U : \A y \in s : new[s] = new[s \ {y}] + f[y]
    <2> SUFFICES ASSUME NEW s \in SUBSET U, NEW y \in s
                 PROVE  new[s] = new[s \ {y}] + f[y]
      OBVIOUS
    <2>1. s \in SUBSET S /\ s \ {y} \in SUBSET U
      OBVIOUS
    <2> QED BY <1>2, <2>1
  <1>5. t = sum[U] + f[x] /\ sum[U] \in Int /\ t \in Int /\ f[x] \in Int
    <2>1. S \in SUBSET S /\ U \in SUBSET S
      OBVIOUS
    <2> QED BY <1>1, <1>2, <2>1
  <1>6. new[U] = t - f[x]
    <2>1. new[U] = sum[U]
      OBVIOUS
    <2> QED BY <1>5, <2>1
  <1> HIDE DEF new
  <1>7. SumsParts(U, f, new)
    BY <1>2, <1>3, <1>4 DEF SumsParts
  <1> QED BY <1>5, <1>6, <1>7 DEF IsSetSum

(* Functions that agree on a set have the same sum over it. *)
LEMMA SetSumSame ==
  ASSUME NEW S, NEW f, NEW t, IsSetSum(S, f, t), NEW g, \A x \in S : g[x] = f[x]
  PROVE  IsSetSum(S, g, t)
  <1>1. PICK sum : SumsParts(S, f, sum) /\ t = sum[S]
    BY DEF IsSetSum
  <1>2. SumsParts(S, g, sum)
    BY <1>1 DEF SumsParts
  <1> QED BY <1>1, <1>2 DEF IsSetSum

(* A finite set has a sum. *)
LEMMA SetSumExists ==
  ASSUME NEW S, IsFiniteSet(S), NEW f, \A x \in S : f[x] \in Int
  PROVE  \E sum : SumsParts(S, f, sum)
  <1> DEFINE P == {s \in SUBSET S : \E t : IsSetSum(s, f, t)}
  <1>1. {} \in P
    BY SetSumEmpty
  <1>2. \A s \in SUBSET S : \A x \in S \ s : s \in P => s \cup {x} \in P
    <2> SUFFICES ASSUME NEW s \in SUBSET S, NEW x \in S \ s, s \in P
                 PROVE  s \cup {x} \in P
      OBVIOUS
    <2>1. PICK t : IsSetSum(s, f, t)
      OBVIOUS
    <2>2. IsSetSum(s \cup {x}, f, t + f[x])
      BY <2>1, SetSumWith
    <2> QED BY <2>2
  <1>3. S \in P
    <2> HIDE DEF P
    <2> QED BY <1>1, <1>2, FiniteInduction
  <1> QED BY <1>3 DEF IsSetSum

(* The equation of a fold that adds up f, its elements picked one by one. *)
FoldsSet(S, f, pick, iter) ==
  iter = [s \in SUBSET S |-> IF s = {} THEN 0 ELSE f[pick[s]] + iter[s \ {pick[s]}]]

(* Such a fold exists, and it is the sum in whatever order it picks. *)
LEMMA SetSumFold ==
  ASSUME NEW S, IsFiniteSet(S), NEW f, \A x \in S : f[x] \in Int,
         NEW pick, \A s \in SUBSET S : s # {} => pick[s] \in s
  PROVE  /\ \E iter : FoldsSet(S, f, pick, iter)
         /\ \A iter : FoldsSet(S, f, pick, iter) => IsSetSum(S, f, iter[S])
  <1>1. PICK sum : SumsParts(S, f, sum)
    BY SetSumExists
  <1>2. /\ sum \in [SUBSET S -> Int] /\ sum[{}] = 0
        /\ \A s \in SUBSET S : \A y \in s : sum[s] = sum[s \ {y}] + f[y]
    BY <1>1 DEF SumsParts
  <1>3. ASSUME NEW s \in SUBSET S, s # {}
        PROVE  sum[s] = f[pick[s]] + sum[s \ {pick[s]}]
    <2>1. pick[s] \in s /\ pick[s] \in S /\ s \ {pick[s]} \in SUBSET S
      BY <1>3
    <2>2. sum[s] = sum[s \ {pick[s]}] + f[pick[s]]
      BY <1>2, <2>1
    <2>3. sum[s \ {pick[s]}] \in Int /\ f[pick[s]] \in Int
      BY <1>2, <2>1
    <2> QED BY <2>2, <2>3
  <1>4. FoldsSet(S, f, pick, sum)
    BY <1>2, <1>3 DEF FoldsSet
  <1>5. ASSUME NEW iter, FoldsSet(S, f, pick, iter) PROVE IsSetSum(S, f, iter[S])
    <2>1. \A s \in SUBSET S : iter[s] = IF s = {} THEN 0 ELSE f[pick[s]] + iter[s \ {pick[s]}]
      BY <1>5 DEF FoldsSet
    <2> DEFINE T == {n \in Nat : \A s \in SUBSET S : Cardinality(s) = n => iter[s] = sum[s]}
    <2>2. \A s \in SUBSET S : IsFiniteSet(s) /\ Cardinality(s) \in Nat
      BY FS_Subset, FS_CardinalityType
    <2>3. 0 \in T
      <3>1. ASSUME NEW s \in SUBSET S, Cardinality(s) = 0 PROVE iter[s] = sum[s]
        <4>1. s = {}
          BY <2>2, <3>1, FS_EmptySet
        <4> QED BY <1>2, <2>1, <4>1
      <3> QED BY <3>1
    <2>4. ASSUME NEW n \in Nat, n \in T PROVE n + 1 \in T
      <3>1. ASSUME NEW s \in SUBSET S, Cardinality(s) = n + 1 PROVE iter[s] = sum[s]
        <4> DEFINE x == pick[s]
                   r == s \ {x}
        <4>1. s # {}
          BY <2>2, <3>1, FS_EmptySet
        <4>2. x \in s /\ r \in SUBSET S
          BY <4>1
        <4>3. Cardinality(r) = n
          <5>1. IsFiniteSet(s)
            BY <2>2
          <5> HIDE DEF x
          <5>2. Cardinality(r) = Cardinality(s) - 1
            BY <4>2, <5>1, FS_RemoveElement
          <5> QED BY <3>1, <5>2
        <4>4. iter[r] = sum[r]
          BY <2>4, <4>2, <4>3
        <4>5. iter[s] = f[x] + iter[r]
          BY <2>1, <4>1
        <4>6. sum[s] = f[x] + sum[r]
          BY <1>3, <4>1
        <4> QED BY <4>4, <4>5, <4>6
      <3> QED BY <3>1
    <2>5. \A n \in Nat : n \in T
      <3> HIDE DEF T
      <3> QED BY <2>3, <2>4, SetInduction
    <2>6. S \in SUBSET S
      OBVIOUS
    <2>7. iter[S] = sum[S]
      BY <2>2, <2>5, <2>6
    <2> QED BY <1>1, <2>7 DEF IsSetSum
  <1> QED BY <1>4, <1>5

(* A finite set has only one sum. *)
LEMMA SetSumUnique ==
  ASSUME NEW S, IsFiniteSet(S), NEW f, NEW t, IsSetSum(S, f, t), NEW u, IsSetSum(S, f, u)
  PROVE  t = u
  <1>1. PICK sum : SumsParts(S, f, sum) /\ t = sum[S]
    BY DEF IsSetSum
  <1>2. PICK other : SumsParts(S, f, other) /\ u = other[S]
    BY DEF IsSetSum
  <1> DEFINE P == {s \in SUBSET S : sum[s] = other[s]}
  <1>3. {} \in P
    BY <1>1, <1>2 DEF SumsParts
  <1>4. \A s \in SUBSET S : \A x \in S \ s : s \in P => s \cup {x} \in P
    <2> SUFFICES ASSUME NEW s \in SUBSET S, NEW x \in S \ s, s \in P
                 PROVE  s \cup {x} \in P
      OBVIOUS
    <2> DEFINE r == s \cup {x}
    <2>1. r \in SUBSET S /\ x \in r /\ r \ {x} = s /\ sum[s] = other[s]
      OBVIOUS
    <2> HIDE DEF r
    <2>2. sum[r] = sum[s] + f[x] /\ other[r] = other[s] + f[x]
      BY <1>1, <1>2, <2>1 DEF SumsParts
    <2>3. sum[r] = other[r]
      BY <2>1, <2>2
    <2> QED BY <2>1, <2>3 DEF r
  <1>5. S \in P
    <2> HIDE DEF P
    <2> QED BY <1>3, <1>4, FiniteInduction
  <1> QED BY <1>1, <1>2, <1>5

(* Non-negative parts make a non-negative sum, and no part is more than it. *)
LEMMA SetSumBounds ==
  ASSUME NEW S, IsFiniteSet(S), NEW f, NEW t, IsSetSum(S, f, t), \A x \in S : f[x] \in Nat
  PROVE  t \in Nat /\ \A x \in S : f[x] <= t
  <1>1. PICK sum : SumsParts(S, f, sum) /\ t = sum[S]
    BY DEF IsSetSum
  <1> DEFINE P == {s \in SUBSET S : sum[s] \in Nat}
  <1>2. /\ sum[{}] = 0
        /\ \A s \in SUBSET S : \A y \in s : sum[s] = sum[s \ {y}] + f[y]
    BY <1>1 DEF SumsParts
  <1>3. {} \in P
    BY <1>2
  <1>4. \A s \in SUBSET S : \A x \in S \ s : s \in P => s \cup {x} \in P
    <2> SUFFICES ASSUME NEW s \in SUBSET S, NEW x \in S \ s, s \in P
                 PROVE  s \cup {x} \in P
      OBVIOUS
    <2> DEFINE r == s \cup {x}
    <2>1. r \in SUBSET S /\ x \in r /\ r \ {x} = s /\ sum[s] \in Nat /\ f[x] \in Nat
      OBVIOUS
    <2> HIDE DEF r
    <2>2. sum[r] = sum[s] + f[x]
      BY <1>2, <2>1
    <2>3. sum[r] \in Nat
      BY <2>1, <2>2
    <2> QED BY <2>1, <2>3 DEF r
  <1>5. \A s \in SUBSET S : s \in P
    <2> HIDE DEF P
    <2> QED BY <1>3, <1>4, FiniteInduction
  <1>6. ASSUME NEW x \in S PROVE f[x] <= t
    <2> DEFINE r == S \ {x}
    <2>1. r \in SUBSET S /\ S \in SUBSET S
      OBVIOUS
    <2>2. sum[r] \in Nat
      BY <1>5, <2>1
    <2>3. t = sum[r] + f[x] /\ f[x] \in Nat
      BY <1>1, <1>2, <2>1
    <2> HIDE DEF r
    <2> QED BY <2>2, <2>3
  <1> QED BY <1>1, <1>5, <1>6

(* e lists the members of S, each once, in n places. *)
Enumerates(e, n, S) ==
  /\ e \in [1..n -> S]
  /\ \A i, j \in 1..n : e[i] = e[j] => i = j
  /\ \A x \in S : \E i \in 1..n : e[i] = x

(* The sum over a list of amounts is the sum over the set it enumerates. *)
LEMMA ListSetSum ==
  ASSUME NEW q \in Seq(Int), NEW t, IsSum(q, t), NEW S, NEW e, Enumerates(e, Len(q), S),
         NEW f, \A i \in 1..Len(q) : f[e[i]] = q[i]
  PROVE  IsSetSum(S, f, t)
  <1>1. PICK g : PartialSums(q, g) /\ t = g[Len(q)]
    BY DEF IsSum
  <1> DEFINE n == Len(q)
             Upto(k) == {e[i] : i \in 1..k}
             T == {k \in 0..n : IsSetSum(Upto(k), f, g[k])}
  <1>2. n \in Nat /\ \A i \in 1..n : q[i] \in Int
    OBVIOUS
  <1>3. 0 \in T
    <2>1. Upto(0) = {} /\ g[0] = 0 /\ 0 \in 0..n
      BY <1>1, <1>2 DEF PartialSums
    <2> QED BY <2>1, SetSumEmpty
  <1>4. ASSUME NEW k \in 0..(n - 1), k \in T
        PROVE  k + 1 \in T
    <2> DEFINE U == Upto(k)
               x == e[k + 1]
               u == g[k]
    <2>1. k + 1 \in 1..n /\ k + 1 \in 0..n /\ (k + 1) - 1 = k
      BY <1>2
    <2>2. g[k + 1] = g[k] + q[k + 1]
      BY <1>1, <2>1 DEF PartialSums
    <2>3. f[x] = q[k + 1] /\ f[x] \in Int
      BY <1>2, <2>1
    <2>4. x \notin U
      <3> SUFFICES ASSUME NEW i \in 1..k, e[i] = x PROVE FALSE
        OBVIOUS
      <3>1. i \in 1..n /\ i # k + 1
        BY <1>2, <2>1
      <3> QED BY <2>1, <3>1 DEF Enumerates
    <2>5. Upto(k + 1) = U \cup {x}
      <3>1. 1..(k + 1) = (1..k) \cup {k + 1}
        BY <1>2
      <3> QED BY <3>1
    <2>6. IsSetSum(U, f, u)
      BY <1>4
    <2> HIDE DEF U, x, u
    <2>7. IsSetSum(U \cup {x}, f, u + f[x])
      BY <2>3, <2>4, <2>6, SetSumWith
    <2>8. IsSetSum(Upto(k + 1), f, g[k + 1])
      BY <2>2, <2>3, <2>5, <2>7 DEF u
    <2> QED BY <2>1, <2>8
  <1>5. \A k \in 0..n : k \in T
    <2> HIDE DEF T, n
    <2> QED BY <1>2, <1>3, <1>4, BoundedInduction
  <1>6. Upto(n) = S
    BY DEF Enumerates
  <1>7. n \in 0..n
    BY <1>2
  <1> QED BY <1>1, <1>5, <1>6, <1>7

(* A set has as many members as the places of a list that enumerates it. *)
LEMMA EnumeratedSize ==
  ASSUME NEW n \in Nat, NEW S, NEW e, Enumerates(e, n, S)
  PROVE  Cardinality(S) = n
  <1>1. e \in Bijection(1..n, S)
    BY DEF Enumerates, Bijection, Injection, Surjection, IsInjective
  <1>2. ExistsBijection(1..n, S)
    BY <1>1 DEF ExistsBijection
  <1> QED BY <1>2, FS_CountingElements
==============================================================================
