----------------------- MODULE RetentionPolicyProofs -----------------------
(***************************************************************************)
(* Retention for any rules, sizes, threads and number of backups.          *)
(*                                                                         *)
(* The first half shows that the three loops of apply compute what a rule  *)
(* asks for.  It needs what the recursive sums of the loop and of the fold *)
(* are for every input: both exist, and add up in whichever order.         *)
(* Induction is over sets of numbers (SetInduction).                       *)
(*                                                                         *)
(* The second half shows that old pictures do no harm: a backup that a     *)
(* rule takes from an earlier picture is in excess of that rule for ever   *)
(* (ExcessStays), since backups are only added and days only pass.         *)
(***************************************************************************)
EXTENDS RetentionPolicy, FiniteSetTheorems, SequenceTheorems, TLAPS

-----------------------------------------------------------------------------
(* Numbers                                                                 *)

\* A set of natural numbers has a least element.
LEMMA LeastExists ==
  ASSUME NEW S \in SUBSET Nat, S # {}
  PROVE  \E m \in S : \A n \in S : m <= n
<1>1. \E m \in S : \A n \in S : <<n, m>> \notin OpToRel(<, Nat)
  BY NatLessThanWellFounded, WFMin
<1>2. \A m, n \in S : <<n, m>> \notin OpToRel(<, Nat) => m <= n
  BY DEF OpToRel
<1>3. QED
  BY <1>1, <1>2

\* Induction: a set with zero and every successor has all natural numbers.
LEMMA SetInduction ==
  ASSUME NEW S, 0 \in S, \A n \in Nat : n \in S => n + 1 \in S
  PROVE  Nat \subseteq S
<1>1. SUFFICES ASSUME Nat \ S # {} PROVE FALSE
  OBVIOUS
<1>2. PICK m \in Nat \ S : \A n \in Nat \ S : m <= n
  BY <1>1, LeastExists
<1>3. m - 1 \in Nat /\ m - 1 \in S
  BY <1>2
<1>4. QED
  BY <1>2, <1>3

-----------------------------------------------------------------------------
(* The backups, newest first                                               *)

NewestFirst(values, backups) ==
  /\ values \in [1..Cardinality(backups) -> backups]
  /\ \A i, j \in DOMAIN values : i < j => values[i] > values[j]

\* Every finite set of numbers can be put in that order.
LEMMA OrderExists ==
  ASSUME NEW B \in SUBSET Nat, IsFiniteSet(B)
  PROVE  \E values : NewestFirst(values, B)
<1> DEFINE Ordered == {n \in Nat : \A S \in SUBSET Nat : IsFiniteSet(S) /\ Cardinality(S) = n
                                     => \E values : NewestFirst(values, S)}
<1>1. 0 \in Ordered
  <2>1. ASSUME NEW S \in SUBSET Nat, IsFiniteSet(S), Cardinality(S) = 0
        PROVE  NewestFirst([i \in 1..0 |-> 0], S)
    BY <2>1, FS_EmptySet DEF NewestFirst
  <2>2. QED
    BY <2>1
<1>2. ASSUME NEW n \in Nat, n \in Ordered
      PROVE  n + 1 \in Ordered
  <2> SUFFICES ASSUME NEW S \in SUBSET Nat, IsFiniteSet(S), Cardinality(S) = n + 1
               PROVE  \E values : NewestFirst(values, S)
    OBVIOUS
  <2>1. S # {}
    BY FS_EmptySet
  <2>2. PICK m \in S : \A b \in S : m <= b
    BY <2>1, LeastExists
  <2>3. IsFiniteSet(S \ {m}) /\ Cardinality(S \ {m}) = n
    <3>1. IsFiniteSet(S \ {m}) /\ Cardinality(S \ {m}) = Cardinality(S) - 1
      BY <2>2, FS_RemoveElement
    <3>2. QED
      BY <3>1
  <2>4. PICK values : NewestFirst(values, S \ {m})
    BY <1>2, <2>3
  <2> DEFINE more == [i \in 1..(n + 1) |-> IF i = n + 1 THEN m ELSE values[i]]
  <2>5. \A i \in 1..n : values[i] \in S /\ values[i] # m
    BY <2>3, <2>4 DEF NewestFirst
  <2>6. more \in [1..(n + 1) -> S]
    BY <2>5
  <2>7. ASSUME NEW i \in 1..(n + 1), NEW j \in 1..(n + 1), i < j
        PROVE  more[i] > more[j]
    <3>1. CASE j = n + 1
      <4>1. i \in 1..n
        BY <2>7, <3>1
      <4>2. values[i] \in S /\ values[i] # m /\ values[i] \in Nat /\ m \in Nat /\ m <= values[i]
        BY <4>1, <2>5, <2>2
      <4>3. QED
        BY <4>1, <4>2, <3>1
    <3>2. CASE j # n + 1
      <4>1. i \in 1..n /\ j \in 1..n
        BY <2>7, <3>2
      <4>2. values[i] > values[j]
        BY <4>1, <2>3, <2>4, <2>7 DEF NewestFirst
      <4>3. QED
        BY <4>1, <4>2
    <3>3. QED
      BY <3>1, <3>2
  <2>8. NewestFirst(more, S)
    BY <2>6, <2>7 DEF NewestFirst
  <2>9. QED
    BY <2>8
<1>3. Nat \subseteq Ordered
  BY <1>1, <1>2, SetInduction
<1>4. QED
  BY <1>3, FS_CardinalityType

\* The place of a backup in that order is the number of those that are not older.
LEMMA PlacesCount ==
  ASSUME NEW B \in SUBSET Nat, IsFiniteSet(B), NEW values, NewestFirst(values, B)
  PROVE  /\ Cardinality(B) \in Nat
         /\ \A b \in B : \E k \in 1..Cardinality(B) : values[k] = b
         /\ \A k \in 1..Cardinality(B) :
              /\ UpTo(values[k], B) = {values[i] : i \in 1..k}
              /\ Cardinality(UpTo(values[k], B)) = k
<1> DEFINE n == Cardinality(B)
<1>1. n \in Nat
  BY FS_CardinalityType
<1>2. \A i, j \in 1..n : /\ values[i] \in B /\ values[i] \in Nat
                         /\ i < j => values[i] > values[j]
                         /\ i # j => values[i] # values[j]
  <2> SUFFICES ASSUME NEW i \in 1..n, NEW j \in 1..n
               PROVE  /\ values[i] \in B /\ values[i] \in Nat
                      /\ i < j => values[i] > values[j]
                      /\ i # j => values[i] # values[j]
    OBVIOUS
  <2>1. values[i] \in B /\ values[j] \in B /\ values[i] \in Nat /\ values[j] \in Nat
    BY DEF NewestFirst
  <2>2. (i < j => values[i] > values[j]) /\ (j < i => values[j] > values[i])
    BY DEF NewestFirst
  <2>3. QED
    BY <2>1, <2>2, <1>1
<1>3. values \in Surjection(1..n, B)
  <2>1. values \in Injection(1..n, B)
    BY <1>2 DEF Injection, IsInjective, NewestFirst
  <2>2. IsFiniteSet(1..n) /\ Cardinality(1..n) = n
    BY <1>1, FS_Interval
  <2>3. QED
    BY <2>1, <2>2, FS_Injection
<1>4. \A b \in B : \E k \in 1..n : values[k] = b
  BY <1>3 DEF Surjection
<1>5. ASSUME NEW k \in 1..n
      PROVE  UpTo(values[k], B) = {values[i] : i \in 1..k} /\ Cardinality(UpTo(values[k], B)) = k
  <2> DEFINE U == {values[i] : i \in 1..k}
             first == [i \in 1..k |-> values[i]]
  <2>1. UpTo(values[k], B) = U
    <3>1. ASSUME NEW b \in B, b >= values[k]
          PROVE  b \in U
      <4>1. PICK i \in 1..n : values[i] = b
        BY <1>4
      <4>2. i <= k
        BY <4>1, <3>1, <1>1, <1>2
      <4>3. QED
        BY <4>1, <4>2, <1>1
    <3>2. ASSUME NEW i \in 1..k
          PROVE  values[i] \in B /\ values[i] >= values[k]
      <4>1. i \in 1..n /\ (i = k \/ i < k)
        BY <1>1
      <4>2. QED
        BY <4>1, <1>2
    <3>3. QED
      BY <3>1, <3>2 DEF UpTo
  <2>2. first \in Bijection(1..k, U)
    <3>1. first \in [1..k -> U]
      OBVIOUS
    <3>2. IsInjective(first)
      <4>1. \A i, j \in 1..k : first[i] = first[j] => i = j
        BY <1>1, <1>2
      <4>2. QED
        BY <4>1 DEF IsInjective
    <3>3. \A u \in U : \E i \in 1..k : first[i] = u
      OBVIOUS
    <3>4. QED
      BY <3>1, <3>2, <3>3 DEF Bijection, Injection, Surjection
  <2>3. k \in Nat
    OBVIOUS
  <2>4. Cardinality(U) = k
    BY <2>2, <2>3, FS_CountingElements DEF ExistsBijection
  <2>5. QED
    BY <2>1, <2>4
<1>6. QED
  BY <1>1, <1>4, <1>5

-----------------------------------------------------------------------------
(* Sizes of sets of backups                                                *)

\* The fold of a sum over the subsets of S.
Taken(s) == CHOOSE b \in s : TRUE
SumsUp(g, sizes, S) ==
  g = [s \in SUBSET S |-> IF s = {} THEN 0 ELSE g[s \ {Taken(s)}] + sizes[Taken(s)]]
Total(sizes, S) == (CHOOSE g : SumsUp(g, sizes, S))[S]

\* Size is that fold, with the sizes of the backups.
LEMMA SizeIsTotal == \A S : Size(S) = Total(sizeOf, S) /\ Size(S)' = Total(sizeOf', S)
BY DEF Size, FoldSet, MapThenFoldSet, Total, SumsUp, Taken

\* Taking a backup from a set that is not empty.
LEMMA TakenIsTaken ==
  ASSUME NEW s, IsFiniteSet(s), s # {}
  PROVE  /\ Taken(s) \in s
         /\ IsFiniteSet(s \ {Taken(s)})
         /\ Cardinality(s) \in Nat /\ Cardinality(s \ {Taken(s)}) = Cardinality(s) - 1
BY FS_RemoveElement, FS_CardinalityType DEF Taken

\* A sum over a set does not depend on the set of which it is a part.
LEMMA SumsAgree ==
  ASSUME NEW S, NEW T, IsFiniteSet(S), IsFiniteSet(T), NEW sizes,
         \A b \in S \union T : sizes[b] \in Nat,
         NEW g, SumsUp(g, sizes, S), NEW h, SumsUp(h, sizes, T)
  PROVE  \A s \in SUBSET (S \intersect T) : g[s] \in Nat /\ g[s] = h[s]
<1> DEFINE Both == SUBSET (S \intersect T)
           Agreed == {n \in Nat : \A s \in Both : Cardinality(s) = n => g[s] \in Nat /\ g[s] = h[s]}
<1>1. \A s \in Both :
        /\ s \in SUBSET S /\ s \in SUBSET T /\ IsFiniteSet(s) /\ Cardinality(s) \in Nat
        /\ g[s] = IF s = {} THEN 0 ELSE g[s \ {Taken(s)}] + sizes[Taken(s)]
        /\ h[s] = IF s = {} THEN 0 ELSE h[s \ {Taken(s)}] + sizes[Taken(s)]
  BY FS_Subset, FS_CardinalityType DEF SumsUp
<1>2. 0 \in Agreed
  BY <1>1, FS_EmptySet
<1>3. ASSUME NEW n \in Nat, n \in Agreed
      PROVE  n + 1 \in Agreed
  <2> SUFFICES ASSUME NEW s \in Both, Cardinality(s) = n + 1
               PROVE  g[s] \in Nat /\ g[s] = h[s]
    OBVIOUS
  <2>1. s # {}
    BY FS_EmptySet
  <2>2. /\ Taken(s) \in s /\ sizes[Taken(s)] \in Nat
        /\ s \ {Taken(s)} \in Both /\ Cardinality(s \ {Taken(s)}) = n
    <3>1. Taken(s) \in s /\ Cardinality(s \ {Taken(s)}) = Cardinality(s) - 1
      BY <1>1, <2>1, TakenIsTaken
    <3>2. Cardinality(s \ {Taken(s)}) = n
      BY <3>1
    <3>3. QED
      BY <3>1, <3>2
  <2>3. g[s \ {Taken(s)}] \in Nat /\ g[s \ {Taken(s)}] = h[s \ {Taken(s)}]
    BY <1>3, <2>2
  <2>4. QED
    BY <1>1, <2>1, <2>2, <2>3
<1>4. Nat \subseteq Agreed
  BY <1>2, <1>3, SetInduction
<1>5. QED
  BY <1>1, <1>4

\* The fold exists.
LEMMA SumsExist ==
  ASSUME NEW S, IsFiniteSet(S), NEW sizes, \A b \in S : sizes[b] \in Nat
  PROVE  \E g : SumsUp(g, sizes, S)
<1> DEFINE Sum(g, s) == IF s = {} THEN 0 ELSE g[s \ {Taken(s)}] + sizes[Taken(s)]
           UpToSize(n) == {s \in SUBSET S : Cardinality(s) <= n}
           Reached == {n \in Nat : \E g : DOMAIN g = SUBSET S /\ \A s \in UpToSize(n) : g[s] = Sum(g, s)}
<1>1. \A s \in SUBSET S : IsFiniteSet(s) /\ Cardinality(s) \in Nat /\ Cardinality(s) <= Cardinality(S)
  BY FS_Subset, FS_CardinalityType
<1>2. 0 \in Reached
  <2> DEFINE zero == [s \in SUBSET S |-> 0]
  <2>1. \A s \in UpToSize(0) : s = {}
    BY <1>1, FS_EmptySet
  <2>2. DOMAIN zero = SUBSET S /\ \A s \in UpToSize(0) : zero[s] = Sum(zero, s)
    BY <2>1
  <2>3. QED
    BY <2>2
<1>3. ASSUME NEW n \in Nat, n \in Reached
      PROVE  n + 1 \in Reached
  <2>1. PICK g : DOMAIN g = SUBSET S /\ \A s \in UpToSize(n) : g[s] = Sum(g, s)
    BY <1>3
  <2> DEFINE h == [s \in SUBSET S |-> IF Cardinality(s) = n + 1 THEN Sum(g, s) ELSE g[s]]
  <2>2. ASSUME NEW s \in UpToSize(n + 1)
        PROVE  h[s] = Sum(h, s)
    <3>1. s \in SUBSET S /\ IsFiniteSet(s) /\ Cardinality(s) \in Nat /\ Cardinality(s) <= n + 1
      BY <1>1
    <3>2. h[s] = Sum(g, s)
      BY <2>1, <3>1
    <3>3. CASE s = {}
      BY <3>2, <3>3
    <3>4. CASE s # {}
      <4>1. s \ {Taken(s)} \in SUBSET S /\ Cardinality(s \ {Taken(s)}) <= n
        BY <3>1, <3>4, TakenIsTaken
      <4>2. h[s \ {Taken(s)}] = g[s \ {Taken(s)}]
        BY <4>1, <1>1
      <4>3. QED
        BY <3>2, <3>4, <4>2
    <3>5. QED
      BY <3>3, <3>4
  <2>3. DOMAIN h = SUBSET S /\ \A s \in UpToSize(n + 1) : h[s] = Sum(h, s)
    BY <2>2
  <2> HIDE DEF h
  <2>4. \E f : DOMAIN f = SUBSET S /\ \A s \in UpToSize(n + 1) : f[s] = Sum(f, s)
    BY <2>3
  <2>5. QED
    BY <2>4
<1>4. Cardinality(S) \in Reached
  BY <1>2, <1>3, SetInduction, FS_CardinalityType
<1>5. PICK g : DOMAIN g = SUBSET S /\ \A s \in UpToSize(Cardinality(S)) : g[s] = Sum(g, s)
  BY <1>4
<1> DEFINE h == [s \in SUBSET S |-> g[s]]
<1>6. \A s \in SUBSET S : h[s] = Sum(h, s)
  BY <1>1, <1>5
<1>7. h = [s \in SUBSET S |-> Sum(h, s)]
  BY <1>6
<1>8. QED
  BY <1>7 DEF SumsUp

\* What a sum over a set is: sizes add up, whichever backup is taken first.
LEMMA TotalAddsUp ==
  ASSUME NEW S, IsFiniteSet(S), NEW sizes, \A b \in S : sizes[b] \in Nat
  PROVE  /\ Total(sizes, S) \in Nat
         /\ S = {} => Total(sizes, S) = 0
         /\ \A b \in S : Total(sizes, S) = Total(sizes, S \ {b}) + sizes[b]
<1> DEFINE f(T) == CHOOSE g : SumsUp(g, sizes, T)
<1>1. \A T \in SUBSET S : IsFiniteSet(T) /\ SumsUp(f(T), sizes, T)
  BY SumsExist, FS_Subset
<1>2. \A T \in SUBSET S : Total(sizes, T) = f(T)[T]
  BY DEF Total
<1> HIDE DEF f
<1>3. ASSUME NEW T \in SUBSET S, NEW s \in SUBSET T
      PROVE  f(T)[s] = Total(sizes, s) /\ f(T)[s] \in Nat
  <2>1. s \in SUBSET S /\ IsFiniteSet(s) /\ SumsUp(f(s), sizes, s) /\ s \in SUBSET (T \intersect s)
    BY <1>1
  <2>2. IsFiniteSet(T) /\ SumsUp(f(T), sizes, T) /\ \A b \in T \union s : sizes[b] \in Nat
    BY <1>1
  <2>3. f(T)[s] \in Nat /\ f(T)[s] = f(s)[s]
    BY <2>1, <2>2, SumsAgree
  <2>4. QED
    BY <1>2, <2>1, <2>3
<1>4. \A T \in SUBSET S : T # {} =>
        /\ T \ {Taken(T)} \in SUBSET S /\ Taken(T) \in T
        /\ Total(sizes, T) = Total(sizes, T \ {Taken(T)}) + sizes[Taken(T)]
  <2> SUFFICES ASSUME NEW T \in SUBSET S, T # {}
               PROVE  /\ T \ {Taken(T)} \in SUBSET S /\ Taken(T) \in T
                      /\ Total(sizes, T) = Total(sizes, T \ {Taken(T)}) + sizes[Taken(T)]
    OBVIOUS
  <2>1. Taken(T) \in T
    BY <1>1, TakenIsTaken
  <2>2. f(T)[T] = f(T)[T \ {Taken(T)}] + sizes[Taken(T)]
    BY <1>1 DEF SumsUp
  <2>3. QED
    BY <1>2, <1>3, <2>1, <2>2
<1>5. Total(sizes, {}) = 0
  <2>1. f({})[{}] = 0
    BY <1>1 DEF SumsUp
  <2>2. QED
    BY <1>2, <2>1
<1> DEFINE Added == {n \in Nat : \A T \in SUBSET S : Cardinality(T) = n =>
                       \A b \in T : Total(sizes, T) = Total(sizes, T \ {b}) + sizes[b]}
<1>6. 0 \in Added
  BY <1>1, FS_EmptySet
<1>7. ASSUME NEW n \in Nat, n \in Added
      PROVE  n + 1 \in Added
  <2> SUFFICES ASSUME NEW T \in SUBSET S, Cardinality(T) = n + 1, NEW b \in T
               PROVE  Total(sizes, T) = Total(sizes, T \ {b}) + sizes[b]
    OBVIOUS
  <2>1. IsFiniteSet(T)
    BY <1>1
  <2> DEFINE c == Taken(T)
  <2>2. c \in T /\ Total(sizes, T) = Total(sizes, T \ {c}) + sizes[c]
    BY <1>4
  <2> HIDE DEF c
  <2>3. CASE b = c
    BY <2>2, <2>3
  <2>4. CASE b # c
    <3>1. /\ IsFiniteSet(T \ {c}) /\ Cardinality(T \ {c}) = Cardinality(T) - 1
          /\ IsFiniteSet(T \ {b}) /\ Cardinality(T \ {b}) = Cardinality(T) - 1
      BY <2>1, <2>2, FS_RemoveElement
    <3>2. Cardinality(T \ {c}) = n /\ Cardinality(T \ {b}) = n
      BY <3>1
    <3>3. /\ Total(sizes, T \ {c}) = Total(sizes, (T \ {c}) \ {b}) + sizes[b]
          /\ Total(sizes, T \ {b}) = Total(sizes, (T \ {b}) \ {c}) + sizes[c]
      BY <1>7, <2>2, <2>4, <3>2
    <3>4. (T \ {c}) \ {b} = (T \ {b}) \ {c}
      OBVIOUS
    <3>5. Total(sizes, (T \ {c}) \ {b}) \in Nat /\ sizes[b] \in Nat /\ sizes[c] \in Nat
      BY <1>3, <2>2
    <3> DEFINE rest == Total(sizes, (T \ {c}) \ {b})
    <3>6. /\ Total(sizes, T) = (rest + sizes[b]) + sizes[c]
          /\ Total(sizes, T \ {b}) = rest + sizes[c]
      BY <2>2, <3>3, <3>4
    <3>7. rest \in Nat /\ (rest + sizes[b]) + sizes[c] = (rest + sizes[c]) + sizes[b]
      BY <3>5
    <3> HIDE DEF rest
    <3>8. QED
      BY <3>6, <3>7
  <2>5. QED
    BY <2>3, <2>4
<1>8. Nat \subseteq Added
  BY <1>6, <1>7, SetInduction
<1>9. QED
  BY <1>1, <1>3, <1>5, <1>8, FS_CardinalityType

\* A set with more backups is not smaller.
LEMMA TotalGrows ==
  ASSUME NEW T, IsFiniteSet(T), NEW sizes, \A b \in T : sizes[b] \in Nat,
         NEW S \in SUBSET T
  PROVE  Total(sizes, S) <= Total(sizes, T)
<1> DEFINE Grown == {n \in Nat : \A U \in SUBSET T : Cardinality(U) = n =>
                       \A V \in SUBSET U : Total(sizes, V) <= Total(sizes, U)}
<1>1. \A U \in SUBSET T : IsFiniteSet(U) /\ Cardinality(U) \in Nat /\ Total(sizes, U) \in Nat
  BY FS_Subset, FS_CardinalityType, TotalAddsUp
<1>2. 0 \in Grown
  BY <1>1, FS_EmptySet
<1>3. ASSUME NEW n \in Nat, n \in Grown
      PROVE  n + 1 \in Grown
  <2> SUFFICES ASSUME NEW U \in SUBSET T, Cardinality(U) = n + 1, NEW V \in SUBSET U, V # U
               PROVE  Total(sizes, V) <= Total(sizes, U)
    BY <1>1
  <2>1. PICK b \in U : b \notin V
    OBVIOUS
  <2>2. Cardinality(U \ {b}) = Cardinality(U) - 1
    BY <1>1, FS_RemoveElement
  <2>3. Cardinality(U \ {b}) = n /\ V \in SUBSET (U \ {b}) /\ U \ {b} \in SUBSET T
    BY <2>1, <2>2
  <2>4. Total(sizes, V) <= Total(sizes, U \ {b})
    BY <1>3, <2>3
  <2>5. Total(sizes, U) = Total(sizes, U \ {b}) + sizes[b] /\ sizes[b] \in Nat
    BY <1>1, TotalAddsUp
  <2>6. Total(sizes, V) \in Nat /\ Total(sizes, U) \in Nat /\ Total(sizes, U \ {b}) \in Nat
    BY <1>1, <2>3
  <2>7. QED
    BY <2>4, <2>5, <2>6
<1>4. Nat \subseteq Grown
  BY <1>2, <1>3, SetInduction
<1>5. QED
  BY <1>1, <1>4

\* Only the sizes of the backups in the set count.
LEMMA TotalDependsOnMembers ==
  ASSUME NEW T, IsFiniteSet(T), NEW sizes, NEW others,
         \A b \in T : sizes[b] \in Nat /\ others[b] = sizes[b]
  PROVE  Total(sizes, T) = Total(others, T)
<1>1. ASSUME NEW g
      PROVE  SumsUp(g, sizes, T) <=> SumsUp(g, others, T)
  <2>1. \A s \in SUBSET T : s # {} => Taken(s) \in T
    BY FS_Subset, TakenIsTaken
  <2>2. \A s \in SUBSET T :
          (IF s = {} THEN 0 ELSE g[s \ {Taken(s)}] + sizes[Taken(s)])
            = (IF s = {} THEN 0 ELSE g[s \ {Taken(s)}] + others[Taken(s)])
    BY <2>1
  <2>3. QED
    BY <2>2 DEF SumsUp
<1>2. (CHOOSE g : SumsUp(g, sizes, T)) = (CHOOSE g : SumsUp(g, others, T))
  BY <1>1
<1>3. QED
  BY <1>2 DEF Total

-----------------------------------------------------------------------------
(* The loops of apply                                                      *)

\* A sum of the first backups, as the loop of applySizeRetention computes it.
LEMMA PrefixSums ==
  ASSUME NEW n \in Nat, NEW values \in [1..n -> Ids], sizeOf \in [Ids -> Nat]
  PROVE  /\ Len(values) = n
         /\ sumOfSizes(values)[0] = 0
         /\ \A k \in 1..n : sumOfSizes(values)[k] = sumOfSizes(values)[k - 1] + sizeOf[values[k]]
<1> DEFINE Sum(g, k) == IF k = 0 THEN 0 ELSE g[k - 1] + sizeOf[values[k]]
           Reached == {m \in Nat : \E g : DOMAIN g = 0..n /\ \A k \in 0..n : k <= m => g[k] = Sum(g, k)}
<1>1. Len(values) = n
  <2>1. values \in Seq(Ids)
    BY SeqDef
  <2>2. QED
    BY <2>1
<1>2. 0 \in Reached
  <2> DEFINE zero == [k \in 0..n |-> 0]
  <2>1. DOMAIN zero = 0..n /\ \A k \in 0..n : k <= 0 => zero[k] = Sum(zero, k)
    OBVIOUS
  <2> HIDE DEF zero
  <2>2. QED
    BY <2>1
<1>3. ASSUME NEW m \in Nat, m \in Reached
      PROVE  m + 1 \in Reached
  <2>1. PICK g : DOMAIN g = 0..n /\ \A k \in 0..n : k <= m => g[k] = Sum(g, k)
    BY <1>3
  <2> DEFINE h == [k \in 0..n |-> IF k = m + 1 THEN Sum(g, k) ELSE g[k]]
  <2>2. ASSUME NEW k \in 0..n, k <= m + 1
        PROVE  h[k] = Sum(h, k)
    <3>1. CASE k = m + 1
      <4>1. k # 0 /\ k - 1 \in 0..n /\ k - 1 # m + 1
        BY <3>1
      <4>2. QED
        BY <3>1, <4>1
    <3>2. CASE k # m + 1
      <4>1. k <= m /\ (k # 0 => k - 1 \in 0..n /\ k - 1 # m + 1)
        BY <2>2, <3>2
      <4>2. h[k] = Sum(g, k)
        BY <2>1, <3>2, <4>1
      <4>3. QED
        BY <4>1, <4>2
    <3>3. QED
      BY <3>1, <3>2
  <2>3. DOMAIN h = 0..n /\ \A k \in 0..n : k <= m + 1 => h[k] = Sum(h, k)
    BY <2>2
  <2> HIDE DEF h
  <2>4. \E f : DOMAIN f = 0..n /\ \A k \in 0..n : k <= m + 1 => f[k] = Sum(f, k)
    BY <2>3
  <2>5. QED
    BY <2>4
<1>4. n \in Reached
  BY <1>2, <1>3, SetInduction
<1>5. PICK g : DOMAIN g = 0..n /\ \A k \in 0..n : k <= n => g[k] = Sum(g, k)
  BY <1>4
<1> DEFINE h == [k \in 0..n |-> g[k]]
<1>6. \A k \in 0..n : h[k] = Sum(h, k)
  <2>1. \A k \in 0..n : k <= n /\ (k # 0 => k - 1 \in 0..n)
    OBVIOUS
  <2>2. QED
    BY <1>5, <2>1
<1>7. h = [k \in 0..n |-> Sum(h, k)]
  BY <1>6
<1> HIDE DEF h
<1> DEFINE sum == sumOfSizes(values)
<1>8. sum = [k \in 0..n |-> Sum(sum, k)]
  BY <1>1, <1>7 DEF sumOfSizes
<1>9. /\ sum[0] = 0
      /\ \A k \in 1..n : k \in 0..n /\ k # 0 /\ sum[k] = sum[k - 1] + sizeOf[values[k]]
  <2>1. \A k \in 1..n : k \in 0..n /\ k # 0
    OBVIOUS
  <2> HIDE DEF sum
  <2>2. QED
    BY <1>8, <2>1
<1>10. QED
  BY <1>1, <1>9

\* Backups are finitely many numbers.
LEMMA BackupsAreNumbers ==
  ASSUME NEW B \in SUBSET Ids
  PROVE  B \in SUBSET Nat /\ IsFiniteSet(B)
<1>1. MaxBackups \in Nat
  BY BoundsAssumption
<1>2. Ids \in SUBSET Nat /\ IsFiniteSet(Ids)
  BY <1>1, FS_Interval DEF Ids
<1>3. QED
  BY <1>2, FS_Subset

\* What newestFirst computes.
LEMMA NewestFirstHolds ==
  ASSUME NEW B \in SUBSET Ids
  PROVE  NewestFirst(newestFirst(B), B)
<1>1. \E values : NewestFirst(values, B)
  BY BackupsAreNumbers, OrderExists
<1>2. QED
  BY <1>1 DEF NewestFirst, newestFirst

\* The sum of the first k backups is the size of the k-th and those that are newer.
LEMMA SumsAreSizes ==
  ASSUME NEW B \in SUBSET Ids, NEW values, NewestFirst(values, B), sizeOf \in [Ids -> Nat]
  PROVE  \A k \in 1..Cardinality(B) : sumOfSizes(values)[k] = Size(UpTo(values[k], B))
<1> DEFINE n == Cardinality(B)
           sum == sumOfSizes(values)
           Summed == {k \in Nat : k \in 1..n => sum[k] = Total(sizeOf, UpTo(values[k], B))}
<1>1. n \in Nat /\ values \in [1..n -> Ids] /\ B \in SUBSET Nat /\ IsFiniteSet(B)
  BY BackupsAreNumbers, FS_CardinalityType DEF NewestFirst
<1>2. /\ sum[0] = 0
      /\ \A k \in 1..n : sum[k] = sum[k - 1] + sizeOf[values[k]]
  BY <1>1, PrefixSums
<1>3. \A k \in 1..n : UpTo(values[k], B) = {values[i] : i \in 1..k}
  <2>1. B \in SUBSET Nat /\ IsFiniteSet(B) /\ NewestFirst(values, B)
    BY <1>1
  <2>2. QED
    BY <2>1, PlacesCount
<1>4. \A i, j \in 1..n : i < j => values[i] # values[j]
  <2> SUFFICES ASSUME NEW i \in 1..n, NEW j \in 1..n, i < j
               PROVE  values[i] # values[j]
    OBVIOUS
  <2>1. values[i] \in Nat /\ values[j] \in Nat
    BY <1>1, BackupsAreNumbers
  <2>2. values[i] > values[j]
    BY DEF NewestFirst
  <2>3. QED
    BY <2>1, <2>2
<1> HIDE DEF sum
<1>5. 0 \in Summed
  OBVIOUS
<1>6. ASSUME NEW k \in Nat, k \in Summed
      PROVE  k + 1 \in Summed
  <2> SUFFICES ASSUME k + 1 \in 1..n
               PROVE  sum[k + 1] = Total(sizeOf, UpTo(values[k + 1], B))
    OBVIOUS
  <2> DEFINE b == values[k + 1]
             U == UpTo(b, B)
  <2>1. U = {values[i] : i \in 1..(k + 1)}
    BY <1>3
  <2>2. b \in U /\ U \in SUBSET Ids /\ IsFiniteSet(U) /\ \A c \in U : sizeOf[c] \in Nat
    <3>1. U \in SUBSET Ids
      BY DEF UpTo
    <3>2. b \in U
      BY <2>1
    <3>3. QED
      BY <3>1, <3>2, BackupsAreNumbers
  <2>3. Total(sizeOf, U) = Total(sizeOf, U \ {b}) + sizeOf[b]
    BY <2>2, TotalAddsUp
  <2>4. sum[k + 1] = sum[k] + sizeOf[b]
    <3>1. (k + 1) - 1 = k
      OBVIOUS
    <3>2. QED
      BY <1>2, <3>1
  <2>5. U \ {b} = {values[i] : i \in 1..k}
    <3>1. \A i \in 1..k : i \in 1..n /\ i < k + 1 /\ i \in 1..(k + 1)
      BY <1>1
    <3>2. \A i \in 1..(k + 1) : i # k + 1 => i \in 1..k
      OBVIOUS
    <3>3. \A i \in 1..k : values[i] # b
      BY <3>1, <1>4
    <3>4. QED
      BY <2>1, <3>1, <3>2, <3>3
  <2>6. sum[k] = Total(sizeOf, U \ {b})
    <3>1. CASE k = 0
      <4>1. U \ {b} = {}
        BY <2>5, <3>1
      <4>2. Total(sizeOf, {}) = 0
        BY FS_EmptySet, TotalAddsUp
      <4>3. QED
        BY <1>2, <3>1, <4>1, <4>2
    <3>2. CASE k # 0
      <4>1. k \in 1..n
        BY <1>1, <3>2
      <4>2. QED
        BY <1>3, <1>6, <2>5, <4>1
    <3>3. QED
      BY <3>1, <3>2
  <2>7. QED
    BY <2>3, <2>4, <2>6
<1>7. Nat \subseteq Summed
  BY <1>5, <1>6, SetInduction
<1>8. QED
  BY <1>7, SizeIsTotal DEF sum

\* A rule sets limits that are natural numbers.
LEMMA LimitsAreNumbers ==
  ASSUME NEW r \in Rules
  PROVE  r.size \in Nat /\ r.count \in Nat /\ r.days \in Nat
BY RuleAssumption

\* The three loops remove what the rule asks for, whatever backups they are given.
LEMMA LoopsAreThePolicy ==
  ASSUME NEW B \in SUBSET Ids, NEW r \in Rules, sizeOf \in [Ids -> Nat]
  PROVE  backupsToRemove(B, r) = Excess(B, r)
<1> DEFINE values == newestFirst(B)
           n == Cardinality(B)
           sum == sumOfSizes(values)
<1>1. NewestFirst(values, B) /\ B \in SUBSET Nat /\ IsFiniteSet(B)
  BY NewestFirstHolds, BackupsAreNumbers
<1>2. n \in Nat /\ values \in [1..n -> B] /\ values \in [1..n -> Ids] /\ Len(values) = n
  <2>1. n \in Nat /\ values \in [1..n -> B] /\ values \in [1..n -> Ids]
    BY <1>1, FS_CardinalityType DEF NewestFirst
  <2>2. QED
    BY <2>1, PrefixSums
<1>3. /\ \A b \in B : \E k \in 1..n : values[k] = b
      /\ \A k \in 1..n : Cardinality(UpTo(values[k], B)) = k
  BY <1>1, PlacesCount
<1>4. \A k \in 1..n : sum[k] = Size(UpTo(values[k], B))
  BY <1>1, SumsAreSizes
<1>5. \A i, j \in 1..n : i <= j => sum[i] \in Nat /\ sum[j] \in Nat /\ sum[i] <= sum[j]
  <2> SUFFICES ASSUME NEW i \in 1..n, NEW j \in 1..n, i <= j
               PROVE  sum[i] \in Nat /\ sum[j] \in Nat /\ sum[i] <= sum[j]
    OBVIOUS
  <2>1. values[i] \in Nat /\ values[j] \in Nat /\ values[i] >= values[j]
    <3>1. values[i] \in Nat /\ values[j] \in Nat
      BY <1>1, <1>2
    <3>2. i < j => values[i] > values[j]
      BY <1>1 DEF NewestFirst
    <3>3. CASE i = j
      BY <3>1, <3>3
    <3>4. CASE i # j
      <4>1. i < j
        BY <3>4, <1>2
      <4>2. values[i] > values[j]
        BY <3>2, <4>1
      <4>3. QED
        BY <3>1, <4>2
    <3>5. QED
      BY <3>3, <3>4
  <2>2. UpTo(values[i], B) \in SUBSET UpTo(values[j], B) /\ UpTo(values[j], B) \in SUBSET Ids
    <3>1. \A a, b \in Nat : a >= b => \A c \in B : c >= a => c >= b
      BY <1>1
    <3> HIDE DEF values
    <3>2. QED
      BY <2>1, <3>1 DEF UpTo
  <2> DEFINE S == UpTo(values[i], B)
             T == UpTo(values[j], B)
  <2>3. IsFiniteSet(S) /\ IsFiniteSet(T) /\ \A b \in S \union T : sizeOf[b] \in Nat
    BY <2>2, BackupsAreNumbers
  <2>4. sum[i] = Total(sizeOf, S) /\ sum[j] = Total(sizeOf, T)
    BY <1>4, SizeIsTotal
  <2> HIDE DEF S, T, sum
  <2>5. QED
    BY <2>2, <2>3, <2>4, TotalAddsUp, TotalGrows DEF S, T
<1>6. r.size \in Nat /\ r.count \in Nat /\ r.days \in Nat
  BY LimitsAreNumbers
<1> HIDE DEF values, sum, n
<1>7. applyCountRetention(values, r.count)
        = {b \in B : r.count > 0 /\ Cardinality(UpTo(b, B)) > r.count}
  <2>1. ASSUME NEW k \in 1..n
        PROVE  values[k] \in B /\ (k \in (r.count + 1)..n <=> Cardinality(UpTo(values[k], B)) > r.count)
    BY <1>2, <1>3, <1>6
  <2>2. r.count > 0 <=> r.count # 0
    BY <1>6
  <2>3. \A k \in (r.count + 1)..n : k \in 1..n
    BY <1>2, <1>6
  <2>4. QED
    BY <1>2, <1>3, <2>1, <2>2, <2>3 DEF applyCountRetention
<1>8. applySizeRetention(values, r.size)
        = {b \in B : r.size > 0 /\ Size(UpTo(b, B)) > r.size}
  <2> DEFINE exceeds == {k \in 1..n : sum[k] > r.size}
  <2>1. r.size > 0 <=> r.size # 0
    BY <1>6
  <2>2. applySizeRetention(values, r.size)
          = IF r.size = 0 \/ exceeds = {} THEN {} ELSE {values[k] : k \in Min(exceeds)..n}
    BY <1>2 DEF applySizeRetention, sum
  <2>3. ASSUME exceeds # {}
        PROVE  Min(exceeds)..n = exceeds
    <3>1. exceeds \in SUBSET Nat
      BY <1>2
    <3>2. \E m \in exceeds : \A k \in exceeds : m <= k
      BY <2>3, <3>1, LeastExists
    <3>3. Min(exceeds) \in exceeds /\ \A k \in exceeds : Min(exceeds) <= k
      BY <3>2 DEF Min
    <3> DEFINE m == Min(exceeds)
    <3>4. m \in 1..n /\ sum[m] > r.size
      BY <3>3
    <3>5. ASSUME NEW k \in m..n
          PROVE  k \in 1..n /\ sum[k] > r.size
      <4>1. k \in 1..n /\ m <= k
        BY <1>2, <3>4
      <4>2. sum[m] \in Nat /\ sum[k] \in Nat /\ sum[m] <= sum[k]
        BY <1>5, <3>4, <4>1
      <4>3. QED
        BY <1>6, <3>4, <4>1, <4>2
    <3>6. \A k \in exceeds : k \in m..n
      BY <1>2, <3>3
    <3>7. QED
      BY <3>5, <3>6
  <2>4. {b \in B : r.size > 0 /\ Size(UpTo(b, B)) > r.size}
          = IF r.size = 0 THEN {} ELSE {values[k] : k \in exceeds}
    <3>1. \A k \in 1..n : values[k] \in B
      BY <1>2
    <3>2. QED
      BY <1>3, <1>4, <2>1, <3>1
  <2>5. QED
    BY <2>2, <2>3, <2>4
<1>9. applyDayRetention(values, r.days) = {b \in B : r.days > 0 /\ now > dayOf[b] + r.days}
  <2>1. ToSet(values) = B
    BY <1>2, <1>3 DEF ToSet
  <2>2. r.days > 0 <=> r.days # 0
    BY <1>6
  <2>3. QED
    BY <2>1, <2>2 DEF applyDayRetention
<1>10. QED
  BY <1>7, <1>8, <1>9 DEF backupsToRemove, Excess, values

-----------------------------------------------------------------------------
(* The invariant                                                           *)

\* The rules in force are those saved last.
PolicyIsSaved ==
  /\ changes \in Nat
  /\ changes = 0 => policy = {}
  /\ rule \subseteq policy

\* What apply reads of the table is a part of the backups there are.
PicturesAreOld == \A t \in Threads : thread[t].backups \subseteq 1..created

\* A backup that is gone had a delete task.
DeletedHadTasks == 1..created \ stored \subseteq history

\* Backups chosen for deletion, now or earlier, by apply or by hand.
Chosen == queued \union history \union UNION {thread[t].toRemove : t \in Threads}

\* Under the only rule ever saved, what was in excess once is so for ever.
ChosenAreInExcess ==
  changes <= 1 => \A b \in Chosen \ byHand :
                    b \in 1..created /\ \E r \in policy : b \in Excess(1..created, r)

IInv == TypeOK /\ PolicyIsSaved /\ PicturesAreOld /\ DeletedHadTasks /\ ChosenAreInExcess

-----------------------------------------------------------------------------
(* Types                                                                   *)

\* What TypeOK says of the numbers.
LEMMA NumbersAreNatural ==
  ASSUME TypeOK
  PROVE  /\ now \in Nat /\ created \in Nat /\ MaxBackups \in Nat /\ MaxDays \in Nat
         /\ dayOf \in [Ids -> Nat] /\ sizeOf \in [Ids -> Nat]
         /\ 1..created \in SUBSET Ids /\ stored \in SUBSET Ids
<1>1. MaxBackups \in Nat /\ MaxDays \in Nat
  BY BoundsAssumption
<1>2. now \in Nat /\ created \in Nat /\ dayOf \in [Ids -> Nat]
  <2>1. now \in 0..MaxDays /\ created \in 0..MaxBackups /\ dayOf \in [Ids -> 0..MaxDays]
    BY DEF TypeOK
  <2>2. QED
    BY <1>1, <2>1
<1>3. sizeOf \in [Ids -> Nat]
  <2>1. sizeOf \in [Ids -> Sizes \union {0}]
    BY DEF TypeOK
  <2>2. Sizes \union {0} \subseteq Nat
    BY SizeAssumption
  <2>3. QED
    BY <2>1, <2>2
<1>4. 1..created \in SUBSET Ids
  BY <1>1, <1>2 DEF TypeOK, Ids
<1>5. QED
  BY <1>1, <1>2, <1>3, <1>4 DEF TypeOK

\* A thread as TypeOK has it.
ThreadOK(s) ==
  /\ s \in [pc : Pcs, backups : SUBSET Ids, toRemove : SUBSET Ids]
  /\ s.pc = "idle" => s = Idle

ThreadsOK == thread \in [Threads -> {s \in [pc : Pcs, backups : SUBSET Ids, toRemove : SUBSET Ids] : ThreadOK(s)}]

TablesOK ==
  /\ now \in 0..MaxDays /\ created \in 0..MaxBackups
  /\ dayOf \in [Ids -> 0..MaxDays] /\ sizeOf \in [Ids -> Sizes \union {0}]
  /\ stored \subseteq 1..created /\ queued \subseteq Ids /\ history \subseteq Ids
  /\ rule \subseteq Rules /\ policy \subseteq Rules
  /\ Cardinality(rule) <= 1

\* TypeOK, with the threads apart.
LEMMA TypeOKParts ==
  /\ TypeOK  <=> TablesOK  /\ ThreadsOK
  /\ TypeOK' <=> TablesOK' /\ ThreadsOK'
<1>1. TypeOK <=> TablesOK /\ ThreadsOK
  BY DEF TypeOK, TablesOK, ThreadsOK, ThreadOK, At
<1>2. TypeOK' <=> TablesOK' /\ ThreadsOK'
  BY DEF TypeOK, TablesOK, ThreadsOK, ThreadOK, At
<1>3. QED
  BY <1>1, <1>2

\* A step of a thread leaves the others alone.
LEMMA ThreadMoves ==
  ASSUME ThreadsOK, NEW t \in Threads, NEW s, ThreadOK(s), thread' = [thread EXCEPT ![t] = s]
  PROVE  /\ ThreadsOK'
         /\ thread'[t] = s
         /\ \A u \in Threads : u # t => thread'[u] = thread[u]
BY DEF ThreadsOK, ThreadOK

\* What the threads become.
LEMMA ThreadShapes ==
  ASSUME ThreadsOK, NEW t \in Threads
  PROVE  /\ ThreadOK(thread[t]) /\ ThreadOK(Idle)
         /\ thread[t].backups \in SUBSET Ids /\ thread[t].toRemove \in SUBSET Ids
         /\ At(t, "idle") => thread[t] = Idle
         /\ \A there \in Pcs \ {"idle"} : ThreadOK([thread[t] EXCEPT !.pc = there])
BY DEF ThreadsOK, ThreadOK, At, Pcs, Idle

\* A thread that turns to apply remembers what it did before.
LEMMA TurningToApply ==
  ASSUME ThreadsOK, NEW t \in Threads, Goto(t, "apply")
  PROVE  /\ ThreadsOK'
         /\ \A u \in Threads : /\ thread'[u].backups  = thread[u].backups
                               /\ thread'[u].toRemove = thread[u].toRemove
<1> DEFINE s == [thread[t] EXCEPT !.pc = "apply"]
<1>1. ThreadOK(thread[t]) /\ ThreadOK(s)
  BY ThreadShapes DEF Pcs
<1>2. thread' = [thread EXCEPT ![t] = s]
  BY DEF Goto
<1>3. s.backups = thread[t].backups /\ s.toRemove = thread[t].toRemove
  BY <1>1 DEF ThreadOK
<1> HIDE DEF s
<1>4. QED
  BY <1>1, <1>2, <1>3, ThreadMoves

\* What a thread in apply has read comes from the tables, what it wants to remove
\* from what it has read, and what it queues from what it wants to remove.
LEMMA ApplyingReads ==
  ASSUME TypeOK, NEW t \in Threads, ApplyStep(t)
  PROVE  /\ ThreadsOK'
         /\ \A u \in Threads :
              /\ thread'[u].backups \subseteq thread[u].backups \union stored
              /\ \/ thread'[u].toRemove \subseteq thread[u].toRemove
                 \/ \E r \in rule : thread'[u].toRemove = Excess(thread[u].backups, r)
         /\ queued \subseteq queued' /\ queued' \subseteq queued \union thread[t].toRemove
         /\ rule' \in {rule, {}}
         /\ UNCHANGED <<now, files, stored, history, policy, counters>>
<1> DEFINE this == thread[t]
           Reads(s) == s.backups \subseteq this.backups \union stored
           Wants(s) == \/ s.toRemove \subseteq this.toRemove
                       \/ \E r \in rule : s.toRemove = Excess(this.backups, r)
           Becomes(s) == thread' = [thread EXCEPT ![t] = s] /\ ThreadOK(s) /\ Reads(s) /\ Wants(s)
<1>1. ThreadsOK /\ ThreadOK(this) /\ ThreadOK(Idle)
  BY TypeOKParts, ThreadShapes
<1>2. stored \in SUBSET Ids /\ sizeOf \in [Ids -> Nat]
  BY NumbersAreNatural
<1>3. /\ this \in [pc : Pcs, backups : SUBSET Ids, toRemove : SUBSET Ids]
      /\ this.backups \in SUBSET Ids /\ this.toRemove \in SUBSET Ids
  BY <1>1 DEF ThreadOK
<1>4. Reads(Idle) /\ Wants(Idle)
  BY DEF Idle
<1>5. CASE getBackups(t)
  <2> DEFINE s == [this EXCEPT !.pc = "getRetentions", !.backups = stored]
  <2>1. s.pc = "getRetentions" /\ s.backups = stored /\ s.toRemove = this.toRemove /\ ThreadOK(s)
    BY <1>2, <1>3 DEF ThreadOK, Pcs
  <2>2. thread' = [thread EXCEPT ![t] = s]
    BY <1>5 DEF getBackups
  <2> HIDE DEF s
  <2>3. Becomes(s)
    BY <2>1, <2>2
  <2>4. QED
    BY <1>1, <1>5, <2>3, ThreadMoves DEF getBackups, files, counters
<1>6. CASE getRetentions(t)
  <2>1. \E s : Becomes(s)
    <3>1. CASE rule = {} /\ Return(t)
      BY <1>1, <1>4, <3>1 DEF Return
    <3>2. ASSUME NEW r \in rule, isEmpty(r) \/ this.backups = {},
                 thread' = [thread EXCEPT ![t].pc = "deleteRule", ![t].backups = {}]
          PROVE  \E s : Becomes(s)
      <4> DEFINE s == [this EXCEPT !.pc = "deleteRule", !.backups = {}]
      <4>1. s.pc = "deleteRule" /\ s.backups = {} /\ s.toRemove = this.toRemove /\ ThreadOK(s)
        BY <1>3 DEF ThreadOK, Pcs
      <4>2. thread' = [thread EXCEPT ![t] = s]
        BY <3>2
      <4> HIDE DEF s
      <4>3. QED
        BY <4>1, <4>2
    <3>3. ASSUME NEW r \in rule,
                 thread' = [thread EXCEPT ![t].pc = "deleteBackup", ![t].backups = {},
                                          ![t].toRemove = backupsToRemove(this.backups, r)]
          PROVE  \E s : Becomes(s)
      <4> DEFINE removed == Excess(this.backups, r)
                 s == [this EXCEPT !.pc = "deleteBackup", !.backups = {}, !.toRemove = removed]
      <4>1. r \in Rules
        BY DEF TypeOK
      <4>2. backupsToRemove(this.backups, r) = removed
        BY <1>2, <1>3, <4>1, LoopsAreThePolicy
      <4>3. removed \in SUBSET Ids
        BY <1>3 DEF Excess
      <4>4. thread' = [thread EXCEPT ![t] = s]
        BY <3>3, <4>2
      <4> HIDE DEF removed
      <4>5. s.pc = "deleteBackup" /\ s.backups = {} /\ s.toRemove = removed /\ ThreadOK(s)
        BY <1>3, <4>3 DEF ThreadOK, Pcs
      <4> HIDE DEF s
      <4>6. QED
        BY <4>4, <4>5 DEF removed
    <3>4. QED
      BY <1>6, <3>1, <3>2, <3>3 DEF getRetentions
  <2>2. QED
    BY <1>1, <1>6, <2>1, ThreadMoves DEF getRetentions, files, counters
<1>7. CASE deleteRule(t)
  <2>1. Becomes(Idle)
    BY <1>1, <1>4, <1>7 DEF deleteRule, Return
  <2>2. QED
    BY <1>1, <1>7, <2>1, ThreadMoves DEF deleteRule, files, counters
<1>8. CASE deleteBackup(t)
  <2> DEFINE removed == {b \in this.toRemove : ~HasTask(b)}
             s == [this EXCEPT !.pc = "saveTasks", !.toRemove = removed]
  <2>1. removed \subseteq this.toRemove
    OBVIOUS
  <2>2. thread' = [thread EXCEPT ![t] = s]
    BY <1>8 DEF deleteBackup
  <2> HIDE DEF removed
  <2>3. s.pc = "saveTasks" /\ s.backups = this.backups /\ s.toRemove = removed /\ ThreadOK(s)
    BY <1>3, <2>1 DEF ThreadOK, Pcs
  <2> HIDE DEF s
  <2>4. Becomes(s)
    BY <2>1, <2>2, <2>3
  <2>5. QED
    BY <1>1, <1>8, <2>4, ThreadMoves DEF deleteBackup, files, counters
<1>9. CASE saveTasks(t)
  <2>1. Becomes(Idle)
    BY <1>1, <1>4, <1>9 DEF saveTasks, Return
  <2>2. QED
    BY <1>1, <1>9, <2>1, ThreadMoves DEF saveTasks, files, counters
<1>10. QED
  BY <1>5, <1>6, <1>7, <1>8, <1>9 DEF ApplyStep

-----------------------------------------------------------------------------
(* TypeOK holds                                                            *)

\* ... at the start, ...
LEMMA InitTypes == Init => TypeOK
<1> SUFFICES ASSUME Init
             PROVE  TypeOK
  OBVIOUS
<1>1. MaxBackups \in Nat /\ MaxDays \in Nat
  BY BoundsAssumption
<1>2. ThreadsOK
  <2>1. ThreadOK(Idle)
    BY DEF ThreadOK, Idle, Pcs
  <2>2. QED
    BY <2>1 DEF ThreadsOK, ThreadOK, Init
<1>3. now \in 0..MaxDays /\ created \in 0..MaxBackups
  BY <1>1 DEF Init
<1>4. dayOf \in [Ids -> 0..MaxDays] /\ sizeOf \in [Ids -> Sizes \union {0}]
  BY <1>1 DEF Init
<1>5. Cardinality(rule) <= 1
  BY FS_EmptySet DEF Init
<1>6. QED
  BY <1>2, <1>3, <1>4, <1>5, TypeOKParts DEF Init, TablesOK

\* ... and in every step.
LEMMA NextTypes == TypeOK /\ [Next]_vars => TypeOK'
<1> SUFFICES ASSUME TypeOK, [Next]_vars
             PROVE  TypeOK'
  OBVIOUS
<1> USE TypeOKParts DEF TablesOK
<1>1. ThreadsOK
  OBVIOUS
<1>2. now \in Nat /\ created \in Nat /\ MaxBackups \in Nat /\ MaxDays \in Nat
  BY NumbersAreNatural
<1>4. CASE cronApply
  <2>1. ThreadsOK'
    BY <1>1, <1>4, SchedulerAssumption, TurningToApply DEF cronApply
  <2>2. QED
    BY <1>4, <2>1 DEF cronApply, files
<1>5. ASSUME NEW t \in Threads, ApplyStep(t)
      PROVE  TypeOK'
  <2>1. /\ ThreadsOK'
        /\ queued' \subseteq queued \union thread[t].toRemove
        /\ rule' \in {rule, {}}
        /\ UNCHANGED <<now, files, stored, history, policy>>
    BY <1>5, ApplyingReads
  <2>2. thread[t].toRemove \subseteq Ids
    BY <1>1, ThreadShapes
  <2>3. Cardinality(rule') <= 1 /\ rule' \subseteq Rules
    <3>1. Cardinality({}) = 0
      BY FS_EmptySet
    <3>2. QED
      BY <2>1, <3>1
  <2>4. QED
    BY <2>1, <2>2, <2>3 DEF files
<1>6. ASSUME NEW t \in Threads, NEW r \in Rules, putRetention(t, r)
      PROVE  TypeOK'
  <2>1. ThreadsOK'
    BY <1>1, <1>6, TurningToApply DEF putRetention
  <2>2. Cardinality(rule') <= 1
    <3>1. Cardinality({r}) = 1
      BY FS_Singleton
    <3>2. QED
      BY <1>6, <3>1 DEF putRetention
  <2>3. QED
    BY <1>6, <2>1, <2>2 DEF putRetention, files
<1>7. ASSUME NEW t \in Threads, NEW size \in Sizes, saveBackup(t, size)
      PROVE  TypeOK'
  <2>1. ThreadsOK'
    BY <1>1, <1>7, TurningToApply DEF saveBackup
  <2>2. created' = created + 1 /\ created' \in 0..MaxBackups /\ created' \in 1..created'
    BY <1>2, <1>7 DEF saveBackup
  <2>3. stored' \subseteq 1..created'
    <3>1. 1..created \subseteq 1..created'
      BY <1>2, <2>2
    <3>2. QED
      BY <1>7, <2>2, <3>1 DEF saveBackup
  <2>4. dayOf' \in [Ids -> 0..MaxDays] /\ sizeOf' \in [Ids -> Sizes \union {0}]
    BY <1>7 DEF saveBackup
  <2>5. QED
    BY <1>7, <2>1, <2>2, <2>3, <2>4 DEF saveBackup
<1>8. ASSUME NEW b \in Ids, deleteByHand(b)
      PROVE  TypeOK'
  BY <1>8 DEF deleteByHand, files, ThreadsOK
<1>9. ASSUME NEW b \in Ids, executeDelete(b)
      PROVE  TypeOK'
  BY <1>9 DEF executeDelete, files, ThreadsOK
<1>10. CASE nextDay
  <2>1. now' \in 0..MaxDays
    BY <1>2, <1>10 DEF nextDay
  <2>2. QED
    BY <1>10, <2>1 DEF nextDay, files, ThreadsOK
<1>11. CASE UNCHANGED vars
  BY <1>11 DEF vars, files, ThreadsOK
<1>12. QED
  BY <1>4, <1>5, <1>6, <1>7, <1>8, <1>9, <1>10, <1>11 DEF Next

-----------------------------------------------------------------------------
(* What was in excess stays so                                             *)

\* Days pass, and backups are added.
Grows ==
  /\ now' \in Nat /\ now <= now' /\ created' \in Nat /\ created <= created'
  /\ dayOf' \in [Ids -> Nat] /\ sizeOf' \in [Ids -> Nat] /\ 1..created' \in SUBSET Ids
  /\ \A b \in 1..created : dayOf'[b] = dayOf[b] /\ sizeOf'[b] = sizeOf[b]

\* What a rule removes from an old picture, it removes ever after.
LEMMA ExcessStays ==
  ASSUME TypeOK, Grows, NEW B \in SUBSET (1..created), NEW r \in Rules,
         NEW b \in Excess(B, r)
  PROVE  b \in 1..created' /\ b \in Excess(1..created, r)'
<1> PICK C : C = 1..created'
  OBVIOUS
<1> DEFINE S == UpTo(b, B)
           T == UpTo(b, C)
<1>1. /\ now \in Nat /\ created \in Nat
      /\ dayOf \in [Ids -> Nat] /\ sizeOf \in [Ids -> Nat]
      /\ 1..created \in SUBSET Ids
  BY NumbersAreNatural
<1>2. B \in SUBSET Ids /\ B \in SUBSET C /\ C \in SUBSET Ids /\ b \in B
  <2>1. 1..created \in SUBSET (1..created')
    BY <1>1 DEF Grows
  <2>2. QED
    BY <1>1, <2>1 DEF Grows, Excess
<1>3. r.size \in Nat /\ r.count \in Nat /\ r.days \in Nat
  BY LimitsAreNumbers
<1>4. S \in SUBSET T /\ S \in SUBSET B /\ T \in SUBSET Ids /\ IsFiniteSet(S) /\ IsFiniteSet(T)
  <2>1. S \in SUBSET T /\ S \in SUBSET B /\ T \in SUBSET Ids
    BY <1>2 DEF UpTo
  <2>2. QED
    BY <1>2, <2>1, BackupsAreNumbers
<1> HIDE DEF S, T
<1>5. Cardinality(S) \in Nat /\ Cardinality(T) \in Nat /\ Cardinality(S) <= Cardinality(T)
  BY <1>4, FS_Subset, FS_CardinalityType
<1>6. /\ Total(sizeOf, S) \in Nat /\ Total(sizeOf', T) \in Nat
      /\ Total(sizeOf, S) <= Total(sizeOf', T)
  <2>1. /\ \A c \in S : sizeOf[c] \in Nat /\ sizeOf'[c] \in Nat /\ sizeOf'[c] = sizeOf[c]
        /\ \A c \in T : sizeOf'[c] \in Nat
    BY <1>1, <1>2, <1>4 DEF Grows
  <2>2. Total(sizeOf, S) = Total(sizeOf', S)
    BY <1>4, <2>1, TotalDependsOnMembers
  <2>3. Total(sizeOf, S) \in Nat /\ Total(sizeOf', T) \in Nat
    BY <1>4, <2>1, TotalAddsUp
  <2>4. Total(sizeOf', S) <= Total(sizeOf', T)
    BY <1>4, <2>1, TotalGrows
  <2>5. QED
    BY <2>2, <2>3, <2>4
<1>7. \/ r.count > 0 /\ Cardinality(S) > r.count
      \/ r.size > 0 /\ Total(sizeOf, S) > r.size
      \/ r.days > 0 /\ now > dayOf[b] + r.days
  BY SizeIsTotal DEF Excess, S
<1>8. dayOf'[b] = dayOf[b] /\ dayOf[b] \in Nat
  BY <1>1, <1>2 DEF Grows
<1>9. \/ r.count > 0 /\ Cardinality(T) > r.count
      \/ r.size > 0 /\ Total(sizeOf', T) > r.size
      \/ r.days > 0 /\ now' > dayOf'[b] + r.days
  <2>1. Cardinality(S) > r.count => Cardinality(T) > r.count
    BY <1>3, <1>5
  <2>2. Total(sizeOf, S) > r.size => Total(sizeOf', T) > r.size
    BY <1>3, <1>6
  <2>3. now > dayOf[b] + r.days => now' > dayOf'[b] + r.days
    BY <1>1, <1>3, <1>8 DEF Grows
  <2>4. QED
    BY <1>7, <2>1, <2>2, <2>3
<1>10. Size(T)' = Total(sizeOf', T)
  BY SizeIsTotal DEF T
<1>11. QED
  BY <1>2, <1>9, <1>10 DEF Excess, T

-----------------------------------------------------------------------------
(* Each step keeps the rest of the invariant                               *)

\* A step that saves no rule chooses what is in excess now, or is picked by hand.
LEMMA ChosenStayInExcess ==
  ASSUME IInv, Grows, UNCHANGED <<policy, changes>>, byHand \subseteq byHand',
         \A b \in Chosen' \ byHand' :
           \/ b \in Chosen
           \/ \E u \in Threads, r \in rule : b \in Excess(thread[u].backups, r)
  PROVE  ChosenAreInExcess'
<1> SUFFICES ASSUME changes <= 1, NEW b \in Chosen' \ byHand'
             PROVE  b \in 1..created' /\ \E r \in policy : b \in Excess(1..created, r)'
  BY DEF ChosenAreInExcess
<1>1. TypeOK /\ policy \subseteq Rules /\ rule \subseteq policy
  BY DEF IInv, TypeOK, PolicyIsSaved
<1>2. CASE b \in Chosen
  <2>1. PICK r \in policy : b \in Excess(1..created, r)
    BY <1>2 DEF IInv, ChosenAreInExcess
  <2>2. PICK B : B = 1..created
    OBVIOUS
  <2>3. QED
    BY <1>1, <2>1, <2>2, ExcessStays
<1>3. CASE b \notin Chosen
  <2>1. PICK u \in Threads, r \in rule : b \in Excess(thread[u].backups, r)
    BY <1>3
  <2>2. PICK B : B = thread[u].backups
    OBVIOUS
  <2>3. B \subseteq 1..created
    BY <2>2 DEF IInv, PicturesAreOld
  <2>4. QED
    BY <1>1, <2>1, <2>2, <2>3, ExcessStays
<1>4. QED
  BY <1>2, <1>3

\* A step of which the tables of the backups know nothing.
LEMMA FilesStay ==
  ASSUME TypeOK, UNCHANGED <<now, files>>
  PROVE  Grows
BY NumbersAreNatural DEF Grows, files

\* The other parts of the invariant hold at the start, ...
LEMMA InitRest == Init => PolicyIsSaved /\ PicturesAreOld /\ DeletedHadTasks /\ ChosenAreInExcess
<1> SUFFICES ASSUME Init
             PROVE  PolicyIsSaved /\ PicturesAreOld /\ DeletedHadTasks /\ ChosenAreInExcess
  OBVIOUS
<1>1. PolicyIsSaved /\ PicturesAreOld /\ DeletedHadTasks
  BY DEF Init, PolicyIsSaved, PicturesAreOld, DeletedHadTasks, Idle
<1>2. Chosen = {}
  BY DEF Init, Chosen, Idle
<1>3. QED
  BY <1>1, <1>2 DEF ChosenAreInExcess

\* ... and every step keeps them.
LEMMA NextRest ==
  ASSUME IInv, [Next]_vars
  PROVE  /\ PolicyIsSaved' /\ PicturesAreOld' /\ DeletedHadTasks'
         /\ ChosenAreInExcess'
<1>1. TypeOK /\ ThreadsOK /\ PolicyIsSaved /\ PicturesAreOld /\ DeletedHadTasks
  BY TypeOKParts DEF IInv
<1>2. /\ now \in Nat /\ created \in Nat /\ MaxBackups \in Nat
      /\ dayOf \in [Ids -> Nat] /\ sizeOf \in [Ids -> Nat] /\ 1..created \in SUBSET Ids
  BY <1>1, NumbersAreNatural
<1>3. CASE cronApply
  <2>1. /\ UNCHANGED <<now, files, stored, rule, queued, history, policy, counters>>
        /\ \A u \in Threads : /\ thread'[u].backups  = thread[u].backups
                              /\ thread'[u].toRemove = thread[u].toRemove
    BY <1>1, <1>3, SchedulerAssumption, TurningToApply DEF cronApply
  <2>2. PolicyIsSaved' /\ PicturesAreOld' /\ DeletedHadTasks' /\ Chosen' = Chosen
    BY <1>1, <2>1 DEF PolicyIsSaved, PicturesAreOld, DeletedHadTasks, Chosen, files, counters
  <2>3. QED
    BY <1>1, <2>1, <2>2, FilesStay, ChosenStayInExcess DEF counters
<1>4. ASSUME NEW t \in Threads, ApplyStep(t)
      PROVE  PolicyIsSaved' /\ PicturesAreOld' /\ DeletedHadTasks' /\ ChosenAreInExcess'
  <2>1. /\ \A u \in Threads :
              /\ thread'[u].backups \subseteq thread[u].backups \union stored
              /\ \/ thread'[u].toRemove \subseteq thread[u].toRemove
                 \/ \E r \in rule : thread'[u].toRemove = Excess(thread[u].backups, r)
        /\ queued' \subseteq queued \union thread[t].toRemove
        /\ rule' \in {rule, {}}
        /\ UNCHANGED <<now, files, stored, history, policy, counters>>
    BY <1>1, <1>4, ApplyingReads
  <2>2. stored \subseteq 1..created
    BY <1>1 DEF TypeOK
  <2>3. PolicyIsSaved' /\ PicturesAreOld' /\ DeletedHadTasks'
    BY <1>1, <2>1, <2>2 DEF PolicyIsSaved, PicturesAreOld, DeletedHadTasks, files, counters
  <2>4. ASSUME NEW b \in Chosen', b \notin Chosen
        PROVE  \E u \in Threads, r \in rule : b \in Excess(thread[u].backups, r)
    <3>1. b \notin queued' /\ b \notin history'
      BY <2>1, <2>4 DEF Chosen
    <3>2. PICK u \in Threads : b \in thread'[u].toRemove
      BY <2>4, <3>1 DEF Chosen
    <3>3. b \notin thread[u].toRemove
      BY <2>4 DEF Chosen
    <3>4. QED
      BY <2>1, <3>2, <3>3
  <2>5. QED
    BY <1>1, <2>1, <2>3, <2>4, FilesStay, ChosenStayInExcess DEF counters
<1>5. ASSUME NEW t \in Threads, NEW r \in Rules, putRetention(t, r)
      PROVE  PolicyIsSaved' /\ PicturesAreOld' /\ DeletedHadTasks' /\ ChosenAreInExcess'
  <2>1. /\ changes' = changes + 1 /\ rule' = {r} /\ policy' = {r}
        /\ UNCHANGED <<now, files, stored, queued, history, byHand, failures>>
        /\ \A u \in Threads : /\ thread'[u].backups  = thread[u].backups
                              /\ thread'[u].toRemove = thread[u].toRemove
    BY <1>1, <1>5, TurningToApply DEF putRetention
  <2>2. /\ changes \in Nat /\ changes' \in Nat /\ changes' # 0
        /\ changes' <= 1 => changes = 0
    BY <1>1, <2>1 DEF PolicyIsSaved
  <2>3. PolicyIsSaved' /\ PicturesAreOld' /\ DeletedHadTasks' /\ Chosen' = Chosen
    BY <1>1, <2>1, <2>2 DEF PolicyIsSaved, PicturesAreOld, DeletedHadTasks, Chosen, files
  <2>4. changes = 0 => Chosen \ byHand = {}
    BY <1>1 DEF IInv, ChosenAreInExcess, PolicyIsSaved
  <2>5. QED
    BY <2>1, <2>2, <2>3, <2>4 DEF ChosenAreInExcess
<1>6. ASSUME NEW t \in Threads, NEW size \in Sizes, saveBackup(t, size)
      PROVE  PolicyIsSaved' /\ PicturesAreOld' /\ DeletedHadTasks' /\ ChosenAreInExcess'
  <2>1. /\ created' = created + 1 /\ created < MaxBackups
        /\ stored' = stored \union {created'}
        /\ dayOf'  = [dayOf EXCEPT ![created'] = now]
        /\ sizeOf' = [sizeOf EXCEPT ![created'] = size]
        /\ UNCHANGED <<now, rule, queued, history, policy, counters>>
        /\ \A u \in Threads : /\ thread'[u].backups  = thread[u].backups
                              /\ thread'[u].toRemove = thread[u].toRemove
    BY <1>1, <1>6, TurningToApply DEF saveBackup
  <2>2. 1..created' = (1..created) \union {created'} /\ created' \notin 1..created
    BY <1>2, <2>1
  <2>3. PolicyIsSaved' /\ PicturesAreOld' /\ DeletedHadTasks' /\ Chosen' = Chosen
    BY <1>1, <2>1, <2>2 DEF PolicyIsSaved, PicturesAreOld, DeletedHadTasks, Chosen, counters
  <2>4. Grows
    <3>1. created' \in Ids /\ size \in Nat
      BY <1>2, <2>1, SizeAssumption DEF Ids
    <3>2. 1..created' \in SUBSET Ids
      BY <1>2, <2>2, <3>1
    <3>3. dayOf' \in [Ids -> Nat] /\ sizeOf' \in [Ids -> Nat]
      BY <1>2, <2>1, <3>1
    <3>4. \A b \in 1..created : dayOf'[b] = dayOf[b] /\ sizeOf'[b] = sizeOf[b]
      BY <1>2, <2>1, <2>2
    <3>5. QED
      BY <1>2, <2>1, <3>2, <3>3, <3>4 DEF Grows
  <2>5. QED
    BY <2>1, <2>3, <2>4, ChosenStayInExcess DEF counters
<1>7. ASSUME NEW d \in Ids, deleteByHand(d)
      PROVE  PolicyIsSaved' /\ PicturesAreOld' /\ DeletedHadTasks' /\ ChosenAreInExcess'
  <2>1. /\ byHand' = byHand \union {d} /\ queued' = queued \union {d}
        /\ UNCHANGED <<now, files, stored, rule, history, thread, policy, changes>>
    BY <1>7 DEF deleteByHand
  <2>2. PolicyIsSaved' /\ PicturesAreOld' /\ DeletedHadTasks' /\ Chosen' \ byHand' \subseteq Chosen
    BY <1>1, <2>1 DEF PolicyIsSaved, PicturesAreOld, DeletedHadTasks, Chosen, files
  <2>3. QED
    BY <1>1, <2>1, <2>2, FilesStay, ChosenStayInExcess
<1>8. ASSUME NEW d \in Ids, executeDelete(d)
      PROVE  PolicyIsSaved' /\ PicturesAreOld' /\ DeletedHadTasks' /\ ChosenAreInExcess'
  <2>1. /\ d \in queued /\ queued' = queued \ {d} /\ history' = history \union {d}
        /\ stored' \in {stored, stored \ {d}}
        /\ UNCHANGED <<now, files, rule, thread, policy, byHand, changes>>
    BY <1>8 DEF executeDelete
  <2>2. PolicyIsSaved' /\ PicturesAreOld' /\ DeletedHadTasks' /\ Chosen' = Chosen
    BY <1>1, <2>1 DEF PolicyIsSaved, PicturesAreOld, DeletedHadTasks, Chosen, files
  <2>3. QED
    BY <1>1, <2>1, <2>2, FilesStay, ChosenStayInExcess
<1>9. CASE nextDay
  <2>1. /\ now' = now + 1
        /\ UNCHANGED <<files, stored, rule, queued, history, thread, policy, counters>>
    BY <1>9 DEF nextDay
  <2>2. PolicyIsSaved' /\ PicturesAreOld' /\ DeletedHadTasks' /\ Chosen' = Chosen
    BY <1>1, <2>1 DEF PolicyIsSaved, PicturesAreOld, DeletedHadTasks, Chosen, files, counters
  <2>3. Grows
    BY <1>2, <2>1 DEF Grows, files
  <2>4. QED
    BY <2>1, <2>2, <2>3, ChosenStayInExcess DEF counters
<1>10. CASE UNCHANGED vars
  <2>1. PolicyIsSaved' /\ PicturesAreOld' /\ DeletedHadTasks' /\ Chosen' = Chosen
    BY <1>1, <1>10 DEF PolicyIsSaved, PicturesAreOld, DeletedHadTasks, Chosen, vars, files,
       counters
  <2>2. QED
    BY <1>1, <1>10, <2>1, FilesStay, ChosenStayInExcess DEF vars, counters
<1>11. QED
  BY <1>3, <1>4, <1>5, <1>6, <1>7, <1>8, <1>9, <1>10 DEF Next

-----------------------------------------------------------------------------
(* The theorems                                                            *)

\* The inductive invariant: types, rules, pictures of the table, and the deletions chosen.
THEOREM Invariance == Spec => []IInv
<1>1. Init => IInv
  BY InitTypes, InitRest DEF IInv
<1>2. IInv /\ [Next]_vars => IInv'
  BY NextTypes, NextRest DEF IInv
<1>3. QED
  BY <1>1, <1>2, PTL DEF Spec

\* The type invariant, for any rules, sizes and number of threads and backups.
THEOREM TypeCorrectness == Spec => []TypeOK
BY Invariance, PTL DEF IInv

\* The loops of apply remove exactly what a rule asks for: no backup too many and none too
\* few, at whatever limit and for any backups with any sizes.
THEOREM LoopsRemoveTheExcess == Spec => []LoopsFollowPolicy
<1>1. TypeOK => LoopsFollowPolicy
  BY NumbersAreNatural, LoopsAreThePolicy DEF LoopsFollowPolicy
<1>2. QED
  BY TypeCorrectness, <1>1, PTL

\* However many threads apply the rule to old pictures of the tables, and whatever is deleted
\* by hand or fails to be deleted: retention takes no backup that the only rule ever saved
\* allows to stay.
THEOREM AllowedBackupsAlwaysStay == Spec => []AllowedBackupsStay
<1>1. IInv => AllowedBackupsStay
  <2> SUFFICES ASSUME IInv, changes <= 1, NEW b \in 1..created \ byHand, b \notin stored
               PROVE  \E r \in policy : b \in Excess(1..created, r)
    BY DEF AllowedBackupsStay
  <2>1. b \in Chosen
    BY DEF IInv, DeletedHadTasks, Chosen
  <2>2. QED
    BY <2>1 DEF IInv, ChosenAreInExcess
<1>2. QED
  BY Invariance, <1>1, PTL
=============================================================================
