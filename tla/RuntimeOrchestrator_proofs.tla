--------------------- MODULE RuntimeOrchestrator_proofs ---------------------
(* Theorems about RuntimeOrchestrator, for any components, dependencies and    *)
(* number of callers.                                                          *)
EXTENDS RuntimeOrchestrator, TLAPS, SequenceTheorems, FiniteSetTheorems, WellFoundedInduction

----------------------------------------------------------------------------
(* Induction over sets of numbers, and recursive functions.                    *)

LEMMA Least ==
  ASSUME NEW T \in SUBSET Nat, T # {}
  PROVE  \E m \in T : \A n \in T : m <= n
  <1>1. PICK m \in T : \A n \in T : ~(<<n, m>> \in OpToRel(<, Nat))
    BY NatLessThanWellFounded, WFMin
  <1>2. \A n \in T : ~(n < m)
    BY <1>1 DEF OpToRel
  <1> QED
    BY <1>2

LEMMA MinIs ==
  ASSUME NEW T \in SUBSET Nat, T # {}
  PROVE  Min(T) \in T /\ \A n \in T : Min(T) <= n
  BY Least DEF Min

\* What holds at 0 and is handed on holds up to n.
LEMMA Inductive ==
  ASSUME NEW n \in Nat, NEW I \in SUBSET (0..n), 0 \in I,
         \A i \in 1..n : i - 1 \in I => i \in I
  PROVE  I = 0..n
  <1> SUFFICES ASSUME (0..n) \ I # {} PROVE FALSE
    OBVIOUS
  <1>1. PICK m \in (0..n) \ I : \A j \in (0..n) \ I : m <= j
    <2>1. (0..n) \ I \in SUBSET Nat
      OBVIOUS
    <2> QED
      BY <2>1, Least
  <1>2. m # 0 /\ m - 1 \in 0..n /\ m \in 1..n
    BY <1>1
  <1>3. m - 1 \in I
    BY <1>1, <1>2
  <1> QED
    BY <1>1, <1>2, <1>3

\* Functions that are defined by their value at the argument before exist.
IsRecursive(f, n, X, x, step) ==
  f \in [0..n -> X] /\ f[0] = x /\ \A i \in 1..n : f[i] = step[i][f[i - 1]]

LEMMA Recursive ==
  ASSUME NEW n \in Nat, NEW X, NEW x \in X, NEW step \in [1..n -> [X -> X]]
  PROVE  \E f : IsRecursive(f, n, X, x, step)
  <1> DEFINE Is(m, f) == f \in [0..m -> X] /\ f[0] = x /\ \A i \in 1..m : f[i] = step[i][f[i - 1]]
             I == {m \in 0..n : \E f : Is(m, f)}
  <1>1. 0 \in I
    <2>1. Is(0, [i \in 0..0 |-> x])
      OBVIOUS
    <2> HIDE DEF Is
    <2> QED
      BY <2>1
  <1>2. ASSUME NEW i \in 1..n, i - 1 \in I PROVE i \in I
    <2>1. PICK f : Is(i - 1, f)
      BY <1>2
    <2> DEFINE g == [j \in 0..i |-> IF j = i THEN step[i][f[i - 1]] ELSE f[j]]
    <2>2. f[i - 1] \in X /\ step[i][f[i - 1]] \in X
      BY <2>1
    <2>3. g \in [0..i -> X]
      BY <2>1, <2>2
    <2>4. g[0] = x
      BY <2>1
    <2>5. \A j \in 1..i : g[j] = step[j][g[j - 1]]
      BY <2>1
    <2>6. Is(i, g)
      BY <2>3, <2>4, <2>5
    <2> HIDE DEF Is, g
    <2> QED
      BY <2>6
  <1>3. I = 0..n
    <2> HIDE DEF I
    <2>1. I \in SUBSET (0..n)
      BY DEF I
    <2> QED
      BY <1>1, <1>2, <2>1, Inductive
  <1>4. n \in I
    BY <1>3
  <1> QED
    BY <1>4 DEF IsRecursive

----------------------------------------------------------------------------
(* Sequences without repetition.                                               *)

LEMMA SeqFacts ==
  ASSUME NEW S, NEW s \in Seq(S)
  PROVE  /\ Len(s) \in Nat /\ DOMAIN s = 1..Len(s)
         /\ \A i \in DOMAIN s : s[i] \in S /\ s[i] \in ToSet(s)
         /\ ToSet(s) \subseteq S /\ s \in Seq(ToSet(s))
         /\ \A x \in ToSet(s) : \E i \in DOMAIN s : s[i] = x
  <1>1. Len(s) \in Nat /\ DOMAIN s = 1..Len(s)
    BY LenProperties
  <1>2. \A i \in DOMAIN s : s[i] \in S
    BY <1>1, ElementOfSeq
  <1>3. s \in [1..Len(s) -> ToSet(s)]
    BY <1>1, LenProperties DEF ToSet
  <1> QED
    BY <1>1, <1>2, <1>3 DEF ToSet

LEMMA AppendFacts ==
  ASSUME NEW S, NEW s \in Seq(S), NEW e \in S
  PROVE  /\ Append(s, e) \in Seq(S) /\ Len(Append(s, e)) = Len(s) + 1
         /\ ToSet(Append(s, e)) = ToSet(s) \cup {e}
         /\ IsInjective(s) /\ e \notin ToSet(s) => IsInjective(Append(s, e))
         /\ \A i \in 1..Len(s) : Append(s, e)[i] = s[i]
         /\ Append(s, e)[Len(s) + 1] = e
  <1> DEFINE t == Append(s, e)
  <1>1. t \in Seq(S) /\ Len(t) = Len(s) + 1 /\ Len(s) \in Nat
    BY AppendProperties, LenProperties
  <1>2. (\A i \in 1..Len(s) : t[i] = s[i]) /\ t[Len(s) + 1] = e
    BY AppendProperties
  <1>3. DOMAIN s = 1..Len(s) /\ DOMAIN t = 1..(Len(s) + 1)
    BY <1>1, LenProperties
  <1> HIDE DEF t
  <1>4. ToSet(t) = ToSet(s) \cup {e}
    <2>1. \A i \in DOMAIN t : t[i] \in ToSet(s) \cup {e}
      BY <1>1, <1>2, <1>3 DEF ToSet
    <2>2. \A i \in DOMAIN s : i \in DOMAIN t /\ t[i] = s[i]
      BY <1>1, <1>2, <1>3
    <2>3. Len(s) + 1 \in DOMAIN t
      BY <1>1, <1>3
    <2> QED
      BY <1>2, <2>1, <2>2, <2>3 DEF ToSet
  <1>5. ASSUME IsInjective(s), e \notin ToSet(s) PROVE IsInjective(t)
    <2>1. SUFFICES ASSUME NEW i \in DOMAIN t, NEW j \in DOMAIN t, t[i] = t[j] PROVE i = j
      BY DEF IsInjective
    <2>2. \A l \in DOMAIN s : s[l] # e
      BY <1>5 DEF ToSet
    <2> QED
      BY <1>1, <1>2, <1>3, <1>5, <2>1, <2>2 DEF IsInjective
  <1> QED
    BY <1>1, <1>2, <1>4, <1>5 DEF t

LEMMA ConcatFacts ==
  ASSUME NEW S, NEW s \in Seq(S), NEW t \in Seq(S)
  PROVE  /\ s \o t \in Seq(S)
         /\ ToSet(s \o t) = ToSet(s) \cup ToSet(t)
         /\ IsInjective(s) /\ IsInjective(t) /\ ToSet(s) \cap ToSet(t) = {} => IsInjective(s \o t)
  <1> DEFINE u == s \o t
  <1>1. u \in Seq(S) /\ Len(u) = Len(s) + Len(t) /\ Len(s) \in Nat /\ Len(t) \in Nat
    BY ConcatProperties, LenProperties
  <1>2. \A i \in 1..(Len(s) + Len(t)) : u[i] = IF i <= Len(s) THEN s[i] ELSE t[i - Len(s)]
    BY ConcatProperties
  <1>3. DOMAIN s = 1..Len(s) /\ DOMAIN t = 1..Len(t) /\ DOMAIN u = 1..(Len(s) + Len(t))
    BY <1>1, LenProperties
  <1> HIDE DEF u
  <1>4. ToSet(u) = ToSet(s) \cup ToSet(t)
    <2>1. \A i \in DOMAIN u : u[i] \in ToSet(s) \cup ToSet(t)
      <3> TAKE i \in DOMAIN u
      <3>1. CASE i <= Len(s)
        BY <1>1, <1>2, <1>3, <3>1 DEF ToSet
      <3>2. CASE ~(i <= Len(s))
        <4>1. i - Len(s) \in DOMAIN t
          BY <1>1, <1>3, <3>2
        <4> QED
          BY <1>1, <1>2, <1>3, <3>2, <4>1 DEF ToSet
      <3> QED
        BY <3>1, <3>2
    <2>2. \A i \in DOMAIN s : i \in DOMAIN u /\ u[i] = s[i]
      BY <1>1, <1>2, <1>3
    <2>3. \A i \in DOMAIN t : Len(s) + i \in DOMAIN u /\ u[Len(s) + i] = t[i]
      BY <1>1, <1>2, <1>3
    <2>4. ToSet(u) \subseteq ToSet(s) \cup ToSet(t)
      BY <2>1 DEF ToSet
    <2>5. ToSet(s) \subseteq ToSet(u)
      BY <2>2 DEF ToSet
    <2>6. ToSet(t) \subseteq ToSet(u)
      <3> SUFFICES ASSUME NEW i \in DOMAIN t PROVE t[i] \in ToSet(u)
        BY DEF ToSet
      <3> QED
        BY <2>3 DEF ToSet
    <2> QED
      BY <2>4, <2>5, <2>6
  <1>5. ASSUME IsInjective(s), IsInjective(t), ToSet(s) \cap ToSet(t) = {} PROVE IsInjective(u)
    <2>1. SUFFICES ASSUME NEW i \in DOMAIN u, NEW j \in DOMAIN u, u[i] = u[j] PROVE i = j
      BY DEF IsInjective
    <2>2. \A l \in DOMAIN s, m \in DOMAIN t : s[l] # t[m]
      BY <1>5 DEF ToSet
    <2>3. CASE i <= Len(s) /\ j <= Len(s)
      BY <1>1, <1>2, <1>3, <1>5, <2>1, <2>3 DEF IsInjective
    <2>4. CASE i > Len(s) /\ j > Len(s)
      <3>1. i - Len(s) \in DOMAIN t /\ j - Len(s) \in DOMAIN t /\ u[i] = t[i - Len(s)] /\ u[j] = t[j - Len(s)]
        BY <1>1, <1>2, <1>3, <2>4
      <3>2. i - Len(s) = j - Len(s)
        BY <1>5, <2>1, <3>1 DEF IsInjective
      <3> QED
        BY <1>1, <1>3, <3>2
    <2>5. CASE i <= Len(s) /\ j > Len(s)
      <3>1. i \in DOMAIN s /\ j - Len(s) \in DOMAIN t /\ u[i] = s[i] /\ u[j] = t[j - Len(s)]
        BY <1>1, <1>2, <1>3, <2>5
      <3> QED
        BY <2>1, <2>2, <3>1
    <2>6. CASE i > Len(s) /\ j <= Len(s)
      <3>1. j \in DOMAIN s /\ i - Len(s) \in DOMAIN t /\ u[j] = s[j] /\ u[i] = t[i - Len(s)]
        BY <1>1, <1>2, <1>3, <2>6
      <3> QED
        BY <2>1, <2>2, <3>1
    <2> QED
      BY <1>1, <1>3, <2>3, <2>4, <2>5, <2>6
  <1> QED
    BY <1>1, <1>4, <1>5 DEF u

LEMMA TailFacts ==
  ASSUME NEW S, NEW s \in Seq(S), s # <<>>, IsInjective(s)
  PROVE  /\ Head(s) \in ToSet(s) /\ Tail(s) \in Seq(S) /\ IsInjective(Tail(s))
         /\ ToSet(Tail(s)) = ToSet(s) \ {Head(s)}
  <1> DEFINE t == Tail(s)
  <1>1. t \in Seq(S) /\ Len(t) = Len(s) - 1 /\ Len(s) \in Nat /\ Len(s) # 0
    BY HeadTailProperties, LenProperties, EmptySeq
  <1>2. DOMAIN s = 1..Len(s) /\ DOMAIN t = 1..(Len(s) - 1)
    BY <1>1, LenProperties
  <1>3. \A i \in 1..(Len(s) - 1) : t[i] = s[i + 1]
    BY HeadTailProperties, <1>1
  <1>4. Head(s) = s[1]
    BY <1>1
  <1> HIDE DEF t
  <1>5. IsInjective(t)
    <2>1. SUFFICES ASSUME NEW i \in DOMAIN t, NEW j \in DOMAIN t, t[i] = t[j] PROVE i = j
      BY DEF IsInjective
    <2>2. i + 1 \in DOMAIN s /\ j + 1 \in DOMAIN s /\ s[i + 1] = s[j + 1]
      BY <1>1, <1>2, <1>3, <2>1
    <2>3. i + 1 = j + 1
      BY <2>2 DEF IsInjective
    <2> QED
      BY <1>2, <2>3
  <1>6. ToSet(t) = ToSet(s) \ {s[1]}
    <2>1. \A i \in DOMAIN t : i + 1 \in DOMAIN s /\ i + 1 # 1 /\ t[i] = s[i + 1]
      BY <1>1, <1>2, <1>3
    <2>2. 1 \in DOMAIN s
      BY <1>1, <1>2
    <2>3. \A i \in DOMAIN s : i # 1 => i - 1 \in DOMAIN t /\ t[i - 1] = s[i] /\ s[i] # s[1]
      <3> SUFFICES ASSUME NEW i \in DOMAIN s, i # 1 PROVE i - 1 \in DOMAIN t /\ t[i - 1] = s[i] /\ s[i] # s[1]
        OBVIOUS
      <3>1. i - 1 \in 1..(Len(s) - 1) /\ i - 1 + 1 = i
        BY <1>1, <1>2
      <3> QED
        BY <1>2, <1>3, <2>2, <3>1 DEF IsInjective
    <2>4. ToSet(t) \subseteq ToSet(s) \ {s[1]}
      <3> SUFFICES ASSUME NEW i \in DOMAIN t PROVE t[i] \in ToSet(s) /\ t[i] # s[1]
        BY DEF ToSet
      <3> QED
        BY <2>1, <2>2 DEF ToSet, IsInjective
    <2>5. ToSet(s) \ {s[1]} \subseteq ToSet(t)
      BY <2>3 DEF ToSet
    <2> QED
      BY <2>4, <2>5
  <1>7. s[1] \in ToSet(s)
    BY <1>1, <1>2 DEF ToSet
  <1> QED
    BY <1>1, <1>4, <1>5, <1>6, <1>7 DEF t

LEMMA LenIsCardinality ==
  ASSUME NEW S, NEW s \in Seq(S), IsInjective(s)
  PROVE  IsFiniteSet(ToSet(s)) /\ Cardinality(ToSet(s)) = Len(s)
  <1>1. s \in [1..Len(s) -> ToSet(s)] /\ Len(s) \in Nat /\ DOMAIN s = 1..Len(s)
    BY SeqFacts, LenProperties
  <1>2. s \in Surjection(1..Len(s), ToSet(s))
    BY <1>1, SeqFacts DEF Surjection
  <1>3. s \in Injection(1..Len(s), ToSet(s))
    BY <1>1 DEF Injection
  <1>4. IsFiniteSet(1..Len(s)) /\ Cardinality(1..Len(s)) = Len(s)
    <2> DEFINE n == Len(s)
    <2> HIDE DEF n
    <2>1. 1 \in Int /\ n \in Int /\ n \in Nat
      BY <1>1 DEF n
    <2>2. IsFiniteSet(1..n) /\ Cardinality(1..n) = IF 1 > n THEN 0 ELSE n - 1 + 1
      BY <2>1, FS_Interval
    <2>3. (IF 1 > n THEN 0 ELSE n - 1 + 1) = n
      BY <2>1
    <2> QED
      BY <2>2, <2>3 DEF n
  <1> DEFINE N == 1..Len(s)
             T == ToSet(s)
  <1> HIDE DEF N, T
  <1>5. s \in Surjection(N, T) /\ IsFiniteSet(N)
    BY <1>2, <1>4 DEF N, T
  <1>6. IsFiniteSet(T) /\ (Cardinality(T) = Cardinality(N) <=> s \in Injection(N, T))
    BY <1>5, FS_Surjection
  <1> QED
    BY <1>3, <1>4, <1>6 DEF N, T

----------------------------------------------------------------------------
(* The start order.                                                            *)

\* What holds of the dependency graph.
Graph ==
  /\ definitions \in Seq(Components) /\ IsInjective(definitions)
  /\ depends \in [Components -> SUBSET Components]
  /\ \A c \in Components : c \notin Registered => depends[c] = {}
  /\ InOrder => \A i \in DOMAIN definitions : depends[definitions[i]] \subseteq {definitions[j] : j \in 1..(i - 1)}

LEMMA ListedIs ==
  ASSUME Graph, NEW S \in SUBSET Registered
  PROVE  Listed(S) \in Seq(S) /\ IsInjective(Listed(S)) /\ ToSet(Listed(S)) = S
  <1> DEFINE n == Len(definitions)
             listed == CHOOSE listed : listed = [i \in 0..n |->
                         IF i = 0 THEN <<>>
                         ELSE IF definitions[i] \in S THEN Append(listed[i - 1], definitions[i]) ELSE listed[i - 1]]
             step == [i \in 1..n |-> [x \in Seq(S) |-> IF definitions[i] \in S THEN Append(x, definitions[i]) ELSE x]]
  <1>1. definitions \in Seq(Components) /\ IsInjective(definitions)
    BY DEF Graph
  <1>2. n \in Nat /\ DOMAIN definitions = 1..n
    BY <1>1, SeqFacts
  <1>3. step \in [1..n -> [Seq(S) -> Seq(S)]]
    BY AppendProperties
  <1>4. <<>> \in Seq(S)
    BY EmptySeq
  <1>5. PICK f \in [0..n -> Seq(S)] : f[0] = <<>> /\ \A i \in 1..n : f[i] = step[i][f[i - 1]]
    <2> DEFINE X == Seq(S)
    <2>1. n \in Nat /\ <<>> \in X /\ step \in [1..n -> [X -> X]]
      BY <1>2, <1>3, <1>4
    <2> HIDE DEF step, n, X
    <2>2. \E f : IsRecursive(f, n, X, <<>>, step)
      BY <2>1, Recursive
    <2> QED
      BY <2>2 DEF X, IsRecursive
  <1>6. f = [i \in 0..n |-> IF i = 0 THEN <<>>
               ELSE IF definitions[i] \in S THEN Append(f[i - 1], definitions[i]) ELSE f[i - 1]]
    <2>1. \A i \in 1..n : i - 1 \in 0..n
      BY <1>2
    <2>2. \A i \in 1..n : f[i] = IF definitions[i] \in S THEN Append(f[i - 1], definitions[i]) ELSE f[i - 1]
      BY <1>5, <2>1
    <2>3. \A i \in 0..n : i = 0 \/ i \in 1..n
      BY <1>2
    <2> QED
      BY <1>5, <2>2, <2>3
  <1>7. listed = [i \in 0..n |-> IF i = 0 THEN <<>>
               ELSE IF definitions[i] \in S THEN Append(listed[i - 1], definitions[i]) ELSE listed[i - 1]]
    BY <1>6
  <1>8. Listed(S) = listed[n]
    BY DEF Listed
  <1> HIDE DEF listed, step, n
  <1> DEFINE Upto(i) == {definitions[j] : j \in 1..i} \cap S
             Fine(i) == listed[i] \in Seq(S) /\ IsInjective(listed[i]) /\ ToSet(listed[i]) = Upto(i)
             I == {i \in 0..n : Fine(i)}
  <1>9. 0 \in I
    <2>1. listed[0] = <<>>
      BY <1>2, <1>7
    <2>2. ToSet(<<>>) = {} /\ IsInjective(<<>>)
      BY DEF ToSet, IsInjective
    <2> QED
      BY <1>2, <1>4, <2>1, <2>2
  <1>10. ASSUME NEW i \in 1..n, i - 1 \in I PROVE i \in I
    <2>1. Fine(i - 1) /\ i \in 0..n /\ i \in Nat /\ i # 0
      BY <1>2, <1>10
    <2> DEFINE d == definitions[i]
               x == listed[i - 1]
    <2>2. listed[i] = IF d \in S THEN Append(x, d) ELSE x
      BY <1>7, <2>1
    <2>3. {definitions[j] : j \in 1..i} = {definitions[j] : j \in 1..(i - 1)} \cup {d}
      <3>1. 1..i = (1..(i - 1)) \cup {i}
        BY <2>1
      <3> QED
        BY <3>1
    <2>4. d \notin {definitions[j] : j \in 1..(i - 1)}
      <3> SUFFICES ASSUME NEW j \in 1..(i - 1), definitions[j] = d PROVE FALSE
        OBVIOUS
      <3>1. j \in 1..n /\ i \in 1..n /\ j # i
        BY <1>2, <2>1
      <3> QED
        BY <1>1, <1>2, <3>1 DEF IsInjective
    <2> HIDE DEF d, x
    <2>5. CASE d \in S
      <3>1. listed[i] = Append(x, d)
        BY <2>2, <2>5
      <3>2. x \in Seq(S) /\ IsInjective(x) /\ ToSet(x) = Upto(i - 1)
        BY <2>1 DEF x
      <3>3. d \notin ToSet(x)
        BY <2>4, <3>2
      <3>4. Append(x, d) \in Seq(S) /\ IsInjective(Append(x, d)) /\ ToSet(Append(x, d)) = ToSet(x) \cup {d}
        BY <2>5, <3>2, <3>3, AppendFacts
      <3> QED
        BY <2>1, <2>3, <2>5, <3>1, <3>2, <3>4
    <2>6. CASE d \notin S
      <3>1. Upto(i) = Upto(i - 1) /\ listed[i] = x
        BY <2>2, <2>3, <2>6
      <3> QED
        BY <2>1, <3>1 DEF x
    <2> QED
      BY <2>5, <2>6
  <1>11. n \in I
    <2>1. I \in SUBSET (0..n)
      OBVIOUS
    <2> HIDE DEF I
    <2>2. \A i \in 1..n : i - 1 \in I => i \in I
      BY <1>10
    <2>3. I = 0..n
      BY <1>2, <1>9, <2>1, <2>2, Inductive
    <2> QED
      BY <1>2, <2>3
  <1>12. Upto(n) = S
    BY <1>2 DEF Registered, ToSet
  <1> QED
    BY <1>8, <1>11, <1>12

Round == [ready : Seq(Registered), order : Seq(Registered)]

\* What holds after every round of Kahn's algorithm.
Kahn(r) ==
  /\ r \in Round
  /\ IsInjective(r.ready) /\ IsInjective(r.order) /\ ToSet(r.ready) \cap ToSet(r.order) = {}
  /\ \A i \in DOMAIN r.order : depends[r.order[i]] \subseteq {r.order[j] : j \in 1..(i - 1)}
  /\ \A d \in Registered : depends[d] \subseteq ToSet(r.order) <=> d \in ToSet(r.ready) \cup ToSet(r.order)

LEMMA KahnKept ==
  ASSUME Graph, NEW r, Kahn(r)
  PROVE  /\ Kahn(KahnRound(r))
         /\ r.ready = <<>> => KahnRound(r) = r
         /\ r.ready # <<>> => Len(KahnRound(r).order) = Len(r.order) + 1
  <1>1. CASE r.ready = <<>>
    BY <1>1 DEF KahnRound
  <1>2. CASE r.ready # <<>>
    <2> DEFINE name == Head(r.ready)
               order == Append(r.order, name)
               freed == {d \in Registered : name \in depends[d] /\ depends[d] \subseteq ToSet(order)}
               queue == Tail(r.ready) \o Listed(freed)
    <2>1. KahnRound(r) = [ready |-> queue, order |-> order]
      BY <1>2 DEF KahnRound
    <2>2. r.ready \in Seq(Registered) /\ r.order \in Seq(Registered) /\ IsInjective(r.ready) /\ IsInjective(r.order)
      BY DEF Kahn, Round
    <2>3. /\ name \in ToSet(r.ready) /\ Tail(r.ready) \in Seq(Registered) /\ IsInjective(Tail(r.ready))
          /\ ToSet(Tail(r.ready)) = ToSet(r.ready) \ {name}
      BY <1>2, <2>2, TailFacts
    <2>4. name \in Registered /\ name \notin ToSet(r.order)
      BY <2>2, <2>3, SeqFacts DEF Kahn
    <2> HIDE DEF name
    <2>5. /\ order \in Seq(Registered) /\ Len(order) = Len(r.order) + 1 /\ ToSet(order) = ToSet(r.order) \cup {name}
          /\ IsInjective(order) /\ order[Len(r.order) + 1] = name
          /\ \A i \in 1..Len(r.order) : order[i] = r.order[i]
      BY <2>2, <2>4, AppendFacts
    <2> HIDE DEF order
    <2>6. freed \in SUBSET Registered
      OBVIOUS
    <2>7. Listed(freed) \in Seq(Registered) /\ IsInjective(Listed(freed)) /\ ToSet(Listed(freed)) = freed
      <3> HIDE DEF freed
      <3>1. Listed(freed) \in Seq(freed) /\ IsInjective(Listed(freed)) /\ ToSet(Listed(freed)) = freed
        BY <2>6, ListedIs
      <3> QED
        BY <2>6, <3>1, SeqMonotonic
    <2>8. \A d \in ToSet(r.ready) \cup ToSet(r.order) : d \in Registered /\ depends[d] \subseteq ToSet(r.order)
      BY <2>2, SeqFacts DEF Kahn
    <2>9. freed \cap (ToSet(r.ready) \cup ToSet(r.order)) = {}
      BY <2>4, <2>8
    <2>10. /\ queue \in Seq(Registered) /\ IsInjective(queue)
           /\ ToSet(queue) = (ToSet(r.ready) \ {name}) \cup freed
      <3>1. ToSet(Tail(r.ready)) \cap ToSet(Listed(freed)) = {}
        BY <2>3, <2>7, <2>9
      <3> DEFINE a == Tail(r.ready)
                 b == Listed(freed)
      <3>2. a \in Seq(Registered) /\ b \in Seq(Registered) /\ IsInjective(a) /\ IsInjective(b) /\ ToSet(a) \cap ToSet(b) = {}
        BY <2>3, <2>7, <3>1
      <3>3. ToSet(a) = ToSet(r.ready) \ {name} /\ ToSet(b) = freed /\ queue = a \o b
        BY <2>3, <2>7
      <3> HIDE DEF a, b, freed, queue
      <3>4. a \o b \in Seq(Registered) /\ ToSet(a \o b) = ToSet(a) \cup ToSet(b) /\ IsInjective(a \o b)
        BY <3>2, ConcatFacts
      <3> QED
        BY <3>3, <3>4
    <2> HIDE DEF queue
    <2>11. ToSet(queue) \cap ToSet(order) = {}
      BY <2>3, <2>4, <2>5, <2>9, <2>10 DEF Kahn
    <2>12. \A i \in DOMAIN order : depends[order[i]] \subseteq {order[j] : j \in 1..(i - 1)}
      <3> TAKE i \in DOMAIN order
      <3>1. DOMAIN order = 1..(Len(r.order) + 1) /\ Len(r.order) \in Nat /\ DOMAIN r.order = 1..Len(r.order)
        BY <2>2, <2>5, SeqFacts
      <3>2. CASE i \in 1..Len(r.order)
        <4>1. depends[r.order[i]] \subseteq {r.order[j] : j \in 1..(i - 1)}
          BY <3>1, <3>2 DEF Kahn
        <4>2. \A j \in 1..(i - 1) : order[j] = r.order[j]
          BY <2>5, <3>1, <3>2
        <4> QED
          BY <2>5, <3>2, <4>1, <4>2
      <3>3. CASE i = Len(r.order) + 1
        <4>1. depends[name] \subseteq ToSet(r.order)
          BY <2>3, <2>8
        <4>2. ToSet(r.order) = {order[j] : j \in 1..Len(r.order)}
          BY <2>5, <3>1 DEF ToSet
        <4>3. i - 1 = Len(r.order)
          BY <3>1, <3>3
        <4> QED
          BY <2>5, <3>3, <4>1, <4>2, <4>3
      <3> QED
        BY <3>1, <3>2, <3>3
    <2>13. \A d \in Registered : depends[d] \subseteq ToSet(order) <=> d \in ToSet(queue) \cup ToSet(order)
      <3> TAKE d \in Registered
      <3>1. ASSUME depends[d] \subseteq ToSet(order) PROVE d \in ToSet(queue) \cup ToSet(order)
        <4>1. CASE name \in depends[d]
          BY <2>10, <3>1, <4>1
        <4>2. CASE name \notin depends[d]
          <5>1. depends[d] \subseteq ToSet(r.order)
            BY <2>5, <3>1, <4>2
          <5>2. d \in ToSet(r.ready) \cup ToSet(r.order)
            BY <5>1 DEF Kahn
          <5> QED
            BY <2>5, <2>10, <5>2
        <4> QED
          BY <4>1, <4>2
      <3>2. ASSUME d \in ToSet(queue) \cup ToSet(order) PROVE depends[d] \subseteq ToSet(order)
        <4>1. CASE d \in freed
          BY <4>1
        <4>2. CASE d \in ToSet(r.ready) \cup ToSet(r.order)
          BY <2>5, <2>8, <4>2
        <4> QED
          BY <2>3, <2>5, <2>10, <3>2, <4>1, <4>2
      <3> QED
        BY <3>1, <3>2
    <2>14. [ready |-> queue, order |-> order] \in Round
      BY <2>5, <2>10 DEF Round
    <2> DEFINE q == [ready |-> queue, order |-> order]
    <2>15. q.ready = queue /\ q.order = order /\ q \in Round
      BY <2>14
    <2>16. Kahn(q)
      <3> HIDE DEF q
      <3> QED
        BY <2>5, <2>10, <2>11, <2>12, <2>13, <2>15 DEF Kahn
    <2> QED
      BY <1>2, <2>1, <2>5, <2>15, <2>16
  <1> QED
    BY <1>1, <1>2


LEMMA KahnStart ==
  ASSUME Graph
  PROVE  Kahn([ready |-> Listed({d \in Registered : depends[d] = {}}), order |-> <<>>])
  <1> DEFINE free == {d \in Registered : depends[d] = {}}
             q == [ready |-> Listed(free), order |-> <<>>]
  <1>1. free \in SUBSET Registered
    OBVIOUS
  <1>2. Listed(free) \in Seq(Registered) /\ IsInjective(Listed(free)) /\ ToSet(Listed(free)) = free
    <2> HIDE DEF free
    <2>1. Listed(free) \in Seq(free) /\ IsInjective(Listed(free)) /\ ToSet(Listed(free)) = free
      BY <1>1, ListedIs
    <2> QED
      BY <1>1, <2>1, SeqMonotonic
  <1>3. <<>> \in Seq(Registered) /\ ToSet(<<>>) = {} /\ IsInjective(<<>>) /\ DOMAIN <<>> = {}
    BY EmptySeq DEF ToSet, IsInjective
  <1>4. q \in Round /\ q.ready = Listed(free) /\ q.order = <<>>
    BY <1>2, <1>3 DEF Round
  <1>5. \A d \in Registered : depends[d] \subseteq {} <=> d \in free \cup {}
    OBVIOUS
  <1> HIDE DEF free, q
  <1>6. Kahn(q)
    BY <1>2, <1>3, <1>4, <1>5 DEF Kahn
  <1> QED
    BY <1>6 DEF q, free

\* After as many rounds as components are registered nothing is ready.
LEMMA RoundsEnd ==
  ASSUME Graph
  PROVE  \E r : Kahn(r) /\ StartupOrder = r.order /\ (r.ready = <<>> \/ Len(r.order) = Len(definitions))
  <1> DEFINE n == Len(definitions)
             start == [ready |-> Listed({d \in Registered : depends[d] = {}}), order |-> <<>>]
             round == CHOOSE round : round = [k \in 0..n |-> IF k = 0 THEN start ELSE KahnRound(round[k - 1])]
             X == {r \in Round : Kahn(r)}
             step == [k \in 1..n |-> [r \in X |-> KahnRound(r)]]
  <1>1. n \in Nat
    BY SeqFacts DEF Graph
  <1>2. start \in X /\ start.order = <<>>
    BY KahnStart DEF Kahn
  <1>3. step \in [1..n -> [X -> X]]
    BY KahnKept DEF Kahn
  <1>4. StartupOrder = round[n].order
    BY DEF StartupOrder
  <1>5. PICK f : IsRecursive(f, n, X, start, step)
    <2> HIDE DEF n, start, X, step
    <2> QED
      BY <1>1, <1>2, <1>3, Recursive
  <1> HIDE DEF start
  <1>6. f = [k \in 0..n |-> IF k = 0 THEN start ELSE KahnRound(f[k - 1])]
    <2>1. \A k \in 1..n : k - 1 \in 0..n
      BY <1>1
    <2>2. f \in [0..n -> X] /\ f[0] = start /\ \A k \in 1..n : f[k] = step[k][f[k - 1]]
      BY <1>5 DEF IsRecursive
    <2>3. \A k \in 1..n : f[k] = KahnRound(f[k - 1])
      BY <2>1, <2>2
    <2>4. \A k \in 0..n : k = 0 \/ k \in 1..n
      BY <1>1
    <2> QED
      BY <2>2, <2>3, <2>4
  <1>7. round = [k \in 0..n |-> IF k = 0 THEN start ELSE KahnRound(round[k - 1])]
    BY <1>6
  <1> HIDE DEF round, step, n
  <1> DEFINE Good(k) == Kahn(round[k]) /\ (round[k].ready = <<>> \/ Len(round[k].order) = k)
             I == {k \in 0..n : Good(k)}
  <1>8. 0 \in I
    <2>1. round[0] = start /\ 0 \in 0..n
      BY <1>1, <1>7
    <2> QED
      BY <1>2, <2>1
  <1>9. \A k \in 1..n : k - 1 \in I => k \in I
    <2> SUFFICES ASSUME NEW k \in 1..n, k - 1 \in I PROVE k \in 0..n /\ Good(k)
      OBVIOUS
    <2>1. Good(k - 1) /\ k \in 0..n /\ k \in Nat /\ k # 0
      BY <1>1
    <2> DEFINE r == round[k - 1]
    <2>2. round[k] = KahnRound(r)
      BY <1>7, <2>1
    <2> HIDE DEF r
    <2>3. Kahn(r) /\ (r.ready = <<>> \/ Len(r.order) = k - 1)
      BY <2>1 DEF r
    <2>4. /\ Kahn(KahnRound(r))
          /\ r.ready = <<>> => KahnRound(r) = r
          /\ r.ready # <<>> => Len(KahnRound(r).order) = Len(r.order) + 1
      BY <2>3, KahnKept
    <2> QED
      BY <2>1, <2>2, <2>3, <2>4
  <1>10. I = 0..n
    <2>1. I \in SUBSET (0..n)
      OBVIOUS
    <2> HIDE DEF I
    <2> QED
      BY <1>1, <1>8, <1>9, <2>1, Inductive
  <1>11. Good(n)
    BY <1>1, <1>10
  <1> QED
    BY <1>4, <1>11 DEF n

\* The start order: dependencies come first; it has all components unless some
\* of them depend on each other, or on one that is not registered.
LEMMA OrderIs ==
  ASSUME Graph
  PROVE  /\ StartupOrder \in Seq(Registered) /\ IsInjective(StartupOrder)
         /\ \A i \in DOMAIN StartupOrder : depends[StartupOrder[i]] \subseteq {StartupOrder[j] : j \in 1..(i - 1)}
         /\ Ordered => ToSet(StartupOrder) = Registered
         /\ InOrder => Ordered
  <1>1. PICK r : Kahn(r) /\ StartupOrder = r.order /\ (r.ready = <<>> \/ Len(r.order) = Len(definitions))
    BY RoundsEnd
  <1>2. /\ r.order \in Seq(Registered) /\ IsInjective(r.order)
        /\ \A i \in DOMAIN r.order : depends[r.order[i]] \subseteq {r.order[j] : j \in 1..(i - 1)}
    BY <1>1 DEF Kahn, Round
  <1>3. definitions \in Seq(Components) /\ IsInjective(definitions) /\ Registered = ToSet(definitions)
    BY DEF Graph, Registered
  <1>4. IsFiniteSet(Registered) /\ Cardinality(Registered) = Len(definitions)
    BY <1>3, LenIsCardinality
  <1>5. ToSet(r.order) \subseteq Registered /\ Cardinality(ToSet(r.order)) = Len(r.order)
    BY <1>2, SeqFacts, LenIsCardinality
  <1>6. Len(r.order) = Len(definitions) => ToSet(r.order) = Registered
    BY <1>4, <1>5, FS_Subset
  <1>7. ASSUME InOrder PROVE Ordered
    <2>1. \A i \in DOMAIN definitions : depends[definitions[i]] \subseteq {definitions[j] : j \in 1..(i - 1)}
      BY <1>7 DEF Graph
    <2>2. Len(definitions) \in Nat /\ DOMAIN definitions = 1..Len(definitions)
      BY <1>3, SeqFacts
    <2>3. \A c \in Registered : depends[c] \subseteq Registered
      <3>1. \A i \in DOMAIN definitions : \A j \in 1..(i - 1) : j \in DOMAIN definitions
        BY <2>2
      <3>2. \A i \in DOMAIN definitions : {definitions[j] : j \in 1..(i - 1)} \subseteq Registered
        BY <3>1 DEF Registered, ToSet
      <3> QED
        BY <2>1, <3>2 DEF Registered, ToSet
    <2>4. Len(r.order) = Len(definitions)
      <3>1. CASE r.ready = <<>>
        <4>1. ToSet(r.ready) = {}
          BY <3>1 DEF ToSet
        <4> DEFINE T == {i \in DOMAIN definitions : definitions[i] \notin ToSet(r.order)}
        <4>2. T = {}
          <5> SUFFICES ASSUME T # {} PROVE FALSE
            OBVIOUS
          <5>1. T \in SUBSET Nat
            BY <2>2
          <5>2. PICK i \in T : \A j \in T : i <= j
            <6> HIDE DEF T
            <6> QED
              BY <5>1, Least
          <5>3. \A j \in 1..(i - 1) : j \in DOMAIN definitions /\ ~(i <= j)
            BY <2>2
          <5>4. {definitions[j] : j \in 1..(i - 1)} \subseteq ToSet(r.order)
            BY <5>2, <5>3
          <5>5. definitions[i] \in Registered
            BY DEF Registered, ToSet
          <5>6. depends[definitions[i]] \subseteq ToSet(r.order)
            BY <2>1, <5>4
          <5> QED
            BY <1>1, <4>1, <5>5, <5>6 DEF Kahn
        <4>3. Registered \subseteq ToSet(r.order)
          BY <1>3, <4>2 DEF ToSet
        <4>4. ToSet(r.order) = Registered
          BY <1>5, <4>3
        <4> QED
          BY <1>4, <1>5, <4>4, Zenon
      <3> QED
        BY <1>1, <3>1
    <2> QED
      BY <1>1, <2>3, <2>4 DEF Ordered
  <1> QED
    BY <1>1, <1>2, <1>6, <1>7 DEF Ordered


----------------------------------------------------------------------------
(* The calls.  Of those that are not pause and resume one is under way at a    *)
(* time: the others overlap with it.                                           *)

OneAtATime == Overlapping \subseteq {"pause", "resume"}

CallT == [op : OperationNames \cup {None}, at : Places, settled : BOOLEAN, on : Components \cup {None},
          todo : Seq(Components), partial : BOOLEAN,
          initialized : Seq(Components), failed : BOOLEAN, unready : BOOLEAN]

\* Where a call may be suspended.
BootPlaces == {"BootstrapStarted", "InitializationStarted", "create", "initialize", "InitializationCompleted",
               "ReadinessVerified", "RuntimeCertified", "RuntimeOperational", "BootstrapCompleted", "RuntimeFaulted"}
PlacesOf(op) ==
  CASE op = None                 -> {None}
    [] op = "boot"               -> BootPlaces
    [] op = "restartPlatform"    -> BootPlaces \cup {"RestartRequested", "shutdown"}
    [] op = "restartComponent"   -> {"RestartRequested", "shutdown", "create", "initialize"}
    [] op = "requestShutdown"    -> {"ShutdownRequested", "shutdown", "ShutdownCompleted"}
    [] op = "recover"            -> {"RuntimeRecovered", "RuntimeFaulted"}
    [] op = "pause"              -> {"RuntimePaused"}
    [] op = "resume"             -> {"RuntimeResumed"}
    [] op = "requestMaintenance" -> {}

Booting(c) == c.op \in {"boot", "restartPlatform"}
Main(c) == c.op \notin {"pause", "resume", None}

Shape(c) ==
  /\ c \in CallT /\ c.at \in PlacesOf(c.op)
  /\ c.op = None => c = NoCall
  /\ c.at \in {"create", "initialize", "shutdown"} \/ c.op = "restartComponent" => c.on \in Registered
  /\ c.todo \in Seq(Registered) /\ c.initialized \in Seq(Registered)

\* What is not registered has left no trace.
Untouched == \A c \in Components : c \notin Registered => lifecycle[c] = "unregistered" /\ instances[c] = "none"

Single == \A j, k \in Callers : Main(call[j]) /\ Main(call[k]) => j = k

Calls ==
  /\ TypeOK /\ Graph /\ Untouched
  /\ \A k \in Callers : Shape(call[k])
  /\ Single

----------------------------------------------------------------------------
(* What the call under way knows.                                              *)

\* A boot that has visited no component yet.
Fresh(c) == c.initialized = <<>> /\ ~c.failed

\* A boot that is at its components: those initialized run, those failed are
\* still to be visited unless the call knows of failures.
Working(c) ==
  /\ IsInjective(c.todo)
  /\ ToSet(c.todo) \cap ToSet(c.initialized) = {}
  /\ \A d \in ToSet(c.initialized) : instances[d] = "running"
  /\ ~c.failed => \A d \in Registered : lifecycle[d] = "failed" => d \in ToSet(c.todo)

\* create() and initialize() of a component whose dependencies are initialized.
Creating(c) ==
  /\ c.on \notin ToSet(c.todo) \cup ToSet(c.initialized)
  /\ depends[c.on] \subseteq ToSet(c.initialized)
  /\ lifecycle[c.on] # "failed"
  /\ c.at = "initialize" => instances[c.on] = "created"

\* What a boot found out after its last component.
Judged(c) ==
  /\ c.todo = <<>>
  /\ c.at # "InitializationCompleted" /\ ~c.partial => ~c.failed
  /\ c.at = "ReadinessVerified" /\ ~c.unready => \A d \in ToSet(c.initialized) : ready[d]
  /\ c.at = "RuntimeCertified" /\ ~c.partial => \A d \in ToSet(c.initialized) : ready[d] /\ eligible[d]

Backward(s) == \A i, j \in DOMAIN s : s[i] \in depends[s[j]] => j < i

\* A shutdown at its components: those that run are still to be visited, each
\* before those it depends on.
Stopping(c) ==
  /\ Backward(c.todo)
  /\ \A d \in Components : instances[d] = "running" => d \in ToSet(c.todo)

Knows(c) ==
  /\ Booting(c) /\ c.at \in {"RestartRequested", "shutdown", "BootstrapStarted", "InitializationStarted"} => Fresh(c)
  /\ Booting(c) /\ c.at \in {"create", "initialize"} => Working(c) /\ Creating(c)
  /\ Booting(c) /\ c.at \in {"InitializationCompleted", "ReadinessVerified", "RuntimeCertified"} => Working(c) /\ Judged(c)
  /\ c.op \in {"requestShutdown", "restartPlatform"} /\ c.at = "shutdown" => Stopping(c)

Content == \A k \in Callers : Knows(call[k])

----------------------------------------------------------------------------
(* The runtime's state and the call that will lead out of it.                  *)

Rest == {"stopped", "operational", "paused", "maintenance", "faulted"}

\* The state a call keeps the runtime in.
Stage(c) ==
  CASE Booting(c) /\ c.at = "BootstrapStarted" -> "booting"
    [] Booting(c) /\ c.at \in {"InitializationStarted", "create", "initialize", "InitializationCompleted"} -> "initializing"
    [] Booting(c) /\ c.at \in {"ReadinessVerified", "RuntimeCertified"} -> "validating"
    [] c.op = "restartPlatform" /\ c.at = "shutdown" -> "restarting"
    [] c.op = "requestShutdown" /\ c.at \in {"ShutdownRequested", "shutdown"} -> "shutting-down"
    [] OTHER -> None

Stages ==
  /\ \A k \in Callers : Stage(call[k]) # None => state = Stage(call[k])
  /\ state \notin Rest => \E k \in Callers : Stage(call[k]) = state

\* The events published where the runtime would be stuck if the publish were refused.
Critical == {"BootstrapStarted", "InitializationStarted", "InitializationCompleted",
             "ReadinessVerified", "RuntimeCertified", "ShutdownRequested"}

\* One of them is on the dispatch stack only while it is being dispatched for
\* the call that published it, and then on top.
Stack ==
  \A i \in DOMAIN dispatchStack : dispatchStack[i] \in Critical =>
    i = Len(dispatchStack) /\ \E k \in Callers : call[k].at = dispatchStack[i] /\ ~call[k].settled

Control == Stages /\ Stack


----------------------------------------------------------------------------
(* What a step does to the call that takes it.                                 *)

TypesRest ==
  /\ state \in States
  /\ instances \in [Components -> {"none", "created", "running", "down"}]
  /\ lifecycle \in [Components -> {"unregistered", "created", "initializing", "initialized", "failed", "shutdown"}]
  /\ ready \in [Components -> BOOLEAN] /\ faulted \in [Components -> BOOLEAN] /\ eligible \in [Components -> BOOLEAN]

\* The call becomes r, with the event r publishes on the stack, or is refused.
Put(k, r) ==
  /\ call' = [call EXCEPT ![k] = r]
  /\ dispatchStack' = IF r.at \in Events THEN Append(dispatchStack, r.at) ELSE dispatchStack
Refused(k, r) ==
  /\ r.at \in Events /\ r.at \in ToSet(dispatchStack)
  /\ call' = [call EXCEPT ![k] = NoCall] /\ dispatchStack' = dispatchStack
Puts(k, r) == Shape(r) /\ (r.at \in Events => ~r.settled) /\ (Put(k, r) \/ Refused(k, r))

InTurn(k) == Main(call[k]) \/ \A j \in Callers : ~Main(call[j])

\* The loop of a shutdown is at a component only when those that depend on it run no more.
Shuts(r) ==
  r.op # "restartComponent" /\ r.at = "shutdown" =>
    \A d \in Registered : r.on \in depends[d] => instances[d] # "running"

\* Either the call alone leads the runtime, to the state its place calls for, or
\* it has no part in where the runtime is.
Leads(k, r) == InTurn(k) /\ Stage(r) = IF state' \in Rest THEN None ELSE state'
Aside(k, r) ==
  /\ Stage(r) = None /\ Stage(call[k]) = None
  /\ state' = state \/ {state, state'} \subseteq Rest
  /\ r.at \in Events => InTurn(k) \/ state \in Rest
Steers(k, r) == Control /\ InOrder => Leads(k, r) \/ Aside(k, r)

\* What every step of a call does.
Does(k) ==
  /\ \E r : Puts(k, r) /\ (Main(r) => InTurn(k)) /\ Knows(r)' /\ Shuts(r) /\ Steers(k, r)
  /\ TypesRest' /\ Untouched' /\ UNCHANGED graphVars
  /\ ~InTurn(k) => UNCHANGED <<instances, boardVars>>

\* r is f, now at e.
Moved(r, f, e) ==
  /\ r \in CallT /\ r.at = e /\ (e \in Events => ~r.settled) /\ r.op = f.op /\ r.on = f.on /\ r.todo = f.todo
  /\ r.partial = f.partial /\ r.initialized = f.initialized /\ r.failed = f.failed /\ r.unready = f.unready

LEMMA Typed ==
  ASSUME Calls
  PROVE  /\ definitions \in Seq(Components) /\ call \in [Callers -> CallT] /\ dispatchStack \in Seq(Events) /\ TypesRest
         /\ Registered \subseteq Components
         /\ \A k \in Callers : Shape(call[k]) /\ call[k] \in CallT
  <1>1. TypeOK
    BY DEF Calls
  <1>2. definitions \in Seq(Components) /\ call \in [Callers -> CallT] /\ dispatchStack \in Seq(Events) /\ TypesRest
    BY <1>1 DEF TypeOK, TypesRest, CallT
  <1> QED
    BY <1>2, SeqFacts DEF Calls, Registered

LEMMA NoCallShape == Shape(NoCall)
  <1>1. NoCall \in CallT
    BY EmptySeq DEF NoCall, CallT, Places
  <1> QED
    BY <1>1, EmptySeq DEF NoCall, Shape, PlacesOf, OperationNames, None

LEMMA PutsIs ==
  ASSUME Calls, NEW k \in Callers, NEW r, Puts(k, r)
  PROVE  /\ dispatchStack' \in Seq(Events)
         /\ \E q : Shape(q) /\ call' = [call EXCEPT ![k] = q] /\ (q = r \/ q = NoCall)
  <1>1. Shape(NoCall) /\ Shape(r)
    BY NoCallShape DEF Puts
  <1>2. dispatchStack \in Seq(Events) /\ (r.at \in Events => Append(dispatchStack, r.at) \in Seq(Events))
    BY Typed, AppendProperties
  <1>3. CASE Put(k, r)
    BY <1>1, <1>2, <1>3 DEF Put
  <1>4. CASE Refused(k, r)
    BY <1>1, <1>2, <1>4 DEF Refused
  <1> QED
    BY <1>3, <1>4 DEF Puts

LEMMA NoCallKnows == Knows(NoCall) /\ Knows(NoCall)'
  BY DEF Knows, NoCall, Booting, None

LEMMA Same ==
  ASSUME UNCHANGED <<graphVars, instances, boardVars>>
  PROVE  /\ Registered' = Registered /\ (Untouched => Untouched')
         /\ \A c : Knows(c)' <=> Knows(c)
  <1>1. /\ definitions' = definitions /\ depends' = depends /\ instances' = instances /\ lifecycle' = lifecycle
        /\ ready' = ready /\ faulted' = faulted /\ eligible' = eligible
    BY DEF graphVars, boardVars
  <1>2. Registered' = Registered
    BY <1>1 DEF Registered
  <1> QED
    BY <1>1, <1>2 DEF Untouched, Knows, Fresh, Working, Creating, Judged, Stopping, Backward

LEMMA DoesKeeps ==
  ASSUME Calls, Content, NEW k \in Callers, Does(k)
  PROVE  Calls' /\ Content'
  <1>0. PICK p : Puts(k, p) /\ (Main(p) => InTurn(k)) /\ Knows(p)'
    BY DEF Does
  <1>1. PICK r : Shape(r) /\ call' = [call EXCEPT ![k] = r] /\ (r = p \/ r = NoCall)
    BY <1>0, PutsIs
  <1>2. call \in [Callers -> CallT] /\ dispatchStack' \in Seq(Events) /\ (Main(r) => InTurn(k))
    BY <1>0, <1>1, Typed, PutsIs DEF NoCall, Main, None
  <1>3. r \in CallT
    BY <1>1 DEF Shape
  <1>4. call' \in [Callers -> CallT] /\ call'[k] = r /\ \A j \in Callers : j # k => call'[j] = call[j]
    BY <1>1, <1>2, <1>3
  <1>5. definitions' = definitions /\ depends' = depends /\ Registered' = Registered /\ TypesRest' /\ Untouched'
    BY DEF Does, graphVars, Registered
  <1>6. TypeOK'
    <2>1. definitions' \in Seq(Components) /\ depends' \in [Components -> SUBSET Components]
      BY <1>5 DEF Calls, Graph
    <2> QED
      BY <1>2, <1>4, <1>5, <2>1 DEF TypeOK, TypesRest, CallT
  <1>7. Graph'
    BY <1>5 DEF Calls, Graph
  <1>8. (\A j \in Callers : Shape(call[j]))'
    <2> SUFFICES ASSUME NEW j \in Callers PROVE Shape(call[j])'
      OBVIOUS
    <2>1. Shape(call'[j])
      BY <1>1, <1>4 DEF Calls
    <2> QED
      BY <1>5, <2>1 DEF Shape
  <1>9. Single'
    <2>1. \A j \in Callers : Main(call'[j]) => j = k \/ Main(call[j])
      BY <1>4
    <2>2. Main(call'[k]) => InTurn(k)
      BY <1>2, <1>4
    <2>3. \A i, j \in Callers : Main(call'[i]) /\ Main(call'[j]) => i = j
      BY <2>1, <2>2, <1>4 DEF Calls, Single, InTurn
    <2> QED
      BY <2>3 DEF Single, Main
  <1>10. Content'
    <2> SUFFICES ASSUME NEW j \in Callers PROVE Knows(call[j])'
      BY DEF Content
    <2>1. PICK c : c = call'[j]
      OBVIOUS
    <2>2. Knows(c)'
      <3>1. CASE j = k
        BY <1>0, <1>1, <1>4, <2>1, <3>1, NoCallKnows
      <3>2. CASE j # k /\ Main(call[j])
        <4>1. ~InTurn(k)
          BY <3>2 DEF InTurn, Calls, Single
        <4>2. UNCHANGED <<graphVars, instances, boardVars>>
          BY <4>1 DEF Does
        <4>3. Knows(c)
          BY <1>4, <2>1, <3>2 DEF Content
        <4> QED
          BY <4>2, <4>3, Same
      <3>3. CASE j # k /\ ~Main(call[j])
        <4>1. ~Main(c)
          BY <1>4, <2>1, <3>3
        <4> QED
          BY <4>1 DEF Main, Knows, Booting, None
      <3> QED
        BY <3>1, <3>2, <3>3
    <2> QED
      BY <2>1, <2>2 DEF Knows, Booting, Fresh, Working, Creating, Judged, Stopping, Backward
  <1> QED
    BY <1>5, <1>6, <1>7, <1>8, <1>9, <1>10 DEF Calls

\* The fields of a call that publishes.
LEMMA Placed ==
  ASSUME NEW f \in CallT, NEW e \in Places, NEW r, r = [f EXCEPT !.at = e, !.settled = FALSE]
  PROVE  Moved(r, f, e)
  BY DEF CallT, Moved

LEMMA MovedShape ==
  ASSUME NEW f, NEW e \in Places, NEW r, Moved(r, f, e), f.op # None, e \in PlacesOf(f.op),
         f.todo \in Seq(Registered), f.initialized \in Seq(Registered),
         e \in {"create", "initialize", "shutdown"} \/ f.op = "restartComponent" => f.on \in Registered
  PROVE  Shape(r)
  BY DEF Moved, Shape

LEMMA PublishPuts ==
  ASSUME Calls, NEW k \in Callers, NEW f \in CallT, NEW e \in Events, Publish(k, f, e),
         f.op # None, e \in PlacesOf(f.op), f.todo \in Seq(Registered), f.initialized \in Seq(Registered),
         f.op = "restartComponent" => f.on \in Registered
  PROVE  \E r : Puts(k, r) /\ Moved(r, f, e)
  <1> DEFINE r == [f EXCEPT !.at = e, !.settled = FALSE]
  <1>1. e \in Places /\ e \notin {"create", "initialize", "shutdown"}
    BY DEF Places, Events
  <1>2. Moved(r, f, e)
    BY <1>1, Placed
  <1>3. r.at = e /\ ~r.settled
    BY <1>2 DEF Moved
  <1>4. Put(k, r) \/ Refused(k, r)
    <2> HIDE DEF r
    <2>1. CASE e \in ToSet(dispatchStack)
      BY <1>3, <2>1 DEF Publish, Reject, Go, Refused
    <2>2. CASE e \notin ToSet(dispatchStack)
      <3>1. call' = [call EXCEPT ![k] = r] /\ dispatchStack' = Append(dispatchStack, e)
        BY <2>2 DEF Publish, r
      <3> QED
        BY <1>3, <3>1 DEF Put
    <2> QED
      BY <2>1, <2>2
  <1> HIDE DEF r
  <1>5. Shape(r)
    BY <1>1, <1>2, MovedShape
  <1> QED
    BY <1>2, <1>3, <1>4, <1>5 DEF Puts

LEMMA RejectPuts ==
  ASSUME Calls, NEW k \in Callers, Reject(k)
  PROVE  Puts(k, NoCall)
  <1>1. NoCall.at \notin Events /\ ~NoCall.settled
    BY DEF NoCall, Events, None
  <1> QED
    BY <1>1, NoCallShape DEF Puts, Put, Reject, Go

LEMMA GoPuts ==
  ASSUME Calls, NEW k \in Callers, NEW r, Shape(r), r.at \notin Events, Go(k, r)
  PROVE  Puts(k, r)
  BY DEF Puts, Put, Go


LEMMA Kinds ==
  ASSUME Calls, NEW k \in Callers
  PROVE  /\ call[k].at \in {"BootstrapStarted", "InitializationStarted", "InitializationCompleted",
              "ReadinessVerified", "RuntimeCertified", "RuntimeOperational", "BootstrapCompleted"} => Booting(call[k])
         /\ call[k].at \in {"create", "initialize"} => Booting(call[k]) \/ call[k].op = "restartComponent"
         /\ call[k].at = "shutdown" => call[k].op \in {"requestShutdown", "restartPlatform", "restartComponent"}
         /\ call[k].at = "RestartRequested" => call[k].op \in {"restartPlatform", "restartComponent"}
         /\ call[k].at = "ShutdownRequested" => call[k].op = "requestShutdown"
         /\ call[k].at # None => call[k].op # None
         /\ call[k].op \in OperationNames \cup {None} /\ call[k].at \in PlacesOf(call[k].op) /\ call[k] \in CallT
  <1>1. call[k] \in CallT /\ call[k].at \in PlacesOf(call[k].op) /\ (call[k].op = None => call[k] = NoCall)
    BY Typed DEF Shape
  <1>2. call[k].op \in OperationNames \cup {None}
    BY <1>1 DEF CallT
  <1>3. NoCall.at = None
    BY DEF NoCall
  <1> QED
    BY <1>1, <1>2, <1>3 DEF PlacesOf, BootPlaces, Booting, OperationNames, None

\* A call under way is in charge of the runtime's state.
LEMMA StageIs ==
  ASSUME NEW c
  PROVE  /\ Booting(c) /\ c.at = "BootstrapStarted" => Stage(c) = "booting"
         /\ Booting(c) /\ c.at \in {"InitializationStarted", "create", "initialize", "InitializationCompleted"} =>
              Stage(c) = "initializing"
         /\ Booting(c) /\ c.at \in {"ReadinessVerified", "RuntimeCertified"} => Stage(c) = "validating"
         /\ c.op = "restartPlatform" /\ c.at = "shutdown" => Stage(c) = "restarting"
         /\ c.op = "requestShutdown" /\ c.at \in {"ShutdownRequested", "shutdown"} => Stage(c) = "shutting-down"
         /\ c.op \in {"pause", "resume", "recover", "restartComponent", None} => Stage(c) = None
         /\ c.at \in {"RestartRequested", "RuntimeOperational", "BootstrapCompleted", "RuntimeFaulted",
                      "ShutdownCompleted", "RuntimePaused", "RuntimeResumed", "RuntimeRecovered", None} => Stage(c) = None
         /\ Stage(c) # None => /\ Main(c) /\ c.at \in Critical \cup {"create", "initialize", "shutdown"}
                               /\ Stage(c) \notin Rest
         /\ Stage(c) \in {"booting", "initializing", "validating", "restarting", "shutting-down", None}
  BY DEF Stage, Booting, Main, Critical, Rest, None

LEMMA InCharge ==
  ASSUME Calls, Control, NEW k \in Callers
  PROVE  /\ call[k].at = "BootstrapStarted" => state = "booting"
         /\ call[k].at \in {"InitializationStarted", "InitializationCompleted"} => state = "initializing"
         /\ Booting(call[k]) /\ call[k].at \in {"create", "initialize"} => state = "initializing"
         /\ call[k].at \in {"ReadinessVerified", "RuntimeCertified"} => state = "validating"
         /\ call[k].op = "restartPlatform" /\ call[k].at = "shutdown" => state = "restarting"
         /\ call[k].op = "requestShutdown" /\ call[k].at \in {"ShutdownRequested", "shutdown"} => state = "shutting-down"
  <1>1. PICK c : c = call[k]
    OBVIOUS
  <1>2. /\ Stage(c) # None => state = Stage(c)
        /\ c.at \in {"BootstrapStarted", "InitializationStarted", "InitializationCompleted", "ReadinessVerified",
                     "RuntimeCertified"} => Booting(c)
    BY <1>1, Kinds DEF Control, Stages
  <1> QED
    BY <1>1, <1>2, StageIs DEF None

LEMMA Continues ==
  ASSUME Calls, NEW k \in Callers, call[k].op # None, NEW e \in Events, e \in PlacesOf(call[k].op),
         Publish(k, call[k], e)
  PROVE  \E r : Puts(k, r) /\ Moved(r, call[k], e)
  <1>1. Shape(call[k]) /\ call[k] \in CallT
    BY Typed
  <1> QED
    BY <1>1, PublishPuts DEF Shape

LEMMA NoneUnderWay ==
  ASSUME OneAtATime, NEW k \in Callers, NEW op, op \notin {"pause", "resume"}, May(k, op)
  PROVE  \A j \in Callers : ~Main(call[j])
  BY DEF OneAtATime, May, Main

\* The record of a call that begins.
LEMMA Blank ==
  NoCall \in CallT /\ NoCall.todo = <<>> /\ NoCall.initialized = <<>> /\ ~NoCall.failed /\ NoCall.on = None
  BY NoCallShape DEF Shape, NoCall

LEMMA Begins ==
  ASSUME Calls, NEW k \in Callers, NEW f \in CallT, f.op # None, NEW e \in Events, e \in PlacesOf(f.op),
         f.todo = <<>>, f.initialized = <<>>, ~f.failed, f.op = "restartComponent" => f.on \in Registered,
         Publish(k, f, e)
  PROVE  \E r : Puts(k, r) /\ r.op = f.op /\ r.at = e /\ Fresh(r)
  <1>1. f.todo \in Seq(Registered) /\ f.initialized \in Seq(Registered)
    BY EmptySeq
  <1>2. \E r : Puts(k, r) /\ Moved(r, f, e)
    BY <1>1, PublishPuts
  <1> QED
    BY <1>2 DEF Moved, Fresh

LEMMA EnterIs ==
  ASSUME Calls, NEW k \in Callers, NEW op \in OperationNames, op # "restartComponent", NEW to, NEW e \in Events,
         e \in PlacesOf(op), Enter(k, op, to, e)
  PROVE  /\ \E r : Puts(k, r) /\ r.op = op /\ r.at = e /\ Fresh(r)
         /\ May(k, op) /\ call[k] = NoCall /\ Allowed(state, to) /\ state' = to
         /\ UNCHANGED <<graphVars, instances, boardVars>>
  <1>1. PICK p \in (IF op = "boot" THEN Partial ELSE {FALSE}) : Publish(k, [NoCall EXCEPT !.op = op, !.partial = p], e)
    BY DEF Enter
  <1>2. p \in BOOLEAN
    BY RuntimeAssumption
  <1>3. PICK f : f = [NoCall EXCEPT !.op = op, !.partial = p]
    OBVIOUS
  <1>4. \E r : Puts(k, r) /\ r.op = op /\ r.at = e /\ Fresh(r)
    <2>1. f \in CallT /\ f.op = op /\ f.todo = <<>> /\ f.initialized = <<>> /\ ~f.failed /\ None \in Components \cup {None}
      BY <1>2, <1>3, Blank DEF CallT
    <2>2. f.op # None /\ (f.op = "restartComponent" => f.on \in Registered)
      BY <2>1 DEF OperationNames, None
    <2>3. Publish(k, f, e)
      BY <1>1, <1>3, Zenon
    <2> QED
      BY <2>1, <2>2, <2>3, Begins
  <1> QED
    BY <1>4 DEF Enter, May

LEMMA RequestRestartIs ==
  ASSUME Calls, NEW k \in Callers, NEW op \in {"restartPlatform", "restartComponent"}, RequestRestart(k, op)
  PROVE  /\ \E r : Puts(k, r) /\ r.op = op /\ r.at = "RestartRequested" /\ Fresh(r)
         /\ May(k, op) /\ call[k] = NoCall
         /\ UNCHANGED <<graphVars, state, instances, boardVars>>
  <1>1. PICK c \in (IF op = "restartComponent" THEN Registered ELSE {None}),
             p \in (IF op = "restartComponent" THEN {FALSE} ELSE Partial) :
               Publish(k, [NoCall EXCEPT !.op = op, !.on = c, !.partial = p], "RestartRequested")
    BY DEF RequestRestart
  <1>2. p \in BOOLEAN /\ c \in Components \cup {None} /\ (op = "restartComponent" => c \in Registered)
    BY Typed, RuntimeAssumption
  <1>4. op \in OperationNames /\ "RestartRequested" \in Events /\ "RestartRequested" \in PlacesOf(op)
    BY DEF OperationNames, Events, PlacesOf, None
  <1>3. PICK f : f = [NoCall EXCEPT !.op = op, !.on = c, !.partial = p]
    OBVIOUS
  <1>5. \E r : Puts(k, r) /\ r.op = op /\ r.at = "RestartRequested" /\ Fresh(r)
    <2>1. f \in CallT /\ f.op = op /\ f.on = c /\ f.todo = <<>> /\ f.initialized = <<>> /\ ~f.failed
      BY <1>2, <1>3, <1>4, Blank DEF CallT
    <2>2. f.op # None /\ (f.op = "restartComponent" => f.on \in Registered)
      BY <1>2, <2>1 DEF None
    <2>3. Publish(k, f, "RestartRequested")
      BY <1>1, <1>3, Zenon
    <2> QED
      BY <1>4, <2>1, <2>2, <2>3, Begins
  <1> QED
    BY <1>5 DEF RequestRestart, May

LEMMA RecoverIs ==
  ASSUME Calls, NEW k \in Callers, Recover(k)
  PROVE  /\ \E r : Puts(k, r) /\ r.op = "recover" /\ r.at \in {"RuntimeRecovered", "RuntimeFaulted"}
         /\ May(k, "recover") /\ call[k] = NoCall /\ Allowed(state, "recovering")
         /\ state' \in {"operational", "faulted"}
         /\ \A f \in {ready', faulted', eligible'} : f \in [Components -> BOOLEAN]
         /\ UNCHANGED <<graphVars, instances, lifecycle>>
  <1> DEFINE held == {c \in Registered : Has(c)}
             blocked(sick, ill) == {c \in held : Blocking(c \notin sick, c \in ill)}
  <1>1. PICK sick \in SUBSET held, ill \in SUBSET held :
          /\ ready' = [c \in Components |-> IF c \in held THEN c \notin sick ELSE ready[c]]
          /\ faulted' = [c \in Components |-> IF c \in held THEN c \in ill ELSE faulted[c]]
          /\ eligible' = [c \in Components |-> IF c \in held THEN c \notin blocked(sick, ill) ELSE eligible[c]]
          /\ state' = IF blocked(sick, ill) = {} THEN "operational" ELSE "faulted"
          /\ Publish(k, [NoCall EXCEPT !.op = "recover"],
                     IF blocked(sick, ill) = {} THEN "RuntimeRecovered" ELSE "RuntimeFaulted")
    BY DEF Recover
  <1>2. ready \in [Components -> BOOLEAN] /\ faulted \in [Components -> BOOLEAN] /\ eligible \in [Components -> BOOLEAN]
    BY Typed DEF TypesRest
  <1>3. ready' \in [Components -> BOOLEAN] /\ faulted' \in [Components -> BOOLEAN] /\ eligible' \in [Components -> BOOLEAN]
    <2> HIDE DEF held, blocked
    <2>1. \A c \in Components : (IF c \in held THEN c \notin sick ELSE ready[c]) \in BOOLEAN
      BY <1>2
    <2>2. \A c \in Components : (IF c \in held THEN c \in ill ELSE faulted[c]) \in BOOLEAN
      <3> TAKE c \in Components
      <3>1. CASE c \in ill
        BY <1>2, <3>1
      <3>2. CASE c \notin ill
        <4>1. (c \in ill) = FALSE /\ faulted[c] \in BOOLEAN
          BY <1>2, <3>2
        <4> QED
          BY <4>1, Zenon
      <3> QED
        BY <3>1, <3>2
    <2>3. \A c \in Components : (IF c \in held THEN c \notin blocked(sick, ill) ELSE eligible[c]) \in BOOLEAN
      BY <1>2
    <2> QED
      BY <1>1, <2>1, <2>2, <2>3, Zenon
  <1>4. PICK e \in {"RuntimeRecovered", "RuntimeFaulted"} : Publish(k, [NoCall EXCEPT !.op = "recover"], e)
    BY <1>1
  <1>6. "recover" \in OperationNames /\ e \in Events /\ e \in PlacesOf("recover")
    BY DEF OperationNames, Events, PlacesOf, None
  <1>7. \E r : Puts(k, r) /\ r.op = "recover" /\ r.at = e /\ Fresh(r)
    <2>1. PICK f : f = [NoCall EXCEPT !.op = "recover"]
      OBVIOUS
    <2>2. f \in CallT /\ f.op = "recover" /\ f.todo = <<>> /\ f.initialized = <<>> /\ ~f.failed
      BY <1>6, <2>1, Blank DEF CallT
    <2>3. f.op # None /\ f.op # "restartComponent"
      BY <2>2 DEF None
    <2>4. Publish(k, f, e)
      BY <1>4, <2>1, Zenon
    <2> QED
      BY <1>6, <2>2, <2>3, <2>4, Begins
  <1>8. state' \in {"operational", "faulted"}
    BY <1>1
  <1> QED
    BY <1>3, <1>7, <1>8 DEF Recover, May


----------------------------------------------------------------------------
(* The loops over the components.                                              *)

\* i is the first place of s that holds a member of T; 0 if there is none.
FirstIn(s, T, i) ==
  \/ i = 0 /\ \A j \in DOMAIN s : s[j] \notin T
  \/ i \in DOMAIN s /\ s[i] \in T /\ \A j \in 1..(i - 1) : s[j] \notin T

LEMMA FirstIs ==
  ASSUME NEW S, NEW s \in Seq(S), NEW T, NEW I, I = {j \in 1..Len(s) : s[j] \in T}
  PROVE  FirstIn(s, T, IF I # {} THEN Min(I) ELSE 0)
  <1>1. Len(s) \in Nat /\ DOMAIN s = 1..Len(s)
    BY SeqFacts
  <1>2. CASE I = {}
    BY <1>1, <1>2 DEF FirstIn
  <1>3. CASE I # {}
    <2>1. I \in SUBSET Nat
      BY <1>1
    <2>2. Min(I) \in I /\ \A n \in I : Min(I) <= n
      BY <1>3, <2>1, MinIs
    <2>3. Min(I) \in 1..Len(s) /\ s[Min(I)] \in T
      BY <2>2
    <2>4. \A j \in 1..(Min(I) - 1) : j \in 1..Len(s) /\ ~(Min(I) <= j)
      BY <1>1, <2>3
    <2>5. \A j \in 1..(Min(I) - 1) : s[j] \notin T
      BY <2>2, <2>4
    <2> QED
      BY <1>1, <1>3, <2>3, <2>5 DEF FirstIn
  <1> QED
    BY <1>2, <1>3

\* A part of a sequence.
LEMMA PartFacts ==
  ASSUME NEW S, NEW s \in Seq(S), NEW m \in Nat \ {0}, NEW n \in 0..Len(s)
  PROVE  /\ SubSeq(s, m, n) \in Seq(S)
         /\ DOMAIN SubSeq(s, m, n) = 1..(n - m + 1)
         /\ \A j \in 1..(n - m + 1) : SubSeq(s, m, n)[j] = s[m + j - 1] /\ m + j - 1 \in DOMAIN s
         /\ ToSet(SubSeq(s, m, n)) = {s[j] : j \in m..n}
         /\ IsInjective(s) => IsInjective(SubSeq(s, m, n))
  <1> DEFINE t == SubSeq(s, m, n)
  <1>1. Len(s) \in Nat /\ DOMAIN s = 1..Len(s) /\ \A j \in DOMAIN s : s[j] \in S
    BY SeqFacts
  <1>2. m \in Int /\ n \in Int /\ \A j \in m..n : s[j] \in S
    BY <1>1
  <1>3. /\ t \in Seq(S) /\ Len(t) = (IF m <= n THEN n - m + 1 ELSE 0)
        /\ \A j \in 1..(n - m + 1) : t[j] = s[m + j - 1]
    BY <1>2, SubSeqProperties
  <1>4. DOMAIN t = 1..(n - m + 1)
    <2>1. DOMAIN t = 1..Len(t)
      BY <1>3, LenProperties
    <2>2. CASE m <= n
      BY <1>2, <1>3, <2>1, <2>2
    <2>3. CASE ~(m <= n)
      <3>1. 1..0 = {} /\ 1..(n - m + 1) = {}
        BY <1>2, <2>3
      <3> QED
        BY <1>3, <2>1, <2>3, <3>1
    <2> QED
      BY <2>2, <2>3
  <1> HIDE DEF t
  <1>5. \A j \in 1..(n - m + 1) : m + j - 1 \in DOMAIN s /\ m + j - 1 \in m..n
    BY <1>1, <1>2
  <1>6. \A j \in m..n : j - m + 1 \in 1..(n - m + 1) /\ t[j - m + 1] = s[j]
    <2> TAKE j \in m..n
    <2>1. j - m + 1 \in 1..(n - m + 1) /\ m + (j - m + 1) - 1 = j
      BY <1>2
    <2> QED
      BY <1>3, <2>1
  <1>7. ToSet(t) = {s[j] : j \in m..n}
    <2>1. ToSet(t) \subseteq {s[j] : j \in m..n}
      BY <1>3, <1>4, <1>5 DEF ToSet
    <2>2. {s[j] : j \in m..n} \subseteq ToSet(t)
      BY <1>4, <1>6 DEF ToSet
    <2> QED
      BY <2>1, <2>2
  <1>8. ASSUME IsInjective(s) PROVE IsInjective(t)
    <2> SUFFICES ASSUME NEW i \in DOMAIN t, NEW j \in DOMAIN t, t[i] = t[j] PROVE i = j
      BY DEF IsInjective
    <2>1. m + i - 1 \in DOMAIN s /\ m + j - 1 \in DOMAIN s /\ s[m + i - 1] = s[m + j - 1]
      BY <1>3, <1>4, <1>5
    <2>2. m + i - 1 = m + j - 1
      BY <1>8, <2>1 DEF IsInjective
    <2> QED
      BY <1>2, <1>4, <2>2
  <1> QED
    BY <1>3, <1>4, <1>5, <1>7, <1>8 DEF t

\* What is left after one of its places.
LEMMA LeftFacts ==
  ASSUME NEW S, NEW s \in Seq(S), NEW i \in DOMAIN s
  PROVE  /\ DOMAIN SubSeq(s, i + 1, Len(s)) = 1..(Len(s) - i)
         /\ \A j \in 1..(Len(s) - i) : SubSeq(s, i + 1, Len(s))[j] = s[i + j] /\ i + j \in DOMAIN s
         /\ ToSet(SubSeq(s, i + 1, Len(s))) = {s[j] : j \in (i + 1)..Len(s)}
         /\ IsInjective(s) => IsInjective(SubSeq(s, i + 1, Len(s)))
  <1> DEFINE m == i + 1
             n == Len(s)
             t == SubSeq(s, m, n)
  <1>1. m \in Nat \ {0} /\ n \in 0..Len(s) /\ i \in Nat /\ n \in Nat
    BY SeqFacts
  <1>2. n - m + 1 = n - i /\ \A j \in 1..(n - i) : m + j - 1 = i + j
    BY <1>1
  <1> HIDE DEF m, n
  <1>3. DOMAIN t = 1..(n - m + 1)
    BY <1>1, PartFacts
  <1>4. \A j \in 1..(n - m + 1) : t[j] = s[m + j - 1] /\ m + j - 1 \in DOMAIN s
    BY <1>1, PartFacts
  <1>5. ToSet(t) = {s[j] : j \in m..n}
    BY <1>1, PartFacts
  <1>6. IsInjective(s) => IsInjective(t)
    BY <1>1, PartFacts
  <1> HIDE DEF t
  <1>7. /\ DOMAIN t = 1..(n - i) /\ \A j \in 1..(n - i) : t[j] = s[i + j] /\ i + j \in DOMAIN s
    BY <1>2, <1>3, <1>4
  <1> QED
    BY <1>5, <1>6, <1>7 DEF m, n, t

\* What InitializeNext does: the components before the next one fail.
Ends(f, bad, r, failing) ==
  r.at = "InitializationCompleted" /\ r.on = None /\ r.todo = <<>> /\ failing = bad \cup ToSet(f.todo)
GoesOn(f, bad, r, failing) ==
  /\ r.at = "create"
  /\ \E i \in DOMAIN f.todo :
       /\ r.on = f.todo[i] /\ Satisfied(r.on, f.initialized)
       /\ r.todo = SubSeq(f.todo, i + 1, Len(f.todo))
       /\ failing = bad \cup {f.todo[j] : j \in 1..(i - 1)}
Visited(k, f, bad, good, r, failing) ==
  /\ Puts(k, r) /\ r.op = f.op /\ r.partial = f.partial /\ r.initialized = f.initialized
  /\ failing \in SUBSET Registered
  /\ ~r.failed => ~f.failed /\ failing = {}
  /\ Ends(f, bad, r, failing) \/ GoesOn(f, bad, r, failing)
  /\ lifecycle' = [c \in Components |-> IF c \in failing THEN "failed"
                                        ELSE IF c = r.on THEN "created"
                                        ELSE IF c \in good THEN "initialized" ELSE lifecycle[c]]
  /\ eligible' = [c \in Components |-> eligible[c] /\ c \notin failing]
  /\ UNCHANGED <<ready, faulted>>

LEMMA Visits ==
  ASSUME Calls, NEW k \in Callers, NEW f \in CallT, Booting(f), f.todo \in Seq(Registered), f.initialized \in Seq(Registered),
         NEW bad \in SUBSET Registered, NEW good, InitializeNext(k, f, bad, good)
  PROVE  \E r, failing : Visited(k, f, bad, good, r, failing)
  <1> DEFINE s == f.todo
             T == {c \in Components : Satisfied(c, f.initialized)}
             I == {j \in 1..Len(s) : Satisfied(s[j], f.initialized)}
             i == IF I # {} THEN Min(I) ELSE 0
             blocked == ToSet(IF i = 0 THEN s ELSE SubSeq(s, 1, i - 1))
             failing == bad \cup blocked
             next == IF i = 0 THEN None ELSE s[i]
             rest == IF i = 0 THEN <<>> ELSE SubSeq(s, i + 1, Len(s))
             after == [f EXCEPT !.on = next, !.failed = @ \/ failing # {}, !.todo = rest]
  <1>1. /\ lifecycle' = [c \in Components |-> IF c \in failing THEN "failed"
                                              ELSE IF c = next THEN "created"
                                              ELSE IF c \in good THEN "initialized" ELSE lifecycle[c]]
        /\ eligible' = [c \in Components |-> eligible[c] /\ c \notin failing]
        /\ UNCHANGED <<ready, faulted>>
    BY DEF InitializeNext, SelectInSeq
  <1>2. IF i = 0 THEN Publish(k, after, "InitializationCompleted") ELSE Go(k, [after EXCEPT !.at = "create"])
    BY DEF InitializeNext, SelectInSeq
  <1>3. Len(s) \in Nat /\ DOMAIN s = 1..Len(s) /\ ToSet(s) \subseteq Registered /\ Registered \subseteq Components
        /\ \A j \in DOMAIN s : s[j] \in Registered
    BY SeqFacts, Typed
  <1>4. FirstIn(s, T, i)
    <2>1. I = {j \in 1..Len(s) : s[j] \in T}
      BY <1>3
    <2> HIDE DEF I, T
    <2> QED
      BY <2>1, FirstIs
  <1> HIDE DEF i
  <1>5. i = 0 \/ (i \in 1..Len(s) /\ s[i] \in Registered /\ Satisfied(s[i], f.initialized))
    BY <1>3, <1>4 DEF FirstIn
  <1>6. rest \in Seq(Registered)
    <2>1. CASE i = 0
      BY <2>1, EmptySeq
    <2>2. CASE i # 0
      BY <1>3, <1>5, <2>2, PartFacts
    <2> QED
      BY <2>1, <2>2
  <1>7. blocked = IF i = 0 THEN ToSet(s) ELSE {s[j] : j \in 1..(i - 1)}
    <2>1. CASE i = 0
      BY <2>1
    <2>2. CASE i # 0
      <3>1. i - 1 \in 0..Len(s) /\ 1 \in Nat \ {0}
        BY <1>3, <1>5, <2>2
      <3>2. ToSet(SubSeq(s, 1, i - 1)) = {s[j] : j \in 1..(i - 1)}
        BY <3>1, PartFacts
      <3> QED
        BY <2>2, <3>2
    <2> QED
      BY <2>1, <2>2
  <1>8. failing \in SUBSET Registered
    <2>1. i # 0 => \A j \in 1..(i - 1) : j \in DOMAIN s
      BY <1>3, <1>5
    <2> QED
      BY <1>3, <1>7, <2>1
  <1> HIDE DEF rest, blocked
  <1>9. next \in Components \cup {None} /\ (i # 0 => next \in Registered)
    BY <1>3, <1>5
  <1> HIDE DEF next
  <1>10. rest \in Seq(Components)
    BY <1>3, <1>6, SeqMonotonic
  <1>11. (f.failed \/ failing # {}) \in BOOLEAN
    BY Zenon
  <1>12. /\ after \in CallT /\ after.op = f.op /\ after.on = next /\ after.todo = rest
         /\ after.partial = f.partial /\ after.initialized = f.initialized
    BY <1>9, <1>10, <1>11 DEF CallT
  <1>13. ~after.failed => ~f.failed /\ failing = {}
    BY DEF CallT
  <1> HIDE DEF after, failing
  <1>14. f.op # None /\ f.op # "restartComponent"
    BY DEF Booting, None
  <1>15. CASE i = 0
    <2>1. "InitializationCompleted" \in Events /\ "InitializationCompleted" \in PlacesOf(f.op)
      BY DEF Events, PlacesOf, BootPlaces, Booting, None
    <2>2. Publish(k, after, "InitializationCompleted")
      BY <1>2, <1>15
    <2>3. PICK r : Puts(k, r) /\ Moved(r, after, "InitializationCompleted")
      BY <1>6, <1>12, <1>14, <2>1, <2>2, PublishPuts
    <2>4. /\ r.at = "InitializationCompleted" /\ r.op = f.op /\ r.partial = f.partial /\ r.initialized = f.initialized
          /\ r.todo = <<>> /\ r.on = None /\ r.on = next /\ r.failed = after.failed
      BY <1>12, <1>15, <2>3 DEF Moved, rest, next
    <2>5. failing = bad \cup ToSet(s)
      BY <1>7, <1>15 DEF failing
    <2>6. Ends(f, bad, r, failing)
      BY <2>4, <2>5 DEF Ends
    <2>7. lifecycle' = [c \in Components |-> IF c \in failing THEN "failed"
                                             ELSE IF c = r.on THEN "created"
                                             ELSE IF c \in good THEN "initialized" ELSE lifecycle[c]]
      BY <1>1, <2>4
    <2>8. Visited(k, f, bad, good, r, failing)
      BY <1>1, <1>8, <1>13, <2>3, <2>4, <2>6, <2>7, Zenon DEF Visited
    <2> QED
      BY <2>8
  <1>16. CASE i # 0
    <2> DEFINE r == [after EXCEPT !.at = "create"]
    <2>1. /\ r \in CallT /\ r.at = "create" /\ r.op = f.op /\ r.partial = f.partial /\ r.initialized = f.initialized
          /\ r.todo = rest /\ r.on = next /\ r.failed = after.failed
      BY <1>12 DEF CallT, Places
    <2>2. Go(k, r)
      BY <1>2, <1>16
    <2> HIDE DEF r
    <2>3. "create" \notin Events /\ "create" \in PlacesOf(f.op)
      BY DEF Events, PlacesOf, BootPlaces, Booting, None
    <2>4. Shape(r)
      BY <1>6, <1>9, <1>14, <1>16, <2>1, <2>3 DEF Shape
    <2>5. Puts(k, r)
      BY <2>1, <2>2, <2>3, <2>4, GoPuts
    <2>6. failing = bad \cup {s[j] : j \in 1..(i - 1)}
      BY <1>7, <1>16 DEF failing
    <2>7. GoesOn(f, bad, r, failing)
      BY <1>3, <1>5, <1>16, <2>1, <2>6 DEF rest, next, GoesOn
    <2>8. lifecycle' = [c \in Components |-> IF c \in failing THEN "failed"
                                             ELSE IF c = r.on THEN "created"
                                             ELSE IF c \in good THEN "initialized" ELSE lifecycle[c]]
      BY <1>1, <2>1
    <2>9. Visited(k, f, bad, good, r, failing)
      BY <1>1, <1>8, <1>13, <2>1, <2>5, <2>7, <2>8, Zenon DEF Visited
    <2> QED
      BY <2>9
  <1> QED
    BY <1>15, <1>16


\* What ShutdownNext does: on to the next component that has an instance, or to
\* what follows the last one.
StopsAt(k, from, todo, r) ==
  /\ r.at = "shutdown" /\ r.op = call[k].op /\ r.initialized = call[k].initialized /\ r.failed = call[k].failed
  /\ \E i \in DOMAIN todo :
       /\ r.on = todo[i] /\ Has(todo[i]) /\ r.todo = SubSeq(todo, i + 1, Len(todo))
       /\ \A j \in 1..(i - 1) : ~Has(todo[j])
  /\ instances' = [instances EXCEPT ![r.on] = "down"]
  /\ state' = from
AllStopped(k, from, r) ==
  LET ends  == call[k].op = "requestShutdown"
      after == IF ends THEN "stopped" ELSE "booting"
  IN  /\ instances' = IF ends THEN instances ELSE [c \in Components |-> "none"]
      /\ \/ /\ Allowed(from, after) /\ state' = after
            /\ r.at = (IF ends THEN "ShutdownCompleted" ELSE "BootstrapStarted")
            /\ r.op = call[k].op /\ r.initialized = call[k].initialized /\ r.failed = call[k].failed
         \/ ~Allowed(from, after) /\ state' = from /\ r = NoCall

LEMMA Stops ==
  ASSUME Calls, NEW k \in Callers, call[k].op \in {"requestShutdown", "restartPlatform"},
         NEW from, NEW todo \in Seq(Registered), ShutdownNext(k, from, todo)
  PROVE  \E r : Puts(k, r) /\ (StopsAt(k, from, todo, r) \/ AllStopped(k, from, r))
  <1> DEFINE I == {j \in 1..Len(todo) : Has(todo[j])}
             T == {c \in Components : Has(c)}
             i == IF I # {} THEN Min(I) ELSE 0
             ends == call[k].op = "requestShutdown"
             after == IF ends THEN "stopped" ELSE "booting"
  <1>1. /\ i # 0 => /\ instances' = [instances EXCEPT ![todo[i]] = "down"]
                    /\ Go(k, [call[k] EXCEPT !.at = "shutdown", !.on = todo[i], !.todo = SubSeq(todo, i + 1, Len(todo))])
                    /\ state' = from
        /\ i = 0 => /\ instances' = IF ends THEN instances ELSE [c \in Components |-> "none"]
                    /\ IF Allowed(from, after)
                       THEN state' = after /\ Publish(k, [call[k] EXCEPT !.on = None, !.todo = <<>>],
                                                      IF ends THEN "ShutdownCompleted" ELSE "BootstrapStarted")
                       ELSE state' = from /\ Reject(k)
    BY DEF ShutdownNext, SelectInSeq
  <1>2. Len(todo) \in Nat /\ DOMAIN todo = 1..Len(todo) /\ Registered \subseteq Components
        /\ \A j \in DOMAIN todo : todo[j] \in Registered
    BY SeqFacts, Typed
  <1>3. FirstIn(todo, T, i)
    <2>1. I = {j \in 1..Len(todo) : todo[j] \in T}
      BY <1>2
    <2> HIDE DEF I, T
    <2> QED
      BY <2>1, FirstIs
  <1> HIDE DEF i
  <1>4. call[k] \in CallT /\ call[k].initialized \in Seq(Registered) /\ call[k].op # None /\ call[k].op # "restartComponent"
    BY Typed DEF Shape, None
  <1>5. CASE i # 0
    <2>1. i \in 1..Len(todo) /\ Has(todo[i]) /\ todo[i] \in Registered
      BY <1>2, <1>3, <1>5 DEF FirstIn
    <2>2. \A j \in 1..(i - 1) : ~Has(todo[j])
      <3>1. \A j \in 1..(i - 1) : j \in DOMAIN todo /\ todo[j] \in Components
        BY <1>2, <2>1
      <3> QED
        BY <1>3, <1>5, <3>1 DEF FirstIn
    <2>3. SubSeq(todo, i + 1, Len(todo)) \in Seq(Registered)
      BY <1>2, <2>1, PartFacts
    <2>4. PICK rest : rest = SubSeq(todo, i + 1, Len(todo)) /\ rest \in Seq(Registered)
      BY <2>3
    <2>12. rest \in Seq(Components)
      BY <1>2, <2>4, SeqMonotonic
    <2>5. PICK r : r = [call[k] EXCEPT !.at = "shutdown", !.on = todo[i], !.todo = rest]
      OBVIOUS
    <2>6. /\ r \in CallT /\ r.at = "shutdown" /\ r.op = call[k].op /\ r.on = todo[i] /\ r.todo = rest
          /\ r.initialized = call[k].initialized /\ r.failed = call[k].failed
      BY <1>2, <1>4, <2>1, <2>5, <2>12 DEF CallT, Places
    <2>7. "shutdown" \notin Events /\ "shutdown" \in PlacesOf(r.op)
      BY <2>6 DEF Events, PlacesOf, None
    <2>8. Shape(r)
      BY <1>4, <2>1, <2>4, <2>6, <2>7 DEF Shape
    <2>9. Go(k, r)
      BY <1>1, <1>5, <2>4, <2>5
    <2>10. Puts(k, r)
      BY <2>6, <2>7, <2>8, <2>9, GoPuts
    <2>11. StopsAt(k, from, todo, r)
      BY <1>1, <1>2, <1>5, <2>1, <2>2, <2>4, <2>6 DEF StopsAt
    <2> QED
      BY <2>10, <2>11
  <1>6. CASE i = 0 /\ ~Allowed(from, after)
    <2>1. Puts(k, NoCall)
      BY <1>1, <1>6, RejectPuts
    <2>2. AllStopped(k, from, NoCall)
      BY <1>1, <1>6 DEF AllStopped
    <2> QED
      BY <2>1, <2>2
  <1>7. CASE i = 0 /\ Allowed(from, after)
    <2>1. PICK f : f = [call[k] EXCEPT !.on = None, !.todo = <<>>]
      OBVIOUS
    <2>2. PICK e : e = IF ends THEN "ShutdownCompleted" ELSE "BootstrapStarted"
      OBVIOUS
    <2>3. f \in CallT /\ f.op = call[k].op /\ f.todo = <<>> /\ f.initialized = call[k].initialized /\ f.failed = call[k].failed
      BY <1>4, <2>1, EmptySeq DEF CallT
    <2>4. e \in Events /\ e \in PlacesOf(f.op)
      BY <2>2, <2>3 DEF Events, PlacesOf, BootPlaces, None
    <2>5. Publish(k, f, e)
      BY <1>1, <1>7, <2>1, <2>2, Zenon
    <2>6. f.todo \in Seq(Registered)
      BY <2>3, EmptySeq
    <2>7. PICK r : Puts(k, r) /\ Moved(r, f, e)
      BY <1>4, <2>3, <2>4, <2>5, <2>6, PublishPuts
    <2>8. AllStopped(k, from, r)
      BY <1>1, <1>7, <2>2, <2>3, <2>7 DEF AllStopped, Moved
    <2> QED
      BY <2>7, <2>8
  <1> QED
    BY <1>5, <1>6, <1>7


----------------------------------------------------------------------------
(* Every step keeps the types and what the calls know.                         *)

LEMMA Simple ==
  ASSUME Calls, NEW k \in Callers, NEW r, Puts(k, r), Main(r) => InTurn(k), Knows(r), state' \in States,
         r.at # "shutdown", Steers(k, r),
         UNCHANGED <<graphVars, instances, boardVars>>
  PROVE  Does(k)
  <1>1. TypesRest
    BY Typed
  <1>2. TypesRest'
    BY <1>1 DEF TypesRest, boardVars
  <1>3. Untouched' /\ Knows(r)'
    BY Same DEF Calls
  <1>4. Shuts(r)
    BY DEF Shuts
  <1> QED
    BY <1>2, <1>3, <1>4 DEF Does

LEMMA NoCallShuts == Shuts(NoCall) /\ NoCall.at # "shutdown" /\ ~Main(NoCall)
  BY DEF Shuts, NoCall, Main, None

\* A call that ends has no part in the runtime's state, or leaves it at rest.
LEMMA NoCallSteers ==
  ASSUME NEW k \in Callers,
         Control /\ InOrder => (InTurn(k) /\ state' \in Rest) \/ (Stage(call[k]) = None /\ state' = state)
  PROVE  Steers(k, NoCall)
  <1>1. Stage(NoCall) = None /\ NoCall.at \notin Events
    BY StageIs DEF NoCall, Events, None
  <1> QED
    BY <1>1 DEF Steers, Leads, Aside

LEMMA NoCallDoes ==
  ASSUME Calls, NEW k \in Callers, Reject(k), state' \in States, Steers(k, NoCall),
         UNCHANGED <<graphVars, instances, boardVars>>
  PROVE  Does(k)
  BY RejectPuts, NoCallKnows, NoCallShuts, Simple

LEMMA StateType == Calls => state \in States
  BY Typed DEF TypesRest

LEMMA EnterDoes ==
  ASSUME Calls, OneAtATime, NEW k \in Callers, NEW op \in {"boot", "requestShutdown", "pause", "resume"}, NEW to,
         to = (CASE op = "boot" -> "booting" [] op = "requestShutdown" -> "shutting-down"
                 [] op = "pause" -> "paused" [] op = "resume" -> "operational"),
         NEW e \in {"BootstrapStarted", "ShutdownRequested", "RuntimePaused", "RuntimeResumed"}, e \in PlacesOf(op),
         Enter(k, op, to, e)
  PROVE  Does(k)
  <1>1. op \in OperationNames /\ op # "restartComponent" /\ e \in Events /\ to \in States
    BY DEF OperationNames, Events, States
  <1>2. PICK r : Puts(k, r) /\ r.op = op /\ r.at = e /\ Fresh(r)
    BY <1>1, EnterIs
  <1>3. May(k, op) /\ state' = to /\ UNCHANGED <<graphVars, instances, boardVars>>
    BY <1>1, EnterIs
  <1>4. Main(r) => InTurn(k)
    BY <1>2, <1>3, NoneUnderWay DEF Main, InTurn
  <1>5. Knows(r)
    BY <1>2 DEF Knows
  <1>6. Allowed(state, to) /\ call[k] = NoCall
    BY <1>1, EnterIs
  <1>7. Steers(k, r)
    <2>1. CASE op = "boot"
      <3>1. Stage(r) = "booting" /\ Main(r)
        BY <1>2, <2>1, StageIs DEF PlacesOf, BootPlaces, Booting, Main, None
      <3> QED
        BY <1>3, <1>4, <2>1, <3>1 DEF Steers, Leads, Rest
    <2>2. CASE op = "requestShutdown"
      <3>1. Stage(r) = "shutting-down" /\ Main(r)
        BY <1>2, <2>2, StageIs DEF PlacesOf, Main, None
      <3> QED
        BY <1>3, <1>4, <2>2, <3>1 DEF Steers, Leads, Rest
    <2>3. CASE op \in {"pause", "resume"}
      <3>1. Stage(r) = None /\ Stage(call[k]) = None
        BY <1>2, <1>6, <2>3, StageIs DEF NoCall
      <3>2. {state, state'} \subseteq Rest
        BY <1>3, <1>6, <2>3, StateType DEF Allowed, Successors, States, Rest
      <3> QED
        BY <3>1, <3>2 DEF Steers, Aside
    <2> QED
      BY <2>1, <2>2, <2>3
  <1>8. r.at # "shutdown"
    BY <1>2
  <1> QED
    BY <1>1, <1>2, <1>3, <1>4, <1>5, <1>7, <1>8, Simple

LEMMA StartDoes ==
  ASSUME Calls, OneAtATime, NEW k \in Callers, Start(k)
  PROVE  Does(k)
  <1>1. CASE Boot(k)
    BY <1>1, EnterDoes DEF Boot, PlacesOf, BootPlaces, None
  <1>2. CASE RequestShutdown(k)
    BY <1>2, EnterDoes DEF RequestShutdown, PlacesOf, None
  <1>3. CASE Pause(k)
    BY <1>3, EnterDoes DEF Pause, PlacesOf, None
  <1>4. CASE Resume(k)
    BY <1>4, EnterDoes DEF Resume, PlacesOf, None
  <1>5. CASE Recover(k)
    <2>1. PICK r : Puts(k, r) /\ r.op = "recover" /\ r.at \in {"RuntimeRecovered", "RuntimeFaulted"}
      BY <1>5, RecoverIs
    <2>2. /\ May(k, "recover") /\ state' \in {"operational", "faulted"}
          /\ ready' \in [Components -> BOOLEAN] /\ faulted' \in [Components -> BOOLEAN]
          /\ eligible' \in [Components -> BOOLEAN]
          /\ UNCHANGED <<graphVars, instances, lifecycle>>
      BY <1>5, RecoverIs
    <2>3. InTurn(k)
      BY <2>2, NoneUnderWay DEF InTurn
    <2>4. Knows(r)'
      BY <2>1 DEF Knows, Booting
    <2>5. TypesRest'
      BY <2>2, Typed DEF TypesRest, States
    <2>6. Untouched'
      BY <2>2 DEF Calls, Untouched, Registered, graphVars
    <2>7. Shuts(r) /\ Stage(r) = None
      BY <2>1, StageIs DEF Shuts
    <2>8. state' \in Rest
      BY <2>2 DEF Rest
    <2>9. Steers(k, r)
      BY <2>3, <2>7, <2>8 DEF Steers, Leads
    <2> QED
      BY <2>1, <2>2, <2>3, <2>4, <2>5, <2>6, <2>7, <2>9 DEF Does
  <1>6. ASSUME NEW op \in {"restartPlatform", "restartComponent"}, RequestRestart(k, op)
        PROVE  Does(k)
    <2>1. PICK r : Puts(k, r) /\ r.op = op /\ r.at = "RestartRequested" /\ Fresh(r)
      BY <1>6, RequestRestartIs
    <2>2. May(k, op) /\ UNCHANGED <<graphVars, state, instances, boardVars>>
      BY <1>6, RequestRestartIs
    <2>3. InTurn(k)
      BY <2>2, NoneUnderWay DEF InTurn
    <2>4. Knows(r)
      BY <2>1 DEF Knows
    <2>5. Stage(r) = None /\ Stage(call[k]) = None
      <3>1. Stage(r) = None
        BY <2>1, StageIs
      <3>2. Stage(NoCall) = None
        BY StageIs DEF NoCall
      <3>3. call[k] = NoCall
        BY <1>6, RequestRestartIs
      <3> QED
        BY <3>1, <3>2, <3>3
    <2>6. Steers(k, r)
      BY <2>2, <2>3, <2>5 DEF Steers, Aside
    <2>7. r.at # "shutdown"
      BY <2>1
    <2> QED
      BY <2>1, <2>2, <2>3, <2>4, <2>6, <2>7, StateType, Simple
  <1> QED
    BY <1>1, <1>2, <1>3, <1>4, <1>5, <1>6 DEF Start

\* A call that rejects, or goes on to publish an event that ends or fails it.
LEMMA EndingDoes ==
  ASSUME Calls, NEW k \in Callers, state' \in States, UNCHANGED <<graphVars, instances, boardVars>>,
         Control /\ InOrder => state' \in Rest \/ (Stage(call[k]) = None /\ state' = state),
         Booting(call[k]),
         Reject(k) \/ \E e \in {"RuntimeFaulted", "RuntimeOperational", "BootstrapCompleted"} : Publish(k, call[k], e)
  PROVE  Does(k)
  <1>0. InTurn(k)
    BY DEF Booting, Main, InTurn, None
  <1>1. CASE Reject(k)
    <2>1. Steers(k, NoCall)
      <3>1. Control /\ InOrder => (InTurn(k) /\ state' \in Rest) \/ (Stage(call[k]) = None /\ state' = state)
        BY <1>0
      <3> QED
        BY <3>1, NoCallSteers
    <2> QED
      BY <1>1, <2>1, NoCallDoes
  <1>2. CASE \E e \in {"RuntimeFaulted", "RuntimeOperational", "BootstrapCompleted"} : Publish(k, call[k], e)
    <2>1. PICK e \in {"RuntimeFaulted", "RuntimeOperational", "BootstrapCompleted"} : Publish(k, call[k], e)
      BY <1>2
    <2>2. e \in Events /\ e \in PlacesOf(call[k].op) /\ call[k].op # None
      BY DEF Events, PlacesOf, BootPlaces, Booting, None
    <2>3. PICK r : Puts(k, r) /\ Moved(r, call[k], e)
      BY <2>1, <2>2, Continues
    <2>4. r.at = e /\ r.op = call[k].op
      BY <2>3 DEF Moved
    <2>5. Main(r) => InTurn(k)
      BY <2>4 DEF Main, InTurn
    <2>6. Knows(r)
      BY <2>4 DEF Knows, Booting
    <2>7. Stage(r) = None
      BY <2>4, StageIs
    <2>8. Steers(k, r)
      BY <1>0, <2>7 DEF Steers, Leads, Aside
    <2>9. r.at # "shutdown"
      BY <2>4
    <2> QED
      BY <2>3, <2>5, <2>6, <2>8, <2>9, Simple
  <1> QED
    BY <1>1, <1>2

LEMMA EndingsDo ==
  ASSUME Calls, NEW k \in Callers,
         \/ InitializationFails(k) \/ ReadinessFails(k) \/ Operate(k) \/ Complete(k)
         \/ RestartRefused(k) \/ ComponentThrows(k) \/ Finish(k)
  PROVE  Does(k)
  <1>1. state \in States /\ {"faulted", "operational"} \subseteq States
    BY StateType DEF States
  <1>2. ASSUME NEW e \in {"InitializationCompleted", "ReadinessVerified"}, Suspended(k, e), Fault(k),
               UNCHANGED <<graphVars, instances, boardVars>>
        PROVE  Does(k)
    <2>1. Booting(call[k])
      BY <1>2, Kinds DEF Suspended
    <2>2. state' \in States
      BY <1>1, <1>2 DEF Fault
    <2>3. Reject(k) \/ Publish(k, call[k], "RuntimeFaulted")
      BY <1>2 DEF Fault
    <2>4. Control => state' \in Rest
      BY <1>2, InCharge DEF Suspended, Fault, Allowed, Successors, Rest
    <2>5. Control /\ InOrder => state' \in Rest \/ (Stage(call[k]) = None /\ state' = state)
      BY <2>4
    <2> QED
      BY <1>2, <2>1, <2>2, <2>3, <2>5, EndingDoes
  <1>3. CASE InitializationFails(k)
    BY <1>2, <1>3 DEF InitializationFails
  <1>4. CASE ReadinessFails(k)
    BY <1>2, <1>4 DEF ReadinessFails
  <1>5. CASE Operate(k)
    <2>1. Booting(call[k])
      BY <1>5, Kinds DEF Operate, Suspended
    <2>2. state' \in States /\ UNCHANGED <<graphVars, instances, boardVars>>
      BY <1>1, <1>5 DEF Operate
    <2>3. Reject(k) \/ Publish(k, call[k], "RuntimeOperational")
      BY <1>5 DEF Operate
    <2>4. Control => state' \in Rest
      BY <1>5, InCharge DEF Operate, Suspended, Allowed, Successors, Rest
    <2>5. Control /\ InOrder => state' \in Rest \/ (Stage(call[k]) = None /\ state' = state)
      BY <2>4
    <2> QED
      BY <2>1, <2>2, <2>3, <2>5, EndingDoes
  <1>6. CASE Complete(k)
    <2>1. Booting(call[k])
      BY <1>6, Kinds DEF Complete, Suspended
    <2>2. state' \in States /\ UNCHANGED <<graphVars, instances, boardVars>> /\ Publish(k, call[k], "BootstrapCompleted")
      BY <1>1, <1>6 DEF Complete
    <2>3. Stage(call[k]) = None /\ state' = state
      BY <1>6, StageIs DEF Complete, Suspended
    <2> QED
      BY <2>1, <2>2, <2>3, EndingDoes
  <1>7. CASE RestartRefused(k)
    <2>1. Stage(call[k]) = None /\ state' = state
      BY <1>7, StageIs DEF RestartRefused, Suspended
    <2> QED
      BY <1>1, <1>7, <2>1, NoCallSteers, NoCallDoes DEF RestartRefused
  <1>8. CASE ComponentThrows(k)
    <2>1. Stage(call[k]) = None /\ state' = state
      BY <1>8, StageIs DEF ComponentThrows
    <2> QED
      BY <1>1, <1>8, <2>1, NoCallSteers, NoCallDoes DEF ComponentThrows
  <1>9. CASE Finish(k)
    <2>1. Stage(call[k]) = None /\ state' = state
      BY <1>9, StageIs DEF Finish, Suspended
    <2> QED
      BY <1>1, <1>9, <2>1, NoCallSteers, NoCallDoes DEF Finish
  <1> QED
    BY <1>3, <1>4, <1>5, <1>6, <1>7, <1>8, <1>9

LEMMA StartInitializationDoes ==
  ASSUME Calls, Content, NEW k \in Callers, StartInitialization(k)
  PROVE  Does(k)
  <1>1. Booting(call[k]) /\ Fresh(call[k]) /\ call[k].op # None
    BY Kinds DEF StartInitialization, Suspended, Content, Knows, None
  <1>2. state' \in States /\ UNCHANGED <<graphVars, instances, boardVars>>
    BY StateType DEF StartInitialization, States
  <1>5. InTurn(k) /\ (Control => state' = "initializing" /\ Allowed(state, "initializing"))
    BY <1>1, InCharge DEF StartInitialization, Suspended, Allowed, Successors, Booting, Main, InTurn, None
  <1>3. CASE ~Allowed(state, "initializing")
    <2>1. Reject(k)
      BY <1>3 DEF StartInitialization
    <2>2. Steers(k, NoCall)
      BY <1>3, <1>5 DEF Steers
    <2> QED
      BY <1>2, <2>1, <2>2, NoCallDoes
  <1>4. CASE Publish(k, call[k], "InitializationStarted")
    <2>1. "InitializationStarted" \in Events /\ "InitializationStarted" \in PlacesOf(call[k].op)
      BY <1>1 DEF Events, PlacesOf, BootPlaces, Booting, None
    <2>2. PICK r : Puts(k, r) /\ Moved(r, call[k], "InitializationStarted")
      BY <1>1, <1>4, <2>1, Continues
    <2>3. r.at = "InitializationStarted" /\ r.op = call[k].op /\ Fresh(r)
      BY <1>1, <2>2 DEF Moved, Fresh
    <2>4. Main(r) => InTurn(k)
      BY <2>3 DEF Main, InTurn
    <2>5. Knows(r)
      BY <2>3 DEF Knows
    <2>6. Stage(r) = "initializing"
      BY <1>1, <2>3, StageIs DEF Booting
    <2>7. Steers(k, r)
      BY <1>5, <2>6 DEF Steers, Leads, Rest
    <2>8. r.at # "shutdown"
      BY <2>3
    <2> QED
      BY <1>2, <2>2, <2>4, <2>5, <2>7, <2>8, Simple
  <1> QED
    BY <1>3, <1>4 DEF StartInitialization


\* On with the loop over the components, after `bad` failed or `good` was initialized.
LEMMA VisitDoes ==
  ASSUME Calls, NEW k \in Callers, Booting(call[k]), call[k].at \in {"InitializationStarted", "create", "initialize"},
         NEW f \in CallT, f.op = call[k].op,
         f.todo \in Seq(Registered), f.initialized \in Seq(Registered),
         NEW bad \in SUBSET Registered, NEW good \in SUBSET Registered, InitializeNext(k, f, bad, good),
         UNCHANGED <<graphVars, state>>,
         instances' \in [Components -> {"none", "created", "running", "down"}],
         \A c \in Components : c \notin Registered => instances'[c] = "none",
         IsInjective(f.todo), ToSet(f.todo) \cap (ToSet(f.initialized) \cup bad) = {},
         \A d \in ToSet(f.initialized) : instances'[d] = "running",
         ~f.failed => \A d \in Registered : lifecycle[d] = "failed" => d \in ToSet(f.todo)
  PROVE  Does(k)
  <1>0. Booting(f)
    BY DEF Booting
  <1>1. PICK r, failing : Visited(k, f, bad, good, r, failing)
    BY <1>0, Visits
  <1>2. /\ Puts(k, r) /\ r.op = f.op /\ r.initialized = f.initialized /\ failing \in SUBSET Registered
        /\ ~r.failed => ~f.failed /\ failing = {}
        /\ Ends(f, bad, r, failing) \/ GoesOn(f, bad, r, failing)
        /\ UNCHANGED <<ready, faulted>>
    BY <1>1 DEF Visited
  <1>3. /\ lifecycle' = [c \in Components |-> IF c \in failing THEN "failed"
                                              ELSE IF c = r.on THEN "created"
                                              ELSE IF c \in good THEN "initialized" ELSE lifecycle[c]]
        /\ eligible' = [c \in Components |-> eligible[c] /\ c \notin failing]
    BY <1>1 DEF Visited
  <1>4. /\ Registered' = Registered /\ Registered \subseteq Components /\ definitions' = definitions /\ depends' = depends
        /\ Len(f.todo) \in Nat /\ DOMAIN f.todo = 1..Len(f.todo) /\ ToSet(f.todo) \subseteq Registered
        /\ \A j \in DOMAIN f.todo : f.todo[j] \in Registered /\ f.todo[j] \in ToSet(f.todo)
    BY Typed, SeqFacts DEF graphVars, Registered
  <1>5. r.on = None \/ r.on \in Registered
    BY <1>2, <1>4 DEF Ends, GoesOn
  <1>6. TypesRest'
    <2>1. TypesRest
      BY Typed
    <2>2. lifecycle' \in [Components -> {"unregistered", "created", "initializing", "initialized", "failed", "shutdown"}]
      BY <1>3, <2>1 DEF TypesRest
    <2>3. \A c \in Components : (eligible[c] /\ c \notin failing) \in BOOLEAN
      BY Zenon
    <2>4. eligible' \in [Components -> BOOLEAN]
      BY <1>3, <2>3
    <2> QED
      BY <1>2, <2>1, <2>2, <2>4 DEF TypesRest
  <1>7. Untouched'
    <2>1. \A c \in Components : c \notin Registered => lifecycle'[c] = "unregistered"
      BY <1>2, <1>3, <1>5, RuntimeAssumption DEF Calls, Untouched
    <2> QED
      BY <1>4, <2>1 DEF Untouched
  <1>8. Booting(r) /\ Main(r) /\ InTurn(k)
    BY <1>2 DEF Booting, Main, InTurn, None
  <1>9. \A d \in Registered : lifecycle'[d] = "failed" => d \in failing \/ (d # r.on /\ lifecycle[d] = "failed")
    BY <1>3, <1>4
  <1>10. \A d \in ToSet(r.initialized) : instances'[d] = "running"
    BY <1>2
  <1>13. Shuts(r) /\ Steers(k, r)
    <2>1. r.at \in {"create", "InitializationCompleted"}
      BY <1>2 DEF Ends, GoesOn
    <2>2. Control => state' = "initializing"
      BY InCharge
    <2>3. Stage(r) = "initializing"
      BY <1>8, <2>1, StageIs
    <2> QED
      BY <1>8, <2>1, <2>2, <2>3 DEF Shuts, Steers, Leads, Rest
  <1>11. CASE Ends(f, bad, r, failing)
    <2>1. r.at = "InitializationCompleted" /\ r.todo = <<>> /\ failing = bad \cup ToSet(f.todo)
      BY <1>11 DEF Ends
    <2>2. ToSet(r.todo) = {} /\ IsInjective(r.todo)
      BY <2>1 DEF ToSet, IsInjective
    <2>3. ~r.failed => \A d \in Registered : lifecycle'[d] # "failed"
      BY <1>2, <1>9, <2>1
    <2>4. Working(r)'
      BY <1>4, <1>10, <2>2, <2>3 DEF Working
    <2>5. Judged(r)'
      BY <2>1 DEF Judged
    <2>6. Knows(r)'
      BY <2>1, <2>4, <2>5 DEF Knows
    <2> QED
      BY <1>2, <1>6, <1>7, <1>8, <1>13, <2>6 DEF Does
  <1>12. CASE GoesOn(f, bad, r, failing)
    <2>1. PICK i \in DOMAIN f.todo :
            /\ r.on = f.todo[i] /\ Satisfied(r.on, f.initialized)
            /\ r.todo = SubSeq(f.todo, i + 1, Len(f.todo))
            /\ failing = bad \cup {f.todo[j] : j \in 1..(i - 1)}
      BY <1>12 DEF GoesOn
    <2>2. ToSet(r.todo) = {f.todo[j] : j \in (i + 1)..Len(f.todo)} /\ IsInjective(r.todo)
      <3>1. PICK s \in Seq(Registered) : s = f.todo
        OBVIOUS
      <3>2. ToSet(SubSeq(s, i + 1, Len(s))) = {s[j] : j \in (i + 1)..Len(s)}
        BY <3>1, LeftFacts
      <3>3. IsInjective(SubSeq(s, i + 1, Len(s)))
        BY <3>1, LeftFacts
      <3> QED
        BY <2>1, <3>1, <3>2, <3>3, Zenon
    <2>3. ToSet(r.todo) \subseteq ToSet(f.todo)
      <3>1. \A j \in (i + 1)..Len(f.todo) : j \in DOMAIN f.todo
        BY <1>4, <2>1
      <3> QED
        BY <1>4, <2>2, <3>1
    <2>4. r.on \notin ToSet(r.todo)
      <3>1. \A j \in (i + 1)..Len(f.todo) : j \in DOMAIN f.todo /\ j # i
        BY <1>4, <2>1
      <3> QED
        BY <2>1, <2>2, <3>1 DEF IsInjective
    <2>5. r.on \notin failing
      <3>1. \A j \in 1..(i - 1) : j \in DOMAIN f.todo /\ j # i
        BY <1>4, <2>1
      <3> QED
        BY <1>4, <2>1, <3>1 DEF IsInjective
    <2>6. r.on \in Registered /\ r.on \in ToSet(f.todo)
      BY <1>4, <2>1
    <2>7. ~r.failed => \A d \in Registered : lifecycle'[d] = "failed" => d \in ToSet(r.todo)
      <3> SUFFICES ASSUME ~r.failed, NEW d \in Registered, lifecycle'[d] = "failed" PROVE d \in ToSet(r.todo)
        OBVIOUS
      <3>1. failing = {} /\ ~f.failed
        BY <1>2
      <3>2. d # r.on /\ d \in ToSet(f.todo)
        BY <1>9, <3>1
      <3>3. PICK x \in DOMAIN f.todo : f.todo[x] = d
        BY <3>2, SeqFacts
      <3>4. i = 1
        <4>1. i # 1 => 1 \in 1..(i - 1)
          BY <1>4, <2>1
        <4>2. {f.todo[j] : j \in 1..(i - 1)} = {}
          BY <2>1, <3>1
        <4>3. 1 \in 1..(i - 1) => f.todo[1] \in {f.todo[j] : j \in 1..(i - 1)}
          OBVIOUS
        <4> QED
          BY <4>1, <4>2, <4>3
      <3>5. x \in (i + 1)..Len(f.todo)
        BY <1>4, <2>1, <3>2, <3>3, <3>4
      <3> QED
        BY <2>2, <3>3, <3>5
    <2>8. Working(r)'
      BY <1>2, <1>4, <1>10, <2>2, <2>3, <2>7 DEF Working
    <2>9. lifecycle'[r.on] = "created"
      BY <1>3, <1>4, <2>5, <2>6
    <2>10. r.at = "create"
      BY <1>12 DEF GoesOn
    <2>11. depends'[r.on] \subseteq ToSet(r.initialized)
      BY <1>2, <1>4, <2>1 DEF Satisfied
    <2>12. Creating(r)'
      BY <1>2, <1>4, <2>4, <2>6, <2>9, <2>10, <2>11 DEF Creating
    <2>13. Knows(r)'
      BY <2>8, <2>10, <2>12 DEF Knows
    <2> QED
      BY <1>2, <1>6, <1>7, <1>8, <1>13, <2>13 DEF Does
  <1> QED
    BY <1>2, <1>11, <1>12

LEMMA InitializeFirstDoes ==
  ASSUME Calls, Content, NEW k \in Callers, InitializeFirst(k)
  PROVE  Does(k)
  <1>1. Booting(call[k]) /\ Fresh(call[k]) /\ call[k] \in CallT /\ call[k].at = "InitializationStarted"
    BY Kinds DEF InitializeFirst, Suspended, Content, Knows
  <1>2. CASE Ordered
    <2>1. PICK s : s = StartupOrder
      OBVIOUS
    <2>2. s \in Seq(Registered) /\ IsInjective(s) /\ ToSet(s) = Registered
      BY <1>2, <2>1, OrderIs DEF Calls
    <2>3. PICK f : f = [call[k] EXCEPT !.todo = s]
      OBVIOUS
    <2>4. s \in Seq(Components)
      BY <2>2, Typed, SeqMonotonic
    <2>5. f \in CallT /\ f.op = call[k].op /\ f.todo = s /\ f.initialized = <<>> /\ ~f.failed
      BY <1>1, <2>3, <2>4 DEF CallT, Fresh
    <2>6. InitializeNext(k, f, {}, {}) /\ UNCHANGED <<graphVars, state, instances>>
      BY <1>2, <2>1, <2>3, Zenon DEF InitializeFirst
    <2>7. f.initialized \in Seq(Registered) /\ ToSet(f.initialized) = {}
      BY <2>5, EmptySeq DEF ToSet
    <2>8. instances' \in [Components -> {"none", "created", "running", "down"}]
      BY <2>6, Typed DEF TypesRest
    <2>9. \A c \in Components : c \notin Registered => instances'[c] = "none"
      BY <2>6 DEF Calls, Untouched
    <2> QED
      BY <1>1, <2>2, <2>5, <2>6, <2>7, <2>8, <2>9, VisitDoes
  <1>3. CASE ~Ordered
    <2>1. Reject(k) /\ UNCHANGED <<graphVars, state, instances, boardVars>>
      BY <1>3 DEF InitializeFirst
    <2>2. Steers(k, NoCall)
      BY <1>3, OrderIs DEF Calls, Steers
    <2> QED
      BY <2>1, <2>2, StateType, NoCallDoes
  <1> QED
    BY <1>2, <1>3

LEMMA InitializeFailsDoes ==
  ASSUME Calls, Content, NEW k \in Callers, InitializeFails(k)
  PROVE  Does(k)
  <1>1. Booting(call[k]) /\ call[k].at \in {"create", "initialize"} /\ UNCHANGED <<graphVars, state, instances>>
        /\ InitializeNext(k, call[k], {call[k].on}, {})
    BY DEF InitializeFails, Boots, Booting
  <1>2. Working(call[k]) /\ Creating(call[k])
    BY <1>1 DEF Content, Knows
  <1>3. Shape(call[k]) /\ call[k].on \in Registered /\ call[k] \in CallT
    BY <1>1, Typed DEF Shape
  <1>4. call[k].todo \in Seq(Registered) /\ call[k].initialized \in Seq(Registered)
    BY <1>3 DEF Shape
  <1>5. instances' \in [Components -> {"none", "created", "running", "down"}]
    BY <1>1, Typed DEF TypesRest
  <1>6. \A c \in Components : c \notin Registered => instances'[c] = "none"
    BY <1>1 DEF Calls, Untouched
  <1>7. /\ IsInjective(call[k].todo) /\ ToSet(call[k].todo) \cap (ToSet(call[k].initialized) \cup {call[k].on}) = {}
        /\ \A d \in ToSet(call[k].initialized) : instances'[d] = "running"
        /\ ~call[k].failed => \A d \in Registered : lifecycle[d] = "failed" => d \in ToSet(call[k].todo)
    BY <1>1, <1>2 DEF Working, Creating
  <1>8. {call[k].on} \in SUBSET Registered /\ {} \in SUBSET Registered
    BY <1>3
  <1> QED
    BY <1>1, <1>3, <1>4, <1>5, <1>6, <1>7, <1>8, VisitDoes

LEMMA InitializeDoes ==
  ASSUME Calls, Content, NEW k \in Callers, Initialize(k)
  PROVE  Does(k)
  <1> DEFINE on == call[k].on
             done == Append(call[k].initialized, on)
  <1>1. Booting(call[k]) /\ call[k].at = "initialize" /\ UNCHANGED <<graphVars, state>> /\ instances' = Initialized(k)
    BY DEF Initialize, Boots, Booting, Suspended
  <1>2. Working(call[k]) /\ Creating(call[k]) /\ instances[on] = "created"
    BY <1>1 DEF Content, Knows, Creating
  <1>3. Shape(call[k]) /\ on \in Registered /\ call[k] \in CallT /\ Registered \subseteq Components
    BY <1>1, Typed DEF Shape
  <1>4. call[k].todo \in Seq(Registered) /\ call[k].initialized \in Seq(Registered)
    BY <1>3 DEF Shape
  <1>5. done \in Seq(Registered) /\ ToSet(done) = ToSet(call[k].initialized) \cup {on}
    BY <1>3, <1>4, AppendFacts
  <1>6. PICK f : f = [call[k] EXCEPT !.initialized = Append(@, call[k].on)]
    OBVIOUS
  <1>7. /\ f \in CallT /\ f.op = call[k].op /\ f.todo = call[k].todo /\ f.initialized = done /\ f.failed = call[k].failed
    <2>1. done \in Seq(Components)
      BY <1>3, <1>5, SeqMonotonic
    <2>2. f = [call[k] EXCEPT !.initialized = done]
      BY <1>6
    <2> HIDE DEF done
    <2> QED
      BY <1>3, <2>1, <2>2 DEF CallT
  <1>8. InitializeNext(k, f, {}, {on})
    BY <1>6, Zenon DEF Initialize
  <1> HIDE DEF done
  <1>9. instances' = [instances EXCEPT ![on] = "running"]
    BY <1>1, <1>2 DEF Initialized
  <1>10. instances' \in [Components -> {"none", "created", "running", "down"}]
    BY <1>9, Typed DEF TypesRest
  <1>11. instances'[on] = "running" /\ \A c \in Components : c # on => instances'[c] = instances[c]
    BY <1>3, <1>9, Typed DEF TypesRest
  <1>12. \A c \in Components : c \notin Registered => instances'[c] = "none"
    BY <1>3, <1>11 DEF Calls, Untouched
  <1>13. ToSet(call[k].initialized) \subseteq Registered
    BY <1>4, SeqFacts
  <1>14. /\ IsInjective(f.todo) /\ ToSet(f.todo) \cap (ToSet(f.initialized) \cup {}) = {}
         /\ \A d \in ToSet(f.initialized) : instances'[d] = "running"
         /\ ~f.failed => \A d \in Registered : lifecycle[d] = "failed" => d \in ToSet(f.todo)
    BY <1>2, <1>3, <1>5, <1>7, <1>11, <1>13 DEF Working, Creating
  <1>15. {on} \in SUBSET Registered /\ {} \in SUBSET Registered
    BY <1>3
  <1> QED
    BY <1>1, <1>4, <1>5, <1>7, <1>8, <1>10, <1>12, <1>14, <1>15, VisitDoes

LEMMA CreateDoes ==
  ASSUME Calls, Content, NEW k \in Callers, Create(k)
  PROVE  Does(k)
  <1> DEFINE on == call[k].on
  <1>1. /\ call[k].at = "create" /\ instances' = [instances EXCEPT ![on] = "created"]
        /\ lifecycle' = IF Boots(k) THEN [lifecycle EXCEPT ![on] = "initializing"] ELSE lifecycle
        /\ Go(k, [call[k] EXCEPT !.at = "initialize"])
        /\ UNCHANGED <<graphVars, state, ready, faulted, eligible>>
    BY DEF Create, Suspended
  <1>2. Shape(call[k]) /\ on \in Registered /\ call[k] \in CallT /\ Registered \subseteq Components /\ TypesRest
    BY <1>1, Typed DEF Shape
  <1>3. PICK r : r = [call[k] EXCEPT !.at = "initialize"]
    OBVIOUS
  <1>4. Moved(r, call[k], "initialize") /\ r.op = call[k].op /\ r.at = "initialize"
    BY <1>2, <1>3 DEF CallT, Moved, Places, Events
  <1>5. call[k].op # None /\ "initialize" \in PlacesOf(call[k].op) /\ "initialize" \in Places /\ "initialize" \notin Events
    BY <1>1, Kinds DEF PlacesOf, BootPlaces, Places, Events, Booting, None
  <1>6. Shape(r)
    BY <1>2, <1>4, <1>5, MovedShape DEF Shape
  <1>7. Puts(k, r)
    BY <1>1, <1>3, <1>4, <1>5, <1>6, GoPuts
  <1>8. Main(r) /\ InTurn(k)
    BY <1>1, <1>4, Kinds DEF Main, InTurn, Booting, None
  <1>9. instances'[on] = "created" /\ \A c \in Components : c # on => instances'[c] = instances[c]
    BY <1>1, <1>2 DEF TypesRest
  <1>10. \A c \in Components : c # on => lifecycle'[c] = lifecycle[c]
    BY <1>1, <1>2 DEF TypesRest
  <1>11. TypesRest'
    BY <1>1, <1>2 DEF TypesRest
  <1>12. Untouched' /\ Registered' = Registered
    BY <1>1, <1>2, <1>9, <1>10 DEF Calls, Untouched, Registered, graphVars
  <1>13. Knows(r)'
    <2>1. CASE Booting(call[k])
      <3>1. Working(call[k]) /\ Creating(call[k])
        BY <1>1, <2>1 DEF Content, Knows
      <3>2. lifecycle'[on] = "initializing"
        BY <1>1, <1>2, <2>1 DEF TypesRest, Boots, Booting
      <3>3. /\ r.on = on /\ r.todo = call[k].todo /\ r.initialized = call[k].initialized /\ r.failed = call[k].failed
        BY <1>4 DEF Moved
      <3>4. ToSet(r.initialized) \subseteq Registered
        BY <1>2, <3>3, SeqFacts DEF Shape
      <3>5. Working(r)'
        BY <1>2, <1>9, <1>10, <1>12, <3>1, <3>2, <3>3, <3>4 DEF Working, Creating
      <3>6. Creating(r)'
        BY <1>1, <1>9, <3>1, <3>2, <3>3 DEF Creating, graphVars
      <3> QED
        BY <1>4, <3>5, <3>6 DEF Knows
    <2>2. CASE ~Booting(call[k])
      <3>1. call[k].op = "restartComponent"
        BY <1>1, <2>2, Kinds
      <3> QED
        BY <1>4, <3>1 DEF Knows, Booting
    <2> QED
      BY <2>1, <2>2
  <1>14. Shuts(r) /\ Steers(k, r)
    <2>1. CASE Booting(call[k])
      <3>1. Control => state' = "initializing"
        BY <1>1, <2>1, InCharge
      <3>2. Stage(r) = "initializing"
        BY <1>4, <2>1, StageIs DEF Booting
      <3> QED
        BY <1>4, <1>8, <3>1, <3>2 DEF Shuts, Steers, Leads, Rest
    <2>2. CASE ~Booting(call[k])
      <3>1. call[k].op = "restartComponent"
        BY <1>1, <2>2, Kinds
      <3>2. Stage(r) = None /\ Stage(call[k]) = None
        BY <1>4, <3>1, StageIs
      <3> QED
        BY <1>1, <1>4, <1>5, <3>1, <3>2 DEF Shuts, Steers, Aside
    <2> QED
      BY <2>1, <2>2
  <1> QED
    BY <1>1, <1>7, <1>8, <1>11, <1>12, <1>13, <1>14 DEF Does



\* The components a boot initialized still have an instance when it checks them.
LEMMA ValidateIs ==
  ASSUME Calls, Content, NEW k \in Callers, Validate(k), Allowed(state, "validating")
  PROVE  /\ Booting(call[k]) /\ Working(call[k]) /\ Judged(call[k]) /\ call[k].at = "InitializationCompleted"
         /\ ~call[k].failed \/ call[k].partial
         /\ state' = "validating" /\ UNCHANGED <<graphVars, instances, lifecycle, eligible>>
         /\ ready' \in [Components -> BOOLEAN] /\ faulted' \in [Components -> BOOLEAN]
         /\ \E r : /\ Puts(k, r) /\ r.op = call[k].op /\ r.at = "ReadinessVerified" /\ r.todo = call[k].todo
                   /\ r.initialized = call[k].initialized /\ r.failed = call[k].failed /\ r.partial = call[k].partial
                   /\ ~r.unready => \A d \in ToSet(call[k].initialized) : ready'[d]
  <1> DEFINE done == call[k].initialized
             I == {i \in 1..Len(done) : ~Has(done[i])}
             gone == IF I # {} THEN Min(I) ELSE 0
             checked(stop) == ToSet(IF stop = 0 THEN done ELSE SubSeq(done, 1, stop - 1))
  <1>1. Booting(call[k]) /\ call[k].at = "InitializationCompleted"
    BY Kinds DEF Validate, Suspended
  <1>2. Working(call[k]) /\ Judged(call[k])
    BY <1>1 DEF Content, Knows
  <1>3. Shape(call[k]) /\ call[k] \in CallT /\ done \in Seq(Registered) /\ Registered \subseteq Components
    BY Typed DEF Shape
  <1>4. gone = 0
    <2>1. \A i \in 1..Len(done) : done[i] \in ToSet(done)
      BY <1>3, SeqFacts
    <2>2. \A i \in 1..Len(done) : Has(done[i])
      BY <1>2, <2>1 DEF Working, Has
    <2> QED
      BY <2>2
  <1>5. PICK stop \in (IF gone = 0 THEN {0} ELSE {0, gone}) :
          \E sick, ill \in SUBSET checked(stop) :
            /\ ready' = [c \in Components |-> IF c \in checked(stop) THEN c \notin sick ELSE ready[c]]
            /\ faulted' = [c \in Components |-> IF c \in checked(stop) THEN c \in ill ELSE faulted[c]]
            /\ IF stop # 0 THEN Reject(k)
               ELSE Publish(k, [call[k] EXCEPT !.unready = sick # {}], "ReadinessVerified")
    BY DEF Validate, SelectInSeq
  <1>6. stop = 0 /\ checked(stop) = ToSet(done)
    BY <1>4, <1>5
  <1> HIDE DEF gone
  <1>7. PICK sick \in SUBSET ToSet(done), ill \in SUBSET ToSet(done) :
          /\ ready' = [c \in Components |-> IF c \in ToSet(done) THEN c \notin sick ELSE ready[c]]
          /\ faulted' = [c \in Components |-> IF c \in ToSet(done) THEN c \in ill ELSE faulted[c]]
          /\ Publish(k, [call[k] EXCEPT !.unready = sick # {}], "ReadinessVerified")
    BY <1>5, <1>6
  <1>8. ready \in [Components -> BOOLEAN] /\ faulted \in [Components -> BOOLEAN]
    BY Typed DEF TypesRest
  <1> HIDE DEF done
  <1>9. ready' \in [Components -> BOOLEAN] /\ faulted' \in [Components -> BOOLEAN]
    <2>1. \A c \in Components : (IF c \in ToSet(done) THEN c \notin sick ELSE ready[c]) \in BOOLEAN
      BY <1>8
    <2>2. \A c \in Components : (IF c \in ToSet(done) THEN c \in ill ELSE faulted[c]) \in BOOLEAN
      <3> TAKE c \in Components
      <3>1. CASE c \in ill
        BY <1>8, <3>1
      <3>2. CASE c \notin ill
        <4>1. (c \in ill) = FALSE /\ faulted[c] \in BOOLEAN
          BY <1>8, <3>2
        <4> QED
          BY <4>1, Zenon
      <3> QED
        BY <3>1, <3>2
    <2> QED
      BY <1>7, <2>1, <2>2, Zenon
  <1>10. PICK u \in BOOLEAN : u = (sick # {})
    OBVIOUS
  <1>11. PICK f : f = [call[k] EXCEPT !.unready = u]
    OBVIOUS
  <1>12. /\ f \in CallT /\ f.op = call[k].op /\ f.todo = call[k].todo /\ f.initialized = call[k].initialized
         /\ f.failed = call[k].failed /\ f.partial = call[k].partial /\ f.unready = u /\ f.on = call[k].on
    BY <1>3, <1>11 DEF CallT
  <1>13. Publish(k, f, "ReadinessVerified")
    BY <1>7, <1>10, <1>11
  <1>14. f.op # None /\ f.op # "restartComponent" /\ "ReadinessVerified" \in Events /\ "ReadinessVerified" \in PlacesOf(f.op)
    BY <1>1, <1>12 DEF Booting, Events, PlacesOf, BootPlaces, None
  <1>15. PICK r : Puts(k, r) /\ Moved(r, f, "ReadinessVerified")
    BY <1>3, <1>12, <1>13, <1>14, PublishPuts DEF Shape
  <1>16. ~u => \A d \in ToSet(done) : ready'[d]
    <2>1. ToSet(done) \subseteq Components
      BY <1>3, SeqFacts DEF done
    <2> QED
      BY <1>7, <1>10, <2>1
  <1>17. ~call[k].failed \/ call[k].partial
    BY DEF Validate, Tolerates
  <1>18. state' = "validating" /\ UNCHANGED <<graphVars, instances, lifecycle, eligible>>
    BY DEF Validate
  <1>19. /\ r.op = call[k].op /\ r.at = "ReadinessVerified" /\ r.todo = call[k].todo
         /\ r.initialized = call[k].initialized /\ r.failed = call[k].failed /\ r.partial = call[k].partial
         /\ ~r.unready => \A d \in ToSet(call[k].initialized) : ready'[d]
    BY <1>12, <1>15, <1>16 DEF Moved, done
  <1> QED
    BY <1>1, <1>2, <1>9, <1>15, <1>17, <1>18, <1>19

LEMMA ValidateDoes ==
  ASSUME Calls, Content, NEW k \in Callers, Validate(k)
  PROVE  Does(k)
  <1>1. CASE ~Allowed(state, "validating")
    <2>1. Reject(k) /\ UNCHANGED <<graphVars, state, instances, boardVars>>
      BY <1>1 DEF Validate, boardVars
    <2>2. ~Control
      BY <1>1, InCharge DEF Validate, Suspended, Allowed, Successors
    <2>3. Steers(k, NoCall)
      BY <2>2 DEF Steers
    <2> QED
      BY <2>1, <2>3, StateType, NoCallDoes
  <1>2. CASE Allowed(state, "validating")
    <2>1. /\ Booting(call[k]) /\ Working(call[k]) /\ Judged(call[k]) /\ call[k].at = "InitializationCompleted"
          /\ ~call[k].failed \/ call[k].partial
          /\ state' = "validating" /\ UNCHANGED <<graphVars, instances, lifecycle, eligible>>
          /\ ready' \in [Components -> BOOLEAN] /\ faulted' \in [Components -> BOOLEAN]
      BY <1>2, ValidateIs
    <2>2. PICK r : /\ Puts(k, r) /\ r.op = call[k].op /\ r.at = "ReadinessVerified" /\ r.todo = call[k].todo
                   /\ r.initialized = call[k].initialized /\ r.failed = call[k].failed /\ r.partial = call[k].partial
                   /\ ~r.unready => \A d \in ToSet(call[k].initialized) : ready'[d]
      BY <1>2, ValidateIs
    <2>3. definitions' = definitions /\ Registered' = Registered
      BY <2>1 DEF graphVars, Registered
    <2>4. Working(r)'
      BY <2>1, <2>2, <2>3 DEF Working
    <2>5. Judged(r)'
      BY <2>1, <2>2 DEF Judged
    <2>6. Knows(r)'
      BY <2>2, <2>4, <2>5 DEF Knows
    <2>7. Main(r) /\ InTurn(k)
      BY <2>1, <2>2 DEF Booting, Main, InTurn, None
    <2>8. TypesRest'
      BY <2>1, Typed DEF TypesRest, States
    <2>9. Untouched'
      BY <2>1, <2>3 DEF Calls, Untouched
    <2>10. Stage(r) = "validating"
      BY <2>1, <2>2, StageIs DEF Booting
    <2>11. Shuts(r) /\ Steers(k, r)
      BY <2>1, <2>2, <2>7, <2>10 DEF Shuts, Steers, Leads, Rest
    <2> QED
      BY <2>1, <2>2, <2>6, <2>7, <2>8, <2>9, <2>11 DEF Does
  <1> QED
    BY <1>1, <1>2

LEMMA CertifyDoes ==
  ASSUME Calls, Content, NEW k \in Callers, Certify(k)
  PROVE  Does(k)
  <1> DEFINE pool == {c \in ToSet(call[k].initialized) : ready[c]}
             blocked == {c \in pool : Blocking(ready[c], faulted[c])}
  <1>1. /\ eligible' = [c \in Components |-> IF c \in pool THEN c \notin blocked ELSE eligible[c]]
        /\ IF blocked = {} THEN Publish(k, call[k], "RuntimeCertified") /\ UNCHANGED state ELSE Fault(k)
        /\ ~call[k].unready \/ call[k].partial
        /\ call[k].at = "ReadinessVerified"
        /\ UNCHANGED <<graphVars, instances, lifecycle, ready, faulted>>
    BY DEF Certify, Tolerates, Suspended
  <1>2. Booting(call[k]) /\ Working(call[k]) /\ Judged(call[k])
    BY <1>1, Kinds DEF Content, Knows
  <1>3. Shape(call[k]) /\ call[k] \in CallT /\ call[k].initialized \in Seq(Registered) /\ Registered \subseteq Components
    BY Typed DEF Shape
  <1>4. TypesRest
    BY Typed
  <1>5. eligible' \in [Components -> BOOLEAN]
    <2> HIDE DEF pool, blocked
    <2>1. \A c \in Components : (IF c \in pool THEN c \notin blocked ELSE eligible[c]) \in BOOLEAN
      BY <1>4 DEF TypesRest
    <2> QED
      BY <1>1, <2>1, Zenon
  <1>6. definitions' = definitions /\ Registered' = Registered
    BY <1>1 DEF graphVars, Registered
  <1>7. Untouched'
    BY <1>1, <1>6 DEF Calls, Untouched
  <1>8. InTurn(k)
    BY <1>2 DEF Booting, Main, InTurn, None
  <1>9. CASE blocked = {}
    <2>1. call[k].op # None /\ "RuntimeCertified" \in Events /\ "RuntimeCertified" \in PlacesOf(call[k].op)
      BY <1>2 DEF Booting, Events, PlacesOf, BootPlaces, None
    <2>2. PICK r : Puts(k, r) /\ Moved(r, call[k], "RuntimeCertified")
      BY <1>1, <1>9, <2>1, Continues
    <2>3. /\ r.op = call[k].op /\ r.at = "RuntimeCertified" /\ r.todo = call[k].todo /\ r.partial = call[k].partial
          /\ r.initialized = call[k].initialized /\ r.failed = call[k].failed /\ r.unready = call[k].unready
      BY <2>2 DEF Moved
    <2>4. Working(r)'
      BY <1>1, <1>2, <1>6, <2>3 DEF Working
    <2>5. ~call[k].partial => \A d \in ToSet(call[k].initialized) : ready[d] /\ eligible'[d]
      <3>1. ToSet(call[k].initialized) \subseteq Components
        BY <1>3, SeqFacts
      <3> QED
        BY <1>1, <1>2, <1>9, <3>1 DEF Judged
    <2>6. Judged(r)'
      BY <1>1, <1>2, <2>3, <2>5 DEF Judged
    <2>7. Knows(r)'
      BY <2>3, <2>4, <2>6 DEF Knows
    <2>8. TypesRest'
      BY <1>1, <1>4, <1>5, <1>9 DEF TypesRest
    <2>9. Control => state' = "validating"
      BY <1>1, <1>9, InCharge
    <2>10. Stage(r) = "validating"
      BY <1>2, <2>3, StageIs DEF Booting
    <2>11. Shuts(r) /\ Steers(k, r)
      BY <1>8, <2>3, <2>9, <2>10 DEF Shuts, Steers, Leads, Rest
    <2> QED
      BY <1>1, <1>7, <1>8, <2>2, <2>7, <2>8, <2>11 DEF Does
  <1>10. CASE blocked # {}
    <2>1. Fault(k)
      BY <1>1, <1>10
    <2>2. state' \in States
      BY <1>4, <2>1 DEF Fault, TypesRest, States
    <2>3. TypesRest'
      BY <1>1, <1>4, <1>5, <2>2 DEF TypesRest
    <2>6. Control => state' \in Rest
      BY <1>1, <2>1, InCharge DEF Fault, Allowed, Successors, Rest
    <2>4. CASE Reject(k)
      <3>1. Control /\ InOrder => (InTurn(k) /\ state' \in Rest) \/ (Stage(call[k]) = None /\ state' = state)
        BY <1>8, <2>6
      <3>2. Steers(k, NoCall)
        BY <3>1, NoCallSteers
      <3> QED
        BY <1>1, <1>7, <1>8, <2>3, <2>4, <3>2, RejectPuts, NoCallKnows, NoCallShuts DEF Does
    <2>5. CASE Publish(k, call[k], "RuntimeFaulted")
      <3>1. call[k].op # None /\ "RuntimeFaulted" \in Events /\ "RuntimeFaulted" \in PlacesOf(call[k].op)
        BY <1>2 DEF Booting, Events, PlacesOf, BootPlaces, None
      <3>2. PICK r : Puts(k, r) /\ Moved(r, call[k], "RuntimeFaulted")
        BY <2>5, <3>1, Continues
      <3>3. r.at = "RuntimeFaulted" /\ r.op = call[k].op
        BY <3>2 DEF Moved
      <3>4. Knows(r)'
        BY <1>2, <3>3 DEF Knows, Booting
      <3>5. Stage(r) = None
        BY <3>3, StageIs
      <3>6. Shuts(r) /\ Steers(k, r)
        BY <1>8, <2>6, <3>3, <3>5 DEF Shuts, Steers, Leads
      <3> QED
        BY <1>1, <1>7, <1>8, <2>3, <3>2, <3>4, <3>6 DEF Does
    <2> QED
      BY <2>1, <2>4, <2>5 DEF Fault
  <1> QED
    BY <1>9, <1>10


\* The order of a shutdown: every component before those it depends on.
LEMMA ShutdownOrderIs ==
  ASSUME Calls, Ordered
  PROVE  ShutdownOrder \in Seq(Registered) /\ ToSet(ShutdownOrder) = Registered /\ Backward(ShutdownOrder)
  <1>1. PICK s : s = StartupOrder
    OBVIOUS
  <1>2. /\ s \in Seq(Registered) /\ IsInjective(s) /\ ToSet(s) = Registered
        /\ \A i \in DOMAIN s : \A d \in depends[s[i]] : \E j \in 1..(i - 1) : s[j] = d
    BY <1>1, OrderIs DEF Calls
  <1>3. PICK n \in Nat : n = Len(s) /\ DOMAIN s = 1..n
    BY <1>2, SeqFacts
  <1>4. PICK t : t = [i \in 1..n |-> s[(n - i) + 1]]
    OBVIOUS
  <1>5. ShutdownOrder = t
    BY <1>1, <1>3, <1>4 DEF ShutdownOrder, Reverse
  <1>6. \A i \in 1..n : (n - i) + 1 \in 1..n /\ t[i] = s[(n - i) + 1] /\ t[i] \in Registered
    <2> TAKE i \in 1..n
    <2>1. (n - i) + 1 \in 1..n
      OBVIOUS
    <2>2. s[(n - i) + 1] \in Registered
      BY <1>2, <1>3, <2>1, SeqFacts
    <2> QED
      BY <1>4, <2>1, <2>2
  <1>7. t \in Seq(Registered) /\ DOMAIN t = 1..n
    BY <1>4, <1>6, IsASeq
  <1>8. ToSet(t) = Registered
    <2>1. ToSet(t) \subseteq Registered
      BY <1>6, <1>7 DEF ToSet
    <2>2. ASSUME NEW c \in Registered PROVE c \in ToSet(t)
      <3>1. PICK j \in 1..n : s[j] = c
        BY <1>2, <1>3, SeqFacts
      <3>2. (n - j) + 1 \in 1..n /\ (n - ((n - j) + 1)) + 1 = j
        BY <3>1
      <3>3. t[(n - j) + 1] = c
        BY <1>4, <3>1, <3>2
      <3> QED
        BY <1>7, <3>2, <3>3 DEF ToSet
    <2> QED
      BY <2>1, <2>2
  <1>9. Backward(t)
    <2> SUFFICES ASSUME NEW i \in 1..n, NEW j \in 1..n, t[i] \in depends[t[j]] PROVE j < i
      BY <1>7 DEF Backward
    <2>1. (n - i) + 1 \in 1..n /\ (n - j) + 1 \in 1..n
      BY <1>6
    <2>2. PICK m \in 1..(((n - j) + 1) - 1) : s[m] = s[(n - i) + 1]
      BY <1>2, <1>3, <1>6, <2>1
    <2>3. m \in 1..n
      BY <2>2
    <2>4. m = (n - i) + 1
      BY <1>2, <1>3, <2>1, <2>2, <2>3 DEF IsInjective
    <2> QED
      BY <2>2, <2>4
  <1> QED
    BY <1>5, <1>7, <1>8, <1>9


\* On with the loop of a shutdown.
LEMMA StopDoes ==
  ASSUME Calls, NEW k \in Callers, call[k].op \in {"requestShutdown", "restartPlatform"},
         Booting(call[k]) => Fresh(call[k]),
         NEW from \in States, NEW todo \in Seq(Registered), ShutdownNext(k, from, todo),
         Control => from = IF call[k].op = "requestShutdown" THEN "shutting-down" ELSE "restarting",
         Backward(todo), \A d \in Components : instances[d] = "running" => d \in ToSet(todo),
         lifecycle' \in [Components -> {"unregistered", "created", "initializing", "initialized", "failed", "shutdown"}],
         eligible' \in [Components -> BOOLEAN],
         \A c \in Components : c \notin Registered => lifecycle'[c] = lifecycle[c],
         UNCHANGED <<graphVars, ready, faulted>>
  PROVE  Does(k)
  <1>1. PICK r : Puts(k, r) /\ (StopsAt(k, from, todo, r) \/ AllStopped(k, from, r))
    BY Stops
  <1>2. definitions' = definitions /\ depends' = depends /\ Registered' = Registered /\ Registered \subseteq Components
        /\ TypesRest
    BY Typed DEF graphVars, Registered
  <1>3. InTurn(k)
    BY DEF InTurn, Main, None
  <1>4. Len(todo) \in Nat /\ DOMAIN todo = 1..Len(todo)
        /\ \A j \in DOMAIN todo : todo[j] \in Registered /\ todo[j] \in ToSet(todo)
    BY SeqFacts
  <1>5. CASE StopsAt(k, from, todo, r)
    <2>1. /\ r.at = "shutdown" /\ r.op = call[k].op /\ r.initialized = call[k].initialized /\ r.failed = call[k].failed
          /\ instances' = [instances EXCEPT ![r.on] = "down"] /\ state' = from
      BY <1>5 DEF StopsAt
    <2>2. PICK i \in DOMAIN todo :
            /\ r.on = todo[i] /\ Has(todo[i]) /\ r.todo = SubSeq(todo, i + 1, Len(todo))
            /\ \A j \in 1..(i - 1) : ~Has(todo[j])
      BY <1>5 DEF StopsAt
    <2>3. PICK t : t = SubSeq(todo, i + 1, Len(todo))
      OBVIOUS
    <2>5. /\ DOMAIN t = 1..(Len(todo) - i)
          /\ \A j \in 1..(Len(todo) - i) : t[j] = todo[i + j] /\ i + j \in DOMAIN todo
          /\ ToSet(t) = {todo[j] : j \in (i + 1)..Len(todo)}
      <3>1. /\ DOMAIN SubSeq(todo, i + 1, Len(todo)) = 1..(Len(todo) - i)
            /\ \A j \in 1..(Len(todo) - i) : SubSeq(todo, i + 1, Len(todo))[j] = todo[i + j] /\ i + j \in DOMAIN todo
        BY LeftFacts
      <3>2. ToSet(SubSeq(todo, i + 1, Len(todo))) = {todo[j] : j \in (i + 1)..Len(todo)}
        BY LeftFacts
      <3> QED
        BY <2>3, <3>1, <3>2
    <2>6. Backward(t)
      <3> SUFFICES ASSUME NEW x \in DOMAIN t, NEW y \in DOMAIN t, t[x] \in depends[t[y]] PROVE y < x
        BY DEF Backward
      <3>1. i + x \in DOMAIN todo /\ i + y \in DOMAIN todo /\ t[x] = todo[i + x] /\ t[y] = todo[i + y]
        BY <2>5
      <3>2. i + y < i + x
        BY <3>1 DEF Backward
      <3> QED
        BY <1>4, <2>5, <3>2
    <2>7. ASSUME NEW d \in Components, instances'[d] = "running" PROVE d \in ToSet(t)
      <3>1. r.on \in Registered /\ d # r.on /\ instances[d] = "running"
        BY <1>2, <1>4, <2>1, <2>2, <2>7 DEF TypesRest
      <3>2. PICK j \in DOMAIN todo : todo[j] = d
        BY <3>1, SeqFacts
      <3>3. Has(d)
        BY <3>1 DEF Has
      <3>4. j \notin 1..(i - 1) /\ j # i
        BY <2>2, <3>1, <3>2, <3>3
      <3>5. j \in (i + 1)..Len(todo)
        BY <1>4, <3>2, <3>4
      <3> QED
        BY <2>5, <3>2, <3>5
    <2>8. Stopping(r)'
      BY <1>2, <2>2, <2>3, <2>6, <2>7 DEF Stopping, Backward
    <2>9. Booting(r) => Fresh(r)
      BY <2>1 DEF Booting, Fresh
    <2>10. Knows(r)'
      BY <2>1, <2>8, <2>9 DEF Knows, Fresh
    <2>11. TypesRest'
      BY <1>2, <2>1 DEF TypesRest
    <2>12. Untouched'
      BY <1>2, <1>4, <2>1, <2>2 DEF Calls, Untouched, TypesRest
    <2>13. Shuts(r)
      <3> SUFFICES ASSUME NEW d \in Registered, r.on \in depends[d], instances[d] = "running" PROVE FALSE
        BY DEF Shuts
      <3>1. PICK j \in DOMAIN todo : todo[j] = d
        BY <1>2, SeqFacts
      <3>2. i < j \/ j = i \/ j \in 1..(i - 1)
        BY <1>4, <2>2, <3>1
      <3>3. j < i
        BY <2>2, <3>1 DEF Backward
      <3> QED
        BY <1>4, <2>2, <3>1, <3>2, <3>3 DEF Has
    <2>14. Stage(r) = IF call[k].op = "requestShutdown" THEN "shutting-down" ELSE "restarting"
      BY <2>1, StageIs
    <2>15. Steers(k, r)
      BY <1>3, <2>1, <2>14 DEF Steers, Leads, Rest
    <2> QED
      BY <1>1, <1>3, <2>10, <2>11, <2>12, <2>13, <2>15 DEF Does
  <1>6. CASE AllStopped(k, from, r)
    <2>1. state' \in States /\ instances' = IF call[k].op = "requestShutdown" THEN instances ELSE [c \in Components |-> "none"]
      BY <1>6 DEF AllStopped, States
    <2>2. instances' \in [Components -> {"none", "created", "running", "down"}]
          /\ \A c \in Components : c \notin Registered => instances'[c] = "none"
      BY <1>2, <2>1 DEF TypesRest, Calls, Untouched
    <2>3. TypesRest'
      BY <1>2, <2>1, <2>2 DEF TypesRest
    <2>4. Untouched'
      BY <1>2, <2>2 DEF Calls, Untouched
    <2>5. Knows(r)'
      <3>1. CASE r = NoCall
        BY <3>1, NoCallKnows
      <3>2. CASE r # NoCall
        <4>1. /\ r.at = (IF call[k].op = "requestShutdown" THEN "ShutdownCompleted" ELSE "BootstrapStarted")
              /\ r.op = call[k].op /\ r.initialized = call[k].initialized /\ r.failed = call[k].failed
          BY <1>6, <3>2 DEF AllStopped
        <4>2. Booting(r) => Fresh(r)
          BY <4>1 DEF Booting, Fresh
        <4> QED
          BY <4>1, <4>2 DEF Knows, Fresh, Booting
      <3> QED
        BY <3>1, <3>2
    <2>6. Shuts(r)
      BY <1>6, NoCallShuts DEF AllStopped, Shuts
    <2>7. Steers(k, r)
      <3> SUFFICES ASSUME Control, InOrder PROVE Leads(k, r)
        BY DEF Steers
      <3>1. CASE call[k].op = "requestShutdown"
        <4>1. from = "shutting-down" /\ Allowed(from, "stopped")
          BY <3>1 DEF Allowed, Successors
        <4>2. state' = "stopped" /\ r.at = "ShutdownCompleted"
          BY <1>6, <3>1, <4>1 DEF AllStopped
        <4> QED
          BY <1>3, <4>2, StageIs DEF Leads, Rest
      <3>2. CASE call[k].op = "restartPlatform"
        <4>1. from = "restarting" /\ Allowed(from, "booting")
          BY <3>2 DEF Allowed, Successors
        <4>2. state' = "booting" /\ r.at = "BootstrapStarted" /\ r.op = "restartPlatform"
          BY <1>6, <3>2, <4>1 DEF AllStopped
        <4>3. Stage(r) = "booting"
          BY <4>2, StageIs DEF Booting
        <4> QED
          BY <1>3, <4>2, <4>3 DEF Leads, Rest
      <3> QED
        BY <3>1, <3>2
    <2> QED
      BY <1>1, <1>3, <2>3, <2>4, <2>5, <2>6, <2>7 DEF Does
  <1> QED
    BY <1>1, <1>5, <1>6

LEMMA ShutdownFirstDoes ==
  ASSUME Calls, NEW k \in Callers, call[k].op \in {"requestShutdown", "restartPlatform"},
         Booting(call[k]) => Fresh(call[k]), NEW from \in States, ShutdownFirst(k, from),
         Control => from = IF call[k].op = "requestShutdown" THEN "shutting-down" ELSE "restarting"
  PROVE  Does(k)
  <1>1. UNCHANGED <<graphVars, boardVars>>
    BY DEF ShutdownFirst
  <1>2. CASE Ordered
    <2>1. PICK s : s = ShutdownOrder
      OBVIOUS
    <2>2. s \in Seq(Registered) /\ ToSet(s) = Registered /\ Backward(s)
      BY <1>2, <2>1, ShutdownOrderIs
    <2>3. ShutdownNext(k, from, s)
      BY <1>2, <2>1 DEF ShutdownFirst
    <2>4. \A d \in Components : instances[d] = "running" => d \in ToSet(s)
      BY <2>2 DEF Calls, Untouched
    <2>5. /\ lifecycle' \in [Components -> {"unregistered", "created", "initializing", "initialized", "failed", "shutdown"}]
          /\ eligible' \in [Components -> BOOLEAN] /\ lifecycle' = lifecycle
      BY <1>1, Typed DEF TypesRest, boardVars
    <2>6. UNCHANGED <<graphVars, ready, faulted>>
      BY <1>1 DEF boardVars
    <2> QED
      BY <2>2, <2>3, <2>4, <2>5, <2>6, StopDoes
  <1>3. CASE ~Ordered
    <2>1. Reject(k) /\ state' \in States /\ UNCHANGED <<graphVars, instances, boardVars>>
      BY <1>3 DEF ShutdownFirst
    <2>2. Steers(k, NoCall)
      BY <1>3, OrderIs DEF Calls, Steers
    <2> QED
      BY <2>1, <2>2, NoCallDoes
  <1> QED
    BY <1>2, <1>3

LEMMA ShutdownDoes ==
  ASSUME Calls, Content, NEW k \in Callers, Shutdown(k) \/ Restart(k)
  PROVE  Does(k)
  <1>1. CASE Shutdown(k)
    <2>1. call[k].op = "requestShutdown" /\ ShutdownFirst(k, state)
      BY <1>1, Kinds DEF Shutdown, Suspended
    <2>2. Control => state = "shutting-down"
      BY <1>1, <2>1, InCharge DEF Shutdown, Suspended
    <2> QED
      BY <2>1, <2>2, StateType, ShutdownFirstDoes DEF Booting
  <1>2. CASE Restart(k)
    <2>1. call[k].op = "restartPlatform" /\ call[k].at = "RestartRequested" /\ ShutdownFirst(k, "restarting")
      BY <1>2 DEF Restart, Suspended
    <2>2. Fresh(call[k]) /\ "restarting" \in States
      BY <2>1 DEF Content, Knows, Booting, States
    <2> QED
      BY <2>1, <2>2, ShutdownFirstDoes
  <1> QED
    BY <1>1, <1>2

LEMMA ReturnsDoes ==
  ASSUME Calls, Content, NEW k \in Callers, ShutdownReturns(k) \/ RestartReturns(k)
  PROVE  Does(k)
  <1>1. /\ call[k].op \in {"requestShutdown", "restartPlatform"} /\ call[k].at = "shutdown"
        /\ ShutdownNext(k, state, call[k].todo) /\ UNCHANGED <<graphVars, ready, faulted>>
    BY DEF ShutdownReturns, RestartReturns, Suspended, boardVars
  <1>2. Stopping(call[k]) /\ (Booting(call[k]) => Fresh(call[k]))
    BY <1>1 DEF Content, Knows
  <1>3. Backward(call[k].todo) /\ \A d \in Components : instances[d] = "running" => d \in ToSet(call[k].todo)
    BY <1>2 DEF Stopping
  <1>4. Shape(call[k]) /\ call[k].on \in Registered /\ call[k].todo \in Seq(Registered) /\ TypesRest
    BY <1>1, Typed DEF Shape
  <1>5. /\ lifecycle' \in [Components -> {"unregistered", "created", "initializing", "initialized", "failed", "shutdown"}]
        /\ eligible' \in [Components -> BOOLEAN]
        /\ \A c \in Components : c \notin Registered => lifecycle'[c] = lifecycle[c]
    <2>1. CASE RestartReturns(k)
      BY <1>4, <2>1 DEF RestartReturns, boardVars, TypesRest
    <2>2. CASE ShutdownReturns(k)
      <3>1. CASE lifecycle' = [lifecycle EXCEPT ![call[k].on] = "shutdown"] /\ UNCHANGED eligible
        BY <1>4, <3>1 DEF TypesRest
      <3>2. CASE /\ lifecycle' = [lifecycle EXCEPT ![call[k].on] = "failed"]
                 /\ eligible' = [eligible EXCEPT ![call[k].on] = FALSE]
        BY <1>4, <3>2 DEF TypesRest
      <3> QED
        BY <2>2, <3>1, <3>2 DEF ShutdownReturns
    <2> QED
      BY <2>1, <2>2
  <1>6. Control => state = IF call[k].op = "requestShutdown" THEN "shutting-down" ELSE "restarting"
    BY <1>1, InCharge
  <1> QED
    BY <1>1, <1>2, <1>3, <1>4, <1>5, <1>6, StateType, StopDoes


LEMMA RestartOneDoes ==
  ASSUME Calls, NEW k \in Callers, ComponentShutdown(k) \/ ComponentReturns(k)
  PROVE  Does(k)
  <1>1. /\ call[k].op = "restartComponent" /\ UNCHANGED <<graphVars, state, boardVars>>
    BY DEF ComponentShutdown, ComponentReturns
  <1>2. \E e \in {"shutdown", "create"} : Go(k, [call[k] EXCEPT !.at = e])
    BY DEF ComponentShutdown, ComponentReturns
  <1>3. Shape(call[k]) /\ call[k] \in CallT /\ call[k].on \in Registered /\ TypesRest /\ Registered \subseteq Components
    BY <1>1, Typed DEF Shape
  <1>4. /\ instances' \in [Components -> {"none", "created", "running", "down"}]
        /\ \A c \in Components : c # call[k].on => instances'[c] = instances[c]
    BY <1>3 DEF ComponentShutdown, ComponentReturns, TypesRest
  <1>5. PICK e \in {"shutdown", "create"} : Go(k, [call[k] EXCEPT !.at = e])
    BY <1>2
  <1>6. PICK r : r = [call[k] EXCEPT !.at = e]
    OBVIOUS
  <1>7. e \in Places /\ e \notin Events /\ e \in PlacesOf(call[k].op) /\ call[k].op # None
    BY <1>1 DEF Places, Events, PlacesOf, None
  <1>8. Moved(r, call[k], e)
    BY <1>3, <1>6, <1>7 DEF CallT, Moved
  <1>9. Shape(r) /\ r.at = e /\ r.op = "restartComponent"
    BY <1>1, <1>3, <1>7, <1>8, MovedShape DEF Shape, Moved
  <1>10. Puts(k, r)
    BY <1>5, <1>6, <1>7, <1>9, GoPuts
  <1>11. Knows(r)'
    BY <1>9 DEF Knows, Booting
  <1>12. InTurn(k)
    BY <1>1 DEF InTurn, Main, None
  <1>13. TypesRest'
    BY <1>1, <1>3, <1>4 DEF TypesRest, boardVars
  <1>14. Untouched'
    BY <1>1, <1>3, <1>4 DEF Calls, Untouched, boardVars, graphVars, Registered
  <1>15. Shuts(r) /\ Steers(k, r)
    <2>1. Stage(r) = None /\ Stage(call[k]) = None
      BY <1>1, <1>9, StageIs
    <2> QED
      BY <1>1, <1>7, <1>9, <2>1 DEF Shuts, Steers, Aside
  <1> QED
    BY <1>1, <1>10, <1>11, <1>12, <1>13, <1>14, <1>15 DEF Does

LEMMA ComponentRestartedDoes ==
  ASSUME Calls, NEW k \in Callers, ComponentRestarted(k)
  PROVE  Does(k)
  <1>1. call[k].op = "restartComponent" /\ instances' = Initialized(k) /\ Reject(k) /\ UNCHANGED <<graphVars, state>>
    BY DEF ComponentRestarted
  <1>2. PICK r \in BOOLEAN, f \in BOOLEAN :
          /\ ready' = [ready EXCEPT ![call[k].on] = r]
          /\ faulted' = [faulted EXCEPT ![call[k].on] = f]
          /\ lifecycle' = [lifecycle EXCEPT ![call[k].on] = IF r THEN "initialized" ELSE "failed"]
          /\ eligible' = [eligible EXCEPT ![call[k].on] = @ /\ r]
    BY DEF ComponentRestarted
  <1>3. Shape(call[k]) /\ call[k].on \in Registered /\ TypesRest /\ Registered \subseteq Components
    BY <1>1, Typed DEF Shape
  <1>4. eligible' \in [Components -> BOOLEAN]
    <2>1. (eligible[call[k].on] /\ r) \in BOOLEAN
      BY Zenon
    <2> QED
      BY <1>2, <1>3, <2>1 DEF TypesRest
  <1>5. /\ instances' \in [Components -> {"none", "created", "running", "down"}]
        /\ \A c \in Components : c # call[k].on => instances'[c] = instances[c]
    BY <1>1, <1>3 DEF Initialized, TypesRest
  <1>6. TypesRest'
    BY <1>1, <1>2, <1>3, <1>4, <1>5 DEF TypesRest
  <1>7. Untouched'
    BY <1>1, <1>2, <1>3, <1>5 DEF Calls, Untouched, graphVars, Registered, TypesRest
  <1>8. InTurn(k)
    BY <1>1 DEF InTurn, Main, None
  <1>9. Steers(k, NoCall)
    BY <1>1, StageIs, NoCallSteers
  <1> QED
    BY <1>1, <1>6, <1>7, <1>8, <1>9, RejectPuts, NoCallKnows, NoCallShuts DEF Does

LEMMA CallDoes ==
  ASSUME Calls, Content, OneAtATime, NEW k \in Callers, Start(k) \/ Proceed(k), ~Dispatched(k)
  PROVE  Does(k)
  <1>1. CASE Start(k)
    BY <1>1, StartDoes
  <1>2. CASE Proceed(k)
    BY <1>2, StartInitializationDoes, InitializeFirstDoes, CreateDoes, InitializeFailsDoes, InitializeDoes, ValidateDoes,
       CertifyDoes, EndingsDo, ShutdownDoes, ReturnsDoes, RestartOneDoes, ComponentRestartedDoes, Zenon DEF Proceed
  <1> QED
    BY <1>1, <1>2


\* The steps that are not a call's own: the end of a dispatch, the operator's
\* maintenance, a registration.
LEMMA FrontIs ==
  ASSUME NEW S, NEW s \in Seq(S)
  PROVE  /\ Front(s) \in Seq(S) /\ DOMAIN Front(s) = 1..(Len(s) - 1)
         /\ \A i \in DOMAIN Front(s) : Front(s)[i] = s[i] /\ i \in DOMAIN s
         /\ s # <<>> => Len(Front(s)) = Len(s) - 1
  <1>1. Len(s) \in Nat /\ DOMAIN s = 1..Len(s) /\ \A i \in DOMAIN s : s[i] \in S
    BY SeqFacts
  <1>2. Front(s) = [i \in 1..(Len(s) - 1) |-> s[i]]
    BY DEF Front
  <1>3. DOMAIN Front(s) = 1..(Len(s) - 1) /\ \A i \in DOMAIN Front(s) : Front(s)[i] = s[i] /\ i \in DOMAIN s
    BY <1>1, <1>2
  <1>4. CASE Len(s) = 0
    <2>1. 1..(Len(s) - 1) = {} /\ s = <<>>
      BY <1>4, EmptySeq
    <2>2. Front(s) = <<>>
      BY <1>2, <2>1
    <2> QED
      BY <1>3, <2>1, <2>2, EmptySeq
  <1>5. CASE Len(s) # 0
    <2>1. Len(s) - 1 \in Nat
      BY <1>1, <1>5
    <2>2. \A i \in 1..(Len(s) - 1) : s[i] \in S
      BY <1>1
    <2>3. Front(s) \in Seq(S)
      BY <1>2, <2>1, <2>2, IsASeq
    <2>4. Len(Front(s)) = Len(s) - 1
      BY <1>3, <2>1, <2>3, LenProperties
    <2> QED
      BY <1>3, <2>3, <2>4
  <1> QED
    BY <1>4, <1>5

LEMMA DispatchedKeeps ==
  ASSUME Calls, Content, NEW k \in Callers, Dispatched(k)
  PROVE  Calls' /\ Content'
  <1>1. /\ call[k].at \in Events /\ call' = [call EXCEPT ![k].settled = TRUE] /\ dispatchStack' = Front(dispatchStack)
        /\ UNCHANGED <<graphVars, state, instances, boardVars>>
    BY DEF Dispatched
  <1>2. /\ definitions \in Seq(Components) /\ call \in [Callers -> CallT] /\ dispatchStack \in Seq(Events) /\ TypesRest
        /\ Shape(call[k]) /\ call[k] \in CallT
    BY Typed
  <1>3. PICK r : r = [call[k] EXCEPT !.settled = TRUE]
    OBVIOUS
  <1>4. r \in CallT
    BY <1>2, <1>3 DEF CallT, Moved
  <1>5. /\ r.op = call[k].op /\ r.at = call[k].at /\ r.on = call[k].on /\ r.todo = call[k].todo /\ r.partial = call[k].partial
        /\ r.initialized = call[k].initialized /\ r.failed = call[k].failed /\ r.unready = call[k].unready
    BY <1>2, <1>3 DEF CallT
  <1>6. call' = [call EXCEPT ![k] = r]
    BY <1>1, <1>2, <1>3
  <1>7. r.op # None
    BY <1>1, <1>2, <1>5 DEF Shape, NoCall, Events, None
  <1>8. Shape(r)
    BY <1>2, <1>4, <1>5, <1>7 DEF Shape
  <1>9. call' \in [Callers -> CallT] /\ call'[k] = r /\ \A j \in Callers : j # k => call'[j] = call[j]
    BY <1>2, <1>4, <1>6
  <1>10. definitions' = definitions /\ depends' = depends /\ Registered' = Registered /\ Untouched' /\ Graph'
    BY <1>1, Same DEF graphVars, Calls, Registered, Graph
  <1>11. dispatchStack' \in Seq(Events)
    BY <1>1, <1>2, FrontIs
  <1>12. TypeOK'
    BY <1>1, <1>2, <1>9, <1>10, <1>11 DEF Calls, TypeOK, TypesRest, CallT, boardVars, Graph
  <1>13. \A j \in Callers : /\ Shape(call'[j]) /\ (Main(call'[j]) <=> Main(call[j])) /\ (Knows(call'[j]) <=> Knows(call[j]))
    <2>1. (Main(r) <=> Main(call[k])) /\ (Knows(r) <=> Knows(call[k]))
      BY <1>5 DEF Main, Knows, Booting, Fresh, Working, Creating, Judged, Stopping
    <2> QED
      BY <1>8, <1>9, <2>1 DEF Calls
  <1>14. (\A j \in Callers : Shape(call[j]))'
    BY <1>10, <1>13 DEF Shape
  <1>15. Single'
    BY <1>13 DEF Calls, Single, Main
  <1>16. Content'
    <2> SUFFICES ASSUME NEW j \in Callers PROVE Knows(call[j])'
      BY DEF Content
    <2>1. PICK c : c = call'[j]
      OBVIOUS
    <2>2. Knows(c)
      BY <1>13, <2>1 DEF Content
    <2>3. Knows(c)'
      BY <1>1, <2>2, Same
    <2> QED
      BY <2>1, <2>3 DEF Knows, Booting, Fresh, Working, Creating, Judged, Stopping, Backward
  <1> QED
    BY <1>10, <1>12, <1>14, <1>15, <1>16 DEF Calls

LEMMA StateKeeps ==
  ASSUME Calls, Content, state' \in States, UNCHANGED <<graphVars, instances, boardVars, call, dispatchStack>>
  PROVE  Calls' /\ Content'
  <1>1. definitions' = definitions /\ depends' = depends /\ Registered' = Registered /\ Untouched' /\ Graph'
    BY Same DEF graphVars, Calls, Registered, Graph
  <1>2. /\ definitions \in Seq(Components) /\ call \in [Callers -> CallT] /\ dispatchStack \in Seq(Events) /\ TypesRest
    BY Typed
  <1>3. TypeOK'
    BY <1>1, <1>2 DEF Calls, TypeOK, TypesRest, CallT, boardVars, Graph
  <1>4. (\A j \in Callers : Shape(call[j]))' /\ Single'
    BY <1>1 DEF Calls, Shape, Single, Main
  <1>5. Content'
    <2> SUFFICES ASSUME NEW j \in Callers PROVE Knows(call[j])'
      BY DEF Content
    <2>1. PICK c : c = call[j]
      OBVIOUS
    <2>2. Knows(c)' /\ call' = call
      BY <2>1, Same DEF Content
    <2> QED
      BY <2>1, <2>2 DEF Knows, Booting, Fresh, Working, Creating, Judged, Stopping, Backward
  <1> QED
    BY <1>1, <1>3, <1>4, <1>5 DEF Calls


LEMMA RegisterKeeps ==
  ASSUME Calls, Content, NEW c \in Components, NEW deps \in Dependencies[c], RegisterComponent(c, deps)
  PROVE  Calls' /\ Content'
  <1>1. /\ InOrder => deps \subseteq Registered
        /\ c \notin Registered /\ definitions' = Append(definitions, c) /\ depends' = [depends EXCEPT ![c] = deps]
        /\ UNCHANGED <<state, instances, boardVars, call, dispatchStack>>
    BY DEF RegisterComponent
  <1>2. /\ definitions \in Seq(Components) /\ call \in [Callers -> CallT] /\ dispatchStack \in Seq(Events) /\ TypesRest
        /\ \A k \in Callers : Shape(call[k])
    BY Typed
  <1>3. Graph /\ Registered = ToSet(definitions)
    BY DEF Calls, Registered
  <1>4. /\ definitions' \in Seq(Components) /\ Registered' = Registered \cup {c} /\ IsInjective(definitions')
        /\ Len(definitions') = Len(definitions) + 1 /\ definitions'[Len(definitions) + 1] = c
        /\ \A i \in 1..Len(definitions) : definitions'[i] = definitions[i]
    BY <1>1, <1>2, <1>3, AppendFacts DEF Graph, Registered
  <1>5. deps \in SUBSET Components
    BY RuntimeAssumption
  <1>6. /\ depends' \in [Components -> SUBSET Components] /\ depends'[c] = deps
        /\ \A d \in Components : d # c => depends'[d] = depends[d]
    BY <1>1, <1>3, <1>5 DEF Graph
  <1>7. Registered \subseteq Components /\ \A d \in Registered : depends'[d] = depends[d]
    BY <1>1, <1>6, Typed
  <1>8. Graph'
    <2>1. ASSUME InOrder, NEW i \in DOMAIN definitions'
          PROVE  depends'[definitions'[i]] \subseteq {definitions'[j] : j \in 1..(i - 1)}
      <3>1. Len(definitions) \in Nat /\ DOMAIN definitions = 1..Len(definitions) /\ DOMAIN definitions' = 1..(Len(definitions) + 1)
        BY <1>2, <1>4, SeqFacts
      <3>2. CASE i \in 1..Len(definitions)
        <4>1. definitions[i] \in Registered /\ definitions'[i] = definitions[i]
          BY <1>2, <1>3, <1>4, <3>1, <3>2, SeqFacts
        <4>2. depends'[definitions'[i]] \subseteq {definitions[j] : j \in 1..(i - 1)}
          BY <1>3, <1>7, <2>1, <3>1, <3>2, <4>1 DEF Graph
        <4>3. \A j \in 1..(i - 1) : j \in 1..Len(definitions)
          BY <3>1, <3>2
        <4> QED
          BY <1>4, <4>2, <4>3
      <3>3. CASE i = Len(definitions) + 1
        <4>1. depends'[definitions'[i]] \subseteq Registered
          BY <1>1, <1>4, <1>6, <2>1, <3>3
        <4>2. \A d \in Registered : \E j \in 1..Len(definitions) : definitions'[j] = d
          <5> TAKE d \in Registered
          <5>1. PICK j \in DOMAIN definitions : definitions[j] = d
            BY <1>2, <1>3, SeqFacts
          <5> QED
            BY <1>4, <3>1, <5>1
        <4>3. i - 1 = Len(definitions)
          BY <3>1, <3>3
        <4> QED
          BY <4>1, <4>2, <4>3
      <3> QED
        BY <3>1, <3>2, <3>3
    <2>2. \A d \in Components : d \notin Registered' => depends'[d] = {}
      BY <1>3, <1>4, <1>6 DEF Graph
    <2> QED
      BY <1>4, <1>6, <2>1, <2>2 DEF Graph
  <1>9. TypeOK'
    BY <1>1, <1>2, <1>4, <1>6 DEF TypeOK, TypesRest, CallT, boardVars
  <1>10. Untouched'
    BY <1>1, <1>4 DEF Calls, Untouched, boardVars
  <1>11. (\A k \in Callers : Shape(call[k]))'
    <2> SUFFICES ASSUME NEW k \in Callers PROVE Shape(call[k])'
      OBVIOUS
    <2>1. call' = call /\ Shape(call[k]) /\ Registered \subseteq Registered'
      BY <1>1, <1>2, <1>4
    <2>2. call[k].todo \in Seq(Registered') /\ call[k].initialized \in Seq(Registered')
      BY <2>1, SeqMonotonic DEF Shape
    <2> QED
      BY <2>1, <2>2 DEF Shape
  <1>12. Single'
    BY <1>1 DEF Calls, Single, Main
  <1>13. Content'
    <2> SUFFICES ASSUME NEW k \in Callers PROVE Knows(call[k])'
      BY DEF Content
    <2>1. PICK q : q = call[k]
      OBVIOUS
    <2>2. call' = call /\ Shape(q) /\ Knows(q)
      BY <1>1, <1>2, <2>1 DEF Content
    <2>3. ASSUME Working(q) PROVE Working(q)'
      <3>1. lifecycle[c] # "failed"
        BY <1>1 DEF Calls, Untouched
      <3> QED
        BY <1>1, <1>4, <2>3, <3>1 DEF Working, boardVars
    <2>4. ASSUME Creating(q), q.at \in {"create", "initialize"} PROVE Creating(q)'
      <3>1. q.on \in Registered
        BY <2>2, <2>4 DEF Shape
      <3> QED
        BY <1>1, <1>7, <2>4, <3>1 DEF Creating, boardVars
    <2>5. ASSUME Judged(q) PROVE Judged(q)'
      BY <1>1, <2>5 DEF Judged, boardVars
    <2>6. ASSUME Stopping(q) PROVE Stopping(q)'
      <3>1. \A j \in DOMAIN q.todo : q.todo[j] \in Registered
        BY <2>2, SeqFacts DEF Shape
      <3> QED
        BY <1>1, <1>7, <2>6, <3>1 DEF Stopping, Backward
    <2>7. Knows(q)'
      BY <2>2, <2>3, <2>4, <2>5, <2>6 DEF Knows, Fresh
    <2> QED
      BY <2>1, <2>2, <2>7 DEF Knows, Booting, Fresh, Working, Creating, Judged, Stopping, Backward
  <1> QED
    BY <1>8, <1>9, <1>10, <1>11, <1>12, <1>13 DEF Calls

LEMMA InitiallyCalls == Init => Calls /\ Content
  <1> SUFFICES ASSUME Init PROVE Calls /\ Content
    OBVIOUS
  <1>1. definitions = <<EventBus>> /\ definitions \in Seq(Components) /\ Registered = {EventBus} /\ IsInjective(definitions)
    <2>1. <<EventBus>> = Append(<<>>, EventBus)
      OBVIOUS
    <2>2. <<>> \in Seq(Components) /\ IsInjective(<<>>) /\ ToSet(<<>>) = {}
      BY EmptySeq DEF IsInjective, ToSet
    <2>3. EventBus \in Components
      BY RuntimeAssumption
    <2>4. definitions = <<EventBus>>
      BY DEF Init
    <2>5. /\ Append(<<>>, EventBus) \in Seq(Components) /\ ToSet(Append(<<>>, EventBus)) = ToSet(<<>>) \cup {EventBus}
          /\ IsInjective(Append(<<>>, EventBus))
      <3>1. PICK e : e = <<>>
        OBVIOUS
      <3>2. e \in Seq(Components) /\ IsInjective(e) /\ EventBus \notin ToSet(e)
        BY <2>2, <3>1
      <3>3. Append(e, EventBus) \in Seq(Components) /\ ToSet(Append(e, EventBus)) = ToSet(e) \cup {EventBus}
        BY <2>3, <3>2, AppendFacts
      <3>4. IsInjective(Append(e, EventBus))
        BY <2>3, <3>2, AppendFacts
      <3> QED
        BY <3>1, <3>3, <3>4
    <2> QED
      BY <2>1, <2>2, <2>4, <2>5 DEF Registered
  <1>2. NoCall \in CallT /\ Shape(NoCall)
    BY NoCallShape DEF Shape
  <1>3. call \in [Callers -> CallT] /\ \A k \in Callers : call[k] = NoCall
    BY <1>2 DEF Init
  <1>4. ready \in [Components -> BOOLEAN] /\ faulted \in [Components -> BOOLEAN] /\ eligible \in [Components -> BOOLEAN]
    BY DEF Init
  <1>5. TypeOK
    BY <1>1, <1>3, <1>4, EmptySeq DEF Init, TypeOK, CallT, States
  <1>6. Graph
    BY <1>1 DEF Init, Graph
  <1>7. Untouched
    BY DEF Init, Untouched
  <1>8. \A k \in Callers : Shape(call[k]) /\ Knows(call[k]) /\ ~Main(call[k])
    <2>1. Knows(NoCall) /\ ~Main(NoCall)
      BY NoCallKnows DEF Main, NoCall
    <2> QED
      BY <1>2, <1>3, <2>1
  <1> QED
    BY <1>5, <1>6, <1>7, <1>8 DEF Calls, Content, Single

LEMMA StepKeeps ==
  ASSUME OneAtATime, Calls, Content, [Next]_vars
  PROVE  Calls' /\ Content'
  <1>1. ASSUME NEW c \in Components, NEW deps \in Dependencies[c], RegisterComponent(c, deps)
        PROVE  Calls' /\ Content'
    BY <1>1, RegisterKeeps
  <1>2. CASE RequestMaintenance
    BY <1>2, StateKeeps DEF RequestMaintenance, States
  <1>3. ASSUME NEW k \in Callers, Start(k) \/ Proceed(k) PROVE Calls' /\ Content'
    <2>1. CASE Dispatched(k)
      BY <2>1, DispatchedKeeps
    <2>2. CASE ~Dispatched(k)
      BY <1>3, <2>2, CallDoes, DoesKeeps
    <2> QED
      BY <2>1, <2>2
  <1>4. CASE UNCHANGED vars
    <2>1. state' = state /\ UNCHANGED <<graphVars, instances, boardVars, call, dispatchStack>>
      BY <1>4 DEF vars
    <2> QED
      BY <2>1, StateType, StateKeeps
  <1> QED
    BY <1>1, <1>2, <1>3, <1>4 DEF Next

\* The invariant.
THEOREM CallsInvariant ==
  ASSUME OneAtATime
  PROVE  Spec => [](Calls /\ Content)
  <1> QED
    BY InitiallyCalls, StepKeeps, PTL DEF Spec


----------------------------------------------------------------------------
(* The runtime never comes to rest in a state between two others.              *)

\* A call that is awake has no event of its own on the stack.
Awake(k) == call[k].at \in Events => call[k].settled

LEMMA CallIsAwake ==
  ASSUME NEW k \in Callers, Start(k) \/ Proceed(k), ~Dispatched(k)
  PROVE  Awake(k)
  <1>1. CASE Start(k)
    <2>1. call[k] = NoCall
      BY <1>1 DEF Start, Boot, RequestShutdown, Pause, Resume, Enter, Recover, RequestRestart, May
    <2> QED
      BY <2>1 DEF Awake, NoCall, Events, None
  <1>2. CASE Proceed(k)
    <2>1. (\E e : Suspended(k, e)) \/ call[k].at \in {"create", "initialize"}
      BY <1>2 DEF Proceed, StartInitialization, InitializeFirst, Create, InitializeFails, Initialize, InitializationFails,
         Validate, ReadinessFails, Certify, Operate, Complete, Shutdown, ShutdownReturns, Restart, RestartRefused,
         RestartReturns, ComponentShutdown, ComponentReturns, ComponentThrows, ComponentRestarted, Finish
    <2> QED
      BY <2>1 DEF Awake, Suspended, Events
  <1> QED
    BY <1>1, <1>2

LEMMA CriticalIsMain ==
  ASSUME Calls, Control, NEW j \in Callers, call[j].at \in Critical
  PROVE  Main(call[j]) /\ state = Stage(call[j]) /\ state \notin Rest /\ call[j].at \in Events
  <1>1. PICK c : c = call[j]
    OBVIOUS
  <1>2. /\ c.at # "ShutdownRequested" => Booting(c)
        /\ c.at = "ShutdownRequested" => c.op = "requestShutdown"
    BY <1>1, Kinds DEF Critical
  <1>3. c.at \in Critical /\ c.at \in Events
    BY <1>1 DEF Critical, Events
  <1>4. Stage(c) # None
    BY <1>2, <1>3, StageIs DEF Critical, None
  <1>5. Main(c) /\ Stage(c) \notin Rest
    BY <1>4, StageIs
  <1> QED
    BY <1>1, <1>3, <1>4, <1>5 DEF Control, Stages

\* No critical event is being dispatched when the call in charge is awake, nor
\* while the runtime is at rest.
LEMMA Quiet ==
  ASSUME Calls, Control, NEW k \in Callers, Awake(k), InTurn(k) \/ state \in Rest
  PROVE  \A i \in DOMAIN dispatchStack : dispatchStack[i] \notin Critical
  <1> SUFFICES ASSUME NEW i \in DOMAIN dispatchStack, dispatchStack[i] \in Critical PROVE FALSE
    OBVIOUS
  <1>1. PICK j \in Callers : call[j].at = dispatchStack[i] /\ ~call[j].settled
    BY DEF Control, Stack
  <1>2. Main(call[j]) /\ state \notin Rest /\ call[j].at \in Events
    BY <1>1, CriticalIsMain
  <1>3. j = k
    BY <1>2 DEF InTurn, Calls, Single
  <1> QED
    BY <1>1, <1>2, <1>3 DEF Awake

\* What a call publishes while no critical event is being dispatched.
LEMMA StackPut ==
  ASSUME Calls, NEW k \in Callers, NEW r, Puts(k, r), \A i \in DOMAIN dispatchStack : dispatchStack[i] \notin Critical
  PROVE  Stack'
  <1>1. call \in [Callers -> CallT] /\ dispatchStack \in Seq(Events)
    BY Typed
  <1>2. CASE dispatchStack' = dispatchStack
    BY <1>2 DEF Stack
  <1>3. CASE dispatchStack' # dispatchStack
    <2>1. Put(k, r) /\ r.at \in Events /\ dispatchStack' = Append(dispatchStack, r.at) /\ ~r.settled
      BY <1>3 DEF Puts, Put, Refused
    <2>2. call'[k] = r
      BY <1>1, <2>1 DEF Put
    <2>3. PICK t : t = Append(dispatchStack, r.at)
      OBVIOUS
    <2>4. /\ t \in Seq(Events) /\ Len(t) = Len(dispatchStack) + 1 /\ t[Len(dispatchStack) + 1] = r.at
          /\ \A i \in 1..Len(dispatchStack) : t[i] = dispatchStack[i]
      BY <1>1, <2>1, <2>3, AppendFacts
    <2>5. Len(dispatchStack) \in Nat /\ DOMAIN dispatchStack = 1..Len(dispatchStack) /\ DOMAIN t = 1..Len(t)
      BY <1>1, <2>4, SeqFacts
    <2>6. \A i \in DOMAIN t : t[i] \in Critical => i = Len(t)
      BY <2>4, <2>5
    <2>7. \A i \in DOMAIN t : t[i] \in Critical => call'[k].at = t[i] /\ ~call'[k].settled
      BY <2>1, <2>2, <2>4, <2>6
    <2> QED
      BY <2>1, <2>3, <2>6, <2>7 DEF Stack
  <1> QED
    BY <1>2, <1>3

\* What a call that is aside leaves on the stack.
LEMMA StackKept ==
  ASSUME Calls, Control, NEW k \in Callers, Awake(k), dispatchStack' = dispatchStack,
         \A j \in Callers : j # k => call'[j] = call[j]
  PROVE  Stack'
  <1> SUFFICES ASSUME NEW i \in DOMAIN dispatchStack, dispatchStack[i] \in Critical
               PROVE  i = Len(dispatchStack) /\ \E j \in Callers : call'[j].at = dispatchStack[i] /\ ~call'[j].settled
    BY DEF Stack
  <1>1. PICK j \in Callers : call[j].at = dispatchStack[i] /\ ~call[j].settled
    BY DEF Control, Stack
  <1>2. call[j].at \in Events
    BY <1>1, CriticalIsMain
  <1>3. j # k
    BY <1>1, <1>2 DEF Awake
  <1> QED
    BY <1>1, <1>3 DEF Control, Stack

LEMMA Steered ==
  ASSUME Calls, Control, InOrder, NEW k \in Callers, Awake(k), Does(k)
  PROVE  Control'
  <1>1. PICK r : Puts(k, r) /\ (Leads(k, r) \/ Aside(k, r))
    BY DEF Does, Steers
  <1>2. call \in [Callers -> CallT] /\ dispatchStack \in Seq(Events)
    BY Typed
  <1>3. PICK q : call' = [call EXCEPT ![k] = q] /\ (q = r \/ q = NoCall)
    BY <1>1, PutsIs
  <1>4. call'[k] = q /\ \A j \in Callers : j # k => call'[j] = call[j]
    BY <1>2, <1>3
  <1>5. Stage(NoCall) = None /\ NoCall.at = None
    BY StageIs DEF NoCall
  <1>6. CASE Leads(k, r)
    <2>1. \A i \in DOMAIN dispatchStack : dispatchStack[i] \notin Critical
      BY <1>6, Quiet DEF Leads
    <2>2. InTurn(k) /\ Stage(r) = IF state' \in Rest THEN None ELSE state'
      BY <1>6 DEF Leads
    <2>3. \A j \in Callers : j # k => Stage(call[j]) = None
      <3> SUFFICES ASSUME NEW j \in Callers, j # k, Stage(call[j]) # None PROVE FALSE
        OBVIOUS
      <3>1. Main(call[j])
        BY StageIs
      <3> QED
        BY <2>2, <3>1 DEF InTurn, Calls, Single
    <2>4. Stage(r) # None => q = r
      <3> SUFFICES ASSUME Stage(r) # None, Refused(k, r) PROVE FALSE
        BY <1>1, <1>2, <1>3 DEF Puts, Put
      <3>1. r.at \in Critical
        <4>1. r.at \in Critical \cup {"create", "initialize", "shutdown"}
          BY StageIs
        <4> QED
          BY <4>1 DEF Refused, Events
      <3>2. PICK i \in DOMAIN dispatchStack : dispatchStack[i] = r.at
        BY <1>2, SeqFacts DEF Refused
      <3> QED
        BY <2>1, <3>1, <3>2
    <2>5. state' \notin Rest => Stage(r) = state' /\ Stage(r) # None
      BY <2>2 DEF Does, TypesRest, States, None
    <2>6. \A j \in Callers : Stage(call'[j]) # None => state' = Stage(call'[j])
      BY <1>3, <1>4, <1>5, <2>2, <2>3
    <2>7. state' \notin Rest => \E j \in Callers : Stage(call'[j]) = state'
      BY <1>4, <2>4, <2>5
    <2>8. Stages'
      BY <2>6, <2>7 DEF Stages, Stage, Booting
    <2>9. Stack'
      BY <1>1, <2>1, StackPut
    <2> QED
      BY <2>8, <2>9 DEF Control
  <1>7. CASE Aside(k, r)
    <2>1. /\ Stage(r) = None /\ Stage(call[k]) = None
          /\ state' = state \/ {state, state'} \subseteq Rest
          /\ r.at \in Events => InTurn(k) \/ state \in Rest
      BY <1>7 DEF Aside
    <2>2. \A j \in Callers : Stage(call[j]) # None => state = Stage(call[j]) /\ state \notin Rest
      BY StageIs DEF Control, Stages
    <2>3. \A j \in Callers : Stage(call'[j]) # None => state' = Stage(call'[j])
      BY <1>3, <1>4, <1>5, <2>1, <2>2
    <2>4. state' \notin Rest => \E j \in Callers : Stage(call'[j]) = state'
      <3> SUFFICES ASSUME state' \notin Rest PROVE \E j \in Callers : Stage(call'[j]) = state'
        OBVIOUS
      <3>1. state' = state
        BY <2>1
      <3>2. PICK j \in Callers : Stage(call[j]) = state
        BY <3>1 DEF Control, Stages
      <3>3. state # None
        BY StateType DEF States, None
      <3> QED
        BY <1>4, <2>1, <3>1, <3>2, <3>3
    <2>5. Stages'
      BY <2>3, <2>4 DEF Stages, Stage, Booting
    <2>6. Stack'
      <3>1. CASE dispatchStack' = dispatchStack
        BY <1>4, <3>1, StackKept
      <3>2. CASE dispatchStack' # dispatchStack
        <4>1. r.at \in Events
          BY <1>1, <3>2 DEF Puts, Put, Refused
        <4>2. \A i \in DOMAIN dispatchStack : dispatchStack[i] \notin Critical
          BY <2>1, <4>1, Quiet
        <4> QED
          BY <1>1, <4>2, StackPut
      <3> QED
        BY <3>1, <3>2
    <2> QED
      BY <2>5, <2>6 DEF Control
  <1> QED
    BY <1>1, <1>6, <1>7


LEMMA DispatchedControl ==
  ASSUME Calls, Control, NEW k \in Callers, Dispatched(k)
  PROVE  Control'
  <1>1. /\ call[k].at \in Events /\ call' = [call EXCEPT ![k].settled = TRUE] /\ dispatchStack' = Front(dispatchStack)
        /\ state' = state
    BY DEF Dispatched
  <1>2. call \in [Callers -> CallT] /\ dispatchStack \in Seq(Events)
    BY Typed
  <1>3. \A j \in Callers : call'[j].op = call[j].op /\ call'[j].at = call[j].at
    BY <1>1, <1>2 DEF CallT
  <1>4. \A j \in Callers : Stage(call'[j]) = Stage(call[j])
    BY <1>3 DEF Stage, Booting
  <1>5. Stages'
    BY <1>1, <1>4 DEF Control, Stages, Stage, Booting
  <1>6. Stack'
    <2>1. \A i \in DOMAIN dispatchStack' : dispatchStack'[i] = dispatchStack[i] /\ i \in DOMAIN dispatchStack /\ i # Len(dispatchStack)
      <3>1. Len(dispatchStack) \in Nat /\ DOMAIN dispatchStack' = 1..(Len(dispatchStack) - 1)
        BY <1>1, <1>2, FrontIs, SeqFacts
      <3> QED
        BY <1>1, <1>2, <3>1, FrontIs
    <2>2. \A i \in DOMAIN dispatchStack' : dispatchStack'[i] \notin Critical
      BY <2>1 DEF Control, Stack
    <2> QED
      BY <2>2 DEF Stack
  <1> QED
    BY <1>5, <1>6 DEF Control

LEMMA OtherControl ==
  ASSUME Calls, Control, UNCHANGED <<call, dispatchStack>>, state' = state \/ {state, state'} \subseteq Rest
  PROVE  Control'
  <1>1. \A j \in Callers : Stage(call[j]) # None => state = Stage(call[j]) /\ state \notin Rest
    BY StageIs DEF Control, Stages
  <1>2. Stages'
    BY <1>1 DEF Control, Stages, Stage, Booting
  <1>3. Stack'
    BY DEF Control, Stack
  <1> QED
    BY <1>2, <1>3 DEF Control

LEMMA StepControl ==
  ASSUME OneAtATime, InOrder, Calls, Content, Control, [Next]_vars
  PROVE  Control'
  <1>1. ASSUME NEW c \in Components, NEW deps \in Dependencies[c], RegisterComponent(c, deps)
        PROVE  Control'
    BY <1>1, OtherControl DEF RegisterComponent
  <1>2. CASE RequestMaintenance
    <2>1. {state, state'} \subseteq Rest /\ UNCHANGED <<call, dispatchStack>>
      BY <1>2, StateType DEF RequestMaintenance, Allowed, Successors, States, Rest
    <2> QED
      BY <2>1, OtherControl
  <1>3. ASSUME NEW k \in Callers, Start(k) \/ Proceed(k) PROVE Control'
    <2>1. CASE Dispatched(k)
      BY <2>1, DispatchedControl
    <2>2. CASE ~Dispatched(k)
      BY <1>3, <2>2, CallDoes, CallIsAwake, Steered
    <2> QED
      BY <2>1, <2>2
  <1>4. CASE UNCHANGED vars
    BY <1>4, OtherControl DEF vars
  <1> QED
    BY <1>1, <1>2, <1>3, <1>4 DEF Next

LEMMA InitiallyControl == Init => Control
  <1> SUFFICES ASSUME Init PROVE Control
    OBVIOUS
  <1>1. \A k \in Callers : Stage(call[k]) = None
    BY StageIs DEF Init, NoCall
  <1>2. state \in Rest /\ dispatchStack = <<>>
    BY DEF Init, Rest
  <1> QED
    BY <1>1, <1>2 DEF Control, Stages, Stack

----------------------------------------------------------------------------
(* The theorems.                                                               *)

\* The start order (dependencyGraph.ts) names no component twice, and none before
\* its dependencies; when startupOrder() does not throw it names all of them, and
\* it does not throw when components are registered after their dependencies.
THEOREM StartInOrder ==
  ASSUME OneAtATime
  PROVE  Spec => []( /\ IsInjective(StartupOrder) /\ ToSet(StartupOrder) \subseteq Registered
                     /\ \A i \in DOMAIN StartupOrder :
                          depends[StartupOrder[i]] \subseteq {StartupOrder[j] : j \in 1..(i - 1)}
                     /\ Ordered => ToSet(StartupOrder) = Registered
                     /\ InOrder => Ordered )
  <1>1. Calls => /\ IsInjective(StartupOrder) /\ ToSet(StartupOrder) \subseteq Registered
                 /\ \A i \in DOMAIN StartupOrder :
                      depends[StartupOrder[i]] \subseteq {StartupOrder[j] : j \in 1..(i - 1)}
                 /\ Ordered => ToSet(StartupOrder) = Registered
                 /\ InOrder => Ordered
    <2> SUFFICES ASSUME Calls
                 PROVE  /\ IsInjective(StartupOrder) /\ ToSet(StartupOrder) \subseteq Registered
                        /\ \A i \in DOMAIN StartupOrder :
                             depends[StartupOrder[i]] \subseteq {StartupOrder[j] : j \in 1..(i - 1)}
                        /\ Ordered => ToSet(StartupOrder) = Registered
                        /\ InOrder => Ordered
      OBVIOUS
    <2>1. Graph /\ ToSet(StartupOrder) \subseteq Registered
      BY OrderIs, SeqFacts DEF Calls
    <2> QED
      BY <2>1, OrderIs
  <1> QED
    BY <1>1, CallsInvariant, PTL

\* Every variable has its type, whatever operation overlaps with a pause or a resume.
THEOREM TypeCorrect ==
  ASSUME OneAtATime
  PROVE  Spec => []TypeOK
  <1>1. Calls => TypeOK
    BY DEF Calls
  <1> QED
    BY <1>1, CallsInvariant, PTL

\* runBootSequence initializes a component only while every component it depends
\* on runs.
THEOREM StartsAfterDependencies ==
  ASSUME OneAtATime
  PROVE  Spec => DependenciesFirst
  <1>1. Calls /\ Content =>
          \A k \in Callers : Boots(k) /\ Suspended(k, "initialize") /\ instances'[call[k].on] = "running" =>
            \A d \in depends[call[k].on] : instances[d] = "running"
    <2> SUFFICES ASSUME Calls, Content, NEW k \in Callers, Boots(k), Suspended(k, "initialize"),
                        NEW d \in depends[call[k].on]
                 PROVE  instances[d] = "running"
      OBVIOUS
    <2>1. Working(call[k]) /\ Creating(call[k])
      BY DEF Content, Knows, Boots, Booting, Suspended
    <2> QED
      BY <2>1 DEF Working, Creating
  <1> QED
    BY <1>1, CallsInvariant, PTL DEF DependenciesFirst

\* requestShutdown and requestRestart shut a component down only after every
\* component that depends on it.
THEOREM StopsAfterDependents ==
  ASSUME OneAtATime
  PROVE  Spec => DependentsFirst
  <1> DEFINE After == \A k \in Callers : call'[k].op # "restartComponent" /\ call'[k].at = "shutdown" /\ call'[k] # call[k] =>
                       \A d \in Registered : call'[k].on \in depends[d] => instances[d] # "running"
  <1>1. ASSUME Calls, Content, [Next]_vars PROVE After
    <2> SUFFICES ASSUME NEW k \in Callers, call'[k].op # "restartComponent", call'[k].at = "shutdown", call'[k] # call[k],
                        NEW d \in Registered, call'[k].on \in depends[d]
                 PROVE  instances[d] # "running"
      OBVIOUS
    <2>1. call \in [Callers -> CallT]
      BY <1>1, Typed
    <2>2. PICK j \in Callers : Start(j) \/ Proceed(j)
      BY <1>1 DEF Next, vars, RegisterComponent, RequestMaintenance
    <2>3. CASE Dispatched(j)
      <3>1. call'[k].at = call[k].at
        BY <2>1, <2>3 DEF Dispatched, CallT
      <3>2. call[j].at \in Events /\ call' = [call EXCEPT ![j].settled = TRUE]
        BY <2>3 DEF Dispatched
      <3>3. k = j
        BY <2>1, <3>2
      <3> QED
        BY <3>1, <3>2, <3>3 DEF Events
    <2>4. CASE ~Dispatched(j)
      <3>1. PICK r : Puts(j, r) /\ Shuts(r)
        BY <1>1, <2>2, <2>4, CallDoes DEF Does
      <3>2. PICK q : call' = [call EXCEPT ![j] = q] /\ (q = r \/ q = NoCall)
        BY <1>1, <3>1, PutsIs
      <3>3. k = j /\ call'[k] = q
        BY <2>1, <3>2
      <3>4. q = r
        BY <3>2, <3>3, NoCallShuts
      <3> QED
        BY <3>1, <3>3, <3>4 DEF Shuts
    <2> QED
      BY <2>3, <2>4
  <1>2. Calls /\ Content /\ [Next]_vars => [After]_vars
    BY <1>1
  <1> QED
    BY <1>2, CallsInvariant, PTL DEF Spec, DependentsFirst

\* A boot in strict mode turns the runtime operational only when every component
\* it found runs, is ready and is certified.
THEOREM StrictBootsAreWhole ==
  ASSUME OneAtATime
  PROVE  Spec => StrictBoot
  <1>1. Calls /\ Content =>
          \A k \in Callers : Suspended(k, "RuntimeCertified") /\ ~call[k].partial /\ state' = "operational" =>
            /\ \A c \in Registered : lifecycle[c] # "failed"
            /\ \A c \in ToSet(call[k].initialized) : instances[c] = "running" /\ ready[c] /\ eligible[c]
    <2> SUFFICES ASSUME Calls, Content, NEW k \in Callers, Suspended(k, "RuntimeCertified"), ~call[k].partial
                 PROVE  /\ \A c \in Registered : lifecycle[c] # "failed"
                        /\ \A c \in ToSet(call[k].initialized) : instances[c] = "running" /\ ready[c] /\ eligible[c]
      OBVIOUS
    <2>1. call[k].at = "RuntimeCertified" /\ Booting(call[k])
      BY Kinds DEF Suspended
    <2>2. Working(call[k]) /\ Judged(call[k])
      BY <2>1 DEF Content, Knows
    <2>3. ToSet(call[k].todo) = {} /\ ~call[k].failed
      BY <2>1, <2>2 DEF Judged, ToSet
    <2> QED
      BY <2>1, <2>2, <2>3 DEF Working, Judged
  <1> QED
    BY <1>1, CallsInvariant, PTL DEF StrictBoot

\* No operation, whatever fails in it, leaves the runtime in a state no operation
\* leads out of, when components are registered after their dependencies.
THEOREM NeverLeftWedged ==
  ASSUME OneAtATime, InOrder
  PROVE  Spec => []NeverWedged
  <1>1. Calls /\ Control => NeverWedged
    <2> SUFFICES ASSUME Calls, Control, Idle PROVE state \in Rest
      BY DEF NeverWedged, Rest
    <2>1. \A k \in Callers : Stage(call[k]) = None
      BY StageIs DEF Idle, NoCall
    <2>2. state # None
      BY StateType DEF States, None
    <2> QED
      BY <2>1, <2>2 DEF Control, Stages
  <1>2. Spec => [](Calls /\ Content /\ Control)
    BY InitiallyCalls, InitiallyControl, StepKeeps, StepControl, PTL DEF Spec
  <1> QED
    BY <1>1, <1>2, PTL
=============================================================================
