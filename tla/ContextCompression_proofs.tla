---------------------- MODULE ContextCompression_proofs ----------------------
(***************************************************************************)
(* Proofs about ContextCompression, for every number of recent turns and   *)
(* every length of the log.                                                *)
(***************************************************************************)
EXTENDS ContextCompression, FiniteSetTheorems, WellFoundedInduction, TLAPS

-----------------------------------------------------------------------------
(* Induction and the selection of elements                                 *)

(***************************************************************************)
(* A set of naturals that is not empty has a least element: with it an     *)
(* induction is an argument about the least counterexample.                *)
(***************************************************************************)
LEMMA LeastElement ==
  ASSUME NEW S \in SUBSET Nat, S # {}
  PROVE  \E n \in S : \A m \in S : n <= m
<1> DEFINE R == {p \in Nat \X Nat : p[1] < p[2]}
<1>1. OpToRel(<, Nat) = R
  BY DEF OpToRel
<1>2. IsWellFoundedOn(R, Nat)
  BY <1>1, NatLessThanWellFounded
<1>3. ASSUME NEW m \in Nat, NEW n \in Nat PROVE <<m, n>> \in R <=> m < n
  <2>1. <<m, n>>[1] = m /\ <<m, n>>[2] = n /\ <<m, n>> \in Nat \X Nat
    OBVIOUS
  <2>2. QED
    BY <2>1
<1> HIDE DEF R
<1>4. PICK n \in S : \A m \in S : ~ (<<m, n>> \in R)
  BY <1>2, WFMin
<1>5. ASSUME NEW m \in S PROVE n <= m
  <2>1. m \in Nat /\ n \in Nat
    OBVIOUS
  <2>2. ~ (m < n)
    BY <1>3, <1>4, <2>1
  <2>3. QED
    BY <2>1, <2>2
<1>6. QED
  BY <1>5

(***************************************************************************)
(* What holds at 0 and goes from each number below N to the next holds up  *)
(* to N: E is the set of numbers at which it holds.                        *)
(***************************************************************************)
LEMMA UpTo ==
  ASSUME NEW N \in Nat, NEW E,
         0 \in E, \A n \in 1 .. N : n - 1 \in E => n \in E
  PROVE  0 .. N \subseteq E
<1> DEFINE Bad == {n \in 0 .. N : n \notin E}
<1> SUFFICES ASSUME Bad # {} PROVE FALSE
  OBVIOUS
<1>1. Bad \in SUBSET Nat
  OBVIOUS
<1>2. PICK n \in Bad : \A m \in Bad : n <= m
  BY <1>1, LeastElement
<1>3. n \in 1 .. N /\ n \notin E
  BY <1>2
<1>4. n - 1 \in 0 .. N /\ ~ (n <= n - 1)
  BY <1>3
<1>5. n - 1 \in E
  BY <1>2, <1>4
<1>6. QED
  BY <1>3, <1>5

\* The selection from the first n elements, as a function of n.
IsPicked(p, s, T, n) ==
  p = [i \in 0 .. n |->
         IF i = 0 THEN <<>> ELSE IF s[i] \in T THEN Append(p[i - 1], s[i]) ELSE p[i - 1]]

\* t has the elements of the first n of s that are in T, at the places f.
Selects(t, s, T, n) ==
  \E f \in [1 .. Len(t) -> 1 .. n] :
    /\ \A i, j \in 1 .. Len(t) : i < j => f[i] < f[j]
    /\ \A i \in 1 .. Len(t) : t[i] = s[f[i]]
    /\ \A k \in 1 .. n : s[k] \in T <=> \E i \in 1 .. Len(t) : f[i] = k

(***************************************************************************)
(* The recursive function of Only is there, and its last value is Only.    *)
(***************************************************************************)
LEMMA PickedExists ==
  ASSUME NEW s, NEW T, NEW N \in Nat
  PROVE  \E p : IsPicked(p, s, T, N)
<1> DEFINE E == {n \in 0 .. N : \E p : IsPicked(p, s, T, n)}
<1>1. 0 \in E
  <2>1. IsPicked([i \in 0 .. 0 |-> <<>>], s, T, 0)
    BY DEF IsPicked
  <2>2. QED
    BY <2>1
<1>2. ASSUME NEW n \in 1 .. N, n - 1 \in E PROVE n \in E
  <2>1. PICK p : IsPicked(p, s, T, n - 1)
    BY <1>2
  <2> DEFINE last == IF s[n] \in T THEN Append(p[n - 1], s[n]) ELSE p[n - 1]
             q == [i \in 0 .. n |-> IF i = n THEN last ELSE p[i]]
  <2>2. \A i \in 0 .. n - 1 : q[i] = p[i]
    OBVIOUS
  <2>3. q[n] = last /\ DOMAIN q = 0 .. n /\ n # 0
    OBVIOUS
  <2> HIDE DEF q
  <2>4. ASSUME NEW i \in 0 .. n - 1
        PROVE  q[i] = IF i = 0 THEN <<>> ELSE IF s[i] \in T THEN Append(q[i - 1], s[i]) ELSE q[i - 1]
    <3>1. CASE i = 0
      BY <2>1, <2>2, <3>1 DEF IsPicked
    <3>2. CASE i # 0
      <4>1. i - 1 \in 0 .. n - 1
        BY <3>2
      <4>2. q[i - 1] = p[i - 1] /\ q[i] = p[i]
        BY <2>2, <4>1
      <4>3. p[i] = IF s[i] \in T THEN Append(p[i - 1], s[i]) ELSE p[i - 1]
        BY <2>1, <3>2 DEF IsPicked
      <4>4. QED
        BY <3>2, <4>2, <4>3
    <3>3. QED
      BY <3>1, <3>2
  <2>5. q[n] = IF n = 0 THEN <<>> ELSE IF s[n] \in T THEN Append(q[n - 1], s[n]) ELSE q[n - 1]
    <3>1. n - 1 \in 0 .. n - 1
      OBVIOUS
    <3>2. q[n - 1] = p[n - 1]
      BY <2>2, <3>1
    <3>3. QED
      BY <2>3, <3>2
  <2>6. \A i \in 0 .. n : i = n \/ i \in 0 .. n - 1
    OBVIOUS
  <2>7. q = [i \in 0 .. n |-> q[i]]
    BY DEF q
  <2>8. q = [i \in 0 .. n |-> IF i = 0 THEN <<>>
                              ELSE IF s[i] \in T THEN Append(q[i - 1], s[i]) ELSE q[i - 1]]
    BY <2>4, <2>5, <2>6, <2>7
  <2>9. IsPicked(q, s, T, n)
    BY <2>8 DEF IsPicked
  <2>10. QED
    BY <2>9
<1>3. 0 .. N \subseteq E
  <2> HIDE DEF E
  <2>1. QED
    BY <1>1, <1>2, UpTo
<1>4. N \in E
  BY <1>3
<1>5. QED
  BY <1>4

LEMMA OnlyPicked ==
  ASSUME NEW s, NEW T, Len(s) \in Nat
  PROVE  \E p : IsPicked(p, s, T, Len(s)) /\ Only(s, T) = p[Len(s)]
<1> DEFINE step(p, n) == IF n = 0 THEN <<>>
                         ELSE IF s[n] \in T THEN Append(p[n - 1], s[n]) ELSE p[n - 1]
           picked == CHOOSE p : p = [n \in 0 .. Len(s) |-> step(p, n)]
<1>1. PICK p : IsPicked(p, s, T, Len(s))
  BY PickedExists
<1>2. p = [n \in 0 .. Len(s) |-> step(p, n)]
  BY <1>1 DEF IsPicked
<1>5. picked = [n \in 0 .. Len(s) |-> step(picked, n)]
  <2> HIDE DEF step
  <2>1. QED
    BY <1>2, Zenon
<1>6. Only(s, T) = picked[Len(s)]
  BY Zenon DEF Only
<1> HIDE DEF picked
<1>7. IsPicked(picked, s, T, Len(s))
  BY <1>5, Zenon DEF IsPicked
<1>8. QED
  BY <1>6, <1>7

(***************************************************************************)
(* A selection goes on with the next element, taken or not.                *)
(***************************************************************************)
LEMMA SelectNext ==
  ASSUME NEW S, NEW s \in Seq(S), NEW T, NEW n \in 1 .. Len(s), NEW t \in Seq(S),
         Selects(t, s, T, n - 1)
  PROVE  LET u == IF s[n] \in T THEN Append(t, s[n]) ELSE t
         IN u \in Seq(S) /\ Selects(u, s, T, n)
<1>1. PICK f \in [1 .. Len(t) -> 1 .. n - 1] :
        /\ \A i, j \in 1 .. Len(t) : i < j => f[i] < f[j]
        /\ \A i \in 1 .. Len(t) : t[i] = s[f[i]]
        /\ \A k \in 1 .. n - 1 : s[k] \in T <=> \E i \in 1 .. Len(t) : f[i] = k
  BY DEF Selects
<1>2. Len(t) \in Nat /\ n \in Nat /\ 1 .. n - 1 \subseteq 1 .. n /\ n \notin 1 .. n - 1
  OBVIOUS
<1>3. CASE s[n] \notin T
  <2>1. f \in [1 .. Len(t) -> 1 .. n]
    BY <1>2
  <2>2. \A k \in 1 .. n : s[k] \in T <=> \E i \in 1 .. Len(t) : f[i] = k
    <3> SUFFICES ASSUME NEW k \in 1 .. n
                 PROVE  s[k] \in T <=> \E i \in 1 .. Len(t) : f[i] = k
      OBVIOUS
    <3>1. CASE k = n
      BY <1>2, <1>3, <3>1
    <3>2. CASE k # n
      <4>1. k \in 1 .. n - 1
        BY <3>2
      <4>2. QED
        BY <1>1, <4>1
    <3>3. QED
      BY <3>1, <3>2
  <2>3. Selects(t, s, T, n)
    BY <1>1, <2>1, <2>2 DEF Selects
  <2>4. QED
    BY <1>3, <2>3
<1>4. CASE s[n] \in T
  <2> DEFINE u == Append(t, s[n])
             g == [i \in 1 .. Len(u) |-> IF i = Len(u) THEN n ELSE f[i]]
  <2>1. u \in Seq(S) /\ Len(u) = Len(t) + 1 /\ u[Len(u)] = s[n]
    OBVIOUS
  <2>2. \A i \in 1 .. Len(t) : u[i] = t[i] /\ i # Len(u) /\ i \in 1 .. Len(u)
    BY <2>1
  <2>3. \A i \in 1 .. Len(u) : i = Len(u) \/ i \in 1 .. Len(t)
    BY <2>1
  <2>4. Len(u) \in 1 .. Len(u)
    BY <2>1
  <2> HIDE DEF u
  <2>5. \A i \in 1 .. Len(t) : g[i] = f[i] /\ f[i] \in 1 .. n - 1
    BY <2>2
  <2>6. g[Len(u)] = n
    BY <2>4
  <2>7. g \in [1 .. Len(u) -> 1 .. n]
    BY <1>2, <2>3
  <2> HIDE DEF g
  <2>8. ASSUME NEW i \in 1 .. Len(u), NEW j \in 1 .. Len(u), i < j PROVE g[i] < g[j]
    <3>1. i \in 1 .. Len(t)
      BY <2>1, <2>3, <2>8
    <3>2. CASE j = Len(u)
      BY <2>5, <2>6, <3>1, <3>2
    <3>3. CASE j \in 1 .. Len(t)
      BY <1>1, <2>5, <2>8, <3>1, <3>3
    <3>4. QED
      BY <2>3, <3>2, <3>3
  <2>9. \A i \in 1 .. Len(u) : u[i] = s[g[i]]
    BY <1>1, <2>1, <2>2, <2>3, <2>5, <2>6
  <2>10. \A k \in 1 .. n : s[k] \in T <=> \E i \in 1 .. Len(u) : g[i] = k
    <3> SUFFICES ASSUME NEW k \in 1 .. n
                 PROVE  s[k] \in T <=> \E i \in 1 .. Len(u) : g[i] = k
      OBVIOUS
    <3>1. CASE k = n
      BY <1>4, <2>4, <2>6, <3>1
    <3>2. CASE k # n
      <4>1. k \in 1 .. n - 1
        BY <3>2
      <4>2. s[k] \in T <=> \E i \in 1 .. Len(t) : f[i] = k
        BY <1>1, <4>1
      <4>3. (\E i \in 1 .. Len(u) : g[i] = k) <=> \E i \in 1 .. Len(t) : f[i] = k
        BY <2>2, <2>3, <2>5, <2>6, <3>2
      <4>4. QED
        BY <4>2, <4>3
    <3>3. QED
      BY <3>1, <3>2
  <2>11. Selects(u, s, T, n)
    BY <2>7, <2>8, <2>9, <2>10 DEF Selects
  <2>12. QED
    BY <1>4, <2>1, <2>11 DEF u
<1>5. QED
  BY <1>3, <1>4

(***************************************************************************)
(* Only selects, in their order, the elements that are in the set.         *)
(***************************************************************************)
LEMMA OnlySelects ==
  ASSUME NEW S, NEW s \in Seq(S), NEW T
  PROVE  Only(s, T) \in Seq(S) /\ Selects(Only(s, T), s, T, Len(s))
<1>1. PICK p : IsPicked(p, s, T, Len(s)) /\ Only(s, T) = p[Len(s)]
  BY OnlyPicked
<1>2. /\ p[0] = <<>>
      /\ \A n \in 1 .. Len(s) : p[n] = IF s[n] \in T THEN Append(p[n - 1], s[n]) ELSE p[n - 1]
  <2>1. \A n \in 1 .. Len(s) : n \in 0 .. Len(s) /\ n # 0
    OBVIOUS
  <2>2. 0 \in 0 .. Len(s)
    OBVIOUS
  <2>3. \A n \in 0 .. Len(s) :
          p[n] = IF n = 0 THEN <<>> ELSE IF s[n] \in T THEN Append(p[n - 1], s[n]) ELSE p[n - 1]
    BY <1>1 DEF IsPicked
  <2>4. QED
    BY <2>1, <2>2, <2>3
<1> DEFINE E == {n \in 0 .. Len(s) : p[n] \in Seq(S) /\ Selects(p[n], s, T, n)}
<1>3. 0 \in E
  <2>1. p[0] = <<>> /\ Len(p[0]) = 0 /\ p[0] \in Seq(S)
    BY <1>2
  <2>2. 1 .. 0 = {}
    OBVIOUS
  <2>3. [i \in {} |-> 0] \in [1 .. Len(p[0]) -> 1 .. 0]
    BY <2>1, <2>2
  <2>4. Selects(p[0], s, T, 0)
    BY <2>1, <2>2, <2>3 DEF Selects
  <2>5. 0 \in 0 .. Len(s)
    OBVIOUS
  <2>6. QED
    BY <2>1, <2>4, <2>5
<1>4. ASSUME NEW n \in 1 .. Len(s), n - 1 \in E PROVE n \in E
  <2>1. p[n - 1] \in Seq(S) /\ Selects(p[n - 1], s, T, n - 1)
    BY <1>4
  <2> DEFINE u == IF s[n] \in T THEN Append(p[n - 1], s[n]) ELSE p[n - 1]
  <2>2. u \in Seq(S) /\ Selects(u, s, T, n)
    BY <2>1, SelectNext, Zenon
  <2>3. p[n] = u
    BY <1>2
  <2>4. n \in 0 .. Len(s)
    OBVIOUS
  <2> HIDE DEF u
  <2>5. QED
    BY <2>2, <2>3, <2>4
<1>5. 0 .. Len(s) \subseteq E
  <2>1. Len(s) \in Nat
    OBVIOUS
  <2> HIDE DEF E
  <2>2. QED
    BY <1>3, <1>4, <2>1, UpTo
<1>6. Len(s) \in E
  BY <1>5
<1>7. QED
  BY <1>1, <1>6

(***************************************************************************)
(* What Only keeps: the set, and that no element comes twice.              *)
(***************************************************************************)
LEMMA OnlySet ==
  ASSUME NEW S, NEW s \in Seq(S), NEW T
  PROVE  ToSet(Only(s, T)) = ToSet(s) \cap T
<1> DEFINE t == Only(s, T)
<1>1. t \in Seq(S) /\ Selects(t, s, T, Len(s))
  BY OnlySelects
<1> HIDE DEF t
<1>2. PICK f \in [1 .. Len(t) -> 1 .. Len(s)] :
        /\ \A i \in 1 .. Len(t) : t[i] = s[f[i]]
        /\ \A k \in 1 .. Len(s) : s[k] \in T <=> \E i \in 1 .. Len(t) : f[i] = k
  BY <1>1 DEF Selects
<1>3. DOMAIN t = 1 .. Len(t) /\ DOMAIN s = 1 .. Len(s)
  BY <1>1
<1>4. ASSUME NEW x \in ToSet(t) PROVE x \in ToSet(s) \cap T
  <2>1. PICK i \in 1 .. Len(t) : x = t[i]
    BY <1>3 DEF ToSet
  <2>2. x = s[f[i]] /\ f[i] \in 1 .. Len(s)
    BY <1>2, <2>1
  <2>3. s[f[i]] \in T
    BY <1>2, <2>2
  <2>4. QED
    BY <1>3, <2>2, <2>3 DEF ToSet
<1>5. ASSUME NEW x \in ToSet(s) \cap T PROVE x \in ToSet(t)
  <2>1. PICK k \in 1 .. Len(s) : x = s[k]
    BY <1>3 DEF ToSet
  <2>2. PICK i \in 1 .. Len(t) : f[i] = k
    BY <1>2, <2>1
  <2>3. QED
    BY <1>2, <1>3, <2>1, <2>2 DEF ToSet
<1>6. QED
  BY <1>4, <1>5 DEF t

\* A list in the order of creation.
Increasing(s) == \A i, j \in DOMAIN s : i < j => s[i] < s[j]

LEMMA OnlyIncreasing ==
  ASSUME NEW S, NEW s \in Seq(S), NEW T, Increasing(s)
  PROVE  Increasing(Only(s, T))
<1> DEFINE t == Only(s, T)
<1>1. t \in Seq(S) /\ Selects(t, s, T, Len(s))
  BY OnlySelects
<1> HIDE DEF t
<1>2. PICK f \in [1 .. Len(t) -> 1 .. Len(s)] :
        /\ \A i, j \in 1 .. Len(t) : i < j => f[i] < f[j]
        /\ \A i \in 1 .. Len(t) : t[i] = s[f[i]]
  BY <1>1 DEF Selects
<1>3. DOMAIN t = 1 .. Len(t) /\ DOMAIN s = 1 .. Len(s)
  BY <1>1
<1>4. Increasing(t)
  BY <1>2, <1>3 DEF Increasing
<1>5. QED
  BY <1>4 DEF t

-----------------------------------------------------------------------------
(* The inductive invariant                                                 *)

\* The list is in the order of creation.
Sorted == Increasing(messages)

\* A summary stands for what was there before it.
CoversPast == \A m \in DOMAIN log : log[m].covers \subseteq 1 .. m - 1

\* No message is behind two summaries of the list, or behind one and in it;
\* what is forgotten is neither.
Apart ==
  /\ \A s, t \in ToSet(messages) : s # t => log[s].covers \cap log[t].covers = {}
  /\ Covered \cap ToSet(messages) = {}
  /\ forgotten \cap (Covered \cup ToSet(messages)) = {}

IInv == TypeOK /\ Sorted /\ CoversPast /\ Apart /\ NothingElseForgotten /\ RecentStays

-----------------------------------------------------------------------------
(* The cutoff                                                              *)

(***************************************************************************)
(* A set that a function counts off from a to b has as many elements.      *)
(***************************************************************************)
LEMMA CountedOff ==
  ASSUME NEW S, NEW a \in Nat, NEW b \in Nat, a <= b, NEW f \in [a .. b -> S],
         \A i, j \in a .. b : f[i] = f[j] => i = j,
         \A x \in S : \E i \in a .. b : f[i] = x
  PROVE  IsFiniteSet(S) /\ Cardinality(S) = b - a + 1
<1>1. f \in Bijection(a .. b, S)
  BY DEF Bijection, Injection, Surjection, IsInjective
<1>2. ExistsBijection(a .. b, S)
  BY <1>1 DEF ExistsBijection
<1>3. IsFiniteSet(a .. b) /\ Cardinality(a .. b) = b - a + 1
  BY FS_Interval
<1>4. QED
  BY <1>2, <1>3, FS_Bijection

Human(m) == Kind(m) = "human"

(***************************************************************************)
(* HumanIndexes lists the places of the inputs, in order.                  *)
(***************************************************************************)
LEMMA HumanPlaces ==
  ASSUME TypeOK
  PROVE  /\ HumanIndexes \in Seq(DOMAIN messages) /\ Increasing(HumanIndexes)
         /\ \A i \in DOMAIN messages :
              Human(messages[i]) <=> \E k \in 1 .. Len(HumanIndexes) : HumanIndexes[k] = i
         /\ \A k \in 1 .. Len(HumanIndexes) : Human(messages[HumanIndexes[k]])
<1> DEFINE S == DOMAIN messages
           s == [i \in S |-> i]
           T == {i \in S : Kind(messages[i]) = "human"}
           hs == HumanIndexes
<1>1. Len(messages) \in Nat /\ S = 1 .. Len(messages)
  BY DEF TypeOK
<1>2. s \in Seq(S) /\ Len(s) = Len(messages)
  BY <1>1
<1>3. \A i \in S : s[i] = i
  OBVIOUS
<1>4. DOMAIN s = S
  OBVIOUS
<1>5. hs = Only(s, T)
  BY DEF HumanIndexes
<1>6. \A i \in S : i \in T <=> Human(messages[i])
  BY DEF Human
<1>7. T \subseteq S
  OBVIOUS
<1> HIDE DEF s, T, hs
<1>8. Increasing(s)
  BY <1>3, <1>4 DEF Increasing
<1>9. hs \in Seq(S) /\ Increasing(hs)
  BY <1>2, <1>5, <1>8, OnlySelects, OnlyIncreasing
<1>10. ToSet(hs) = T
  <2>1. ToSet(s) = S
    BY <1>3, <1>4 DEF ToSet
  <2>2. ToSet(hs) = ToSet(s) \cap T
    BY <1>2, <1>5, OnlySet
  <2>3. QED
    BY <1>7, <2>1, <2>2
<1>11. \A i : i \in T <=> \E k \in 1 .. Len(hs) : hs[k] = i
  <2>1. DOMAIN hs = 1 .. Len(hs)
    BY <1>9
  <2>2. QED
    BY <1>10, <2>1 DEF ToSet
<1>12. \A k \in 1 .. Len(hs) : Human(messages[hs[k]])
  BY <1>6, <1>7, <1>11
<1>13. QED
  BY <1>6, <1>9, <1>11, <1>12 DEF hs

(***************************************************************************)
(* A cutoff leaves an input of the teacher before it and, from the message *)
(* behind it on, exactly KeepRecentTurns of them.                          *)
(***************************************************************************)
LEMMA CutoffPlaces ==
  ASSUME TypeOK, RecentTurnCutoff > 0
  PROVE  /\ RecentTurnCutoff \in 1 .. Len(messages) - 1
         /\ \E i \in 1 .. RecentTurnCutoff : Human(messages[i])
         /\ LET kept == {messages[k] : k \in RecentTurnCutoff + 1 .. Len(messages)}
                S == {m \in kept : Human(m)}
            IN IsFiniteSet(S) /\ Cardinality(S) = KeepRecentTurns
<1> DEFINE hs == HumanIndexes
           h == Len(hs)
           q == h - KeepRecentTurns + 1
           c == RecentTurnCutoff
<1>1. /\ hs \in Seq(DOMAIN messages) /\ Increasing(hs)
      /\ \A i \in DOMAIN messages : Human(messages[i]) <=> \E k \in 1 .. h : hs[k] = i
      /\ \A k \in 1 .. h : Human(messages[hs[k]])
  BY HumanPlaces
<1>2. Len(messages) \in Nat /\ DOMAIN messages = 1 .. Len(messages)
  BY DEF TypeOK
<1>3. h \in Nat /\ KeepRecentTurns \in Nat /\ KeepRecentTurns > 0
  BY <1>1, CompressionAssumption
<1>4. h > KeepRecentTurns /\ c = hs[q] - 1
  BY <1>3 DEF RecentTurnCutoff
<1> HIDE DEF c, hs
<1>5. q \in 2 .. h /\ 1 \in 1 .. h /\ q \in 1 .. h /\ h - q + 1 = KeepRecentTurns /\ q <= h
  BY <1>4, <1>3
<1> HIDE DEF q
<1>6. DOMAIN hs = 1 .. h /\ \A k \in 1 .. h : hs[k] \in 1 .. Len(messages)
  BY <1>1, <1>2
<1> HIDE DEF h
<1>7. hs[1] < hs[q]
  BY <1>1, <1>5, <1>6 DEF Increasing
<1>8. c \in 1 .. Len(messages) - 1 /\ hs[1] \in 1 .. c
  BY <1>2, <1>4, <1>5, <1>6, <1>7
<1>9. \A i \in q .. h : i \in 1 .. h /\ (i = q \/ q < i)
  BY <1>3, <1>5
<1>10. ASSUME NEW i \in q .. h PROVE hs[i] \in c + 1 .. Len(messages) /\ Human(messages[hs[i]])
  <2>1. i \in 1 .. h /\ hs[i] \in 1 .. Len(messages) /\ hs[q] \in 1 .. Len(messages)
    BY <1>5, <1>6, <1>9
  <2>2. hs[i] >= hs[q]
    BY <1>1, <1>5, <1>6, <1>9, <2>1 DEF Increasing
  <2>3. QED
    BY <1>1, <1>4, <2>1, <2>2
<1>11. ASSUME NEW i \in q .. h, NEW j \in q .. h, hs[i] = hs[j] PROVE i = j
  <2>1. i \in 1 .. h /\ j \in 1 .. h /\ i \in Nat /\ j \in Nat /\ hs[i] \in Nat
    BY <1>3, <1>6, <1>9
  <2>2. ~ (i < j) /\ ~ (j < i)
    BY <1>1, <1>6, <1>11, <2>1 DEF Increasing
  <2>3. QED
    BY <2>1, <2>2
<1>12. ASSUME NEW k \in c + 1 .. Len(messages), Human(messages[k])
       PROVE  \E i \in q .. h : hs[i] = k
  <2>1. k \in DOMAIN messages
    BY <1>2, <1>8
  <2>2. PICK i \in 1 .. h : hs[i] = k
    BY <1>1, <1>12, <2>1
  <2>3. ~ (hs[i] < hs[q])
    BY <1>4, <1>5, <1>6, <2>2
  <2>4. ~ (i < q)
    BY <1>1, <1>5, <1>6, <2>3 DEF Increasing
  <2>5. i \in q .. h
    BY <1>3, <1>5, <2>4
  <2>6. QED
    BY <2>2, <2>5
<1>13. Human(messages[hs[1]])
  BY <1>1, <1>5
<1>14. q \in Nat /\ h \in Nat /\ q <= h /\ h - q + 1 = KeepRecentTurns
  BY <1>3, <1>5
<1>15. \E i \in 1 .. c : Human(messages[i])
  BY <1>8, <1>13
<1>16. ASSUME NEW S, S = {m \in {messages[k] : k \in c + 1 .. Len(messages)} : Human(m)}
       PROVE  IsFiniteSet(S) /\ Cardinality(S) = KeepRecentTurns
  <2> DEFINE f == [i \in q .. h |-> messages[hs[i]]]
  <2>1. \A i \in q .. h : f[i] = messages[hs[i]]
    OBVIOUS
  <2>2. f \in [q .. h -> S]
    BY <1>10, <1>16
  <2> HIDE DEF f
  <2>3. ASSUME NEW i \in q .. h, NEW j \in q .. h, f[i] = f[j] PROVE i = j
    <3>1. hs[i] \in DOMAIN messages /\ hs[j] \in DOMAIN messages
      BY <1>2, <1>6, <1>9
    <3>2. hs[i] = hs[j]
      BY <2>1, <2>3, <3>1 DEF TypeOK, IsInjective
    <3>3. QED
      BY <1>11, <3>2
  <2>4. ASSUME NEW m \in S PROVE \E i \in q .. h : f[i] = m
    <3>1. PICK k \in c + 1 .. Len(messages) : m = messages[k] /\ Human(messages[k])
      BY <1>16
    <3>2. PICK i \in q .. h : hs[i] = k
      BY <1>12, <3>1
    <3>3. QED
      BY <2>1, <3>1, <3>2
  <2>5. IsFiniteSet(S) /\ Cardinality(S) = h - q + 1
    <3>1. q \in Nat /\ h \in Nat /\ q <= h
      BY <1>14
    <3>2. QED
      BY <2>2, <2>3, <2>4, <3>1, CountedOff
  <2>6. QED
    BY <1>14, <2>5
<1>17. QED
  BY <1>8, <1>15, <1>16 DEF c

-----------------------------------------------------------------------------
(* The replacement                                                         *)

(***************************************************************************)
(* The cutoff splits the list in two, the older part before the newer.     *)
(***************************************************************************)
LEMMA Slices ==
  ASSUME TypeOK, NEW c \in 1 .. Len(messages) - 1
  PROVE  /\ Compressible(c) \in Seq(DOMAIN log) /\ Retained(c) \in Seq(DOMAIN log)
         /\ ToSet(Compressible(c)) = {messages[i] : i \in 1 .. c}
         /\ ToSet(Retained(c)) = {messages[i] : i \in c + 1 .. Len(messages)}
         /\ ToSet(messages) = ToSet(Compressible(c)) \cup ToSet(Retained(c))
<1> DEFINE N == Len(messages)
           older == Compressible(c)
           newer == Retained(c)
<1>1. messages \in Seq(DOMAIN log) /\ N \in Nat /\ DOMAIN messages = 1 .. N
  BY DEF TypeOK
<1>2. /\ older \in Seq(DOMAIN log) /\ Len(older) = c
      /\ \A i \in 1 .. c : older[i] = messages[i]
  BY <1>1 DEF Compressible
<1>3. /\ newer \in Seq(DOMAIN log) /\ Len(newer) = N - c
      /\ \A i \in 1 .. N - c : newer[i] = messages[c + i]
  BY <1>1 DEF Retained
<1> HIDE DEF older, newer
<1>4. DOMAIN older = 1 .. c /\ DOMAIN newer = 1 .. N - c
  BY <1>2, <1>3
<1>5. ToSet(older) = {messages[i] : i \in 1 .. c}
  BY <1>2, <1>4 DEF ToSet
<1>6. ToSet(newer) = {messages[i] : i \in c + 1 .. N}
  <2>1. ASSUME NEW i \in c + 1 .. N PROVE messages[i] \in ToSet(newer)
    <3>1. i - c \in 1 .. N - c /\ c + (i - c) = i
      BY <1>1
    <3>2. newer[i - c] = messages[i]
      BY <1>3, <3>1
    <3>3. QED
      BY <1>4, <3>1, <3>2 DEF ToSet
  <2>2. ASSUME NEW i \in 1 .. N - c PROVE newer[i] \in {messages[k] : k \in c + 1 .. N}
    <3>1. c + i \in c + 1 .. N
      BY <1>1
    <3>2. QED
      BY <1>3, <3>1
  <2>3. ToSet(newer) \subseteq {messages[k] : k \in c + 1 .. N}
    BY <1>4, <2>2 DEF ToSet
  <2>4. {messages[k] : k \in c + 1 .. N} \subseteq ToSet(newer)
    BY <2>1
  <2>5. QED
    BY <2>3, <2>4
<1>7. ToSet(messages) = ToSet(older) \cup ToSet(newer)
  <2>1. \A i : i \in 1 .. N <=> i \in 1 .. c \/ i \in c + 1 .. N
    BY <1>1
  <2>2. ToSet(messages) = {messages[i] : i \in 1 .. N}
    BY <1>1 DEF ToSet
  <2>3. QED
    BY <1>5, <1>6, <2>1, <2>2
<1>8. QED
  BY <1>2, <1>3, <1>5, <1>6, <1>7 DEF older, newer

(***************************************************************************)
(* Two lists behind each other.                                            *)
(***************************************************************************)
LEMMA Joined ==
  ASSUME NEW S, NEW s \in Seq(S), NEW t \in Seq(S)
  PROVE  /\ s \o t \in Seq(S) /\ Len(s \o t) = Len(s) + Len(t)
         /\ \A i \in 1 .. Len(s) : (s \o t)[i] = s[i]
         /\ \A i \in 1 .. Len(t) : (s \o t)[Len(s) + i] = t[i]
         /\ ToSet(s \o t) = ToSet(s) \cup ToSet(t)
<1> DEFINE u == s \o t
<1>1. u \in Seq(S) /\ Len(u) = Len(s) + Len(t)
  OBVIOUS
<1>2. \A i \in 1 .. Len(s) : u[i] = s[i]
  OBVIOUS
<1>3. \A i \in 1 .. Len(t) : u[Len(s) + i] = t[i]
  OBVIOUS
<1> HIDE DEF u
<1>4. DOMAIN s = 1 .. Len(s) /\ DOMAIN t = 1 .. Len(t) /\ DOMAIN u = 1 .. Len(s) + Len(t)
  BY <1>1
<1>5. ASSUME NEW i \in DOMAIN u PROVE u[i] \in ToSet(s) \cup ToSet(t)
  <2>1. CASE i \in 1 .. Len(s)
    BY <1>2, <1>4, <2>1 DEF ToSet
  <2>2. CASE i \notin 1 .. Len(s)
    <3>1. i - Len(s) \in 1 .. Len(t) /\ Len(s) + (i - Len(s)) = i
      BY <1>4, <2>2
    <3>2. u[i] = t[i - Len(s)]
      BY <1>3, <3>1
    <3>3. QED
      BY <1>4, <3>1, <3>2 DEF ToSet
  <2>3. QED
    BY <2>1, <2>2
<1>6. ASSUME NEW x \in ToSet(s) \cup ToSet(t) PROVE x \in ToSet(u)
  <2>1. CASE x \in ToSet(s)
    <3>1. PICK i \in 1 .. Len(s) : x = s[i]
      BY <1>4, <2>1 DEF ToSet
    <3>2. i \in DOMAIN u /\ u[i] = x
      BY <1>2, <1>4, <3>1
    <3>3. QED
      BY <3>2 DEF ToSet
  <2>2. CASE x \in ToSet(t)
    <3>1. PICK i \in 1 .. Len(t) : x = t[i]
      BY <1>4, <2>2 DEF ToSet
    <3>2. Len(s) + i \in DOMAIN u /\ u[Len(s) + i] = x
      BY <1>3, <1>4, <3>1
    <3>3. QED
      BY <3>2 DEF ToSet
  <2>3. QED
    BY <2>1, <2>2
<1>7. ToSet(u) = ToSet(s) \cup ToSet(t)
  <2>1. ToSet(u) \subseteq ToSet(s) \cup ToSet(t)
    BY <1>5 DEF ToSet
  <2>2. QED
    BY <1>6, <2>1
<1>8. QED
  BY <1>1, <1>2, <1>3, <1>7 DEF u

(***************************************************************************)
(* One element that stands at one place only is selected alone.            *)
(***************************************************************************)
LEMMA OnlyOne ==
  ASSUME NEW S, NEW s \in Seq(S), NEW T, NEW k \in 1 .. Len(s),
         \A i \in 1 .. Len(s) : s[i] \in T <=> i = k
  PROVE  Len(Only(s, T)) = 1 /\ Only(s, T)[1] = s[k] /\ Only(s, T) \in Seq(S)
<1> DEFINE t == Only(s, T)
<1>1. t \in Seq(S) /\ Selects(t, s, T, Len(s))
  BY OnlySelects
<1> HIDE DEF t
<1>2. PICK f \in [1 .. Len(t) -> 1 .. Len(s)] :
        /\ \A i, j \in 1 .. Len(t) : i < j => f[i] < f[j]
        /\ \A i \in 1 .. Len(t) : t[i] = s[f[i]]
        /\ \A j \in 1 .. Len(s) : s[j] \in T <=> \E i \in 1 .. Len(t) : f[i] = j
  BY <1>1 DEF Selects
<1>3. \A i \in 1 .. Len(t) : f[i] = k
  BY <1>2
<1>4. PICK i \in 1 .. Len(t) : f[i] = k
  BY <1>2
<1>5. \A j \in 1 .. Len(t) : j = i
  <2>1. ASSUME NEW j \in 1 .. Len(t), NEW l \in 1 .. Len(t), j < l PROVE FALSE
    <3>1. f[j] < f[l] /\ f[j] = k /\ f[l] = k /\ k \in Nat
      BY <1>2, <1>3, <2>1
    <3>2. QED
      BY <3>1
  <2>2. QED
    BY <1>4, <2>1
<1>6. Len(t) \in Nat /\ Len(t) >= 1 /\ 1 \in 1 .. Len(t) /\ Len(t) \in 1 .. Len(t)
  BY <1>1, <1>4
<1>7. Len(t) = 1
  BY <1>5, <1>6
<1>8. t[1] = s[k]
  BY <1>2, <1>3, <1>6
<1>9. QED
  BY <1>1, <1>7, <1>8 DEF t

(***************************************************************************)
(* Through the reducer the replacement keeps the newer part in its order   *)
(* and appends the summary behind it.                                      *)
(***************************************************************************)
LEMMA Replaced ==
  ASSUME TypeOK, NEW retained \in Seq(ToSet(messages)), NEW summary \in Nat,
         summary \notin ToSet(messages)
  PROVE  AddMessages(messages, Replacement(summary, retained))
           = Only(messages, ToSet(retained)) \o <<summary>>
<1> DEFINE N == Len(messages)
           R == Len(retained)
           u == Replacement(summary, retained)
           E == [id : Nat \cup ToSet(messages), remove : BOOLEAN]
           added == {e \in ToSet(u) : ~e.remove}
           gone == {e.id : e \in ToSet(u)} \ {e.id : e \in added}
           T == {e \in added : e.id \notin ToSet(messages)}
           new == Only(u, T)
<1>1. messages \in Seq(ToSet(messages)) /\ N \in Nat /\ DOMAIN messages = 1 .. N
  BY DEF TypeOK, ToSet
<1>2. R \in Nat /\ DOMAIN retained = 1 .. R
  OBVIOUS
<1>3. /\ u \in Seq(E) /\ Len(u) = N + 1 + R
      /\ \A i \in 1 .. N : u[i] = Entry(messages[i], TRUE)
      /\ u[N + 1] = Entry(summary, FALSE)
      /\ \A i \in 1 .. R : u[N + 1 + i] = Entry(retained[i], FALSE)
  <2> DEFINE a == [i \in DOMAIN messages |-> Entry(messages[i], TRUE)]
             b == <<Entry(summary, FALSE)>>
             d == [i \in DOMAIN retained |-> Entry(retained[i], FALSE)]
  <2>1. a \in Seq(E) /\ Len(a) = N /\ \A i \in 1 .. N : a[i] = Entry(messages[i], TRUE)
    BY <1>1 DEF Entry
  <2>2. b \in Seq(E) /\ Len(b) = 1 /\ b[1] = Entry(summary, FALSE)
    BY DEF Entry
  <2>3. d \in Seq(E) /\ Len(d) = R /\ \A i \in 1 .. R : d[i] = Entry(retained[i], FALSE)
    BY <1>2 DEF Entry
  <2>4. u = a \o b \o d
    BY DEF Replacement
  <2> HIDE DEF a, b, d, u, E
  <2> DEFINE v == a \o b
  <2>5. /\ v \in Seq(E) /\ Len(v) = N + 1
        /\ \A i \in 1 .. N : v[i] = a[i]
        /\ v[N + 1] = b[1]
    <3> HIDE DEF N
    <3>1. /\ v \in Seq(E) /\ Len(v) = Len(a) + Len(b)
          /\ \A i \in 1 .. Len(a) : v[i] = a[i]
          /\ \A i \in 1 .. Len(b) : v[Len(a) + i] = b[i]
      <4>1. a \in Seq(E) /\ b \in Seq(E)
        BY <2>1, <2>2
      <4>2. QED
        BY ONLY <4>1, Joined
    <3>2. 1 \in 1 .. 1
      OBVIOUS
    <3>3. QED
      BY <2>1, <2>2, <3>1, <3>2
  <2>6. u = v \o d
    BY <2>4
  <2> HIDE DEF v, N, R
  <2>7. /\ u \in Seq(E) /\ Len(u) = N + 1 + R
        /\ \A i \in 1 .. N + 1 : u[i] = v[i]
        /\ \A i \in 1 .. R : u[N + 1 + i] = d[i]
    BY <2>3, <2>5, <2>6, Joined
  <2>8. N + 1 \in 1 .. N + 1 /\ \A i \in 1 .. N : i \in 1 .. N + 1
    BY <1>1 DEF N
  <2>9. QED
    BY <2>1, <2>2, <2>3, <2>5, <2>7, <2>8
<1> HIDE DEF u, E
<1>4. /\ \A i \in 1 .. N : u[i].id = messages[i] /\ u[i].remove
      /\ u[N + 1].id = summary /\ ~u[N + 1].remove
      /\ \A i \in 1 .. R : u[N + 1 + i].id = retained[i] /\ ~u[N + 1 + i].remove
  <2>1. \A x : /\ Entry(x, TRUE).id = x /\ Entry(x, TRUE).remove
               /\ Entry(x, FALSE).id = x /\ ~Entry(x, FALSE).remove
    BY DEF Entry
  <2>2. QED
    BY <1>3, <2>1, Zenon
<1>5. DOMAIN u = 1 .. N + 1 + R
  BY <1>3
<1>6. \A i \in 1 .. N + 1 + R : i \in 1 .. N \/ i = N + 1 \/ \E j \in 1 .. R : i = N + 1 + j
  <2>1. ASSUME NEW i \in 1 .. N + 1 + R, i \notin 1 .. N, i # N + 1
        PROVE  i - (N + 1) \in 1 .. R /\ i = N + 1 + (i - (N + 1))
    BY <1>1, <1>2, <2>1
  <2>2. QED
    BY <2>1
<1>7. ToSet(messages) = {messages[i] : i \in 1 .. N}
  BY <1>1 DEF ToSet
<1>8. \A i \in 1 .. N : i \in 1 .. N + 1 + R /\ i # N + 1
  BY <1>1, <1>2
<1>9. /\ N + 1 \in 1 .. N + 1 + R
      /\ \A i \in 1 .. R : N + 1 + i \in 1 .. N + 1 + R /\ N + 1 + i # N + 1
  BY <1>1, <1>2
<1>10. ToSet(retained) = {retained[i] : i \in 1 .. R} /\ ToSet(retained) \subseteq ToSet(messages)
  BY <1>2 DEF ToSet
<1> DEFINE I == 1 .. N + 1 + R
           ids == {e.id : e \in ToSet(u)}
           keptIds == {e.id : e \in added}
<1>11. (\A i \in I : u[i].id \in ids) /\ \A x \in ids : \E i \in I : u[i].id = x
  BY <1>5 DEF ToSet
<1>12. \A i \in I : u[i] \in added <=> ~u[i].remove
  BY <1>5 DEF ToSet
<1>13. \A x \in keptIds : \E i \in I : ~u[i].remove /\ u[i].id = x
  BY <1>5 DEF ToSet
<1>14. \A i \in I : ~u[i].remove => u[i].id \in keptIds
  BY <1>12
<1>15. \A i \in I : u[i] \in T <=> ~u[i].remove /\ u[i].id \notin ToSet(messages)
  BY <1>12
<1> HIDE DEF N, R, I, ids, keptIds, T, added
<1>16. \A i \in I : i \in 1 .. N \/ i = N + 1 \/ \E j \in 1 .. R : i = N + 1 + j
  BY <1>6 DEF I
<1>17. /\ \A i \in 1 .. N : i \in I /\ i # N + 1
       /\ N + 1 \in I
       /\ \A i \in 1 .. R : N + 1 + i \in I /\ N + 1 + i # N + 1
  BY <1>8, <1>9 DEF I
<1>18. ids = ToSet(messages) \cup {summary}
  <2>1. ASSUME NEW x \in ids PROVE x \in ToSet(messages) \cup {summary}
    <3>1. PICK i \in I : u[i].id = x
      BY <1>11
    <3>2. CASE i \in 1 .. N
      BY <1>4, <1>7, <3>1, <3>2
    <3>3. CASE i = N + 1
      BY <1>4, <3>1, <3>3
    <3>4. ASSUME NEW j \in 1 .. R, i = N + 1 + j PROVE x \in ToSet(messages)
      BY <1>4, <1>10, <3>1, <3>4
    <3>5. QED
      BY <1>16, <3>2, <3>3, <3>4
  <2>2. ASSUME NEW x \in ToSet(messages) PROVE x \in ids
    BY <1>4, <1>7, <1>11, <1>17
  <2>3. summary \in ids
    BY <1>4, <1>11, <1>17
  <2>4. QED
    BY <2>1, <2>2, <2>3
<1>19. keptIds = ToSet(retained) \cup {summary}
  <2>1. ASSUME NEW x \in keptIds PROVE x \in ToSet(retained) \cup {summary}
    <3>1. PICK i \in I : ~u[i].remove /\ u[i].id = x
      BY <1>13
    <3>2. i \notin 1 .. N
      BY <1>4, <3>1
    <3>3. QED
      BY <1>4, <1>10, <1>16, <3>1, <3>2
  <2>2. ASSUME NEW x \in ToSet(retained) PROVE x \in keptIds
    <3>1. PICK i \in 1 .. R : x = retained[i]
      BY <1>10
    <3>2. QED
      BY <1>4, <1>14, <1>17, <3>1
  <2>3. summary \in keptIds
    BY <1>4, <1>14, <1>17
  <2>4. QED
    BY <2>1, <2>2, <2>3
<1>20. ToSet(messages) \ gone = ToSet(retained)
  <2>1. gone = ids \ keptIds
    BY DEF ids, keptIds
  <2> HIDE DEF gone
  <2>2. QED
    BY <1>10, <1>18, <1>19, <2>1
<1>21. ASSUME NEW i \in I PROVE u[i] \in T <=> i = N + 1
  <2>1. CASE i \in 1 .. N
    BY <1>4, <1>15, <1>17, <2>1
  <2>2. CASE i = N + 1
    BY <1>4, <1>15, <1>17, <2>2
  <2>3. ASSUME NEW j \in 1 .. R, i = N + 1 + j PROVE u[i] \in T <=> i = N + 1
    <3>1. u[i].id = retained[j] /\ retained[j] \in ToSet(messages)
      BY <1>4, <1>10, <2>3
    <3>2. QED
      BY <1>15, <1>17, <2>3, <3>1
  <2>4. QED
    BY <1>16, <2>1, <2>2, <2>3
<1>22. Len(new) = 1 /\ new[1] = u[N + 1] /\ new \in Seq(E)
  <2>1. Len(u) = N + 1 + R /\ u \in Seq(E)
    BY <1>3
  <2>2. N + 1 \in 1 .. Len(u) /\ \A i \in 1 .. Len(u) : u[i] \in T <=> i = N + 1
    BY <1>17, <1>21, <2>1 DEF I
  <2>3. QED
    BY <2>1, <2>2, OnlyOne
<1>23. [i \in DOMAIN new |-> new[i].id] = <<summary>>
  <2> HIDE DEF new
  <2>1. DOMAIN new = 1 .. 1 /\ new[1].id = summary
    BY <1>4, <1>22
  <2>2. [i \in DOMAIN new |-> new[i].id] = [i \in 1 .. 1 |-> summary]
    BY <2>1
  <2>3. [i \in 1 .. 1 |-> summary] = <<summary>>
    OBVIOUS
  <2>4. QED
    BY <2>2, <2>3
<1>24. AddMessages(messages, u) = Only(messages, ToSet(messages) \ gone) \o [i \in DOMAIN new |-> new[i].id]
  BY Zenon DEF AddMessages, added, T
<1>25. QED
  BY <1>20, <1>23, <1>24 DEF u

-----------------------------------------------------------------------------
(* The steps                                                               *)

(***************************************************************************)
(* What is newer goes behind, and the list stays in order.                 *)
(***************************************************************************)
LEMMA JoinIncreasing ==
  ASSUME NEW S, NEW s \in Seq(S), NEW t \in Seq(S), Increasing(s), Increasing(t),
         \A x \in ToSet(s), y \in ToSet(t) : x < y
  PROVE  Increasing(s \o t)
<1> DEFINE u == s \o t
<1>1. /\ u \in Seq(S) /\ Len(u) = Len(s) + Len(t)
      /\ \A i \in 1 .. Len(s) : u[i] = s[i]
      /\ \A i \in 1 .. Len(t) : u[Len(s) + i] = t[i]
  BY Joined
<1> HIDE DEF u
<1>2. DOMAIN s = 1 .. Len(s) /\ DOMAIN t = 1 .. Len(t) /\ DOMAIN u = 1 .. Len(s) + Len(t)
  BY <1>1
<1>3. \A i \in DOMAIN u : i \in 1 .. Len(s) \/ i - Len(s) \in 1 .. Len(t)
  BY <1>2
<1>4. ASSUME NEW i \in DOMAIN u, i \notin 1 .. Len(s)
      PROVE  i - Len(s) \in 1 .. Len(t) /\ u[i] = t[i - Len(s)]
  <2>1. i - Len(s) \in 1 .. Len(t) /\ Len(s) + (i - Len(s)) = i
    BY <1>2, <1>4
  <2>2. QED
    BY <1>1, <2>1
<1>5. ASSUME NEW i \in DOMAIN u, NEW j \in DOMAIN u, i < j PROVE u[i] < u[j]
  <2>1. CASE i \in 1 .. Len(s) /\ j \in 1 .. Len(s)
    BY <1>1, <1>2, <1>5, <2>1 DEF Increasing
  <2>2. CASE i \in 1 .. Len(s) /\ j \notin 1 .. Len(s)
    <3>1. u[i] = s[i] /\ s[i] \in ToSet(s)
      BY <1>1, <1>2, <2>2 DEF ToSet
    <3>2. u[j] = t[j - Len(s)] /\ t[j - Len(s)] \in ToSet(t)
      BY <1>2, <1>4, <2>2 DEF ToSet
    <3>3. QED
      BY <3>1, <3>2
  <2>3. CASE i \notin 1 .. Len(s)
    <3>1. j \notin 1 .. Len(s)
      BY <1>2, <1>5, <2>3
    <3>2. /\ i - Len(s) \in DOMAIN t /\ u[i] = t[i - Len(s)]
          /\ j - Len(s) \in DOMAIN t /\ u[j] = t[j - Len(s)]
          /\ i - Len(s) < j - Len(s)
      BY <1>2, <1>4, <1>5, <2>3, <3>1
    <3>3. QED
      BY <3>2 DEF Increasing
  <2>4. QED
    BY <2>1, <2>2, <2>3
<1>6. QED
  BY <1>5 DEF Increasing, u

(***************************************************************************)
(* A list in order holds no message twice.                                 *)
(***************************************************************************)
LEMMA IncreasingInjective ==
  ASSUME NEW s \in Seq(Nat), Increasing(s)
  PROVE  IsInjective(s)
<1> SUFFICES ASSUME NEW i \in DOMAIN s, NEW j \in DOMAIN s, s[i] = s[j] PROVE i = j
  BY DEF IsInjective
<1>1. i \in Nat /\ j \in Nat /\ s[i] \in Nat /\ s[j] \in Nat
  OBVIOUS
<1>2. ~ (i < j) /\ ~ (j < i)
  BY <1>1 DEF Increasing
<1>3. QED
  BY <1>1, <1>2

(***************************************************************************)
(* A compression leaves the newer part and the summary in the list and     *)
(* everything else as it was.                                              *)
(***************************************************************************)
LEMMA Compressed ==
  ASSUME IInv, NEW covers, NEW lost, Replace(covers, lost)
  PROVE  LET c  == RecentTurnCutoff
             sm == Len(log) + 1
         IN /\ c \in 1 .. Len(messages) - 1
            /\ sm \in Nat /\ DOMAIN log = 1 .. Len(log) /\ DOMAIN log' = 1 .. sm
            /\ \A m \in DOMAIN log : log'[m] = log[m]
            /\ log'[sm] = [kind |-> "summary", covers |-> covers]
            /\ messages' \in Seq(DOMAIN log') /\ Increasing(messages')
            /\ ToSet(messages') = ToSet(Retained(c)) \cup {sm}
            /\ \A m \in ToSet(Compressible(c)), n \in ToSet(Retained(c)) : m < n
<1> DEFINE c == RecentTurnCutoff
           sm == Len(log) + 1
           entry == [kind |-> "summary", covers |-> covers]
           kept == Only(messages, ToSet(Retained(c)))
<1> USE DEF IInv
<1>1. /\ c > 0 /\ log' = Append(log, entry)
      /\ messages' = AddMessages(messages, Replacement(sm, Retained(c)))
  BY DEF Replace
<1>2. c \in 1 .. Len(messages) - 1
  BY <1>1, CutoffPlaces
<1>3. /\ Len(log) \in Nat /\ sm \in Nat /\ DOMAIN log = 1 .. Len(log)
      /\ messages \in Seq(DOMAIN log)
  BY DEF TypeOK
<1>4. DOMAIN log' = 1 .. sm /\ log'[sm] = entry /\ \A m \in DOMAIN log : log'[m] = log[m]
  <2> HIDE DEF entry
  <2>1. log \in Seq([kind : Kinds, covers : SUBSET (1 .. MaxMessages)])
    BY DEF TypeOK
  <2>2. QED
    BY <1>1, <2>1
<1>5. ToSet(messages) \subseteq DOMAIN log /\ sm \notin ToSet(messages)
  BY <1>3 DEF ToSet
<1>6. /\ ToSet(Retained(c)) = {messages[i] : i \in c + 1 .. Len(messages)}
      /\ ToSet(Compressible(c)) = {messages[i] : i \in 1 .. c}
      /\ Retained(c) \in Seq(DOMAIN log)
      /\ ToSet(messages) = ToSet(Compressible(c)) \cup ToSet(Retained(c))
  BY <1>2, Slices
<1> HIDE DEF c
<1>7. Retained(c) \in Seq(ToSet(messages))
  <2>1. ToSet(Retained(c)) \subseteq ToSet(messages)
    BY <1>6
  <2> DEFINE r == Retained(c)
  <2>2. r \in Seq(DOMAIN log)
    BY <1>6
  <2> HIDE DEF r
  <2>3. \A i \in 1 .. Len(r) : r[i] \in ToSet(r)
    BY <2>2 DEF ToSet
  <2>4. ToSet(r) \subseteq ToSet(messages)
    BY <2>1 DEF r
  <2>5. r \in Seq(ToSet(messages))
    BY <2>2, <2>3, <2>4
  <2>6. QED
    BY <2>5 DEF r
<1>8. messages' = kept \o <<sm>>
  BY <1>1, <1>3, <1>5, <1>7, Replaced
<1>9. kept \in Seq(DOMAIN log) /\ Increasing(kept) /\ ToSet(kept) = ToSet(Retained(c))
  <2>1. kept \in Seq(DOMAIN log)
    BY <1>3, OnlySelects
  <2>2. Increasing(kept)
    BY <1>3, OnlyIncreasing DEF Sorted
  <2>3. ToSet(kept) = ToSet(messages) \cap ToSet(Retained(c))
    BY <1>3, OnlySet
  <2>4. QED
    BY <1>6, <2>1, <2>2, <2>3
<1> HIDE DEF kept
<1> DEFINE one == <<sm>>
<1>10. /\ kept \in Seq(1 .. sm) /\ one \in Seq(1 .. sm)
       /\ ToSet(one) = {sm} /\ Increasing(one)
  <2>1. kept \in Seq(1 .. sm)
    <3>1. \A i \in 1 .. Len(kept) : kept[i] \in 1 .. sm
      BY <1>3, <1>9
    <3>2. QED
      BY <1>9, <3>1
  <2>2. one \in Seq(1 .. sm) /\ DOMAIN one = {1} /\ one[1] = sm
    BY <1>3
  <2>3. QED
    BY <2>1, <2>2 DEF ToSet, Increasing
<1> HIDE DEF one
<1>11. ASSUME NEW x \in ToSet(kept), NEW y \in ToSet(one) PROVE x < y
  <2>1. y = sm /\ x \in DOMAIN log
    BY <1>5, <1>6, <1>9, <1>10
  <2>2. QED
    BY <1>3, <2>1
<1>12. messages' \in Seq(1 .. sm) /\ ToSet(messages') = ToSet(kept) \cup {sm}
  <2>1. messages' = kept \o one
    BY <1>8 DEF one
  <2> HIDE DEF sm
  <2>2. kept \o one \in Seq(1 .. sm) /\ ToSet(kept \o one) = ToSet(kept) \cup ToSet(one)
    BY <1>10, Joined
  <2>3. QED
    BY <1>10, <2>1, <2>2
<1>13. Increasing(messages')
  <2>1. messages' = kept \o one
    BY <1>8 DEF one
  <2>2. Increasing(kept \o one)
    BY <1>9, <1>10, <1>11, JoinIncreasing
  <2>3. QED
    BY <2>1, <2>2
<1>14. ASSUME NEW m \in ToSet(Compressible(c)), NEW n \in ToSet(Retained(c)) PROVE m < n
  <2>1. PICK i \in 1 .. c : m = messages[i]
    BY <1>6
  <2>2. PICK j \in c + 1 .. Len(messages) : n = messages[j]
    BY <1>6
  <2>3. i \in DOMAIN messages /\ j \in DOMAIN messages /\ i < j
    BY <1>2, <1>3
  <2>4. QED
    BY <2>1, <2>2, <2>3 DEF Sorted, Increasing
<1>15. QED
  BY <1>2, <1>3, <1>4, <1>9, <1>12, <1>13, <1>14 DEF c

(***************************************************************************)
(* A turn adds messages to the log and the same to the list, and leaves    *)
(* what was there alone.                                                   *)
(***************************************************************************)
LEMMA Said ==
  ASSUME IInv, NEW input \in 0 .. 2, NEW answers \in 0 .. 1, Turn(input, answers)
  PROVE  LET L == Len(log)
             M == Len(log) + input + answers
         IN /\ L \in Nat /\ M \in Nat /\ L <= M /\ M <= MaxMessages
            /\ DOMAIN log = 1 .. L /\ DOMAIN log' = 1 .. M
            /\ log' \in Seq([kind : Kinds, covers : SUBSET (1 .. MaxMessages)])
            /\ \A m \in 1 .. L : log'[m] = log[m]
            /\ \A m \in L + 1 .. M : log'[m].kind # "summary" /\ log'[m].covers = {}
            /\ messages' \in Seq(1 .. M) /\ Increasing(messages')
            /\ ToSet(messages') = ToSet(messages) \cup L + 1 .. M
            /\ ToSet(messages) \subseteq 1 .. L
<1> DEFINE L == Len(log)
           n == input + answers
           M == L + input + answers
           S == [kind : Kinds, covers : SUBSET (1 .. MaxMessages)]
           entry(i) == [kind |-> IF i < input THEN "system" ELSE IF i = input THEN "human" ELSE "ai",
                        covers |-> {}]
           said == [i \in 1 .. n |-> entry(i)]
           new == [i \in 1 .. n |-> L + i]
<1>1. L \in Nat /\ n \in Nat /\ M \in Nat /\ M = L + n /\ L <= M /\ M <= MaxMessages
  BY DEF IInv, TypeOK, Turn
<1>2. log' = log \o said /\ messages' = messages \o new
  BY DEF Turn
<1>3. /\ log \in Seq(S) /\ DOMAIN log = 1 .. L
      /\ messages \in Seq(1 .. L) /\ ToSet(messages) \subseteq 1 .. L
  BY DEF IInv, TypeOK, ToSet
<1>4. \A i : entry(i) \in S /\ entry(i).kind # "summary" /\ entry(i).covers = {}
  BY DEF Kinds
<1>5. /\ said \in Seq(S) /\ Len(said) = n
      /\ \A i \in 1 .. n : said[i].kind # "summary" /\ said[i].covers = {}
  <2> HIDE DEF entry, n, S
  <2>1. \A i \in 1 .. n : said[i] = entry(i)
    OBVIOUS
  <2>2. said \in Seq(S) /\ Len(said) = n
    BY <1>1, <1>4
  <2>3. QED
    BY <1>4, <2>1, <2>2
<1>6. /\ new \in Seq(1 .. M) /\ Len(new) = n /\ Increasing(new)
      /\ ToSet(new) = L + 1 .. M
  <2>1. DOMAIN new = 1 .. n /\ \A i \in 1 .. n : new[i] = L + i /\ L + i \in L + 1 .. M /\ L + i \in 1 .. M
    BY <1>1
  <2>2. \A m \in L + 1 .. M : m - L \in 1 .. n /\ L + (m - L) = m
    BY <1>1
  <2>3. new \in Seq(1 .. M) /\ Len(new) = n
    BY <1>1, <2>1
  <2> HIDE DEF new, n, M, L
  <2>4. Increasing(new)
    BY <1>1, <2>1 DEF Increasing
  <2>5. ToSet(new) = L + 1 .. M
    <3>1. ToSet(new) \subseteq L + 1 .. M
      BY <2>1 DEF ToSet
    <3>2. ASSUME NEW m \in L + 1 .. M PROVE m \in ToSet(new)
      <4>1. m - L \in 1 .. n /\ new[m - L] = m
        BY <2>1, <2>2
      <4>2. QED
        BY <2>1, <4>1 DEF ToSet
    <3>3. QED
      BY <3>1, <3>2
  <2>6. QED
    BY <2>3, <2>4, <2>5
<1> HIDE DEF said, new, S
<1>7. /\ log' \in Seq(S) /\ Len(log') = L + n
      /\ \A i \in 1 .. L : log'[i] = log[i]
      /\ \A i \in 1 .. n : log'[L + i] = said[i]
  BY <1>2, <1>3, <1>5, Joined
<1>8. DOMAIN log' = 1 .. M
  BY <1>1, <1>7
<1>9. ASSUME NEW m \in L + 1 .. M PROVE log'[m].kind # "summary" /\ log'[m].covers = {}
  <2>1. m - L \in 1 .. n /\ L + (m - L) = m
    BY <1>1
  <2>2. log'[m] = said[m - L]
    BY <1>7, <2>1
  <2>3. QED
    BY <1>5, <2>1, <2>2
<1>10. messages \in Seq(1 .. M)
  BY <1>1, <1>3
<1>11. messages' \in Seq(1 .. M) /\ ToSet(messages') = ToSet(messages) \cup L + 1 .. M
  <2> HIDE DEF M, L
  <2>1. new \in Seq(1 .. M) /\ messages \in Seq(1 .. M)
    BY <1>6, <1>10
  <2>2. /\ messages \o new \in Seq(1 .. M)
        /\ ToSet(messages \o new) = ToSet(messages) \cup ToSet(new)
    BY ONLY <2>1, Joined
  <2>3. QED
    BY <1>2, <1>6, <2>2
<1>12. \A x \in ToSet(messages), y \in ToSet(new) : x < y
  <2>1. \A x \in 1 .. L, y \in L + 1 .. M : x < y
    BY <1>1
  <2>2. QED
    BY <1>3, <1>6, <2>1
<1>13. Increasing(messages')
  <2>1. Increasing(messages)
    BY DEF IInv, Sorted
  <2> HIDE DEF M, L
  <2>2. QED
    BY <1>2, <1>6, <1>10, <1>12, <2>1, JoinIncreasing
<1>14. QED
  BY <1>1, <1>3, <1>7, <1>8, <1>9, <1>11, <1>13 DEF S

(***************************************************************************)
(* What a summary stands for is in the log.                                *)
(***************************************************************************)
LEMMA CoveredLogged ==
  ASSUME IInv
  PROVE  Covered \subseteq DOMAIN log /\ ToSet(messages) \subseteq DOMAIN log
<1>1. Len(log) \in Nat /\ DOMAIN log = 1 .. Len(log) /\ ToSet(messages) \subseteq DOMAIN log
  BY DEF IInv, TypeOK, ToSet
<1>2. ASSUME NEW s \in ToSet(messages) PROVE log[s].covers \subseteq DOMAIN log
  <2>1. s \in 1 .. Len(log) /\ log[s].covers \subseteq 1 .. s - 1
    BY <1>1 DEF IInv, CoversPast
  <2>2. 1 .. s - 1 \subseteq 1 .. Len(log)
    BY <1>1, <2>1
  <2>3. QED
    BY <1>1, <2>1, <2>2
<1>3. QED
  BY <1>1, <1>2 DEF Covered, Behind

(***************************************************************************)
(* Adding to the list messages that cover nothing leaves what is behind    *)
(* its summaries as it was.                                                *)
(***************************************************************************)
LEMMA CoveredKept ==
  ASSUME \A m \in ToSet(messages) : m \in ToSet(messages') /\ log'[m] = log[m],
         \A m \in ToSet(messages') \ ToSet(messages) : log'[m].covers = {}
  PROVE  Covered' = Covered
<1>1. Covered = UNION {log[s].covers : s \in ToSet(messages)}
  BY DEF Covered, Behind
<1>2. Covered' = UNION {log'[s].covers : s \in ToSet(messages')}
  BY DEF Covered, Behind
<1>3. QED
  BY <1>1, <1>2

(***************************************************************************)
(* Nobody has spoken yet.                                                  *)
(***************************************************************************)
LEMMA InitInvariant == Init => IInv
<1> SUFFICES ASSUME Init PROVE IInv
  OBVIOUS
<1>1. log = <<>> /\ messages = <<>> /\ pending = FALSE /\ forgotten = {}
  BY DEF Init
<1>2. DOMAIN log = {} /\ DOMAIN messages = {} /\ Len(log) = 0
  BY <1>1
<1>3. messages \in Seq(DOMAIN log) /\ log \in Seq([kind : Kinds, covers : SUBSET (1 .. MaxMessages)])
  BY <1>1
<1>4. TypeOK
  <2>1. IsInjective(messages)
    BY <1>2 DEF IsInjective
  <2>2. Len(log) <= MaxMessages
    BY <1>2, CompressionAssumption
  <2>3. QED
    BY <1>1, <1>3, <2>1, <2>2 DEF TypeOK
<1>5. QED
  BY <1>1, <1>2, <1>4
     DEF IInv, Sorted, Increasing, CoversPast, Apart, Covered, Behind, Spoken, ToSet,
         NothingElseForgotten, RecentStays

(***************************************************************************)
(* A turn preserves the invariant.                                         *)
(***************************************************************************)
LEMMA TurnStep ==
  ASSUME IInv, NEW input \in 0 .. 2, NEW answers \in 0 .. 1, Turn(input, answers)
  PROVE  IInv'
<1> DEFINE L == Len(log)
           M == Len(log) + input + answers
<1>1. /\ L \in Nat /\ M \in Nat /\ L <= M /\ M <= MaxMessages
      /\ DOMAIN log = 1 .. L /\ DOMAIN log' = 1 .. M
      /\ log' \in Seq([kind : Kinds, covers : SUBSET (1 .. MaxMessages)])
      /\ \A m \in 1 .. L : log'[m] = log[m]
      /\ \A m \in L + 1 .. M : log'[m].kind # "summary" /\ log'[m].covers = {}
      /\ messages' \in Seq(1 .. M) /\ Increasing(messages')
      /\ ToSet(messages') = ToSet(messages) \cup L + 1 .. M
      /\ ToSet(messages) \subseteq 1 .. L
  BY Said
<1>2. Len(log') = M
  BY <1>1
<1> HIDE DEF L, M
<1>3. \A m \in 1 .. M : m \in 1 .. L \/ m \in L + 1 .. M
  BY <1>1
<1>4. TypeOK'
  <2>1. messages' \in Seq(Nat)
    BY <1>1
  <2>2. IsInjective(messages')
    BY <1>1, <2>1, IncreasingInjective
  <2>3. pending' \in BOOLEAN
    BY DEF Turn
  <2>4. forgotten' \subseteq 1 .. M
    BY <1>1 DEF Turn, IInv, TypeOK
  <2>5. QED
    BY <1>1, <1>2, <2>2, <2>3, <2>4 DEF TypeOK
<1>5. Sorted'
  BY <1>1 DEF Sorted
<1>6. CoversPast'
  <2>1. ASSUME NEW m \in 1 .. M PROVE log'[m].covers \subseteq 1 .. m - 1
    <3>1. CASE m \in 1 .. L
      BY <1>1, <3>1 DEF IInv, CoversPast
    <3>2. CASE m \in L + 1 .. M
      BY <1>1, <3>2
    <3>3. QED
      BY <1>3, <3>1, <3>2
  <2>2. QED
    BY <1>1, <2>1 DEF CoversPast
<1>7. forgotten' = forgotten /\ forgotten \subseteq 1 .. L
  BY <1>1 DEF Turn, IInv, TypeOK
<1>8. Covered' = Covered /\ Covered \subseteq 1 .. L
  BY <1>1, CoveredLogged, CoveredKept
<1>9. \A m \in L + 1 .. M : m \notin 1 .. L
  BY <1>1
<1>10. Apart'
  <2>1. ASSUME NEW s \in ToSet(messages'), NEW t \in ToSet(messages'), s # t
        PROVE  log'[s].covers \cap log'[t].covers = {}
    <3>1. CASE s \in ToSet(messages) /\ t \in ToSet(messages)
      <4>1. log'[s] = log[s] /\ log'[t] = log[t]
        BY <1>1, <3>1
      <4>2. QED
        BY <2>1, <3>1, <4>1 DEF IInv, Apart
    <3>2. CASE s \notin ToSet(messages) \/ t \notin ToSet(messages)
      BY <1>1, <3>2
    <3>3. QED
      BY <3>1, <3>2
  <2>2. Covered' \cap ToSet(messages') = {}
    BY <1>1, <1>8, <1>9 DEF IInv, Apart
  <2>3. forgotten' \cap (Covered' \cup ToSet(messages')) = {}
    BY <1>1, <1>7, <1>8, <1>9 DEF IInv, Apart
  <2>4. QED
    BY <2>1, <2>2, <2>3 DEF Apart
<1>11. NothingElseForgotten'
  <2>1. ASSUME NEW m \in 1 .. M, log'[m].kind # "summary"
        PROVE  m \notin forgotten' <=> m \in ToSet(messages') \cup Covered'
    <3>1. CASE m \in 1 .. L
      <4>1. m \notin forgotten <=> m \in ToSet(messages) \cup Covered
        BY <1>1, <2>1, <3>1 DEF IInv, NothingElseForgotten, Spoken, Kind
      <4>2. m \notin L + 1 .. M
        BY <1>9, <3>1
      <4>3. QED
        BY <1>1, <1>7, <1>8, <4>1, <4>2
    <3>2. CASE m \in L + 1 .. M
      BY <1>1, <1>7, <1>9, <3>2
    <3>3. QED
      BY <1>3, <3>1, <3>2
  <2>2. QED
    BY <1>1, <2>1 DEF NothingElseForgotten, Spoken, Kind
<1>12. RecentStays'
  <2>1. ASSUME NEW m \in 1 .. M,
               Cardinality({h \in m + 1 .. M : log'[h].kind = "human"}) < KeepRecentTurns
        PROVE  m \in ToSet(messages')
    <3>1. CASE m \in L + 1 .. M
      BY <1>1, <3>1
    <3>2. CASE m \in 1 .. L
      <4> DEFINE before == {h \in m + 1 .. L : log[h].kind = "human"}
                 after  == {h \in m + 1 .. M : log'[h].kind = "human"}
      <4>1. \A h \in m + 1 .. L : h \in m + 1 .. M /\ h \in 1 .. L
        BY <1>1, <3>2
      <4>2. before \subseteq after
        BY <1>1, <4>1
      <4>3. IsFiniteSet(after)
        <5>1. IsFiniteSet(m + 1 .. M)
          BY <1>1, FS_Interval
        <5>2. QED
          BY <5>1, FS_Subset
      <4>4. IsFiniteSet(before) /\ Cardinality(before) <= Cardinality(after)
        BY <4>2, <4>3, FS_Subset
      <4>5. Cardinality(before) \in Nat /\ Cardinality(after) \in Nat /\ KeepRecentTurns \in Nat
        BY <4>3, <4>4, FS_CardinalityType, CompressionAssumption
      <4>6. Cardinality(after) < KeepRecentTurns
        BY <2>1
      <4> HIDE DEF after
      <4>7. Cardinality(before) < KeepRecentTurns
        BY <4>4, <4>5, <4>6
      <4>8. m \in ToSet(messages)
        BY <1>1, <2>1, <3>2, <4>7 DEF IInv, RecentStays, Kind, L
      <4>9. QED
        BY <1>1, <4>8
    <3>3. QED
      BY <1>3, <3>1, <3>2
  <2>2. QED
    BY <1>1, <1>2, <2>1 DEF RecentStays, Kind
<1>13. QED
  BY <1>4, <1>5, <1>6, <1>10, <1>11, <1>12 DEF IInv

\* What a compression removes is divided between the new summary and what is
\* lost; of what was said, all goes one way.
Divides(covers, lost) ==
  /\ covers \cup lost = Spoken(Condensed) \cup Behind(Condensed)
  /\ covers \cap lost = {}
  /\ Spoken(Condensed) \subseteq covers \/ Spoken(Condensed) \cap covers = {}

(***************************************************************************)
(* The condensed messages are in the list.                                 *)
(***************************************************************************)
LEMMA CondensedListed ==
  ASSUME IInv, RecentTurnCutoff > 0
  PROVE  Condensed \subseteq ToSet(messages)
BY CutoffPlaces, Slices DEF IInv, Condensed

LEMMA BehindJoined ==
  ASSUME NEW S, NEW T
  PROVE  Behind(S \cup T) = Behind(S) \cup Behind(T)
BY DEF Behind

(***************************************************************************)
(* A compression, whether the model answers or not, replaces the condensed *)
(* messages and accounts for all that they stood for.                      *)
(***************************************************************************)
LEMMA CompressDivides ==
  ASSUME IInv, Compress \/ CompressEmpty
  PROVE  \E covers, lost : Replace(covers, lost) /\ Divides(covers, lost)
<1>1. CASE Compress
  <2>1. PICK read \in SUBSET (Condensed \ Spoken(Condensed)) :
          Replace(Covers(Condensed, read), Behind(Condensed \ read))
    BY <1>1 DEF Compress
  <2>2. Spoken(Condensed) \subseteq Condensed
    BY DEF Spoken
  <2>3. read \subseteq Condensed /\ Condensed \subseteq ToSet(messages)
    BY <2>1, <2>2, CondensedListed DEF Replace
  <2>4. Behind(Condensed) = Behind(read) \cup Behind(Condensed \ read)
    BY <2>3 DEF Behind
  <2>5. Behind(read) \cap Behind(Condensed \ read) = {}
    <3>1. ASSUME NEW s \in read, NEW t \in Condensed \ read
          PROVE  log[s].covers \cap log[t].covers = {}
      <4>1. s \in ToSet(messages) /\ t \in ToSet(messages) /\ s # t
        BY <2>3
      <4>2. QED
        BY <4>1 DEF IInv, Apart
    <3>2. QED
      BY <3>1 DEF Behind
  <2>6. Spoken(Condensed) \cap Behind(Condensed) = {}
    BY <2>2, <2>3 DEF IInv, Apart, Covered, Behind
  <2>7. Divides(Covers(Condensed, read), Behind(Condensed \ read))
    BY <2>4, <2>5, <2>6 DEF Divides, Covers
  <2>8. QED
    BY <2>1, <2>7
<1>2. CASE CompressEmpty
  <2>1. Divides({}, Covers(Condensed, Condensed))
    BY DEF Divides, Covers
  <2>2. QED
    BY <1>2, <2>1 DEF CompressEmpty
<1>3. QED
  BY <1>1, <1>2

(***************************************************************************)
(* A compression preserves the invariant.                                  *)
(***************************************************************************)
LEMMA CompressStep ==
  ASSUME IInv, NEW covers, NEW lost, Replace(covers, lost), Divides(covers, lost)
  PROVE  IInv'
<1> DEFINE L == Len(log)
           sm == Len(log) + 1
           c == RecentTurnCutoff
           older == ToSet(Compressible(c))
           newer == ToSet(Retained(c))
<1>1. /\ c \in 1 .. Len(messages) - 1
      /\ sm \in Nat /\ DOMAIN log = 1 .. L /\ DOMAIN log' = 1 .. sm
      /\ \A m \in DOMAIN log : log'[m] = log[m]
      /\ log'[sm] = [kind |-> "summary", covers |-> covers]
      /\ messages' \in Seq(DOMAIN log') /\ Increasing(messages')
      /\ ToSet(messages') = newer \cup {sm}
      /\ \A m \in older, n \in newer : m < n
  BY Compressed
<1>2. /\ newer = {messages[i] : i \in c + 1 .. Len(messages)}
      /\ ToSet(messages) = older \cup newer
      /\ older = Condensed
  BY <1>1, Slices DEF IInv, Condensed
<1>3. L \in Nat /\ sm <= MaxMessages /\ sm = L + 1 /\ ToSet(messages) \subseteq 1 .. L
  BY DEF IInv, TypeOK, Replace, ToSet
<1>4. /\ log'[sm].kind = "summary" /\ log'[sm].covers = covers
      /\ covers \cup lost = Spoken(older) \cup Behind(older) /\ covers \cap lost = {}
      /\ forgotten' = forgotten \cup lost
  BY <1>1, <1>2 DEF Divides, Replace
<1>5. /\ IsFiniteSet({m \in newer : Human(m)})
      /\ Cardinality({m \in newer : Human(m)}) = KeepRecentTurns
  <2>1. c > 0
    BY DEF Replace
  <2>2. QED
    BY <1>2, <2>1, CutoffPlaces DEF IInv
<1> HIDE DEF c, older, newer
<1>6. \A m \in 1 .. sm : m \in 1 .. L \/ m = sm
  BY <1>3
<1>7. Covered \subseteq 1 .. L /\ older \subseteq 1 .. L /\ newer \subseteq 1 .. L
  BY <1>2, <1>3, CoveredLogged, <1>1
<1>8. covers \cup lost \subseteq 1 .. L
  <2>1. Spoken(older) \subseteq older
    BY DEF Spoken
  <2>2. Behind(older) \subseteq Covered
    BY <1>2 DEF Behind, Covered
  <2>3. QED
    BY <1>4, <1>7, <2>1, <2>2
<1>9. TypeOK'
  <2>1. log' \in Seq([kind : Kinds, covers : SUBSET (1 .. MaxMessages)])
    <3>1. 1 .. L \subseteq 1 .. MaxMessages
      BY <1>3, CompressionAssumption
    <3>2. covers \in SUBSET (1 .. MaxMessages)
      BY <1>8, <3>1
    <3>3. "summary" \in Kinds
      BY DEF Kinds
    <3>4. log' = Append(log, [kind |-> "summary", covers |-> covers])
      BY DEF Replace
    <3>5. log \in Seq([kind : Kinds, covers : SUBSET (1 .. MaxMessages)])
      BY DEF IInv, TypeOK
    <3>6. QED
      BY <3>2, <3>3, <3>4, <3>5
  <2>2. Len(log') = sm
    BY <1>1, <2>1
  <2>3. messages' \in Seq(Nat)
    <3>1. 1 .. sm \subseteq Nat
      BY <1>1
    <3>2. QED
      BY <1>1, <3>1
  <2>4. IsInjective(messages')
    BY <1>1, <2>3, IncreasingInjective
  <2>5. pending' \in BOOLEAN
    BY DEF Replace, IInv, TypeOK
  <2>6. forgotten' \subseteq 1 .. sm
    BY <1>1, <1>3, <1>4, <1>8 DEF IInv, TypeOK
  <2>7. QED
    BY <1>1, <1>3, <2>1, <2>2, <2>4, <2>5, <2>6 DEF TypeOK
<1>10. Sorted'
  BY <1>1 DEF Sorted
<1>11. CoversPast'
  <2>1. ASSUME NEW m \in 1 .. sm PROVE log'[m].covers \subseteq 1 .. m - 1
    <3>1. CASE m \in 1 .. L
      BY <1>1, <3>1 DEF IInv, CoversPast
    <3>2. CASE m = sm
      <4>1. sm - 1 = L
        BY <1>3
      <4>2. QED
        BY <1>4, <1>8, <3>2, <4>1
    <3>3. QED
      BY <1>6, <3>1, <3>2
  <2>2. QED
    BY <1>1, <2>1 DEF CoversPast
<1>12. Covered' = Behind(newer) \cup covers /\ Covered = Behind(older) \cup Behind(newer)
  <2>1. Covered' = UNION {log'[s].covers : s \in newer \cup {sm}}
    BY <1>1 DEF Covered, Behind
  <2>2. \A s \in newer : log'[s] = log[s]
    BY <1>1, <1>7
  <2>3. UNION {log'[s].covers : s \in newer \cup {sm}}
          = (UNION {log[s].covers : s \in newer}) \cup covers
    BY <1>4, <2>2
  <2>4. Covered = Behind(older) \cup Behind(newer)
    <3>1. Behind(older \cup newer) = Behind(older) \cup Behind(newer)
      BY BehindJoined
    <3>2. QED
      BY <1>2, <3>1, Zenon DEF Covered
  <2>5. QED
    BY <2>1, <2>3, <2>4 DEF Behind
<1>13. /\ Behind(older) \cap Behind(newer) = {} /\ older \cap newer = {}
       /\ Spoken(older) \subseteq older /\ sm \notin 1 .. L
  <2>1. older \cap newer = {}
    <3>1. \A m \in 1 .. L : ~ (m < m)
      BY <1>3
    <3>2. QED
      BY <1>1, <1>7, <3>1
  <2>2. ASSUME NEW s \in older, NEW t \in newer PROVE log[s].covers \cap log[t].covers = {}
    BY <1>2, <2>1 DEF IInv, Apart
  <2>3. QED
    BY <1>3, <2>1, <2>2 DEF Behind, Spoken
<1>14. Apart'
  <2>1. ASSUME NEW s \in newer PROVE log'[s].covers \cap covers = {}
    <3>1. log'[s].covers \subseteq Behind(newer)
      BY <1>1, <1>7 DEF Behind
    <3>2. (Spoken(older) \cup Behind(older)) \cap Behind(newer) = {}
      BY <1>2, <1>12, <1>13 DEF IInv, Apart
    <3>3. QED
      BY <1>4, <3>1, <3>2
  <2>2. ASSUME NEW s \in ToSet(messages'), NEW t \in ToSet(messages'), s # t
        PROVE  log'[s].covers \cap log'[t].covers = {}
    <3>1. CASE s \in newer /\ t \in newer
      <4>1. log'[s] = log[s] /\ log'[t] = log[t]
        BY <1>1, <1>7, <3>1
      <4>2. QED
        BY <1>2, <2>2, <3>1, <4>1 DEF IInv, Apart
    <3>2. CASE s = sm \/ t = sm
      BY <1>1, <1>4, <2>1, <2>2, <3>2
    <3>3. QED
      BY <1>1, <3>1, <3>2
  <2>3. /\ (Behind(older) \cup Behind(newer)) \cap (older \cup newer) = {}
        /\ forgotten \cap (Behind(older) \cup Behind(newer) \cup older \cup newer) = {}
        /\ forgotten \subseteq 1 .. L
    BY <1>1, <1>2, <1>12 DEF IInv, Apart, TypeOK
  <2>4. covers \subseteq older \cup Behind(older) /\ lost \subseteq older \cup Behind(older)
    BY <1>4, <1>13
  <2>5. Behind(newer) \subseteq 1 .. L
    BY <1>7, <1>12
  <2> DEFINE B == Behind(newer)
             A == Behind(older)
  <2> HIDE DEF A, B, L
  <2>6. /\ (B \cup covers) \cap (newer \cup {sm}) = {}
        /\ (forgotten \cup lost) \cap (B \cup covers \cup newer \cup {sm}) = {}
    <3>1. sm \notin B \cup covers \cup lost \cup forgotten
      BY <1>8, <1>13, <2>3, <2>5 DEF B
    <3>2. /\ (A \cup B) \cap (older \cup newer) = {} /\ A \cap B = {} /\ older \cap newer = {}
          /\ forgotten \cap (A \cup B \cup older \cup newer) = {}
          /\ covers \subseteq older \cup A /\ lost \subseteq older \cup A
          /\ covers \cap lost = {}
      BY <1>4, <1>13, <2>3, <2>4 DEF A, B
    <3>3. QED
      BY ONLY <3>1, <3>2
  <2>7. QED
    BY <1>1, <1>4, <1>12, <2>2, <2>6 DEF Apart, B
<1>15. NothingElseForgotten'
  <2>1. ASSUME NEW m \in 1 .. sm, log'[m].kind # "summary", m \notin ToSet(messages') \cup Covered'
        PROVE  m \in forgotten'
    <3>1. m \in 1 .. L /\ log[m].kind # "summary"
      BY <1>1, <1>4, <1>6, <2>1
    <3>2. m \in forgotten \/ m \in older \cup newer \cup Behind(older) \cup Behind(newer)
      BY <1>1, <1>2, <1>12, <3>1 DEF IInv, NothingElseForgotten, Spoken, Kind
    <3>3. m \in older => m \in Spoken(older)
      BY <3>1 DEF Spoken, Kind
    <3>4. QED
      BY <1>1, <1>4, <1>12, <2>1, <3>2, <3>3
  <2>2. QED
    BY <1>1, <1>14, <2>1 DEF NothingElseForgotten, Apart, Spoken, Kind
<1>16. RecentStays'
  <2>1. ASSUME NEW m \in 1 .. sm, m # sm,
               Cardinality({h \in m + 1 .. sm : log'[h].kind = "human"}) < KeepRecentTurns
        PROVE  m \in ToSet(messages')
    <3> DEFINE before == {h \in m + 1 .. L : log[h].kind = "human"}
               after  == {h \in m + 1 .. sm : log'[h].kind = "human"}
               recent == {h \in newer : Human(h)}
    <3>1. m \in 1 .. L
      BY <1>6, <2>1
    <3>2. \A h \in m + 1 .. L : h \in m + 1 .. sm /\ h \in 1 .. L
      BY <1>3, <3>1
    <3>3. before \subseteq after
      BY <1>1, <3>2
    <3>4. IsFiniteSet(after)
      <4>1. IsFiniteSet(m + 1 .. sm)
        BY <1>1, FS_Interval
      <4>2. QED
        BY <4>1, FS_Subset
    <3>5. Cardinality(after) \in Nat /\ KeepRecentTurns \in Nat /\ Cardinality(after) < KeepRecentTurns
      BY <2>1, <3>4, FS_CardinalityType, CompressionAssumption
    <3>6. m \in ToSet(messages)
      <4>1. IsFiniteSet(before) /\ Cardinality(before) <= Cardinality(after)
        BY <3>3, <3>4, FS_Subset
      <4>2. Cardinality(before) \in Nat
        BY <4>1, FS_CardinalityType
      <4> HIDE DEF after
      <4>3. Cardinality(before) < KeepRecentTurns
        BY <3>5, <4>1, <4>2
      <4>4. QED
        BY <1>1, <3>1, <4>3 DEF IInv, RecentStays, Kind
    <3>7. ASSUME m \in older PROVE FALSE
      <4>1. ASSUME NEW h \in recent PROVE h \in after
        <5>1. h \in 1 .. L /\ m < h /\ log[h].kind = "human"
          BY <1>1, <1>2, <1>3, <3>7 DEF Human, Kind
        <5>2. h \in m + 1 .. sm /\ log'[h] = log[h]
          BY <1>1, <1>3, <5>1
        <5>3. QED
          BY <5>1, <5>2
      <4>2. recent \subseteq after
        BY <4>1
      <4>3. Cardinality(recent) <= Cardinality(after)
        BY <3>4, <4>2, FS_Subset
      <4> HIDE DEF after, recent
      <4>4. Cardinality(recent) = KeepRecentTurns
        BY <1>5 DEF recent
      <4>5. QED
        BY <3>5, <4>3, <4>4
    <3>8. QED
      BY <1>1, <1>2, <3>6, <3>7
  <2>2. Len(log') = sm
    BY <1>1, <1>9 DEF TypeOK
  <2>3. QED
    BY <1>1, <2>1, <2>2 DEF RecentStays, Kind
<1>17. QED
  BY <1>9, <1>10, <1>11, <1>14, <1>15, <1>16 DEF IInv

(***************************************************************************)
(* Every step preserves the invariant.                                     *)
(***************************************************************************)
LEMMA StepInvariant == IInv /\ [Next]_vars => IInv'
<1> SUFFICES ASSUME IInv, [Next]_vars PROVE IInv'
  OBVIOUS
<1>1. CASE Compress \/ CompressEmpty
  BY <1>1, CompressDivides, CompressStep
<1>2. ASSUME NEW input \in 0 .. 2, NEW answers \in 0 .. 1, Turn(input, answers) PROVE IInv'
  BY <1>2, TurnStep
<1>3. CASE UNCHANGED vars
  BY <1>3 DEF vars, IInv, TypeOK, Sorted, Increasing, CoversPast, Apart, Covered, Behind,
              NothingElseForgotten, RecentStays, Spoken, Kind
<1>4. QED
  BY <1>1, <1>2, <1>3 DEF Next

LEMMA Invariant == Spec => []IInv
<1>1. Init => IInv
  BY InitInvariant
<1>2. IInv /\ [Next]_vars => IInv'
  BY StepInvariant
<1>3. QED
  BY <1>1, <1>2, PTL DEF Spec

(***************************************************************************)
(* The log and the list stay well typed, with no message twice in the list *)
(* though every compression adds the kept ones a second time.              *)
(***************************************************************************)
THEOREM CompressionTypeCorrect == Spec => []TypeOK
<1>1. IInv => TypeOK
  BY DEF IInv
<1>2. QED
  BY <1>1, Invariant, PTL

(***************************************************************************)
(* Over any number of compressions a message that was said is in the list  *)
(* or behind a summary that is, unless a model answered nothing or an      *)
(* older summary it stood behind did not fit into the prompt.              *)
(***************************************************************************)
THEOREM NothingElseIsForgotten == Spec => []NothingElseForgotten
<1>1. IInv => NothingElseForgotten
  BY DEF IInv
<1>2. QED
  BY <1>1, Invariant, PTL

(***************************************************************************)
(* What was said since the KeepRecentTurns-th last input is never replaced *)
(* by a summary, and no summary made since then by another one.            *)
(***************************************************************************)
THEOREM RecentTurnsStay == Spec => []RecentStays
<1>1. IInv => RecentStays
  BY DEF IInv
<1>2. QED
  BY <1>1, Invariant, PTL

-----------------------------------------------------------------------------
(* The promise of ThreadMemory                                             *)

Inputs   == {m \in DOMAIN log : Kind(m) = "human"}
Verbatim == Spoken(ToSet(messages))
Gist     == Covered

(***************************************************************************)
(* A turn says something new.                                              *)
(***************************************************************************)
LEMMA TurnSays ==
  ASSUME IInv, NEW input \in 0 .. 2, NEW answers \in 0 .. 1, Turn(input, answers)
  PROVE  Memory!Say
<1> DEFINE L == Len(log)
           M == Len(log) + input + answers
           N == L + 1 .. M
<1>1. /\ L \in Nat /\ M \in Nat /\ L <= M
      /\ DOMAIN log = 1 .. L /\ DOMAIN log' = 1 .. M
      /\ \A m \in 1 .. L : log'[m] = log[m]
      /\ \A m \in N : log'[m].kind # "summary" /\ log'[m].covers = {}
      /\ ToSet(messages') = ToSet(messages) \cup N
  BY Said
<1>2. Covered \subseteq 1 .. L /\ ToSet(messages) \subseteq 1 .. L
  BY <1>1, CoveredLogged
<1>3. \A m \in 1 .. L, n \in N : m < n
  BY <1>1
<1>4. \A m \in 1 .. M : m \in 1 .. L \/ m \in N
  BY <1>1
<1>5. \A m \in 1 .. L : m \in 1 .. M /\ m \notin N
  BY <1>1
<1> HIDE DEF L, M, N
<1>6. Verbatim' = Verbatim \cup N /\ Verbatim \subseteq 1 .. L
  BY <1>1, <1>2 DEF Verbatim, Spoken, Kind
<1>7. Covered' = Covered
  BY <1>1, <1>2, CoveredKept
<1>8. Gist' = Gist /\ Gist \subseteq 1 .. L
  BY <1>2, <1>7 DEF Gist
<1>9. Verbatim' \ Verbatim = N
  BY <1>5, <1>6
<1>10. Inputs \subseteq Inputs' /\ Inputs' \ Inputs \subseteq N
  BY <1>1, <1>4, <1>5 DEF Inputs, Kind
<1>11. \A m \in Verbatim \cup Gist, n \in N : m < n
  BY <1>3, <1>6, <1>8
<1>12. QED
  BY <1>6, <1>8, <1>9, <1>10, <1>11
     DEF Memory!Say, Memory!Before, Inputs, Verbatim, Gist

(***************************************************************************)
(* A compression condenses the older part and leaves KeepRecentTurns       *)
(* inputs.                                                                 *)
(***************************************************************************)
LEMMA CompressCondenses ==
  ASSUME IInv, NEW covers, NEW lost, Replace(covers, lost), Divides(covers, lost)
  PROVE  Memory!Condense
<1> DEFINE L == Len(log)
           sm == Len(log) + 1
           c == RecentTurnCutoff
           older == ToSet(Compressible(c))
           newer == ToSet(Retained(c))
<1>1. /\ c \in 1 .. Len(messages) - 1
      /\ sm \in Nat /\ DOMAIN log = 1 .. L /\ DOMAIN log' = 1 .. sm
      /\ \A m \in DOMAIN log : log'[m] = log[m]
      /\ log'[sm] = [kind |-> "summary", covers |-> covers]
      /\ ToSet(messages') = newer \cup {sm}
      /\ \A m \in older, n \in newer : m < n
  BY Compressed
<1>2. /\ newer = {messages[i] : i \in c + 1 .. Len(messages)}
      /\ older = {messages[i] : i \in 1 .. c}
      /\ ToSet(messages) = older \cup newer
      /\ older = Condensed
  BY <1>1, Slices DEF IInv, Condensed
<1>3. Covered \subseteq 1 .. L /\ older \subseteq 1 .. L /\ newer \subseteq 1 .. L
  BY <1>1, <1>2, CoveredLogged
<1>4. /\ log'[sm].kind = "summary" /\ log'[sm].covers = covers
      /\ covers \subseteq Spoken(older) \cup Behind(older)
      /\ Spoken(older) \subseteq covers \/ Spoken(older) \cap covers = {}
  <2>1. Divides(covers, lost) /\ older = Condensed
    BY <1>2
  <2> HIDE DEF older
  <2>2. /\ covers \subseteq Spoken(older) \cup Behind(older)
        /\ Spoken(older) \subseteq covers \/ Spoken(older) \cap covers = {}
    BY <2>1 DEF Divides
  <2>3. QED
    BY <1>1, <2>2
<1>5. /\ Cardinality({m \in newer : Human(m)}) = KeepRecentTurns
      /\ \E m \in older : Human(m)
  <2>1. c > 0
    BY DEF Replace
  <2>2. QED
    BY <1>2, <2>1, CutoffPlaces DEF IInv
<1>6. L \in Nat /\ \A m \in 1 .. sm : m \in 1 .. L \/ m = sm
  BY DEF IInv, TypeOK
<1>7. \A m \in 1 .. L : m \in 1 .. sm /\ m # sm
  BY <1>6
<1> HIDE DEF L, sm, c, older, newer
<1>8. \A m \in older : m \notin newer
  <2>1. \A m \in older : m \in Nat
    BY <1>3
  <2>2. QED
    BY <1>1, <2>1
<1>9. Verbatim' = Spoken(newer) /\ Verbatim = Spoken(older) \cup Spoken(newer)
  BY <1>1, <1>2, <1>3, <1>4 DEF Verbatim, Spoken, Kind
<1>10. Verbatim \ Verbatim' = Spoken(older)
  BY <1>8, <1>9 DEF Spoken
<1>11. \E m \in Spoken(older) : TRUE
  BY <1>5 DEF Spoken, Human
<1>12. Gist' = Behind(newer) \cup covers /\ Gist = Behind(older) \cup Behind(newer)
  <2>1. Gist' = UNION {log'[s].covers : s \in newer \cup {sm}}
    BY <1>1 DEF Gist, Covered, Behind
  <2>2. \A s \in newer : log'[s].covers = log[s].covers
    BY <1>1, <1>3
  <2>3. UNION {log'[s].covers : s \in newer \cup {sm}}
          = (UNION {log[s].covers : s \in newer}) \cup covers
    BY <1>4, <2>2
  <2>4. Gist = Behind(older) \cup Behind(newer)
    <3>1. Behind(older \cup newer) = Behind(older) \cup Behind(newer)
      BY BehindJoined
    <3>2. QED
      BY <1>2, <3>1, Zenon DEF Covered, Gist
  <2>5. QED
    BY <2>1, <2>3, <2>4 DEF Behind
<1>13. /\ Gist' \subseteq Gist \cup Spoken(older)
       /\ Spoken(older) \subseteq Gist' \/ Spoken(older) \cap Gist' = {}
  <2>1. Spoken(older) \subseteq ToSet(messages) /\ Behind(newer) \subseteq Covered
    BY <1>2 DEF Spoken, Behind, Covered
  <2>2. Spoken(older) \cap Behind(newer) = {}
    BY <2>1 DEF IInv, Apart
  <2>3. QED
    BY <1>4, <1>12, <2>2
<1>14. Inputs' = Inputs
  BY <1>1, <1>4, <1>6, <1>7 DEF Inputs, Kind
<1>15. Inputs \cap Verbatim' = {m \in newer : Human(m)}
  BY <1>1, <1>3, <1>9 DEF Inputs, Human, Spoken
<1>16. /\ Verbatim' \subseteq Verbatim /\ Spoken(older) # {}
       /\ \A m \in Spoken(older), n \in Verbatim' : m < n
  BY <1>1, <1>9, <1>11 DEF Spoken
<1>17. Memory!Cardinality(Inputs \cap Verbatim') = KeepRecentTurns
  <2>1. \A S : Memory!Cardinality(S) = Cardinality(S)
    BY DEF Memory!Cardinality, Cardinality
  <2>2. QED
    BY <1>5, <1>15, <2>1
<1>18. QED
  BY <1>10, <1>13, <1>14, <1>16, <1>17
     DEF Memory!Condense, Memory!Before, Inputs, Verbatim, Gist

(***************************************************************************)
(* The list with its summaries implements ThreadMemory: turns say, and     *)
(* compressions condense.                                                  *)
(***************************************************************************)
THEOREM MemoryKept == Spec => KeepsMemory
<1>1. Init => Memory!Init
  <2> SUFFICES ASSUME Init PROVE Memory!Init
    OBVIOUS
  <2>1. DOMAIN log = {} /\ DOMAIN messages = {}
    BY DEF Init
  <2>2. QED
    BY <2>1 DEF Memory!Init, Spoken, Covered, Behind, ToSet
<1>2. IInv /\ [Next]_vars => [Memory!Next]_(Memory!vars)
  <2> SUFFICES ASSUME IInv, [Next]_vars PROVE [Memory!Next]_(Memory!vars)
    OBVIOUS
  <2>1. CASE Compress \/ CompressEmpty
    BY <2>1, CompressDivides, CompressCondenses DEF Memory!Next
  <2>2. ASSUME NEW input \in 0 .. 2, NEW answers \in 0 .. 1, Turn(input, answers)
        PROVE  Memory!Next
    BY <2>2, TurnSays DEF Memory!Next
  <2>3. CASE UNCHANGED vars
    BY <2>3 DEF vars, Memory!vars, Spoken, Covered, Behind, Kind
  <2>4. QED
    BY <2>1, <2>2, <2>3 DEF Next
<1>3. QED
  BY <1>1, <1>2, Invariant, PTL DEF Spec, KeepsMemory, Memory!Spec

(***************************************************************************)
(* Whatever keeps the promise of ThreadMemory, the message list as well,   *)
(* holds the older messages in summaries and the newer ones verbatim, and  *)
(* none of them both ways.                                                 *)
(***************************************************************************)
THEOREM OlderIsCondensed == Spec => []Memory!GistIsOlder
<1>1. Memory!Init => Memory!GistIsOlder
  BY DEF Memory!Init, Memory!GistIsOlder, Memory!Before
<1>2. Memory!GistIsOlder /\ [Memory!Next]_(Memory!vars) => Memory!GistIsOlder'
  <2> SUFFICES ASSUME \A m \in Gist, n \in Verbatim : m < n, [Memory!Next]_(Memory!vars)
               PROVE  \A m \in Gist', n \in Verbatim' : m < n
    BY DEF Memory!GistIsOlder, Memory!Before, Gist, Verbatim
  <2> USE DEF Gist, Verbatim
  <2>1. CASE Memory!Say
    <3>1. /\ Gist' = Gist
          /\ \A m \in Verbatim \cup Gist, n \in Verbatim' \ Verbatim : m < n
      BY <2>1 DEF Memory!Say, Memory!Before
    <3> HIDE DEF Gist, Verbatim
    <3>2. QED
      BY <3>1
  <2>2. CASE Memory!Condense
    <3>1. /\ Gist' \subseteq Gist \cup (Verbatim \ Verbatim') /\ Verbatim' \subseteq Verbatim
          /\ \A m \in Verbatim \ Verbatim', n \in Verbatim' : m < n
      BY <2>2 DEF Memory!Condense, Memory!Before
    <3> HIDE DEF Gist, Verbatim
    <3>2. QED
      BY <3>1
  <2>3. CASE UNCHANGED Memory!vars
    BY <2>3 DEF Memory!vars
  <2>4. QED
    BY <2>1, <2>2, <2>3 DEF Memory!Next
<1>3. QED
  BY <1>1, <1>2, MemoryKept, PTL DEF KeepsMemory, Memory!Spec

=============================================================================
