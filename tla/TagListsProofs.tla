--------------------------- MODULE TagListsProofs ----------------------------
(* Proofs about TagLists, for all keys, values, tag lists and default tags.*)
(* The two loops are reasoned about by induction on their number of rounds,*)
(* which the first lemmas provide for sets of numbers.                     *)
EXTENDS TagLists, FiniteSetTheorems, TLAPS

-----------------------------------------------------------------------------
(* The tag operators.                                                      *)

(* The operators take tag maps to tag maps.                                *)
LEMMA TagMapsClosed ==
  ASSUME NEW a \in TagMap, NEW b \in TagMap, NEW S
  PROVE  /\ Merge(a, b) \in TagMap
         /\ SyncAWSTags(a, b) \in TagMap
         /\ IgnoreSystemTags(a, S) \in TagMap
         /\ TagsToAdd(a, b) \in TagMap
         /\ UntagResource(a, S) \in TagMap
         /\ NoTags \in TagMap
  BY DEF TagMap, Merge, SyncAWSTags, IgnoreSystemTags, TagsToAdd, UntagResource, NoTags

(* EnsureTags never overrides a tag of the CR, whatever the defaults.      *)
LEMMA UserTagsWin ==
  ASSUME NEW t \in TagMap, NEW d \in TagMap, NEW k \in Keys
  PROVE  EnsureTags(t, d)[k] = IF t[k] # Absent THEN t[k] ELSE d[k]
  BY DEF EnsureTags, Merge


LEMMA LeastElement ==
  ASSUME NEW T, T \subseteq Nat, T # {}
  PROVE  \E m \in T : \A k \in T : m <= k
  <1> DEFINE R == {p \in Nat \X Nat : p[1] < p[2]}
  <1>1. IsWellFoundedOn(R, Nat)
    BY NatLessThanWellFounded, Zenon DEF OpToRel
  <1>2. \A k, m \in Nat : k < m => <<k, m>> \in R
    OBVIOUS
  <1> HIDE DEF R
  <1>3. PICK m \in T : \A k \in T : ~(<<k, m>> \in R)
    BY <1>1, WFMin
  <1>4. \A k \in T : ~(k < m)
    BY <1>2, <1>3
  <1> QED
    BY <1>4

(* Induction up to n, the property being membership in a set.              *)
LEMMA UpTo ==
  ASSUME NEW n \in Nat, NEW S, 0 \in S, \A i \in 1..n : i - 1 \in S => i \in S
  PROVE  0..n \subseteq S
  <1> SUFFICES ASSUME (0..n) \ S # {} PROVE FALSE
    OBVIOUS
  <1> DEFINE T == (0..n) \ S
  <1>1. T \subseteq Nat /\ T # {}
    OBVIOUS
  <1>2. PICK m \in T : \A k \in T : m <= k
    <2> HIDE DEF T
    <2> QED
      BY <1>1, LeastElement
  <1>3. m # 0 /\ m \in 1..n /\ m - 1 \in 0..n
    BY <1>2
  <1>4. m - 1 \in S
    BY <1>2, <1>3
  <1> QED
    BY <1>2, <1>3, <1>4

(* A loop of n rounds that starts with a, and round i of which turns the   *)
(* state x into F[i][x]: f are its states after each round.                *)
Rounds(f, n, a, F) == f[0] = a /\ \A i \in 1..n : f[i] = F[i][f[i - 1]]

LEMMA LoopExists ==
  ASSUME NEW n \in Nat, NEW S, NEW a \in S, NEW F \in [1..n -> [S -> S]]
  PROVE  \E f \in [0..n -> S] : Rounds(f, n, a, F)
  <1> DEFINE D == {m \in 0..n : \E f \in [0..m -> S] : Rounds(f, m, a, F)}
  <1>1. 0 \in D
    <2>1. Rounds([i \in 0..0 |-> a], 0, a, F) /\ [i \in 0..0 |-> a] \in [0..0 -> S]
      BY DEF Rounds
    <2> QED
      BY <2>1
  <1>2. ASSUME NEW m \in 1..n, m - 1 \in D PROVE m \in D
    <2>1. PICK f \in [0..(m - 1) -> S] : Rounds(f, m - 1, a, F)
      BY <1>2
    <2> DEFINE g == [i \in 0..m |-> IF i = m THEN F[m][f[m - 1]] ELSE f[i]]
    <2>2. m - 1 \in 0..(m - 1) /\ f[m - 1] \in S /\ F[m] \in [S -> S]
      BY <2>1
    <2>3. g \in [0..m -> S]
      BY <2>1, <2>2
    <2>4. g[0] = a
      BY <2>1 DEF Rounds
    <2>5. ASSUME NEW i \in 1..m PROVE g[i] = F[i][g[i - 1]]
      <3>1. g[i - 1] = f[i - 1]
        BY <2>5
      <3>2. CASE i = m
        BY <3>1, <3>2
      <3>3. CASE i # m
        <4>1. i \in 1..(m - 1) /\ g[i] = f[i]
          BY <3>3
        <4> QED
          BY <2>1, <3>1, <4>1 DEF Rounds
      <3> QED
        BY <3>2, <3>3
    <2>6. Rounds(g, m, a, F)
      BY <2>4, <2>5 DEF Rounds
    <2> HIDE DEF g
    <2> QED
      BY <2>3, <2>6
  <1>3. 0..n \subseteq D
    <2> HIDE DEF D
    <2> QED
      BY <1>1, <1>2, UpTo
  <1> QED
    BY <1>3

-----------------------------------------------------------------------------
(* convertToOrderedACKTags.                                                *)
ValueOf(t) == IF t.value = NilPtr THEN Empty ELSE t.value

LEMMA EnteredType ==
  ASSUME NEW m \in TagMap, NEW t \in Pair
  PROVE  /\ Entered(m, t) \in TagMap
         /\ \A k \in Keys : Entered(m, t)[k] = IF t.key = k THEN ValueOf(t) ELSE m[k]
         /\ ValueOf(t) \in Values
  BY NilAssumption DEF Entered, TagMap, Pair, ValueOf

(* The map after each entry of the list.                                   *)
LEMMA ConvertLoop ==
  ASSUME NEW tags \in Seq(Pair)
  PROVE  \E f \in [0..Len(tags) -> TagMap] :
            /\ f[0] = NoTags
            /\ \A i \in 1..Len(tags) : f[i] = Entered(f[i - 1], tags[i])
            /\ ConvertToACKTags(tags) = f[Len(tags)]
  <1> DEFINE n == Len(tags)
             F == [i \in 1..n |-> [m \in TagMap |-> Entered(m, tags[i])]]
             Is(g) == g = [i \in 0..n |-> IF i = 0 THEN NoTags ELSE Entered(g[i - 1], tags[i])]
             c == CHOOSE g : Is(g)
  <1>1. n \in Nat /\ NoTags \in TagMap /\ \A i \in 1..n : tags[i] \in Pair
    BY DEF NoTags, TagMap
  <1>2. \A i \in 1..n, m \in TagMap :
           F[i][m] = Entered(m, tags[i]) /\ F[i][m] \in TagMap
    BY <1>1, EnteredType
  <1>3. PICK f \in [0..n -> TagMap] : Rounds(f, n, NoTags, F)
    <2>1. F \in [1..n -> [TagMap -> TagMap]]
      BY <1>1, EnteredType
    <2> HIDE DEF F, n
    <2> QED
      BY <1>1, <2>1, LoopExists
  <1>4. ASSUME NEW i \in 1..n PROVE f[i] = Entered(f[i - 1], tags[i])
    <2>1. i - 1 \in 0..n /\ f[i - 1] \in TagMap
      BY <1>1, <1>3
    <2>2. F[i][f[i - 1]] = Entered(f[i - 1], tags[i])
      BY <1>2, <2>1
    <2> QED
      BY <1>3, <2>2 DEF Rounds
  <1>5. Is(f)
    BY <1>1, <1>3, <1>4 DEF Rounds
  <1>6. Is(c)
    <2> HIDE DEF Is
    <2> QED
      BY <1>5
  <1>7. ConvertToACKTags(tags) = c[n]
    BY DEF ConvertToACKTags
  <1> HIDE DEF c
  <1>8. c[0] = NoTags /\ \A i \in 1..n : c[i] = Entered(c[i - 1], tags[i])
    BY <1>1, <1>6
  <1> DEFINE Typed == {i \in 0..n : c[i] \in TagMap}
  <1>9. 0..n \subseteq Typed
    <2>1. 0 \in Typed
      BY <1>1, <1>8
    <2>2. ASSUME NEW i \in 1..n, i - 1 \in Typed PROVE i \in Typed
      BY <1>1, <1>8, <2>2, EnteredType
    <2> HIDE DEF Typed, n
    <2> QED
      BY <1>1, <2>1, <2>2, UpTo
  <1>10. c \in [0..n -> TagMap]
    BY <1>1, <1>6, <1>9
  <1> QED
    BY <1>7, <1>8, <1>10

(* convertToOrderedACKTags makes a map of every list, however long and     *)
(* whatever keys repeat: a key has the value of its last entry in the      *)
(* list, the empty string for a nil one, and no other key is in it.        *)
THEOREM LastEntryWins ==
  ASSUME NEW tags \in Seq(Pair)
  PROVE  /\ ConvertToACKTags(tags) \in TagMap
         /\ \A k \in Keys :
              /\ (\A i \in DOMAIN tags : tags[i].key # k) => ConvertToACKTags(tags)[k] = Absent
              /\ \A i \in DOMAIN tags :
                   tags[i].key = k /\ (\A j \in DOMAIN tags : j > i => tags[j].key # k)
                     => ConvertToACKTags(tags)[k] = ValueOf(tags[i])
  <1>1. PICK f \in [0..Len(tags) -> TagMap] :
            /\ f[0] = NoTags
            /\ \A i \in 1..Len(tags) : f[i] = Entered(f[i - 1], tags[i])
            /\ ConvertToACKTags(tags) = f[Len(tags)]
    BY ConvertLoop
  <1>2. Len(tags) \in Nat /\ DOMAIN tags = 1..Len(tags)
        /\ \A i \in 1..Len(tags) : tags[i] \in Pair
    OBVIOUS
  <1> DEFINE Settled(n) ==
        \A k \in Keys :
           /\ (\A i \in 1..n : tags[i].key # k) => f[n][k] = Absent
           /\ \A i \in 1..n :
                tags[i].key = k /\ (\A j \in 1..n : j > i => tags[j].key # k)
                  => f[n][k] = ValueOf(tags[i])
  <1>3. Settled(0)
    <2>1. \A k \in Keys : f[0][k] = Absent
      BY <1>1 DEF NoTags
    <2>2. 1..0 = {}
      OBVIOUS
    <2> QED
      BY <2>1, <2>2
  <1>4. ASSUME NEW n \in 1..Len(tags), Settled(n - 1) PROVE Settled(n)
    <2>1. f[n - 1] \in TagMap /\ tags[n] \in Pair /\ f[n] = Entered(f[n - 1], tags[n])
      BY <1>1, <1>2
    <2>2. \A k \in Keys : f[n][k] = IF tags[n].key = k THEN ValueOf(tags[n]) ELSE f[n - 1][k]
      BY <2>1, EnteredType
    <2>3. \A i \in 1..n : i = n \/ i \in 1..(n - 1)
      BY <1>2
    <2>4. n \in 1..n /\ \A i \in 1..(n - 1) : i \in 1..n /\ n > i
      BY <1>2
    <2>5. ASSUME NEW k \in Keys, \A i \in 1..n : tags[i].key # k PROVE f[n][k] = Absent
      BY <1>4, <2>2, <2>4, <2>5
    <2>6. ASSUME NEW k \in Keys, NEW i \in 1..n, tags[i].key = k,
                 \A j \in 1..n : j > i => tags[j].key # k
          PROVE  f[n][k] = ValueOf(tags[i])
      BY <1>4, <2>2, <2>3, <2>4, <2>6
    <2> QED
      BY <2>5, <2>6
  <1> DEFINE D == {n \in 0..Len(tags) : Settled(n)}
  <1>5. 0..Len(tags) \subseteq D
    <2>1. 0 \in D
      BY <1>2, <1>3
    <2>2. ASSUME NEW n \in 1..Len(tags), n - 1 \in D PROVE n \in D
      <3> HIDE DEF Settled
      <3> QED
        BY <1>2, <1>4, <2>2
    <2> HIDE DEF D
    <2> QED
      BY <1>2, <2>1, <2>2, UpTo
  <1>6. Settled(Len(tags))
    <2> HIDE DEF Settled
    <2> QED
      BY <1>2, <1>5
  <1>7. f[Len(tags)] \in TagMap
    BY <1>1, <1>2
  <1> DEFINE result == ConvertToACKTags(tags)
  <1>8. result = f[Len(tags)]
    BY <1>1
  <1> HIDE DEF result
  <1>9. \A k \in Keys :
           /\ (\A i \in 1..Len(tags) : tags[i].key # k) => result[k] = Absent
           /\ \A i \in 1..Len(tags) :
                tags[i].key = k /\ (\A j \in 1..Len(tags) : j > i => tags[j].key # k)
                  => result[k] = ValueOf(tags[i])
    BY <1>6, <1>8, Zenon
  <1>10. result \in TagMap
    BY <1>7, <1>8
  <1>11. ASSUME NEW k \in Keys, \A i \in DOMAIN tags : tags[i].key # k
         PROVE  result[k] = Absent
    <2>1. \A i \in 1..Len(tags) : tags[i].key # k
      BY <1>2, <1>11
    <2> QED
      BY <1>9, <2>1
  <1>12. ASSUME NEW k \in Keys, NEW i \in DOMAIN tags, tags[i].key = k,
                \A j \in DOMAIN tags : j > i => tags[j].key # k
         PROVE  result[k] = ValueOf(tags[i])
    <2>1. i \in 1..Len(tags) /\ \A j \in 1..Len(tags) : j > i => tags[j].key # k
      BY <1>2, <1>12
    <2> QED
      BY <1>9, <1>12, <2>1
  <1>13. \A k \in Keys :
           /\ (\A i \in DOMAIN tags : tags[i].key # k) => result[k] = Absent
           /\ \A i \in DOMAIN tags :
                tags[i].key = k /\ (\A j \in DOMAIN tags : j > i => tags[j].key # k)
                  => result[k] = ValueOf(tags[i])
    BY <1>11, <1>12
  <1> QED
    BY <1>10, <1>13, Zenon DEF result

-----------------------------------------------------------------------------
(* fromACKTags.                                                            *)
MaybeKeys == Keys \cup {NilPtr}

(* The states of its loop, and the first; their definitions stay hidden    *)
(* while the loop itself is reasoned about.                                *)
KeySeqs == Seq(Keys)
NoKeys  == <<>>

LEMMA TakenType ==
  ASSUME NEW used \in KeySeqs, NEW m, NEW k
  PROVE  /\ Taken(used, m, k) \in KeySeqs
         /\ k \in KeysOf(m) \ ToSet(used) => Taken(used, m, k) = Append(used, k)
         /\ k \notin KeysOf(m) \ ToSet(used) => Taken(used, m, k) = used
  BY DEF Taken, KeysOf, KeySeqs

(* The keys used after each key of the order.                              *)
LEMMA UsedLoop ==
  ASSUME NEW m \in TagMap, NEW ko \in Seq(MaybeKeys)
  PROVE  \E f \in [0..Len(ko) -> KeySeqs] :
            /\ f[0] = NoKeys
            /\ \A i \in 1..Len(ko) : f[i] = Taken(f[i - 1], m, ko[i])
            /\ UsedKeys(m, ko) = f[Len(ko)]
  <1> DEFINE n == Len(ko)
             F == [i \in 1..n |-> [u \in KeySeqs |-> Taken(u, m, ko[i])]]
             Is(g) == g = [i \in 0..n |-> IF i = 0 THEN NoKeys ELSE Taken(g[i - 1], m, ko[i])]
             c == CHOOSE g : Is(g)
  <1>1. n \in Nat /\ NoKeys \in KeySeqs
    BY DEF NoKeys, KeySeqs
  <1>7. UsedKeys(m, ko) = c[n]
    BY Zenon DEF UsedKeys, NoKeys
  <1> HIDE DEF n
  <1>2. \A i \in 1..n, u \in KeySeqs :
           F[i][u] = Taken(u, m, ko[i]) /\ F[i][u] \in KeySeqs
    BY <1>1, TakenType
  <1>3. PICK f \in [0..n -> KeySeqs] : Rounds(f, n, NoKeys, F)
    <2>1. F \in [1..n -> [KeySeqs -> KeySeqs]]
      BY <1>1, TakenType
    <2> HIDE DEF F
    <2> QED
      BY <1>1, <2>1, LoopExists
  <1>4. ASSUME NEW i \in 1..n PROVE f[i] = Taken(f[i - 1], m, ko[i])
    <2>1. i - 1 \in 0..n /\ f[i - 1] \in KeySeqs
      BY <1>1, <1>3
    <2>2. F[i][f[i - 1]] = Taken(f[i - 1], m, ko[i])
      BY <1>2, <2>1
    <2> QED
      BY <1>3, <2>2 DEF Rounds
  <1>5. Is(f)
    BY <1>1, <1>3, <1>4 DEF Rounds
  <1>6. Is(c)
    <2> HIDE DEF Is
    <2> QED
      BY <1>5
  <1> HIDE DEF c
  <1>8. c[0] = NoKeys /\ \A i \in 1..n : c[i] = Taken(c[i - 1], m, ko[i])
    BY <1>1, <1>6
  <1> DEFINE Typed == {i \in 0..n : c[i] \in KeySeqs}
  <1>9. 0..n \subseteq Typed
    <2>1. 0 \in Typed
      BY <1>1, <1>8
    <2>2. ASSUME NEW i \in 1..n, i - 1 \in Typed PROVE i \in Typed
      BY <1>1, <1>8, <2>2, TakenType
    <2> HIDE DEF Typed
    <2> QED
      BY <1>1, <2>1, <2>2, UpTo
  <1>10. c \in [0..n -> KeySeqs]
    BY <1>1, <1>6, <1>9
  <1> QED
    BY <1>7, <1>8, <1>10 DEF n

(* What is used after n keys of the order: each of them that is in the     *)
(* map, once, in the order of the first occurrences.                       *)
UsedAfter(u, m, ko, n) ==
    /\ u \in Seq(Keys) /\ IsInjective(u)
    /\ ToSet(u) = {k \in KeysOf(m) : \E i \in 1..n : ko[i] = k}
    /\ \A i, j \in DOMAIN u : i < j =>
          \E p \in 1..n : ko[p] = u[i] /\ \A q \in 1..p : ko[q] # u[j]

LEMMA AppendFacts ==
  ASSUME NEW S, NEW u \in Seq(S), NEW k \in S
  PROVE  /\ Append(u, k) \in Seq(S)
         /\ DOMAIN Append(u, k) = 1..(Len(u) + 1) /\ DOMAIN u = 1..Len(u) /\ Len(u) \in Nat
         /\ Append(u, k)[Len(u) + 1] = k
         /\ \A i \in 1..Len(u) : Append(u, k)[i] = u[i]
  OBVIOUS

LEMMA UsedStep ==
  ASSUME NEW m \in TagMap, NEW ko \in Seq(MaybeKeys), NEW n \in 1..Len(ko),
         NEW u, UsedAfter(u, m, ko, n - 1)
  PROVE  UsedAfter(Taken(u, m, ko[n]), m, ko, n)
  <1>1. n \in Nat /\ n \in 1..n /\ (\A i \in 1..(n - 1) : i \in 1..n /\ i < n)
        /\ \A i \in 1..n : i = n \/ i \in 1..(n - 1)
    OBVIOUS
  <1>2. /\ u \in Seq(Keys) /\ IsInjective(u)
        /\ ToSet(u) = {k \in KeysOf(m) : \E i \in 1..(n - 1) : ko[i] = k}
    BY DEF UsedAfter
  <1>3. ASSUME NEW i \in DOMAIN u, NEW j \in DOMAIN u, i < j
        PROVE  \E p \in 1..n : ko[p] = u[i] /\ \A q \in 1..p : ko[q] # u[j]
    BY <1>1, <1>3 DEF UsedAfter
  <1>4. CASE ko[n] \in KeysOf(m) \ ToSet(u)
    <2> DEFINE k == ko[n]
               w == Append(u, k)
               L == Len(u)
    <2>1. k \in Keys /\ Taken(u, m, k) = w
      BY <1>4 DEF Taken, KeysOf
    <2>2. /\ w \in Seq(Keys)
          /\ DOMAIN w = 1..(L + 1) /\ DOMAIN u = 1..L /\ L \in Nat
          /\ w[L + 1] = k /\ \A i \in 1..L : w[i] = u[i]
      BY <1>2, <2>1, AppendFacts
    <2> HIDE DEF w, L
    <2>3. \A i \in 1..(L + 1) : i = L + 1 \/ i \in 1..L
      BY <2>2
    <2>4. \A i \in 1..L : i \in 1..(L + 1) /\ i < L + 1 /\ u[i] \in ToSet(u)
      BY <2>2 DEF ToSet
    <2>5. IsInjective(w)
      <3>1. \A i, j \in 1..L : u[i] = u[j] => i = j
        BY <1>2, <2>2 DEF IsInjective
      <3>2. \A i \in 1..L : w[i] # k
        BY <1>4, <2>2, <2>4
      <3> QED
        BY <2>2, <2>3, <3>1, <3>2 DEF IsInjective
    <2>6. ToSet(w) = ToSet(u) \cup {k}
      <3>1. \A x \in ToSet(w) : \E i \in 1..(L + 1) : x = w[i]
        BY <2>2 DEF ToSet
      <3>2. ToSet(w) \subseteq ToSet(u) \cup {k}
        BY <2>2, <2>3, <2>4, <3>1
      <3>3. \A i \in 1..(L + 1) : w[i] \in ToSet(w)
        BY <2>2 DEF ToSet
      <3>4. \A x \in ToSet(u) : \E i \in 1..L : x = u[i]
        BY <2>2 DEF ToSet
      <3>5. L + 1 \in 1..(L + 1)
        BY <2>2
      <3> QED
        BY <2>2, <2>4, <3>2, <3>3, <3>4, <3>5
    <2>7. ToSet(w) = {x \in KeysOf(m) : \E i \in 1..n : ko[i] = x}
      BY <1>1, <1>2, <1>4, <2>6
    <2>8. ASSUME NEW i \in 1..(L + 1), NEW j \in 1..(L + 1), i < j
          PROVE  \E p \in 1..n : ko[p] = w[i] /\ \A q \in 1..p : ko[q] # w[j]
      <3>1. CASE j \in 1..L
        <4>1. i \in 1..L /\ w[i] = u[i] /\ w[j] = u[j]
          BY <2>2, <2>8, <3>1
        <4>2. \E p \in 1..n : ko[p] = u[i] /\ \A q \in 1..p : ko[q] # u[j]
          BY <1>3, <2>2, <2>8, <3>1, <4>1
        <4> QED
          BY <4>1, <4>2
      <3>2. CASE j = L + 1
        <4>1. i \in 1..L /\ w[i] = u[i] /\ u[i] \in ToSet(u)
          BY <2>2, <2>3, <2>4, <2>8, <3>2
        <4>2. PICK p \in 1..(n - 1) : ko[p] = u[i]
          BY <1>2, <4>1
        <4>3. \A q \in 1..p : q \in 1..(n - 1)
          BY <1>1
        <4>4. \A q \in 1..p : ko[q] # k
          BY <1>2, <1>4, <4>3
        <4> QED
          BY <1>1, <2>2, <3>2, <4>1, <4>2, <4>4
      <3> QED
        BY <2>3, <3>1, <3>2
    <2> QED
      BY <2>1, <2>2, <2>5, <2>7, <2>8 DEF UsedAfter
  <1>5. CASE ko[n] \notin KeysOf(m) \ ToSet(u)
    <2>1. Taken(u, m, ko[n]) = u
      BY <1>5 DEF Taken
    <2>2. ToSet(u) = {x \in KeysOf(m) : \E i \in 1..n : ko[i] = x}
      BY <1>1, <1>2, <1>5
    <2> QED
      BY <1>2, <1>3, <2>1, <2>2 DEF UsedAfter
  <1> QED
    BY <1>4, <1>5

LEMMA UsedSpec ==
  ASSUME NEW m \in TagMap, NEW ko \in Seq(MaybeKeys)
  PROVE  UsedAfter(UsedKeys(m, ko), m, ko, Len(ko))
  <1>1. PICK f \in [0..Len(ko) -> KeySeqs] :
            /\ f[0] = NoKeys
            /\ \A i \in 1..Len(ko) : f[i] = Taken(f[i - 1], m, ko[i])
            /\ UsedKeys(m, ko) = f[Len(ko)]
    BY UsedLoop
  <1> DEFINE D == {n \in 0..Len(ko) : UsedAfter(f[n], m, ko, n)}
  <1>2. Len(ko) \in Nat
    OBVIOUS
  <1>3. UsedAfter(NoKeys, m, ko, 0)
    BY DEF UsedAfter, NoKeys, IsInjective, ToSet
  <1>4. 0 \in D
    BY <1>1, <1>2, <1>3
  <1>5. ASSUME NEW n \in 1..Len(ko), n - 1 \in D PROVE n \in D
    <2>1. UsedAfter(f[n - 1], m, ko, n - 1) /\ n \in 0..Len(ko)
      BY <1>2, <1>5
    <2>2. UsedAfter(Taken(f[n - 1], m, ko[n]), m, ko, n)
      BY <2>1, UsedStep
    <2> QED
      BY <1>1, <2>1, <2>2
  <1>6. 0..Len(ko) \subseteq D
    <2> HIDE DEF D
    <2> QED
      BY <1>2, <1>4, <1>5, UpTo
  <1> QED
    BY <1>1, <1>2, <1>6

(* What is left comes in any order, each key once.                         *)
LEMMA RestOfKeys ==
  ASSUME NEW S, IsFiniteSet(S), NEW rest \in SetToSeqs(S)
  PROVE  rest \in Seq(S) /\ IsInjective(rest) /\ ToSet(rest) = S
  <1> DEFINE n == Cardinality(S)
  <1>1. n \in Nat
    BY FS_CardinalityType
  <1>2. rest \in [1..n -> S] /\ \A i, j \in 1..n : i # j => rest[i] # rest[j]
    BY DEF SetToSeqs
  <1>3. rest \in Injection(1..n, S)
    BY <1>2 DEF Injection, IsInjective
  <1>4. IsFiniteSet(1..n) /\ Cardinality(1..n) = n
    BY <1>1, FS_Interval
  <1>5. rest \in Surjection(1..n, S)
    BY <1>3, <1>4, FS_Injection
  <1>6. ToSet(rest) = S
    BY <1>2, <1>5 DEF Surjection, ToSet
  <1> HIDE DEF n
  <1>7. rest \in Seq(S)
    BY <1>1, <1>2
  <1> QED
    BY <1>2, <1>6, <1>7 DEF IsInjective

LEMMA ConcatFacts ==
  ASSUME NEW S, NEW u \in Seq(S), NEW w \in Seq(S)
  PROVE  /\ u \o w \in Seq(S) /\ Len(u) \in Nat /\ Len(w) \in Nat
         /\ DOMAIN u = 1..Len(u) /\ DOMAIN w = 1..Len(w)
         /\ DOMAIN (u \o w) = 1..(Len(u) + Len(w))
         /\ \A i \in 1..Len(u) : (u \o w)[i] = u[i]
         /\ \A i \in 1..Len(w) : (u \o w)[Len(u) + i] = w[i]
  OBVIOUS

(* The concatenation of two sequences without repetitions and without a    *)
(* common element.                                                         *)
LEMMA ConcatInjective ==
  ASSUME NEW S, NEW u \in Seq(S), NEW w \in Seq(S),
         IsInjective(u), IsInjective(w), ToSet(u) \cap ToSet(w) = {}
  PROVE  IsInjective(u \o w) /\ ToSet(u \o w) = ToSet(u) \cup ToSet(w)
  <1> DEFINE c == u \o w
             L == Len(u)
             M == Len(w)
  <1>1. /\ L \in Nat /\ M \in Nat
        /\ DOMAIN u = 1..L /\ DOMAIN w = 1..M /\ DOMAIN c = 1..(L + M)
        /\ \A i \in 1..L : c[i] = u[i]
        /\ \A i \in 1..M : c[L + i] = w[i]
    BY ConcatFacts
  <1> HIDE DEF c, L, M
  <1>2. \A i \in 1..(L + M) : i \in 1..L \/ (i - L \in 1..M /\ i = L + (i - L))
    BY <1>1
  <1>3. \A i \in 1..(L + M) :
           \/ i \in 1..L /\ c[i] = u[i] /\ c[i] \in ToSet(u)
           \/ i - L \in 1..M /\ c[i] = w[i - L] /\ c[i] \in ToSet(w)
    BY <1>1, <1>2 DEF ToSet
  <1>4. \A i, j \in 1..L : u[i] = u[j] => i = j
    BY <1>1 DEF IsInjective
  <1>5. \A i, j \in 1..M : w[i] = w[j] => i = j
    BY <1>1 DEF IsInjective
  <1>6. ASSUME NEW i \in 1..(L + M), NEW j \in 1..(L + M), c[i] = c[j] PROVE i = j
    <2>1. CASE i \in 1..L /\ j \in 1..L
      BY <1>1, <1>4, <1>6, <2>1
    <2>2. CASE i - L \in 1..M /\ c[i] = w[i - L] /\ j - L \in 1..M /\ c[j] = w[j - L]
      <3>1. i - L = j - L
        BY <1>5, <1>6, <2>2
      <3> QED
        BY <1>1, <3>1
    <2> QED
      BY <1>3, <1>6, <2>1, <2>2
  <1>7. IsInjective(c)
    BY <1>1, <1>6 DEF IsInjective
  <1>8. \A i \in 1..L : i \in 1..(L + M)
    BY <1>1
  <1>9. \A i \in 1..M : L + i \in 1..(L + M)
    BY <1>1
  <1>10. ToSet(c) \subseteq ToSet(u) \cup ToSet(w)
    <2>1. \A x \in ToSet(c) : \E i \in 1..(L + M) : x = c[i]
      BY <1>1 DEF ToSet
    <2> QED
      BY <1>3, <2>1
  <1>11. ToSet(u) \subseteq ToSet(c)
    BY <1>1, <1>8 DEF ToSet
  <1>12. ToSet(w) \subseteq ToSet(c)
    BY <1>1, <1>9 DEF ToSet
  <1>13. ToSet(c) = ToSet(u) \cup ToSet(w)
    BY <1>10, <1>11, <1>12
  <1> QED
    BY <1>7, <1>13, Zenon DEF c

Precedes(s, a, b) == \E p, q \in DOMAIN s : p < q /\ s[p] = a /\ s[q] = b

(* The keys of the new list: each key of the map once, those which the old *)
(* list had in the order they had there.                                   *)
NewKeys(ks, m, ko) ==
    /\ ks \in Seq(Keys) /\ IsInjective(ks) /\ ToSet(ks) = KeysOf(m)
    /\ IsInjective(ko) =>
         \A a, b \in KeysOf(m) : Precedes(ko, a, b) => Precedes(ks, a, b)

LEMMA FromSpec ==
  ASSUME NEW m \in TagMap, NEW ko \in Seq(MaybeKeys), NEW r \in FromACKTags(m, ko)
  PROVE  \E ks : NewKeys(ks, m, ko) /\ r = PairsOf(m, ks)
  <1> DEFINE u == UsedKeys(m, ko)
             S == KeysOf(m) \ ToSet(u)
  <1>1. PICK rest \in SetToSeqs(S) : r = PairsOf(m, u \o rest)
    BY DEF FromACKTags
  <1>2. UsedAfter(u, m, ko, Len(ko))
    BY UsedSpec
  <1> HIDE DEF u
  <1>3. IsFiniteSet(S)
    <2>1. S \in SUBSET Keys
      BY DEF KeysOf
    <2> QED
      BY <2>1, KeysAssumption, FS_Subset
  <1>4. rest \in Seq(S) /\ IsInjective(rest) /\ ToSet(rest) = S
    BY <1>1, <1>3, RestOfKeys
  <1>5. u \in Seq(Keys) /\ IsInjective(u) /\ rest \in Seq(Keys)
        /\ ToSet(u) = {k \in KeysOf(m) : \E i \in 1..Len(ko) : ko[i] = k}
    <2>1. S \subseteq Keys
      BY DEF KeysOf
    <2> HIDE DEF S
    <2>2. rest \in Seq(Keys)
      BY <1>4, <2>1
    <2> QED
      BY <1>2, <2>2 DEF UsedAfter
  <1> DEFINE ks == u \o rest
  <1>6. ks \in Seq(Keys) /\ IsInjective(ks) /\ ToSet(ks) = KeysOf(m)
    <2>1. ToSet(u) \cap S = {} /\ ToSet(u) \cup S = KeysOf(m)
      BY <1>5
    <2>2. ks \in Seq(Keys)
      BY <1>5
    <2>3. IsInjective(u \o rest) /\ ToSet(u \o rest) = ToSet(u) \cup ToSet(rest)
      BY <1>4, <1>5, <2>1, ConcatInjective
    <2> QED
      BY <1>4, <2>1, <2>2, <2>3
  <1>7. ASSUME IsInjective(ko), NEW a \in KeysOf(m), NEW b \in KeysOf(m), Precedes(ko, a, b)
        PROVE  Precedes(ks, a, b)
    <2>1. DOMAIN ko = 1..Len(ko) /\ DOMAIN u = 1..Len(u) /\ Len(u) \in Nat
          /\ \A i \in 1..Len(u) : ks[i] = u[i]
      BY <1>5, ConcatFacts
    <2>2. \A i \in 1..Len(u) : i \in DOMAIN ks
      BY <1>5, ConcatFacts
    <2> HIDE DEF ks
    <2>3. PICK p \in 1..Len(ko), q \in 1..Len(ko) : p < q /\ ko[p] = a /\ ko[q] = b
      BY <1>7, <2>1 DEF Precedes
    <2>4. a \in ToSet(u) /\ b \in ToSet(u)
      BY <1>5, <2>3
    <2>5. PICK i \in 1..Len(u), j \in 1..Len(u) : u[i] = a /\ u[j] = b
      BY <2>1, <2>4 DEF ToSet
    <2>6. a # b
      BY <1>7, <2>1, <2>3 DEF IsInjective
    <2>7. ~(j < i)
      <3> SUFFICES ASSUME j < i PROVE FALSE
        OBVIOUS
      <3>1. PICK x \in 1..Len(ko) : ko[x] = b /\ \A y \in 1..x : ko[y] # a
        <4>1. \E x \in 1..Len(ko) : ko[x] = u[j] /\ \A y \in 1..x : ko[y] # u[i]
          BY <1>2, <2>1 DEF UsedAfter
        <4> QED
          BY <2>5, <4>1
      <3>2. x = q
        BY <1>7, <2>1, <2>3, <3>1 DEF IsInjective
      <3>3. p \in 1..x
        BY <2>3, <3>2
      <3> QED
        BY <2>3, <3>1, <3>3
    <2>8. i < j
      BY <2>1, <2>5, <2>6, <2>7
    <2> QED
      BY <2>1, <2>2, <2>5, <2>8 DEF Precedes
  <1> QED
    BY <1>1, <1>6, <1>7 DEF NewKeys

-----------------------------------------------------------------------------
(* There and back: a list made of a map.                                   *)
LEMMA PairsFacts ==
  ASSUME NEW m \in TagMap, NEW ks \in Seq(Keys), ToSet(ks) = KeysOf(m)
  PROVE  /\ PairsOf(m, ks) \in Seq(Pair)
         /\ KeyOrder(PairsOf(m, ks)) = ks
         /\ DOMAIN PairsOf(m, ks) = DOMAIN ks
         /\ \A i \in DOMAIN ks :
              /\ PairsOf(m, ks)[i] = [key |-> ks[i], value |-> m[ks[i]]]
              /\ ks[i] \in Keys /\ m[ks[i]] \in Values
  <1> DEFINE n == Len(ks)
  <1>1. n \in Nat /\ DOMAIN ks = 1..n /\ ks = [i \in 1..n |-> ks[i]]
        /\ \A i \in 1..n : ks[i] \in Keys
    OBVIOUS
  <1>2. \A i \in 1..n : m[ks[i]] \in Values
    BY <1>1 DEF ToSet, KeysOf, TagMap
  <1>3. \A i \in 1..n : [key |-> ks[i], value |-> m[ks[i]]] \in Pair
    BY <1>1, <1>2 DEF Pair
  <1>4. PairsOf(m, ks) = [i \in 1..n |-> [key |-> ks[i], value |-> m[ks[i]]]]
    BY <1>1 DEF PairsOf
  <1> HIDE DEF n
  <1>5. PairsOf(m, ks) \in [1..n -> Pair]
    BY <1>3, <1>4
  <1>6. PairsOf(m, ks) \in Seq(Pair)
    BY <1>1, <1>5
  <1>7. KeyOrder(PairsOf(m, ks)) = [i \in 1..n |-> ks[i]]
    <2>1. DOMAIN PairsOf(m, ks) = 1..n /\ \A i \in 1..n : PairsOf(m, ks)[i].key = ks[i]
      BY <1>4
    <2> QED
      BY <2>1 DEF KeyOrder
  <1>8. KeyOrder(PairsOf(m, ks)) = ks
    BY <1>1, <1>7
  <1>9. DOMAIN PairsOf(m, ks) = DOMAIN ks
    BY <1>1, <1>5
  <1>10. ASSUME NEW i \in DOMAIN ks
         PROVE  /\ PairsOf(m, ks)[i] = [key |-> ks[i], value |-> m[ks[i]]]
                /\ ks[i] \in Keys /\ m[ks[i]] \in Values
    <2>1. i \in 1..n
      BY <1>1, <1>10
    <2> QED
      BY <1>1, <1>2, <1>4, <2>1
  <1> QED
    BY <1>6, <1>8, <1>9, <1>10, Zenon

(* The map of a list which fromACKTags made is the map it was made of, in  *)
(* whatever order the keys came.                                           *)
LEMMA RoundTrip ==
  ASSUME NEW m \in TagMap, NEW ks \in Seq(Keys), IsInjective(ks), ToSet(ks) = KeysOf(m)
  PROVE  ConvertToACKTags(PairsOf(m, ks)) = m
  <1> DEFINE r == PairsOf(m, ks)
  <1>1. /\ r \in Seq(Pair) /\ DOMAIN r = DOMAIN ks
        /\ \A i \in DOMAIN ks : r[i].key = ks[i] /\ r[i].value = m[ks[i]]
                                /\ ks[i] \in Keys /\ m[ks[i]] \in Values
    <2>1. /\ r \in Seq(Pair) /\ DOMAIN r = DOMAIN ks
          /\ \A i \in DOMAIN ks : r[i] = [key |-> ks[i], value |-> m[ks[i]]]
                                  /\ ks[i] \in Keys /\ m[ks[i]] \in Values
      BY PairsFacts
    <2> HIDE DEF r
    <2> QED
      BY <2>1
  <1> HIDE DEF r
  <1>2. ConvertToACKTags(r) \in TagMap
    BY <1>1, LastEntryWins
  <1>3. ASSUME NEW k \in Keys PROVE ConvertToACKTags(r)[k] = m[k]
    <2>1. CASE m[k] = Absent
      <3>1. \A i \in DOMAIN r : r[i].key # k
        BY <1>1, <2>1, AbsentAssumption
      <3> QED
        BY <1>1, <2>1, <3>1, LastEntryWins
    <2>2. CASE m[k] # Absent
      <3>1. PICK i \in DOMAIN r : ks[i] = k
        BY <1>1, <2>2 DEF KeysOf, ToSet
      <3>2. \A j \in DOMAIN r : j # i => r[j].key # k
        BY <1>1, <3>1 DEF IsInjective
      <3>3. i \in Nat /\ \A j \in DOMAIN r : j > i => j # i
        BY <1>1, <3>1
      <3>4. ConvertToACKTags(r)[k] = ValueOf(r[i])
        BY <1>1, <3>1, <3>2, <3>3, LastEntryWins
      <3> QED
        BY <1>1, <3>1, <3>4, NilAssumption DEF ValueOf
    <2> QED
      BY <2>1, <2>2
  <1> QED
    BY <1>2, <1>3 DEF TagMap, r

(* Every list that fromACKTags may return, in whatever order Go ranges over*)
(* the map: it has the entries of the map and no others, each key once and *)
(* nothing nil, the keys the old list had in their old order.              *)
THEOREM ListOfMap ==
  ASSUME NEW m \in TagMap, NEW l \in Seq(Pair), NEW r \in FromACKTags(m, KeyOrder(l))
  PROVE  /\ r \in Seq(Pair)
         /\ ConvertToACKTags(r) = m
         /\ r = PairsOf(m, KeyOrder(r))
         /\ NewKeys(KeyOrder(r), m, KeyOrder(l))
         /\ \A i \in DOMAIN r : r[i].key # NilPtr /\ r[i].value # NilPtr
  <1>1. KeyOrder(l) \in Seq(MaybeKeys)
    <2> DEFINE n == Len(l)
    <2>1. n \in Nat /\ DOMAIN l = 1..n /\ \A i \in 1..n : l[i] \in Pair
      OBVIOUS
    <2>2. \A i \in 1..n : l[i].key \in MaybeKeys
      BY <2>1 DEF Pair, MaybeKeys
    <2> HIDE DEF n
    <2>3. KeyOrder(l) \in [1..n -> MaybeKeys]
      BY <2>1, <2>2 DEF KeyOrder
    <2> QED
      BY <2>1, <2>3
  <1>2. PICK ks : NewKeys(ks, m, KeyOrder(l)) /\ r = PairsOf(m, ks)
    BY <1>1, FromSpec
  <1>3. ks \in Seq(Keys) /\ IsInjective(ks) /\ ToSet(ks) = KeysOf(m)
    BY <1>2 DEF NewKeys
  <1>4. r \in Seq(Pair) /\ KeyOrder(r) = ks /\ DOMAIN r = DOMAIN ks
        /\ \A i \in DOMAIN ks : r[i] = [key |-> ks[i], value |-> m[ks[i]]]
                                /\ ks[i] \in Keys /\ m[ks[i]] \in Values
    BY <1>2, <1>3, PairsFacts
  <1>5. ConvertToACKTags(r) = m
    BY <1>2, <1>3, RoundTrip
  <1>6. \A i \in DOMAIN r : r[i].key # NilPtr /\ r[i].value # NilPtr
    BY <1>4, NilAssumption
  <1> QED
    BY <1>2, <1>4, <1>5, <1>6

(* There is such a list.                                                   *)
LEMMA SomeList ==
  ASSUME NEW m, NEW ko
  PROVE  FromACKTags(m, ko) # {}
  <1> DEFINE S == KeysOf(m) \ ToSet(UsedKeys(m, ko))
  <1>1. S \in SUBSET Keys
    BY DEF KeysOf
  <1> HIDE DEF S
  <1>2. IsFiniteSet(S)
    BY <1>1, KeysAssumption, FS_Subset
  <1>3. PICK f : f \in Bijection(1..Cardinality(S), S)
    BY <1>2, FS_CardinalityType DEF ExistsBijection
  <1>4. f \in SetToSeqs(S)
    BY <1>3 DEF Bijection, Injection, IsInjective, SetToSeqs
  <1> QED
    BY <1>4 DEF S, FromACKTags

LEMMA ConvertNothing == <<>> \in Seq(Pair) /\ ConvertToACKTags(<<>>) = NoTags
  <1> DEFINE e == <<>>
  <1>1. e \in Seq(Pair) /\ DOMAIN e = {}
    OBVIOUS
  <1> HIDE DEF e
  <1>2. ConvertToACKTags(e) \in TagMap /\ \A k \in Keys : ConvertToACKTags(e)[k] = Absent
    BY <1>1, LastEntryWins
  <1>3. ConvertToACKTags(e) = NoTags
    BY <1>2 DEF TagMap, NoTags
  <1> QED
    BY <1>1, <1>3 DEF e

(* Two sequences without repetitions of the same elements are the same if  *)
(* the one keeps the order of the other.                                   *)
LEMMA SameOrder ==
  ASSUME NEW S, NEW s \in Seq(S), NEW t \in Seq(S), IsInjective(s), IsInjective(t),
         ToSet(s) = ToSet(t),
         \A a, b \in S : Precedes(s, a, b) => Precedes(t, a, b)
  PROVE  s = t
  <1> DEFINE L == Len(s)
             M == Len(t)
             Differ == {i \in 1..L : ~(i \in 1..M /\ s[i] = t[i])}
  <1>1. /\ L \in Nat /\ DOMAIN s = 1..L /\ \A i \in 1..L : s[i] \in S
        /\ M \in Nat /\ DOMAIN t = 1..M /\ \A i \in 1..M : t[i] \in S
        /\ s = [i \in 1..L |-> s[i]] /\ t = [i \in 1..M |-> t[i]]
    OBVIOUS
  <1> HIDE DEF L, M
  <1>2. \A i, j \in 1..L : s[i] = s[j] => i = j
    BY <1>1 DEF IsInjective
  <1>3. \A i, j \in 1..M : t[i] = t[j] => i = j
    BY <1>1 DEF IsInjective
  <1>4. \A i \in 1..L : \E j \in 1..M : s[i] = t[j]
    <2>1. \A i \in 1..L : s[i] \in ToSet(t)
      BY <1>1 DEF ToSet
    <2> QED
      BY <1>1, <2>1 DEF ToSet
  <1>5. \A i \in 1..M : \E j \in 1..L : t[i] = s[j]
    <2>1. \A i \in 1..M : t[i] \in ToSet(s)
      BY <1>1 DEF ToSet
    <2> QED
      BY <1>1, <2>1 DEF ToSet
  <1>6. Differ = {}
    <2> SUFFICES ASSUME Differ # {} PROVE FALSE
      OBVIOUS
    <2>1. PICK i \in Differ : \A k \in Differ : i <= k
      <3>1. Differ \subseteq Nat
        BY <1>1
      <3> HIDE DEF Differ
      <3> QED
        BY <3>1, LeastElement
    <2>2. i \in 1..L /\ ~(i \in 1..M /\ s[i] = t[i])
      OBVIOUS
    <2>3. \A k \in 1..L : k < i => k \in 1..M /\ s[k] = t[k]
      BY <2>1, <2>2
    <2>4. PICK j \in 1..M : s[i] = t[j]
      BY <1>4, <2>2
    <2>5. ~(j < i)
      <3> SUFFICES ASSUME j < i PROVE FALSE
        OBVIOUS
      <3>1. j \in 1..L
        BY <1>1, <2>2
      <3> QED
        BY <1>2, <2>2, <2>3, <2>4, <3>1
    <2>6. i < j /\ i \in 1..M
      BY <1>1, <2>2, <2>4, <2>5
    <2>7. PICK k \in 1..L : t[i] = s[k]
      BY <1>5, <2>6
    <2>8. i < k
      <3>1. k # i
        BY <2>2, <2>6, <2>7
      <3>2. ~(k < i)
        BY <1>3, <2>3, <2>6, <2>7
      <3> QED
        BY <1>1, <2>2, <3>1, <3>2
    <2>9. Precedes(t, s[i], s[k])
      <3>1. Precedes(s, s[i], s[k])
        BY <1>1, <2>2, <2>8 DEF Precedes
      <3> QED
        BY <1>1, <2>2, <3>1
    <2>10. PICK p \in 1..M, q \in 1..M : p < q /\ t[p] = s[i] /\ t[q] = s[k]
      BY <1>1, <2>9 DEF Precedes
    <2>11. p = j /\ q = i
      BY <1>3, <2>4, <2>6, <2>7, <2>10
    <2> QED
      BY <1>1, <2>6, <2>10, <2>11
  <1>7. \A i \in 1..L : i \in 1..M /\ s[i] = t[i]
    BY <1>6
  <1>8. \A i \in 1..M : i \in 1..L
    <2>1. ASSUME NEW i \in 1..M PROVE i \in 1..L
      <3>1. PICK j \in 1..L : t[i] = s[j]
        BY <1>5
      <3>2. t[i] = t[j] /\ j \in 1..M
        BY <1>7, <3>1
      <3> QED
        BY <1>3, <3>1, <3>2
    <2> QED
      BY <2>1
  <1>9. 1..L = 1..M
    BY <1>7, <1>8
  <1> QED
    BY <1>1, <1>7, <1>9

-----------------------------------------------------------------------------
(* The maps the steps compute are tag maps.                                *)
LEMMA MapsAreTagMaps ==
  ASSUME ListTypeOK
  PROVE  /\ ConvertToACKTags(list) \in TagMap
         /\ ConvertToACKTags(desiredList) \in TagMap
         /\ EnsureTags(ConvertToACKTags(list), DefaultTags) \in TagMap
         /\ SyncAWSTags(ConvertToACKTags(desiredList), alarmTags) \in TagMap
         /\ IgnoreSystemTags(ConvertToACKTags(desiredList), SystemTags) \in TagMap
  <1>1. ConvertToACKTags(list) \in TagMap /\ ConvertToACKTags(desiredList) \in TagMap
    BY LastEntryWins DEF ListTypeOK
  <1> QED
    BY <1>1, TagsAssumption, TagMapsClosed DEF ListTypeOK, EnsureTags

(* Type correctness: every list is made of key/value pairs.                *)
THEOREM ListTypeCorrect == ListSpec => []ListTypeOK
  <1>1. ListInit => ListTypeOK
    BY TagsAssumption, ConvertNothing, TagMapsClosed DEF ListInit, ListTypeOK, TagMap, NoTags
  <1>2. ListTypeOK /\ [ListNext]_listVars => ListTypeOK'
    <2> SUFFICES ASSUME ListTypeOK, [ListNext]_listVars PROVE ListTypeOK'
      OBVIOUS
    <2>0. /\ stage \in {"cr", "ensured", "mirrored", "synced"}
          /\ list \in Seq(Pair) /\ desiredList \in Seq(Pair)
          /\ latest \in TagMap /\ alarmTags \in TagMap
      BY DEF ListTypeOK
    <2>1. CASE EnsureList
      <3>1. desiredList' \in Seq(Pair)
        BY <2>0, <2>1, MapsAreTagMaps, ListOfMap DEF EnsureList
      <3> QED
        BY <2>0, <2>1, <3>1 DEF EnsureList, ListTypeOK
    <2>2. CASE MirrorList
      <3>1. desiredList' \in Seq(Pair)
        BY <2>0, <2>2, MapsAreTagMaps, ListOfMap DEF MirrorList
      <3> QED
        BY <2>0, <2>2, <3>1 DEF MirrorList, ListTypeOK
    <2>3. CASE SyncList
      <3> DEFINE d == ConvertToACKTags(desiredList)
      <3>1. TagResource(alarmTags, TagsToAdd(d, latest)) \in TagMap
        BY <2>0, MapsAreTagMaps, TagMapsClosed DEF TagResource
      <3>2. alarmTags' \in TagMap
        BY <2>3, <3>1, TagMapsClosed DEF SyncList
      <3> QED
        BY <2>0, <2>3, <3>2 DEF SyncList, ListTypeOK
    <2>4. CASE FilterList
      <3>1. list' \in Seq(Pair)
        BY <2>0, <2>4, MapsAreTagMaps, ListOfMap DEF FilterList
      <3>2. desiredList' \in Seq(Pair) /\ latest' \in TagMap
        BY <2>4, ConvertNothing, TagMapsClosed DEF FilterList, NoTags, TagMap
      <3> QED
        BY <2>0, <2>4, <3>1, <3>2 DEF FilterList, ListTypeOK
    <2>5. ASSUME NEW k \in AwsKeys, NEW v \in Values \cup {Absent}, InjectTag(k, v)
          PROVE  ListTypeOK'
      <3>1. alarmTags' \in TagMap
        BY <2>0, <2>5, AwsKeysAssumption DEF InjectTag, TagMap
      <3> QED
        BY <2>0, <2>5, <3>1 DEF InjectTag, ListTypeOK
    <2>6. CASE UNCHANGED listVars
      BY <2>0, <2>6 DEF listVars, ListTypeOK
    <2> QED
      BY <2>1, <2>2, <2>3, <2>4, <2>5, <2>6 DEF ListNext
  <1> QED
    BY <1>1, <1>2, PTL DEF ListSpec

(* No payload has a nil key, a nil value or a key twice, whatever the user *)
(* wrote.                                                                  *)
LEMMA PayloadStep ==
  ListTypeOK /\ PayloadTagsWellFormed /\ [ListNext]_listVars => PayloadTagsWellFormed'
  <1> SUFFICES ASSUME ListTypeOK, PayloadTagsWellFormed, [ListNext]_listVars
               PROVE  PayloadTagsWellFormed'
    OBVIOUS
  <1>0. list \in Seq(Pair) /\ desiredList \in Seq(Pair)
    BY DEF ListTypeOK
  <1>1. CASE EnsureList
    BY <1>0, <1>1, MapsAreTagMaps, ListOfMap DEF EnsureList, PayloadTagsWellFormed, NewKeys
  <1>2. CASE MirrorList
    BY <1>0, <1>2, MapsAreTagMaps, ListOfMap DEF MirrorList, PayloadTagsWellFormed, NewKeys
  <1>3. CASE SyncList
    BY <1>3 DEF SyncList, PayloadTagsWellFormed
  <1>4. CASE FilterList
    BY <1>4 DEF FilterList, PayloadTagsWellFormed
  <1>5. ASSUME NEW k \in AwsKeys, NEW v \in Values \cup {Absent}, InjectTag(k, v)
        PROVE  PayloadTagsWellFormed'
    BY <1>5 DEF InjectTag, PayloadTagsWellFormed
  <1>6. CASE UNCHANGED listVars
    BY <1>6 DEF listVars, PayloadTagsWellFormed
  <1> QED
    BY <1>1, <1>2, <1>3, <1>4, <1>5, <1>6 DEF ListNext

THEOREM PayloadTagsCorrect == ListSpec => []PayloadTagsWellFormed
  <1>1. ListInit => PayloadTagsWellFormed
    BY DEF ListInit, PayloadTagsWellFormed
  <1> QED
    BY <1>1, PayloadStep, ListTypeCorrect, PTL DEF ListSpec

(* The lists implement the maps: each step on the lists is the step of     *)
(* TagFlow on the maps they stand for.                                     *)
THEOREM ListsImplementMaps == ListSpec => ImplementsTagFlow
  <1>1. ListInit => Flow!TagInit
    <2> SUFFICES ASSUME ListInit PROVE Flow!TagInit
      OBVIOUS
    <2>1. ConvertToACKTags(list) \in TagMap
      BY TagsAssumption, LastEntryWins DEF ListInit
    <2>2. ConvertToACKTags(desiredList) = NoTags
      BY ConvertNothing DEF ListInit
    <2> QED
      BY <2>1, <2>2 DEF ListInit, Flow!TagInit, Flow!NoTags, NoTags
  <1>2. ListTypeOK /\ [ListNext]_listVars => [Flow!TagNext]_(Flow!tagVars)
    <2> SUFFICES ASSUME ListTypeOK, [ListNext]_listVars PROVE [Flow!TagNext]_(Flow!tagVars)
      OBVIOUS
    <2>0. list \in Seq(Pair) /\ desiredList \in Seq(Pair)
      BY DEF ListTypeOK
    <2>1. CASE EnsureList
      <3>1. ConvertToACKTags(desiredList') = EnsureTags(ConvertToACKTags(list), DefaultTags)
        BY <2>0, <2>1, MapsAreTagMaps, ListOfMap DEF EnsureList
      <3>2. Flow!Ensure
        BY <2>1, <3>1 DEF EnsureList, Flow!Ensure, Flow!EnsureTags, EnsureTags, Flow!Merge, Merge
      <3> QED
        BY <3>2 DEF Flow!TagNext
    <2>2. CASE MirrorList
      <3>1. ConvertToACKTags(desiredList')
              = SyncAWSTags(ConvertToACKTags(desiredList), alarmTags)
        BY <2>0, <2>2, MapsAreTagMaps, ListOfMap DEF MirrorList
      <3>2. Flow!Read
        BY <2>2, <3>1 DEF MirrorList, Flow!Read, Flow!MirrorAWSTags, Flow!SyncAWSTags, SyncAWSTags
      <3> QED
        BY <3>2 DEF Flow!TagNext
    <2>3. CASE SyncList
      <3>1. Flow!Sync
        BY <2>3 DEF SyncList, Flow!Sync, Flow!UntagResource, UntagResource,
                    Flow!TagResource, TagResource, Flow!Merge, Merge, Flow!TagsToAdd, TagsToAdd,
                    Flow!TagsToRemove, TagsToRemove, Flow!KeysOf, KeysOf
      <3> QED
        BY <3>1 DEF Flow!TagNext
    <2>4. CASE FilterList
      <3>1. ConvertToACKTags(list')
              = IgnoreSystemTags(ConvertToACKTags(desiredList), SystemTags)
        BY <2>0, <2>4, MapsAreTagMaps, ListOfMap DEF FilterList
      <3>2. ConvertToACKTags(desiredList') = NoTags
        BY <2>4, ConvertNothing DEF FilterList
      <3>3. Flow!WriteBack
        BY <2>4, <3>1, <3>2 DEF FilterList, Flow!WriteBack, Flow!FilterSystemTags,
             Flow!IgnoreSystemTags, IgnoreSystemTags, Flow!SystemTags, SystemTags,
             Flow!KeysOf, KeysOf, Flow!NoTags, NoTags
      <3> QED
        BY <3>3 DEF Flow!TagNext
    <2>5. ASSUME NEW k \in AwsKeys, NEW v \in Values \cup {Absent}, InjectTag(k, v)
          PROVE  Flow!TagNext
      <3>1. Flow!Inject(k, v)
        BY <2>5 DEF InjectTag, Flow!Inject
      <3> QED
        BY <3>1 DEF Flow!TagNext
    <2>6. CASE UNCHANGED listVars
      BY <2>6 DEF listVars, Flow!tagVars
    <2> QED
      BY <2>1, <2>2, <2>3, <2>4, <2>5, <2>6 DEF ListNext
  <1> QED
    BY <1>1, <1>2, ListTypeCorrect, PTL DEF ListSpec, ImplementsTagFlow, Flow!TagSpec

-----------------------------------------------------------------------------
(* The user's order.  The invariant: what of the user's tags is on its way *)
(* to the payload has the values the CR gives it and, if the CR is clean,  *)
(* the order it has there.                                                 *)
ContentInv ==
    stage # "cr" =>
        \A k \in Keys \ (AwsKeys \cup SystemTags) :
            ConvertToACKTags(desiredList)[k] = ConvertToACKTags(list)[k]

OrderInv ==
    stage # "cr" /\ Clean(list) =>
        \A a, b \in Keys :
            Precedes(KeyOrder(list), a, b) => Precedes(KeyOrder(desiredList), a, b)

(* A clean list is the list of its map, in its own order.                  *)
LEMMA CleanList ==
  ASSUME NEW l \in Seq(Pair), Clean(l)
  PROVE  /\ KeyOrder(l) \in Seq(Keys) /\ IsInjective(KeyOrder(l))
         /\ ToSet(KeyOrder(l)) = KeysOf(ConvertToACKTags(l))
         /\ KeysOf(ConvertToACKTags(l)) \cap (AwsKeys \cup SystemTags) = {}
         /\ l = PairsOf(ConvertToACKTags(l), KeyOrder(l))
  <1> DEFINE n == Len(l)
             m == ConvertToACKTags(l)
             ko == KeyOrder(l)
  <1>1. n \in Nat /\ DOMAIN l = 1..n /\ l = [i \in 1..n |-> l[i]]
        /\ \A i \in 1..n : l[i] \in Pair
    OBVIOUS
  <1>2. m \in TagMap
    BY LastEntryWins
  <1>3. \A i \in 1..n : /\ l[i] = [key |-> l[i].key, value |-> l[i].value]
                        /\ l[i].key \in Keys \ (AwsKeys \cup SystemTags)
                        /\ l[i].value \in Values
    BY <1>1 DEF Clean, Pair
  <1>4. ko = [i \in 1..n |-> l[i].key] /\ IsInjective(ko)
    BY <1>1 DEF Clean, KeyOrder
  <1>5. \A i, j \in 1..n : l[i].key = l[j].key => i = j
    BY <1>4 DEF IsInjective
  <1>6. \A i \in 1..n : m[l[i].key] = l[i].value
    <2>1. ASSUME NEW i \in 1..n PROVE m[l[i].key] = ValueOf(l[i])
      <3>1. \A j \in 1..n : j > i => l[j].key # l[i].key
        BY <1>1, <1>5
      <3>2. \A k \in Keys : \A i1 \in DOMAIN l :
               l[i1].key = k /\ (\A j \in DOMAIN l : j > i1 => l[j].key # k)
                 => m[k] = ValueOf(l[i1])
        BY LastEntryWins
      <3> HIDE DEF m
      <3>3. i \in DOMAIN l /\ l[i].key \in Keys
        BY <1>1, <1>3
      <3>4. \A j \in DOMAIN l : j > i => l[j].key # l[i].key
        BY <1>1, <3>1
      <3> QED
        BY <3>2, <3>3, <3>4
    <2> HIDE DEF m
    <2>2. \A i \in 1..n : ValueOf(l[i]) = l[i].value
      BY <1>3, NilAssumption DEF ValueOf
    <2> QED
      BY <2>1, <2>2
  <1>7. \A k \in Keys : m[k] # Absent => \E i \in 1..n : l[i].key = k
    <2>1. \A k \in Keys : (\A i \in DOMAIN l : l[i].key # k) => m[k] = Absent
      BY LastEntryWins
    <2> HIDE DEF m
    <2> QED
      BY <1>1, <2>1
  <1> HIDE DEF n, m, ko
  <1>8. ko \in Seq(Keys)
    <2>1. ko \in [1..n -> Keys]
      BY <1>3, <1>4
    <2> QED
      BY <1>1, <2>1
  <1>9. ToSet(ko) = KeysOf(m)
    <2>1. ToSet(ko) = {l[i].key : i \in 1..n}
      BY <1>4 DEF ToSet
    <2>2. \A i \in 1..n : m[l[i].key] # Absent
      BY <1>3, <1>6, AbsentAssumption
    <2>3. KeysOf(m) \subseteq ToSet(ko)
      BY <1>7, <2>1 DEF KeysOf
    <2>4. ToSet(ko) \subseteq KeysOf(m)
      <3> SUFFICES ASSUME NEW i \in 1..n PROVE l[i].key \in KeysOf(m)
        BY <2>1
      <3>1. l[i].key \in Keys /\ m[l[i].key] # Absent
        BY <1>3, <2>2
      <3> QED
        BY <3>1 DEF KeysOf
    <2> QED
      BY <2>3, <2>4
  <1>10. KeysOf(m) \cap (AwsKeys \cup SystemTags) = {}
    <2>1. \A k \in KeysOf(m) : \E i \in 1..n : l[i].key = k
      BY <1>7 DEF KeysOf
    <2> QED
      BY <1>3, <2>1
  <1>11. l = PairsOf(m, ko)
    <2>1. PairsOf(m, ko) = [i \in 1..n |-> [key |-> l[i].key, value |-> m[l[i].key]]]
      BY <1>4 DEF PairsOf
    <2>2. \A i \in 1..n : [key |-> l[i].key, value |-> m[l[i].key]] = l[i]
      BY <1>3, <1>6
    <2> QED
      BY <1>1, <2>1, <2>2
  <1> QED
    BY <1>4, <1>8, <1>9, <1>10, <1>11 DEF m, ko

LEMMA UserKeysOfClean ==
  ASSUME NEW l \in Seq(Pair), Clean(l), NEW a, NEW b, Precedes(KeyOrder(l), a, b)
  PROVE  /\ a \in Keys \ (AwsKeys \cup SystemTags) /\ ConvertToACKTags(l)[a] # Absent
         /\ b \in Keys \ (AwsKeys \cup SystemTags) /\ ConvertToACKTags(l)[b] # Absent
  <1>1. a \in ToSet(KeyOrder(l)) /\ b \in ToSet(KeyOrder(l))
    BY DEF Precedes, ToSet
  <1>2. a \in KeysOf(ConvertToACKTags(l)) /\ b \in KeysOf(ConvertToACKTags(l))
    BY <1>1, CleanList
  <1> QED
    BY <1>2, CleanList DEF KeysOf

ContentAndOrder == ListTypeOK /\ PayloadTagsWellFormed /\ ContentInv /\ OrderInv

LEMMA UserTagsStep == ContentAndOrder /\ [ListNext]_listVars => ContentInv' /\ OrderInv'
  <1> SUFFICES ASSUME ContentAndOrder, [ListNext]_listVars PROVE ContentInv' /\ OrderInv'
    OBVIOUS
  <1>0. /\ list \in Seq(Pair) /\ desiredList \in Seq(Pair)
        /\ latest \in TagMap /\ alarmTags \in TagMap
        /\ ConvertToACKTags(list) \in TagMap /\ ConvertToACKTags(desiredList) \in TagMap
    BY MapsAreTagMaps DEF ContentAndOrder, ListTypeOK
  <1>1. CASE EnsureList
    <2> DEFINE m == EnsureTags(ConvertToACKTags(list), DefaultTags)
    <2>1. stage' # "cr" /\ list' = list /\ desiredList' \in FromACKTags(m, KeyOrder(list))
      BY <1>1 DEF EnsureList
    <2>2. m \in TagMap /\ \A k \in Keys : m[k] =
            IF ConvertToACKTags(list)[k] # Absent THEN ConvertToACKTags(list)[k] ELSE DefaultTags[k]
      BY <1>0, TagsAssumption, UserTagsWin, MapsAreTagMaps DEF ContentAndOrder
    <2> HIDE DEF m
    <2>3. ConvertToACKTags(desiredList') = m /\ NewKeys(KeyOrder(desiredList'), m, KeyOrder(list))
      BY <1>0, <2>1, <2>2, ListOfMap
    <2>4. ContentInv'
      <3>1. \A k \in Keys \ SystemTags : DefaultTags[k] = Absent
        BY DEF SystemTags, KeysOf
      <3> QED
        BY <2>1, <2>2, <2>3, <3>1 DEF ContentInv, SystemTags
    <2>5. OrderInv'
      <3> SUFFICES ASSUME Clean(list), NEW a \in Keys, NEW b \in Keys,
                          Precedes(KeyOrder(list), a, b)
                   PROVE  Precedes(KeyOrder(desiredList'), a, b)
        BY <2>1 DEF OrderInv, Clean, SystemTags
      <3>1. a \in KeysOf(m) /\ b \in KeysOf(m)
        BY <1>0, <2>2, UserKeysOfClean DEF KeysOf
      <3> QED
        BY <1>0, <2>3, <3>1, CleanList DEF NewKeys
    <2> QED
      BY <2>4, <2>5
  <1>2. CASE MirrorList
    <2> DEFINE m == SyncAWSTags(ConvertToACKTags(desiredList), alarmTags)
    <2>1. stage # "cr" /\ stage' # "cr" /\ list' = list
          /\ desiredList' \in FromACKTags(m, KeyOrder(desiredList))
      BY <1>2 DEF MirrorList
    <2>2. m \in TagMap /\ \A k \in Keys \ AwsKeys : m[k] = ConvertToACKTags(desiredList)[k]
      BY <1>0, TagMapsClosed DEF SyncAWSTags
    <2> HIDE DEF m
    <2>3. ConvertToACKTags(desiredList') = m
          /\ NewKeys(KeyOrder(desiredList'), m, KeyOrder(desiredList))
      BY <1>0, <2>1, <2>2, ListOfMap
    <2>4. \A k \in Keys \ (AwsKeys \cup SystemTags) : m[k] = ConvertToACKTags(list)[k]
      BY <2>1, <2>2 DEF ContentAndOrder, ContentInv
    <2>5. ContentInv'
      BY <2>1, <2>3, <2>4 DEF ContentInv, SystemTags
    <2>6. OrderInv'
      <3> SUFFICES ASSUME Clean(list), NEW a \in Keys, NEW b \in Keys,
                          Precedes(KeyOrder(list), a, b)
                   PROVE  Precedes(KeyOrder(desiredList'), a, b)
        BY <2>1 DEF OrderInv, Clean, SystemTags
      <3>1. a \in KeysOf(m) /\ b \in KeysOf(m)
        BY <1>0, <2>4, UserKeysOfClean DEF KeysOf
      <3>2. Precedes(KeyOrder(desiredList), a, b)
        BY <2>1 DEF ContentAndOrder, OrderInv
      <3>3. IsInjective(KeyOrder(desiredList))
        BY <2>1 DEF ContentAndOrder, PayloadTagsWellFormed
      <3> QED
        BY <2>3, <3>1, <3>2, <3>3 DEF NewKeys
    <2> QED
      BY <2>5, <2>6
  <1>3. CASE UNCHANGED <<list, desiredList>> /\ (stage # "cr" \/ stage' = stage)
    BY <1>3 DEF ContentAndOrder, ContentInv, OrderInv, Clean, SystemTags
  <1>4. CASE FilterList
    BY <1>4 DEF FilterList, ContentInv, OrderInv
  <1> QED
    BY <1>1, <1>2, <1>3, <1>4 DEF ListNext, SyncList, InjectTag, listVars

(* Where the CR is clean, what FilterSystemTags writes back is the list    *)
(* the user wrote, in the user's order.                                    *)
LEMMA WrittenBackAsItWas ==
  ContentAndOrder /\ FilterList /\ Clean(list) => list' = list
  <1> SUFFICES ASSUME ContentAndOrder, FilterList, Clean(list) PROVE list' = list
    OBVIOUS
  <1> DEFINE d == ConvertToACKTags(desiredList)
             c == ConvertToACKTags(list)
             m == IgnoreSystemTags(d, SystemTags)
  <1>1. /\ list \in Seq(Pair) /\ desiredList \in Seq(Pair)
        /\ c \in TagMap /\ d \in TagMap /\ m \in TagMap
    BY MapsAreTagMaps DEF ContentAndOrder, ListTypeOK
  <1>2. stage = "synced" /\ list' \in FromACKTags(m, KeyOrder(desiredList))
    BY DEF FilterList
  <1>3. list' = PairsOf(m, KeyOrder(list')) /\ NewKeys(KeyOrder(list'), m, KeyOrder(desiredList))
    <2> HIDE DEF m
    <2> QED
      BY <1>1, <1>2, ListOfMap
  <1>4. IsInjective(KeyOrder(desiredList))
    BY <1>2 DEF ContentAndOrder, PayloadTagsWellFormed
  <1>5. \A k \in Keys \ (AwsKeys \cup SystemTags) : d[k] = c[k]
    BY <1>2 DEF ContentAndOrder, ContentInv
  <1>6. /\ KeyOrder(list) \in Seq(Keys) /\ IsInjective(KeyOrder(list))
        /\ ToSet(KeyOrder(list)) = KeysOf(c)
        /\ KeysOf(c) \cap (AwsKeys \cup SystemTags) = {}
        /\ list = PairsOf(c, KeyOrder(list))
    BY <1>1, CleanList
  <1> HIDE DEF c, d
  <1>7. m = c
    <2>1. \A k \in AwsKeys \cup SystemTags : k \in Keys => c[k] = Absent
      BY <1>6 DEF KeysOf
    <2>2. \A k \in Keys : m[k] = c[k]
      BY <1>5, <2>1 DEF IgnoreSystemTags
    <2> HIDE DEF m
    <2> QED
      BY <1>1, <2>2 DEF TagMap
  <1> HIDE DEF m
  <1>8. KeyOrder(list') \in Seq(Keys) /\ IsInjective(KeyOrder(list'))
        /\ ToSet(KeyOrder(list')) = KeysOf(c)
    BY <1>3, <1>7 DEF NewKeys
  <1>9. ASSUME NEW a \in Keys, NEW b \in Keys, Precedes(KeyOrder(list), a, b)
        PROVE  Precedes(KeyOrder(list'), a, b)
    <2>1. a \in KeysOf(m) /\ b \in KeysOf(m)
      BY <1>1, <1>7, <1>9, UserKeysOfClean DEF KeysOf, c
    <2>2. Precedes(KeyOrder(desiredList), a, b)
      BY <1>2, <1>9 DEF ContentAndOrder, OrderInv
    <2> QED
      BY <1>3, <1>4, <2>1, <2>2 DEF NewKeys
  <1>10. KeyOrder(list) = KeyOrder(list')
    BY <1>6, <1>8, <1>9, SameOrder
  <1> QED
    BY <1>3, <1>6, <1>7, <1>10

(* However Go orders its maps, the patch of the CR leaves a clean list of  *)
(* tags as it is.                                                          *)
THEOREM UserOrderIsKept == ListSpec => UserOrderKept
  <1>1. ListInit => ContentInv /\ OrderInv
    BY DEF ListInit, ContentInv, OrderInv
  <1>2. ListSpec => []ContentAndOrder
    <2>1. ContentAndOrder <=>
            ListTypeOK /\ PayloadTagsWellFormed /\ ContentInv /\ OrderInv
      BY DEF ContentAndOrder
    <2> QED
      BY <1>1, <2>1, UserTagsStep, ListTypeCorrect, PayloadTagsCorrect, PTL DEF ListSpec
  <1>3. ContentAndOrder /\ [ListNext]_listVars =>
          [FilterList /\ Clean(list) => list' = list]_listVars
    BY WrittenBackAsItWas
  <1> QED
    BY <1>2, <1>3, PTL DEF ListSpec, UserOrderKept
=============================================================================
