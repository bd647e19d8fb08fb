-------------------------- MODULE IssuePagesProofs --------------------------
(***************************************************************************)
(* What the lists of the issue page keep true, whatever crosses: its       *)
(* reactions and subscribers (IssueSets), and its thread (IssueThread).    *)
(* Both are lists that are filtered, mapped and appended to, so they share *)
(* what a filter leaves of a list.  WebPagesProofs takes SetsSafe and      *)
(* ThreadSafe from here.                                                   *)
(***************************************************************************)
EXTENDS WebPages, Sublists, SequenceTheorems, FiniteSetTheorems, WellFoundedInduction, TLAPS

-----------------------------------------------------------------------------
(* Lists and their filters.                                                *)

\* r is what K leaves of the first n elements of s: its i-th is the p[i]-th of s.
Positions(s, K, n, r, p) ==
    /\ p \in [1..Len(r) -> Nat]
    /\ \A i \in 1..Len(r) : p[i] \in 1..n /\ p[i] \in K /\ r[i] = s[p[i]]
    /\ \A i, j \in 1..Len(r) : i < j => p[i] < p[j]
    /\ \A j \in 1..n : j \in K => \E i \in 1..Len(r) : p[i] = j

\* The prefixes of what is left.
Prefixes(s, K, n, f) ==
    f = [k \in 0..n |-> IF k = 0 THEN <<>>
                        ELSE IF k \in K THEN Append(f[k-1], s[k]) ELSE f[k-1]]

LEMMA LeastOf ==
  ASSUME NEW B \in SUBSET Nat, B # {}
  PROVE  \E m \in B : \A k \in B : ~(k < m)
  <1> DEFINE R == OpToRel(<, Nat)
  <1>1. \A m, n \in Nat : m < n => <<m, n>> \in R
    BY DEF OpToRel
  <1>2. IsWellFoundedOn(R, Nat)
    BY NatLessThanWellFounded
  <1> HIDE DEF R
  <1>3. PICK n \in B : \A m \in B : ~ (<<m, n>> \in R)
    BY <1>2, WFMin
  <1> QED BY <1>1, <1>3, Zenon

LEMMA GreatestOf ==
  ASSUME NEW A \in SUBSET Nat, A # {}, NEW m \in Nat, \A i \in A : i <= m
  PROVE  \E k \in A : \A i \in A : i <= k
  <1>1. PICK C : C = {d \in Nat : \E i \in A : d = m - i}
    OBVIOUS
  <1>2. C \in SUBSET Nat /\ C # {}
    <2>1. PICK i \in A : TRUE
      OBVIOUS
    <2>2. m - i \in Nat
      OBVIOUS
    <2> QED  BY <1>1, <2>2
  <1>3. PICK c \in C : \A d \in C : ~(d < c)
    BY <1>2, LeastOf
  <1>4. PICK k \in A : c = m - k
    BY <1>1, <1>3
  <1>5. \A i \in A : m - i \in C
    BY <1>1
  <1>6. \A i \in A : ~(m - i < m - k)
    BY <1>3, <1>4, <1>5
  <1> QED  BY <1>6

LEMMA PrefixesExist ==
  ASSUME NEW s, NEW K, NEW n \in Nat
  PROVE  \E f : Prefixes(s, K, n, f)
  <1>1. PICK B : B = {m \in Nat : ~\E f : Prefixes(s, K, m, f)}
    OBVIOUS
  <1>2. SUFFICES ASSUME n \in B PROVE FALSE
    BY <1>1
  <1>3. PICK m \in B : \A k \in 0..(m-1) : k \notin B
    <2>1. PICK m \in B : \A k \in B : ~(k < m)
      BY <1>1, <1>2, LeastOf
    <2>2. m \in Nat
      BY <1>1
    <2> QED BY <2>1, <2>2
  <1>4. m \in Nat /\ ~\E f : Prefixes(s, K, m, f)
    BY <1>1, <1>3
  <1>5. CASE m = 0
    <2>1. Prefixes(s, K, 0, [k \in 0..0 |-> <<>>])
      BY DEF Prefixes
    <2> QED BY <2>1, <1>4, <1>5
  <1>6. CASE m # 0
    <2>1. m - 1 \in Nat /\ m - 1 \in 0..(m-1)
      BY <1>4, <1>6
    <2>2. PICK f : Prefixes(s, K, m - 1, f)
      BY <1>1, <1>3, <2>1
    <2>3. PICK g : g = [k \in 0..m |->
                          IF k = m THEN (IF m \in K THEN Append(f[m-1], s[m]) ELSE f[m-1])
                          ELSE f[k]]
      OBVIOUS
    <2>4. \A k \in 0..(m-1) : g[k] = f[k]
      BY <1>4, <2>1, <2>3
    <2>5. ASSUME NEW k \in 0..m
          PROVE g[k] = IF k = 0 THEN <<>> ELSE IF k \in K THEN Append(g[k-1], s[k]) ELSE g[k-1]
      <3>1. CASE k = m
        <4>1. g[m-1] = f[m-1]
          BY <2>1, <2>4
        <4> QED BY <4>1, <2>3, <3>1, <1>4, <1>6
      <3>2. CASE k # m
        <4>1. k \in 0..(m-1)
          BY <1>4, <3>2
        <4>2. f[k] = IF k = 0 THEN <<>> ELSE IF k \in K THEN Append(f[k-1], s[k]) ELSE f[k-1]
          BY <4>1, <2>2 DEF Prefixes
        <4>3. k # 0 => k - 1 \in 0..(m-1)
          BY <4>1, <1>4
        <4> QED BY <4>1, <4>2, <4>3, <2>4
      <3> QED BY <3>1, <3>2
    <2>6. g = [k \in 0..m |-> g[k]]
      BY <2>3
    <2>7. Prefixes(s, K, m, g)
      BY <2>5, <2>6 DEF Prefixes
    <2> QED BY <2>7, <1>4
  <1> QED BY <1>5, <1>6

LEMMA KeptPrefix ==
  ASSUME NEW S, NEW s \in Seq(S), NEW K, NEW f, Prefixes(s, K, Len(s), f), NEW n \in 0..Len(s)
  PROVE  f[n] \in Seq(S) /\ \E p : Positions(s, K, n, f[n], p)
  <1>0. Len(s) \in Nat /\ \A i \in 1..Len(s) : s[i] \in S
    BY LenProperties, ElementOfSeq
  <1>1. PICK B : B = {m \in Nat : /\ m \in 0..Len(s)
                                  /\ ~(f[m] \in Seq(S) /\ \E p : Positions(s, K, m, f[m], p))}
    OBVIOUS
  <1>2. SUFFICES ASSUME n \in B PROVE FALSE
    BY <1>0, <1>1
  <1>3. PICK m \in B : \A k \in B : ~(k < m)
    BY <1>1, <1>2, LeastOf
  <1>4. /\ m \in Nat /\ m \in 0..Len(s)
        /\ ~(f[m] \in Seq(S) /\ \E p : Positions(s, K, m, f[m], p))
    BY <1>1, <1>3
  <1>5. f[m] = IF m = 0 THEN <<>> ELSE IF m \in K THEN Append(f[m-1], s[m]) ELSE f[m-1]
    BY <1>4 DEF Prefixes
  <1>6. CASE m = 0
    <2>1. f[0] = <<>> /\ <<>> \in Seq(S) /\ Len(<<>>) = 0
      BY <1>5, <1>6, EmptySeq
    <2>2. Positions(s, K, 0, <<>>, [i \in 1..0 |-> i])
      BY <2>1 DEF Positions
    <2> QED BY <2>1, <2>2, <1>4, <1>6
  <1>7. CASE m # 0
    <2>1. m - 1 \in Nat /\ m - 1 \in 0..Len(s) /\ m - 1 < m /\ m \in 1..Len(s)
      BY <1>0, <1>4, <1>7
    <2>2. PICK r, p : r = f[m-1] /\ r \in Seq(S) /\ Positions(s, K, m - 1, r, p)
      BY <1>1, <1>3, <2>1
    <2>3. Len(r) \in Nat
      BY <2>2, LenProperties
    <2>4. CASE m \notin K
      <3>1. f[m] = r
        BY <1>5, <1>7, <2>2, <2>4
      <3>2. Positions(s, K, m, r, p)
        BY <2>2, <2>1, <2>4, <1>4 DEF Positions
      <3> QED BY <3>1, <3>2, <2>2, <1>4
    <2>5. CASE m \in K
      <3>1. PICK x, q : x = s[m] /\ x \in S /\ q = Append(r, x)
        BY <1>0, <2>1
      <3>2. f[m] = q
        BY <1>5, <1>7, <2>2, <2>5, <3>1
      <3>3. /\ q \in Seq(S) /\ Len(q) = Len(r) + 1
            /\ \A i \in 1..Len(r) : q[i] = r[i]
            /\ q[Len(r) + 1] = x
        BY <2>2, <3>1, AppendProperties
      <3>4. PICK g : g = [i \in 1..Len(q) |-> IF i = Len(r) + 1 THEN m ELSE p[i]]
        OBVIOUS
      <3>5. /\ \A i \in 1..Len(r) : g[i] = p[i] /\ g[i] \in 1..(m-1) /\ g[i] \in K /\ q[i] = s[g[i]]
            /\ g[Len(r) + 1] = m
        BY <2>2, <2>3, <3>3, <3>4 DEF Positions
      <3>6. g \in [1..Len(q) -> Nat]
        <4>1. \A i \in 1..Len(q) : i = Len(r) + 1 \/ i \in 1..Len(r)
          BY <2>3, <3>3
        <4>2. \A k \in 1..(m-1) : k \in Nat
          BY <1>4
        <4>3. \A i \in 1..Len(q) : g[i] \in Nat
          BY <4>1, <4>2, <3>5, <1>4
        <4> QED BY <4>3, <3>4
      <3>7. ASSUME NEW i \in 1..Len(q)
            PROVE  g[i] \in 1..m /\ g[i] \in K /\ q[i] = s[g[i]]
        <4>1. CASE i = Len(r) + 1
          <5>1. m \in 1..m
            BY <1>4, <1>7
          <5> QED BY <4>1, <5>1, <3>5, <3>3, <3>1, <2>5
        <4>2. CASE i \in 1..Len(r)
          <5>1. \A k \in 1..(m-1) : k \in 1..m
            BY <1>4
          <5> QED BY <4>2, <5>1, <3>5
        <4>3. i = Len(r) + 1 \/ i \in 1..Len(r)
          BY <2>3, <3>3
        <4> QED BY <4>1, <4>2, <4>3
      <3>8. ASSUME NEW i \in 1..Len(q), NEW j \in 1..Len(q), i < j
            PROVE  g[i] < g[j]
        <4>1. i \in 1..Len(r) /\ (j = Len(r) + 1 \/ j \in 1..Len(r))
          BY <2>3, <3>3, <3>8
        <4>2. j \in 1..Len(r) => p[i] < p[j]
          BY <4>1, <3>8, <2>2 DEF Positions
        <4> QED BY <4>1, <4>2, <3>5, <1>4
      <3>9. ASSUME NEW j \in 1..m, j \in K
            PROVE  \E i \in 1..Len(q) : g[i] = j
        <4>1. Len(r) + 1 \in 1..Len(q) /\ \A i \in 1..Len(r) : i \in 1..Len(q)
          BY <2>3, <3>3
        <4>2. CASE j = m
          BY <4>1, <4>2, <3>5
        <4>3. CASE j # m
          <5>1. j \in 1..(m-1)
            BY <4>3, <1>4
          <5>2. PICK i \in 1..Len(r) : p[i] = j
            BY <5>1, <3>9, <2>2 DEF Positions
          <5> QED BY <5>2, <4>1, <3>5
        <4> QED BY <4>2, <4>3
      <3>10. Positions(s, K, m, q, g)
        BY <3>6, <3>7, <3>8, <3>9 DEF Positions
      <3> QED BY <3>2, <3>3, <3>10, <1>4
    <2> QED BY <2>4, <2>5
  <1> QED BY <1>6, <1>7

\* The filter of a list finds what stays, in the same order.
LEMMA KeptAll ==
  ASSUME NEW S, NEW s \in Seq(S), NEW K
  PROVE  Kept(s, K) \in Seq(S) /\ \E p : Positions(s, K, Len(s), Kept(s, K), p)
  <1>1. Len(s) \in Nat
    BY LenProperties
  <1>2. PICK f : Prefixes(s, K, Len(s), f) /\ Kept(s, K) = f[Len(s)]
    <2>1. PICK f : f = CHOOSE g : Prefixes(s, K, Len(s), g)
      OBVIOUS
    <2>2. Prefixes(s, K, Len(s), f)
      BY <1>1, <2>1, PrefixesExist
    <2>3. Kept(s, K) = f[Len(s)]
      BY <2>1 DEF Kept, Prefixes
    <2> QED BY <2>2, <2>3
  <1> QED BY <1>1, <1>2, KeptPrefix

-----------------------------------------------------------------------------
(* The reactions and the subscribers of an issue: in store, the list that is shown; in *)
(* view, which one; in part1, whether it is still fetched; in part2, the   *)
(* last id; in part3, astray.                                              *)

SSlots == Slots["sets"]

Listed == [who : Sets!Who, id : Int \cup {Sets!Temp(n) : n \in SSlots}]

\* An actor is listed once at most; every entry of the actor is x.
AtMost(l, w) == \A i, j \in Sets!Of(l, w) : i = j
AllAre(l, w, x) == \A i \in Sets!Of(l, w) : l[i] = x

\* l and r have the same entries of w.
SameOf(l, r, w) ==
    /\ AtMost(l, w) <=> AtMost(r, w)
    /\ Sets!Mentions(l, w) <=> Sets!Mentions(r, w)
    /\ \A x : AllAre(l, w, x) <=> AllAre(r, w, x)

-----------------------------------------------------------------------------
LEMMA SetsKept ==
  ASSUME NEW S, NEW s \in Seq(S), NEW K
  PROVE  /\ Sets!Kept(s, K) \in Seq(S)
         /\ \E p : Positions(s, K, Len(s), Sets!Kept(s, K), p)
  <1>1. Sets!Kept(s, K) = Kept(s, K)
    BY DEF Sets!Kept, Kept
  <1> QED  BY <1>1, KeptAll

LEMMA ListedAt ==
  ASSUME NEW l \in Seq(Listed)
  PROVE  /\ Len(l) \in Nat /\ DOMAIN l = 1..Len(l)
         /\ \A i \in 1..Len(l) : l[i] \in Listed /\ l[i].who \in Sets!Who
  <1>1. Len(l) \in Nat /\ DOMAIN l = 1..Len(l) /\ \A i \in 1..Len(l) : l[i] \in Listed
    BY LenProperties, ElementOfSeq
  <1> QED  BY <1>1 DEF Listed

LEMMA KeptFrom ==
  ASSUME NEW l \in Seq(Listed), NEW K, NEW r, r = Sets!Kept(l, K)
  PROVE  /\ r \in Seq(Listed)
         /\ \A i \in DOMAIN r : \E k \in DOMAIN l : k \in K /\ r[i] = l[k]
  <1>1. PICK p : Positions(l, K, Len(l), r, p)
    BY SetsKept
  <1>2. r \in Seq(Listed)
    BY SetsKept
  <1>3. DOMAIN l = 1..Len(l) /\ DOMAIN r = 1..Len(r)
    BY <1>2, ListedAt
  <1> QED  BY <1>1, <1>2, <1>3 DEF Positions

\* What a filter does to the entries of one actor.
LEMMA OfKept ==
  ASSUME NEW l \in Seq(Listed), NEW K, NEW r, r = Sets!Kept(l, K), NEW w
  PROVE  /\ r \in Seq(Listed)
         /\ AtMost(l, w) => AtMost(r, w)
         /\ Sets!Of(l, w) \subseteq K => SameOf(l, r, w)
  <1>1. PICK p : Positions(l, K, Len(l), r, p)
    BY SetsKept
  <1>2. r \in Seq(Listed)
    BY SetsKept
  <1>3. /\ Len(l) \in Nat /\ DOMAIN l = 1..Len(l) /\ Len(r) \in Nat /\ DOMAIN r = 1..Len(r)
    BY <1>2, ListedAt
  <1>4. \A i \in DOMAIN r : p[i] \in DOMAIN l /\ p[i] \in K /\ r[i] = l[p[i]] /\ p[i] \in Nat
    BY <1>1, <1>3 DEF Positions
  <1>5. \A i, j \in DOMAIN r : p[i] = p[j] => i = j
    <2> TAKE i, j \in DOMAIN r
    <2>1. i < j \/ j < i \/ i = j
      BY <1>3
    <2>2. i < j => p[i] < p[j]
      BY <1>1, <1>3 DEF Positions
    <2>3. j < i => p[j] < p[i]
      BY <1>1, <1>3 DEF Positions
    <2> QED  BY <2>1, <2>2, <2>3, <1>4
  <1>6. \A k \in DOMAIN l : k \in K => \E i \in DOMAIN r : p[i] = k
    BY <1>1, <1>3 DEF Positions
  <1>7. \A i \in Sets!Of(r, w) : p[i] \in Sets!Of(l, w) /\ i \in DOMAIN r /\ r[i] = l[p[i]]
    BY <1>4 DEF Sets!Of
  <1>8. AtMost(l, w) => AtMost(r, w)
    BY <1>5, <1>7 DEF AtMost
  <1>9. ASSUME Sets!Of(l, w) \subseteq K
         PROVE  SameOf(l, r, w)
    <2>1. \A k \in Sets!Of(l, w) : \E i \in Sets!Of(r, w) : p[i] = k /\ r[i] = l[k]
      <3> TAKE k \in Sets!Of(l, w)
      <3>1. k \in DOMAIN l /\ k \in K /\ l[k].who = w
        BY <1>9 DEF Sets!Of
      <3>2. PICK i \in DOMAIN r : p[i] = k
        BY <3>1, <1>6
      <3>3. r[i] = l[k]
        BY <3>2, <1>4
      <3> QED  BY <3>1, <3>2, <3>3 DEF Sets!Of
    <2>2. AtMost(r, w) => AtMost(l, w)
      BY <2>1 DEF AtMost
    <2>3. Sets!Mentions(l, w) <=> Sets!Mentions(r, w)
      BY <2>1, <1>7 DEF Sets!Mentions
    <2>4. \A x : AllAre(l, w, x) <=> AllAre(r, w, x)
      BY <2>1, <1>7 DEF AllAre
    <2> QED  BY <1>8, <2>2, <2>3, <2>4 DEF SameOf
  <1> QED  BY <1>2, <1>8, <1>9

LEMMA OfWithout ==
  ASSUME NEW l \in Seq(Listed), NEW w, NEW r, r = Sets!Without(l, w)
  PROVE  /\ r \in Seq(Listed) /\ Sets!Of(r, w) = {}
         /\ \A v : v # w => SameOf(l, r, v)
  <1>1. PICK K : K = DOMAIN l \ Sets!Of(l, w)
    OBVIOUS
  <1>2. r = Sets!Kept(l, K)
    BY <1>1 DEF Sets!Without
  <1>3. Sets!Of(r, w) = {}
    <2>1. \A i \in DOMAIN r : \E k \in DOMAIN l : k \in K /\ r[i] = l[k]
      BY <1>2, KeptFrom
    <2> QED  BY <1>1, <2>1 DEF Sets!Of
  <1>4. ASSUME NEW v, v # w
        PROVE  SameOf(l, r, v)
    <2>1. Sets!Of(l, v) \subseteq K
      BY <1>1, <1>4 DEF Sets!Of
    <2> QED  BY <1>2, <2>1, OfKept
  <1>5. r \in Seq(Listed)
    BY <1>2, OfKept
  <1> QED  BY <1>3, <1>4, <1>5

LEMMA OfLacking ==
  ASSUME NEW l \in Seq(Listed), NEW e, NEW r, r = Sets!Lacking(l, e)
  PROVE  /\ r \in Seq(Listed)
         /\ AtMost(l, e.who) => AtMost(r, e.who)
         /\ \A x : AllAre(l, e.who, x) => AllAre(r, e.who, x)
         /\ AllAre(l, e.who, e) => Sets!Of(r, e.who) = {}
         /\ \A v : v # e.who => SameOf(l, r, v)
  <1>1. PICK K : K = {k \in DOMAIN l : l[k] # e}
    OBVIOUS
  <1>2. r = Sets!Kept(l, K)
    BY <1>1 DEF Sets!Lacking
  <1>3. \A i \in DOMAIN r : \E k \in DOMAIN l : k \in K /\ r[i] = l[k]
    BY <1>2, KeptFrom
  <1>4. ASSUME NEW v, v # e.who
        PROVE  SameOf(l, r, v)
    <2>1. Sets!Of(l, v) \subseteq K
      BY <1>1, <1>4 DEF Sets!Of
    <2> QED  BY <1>2, <2>1, OfKept
  <1>5. \A x : AllAre(l, e.who, x) => AllAre(r, e.who, x)
    BY <1>3 DEF AllAre, Sets!Of
  <1>6. AllAre(l, e.who, e) => Sets!Of(r, e.who) = {}
    BY <1>1, <1>3 DEF AllAre, Sets!Of
  <1>7. r \in Seq(Listed) /\ (AtMost(l, e.who) => AtMost(r, e.who))
    BY <1>2, OfKept
  <1> QED  BY <1>4, <1>5, <1>6, <1>7

LEMMA OfAppend ==
  ASSUME NEW l \in Seq(Listed), NEW e \in Listed, NEW r, r = Append(l, e)
  PROVE  /\ r \in Seq(Listed)
         /\ Sets!Mentions(r, e.who)
         /\ AtMost(r, e.who) <=> ~Sets!Mentions(l, e.who)
         /\ \A x : AllAre(r, e.who, x) <=> AllAre(l, e.who, x) /\ x = e
         /\ \A v : v # e.who => SameOf(l, r, v)
  <1>1. /\ Len(l) \in Nat /\ DOMAIN l = 1..Len(l) /\ r \in Seq(Listed)
        /\ Len(r) = Len(l) + 1 /\ DOMAIN r = 1..Len(r)
        /\ \A i \in 1..Len(l) : r[i] = l[i]
        /\ r[Len(l) + 1] = e
    BY ListedAt, AppendProperties
  <1>2. PICK n \in Nat : n = Len(l)
    BY <1>1
  <1>3. /\ DOMAIN l = 1..n /\ DOMAIN r = (1..n) \cup {n + 1} /\ n + 1 \notin 1..n
        /\ r[n + 1] = e /\ \A i \in 1..n : r[i] = l[i]
    BY <1>1, <1>2
  <1>4. Sets!Of(r, e.who) = Sets!Of(l, e.who) \cup {n + 1} /\ n + 1 \notin Sets!Of(l, e.who)
    BY <1>3 DEF Sets!Of
  <1>5. Sets!Mentions(r, e.who)
    BY <1>4 DEF Sets!Mentions
  <1>6. AtMost(r, e.who) <=> ~Sets!Mentions(l, e.who)
    BY <1>4 DEF Sets!Mentions, AtMost
  <1>7. \A x : AllAre(r, e.who, x) <=> AllAre(l, e.who, x) /\ x = e
    BY <1>3, <1>4 DEF AllAre, Sets!Of
  <1>8. ASSUME NEW v, v # e.who
        PROVE  SameOf(l, r, v)
    <2>1. Sets!Of(r, v) = Sets!Of(l, v) /\ \A i \in Sets!Of(l, v) : r[i] = l[i]
      BY <1>3, <1>8 DEF Sets!Of
    <2> QED  BY <2>1 DEF SameOf, AtMost, AllAre, Sets!Mentions
  <1> QED  BY <1>1, <1>5, <1>6, <1>7, <1>8

LEMMA OfReplaced ==
  ASSUME NEW l \in Seq(Listed), NEW e, NEW x \in Listed, x.who = e.who,
         NEW r, r = [k \in DOMAIN l |-> IF l[k] = e THEN x ELSE l[k]]
  PROVE  /\ r \in Seq(Listed)
         /\ AtMost(l, e.who) <=> AtMost(r, e.who)
         /\ Sets!Mentions(l, e.who) <=> Sets!Mentions(r, e.who)
         /\ \A v : v # e.who => SameOf(l, r, v)
  <1>1. Len(l) \in Nat /\ DOMAIN l = 1..Len(l) /\ \A i \in 1..Len(l) : l[i] \in Listed
    BY ListedAt
  <1>2. r \in Seq(Listed)
    <2>1. \A i \in 1..Len(l) : (IF l[i] = e THEN x ELSE l[i]) \in Listed
      BY <1>1
    <2> QED  BY <1>1, <2>1, IsASeq
  <1>3. \A v : Sets!Of(r, v) = Sets!Of(l, v)
    BY DEF Sets!Of
  <1>4. AtMost(l, e.who) <=> AtMost(r, e.who)
    BY <1>3 DEF AtMost
  <1>5. Sets!Mentions(l, e.who) <=> Sets!Mentions(r, e.who)
    BY <1>3 DEF Sets!Mentions
  <1>6. ASSUME NEW v, v # e.who
        PROVE  SameOf(l, r, v)
    <2>1. \A i \in Sets!Of(l, v) : r[i] = l[i]
      BY <1>6 DEF Sets!Of
    <2> QED  BY <1>3, <2>1 DEF SameOf, AtMost, AllAre, Sets!Mentions
  <1> QED  BY <1>2, <1>4, <1>5, <1>6

\* The first entry of an actor who is mentioned is one of the list.
LEMMA OfFirst ==
  ASSUME NEW l \in Seq(Listed), NEW w, Sets!Mentions(l, w)
  PROVE  /\ Sets!First(l, w) \in Listed /\ Sets!First(l, w).who = w
         /\ AtMost(l, w) => AllAre(l, w, Sets!First(l, w))
  <1>1. PICK B : B = Sets!Of(l, w)
    OBVIOUS
  <1>2. B \subseteq DOMAIN l /\ B # {} /\ DOMAIN l = 1..Len(l) /\ B \in SUBSET Nat
    BY <1>1, ListedAt DEF Sets!Mentions, Sets!Of
  <1>3. PICK m \in B : \A k \in B : ~(k < m)
    BY <1>2, LeastOf
  <1>4. \A k \in B : m <= k
    BY <1>2, <1>3
  <1>5. PICK i \in B : Sets!Min(B) = i
    BY <1>3, <1>4 DEF Sets!Min
  <1>6. Sets!First(l, w) = l[i]
    BY <1>1, <1>5 DEF Sets!First
  <1>7. l[i].who = w /\ l[i] \in Listed
    BY <1>1, <1>2, <1>5, ListedAt DEF Sets!Of
  <1>8. AtMost(l, w) => AllAre(l, w, l[i])
    BY <1>1, <1>5 DEF AtMost, AllAre
  <1> QED  BY <1>6, <1>7, <1>8

-----------------------------------------------------------------------------
\* Events; what they say about one actor; own reactions are not heard.
Said == [kind : {"added", "removed"}, entry : Listed]
About(ws, w) == {k \in DOMAIN ws : ws[k].entry.who = w}
AboutUpTo(ws, w, n) == {k \in About(ws, w) : k <= n}
Undone(ws, w) == \E k \in About(ws, w) : ws[k].kind = "removed"
Reacts(of) == of # "subscribers"
Deaf(of, w) == Reacts(of) /\ w = "me"

\* The last event about w says what the server has; reactions come and go in turns.
LastWord(of, ws, rw, w) ==
    \A k \in About(ws, w) : (\A j \in About(ws, w) : j <= k) =>
      /\ ws[k].kind = "removed" <=> rw[w] = 0
      /\ Reacts(of) /\ ws[k].kind = "added" => ws[k].entry = Sets!Element(w, rw[w])
UndoneBetween(ws, w, i, j) == \E k \in About(ws, w) : i < k /\ k < j /\ ws[k].kind = "removed"
TakesTurns(ws, w) ==
    \A i \in About(ws, w) : \A j \in About(ws, w) :
      i < j /\ ws[i].kind = "added" /\ ws[j].kind = "added" => UndoneBetween(ws, w, i, j)
WireTells(of, ws, rw) ==
    \A w \in Sets!Who : /\ ~Deaf(of, w) => LastWord(of, ws, rw, w)
                        /\ Reacts(of) /\ ~Deaf(of, w) => TakesTurns(ws, w)

\* The events ws lead from l to the row of w; asked: or an answer will.
Fits(of, l, ws, rw, w, asked) ==
    IF Deaf(of, w) THEN AtMost(l, w) /\ (Sets!Mentions(l, w) <=> rw[w] # 0)
    ELSE \/ Undone(ws, w)
         \/ /\ AtMost(l, w)
            /\ IF About(ws, w) = {} THEN asked \/ (Sets!Mentions(l, w) <=> rw[w] # 0)
               ELSE Reacts(of) => AllAre(l, w, Sets!Element(w, rw[w]))

\* A subscriber may have been asked for.
FitsLoosely(of, l, ws, rw, w) == Fits(of, l, ws, rw, w, ~Reacts(of))

-----------------------------------------------------------------------------
LEMMA SaidAt ==
  ASSUME NEW ws \in Seq(Said)
  PROVE  /\ Len(ws) \in Nat /\ DOMAIN ws = 1..Len(ws)
         /\ \A i \in 1..Len(ws) : /\ ws[i] \in Said /\ ws[i].entry \in Listed
                                  /\ ws[i].entry.who \in Sets!Who
                                  /\ ws[i].kind \in {"added", "removed"}
  <1>1. Len(ws) \in Nat /\ DOMAIN ws = 1..Len(ws) /\ \A i \in 1..Len(ws) : ws[i] \in Said
    BY LenProperties, ElementOfSeq
  <1> QED  BY <1>1 DEF Said, Listed

LEMMA SameIsSame == \A l, w : SameOf(l, l, w)
  BY DEF SameOf

\* What one event does to the entries of one actor.
LEMMA OfHeard ==
  ASSUME NEW l \in Seq(Listed), NEW e \in Said, NEW r, r = Sets!Heard(l, e)
  PROVE  /\ r \in Seq(Listed)
         /\ \A v : v # e.entry.who \/ Deaf(view, v) => SameOf(l, r, v)
         /\ ~Deaf(view, e.entry.who) =>
              /\ e.kind = "removed" => Sets!Of(r, e.entry.who) = {}
              /\ e.kind = "added" =>
                   /\ Sets!Mentions(r, e.entry.who)
                   /\ Reacts(view) =>
                        /\ AtMost(r, e.entry.who) <=>
                              AtMost(l, e.entry.who) /\ AllAre(l, e.entry.who, e.entry)
                        /\ AllAre(l, e.entry.who, e.entry) => AllAre(r, e.entry.who, e.entry)
                   /\ ~Reacts(view) =>
                        (AtMost(r, e.entry.who) <=> AtMost(l, e.entry.who))
  <1>0. e.kind \in {"added", "removed"} /\ e.entry \in Listed
    BY DEF Said
  <1>1. CASE Deaf(view, e.entry.who)
    <2>1. r = l
      BY <1>1 DEF Deaf, Sets!Heard, Sets!Reacting, Reacts, Sets!ReactionHeard
    <2> QED  BY <2>1, <1>1, SameIsSame
  <1>2. CASE ~Deaf(view, e.entry.who) /\ e.kind = "removed"
    <2>1. r = Sets!Without(l, e.entry.who)
      BY <1>2 DEF Deaf, Sets!Heard, Sets!Reacting, Reacts, Sets!ReactionHeard, Sets!SubscriberHeard
    <2>2. r \in Seq(Listed) /\ Sets!Of(r, e.entry.who) = {}
          /\ \A v : v # e.entry.who => SameOf(l, r, v)
      BY <2>1, OfWithout
    <2> QED  BY <2>2, <1>2 DEF Deaf
  <1>3. CASE ~Deaf(view, e.entry.who) /\ e.kind = "added"
    <2>1. CASE Reacts(view) /\ \E k \in DOMAIN l : l[k] = e.entry
      <3>1. r = l
        BY <1>3, <2>1 DEF Deaf, Sets!Heard, Sets!Reacting, Reacts, Sets!ReactionHeard
      <3>2. PICK k \in Sets!Of(l, e.entry.who) : l[k] = e.entry
        BY <2>1 DEF Sets!Of
      <3>3. Sets!Mentions(l, e.entry.who)
        BY <3>2 DEF Sets!Mentions
      <3>4. AtMost(l, e.entry.who) => AllAre(l, e.entry.who, e.entry)
        BY <3>2 DEF AtMost, AllAre
      <3> QED  BY <3>1, <3>3, <3>4, <2>1, <1>3, SameIsSame
    <2>2. CASE Reacts(view) /\ ~\E k \in DOMAIN l : l[k] = e.entry
      <3>1. r = Append(l, e.entry)
        BY <1>3, <2>2 DEF Deaf, Sets!Heard, Sets!Reacting, Reacts, Sets!ReactionHeard
      <3>2. AllAre(l, e.entry.who, e.entry) <=> ~Sets!Mentions(l, e.entry.who)
        BY <2>2 DEF AllAre, Sets!Mentions, Sets!Of
      <3>3. ~Sets!Mentions(l, e.entry.who) => AtMost(l, e.entry.who)
        BY DEF AtMost, Sets!Mentions
      <3>4. /\ r \in Seq(Listed)
            /\ Sets!Mentions(r, e.entry.who)
            /\ AtMost(r, e.entry.who) <=> ~Sets!Mentions(l, e.entry.who)
            /\ \A x : AllAre(r, e.entry.who, x) <=> AllAre(l, e.entry.who, x) /\ x = e.entry
            /\ \A v : v # e.entry.who => SameOf(l, r, v)
        BY <3>1, <1>0, OfAppend
      <3>5. \A v : v # e.entry.who \/ Deaf(view, v) => SameOf(l, r, v)
        BY <3>4, <1>3
      <3> QED  BY <3>2, <3>3, <3>4, <3>5, <2>2, <1>3
    <2>3. CASE ~Reacts(view) /\ Sets!Mentions(l, e.entry.who)
      <3>1. r = l
        BY <1>3, <2>3 DEF Sets!Heard, Sets!Reacting, Reacts, Sets!SubscriberHeard
      <3> QED  BY <3>1, <2>3, <1>3, SameIsSame
    <2>4. CASE ~Reacts(view) /\ ~Sets!Mentions(l, e.entry.who)
      <3>1. r = Append(l, e.entry)
        BY <1>3, <2>4 DEF Sets!Heard, Sets!Reacting, Reacts, Sets!SubscriberHeard
      <3>2. AtMost(l, e.entry.who)
        BY <2>4 DEF AtMost, Sets!Mentions
      <3>3. /\ r \in Seq(Listed)
            /\ Sets!Mentions(r, e.entry.who)
            /\ AtMost(r, e.entry.who) <=> ~Sets!Mentions(l, e.entry.who)
            /\ \A v : v # e.entry.who => SameOf(l, r, v)
        BY <3>1, <1>0, OfAppend
      <3> QED  BY <3>2, <3>3, <2>4, <1>3 DEF Deaf
    <2> QED  BY <2>1, <2>2, <2>3, <2>4
  <1> QED  BY <1>0, <1>1, <1>2, <1>3

\* The lists after each of the first n events.
ToldUpTo(f, l, n) ==
    f = [k \in 0..n |-> IF k = 0 THEN l ELSE Sets!Heard(f[k - 1], wire[k])]

LEMMA ToldExists ==
  ASSUME NEW l, NEW n \in Nat
  PROVE  \E f : ToldUpTo(f, l, n)
  <1>1. PICK B : B = {m \in Nat : ~\E f : ToldUpTo(f, l, m)}
    OBVIOUS
  <1>2. SUFFICES ASSUME n \in B PROVE FALSE
    BY <1>1
  <1>3. PICK m \in B : \A k \in B : ~(k < m)
    BY <1>1, <1>2, LeastOf
  <1>4. m \in Nat /\ ~\E f : ToldUpTo(f, l, m)
    BY <1>1, <1>3
  <1>5. CASE m = 0
    <2>1. ToldUpTo([k \in 0..0 |-> l], l, 0)
      BY DEF ToldUpTo
    <2> QED BY <2>1, <1>4, <1>5
  <1>6. CASE m # 0
    <2>1. m - 1 \in Nat /\ m - 1 \in 0..(m-1) /\ m - 1 < m
      BY <1>4, <1>6
    <2>2. PICK f : ToldUpTo(f, l, m - 1)
      BY <1>1, <1>3, <2>1
    <2>3. PICK g : g = [k \in 0..m |-> IF k = m THEN Sets!Heard(f[m-1], wire[m]) ELSE f[k]]
      OBVIOUS
    <2>4. \A k \in 0..(m-1) : g[k] = f[k]
      BY <1>4, <2>1, <2>3
    <2>5. ASSUME NEW k \in 0..m
          PROVE g[k] = IF k = 0 THEN l ELSE Sets!Heard(g[k-1], wire[k])
      <3>1. CASE k = m
        <4>1. g[m-1] = f[m-1]
          BY <2>1, <2>4
        <4> QED BY <4>1, <2>3, <3>1, <1>4, <1>6
      <3>2. CASE k # m
        <4>1. k \in 0..(m-1)
          BY <1>4, <3>2
        <4>2. f[k] = IF k = 0 THEN l ELSE Sets!Heard(f[k-1], wire[k])
          BY <4>1, <2>2 DEF ToldUpTo
        <4>3. k # 0 => k - 1 \in 0..(m-1)
          BY <4>1, <1>4
        <4> QED BY <4>1, <4>2, <4>3, <2>4
      <3> QED BY <3>1, <3>2
    <2>6. g = [k \in 0..m |-> g[k]]
      BY <2>3
    <2>7. ToldUpTo(g, l, m)
      BY <2>5, <2>6 DEF ToldUpTo
    <2> QED BY <2>7, <1>4
  <1> QED BY <1>5, <1>6

\* What the first n events made of the entries of w in l: the last removal decides, or
\* what was added came on top.
Settled(f, A, w) ==
    /\ AtMost(f, w)
    /\ \A k \in A : (\A j \in A : j <= k) =>
         /\ wire[k].kind = "removed" <=> ~Sets!Mentions(f, w)
         /\ Reacts(view) /\ wire[k].kind = "added" => AllAre(f, w, wire[k].entry)
Topped(l, f, A, w) ==
    /\ Sets!Mentions(f, w)
    /\ ~Reacts(view) => (AtMost(f, w) <=> AtMost(l, w))
    /\ Reacts(view) =>
         \A k \in A : AtMost(f, w) <=> AtMost(l, w) /\ AllAre(l, w, wire[k].entry)
ToldOf(l, f, A, w) ==
    /\ Deaf(view, w) \/ A = {} => SameOf(l, f, w)
    /\ ~Deaf(view, w) /\ (\E k \in A : wire[k].kind = "removed") => Settled(f, A, w)
    /\ ~Deaf(view, w) /\ A # {} /\ (\A k \in A : wire[k].kind = "added") => Topped(l, f, A, w)

LEMMA ToldStep ==
  ASSUME wire \in Seq(Said), NEW w \in Sets!Who,
         Reacts(view) /\ ~Deaf(view, w) => TakesTurns(wire, w),
         NEW l \in Seq(Listed), NEW m \in 1..Len(wire), NEW f \in Seq(Listed),
         NEW A, A = AboutUpTo(wire, w, m - 1), ToldOf(l, f, A, w),
         NEW g, g = Sets!Heard(f, wire[m]), NEW B, B = AboutUpTo(wire, w, m)
  PROVE  g \in Seq(Listed) /\ ToldOf(l, g, B, w)
  <1>1. /\ Len(wire) \in Nat /\ DOMAIN wire = 1..Len(wire) /\ m \in DOMAIN wire
        /\ m \in Nat /\ A \subseteq Nat /\ (\A k \in A : k < m /\ k \in About(wire, w))
        /\ \A k \in DOMAIN wire : k <= m <=> (k <= m - 1 \/ k = m)
    BY SaidAt DEF AboutUpTo, About
  <1>2. PICK e \in Said : e = wire[m]
    BY <1>1, SaidAt
  <1>3. /\ g \in Seq(Listed)
        /\ e.kind \in {"added", "removed"}
        /\ w # e.entry.who \/ Deaf(view, w) => SameOf(f, g, w)
        /\ ~Deaf(view, w) /\ e.entry.who = w =>
              /\ e.kind = "removed" => Sets!Of(g, w) = {}
              /\ e.kind = "added" =>
                   /\ Sets!Mentions(g, w)
                   /\ Reacts(view) =>
                        /\ AtMost(g, w) <=> AtMost(f, w) /\ AllAre(f, w, e.entry)
                        /\ AllAre(f, w, e.entry) => AllAre(g, w, e.entry)
                   /\ ~Reacts(view) => (AtMost(g, w) <=> AtMost(f, w))
    <2>1. g = Sets!Heard(f, e)
      BY <1>2
    <2>2. e.kind \in {"added", "removed"}
      BY DEF Said
    <2> QED  BY <2>1, <2>2, OfHeard
  <1>4. /\ e.entry.who # w => B = A
        /\ e.entry.who = w => B = A \cup {m} /\ m \in About(wire, w)
    BY <1>1, <1>2 DEF AboutUpTo, About
  <1>5. CASE e.entry.who # w \/ Deaf(view, w)
    <2>1. SameOf(f, g, w)
      BY <1>3, <1>5
    <2>2. Deaf(view, w) \/ B = {} => SameOf(l, g, w)
      BY <2>1, <1>4, <1>5 DEF SameOf, ToldOf
    <2>3. CASE ~Deaf(view, w)
      <3>1. B = A
        BY <1>4, <1>5, <2>3
      <3>2. Settled(f, A, w) => Settled(g, A, w)
        BY <2>1 DEF Settled, SameOf
      <3>3. Topped(l, f, A, w) => Topped(l, g, A, w)
        BY <2>1 DEF Topped, SameOf
      <3>4. /\ (\E k \in A : wire[k].kind = "removed") => Settled(g, A, w)
            /\ A # {} /\ (\A k \in A : wire[k].kind = "added") => Topped(l, g, A, w)
        BY <2>3, <3>2, <3>3 DEF ToldOf
      <3> QED  BY <1>3, <2>2, <2>3, <3>1, <3>4 DEF ToldOf
    <2> QED  BY <1>3, <2>2, <2>3 DEF ToldOf
  <1>6. CASE e.entry.who = w /\ ~Deaf(view, w) /\ e.kind = "removed"
    <2>1. Sets!Of(g, w) = {}
      BY <1>3, <1>6
    <2>2. ~Sets!Mentions(g, w) /\ AtMost(g, w)
      BY <2>1 DEF Sets!Mentions, AtMost
    <2>3. \A k \in B : (\A j \in B : j <= k) => k = m
      BY <1>1, <1>4, <1>6
    <2>4. Settled(g, B, w)
      BY <2>2, <2>3, <1>2, <1>6 DEF Settled
    <2>5. m \in B /\ wire[m].kind # "added"
      BY <1>2, <1>4, <1>6
    <2> QED  BY <1>3, <1>6, <2>4, <2>5 DEF ToldOf
  <1>7. CASE e.entry.who = w /\ ~Deaf(view, w) /\ e.kind = "added" /\ A = {}
    <2>1. SameOf(l, f, w)
      BY <1>7 DEF ToldOf
    <2>2. B = {m} /\ wire[m] = e
      BY <1>2, <1>4, <1>7
    <2>3. Topped(l, g, B, w)
      BY <1>3, <1>7, <2>1, <2>2 DEF Topped, SameOf
    <2> QED  BY <1>3, <1>7, <2>2, <2>3 DEF ToldOf
  <1>8. CASE e.entry.who = w /\ ~Deaf(view, w) /\ e.kind = "added" /\ A # {} /\ ~Reacts(view)
    <2>1. \A k \in B : (\A j \in B : j <= k) => k = m
      BY <1>1, <1>4, <1>8
    <2>2. Sets!Mentions(g, w) /\ (AtMost(g, w) <=> AtMost(f, w))
      BY <1>3, <1>8
    <2>3. Settled(f, A, w) => Settled(g, B, w)
      BY <2>1, <2>2, <1>2, <1>8 DEF Settled
    <2>4. Topped(l, f, A, w) => Topped(l, g, B, w)
      BY <2>2, <1>8 DEF Topped
    <2>5. /\ (\E k \in B : wire[k].kind = "removed") => \E k \in A : wire[k].kind = "removed"
          /\ (\A k \in B : wire[k].kind = "added") => \A k \in A : wire[k].kind = "added"
      BY <1>2, <1>4, <1>8
    <2> QED  BY <1>3, <1>4, <1>8, <2>3, <2>4, <2>5 DEF ToldOf
  <1>9. CASE e.entry.who = w /\ ~Deaf(view, w) /\ e.kind = "added" /\ A # {} /\ Reacts(view)
    <2>1. \A k \in B : (\A j \in B : j <= k) => k = m
      BY <1>1, <1>4, <1>9
    <2>2. \A k \in A : wire[k].kind = "added" => \E j \in A : k < j /\ wire[j].kind = "removed"
      <3> SUFFICES ASSUME NEW k \in A, wire[k].kind = "added"
                   PROVE  \E j \in A : k < j /\ wire[j].kind = "removed"
        OBVIOUS
      <3>1. k \in About(wire, w) /\ m \in About(wire, w) /\ k < m /\ wire[m].kind = "added"
        BY <1>1, <1>2, <1>4, <1>9
      <3>2. PICK j \in About(wire, w) : k < j /\ j < m /\ wire[j].kind = "removed"
        BY <3>1, <1>9 DEF TakesTurns, UndoneBetween
      <3>3. j \in A
        <4>1. j \in DOMAIN wire /\ j \in Nat
          BY <1>1 DEF About
        <4> QED  BY <4>1, <3>2, <1>1 DEF AboutUpTo
      <3> QED  BY <3>2, <3>3
    <2>3. PICK j \in A : wire[j].kind = "removed"
      <3>1. PICK k \in A : TRUE
        BY <1>9
      <3>2. wire[k].kind \in {"added", "removed"}
        BY <3>1, <1>1, SaidAt DEF About
      <3> QED  BY <3>1, <3>2, <2>2
    <2>4. Settled(f, A, w)
      BY <2>3, <1>9 DEF ToldOf
    <2>5. PICK k \in A : \A i \in A : i <= k
      <3>1. A \in SUBSET Nat /\ A # {} /\ \A i \in A : i <= m
        BY <1>1, <1>9
      <3> QED  BY <1>1, <3>1, GreatestOf
    <2>6. wire[k].kind = "removed"
      <3>1. wire[k].kind # "added"
        BY <2>2, <2>5, <1>1
      <3> QED  BY <3>1, <2>5, <1>1, SaidAt DEF About
    <2>7. ~Sets!Mentions(f, w)
      BY <2>4, <2>5, <2>6 DEF Settled
    <2>8. AtMost(f, w) /\ AllAre(f, w, e.entry)
      BY <2>7 DEF Sets!Mentions, AtMost, AllAre
    <2>9. AtMost(g, w) /\ AllAre(g, w, e.entry) /\ Sets!Mentions(g, w)
      BY <2>8, <1>3, <1>9
    <2>10. Settled(g, B, w)
      BY <2>1, <2>9, <1>2, <1>9 DEF Settled
    <2>11. j \in B /\ wire[j].kind # "added"
      BY <1>4, <1>9, <2>3
    <2> QED  BY <1>3, <1>9, <2>10, <2>11 DEF ToldOf
  <1> QED  BY <1>3, <1>5, <1>6, <1>7, <1>8, <1>9

LEMMA ToldOfAll ==
  ASSUME wire \in Seq(Said), NEW w \in Sets!Who,
         Reacts(view) /\ ~Deaf(view, w) => TakesTurns(wire, w),
         NEW l \in Seq(Listed)
  PROVE  ToldOf(l, Sets!Told(l), About(wire, w), w)
  <1>0. PICK n \in Nat : n = Len(wire)
    BY LenProperties
  <1>1. PICK f : ToldUpTo(f, l, n) /\ Sets!Told(l) = f[n]
    <2>1. PICK f : f = CHOOSE g : ToldUpTo(g, l, n)
      OBVIOUS
    <2>2. ToldUpTo(f, l, n)
      BY <2>1, ToldExists
    <2>3. Sets!Told(l) = f[n]
      BY <2>1, <1>0 DEF Sets!Told, ToldUpTo
    <2> QED  BY <2>2, <2>3
  <1>2. PICK B : B = {m \in 0..n : ~(/\ f[m] \in Seq(Listed)
                                     /\ ToldOf(l, f[m], AboutUpTo(wire, w, m), w))}
    OBVIOUS
  <1>3. ASSUME B # {}
        PROVE  FALSE
    <2>1. B \in SUBSET Nat
      BY <1>2
    <2>2. PICK m \in B : \A k \in B : ~(k < m)
      BY <2>1, <1>3, LeastOf
    <2>3. m \in 0..n /\ ~(f[m] \in Seq(Listed) /\ ToldOf(l, f[m], AboutUpTo(wire, w, m), w))
      BY <1>2, <2>2
    <2>4. f[m] = IF m = 0 THEN l ELSE Sets!Heard(f[m-1], wire[m])
      BY <1>1, <2>3 DEF ToldUpTo
    <2>5. CASE m = 0
      <3>1. AboutUpTo(wire, w, 0) = {}
        BY SaidAt DEF AboutUpTo, About
      <3>2. ToldOf(l, l, {}, w)
        BY SameIsSame DEF ToldOf
      <3> QED  BY <3>1, <3>2, <2>3, <2>4, <2>5
    <2>6. CASE m # 0
      <3>1. m - 1 \in 0..n /\ m - 1 < m /\ m \in 1..Len(wire)
        BY <1>0, <2>3, <2>6
      <3>2. m - 1 \notin B
        BY <2>2, <3>1
      <3>3. PICK g : g = f[m-1] /\ g \in Seq(Listed) /\ ToldOf(l, g, AboutUpTo(wire, w, m - 1), w)
        BY <1>2, <3>1, <3>2
      <3>4. f[m] = Sets!Heard(g, wire[m])
        BY <2>4, <2>6, <3>3
      <3>5. f[m] \in Seq(Listed) /\ ToldOf(l, f[m], AboutUpTo(wire, w, m), w)
        BY <3>1, <3>3, <3>4, ToldStep
      <3> QED  BY <3>5, <2>3
    <2> QED  BY <2>5, <2>6
  <1>4. ToldOf(l, f[n], AboutUpTo(wire, w, n), w)
    BY <1>2, <1>3, <1>0
  <1>5. AboutUpTo(wire, w, n) = About(wire, w)
    BY <1>0, SaidAt DEF AboutUpTo, About
  <1> QED  BY <1>1, <1>4, <1>5

\* Something said about w has a last word.
LEMMA LastAbout ==
  ASSUME NEW ws \in Seq(Said), NEW w, About(ws, w) # {}
  PROVE  \E k \in About(ws, w) : \A j \in About(ws, w) : j <= k
  <1>1. PICK A, n : A = About(ws, w) /\ n = Len(ws)
    OBVIOUS
  <1>2. A \in SUBSET Nat /\ n \in Nat /\ \A i \in A : i <= n
    BY <1>1, SaidAt DEF About
  <1> QED  BY <1>1, <1>2, GreatestOf

LEMMA AgreesFits ==
  ASSUME wire \in Seq(Said), WireTells(view, wire, row), NEW l \in Seq(Listed)
  PROVE  Sets!Agrees(l) <=> \A w \in Sets!Who : Fits(view, l, wire, row, w, FALSE)
  <1>1. PICK f : f = Sets!Told(l)
    OBVIOUS
  <1>2. ASSUME NEW w \in Sets!Who
        PROVE  (IF row[w] # 0 THEN Sets!Once(f, w) ELSE ~Sets!Mentions(f, w))
               <=> Fits(view, l, wire, row, w, FALSE)
    <2>1. PICK A : A = About(wire, w)
      OBVIOUS
    <2>2. ToldOf(l, f, A, w)
      BY <1>1, <2>1, ToldOfAll DEF WireTells
    <2>3. Sets!Once(f, w) <=> AtMost(f, w) /\ Sets!Mentions(f, w)
      BY DEF Sets!Once, AtMost, Sets!Mentions, Sets!Of
    <2>4. ~Sets!Mentions(f, w) => AtMost(f, w)
      BY DEF AtMost, Sets!Mentions
    <2>5. CASE Deaf(view, w)
      BY <2>2, <2>3, <2>4, <2>5 DEF ToldOf, SameOf, Fits
    <2>6. CASE ~Deaf(view, w) /\ A = {}
      <3>1. SameOf(l, f, w) /\ ~Undone(wire, w)
        BY <2>1, <2>2, <2>6 DEF ToldOf, Undone
      <3> QED  BY <2>1, <2>3, <2>4, <2>6, <3>1 DEF SameOf, Fits
    <2>7. CASE ~Deaf(view, w) /\ A # {}
      <3>1. PICK k \in A : \A j \in A : j <= k
        BY <2>1, <2>7, LastAbout
      <3>2. /\ wire[k].kind = "removed" <=> row[w] = 0
            /\ Reacts(view) /\ wire[k].kind = "added" => wire[k].entry = Sets!Element(w, row[w])
        BY <2>1, <2>7, <3>1 DEF WireTells, LastWord
      <3>3. \A j \in A : wire[j].kind \in {"added", "removed"}
        BY <2>1, SaidAt DEF About
      <3>4. CASE Undone(wire, w)
        <4>1. Settled(f, A, w)
          BY <2>1, <2>2, <2>7, <3>4 DEF ToldOf, Undone
        <4> QED  BY <4>1, <2>3, <2>7, <3>1, <3>2, <3>4 DEF Settled, Fits
      <3>5. CASE ~Undone(wire, w)
        <4>1. \A j \in A : wire[j].kind = "added"
          BY <2>1, <3>3, <3>5 DEF Undone
        <4>2. Topped(l, f, A, w) /\ row[w] # 0
          BY <2>2, <2>7, <3>1, <3>2, <4>1 DEF ToldOf
        <4>3. Sets!Once(f, w) <=> AtMost(f, w)
          BY <2>3, <4>2 DEF Topped
        <4>4. Reacts(view) =>
                (AtMost(f, w) <=> AtMost(l, w) /\ AllAre(l, w, Sets!Element(w, row[w])))
          BY <3>1, <3>2, <4>1, <4>2 DEF Topped
        <4>5. ~Reacts(view) => (AtMost(f, w) <=> AtMost(l, w))
          BY <4>2 DEF Topped
        <4> QED  BY <2>1, <2>7, <3>5, <4>2, <4>3, <4>4, <4>5 DEF Fits
      <3> QED  BY <3>4, <3>5
    <2> QED  BY <2>5, <2>6, <2>7
  <1> QED  BY <1>1, <1>2 DEF Sets!Agrees

-----------------------------------------------------------------------------
\* A change at the server and the event e that tells it.
TellsRow(ws, rw, w, e, xs, new) ==
    /\ ws \in Seq(Said) /\ WireTells(view, ws, rw)
    /\ w \in Sets!Who /\ e \in Said /\ e.entry.who = w /\ xs = Append(ws, e)
    /\ \A v \in Sets!Who : v # w => new[v] = rw[v]
    /\ e.kind = "removed" <=> new[w] = 0
    /\ Reacts(view) /\ ~Deaf(view, w) /\ e.kind = "added" =>
         e.entry = Sets!Element(w, new[w]) /\ rw[w] = 0

LEMMA Published ==
  ASSUME NEW ws, NEW rw, NEW w, NEW e, NEW xs, NEW new, TellsRow(ws, rw, w, e, xs, new)
  PROVE  /\ xs \in Seq(Said)
         /\ WireTells(view, xs, new)
         /\ \A l, a : \A v \in Sets!Who :
              v # w /\ Fits(view, l, ws, rw, v, a) => Fits(view, l, xs, new, v, a)
         /\ \A l : ~Deaf(view, w) /\ FitsLoosely(view, l, ws, rw, w) =>
                   Fits(view, l, xs, new, w, FALSE)
  <1> USE DEF TellsRow
  <1>1. /\ Len(ws) \in Nat /\ DOMAIN ws = 1..Len(ws) /\ xs \in Seq(Said)
        /\ Len(xs) = Len(ws) + 1 /\ DOMAIN xs = 1..Len(xs)
        /\ \A i \in 1..Len(ws) : xs[i] = ws[i]
        /\ xs[Len(ws) + 1] = e
    BY SaidAt, AppendProperties
  <1>2. PICK n \in Nat : n = Len(ws)
    BY <1>1
  <1>3. /\ DOMAIN ws = 1..n /\ DOMAIN xs = (1..n) \cup {n + 1} /\ n + 1 \notin 1..n
        /\ xs[n + 1] = e /\ \A i \in 1..n : xs[i] = ws[i] /\ i < n + 1
    BY <1>1, <1>2
  <1>4. /\ About(xs, w) = About(ws, w) \cup {n + 1}
        /\ \A v : v # w => About(xs, v) = About(ws, v)
        /\ \A v : About(ws, v) \subseteq 1..n
    BY <1>3 DEF About
  <1>5. e.kind \in {"added", "removed"}
    BY DEF Said
  <1>6. ASSUME NEW v \in Sets!Who, v # w
        PROVE  /\ LastWord(view, ws, rw, v) => LastWord(view, xs, new, v)
               /\ TakesTurns(ws, v) => TakesTurns(xs, v)
               /\ Undone(xs, v) <=> Undone(ws, v)
               /\ About(xs, v) = About(ws, v)
    <2>1. \A k \in About(ws, v) : xs[k] = ws[k]
      BY <1>3, <1>4
    <2>2. LastWord(view, ws, rw, v) => LastWord(view, xs, new, v)
      BY <2>1, <1>4, <1>6 DEF LastWord
    <2>3. TakesTurns(ws, v) => TakesTurns(xs, v)
      <3>1. \A i, j : UndoneBetween(ws, v, i, j) => UndoneBetween(xs, v, i, j)
        BY <2>1, <1>4, <1>6 DEF UndoneBetween
      <3> QED  BY <3>1, <2>1, <1>4, <1>6 DEF TakesTurns
    <2>4. Undone(xs, v) <=> Undone(ws, v)
      BY <2>1, <1>4, <1>6 DEF Undone
    <2> QED  BY <2>2, <2>3, <2>4, <1>4, <1>6
  <1>7. ~Deaf(view, w) => LastWord(view, xs, new, w)
    <2> SUFFICES ASSUME ~Deaf(view, w), NEW k \in About(xs, w), \A j \in About(xs, w) : j <= k
                 PROVE  /\ xs[k].kind = "removed" <=> new[w] = 0
                        /\ Reacts(view) /\ xs[k].kind = "added" =>
                             xs[k].entry = Sets!Element(w, new[w])
      BY DEF LastWord
    <2>1. n + 1 <= k /\ (k \in 1..n \/ k = n + 1)
      BY <1>4
    <2>2. k = n + 1
      BY <2>1
    <2> QED  BY <2>2, <1>3
  <1>8. Reacts(view) /\ ~Deaf(view, w) => TakesTurns(xs, w)
    <2> SUFFICES ASSUME Reacts(view), ~Deaf(view, w), NEW i \in About(xs, w), NEW j \in About(xs, w),
                        i < j, xs[i].kind = "added", xs[j].kind = "added"
                 PROVE  UndoneBetween(xs, w, i, j)
      BY DEF TakesTurns
    <2>1. /\ i \in About(ws, w) \/ i = n + 1
          /\ j \in About(ws, w) \/ j = n + 1
          /\ \A k \in About(ws, w) : k \in Nat /\ k <= n /\ k < n + 1 /\ xs[k] = ws[k]
      BY <1>3, <1>4
    <2>2. i \in About(ws, w)
      BY <2>1
    <2>3. CASE j \in About(ws, w)
      <3>1. TakesTurns(ws, w)
        BY DEF WireTells
      <3>2. UndoneBetween(ws, w, i, j)
        BY <2>1, <2>2, <2>3, <3>1 DEF TakesTurns
      <3>3. PICK k \in About(ws, w) : i < k /\ k < j /\ ws[k].kind = "removed"
        BY <3>2 DEF UndoneBetween
      <3> QED  BY <3>3, <2>1, <1>4 DEF UndoneBetween
    <2>4. CASE j = n + 1
      <3>1. rw[w] = 0
        BY <2>4, <1>3
      <3>2. PICK k \in About(ws, w) : \A m \in About(ws, w) : m <= k
        BY <2>2, LastAbout
      <3>3. ws[k].kind = "removed"
        BY <3>1, <3>2 DEF WireTells, LastWord
      <3>4. i # k
        BY <2>1, <2>2, <3>3
      <3>5. i < k
        BY <2>1, <2>2, <3>2, <3>4
      <3> QED  BY <3>2, <3>3, <3>5, <2>1, <2>4, <1>4 DEF UndoneBetween
    <2> QED  BY <2>1, <2>3, <2>4
  <1>9. WireTells(view, xs, new)
    BY <1>6, <1>7, <1>8 DEF WireTells
  <1>10. ASSUME NEW l, NEW a, NEW v \in Sets!Who, v # w, Fits(view, l, ws, rw, v, a)
         PROVE  Fits(view, l, xs, new, v, a)
    <2>1. /\ Undone(xs, v) <=> Undone(ws, v)
          /\ About(xs, v) = About(ws, v) /\ new[v] = rw[v]
      BY <1>6, <1>10
    <2> QED  BY <2>1, <1>10 DEF Fits
  <1>11. ASSUME NEW l, ~Deaf(view, w), FitsLoosely(view, l, ws, rw, w)
         PROVE  Fits(view, l, xs, new, w, FALSE)
    <2> USE DEF FitsLoosely
    <2>0. n + 1 \in About(xs, w) /\ (Undone(ws, w) => Undone(xs, w))
      BY <1>3, <1>4 DEF Undone
    <2>1. CASE e.kind = "removed"
      <3>1. Undone(xs, w)
        BY <2>0, <2>1, <1>3 DEF Undone
      <3> QED  BY <3>1, <1>11 DEF Fits
    <2>2. CASE e.kind = "added"
      <3>1. CASE Reacts(view) /\ ~Undone(ws, w)
        <4>1. rw[w] = 0 /\ AtMost(l, w)
          BY <1>11, <2>2, <3>1 DEF Fits
        <4>2. About(ws, w) = {}
          <5>1. ASSUME About(ws, w) # {}
                PROVE  FALSE
            <6>1. PICK k \in About(ws, w) : \A m \in About(ws, w) : m <= k
              BY <5>1, LastAbout
            <6>2. ws[k].kind = "removed"
              BY <4>1, <6>1, <1>11 DEF WireTells, LastWord
            <6> QED  BY <6>2, <3>1 DEF Undone
          <5> QED  BY <5>1
        <4>3. ~Sets!Mentions(l, w)
          BY <4>1, <4>2, <1>11, <3>1 DEF Fits
        <4>4. AllAre(l, w, Sets!Element(w, new[w]))
          BY <4>3 DEF AllAre, Sets!Mentions
        <4> QED  BY <4>1, <4>4, <2>0, <1>11 DEF Fits
      <3>2. CASE ~Reacts(view) /\ ~Undone(ws, w)
        BY <1>11, <2>0, <3>2 DEF Fits
      <3>3. CASE Undone(ws, w)
        BY <1>11, <2>0, <3>3 DEF Fits
      <3> QED  BY <3>1, <3>2, <3>3
    <2> QED  BY <2>1, <2>2, <1>5
  <1>12. \A l, a : \A v \in Sets!Who :
           v # w /\ Fits(view, l, ws, rw, v, a) => Fits(view, l, xs, new, v, a)
    BY <1>10
  <1>13. \A l : ~Deaf(view, w) /\ FitsLoosely(view, l, ws, rw, w) =>
                  Fits(view, l, xs, new, w, FALSE)
    BY <1>11
  <1> QED  BY <1>1, <1>9, <1>12, <1>13

\* The first event of the wire is heard.
LEMMA Delivered ==
  ASSUME NEW ws \in Seq(Said), ws # <<>>, NEW rw, WireTells(view, ws, rw),
         NEW xs, xs = Tail(ws), NEW l \in Seq(Listed), NEW r, r = Sets!Heard(l, Head(ws))
  PROVE  /\ xs \in Seq(Said) /\ r \in Seq(Listed)
         /\ WireTells(view, xs, rw)
         /\ \A w : Deaf(view, w) => SameOf(l, r, w)
         /\ \A a : \A w \in Sets!Who :
              ~Deaf(view, w) /\ Fits(view, l, ws, rw, w, a) => Fits(view, r, xs, rw, w, a)
  <1>1. PICK e : e = Head(ws)
    OBVIOUS
  <1>2. /\ e \in Said /\ xs \in Seq(Said) /\ Len(xs) = Len(ws) - 1
        /\ \A i \in 1..Len(xs) : xs[i] = ws[i + 1]
    BY <1>1, HeadTailProperties
  <1>3. PICK n \in Nat : n = Len(xs)
    BY <1>2, SaidAt
  <1>4. /\ DOMAIN xs = 1..n /\ DOMAIN ws = 1..(n + 1) /\ ws[1] = e
        /\ \A i \in 1..n : xs[i] = ws[i + 1]
    BY <1>1, <1>2, <1>3, SaidAt
  <1>5. /\ \A v : \A k \in About(xs, v) : k \in 1..n /\ k + 1 \in About(ws, v)
        /\ \A v : \A k \in About(ws, v) :
             k \in 1..(n + 1) /\ (k = 1 \/ (k - 1 \in About(xs, v) /\ ws[k] = xs[k - 1]))
        /\ \A v : 1 \in About(ws, v) <=> e.entry.who = v
    <2>1. \A k \in 1..n : k + 1 \in 1..(n + 1)
      OBVIOUS
    <2>2. \A k \in 1..(n + 1) : k = 1 \/ (k - 1 \in 1..n /\ (k - 1) + 1 = k)
      OBVIOUS
    <2>3. 1 \in 1..(n + 1)
      OBVIOUS
    <2> QED  BY <2>1, <2>2, <2>3, <1>4 DEF About
  <1>6. ASSUME NEW v, LastWord(view, ws, rw, v)
        PROVE  LastWord(view, xs, rw, v)
    <2> SUFFICES ASSUME NEW k \in About(xs, v), \A j \in About(xs, v) : j <= k
                 PROVE  /\ xs[k].kind = "removed" <=> rw[v] = 0
                        /\ Reacts(view) /\ xs[k].kind = "added" =>
                              xs[k].entry = Sets!Element(v, rw[v])
      BY DEF LastWord
    <2>1. k + 1 \in About(ws, v) /\ xs[k] = ws[k + 1] /\ k \in 1..n
      BY <1>4, <1>5
    <2>2. \A j \in About(ws, v) : j <= k + 1
      <3> TAKE j \in About(ws, v)
      <3>1. j \in 1..(n + 1) /\ (j = 1 \/ j - 1 <= k)
        BY <1>5
      <3> QED  BY <3>1, <2>1
    <2> QED  BY <2>1, <2>2, <1>6 DEF LastWord
  <1>7. ASSUME NEW v, TakesTurns(ws, v)
        PROVE  TakesTurns(xs, v)
    <2> SUFFICES ASSUME NEW i \in About(xs, v), NEW j \in About(xs, v),
                        i < j, xs[i].kind = "added", xs[j].kind = "added"
                 PROVE  UndoneBetween(xs, v, i, j)
      BY DEF TakesTurns
    <2>1. /\ i + 1 \in About(ws, v) /\ j + 1 \in About(ws, v) /\ i \in 1..n /\ j \in 1..n
          /\ xs[i] = ws[i + 1] /\ xs[j] = ws[j + 1]
      BY <1>4, <1>5
    <2>2. i + 1 < j + 1
      BY <2>1
    <2>0. UndoneBetween(ws, v, i + 1, j + 1)
      BY <2>1, <2>2, <1>7 DEF TakesTurns
    <2>3. PICK k \in About(ws, v) : i + 1 < k /\ k < j + 1 /\ ws[k].kind = "removed"
      BY <2>0 DEF UndoneBetween
    <2>4. k \in 1..(n + 1) /\ (k = 1 \/ (k - 1 \in About(xs, v) /\ ws[k] = xs[k - 1]))
      BY <1>5
    <2>5. k # 1 /\ i < k - 1 /\ k - 1 < j
      BY <2>1, <2>3, <2>4
    <2> QED  BY <2>3, <2>4, <2>5 DEF UndoneBetween
  <1>8. WireTells(view, xs, rw)
    BY <1>6, <1>7 DEF WireTells
  <1>9. /\ r \in Seq(Listed) /\ e.kind \in {"added", "removed"}
        /\ \A v : v # e.entry.who \/ Deaf(view, v) => SameOf(l, r, v)
        /\ ~Deaf(view, e.entry.who) =>
              /\ e.kind = "removed" => Sets!Of(r, e.entry.who) = {}
              /\ e.kind = "added" =>
                   /\ Sets!Mentions(r, e.entry.who)
                   /\ Reacts(view) =>
                        /\ AtMost(r, e.entry.who) <=>
                              AtMost(l, e.entry.who) /\ AllAre(l, e.entry.who, e.entry)
                        /\ AllAre(l, e.entry.who, e.entry) => AllAre(r, e.entry.who, e.entry)
                   /\ ~Reacts(view) =>
                        (AtMost(r, e.entry.who) <=> AtMost(l, e.entry.who))
    <2>1. e.kind \in {"added", "removed"}
      BY <1>2 DEF Said
    <2> QED  BY <2>1, <1>1, <1>2, OfHeard
  <1>10. ASSUME NEW a, NEW w \in Sets!Who, ~Deaf(view, w), Fits(view, l, ws, rw, w, a)
         PROVE  Fits(view, r, xs, rw, w, a)
    <2>1. CASE e.entry.who # w
      <3>1. SameOf(l, r, w)
        BY <2>1, <1>9
      <3>2. Undone(ws, w) => Undone(xs, w)
        BY <2>1, <1>5 DEF Undone
      <3>3. About(xs, w) = {} <=> About(ws, w) = {}
        BY <2>1, <1>5
      <3> QED  BY <3>1, <3>2, <3>3, <1>10 DEF Fits, SameOf
    <2>2. CASE e.entry.who = w /\ e.kind = "removed"
      <3>1. Sets!Of(r, w) = {}
        BY <2>2, <1>9, <1>10
      <3>2. AtMost(r, w) /\ ~Sets!Mentions(r, w) /\ AllAre(r, w, Sets!Element(w, rw[w]))
        BY <3>1 DEF AtMost, Sets!Mentions, AllAre
      <3>3. About(xs, w) = {} => rw[w] = 0
        <4> SUFFICES ASSUME About(xs, w) = {} PROVE rw[w] = 0
          OBVIOUS
        <4>1. 1 \in About(ws, w) /\ (\A j \in About(ws, w) : j <= 1) /\ ws[1].kind = "removed"
          BY <2>2, <1>4, <1>5
        <4> QED  BY <4>1, <1>10 DEF WireTells, LastWord
      <3> QED  BY <3>2, <3>3, <1>10 DEF Fits
    <2>3. CASE e.entry.who = w /\ e.kind = "added" /\ Undone(ws, w)
      <3>1. PICK k \in About(ws, w) : ws[k].kind = "removed"
        BY <2>3 DEF Undone
      <3>2. k # 1
        BY <3>1, <2>3, <1>4
      <3>3. Undone(xs, w)
        BY <3>1, <3>2, <1>5 DEF Undone
      <3> QED  BY <3>3, <1>10 DEF Fits
    <2>4. CASE e.entry.who = w /\ e.kind = "added" /\ ~Undone(ws, w)
      <3>1. 1 \in About(ws, w) /\ ws[1].kind = "added"
        BY <2>4, <1>4, <1>5
      <3>2. AtMost(l, w) /\ (Reacts(view) => AllAre(l, w, Sets!Element(w, rw[w])))
        BY <2>4, <3>1, <1>10 DEF Fits
      <3>3. Reacts(view) => About(xs, w) = {}
        <4> SUFFICES ASSUME Reacts(view), NEW k \in About(xs, w)
                     PROVE  FALSE
          OBVIOUS
        <4>1. k + 1 \in About(ws, w) /\ k \in 1..n
          BY <1>5
        <4>2. ws[k + 1].kind = "added"
          BY <4>1, <2>4, SaidAt DEF Undone, About
        <4>3. 1 < k + 1 /\ TakesTurns(ws, w)
          BY <4>1, <1>10 DEF WireTells
        <4> QED  BY <4>1, <4>2, <4>3, <3>1, <2>4 DEF TakesTurns, UndoneBetween, Undone
      <3>4. About(xs, w) = {} =>
              rw[w] # 0 /\ (Reacts(view) => e.entry = Sets!Element(w, rw[w]))
        <4> SUFFICES ASSUME About(xs, w) = {}
                     PROVE  rw[w] # 0 /\ (Reacts(view) => e.entry = Sets!Element(w, rw[w]))
          OBVIOUS
        <4>1. \A j \in About(ws, w) : j <= 1
          BY <1>5
        <4> QED  BY <4>1, <3>1, <1>4, <1>10 DEF WireTells, LastWord
      <3>5. AtMost(r, w) /\ Sets!Mentions(r, w)
        BY <2>4, <3>2, <3>3, <3>4, <1>9, <1>10
      <3> QED  BY <3>3, <3>4, <3>5, <1>10 DEF Fits
    <2> QED  BY <2>1, <2>2, <2>3, <2>4, <1>9
  <1> QED  BY <1>2, <1>8, <1>9, <1>10

-----------------------------------------------------------------------------
Toggling(r) == r.kind \in {"add", "remove"}

SetsCall(of, r) ==
    /\ r = [kind |-> r.kind, status |-> r.status, entry |-> r.entry, rows |-> r.rows,
            before |-> r.before]
    /\ r.entry \in Listed /\ r.rows \in Seq(Listed)
    /\ Reacts(of) /\ Toggling(r) => r.entry.who = "me"
    /\ r.kind = "add" /\ r.status = "ok" => r.rows[1] \in Listed /\ r.rows[1].who = r.entry.who

SetsCalls(of, c) == c = [n \in SSlots |-> c[n]] /\ \A n \in SSlots : SetsCall(of, c[n])

SetsRows(rw) == rw = [w \in Sets!Who |-> rw[w]] /\ \A w \in Sets!Who : rw[w] \in Nat

SetsShape ==
    /\ store \in Seq(Listed) /\ wire \in Seq(Said) /\ SetsRows(row) /\ part2 \in Nat
    /\ SetsCalls(view, call) /\ part1 \in BOOLEAN /\ part3 \in BOOLEAN
    /\ WireTells(view, wire, row)

\* A toggle of w may still be answered without an event.
Asked(c, w) ==
    \E m \in SSlots : Toggling(c[m]) /\ c[m].entry.who = w /\ c[m].status \in {"sent", "error"}

\* The own toggles that the server has not answered, and those that it refused.
Sent(c) == {m \in SSlots : Toggling(c[m]) /\ c[m].status = "sent"}
Refused(c) == \E m \in SSlots : Toggling(c[m]) /\ c[m].status = "error"

\* The own reaction is shown as the last toggle wants it; without one, as it is.
MineFits(l, c, rw) ==
    /\ AtMost(l, "me")
    /\ \/ Refused(c)
       \/ Sent(c) = {} /\ (Sets!Mentions(l, "me") <=> rw["me"] # 0)
       \/ \E m \in Sent(c) : /\ Sent(c) \ {m} \subseteq c[m].before
                             /\ c[m].kind = "add" <=> Sets!Mentions(l, "me")

ListFits(of, l, c, ws, rw) ==
    \A w \in Sets!Who : IF Deaf(of, w) THEN MineFits(l, c, rw)
                        ELSE Fits(of, l, ws, rw, w, Asked(c, w))

SetsInv ==
    /\ SetsShape
    /\ part1 => \E n \in SSlots : call[n].kind = "fetch"
    /\ ~part1 /\ ~part3 => ListFits(view, store, call, wire, row)

-----------------------------------------------------------------------------
LEMMA SetsInit ==
  ASSUME Sets!Init, 1 \in SSlots
  PROVE  SetsInv
  <1> USE DEF SSlots
  <1>1. store = <<>> /\ wire = <<>> /\ part1 = TRUE /\ part3 = FALSE /\ part2 = 2
    BY DEF Sets!Init
  <1>2. <<>> \in Seq(Listed) /\ <<>> \in Seq(Said) /\ Len(<<>>) = 0
    BY EmptySeq
  <1>3. SetsRows(row)
    BY DEF Sets!Init, SetsRows, Sets!Who
  <1>4. WireTells(view, <<>>, row)
    <2>1. \A w : About(<<>>, w) = {}
      BY <1>2, SaidAt DEF About
    <2> QED  BY <2>1 DEF WireTells, LastWord, TakesTurns
  <1>5. Sets!Element("me", 0) \in Listed
    BY DEF Sets!Element, Listed, Sets!Who
  <1>6. PICK i, f : /\ i = Sets!Idle
                    /\ f = [Sets!Idle EXCEPT !.kind = "fetch", !.status = "sent"]
                    /\ call = [n \in SSlots |-> IF n = 1 THEN f ELSE i]
    BY DEF Sets!Init
  <1>7. SetsCall(view, i) /\ SetsCall(view, f) /\ f.kind = "fetch"
    BY <1>2, <1>5, <1>6 DEF Sets!Idle, SetsCall, Toggling
  <1>8. SetsCalls(view, call) /\ call[1].kind = "fetch"
    BY <1>6, <1>7 DEF SetsCalls
  <1> QED  BY <1>1, <1>2, <1>3, <1>4, <1>8 DEF SetsInv, SetsShape

-----------------------------------------------------------------------------
(* Requests.                                                               *)

LEMMA SetsRequest ==
  ASSUME NEW k, NEW e \in Listed, Reacts(view) /\ k \in {"add", "remove"} => e.who = "me",
         NEW r, r = Sets!Request(k, e)
  PROVE  /\ SetsCall(view, r) /\ r.kind = k /\ r.status = "sent" /\ r.entry = e
         /\ r.before = {m \in SSlots : Toggling(call[m]) /\ call[m].entry.who = e.who}
  <1>1. PICK b : b = {m \in SSlots : Toggling(call[m]) /\ call[m].entry.who = e.who}
    OBVIOUS
  <1>2. r = [kind |-> k, status |-> "sent", entry |-> e, rows |-> <<>>, before |-> b]
    BY <1>1 DEF Sets!Request, Sets!Idle, SSlots, Toggling
  <1>3. <<>> \in Seq(Listed)
    BY EmptySeq
  <1> QED  BY <1>1, <1>2, <1>3 DEF SetsCall, Toggling

LEMMA SetsIdle ==
  /\ SetsCall(view, Sets!Idle) /\ Sets!Idle.kind = "idle"
  /\ \A r : r = [Sets!Idle EXCEPT !.kind = "fetch", !.status = "sent"] =>
       SetsCall(view, r) /\ r.kind = "fetch"
  <1>1. Sets!Element("me", 0) \in Listed
    BY DEF Sets!Element, Listed, Sets!Who
  <1>2. <<>> \in Seq(Listed)
    BY EmptySeq
  <1>3. PICK e : e = Sets!Element("me", 0) /\ e \in Listed
    BY <1>1
  <1>4. Sets!Idle = [kind |-> "idle", status |-> "idle", entry |-> e, rows |-> <<>>, before |-> {}]
    BY <1>3 DEF Sets!Idle
  <1>5. SetsCall(view, Sets!Idle) /\ Sets!Idle.kind = "idle"
    BY <1>2, <1>3, <1>4 DEF SetsCall, Toggling
  <1>6. ASSUME NEW r, r = [Sets!Idle EXCEPT !.kind = "fetch", !.status = "sent"]
        PROVE  SetsCall(view, r) /\ r.kind = "fetch"
    <2>1. r = [kind |-> "fetch", status |-> "sent", entry |-> e, rows |-> <<>>, before |-> {}]
      BY <1>4, <1>6
    <2> QED  BY <2>1, <1>2, <1>3 DEF SetsCall, Toggling
  <1> QED  BY <1>5, <1>6

LEMMA SetsSend ==
  ASSUME SetsCalls(view, call), NEW n \in SSlots, NEW r, SetsCall(view, r), Sets!Send(n, r)
  PROVE  /\ SetsCalls(view, call') /\ call'[n] = r /\ call[n].kind = "idle"
         /\ \A m \in SSlots : m # n => call'[m] = call[m]
         /\ (\E m \in SSlots : call[m].kind = "fetch") => \E m \in SSlots : call'[m].kind = "fetch"
         /\ \A w : Asked(call, w) => Asked(call', w)
         /\ Refused(call) => Refused(call')
  <1>1. call[n].kind = "idle" /\ call' = [call EXCEPT ![n] = r]
    BY DEF Sets!Send, Sets!Free, SSlots
  <1>2. call = [m \in SSlots |-> call[m]] /\ \A m \in SSlots : SetsCall(view, call[m])
    BY DEF SetsCalls
  <1>3. /\ call' = [m \in SSlots |-> call'[m]] /\ call'[n] = r
        /\ \A m \in SSlots : m # n => call'[m] = call[m]
    BY <1>1, <1>2
  <1>4. SetsCalls(view, call')
    BY <1>2, <1>3 DEF SetsCalls
  <1>5. (\E m \in SSlots : call[m].kind = "fetch") => \E m \in SSlots : call'[m].kind = "fetch"
    BY <1>1, <1>3
  <1>6. \A m \in SSlots : Toggling(call[m]) => call'[m] = call[m]
    BY <1>1, <1>3 DEF Toggling
  <1>7. \A w : Asked(call, w) => Asked(call', w)
    BY <1>6 DEF Asked
  <1>8. Refused(call) => Refused(call')
    BY <1>6 DEF Refused
  <1> QED  BY <1>1, <1>3, <1>4, <1>5, <1>7, <1>8

LEMMA SetsFreed ==
  ASSUME SetsCalls(view, call), NEW n \in SSlots, Sets!Freed(n)
  PROVE  /\ SetsCalls(view, call') /\ call'[n].kind = "idle"
         /\ \A m \in SSlots : m # n => /\ call'[m].kind = call[m].kind
                                     /\ call'[m].status = call[m].status
                                     /\ call'[m].entry = call[m].entry
                                     /\ call'[m].before = call[m].before \ {n}
  <1>1. call' = [m \in SSlots |-> IF m = n THEN Sets!Idle
                                  ELSE [call[m] EXCEPT !.before = @ \ {n}]]
    BY DEF Sets!Freed, SSlots
  <1>2. call'[n] = Sets!Idle
    BY <1>1
  <1>3. ASSUME NEW m \in SSlots, m # n
        PROVE  /\ SetsCall(view, call'[m])
               /\ call'[m].kind = call[m].kind /\ call'[m].status = call[m].status
               /\ call'[m].entry = call[m].entry /\ call'[m].before = call[m].before \ {n}
    <2>1. PICK r : r = call[m] /\ SetsCall(view, r)
      BY DEF SetsCalls
    <2>2. PICK b : b = r.before \ {n}
      OBVIOUS
    <2>3. call'[m] = [r EXCEPT !.before = b]
      BY <1>1, <1>3, <2>1, <2>2
    <2>4. call'[m] = [kind |-> r.kind, status |-> r.status, entry |-> r.entry, rows |-> r.rows,
                      before |-> b]
      BY <2>1, <2>3 DEF SetsCall
    <2> QED  BY <2>1, <2>2, <2>4 DEF SetsCall, Toggling
  <1>4. SetsCalls(view, call')
    <2>1. call' = [m \in SSlots |-> call'[m]]
      BY <1>1
    <2>2. \A m \in SSlots : SetsCall(view, call'[m])
      BY <1>2, <1>3, SetsIdle
    <2> QED  BY <2>1, <2>2 DEF SetsCalls
  <1> QED  BY <1>2, <1>3, <1>4, SetsIdle

\* What a list is missing may be asked for elsewhere; entries may be written otherwise.
LEMMA FitsStill ==
  ASSUME NEW l, NEW r, NEW ws, NEW rw, NEW w, NEW a, NEW b,
         Fits(view, l, ws, rw, w, a), SameOf(l, r, w), a => b
  PROVE  Fits(view, r, ws, rw, w, b)
  BY DEF Fits, SameOf

LEMMA MineStill ==
  ASSUME NEW l, NEW r, NEW c, NEW rw, MineFits(l, c, rw), SameOf(l, r, "me")
  PROVE  MineFits(r, c, rw)
  BY DEF MineFits, SameOf

\* The list is written otherwise, and its requests are the same for those who asked.
LEMMA ListStill ==
  ASSUME NEW l, NEW r, NEW c, NEW ws, NEW rw, NEW d, ListFits(view, l, c, ws, rw),
         \A w \in Sets!Who : ~Deaf(view, w) => SameOf(l, r, w),
         \A w \in Sets!Who : Asked(c, w) => Asked(d, w),
         MineFits(l, c, rw) => MineFits(r, d, rw)
  PROVE  ListFits(view, r, d, ws, rw)
  <1> SUFFICES ASSUME NEW w \in Sets!Who
               PROVE  IF Deaf(view, w) THEN MineFits(r, d, rw)
                      ELSE Fits(view, r, ws, rw, w, Asked(d, w))
    BY DEF ListFits
  <1>1. CASE Deaf(view, w)
    <2>1. MineFits(l, c, rw)
      BY <1>1 DEF ListFits
    <2> QED  BY <1>1, <2>1
  <1>2. CASE ~Deaf(view, w)
    <2>1. Fits(view, l, ws, rw, w, Asked(c, w))
      BY <1>2 DEF ListFits
    <2> QED  BY <1>2, <2>1, FitsStill
  <1> QED  BY <1>1, <1>2

\* A list that the wire leads to the rows fits when the own toggles are over.
LEMMA AgreeingFits ==
  ASSUME NEW l, NEW c, NEW ws, NEW rw,
         \A w \in Sets!Who : Fits(view, l, ws, rw, w, FALSE),
         Reacts(view) => Sent(c) = {}
  PROVE  ListFits(view, l, c, ws, rw)
  <1> SUFFICES ASSUME NEW w \in Sets!Who
               PROVE  IF Deaf(view, w) THEN MineFits(l, c, rw)
                      ELSE Fits(view, l, ws, rw, w, Asked(c, w))
    BY DEF ListFits
  <1>1. CASE Deaf(view, w)
    BY <1>1 DEF Deaf, Fits, MineFits
  <1>2. CASE ~Deaf(view, w)
    BY <1>2, FitsStill, SameIsSame
  <1> QED  BY <1>1, <1>2

-----------------------------------------------------------------------------
(* The steps.                                                              *)

\* A toggle that was sent is the last one, and the list is as it wants it.
LEMMA MineToggled ==
  ASSUME SetsCalls(view, call), SetsCalls(view, call'), Reacts(view), NEW n \in SSlots, NEW l,
         call[n].kind = "idle", \A m \in SSlots : m # n => call'[m] = call[m],
         Toggling(call'[n]), call'[n].status = "sent",
         call'[n].before = {m \in SSlots : Toggling(call[m]) /\ call[m].entry.who = "me"},
         AtMost(l, "me"), call'[n].kind = "add" <=> Sets!Mentions(l, "me"), NEW rw
  PROVE  MineFits(l, call', rw)
  <1>1. n \in Sent(call')
    BY DEF Sent
  <1>2. ASSUME NEW m \in Sent(call'), m # n
        PROVE  m \in call'[n].before
    <2>1. m \in SSlots /\ call'[m] = call[m] /\ Toggling(call[m])
      BY <1>2 DEF Sent
    <2>2. call[m].entry.who = "me"
      BY <2>1 DEF SetsCalls, SetsCall
    <2> QED  BY <2>1, <2>2
  <1>3. Sent(call') \ {n} \subseteq call'[n].before
    BY <1>2
  <1> QED  BY <1>1, <1>3 DEF MineFits

LEMMA ReactionToggled ==
  ASSUME SetsInv, NEW n \in SSlots, Sets!ToggleReaction(n), Reacts(view), view' = view
  PROVE  SetsInv'
  <1>1. /\ ~part1 /\ part1' = part1 /\ wire' = wire /\ row' = row /\ part2' = part2
        /\ part3' = part3
    BY DEF Sets!ToggleReaction
  <1>2. /\ store \in Seq(Listed) /\ SetsCalls(view, call)
        /\ ~part3 => ListFits(view, store, call, wire, row)
    BY <1>1 DEF SetsInv, SetsShape
  <1>3. PICK mine, k, r, l :
          /\ mine \in Listed /\ k \in {"add", "remove"}
          /\ mine.who = "me" /\ r = Sets!Request(k, mine) /\ Sets!Send(n, r)
          /\ l = store' /\ l \in Seq(Listed)
          /\ \A w : w # "me" => SameOf(store, l, w)
          /\ AtMost(store, "me") => AtMost(l, "me") /\ (k = "add" <=> Sets!Mentions(l, "me"))
    <2>1. CASE Sets!Mentions(store, "me")
      <3>1. PICK mine, l :
              /\ mine \in Listed
              /\ mine = Sets!First(store, "me") /\ mine.who = "me"
              /\ AtMost(store, "me") => AllAre(store, "me", mine)
              /\ l = store' /\ l = Sets!Lacking(store, mine)
              /\ Sets!Send(n, Sets!Request("remove", mine))
        BY <1>2, <2>1, OfFirst DEF Sets!ToggleReaction
      <3>2. /\ l \in Seq(Listed)
            /\ AtMost(store, "me") => AtMost(l, "me") /\ Sets!Of(l, "me") = {}
            /\ \A w : w # "me" => SameOf(store, l, w)
        BY <1>2, <3>1, OfLacking
      <3>3. AtMost(store, "me") => ~Sets!Mentions(l, "me")
        BY <3>2 DEF Sets!Mentions
      <3> QED  BY <3>1, <3>2, <3>3
    <2>2. CASE ~Sets!Mentions(store, "me")
      <3>1. PICK mine, l : /\ mine = Sets!Element("me", Sets!Temp(n)) /\ l = store'
                           /\ l = Append(store, mine)
                           /\ Sets!Send(n, Sets!Request("add", mine))
        BY <2>2 DEF Sets!ToggleReaction
      <3>2. mine \in Listed /\ mine.who = "me"
        BY <3>1 DEF Sets!Element, Listed, Sets!Who
      <3>3. /\ l \in Seq(Listed) /\ Sets!Mentions(l, mine.who)
            /\ AtMost(l, mine.who) <=> ~Sets!Mentions(store, mine.who)
            /\ \A w : w # mine.who => SameOf(store, l, w)
        BY <1>2, <3>1, <3>2, OfAppend
      <3>4. /\ Sets!Mentions(l, "me") /\ AtMost(l, "me")
            /\ \A w : w # "me" => SameOf(store, l, w)
        BY <2>2, <3>2, <3>3
      <3> QED  BY <3>1, <3>2, <3>3, <3>4
    <2> QED  BY <2>1, <2>2
  <1>4. /\ SetsCall(view, r) /\ r.kind = k /\ r.status = "sent" /\ r.entry = mine
        /\ r.before = {m \in SSlots : Toggling(call[m]) /\ call[m].entry.who = "me"}
    BY <1>3, SetsRequest
  <1>5. /\ SetsCalls(view, call') /\ call'[n] = r /\ call[n].kind = "idle"
        /\ \A m \in SSlots : m # n => call'[m] = call[m]
        /\ \A w : Asked(call, w) => Asked(call', w)
    BY <1>2, <1>3, <1>4, SetsSend
  <1>6. ASSUME ~part3
        PROVE  ListFits(view, l, call', wire, row)
    <2> SUFFICES ASSUME NEW w \in Sets!Who
                 PROVE  IF Deaf(view, w) THEN MineFits(l, call', row)
                        ELSE Fits(view, l, wire, row, w, Asked(call', w))
      BY DEF ListFits
    <2>1. CASE w = "me"
      <3>1. Deaf(view, w) /\ AtMost(store, "me")
        BY <2>1, <1>2, <1>6 DEF Deaf, ListFits, MineFits
      <3>2. MineFits(l, call', row)
        BY <3>1, <1>2, <1>3, <1>4, <1>5, MineToggled DEF Toggling
      <3> QED  BY <3>1, <3>2
    <2>2. CASE w # "me"
      <3>1. ~Deaf(view, w) /\ Fits(view, store, wire, row, w, Asked(call, w))
        BY <2>2, <1>2, <1>6 DEF Deaf, ListFits
      <3> QED  BY <2>2, <3>1, <1>3, <1>5, FitsStill
    <2> QED  BY <2>1, <2>2
  <1>7. SetsShape'
    BY <1>1, <1>3, <1>5 DEF SetsInv, SetsShape
  <1> QED  BY <1>1, <1>3, <1>6, <1>7 DEF SetsInv

LEMMA SubscriberToggled ==
  ASSUME SetsInv, NEW n \in SSlots, NEW u \in Sets!Who, Sets!ToggleSubscriber(n, u)
  PROVE  SetsInv'
  <1>1. /\ ~part1 /\ part1' = part1 /\ wire' = wire /\ row' = row /\ part2' = part2
        /\ part3' = part3 /\ view' = view /\ ~Reacts(view)
    BY DEF Sets!ToggleSubscriber, Reacts
  <1>2. /\ store \in Seq(Listed) /\ SetsCalls(view, call)
        /\ ~part3 => ListFits(view, store, call, wire, row)
    BY <1>1 DEF SetsInv, SetsShape
  <1>3. PICK mine, k, r, l :
          /\ mine \in Listed /\ k \in {"add", "remove"}
          /\ mine.who = u /\ r = Sets!Request(k, mine) /\ Sets!Send(n, r)
          /\ l = store' /\ l \in Seq(Listed)
          /\ \A w : w # u => SameOf(store, l, w)
          /\ AtMost(l, u)
    <2>1. CASE Sets!Mentions(store, u)
      <3>1. PICK mine, l :
              /\ mine \in Listed
              /\ mine.who = u
              /\ l = store' /\ l = Sets!Without(store, u)
              /\ Sets!Send(n, Sets!Request("remove", mine))
        BY <1>2, <2>1, OfFirst DEF Sets!ToggleSubscriber
      <3>2. /\ l \in Seq(Listed) /\ Sets!Of(l, u) = {}
            /\ \A w : w # u => SameOf(store, l, w)
        BY <1>2, <3>1, OfWithout
      <3>3. AtMost(l, u)
        BY <3>2 DEF AtMost
      <3> QED  BY <3>1, <3>2, <3>3
    <2>2. CASE ~Sets!Mentions(store, u)
      <3>1. PICK mine, l : /\ mine = Sets!Element(u, Sets!Manual) /\ l = store'
                           /\ l = Append(store, mine)
                           /\ Sets!Send(n, Sets!Request("add", mine))
        BY <2>2 DEF Sets!ToggleSubscriber
      <3>2. mine \in Listed /\ mine.who = u
        BY <3>1 DEF Sets!Element, Listed, Sets!Manual
      <3>3. /\ l \in Seq(Listed)
            /\ AtMost(l, mine.who) <=> ~Sets!Mentions(store, mine.who)
            /\ \A w : w # mine.who => SameOf(store, l, w)
        BY <1>2, <3>1, <3>2, OfAppend
      <3>4. AtMost(l, u) /\ \A w : w # u => SameOf(store, l, w)
        BY <2>2, <3>2, <3>3
      <3> QED  BY <3>1, <3>2, <3>3, <3>4
    <2> QED  BY <2>1, <2>2
  <1>4. /\ SetsCall(view, r) /\ r.kind = k /\ r.status = "sent" /\ r.entry = mine
    BY <1>1, <1>3, SetsRequest
  <1>5. /\ SetsCalls(view, call') /\ call'[n] = r
        /\ \A w : Asked(call, w) => Asked(call', w)
    BY <1>2, <1>3, <1>4, SetsSend
  <1>6. ASSUME ~part3
        PROVE  ListFits(view, l, call', wire, row)
    <2> SUFFICES ASSUME NEW w \in Sets!Who
                 PROVE  ~Deaf(view, w) /\ Fits(view, l, wire, row, w, Asked(call', w))
      BY DEF ListFits
    <2>1. ~Deaf(view, w) /\ Fits(view, store, wire, row, w, Asked(call, w))
      BY <1>1, <1>2, <1>6 DEF Deaf, ListFits
    <2>2. CASE w = u
      <3>1. Asked(call', u)
        BY <1>3, <1>4, <1>5 DEF Asked, Toggling
      <3> QED  BY <2>1, <2>2, <3>1, <1>1, <1>3 DEF Fits
    <2>3. CASE w # u
      BY <2>1, <2>3, <1>3, <1>5, FitsStill
    <2> QED  BY <2>2, <2>3
  <1>7. SetsShape'
    BY <1>1, <1>3, <1>5 DEF SetsInv, SetsShape
  <1> QED  BY <1>1, <1>3, <1>6, <1>7 DEF SetsInv

\* The server changes a row and says so.
LEMMA RowChanged ==
  ASSUME SetsRows(row), part2 \in Nat, NEW w \in Sets!Who,
         (\E reason \in {1, 2} : Sets!Insert(w, reason)) \/ Sets!Delete(w)
  PROVE  /\ SetsRows(row') /\ part2' \in Nat
         /\ \A v \in Sets!Who : v # w => row'[v] = row[v]
         /\ Sets!Delete(w) => row'[w] = 0
         /\ (\E reason \in {1, 2} : Sets!Insert(w, reason)) => row'[w] # 0
         /\ \E e \in Said :
              /\ e.entry.who = w /\ wire' = Append(wire, e)
              /\ e.kind = "removed" <=> row'[w] = 0
              /\ Reacts(view) /\ e.kind = "added" => e.entry = Sets!Element(w, row'[w])
  <1>0. row = [v \in Sets!Who |-> row[v]] /\ \A v \in Sets!Who : row[v] \in Nat
    BY DEF SetsRows
  <1>1. CASE Sets!Delete(w)
    <2>1. /\ row' = [row EXCEPT ![w] = 0] /\ part2' = part2
          /\ wire' = Append(wire, [kind |-> "removed", entry |-> Sets!Element(w, 0)])
      BY <1>1 DEF Sets!Delete, Sets!Publish
    <2>2. row' = [v \in Sets!Who |-> row'[v]] /\ row'[w] = 0
          /\ \A v \in Sets!Who : v # w => row'[v] = row[v]
      BY <1>0, <2>1
    <2>3. SetsRows(row')
      BY <1>0, <2>2 DEF SetsRows
    <2>4. PICK e : e = [kind |-> "removed", entry |-> Sets!Element(w, 0)]
      OBVIOUS
    <2>5. e \in Said /\ e.entry.who = w /\ e.kind = "removed"
      BY <2>4 DEF Said, Listed, Sets!Element
    <2>6. ~\E reason \in {1, 2} : Sets!Insert(w, reason)
      <3> SUFFICES ASSUME NEW reason \in {1, 2}, Sets!Insert(w, reason) PROVE FALSE
        OBVIOUS
      <3>1. PICK x : wire' = Append(wire, [kind |-> "added", entry |-> x])
        BY DEF Sets!Insert, Sets!Publish
      <3>2. row'[w] = IF row[w] # 0 THEN row[w] ELSE IF Sets!Reacting THEN part2 + 1 ELSE reason
        BY <1>0 DEF Sets!Insert
      <3>3. row'[w] # 0
        BY <1>0, <3>2
      <3> QED  BY <2>2, <3>3
    <2> QED  BY <2>1, <2>2, <2>3, <2>4, <2>5, <2>6
  <1>2. ASSUME NEW reason \in {1, 2}, Sets!Insert(w, reason)
        PROVE  /\ SetsRows(row') /\ part2' \in Nat /\ row'[w] # 0
               /\ \A v \in Sets!Who : v # w => row'[v] = row[v]
               /\ \E e \in Said :
                    /\ e.entry.who = w /\ wire' = Append(wire, e) /\ e.kind = "added"
                    /\ Reacts(view) => e.entry = Sets!Element(w, row'[w])
    <2>1. PICK x, i : /\ x = IF row[w] # 0 THEN row[w]
                             ELSE IF Sets!Reacting THEN part2 + 1 ELSE reason
                      /\ row' = [row EXCEPT ![w] = x]
                      /\ i = IF Sets!Reacting THEN row'[w] ELSE reason
                      /\ wire' = Append(wire, [kind |-> "added", entry |-> Sets!Element(w, i)])
                      /\ part2' = IF Sets!Reacting /\ row[w] = 0 THEN part2 + 1 ELSE part2
      BY <1>0, <1>2 DEF Sets!Insert, Sets!Publish
    <2>2. x \in Nat /\ x # 0 /\ part2' \in Nat
      BY <1>0, <2>1
    <2>3. row' = [v \in Sets!Who |-> row'[v]] /\ row'[w] = x
          /\ \A v \in Sets!Who : v # w => row'[v] = row[v]
      BY <1>0, <2>1
    <2>4. SetsRows(row')
      BY <1>0, <2>2, <2>3 DEF SetsRows
    <2>5. PICK e : e = [kind |-> "added", entry |-> Sets!Element(w, i)]
      OBVIOUS
    <2>6. i \in Int
      BY <2>1, <2>2, <2>3
    <2>7. e \in Said /\ e.entry.who = w /\ e.kind = "added" /\ e.entry = Sets!Element(w, i)
      BY <2>5, <2>6 DEF Said, Listed, Sets!Element
    <2>8. Reacts(view) => i = row'[w]
      BY <2>1 DEF Reacts, Sets!Reacting
    <2> QED  BY <2>1, <2>2, <2>3, <2>4, <2>5, <2>7, <2>8
  <1>3. CASE \E reason \in {1, 2} : Sets!Insert(w, reason)
    <2>1. PICK reason \in {1, 2} : Sets!Insert(w, reason)
      BY <1>3
    <2>2. /\ SetsRows(row') /\ part2' \in Nat /\ row'[w] # 0
          /\ \A v \in Sets!Who : v # w => row'[v] = row[v]
      BY <1>2, <2>1
    <2>3. PICK e \in Said : /\ e.entry.who = w /\ wire' = Append(wire, e) /\ e.kind = "added"
                            /\ Reacts(view) => e.entry = Sets!Element(w, row'[w])
      BY <1>2, <2>1
    <2>4. ~Sets!Delete(w)
      <3>1. Sets!Delete(w) => row'[w] = 0
        BY <1>0 DEF Sets!Delete
      <3> QED  BY <2>2, <3>1
    <2> QED  BY <2>2, <2>3, <2>4
  <1> QED  BY <1>1, <1>3

\* What a change does to a list that fits.
LEMMA ChangeFits ==
  ASSUME SetsShape, NEW w \in Sets!Who,
         (\E reason \in {1, 2} : Sets!Insert(w, reason)) \/ Sets!Delete(w),
         Reacts(view) /\ w # "me" => row[w] = 0 \/ Sets!Delete(w)
  PROVE  /\ wire' \in Seq(Said) /\ SetsRows(row') /\ part2' \in Nat
         /\ WireTells(view, wire', row')
         /\ \A v \in Sets!Who : v # w => row'[v] = row[v]
         /\ \A l, a : \A v \in Sets!Who :
              v # w /\ Fits(view, l, wire, row, v, a) => Fits(view, l, wire', row', v, a)
         /\ \A l : ~Deaf(view, w) /\ FitsLoosely(view, l, wire, row, w) =>
                   Fits(view, l, wire', row', w, FALSE)
  <1>1. /\ SetsRows(row') /\ part2' \in Nat
        /\ \A v \in Sets!Who : v # w => row'[v] = row[v]
        /\ Sets!Delete(w) => row'[w] = 0
    BY RowChanged DEF SetsShape
  <1>2. PICK e \in Said : /\ e.entry.who = w /\ wire' = Append(wire, e)
                          /\ e.kind = "removed" <=> row'[w] = 0
                          /\ Reacts(view) /\ e.kind = "added" => e.entry = Sets!Element(w, row'[w])
    BY RowChanged DEF SetsShape
  <1>3. PICK xs, new : xs = wire' /\ new = row'
    OBVIOUS
  <1>4. wire \in Seq(Said) /\ WireTells(view, wire, row)
    BY DEF SetsShape
  <1>5. Reacts(view) /\ ~Deaf(view, w) /\ e.kind = "added" =>
          e.entry = Sets!Element(w, new[w]) /\ row[w] = 0
    BY <1>1, <1>2, <1>3 DEF Deaf
  <1>6. TellsRow(wire, row, w, e, xs, new)
    BY <1>1, <1>2, <1>3, <1>4, <1>5 DEF TellsRow
  <1>7. /\ xs \in Seq(Said)
        /\ WireTells(view, xs, new)
        /\ \A l, a : \A v \in Sets!Who :
              v # w /\ Fits(view, l, wire, row, v, a) => Fits(view, l, xs, new, v, a)
        /\ \A l : ~Deaf(view, w) /\ FitsLoosely(view, l, wire, row, w) =>
                   Fits(view, l, xs, new, w, FALSE)
    BY <1>6, Published
  <1> QED  BY <1>1, <1>3, <1>7

LEMMA SetsChanged ==
  ASSUME SetsInv, NEW w \in Sets!Who, Sets!ChangedElsewhere(w)
  PROVE  SetsInv'
  <1>1. /\ view' = view /\ store' = store /\ part1' = part1 /\ call' = call
        /\ part3' = (part3 \/ (Sets!Reacting /\ w = "me"))
    BY DEF Sets!ChangedElsewhere
  <1>3. /\ (\E reason \in {1, 2} : Sets!Insert(w, reason)) \/ Sets!Delete(w)
        /\ row[w] = 0 \/ Sets!Delete(w)
    BY DEF Sets!ChangedElsewhere, Sets!Manual, Sets!Other
  <1>4. SetsShape /\ SetsCalls(view, call) /\ part3 \in BOOLEAN
    BY DEF SetsInv, SetsShape
  <1>5. /\ wire' \in Seq(Said) /\ SetsRows(row') /\ part2' \in Nat
        /\ WireTells(view, wire', row')
        /\ \A v \in Sets!Who : v # w => row'[v] = row[v]
        /\ \A l, a : \A v \in Sets!Who :
              v # w /\ Fits(view, l, wire, row, v, a) => Fits(view, l, wire', row', v, a)
        /\ \A l : ~Deaf(view, w) /\ FitsLoosely(view, l, wire, row, w) =>
                   Fits(view, l, wire', row', w, FALSE)
    BY <1>3, <1>4, ChangeFits
  <1>6. part3' \in BOOLEAN /\ (~part3' => ~part3 /\ ~Deaf(view, w))
    BY <1>1, Zenon DEF Deaf, Reacts, Sets!Reacting
  <1>7. ASSUME ~part1, ~part3'
        PROVE  ListFits(view, store, call, wire', row')
    <2>1. ListFits(view, store, call, wire, row) /\ ~Deaf(view, w)
      BY <1>6, <1>7 DEF SetsInv
    <2> SUFFICES ASSUME NEW v \in Sets!Who
                 PROVE  IF Deaf(view, v) THEN MineFits(store, call, row')
                        ELSE Fits(view, store, wire', row', v, Asked(call, v))
      BY DEF ListFits
    <2>2. CASE Deaf(view, v)
      <3>1. MineFits(store, call, row) /\ v = "me" /\ v # w
        BY <2>1, <2>2 DEF ListFits, Deaf
      <3>2. row'["me"] = row["me"]
        BY <3>1, <1>5
      <3> QED  BY <2>2, <3>1, <3>2 DEF MineFits
    <2>3. CASE ~Deaf(view, v) /\ v # w
      BY <2>1, <2>3, <1>5 DEF ListFits
    <2>4. CASE v = w
      <3>1. Asked(call, w) => ~Reacts(view)
        BY <1>4, <2>1 DEF Asked, Deaf, SetsCalls, SetsCall
      <3>2. Fits(view, store, wire, row, w, Asked(call, w))
        BY <2>1 DEF ListFits
      <3>3. FitsLoosely(view, store, wire, row, w)
        BY <3>1, <3>2, Zenon DEF Fits, FitsLoosely
      <3>4. Fits(view, store, wire', row', w, FALSE)
        BY <2>1, <3>3, <1>5
      <3> QED  BY <2>1, <2>4, <3>4 DEF Fits
    <2> QED  BY <2>2, <2>3, <2>4
  <1>8. SetsShape'
    BY <1>1, <1>4, <1>5, <1>6 DEF SetsShape
  <1> QED  BY <1>1, <1>7, <1>8 DEF SetsInv

\* The answer to request n, with or without rows.
AnswerTo(c, d, n, s) ==
    /\ d = [m \in SSlots |-> d[m]] /\ \A m \in SSlots : m # n => d[m] = c[m]
    /\ d[n].kind = c[n].kind /\ d[n].entry = c[n].entry /\ d[n].before = c[n].before
    /\ d[n].status = s

LEMMA SetsAnswered ==
  ASSUME SetsCalls(view, call), NEW n \in SSlots, NEW s, NEW x \in Seq(Listed),
         \/ call' = [call EXCEPT ![n].status = s, ![n].rows = x]
         \/ call' = [call EXCEPT ![n].status = s] /\ x = call[n].rows,
         call[n].kind = "add" /\ s = "ok" => x[1] \in Listed /\ x[1].who = call[n].entry.who
  PROVE  SetsCalls(view, call') /\ AnswerTo(call, call', n, s)
  <1>1. PICK r : r = call[n] /\ SetsCall(view, r)
    BY DEF SetsCalls
  <1>2. call = [m \in SSlots |-> call[m]] /\ \A m \in SSlots : SetsCall(view, call[m])
    BY DEF SetsCalls
  <1>3. PICK y : y = [kind |-> r.kind, status |-> s, entry |-> r.entry, rows |-> x,
                      before |-> r.before]
    OBVIOUS
  <1>4. /\ r = [kind |-> r.kind, status |-> r.status, entry |-> r.entry, rows |-> r.rows,
                before |-> r.before]
        /\ r.entry \in Listed /\ (Reacts(view) /\ Toggling(r) => r.entry.who = "me")
    BY <1>1 DEF SetsCall
  <1>5. call' = [call EXCEPT ![n] = y]
    <2>1. CASE call' = [call EXCEPT ![n].status = s, ![n].rows = x]
      <3>1. PICK z : z = [kind |-> r.kind, status |-> s, entry |-> r.entry, rows |-> r.rows,
                          before |-> r.before]
        OBVIOUS
      <3>2. [r EXCEPT !.status = s] = z
        BY <3>1, <1>4
      <3>3. [z EXCEPT !.rows = x] = y
        BY <3>1, <1>3
      <3>4. call' = [[call EXCEPT ![n] = [r EXCEPT !.status = s]] EXCEPT ![n].rows = x]
        BY <2>1, <1>1
      <3>5. [call EXCEPT ![n] = z] = [m \in SSlots |-> IF m = n THEN z ELSE call[m]]
        BY <1>2
      <3>6. call' = [[call EXCEPT ![n] = z] EXCEPT ![n] = y]
        BY <3>2, <3>3, <3>4, <3>5
      <3>7. [[call EXCEPT ![n] = z] EXCEPT ![n] = y] = [m \in SSlots |-> IF m = n THEN y ELSE call[m]]
        BY <3>5
      <3>8. [call EXCEPT ![n] = y] = [m \in SSlots |-> IF m = n THEN y ELSE call[m]]
        BY <1>2
      <3> QED  BY <3>6, <3>7, <3>8
    <2>2. CASE call' = [call EXCEPT ![n].status = s] /\ x = call[n].rows
      <3>1. [r EXCEPT !.status = s] = y
        BY <2>2, <1>1, <1>3, <1>4
      <3> QED  BY <2>2, <3>1, <1>1
    <2> QED  BY <2>1, <2>2
  <1>6. /\ call' = [m \in SSlots |-> call'[m]] /\ call'[n] = y
        /\ \A m \in SSlots : m # n => call'[m] = call[m]
    BY <1>2, <1>5
  <1>7. SetsCall(view, y)
    BY <1>1, <1>3, <1>4 DEF SetsCall, Toggling
  <1>8. SetsCalls(view, call')
    BY <1>2, <1>6, <1>7 DEF SetsCalls
  <1>9. y.kind = r.kind /\ y.entry = r.entry /\ y.before = r.before /\ y.status = s
    BY <1>3
  <1>10. AnswerTo(call, call', n, s)
    BY <1>1, <1>6, <1>9 DEF AnswerTo
  <1> QED  BY <1>8, <1>10

LEMMA RowsListed ==
  ASSUME SetsRows(row)
  PROVE  Sets!Rows \in Seq(Listed)
  <1>1. \A w \in Sets!Who : Sets!Element(w, row[w]) \in Listed
    BY DEF SetsRows, Sets!Element, Listed
  <1>2. \A x \in Listed : <<x>> \in Seq(Listed)
    OBVIOUS
  <1>3. \A w \in Sets!Who : Sets!RowOf(w) \in Seq(Listed)
    BY <1>1, <1>2, EmptySeq DEF Sets!RowOf
  <1>4. Sets!RowOf("me") \in Seq(Listed) /\ Sets!RowOf("other") \in Seq(Listed)
    BY <1>3 DEF Sets!Who
  <1> QED  BY <1>4, ConcatProperties DEF Sets!Rows

\* An answer that changes nothing: to a fetch, or an error.
LEMMA AnsweredStill ==
  ASSUME SetsCalls(view, call), NEW n \in SSlots, NEW s, AnswerTo(call, call', n, s),
         call[n].status = "sent", Toggling(call[n]) => s = "error",
         NEW l, NEW ws, NEW rw, ListFits(view, l, call, ws, rw)
  PROVE  ListFits(view, l, call', ws, rw)
  <1>1. /\ \A m \in SSlots : m # n => call'[m] = call[m]
        /\ call'[n].kind = call[n].kind /\ call'[n].entry = call[n].entry
        /\ call'[n].before = call[n].before /\ call'[n].status = s
    BY DEF AnswerTo
  <1>2. \A w : Asked(call, w) => Asked(call', w)
    <2> SUFFICES ASSUME NEW w, NEW m \in SSlots, Toggling(call[m]), call[m].entry.who = w,
                        call[m].status \in {"sent", "error"}
                 PROVE  Asked(call', w)
      BY DEF Asked
    <2>1. CASE m = n
      BY <1>1, <2>1 DEF Asked, Toggling
    <2>2. CASE m # n
      BY <1>1, <2>2 DEF Asked
    <2> QED  BY <2>1, <2>2
  <1>3. MineFits(l, call, rw) => MineFits(l, call', rw)
    <2>1. CASE Toggling(call[n])
      <3>1. Refused(call')
        BY <1>1, <2>1 DEF Refused, Toggling
      <3> QED  BY <3>1 DEF MineFits
    <2>2. CASE ~Toggling(call[n])
      <3>1. \A m \in SSlots : Toggling(call'[m]) => m # n
        BY <1>1, <2>2 DEF Toggling
      <3>2. Sent(call') = Sent(call)
        BY <1>1, <2>2, <3>1 DEF Sent
      <3>3. \A m \in Sent(call) : call'[m] = call[m]
        BY <1>1, <2>2 DEF Sent
      <3>4. Refused(call) => Refused(call')
        BY <1>1, <2>2 DEF Refused
      <3> QED  BY <3>2, <3>3, <3>4 DEF MineFits
    <2> QED  BY <2>1, <2>2
  <1> QED  BY <1>2, <1>3, SameIsSame, ListStill

\* A toggle that the server did.
LEMMA ToggleDone ==
  ASSUME SetsShape, ListFits(view, store, call, wire, row), NEW n \in SSlots,
         AnswerTo(call, call', n, "ok"), call[n].status = "sent",
         \/ call[n].kind = "add" /\ Sets!Insert(call[n].entry.who, 1)
         \/ call[n].kind = "remove" /\ Sets!Delete(call[n].entry.who),
         ~(Sets!Reacting /\ \E m \in call[n].before : call[m].status = "sent")
  PROVE  ListFits(view, store, call', wire', row')
  <1>1. PICK w : w = call[n].entry.who
    OBVIOUS
  <1>2. SetsCalls(view, call) /\ SetsCall(view, call[n]) /\ Toggling(call[n])
    BY DEF SetsShape, SetsCalls, Toggling
  <1>3. w \in Sets!Who /\ (Reacts(view) => w = "me")
    BY <1>1, <1>2 DEF SetsCall, Listed
  <1>4. (\E reason \in {1, 2} : Sets!Insert(w, reason)) \/ Sets!Delete(w)
    BY <1>1
  <1>5. /\ \A v \in Sets!Who : v # w => row'[v] = row[v]
        /\ \A l, a : \A v \in Sets!Who :
              v # w /\ Fits(view, l, wire, row, v, a) => Fits(view, l, wire', row', v, a)
        /\ \A l : ~Deaf(view, w) /\ FitsLoosely(view, l, wire, row, w) =>
                   Fits(view, l, wire', row', w, FALSE)
    BY <1>3, <1>4, ChangeFits
  <1>6. /\ call[n].kind = "remove" => row'[w] = 0
        /\ call[n].kind = "add" => row'[w] # 0
    BY <1>1, <1>3, RowChanged DEF SetsShape
  <1>7. /\ \A m \in SSlots : m # n => call'[m] = call[m]
        /\ call'[n].status = "ok"
    BY DEF AnswerTo
  <1> SUFFICES ASSUME NEW v \in Sets!Who
               PROVE  IF Deaf(view, v) THEN MineFits(store, call', row')
                      ELSE Fits(view, store, wire', row', v, Asked(call', v))
    BY DEF ListFits
  <1>8. CASE Deaf(view, v)
    <2>1. Reacts(view) /\ w = "me" /\ v = "me" /\ MineFits(store, call, row)
      BY <1>3, <1>8 DEF Deaf, ListFits
    <2>2. Sent(call') = Sent(call) \ {n} /\ n \in Sent(call)
      BY <1>2, <1>7 DEF Sent
    <2>3. \A m \in Sent(call) : m # n => call'[m] = call[m]
      BY <1>7 DEF Sent
    <2>4. Refused(call) => Refused(call')
      BY <1>7 DEF Refused
    <2>5. \A m \in call[n].before : m \notin Sent(call)
      BY <2>1 DEF Sent, Sets!Reacting, Reacts
    <2>6. AtMost(store, "me")
      BY <2>1 DEF MineFits
    <2>7. CASE Refused(call)
      BY <1>8, <2>4, <2>6, <2>7 DEF MineFits
    <2>8. CASE ~Refused(call)
      <3>1. PICK m \in Sent(call) : /\ Sent(call) \ {m} \subseteq call[m].before
                                    /\ call[m].kind = "add" <=> Sets!Mentions(store, "me")
        BY <2>1, <2>2, <2>8 DEF MineFits
      <3>2. CASE m = n
        <4>1. Sent(call') = {}
          BY <2>2, <2>5, <3>1, <3>2
        <4>2. Sets!Mentions(store, "me") <=> row'["me"] # 0
          BY <1>2, <1>6, <2>1, <3>1, <3>2 DEF Toggling
        <4> QED  BY <1>8, <2>6, <4>1, <4>2 DEF MineFits
      <3>3. CASE m # n
        <4>1. m \in Sent(call') /\ call'[m] = call[m] /\ Sent(call') \ {m} \subseteq Sent(call) \ {m}
          BY <2>2, <2>3, <3>3
        <4> QED  BY <1>8, <2>6, <3>1, <4>1 DEF MineFits
      <3> QED  BY <3>2, <3>3
    <2> QED  BY <1>8, <2>7, <2>8
  <1>9. CASE ~Deaf(view, v) /\ v # w
    <2>1. Fits(view, store, wire, row, v, Asked(call, v))
      BY <1>9 DEF ListFits
    <2>2. Fits(view, store, wire', row', v, Asked(call, v))
      BY <1>5, <1>9, <2>1
    <2>3. Asked(call, v) => Asked(call', v)
      BY <1>1, <1>7, <1>9 DEF Asked
    <2> QED  BY <1>9, <2>2, <2>3, SameIsSame, FitsStill
  <1>10. CASE ~Deaf(view, v) /\ v = w
    <2>1. Fits(view, store, wire, row, v, Asked(call, v)) /\ ~Reacts(view)
      BY <1>3, <1>10 DEF ListFits, Deaf
    <2>2. FitsLoosely(view, store, wire, row, v)
      BY <2>1, Zenon DEF Fits, FitsLoosely
    <2>3. Fits(view, store, wire', row', v, FALSE)
      BY <1>5, <1>10, <2>2
    <2> QED  BY <1>10, <2>3, Zenon DEF Fits
  <1> QED  BY <1>8, <1>9, <1>10

LEMMA SetsAnswer ==
  ASSUME SetsInv, NEW n \in SSlots, Sets!Answer(n)
  PROVE  SetsInv'
  <1>1. /\ view' = view /\ store' = store /\ part1' = part1 /\ call[n].status = "sent"
    BY DEF Sets!Answer
  <1>2. /\ SetsShape /\ SetsCalls(view, call) /\ part3 \in BOOLEAN /\ SetsRows(row)
        /\ SetsCall(view, call[n]) /\ call[n].rows \in Seq(Listed)
        /\ ~part1 /\ ~part3 => ListFits(view, store, call, wire, row)
    BY DEF SetsInv, SetsShape, SetsCalls, SetsCall
  <1>3. PICK w : w = call[n].entry.who /\ w \in Sets!Who /\ (Reacts(view) /\ Toggling(call[n]) => w = "me")
    BY <1>2 DEF SetsCall, Listed
  <1>4. ASSUME NEW s, AnswerTo(call, call', n, s)
        PROVE  (\E m \in SSlots : call[m].kind = "fetch") => \E m \in SSlots : call'[m].kind = "fetch"
    BY <1>4 DEF AnswerTo
  <1>5. CASE /\ call[n].kind = "fetch" /\ UNCHANGED <<wire, row, part2, part3>>
             /\ call' = [call EXCEPT ![n].status = "ok", ![n].rows = Sets!Rows]
    <2>1. SetsCalls(view, call') /\ AnswerTo(call, call', n, "ok")
      BY <1>2, <1>5, RowsListed, SetsAnswered
    <2>2. ~part1 /\ ~part3 => ListFits(view, store, call', wire, row)
      BY <1>1, <1>2, <1>5, <2>1, AnsweredStill DEF Toggling
    <2>3. SetsShape'
      BY <1>1, <1>2, <1>5, <2>1 DEF SetsShape
    <2> QED  BY <1>1, <1>4, <1>5, <2>1, <2>2, <2>3 DEF SetsInv
  <1>6. CASE /\ UNCHANGED <<wire, row, part2, part3>>
             /\ call' = [call EXCEPT ![n].status = "error"]
    <2>1. SetsCalls(view, call') /\ AnswerTo(call, call', n, "error")
      BY <1>2, <1>6, SetsAnswered
    <2>2. ~part1 /\ ~part3 => ListFits(view, store, call', wire, row)
      BY <1>1, <1>2, <1>6, <2>1, AnsweredStill
    <2>3. SetsShape'
      BY <1>1, <1>2, <1>6, <2>1 DEF SetsShape
    <2> QED  BY <1>1, <1>4, <1>6, <2>1, <2>2, <2>3 DEF SetsInv
  <1>7. CASE /\ IF call[n].kind = "add" THEN Sets!Insert(w, 1)
                ELSE call[n].kind = "remove" /\ Sets!Delete(w)
             /\ \/ /\ call' = [call EXCEPT ![n].status = "ok", ![n].rows = <<Sets!Element(w, row'[w])>>]
                   /\ part3' = (part3 \/ (Sets!Reacting /\ \E m \in call[n].before : call[m].status = "sent"))
                \/ call' = [call EXCEPT ![n].status = "error"] /\ part3' = TRUE
    <2>1. Toggling(call[n]) /\ ((\E reason \in {1, 2} : Sets!Insert(w, reason)) \/ Sets!Delete(w))
      BY <1>7 DEF Toggling
    <2>2. /\ wire' \in Seq(Said) /\ SetsRows(row') /\ part2' \in Nat
          /\ WireTells(view, wire', row')
      BY <1>2, <1>3, <2>1, ChangeFits
    <2>3. PICK x : x = <<Sets!Element(w, row'[w])>> /\ x \in Seq(Listed) /\ x[1] \in Listed /\ x[1].who = w
      <3>1. row'[w] \in Nat
        BY <1>3, <2>2 DEF SetsRows
      <3>2. PICK e : e = Sets!Element(w, row'[w])
        OBVIOUS
      <3>3. e \in Listed /\ e.who = w
        BY <1>3, <3>1, <3>2 DEF Sets!Element, Listed
      <3>4. <<e>> \in Seq(Listed) /\ <<e>>[1] = e
        BY <3>3
      <3> QED  BY <3>2, <3>3, <3>4
    <2>4. CASE /\ call' = [call EXCEPT ![n].status = "ok", ![n].rows = <<Sets!Element(w, row'[w])>>]
               /\ part3' = (part3 \/ (Sets!Reacting /\ \E m \in call[n].before : call[m].status = "sent"))
      <3>1. SetsCalls(view, call') /\ AnswerTo(call, call', n, "ok")
        BY <1>2, <1>3, <2>3, <2>4, SetsAnswered
      <3>2. /\ part3' \in BOOLEAN
            /\ ~part3' => ~part3 /\ ~(Sets!Reacting /\ \E m \in call[n].before : call[m].status = "sent")
        BY <2>4, Zenon
      <3>3. ~part1 /\ ~part3' => ListFits(view, store, call', wire', row')
        BY <1>1, <1>2, <1>3, <1>7, <3>1, <3>2, ToggleDone
      <3>4. SetsShape'
        BY <1>1, <1>2, <2>2, <3>1, <3>2 DEF SetsShape
      <3> QED  BY <1>1, <1>2, <1>4, <3>1, <3>3, <3>4 DEF SetsInv
    <2>5. CASE call' = [call EXCEPT ![n].status = "error"] /\ part3' = TRUE
      <3>1. SetsCalls(view, call') /\ AnswerTo(call, call', n, "error")
        BY <1>2, <2>5, SetsAnswered
      <3>2. SetsShape'
        BY <1>1, <1>2, <2>2, <2>5, <3>1 DEF SetsShape
      <3> QED  BY <1>1, <1>2, <1>4, <2>5, <3>1, <3>2 DEF SetsInv
    <2> QED  BY <1>7, <2>4, <2>5
  <1> QED  BY <1>3, <1>5, <1>6, <1>7, Zenon DEF Sets!Answer, Sets!Manual

LEMMA SetsDelivered ==
  ASSUME SetsInv, Sets!Deliver
  PROVE  SetsInv'
  <1>1. /\ view' = view /\ part1' = part1 /\ part2' = part2 /\ part3' = part3 /\ call' = call
        /\ row' = row /\ wire # <<>> /\ wire' = Tail(wire)
        /\ store' = Sets!Heard(store, Head(wire))
    BY DEF Sets!Deliver
  <1>2. SetsShape
    BY DEF SetsInv
  <1>3. PICK xs, r : xs = wire' /\ r = store'
    OBVIOUS
  <1>4. /\ xs \in Seq(Said) /\ r \in Seq(Listed) /\ WireTells(view, xs, row)
        /\ \A w : Deaf(view, w) => SameOf(store, r, w)
        /\ \A a : \A w \in Sets!Who :
             ~Deaf(view, w) /\ Fits(view, store, wire, row, w, a) => Fits(view, r, xs, row, w, a)
    BY <1>1, <1>2, <1>3, Delivered DEF SetsShape
  <1>5. ASSUME ~part1, ~part3
        PROVE  ListFits(view, r, call, xs, row)
    <2> SUFFICES ASSUME NEW w \in Sets!Who
                 PROVE  IF Deaf(view, w) THEN MineFits(r, call, row)
                        ELSE Fits(view, r, xs, row, w, Asked(call, w))
      BY DEF ListFits
    <2>1. ListFits(view, store, call, wire, row)
      BY <1>5 DEF SetsInv
    <2>2. CASE Deaf(view, w)
      <3>1. MineFits(store, call, row) /\ SameOf(store, r, "me")
        BY <1>4, <2>1, <2>2 DEF ListFits, Deaf
      <3> QED  BY <2>2, <3>1, MineStill
    <2>3. CASE ~Deaf(view, w)
      BY <1>4, <2>1, <2>3 DEF ListFits
    <2> QED  BY <2>2, <2>3
  <1>6. SetsShape'
    BY <1>1, <1>2, <1>3, <1>4 DEF SetsShape
  <1> QED  BY <1>1, <1>3, <1>5, <1>6 DEF SetsInv

LEMMA SetsReconnected ==
  ASSUME SetsInv, NEW n \in SSlots, Sets!Reconnect(n)
  PROVE  SetsInv'
  <1>1. PICK r : r = [Sets!Idle EXCEPT !.kind = "fetch", !.status = "sent"] /\ Sets!Send(n, r)
    BY DEF Sets!Reconnect
  <1>2. /\ view' = view /\ store' = store /\ part1' = part1 /\ part2' = part2
        /\ part3' = TRUE /\ row' = row /\ wire' = <<>>
    BY DEF Sets!Reconnect
  <1>3. SetsCall(view, r) /\ r.kind = "fetch" /\ SetsCalls(view, call)
    BY <1>1, SetsIdle DEF SetsInv, SetsShape
  <1>4. SetsCalls(view, call') /\ call'[n] = r
    BY <1>1, <1>3, SetsSend
  <1>5. <<>> \in Seq(Said) /\ Len(<<>>) = 0
    BY EmptySeq
  <1>6. WireTells(view, <<>>, row)
    <2>1. \A w : About(<<>>, w) = {}
      BY <1>5, SaidAt DEF About
    <2> QED  BY <2>1 DEF WireTells, LastWord, TakesTurns
  <1>7. SetsShape'
    BY <1>2, <1>4, <1>5, <1>6 DEF SetsInv, SetsShape
  <1> QED  BY <1>2, <1>3, <1>4, <1>7 DEF SetsInv

LEMMA SetsFetched ==
  ASSUME SetsInv, NEW n \in SSlots, Sets!FetchArrives(n)
  PROVE  SetsInv'
  <1>1. /\ view' = view /\ part1' = FALSE /\ part2' = part2 /\ row' = row /\ wire' = wire
        /\ Sets!Freed(n)
    BY DEF Sets!FetchArrives
  <1>2. SetsShape /\ SetsCalls(view, call) /\ store \in Seq(Listed) /\ part3 \in BOOLEAN
        /\ call[n].rows \in Seq(Listed) /\ wire \in Seq(Said) /\ WireTells(view, wire, row)
    BY DEF SetsInv, SetsShape, SetsCalls, SetsCall
  <1>3. /\ SetsCalls(view, call') /\ call'[n].kind = "idle"
        /\ \A m \in SSlots : m # n => call'[m].kind = call[m].kind
    BY <1>1, <1>2, SetsFreed
  <1>4. CASE store' = store /\ part3' = TRUE
    <2>1. SetsShape'
      BY <1>1, <1>2, <1>3, <1>4 DEF SetsShape
    <2> QED  BY <2>1, <1>1, <1>4 DEF SetsInv
  <1>5. CASE /\ store' = call[n].rows
             /\ part3' = (~Sets!Agrees(call[n].rows)
                          \/ \E m \in SSlots \ {n} : call[m].kind \in {"add", "remove"})
    <2>1. /\ part3' \in BOOLEAN
          /\ ~part3' => /\ Sets!Agrees(call[n].rows)
                        /\ ~\E m \in SSlots \ {n} : call[m].kind \in {"add", "remove"}
      BY <1>5, Zenon
    <2>2. PICK l : l = call[n].rows /\ l \in Seq(Listed)
      BY <1>2
    <2>3. ASSUME ~part3'
          PROVE  ListFits(view, l, call', wire, row)
      <3>1. \A w \in Sets!Who : Fits(view, l, wire, row, w, FALSE)
        BY <1>2, <2>1, <2>2, <2>3, AgreesFits
      <3>2. Sent(call') = {}
        BY <1>3, <2>1, <2>3 DEF Sent, Toggling
      <3> QED  BY <3>1, <3>2, AgreeingFits
    <2>4. SetsShape'
      BY <1>1, <1>2, <1>3, <1>5, <2>1 DEF SetsShape
    <2> QED  BY <1>1, <1>5, <2>2, <2>3, <2>4 DEF SetsInv
  <1> QED  BY <1>4, <1>5, Zenon DEF Sets!FetchArrives, SSlots

\* A failure that is undone while nothing else is asked for the entry.
LEMMA RolledBack ==
  ASSUME SetsInv, NEW n \in SSlots, Sets!Freed(n), Toggling(call[n]), NEW l \in Seq(Listed),
         store' = l, part3' = (part3 \/ Sets!Crossed(n) \/ ~Sets!Agrees(l)),
         UNCHANGED <<view, part1, wire, row, part2>>
  PROVE  SetsInv'
  <1>1. SetsShape /\ SetsCalls(view, call) /\ wire \in Seq(Said) /\ WireTells(view, wire, row)
        /\ part3 \in BOOLEAN
    BY DEF SetsInv, SetsShape
  <1>2. /\ SetsCalls(view, call') /\ call'[n].kind = "idle"
        /\ \A m \in SSlots : m # n => /\ call'[m].kind = call[m].kind
                                     /\ call'[m].entry = call[m].entry
    BY <1>1, SetsFreed
  <1>3. part3' \in BOOLEAN /\ (~part3' => ~Sets!Crossed(n) /\ Sets!Agrees(l))
    BY Zenon
  <1>4. ASSUME ~part3'
        PROVE  ListFits(view, l, call', wire, row)
    <2>1. \A w \in Sets!Who : Fits(view, l, wire, row, w, FALSE)
      BY <1>1, <1>3, <1>4, AgreesFits
    <2>2. ASSUME Reacts(view), NEW m \in Sent(call')
          PROVE  FALSE
      <3>1. m \in SSlots /\ Toggling(call'[m]) /\ m # n /\ Toggling(call[m])
        BY <1>2, <2>2 DEF Sent, Toggling
      <3>2. call[m].entry.who = "me" /\ call[n].entry.who = "me"
        BY <1>1, <2>2, <3>1 DEF SetsCalls, SetsCall
      <3>3. Sets!Crossed(n)
        BY <3>1, <3>2 DEF Sets!Crossed, SSlots, Toggling
      <3> QED  BY <1>3, <1>4, <3>3
    <2> QED  BY <2>1, <2>2, AgreeingFits
  <1>5. SetsShape'
    BY <1>1, <1>2, <1>3 DEF SetsShape
  <1>6. part1 => \E m \in SSlots : call'[m].kind = "fetch"
    BY <1>2 DEF SetsInv, Toggling
  <1> QED  BY <1>4, <1>5, <1>6 DEF SetsInv

\* An answered toggle is forgotten.
LEMMA Forgotten ==
  ASSUME SetsInv, NEW n \in SSlots, Sets!Freed(n), Toggling(call[n]), call[n].status = "ok",
         NEW l \in Seq(Listed), store' = l,
         \A w \in Sets!Who : ~Deaf(view, w) => SameOf(store, l, w),
         AtMost(store, "me") <=> AtMost(l, "me"),
         Sets!Mentions(store, "me") <=> Sets!Mentions(l, "me"),
         UNCHANGED <<view, part1, wire, row, part2, part3>>
  PROVE  SetsInv'
  <1>1. SetsShape /\ SetsCalls(view, call)
    BY DEF SetsInv, SetsShape
  <1>2. /\ SetsCalls(view, call') /\ call'[n].kind = "idle"
        /\ \A m \in SSlots : m # n => /\ call'[m].kind = call[m].kind
                                     /\ call'[m].status = call[m].status
                                     /\ call'[m].entry = call[m].entry
                                     /\ call'[m].before = call[m].before \ {n}
    BY <1>1, SetsFreed
  <1>3. \A w : Asked(call, w) => Asked(call', w)
    <2> SUFFICES ASSUME NEW w, NEW m \in SSlots, Toggling(call[m]), call[m].entry.who = w,
                        call[m].status \in {"sent", "error"}
                 PROVE  Asked(call', w)
      BY DEF Asked
    <2>1. m # n
      OBVIOUS
    <2> QED  BY <1>2, <2>1 DEF Asked, Toggling
  <1>4. \A rw : MineFits(store, call, rw) => MineFits(l, call', rw)
    <2>1. Sent(call') = Sent(call) /\ n \notin Sent(call)
      BY <1>2 DEF Sent, Toggling
    <2>2. Refused(call) => Refused(call')
      BY <1>2 DEF Refused, Toggling
    <2>3. \A m \in Sent(call) : /\ call'[m].before = call[m].before \ {n}
                                /\ call'[m].kind = call[m].kind
      BY <1>2, <2>1 DEF Sent
    <2>4. \A m \in Sent(call) : Sent(call) \ {m} \subseteq call[m].before =>
                                Sent(call') \ {m} \subseteq call'[m].before
      BY <2>1, <2>3
    <2> QED  BY <2>1, <2>2, <2>3, <2>4 DEF MineFits
  <1>5. ~part1 /\ ~part3 => ListFits(view, l, call', wire, row)
    BY <1>3, <1>4, ListStill DEF SetsInv
  <1>6. SetsShape'
    BY <1>1, <1>2 DEF SetsShape
  <1>7. part1 => \E m \in SSlots : call'[m].kind = "fetch"
    BY <1>2 DEF SetsInv, Toggling
  <1> QED  BY <1>5, <1>6, <1>7 DEF SetsInv

LEMMA SetsAdded ==
  ASSUME SetsInv, NEW n \in SSlots, Sets!Added(n)
  PROVE  SetsInv'
  <1>1. /\ UNCHANGED <<view, part1, wire, row, part2>> /\ Sets!Freed(n)
        /\ call[n].kind = "add" /\ call[n].status \in {"ok", "error"}
    BY DEF Sets!Added, Sets!Ended
  <1>2. /\ store \in Seq(Listed) /\ SetsCall(view, call[n]) /\ Toggling(call[n])
    BY <1>1 DEF SetsInv, SetsShape, SetsCalls, Toggling
  <1>3. PICK mine \in Listed : mine = call[n].entry /\ (Reacts(view) => mine.who = "me")
    BY <1>2 DEF SetsCall
  <1>4. CASE call[n].status = "ok" /\ ~Reacts(view)
    <2>1. store' = store /\ part3' = part3
      BY <1>4 DEF Sets!Added, Sets!Reacting, Reacts
    <2> QED  BY <1>1, <1>2, <1>4, <2>1, SameIsSame, Forgotten
  <1>5. CASE call[n].status = "ok" /\ Reacts(view)
    <2>1. PICK x : x = call[n].rows[1] /\ x \in Listed /\ x.who = mine.who
      BY <1>1, <1>2, <1>3, <1>5 DEF SetsCall
    <2>2. PICK l : l = store'
      OBVIOUS
    <2>3. /\ l = [k \in DOMAIN store |-> IF store[k] = mine THEN x ELSE store[k]]
          /\ part3' = part3
      BY <1>3, <1>5, <2>1, <2>2 DEF Sets!Added, Sets!Reacting, Reacts
    <2>4. /\ l \in Seq(Listed)
          /\ AtMost(store, mine.who) <=> AtMost(l, mine.who)
          /\ Sets!Mentions(store, mine.who) <=> Sets!Mentions(l, mine.who)
          /\ \A v : v # mine.who => SameOf(store, l, v)
      BY <1>2, <2>1, <2>3, OfReplaced
    <2>5. /\ mine.who = "me"
          /\ \A w \in Sets!Who : ~Deaf(view, w) => w # "me"
      BY <1>3, <1>5 DEF Deaf
    <2>6. /\ \A w \in Sets!Who : ~Deaf(view, w) => SameOf(store, l, w)
          /\ AtMost(store, "me") <=> AtMost(l, "me")
          /\ Sets!Mentions(store, "me") <=> Sets!Mentions(l, "me")
      BY <2>4, <2>5
    <2> QED  BY <1>1, <1>2, <1>5, <2>2, <2>3, <2>4, <2>6, Forgotten
  <1>6. CASE call[n].status = "error"
    <2>1. PICK l : l = store'
      OBVIOUS
    <2>2. l = Sets!Lacking(store, mine) /\ part3' = (part3 \/ Sets!Crossed(n) \/ ~Sets!Agrees(l))
      BY <1>3, <1>6, <2>1 DEF Sets!Added
    <2>3. l \in Seq(Listed)
      BY <1>2, <2>2, OfLacking
    <2> QED  BY <1>1, <1>2, <2>1, <2>2, <2>3, RolledBack
  <1> QED  BY <1>1, <1>4, <1>5, <1>6

LEMMA SetsRemoved ==
  ASSUME SetsInv, NEW n \in SSlots, Sets!Removed(n)
  PROVE  SetsInv'
  <1>1. /\ UNCHANGED <<view, part1, wire, row, part2>> /\ Sets!Freed(n)
        /\ call[n].kind = "remove" /\ call[n].status \in {"ok", "error"}
    BY DEF Sets!Removed, Sets!Ended
  <1>2. /\ store \in Seq(Listed) /\ SetsCall(view, call[n]) /\ Toggling(call[n])
    BY <1>1 DEF SetsInv, SetsShape, SetsCalls, Toggling
  <1>3. PICK mine \in Listed : mine = call[n].entry
    BY <1>2 DEF SetsCall
  <1>4. CASE call[n].status = "ok"
    <2>1. store' = store /\ part3' = part3
      BY <1>4 DEF Sets!Removed
    <2> QED  BY <1>1, <1>2, <1>4, <2>1, SameIsSame, Forgotten
  <1>5. CASE call[n].status = "error"
    <2>1. PICK l : l = store'
      OBVIOUS
    <2>2. l = Append(store, mine) /\ part3' = (part3 \/ Sets!Crossed(n) \/ ~Sets!Agrees(l))
      BY <1>3, <1>5, <2>1 DEF Sets!Removed
    <2>3. l \in Seq(Listed)
      BY <1>2, <2>2, OfAppend
    <2> QED  BY <1>1, <1>2, <2>1, <2>2, <2>3, RolledBack
  <1> QED  BY <1>1, <1>4, <1>5

LEMMA SetsNext ==
  ASSUME SetsInv, Sets!Next
  PROVE  SetsInv'
  <1>1. CASE Sets!Deliver
    BY <1>1, SetsDelivered
  <1>2. CASE \E w \in Sets!Who : Sets!ChangedElsewhere(w)
    BY <1>2, SetsChanged
  <1>3. CASE \E w \in Sets!Who : \E n \in SSlots : Sets!ToggleSubscriber(n, w)
    BY <1>3, SubscriberToggled
  <1>4. ASSUME NEW n \in SSlots, Sets!ToggleIssueReaction(n) \/ Sets!ToggleCommentReaction(n)
        PROVE  SetsInv'
    <2>1. Sets!ToggleReaction(n) /\ Reacts(view) /\ view' = view
      BY <1>4 DEF Sets!ToggleIssueReaction, Sets!ToggleCommentReaction, Sets!ToggleReaction, Reacts
    <2> QED  BY <2>1, ReactionToggled
  <1>5. ASSUME NEW n \in SSlots,
               \/ Sets!Reconnect(n) \/ Sets!Answer(n) \/ Sets!FetchArrives(n)
               \/ Sets!Added(n) \/ Sets!Removed(n)
        PROVE  SetsInv'
    BY <1>5, SetsReconnected, SetsAnswer, SetsFetched, SetsAdded, SetsRemoved
  <1> QED  BY <1>1, <1>2, <1>3, <1>4, <1>5 DEF Sets!Next, SSlots

\* At rest the list agrees.
LEMMA SetsAtRest ==
  ASSUME SetsInv
  PROVE  Sets!SetsAgree
  <1> SUFFICES ASSUME \A n \in SSlots : call[n].kind = "idle", ~part3
               PROVE  Sets!Agrees(store)
    BY DEF Sets!SetsAgree, SSlots
  <1>1. SetsShape /\ store \in Seq(Listed) /\ wire \in Seq(Said) /\ WireTells(view, wire, row)
    BY DEF SetsInv, SetsShape
  <1>2. \A n \in SSlots : ~Toggling(call[n]) /\ call[n].kind # "fetch"
    BY DEF Toggling
  <1>3. ListFits(view, store, call, wire, row)
    BY <1>2 DEF SetsInv
  <1>4. ASSUME NEW w \in Sets!Who
        PROVE  Fits(view, store, wire, row, w, FALSE)
    <2>1. CASE Deaf(view, w)
      <3>1. w = "me" /\ MineFits(store, call, row)
        BY <1>3, <2>1 DEF ListFits, Deaf
      <3>2. ~Refused(call) /\ Sent(call) = {}
        BY <1>2 DEF Refused, Sent
      <3> QED  BY <2>1, <3>1, <3>2 DEF MineFits, Fits
    <2>2. CASE ~Deaf(view, w)
      <3>1. Fits(view, store, wire, row, w, Asked(call, w)) /\ ~Asked(call, w)
        BY <1>2, <1>3, <2>2 DEF ListFits, Asked
      <3> QED  BY <3>1, Zenon DEF Fits
    <2> QED  BY <2>1, <2>2
  <1> QED  BY <1>1, <1>4, AgreesFits

LEMMA SetsSafe ==
  /\ SetsMounted => SetsInv
  /\ SetsInv /\ (Sets!Next \/ UNCHANGED pageVars) => SetsInv'
  /\ SetsInv => Sets!SetsAgree
  <1>1. SetsMounted => SetsInv
    BY SetsInit, FirstRequests DEF SetsMounted, SSlots
  <1>2. SetsInv /\ UNCHANGED pageVars => SetsInv'
    BY DEF SetsInv, SetsShape, pageVars
  <1> QED  BY <1>1, <1>2, SetsNext, SetsAtRest

-----------------------------------------------------------------------------
(* The thread of an issue: in store, the timeline; in part3, the entries   *)
(* that were put back; in part4, those whose news was lost.                *)

HSlots == Slots["thread"]

Lines == [id : Entry, text : Nat]
News == [kind : {"created", "updated", "deleted"}, entry : Entry, text : Nat]

\* An entry that is listed twice is in S.
OnceBut(l, S) == \A j, k \in DOMAIN l : j < k /\ l[j].id = l[k].id => l[j].id \in S

ThreadCall(r) ==
    /\ r = [kind |-> r.kind, status |-> r.status, entry |-> r.entry, text |-> r.text,
            items |-> r.items, mounted |-> r.mounted]
    /\ r.items \in Seq(Lines) /\ r.text \in Nat
    /\ r.kind = "edit" => r.items[1].text \in Nat
    /\ r.kind = "create" /\ r.status = "ok" => r.items[1] \in Lines
    /\ r.kind = "list" /\ r.status = "ok" => OnceBut(r.items, {})
    /\ r.kind = "delete" => Thread!Ids(r.items) \subseteq Thread!Below(r.entry)

ThreadCalls(c) == c = [n \in HSlots |-> c[n]] /\ \A n \in HSlots : ThreadCall(c[n])

ThreadRow(r) == r = [state |-> r.state, text |-> r.text] /\ r.text \in Nat
ThreadRows(rw) == rw = [e \in Entry |-> rw[e]] /\ \A e \in Entry : ThreadRow(rw[e])

ThreadShape ==
    store \in Seq(Lines) /\ wire \in Seq(News) /\ ThreadRows(row) /\ ThreadCalls(call)

\* Request r will put e on the screen: a list, a new comment, a failed deletion.
Brings(r, e) ==
    \/ r.kind = "list" /\ (r.status = "ok" => e \in Thread!Ids(r.items))
    \/ r.kind = "create" /\ r.status = "ok" /\ r.items[1].id = e
    \/ r.kind = "delete" /\ r.status # "ok" /\ e \in Thread!Ids(r.items)
CallsBring(c, e) == \E n \in HSlots : Brings(c[n], e)

\* An event will.
Heralds(ws, e) == e \notin Own /\ \E k \in DOMAIN ws : ws[k].kind = "created" /\ ws[k].entry = e

AllThere(l, lst, c, ws, rw) ==
    \A e \in Entry : rw[e].state = "live" =>
      e \in Thread!Ids(l) \/ e \in lst \/ Heralds(ws, e) \/ CallsBring(c, e)

\* What an event takes away is gone.
TakenAway(e, rw) ==
    rw[e].state = "gone" /\ \A d \in Thread!Below(e) : rw[d].state # "live"
GoneFor(ws, rw) ==
    \A k \in DOMAIN ws : ws[k].kind = "deleted" => TakenAway(ws[k].entry, rw)

ThreadInv ==
    /\ ThreadShape
    /\ OnceBut(store, part3)
    /\ GoneFor(wire, row)
    /\ AllThere(store, part4, call, wire, row)

-----------------------------------------------------------------------------
LEMMA LineAt ==
  ASSUME NEW l \in Seq(Lines)
  PROVE  /\ Len(l) \in Nat /\ DOMAIN l = 1..Len(l) /\ DOMAIN l \subseteq Nat
         /\ \A k \in DOMAIN l : l[k] \in Lines /\ l[k].id \in Entry /\ l[k].text \in Nat
  <1>1. Len(l) \in Nat /\ DOMAIN l = 1..Len(l) /\ \A k \in DOMAIN l : l[k] \in Lines
    BY LenProperties, ElementOfSeq
  <1> QED  BY <1>1 DEF Lines

LEMMA LinesKept ==
  ASSUME NEW l \in Seq(Lines), NEW K, NEW r, r = Thread!Kept(l, K)
  PROVE  /\ r \in Seq(Lines)
         /\ \A k \in DOMAIN r : \E j \in DOMAIN l : j \in K /\ r[k] = l[j]
         /\ \A j \in DOMAIN l : j \in K => \E k \in DOMAIN r : r[k] = l[j]
         /\ \A S : OnceBut(l, S) => OnceBut(r, S)
  <1>1. r = Kept(l, K)
    BY DEF Thread!Kept, Kept
  <1>2. r \in Seq(Lines) /\ \E p : Positions(l, K, Len(l), r, p)
    BY <1>1, KeptAll
  <1>3. PICK p : Positions(l, K, Len(l), r, p)
    BY <1>2
  <1>4. DOMAIN l = 1..Len(l) /\ DOMAIN r = 1..Len(r)
    BY <1>2, LineAt
  <1>5. /\ \A k \in DOMAIN r : p[k] \in DOMAIN l /\ p[k] \in K /\ r[k] = l[p[k]]
        /\ \A j \in DOMAIN l : j \in K => \E k \in DOMAIN r : p[k] = j
        /\ \A j, k \in DOMAIN r : j < k => p[j] < p[k]
    BY <1>3, <1>4 DEF Positions
  <1>6. ASSUME NEW S, OnceBut(l, S)
        PROVE  OnceBut(r, S)
    BY <1>5, <1>6 DEF OnceBut
  <1> QED  BY <1>2, <1>5, <1>6

LEMMA LinesWithout ==
  ASSUME NEW l \in Seq(Lines), NEW S, NEW r, r = Thread!Without(l, S)
  PROVE  /\ r \in Seq(Lines) /\ Thread!Ids(r) = Thread!Ids(l) \ S
         /\ \A T : OnceBut(l, T) => OnceBut(r, T)
  <1>1. PICK K : K = {k \in DOMAIN l : l[k].id \notin S}
    OBVIOUS
  <1>2. r = Thread!Kept(l, K)
    BY <1>1 DEF Thread!Without
  <1>3. /\ r \in Seq(Lines)
        /\ \A k \in DOMAIN r : \E j \in DOMAIN l : j \in K /\ r[k] = l[j]
        /\ \A j \in DOMAIN l : j \in K => \E k \in DOMAIN r : r[k] = l[j]
        /\ \A T : OnceBut(l, T) => OnceBut(r, T)
    BY <1>2, LinesKept
  <1>4. Thread!Ids(r) \subseteq Thread!Ids(l) \ S
    BY <1>1, <1>3 DEF Thread!Ids
  <1>5. Thread!Ids(l) \ S \subseteq Thread!Ids(r)
    BY <1>1, <1>3 DEF Thread!Ids
  <1> QED  BY <1>3, <1>4, <1>5

LEMMA LinesRetexted ==
  ASSUME NEW l \in Seq(Lines), NEW e, NEW t \in Nat, NEW r, r = Thread!Retexted(l, e, t)
  PROVE  /\ r \in Seq(Lines) /\ Thread!Ids(r) = Thread!Ids(l)
         /\ \A T : OnceBut(l, T) => OnceBut(r, T)
  <1>1. PICK n \in Nat : n = Len(l)
    BY LineAt
  <1>2. DOMAIN l = 1..n /\ DOMAIN r = 1..n /\ DOMAIN l = DOMAIN r
    BY <1>1, LineAt DEF Thread!Retexted
  <1>3. \A k \in DOMAIN l : r[k] = IF l[k].id = e THEN Thread!Line(e, t) ELSE l[k]
    BY DEF Thread!Retexted
  <1>4. \A k \in DOMAIN l : r[k] \in Lines /\ r[k].id = l[k].id
    <2> TAKE k \in DOMAIN l
    <2>1. PICK x : x = l[k] /\ x \in Lines /\ x.id \in Entry
      BY LineAt
    <2>2. PICK y : y = [id |-> e, text |-> t]
      OBVIOUS
    <2>3. r[k] = IF x.id = e THEN y ELSE x
      BY <1>3, <2>1, <2>2 DEF Thread!Line
    <2>4. x.id = e => y \in Lines /\ y.id = x.id
      BY <2>1, <2>2 DEF Lines
    <2> QED  BY <2>1, <2>3, <2>4
  <1>5. r \in Seq(Lines)
    <2>1. r = [k \in 1..n |-> r[k]]
      BY <1>2 DEF Thread!Retexted
    <2>2. r \in [1..n -> Lines]
      BY <1>2, <1>4, <2>1
    <2> QED  BY <1>1, <2>2
  <1>6. Thread!Ids(r) = Thread!Ids(l)
    BY <1>2, <1>4 DEF Thread!Ids
  <1> QED  BY <1>2, <1>4, <1>5, <1>6 DEF OnceBut

LEMMA LinesAppended ==
  ASSUME NEW l \in Seq(Lines), NEW e \in Entry, NEW t \in Nat, NEW r, r = Thread!Appended(l, e, t)
  PROVE  /\ r \in Seq(Lines) /\ Thread!Ids(r) = Thread!Ids(l) \cup {e}
         /\ \A T : OnceBut(l, T) => OnceBut(r, T)
  <1>1. CASE e \in Thread!Ids(l)
    BY <1>1 DEF Thread!Appended
  <1>2. CASE e \notin Thread!Ids(l)
    <2>1. PICK x : x = Thread!Line(e, t) /\ x \in Lines /\ x.id = e
      <3>1. PICK x : x = [id |-> e, text |-> t]
        OBVIOUS
      <3>2. x \in Lines /\ x.id = e
        BY <3>1 DEF Lines
      <3> QED  BY <3>1, <3>2 DEF Thread!Line
    <2>2. r = Append(l, x)
      BY <1>2, <2>1 DEF Thread!Appended
    <2>3. PICK n \in Nat : n = Len(l)
      BY LineAt
    <2>4. /\ r \in Seq(Lines) /\ Len(r) = n + 1
          /\ \A k \in 1..n : r[k] = l[k]
          /\ r[n + 1] = x
      BY <2>1, <2>2, <2>3, AppendProperties
    <2>5. DOMAIN l = 1..n /\ DOMAIN r = (1..n) \cup {n + 1} /\ \A k \in 1..n : ~(n + 1 < k)
      BY <2>3, <2>4, LineAt
    <2>6. Thread!Ids(r) = Thread!Ids(l) \cup {e}
      BY <2>1, <2>4, <2>5 DEF Thread!Ids
    <2>7. \A k \in 1..n : l[k].id # e
      BY <1>2, <2>5 DEF Thread!Ids
    <2>8. ASSUME NEW T, OnceBut(l, T)
          PROVE  OnceBut(r, T)
      BY <2>1, <2>4, <2>5, <2>7, <2>8 DEF OnceBut
    <2> QED  BY <2>4, <2>6, <2>8
  <1> QED  BY <1>1, <1>2

LEMMA LinesPutBack ==
  ASSUME NEW l \in Seq(Lines), NEW x \in Seq(Lines), NEW r, r = l \o x
  PROVE  /\ r \in Seq(Lines) /\ Thread!Ids(r) = Thread!Ids(l) \cup Thread!Ids(x)
         /\ \A T : OnceBut(l, T) => OnceBut(r, T \cup Thread!Ids(x))
  <1>1. PICK n, m \in Nat : n = Len(l) /\ m = Len(x)
    BY LineAt
  <1>2. /\ r \in Seq(Lines) /\ Len(r) = n + m
        /\ \A k \in 1..(n + m) : r[k] = IF k <= n THEN l[k] ELSE x[k - n]
    BY <1>1, ConcatProperties
  <1>3. DOMAIN l = 1..n /\ DOMAIN x = 1..m /\ DOMAIN r = 1..(n + m)
    BY <1>1, <1>2, LineAt
  <1>4. /\ \A k \in 1..n : k \in 1..(n + m) /\ r[k] = l[k]
        /\ \A k \in 1..m : k + n \in 1..(n + m) /\ r[k + n] = x[k]
    BY <1>2
  <1>5. \A k \in 1..(n + m) : \/ k \in 1..n /\ r[k] = l[k]
                              \/ k - n \in 1..m /\ r[k] = x[k - n]
    BY <1>2
  <1>6. Thread!Ids(r) = Thread!Ids(l) \cup Thread!Ids(x)
    <2>1. Thread!Ids(r) \subseteq Thread!Ids(l) \cup Thread!Ids(x)
      BY <1>3, <1>5 DEF Thread!Ids
    <2>2. Thread!Ids(l) \subseteq Thread!Ids(r)
      BY <1>3, <1>4 DEF Thread!Ids
    <2>3. Thread!Ids(x) \subseteq Thread!Ids(r)
      <3> SUFFICES ASSUME NEW k \in 1..m
                   PROVE  x[k].id \in Thread!Ids(r)
        BY <1>3 DEF Thread!Ids
      <3>1. k + n \in DOMAIN r /\ r[k + n].id = x[k].id
        BY <1>3, <1>4
      <3> QED  BY <3>1 DEF Thread!Ids
    <2> QED  BY <2>1, <2>2, <2>3
  <1>7. ASSUME NEW T, OnceBut(l, T), NEW j \in DOMAIN r, NEW k \in DOMAIN r, j < k, r[j].id = r[k].id
        PROVE  r[j].id \in T \cup Thread!Ids(x)
    <2>1. CASE k \in 1..n
      <3>1. j \in 1..n /\ r[j] = l[j] /\ r[k] = l[k]
        BY <1>3, <1>4, <1>7, <2>1
      <3> QED  BY <1>3, <1>7, <2>1, <3>1 DEF OnceBut
    <2>2. CASE k \notin 1..n
      BY <1>3, <1>5, <1>7, <2>2 DEF Thread!Ids
    <2> QED  BY <2>1, <2>2
  <1> QED  BY <1>2, <1>6, <1>7 DEF OnceBut

LEMMA LinesListed ==
  ASSUME ThreadRows(row), NEW r, r = Thread!Listing
  PROVE  /\ r \in Seq(Lines) /\ OnceBut(r, {})
         /\ \A e \in Entry : row[e].state = "live" => e \in Thread!Ids(r)
  <1>1. PICK n \in Nat : Entry = 1..n
    BY EntriesNumbered, FS_CardinalityType
  <1>2. PICK s : s = [e \in Entry |-> Thread!Line(e, row[e].text)]
    OBVIOUS
  <1>3. \A e \in Entry : s[e] \in Lines /\ s[e].id = e
    BY <1>2 DEF ThreadRows, ThreadRow, Thread!Line, Lines
  <1>4. s \in Seq(Lines) /\ DOMAIN s = Entry
    <2>1. s \in [1..n -> Lines]
      BY <1>1, <1>2, <1>3
    <2> QED  BY <2>1, <1>1
  <1>5. OnceBut(s, {})
    BY <1>1, <1>3, <1>4 DEF OnceBut
  <1>6. r = Thread!Kept(s, Thread!Live)
    BY <1>2 DEF Thread!Listing
  <1>7. /\ r \in Seq(Lines)
        /\ \A j \in DOMAIN s : j \in Thread!Live => \E k \in DOMAIN r : r[k] = s[j]
        /\ \A S : OnceBut(s, S) => OnceBut(r, S)
    BY <1>4, <1>6, LinesKept
  <1>8. \A e \in Entry : row[e].state = "live" => e \in Thread!Ids(r)
    BY <1>3, <1>4, <1>7 DEF Thread!Ids, Thread!Live
  <1> QED  BY <1>5, <1>7, <1>8

-----------------------------------------------------------------------------
(* Requests.                                                               *)

LEMMA ThreadRequest ==
  ASSUME NEW k, NEW e
  PROVE  Thread!Request(k, e) = [kind |-> k, status |-> "sent", entry |-> e, text |-> 0,
                                 items |-> <<>>, mounted |-> TRUE]
  <1>1. PICK v : v = <<>>
    OBVIOUS
  <1>2. PICK i : /\ i = Thread!Idle
                 /\ i = [kind |-> "idle", status |-> "idle", entry |-> 0, text |-> 0, items |-> v,
                         mounted |-> FALSE]
    BY <1>1 DEF Thread!Idle
  <1>3. PICK r : r = Thread!Request(k, e)
    OBVIOUS
  <1>4. r = [i EXCEPT !.kind = k, !.entry = e, !.status = "sent", !.mounted = TRUE]
    BY <1>2, <1>3 DEF Thread!Request
  <1>5. r = [kind |-> k, status |-> "sent", entry |-> e, text |-> 0, items |-> v, mounted |-> TRUE]
    <2>1. i = [kind |-> "idle", status |-> "idle", entry |-> 0, text |-> 0, items |-> v,
               mounted |-> FALSE]
      BY <1>2
    <2> QED  BY <1>4, <2>1
  <1> QED  BY <1>1, <1>3, <1>5

LEMMA ThreadIdle ==
  /\ ThreadCall(Thread!Idle) /\ Thread!Idle.kind = "idle"
  /\ \A k, e : k \notin {"edit", "delete"} =>
       /\ ThreadCall(Thread!Request(k, e))
       /\ Thread!Request(k, e).kind = k /\ Thread!Request(k, e).status = "sent"
  <1>1. <<>> \in Seq(Lines)
    BY EmptySeq
  <1>2. \A k, e : Thread!Request(k, e) = [kind |-> k, status |-> "sent", entry |-> e, text |-> 0,
                                         items |-> <<>>, mounted |-> TRUE]
    BY ThreadRequest
  <1>3. ASSUME NEW k, NEW e, k \notin {"edit", "delete"}
        PROVE  /\ ThreadCall(Thread!Request(k, e))
               /\ Thread!Request(k, e).kind = k /\ Thread!Request(k, e).status = "sent"
    <2>1. PICK r : /\ r = Thread!Request(k, e)
                   /\ r = [kind |-> k, status |-> "sent", entry |-> e, text |-> 0,
                           items |-> <<>>, mounted |-> TRUE]
      BY <1>2
    <2>2. ThreadCall(r)
      BY <1>1, <1>3, <2>1 DEF ThreadCall
    <2> QED  BY <2>1, <2>2
  <1>4. ThreadCall(Thread!Idle) /\ Thread!Idle.kind = "idle"
    BY <1>1 DEF ThreadCall, Thread!Idle
  <1> QED  BY <1>3, <1>4

\* A request becomes r; what it would have brought is another's to bring.
LEMMA ThreadCallSet ==
  ASSUME NEW c, ThreadCalls(c), NEW n \in HSlots, NEW r, ThreadCall(r), NEW d, d = [c EXCEPT ![n] = r]
  PROVE  /\ ThreadCalls(d) /\ d[n] = r
         /\ \A e : CallsBring(c, e) => CallsBring(d, e) \/ Brings(c[n], e)
  <1>1. /\ d = [m \in HSlots |-> d[m]] /\ d[n] = r
        /\ \A m \in HSlots : m # n => d[m] = c[m]
    BY DEF ThreadCalls
  <1>2. ThreadCalls(d)
    BY <1>1 DEF ThreadCalls
  <1>3. \A e : CallsBring(c, e) => CallsBring(d, e) \/ Brings(c[n], e)
    BY <1>1 DEF CallsBring
  <1> QED  BY <1>1, <1>2, <1>3

\* The rows that asked leave the screen.
LEMMA ThreadUnmounted ==
  ASSUME NEW c, ThreadCalls(c), NEW d, d = [n \in HSlots |-> d[n]],
         \A n \in HSlots : d[n] = c[n] \/ d[n] = [c[n] EXCEPT !.mounted = FALSE]
  PROVE  ThreadCalls(d) /\ \A e : CallsBring(c, e) => CallsBring(d, e)
  <1>1. ASSUME NEW n \in HSlots
        PROVE  ThreadCall(d[n]) /\ \A e : Brings(c[n], e) => Brings(d[n], e)
    <2>1. PICK r, y : r = c[n] /\ ThreadCall(r) /\ y = d[n]
      BY DEF ThreadCalls
    <2>2. CASE y = r
      BY <2>1, <2>2
    <2>3. CASE y = [r EXCEPT !.mounted = FALSE]
      <3>1. y = [kind |-> r.kind, status |-> r.status, entry |-> r.entry, text |-> r.text,
                 items |-> r.items, mounted |-> FALSE]
        BY <2>1, <2>3 DEF ThreadCall
      <3>2. /\ y.kind = r.kind /\ y.status = r.status /\ y.entry = r.entry /\ y.text = r.text
            /\ y.items = r.items
        BY <3>1
      <3>3. ThreadCall(y)
        BY <2>1, <3>1, <3>2 DEF ThreadCall
      <3>4. \A e : Brings(r, e) => Brings(y, e)
        BY <3>2 DEF Brings
      <3> QED  BY <2>1, <3>3, <3>4
    <2> QED  BY <2>1, <2>2, <2>3
  <1>2. ThreadCalls(d)
    BY <1>1 DEF ThreadCalls
  <1> QED  BY <1>1, <1>2 DEF CallsBring

LEMMA ThreadSent ==
  ASSUME ThreadCalls(call), NEW n \in HSlots, NEW r, ThreadCall(r), Thread!Send(n, r)
  PROVE  /\ ThreadCalls(call') /\ call'[n] = r
         /\ \A e : CallsBring(call, e) => CallsBring(call', e)
  <1>1. call' = [call EXCEPT ![n] = r] /\ call[n].kind = "idle"
    BY DEF Thread!Send, Thread!Free, HSlots
  <1>2. /\ ThreadCalls(call') /\ call'[n] = r
        /\ \A e : CallsBring(call, e) => CallsBring(call', e) \/ Brings(call[n], e)
    <2>1. PICK d : d = call' /\ d = [call EXCEPT ![n] = r]
      BY <1>1
    <2>2. /\ ThreadCalls(d) /\ d[n] = r
          /\ \A e : CallsBring(call, e) => CallsBring(d, e) \/ Brings(call[n], e)
      BY <2>1, ThreadCallSet
    <2> QED  BY <2>1, <2>2
  <1>3. \A e : ~Brings(call[n], e)
    BY <1>1 DEF Brings
  <1> QED  BY <1>2, <1>3

LEMMA ThreadFreed ==
  ASSUME ThreadCalls(call), NEW n \in HSlots, NEW d, d = [call EXCEPT ![n] = Thread!Idle]
  PROVE  /\ ThreadCalls(d)
         /\ \A e : CallsBring(call, e) => CallsBring(d, e) \/ Brings(call[n], e)
  BY ThreadIdle, ThreadCallSet

\* What is drawn, with the requests c.
LEMMA ThreadRendered ==
  ASSUME NEW l, NEW c, ThreadCalls(c), Thread!Render(l, c)
  PROVE  /\ store' = l /\ ThreadCalls(call')
         /\ \A e : CallsBring(c, e) => CallsBring(call', e)
  <1>1. PICK S : store' = l /\ call' = Thread!Unmounted(c, S)
    BY DEF Thread!Render
  <1>2. /\ call' = [n \in HSlots |-> call'[n]]
        /\ \A n \in HSlots : call'[n] = c[n] \/ call'[n] = [c[n] EXCEPT !.mounted = FALSE]
    BY <1>1 DEF Thread!Unmounted, HSlots
  <1> QED  BY <1>1, <1>2, ThreadUnmounted

-----------------------------------------------------------------------------
(* The steps.                                                              *)

\* Nothing that exists leaves the screen without being on its way back.
LEMMA ThreadQuiet ==
  ASSUME ThreadInv, UNCHANGED <<wire, row, part3>>, ThreadCalls(call'),
         store' \in Seq(Lines), OnceBut(store', part3'), part4 \subseteq part4',
         \A e : e \in Thread!Ids(store) =>
                e \in Thread!Ids(store') \/ e \in part4' \/ CallsBring(call', e),
         \A e \in Entry : row[e].state = "live" /\ CallsBring(call, e) =>
                e \in Thread!Ids(store') \/ e \in part4' \/ CallsBring(call', e)
  PROVE  ThreadInv'
  <1>1. ThreadShape'
    BY DEF ThreadInv, ThreadShape
  <1>2. OnceBut(store', part3') /\ GoneFor(wire', row')
    BY DEF ThreadInv
  <1>3. AllThere(store', part4', call', wire', row')
    BY DEF ThreadInv, AllThere
  <1> QED  BY <1>1, <1>2, <1>3 DEF ThreadInv

LEMMA ThreadOpened ==
  ASSUME Thread!Init
  PROVE  ThreadInv
  <1>1. store = <<>> /\ wire = <<>> /\ part3 = {} /\ part4 = {}
    BY DEF Thread!Init
  <1>2. <<>> \in Seq(Lines) /\ <<>> \in Seq(News) /\ DOMAIN <<>> = {}
    BY EmptySeq
  <1>3. ThreadRows(row)
    <2>1. PICK S : row = [e \in Entry |-> [state |-> IF e \in S THEN "live" ELSE "new", text |-> 0]]
      BY DEF Thread!Init
    <2> QED  BY <2>1 DEF ThreadRows, ThreadRow
  <1>4. PICK r : r = Thread!Request("list", 0) /\ ThreadCall(r) /\ r.kind = "list" /\ r.status = "sent"
    BY ThreadIdle
  <1>5. call = [n \in HSlots |-> IF n = 1 THEN r ELSE Thread!Idle] /\ 1 \in HSlots
    BY <1>4, FirstRequests DEF Thread!Init, HSlots
  <1>6. ThreadCalls(call)
    BY <1>4, <1>5, ThreadIdle DEF ThreadCalls
  <1>7. \A e : CallsBring(call, e)
    <2>1. \A e : Brings(r, e) /\ call[1] = r
      BY <1>4, <1>5 DEF Brings
    <2> QED  BY <1>5, <2>1 DEF CallsBring
  <1>8. ThreadShape
    BY <1>1, <1>2, <1>3, <1>6 DEF ThreadShape
  <1>9. OnceBut(store, part3) /\ GoneFor(wire, row)
    BY <1>1, <1>2 DEF OnceBut, GoneFor
  <1> QED  BY <1>7, <1>8, <1>9 DEF ThreadInv, AllThere

LEMMA ThreadSubmitted ==
  ASSUME ThreadInv, NEW p, NEW n \in HSlots, Thread!Submit(p, n)
  PROVE  ThreadInv'
  <1>1. /\ UNCHANGED <<store, wire, row, part3, part4>>
        /\ Thread!Send(n, Thread!Request("create", p))
    BY DEF Thread!Submit
  <1>2. ThreadCalls(call) /\ ThreadCall(Thread!Request("create", p))
    BY ThreadIdle DEF ThreadInv, ThreadShape
  <1>3. ThreadCalls(call') /\ \A e : CallsBring(call, e) => CallsBring(call', e)
    BY <1>1, <1>2, ThreadSent
  <1> QED  BY <1>1, <1>3, ThreadQuiet DEF ThreadInv, ThreadShape

LEMMA ThreadFolded ==
  ASSUME ThreadInv, NEW p, Thread!ToggleThread(p)
  PROVE  ThreadInv'
  <1>1. UNCHANGED <<store, wire, row, part3, part4>> /\ ThreadCalls(call)
    BY DEF Thread!ToggleThread, ThreadInv, ThreadShape
  <1>2. \/ call' = call
        \/ /\ call' = [n \in HSlots |-> call'[n]]
           /\ \A n \in HSlots : call'[n] = call[n] \/ call'[n] = [call[n] EXCEPT !.mounted = FALSE]
    BY DEF Thread!ToggleThread, HSlots
  <1>3. ThreadCalls(call') /\ \A e : CallsBring(call, e) => CallsBring(call', e)
    BY <1>1, <1>2, ThreadUnmounted
  <1> QED  BY <1>1, <1>3, ThreadQuiet DEF ThreadInv, ThreadShape

\* An entry that is shown has a last position.
LEMMA LastLine ==
  ASSUME store \in Seq(Lines), NEW e, e \in Thread!Ids(store)
  PROVE  store[Thread!LastAt(e)] \in Lines /\ e \in Entry
  <1>1. PICK K : K = {k \in DOMAIN store : store[k].id = e}
    OBVIOUS
  <1>2. PICK n : n = Len(store) /\ n \in Nat /\ DOMAIN store = 1..n
    BY LineAt
  <1>3. K \in SUBSET Nat /\ K # {} /\ \A k \in K : k <= n
    BY <1>1, <1>2 DEF Thread!Ids
  <1>4. PICK k \in K : \A j \in K : j <= k
    BY <1>2, <1>3, GreatestOf
  <1>5. Thread!LastAt(e) \in DOMAIN store
    BY <1>1, <1>4 DEF Thread!LastAt
  <1>6. e \in Entry
    BY <1>1, <1>4, LineAt
  <1> QED  BY <1>5, <1>6, LineAt

LEMMA ThreadEdits ==
  ASSUME ThreadInv, NEW e, NEW n \in HSlots, Thread!SaveEdit(n, e, 1)
  PROVE  ThreadInv'
  <1>1. /\ store \in Seq(Lines) /\ ThreadCalls(call) /\ OnceBut(store, part3)
        /\ UNCHANGED <<wire, row, part3, part4>>
        /\ e \in Thread!Ids(store)
    BY DEF Thread!SaveEdit, Thread!Shown, ThreadInv, ThreadShape
  <1>2. PICK x : x = store[Thread!LastAt(e)] /\ x \in Lines /\ x.text \in Nat /\ e \in Entry
    BY <1>1, LastLine DEF Lines
  <1>3. PICK y, r, q : /\ y = Thread!Line(e, x.text) /\ q = Thread!Request("edit", e)
                       /\ r = [q EXCEPT !.text = 1, !.items = <<y>>]
                       /\ Thread!Send(n, r)
    BY <1>2 DEF Thread!SaveEdit
  <1>4. ThreadCall(r)
    <2>1. y \in Lines /\ y.text \in Nat
      BY <1>2, <1>3 DEF Thread!Line, Lines
    <2>2. <<y>> \in Seq(Lines) /\ <<y>>[1] = y
      BY <2>1
    <2>3. q = [kind |-> "edit", status |-> "sent", entry |-> e, text |-> 0, items |-> <<>>,
               mounted |-> TRUE]
      BY <1>3, ThreadRequest
    <2>4. PICK v : v = <<y>>
      OBVIOUS
    <2>5. r = [kind |-> "edit", status |-> "sent", entry |-> e, text |-> 1, items |-> v,
               mounted |-> TRUE]
      <3>1. PICK u : u = <<>>
        OBVIOUS
      <3>2. q = [kind |-> "edit", status |-> "sent", entry |-> e, text |-> 0, items |-> u,
                 mounted |-> TRUE]
        BY <2>3, <3>1
      <3>3. r = [q EXCEPT !.text = 1, !.items = v]
        BY <1>3, <2>4
      <3> QED  BY <3>2, <3>3
    <2> QED  BY <2>1, <2>2, <2>4, <2>5 DEF ThreadCall
  <1>5. ThreadCalls(call') /\ \A d : CallsBring(call, d) => CallsBring(call', d)
    BY <1>1, <1>3, <1>4, ThreadSent
  <1>6. PICK l : l = store' /\ l = Thread!Retexted(store, e, 1)
    BY DEF Thread!SaveEdit
  <1>7. l \in Seq(Lines) /\ Thread!Ids(l) = Thread!Ids(store) /\ OnceBut(l, part3)
    BY <1>1, <1>6, LinesRetexted
  <1> QED  BY <1>1, <1>5, <1>6, <1>7, ThreadQuiet

LEMMA ThreadDeletes ==
  ASSUME ThreadInv, NEW n \in HSlots, Thread!ConfirmDelete(n)
  PROVE  ThreadInv'
  <1>1. /\ store \in Seq(Lines) /\ ThreadCalls(call) /\ OnceBut(store, part3)
        /\ UNCHANGED <<wire, row, part3, part4>>
        /\ call[n].kind = "idle"
    BY DEF Thread!ConfirmDelete, Thread!Free, ThreadInv, ThreadShape, HSlots
  <1>2. PICK a, B, l, x, q, r, c :
          /\ a = part2.asking /\ B = Thread!Below(a)
          /\ l = Thread!Without(store, B) /\ x = Thread!Without(store, Entry \ B)
          /\ q = Thread!Request("delete", a) /\ r = [q EXCEPT !.items = x]
          /\ c = [call EXCEPT ![n] = r]
          /\ Thread!Render(l, c)
    BY DEF Thread!ConfirmDelete
  <1>3. /\ l \in Seq(Lines) /\ Thread!Ids(l) = Thread!Ids(store) \ B /\ OnceBut(l, part3)
        /\ x \in Seq(Lines) /\ Thread!Ids(x) = Thread!Ids(store) \ (Entry \ B)
    BY <1>1, <1>2, LinesWithout
  <1>4. \A e \in Thread!Ids(store) : e \in Entry
    BY <1>1, LineAt DEF Thread!Ids
  <1>5. Thread!Ids(x) \subseteq B /\ \A e \in Thread!Ids(store) : e \in Thread!Ids(l) \/ e \in Thread!Ids(x)
    BY <1>3, <1>4
  <1>6. PICK v : q = [kind |-> "delete", status |-> "sent", entry |-> a, text |-> 0, items |-> v,
                      mounted |-> TRUE]
    BY <1>2, ThreadRequest
  <1>7. r = [kind |-> "delete", status |-> "sent", entry |-> a, text |-> 0, items |-> x,
             mounted |-> TRUE]
    <2>1. r = [q EXCEPT !.items = x]
      BY <1>2
    <2> QED  BY <2>1, <1>6
  <1>8. ThreadCall(r)
    <2>1. x \in Seq(Lines) /\ Thread!Ids(x) \subseteq Thread!Below(a)
      BY <1>2, <1>3, <1>5
    <2> QED  BY <2>1, <1>7 DEF ThreadCall
  <1>9. \A e \in Thread!Ids(x) : Brings(r, e)
    BY <1>7 DEF Brings
  <1>10. /\ ThreadCalls(c) /\ c[n] = r
         /\ \A e : CallsBring(call, e) => CallsBring(c, e) \/ Brings(call[n], e)
    <2>1. c = [call EXCEPT ![n] = r]
      BY <1>2
    <2>2. ThreadCalls(call)
      BY <1>1
    <2> QED  BY <2>1, <2>2, <1>8, ThreadCallSet
  <1>11. \A e : ~Brings(call[n], e)
    BY <1>1 DEF Brings
  <1>12. /\ store' = l /\ ThreadCalls(call')
         /\ \A e : CallsBring(c, e) => CallsBring(call', e)
    BY <1>2, <1>10, ThreadRendered
  <1>13. \A e \in Thread!Ids(x) : CallsBring(c, e)
    BY <1>9, <1>10 DEF CallsBring
  <1> QED  BY <1>1, <1>3, <1>5, <1>10, <1>11, <1>12, <1>13, ThreadQuiet

\* An event joins those on their way.
LEMMA ThreadTold ==
  ASSUME NEW ws \in Seq(News), NEW x \in News, NEW xs, xs = Append(ws, x)
  PROVE  /\ xs \in Seq(News)
         /\ \A e : Heralds(ws, e) => Heralds(xs, e)
         /\ x.kind = "created" /\ x.entry \notin Own => Heralds(xs, x.entry)
         /\ \A rw : GoneFor(ws, rw) /\ (x.kind = "deleted" => TakenAway(x.entry, rw)) =>
                     GoneFor(xs, rw)
  <1>1. PICK n \in Nat : n = Len(ws)
    BY LenProperties
  <1>2. /\ xs \in Seq(News) /\ DOMAIN ws = 1..n /\ DOMAIN xs = (1..n) \cup {n + 1}
        /\ xs[n + 1] = x /\ \A k \in 1..n : xs[k] = ws[k]
    BY <1>1, AppendProperties, LenProperties
  <1>3. \A e : Heralds(ws, e) => Heralds(xs, e)
    BY <1>2 DEF Heralds
  <1>4. x.kind = "created" /\ x.entry \notin Own => Heralds(xs, x.entry)
    BY <1>2 DEF Heralds
  <1>5. ASSUME NEW rw, GoneFor(ws, rw), x.kind = "deleted" => TakenAway(x.entry, rw)
        PROVE  GoneFor(xs, rw)
    BY <1>2, <1>5 DEF GoneFor
  <1> QED  BY <1>2, <1>3, <1>4, <1>5

LEMMA NewsAt ==
  ASSUME NEW ws \in Seq(News)
  PROVE  \A k \in DOMAIN ws : ws[k] \in News /\ ws[k].entry \in Entry
  <1>1. \A k \in DOMAIN ws : ws[k] \in News
    BY LenProperties, ElementOfSeq
  <1> QED  BY <1>1 DEF News

LEMMA ThreadEvent ==
  ASSUME ThreadRows(row'), NEW e \in Entry, NEW k \in {"created", "updated", "deleted"},
         NEW x, x = Thread!Event(k, e)
  PROVE  x \in News /\ x.kind = k /\ x.entry = e
  <1>1. PICK t : t = row'[e].text /\ t \in Nat
    BY DEF ThreadRows, ThreadRow
  <1>2. x = [kind |-> k, entry |-> e, text |-> t]
    BY <1>1 DEF Thread!Event
  <1> QED  BY <1>1, <1>2 DEF News

\* An entry comes into being: nothing it belongs to is gone.
LEMMA ThreadBorn ==
  ASSUME ThreadRows(row), NEW e \in Entry, Thread!Fresh(e), row' = [row EXCEPT ![e].state = "live"],
         NEW ws \in Seq(News), GoneFor(ws, row)
  PROVE  /\ ThreadRows(row') /\ GoneFor(ws, row')
         /\ \A d \in Entry : row'[d].state = "live" => row[d].state = "live" \/ d = e
  <1>1. PICK r, y : r = row[e] /\ ThreadRow(r) /\ y = [r EXCEPT !.state = "live"]
    BY DEF ThreadRows
  <1>2. y = [state |-> "live", text |-> r.text] /\ r.text \in Nat
    BY <1>1 DEF ThreadRow
  <1>3. row' = [row EXCEPT ![e] = y]
    BY <1>1
  <1>4. /\ row' = [d \in Entry |-> row'[d]] /\ row'[e] = y
        /\ \A d \in Entry : d # e => row'[d] = row[d]
    BY <1>3 DEF ThreadRows
  <1>5. ThreadRows(row')
    BY <1>2, <1>4 DEF ThreadRows, ThreadRow
  <1>6. ASSUME NEW k \in DOMAIN ws, ws[k].kind = "deleted"
        PROVE  TakenAway(ws[k].entry, row')
    <2>1. PICK x \in Entry : /\ x = ws[k].entry /\ row[x].state = "gone"
                             /\ \A d \in Thread!Below(x) : row[d].state # "live"
      BY <1>6, NewsAt DEF GoneFor, TakenAway
    <2>2. row[e].state = "new" /\ (Parent[e] # 0 => row[Parent[e]].state = "live")
      BY DEF Thread!Fresh, Thread!Live
    <2>3. x # 0
      <3>1. PICK n \in Nat : Entry = 1..n
        BY EntriesNumbered, FS_CardinalityType
      <3> QED  BY <3>1
    <2>4. e \notin Thread!Below(x)
      BY <2>1, <2>2, <2>3 DEF Thread!Below
    <2>5. \A d \in Thread!Below(x) : d \in Entry /\ d # e
      BY <2>4 DEF Thread!Below
    <2>6. x # e
      BY <2>1, <2>2
    <2> QED  BY <2>1, <2>5, <2>6, <1>4 DEF TakenAway
  <1>7. GoneFor(ws, row')
    BY <1>6 DEF GoneFor
  <1> QED  BY <1>4, <1>5, <1>7

\* An entry is deleted with its replies.
LEMMA ThreadDied ==
  ASSUME ThreadRows(row), NEW e \in Thread!Live,
         row' = [d \in Entry |-> IF d \in Thread!Below(e) /\ d \in Thread!Live
                                 THEN [row[d] EXCEPT !.state = "gone"] ELSE row[d]],
         NEW ws \in Seq(News), GoneFor(ws, row)
  PROVE  /\ ThreadRows(row') /\ GoneFor(ws, row')
         /\ TakenAway(e, row')
         /\ \A d \in Entry : row'[d].state = "live" =>
              (row[d].state = "live" /\ d \notin Thread!Below(e))
  <1>1. ASSUME NEW d \in Entry
        PROVE  /\ ThreadRow(row'[d])
               /\ IF d \in Thread!Below(e) /\ d \in Thread!Live THEN row'[d].state = "gone"
                  ELSE row'[d].state = row[d].state
    <2>1. PICK r, y : r = row[d] /\ ThreadRow(r) /\ y = [r EXCEPT !.state = "gone"]
      BY DEF ThreadRows
    <2>2. y = [state |-> "gone", text |-> r.text] /\ r.text \in Nat
      BY <2>1 DEF ThreadRow
    <2>3. row'[d] = IF d \in Thread!Below(e) /\ d \in Thread!Live THEN y ELSE r
      BY <2>1
    <2> QED  BY <2>1, <2>2, <2>3 DEF ThreadRow
  <1>2. ThreadRows(row')
    BY <1>1 DEF ThreadRows
  <1>3. e \in Entry /\ e \in Thread!Below(e) /\ \A d \in Entry : d \in Thread!Live <=> row[d].state = "live"
    BY DEF Thread!Live, Thread!Below
  <1>4. \A d \in Entry :
          /\ row'[d].state = "live" => (row[d].state = "live" /\ d \notin Thread!Below(e))
          /\ row[d].state = "gone" => row'[d].state = "gone"
    BY <1>1, <1>3
  <1>5. \A x : \A d \in Thread!Below(x) : d \in Entry
    BY DEF Thread!Below
  <1>6. GoneFor(ws, row')
    <2> SUFFICES ASSUME NEW k \in DOMAIN ws, ws[k].kind = "deleted"
                 PROVE  TakenAway(ws[k].entry, row')
      BY DEF GoneFor
    <2>1. PICK x \in Entry : /\ x = ws[k].entry /\ row[x].state = "gone"
                             /\ \A d \in Thread!Below(x) : row[d].state # "live"
      BY NewsAt DEF GoneFor, TakenAway
    <2> QED  BY <2>1, <1>4, <1>5 DEF TakenAway
  <1>7. TakenAway(e, row')
    BY <1>1, <1>3, <1>4, <1>5 DEF TakenAway
  <1> QED  BY <1>2, <1>4, <1>6, <1>7

LEMMA SomeonePosted ==
  ASSUME ThreadInv, NEW e \in Entry, Thread!SomeonePosts(e)
  PROVE  ThreadInv'
  <1>1. /\ e \notin Own /\ Thread!Fresh(e) /\ row' = [row EXCEPT ![e].state = "live"]
        /\ UNCHANGED <<store, call, part3, part4>>
        /\ wire' = Append(wire, Thread!Event("created", e))
    BY DEF Thread!SomeonePosts, Thread!Publish
  <1>2. /\ store \in Seq(Lines) /\ wire \in Seq(News) /\ ThreadRows(row) /\ ThreadCalls(call)
        /\ GoneFor(wire, row) /\ AllThere(store, part4, call, wire, row)
    BY DEF ThreadInv, ThreadShape
  <1>3. /\ ThreadRows(row') /\ GoneFor(wire, row')
        /\ \A d \in Entry : row'[d].state = "live" => row[d].state = "live" \/ d = e
    BY <1>1, <1>2, ThreadBorn
  <1>4. PICK x : x = Thread!Event("created", e) /\ x \in News /\ x.kind = "created" /\ x.entry = e
    BY <1>3, ThreadEvent
  <1>5. PICK xs : xs = wire' /\ xs = Append(wire, x)
    BY <1>1, <1>4
  <1>6. /\ xs \in Seq(News) /\ (\A d : Heralds(wire, d) => Heralds(xs, d)) /\ Heralds(xs, e)
        /\ GoneFor(xs, row')
    <2>1. wire \in Seq(News) /\ x \in News /\ xs = Append(wire, x)
      BY <1>2, <1>4, <1>5
    <2>2. /\ xs \in Seq(News) /\ (\A d : Heralds(wire, d) => Heralds(xs, d))
          /\ x.kind = "created" /\ x.entry \notin Own => Heralds(xs, x.entry)
          /\ \A rw : GoneFor(wire, rw) /\ (x.kind = "deleted" => TakenAway(x.entry, rw)) =>
                      GoneFor(xs, rw)
      BY <2>1, ThreadTold
    <2> QED  BY <1>1, <1>3, <1>4, <2>2
  <1>7. ThreadShape'
    BY <1>1, <1>2, <1>3, <1>5, <1>6 DEF ThreadShape
  <1>8. AllThere(store', part4', call', wire', row')
    BY <1>1, <1>2, <1>3, <1>5, <1>6 DEF AllThere
  <1> QED  BY <1>1, <1>5, <1>6, <1>7, <1>8 DEF ThreadInv

LEMMA SomeoneDeleted ==
  ASSUME ThreadInv, NEW e \in Entry, Thread!SomeoneDeletes(e)
  PROVE  ThreadInv'
  <1>1. /\ e \in Thread!Live
        /\ UNCHANGED <<store, call, part3, part4>>
        /\ wire' = Append(wire, Thread!Event("deleted", e))
        /\ row' = [d \in Entry |-> IF d \in Thread!Below(e) /\ d \in Thread!Live
                                   THEN [row[d] EXCEPT !.state = "gone"] ELSE row[d]]
    BY DEF Thread!SomeoneDeletes, Thread!Publish
  <1>2. /\ store \in Seq(Lines) /\ wire \in Seq(News) /\ ThreadRows(row) /\ ThreadCalls(call)
        /\ GoneFor(wire, row) /\ AllThere(store, part4, call, wire, row)
    BY DEF ThreadInv, ThreadShape
  <1>3. /\ ThreadRows(row') /\ GoneFor(wire, row') /\ TakenAway(e, row')
        /\ \A d \in Entry : row'[d].state = "live" =>
             (row[d].state = "live" /\ d \notin Thread!Below(e))
    BY <1>1, <1>2, ThreadDied
  <1>4. PICK x : x = Thread!Event("deleted", e) /\ x \in News /\ x.kind = "deleted" /\ x.entry = e
    BY <1>3, ThreadEvent DEF Thread!Live
  <1>5. PICK xs : xs = wire' /\ xs = Append(wire, x)
    BY <1>1, <1>4
  <1>7. /\ xs \in Seq(News) /\ (\A d : Heralds(wire, d) => Heralds(xs, d))
        /\ GoneFor(xs, row')
    <2>1. wire \in Seq(News) /\ x \in News /\ xs = Append(wire, x)
      BY <1>2, <1>4, <1>5
    <2>2. /\ xs \in Seq(News) /\ (\A d : Heralds(wire, d) => Heralds(xs, d))
          /\ x.kind = "created" /\ x.entry \notin Own => Heralds(xs, x.entry)
          /\ \A rw : GoneFor(wire, rw) /\ (x.kind = "deleted" => TakenAway(x.entry, rw)) =>
                      GoneFor(xs, rw)
      BY <2>1, ThreadTold
    <2> QED  BY <1>1, <1>3, <1>4, <2>2
  <1>8. ThreadShape'
    BY <1>1, <1>2, <1>3, <1>5, <1>7 DEF ThreadShape
  <1>9. AllThere(store', part4', call', wire', row')
    BY <1>1, <1>2, <1>3, <1>5, <1>7 DEF AllThere
  <1> QED  BY <1>1, <1>5, <1>7, <1>8, <1>9 DEF ThreadInv

-----------------------------------------------------------------------------
(* The server answers.                                                     *)

LEMMA ThreadPublished ==
  ASSUME wire \in Seq(News), NEW x \in News, wire' = Append(wire, x), GoneFor(wire, row'),
         x.kind = "deleted" => TakenAway(x.entry, row')
  PROVE  /\ wire' \in Seq(News) /\ GoneFor(wire', row')
         /\ \A d : Heralds(wire, d) => Heralds(wire', d)
         /\ x.kind = "created" /\ x.entry \notin Own => Heralds(wire', x.entry)
  <1>1. PICK xs, rw : xs = wire' /\ rw = row' /\ xs = Append(wire, x)
    OBVIOUS
  <1>2. GoneFor(wire, rw) /\ (x.kind = "deleted" => TakenAway(x.entry, rw))
    BY <1>1
  <1>3. /\ xs \in Seq(News) /\ GoneFor(xs, rw)
        /\ \A d : Heralds(wire, d) => Heralds(xs, d)
        /\ x.kind = "created" /\ x.entry \notin Own => Heralds(xs, x.entry)
    <2>1. xs = Append(wire, x)
      BY <1>1
    <2>2. /\ xs \in Seq(News)
          /\ \A d : Heralds(wire, d) => Heralds(xs, d)
          /\ x.kind = "created" /\ x.entry \notin Own => Heralds(xs, x.entry)
          /\ \A q : GoneFor(wire, q) /\ (x.kind = "deleted" => TakenAway(x.entry, q)) =>
                     GoneFor(xs, q)
      BY <2>1, ThreadTold
    <2> QED  BY <1>2, <2>2
  <1> QED  BY <1>1, <1>3

\* An answer with the status s and the items x.
ThreadReply(c, d, n, s, x) ==
    /\ ThreadCalls(d)
    /\ d[n].kind = c[n].kind /\ d[n].entry = c[n].entry /\ d[n].status = s /\ d[n].items = x
    /\ \A e : CallsBring(c, e) => CallsBring(d, e) \/ Brings(c[n], e)

LEMMA ThreadAnswered ==
  ASSUME NEW c, ThreadCalls(c), NEW n \in HSlots, NEW s, NEW x \in Seq(Lines), NEW d,
         \/ d = [[c EXCEPT ![n].status = s] EXCEPT ![n].items = x]
         \/ d = [c EXCEPT ![n].status = s] /\ x = c[n].items,
         c[n].kind = "edit" => x[1].text \in Nat,
         c[n].kind = "create" /\ s = "ok" => x[1] \in Lines,
         c[n].kind = "list" /\ s = "ok" => OnceBut(x, {}),
         c[n].kind = "delete" => Thread!Ids(x) \subseteq Thread!Below(c[n].entry)
  PROVE  ThreadReply(c, d, n, s, x)
  <1>1. PICK r : r = c[n] /\ ThreadCall(r)
    BY DEF ThreadCalls
  <1>2. c = [m \in HSlots |-> c[m]]
    BY DEF ThreadCalls
  <1>3. PICK y : y = [kind |-> r.kind, status |-> s, entry |-> r.entry, text |-> r.text,
                      items |-> x, mounted |-> r.mounted]
    OBVIOUS
  <1>4. /\ r = [kind |-> r.kind, status |-> r.status, entry |-> r.entry, text |-> r.text,
                items |-> r.items, mounted |-> r.mounted]
        /\ r.text \in Nat
    BY <1>1 DEF ThreadCall
  <1>5. d = [c EXCEPT ![n] = y]
    <2>1. CASE d = [[c EXCEPT ![n].status = s] EXCEPT ![n].items = x]
      <3>1. PICK z : z = [kind |-> r.kind, status |-> s, entry |-> r.entry, text |-> r.text,
                          items |-> r.items, mounted |-> r.mounted]
        OBVIOUS
      <3>2. [r EXCEPT !.status = s] = z
        BY <3>1, <1>4
      <3>3. [z EXCEPT !.items = x] = y
        BY <3>1, <1>3
      <3>4. d = [[c EXCEPT ![n] = [r EXCEPT !.status = s]] EXCEPT ![n].items = x]
        BY <2>1, <1>1
      <3>5. [c EXCEPT ![n] = z] = [m \in HSlots |-> IF m = n THEN z ELSE c[m]]
        BY <1>2
      <3>6. d = [[c EXCEPT ![n] = z] EXCEPT ![n] = y]
        BY <3>2, <3>3, <3>4, <3>5
      <3>7. [[c EXCEPT ![n] = z] EXCEPT ![n] = y] = [m \in HSlots |-> IF m = n THEN y ELSE c[m]]
        BY <3>5
      <3>8. [c EXCEPT ![n] = y] = [m \in HSlots |-> IF m = n THEN y ELSE c[m]]
        BY <1>2
      <3> QED  BY <3>6, <3>7, <3>8
    <2>2. CASE d = [c EXCEPT ![n].status = s] /\ x = c[n].items
      <3>1. [r EXCEPT !.status = s] = y
        BY <2>2, <1>1, <1>3, <1>4
      <3> QED  BY <2>2, <3>1, <1>1
    <2> QED  BY <2>1, <2>2
  <1>6. /\ y.kind = r.kind /\ y.entry = r.entry /\ y.status = s /\ y.items = x
        /\ y.text = r.text
    BY <1>3
  <1>7. ThreadCall(y)
    BY <1>1, <1>3, <1>4, <1>6 DEF ThreadCall
  <1>8. /\ ThreadCalls(d) /\ d[n] = y
        /\ \A e : CallsBring(c, e) => CallsBring(d, e) \/ Brings(c[n], e)
    <2>1. ThreadCalls(c) /\ ThreadCall(y) /\ d = [c EXCEPT ![n] = y]
      BY <1>5, <1>7
    <2> QED  BY ONLY <2>1, n \in HSlots, ThreadCallSet
  <1> QED  BY <1>1, <1>6, <1>8 DEF ThreadReply

\* The answer without items of its own.
LEMMA ThreadPlain ==
  ASSUME ThreadCalls(call), NEW n \in HSlots, NEW s, call' = [call EXCEPT ![n].status = s],
         s = "ok" => call[n].kind \in {"edit", "delete"}
  PROVE  ThreadReply(call, call', n, s, call[n].items)
  <1>1. PICK r : r = call[n] /\ ThreadCall(r)
    BY DEF ThreadCalls
  <1>2. PICK x : x = r.items
    OBVIOUS
  <1>3. /\ x \in Seq(Lines)
        /\ r.kind = "edit" => x[1].text \in Nat
        /\ r.kind = "delete" => Thread!Ids(x) \subseteq Thread!Below(r.entry)
    BY <1>1, <1>2 DEF ThreadCall
  <1>4. PICK d : d = call' /\ d = [call EXCEPT ![n].status = s]
    OBVIOUS
  <1>5. ThreadReply(call, d, n, s, x)
    <2>1. d = [call EXCEPT ![n].status = s] /\ x = call[n].items
      BY <1>1, <1>2, <1>4
    <2>2. /\ call[n].kind = "edit" => x[1].text \in Nat
          /\ call[n].kind = "delete" => Thread!Ids(x) \subseteq Thread!Below(call[n].entry)
          /\ ~(call[n].kind = "create" /\ s = "ok") /\ ~(call[n].kind = "list" /\ s = "ok")
      BY <1>1, <1>3
    <2> QED  BY <1>3, <2>1, <2>2, ThreadAnswered
  <1> QED  BY <1>1, <1>2, <1>4, <1>5

\* What stays as it is, whatever the answer.
LEMMA AnswerFails ==
  ASSUME ThreadInv, NEW n \in HSlots, call[n].status = "sent", call' = [call EXCEPT ![n].status = "error"],
         UNCHANGED <<store, wire, row, part3, part4>>
  PROVE  ThreadInv'
  <1>1. /\ store \in Seq(Lines) /\ ThreadCalls(call) /\ OnceBut(store, part3)
    BY DEF ThreadInv, ThreadShape
  <1>2. ThreadReply(call, call', n, "error", call[n].items)
    BY <1>1, ThreadPlain
  <1>3. \A e : Brings(call[n], e) => Brings(call'[n], e)
    BY <1>2 DEF ThreadReply, Brings
  <1>4. \A e : CallsBring(call, e) => CallsBring(call', e)
    BY <1>2, <1>3 DEF ThreadReply, CallsBring
  <1> QED  BY <1>1, <1>2, <1>4, ThreadQuiet DEF ThreadReply

LEMMA AnswerLists ==
  ASSUME ThreadInv, NEW n \in HSlots, call[n].kind = "list",
         call' = [[call EXCEPT ![n].status = "ok"] EXCEPT ![n].items = Thread!Listing],
         UNCHANGED <<store, wire, row, part3, part4>>
  PROVE  ThreadInv'
  <1>1. store \in Seq(Lines) /\ ThreadCalls(call) /\ ThreadRows(row) /\ OnceBut(store, part3)
    BY DEF ThreadInv, ThreadShape
  <1>2. PICK x : x = Thread!Listing
    OBVIOUS
  <1>3. /\ x \in Seq(Lines) /\ OnceBut(x, {})
        /\ \A e \in Entry : row[e].state = "live" => e \in Thread!Ids(x)
    BY <1>1, <1>2, LinesListed
  <1>4. PICK d : d = call' /\ d = [[call EXCEPT ![n].status = "ok"] EXCEPT ![n].items = x]
    BY <1>2
  <1>5. ThreadReply(call, d, n, "ok", x)
    <2>1. d = [[call EXCEPT ![n].status = "ok"] EXCEPT ![n].items = x]
      BY <1>4
    <2> QED  BY <1>1, <1>3, <2>1, ThreadAnswered
  <1>6. \A e \in Entry : row[e].state = "live" => CallsBring(d, e)
    BY <1>3, <1>5 DEF ThreadReply, CallsBring, Brings
  <1>7. AllThere(store', part4', d, wire', row')
    BY <1>6 DEF AllThere
  <1>8. ThreadShape'
    BY <1>1, <1>4, <1>5 DEF ThreadReply, ThreadShape, ThreadInv
  <1> QED  BY <1>1, <1>4, <1>7, <1>8 DEF ThreadInv

LEMMA AnswerEdits ==
  ASSUME ThreadInv, NEW n \in HSlots, call[n].kind = "edit", call[n].status = "sent",
         call[n].entry \in Thread!Live,
         call' = [call EXCEPT ![n].status = "ok"],
         row' = [row EXCEPT ![call[n].entry].text = call[n].text],
         wire' = Append(wire, Thread!Event("updated", call[n].entry)),
         UNCHANGED <<store, part3, part4>>
  PROVE  ThreadInv'
  <1>1. /\ store \in Seq(Lines) /\ wire \in Seq(News) /\ ThreadRows(row) /\ ThreadCalls(call)
        /\ GoneFor(wire, row) /\ AllThere(store, part4, call, wire, row)
    BY DEF ThreadInv, ThreadShape
  <1>2. PICK e, t : e = call[n].entry /\ t = call[n].text /\ e \in Entry /\ t \in Nat
    BY <1>1 DEF ThreadCalls, ThreadCall, Thread!Live
  <1>3. ThreadRows(row') /\ \A d \in Entry : row'[d].state = row[d].state
    <2>1. PICK r, y : r = row[e] /\ ThreadRow(r) /\ y = [r EXCEPT !.text = t]
      BY <1>1, <1>2 DEF ThreadRows
    <2>2. y = [state |-> r.state, text |-> t]
      BY <2>1 DEF ThreadRow
    <2>3. row' = [row EXCEPT ![e] = y]
      BY <1>2, <2>1
    <2>4. /\ row' = [d \in Entry |-> row'[d]] /\ row'[e] = y
          /\ \A d \in Entry : d # e => row'[d] = row[d]
      BY <1>1, <2>3, <1>2 DEF ThreadRows
    <2> QED  BY <1>1, <1>2, <2>1, <2>2, <2>4 DEF ThreadRows, ThreadRow
  <1>4. PICK x : x = Thread!Event("updated", e) /\ x \in News /\ x.kind = "updated" /\ x.entry = e
    BY <1>2, <1>3, ThreadEvent
  <1>5. GoneFor(wire, row')
    <2>1. \A k \in DOMAIN wire : TakenAway(wire[k].entry, row) => TakenAway(wire[k].entry, row')
      BY <1>1, <1>3, NewsAt DEF TakenAway, Thread!Below
    <2> QED  BY <1>1, <2>1 DEF GoneFor
  <1>6. /\ wire' \in Seq(News) /\ GoneFor(wire', row')
        /\ \A d : Heralds(wire, d) => Heralds(wire', d)
    <2>1. wire' = Append(wire, x)
      BY <1>2, <1>4
    <2> QED  BY <1>1, <1>4, <1>5, <2>1, ThreadPublished
  <1>7. ThreadReply(call, call', n, "ok", call[n].items)
    BY <1>1, ThreadPlain
  <1>8. \A d : CallsBring(call, d) => CallsBring(call', d)
    BY <1>7 DEF ThreadReply, Brings
  <1>9. AllThere(store', part4', call', wire', row')
    BY <1>1, <1>3, <1>6, <1>8 DEF AllThere
  <1>10. ThreadShape'
    BY <1>1, <1>3, <1>6, <1>7 DEF ThreadReply, ThreadShape
  <1> QED  BY <1>6, <1>9, <1>10 DEF ThreadInv

LEMMA AnswerDeletes ==
  ASSUME ThreadInv, NEW n \in HSlots, call[n].kind = "delete", call[n].status = "sent",
         call[n].entry \in Thread!Live,
         call' = [call EXCEPT ![n].status = "ok"],
         row' = [d \in Entry |-> IF d \in Thread!Below(call[n].entry) /\ d \in Thread!Live
                                 THEN [row[d] EXCEPT !.state = "gone"] ELSE row[d]],
         wire' = Append(wire, Thread!Event("deleted", call[n].entry)),
         UNCHANGED <<store, part3, part4>>
  PROVE  ThreadInv'
  <1>1. /\ store \in Seq(Lines) /\ wire \in Seq(News) /\ ThreadRows(row) /\ ThreadCalls(call)
        /\ GoneFor(wire, row) /\ AllThere(store, part4, call, wire, row)
    BY DEF ThreadInv, ThreadShape
  <1>2. PICK e : e = call[n].entry /\ e \in Thread!Live /\ e \in Entry
    BY DEF Thread!Live
  <1>3. /\ ThreadRows(row') /\ GoneFor(wire, row') /\ TakenAway(e, row')
        /\ \A d \in Entry : row'[d].state = "live" =>
             (row[d].state = "live" /\ d \notin Thread!Below(e))
    <2>1. row' = [d \in Entry |-> IF d \in Thread!Below(e) /\ d \in Thread!Live
                                  THEN [row[d] EXCEPT !.state = "gone"] ELSE row[d]]
      BY <1>2
    <2> QED  BY <1>1, <1>2, <2>1, ThreadDied
  <1>4. PICK x : x = Thread!Event("deleted", e) /\ x \in News /\ x.kind = "deleted" /\ x.entry = e
    BY <1>2, <1>3, ThreadEvent
  <1>5. /\ wire' \in Seq(News) /\ GoneFor(wire', row')
        /\ \A d : Heralds(wire, d) => Heralds(wire', d)
    <2>1. wire' = Append(wire, x) /\ TakenAway(x.entry, row')
      BY <1>2, <1>3, <1>4
    <2> QED  BY <1>1, <1>3, <1>4, <2>1, ThreadPublished
  <1>6. ThreadReply(call, call', n, "ok", call[n].items)
    BY <1>1, ThreadPlain
  <1>7. \A d : Brings(call[n], d) => d \in Thread!Below(e)
    BY <1>1, <1>2 DEF ThreadCalls, ThreadCall, Brings
  <1>8. \A d \in Entry : row'[d].state = "live" /\ CallsBring(call, d) => CallsBring(call', d)
    BY <1>3, <1>6, <1>7 DEF ThreadReply
  <1>9. AllThere(store', part4', call', wire', row')
    BY <1>1, <1>3, <1>5, <1>8 DEF AllThere
  <1>10. ThreadShape'
    BY <1>1, <1>3, <1>5, <1>6 DEF ThreadReply, ThreadShape
  <1> QED  BY <1>5, <1>9, <1>10 DEF ThreadInv

LEMMA AnswerCreates ==
  ASSUME ThreadInv, NEW n \in HSlots, call[n].kind = "create", call[n].status = "sent",
         NEW e \in Entry, Thread!Fresh(e), row' = [row EXCEPT ![e].state = "live"],
         wire' = Append(wire, Thread!Event("created", e)),
         \/ /\ call' = [[call EXCEPT ![n].status = "ok"] EXCEPT
                         ![n].items = <<Thread!Line(e, row'[e].text)>>]
            /\ part4' = part4
         \/ call' = [call EXCEPT ![n].status = "error"] /\ part4' = part4 \cup {e},
         UNCHANGED <<store, part3>>
  PROVE  ThreadInv'
  <1>1. /\ store \in Seq(Lines) /\ wire \in Seq(News) /\ ThreadRows(row) /\ ThreadCalls(call)
        /\ GoneFor(wire, row) /\ AllThere(store, part4, call, wire, row)
    BY DEF ThreadInv, ThreadShape
  <1>2. /\ ThreadRows(row') /\ GoneFor(wire, row')
        /\ \A d \in Entry : row'[d].state = "live" => row[d].state = "live" \/ d = e
    BY <1>1, ThreadBorn
  <1>3. PICK x : x = Thread!Event("created", e) /\ x \in News /\ x.kind = "created" /\ x.entry = e
    BY <1>2, ThreadEvent
  <1>4. /\ wire' \in Seq(News) /\ GoneFor(wire', row')
        /\ \A d : Heralds(wire, d) => Heralds(wire', d)
    <2>1. wire' = Append(wire, x) /\ x.kind # "deleted"
      BY <1>3
    <2> QED  BY <1>1, <1>2, <1>3, <2>1, ThreadPublished
  <1>5. \A d : ~Brings(call[n], d)
    BY DEF Brings
  <1>6. /\ ThreadCalls(call')
        /\ \A d : CallsBring(call, d) => CallsBring(call', d)
        /\ CallsBring(call', e) \/ e \in part4'
    <2>1. CASE call' = [call EXCEPT ![n].status = "error"] /\ part4' = part4 \cup {e}
      <3>1. ThreadReply(call, call', n, "error", call[n].items)
        BY <1>1, <2>1, ThreadPlain
      <3> QED  BY <1>5, <2>1, <3>1 DEF ThreadReply
    <2>2. CASE call' = [[call EXCEPT ![n].status = "ok"] EXCEPT
                         ![n].items = <<Thread!Line(e, row'[e].text)>>]
      <3>1. PICK y : y = Thread!Line(e, row'[e].text) /\ y \in Lines /\ y.id = e
        <4>1. PICK t : t = row'[e].text /\ t \in Nat
          BY <1>2 DEF ThreadRows, ThreadRow
        <4>2. PICK y : y = [id |-> e, text |-> t]
          OBVIOUS
        <4>3. y \in Lines /\ y.id = e
          BY <4>1, <4>2 DEF Lines
        <4> QED  BY <4>1, <4>2, <4>3 DEF Thread!Line
      <3>2. PICK z : z = <<y>> /\ z \in Seq(Lines) /\ z[1] = y
        <4>1. <<y>> \in Seq(Lines) /\ <<y>>[1] = y
          BY <3>1
        <4> QED  BY <4>1
      <3>3. PICK d : d = call' /\ d = [[call EXCEPT ![n].status = "ok"] EXCEPT ![n].items = z]
        BY <2>2, <3>1, <3>2
      <3>4. ThreadReply(call, d, n, "ok", z)
        <4>1. d = [[call EXCEPT ![n].status = "ok"] EXCEPT ![n].items = z]
          BY <3>3
        <4>2. /\ ~(call[n].kind = "edit") /\ z[1] \in Lines
              /\ ~(call[n].kind = "list") /\ ~(call[n].kind = "delete")
          BY <3>1, <3>2
        <4> QED  BY <1>1, <3>2, <4>1, <4>2, ThreadAnswered
      <3>5. Brings(d[n], e)
        BY <3>1, <3>2, <3>4 DEF ThreadReply, Brings
      <3> QED  BY <1>5, <3>3, <3>4, <3>5 DEF ThreadReply, CallsBring
    <2> QED  BY <2>1, <2>2
  <1>7. AllThere(store', part4', call', wire', row')
    BY <1>1, <1>2, <1>4, <1>6 DEF AllThere
  <1>8. ThreadShape'
    BY <1>1, <1>2, <1>4, <1>6 DEF ThreadShape
  <1> QED  BY <1>4, <1>7, <1>8 DEF ThreadInv

LEMMA ThreadAnswer ==
  ASSUME ThreadInv, NEW n \in HSlots, Thread!Answer(n)
  PROVE  ThreadInv'
  <1>1. call[n].status = "sent" /\ UNCHANGED <<store, part3>>
    BY DEF Thread!Answer
  <1>2. CASE /\ call[n].kind = "create"
             /\ \E e \in Own :
                  /\ Thread!Fresh(e) /\ row' = [row EXCEPT ![e].state = "live"]
                  /\ wire' = Append(wire, Thread!Event("created", e))
                  /\ \/ /\ call' = [[call EXCEPT ![n].status = "ok"] EXCEPT
                                     ![n].items = <<Thread!Line(e, row'[e].text)>>]
                        /\ part4' = part4
                     \/ call' = [call EXCEPT ![n].status = "error"] /\ part4' = part4 \cup {e}
    BY <1>1, <1>2, EntriesNumbered, AnswerCreates
  <1>3. CASE /\ call[n].kind = "edit" /\ call[n].entry \in Thread!Live
             /\ row' = [row EXCEPT ![call[n].entry].text = call[n].text]
             /\ wire' = Append(wire, Thread!Event("updated", call[n].entry))
             /\ call' = [call EXCEPT ![n].status = "ok"] /\ part4' = part4
    BY <1>1, <1>3, AnswerEdits
  <1>4. CASE /\ call[n].kind = "delete" /\ call[n].entry \in Thread!Live
             /\ row' = [d \in Entry |-> IF d \in Thread!Below(call[n].entry) /\ d \in Thread!Live
                                        THEN [row[d] EXCEPT !.state = "gone"] ELSE row[d]]
             /\ wire' = Append(wire, Thread!Event("deleted", call[n].entry))
             /\ call' = [call EXCEPT ![n].status = "ok"] /\ part4' = part4
    BY <1>1, <1>4, AnswerDeletes
  <1>5. CASE /\ call[n].kind = "list"
             /\ call' = [[call EXCEPT ![n].status = "ok"] EXCEPT ![n].items = Thread!Listing]
             /\ UNCHANGED <<row, wire, part4>>
    BY <1>1, <1>5, AnswerLists
  <1>6. CASE call' = [call EXCEPT ![n].status = "error"] /\ UNCHANGED <<row, wire, part4>>
    BY <1>1, <1>6, AnswerFails
  <1> QED  BY <1>2, <1>3, <1>4, <1>5, <1>6, Zenon DEF Thread!Answer, Thread!Publish

-----------------------------------------------------------------------------
(* Answers and events arrive.                                              *)

LEMMA ListArrived ==
  ASSUME ThreadInv, NEW n \in HSlots, Thread!ListArrives(n)
  PROVE  ThreadInv'
  <1>1. /\ store \in Seq(Lines) /\ ThreadCalls(call) /\ AllThere(store, part4, call, wire, row)
        /\ UNCHANGED <<wire, row, part3>>
        /\ call[n].kind = "list" /\ call[n].status = "ok"
    BY DEF Thread!ListArrives, Thread!Ended, ThreadInv, ThreadShape
  <1>2. PICK x, c : /\ x = call[n].items /\ c = [call EXCEPT ![n] = Thread!Idle]
                    /\ Thread!Render(x, c)
                    /\ part4' = part4 \cup (Thread!Ids(store) \ Thread!Ids(store'))
    BY DEF Thread!ListArrives
  <1>3. x \in Seq(Lines) /\ OnceBut(x, {})
    BY <1>1, <1>2 DEF ThreadCalls, ThreadCall
  <1>4. ThreadCalls(c) /\ \A e : CallsBring(call, e) => CallsBring(c, e) \/ Brings(call[n], e)
    BY <1>1, <1>2, ThreadFreed
  <1>5. store' = x /\ ThreadCalls(call') /\ \A e : CallsBring(c, e) => CallsBring(call', e)
    BY <1>2, <1>4, ThreadRendered
  <1>6. \A e : Brings(call[n], e) => e \in Thread!Ids(store')
    BY <1>1, <1>2, <1>5 DEF Brings
  <1>7. OnceBut(store', part3')
    BY <1>3, <1>5 DEF OnceBut
  <1>8. \A e : e \in Thread!Ids(store) => e \in Thread!Ids(store') \/ e \in part4'
    BY <1>2
  <1> QED  BY <1>1, <1>2, <1>3, <1>4, <1>5, <1>6, <1>7, <1>8, ThreadQuiet

LEMMA ListFailed ==
  ASSUME ThreadInv, NEW n \in HSlots, Thread!ListFails(n)
  PROVE  ThreadInv'
  <1>1. /\ store \in Seq(Lines) /\ ThreadCalls(call) /\ OnceBut(store, part3)
        /\ UNCHANGED <<store, wire, row, part3>>
        /\ part4' = part4 \cup Thread!Live
        /\ call' = [call EXCEPT ![n] = Thread!Idle]
    BY DEF Thread!ListFails, Thread!Freed, ThreadInv, ThreadShape
  <1>2. ThreadCalls(call')
    BY <1>1, ThreadFreed
  <1>3. \A e \in Entry : row[e].state = "live" => e \in part4'
    BY <1>1 DEF Thread!Live
  <1> QED  BY <1>1, <1>2, <1>3, ThreadQuiet

LEMMA CreateEnded ==
  ASSUME ThreadInv, NEW n \in HSlots, Thread!Created(n)
  PROVE  ThreadInv'
  <1>1. /\ store \in Seq(Lines) /\ ThreadCalls(call) /\ OnceBut(store, part3)
        /\ UNCHANGED <<wire, row, part3, part4>>
        /\ call' = [call EXCEPT ![n] = Thread!Idle]
        /\ call[n].kind = "create" /\ call[n].status \in {"ok", "error"}
    BY DEF Thread!Created, Thread!Freed, Thread!Ended, ThreadInv, ThreadShape
  <1>2. ThreadCalls(call') /\ \A e : CallsBring(call, e) => CallsBring(call', e) \/ Brings(call[n], e)
    BY <1>1, ThreadFreed
  <1>3. CASE call[n].status = "error"
    <2>1. store' = store /\ \A e : ~Brings(call[n], e)
      BY <1>1, <1>3 DEF Thread!Created, Brings
    <2> QED  BY <1>1, <1>2, <2>1, ThreadQuiet
  <1>4. CASE call[n].status = "ok"
    <2>1. PICK y : y = call[n].items[1] /\ y.id \in Entry /\ y.text \in Nat
      BY <1>1, <1>4 DEF ThreadCalls, ThreadCall, Lines
    <2>2. PICK l : l = store' /\ l = Thread!Appended(store, y.id, y.text)
      BY <1>1, <1>4, <2>1 DEF Thread!Created
    <2>3. l \in Seq(Lines) /\ Thread!Ids(l) = Thread!Ids(store) \cup {y.id} /\ OnceBut(l, part3)
      BY <1>1, <2>1, <2>2, LinesAppended
    <2>4. \A e : Brings(call[n], e) => e = y.id
      BY <1>1, <2>1 DEF Brings
    <2> QED  BY <1>1, <1>2, <2>2, <2>3, <2>4, ThreadQuiet
  <1> QED  BY <1>1, <1>3, <1>4

LEMMA EditEnded ==
  ASSUME ThreadInv, NEW n \in HSlots, Thread!Edited(n)
  PROVE  ThreadInv'
  <1>1. /\ store \in Seq(Lines) /\ ThreadCalls(call) /\ OnceBut(store, part3)
        /\ UNCHANGED <<wire, row, part3, part4>>
        /\ call' = [call EXCEPT ![n] = Thread!Idle]
        /\ call[n].kind = "edit"
    BY DEF Thread!Edited, Thread!Freed, Thread!Ended, ThreadInv, ThreadShape
  <1>2. ThreadCalls(call') /\ \A e : CallsBring(call, e) => CallsBring(call', e) \/ Brings(call[n], e)
    BY <1>1, ThreadFreed
  <1>3. \A e : ~Brings(call[n], e)
    BY <1>1 DEF Brings
  <1>4. call[n].text \in Nat /\ call[n].items[1].text \in Nat
    BY <1>1 DEF ThreadCalls, ThreadCall
  <1>5. PICK t : t = IF call[n].status = "ok" THEN call[n].text ELSE call[n].items[1].text
    OBVIOUS
  <1>6. PICK l : l = store' /\ l = Thread!Retexted(store, call[n].entry, t)
    BY <1>5 DEF Thread!Edited
  <1>7. t \in Nat
    BY <1>4, <1>5
  <1>8. l \in Seq(Lines) /\ Thread!Ids(l) = Thread!Ids(store) /\ OnceBut(l, part3)
    BY <1>1, <1>6, <1>7, LinesRetexted
  <1> QED  BY <1>1, <1>2, <1>3, <1>6, <1>8, ThreadQuiet

LEMMA DeleteEnded ==
  ASSUME ThreadInv, NEW n \in HSlots, Thread!DeleteEnds(n)
  PROVE  ThreadInv'
  <1>1. /\ store \in Seq(Lines) /\ ThreadCalls(call) /\ OnceBut(store, part3)
        /\ UNCHANGED <<wire, row, part4>>
        /\ call' = [call EXCEPT ![n] = Thread!Idle]
        /\ call[n].kind = "delete"
    BY DEF Thread!DeleteEnds, Thread!Freed, Thread!Ended, ThreadInv, ThreadShape
  <1>2. ThreadCalls(call') /\ \A e : CallsBring(call, e) => CallsBring(call', e) \/ Brings(call[n], e)
    BY <1>1, ThreadFreed
  <1>3. CASE call[n].status = "ok"
    <2>1. store' = store /\ part3' = part3 /\ \A e : ~Brings(call[n], e)
      BY <1>1, <1>3 DEF Thread!DeleteEnds, Brings
    <2> QED  BY <1>1, <1>2, <2>1, ThreadQuiet
  <1>4. CASE call[n].status # "ok"
    <2>1. PICK x : x = call[n].items /\ x \in Seq(Lines)
      BY <1>1 DEF ThreadCalls, ThreadCall
    <2>2. PICK l : l = store' /\ l = store \o x /\ part3' = part3 \cup Thread!Ids(x)
      BY <1>4, <2>1 DEF Thread!DeleteEnds
    <2>3. /\ l \in Seq(Lines) /\ Thread!Ids(l) = Thread!Ids(store) \cup Thread!Ids(x)
          /\ OnceBut(l, part3 \cup Thread!Ids(x))
      BY <1>1, <2>1, <2>2, LinesPutBack
    <2>4. \A e : Brings(call[n], e) => e \in Thread!Ids(x)
      BY <1>1, <2>1 DEF Brings
    <2>5. store' \in Seq(Lines) /\ OnceBut(store', part3') /\ ThreadCalls(call')
      BY <1>2, <2>2, <2>3
    <2>6. /\ wire' \in Seq(News) /\ ThreadRows(row') /\ GoneFor(wire', row')
          /\ AllThere(store, part4, call, wire, row)
      BY <1>1 DEF ThreadInv, ThreadShape
    <2>7. \A e : e \in Thread!Ids(store) \/ CallsBring(call, e) =>
                e \in Thread!Ids(store') \/ CallsBring(call', e)
      BY <1>2, <2>2, <2>3, <2>4
    <2>8. AllThere(store', part4', call', wire', row')
      BY <1>1, <2>6, <2>7 DEF AllThere
    <2>9. ThreadShape'
      BY <2>5, <2>6 DEF ThreadShape
    <2> QED  BY <2>5, <2>6, <2>8, <2>9 DEF ThreadInv
  <1> QED  BY <1>3, <1>4

LEMMA ThreadDelivered ==
  ASSUME ThreadInv, Thread!Deliver
  PROVE  ThreadInv'
  <1>1. /\ store \in Seq(Lines) /\ ThreadCalls(call) /\ OnceBut(store, part3) /\ wire \in Seq(News)
        /\ GoneFor(wire, row) /\ AllThere(store, part4, call, wire, row) /\ ThreadRows(row)
        /\ wire # <<>> /\ UNCHANGED <<row, part3, part4>>
    BY DEF Thread!Deliver, ThreadInv, ThreadShape
  <1>2. PICK w, x, xs : w = wire /\ x = Head(w) /\ xs = Tail(w) /\ wire' = xs
    BY DEF Thread!Deliver
  <1>3. PICK n \in Nat : n = Len(w)
    BY <1>1, <1>2, LenProperties
  <1>4. /\ xs \in Seq(News) /\ x = w[1] /\ 1 \in DOMAIN w /\ n >= 1
        /\ DOMAIN w = 1..n /\ DOMAIN xs = 1..(n - 1) /\ \A k \in 1..(n - 1) : xs[k] = w[k + 1]
    <2>1. w \in Seq(News) /\ w # <<>>
      BY <1>1, <1>2
    <2> QED  BY <2>1, <1>2, <1>3, HeadTailProperties, LenProperties, EmptySeq
  <1>5. x \in News /\ x.entry \in Entry /\ x.text \in Nat
    <2>1. w \in Seq(News)
      BY <1>1, <1>2
    <2>2. x \in News
      BY <2>1, <1>4, NewsAt
    <2> QED  BY <2>2 DEF News
  <1>6. \A k \in DOMAIN xs : k + 1 \in DOMAIN w /\ xs[k] = w[k + 1]
    BY <1>3, <1>4
  <1>7. \A k \in DOMAIN w : k = 1 \/ (k - 1 \in DOMAIN xs /\ xs[k - 1] = w[k])
    BY <1>3, <1>4
  <1>8. GoneFor(xs, row)
    BY <1>1, <1>2, <1>6 DEF GoneFor
  <1>9. \A e : Heralds(w, e) => Heralds(xs, e) \/ (x.kind = "created" /\ x.entry = e /\ e \notin Own)
    BY <1>4, <1>7 DEF Heralds
  <1>10. x.kind = "deleted" => \A d \in Thread!Below(x.entry) : row[d].state # "live"
    BY <1>1, <1>2, <1>4 DEF GoneFor, TakenAway
  <1>11. PICK l : Thread!Render(l, call)
                  /\ l = (CASE x.kind = "created" -> (IF x.entry \in Own THEN store
                                                     ELSE Thread!Appended(store, x.entry, x.text))
                            [] x.kind = "updated" -> Thread!Retexted(store, x.entry, x.text)
                            [] x.kind = "deleted" -> Thread!Without(store, Thread!Below(x.entry)))
    BY <1>2 DEF Thread!Deliver
  <1>12. store' = l /\ ThreadCalls(call') /\ \A e : CallsBring(call, e) => CallsBring(call', e)
    BY <1>1, <1>11, ThreadRendered
  <1>13. /\ l \in Seq(Lines) /\ OnceBut(l, part3)
         /\ \A e \in Entry : e \in Thread!Ids(store) /\ row[e].state = "live" => e \in Thread!Ids(l)
         /\ \A e : x.kind = "created" /\ x.entry = e /\ e \notin Own => e \in Thread!Ids(l)
    <2>1. CASE x.kind = "created" /\ x.entry \in Own
      <3>1. l = store
        BY <1>11, <2>1
      <3> QED  BY <1>1, <2>1, <3>1
    <2>2. CASE x.kind = "created" /\ x.entry \notin Own
      <3>1. l = Thread!Appended(store, x.entry, x.text)
        BY <1>11, <2>2
      <3>2. l \in Seq(Lines) /\ Thread!Ids(l) = Thread!Ids(store) \cup {x.entry} /\ OnceBut(l, part3)
        <4>1. PICK e, t : e = x.entry /\ t = x.text /\ e \in Entry /\ t \in Nat
          BY <1>5
        <4>2. l = Thread!Appended(store, e, t)
          BY <3>1, <4>1
        <4>3. l \in Seq(Lines) /\ Thread!Ids(l) = Thread!Ids(store) \cup {e} /\ OnceBut(l, part3)
          BY <1>1, <4>1, <4>2, LinesAppended
        <4> QED  BY <4>1, <4>3
      <3> QED  BY <3>2
    <2>3. CASE x.kind = "updated"
      <3>1. l = Thread!Retexted(store, x.entry, x.text)
        BY <1>11, <2>3
      <3>2. l \in Seq(Lines) /\ Thread!Ids(l) = Thread!Ids(store) /\ OnceBut(l, part3)
        BY <1>1, <1>5, <3>1, LinesRetexted
      <3> QED  BY <2>3, <3>2
    <2>4. CASE x.kind = "deleted"
      <3>1. l = Thread!Without(store, Thread!Below(x.entry))
        BY <1>11, <2>4
      <3>2. /\ l \in Seq(Lines) /\ Thread!Ids(l) = Thread!Ids(store) \ Thread!Below(x.entry)
            /\ OnceBut(l, part3)
        BY <1>1, <3>1, LinesWithout
      <3> QED  BY <1>10, <2>4, <3>2
    <2> QED  BY <1>5, <2>1, <2>2, <2>3, <2>4 DEF News
  <1>14. AllThere(store', part4', call', wire', row')
    BY <1>1, <1>2, <1>9, <1>12, <1>13 DEF AllThere
  <1>15. ThreadShape'
    BY <1>1, <1>2, <1>4, <1>12, <1>13 DEF ThreadShape
  <1> QED  BY <1>1, <1>2, <1>8, <1>12, <1>13, <1>14, <1>15 DEF ThreadInv

LEMMA ThreadReconnects ==
  ASSUME ThreadInv, NEW n \in HSlots, Thread!Reconnect(n)
  PROVE  ThreadInv'
  <1>1. PICK r : /\ r = Thread!Request("list", 0) /\ ThreadCall(r)
                 /\ r.kind = "list" /\ r.status = "sent"
    BY ThreadIdle
  <1>2. /\ wire' = <<>> /\ UNCHANGED <<store, row, part3, part4>> /\ Thread!Send(n, r)
        /\ ThreadCalls(call) /\ ThreadRows(row) /\ store \in Seq(Lines) /\ OnceBut(store, part3)
    BY <1>1 DEF Thread!Reconnect, ThreadInv, ThreadShape
  <1>3. ThreadCalls(call') /\ call'[n] = r
    BY <1>1, <1>2, ThreadSent
  <1>4. \A e : CallsBring(call', e)
    BY <1>1, <1>3 DEF CallsBring, Brings
  <1>5. <<>> \in Seq(News) /\ DOMAIN <<>> = {}
    BY EmptySeq
  <1>6. ThreadShape'
    BY <1>2, <1>3, <1>5 DEF ThreadShape
  <1>7. GoneFor(wire', row')
    BY <1>2, <1>5 DEF GoneFor
  <1> QED  BY <1>2, <1>4, <1>6, <1>7 DEF ThreadInv, AllThere

-----------------------------------------------------------------------------
\* What only opens or closes an editor, an input or a dialog.
LEMMA ThreadTyped ==
  ASSUME ThreadInv, UNCHANGED <<store, call, wire, row, part3, part4>>
  PROVE  ThreadInv'
  BY DEF ThreadInv, ThreadShape

LEMMA ThreadNext ==
  ASSUME ThreadInv, Thread!Next
  PROVE  ThreadInv'
  <1>1. ASSUME NEW p \in Thread!Thread, Thread!Type(p) \/ Thread!ToggleThread(p)
        PROVE  ThreadInv'
    <2>1. CASE Thread!Type(p)
      BY <2>1, ThreadTyped DEF Thread!Type
    <2>2. CASE Thread!ToggleThread(p)
      BY <2>2, ThreadFolded
    <2> QED  BY <1>1, <2>1, <2>2
  <1>2. ASSUME NEW e \in Entry,
               \/ Thread!StartEdit(e) \/ Thread!CancelEdit(e) \/ Thread!AskDelete(e)
               \/ Thread!SomeonePosts(e) \/ Thread!SomeoneDeletes(e)
        PROVE  ThreadInv'
    <2>1. CASE Thread!StartEdit(e) \/ Thread!CancelEdit(e) \/ Thread!AskDelete(e)
      <3>1. UNCHANGED <<store, call, wire, row, part3, part4>>
        BY <2>1 DEF Thread!StartEdit, Thread!CancelEdit, Thread!AskDelete
      <3> QED  BY <3>1, ThreadTyped
    <2>2. CASE Thread!SomeonePosts(e)
      BY <2>2, SomeonePosted
    <2>3. CASE Thread!SomeoneDeletes(e)
      BY <2>3, SomeoneDeleted
    <2> QED  BY <1>2, <2>1, <2>2, <2>3
  <1>3. CASE Thread!CancelDelete
    BY <1>3, ThreadTyped DEF Thread!CancelDelete
  <1>4. CASE Thread!Deliver
    BY <1>4, ThreadDelivered
  <1>5. ASSUME NEW n \in HSlots, \E p \in Thread!Thread : Thread!Submit(p, n)
        PROVE  ThreadInv'
    BY <1>5, ThreadSubmitted
  <1>6. ASSUME NEW n \in HSlots, \E e \in Own : Thread!SaveEdit(n, e, 1)
        PROVE  ThreadInv'
    BY <1>6, ThreadEdits
  <1>7. ASSUME NEW n \in HSlots,
               \/ Thread!ConfirmDelete(n) \/ Thread!Answer(n) \/ Thread!ListArrives(n)
               \/ Thread!ListFails(n) \/ Thread!Created(n) \/ Thread!Edited(n)
               \/ Thread!DeleteEnds(n) \/ Thread!Reconnect(n)
        PROVE  ThreadInv'
    BY <1>7, ThreadDeletes, ThreadAnswer, ListArrived, ListFailed, CreateEnded, EditEnded,
       DeleteEnded, ThreadReconnects
  <1> QED  BY <1>1, <1>2, <1>3, <1>4, <1>5, <1>6, <1>7, Zenon DEF Thread!Next, HSlots

\* At rest nothing is missing, and nothing is listed twice.
LEMMA ThreadAtRest ==
  ASSUME ThreadInv
  PROVE  Thread!ListedOnce /\ Thread!NothingMissing
  <1>1. Thread!ListedOnce
    BY DEF ThreadInv, OnceBut, Thread!ListedOnce
  <1>2. ASSUME wire = <<>>, \A n \in HSlots : call[n].kind = "idle", NEW e \in Thread!Live
        PROVE  e \in Thread!Ids(store) \cup part4
    <2>1. ~Heralds(wire, e)
      BY <1>2, EmptySeq DEF Heralds
    <2>2. ~CallsBring(call, e)
      BY <1>2 DEF CallsBring, Brings
    <2> QED  BY <2>1, <2>2 DEF ThreadInv, AllThere, Thread!Live
  <1>3. Thread!NothingMissing
    BY <1>2 DEF Thread!NothingMissing, HSlots
  <1> QED  BY <1>1, <1>3

LEMMA ThreadSafe ==
  /\ ThreadMounted => ThreadInv
  /\ ThreadInv /\ (Thread!Next \/ UNCHANGED pageVars) => ThreadInv'
  /\ ThreadInv => Thread!ListedOnce /\ Thread!NothingMissing
  <1>1. ThreadMounted => ThreadInv
    BY ThreadOpened DEF ThreadMounted
  <1>2. ThreadInv /\ UNCHANGED pageVars => ThreadInv'
    BY ThreadTyped DEF pageVars
  <1> QED  BY <1>1, <1>2, ThreadNext, ThreadAtRest
=============================================================================
