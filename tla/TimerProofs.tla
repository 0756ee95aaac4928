----------------------------- MODULE TimerProofs -----------------------------
(***************************************************************************)
(* Lemmas about module TimerService: what its steps do to the places of    *)
(* the coroutines and to the order of the timers, whatever executor it is  *)
(* part of.                                                                *)
(***************************************************************************)
EXTENDS TimerService, SequenceTheorems, WellFoundedInduction, TLAPS

-----------------------------------------------------------------------------
(* Numbers and sequences.                                                  *)

LEMMA Least ==
    ASSUME NEW T, T \subseteq Nat, T # {}
    PROVE  \E x \in T : \A y \in T : x <= y
  <1>1. PICK x \in T : \A y \in T : ~(<<y, x>> \in OpToRel(<, Nat))
    BY NatLessThanWellFounded, WFMin
  <1>2. ASSUME NEW y \in T
        PROVE  x <= y
    <2>1. <<y, x>> \in Nat \X Nat
      OBVIOUS
    <2>2. ~(y < x)
      BY <1>1, <2>1 DEF OpToRel
    <2>3. QED
      BY <2>2
  <1>3. QED
    BY <1>2

LEMMA SeqIs ==
    ASSUME NEW T, NEW q \in Seq(T)
    PROVE  /\ Len(q) \in Nat /\ DOMAIN q = 1..Len(q)
           /\ DOMAIN q \subseteq Nat
           /\ \A i \in DOMAIN q : q[i] \in T
  <1>1. Len(q) \in Nat /\ DOMAIN q = 1..Len(q) /\ \A i \in 1..Len(q) : q[i] \in T
    OBVIOUS
  <1>2. 1..Len(q) \subseteq Nat
    OBVIOUS
  <1>3. QED
    BY <1>1, <1>2

\* q without the element at i.
Erase(q, i) == SubSeq(q, 1, i - 1) \o SubSeq(q, i + 1, Len(q))

\* q with e in front of the element at i, or last.
Emplace(q, i, e) == (SubSeq(q, 1, i - 1) \o <<e>>) \o SubSeq(q, i, Len(q))

LEMMA EraseIs ==
    ASSUME NEW T, NEW q \in Seq(T), NEW i \in 1..Len(q)
    PROVE  /\ Erase(q, i) \in Seq(T)
           /\ Len(Erase(q, i)) = Len(q) - 1
           /\ \A j \in 1..i - 1 : Erase(q, i)[j] = q[j]
           /\ \A j \in i..Len(q) - 1 : Erase(q, i)[j] = q[j + 1]
  <1> DEFINE a == SubSeq(q, 1, i - 1)
             b == SubSeq(q, i + 1, Len(q))
  <1>1. a \in Seq(T) /\ Len(a) = i - 1 /\ \A j \in 1..i - 1 : a[j] = q[j]
    OBVIOUS
  <1>2. b \in Seq(T) /\ Len(b) = Len(q) - i /\ \A j \in 1..Len(q) - i : b[j] = q[i + j]
    OBVIOUS
  <1>3. Erase(q, i) = a \o b /\ Len(q) \in Nat /\ i \in Nat
    BY DEF Erase
  <1> HIDE DEF a, b
  <1>4. /\ a \o b \in Seq(T)
        /\ Len(a \o b) = Len(a) + Len(b)
        /\ \A j \in 1..Len(a) + Len(b) :
              (a \o b)[j] = IF j <= Len(a) THEN a[j] ELSE b[j - Len(a)]
    BY <1>1, <1>2, ConcatProperties
  <1>5. ASSUME NEW j \in i..Len(q) - 1
        PROVE  (a \o b)[j] = q[j + 1]
    <2>1. j - Len(a) \in 1..Len(q) - i /\ ~(j <= Len(a)) /\ j \in 1..Len(a) + Len(b)
      BY <1>1, <1>2, <1>3
    <2>2. (a \o b)[j] = b[j - Len(a)]
      BY <1>4, <2>1
    <2>3. b[j - Len(a)] = q[i + (j - Len(a))] /\ i + (j - Len(a)) = j + 1
      BY <1>1, <1>2, <1>3, <2>1
    <2>4. QED
      BY <2>2, <2>3
  <1>6. \A j \in 1..i - 1 : (a \o b)[j] = q[j]
    BY <1>1, <1>2, <1>3, <1>4
  <1>7. QED
    BY <1>1, <1>2, <1>3, <1>4, <1>5, <1>6

LEMMA EmplaceIs ==
    ASSUME NEW T, NEW q \in Seq(T), NEW i \in 1..Len(q) + 1, NEW e \in T
    PROVE  /\ Emplace(q, i, e) \in Seq(T)
           /\ Len(Emplace(q, i, e)) = Len(q) + 1
           /\ Emplace(q, i, e)[i] = e
           /\ \A j \in 1..i - 1 : Emplace(q, i, e)[j] = q[j]
           /\ \A j \in i..Len(q) : Emplace(q, i, e)[j + 1] = q[j]
  <1> DEFINE a == SubSeq(q, 1, i - 1) \o <<e>>
             b == SubSeq(q, i, Len(q))
  <1>1. /\ SubSeq(q, 1, i - 1) \in Seq(T) /\ Len(SubSeq(q, 1, i - 1)) = i - 1
        /\ \A j \in 1..i - 1 : SubSeq(q, 1, i - 1)[j] = q[j]
    OBVIOUS
  <1>2. b \in Seq(T) /\ Len(b) = Len(q) + 1 - i
        /\ \A j \in 1..Len(q) + 1 - i : b[j] = q[i + j - 1]
    OBVIOUS
  <1>3. a \in Seq(T) /\ Len(a) = i /\ a[i] = e /\ \A j \in 1..i - 1 : a[j] = q[j]
    BY <1>1
  <1>4. Emplace(q, i, e) = a \o b /\ Len(q) \in Nat /\ i \in Nat
    BY DEF Emplace
  <1> HIDE DEF a, b
  <1>5. /\ a \o b \in Seq(T)
        /\ Len(a \o b) = Len(a) + Len(b)
        /\ \A j \in 1..Len(a) + Len(b) :
              (a \o b)[j] = IF j <= Len(a) THEN a[j] ELSE b[j - Len(a)]
    BY <1>2, <1>3, ConcatProperties
  <1>6. ASSUME NEW j \in i..Len(q)
        PROVE  (a \o b)[j + 1] = q[j]
    <2>1. /\ (j + 1) - Len(a) \in 1..Len(q) + 1 - i /\ ~(j + 1 <= Len(a))
          /\ j + 1 \in 1..Len(a) + Len(b)
      BY <1>2, <1>3, <1>4
    <2>2. (a \o b)[j + 1] = b[(j + 1) - Len(a)]
      BY <1>5, <2>1
    <2>3. b[(j + 1) - Len(a)] = q[i + ((j + 1) - Len(a)) - 1]
      BY <1>2, <2>1
    <2>4. i + ((j + 1) - Len(a)) - 1 = j
      <3>1. j \in Nat /\ i \in Nat /\ Len(a) = i
        BY <1>3, <1>4
      <3>2. QED
        BY <3>1
    <2>5. QED
      BY <2>2, <2>3, <2>4
  <1>7. (a \o b)[i] = e /\ \A j \in 1..i - 1 : (a \o b)[j] = q[j]
    BY <1>2, <1>3, <1>4, <1>5
  <1>8. QED
    BY <1>2, <1>3, <1>4, <1>5, <1>6, <1>7

-----------------------------------------------------------------------------
(* Queues of callbacks, each with who posted it.                           *)

\* The callbacks in a queue.
Who(q) == {q[i][2] : i \in DOMAIN q}

\* None is in it twice.
Once(q) == \A i, j \in DOMAIN q : q[i][2] = q[j][2] => i = j

LEMMA WhoAppend ==
    ASSUME NEW T, NEW U, NEW q \in Seq(T \X U), NEW p \in T, NEW u \in U
    PROVE  /\ Append(q, <<p, u>>) \in Seq(T \X U)
           /\ Who(Append(q, <<p, u>>)) = Who(q) \cup {u}
           /\ Once(q) /\ u \notin Who(q) => Once(Append(q, <<p, u>>))
  <1> DEFINE r == Append(q, <<p, u>>)
  <1>1. /\ r \in Seq(T \X U) /\ Len(r) = Len(q) + 1
        /\ r[Len(q) + 1] = <<p, u>> /\ \A i \in 1..Len(q) : r[i] = q[i]
    OBVIOUS
  <1> HIDE DEF r
  <1>2. Who(r) = Who(q) \cup {u}
    <2>1. \A i \in 1..Len(q) : r[i][2] = q[i][2]
      BY <1>1
    <2>2. r[Len(q) + 1][2] = u
      BY <1>1
    <2>3. DOMAIN r = 1..Len(q) + 1 /\ DOMAIN q = 1..Len(q)
      BY <1>1
    <2>4. QED
      BY <2>1, <2>2, <2>3 DEF Who
  <1>3. Once(q) /\ u \notin Who(q) => Once(r)
    <2> SUFFICES ASSUME Once(q), u \notin Who(q), NEW i \in DOMAIN r, NEW j \in DOMAIN r,
                        r[i][2] = r[j][2]
                 PROVE  i = j
      BY DEF Once
    <2>1. /\ DOMAIN r = 1..Len(q) + 1 /\ DOMAIN q = 1..Len(q)
          /\ \A k \in DOMAIN q : q[k][2] # u
      BY <1>1 DEF Who
    <2>2. QED
      BY <1>1, <2>1 DEF Once
  <1>4. QED
    BY <1>1, <1>2, <1>3 DEF r

LEMMA WhoTail ==
    ASSUME NEW T, NEW U, NEW q \in Seq(T \X U), q # <<>>
    PROVE  /\ Tail(q) \in Seq(T \X U)
           /\ Head(q)[2] \in Who(q)
           /\ Who(q) = Who(Tail(q)) \cup {Head(q)[2]}
           /\ Once(q) => Once(Tail(q)) /\ Head(q)[2] \notin Who(Tail(q))
  <1> DEFINE r == Tail(q)
  <1>1. /\ r \in Seq(T \X U) /\ Len(r) = Len(q) - 1 /\ Len(q) \in Nat /\ Len(q) # 0
        /\ \A i \in 1..Len(q) - 1 : r[i] = q[i + 1]
        /\ Head(q) = q[1]
    OBVIOUS
  <1>2. DOMAIN r = 1..Len(q) - 1 /\ DOMAIN q = 1..Len(q)
    BY <1>1
  <1> HIDE DEF r
  <1>3. Who(q) = Who(r) \cup {Head(q)[2]}
    <2>1. ASSUME NEW i \in 1..Len(q)
          PROVE  q[i][2] = Head(q)[2] \/ \E j \in DOMAIN r : r[j][2] = q[i][2]
      <3>1. CASE i = 1
        BY <1>1, <3>1
      <3>2. CASE i # 1
        <4>1. i - 1 \in DOMAIN r /\ r[i - 1] = q[i]
          BY <1>1, <1>2, <3>2
        <4>2. QED
          BY <4>1
      <3>3. QED
        BY <3>1, <3>2
    <2>2. \A j \in DOMAIN r : j + 1 \in DOMAIN q /\ q[j + 1][2] = r[j][2]
      BY <1>1, <1>2
    <2>3. 1 \in DOMAIN q /\ q[1][2] = Head(q)[2]
      BY <1>1, <1>2
    <2>4. Who(q) \subseteq Who(r) \cup {Head(q)[2]}
      BY <1>2, <2>1 DEF Who
    <2>5. Who(r) \subseteq Who(q) /\ Head(q)[2] \in Who(q)
      BY <2>2, <2>3 DEF Who
    <2>6. QED
      BY <2>4, <2>5
  <1>4. Once(q) => Once(r) /\ Head(q)[2] \notin Who(r)
    <2>1. \A i \in DOMAIN r : i + 1 \in DOMAIN q /\ i + 1 # 1 /\ r[i] = q[i + 1]
      BY <1>1, <1>2
    <2>2. 1 \in DOMAIN q /\ q[1][2] = Head(q)[2]
      BY <1>1, <1>2
    <2>3. Once(q) => Once(r)
      <3> SUFFICES ASSUME Once(q), NEW i \in DOMAIN r, NEW j \in DOMAIN r, r[i][2] = r[j][2]
                   PROVE  i = j
        BY DEF Once
      <3>1. i + 1 = j + 1
        BY <2>1 DEF Once
      <3>2. QED
        BY <1>2, <3>1
    <2>4. QED
      BY <2>1, <2>2, <2>3 DEF Once, Who
  <1>5. QED
    BY <1>1, <1>2, <1>3, <1>4 DEF r, Who

LEMMA WhoConcat ==
    ASSUME NEW T, NEW U, NEW q \in Seq(T \X U), NEW r \in Seq(T \X U)
    PROVE  /\ q \o r \in Seq(T \X U)
           /\ \A u : u \in Who(q \o r) <=> u \in Who(q) \/ u \in Who(r)
           /\ Once(q \o r) <=> Once(q) /\ Once(r) /\ Who(q) \cap Who(r) = {}
  <1> DEFINE s == q \o r
  <1>1. /\ s \in Seq(T \X U) /\ Len(s) = Len(q) + Len(r)
        /\ Len(q) \in Nat /\ Len(r) \in Nat
        /\ \A i \in 1..Len(q) : s[i] = q[i]
        /\ \A i \in 1..Len(r) : s[Len(q) + i] = r[i]
    OBVIOUS
  <1>2. /\ DOMAIN s = 1..Len(q) + Len(r) /\ DOMAIN q = 1..Len(q) /\ DOMAIN r = 1..Len(r)
    BY <1>1
  <1> HIDE DEF s
  <1>3. \A i \in DOMAIN s : \/ i \in DOMAIN q /\ s[i] = q[i]
                            \/ /\ i - Len(q) \in DOMAIN r /\ s[i] = r[i - Len(q)]
    <2> SUFFICES ASSUME NEW i \in DOMAIN s, i \notin DOMAIN q
                 PROVE  i - Len(q) \in DOMAIN r /\ s[i] = r[i - Len(q)]
      BY <1>1, <1>2
    <2>1. i - Len(q) \in 1..Len(r) /\ Len(q) + (i - Len(q)) = i
      BY <1>1, <1>2
    <2>2. QED
      BY <1>1, <1>2, <2>1
  <1>4. /\ \A i \in DOMAIN q : i \in DOMAIN s /\ s[i] = q[i]
        /\ \A i \in DOMAIN r : /\ Len(q) + i \in DOMAIN s /\ s[Len(q) + i] = r[i]
                               /\ Len(q) + i \notin DOMAIN q
    BY <1>1, <1>2
  <1>5. Who(s) = Who(q) \cup Who(r)
    BY <1>3, <1>4 DEF Who
  <1>6. Once(s) => Once(q) /\ Once(r) /\ Who(q) \cap Who(r) = {}
    <2> SUFFICES ASSUME Once(s) PROVE Once(q) /\ Once(r) /\ Who(q) \cap Who(r) = {}
      OBVIOUS
    <2>1. Once(q)
      BY <1>4 DEF Once
    <2>2. Once(r)
      <3> SUFFICES ASSUME NEW i \in DOMAIN r, NEW j \in DOMAIN r, r[i][2] = r[j][2]
                   PROVE  i = j
        BY DEF Once
      <3>1. Len(q) + i = Len(q) + j
        BY <1>4 DEF Once
      <3>2. QED
        BY <1>1, <1>2, <3>1
    <2>3. ASSUME NEW i \in DOMAIN q, NEW j \in DOMAIN r
          PROVE  q[i][2] # r[j][2]
      <3>1. i # Len(q) + j
        BY <1>4
      <3>2. QED
        BY <1>4, <3>1 DEF Once
    <2>4. QED
      BY <2>1, <2>2, <2>3 DEF Who
  <1>7. Once(q) /\ Once(r) /\ Who(q) \cap Who(r) = {} => Once(s)
    <2> SUFFICES ASSUME Once(q), Once(r), Who(q) \cap Who(r) = {},
                        NEW i \in DOMAIN s, NEW j \in DOMAIN s, s[i][2] = s[j][2]
                 PROVE  i = j
      BY DEF Once
    <2>1. \A a \in DOMAIN q, b \in DOMAIN r : q[a][2] # r[b][2]
      BY DEF Who
    <2>2. CASE i \in DOMAIN q /\ s[i] = q[i] /\ j \in DOMAIN q /\ s[j] = q[j]
      BY <2>2 DEF Once
    <2>3. CASE /\ i - Len(q) \in DOMAIN r /\ s[i] = r[i - Len(q)]
               /\ j - Len(q) \in DOMAIN r /\ s[j] = r[j - Len(q)]
      <3>1. i - Len(q) = j - Len(q)
        BY <2>3 DEF Once
      <3>2. QED
        BY <1>1, <1>2, <3>1
    <2>4. QED
      BY <1>3, <2>1, <2>2, <2>3
  <1>8. QED
    BY <1>1, <1>5, <1>6, <1>7 DEF s

-----------------------------------------------------------------------------
(* Keeping some of the elements.                                           *)

\* The numbers up to n in I are enumerated one after the other.
LEMMA Enumeration ==
    ASSUME NEW len \in Nat, NEW I \in SUBSET (1..len)
    PROVE  \E n \in 0..len : \E k \in [1..n -> I] : Enumerates(k, I)
  <1> DEFINE Upto(m) == {i \in I : i <= m}
             Has(m) == \E n \in 0..m : \E k \in [1..n -> Upto(m)] : Enumerates(k, Upto(m))
             Missing == {m \in 0..len : ~Has(m)}
  <1>0. \A i \in I : i \in Nat /\ 0 < i /\ i <= len
    OBVIOUS
  <1>a. \A m, i : i \in Upto(m) <=> i \in I /\ i <= m
    OBVIOUS
  <1> HIDE DEF Upto
  <1>1. Has(0)
    <2>1. Upto(0) = {}
      <3>1. \A i \in I : ~(i <= 0)
        BY <1>0
      <3>2. QED
        BY <1>a, <3>1
    <2>2. <<>> \in [1..0 -> Upto(0)] /\ DOMAIN <<>> = {}
      OBVIOUS
    <2>3. Enumerates(<<>>, Upto(0))
      BY <2>1, <2>2 DEF Enumerates
    <2>4. \E k \in [1..0 -> Upto(0)] : Enumerates(k, Upto(0))
      BY <2>2, <2>3
    <2>5. 0 \in 0..0
      OBVIOUS
    <2>6. QED
      BY <2>4, <2>5
  <1>2. ASSUME NEW m \in 1..len, Has(m - 1)
        PROVE  Has(m)
    <2>1. m \in Nat /\ m - 1 \in Nat
      OBVIOUS
    <2>a. \A i \in I : i \in Nat /\ (i <= m - 1 <=> i <= m /\ i # m) /\ (i <= m - 1 => i < m)
      BY <1>0, <2>1
    <2>b. PICK n \in 0..m - 1 : \E k \in [1..n -> Upto(m - 1)] : Enumerates(k, Upto(m - 1))
      BY <1>2
    <2>2. PICK k \in [1..n -> Upto(m - 1)] : Enumerates(k, Upto(m - 1))
      BY <2>b
    <2>3. n \in 0..m /\ n + 1 \in 0..m /\ n \in Nat
      BY <2>1
    <2>4. CASE m \notin I
      <3>1. Upto(m) = Upto(m - 1)
        BY <1>a, <2>a, <2>4
      <3>2. QED
        BY <2>2, <2>3, <3>1
    <2>5. CASE m \in I
      <3> DEFINE e == [j \in 1..n + 1 |-> IF j = n + 1 THEN m ELSE k[j]]
      <3>1. \A j \in 1..n : k[j] \in I /\ k[j] < m /\ k[j] \in Nat
        <4>1. ASSUME NEW j \in 1..n PROVE k[j] \in Upto(m - 1)
          BY <2>2
        <4>2. QED
          BY <1>a, <2>a, <4>1
      <3>2. \A j \in 1..n : j \in 1..n + 1 /\ e[j] = k[j]
        BY <2>3
      <3>3. e[n + 1] = m /\ n + 1 \in 1..n + 1 /\ DOMAIN e = 1..n + 1 /\ DOMAIN k = 1..n
        BY <2>2, <2>3
      <3>4. \A j \in 1..n + 1 : j = n + 1 \/ j \in 1..n
        BY <2>3
      <3>5. e \in [1..n + 1 -> Upto(m)]
        <4>1. ASSUME NEW j \in 1..n + 1 PROVE e[j] \in Upto(m)
          <5>1. CASE j = n + 1
            BY <1>a, <2>1, <2>5, <3>3, <5>1
          <5>2. CASE j \in 1..n
            BY <1>0, <1>a, <2>1, <3>1, <3>2, <5>2
          <5>3. QED
            BY <3>4, <5>1, <5>2
        <4>2. QED
          BY <4>1
      <3> HIDE DEF e
      <3>6. ASSUME NEW i \in 1..n + 1, NEW j \in 1..n + 1, i < j
            PROVE  e[i] < e[j]
        <4>1. i \in 1..n
          BY <2>3, <3>6
        <4>2. CASE j = n + 1
          BY <3>1, <3>2, <3>3, <4>1, <4>2
        <4>3. CASE j \in 1..n
          BY <2>2, <3>2, <3>3, <3>6, <4>1, <4>3 DEF Enumerates
        <4>4. QED
          BY <3>4, <4>2, <4>3
      <3>7. ASSUME NEW i \in Upto(m)
            PROVE  \E j \in 1..n + 1 : e[j] = i
        <4>1. CASE i = m
          BY <3>3, <4>1
        <4>2. CASE i # m
          <5>1. i \in Upto(m - 1)
            BY <1>a, <2>a, <4>2
          <5>2. PICK j \in 1..n : k[j] = i
            BY <2>2, <3>3, <5>1 DEF Enumerates
          <5>3. QED
            BY <3>2, <5>2
        <4>3. QED
          BY <4>1, <4>2
      <3>8. Enumerates(e, Upto(m))
        BY <3>3, <3>6, <3>7 DEF Enumerates
      <3>9. QED
        BY <2>3, <3>5, <3>8
    <2>6. QED
      BY <2>4, <2>5
  <1>3. Missing = {}
    <2> SUFFICES ASSUME Missing # {} PROVE FALSE
      OBVIOUS
    <2>1. Missing \subseteq Nat
      OBVIOUS
    <2> HIDE DEF Has
    <2>2. PICK m \in Missing : \A x \in Missing : m <= x
      <3> HIDE DEF Missing
      <3>1. QED
        BY <2>1, Least
    <2>3. m \in 0..len /\ ~Has(m)
      OBVIOUS
    <2>4. m # 0
      BY <1>1, <2>3
    <2>5. m \in 1..len /\ m - 1 \in 0..len /\ ~(m <= m - 1)
      BY <2>3, <2>4
    <2>6. Has(m - 1)
      BY <2>2, <2>5
    <2>7. QED
      BY <1>2, <2>3, <2>5, <2>6
  <1>4. Has(len)
    <2> HIDE DEF Has
    <2>1. QED
      BY <1>3
  <1>5. Upto(len) = I
    BY <1>0, <1>a
  <1>6. QED
    BY <1>4, <1>5

\* q is what s has at the places in I, at increasing places, and nothing of it is lost.
Kept(q, s, I) ==
    \E k \in [DOMAIN q -> I] :
        /\ Enumerates(k, I)
        /\ \A j \in DOMAIN q : q[j] = s[k[j]]

LEMMA KeepIs ==
    ASSUME NEW S, NEW s \in Seq(S), NEW I \in SUBSET DOMAIN s
    PROVE  Keep(s, I) \in Seq(S) /\ Kept(Keep(s, I), s, I)
  <1> DEFINE All == UNION {[1..n -> I] : n \in 0..Len(s)}
             at == CHOOSE k \in All : Enumerates(k, I)
  <1>1. Len(s) \in Nat /\ I \in SUBSET (1..Len(s)) /\ DOMAIN s = 1..Len(s)
    OBVIOUS
  <1>2. \E k \in All : Enumerates(k, I)
    BY <1>1, Enumeration
  <1>3. at \in All /\ Enumerates(at, I)
    <2> HIDE DEF All
    <2>1. QED
      BY <1>2
  <1>4. Keep(s, I) = [i \in DOMAIN at |-> s[at[i]]]
    BY DEF Keep
  <1> HIDE DEF at
  <1>5. PICK n \in 0..Len(s) : at \in [1..n -> I]
    BY <1>3
  <1>6. DOMAIN Keep(s, I) = 1..n /\ n \in Nat /\ at \in [1..n -> I]
    BY <1>1, <1>4, <1>5
  <1>7. Keep(s, I) \in [1..n -> S]
    BY <1>1, <1>4, <1>6
  <1>8. Keep(s, I) \in Seq(S)
    BY <1>6, <1>7, IsASeq
  <1>9. Kept(Keep(s, I), s, I)
    BY <1>3, <1>4, <1>6 DEF Kept
  <1>10. QED
    BY <1>8, <1>9

\* What is kept is determined: there is one enumeration of a set of places.
LEMMA KeptOnce ==
    ASSUME NEW S, NEW s \in Seq(S), NEW I \in SUBSET DOMAIN s,
           NEW q \in Seq(S), NEW r \in Seq(S), Kept(q, s, I), Kept(r, s, I)
    PROVE  q = r
  <1>1. /\ DOMAIN s \subseteq Nat
        /\ DOMAIN q = 1..Len(q) /\ Len(q) \in Nat /\ DOMAIN r = 1..Len(r) /\ Len(r) \in Nat
    BY SeqIs
  <1>2. PICK k \in [DOMAIN q -> I] : Enumerates(k, I) /\ \A j \in DOMAIN q : q[j] = s[k[j]]
    BY DEF Kept
  <1>3. PICK l \in [DOMAIN r -> I] : Enumerates(l, I) /\ \A j \in DOMAIN r : r[j] = s[l[j]]
    BY DEF Kept
  <1>4. /\ \A i, j \in DOMAIN q : i < j => k[i] < k[j]
        /\ \A x \in I : \E j \in DOMAIN q : k[j] = x
        /\ \A i \in DOMAIN q : k[i] \in Nat /\ k[i] \in I
    BY <1>1, <1>2 DEF Enumerates
  <1>5. /\ \A i, j \in DOMAIN r : i < j => l[i] < l[j]
        /\ \A x \in I : \E j \in DOMAIN r : l[j] = x
        /\ \A i \in DOMAIN r : l[i] \in Nat /\ l[i] \in I
    BY <1>1, <1>3 DEF Enumerates
  <1> DEFINE Same(j) == (j \in DOMAIN q <=> j \in DOMAIN r) /\ (j \in DOMAIN q => k[j] = l[j])
             Other == {j \in Nat : ~Same(j)}
  <1>6. ASSUME NEW j \in Nat, \A i \in Nat : i < j => Same(i)
        PROVE  Same(j)
    <2>1. ASSUME j \in DOMAIN q
          PROVE  j \in DOMAIN r /\ l[j] <= k[j]
      <3>1. PICK m \in DOMAIN r : l[m] = k[j]
        BY <1>4, <1>5, <2>1
      <3>2. m \in Nat /\ ~(m < j)
        <4>1. m \in Nat
          BY <1>1
        <4>2. ASSUME m < j PROVE FALSE
          <5>1. m \in DOMAIN q /\ k[m] = k[j]
            BY <1>6, <3>1, <4>1, <4>2
          <5>2. k[m] < k[j] /\ k[j] \in Nat
            BY <1>4, <2>1, <4>2, <5>1
          <5>3. QED
            BY <5>1, <5>2
        <4>3. QED
          BY <4>1, <4>2
      <3>3. j \in DOMAIN r
        BY <1>1, <2>1, <3>2
      <3>4. j = m \/ j < m
        BY <3>2
      <3>5. l[j] <= l[m]
        BY <1>5, <3>3, <3>4
      <3>6. QED
        BY <3>1, <3>3, <3>5
    <2>2. ASSUME j \in DOMAIN r
          PROVE  j \in DOMAIN q /\ k[j] <= l[j]
      <3>1. PICK m \in DOMAIN q : k[m] = l[j]
        BY <1>4, <1>5, <2>2
      <3>2. m \in Nat /\ ~(m < j)
        <4>1. m \in Nat
          BY <1>1
        <4>2. ASSUME m < j PROVE FALSE
          <5>1. m \in DOMAIN r /\ l[m] = l[j]
            BY <1>6, <3>1, <4>1, <4>2
          <5>2. l[m] < l[j] /\ l[j] \in Nat
            BY <1>5, <2>2, <4>2, <5>1
          <5>3. QED
            BY <5>1, <5>2
        <4>3. QED
          BY <4>1, <4>2
      <3>3. j \in DOMAIN q
        BY <1>1, <2>2, <3>2
      <3>4. j = m \/ j < m
        BY <3>2
      <3>5. k[j] <= k[m]
        BY <1>4, <3>3, <3>4
      <3>6. QED
        BY <3>1, <3>3, <3>5
    <2>3. j \in DOMAIN q => k[j] = l[j]
      BY <1>4, <1>5, <2>1, <2>2
    <2>4. QED
      BY <2>1, <2>2, <2>3
  <1>7. Other = {}
    <2> SUFFICES ASSUME Other # {} PROVE FALSE
      OBVIOUS
    <2>1. PICK j \in Other : \A i \in Other : j <= i
      <3>1. Other \subseteq Nat
        OBVIOUS
      <3> HIDE DEF Other
      <3>2. QED
        BY <3>1, Least
    <2>2. j \in Nat /\ \A i \in Nat : i < j => Same(i)
      <3>1. j \in Nat
        OBVIOUS
      <3>2. ASSUME NEW i \in Nat, i < j PROVE i \notin Other
        <4> HIDE DEF Other
        <4>1. QED
          BY <2>1, <3>1, <3>2
      <3>3. QED
        BY <3>1, <3>2
    <2> HIDE DEF Same
    <2>3. QED
      BY <1>6, <2>2
  <1>8. \A j \in Nat : (j \in DOMAIN q <=> j \in DOMAIN r) /\ (j \in DOMAIN q => k[j] = l[j])
    BY <1>7
  <1> HIDE DEF Same, Other
  <1>9. DOMAIN q = DOMAIN r
    <2>1. DOMAIN q \subseteq Nat /\ DOMAIN r \subseteq Nat
      BY SeqIs
    <2>2. QED
      BY <1>8, <2>1
  <1>10. \A j \in DOMAIN q : q[j] = r[j]
    BY <1>1, <1>2, <1>3, <1>8, <1>9
  <1>11. Len(q) = Len(r)
    <2> DEFINE m == Len(q)
               n == Len(r)
    <2>1. m \in Nat /\ n \in Nat /\ 1..m = 1..n
      BY <1>1, <1>9
    <2> HIDE DEF m, n
    <2>2. m = n
      BY <2>1
    <2>3. QED
      BY <2>2 DEF m, n
  <1>12. QED
    BY <1>1, <1>9, <1>10, <1>11, SeqEqual

\* Two sequences behind each other: what is kept of each.
LEMMA KeptConcat ==
    ASSUME NEW S, NEW a \in Seq(S), NEW b \in Seq(S),
           NEW I \in SUBSET DOMAIN a, NEW J \in SUBSET DOMAIN b,
           NEW K, \A i : i \in K <=> \/ i \in I
                                     \/ \E j \in J : i = Len(a) + j,
           NEW q \in Seq(S), NEW r \in Seq(S), Kept(q, a, I), Kept(r, b, J)
    PROVE  K \in SUBSET DOMAIN (a \o b) /\ Kept(q \o r, a \o b, K)
  <1>1. /\ Len(a) \in Nat /\ DOMAIN a = 1..Len(a) /\ Len(b) \in Nat /\ DOMAIN b = 1..Len(b)
        /\ Len(q) \in Nat /\ DOMAIN q = 1..Len(q) /\ Len(r) \in Nat /\ DOMAIN r = 1..Len(r)
    BY SeqIs
  <1>2. /\ Len(a \o b) = Len(a) + Len(b) /\ DOMAIN (a \o b) = 1..Len(a) + Len(b)
        /\ \A i \in DOMAIN a : (a \o b)[i] = a[i]
        /\ \A i \in DOMAIN b : (a \o b)[Len(a) + i] = b[i]
    BY <1>1
  <1>3. /\ Len(q \o r) = Len(q) + Len(r) /\ DOMAIN (q \o r) = 1..Len(q) + Len(r)
        /\ \A i \in DOMAIN q : (q \o r)[i] = q[i]
        /\ \A i \in DOMAIN r : (q \o r)[Len(q) + i] = r[i]
    BY <1>1
  <1>4. \A i \in DOMAIN (q \o r) :
            \/ i \in DOMAIN q /\ i <= Len(q)
            \/ i - Len(q) \in DOMAIN r /\ ~(i <= Len(q)) /\ i = Len(q) + (i - Len(q))
    BY <1>1, <1>3
  <1>5. PICK k \in [DOMAIN q -> I] : Enumerates(k, I) /\ \A j \in DOMAIN q : q[j] = a[k[j]]
    BY DEF Kept
  <1>6. PICK l \in [DOMAIN r -> J] : Enumerates(l, J) /\ \A j \in DOMAIN r : r[j] = b[l[j]]
    BY DEF Kept
  <1>7. /\ \A i, j \in DOMAIN q : i < j => k[i] < k[j]
        /\ \A x \in I : \E j \in DOMAIN q : k[j] = x
        /\ \A i \in DOMAIN q : k[i] \in I /\ k[i] \in Nat /\ k[i] <= Len(a)
    BY <1>1, <1>5 DEF Enumerates
  <1>8. /\ \A i, j \in DOMAIN r : i < j => l[i] < l[j]
        /\ \A x \in J : \E j \in DOMAIN r : l[j] = x
        /\ \A i \in DOMAIN r : l[i] \in J /\ l[i] \in Nat /\ 0 < l[i]
    BY <1>1, <1>6 DEF Enumerates
  <1> DEFINE m == [i \in DOMAIN (q \o r) |-> IF i <= Len(q) THEN k[i]
                                             ELSE Len(a) + l[i - Len(q)]]
  <1>9. /\ DOMAIN m = DOMAIN (q \o r)
        /\ \A i \in DOMAIN q : i \in DOMAIN m /\ m[i] = k[i]
        /\ \A i \in DOMAIN r : Len(q) + i \in DOMAIN m /\ m[Len(q) + i] = Len(a) + l[i]
    <2>1. \A i \in DOMAIN q : i \in DOMAIN (q \o r) /\ i <= Len(q)
      BY <1>1, <1>3
    <2>2. \A i \in DOMAIN r : /\ Len(q) + i \in DOMAIN (q \o r) /\ ~(Len(q) + i <= Len(q))
                              /\ (Len(q) + i) - Len(q) = i
      BY <1>1, <1>3
    <2>3. QED
      BY <2>1, <2>2
  <1> HIDE DEF m
  <1>10. ASSUME NEW i \in DOMAIN (q \o r)
         PROVE  \/ i \in DOMAIN q /\ m[i] = k[i] /\ (a \o b)[m[i]] = (q \o r)[i]
                \/ /\ i - Len(q) \in DOMAIN r /\ ~(i <= Len(q))
                   /\ m[i] = Len(a) + l[i - Len(q)] /\ (a \o b)[m[i]] = (q \o r)[i]
    <2>1. CASE i \in DOMAIN q /\ i <= Len(q)
      <3>1. m[i] = k[i] /\ k[i] \in DOMAIN a /\ (a \o b)[k[i]] = a[k[i]] /\ q[i] = a[k[i]]
        BY <1>2, <1>5, <1>7, <1>9, <2>1
      <3>2. QED
        BY <1>3, <2>1, <3>1
    <2>2. CASE i - Len(q) \in DOMAIN r /\ ~(i <= Len(q)) /\ i = Len(q) + (i - Len(q))
      <3> DEFINE j == i - Len(q)
      <3>1. j \in DOMAIN r /\ Len(q) + j = i
        BY <2>2
      <3> HIDE DEF j
      <3>2. m[i] = Len(a) + l[j] /\ (q \o r)[i] = r[j]
        BY <1>3, <1>9, <3>1
      <3>3. l[j] \in DOMAIN b /\ r[j] = b[l[j]]
        BY <1>6, <1>8, <3>1
      <3>4. (a \o b)[m[i]] = b[l[j]]
        BY <1>2, <3>2, <3>3
      <3>5. QED
        BY <2>2, <3>2, <3>3, <3>4 DEF j
    <2>3. QED
      BY <1>4, <2>1, <2>2
  <1>11. K \in SUBSET DOMAIN (a \o b)
    <2>1. \A j \in J : Len(a) + j \in DOMAIN (a \o b)
      BY <1>1, <1>2
    <2>2. \A i \in I : i \in DOMAIN (a \o b)
      BY <1>1, <1>2
    <2>3. QED
      BY <2>1, <2>2
  <1>12. m \in [DOMAIN (q \o r) -> K]
    <2>1. \A i \in DOMAIN (q \o r) : m[i] \in K
      BY <1>7, <1>8, <1>10
    <2>2. QED
      BY <1>9, <2>1 DEF m
  <1>13. ASSUME NEW i \in DOMAIN m, NEW j \in DOMAIN m, i < j
         PROVE  m[i] < m[j]
    <2>1. i \in DOMAIN (q \o r) /\ j \in DOMAIN (q \o r)
      BY <1>9
    <2>2. CASE i \in DOMAIN q /\ m[i] = k[i] /\ j \in DOMAIN q /\ m[j] = k[j]
      BY <1>7, <1>13, <2>2
    <2>3. CASE /\ i \in DOMAIN q /\ m[i] = k[i]
               /\ j - Len(q) \in DOMAIN r /\ m[j] = Len(a) + l[j - Len(q)]
      <3> DEFINE x == k[i]
                 y == l[j - Len(q)]
      <3>1. x \in Nat /\ x <= Len(a) /\ y \in Nat /\ 0 < y
        BY <1>7, <1>8, <2>3
      <3> HIDE DEF x, y
      <3>2. x < Len(a) + y
        BY <1>1, <3>1
      <3>3. QED
        BY <2>3, <3>2 DEF x, y
    <2>4. CASE /\ i - Len(q) \in DOMAIN r /\ m[i] = Len(a) + l[i - Len(q)] /\ ~(i <= Len(q))
               /\ j \in DOMAIN q
      BY <1>1, <1>3, <1>13, <2>1, <2>4
    <2>5. CASE /\ i - Len(q) \in DOMAIN r /\ m[i] = Len(a) + l[i - Len(q)]
               /\ j - Len(q) \in DOMAIN r /\ m[j] = Len(a) + l[j - Len(q)]
      <3>1. i - Len(q) < j - Len(q)
        BY <1>1, <1>3, <1>13, <2>1
      <3>2. l[i - Len(q)] < l[j - Len(q)]
        BY <1>8, <2>5, <3>1
      <3> DEFINE x == l[i - Len(q)]
                 y == l[j - Len(q)]
      <3>3. x \in Nat /\ y \in Nat
        BY <1>8, <2>5
      <3> HIDE DEF x, y
      <3>4. x < y
        BY <3>2 DEF x, y
      <3>5. Len(a) + x < Len(a) + y
        BY <1>1, <3>3, <3>4
      <3>6. QED
        BY <2>5, <3>5 DEF x, y
    <2>6. QED
      BY <1>10, <2>1, <2>2, <2>3, <2>4, <2>5
  <1>14. ASSUME NEW x \in K
         PROVE  \E i \in DOMAIN m : m[i] = x
    <2>1. CASE x \in I
      BY <1>7, <1>9, <2>1
    <2>2. ASSUME NEW j \in J, x = Len(a) + j
          PROVE  \E i \in DOMAIN m : m[i] = x
      <3>1. PICK i \in DOMAIN r : l[i] = j
        BY <1>8
      <3>2. QED
        BY <1>9, <2>2, <3>1
    <2>3. QED
      BY <2>1, <2>2
  <1>15. Enumerates(m, K)
    BY <1>13, <1>14 DEF Enumerates
  <1>16. \A i \in DOMAIN (q \o r) : (q \o r)[i] = (a \o b)[m[i]]
    BY <1>10
  <1>17. QED
    BY <1>11, <1>12, <1>15, <1>16 DEF Kept

-----------------------------------------------------------------------------
(* The callbacks of one poster.                                            *)

LEMMA PostedByIs ==
    ASSUME NEW S, NEW q \in Seq(S), NEW p,
           NEW I, I = {i \in DOMAIN q : q[i][1] = p}
    PROVE  PostedBy(p, q) \in Seq(S) /\ Kept(PostedBy(p, q), q, I)
  <1>1. PostedBy(p, q) = Keep(q, I) /\ I \in SUBSET DOMAIN q
    BY DEF PostedBy
  <1>2. QED
    BY <1>1, KeepIs

LEMMA PostedByConcat ==
    ASSUME NEW S, NEW a \in Seq(S), NEW b \in Seq(S), NEW p
    PROVE  PostedBy(p, a \o b) = PostedBy(p, a) \o PostedBy(p, b)
  <1> DEFINE I == {i \in DOMAIN a : a[i][1] = p}
             J == {i \in DOMAIN b : b[i][1] = p}
             K == {i \in DOMAIN (a \o b) : (a \o b)[i][1] = p}
  <1>1. a \o b \in Seq(S)
    OBVIOUS
  <1>2. /\ Len(a) \in Nat /\ DOMAIN a = 1..Len(a) /\ Len(b) \in Nat /\ DOMAIN b = 1..Len(b)
        /\ DOMAIN (a \o b) = 1..Len(a) + Len(b)
        /\ \A i \in DOMAIN a : (a \o b)[i] = a[i]
        /\ \A i \in DOMAIN b : (a \o b)[Len(a) + i] = b[i]
    OBVIOUS
  <1>3. \A i : i \in K <=> i \in I \/ \E j \in J : i = Len(a) + j
    <2>1. \A i \in DOMAIN (a \o b) :
              \/ i \in DOMAIN a
              \/ i - Len(a) \in DOMAIN b /\ i = Len(a) + (i - Len(a))
      BY <1>2
    <2>2. ASSUME NEW i \in K
          PROVE  i \in I \/ \E j \in J : i = Len(a) + j
      <3>1. CASE i \in DOMAIN a
        BY <1>2, <3>1
      <3>2. CASE i - Len(a) \in DOMAIN b /\ i = Len(a) + (i - Len(a))
        <4> DEFINE j == i - Len(a)
        <4>1. j \in DOMAIN b /\ i = Len(a) + j
          BY <3>2
        <4> HIDE DEF j
        <4>2. b[j] = (a \o b)[i]
          BY <1>2, <4>1
        <4>3. QED
          BY <4>1, <4>2
      <3>3. QED
        BY <2>1, <3>1, <3>2
    <2>3. \A i \in I : i \in K
      BY <1>2
    <2>4. \A j \in J : Len(a) + j \in K
      BY <1>2
    <2>5. QED
      BY <2>2, <2>3, <2>4
  <1>4. I \in SUBSET DOMAIN a /\ J \in SUBSET DOMAIN b
    OBVIOUS
  <1> DEFINE x == PostedBy(p, a)
             y == PostedBy(p, b)
  <1>5. x \in Seq(S) /\ y \in Seq(S) /\ Kept(x, a, I) /\ Kept(y, b, J)
    <2> DEFINE A == I
               B == J
    <2>1. A = {i \in DOMAIN a : a[i][1] = p} /\ B = {i \in DOMAIN b : b[i][1] = p}
      OBVIOUS
    <2> HIDE DEF A, B
    <2>2. x \in Seq(S) /\ Kept(x, a, A)
      BY <2>1, PostedByIs
    <2>3. y \in Seq(S) /\ Kept(y, b, B)
      BY <2>1, PostedByIs
    <2>4. QED
      BY <2>2, <2>3 DEF A, B
  <1>6. /\ PostedBy(p, a \o b) \in Seq(S)
        /\ Kept(PostedBy(p, a \o b), a \o b, K)
    <2> DEFINE q == a \o b
    <2>1. q \in Seq(S) /\ K = {i \in DOMAIN q : q[i][1] = p}
      OBVIOUS
    <2> HIDE DEF q, K
    <2>2. PostedBy(p, q) \in Seq(S) /\ Kept(PostedBy(p, q), q, K)
      BY <2>1, PostedByIs
    <2>3. QED
      BY <2>2 DEF q
  <1> HIDE DEF x, y, I, J, K
  <1>7. K \in SUBSET DOMAIN (a \o b) /\ Kept(x \o y, a \o b, K)
    BY <1>3, <1>4, <1>5, KeptConcat
  <1>8. x \o y \in Seq(S)
    BY <1>5
  <1>9. PostedBy(p, a \o b) = x \o y
    BY <1>1, <1>6, <1>7, <1>8, KeptOnce
  <1>10. QED
    BY <1>9 DEF x, y

\* None of p's, and only p's.
LEMMA PostedByOthers ==
    ASSUME NEW S, NEW q \in Seq(S), NEW p, \A i \in DOMAIN q : q[i][1] # p
    PROVE  PostedBy(p, q) = <<>>
  <1>1. {i \in DOMAIN q : q[i][1] = p} = {}
    OBVIOUS
  <1>2. PostedBy(p, q) \in Seq(S) /\ Kept(PostedBy(p, q), q, {})
    BY <1>1, PostedByIs
  <1>3. PICK k \in [DOMAIN PostedBy(p, q) -> {}] : TRUE
    BY <1>2 DEF Kept
  <1>4. DOMAIN PostedBy(p, q) = {}
    BY <1>3
  <1>5. Len(PostedBy(p, q)) \in Nat /\ DOMAIN PostedBy(p, q) = 1..Len(PostedBy(p, q))
    BY <1>2, SeqIs
  <1> DEFINE n == Len(PostedBy(p, q))
  <1>6. n = 0
    <2>1. n \in Nat /\ 1..n = {}
      BY <1>4, <1>5
    <2> HIDE DEF n
    <2>2. n # 0 => 1 \in 1..n
      BY <2>1
    <2>3. QED
      BY <2>1, <2>2
  <1>7. QED
    BY <1>2, <1>6, EmptySeq

LEMMA PostedByNone ==
    ASSUME NEW p
    PROVE  PostedBy(p, <<>>) = <<>>
  <1>1. <<>> \in Seq(Nat) /\ \A i \in DOMAIN <<>> : <<>>[i][1] # p
    OBVIOUS
  <1>2. PICK q : q = <<>>
    OBVIOUS
  <1>3. q \in Seq(Nat) /\ \A i \in DOMAIN q : q[i][1] # p
    BY <1>1, <1>2
  <1>4. PostedBy(p, q) = <<>>
    BY <1>3, PostedByOthers
  <1>5. QED
    BY <1>2, <1>4

LEMMA PostedByAll ==
    ASSUME NEW S, NEW q \in Seq(S), NEW p, \A i \in DOMAIN q : q[i][1] = p
    PROVE  PostedBy(p, q) = q
  <1>1. {i \in DOMAIN q : q[i][1] = p} = DOMAIN q
    OBVIOUS
  <1>2. PostedBy(p, q) \in Seq(S) /\ Kept(PostedBy(p, q), q, DOMAIN q)
    BY <1>1, PostedByIs
  <1>3. Kept(q, q, DOMAIN q)
    <2> DEFINE k == [i \in DOMAIN q |-> i]
    <2>1. k \in [DOMAIN q -> DOMAIN q] /\ \A j \in DOMAIN q : q[j] = q[k[j]]
      OBVIOUS
    <2>2. Enumerates(k, DOMAIN q)
      BY DEF Enumerates
    <2>3. QED
      BY <2>1, <2>2 DEF Kept
  <1>4. QED
    BY <1>2, <1>3, KeptOnce

\* t begins with s.
StartsWith(s, t) == Len(s) <= Len(t) /\ SubSeq(s, 1, Len(s)) = SubSeq(t, 1, Len(s))

LEMMA PrefixOfConcat ==
    ASSUME NEW S, NEW q \in Seq(S), NEW r \in Seq(S)
    PROVE  StartsWith(q, q \o r)
  <1> DEFINE s == q \o r
  <1>1. /\ Len(q) \in Nat /\ Len(r) \in Nat /\ s \in Seq(S) /\ Len(s) = Len(q) + Len(r)
        /\ \A i \in 1..Len(q) : s[i] = q[i]
    OBVIOUS
  <1> HIDE DEF s
  <1>2. SubSeq(q, 1, Len(q)) = SubSeq(s, 1, Len(q))
    BY <1>1
  <1>3. QED
    BY <1>1, <1>2 DEF StartsWith, s

\* What the executor of module Executor knows of a queue.
Pending(T, q) == [p \in T |-> PostedBy(p, q)]

\* p has added callbacks behind those in f.
Behind(f, g, p, T) == StartsWith(f[p], g[p]) /\ \A r \in T \ {p} : g[r] = f[r]

\* Callbacks of p are put in a queue behind which nothing of p follows.
LEMMA QueuePost ==
    ASSUME NEW S, NEW T, NEW a \in Seq(S), NEW b \in Seq(S), NEW c \in Seq(S),
           NEW p \in T, \A i \in DOMAIN b : b[i][1] = p, \A i \in DOMAIN c : c[i][1] # p
    PROVE  Behind(Pending(T, a \o c), Pending(T, (a \o b) \o c), p, T)
  <1>1. a \o b \in Seq(S) /\ a \o c \in Seq(S)
    OBVIOUS
  <1>2. ASSUME NEW r
        PROVE  /\ PostedBy(r, (a \o b) \o c) = (PostedBy(r, a) \o PostedBy(r, b)) \o PostedBy(r, c)
               /\ PostedBy(r, a \o c) = PostedBy(r, a) \o PostedBy(r, c)
    <2>1. PostedBy(r, (a \o b) \o c) = PostedBy(r, a \o b) \o PostedBy(r, c)
      BY <1>1, PostedByConcat
    <2>2. PostedBy(r, a \o b) = PostedBy(r, a) \o PostedBy(r, b)
      BY PostedByConcat
    <2>3. PostedBy(r, a \o c) = PostedBy(r, a) \o PostedBy(r, c)
      BY PostedByConcat
    <2>4. QED
      BY <2>1, <2>2, <2>3
  <1>3. \A r : PostedBy(r, a) \in Seq(S) /\ PostedBy(r, c) \in Seq(S)
    BY PostedByIs
  <1>4. PostedBy(p, c) = <<>> /\ PostedBy(p, b) = b
    BY PostedByOthers, PostedByAll
  <1>5. StartsWith(PostedBy(p, a \o c), PostedBy(p, (a \o b) \o c))
    <2> DEFINE x == PostedBy(p, a)
    <2>1. x \in Seq(S) /\ x \o b \in Seq(S)
      BY <1>3
    <2>2. PostedBy(p, a \o c) = x \o <<>> /\ PostedBy(p, (a \o b) \o c) = (x \o b) \o <<>>
      BY <1>2, <1>4
    <2> HIDE DEF x
    <2>3. x \o <<>> = x /\ (x \o b) \o <<>> = x \o b
      BY <2>1, ConcatEmptySeq
    <2>4. StartsWith(x, x \o b)
      BY <2>1, PrefixOfConcat
    <2>5. QED
      BY <2>2, <2>3, <2>4
  <1>6. ASSUME NEW r \in T \ {p}
        PROVE  PostedBy(r, (a \o b) \o c) = PostedBy(r, a \o c)
    <2>1. \A i \in DOMAIN b : b[i][1] # r
      OBVIOUS
    <2>2. PostedBy(r, b) = <<>>
      BY <2>1, PostedByOthers
    <2>3. PostedBy(r, a) \o <<>> = PostedBy(r, a)
      BY <1>3, ConcatEmptySeq
    <2>4. QED
      BY <1>2, <2>2, <2>3
  <1>7. QED
    BY <1>5, <1>6 DEF Behind, Pending

\* The first callback leaves a queue.
LEMMA QueueHead ==
    ASSUME NEW S, NEW q \in Seq(S), q # <<>>, NEW p, p = Head(q)[1]
    PROVE  /\ PostedBy(p, q) # <<>>
           /\ PostedBy(p, Tail(q)) = Tail(PostedBy(p, q))
           /\ \A r : r # p => PostedBy(r, Tail(q)) = PostedBy(r, q)
  <1> DEFINE h == <<Head(q)>>
             t == Tail(q)
  <1>1. /\ h \in Seq(S) /\ t \in Seq(S) /\ q = h \o t
        /\ DOMAIN h = {1} /\ h[1] = Head(q) /\ Len(h) = 1
    OBVIOUS
  <1> HIDE DEF h, t
  <1>2. PostedBy(p, h) = h
    <2>1. \A i \in DOMAIN h : h[i][1] = p
      BY <1>1
    <2>2. QED
      BY <1>1, <2>1, PostedByAll
  <1>3. ASSUME NEW r
        PROVE  PostedBy(r, q) = PostedBy(r, h) \o PostedBy(r, t) /\ PostedBy(r, t) \in Seq(S)
    <2>1. PostedBy(r, h \o t) = PostedBy(r, h) \o PostedBy(r, t)
      BY <1>1, PostedByConcat
    <2>2. PostedBy(r, t) \in Seq(S)
      BY <1>1, PostedByIs
    <2>3. QED
      BY <1>1, <2>1, <2>2
  <1>4. /\ h \o PostedBy(p, t) # <<>> /\ Tail(h \o PostedBy(p, t)) = PostedBy(p, t)
    <2> DEFINE x == PostedBy(p, t)
    <2>1. x \in Seq(S) /\ h = <<Head(q)>> /\ Head(q) \in S
      BY <1>3 DEF h
    <2> HIDE DEF x
    <2>2. <<Head(q)>> \o x # <<>> /\ Tail(<<Head(q)>> \o x) = x
      <3>1. PICK e : e = Head(q) /\ e \in S
        BY <2>1
      <3>2. <<e>> \o x \in Seq(S) /\ Len(<<e>> \o x) = 1 + Len(x)
        BY <2>1, <3>1
      <3>3. Tail(<<e>> \o x) = x
        BY <2>1, <3>1
      <3>4. QED
        BY <2>1, <3>1, <3>2, <3>3
    <2>3. QED
      BY <2>1, <2>2 DEF x
  <1>5. ASSUME NEW r, r # p
        PROVE  PostedBy(r, t) = PostedBy(r, q)
    <2>1. \A i \in DOMAIN h : h[i][1] # r
      BY <1>1, <1>5
    <2>2. PostedBy(r, h) = <<>>
      BY <1>1, <2>1, PostedByOthers
    <2>3. <<>> \o PostedBy(r, t) = PostedBy(r, t)
      BY <1>3, ConcatEmptySeq
    <2>4. QED
      BY <1>3, <2>2, <2>3
  <1>6. QED
    BY <1>2, <1>3, <1>4, <1>5 DEF t

\* A step of module Executor takes the callbacks in q to those in r.
Serves(T, q, r) ==
    \E p \in T :
        \/ Behind(Pending(T, q), Pending(T, r), p, T)
        \/ /\ Pending(T, q)[p] # <<>>
           /\ Behind([Pending(T, q) EXCEPT ![p] = Tail(@)], Pending(T, r), Loop, T)

\* The first callback of the thread's own queue runs and leaves it; what it posts itself
\* comes behind the others there, in front of what other threads have posted.
LEMMA RunServes ==
    ASSUME NEW S, NEW T, \A e \in S : e[1] \in T, Loop \in T,
           NEW own \in Seq(S), own # <<>>, NEW new \in Seq(S), NEW rest \in Seq(S),
           \A i \in DOMAIN new : new[i][1] = Loop, \A i \in DOMAIN rest : rest[i][1] # Loop
    PROVE  Serves(T, own \o rest, (Tail(own) \o new) \o rest)
  <1>1. PICK h, q, t : h = Head(own)[1] /\ q = own \o rest /\ t = Tail(own)
    OBVIOUS
  <1>2. /\ h \in T /\ t \in Seq(S) /\ t \o new \in Seq(S) /\ (t \o new) \o rest \in Seq(S)
        /\ q \in Seq(S) /\ q # <<>> /\ h = Head(q)[1] /\ Tail(q) = t \o rest
    <2>1. /\ Tail(own) \in Seq(S) /\ Head(own) \in S /\ own \o rest \in Seq(S)
          /\ own \o rest # <<>> /\ Head(own \o rest) = Head(own)
          /\ Tail(own \o rest) = Tail(own) \o rest
      OBVIOUS
    <2>2. t \in Seq(S) /\ t \o new \in Seq(S) /\ (t \o new) \o rest \in Seq(S)
      BY <1>1, <2>1
    <2>3. QED
      BY <1>1, <2>1, <2>2
  <1>3. /\ PostedBy(h, q) # <<>> /\ PostedBy(h, t \o rest) = Tail(PostedBy(h, q))
        /\ \A r : r # h => PostedBy(r, t \o rest) = PostedBy(r, q)
    <2>1. /\ PostedBy(h, q) # <<>> /\ PostedBy(h, Tail(q)) = Tail(PostedBy(h, q))
          /\ \A r : r # h => PostedBy(r, Tail(q)) = PostedBy(r, q)
      <3>1. q \in Seq(S) /\ q # <<>> /\ h = Head(q)[1]
        BY <1>2
      <3>2. QED
        BY <3>1, QueueHead
    <2>2. QED
      BY <1>2, <2>1
  <1>4. [Pending(T, q) EXCEPT ![h] = Tail(@)] = Pending(T, t \o rest)
    <2>1. [Pending(T, q) EXCEPT ![h] = Tail(@)] =
              [r \in T |-> IF r = h THEN Tail(PostedBy(r, q)) ELSE PostedBy(r, q)]
      BY <1>2 DEF Pending
    <2>2. \A r \in T : (IF r = h THEN Tail(PostedBy(r, q)) ELSE PostedBy(r, q))
                           = PostedBy(r, t \o rest)
      BY <1>3
    <2>3. QED
      BY <2>1, <2>2 DEF Pending
  <1>5. Behind(Pending(T, t \o rest), Pending(T, (t \o new) \o rest), Loop, T)
    BY <1>2, QueuePost
  <1>6. Pending(T, q)[h] # <<>>
    BY <1>2, <1>3 DEF Pending
  <1>7. Serves(T, q, (t \o new) \o rest)
    BY <1>2, <1>4, <1>5, <1>6 DEF Serves
  <1>8. QED
    BY <1>1, <1>7

\* The thread posts.
LEMMA OwnPostServes ==
    ASSUME NEW S, NEW T, Loop \in T,
           NEW own \in Seq(S), NEW new \in Seq(S), NEW rest \in Seq(S),
           \A i \in DOMAIN new : new[i][1] = Loop, \A i \in DOMAIN rest : rest[i][1] # Loop
    PROVE  Serves(T, own \o rest, (own \o new) \o rest)
  BY QueuePost DEF Serves

\* Another thread posts, behind everything.
LEMMA PostServes ==
    ASSUME NEW S, NEW T, NEW own \in Seq(S), NEW rest \in Seq(S), NEW e \in S, NEW p \in T,
           e[1] = p
    PROVE  Serves(T, own \o rest, own \o Append(rest, e))
  <1>1. PICK q : q = own \o rest
    OBVIOUS
  <1>2. q \in Seq(S) /\ <<e>> \in Seq(S) /\ <<>> \in Seq(S)
    BY <1>1
  <1>3. own \o Append(rest, e) = q \o <<e>>
    BY <1>1, <1>2, AppendIsConcat, ConcatAssociative
  <1>4. (\A i \in DOMAIN <<e>> : <<e>>[i][1] = p) /\ \A i \in DOMAIN <<>> : <<>>[i][1] # p
    OBVIOUS
  <1>5. Behind(Pending(T, q \o <<>>), Pending(T, (q \o <<e>>) \o <<>>), p, T)
    <2>1. PICK b, c : b = <<e>> /\ c = <<>>
      OBVIOUS
    <2>2. /\ b \in Seq(S) /\ c \in Seq(S)
          /\ \A i \in DOMAIN b : b[i][1] = p
          /\ \A i \in DOMAIN c : c[i][1] # p
      BY <1>2, <1>4, <2>1
    <2>3. Behind(Pending(T, q \o c), Pending(T, (q \o b) \o c), p, T)
      BY <1>2, <2>2, QueuePost
    <2>4. QED
      BY <2>1, <2>3
  <1>6. q \o <<>> = q /\ (q \o <<e>>) \o <<>> = q \o <<e>>
    BY <1>2, ConcatEmptySeq
  <1>7. QED
    BY <1>1, <1>3, <1>5, <1>6 DEF Serves

-----------------------------------------------------------------------------
(* Timers.                                                                 *)

Timers == [at : 0..MaxTime, who : Coros]

\* Who has a timer.
Sleepers(m) == {m[i].who : i \in DOMAIN m}

\* None has two.
Alone(m) == \A i, j \in DOMAIN m : m[i].who = m[j].who => i = j

Sorted(m) == \A i, j \in DOMAIN m : i <= j => m[i].at <= m[j].at

LEMMA TimerIs == \A x \in Timers : x.at \in Nat /\ x.at \in 0..MaxTime /\ x.who \in Coros
  BY TimerAssumption DEF Timers

LEMMA UpToIs ==
    ASSUME mTimers \in Seq(Timers), NEW t \in Nat
    PROVE  /\ UpTo(t) \in 0..Len(mTimers)
           /\ \A i \in 1..UpTo(t) : mTimers[i].at <= t
           /\ UpTo(t) < Len(mTimers) => mTimers[UpTo(t) + 1].at > t
  <1> DEFINE T == {n \in 0..Len(mTimers) : n < Len(mTimers) => mTimers[n + 1].at > t}
  <1>1. Len(mTimers) \in Nat /\ \A i \in 1..Len(mTimers) : mTimers[i].at \in Nat
    BY TimerIs
  <1>2. Len(mTimers) \in T
    BY <1>1
  <1>3. PICK n \in T : \A k \in T : n <= k
    <2>1. T \subseteq Nat /\ T # {}
      BY <1>1, <1>2
    <2> HIDE DEF T
    <2>2. QED
      BY <2>1, Least
  <1>4. ASSUME NEW i \in 1..n
        PROVE  mTimers[i].at <= t
    <2>1. i - 1 \in 0..Len(mTimers) /\ i - 1 < n /\ i - 1 < Len(mTimers)
      BY <1>1
    <2>2. i - 1 \notin T
      BY <1>1, <1>3, <2>1
    <2>3. ~(mTimers[i].at > t) /\ mTimers[i].at \in Nat
      BY <1>1, <2>1, <2>2
    <2>4. QED
      BY <2>3
  <1>5. \E k \in 0..Len(mTimers) :
            /\ \A i \in 1..k : mTimers[i].at <= t
            /\ k < Len(mTimers) => mTimers[k + 1].at > t
    BY <1>3, <1>4
  <1>6. QED
    BY <1>5 DEF UpTo

LEMMA InsertIs ==
    ASSUME mTimers \in Seq(Timers), NEW e \in Timers
    PROVE  /\ Insert(e) \in Seq(Timers)
           /\ Sleepers(Insert(e)) = Sleepers(mTimers) \cup {e.who}
           /\ Alone(mTimers) /\ e.who \notin Sleepers(mTimers) => Alone(Insert(e))
           /\ Sorted(mTimers) => Sorted(Insert(e))
  <1> DEFINE m == mTimers
             n == UpTo(e.at)
             r == Insert(e)
  <1>1. /\ n \in 0..Len(m) /\ Len(m) \in Nat /\ e.at \in Nat
        /\ \A i \in 1..n : m[i].at <= e.at
        /\ n < Len(m) => m[n + 1].at > e.at
    <2>1. PICK t \in Nat : t = e.at
      BY TimerIs
    <2>2. /\ UpTo(t) \in 0..Len(mTimers)
          /\ \A i \in 1..UpTo(t) : mTimers[i].at <= t
          /\ UpTo(t) < Len(mTimers) => mTimers[UpTo(t) + 1].at > t
      BY UpToIs
    <2>3. Len(mTimers) \in Nat
      OBVIOUS
    <2>4. QED
      BY <2>1, <2>2, <2>3
  <1>2. /\ r \in Seq(Timers) /\ Len(r) = Len(m) + 1 /\ r[n + 1] = e
        /\ \A j \in 1..n : r[j] = m[j]
        /\ \A j \in n + 2..Len(m) + 1 : r[j] = m[j - 1]
    <2>1. PICK k \in 1..Len(m) + 1 : k = n + 1
      BY <1>1
    <2>2. r = Emplace(m, k, e) /\ m \in Seq(Timers)
      <3>1. k - 1 = n /\ n + 1 = k
        BY <1>1, <2>1
      <3>2. r = (SubSeq(m, 1, n) \o <<e>>) \o SubSeq(m, n + 1, Len(m))
        BY DEF Insert
      <3>3. QED
        BY <3>1, <3>2 DEF Emplace
    <2>3. k - 1 = n /\ k + 1 = n + 2
      BY <1>1, <2>1
    <2> HIDE DEF n, r, m
    <2>4. r \in Seq(Timers) /\ Len(r) = Len(m) + 1 /\ r[k] = e
      BY <2>2, EmplaceIs
    <2>5. \A j \in 1..k - 1 : r[j] = m[j]
      BY <2>2, EmplaceIs
    <2>6. \A j \in k..Len(m) : r[j + 1] = m[j]
      BY <2>2, EmplaceIs
    <2>7. ASSUME NEW j \in n + 2..Len(m) + 1
          PROVE  r[j] = m[j - 1]
      <3>1. j - 1 \in k..Len(m) /\ (j - 1) + 1 = j
        BY <1>1, <2>1
      <3>2. QED
        BY <2>6, <3>1
    <2>8. QED
      BY <2>1, <2>3, <2>4, <2>5, <2>7
  <1>3. \A i \in 1..Len(m) : m[i].at \in Nat
    BY TimerIs
  <1>4. DOMAIN r = 1..Len(m) + 1 /\ DOMAIN m = 1..Len(m)
    BY <1>2
  <1> HIDE DEF m, n, r
  <1>5. \A j \in DOMAIN r : \/ j <= n /\ j \in DOMAIN m /\ r[j] = m[j]
                            \/ j = n + 1 /\ r[j] = e
                            \/ n + 1 < j /\ j - 1 \in DOMAIN m /\ r[j] = m[j - 1]
    BY <1>1, <1>2, <1>4
  <1>6. \A i \in DOMAIN m : \E j \in DOMAIN r : r[j] = m[i]
    <2> SUFFICES ASSUME NEW i \in DOMAIN m
                 PROVE  \E j \in DOMAIN r : r[j] = m[i]
      OBVIOUS
    <2>1. CASE i <= n
      BY <1>1, <1>2, <1>4, <2>1
    <2>2. CASE ~(i <= n)
      <3>1. i + 1 \in n + 2..Len(m) + 1 /\ (i + 1) - 1 = i /\ i + 1 \in DOMAIN r
        BY <1>1, <1>4, <2>2
      <3>2. QED
        BY <1>2, <3>1
    <2>3. QED
      BY <2>1, <2>2
  <1>7. n + 1 \in DOMAIN r
    BY <1>1, <1>4
  <1>8. Sleepers(r) = Sleepers(m) \cup {e.who}
    <2>1. Sleepers(r) \subseteq Sleepers(m) \cup {e.who}
      BY <1>5 DEF Sleepers
    <2>2. Sleepers(m) \subseteq Sleepers(r)
      BY <1>6 DEF Sleepers
    <2>3. e.who \in Sleepers(r)
      BY <1>2, <1>7 DEF Sleepers
    <2>4. QED
      BY <2>1, <2>2, <2>3
  <1>9. ASSUME Alone(m), e.who \notin Sleepers(m)
        PROVE  Alone(r)
    <2> SUFFICES ASSUME NEW i \in DOMAIN r, NEW j \in DOMAIN r, r[i].who = r[j].who
                 PROVE  i = j
      BY DEF Alone
    <2>1. \A k \in DOMAIN m : m[k].who # e.who
      BY <1>9 DEF Sleepers
    <2>2. \A k, l \in DOMAIN m : m[k].who = m[l].who => k = l
      BY <1>9 DEF Alone
    <2>3. QED
      BY <1>1, <1>4, <1>5, <2>1, <2>2
  <1>10. ASSUME Sorted(m)
         PROVE  Sorted(r)
    <2>1. \A k, l \in DOMAIN m : k <= l => m[k].at <= m[l].at
      BY <1>10 DEF Sorted
    <2>2. \A k \in DOMAIN m : k <= n => m[k].at <= e.at
      BY <1>1, <1>4
    <2>3. \A k \in DOMAIN m : n < k => e.at <= m[k].at
      <3> SUFFICES ASSUME NEW k \in DOMAIN m, n < k
                   PROVE  e.at <= m[k].at
        OBVIOUS
      <3>1. n + 1 \in DOMAIN m /\ n + 1 <= k /\ n < Len(m)
        BY <1>1, <1>4
      <3>2. m[n + 1].at <= m[k].at /\ m[n + 1].at > e.at
        BY <1>1, <2>1, <3>1
      <3>3. m[n + 1].at \in Nat /\ m[k].at \in Nat
        BY <1>3, <1>4, <3>1
      <3>4. QED
        BY <1>1, <3>2, <3>3
    <2>4. ASSUME NEW i \in DOMAIN r, NEW j \in DOMAIN r, i <= j
          PROVE  r[i].at <= r[j].at
      <3>1. CASE j = n + 1 /\ r[j] = e
        BY <1>1, <1>4, <1>5, <2>2, <2>4, <3>1
      <3>2. CASE i = n + 1 /\ r[i] = e
        BY <1>1, <1>4, <1>5, <2>3, <2>4, <3>2
      <3>3. CASE ~(j = n + 1 /\ r[j] = e) /\ ~(i = n + 1 /\ r[i] = e)
        <4>1. PICK k \in DOMAIN m : r[i] = m[k] /\ k = IF i <= n THEN i ELSE i - 1
          BY <1>1, <1>4, <1>5, <3>3
        <4>2. PICK l \in DOMAIN m : r[j] = m[l] /\ l = IF j <= n THEN j ELSE j - 1
          BY <1>1, <1>4, <1>5, <3>3
        <4>3. k <= l
          BY <1>1, <1>4, <1>5, <2>4, <3>3, <4>1, <4>2
        <4>4. QED
          BY <2>1, <4>1, <4>2, <4>3
      <3>4. QED
        BY <3>1, <3>2, <3>3
    <2>5. QED
      BY <2>4 DEF Sorted
  <1>11. QED
    BY <1>2, <1>8, <1>9, <1>10 DEF r, m

\* r has nothing that m has not.
Within(r, m) == \A j \in DOMAIN r : \E k \in DOMAIN m : r[j] = m[k]

LEMMA ErasedIs ==
    ASSUME NEW T, NEW m \in Seq(T), NEW i \in 1..Len(m), NEW r, r = Erase(m, i)
    PROVE  /\ r \in Seq(T)
           /\ Within(r, m)
           /\ Alone(m) => Sleepers(r) = Sleepers(m) \ {m[i].who} /\ Alone(r)
           /\ Sorted(m) => Sorted(r)
  <1>1. PICK c : c = m[i].who
    OBVIOUS
  <1>2. /\ r \in Seq(T) /\ Len(r) = Len(m) - 1
        /\ \A j \in 1..i - 1 : r[j] = m[j]
        /\ \A j \in i..Len(m) - 1 : r[j] = m[j + 1]
    <2>1. r \in Seq(T) /\ Len(r) = Len(m) - 1
      BY EraseIs
    <2>2. \A j \in 1..i - 1 : r[j] = m[j]
      BY EraseIs
    <2>3. \A j \in i..Len(m) - 1 : r[j] = m[j + 1]
      BY EraseIs
    <2>4. QED
      BY <2>1, <2>2, <2>3
  <1>3. Len(m) \in Nat /\ i \in 1..Len(m)
    OBVIOUS
  <1>4. DOMAIN r = 1..Len(m) - 1 /\ DOMAIN m = 1..Len(m)
    BY <1>2, <1>3
  <1>5. m[i].who = c
    BY <1>1
  <1>6. \A j \in DOMAIN r : \/ j < i /\ j \in DOMAIN m /\ r[j] = m[j]
                            \/ i <= j /\ j + 1 \in DOMAIN m /\ r[j] = m[j + 1]
    BY <1>2, <1>3, <1>4
  <1>7. ASSUME NEW k \in DOMAIN m, k # i
        PROVE  \E j \in DOMAIN r : r[j] = m[k]
    <2>1. CASE k < i
      BY <1>2, <1>3, <1>4, <2>1
    <2>2. CASE ~(k < i)
      <3>1. k - 1 \in i..Len(m) - 1 /\ (k - 1) + 1 = k /\ k - 1 \in DOMAIN r
        BY <1>3, <1>4, <1>7, <2>2
      <3>2. QED
        BY <1>2, <3>1
    <2>3. QED
      BY <2>1, <2>2
  <1>8. ASSUME Alone(m)
        PROVE  Sleepers(r) = Sleepers(m) \ {c} /\ Alone(r)
    <2>1. \A k, l \in DOMAIN m : m[k].who = m[l].who => k = l
      BY <1>8 DEF Alone
    <2>2. Sleepers(r) \subseteq Sleepers(m) \ {c}
      <3>1. ASSUME NEW j \in DOMAIN r
            PROVE  r[j].who \in Sleepers(m) /\ r[j].who # c
        <4>1. PICK k \in DOMAIN m : r[j] = m[k] /\ k # i
          BY <1>3, <1>4, <1>6, <3>1
        <4>2. m[k].who # c
          BY <1>3, <1>4, <1>5, <2>1, <4>1
        <4>3. QED
          BY <4>1, <4>2 DEF Sleepers
      <3>2. QED
        BY <3>1 DEF Sleepers
    <2>3. Sleepers(m) \ {c} \subseteq Sleepers(r)
      BY <1>5, <1>7 DEF Sleepers
    <2>4. Alone(r)
      <3> SUFFICES ASSUME NEW j \in DOMAIN r, NEW k \in DOMAIN r, r[j].who = r[k].who
                   PROVE  j = k
        BY DEF Alone
      <3>1. PICK a \in DOMAIN m : r[j] = m[a] /\ a = IF j < i THEN j ELSE j + 1
        BY <1>3, <1>4, <1>6
      <3>2. PICK b \in DOMAIN m : r[k] = m[b] /\ b = IF k < i THEN k ELSE k + 1
        BY <1>3, <1>4, <1>6
      <3>3. a = b
        BY <2>1, <3>1, <3>2
      <3>4. QED
        BY <1>3, <1>4, <3>1, <3>2, <3>3
    <2>5. QED
      BY <2>2, <2>3, <2>4
  <1>9. ASSUME Sorted(m)
        PROVE  Sorted(r)
    <2> SUFFICES ASSUME NEW j \in DOMAIN r, NEW k \in DOMAIN r, j <= k
                 PROVE  r[j].at <= r[k].at
      BY DEF Sorted
    <2>1. \A a, b \in DOMAIN m : a <= b => m[a].at <= m[b].at
      BY <1>9 DEF Sorted
    <2>2. QED
      BY <1>3, <1>4, <1>6, <2>1
  <1>10. Within(r, m)
    BY <1>6 DEF Within
  <1>11. QED
    BY <1>1, <1>2, <1>8, <1>9, <1>10

LEMMA CancelledIs ==
    ASSUME mTimers \in Seq(Timers), NEW c \in Sleepers(mTimers)
    PROVE  /\ Cancelled(c) \in Seq(Timers)
           /\ Alone(mTimers) => /\ Sleepers(Cancelled(c)) = Sleepers(mTimers) \ {c}
                                /\ Alone(Cancelled(c))
           /\ Sorted(mTimers) => Sorted(Cancelled(c))
  <1>1. PICK i \in DOMAIN mTimers : mTimers[i].who = c /\ Cancelled(c) = Erase(mTimers, i)
    <2>1. PICK i : i = CHOOSE k \in DOMAIN mTimers : mTimers[k].who = c
      OBVIOUS
    <2>2. i \in DOMAIN mTimers /\ mTimers[i].who = c
      BY <2>1 DEF Sleepers
    <2>3. Cancelled(c) = Erase(mTimers, i)
      BY <2>1 DEF Cancelled, Erase
    <2>4. QED
      BY <2>2, <2>3
  <1>2. PICK m, r : m = mTimers /\ r = Erase(m, i)
    OBVIOUS
  <1>3. m \in Seq(Timers) /\ i \in 1..Len(m) /\ m[i].who = c
    BY <1>1, <1>2
  <1>4. r \in Seq(Timers)
    BY <1>2, <1>3, ErasedIs
  <1>5. Alone(m) => Sleepers(r) = Sleepers(m) \ {m[i].who} /\ Alone(r)
    BY <1>2, <1>3, ErasedIs
  <1>6. Sorted(m) => Sorted(r)
    BY <1>2, <1>3, ErasedIs
  <1>7. QED
    BY <1>1, <1>2, <1>3, <1>4, <1>5, <1>6

\* updateTimers() moves the timers that are due, n of them, from the front into the
\* executor's queue.
LEMMA ExpiredAre ==
    ASSUME mTimers \in Seq(Timers), NEW n \in 0..Len(mTimers),
           NEW T, NEW U, Loop \in T, Coros \subseteq U
    PROVE  LET rest    == SubSeq(mTimers, n + 1, Len(mTimers))
               expired == [i \in 1..n |-> <<Loop, mTimers[i].who>>]
           IN  /\ rest \in Seq(Timers) /\ expired \in Seq(T \X U)
               /\ Who(expired) = {mTimers[i].who : i \in 1..n}
               /\ Who(expired) \subseteq Coros
               /\ Sleepers(mTimers) = Who(expired) \cup Sleepers(rest)
               /\ Alone(mTimers) => /\ Once(expired) /\ Alone(rest)
                                    /\ Who(expired) \cap Sleepers(rest) = {}
               /\ Sorted(mTimers) => Sorted(rest)
  <1> DEFINE m == mTimers
             rest == SubSeq(m, n + 1, Len(m))
             expired == [i \in 1..n |-> <<Loop, m[i].who>>]
  <1>1. Len(m) \in Nat /\ n \in Nat /\ DOMAIN m = 1..Len(m) /\ n <= Len(m)
    OBVIOUS
  <1>2. /\ rest \in Seq(Timers) /\ DOMAIN rest = 1..Len(m) - n
        /\ \A i \in 1..Len(m) - n : rest[i] = m[n + i]
    OBVIOUS
  <1>3. \A i \in 1..n : i \in DOMAIN m /\ m[i].who \in Coros
    BY <1>1, TimerIs
  <1>4. expired \in Seq(T \X U) /\ DOMAIN expired = 1..n
    <2>1. expired \in [1..n -> T \X U]
      BY <1>3
    <2>2. QED
      BY <1>1, <2>1, IsASeq
  <1>5. \A i \in 1..n : expired[i][2] = m[i].who
    OBVIOUS
  <1> HIDE DEF m, rest, expired
  <1>6. Who(expired) = {m[i].who : i \in 1..n} /\ Who(expired) \subseteq Coros
    BY <1>3, <1>4, <1>5 DEF Who
  <1>7. \A k \in DOMAIN m : k \in 1..n \/ (k - n \in DOMAIN rest /\ rest[k - n] = m[k])
    <2> SUFFICES ASSUME NEW k \in DOMAIN m, k \notin 1..n
                 PROVE  k - n \in DOMAIN rest /\ rest[k - n] = m[k]
      OBVIOUS
    <2>1. k - n \in 1..Len(m) - n /\ n + (k - n) = k
      BY <1>1
    <2>2. QED
      BY <1>2, <2>1
  <1>8. \A j \in DOMAIN rest : n + j \in DOMAIN m /\ rest[j] = m[n + j] /\ n + j \notin 1..n
    BY <1>1, <1>2
  <1>9. Sleepers(m) = Who(expired) \cup Sleepers(rest)
    <2>1. Sleepers(m) \subseteq Who(expired) \cup Sleepers(rest)
      BY <1>6, <1>7 DEF Sleepers
    <2>2. Who(expired) \subseteq Sleepers(m)
      BY <1>3, <1>6 DEF Sleepers
    <2>3. Sleepers(rest) \subseteq Sleepers(m)
      BY <1>8 DEF Sleepers
    <2>4. QED
      BY <2>1, <2>2, <2>3
  <1>10. ASSUME Alone(m)
         PROVE  Once(expired) /\ Alone(rest) /\ Who(expired) \cap Sleepers(rest) = {}
    <2>1. \A k, l \in DOMAIN m : m[k].who = m[l].who => k = l
      BY <1>10 DEF Alone
    <2>2. Once(expired)
      BY <1>3, <1>4, <1>5, <2>1 DEF Once
    <2>3. Alone(rest)
      <3> SUFFICES ASSUME NEW i \in DOMAIN rest, NEW j \in DOMAIN rest,
                          rest[i].who = rest[j].who
                   PROVE  i = j
        BY DEF Alone
      <3>1. n + i = n + j
        BY <1>8, <2>1
      <3>2. QED
        BY <1>1, <1>2, <3>1
    <2>4. ASSUME NEW i \in 1..n, NEW j \in DOMAIN rest
          PROVE  m[i].who # rest[j].who
      <3>1. i # n + j
        BY <1>8
      <3>2. QED
        BY <1>3, <1>8, <2>1, <3>1
    <2>5. QED
      BY <1>6, <2>2, <2>3, <2>4 DEF Sleepers
  <1>11. ASSUME Sorted(m)
         PROVE  Sorted(rest)
    <2> SUFFICES ASSUME NEW i \in DOMAIN rest, NEW j \in DOMAIN rest, i <= j
                 PROVE  rest[i].at <= rest[j].at
      BY DEF Sorted
    <2>1. n + i <= n + j
      BY <1>1, <1>2
    <2>2. QED
      BY <1>8, <1>11, <2>1 DEF Sorted
  <1>12. QED
    BY <1>2, <1>4, <1>6, <1>9, <1>10, <1>11 DEF m, rest, expired

-----------------------------------------------------------------------------
(* The places of the coroutines.                                           *)

ServiceTypes ==
    /\ mTimers \in Seq(Timers)
    /\ stopReq \in [Coros -> BOOLEAN]
    /\ slices \in [Coros -> 0..Slices]

\* A coroutine is ready while it is posted, here or in the queue of the executor whose
\* callbacks are those in rest, and asleep while it has a timer.
Placed(rest) ==
    /\ \A c \in Coros : st[c] = "ready" <=> c \in Who(local) \cup rest
    /\ \A c \in Coros : st[c] = "asleep" <=> c \in Sleepers(mTimers)
    /\ Once(local) /\ Who(local) \cap rest = {}
    /\ Alone(mTimers) /\ Sorted(mTimers)

\* What the places of the executor keep in a step: who is where it added, and the
\* callbacks that are none of the coroutines.
OthersKept ==
    /\ \A c \in Coros : st'[c] # st[c] => st[c] \in Places /\ st'[c] \in Places
    /\ \A u : u \notin Coros => (u \in Who(local') <=> u \in Who(local))

\* The coroutine that runs was posted, once, and is nowhere else.
LEMMA RunningIs ==
    ASSUME NEW T, NEW U, NEW rest, local \in Seq(T \X U), Placed(rest), NEW c \in Coros,
           Running(c)
    PROVE  /\ Tail(local) \in Seq(T \X U) /\ Once(Tail(local))
           /\ c \notin Who(Tail(local)) /\ Who(local) = Who(Tail(local)) \cup {c}
           /\ c \notin rest /\ c \notin Sleepers(mTimers) /\ st[c] = "ready"
  <1>1. local # <<>> /\ Head(local)[2] = c
    BY DEF Running
  <1>2. /\ Tail(local) \in Seq(T \X U) /\ c \in Who(local)
        /\ Who(local) = Who(Tail(local)) \cup {c}
        /\ Once(local) => Once(Tail(local)) /\ c \notin Who(Tail(local))
    BY <1>1, WhoTail
  <1>3. st[c] = "ready"
    BY <1>2 DEF Placed
  <1>4. QED
    BY <1>2, <1>3 DEF Placed

\* The running coroutine goes to a place where nothing is kept of it.
LEMMA LeaveKeeps ==
    ASSUME NEW T, NEW U, NEW P, NEW rest, ServiceTypes, local \in Seq(T \X U),
           st \in [Coros -> P], Placed(rest), NEW c \in Coros, Running(c),
           NEW to \in P, to \notin {"ready", "asleep"},
           st' = [st EXCEPT ![c] = to], local' = Tail(local), UNCHANGED mTimers
    PROVE  local' \in Seq(T \X U) /\ st' \in [Coros -> P] /\ Placed(rest)'
  <1>1. /\ Tail(local) \in Seq(T \X U) /\ Once(Tail(local))
        /\ c \notin Who(Tail(local)) /\ Who(local) = Who(Tail(local)) \cup {c}
        /\ c \notin rest /\ c \notin Sleepers(mTimers) /\ st[c] = "ready"
    BY RunningIs
  <1>2. st' \in [Coros -> P] /\ st'[c] = to /\ \A d \in Coros \ {c} : st'[d] = st[d]
    OBVIOUS
  <1>3. \A d \in Coros : st'[d] = "ready" <=> d \in Who(Tail(local)) \cup rest
    BY <1>1, <1>2 DEF Placed
  <1>4. \A d \in Coros : st'[d] = "asleep" <=> d \in Sleepers(mTimers)
    BY <1>1, <1>2 DEF Placed
  <1>5. QED
    BY <1>1, <1>2, <1>3, <1>4 DEF Placed

LEMMA SuspendKeeps ==
    ASSUME NEW T, NEW U, NEW P, NEW rest, Places \subseteq P, ServiceTypes,
           local \in Seq(T \X U), st \in [Coros -> P], Placed(rest), NEW c \in Coros,
           Suspend(c)
    PROVE  /\ ServiceTypes' /\ local' \in Seq(T \X U) /\ st' \in [Coros -> P]
           /\ Placed(rest)' /\ OthersKept
  <1>1. Running(c) /\ local' = Tail(local) /\ UNCHANGED <<mTimers, stopReq>>
    BY DEF Suspend
  <1>2. PICK to \in {"parked", "done"} : /\ st' = [st EXCEPT ![c] = to]
                                         /\ to = "parked" => slices[c] > 0
    BY DEF Suspend
  <1>3. st'[c] = to /\ \A d \in Coros \ {c} : st'[d] = st[d]
    BY <1>2
  <1>4. slices' \in [Coros -> 0..Slices]
    <2>1. slices' = [slices EXCEPT ![c] = IF to = "done" THEN 0 ELSE @ - 1]
      BY <1>3 DEF Suspend
    <2>2. slices[c] \in 0..Slices /\ Slices \in Nat
      BY TimerAssumption DEF ServiceTypes
    <2>3. (IF to = "done" THEN 0 ELSE slices[c] - 1) \in 0..Slices
      BY <1>2, <2>2
    <2>4. QED
      BY <2>1, <2>3 DEF ServiceTypes
  <1>5. local' \in Seq(T \X U) /\ st' \in [Coros -> P] /\ Placed(rest)'
    BY <1>1, <1>2, LeaveKeeps DEF Places
  <1>6. OthersKept
    <2>1. Who(local) = Who(Tail(local)) \cup {c}
      BY <1>1, RunningIs
    <2>2. st[c] = "ready"
      BY <1>1, RunningIs
    <2>3. QED
      BY <1>1, <1>2, <1>3, <2>1, <2>2 DEF OthersKept, Places
  <1>7. QED
    BY <1>1, <1>4, <1>5, <1>6 DEF ServiceTypes

\* The running coroutine puts itself behind the others.
LEMMA YieldKeeps ==
    ASSUME NEW T, NEW U, NEW rest, Loop \in T, Coros \subseteq U, local \in Seq(T \X U),
           Placed(rest), NEW c \in Coros, Running(c),
           local' = Append(Tail(local), <<Loop, c>>)
    PROVE  local' \in Seq(T \X U) /\ Who(local') = Who(local) /\ Once(local')
  <1>1. /\ Tail(local) \in Seq(T \X U) /\ Once(Tail(local))
        /\ c \notin Who(Tail(local)) /\ Who(local) = Who(Tail(local)) \cup {c}
    BY RunningIs
  <1>2. c \in U
    OBVIOUS
  <1>3. PICK q \in Seq(T \X U) : q = Tail(local)
    BY <1>1
  <1>4. /\ Append(q, <<Loop, c>>) \in Seq(T \X U)
        /\ Who(Append(q, <<Loop, c>>)) = Who(q) \cup {c}
    BY <1>2, WhoAppend
  <1>5. Once(q) /\ c \notin Who(q) => Once(Append(q, <<Loop, c>>))
    BY <1>2, WhoAppend
  <1>6. QED
    BY <1>1, <1>3, <1>4, <1>5

LEMMA OneSliceLess ==
    ASSUME ServiceTypes, NEW c \in Coros, slices[c] > 0,
           slices' = [slices EXCEPT ![c] = @ - 1]
    PROVE  slices' \in [Coros -> 0..Slices]
  <1>1. slices[c] \in 0..Slices /\ Slices \in Nat
    BY TimerAssumption DEF ServiceTypes
  <1>2. slices[c] - 1 \in 0..Slices
    BY <1>1
  <1>3. QED
    BY <1>2 DEF ServiceTypes

LEMMA SleepKeeps ==
    ASSUME NEW T, NEW U, NEW P, NEW rest, Places \subseteq P, ServiceTypes, now \in Nat,
           local \in Seq(T \X U), st \in [Coros -> P], Placed(rest), NEW c \in Coros,
           NEW delay \in Delays, Sleep(c, delay)
    PROVE  /\ ServiceTypes' /\ local' \in Seq(T \X U) /\ st' \in [Coros -> P]
           /\ Placed(rest)' /\ OthersKept
  <1>1. Running(c) /\ local' = Tail(local) /\ UNCHANGED stopReq
    BY DEF Sleep
  <1>2. /\ Tail(local) \in Seq(T \X U) /\ Once(Tail(local))
        /\ c \notin Who(Tail(local)) /\ Who(local) = Who(Tail(local)) \cup {c}
        /\ c \notin rest /\ c \notin Sleepers(mTimers) /\ st[c] = "ready"
    BY <1>1, RunningIs
  <1>3. slices' \in [Coros -> 0..Slices]
    BY OneSliceLess DEF Sleep
  <1>4. CASE stopReq[c]
    <2>1. st' = [st EXCEPT ![c] = "stopped"] /\ UNCHANGED mTimers
      BY <1>4 DEF Sleep
    <2>2. st' \in [Coros -> P] /\ Placed(rest)' /\ local' \in Seq(T \X U)
      BY <1>1, <2>1, LeaveKeeps DEF Places
    <2>3. OthersKept
      BY <1>1, <1>2, <2>1 DEF OthersKept, Places
    <2>4. QED
      BY <1>1, <1>3, <2>1, <2>2, <2>3 DEF ServiceTypes
  <1>5. CASE ~stopReq[c]
    <2>1. PICK e : e = [at |-> now + delay, who |-> c]
      OBVIOUS
    <2>2. st' = [st EXCEPT ![c] = "asleep"] /\ mTimers' = Insert(e)
      BY <1>5, <2>1 DEF Sleep
    <2>3. e \in Timers /\ e.who = c
      BY <2>1, TimerAssumption DEF Sleep, Timers
    <2>4. /\ Insert(e) \in Seq(Timers)
          /\ Sleepers(Insert(e)) = Sleepers(mTimers) \cup {c}
          /\ Alone(Insert(e)) /\ Sorted(Insert(e))
      BY <1>2, <2>3, InsertIs DEF ServiceTypes, Placed
    <2>5. /\ st' \in [Coros -> P] /\ st'[c] = "asleep"
          /\ \A d \in Coros \ {c} : st'[d] = st[d]
      BY <2>2 DEF Places
    <2>6. \A d \in Coros : st'[d] = "ready" <=> d \in Who(Tail(local)) \cup rest
      BY <1>2, <2>5 DEF Placed
    <2>7. \A d \in Coros : st'[d] = "asleep" <=> d \in Sleepers(Insert(e))
      BY <1>2, <2>4, <2>5 DEF Placed
    <2>8. Placed(rest)'
      BY <1>1, <1>2, <2>2, <2>4, <2>6, <2>7 DEF Placed
    <2>9. OthersKept
      BY <1>1, <1>2, <2>5 DEF OthersKept, Places
    <2>10. QED
      BY <1>1, <1>2, <1>3, <2>2, <2>4, <2>5, <2>8, <2>9 DEF ServiceTypes
  <1>6. QED
    BY <1>4, <1>5

LEMMA StopOtherKeeps ==
    ASSUME NEW T, NEW U, NEW P, NEW rest, Loop \in T, Coros \subseteq U, Places \subseteq P,
           ServiceTypes, local \in Seq(T \X U), st \in [Coros -> P], Placed(rest),
           NEW c \in Coros, NEW d \in Coros, StopOther(c, d)
    PROVE  /\ ServiceTypes' /\ local' \in Seq(T \X U) /\ st' \in [Coros -> P]
           /\ Placed(rest)' /\ OthersKept
  <1>1. /\ Running(c) /\ local' = Append(Tail(local), <<Loop, c>>)
        /\ stopReq' = [stopReq EXCEPT ![d] = TRUE]
    BY DEF StopOther, Request
  <1>2. local' \in Seq(T \X U) /\ Who(local') = Who(local) /\ Once(local')
    BY <1>1, YieldKeeps
  <1>3. slices' \in [Coros -> 0..Slices] /\ stopReq' \in [Coros -> BOOLEAN]
    <2>1. slices' \in [Coros -> 0..Slices]
      BY OneSliceLess DEF StopOther, Request
    <2>2. QED
      BY <1>1, <2>1 DEF ServiceTypes
  <1>4. CASE st[d] = "asleep"
    <2>1. st' = [st EXCEPT ![d] = "stopped"] /\ mTimers' = Cancelled(d)
      BY <1>4 DEF StopOther
    <2>2. d \in Sleepers(mTimers) /\ d \notin Who(local) \cup rest
      BY <1>4 DEF Placed
    <2>3. /\ Cancelled(d) \in Seq(Timers)
          /\ Sleepers(Cancelled(d)) = Sleepers(mTimers) \ {d}
          /\ Alone(Cancelled(d)) /\ Sorted(Cancelled(d))
      BY <2>2, CancelledIs DEF ServiceTypes, Placed
    <2>4. /\ st' \in [Coros -> P] /\ st'[d] = "stopped"
          /\ \A e \in Coros \ {d} : st'[e] = st[e]
      BY <2>1 DEF Places
    <2>5. \A e \in Coros : st'[e] = "ready" <=> e \in Who(local') \cup rest
      BY <1>2, <2>2, <2>4 DEF Placed
    <2>6. \A e \in Coros : st'[e] = "asleep" <=> e \in Sleepers(Cancelled(d))
      BY <2>3, <2>4 DEF Placed
    <2>7. Placed(rest)'
      BY <1>2, <2>1, <2>3, <2>5, <2>6 DEF Placed
    <2>8. OthersKept
      BY <1>2, <1>4, <2>4 DEF OthersKept, Places
    <2>9. QED
      BY <1>2, <1>3, <2>1, <2>3, <2>4, <2>7, <2>8 DEF ServiceTypes
  <1>5. CASE st[d] # "asleep"
    <2>1. UNCHANGED <<st, mTimers>>
      BY <1>5 DEF StopOther
    <2>2. QED
      BY <1>2, <1>3, <2>1 DEF ServiceTypes, Placed, OthersKept
  <1>6. QED
    BY <1>4, <1>5

LEMMA SliceKeeps ==
    ASSUME NEW T, NEW U, NEW P, NEW rest, Loop \in T, Coros \subseteq U, Places \subseteq P,
           ServiceTypes, now \in Nat, local \in Seq(T \X U), st \in [Coros -> P],
           Placed(rest), Slice
    PROVE  /\ ServiceTypes' /\ local' \in Seq(T \X U) /\ st' \in [Coros -> P]
           /\ Placed(rest)' /\ OthersKept
  <1>1. PICK c \in Coros : \/ Suspend(c) \/ Yield(c)
                           \/ \E delay \in Delays : Sleep(c, delay)
                           \/ \E d \in Coros : StopOther(c, d)
    BY DEF Slice
  <1>2. CASE Suspend(c)
    BY <1>2, SuspendKeeps
  <1>3. CASE Yield(c)
    <2>1. /\ local' \in Seq(T \X U) /\ Who(local') = Who(local) /\ Once(local')
          /\ UNCHANGED <<mTimers, st, stopReq>>
      BY <1>3, YieldKeeps DEF Yield
    <2>2. slices' \in [Coros -> 0..Slices]
      BY <1>3, OneSliceLess DEF Yield
    <2>3. QED
      BY <2>1, <2>2 DEF ServiceTypes, Placed, OthersKept
  <1>4. ASSUME NEW delay \in Delays, Sleep(c, delay)
        PROVE  /\ ServiceTypes' /\ local' \in Seq(T \X U) /\ st' \in [Coros -> P]
               /\ Placed(rest)' /\ OthersKept
    BY <1>4, SleepKeeps
  <1>5. ASSUME NEW d \in Coros, StopOther(c, d)
        PROVE  /\ ServiceTypes' /\ local' \in Seq(T \X U) /\ st' \in [Coros -> P]
               /\ Placed(rest)' /\ OthersKept
    BY <1>5, StopOtherKeeps
  <1>6. QED
    BY <1>1, <1>2, <1>3, <1>4, <1>5

\* updateTimers() moves the sleepers whose time has come into the queue.
LEMMA UpdateKeeps ==
    ASSUME NEW T, NEW U, NEW P, NEW rest, Loop \in T, Coros \subseteq U, Places \subseteq P,
           ServiceTypes, now \in Nat, local \in Seq(T \X U), st \in [Coros -> P],
           Placed(rest), UpdateTimers
    PROVE  /\ ServiceTypes' /\ local' \in Seq(T \X U) /\ st' \in [Coros -> P]
           /\ Placed(rest)' /\ OthersKept
  <1>1. PICK n \in 0..Len(mTimers) : n = UpTo(now)
    BY UpToIs DEF ServiceTypes
  <1>2. PICK m, x : /\ m = SubSeq(mTimers, n + 1, Len(mTimers))
                    /\ x = [i \in 1..n |-> <<Loop, mTimers[i].who>>]
    OBVIOUS
  <1>3. /\ mTimers' = m /\ local' = local \o x
        /\ st' = [c \in Coros |-> IF \E i \in 1..n : mTimers[i].who = c THEN "ready"
                                                                       ELSE st[c]]
        /\ UNCHANGED <<stopReq, slices>>
    BY <1>1, <1>2 DEF UpdateTimers
  <1>4. /\ m \in Seq(Timers) /\ x \in Seq(T \X U)
        /\ Who(x) = {mTimers[i].who : i \in 1..n} /\ Who(x) \subseteq Coros
        /\ Sleepers(mTimers) = Who(x) \cup Sleepers(m)
        /\ Once(x) /\ Alone(m) /\ Who(x) \cap Sleepers(m) = {} /\ Sorted(m)
    BY <1>2, ExpiredAre DEF ServiceTypes, Placed
  <1>5. /\ st' \in [Coros -> P]
        /\ \A c \in Coros : st'[c] = IF c \in Who(x) THEN "ready" ELSE st[c]
    BY <1>3, <1>4 DEF Places
  <1>6. \A c \in Who(x) : c \in Coros /\ st[c] = "asleep" /\ c \notin Who(local) \cup rest
    <2>1. \A c \in Who(x) : c \in Coros /\ st[c] = "asleep"
      BY <1>4 DEF Placed
    <2>2. QED
      BY <2>1 DEF Placed
  <1>7. /\ local' \in Seq(T \X U) /\ Who(local') = Who(local) \cup Who(x) /\ Once(local')
    <2>1. Once(local) /\ Who(local) \cap Who(x) = {}
      BY <1>6 DEF Placed
    <2>2. PICK q, r : /\ q = local /\ q \in Seq(T \X U)
                      /\ r = x /\ r \in Seq(T \X U)
      BY <1>4
    <2>3. q \o r \in Seq(T \X U)
      BY <2>2, WhoConcat
    <2>4. Who(q \o r) = Who(q) \cup Who(r)
      <3>1. ASSUME NEW u PROVE u \in Who(q \o r) <=> u \in Who(q) \/ u \in Who(r)
        BY <2>2, WhoConcat
      <3>2. QED
        BY <3>1
    <2>5. Once(q \o r) <=> Once(q) /\ Once(r) /\ Who(q) \cap Who(r) = {}
      BY <2>2, WhoConcat
    <2>6. QED
      BY <1>3, <1>4, <2>1, <2>2, <2>3, <2>4, <2>5
  <1>8. \A c \in Coros : st'[c] = "ready" <=> c \in Who(local') \cup rest
    BY <1>5, <1>7 DEF Placed
  <1>9. \A c \in Coros : st'[c] = "asleep" <=> c \in Sleepers(m)
    BY <1>4, <1>5, <1>6 DEF Placed
  <1>10. Placed(rest)'
    BY <1>3, <1>4, <1>6, <1>7, <1>8, <1>9 DEF Placed
  <1>11. OthersKept
    BY <1>4, <1>5, <1>6, <1>7 DEF OthersKept, Places
  <1>12. QED
    BY <1>3, <1>4, <1>5, <1>7, <1>10, <1>11 DEF ServiceTypes

-----------------------------------------------------------------------------
(* The first timer.                                                        *)

LEMMA NextTimepointIs ==
    ASSUME ServiceTypes, Sorted(mTimers)
    PROVE  /\ NextTimepoint \in 0..Never
           /\ \A i \in DOMAIN mTimers : NextTimepoint <= mTimers[i].at
  <1>1. Never \in Nat /\ 0..MaxTime \subseteq 0..Never
    BY TimerAssumption DEF Never
  <1>2. CASE mTimers = <<>>
    BY <1>1, <1>2 DEF NextTimepoint
  <1>3. CASE mTimers # <<>>
    <2>1. Head(mTimers) = mTimers[1] /\ 1 \in DOMAIN mTimers
      BY <1>3 DEF ServiceTypes
    <2>2. mTimers[1] \in Timers /\ DOMAIN mTimers \subseteq Nat \ {0}
      BY <2>1 DEF ServiceTypes
    <2>3. NextTimepoint = mTimers[1].at
      BY <1>3, <2>1 DEF NextTimepoint
    <2>4. QED
      BY <1>1, <2>1, <2>2, <2>3, TimerIs DEF Sorted
  <1>4. QED
    BY <1>2, <1>3

\* updateTimers() leaves only timers that are not due, and when it schedules nobody it
\* changes nothing.
LEMMA UpdateLeaves ==
    ASSUME NEW S, ServiceTypes, now \in 0..MaxTime, local \in Seq(S), UpdateTimers
    PROVE  /\ NextTimepoint' \in 0..Never /\ NextTimepoint' > now
           /\ local' = <<>> => mTimers' = mTimers
  <1>1. PICK n \in 0..Len(mTimers) : n = UpTo(now)
    BY UpToIs, TimerAssumption DEF ServiceTypes
  <1>2. PICK m, x : /\ m = SubSeq(mTimers, n + 1, Len(mTimers))
                    /\ x = [i \in 1..n |-> <<Loop, mTimers[i].who>>]
    OBVIOUS
  <1>3. mTimers' = m /\ local' = local \o x
    BY <1>1, <1>2 DEF UpdateTimers
  <1>4. /\ Len(mTimers) \in Nat /\ n \in Nat /\ now \in Nat
        /\ \A i \in 1..Len(mTimers) : mTimers[i] \in Timers
    BY TimerAssumption DEF ServiceTypes
  <1>5. n < Len(mTimers) => mTimers[n + 1].at > now
    BY <1>1, <1>4, UpToIs DEF ServiceTypes
  <1>6. MaxTime \in Nat /\ Never = MaxTime + 1 /\ now \in Nat /\ now <= MaxTime
    BY TimerAssumption DEF Never
  <1>7. PICK tp : tp = NextTimepoint'
    OBVIOUS
  <1>8. tp = IF m = <<>> THEN Never ELSE Head(m).at
    BY <1>3, <1>7 DEF NextTimepoint, Never
  <1>9. m \in Seq(Timers) /\ Len(m) = Len(mTimers) - n
    BY <1>2, <1>4 DEF ServiceTypes
  <1>10. ASSUME n = Len(mTimers)
         PROVE  NextTimepoint' \in 0..Never /\ NextTimepoint' > now
    <2>1. tp = Never
      BY <1>4, <1>8, <1>9, <1>10
    <2>2. tp \in 0..Never /\ tp > now
      BY <1>6, <2>1
    <2>3. QED
      BY <1>7, <2>2
  <1>11. ASSUME n < Len(mTimers)
         PROVE  NextTimepoint' \in 0..Never /\ NextTimepoint' > now
    <2>1. n + 1 \in 1..Len(mTimers) /\ 1 \in 1..Len(mTimers) - n
      BY <1>4, <1>11
    <2>2. m[1] = mTimers[n + 1]
      BY <1>2, <1>4, <2>1 DEF ServiceTypes
    <2>3. m # <<>> /\ Head(m) = m[1]
      BY <1>4, <1>9, <1>11
    <2>4. tp = mTimers[n + 1].at
      BY <1>8, <2>2, <2>3
    <2>5. tp \in 0..MaxTime
      BY <1>4, <2>1, <2>4, TimerIs
    <2>6. tp \in 0..Never /\ tp > now
      BY <1>5, <1>6, <1>11, <2>4, <2>5
    <2>7. QED
      BY <1>7, <2>6
  <1>12. ASSUME local' = <<>>
         PROVE  mTimers' = mTimers
    <2>1. PICK R : R = {<<Loop, mTimers[i].who>> : i \in 1..n}
      OBVIOUS
    <2>2. x \in [1..n -> R]
      BY <1>2, <2>1
    <2>3. x \in Seq(R) /\ Len(x) = n
      BY <1>4, <2>2, IsASeq
    <2>4. PICK q : q = local /\ q \in Seq(S)
      OBVIOUS
    <2>5. q \in Seq(S \cup R) /\ x \in Seq(S \cup R)
      BY <2>3, <2>4
    <2>6. Len(q \o x) = Len(q) + Len(x)
      BY <2>5, ConcatProperties
    <2>7. Len(q) \in Nat
      BY <2>4, SeqIs
    <2>8. Len(q \o x) = 0
      <3>1. q \o x = <<>>
        BY <1>3, <1>12, <2>4
      <3>2. QED
        BY <3>1
    <2>9. n = 0
      BY <1>4, <2>3, <2>6, <2>7, <2>8
    <2>10. m = mTimers
      BY <1>2, <1>4, <2>9 DEF ServiceTypes
    <2>11. QED
      BY <1>3, <2>10
  <1>13. QED
    BY <1>4, <1>10, <1>11, <1>12

-----------------------------------------------------------------------------
(* The steps of the thread as steps of module Executor.                    *)

\* A callback of the thread runs and posts itself again, or does not.
LEMMA TailServes ==
    ASSUME NEW T, NEW U, Loop \in T, local \in Seq(T \X U), local # <<>>,
           NEW rest \in Seq(T \X U), \A i \in DOMAIN rest : rest[i][1] # Loop,
           \/ local' = Tail(local)
           \/ \E u \in U : local' = Append(Tail(local), <<Loop, u>>)
    PROVE  Serves(T, local \o rest, local' \o rest)
  <1>1. PICK S, own : S = T \X U /\ own = local
    OBVIOUS
  <1>2. /\ own \in Seq(S) /\ own # <<>> /\ Tail(own) \in Seq(S) /\ rest \in Seq(S)
        /\ \A e \in S : e[1] \in T
    BY <1>1
  <1>3. PICK new \in Seq(S) : /\ \A i \in DOMAIN new : new[i][1] = Loop
                              /\ local' = Tail(own) \o new
    <2>1. CASE local' = Tail(local)
      <3>1. <<>> \in Seq(S) /\ Tail(own) \o <<>> = Tail(own)
        BY <1>2, ConcatEmptySeq
      <3>2. \A i \in DOMAIN <<>> : <<>>[i][1] = Loop
        OBVIOUS
      <3>3. QED
        BY <1>1, <2>1, <3>1, <3>2
    <2>2. ASSUME NEW u \in U, local' = Append(Tail(local), <<Loop, u>>)
          PROVE  \E new \in Seq(S) : /\ \A i \in DOMAIN new : new[i][1] = Loop
                                     /\ local' = Tail(own) \o new
      <3>1. PICK e : e = <<Loop, u>>
        OBVIOUS
      <3>2. e \in S /\ e[1] = Loop
        BY <1>1, <3>1
      <3>3. <<e>> \in Seq(S) /\ \A i \in DOMAIN <<e>> : <<e>>[i][1] = Loop
        BY <3>2
      <3>4. Append(Tail(own), e) = Tail(own) \o <<e>>
        BY <1>2, <3>2, AppendIsConcat
      <3>5. QED
        BY <1>1, <2>2, <3>1, <3>3, <3>4
    <2>3. QED
      BY <2>1, <2>2
  <1>4. Serves(T, own \o rest, (Tail(own) \o new) \o rest)
    BY <1>2, <1>3, RunServes
  <1>5. QED
    BY <1>1, <1>3, <1>4

LEMMA SliceServes ==
    ASSUME NEW T, NEW U, Loop \in T, Coros \subseteq U, local \in Seq(T \X U),
           NEW rest \in Seq(T \X U), \A i \in DOMAIN rest : rest[i][1] # Loop, Slice
    PROVE  Serves(T, local \o rest, local' \o rest)
  <1>1. PICK c \in Coros : \/ Suspend(c) \/ Yield(c)
                           \/ \E delay \in Delays : Sleep(c, delay)
                           \/ \E d \in Coros : StopOther(c, d)
    BY DEF Slice
  <1>2. /\ local # <<>> /\ c \in U
        /\ \/ local' = Tail(local)
           \/ local' = Append(Tail(local), <<Loop, c>>)
    BY <1>1 DEF Suspend, Yield, Sleep, StopOther, Request, Running
  <1>3. QED
    BY <1>2, TailServes

LEMMA UpdateServes ==
    ASSUME NEW T, NEW U, Loop \in T, Coros \subseteq U, ServiceTypes, now \in Nat,
           local \in Seq(T \X U), NEW rest \in Seq(T \X U),
           \A i \in DOMAIN rest : rest[i][1] # Loop, UpdateTimers
    PROVE  Serves(T, local \o rest, local' \o rest)
  <1>1. PICK n \in 0..Len(mTimers) : n = UpTo(now)
    BY UpToIs DEF ServiceTypes
  <1>2. PICK new : new = [i \in 1..n |-> <<Loop, mTimers[i].who>>]
    OBVIOUS
  <1>3. local' = local \o new
    BY <1>1, <1>2 DEF UpdateTimers
  <1>4. new \in Seq(T \X U) /\ \A i \in DOMAIN new : new[i][1] = Loop
    <2>1. n \in Nat /\ \A i \in 1..n : mTimers[i] \in Timers
      BY DEF ServiceTypes
    <2>2. \A i \in 1..n : mTimers[i].who \in U
      BY <2>1, TimerIs
    <2>3. \A i \in 1..n : <<Loop, mTimers[i].who>> \in T \X U
      BY <2>2
    <2>4. new \in [1..n -> T \X U]
      BY <1>2, <2>3
    <2>5. new \in Seq(T \X U)
      BY <2>1, <2>4, IsASeq
    <2>6. QED
      BY <1>2, <2>5
  <1>5. PICK S, own : S = T \X U /\ own = local
    OBVIOUS
  <1>6. Serves(T, own \o rest, (own \o new) \o rest)
    BY <1>4, <1>5, OwnPostServes
  <1>7. QED
    BY <1>3, <1>5, <1>6
=============================================================================
