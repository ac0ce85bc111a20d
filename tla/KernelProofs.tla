---------------------------- MODULE KernelProofs ----------------------------
(***************************************************************************)
(* Proofs about the kernel, for all queues, threads, workloads and tick      *)
(* moduli: the queues are the abstract ones, no wakeup is lost, priorities   *)
(* are kept and inherited, and a thread that sleeps is woken on time.        *)
(***************************************************************************)
EXTENDS Kernel, Ticks, WellFoundedInduction, SequenceTheorems, FiniteSetTheorems, TLAPS

-----------------------------------------------------------------------------
(* list.c: what is computed entry by entry. *)

(* A set of naturals that is not empty has a least element. *)
LEMMA Least ==
    ASSUME NEW T \in SUBSET Nat, T # {}
    PROVE  \E n \in T : \A m \in T : n <= m
<1> DEFINE R == {ss \in Nat \X Nat : ss[1] < ss[2]}
<1>1. IsWellFoundedOn(R, Nat)
  BY NatLessThanWellFounded DEF OpToRel
<1>2. PICK n \in T : \A m \in T : ~(<<m, n>> \in R)
  BY <1>1, WFMin
<1>3. ASSUME NEW m \in T PROVE n <= m
  <2>1. n \in Nat /\ m \in Nat /\ ~(<<m, n>> \in R)
    BY <1>2
  <2> QED
    BY <2>1
<1> QED
  BY <1>3

(* Induction, for a set of numbers. *)
LEMMA UpTo ==
    ASSUME NEW L \in Nat, NEW T, 0 \in T, \A n \in 0 .. L - 1 : n \in T => n + 1 \in T
    PROVE  0 .. L \subseteq T
<1> DEFINE C == {n \in Nat : n <= L /\ n \notin T}
<1> SUFFICES ASSUME C # {} PROVE FALSE
  OBVIOUS
<1>1. PICK n \in C : \A m \in C : n <= m
  <2>1. C \in SUBSET Nat
    OBVIOUS
  <2> HIDE DEF C
  <2> QED
    BY <2>1, Least
<1>2. n # 0
  OBVIOUS
<1>3. n - 1 \in Nat /\ n - 1 \notin C /\ n - 1 \in 0 .. L - 1
  BY <1>1, <1>2
<1> QED
  BY <1>3

(* Kept is computed step by step. *)
KeptSteps(list, I, G) ==
    G = [n \in 0 .. Len(list) |->
            IF n = 0 THEN << >>
            ELSE IF n \in I THEN Append(G[n - 1], list[n]) ELSE G[n - 1]]

LEMMA KeptComputed ==
    ASSUME NEW list, Len(list) \in Nat, NEW I
    PROVE  \E G : KeptSteps(list, I, G) /\ Kept(list, I) = G[Len(list)]
<1> DEFINE L == Len(list)
           Val(G, n) == IF n = 0 THEN << >>
                        ELSE IF n \in I THEN Append(G[n - 1], list[n]) ELSE G[n - 1]
           T == {m \in 0 .. L : \E G : G = [n \in 0 .. m |-> Val(G, n)]}
<1>1. 0 \in T
  <2> DEFINE H == [n \in 0 .. 0 |-> << >>]
  <2>1. H = [n \in 0 .. 0 |-> Val(H, n)]
    OBVIOUS
  <2> HIDE DEF H, Val
  <2> QED
    BY <2>1
<1>2. ASSUME NEW m \in 0 .. L - 1, m \in T PROVE m + 1 \in T
  <2>1. PICK G : G = [n \in 0 .. m |-> Val(G, n)]
    BY <1>2
  <2> DEFINE H == [n \in 0 .. m + 1 |-> IF n = m + 1 THEN Val(G, m + 1) ELSE G[n]]
  <2>2. ASSUME NEW n \in 0 .. m + 1 PROVE H[n] = Val(H, n)
    <3>1. CASE n = m + 1
      <4>1. H[n - 1] = G[n - 1] /\ n # 0
        BY <3>1
      <4> QED
        BY <3>1, <4>1
    <3>2. CASE n \in 0 .. m
      <4>1. G[n] = Val(G, n)
        BY <2>1, <3>2
      <4>2. n # 0 => H[n - 1] = G[n - 1]
        BY <3>2
      <4>3. H[n] = G[n]
        BY <3>2
      <4> QED
        BY <4>1, <4>2, <4>3
    <3> QED
      BY <3>1, <3>2
  <2>3. H = [n \in 0 .. m + 1 |-> Val(H, n)]
    BY <2>2
  <2>4. m + 1 \in 0 .. L
    OBVIOUS
  <2> HIDE DEF H, Val
  <2> QED
    BY <2>3, <2>4
<1>3. L \in T
  <2>1. \A m \in 0 .. L - 1 : m \in T => m + 1 \in T
    BY <1>2
  <2> HIDE DEF T, Val
  <2>2. 0 .. L \subseteq T
    BY <1>1, <2>1, UpTo
  <2> QED
    BY <2>2
<1>4. \E G : KeptSteps(list, I, G)
  BY <1>3 DEF KeptSteps
<1> DEFINE K == CHOOSE G : KeptSteps(list, I, G)
<1>5. KeptSteps(list, I, K)
  BY <1>4
<1>6. Kept(list, I) = K[L]
  BY DEF Kept, KeptSteps
<1> HIDE DEF K
<1> QED
  BY <1>5, <1>6

(* The entries that are kept, in their order: f gives the position each one had. *)
InOrder(list, I, kept, n, f) ==
    /\ f \in [1 .. Len(kept) -> I \cap (1 .. n)]
    /\ \A j \in 1 .. Len(kept) : kept[j] = list[f[j]]
    /\ \A j, k \in 1 .. Len(kept) : j < k => f[j] < f[k]
    /\ \A i \in I \cap (1 .. n) : \E j \in 1 .. Len(kept) : f[j] = i

(* Kept holds the entries at the positions I, each once, in their order. *)
LEMMA KeptProperties ==
    ASSUME NEW S, NEW list \in Seq(S), NEW I
    PROVE  /\ Kept(list, I) \in Seq(S)
           /\ \E f : InOrder(list, I, Kept(list, I), Len(list), f)
<1> DEFINE L == Len(list)
<1>1. L \in Nat
  OBVIOUS
<1>2. PICK G : KeptSteps(list, I, G) /\ Kept(list, I) = G[L]
  BY <1>1, KeptComputed
<1>3. G[0] = << >> /\ \A n \in 1 .. L : G[n] = IF n \in I THEN Append(G[n - 1], list[n]) ELSE G[n - 1]
  <2>1. ASSUME NEW n \in 0 .. L
        PROVE  G[n] = IF n = 0 THEN << >>
                      ELSE IF n \in I THEN Append(G[n - 1], list[n]) ELSE G[n - 1]
    BY <1>2 DEF KeptSteps
  <2> QED
    BY <1>1, <2>1
<1> DEFINE T == {n \in 0 .. L : G[n] \in Seq(S) /\ \E f : InOrder(list, I, G[n], n, f)}
<1>4. 0 \in T
  <2>1. InOrder(list, I, << >>, 0, [j \in {} |-> 0])
    BY DEF InOrder
  <2>2. InOrder(list, I, G[0], 0, [j \in {} |-> 0])
    BY <1>3, <2>1
  <2>3. \E f : InOrder(list, I, G[0], 0, f)
    BY <2>2
  <2>4. G[0] \in Seq(S) /\ 0 \in 0 .. L
    BY <1>1, <1>3
  <2> QED
    BY <2>3, <2>4
<1>5. ASSUME NEW n \in 0 .. L - 1, n \in T PROVE n + 1 \in T
  <2> DEFINE s == G[n]
             m == n + 1
             x == list[m]
  <2>1. s \in Seq(S) /\ Len(s) \in Nat /\ m \in 1 .. L /\ m \in 0 .. L /\ x \in S
    BY <1>5
  <2>2. PICK f : InOrder(list, I, s, n, f)
    BY <1>5
  <2>3. G[m] = IF m \in I THEN Append(s, x) ELSE s
    BY <1>3, <2>1
  <2>4. CASE m \notin I
    <3>1. G[m] = s
      BY <2>3, <2>4
    <3>2. I \cap (1 .. n) = I \cap (1 .. m)
      BY <2>4
    <3>3. InOrder(list, I, s, m, f)
      BY <2>2, <3>2 DEF InOrder
    <3> QED
      BY <2>1, <3>1, <3>3
  <2>5. CASE m \in I
    <3> DEFINE t == Append(s, x)
               l == Len(s)
               g == [j \in 1 .. l + 1 |-> IF j = l + 1 THEN m ELSE f[j]]
    <3>1. G[m] = t /\ t \in Seq(S) /\ Len(t) = l + 1 /\ t[l + 1] = x /\ \A j \in 1 .. l : t[j] = s[j]
      BY <2>1, <2>3, <2>5
    <3>2. l \in Nat
      BY <2>1
    <3> HIDE DEF t, l, s, x
    <3>3. /\ f \in [1 .. l -> I \cap (1 .. n)]
          /\ \A j \in 1 .. l : s[j] = list[f[j]]
          /\ \A j, k \in 1 .. l : j < k => f[j] < f[k]
          /\ \A i \in I \cap (1 .. n) : \E j \in 1 .. l : f[j] = i
      BY <2>2 DEF InOrder, l
    <3>4. g \in [1 .. l + 1 -> I \cap (1 .. m)]
      <4>1. ASSUME NEW j \in 1 .. l + 1 PROVE g[j] \in I \cap (1 .. m)
        BY <2>5, <3>2, <3>3
      <4> QED
        BY <4>1
    <3>5. ASSUME NEW j \in 1 .. l + 1 PROVE t[j] = list[g[j]]
      BY <3>1, <3>2, <3>3 DEF x
    <3>6. ASSUME NEW j \in 1 .. l + 1, NEW k \in 1 .. l + 1, j < k PROVE g[j] < g[k]
      <4>1. j \in 1 .. l /\ f[j] \in 1 .. n
        BY <3>2, <3>3, <3>6
      <4>2. CASE k = l + 1
        <5>1. g[j] = f[j] /\ g[k] = m
          BY <3>2, <4>1, <4>2
        <5> QED
          BY <4>1, <5>1
      <4>3. CASE k \in 1 .. l
        BY <3>2, <3>3, <3>6, <4>1, <4>3
      <4> QED
        BY <3>2, <4>2, <4>3
    <3>7. ASSUME NEW i \in I \cap (1 .. m) PROVE \E j \in 1 .. l + 1 : g[j] = i
      <4>1. CASE i = m
        BY <3>2, <4>1
      <4>2. CASE i # m
        <5>1. i \in I \cap (1 .. n)
          BY <4>2
        <5>2. PICK j \in 1 .. l : f[j] = i
          BY <3>3, <5>1
        <5>3. j \in 1 .. l + 1 /\ g[j] = i
          BY <3>2, <5>2
        <5> QED
          BY <5>3
      <4> QED
        BY <4>1, <4>2
    <3> HIDE DEF g
    <3>8. InOrder(list, I, t, m, g)
      BY <3>1, <3>4, <3>5, <3>6, <3>7 DEF InOrder
    <3> QED
      BY <2>1, <3>1, <3>8
  <2> QED
    BY <2>4, <2>5
<1>6. L \in T
  <2>1. \A n \in 0 .. L - 1 : n \in T => n + 1 \in T
    BY <1>5
  <2> HIDE DEF T
  <2>2. 0 .. L \subseteq T
    BY <1>1, <1>4, <2>1, UpTo
  <2> QED
    BY <1>1, <2>2
<1> QED
  BY <1>2, <1>6

\* No thread is on the list twice.
Distinct(list) == \A i, j \in DOMAIN list : list[i] = list[j] => i = j

(* The other threads of a list stay. *)
LEMMA WithoutRight ==
    ASSUME NEW S, NEW list \in Seq(S), NEW W
    PROVE  /\ Without(list, W) \in Seq(S)
           /\ Distinct(list) => Distinct(Without(list, W))
           /\ \A j \in DOMAIN Without(list, W) : \E i \in DOMAIN list :
                 Without(list, W)[j] = list[i] /\ list[i] \notin W
           /\ \A i \in DOMAIN list : list[i] \notin W =>
                 \E j \in DOMAIN Without(list, W) : Without(list, W)[j] = list[i]
<1> DEFINE I == {i \in DOMAIN list : list[i] \notin W}
           r == Kept(list, I)
<1>1. r = Without(list, W)
  BY DEF Without
<1>2. r \in Seq(S) /\ \E f : InOrder(list, I, r, Len(list), f)
  BY KeptProperties
<1>3. DOMAIN list = 1 .. Len(list) /\ I \cap (1 .. Len(list)) = I
  OBVIOUS
<1> HIDE DEF r
<1>4. DOMAIN r = 1 .. Len(r) /\ Len(r) \in Nat
  BY <1>2
<1>5. PICK f : /\ f \in [1 .. Len(r) -> I]
               /\ \A j \in 1 .. Len(r) : r[j] = list[f[j]]
               /\ \A j, k \in 1 .. Len(r) : j < k => f[j] < f[k]
               /\ \A i \in I : \E j \in 1 .. Len(r) : f[j] = i
  BY <1>2, <1>3 DEF InOrder
<1>6. ASSUME NEW j \in DOMAIN r
      PROVE  f[j] \in DOMAIN list /\ list[f[j]] \notin W /\ r[j] = list[f[j]]
  BY <1>4, <1>5
<1>7. ASSUME Distinct(list) PROVE Distinct(r)
  <2> SUFFICES ASSUME NEW j \in DOMAIN r, NEW k \in DOMAIN r, r[j] = r[k] PROVE j = k
    BY DEF Distinct
  <2>1. f[j] = f[k]
    BY <1>6, <1>7 DEF Distinct
  <2>2. f[j] \in 1 .. Len(list) /\ f[k] \in 1 .. Len(list) /\ j \in 1 .. Len(r) /\ k \in 1 .. Len(r)
    BY <1>3, <1>4, <1>6
  <2>3. ~(j < k) /\ ~(k < j)
    BY <1>5, <2>1, <2>2
  <2> QED
    BY <1>4, <2>2, <2>3
<1>8. ASSUME NEW i \in DOMAIN list, list[i] \notin W PROVE \E j \in DOMAIN r : r[j] = list[i]
  <2>1. i \in I
    BY <1>8
  <2> HIDE DEF I
  <2> QED
    BY <1>4, <1>5, <2>1
<1> HIDE DEF I
<1> QED
  BY <1>1, <1>2, <1>6, <1>7, <1>8

(* The entry goes behind the first m, and the others keep their order. *)
LEMMA InsertAtRight ==
    ASSUME NEW S, NEW list \in Seq(S), NEW m \in 0 .. Len(list), NEW e \in S
    PROVE  /\ InsertAt(list, m + 1, e) \in Seq(S)
           /\ Len(InsertAt(list, m + 1, e)) = Len(list) + 1
           /\ \A j \in 1 .. Len(list) + 1 :
                 InsertAt(list, m + 1, e)[j] =
                    IF j <= m THEN list[j] ELSE IF j = m + 1 THEN e ELSE list[j - 1]
<1> DEFINE L == Len(list)
           a == SubSeq(list, 1, m)
           z == SubSeq(list, m + 1, L)
           b == a \o <<e>>
           r == b \o z
<1>1. L \in Nat /\ m \in Nat /\ m <= L /\ \A i \in 1 .. L : list[i] \in S
  OBVIOUS
<1>2. a \in Seq(S) /\ Len(a) = m /\ \A i \in 1 .. m : a[i] = list[i]
  BY <1>1
<1>3. z \in Seq(S) /\ Len(z) = L - m /\ \A i \in 1 .. L - m : z[i] = list[m + i]
  BY <1>1
<1>4. InsertAt(list, m + 1, e) = r
  <2>1. (m + 1) - 1 = m
    BY <1>1
  <2> QED
    BY <2>1 DEF InsertAt
<1> HIDE DEF a, z
<1>5. /\ b \in Seq(S) /\ Len(b) = m + 1 /\ b[m + 1] = e
      /\ \A i \in 1 .. m : b[i] = list[i]
  BY <1>1, <1>2
<1> HIDE DEF b
<1>6. r \in Seq(S) /\ Len(r) = L + 1
  BY <1>1, <1>3, <1>5
<1>7. ASSUME NEW j \in 1 .. L + 1
      PROVE  r[j] = IF j <= m THEN list[j] ELSE IF j = m + 1 THEN e ELSE list[j - 1]
  <2>1. CASE j \in 1 .. m + 1
    <3>1. r[j] = b[j]
      BY <1>1, <1>3, <1>5, <2>1
    <3> QED
      BY <1>1, <1>5, <2>1, <3>1
  <2>2. CASE j \in m + 2 .. L + 1
    <3>1. j - (m + 1) \in 1 .. L - m /\ m + (j - (m + 1)) = j - 1 /\ ~(j <= m) /\ j # m + 1
      BY <1>1, <2>2
    <3>2. r[j] = z[j - (m + 1)]
      BY <1>1, <1>3, <1>5, <2>2
    <3> QED
      BY <1>3, <3>1, <3>2
  <2>3. j \in 1 .. m + 1 \/ j \in m + 2 .. L + 1
    BY <1>1
  <2> HIDE DEF r
  <2> QED
    BY <2>1, <2>2, <2>3
<1> HIDE DEF r
<1> QED
  BY <1>4, <1>6, <1>7

-----------------------------------------------------------------------------
(* Sequences given as functions, and places in a ring. *)

(* A function on 1 .. n is a sequence of length n. *)
LEMMA FcnSeq ==
    ASSUME NEW S, NEW n \in Nat, NEW s \in [1 .. n -> S]
    PROVE  s \in Seq(S) /\ Len(s) = n
<1>1. s \in Seq(S)
  BY SeqDef
<1>2. Len(s) \in Nat /\ DOMAIN s = 1 .. Len(s)
  BY <1>1, LenProperties
<1>3. 1 .. Len(s) = 1 .. n
  BY <1>2
<1>4. Len(s) = n
  BY <1>2, <1>3
<1> QED
  BY <1>1, <1>4

(* A sequence with one more element is an Append. *)
LEMMA AppendFcn ==
    ASSUME NEW S, NEW n \in Nat, NEW m \in Nat, m = n + 1,
           NEW s \in [1 .. n -> S], NEW u \in [1 .. m -> S],
           \A i \in 1 .. n : u[i] = s[i]
    PROVE  u = Append(s, u[m])
<1> DEFINE x == u[n + 1]
<1>1. s \in [1 .. n -> S] /\ x \in S
  OBVIOUS
<1>2. u \in [1 .. n + 1 -> S]
  OBVIOUS
<1> HIDE DEF x
<1>3. s \in Seq(S) /\ Len(s) = n
  BY <1>1, FcnSeq
<1>4. u \in Seq(S) /\ Len(u) = n + 1
  BY <1>2, FcnSeq
<1>5. /\ Append(s, x) \in Seq(S) /\ Len(Append(s, x)) = n + 1
      /\ \A i \in 1 .. n : Append(s, x)[i] = s[i]
      /\ Append(s, x)[n + 1] = x
  BY <1>1, <1>3, AppendProperties
<1>6. ASSUME NEW i \in 1 .. n + 1 PROVE Append(s, x)[i] = u[i]
  <2>1. CASE i = n + 1
    BY <1>5, <2>1 DEF x
  <2>2. CASE i # n + 1
    <3>1. i \in 1 .. n
      BY <2>2
    <3> QED
      BY <1>5, <3>1
  <2> QED
    BY <2>1, <2>2
<1>7. u = Append(s, x)
  BY <1>4, <1>5, <1>6, SeqEqual
<1> QED
  BY <1>7 DEF x

(* One with its first element less is a Tail. *)
LEMMA TailFcn ==
    ASSUME NEW S, NEW n \in Nat \ {0}, NEW m \in Nat, m = n - 1,
           NEW s \in [1 .. n -> S], NEW u \in [1 .. m -> S],
           \A i \in 1 .. m : u[i] = s[i + 1]
    PROVE  u = Tail(s) /\ s # << >> /\ Head(s) = s[1]
<1>1. s \in [1 .. n -> S]
  OBVIOUS
<1>2. u \in [1 .. n - 1 -> S]
  OBVIOUS
<1>3. s \in Seq(S) /\ Len(s) = n
  BY <1>1, FcnSeq
<1>4. s # << >>
  BY <1>3, EmptySeq
<1>5. u \in Seq(S) /\ Len(u) = n - 1
  BY <1>2, FcnSeq
<1>6. Tail(s) \in Seq(S) /\ Len(Tail(s)) = n - 1 /\ \A i \in 1 .. n - 1 : Tail(s)[i] = s[i + 1]
  BY <1>3, <1>4, HeadTailProperties
<1>7. u = Tail(s)
  BY <1>5, <1>6, SeqEqual
<1>8. Head(s) = s[1]
  <2>1. SubSeq(s, 1, n) = s
    BY <1>3, SubSeqFull
  <2>2. 1 \in 1 .. n /\ n \in 1 .. n
    OBVIOUS
  <2>3. 1 \in 1 .. Len(s) /\ n \in 1 .. Len(s)
    BY <1>3, <2>2
  <2> QED
    BY <1>3, <2>1, <2>3, HeadTailOfSubSeq
<1> QED
  BY <1>4, <1>7, <1>8

(* Quotient and remainder. *)
LEMMA DivMod ==
    ASSUME NEW n \in Nat \ {0}, NEW x \in Int
    PROVE  x \div n \in Int /\ x % n \in 0 .. n - 1 /\ x = n * (x \div n) + (x % n)
  OBVIOUS

(* Numbers with one remainder are a divisor apart. *)
LEMMA SameMod ==
    ASSUME NEW n \in Nat \ {0}, NEW x \in Int, NEW y \in Int, x < y, y < x + n
    PROVE  x % n # y % n
<1> DEFINE d == x \div n
           e == y \div n
           m == x % n
<1>1. SUFFICES ASSUME y % n = m PROVE FALSE
  OBVIOUS
<1>2. d \in Int /\ e \in Int /\ m \in 0 .. n - 1 /\ x = n * d + m /\ y = n * e + m
  BY <1>1, DivMod
<1> HIDE DEF d, e, m
<1>3. n * (e - d) = y - x
  BY <1>2
<1>4. e - d > 0
  <2>1. SUFFICES ASSUME e - d <= 0 PROVE FALSE
    BY <1>2
  <2>2. n * (e - d) <= 0
    BY <1>2, <2>1
  <2> QED
    BY <1>3, <2>2
<1>5. e - d < 1
  <2>1. SUFFICES ASSUME e - d >= 1 PROVE FALSE
    BY <1>2
  <2>2. n * (e - d) >= n
    BY <1>2, <2>1
  <2> QED
    BY <1>3, <2>2
<1> QED
  BY <1>2, <1>4, <1>5

(* A remainder may be taken on the way. *)
LEMMA ModMod ==
    ASSUME NEW n \in Nat \ {0}, NEW x \in Int, NEW y \in Int
    PROVE  ((x % n) + y) % n = (x + y) % n
<1> DEFINE d == x \div n
           m == x % n
           e == (m + y) \div n
           f == (x + y) \div n
           a == (m + y) % n
           b == (x + y) % n
<1>1. d \in Int /\ m \in 0 .. n - 1 /\ x = n * d + m
  BY DivMod
<1> HIDE DEF d, m
<1>2. /\ e \in Int /\ a \in 0 .. n - 1 /\ m + y = n * e + a
      /\ f \in Int /\ b \in 0 .. n - 1 /\ x + y = n * f + b
  <2>1. m + y \in Int /\ x + y \in Int
    BY <1>1
  <2>2. e \in Int /\ a \in 0 .. n - 1 /\ m + y = n * e + a
    BY <2>1, DivMod
  <2>3. f \in Int /\ b \in 0 .. n - 1 /\ x + y = n * f + b
    BY <2>1, DivMod
  <2> QED
    BY <2>2, <2>3
<1> HIDE DEF e, f, a, b
<1>3. n * (f - e - d) = a - b
  BY <1>1, <1>2
<1>4. f - e - d < 1
  <2>1. SUFFICES ASSUME f - e - d >= 1 PROVE FALSE
    BY <1>1, <1>2
  <2>2. n * (f - e - d) >= n
    BY <1>1, <1>2, <2>1
  <2> QED
    BY <1>2, <1>3, <2>2
<1>5. f - e - d > -1
  <2>1. SUFFICES ASSUME f - e - d <= -1 PROVE FALSE
    BY <1>1, <1>2
  <2>2. n * (f - e - d) <= -n
    BY <1>1, <1>2, <2>1
  <2> QED
    BY <1>2, <1>3, <2>2
<1>6. f - e - d = 0
  BY <1>1, <1>2, <1>4, <1>5
<1>7. a = b
  BY <1>2, <1>3, <1>6
<1> QED
  BY <1>7 DEF a, b, m

-----------------------------------------------------------------------------
(* The ring of a queue. *)

IsFcn(f, S) == f = [x \in S |-> f[x]]

\* The next free place is behind the last item.
RingOK(h) ==
    /\ uxMessagesWaiting[h] \in 0 .. Length[h]
    /\ h \notin Mutex =>
          /\ pcReadFrom[h] \in 0 .. Length[h] - 1
          /\ pcWriteTo[h] = (pcReadFrom[h] + 1 + uxMessagesWaiting[h]) % Length[h]
          /\ IsFcn(buf[h], 0 .. Length[h] - 1)

Rings ==
    /\ IsFcn(uxMessagesWaiting, Handle) /\ IsFcn(pcReadFrom, Handle)
    /\ \A h \in Handle : RingOK(h)

(* Every queue has a length. *)
LEMMA LengthNat == ASSUME NEW h \in Handle PROVE Length[h] \in Nat \ {0}
  BY KernelAssumption

(* An item of the ring, as the abstract queue sees it. *)
LEMMA Contents ==
    ASSUME NEW h \in Handle, uxMessagesWaiting[h] \in Nat
    PROVE  /\ ContentsOf(h) = [i \in 1 .. uxMessagesWaiting[h] |-> ContentsOf(h)[i]]
           /\ \A i \in 1 .. uxMessagesWaiting[h] :
                 ContentsOf(h)[i] = IF h \in Mutex THEN NULL
                                    ELSE buf[h][(pcReadFrom[h] + i) % Length[h]]
  BY DEF ContentsOf

(* The place of the next item is none of those in use. *)
LEMMA RingPlace ==
    ASSUME NEW L \in Nat \ {0}, NEW n \in 0 .. L - 1, NEW r \in 0 .. L - 1, NEW i \in 1 .. n,
           NEW k \in Int, k = r + n + 1
    PROVE  /\ (r + i) % L # k % L /\ (r + i) % L \in 0 .. L - 1 /\ k % L \in 0 .. L - 1
<1> DEFINE j == r + i
<1>1. j < k /\ k < j + L /\ j \in Int
  OBVIOUS
<1> HIDE DEF j
<1>2. j % L # k % L /\ j % L \in 0 .. L - 1 /\ k % L \in 0 .. L - 1
  BY <1>1, SameMod, DivMod
<1> QED
  BY <1>2 DEF j

(* The critical section of a send: each queue it fills has one item more.       *)
LEMMA CopyToPuts ==
    ASSUME Rings, NEW H \in SUBSET Handle, \A g \in H : HasRoom(g), NEW in, CopyTo(H, in)
    PROVE  /\ Rings'
           /\ \A g \in Handle : Len(ContentsOf(g)) = uxMessagesWaiting[g]
           /\ \A g \in H : /\ ContentsOf(g)' # ContentsOf(g)
                          /\ ContentsOf(g)' = Append(ContentsOf(g), IF g \in Mutex THEN NULL ELSE in[g])
           /\ \A g \in Handle \ H : ContentsOf(g)' = ContentsOf(g)
<1>1. IsFcn(uxMessagesWaiting', Handle) /\ IsFcn(pcReadFrom', Handle)
  BY DEF CopyTo, Rings, IsFcn
<1>2. ASSUME NEW g \in Handle \ H PROVE RingOK(g)' /\ ContentsOf(g)' = ContentsOf(g)
  <2>1. /\ buf'[g] = buf[g] /\ pcWriteTo'[g] = pcWriteTo[g] /\ pcReadFrom' = pcReadFrom
        /\ uxMessagesWaiting'[g] = uxMessagesWaiting[g]
    BY LengthNat DEF CopyTo, Rings, RingOK
  <2> QED
    BY <2>1 DEF Rings, RingOK, ContentsOf
<1>3. ASSUME NEW g \in H
      PROVE  /\ RingOK(g)' /\ ContentsOf(g)' # ContentsOf(g)
             /\ ContentsOf(g)' = Append(ContentsOf(g), IF g \in Mutex THEN NULL ELSE in[g])
  <2> DEFINE L == Length[g]
             n == uxMessagesWaiting[g]
             r == pcReadFrom[g]
             x == IF g \in Mutex THEN NULL ELSE in[g]
             s == ContentsOf(g)
             u == ContentsOf(g)'
             S == {s[i] : i \in 1 .. n} \cup {u[i] : i \in 1 .. n + 1}
             w == pcWriteTo[g]
  <2>1. g \in Handle /\ L \in Nat \ {0} /\ n \in 0 .. L - 1
    BY LengthNat DEF Rings, RingOK, HasRoom
  <2>2. uxMessagesWaiting'[g] = n + 1 /\ pcReadFrom'[g] = r
    BY <2>1 DEF CopyTo
  <2>3. /\ s = [i \in 1 .. n |-> s[i]]
        /\ \A i \in 1 .. n : s[i] = IF g \in Mutex THEN NULL ELSE buf[g][(r + i) % L]
    BY <2>1, Contents
  <2>4. /\ u = [i \in 1 .. n + 1 |-> u[i]]
        /\ \A i \in 1 .. n + 1 : u[i] = IF g \in Mutex THEN NULL ELSE buf'[g][(r + i) % L]
    BY <2>1, <2>2 DEF ContentsOf
  <2>5. s \in [1 .. n -> S] /\ u \in [1 .. n + 1 -> S]
    BY <2>3, <2>4
  <2>6. /\ g \in Mutex => x = NULL
        /\ g \notin Mutex => /\ x = in[g] /\ r \in 0 .. L - 1 /\ IsFcn(buf[g], 0 .. L - 1)
                             /\ w = (r + 1 + n) % L
                             /\ buf'[g] = [buf[g] EXCEPT ![w] = x]
                             /\ pcWriteTo'[g] = (w + 1) % L
    BY <2>1 DEF Rings, RingOK, CopyTo, Advance
  <2> HIDE DEF L, n, r, x, s, u, S, w
  <2>7. n \in Nat /\ n + 1 \in Nat /\ n + 1 \in 1 .. n + 1 /\ \A i \in 1 .. n : i \in 1 .. n + 1
    BY <2>1
  <2>8. (\A i \in 1 .. n : u[i] = s[i]) => u = Append(s, u[n + 1])
    BY <2>5, <2>7, AppendFcn
  <2>11. u # s
    <3>1. Len(s) = n /\ Len(u) = n + 1
      BY <2>5, <2>7, FcnSeq
    <3> QED
      BY <2>7, <3>1
  <2>9. CASE g \in Mutex
    <3>1. (\A i \in 1 .. n : u[i] = s[i]) /\ u[n + 1] = x
      BY <2>3, <2>4, <2>6, <2>7, <2>9
    <3>2. u = Append(s, x)
      BY <2>8, <3>1
    <3> QED
      BY <2>1, <2>2, <2>9, <2>11, <3>2 DEF RingOK, s, u, x, L
  <2>10. CASE g \notin Mutex
    <3> DEFINE b == buf[g]
               c == buf'[g]
    <3>1. /\ x = in[g] /\ r \in 0 .. L - 1 /\ IsFcn(b, 0 .. L - 1) /\ w = (r + 1 + n) % L
          /\ c = [b EXCEPT ![w] = x] /\ pcWriteTo'[g] = (w + 1) % L
      BY <2>6, <2>10
    <3>2. /\ \A i \in 1 .. n : s[i] = b[(r + i) % L]
          /\ \A i \in 1 .. n + 1 : u[i] = c[(r + i) % L]
      BY <2>3, <2>4, <2>10
    <3> HIDE DEF b, c
    <3>3. /\ \A i \in 1 .. n : c[(r + i) % L] = b[(r + i) % L]
          /\ w = (r + (n + 1)) % L /\ c[w] = x
          /\ IsFcn(c, 0 .. L - 1)
      <4> DEFINE k == r + n + 1
      <4>1. /\ L \in Nat \ {0} /\ n \in 0 .. L - 1 /\ r \in 0 .. L - 1 /\ k \in Int
            /\ k = r + n + 1 /\ r + 1 + n = k /\ r + (n + 1) = k
        BY <2>1, <3>1
      <4>2. w = k % L /\ w = (r + (n + 1)) % L
        BY <3>1, <4>1
      <4> HIDE DEF k
      <4>3. w \in 0 .. L - 1
        BY <4>1, <4>2, DivMod
      <4>4. \A i \in 1 .. n : (r + i) % L # w /\ (r + i) % L \in 0 .. L - 1
        BY <4>1, <4>2, RingPlace
      <4>5. c[w] = x /\ IsFcn(c, 0 .. L - 1) /\ \A j \in 0 .. L - 1 : j # w => c[j] = b[j]
        BY <3>1, <4>3 DEF IsFcn
      <4> QED
        BY <4>2, <4>4, <4>5
    <3>4. \A i \in 1 .. n : u[i] = s[i]
      BY <2>7, <3>2, <3>3
    <3>5. u[n + 1] = x
      BY <2>7, <3>2, <3>3
    <3>6. u = Append(s, x)
      BY <2>8, <3>4, <3>5
    <3>7. pcWriteTo'[g] = (r + 1 + (n + 1)) % L
      <4> DEFINE y == r + 1 + n
                 z == r + 1 + (n + 1)
                 v == w + 1
      <4>0. r \in Int /\ n \in Int /\ L \in Nat \ {0} /\ w = y % L
        BY <2>1, <3>1
      <4>1. y \in Int /\ 1 \in Int /\ z = y + 1 /\ w = y % L /\ v = w + 1 /\ L \in Nat \ {0}
        BY <4>0
      <4> HIDE DEF y, z, v
      <4>2. v % L = z % L
        BY <4>1, ModMod
      <4> QED
        BY <3>1, <4>2 DEF z, v
    <3> QED
      BY <2>1, <2>2, <2>10, <2>11, <3>1, <3>3, <3>6, <3>7, SMTT(40) DEF RingOK, s, u, x, L, r, c
  <2> QED
    BY <2>9, <2>10
<1>4. ASSUME NEW g \in Handle PROVE Len(ContentsOf(g)) = uxMessagesWaiting[g]
  <2>1. uxMessagesWaiting[g] \in Nat
    BY LengthNat DEF Rings, RingOK
  <2>2. ContentsOf(g) = [i \in 1 .. uxMessagesWaiting[g] |-> ContentsOf(g)[i]]
    BY <2>1, Contents
  <2> DEFINE S == {ContentsOf(g)[i] : i \in 1 .. uxMessagesWaiting[g]}
  <2>3. ContentsOf(g) \in [1 .. uxMessagesWaiting[g] -> S]
    BY <2>2
  <2> QED
    BY <2>1, <2>3, FcnSeq
<1> QED
  BY <1>1, <1>2, <1>3, <1>4 DEF Rings

(* The critical section of a receive: its first item goes to the receiver. *)
LEMMA CopyFromTakes ==
    ASSUME Rings, NEW h \in Handle, uxMessagesWaiting[h] > 0, NEW r, CopyFrom(h, r)
    PROVE  /\ Rings'
           /\ ContentsOf(h) # << >> /\ ContentsOf(h)' = Tail(ContentsOf(h))
           /\ ContentsOf(h)' # ContentsOf(h)
           /\ received' = [received EXCEPT ![r] = <<h, Head(ContentsOf(h))>>]
           /\ \A g \in Handle \ {h} : ContentsOf(g)' = ContentsOf(g)
<1> DEFINE L == Length[h]
           n == uxMessagesWaiting[h]
           p == pcReadFrom[h]
           s == ContentsOf(h)
           u == ContentsOf(h)'
<1>1. L \in Nat \ {0} /\ n \in 1 .. L
  BY LengthNat DEF Rings, RingOK
<1>2. /\ buf' = buf /\ pcWriteTo' = pcWriteTo
      /\ uxMessagesWaiting' = [uxMessagesWaiting EXCEPT ![h] = n - 1]
      /\ pcReadFrom' = [pcReadFrom EXCEPT ![h] = IF h \in Mutex THEN p ELSE (p + 1) % L]
      /\ received' = [received EXCEPT ![r] = <<h, IF h \in Mutex THEN NULL ELSE buf[h][pcReadFrom'[h]]>>]
  BY DEF CopyFrom, Advance
<1>3. /\ IsFcn(uxMessagesWaiting', Handle) /\ IsFcn(pcReadFrom', Handle)
      /\ uxMessagesWaiting'[h] = n - 1
      /\ pcReadFrom'[h] = (IF h \in Mutex THEN p ELSE (p + 1) % L)
      /\ \A g \in Handle \ {h} : /\ uxMessagesWaiting'[g] = uxMessagesWaiting[g]
                                 /\ pcReadFrom'[g] = pcReadFrom[g]
  BY <1>2 DEF Rings, IsFcn
<1>4. ASSUME NEW g \in Handle \ {h} PROVE RingOK(g)' /\ ContentsOf(g)' = ContentsOf(g)
  BY <1>2, <1>3 DEF Rings, RingOK, ContentsOf
<1>5. /\ s = [i \in 1 .. n |-> s[i]]
      /\ \A i \in 1 .. n : s[i] = IF h \in Mutex THEN NULL ELSE buf[h][(p + i) % L]
  BY <1>1, Contents
<1>6. /\ u = [i \in 1 .. n - 1 |-> u[i]]
      /\ \A i \in 1 .. n - 1 : u[i] = IF h \in Mutex THEN NULL
                                       ELSE buf[h][(pcReadFrom'[h] + i) % L]
  BY <1>1, <1>2, <1>3, SMTT(40) DEF ContentsOf
<1>7. h \notin Mutex => /\ p \in 0 .. L - 1 /\ IsFcn(buf[h], 0 .. L - 1)
                        /\ pcWriteTo[h] = (p + 1 + n) % L
  BY DEF Rings, RingOK
<1> HIDE DEF n, p, L, s, u
<1>8. ASSUME NEW i \in 1 .. n - 1 PROVE u[i] = s[i + 1]
  <2>1. i + 1 \in 1 .. n /\ i \in Int
    BY <1>1
  <2>2. CASE h \in Mutex
    BY <1>5, <1>6, <2>1, <2>2
  <2>3. CASE h \notin Mutex
    <3> DEFINE y == p + 1
               z == p + (i + 1)
               q == y % L
               v == q + i
    <3>0. p \in Int /\ L \in Nat \ {0}
      BY <1>1, <1>7, <2>3
    <3>1. y \in Int /\ i \in Int /\ z = y + i /\ q = y % L /\ v = q + i /\ L \in Nat \ {0}
      BY <3>0, <2>1
    <3>2. u[i] = buf[h][v % L] /\ s[i + 1] = buf[h][z % L]
      BY <1>3, <1>5, <1>6, <2>1, <2>3
    <3> HIDE DEF y, z, q, v
    <3>3. v % L = z % L
      BY <3>1, ModMod
    <3> QED
      BY <3>2, <3>3
  <2> QED
    BY <2>2, <2>3
<1>9. s # << >> /\ u = Tail(s) /\ Head(s) = s[1] /\ u # s
  <2> DEFINE S == {s[i] : i \in 1 .. n} \cup {u[i] : i \in 1 .. n - 1}
             m == n - 1
  <2>1. n \in Nat \ {0} /\ m \in Nat /\ m = n - 1
    BY <1>1
  <2>2. s \in [1 .. n -> S] /\ u \in [1 .. m -> S]
    BY <1>5, <1>6
  <2>3. \A i \in 1 .. m : u[i] = s[i + 1]
    BY <1>8
  <2> HIDE DEF S, m
  <2>4. Len(s) = n /\ Len(u) = m
    BY <2>1, <2>2, FcnSeq
  <2>5. u # s
    BY <2>1, <2>4
  <2> QED
    BY <2>1, <2>2, <2>3, <2>5, TailFcn
<1>10. received' = [received EXCEPT ![r] = <<h, Head(s)>>]
  <2>1. 1 \in 1 .. n
    BY <1>1
  <2>2. s[1] = IF h \in Mutex THEN NULL ELSE buf[h][(p + 1) % L]
    BY <1>5, <2>1
  <2>3. (IF h \in Mutex THEN NULL ELSE buf[h][pcReadFrom'[h]]) = s[1]
    BY <1>3, <2>2
  <2> QED
    BY <1>2, <1>9, <2>3
<1>11. RingOK(h)'
  <2>1. uxMessagesWaiting'[h] \in 0 .. L
    BY <1>1, <1>3
  <2>2. ASSUME h \notin Mutex
        PROVE  /\ pcReadFrom'[h] \in 0 .. L - 1
               /\ pcWriteTo'[h] = (pcReadFrom'[h] + 1 + (n - 1)) % L
    <3> DEFINE y == p + 1
               z == p + 1 + n
               q == y % L
               v == q + n
    <3>0. p \in Int /\ L \in Nat \ {0} /\ n \in Int
      BY <1>1, <1>7, <2>2
    <3>1. y \in Int /\ n \in Int /\ z = y + n /\ q = y % L /\ v = q + n /\ L \in Nat \ {0}
      BY <3>0
    <3>2. pcReadFrom'[h] = q /\ pcWriteTo'[h] = z % L
      BY <1>2, <1>3, <1>7, <2>2
    <3> HIDE DEF y, z, q, v
    <3>3. q \in 0 .. L - 1
      BY <3>1, DivMod
    <3>5. v % L = z % L
      BY <3>1, ModMod
    <3>4. q + 1 + (n - 1) = v
      BY <3>1, <3>3
    <3> QED
      BY <3>2, <3>3, <3>4, <3>5
  <2> QED
    BY <1>2, <1>3, <1>7, <2>1, <2>2 DEF RingOK, L, n
<1> QED
  BY <1>3, <1>4, <1>9, <1>10, <1>11 DEF Rings, s, u

-----------------------------------------------------------------------------
(* The kernel's steps, as steps of the abstract queues. *)

\* A call on a queue names one, and an item for it.
CallsOK ==
    /\ IsFcn(call, Task)
    /\ \A t \in Task : call[t].op \in {"send", "receive"} =>
                          call[t].h \in Handle /\ call[t].item \in Item \cup {NULL}

QueuesInv == Rings /\ CallsOK /\ work \in Workload

(* Calls come from the workload. *)
LEMMA CallsStep == CallsOK /\ work \in Workload /\ [KernelNext]_kvars => CallsOK' /\ (work \in Workload)'
<1>1. SUFFICES ASSUME CallsOK, work \in Workload, KernelNext PROVE CallsOK' /\ (work \in Workload)'
  BY DEF CallsOK, kvars, thread
<1>2. (work \in Workload)'
  BY <1>1 DEF KernelNext
<1>3. call' = call => CallsOK'
  BY <1>1 DEF CallsOK
<1>4. ASSUME NEW t \in Task, Return(t) PROVE CallsOK'
  <2>1. call' = [call EXCEPT ![t] = NoCall]
    BY <1>4 DEF Return
  <2>2. \A u \in Task : call'[u] = IF u = t THEN NoCall ELSE call[u]
    BY <1>1, <2>1 DEF CallsOK, IsFcn
  <2>3. NoCall.op = "none"
    BY DEF NoCall
  <2>4. IsFcn(call', Task)
    BY <1>1, <2>1 DEF CallsOK, IsFcn
  <2> QED
    BY <1>1, <2>2, <2>3, <2>4 DEF CallsOK
<1>5. ASSUME NEW t \in Task, NEW c \in work.calls[t], Enter(t, c) PROVE CallsOK'
  <2>1. call' = [call EXCEPT ![t] = c]
    BY <1>5 DEF Enter
  <2>2. \A u \in Task : call'[u] = IF u = t THEN c ELSE call[u]
    BY <1>1, <2>1 DEF CallsOK, IsFcn
  <2>3. c.op \in {"send", "receive"} => c.h \in Handle /\ c.item \in Item \cup {NULL}
    BY <1>1, WorkloadAssumption
  <2>4. IsFcn(call', Task)
    BY <1>1, <2>1 DEF CallsOK, IsFcn
  <2> QED
    BY <1>1, <2>2, <2>3, <2>4 DEF CallsOK
<1>6. ASSUME NEW t \in Task, Step(t) PROVE CallsOK'
  <2>1. CASE \E c \in work.calls[t] : Enter(t, c)
    BY <1>5, <2>1
  <2>2. CASE SendItem(t) \/ ReceiveItem(t) \/ EndDelay(t)
    BY <1>4, <2>2 DEF SendItem, ReceiveItem, EndDelay
  <2>3. CASE Refused(t)
    BY <1>3, <1>4, <2>3 DEF Refused
  <2>4. CASE ResumeAll(t)
    BY <1>3, <1>4, <2>4 DEF ResumeAll
  <2>5. CASE SuspendAll(t) \/ prvLockQueue(t) \/ Check(t) \/ Place(t) \/ UnlockTx(t) \/ UnlockRx(t)
             \/ vTaskDelay(t)
    BY <1>3, <2>5 DEF SuspendAll, prvLockQueue, Check, Place, UnlockTx, UnlockRx, vTaskDelay
  <2> QED
    BY <1>6, <2>1, <2>2, <2>3, <2>4, <2>5 DEF Step
<1>7. CASE \/ PendSV
           \/ \E h \in work.sends, x \in Item : SendFromISR(h, x)
           \/ \E h \in work.receives : ReceiveFromISR(h)
           \/ \E E \in SUBSET Delayed : SysTick(E)
  <2>1. CASE PendSV
    <3>1. UNCHANGED thread
      BY <2>1 DEF PendSV
    <3> QED
      BY <1>2, <1>3, <3>1 DEF thread
  <2>2. ASSUME NEW h, NEW x, SendFromISR(h, x) PROVE CallsOK'
    BY <1>3, <2>2 DEF SendFromISR, thread
  <2>3. ASSUME NEW h, ReceiveFromISR(h) PROVE CallsOK'
    BY <1>3, <2>3 DEF ReceiveFromISR, thread
  <2>4. ASSUME NEW E, SysTick(E) PROVE CallsOK'
    BY <1>3, <2>4 DEF SysTick
  <2> QED
    BY <1>2, <1>7, <2>1, <2>2, <2>3, <2>4
<1> QED
  BY <1>1, <1>2, <1>6, <1>7 DEF KernelNext

(* The queues as the abstract specification sees them. *)
contentsBar == [h \in Handle |-> ContentsOf(h)]
ItemBar == Item \cup Handle \cup {NULL}

(* A step that leaves the rings alone is none of the abstract queues. *)
LEMMA QuietStep ==
    ASSUME Rings, UNCHANGED ring PROVE Rings' /\ contentsBar' = contentsBar
  BY DEF ring, Rings, RingOK, contentsBar, ContentsOf

(* A send, by a thread or by an interrupt handler. *)
LEMMA SendStep ==
    ASSUME Rings, NEW h \in Handle, HasRoom(h), NEW x \in Item \cup {NULL},
           NEW H \in {{h}, Filled(h)}, CopyTo(H, Data(h, x)), received' = received
    PROVE  Rings' /\ Q!QueueNext
<1> DEFINE in == Data(h, x)
           s == Container[h]
           y == IF h \in Mutex THEN NULL ELSE in[h]
<1>1. /\ s \in Handle \cup {NULL} /\ s # h /\ s \notin Mutex /\ NULL \notin Handle
  BY KernelAssumption
<1>2. H = {h} \/ (H = {h, s} /\ s \in Handle /\ HasRoom(s) /\ s \in Filled(h))
  BY <1>1 DEF Filled
<1>3. h \in Filled(h) /\ in = [g \in Filled(h) |-> IF g = h THEN x ELSE h]
  BY DEF Filled, Data
<1>4. in[h] = x /\ (s \in Filled(h) => in[s] = h)
  BY <1>1, <1>3
<1>5. H \in SUBSET Handle /\ \A g \in H : HasRoom(g)
  BY <1>2
<1>6. y \in ItemBar /\ h \in ItemBar
  BY <1>4 DEF ItemBar
<1> HIDE DEF in
<1>7. /\ Rings'
      /\ \A g \in Handle : Len(ContentsOf(g)) = uxMessagesWaiting[g]
      /\ \A g \in H : /\ ContentsOf(g)' # ContentsOf(g)
                      /\ ContentsOf(g)' = Append(ContentsOf(g), IF g \in Mutex THEN NULL ELSE in[g])
      /\ \A g \in Handle \ H : ContentsOf(g)' = ContentsOf(g)
  BY <1>5, CopyToPuts DEF in
<1> HIDE DEF y
<1>8. /\ contentsBar' # contentsBar
      /\ \A g \in Handle : contentsBar[g] = ContentsOf(g) /\ contentsBar'[g] = ContentsOf(g)'
  BY <1>2, <1>7 DEF contentsBar
<1>9. \A g \in H : Len(contentsBar[g]) < Length[g]
  BY <1>5, <1>7, <1>8 DEF HasRoom
<1>10. CASE H = {h}
  <2>1. contentsBar' = [contentsBar EXCEPT ![h] = Append(contentsBar[h], y)]
    BY <1>7, <1>10 DEF contentsBar, y
  <2> QED
    BY <1>6, <1>7, <1>8, <1>9, <1>10, <2>1 DEF Q!QueueNext, Q!Put, contentsBar, ItemBar
<1>11. CASE H = {h, s} /\ s \in Handle /\ HasRoom(s) /\ s \in Filled(h)
  <2>1. contentsBar' = [contentsBar EXCEPT ![h] = Append(contentsBar[h], y),
                                           ![s] = Append(contentsBar[s], h)]
    BY <1>1, <1>4, <1>7, <1>11 DEF contentsBar, y
  <2> QED
    BY <1>1, <1>6, <1>7, <1>8, <1>9, <1>11, <2>1 DEF Q!QueueNext, contentsBar, ItemBar
<1> QED
  BY <1>2, <1>10, <1>11

(* A receive. *)
LEMMA ReceiveStep ==
    ASSUME Rings, NEW h \in Handle, uxMessagesWaiting[h] > 0, NEW r \in Task \cup {"isr"},
           CopyFrom(h, r)
    PROVE  Rings' /\ Q!QueueNext
<1>1. /\ Rings'
      /\ ContentsOf(h) # << >> /\ ContentsOf(h)' = Tail(ContentsOf(h))
      /\ ContentsOf(h)' # ContentsOf(h)
      /\ received' = [received EXCEPT ![r] = <<h, Head(ContentsOf(h))>>]
      /\ \A g \in Handle \ {h} : ContentsOf(g)' = ContentsOf(g)
  BY CopyFromTakes
<1>2. contentsBar' # contentsBar /\ contentsBar[h] = ContentsOf(h)
  BY <1>1 DEF contentsBar
<1>3. contentsBar' = [contentsBar EXCEPT ![h] = Tail(contentsBar[h])]
  BY <1>1 DEF contentsBar
<1>4. Q!Take(h, r)
  BY <1>1, <1>2, <1>3 DEF Q!Take, contentsBar
<1> QED
  BY <1>1, <1>2, <1>4 DEF Q!QueueNext, contentsBar

(* Every step of the kernel is a step of the abstract queues, or leaves them alone. *)
LEMMA QueueStep ==
    QueuesInv /\ [KernelNext]_kvars => QueuesInv' /\ [Q!QueueNext]_<<contentsBar, received>>
<1>1. SUFFICES ASSUME QueuesInv, [KernelNext]_kvars
               PROVE  Rings' /\ (Q!QueueNext \/ UNCHANGED <<contentsBar, received>>)
  BY CallsStep DEF QueuesInv
<1>2. UNCHANGED <<ring, received>> => Rings' /\ UNCHANGED <<contentsBar, received>>
  BY <1>1, QuietStep DEF QueuesInv
<1>3. ASSUME NEW t \in Task, Step(t) PROVE Rings' /\ (Q!QueueNext \/ UNCHANGED <<contentsBar, received>>)
  <2>1. CASE SendItem(t)
    <3> DEFINE h == call[t].h
               x == call[t].item
    <3>1. h \in Handle /\ x \in Item \cup {NULL}
      BY <1>1, <2>1 DEF SendItem, QueuesInv, CallsOK
    <3>2. HasRoom(h) /\ CopyTo(Filled(h), Data(h, x)) /\ received' = received
      BY <2>1 DEF SendItem
    <3> HIDE DEF h, x
    <3> QED
      BY <1>1, <3>1, <3>2, SendStep DEF QueuesInv
  <2>2. CASE ReceiveItem(t)
    <3> DEFINE h == call[t].h
    <3>1. h \in Handle
      BY <1>1, <2>2 DEF ReceiveItem, QueuesInv, CallsOK
    <3>2. uxMessagesWaiting[h] > 0 /\ CopyFrom(h, t)
      BY <2>2 DEF ReceiveItem
    <3> HIDE DEF h
    <3> QED
      BY <1>1, <3>1, <3>2, ReceiveStep DEF QueuesInv
  <2>3. CASE \E c \in work.calls[t] : Enter(t, c)
    BY <1>2, <2>3 DEF Enter
  <2>4. CASE Refused(t) \/ SuspendAll(t) \/ prvLockQueue(t) \/ Check(t)
    BY <1>2, <2>4 DEF Refused, SuspendAll, prvLockQueue, Check
  <2>5. CASE Place(t) \/ UnlockTx(t) \/ UnlockRx(t) \/ ResumeAll(t) \/ vTaskDelay(t) \/ EndDelay(t)
    BY <1>2, <2>5 DEF Place, UnlockTx, UnlockRx, ResumeAll, vTaskDelay, EndDelay
  <2> QED
    BY <1>3, <2>1, <2>2, <2>3, <2>4, <2>5 DEF Step
<1>4. CASE UNCHANGED kvars
  BY <1>2, <1>4 DEF kvars
<1>5. CASE PendSV
  BY <1>2, <1>5 DEF PendSV
<1>6. ASSUME NEW h \in work.sends, NEW x \in Item, SendFromISR(h, x)
      PROVE  Rings' /\ Q!QueueNext
  <2>1. h \in Handle
    BY <1>1, WorkloadAssumption DEF QueuesInv
  <2> DEFINE H == IF NotLocked(xTxLock[h]) THEN Filled(h) ELSE {h}
  <2>2. HasRoom(h) /\ CopyTo(H, Data(h, x)) /\ received' = received
    BY <1>6 DEF SendFromISR
  <2>3. H \in {{h}, Filled(h)}
    OBVIOUS
  <2> HIDE DEF H
  <2> QED
    BY <1>1, <2>1, <2>2, <2>3, SendStep DEF QueuesInv
<1>7. ASSUME NEW h \in work.receives, ReceiveFromISR(h)
      PROVE  Rings' /\ Q!QueueNext
  <2>1. h \in Handle
    BY <1>1, WorkloadAssumption DEF QueuesInv
  <2>2. uxMessagesWaiting[h] > 0 /\ CopyFrom(h, "isr")
    BY <1>7 DEF ReceiveFromISR
  <2> QED
    BY <1>1, <2>1, <2>2, ReceiveStep DEF QueuesInv
<1>8. ASSUME NEW E \in SUBSET Delayed, SysTick(E)
      PROVE  Rings' /\ UNCHANGED <<contentsBar, received>>
  BY <1>2, <1>8 DEF SysTick
<1> QED
  BY <1>1, <1>3, <1>4, <1>5, <1>6, <1>7, <1>8 DEF KernelNext

(* At the start the mutexes are full and the other queues empty. *)
LEMMA QueuesStart == KernelInit => QueuesInv /\ Q!QueueInit
<1>1. SUFFICES ASSUME KernelInit PROVE QueuesInv /\ Q!QueueInit
  OBVIOUS
<1>2. CallsOK
  BY <1>1 DEF KernelInit, CallsOK, IsFcn, NoCall
<1>3. IsFcn(uxMessagesWaiting, Handle) /\ IsFcn(pcReadFrom, Handle)
  BY <1>1 DEF KernelInit, IsFcn
<1>4. ASSUME NEW h \in Handle PROVE RingOK(h) /\ ContentsOf(h) \in UNION {[1 .. n -> ItemBar] : n \in 0 .. 1}
  <2> DEFINE L == Length[h]
  <2>1. /\ L \in Nat \ {0} /\ buf[h] = [i \in 0 .. L - 1 |-> NULL]
        /\ pcWriteTo[h] = 0 /\ pcReadFrom[h] = L - 1
        /\ uxMessagesWaiting[h] = IF h \in Mutex THEN 1 ELSE 0
    BY <1>1, LengthNat DEF KernelInit
  <2> HIDE DEF L
  <2>2. RingOK(h)
    <3>1. L - 1 \in 0 .. L - 1 /\ 0 \in 0 .. L /\ 1 \in 0 .. L /\ (L - 1) + 1 + 0 = L
      BY <2>1
    <3>2. L % L = 0
      BY <2>1
    <3> QED
      BY <2>1, <3>1, <3>2 DEF RingOK, IsFcn, L
  <2>3. CASE h \in Mutex
    <3>1. ContentsOf(h) = [i \in 1 .. 1 |-> NULL]
      BY <2>1, <2>3 DEF ContentsOf
    <3>2. ContentsOf(h) \in [1 .. 1 -> ItemBar] /\ 1 \in 0 .. 1
      BY <3>1 DEF ItemBar
    <3> QED
      BY <2>2, <3>2
  <2>4. CASE h \notin Mutex
    <3>1. ContentsOf(h) = [i \in 1 .. 0 |-> buf[h][(pcReadFrom[h] + i) % Length[h]]]
      BY <2>1, <2>4 DEF ContentsOf
    <3>2. ContentsOf(h) \in [1 .. 0 -> ItemBar] /\ 0 \in 0 .. 1
      BY <3>1
    <3> QED
      BY <2>2, <3>2
  <2> QED
    BY <2>3, <2>4
<1>5. QueuesInv
  BY <1>1, <1>2, <1>3, <1>4 DEF QueuesInv, Rings, KernelInit
<1>6. Q!QueueInit
  BY <1>1, <1>4 DEF Q!QueueInit, KernelInit, ItemBar
<1> QED
  BY <1>5, <1>6

(* The kernel's queues, with their rings, locks, event lists, timeouts and retries,
   implement the queues the firmware counts on, whatever queues, sets and threads
   there are and wherever the interrupts come. *)
THEOREM QueuesAreImplemented == KernelSpec => QueuesImplemented
<1>1. KernelInit => QueuesInv /\ Q!QueueInit
  BY QueuesStart
<1>2. QueuesInv /\ [KernelNext]_kvars
         => QueuesInv' /\ [Q!QueueNext]_<<[h \in Handle |-> ContentsOf(h)], received>>
  BY QueueStep DEF contentsBar
<1> QED
  BY <1>1, <1>2, PTL DEF KernelSpec, QueuesImplemented, Q!QSpec

-----------------------------------------------------------------------------
(* Threads that wait, and threads that were woken. *)

\* Where a thread is in a call on a queue, with its place on an event list still to come,
\* or behind it.
Seeking == {"try", "suspend", "lock", "check", "place"}
Leaving == {"unlocktx", "unlockrx", "resume"}
Holding == {"lock", "check", "place"} \cup Leaving

Awake == ready \cup xPendingReadyList

LockCounts == {n \in Int : n >= queueUNLOCKED}

KernelType ==
    /\ ready \subseteq Task /\ xPendingReadyList \subseteq Task /\ pxCurrentTCB \in Task
    /\ uxSchedulerSuspended \in BOOLEAN /\ pendsv \in BOOLEAN
    /\ IsFcn(pc, Task) /\ IsFcn(fate, Task)
    /\ xTxLock \in [Handle -> LockCounts] /\ xRxLock \in [Handle -> LockCounts]
    /\ waitingToSend \in [Handle -> Seq(Task)] /\ waitingToReceive \in [Handle -> Seq(Task)]

\* The scheduler is suspended by the running thread, which is one of the ready threads
\* until it has put itself on an event list.
SchedulerRight ==
    /\ uxSchedulerSuspended => pc[pxCurrentTCB] \in Holding
    /\ \A t \in Task : pc[t] \in Holding => uxSchedulerSuspended /\ t = pxCurrentTCB
    /\ ~uxSchedulerSuspended => xPendingReadyList = {}
    /\ ready \cap xPendingReadyList = {}
    /\ ~uxSchedulerSuspended /\ ~pendsv => pxCurrentTCB \in ready
    /\ \A t \in Task : pc[t] \in {"lock", "check", "place"} => t \in ready
    /\ \A t \in Task : pc[t] \in Leaving /\ fate[t] # "block" => t \in ready

\* What a thread waits for: room, or an item.
Ops == {"send", "receive"}

\* A call on a queue, and the queue locked for it.
CallRight(t) ==
    /\ pc[t] \in Seeking \cup {"unlocktx", "unlockrx"} => call[t].op \in Ops
    /\ pc[t] = "resume" => call[t].op \in Ops \cup {"delay"}
    /\ pc[t] = "delay" => call[t].op = "delay"
    /\ call[t].op = "receive" /\ Container[call[t].h] # NULL => call[t].wait = "no"
    /\ pc[t] \in {"suspend", "lock", "check", "place"} => call[t].wait # "no"
    /\ pc[t] = "place" => fate[t] = "block"
    /\ pc[t] \in {"check", "place", "unlocktx"} => xTxLock[call[t].h] >= 0
    /\ pc[t] \in {"check", "place", "unlocktx", "unlockrx"} => xRxLock[call[t].h] >= 0

CallsRight == \A t \in Task : CallRight(t)

EventList(h, op) == IF op = "send" THEN waitingToSend[h] ELSE waitingToReceive[h]

\* In the call that the event list is for, asleep or woken to look again.
Waits(t, h, op) ==
    /\ call[t].op = op /\ call[t].h = h /\ fate[t] = "block"
    /\ pc[t] = "try" \/ pc[t] \in Leaving

\* A thread on an event list is asleep, and on no other.
WaitersRight ==
    /\ \A h \in Handle, op \in Ops :
          /\ Distinct(EventList(h, op))
          /\ \A i \in DOMAIN EventList(h, op) :
                EventList(h, op)[i] \notin Awake /\ Waits(EventList(h, op)[i], h, op)
    /\ \A h \in Handle : Container[h] # NULL => waitingToReceive[h] = << >>

\* Awake, and about to look at the queue again.
Served(h, op) ==
    {t \in Awake : /\ call[t].op = op /\ call[t].h = h
                   /\ pc[t] = "try" \/ (pc[t] \in Leaving /\ fate[t] # "fail")}

\* A thread is on the list, or about to go there.
Wanted(h, op) ==
    \/ EventList(h, op) # << >>
    \/ \E t \in Task : pc[t] = "place" /\ call[t].op = op /\ call[t].h = h

\* What there is for the threads that wait, and the wakeups kept for the unlocking.
Supply(h, op) == IF op = "send" THEN Length[h] - uxMessagesWaiting[h] ELSE uxMessagesWaiting[h]
Count(n) == IF n < 0 THEN 0 ELSE n
Owed(h, op) == Count(IF op = "send" THEN xRxLock[h] ELSE xTxLock[h])

\* Each item, and each free place, has a thread that was woken for it or will be when
\* the queue is unlocked.
WokenFor(h, op) == Wanted(h, op) => Supply(h, op) <= Cardinality(Served(h, op)) + Owed(h, op)

IsSet(h) == \E g \in Handle : Container[g] = h

WakeupsRight == \A h \in Handle, op \in Ops : ~IsSet(h) => WokenFor(h, op)

WaitsInv == KernelType /\ SchedulerRight /\ CallsRight /\ WaitersRight /\ WakeupsRight

KernelInv == QueuesInv /\ WaitsInv

(* The threads at the front of an event list: as many as asked for, unless there are fewer. *)
LEMMA FirstOfRight ==
    ASSUME NEW list \in Seq(Task), NEW n \in Int
    PROVE  /\ FirstOf(list, n) \subseteq Task
           /\ \A w \in FirstOf(list, n) : \E i \in DOMAIN list : list[i] = w
           /\ Distinct(list) /\ Without(list, FirstOf(list, n)) # << >> =>
                 Cardinality(FirstOf(list, n)) = Count(n)
<1> DEFINE L == Len(list)
           m == IF n < L THEN n ELSE L
           W == FirstOf(list, n)
           r == Without(list, W)
<1>1. L \in Nat /\ DOMAIN list = 1 .. L /\ m \in Int /\ m <= L
  OBVIOUS
<1>2. W = {list[i] : i \in 1 .. m}
  BY DEF FirstOf
<1>3. \A i \in 1 .. m : i \in 1 .. L
  BY <1>1
<1> HIDE DEF W, m
<1>4. \A w \in W : \E i \in DOMAIN list : list[i] = w
  BY <1>1, <1>2, <1>3
<1>5. W \subseteq Task
  BY <1>4
<1>6. ASSUME Distinct(list), r # << >> PROVE Cardinality(W) = Count(n)
  <2>1. r \in Seq(Task) /\ \A j \in DOMAIN r : \E i \in DOMAIN list : r[j] = list[i] /\ list[i] \notin W
    BY WithoutRight, Zenon
  <2> HIDE DEF r
  <2>2. 1 \in DOMAIN r
    BY <1>6, <2>1
  <2>3. PICK i \in 1 .. L : list[i] \notin W
    BY <1>1, <2>1, <2>2
  <2>4. n < L
    <3>1. SUFFICES ASSUME ~(n < L) PROVE FALSE
      OBVIOUS
    <3>2. m = L
      BY <3>1 DEF m
    <3> QED
      BY <1>2, <2>3, <3>2
  <2>5. m = n
    BY <2>4 DEF m
  <2> DEFINE f == [j \in 1 .. n |-> list[j]]
  <2>6. f \in Bijection(1 .. n, W)
    <3>1. f \in [1 .. n -> W]
      BY <1>2, <2>5
    <3>2. ASSUME NEW j \in 1 .. n, NEW k \in 1 .. n, f[j] = f[k] PROVE j = k
      <4>1. j \in DOMAIN list /\ k \in DOMAIN list /\ list[j] = list[k]
        BY <1>1, <1>3, <2>5, <3>2
      <4> QED
        BY <1>6, <4>1 DEF Distinct
    <3>3. \A w \in W : \E j \in 1 .. n : f[j] = w
      BY <1>2, <2>5
    <3> HIDE DEF f
    <3> QED
      BY <3>1, <3>2, <3>3 DEF Bijection, Injection, Surjection, IsInjective
  <2>7. Cardinality(W) = Cardinality(1 .. n)
    <3>1. ExistsBijection(1 .. n, W)
      BY <2>6 DEF ExistsBijection
    <3>2. IsFiniteSet(1 .. n)
      BY FS_Interval
    <3> QED
      BY <3>1, <3>2, FS_Bijection
  <2>8. Cardinality(1 .. n) = IF 1 > n THEN 0 ELSE n - 1 + 1
    BY FS_Interval
  <2> QED
    BY <2>7, <2>8 DEF Count
<1> QED
  BY <1>4, <1>5, <1>6 DEF W

(* vListInsert into an event list. *)
LEMMA InsertedRight ==
    ASSUME NEW list \in Seq(Task), NEW t \in Task
    PROVE  /\ InsertByPriority(list, t) \in Seq(Task) /\ InsertByPriority(list, t) # << >>
           /\ \A j \in DOMAIN InsertByPriority(list, t) :
                 \/ InsertByPriority(list, t)[j] = t
                 \/ \E i \in DOMAIN list : InsertByPriority(list, t)[j] = list[i]
           /\ Distinct(list) /\ (\A i \in DOMAIN list : list[i] # t) =>
                 Distinct(InsertByPriority(list, t))
<1> DEFINE L == Len(list)
           P == {i \in DOMAIN list : \A j \in 1 .. i : uxPriority[list[j]] >= uxPriority[t]}
           m == Cardinality(P)
           r == InsertByPriority(list, t)
<1>1. L \in Nat /\ DOMAIN list = 1 .. L
  OBVIOUS
<1>2. m \in 0 .. L
  <2>1. IsFiniteSet(1 .. L) /\ Cardinality(1 .. L) = L
    <3>1. Cardinality(1 .. L) = IF 1 > L THEN 0 ELSE L - 1 + 1
      BY <1>1, FS_Interval
    <3>2. IsFiniteSet(1 .. L)
      BY <1>1, FS_Interval
    <3> QED
      BY <1>1, <3>1, <3>2
  <2>2. P \in SUBSET (1 .. L)
    BY <1>1
  <2> HIDE DEF P
  <2>3. IsFiniteSet(P) /\ Cardinality(P) <= L
    BY <2>1, <2>2, FS_Subset
  <2>4. Cardinality(P) \in Nat
    BY <2>3, FS_CardinalityType
  <2> QED
    BY <1>1, <2>3, <2>4
<1>3. r = InsertAt(list, m + 1, t)
  <2>1. r = SubSeq(list, 1, m) \o <<t>> \o SubSeq(list, m + 1, L)
    BY DEF InsertByPriority
  <2> HIDE DEF m, r
  <2>2. (m + 1) - 1 = m
    BY <1>1, <1>2
  <2> QED
    BY <2>1, <2>2 DEF InsertAt
<1> HIDE DEF m, r
<1>4. /\ r \in Seq(Task) /\ Len(r) = L + 1
      /\ \A j \in 1 .. L + 1 :
            r[j] = IF j <= m THEN list[j] ELSE IF j = m + 1 THEN t ELSE list[j - 1]
  <2> DEFINE x == InsertAt(list, m + 1, t)
  <2>1. /\ x \in Seq(Task) /\ Len(x) = L + 1
        /\ \A j \in 1 .. L + 1 :
              x[j] = IF j <= m THEN list[j] ELSE IF j = m + 1 THEN t ELSE list[j - 1]
    BY <1>2, InsertAtRight
  <2> HIDE DEF x
  <2> QED
    BY <1>3, <2>1 DEF x
<1>5. DOMAIN r = 1 .. L + 1 /\ m \in Nat
  BY <1>2, <1>4
<1> DEFINE from(j) == IF j <= m THEN j ELSE j - 1
<1>6. ASSUME NEW j \in DOMAIN r, j # m + 1
      PROVE  from(j) \in 1 .. L /\ r[j] = list[from(j)]
  BY <1>1, <1>2, <1>4, <1>5, <1>6
<1>7. m + 1 \in DOMAIN r /\ r[m + 1] = t
  BY <1>1, <1>2, <1>4, <1>5
<1>8. ASSUME NEW j \in DOMAIN r PROVE r[j] = t \/ \E i \in DOMAIN list : r[j] = list[i]
  <2>1. CASE j = m + 1
    BY <1>7, <2>1
  <2>2. CASE j # m + 1
    <3>1. from(j) \in DOMAIN list /\ r[j] = list[from(j)]
      BY <1>1, <1>6, <2>2
    <3> HIDE DEF from
    <3> QED
      BY <3>1
  <2> QED
    BY <2>1, <2>2
<1>9. ASSUME Distinct(list), \A i \in DOMAIN list : list[i] # t PROVE Distinct(r)
  <2> SUFFICES ASSUME NEW j \in DOMAIN r, NEW k \in DOMAIN r, r[j] = r[k] PROVE j = k
    BY DEF Distinct
  <2>1. CASE j = m + 1 /\ k # m + 1
    <3>1. from(k) \in 1 .. L /\ r[k] = list[from(k)]
      BY <1>6, <2>1
    <3> HIDE DEF from
    <3> QED
      BY <1>1, <1>7, <1>9, <2>1, <3>1
  <2>2. CASE k = m + 1 /\ j # m + 1
    <3>1. from(j) \in 1 .. L /\ r[j] = list[from(j)]
      BY <1>6, <2>2
    <3> HIDE DEF from
    <3> QED
      BY <1>1, <1>7, <1>9, <2>2, <3>1
  <2>3. CASE j # m + 1 /\ k # m + 1
    <3>1. /\ from(j) \in 1 .. L /\ r[j] = list[from(j)]
          /\ from(k) \in 1 .. L /\ r[k] = list[from(k)]
      BY <1>6, <2>3
    <3> HIDE DEF from
    <3>2. from(j) = from(k)
      BY <1>1, <1>9, <3>1 DEF Distinct
    <3> USE DEF from
    <3> QED
      BY <1>1, <1>2, <1>5, <2>3, <3>2
  <2> QED
    BY <2>1, <2>2, <2>3
<1>10. r # << >>
  BY <1>1, <1>4
<1> HIDE DEF from
<1> QED
  BY <1>4, <1>8, <1>9, <1>10 DEF r

(* More threads in a set, and one less. *)
LEMMA MoreServed ==
    ASSUME NEW A \in SUBSET Task, NEW B \in SUBSET Task, NEW W \in SUBSET Task,
           A \cap W = {}, A \cup W \subseteq B
    PROVE  /\ Cardinality(A) \in Nat /\ Cardinality(B) \in Nat /\ Cardinality(W) \in Nat
           /\ Cardinality(B) >= Cardinality(A) + Cardinality(W)
<1>1. IsFiniteSet(Task)
  BY KernelAssumption
<1>2. IsFiniteSet(A) /\ IsFiniteSet(B) /\ IsFiniteSet(W)
  BY <1>1, FS_Subset
<1>3. Cardinality(A) \in Nat /\ Cardinality(B) \in Nat /\ Cardinality(W) \in Nat
  BY <1>2, FS_CardinalityType
<1>4. Cardinality(A \cup W) = Cardinality(A) + Cardinality(W)
  <2>1. Cardinality(A \cup W) = Cardinality(A) + Cardinality(W) - Cardinality(A \cap W)
    BY <1>2, FS_Union
  <2>2. Cardinality(A \cap W) = 0
    BY FS_EmptySet
  <2> QED
    BY <1>3, <2>1, <2>2
<1>5. Cardinality(A \cup W) <= Cardinality(B)
  BY <1>2, FS_Subset
<1> QED
  BY <1>3, <1>4, <1>5

(* One thread leaves a set. *)
LEMMA OneServed ==
    ASSUME NEW A \in SUBSET Task, NEW B \in SUBSET Task, NEW t, A \ {t} \subseteq B
    PROVE  /\ Cardinality(A) \in Nat /\ Cardinality(B) \in Nat
           /\ Cardinality(B) >= Cardinality(A) - 1
<1>1. IsFiniteSet(A)
  BY KernelAssumption, FS_Subset
<1>2. Cardinality(A) \in Nat
  BY <1>1, FS_CardinalityType
<1>3. Cardinality(A \ {t}) = IF t \in A THEN Cardinality(A) - 1 ELSE Cardinality(A)
  BY <1>1, FS_RemoveElement
<1>4. IsFiniteSet(B) /\ Cardinality(B) \in Nat
  BY KernelAssumption, FS_Subset, FS_CardinalityType
<1>5. Cardinality(A \ {t}) <= Cardinality(B)
  BY <1>4, FS_Subset
<1> QED
  BY <1>2, <1>3, <1>4, <1>5

\* Threads W leave event lists, and none comes.
Shrinks(W) ==
    \A h \in Handle, op \in Ops :
        /\ Distinct(EventList(h, op)')
        /\ \A j \in DOMAIN EventList(h, op)' : \E i \in DOMAIN EventList(h, op) :
              EventList(h, op)'[j] = EventList(h, op)[i] /\ EventList(h, op)[i] \notin W

ListsType == waitingToSend \in [Handle -> Seq(Task)] /\ waitingToReceive \in [Handle -> Seq(Task)]

(* An event list of a queue is one of the two. *)
LEMMA EventListType ==
    ASSUME ListsType, NEW h \in Handle, NEW op \in Ops
    PROVE  EventList(h, op) \in Seq(Task)
  BY DEF ListsType, EventList, Ops

(* The threads on an event list are in the call it is for, so on no other. *)
LEMMA OnOneList ==
    ASSUME WaitersRight, NEW h \in Handle, NEW op \in Ops, NEW i \in DOMAIN EventList(h, op),
           NEW g \in Handle, NEW o \in Ops, Waits(EventList(h, op)[i], g, o)
    PROVE  g = h /\ o = op
  BY DEF WaitersRight, Waits

(* The first threads of an event list are woken. *)
LEMMA WokenFirst ==
    ASSUME ListsType, WaitersRight, NEW g \in Handle, NEW o \in Ops, NEW n \in Int,
           NEW W, W = {} \/ W = FirstOf(EventList(g, o), n)
    PROVE  /\ W \subseteq Task /\ W \cap Awake = {} /\ \A w \in W : Waits(w, g, o)
           /\ Without(EventList(g, o), W) \in Seq(Task)
           /\ W = FirstOf(EventList(g, o), n) /\ Without(EventList(g, o), W) # << >> =>
                 Cardinality(W) = Count(n)
<1> DEFINE L == EventList(g, o)
<1>1. L \in Seq(Task)
  BY EventListType
<1>2. Distinct(L) /\ \A i \in DOMAIN L : L[i] \notin Awake /\ Waits(L[i], g, o)
  BY DEF WaitersRight
<1> HIDE DEF L
<1> DEFINE F == FirstOf(L, n)
<1>3. /\ F \subseteq Task /\ \A w \in F : \E i \in DOMAIN L : L[i] = w
      /\ Without(L, F) # << >> => Cardinality(F) = Count(n)
  BY <1>1, <1>2, FirstOfRight
<1> HIDE DEF F
<1>4. W = {} \/ W = F
  BY DEF L, F
<1>5. W \subseteq Task /\ \A w \in W : \E i \in DOMAIN L : L[i] = w
  BY <1>3, <1>4
<1>6. \A w \in W : w \notin Awake /\ Waits(w, g, o)
  BY <1>2, <1>5
<1>7. Without(L, W) \in Seq(Task)
  BY <1>1, WithoutRight
<1>8. W = F /\ Without(L, W) # << >> => Cardinality(W) = Count(n)
  BY <1>3
<1>9. W \cap Awake = {}
  BY <1>6
<1> QED
  BY <1>5, <1>6, <1>7, <1>8, <1>9 DEF L, F

(* ... and leave it. *)
LEMMA ShrinkByWake ==
    ASSUME ListsType, WaitersRight, NEW g \in Handle, NEW o \in Ops, NEW n \in Int,
           NEW W, W = {} \/ W = FirstOf(EventList(g, o), n),
           \A h \in Handle, op \in Ops :
              EventList(h, op)' = IF h = g /\ op = o THEN Without(EventList(h, op), W)
                                  ELSE EventList(h, op)
    PROVE  Shrinks(W)
<1>1. SUFFICES ASSUME NEW h \in Handle, NEW op \in Ops
               PROVE  /\ Distinct(EventList(h, op)')
                      /\ \A j \in DOMAIN EventList(h, op)' : \E i \in DOMAIN EventList(h, op) :
                            /\ EventList(h, op)'[j] = EventList(h, op)[i]
                            /\ EventList(h, op)[i] \notin W
  BY DEF Shrinks
<1>2. CASE h = g /\ op = o
  <2> DEFINE L == EventList(h, op)
             N == EventList(h, op)'
  <2>1. N = Without(L, W)
    BY <1>2
  <2>2. L \in Seq(Task) /\ Distinct(L)
    BY EventListType DEF WaitersRight
  <2> HIDE DEF L, N
  <2>3. Distinct(Without(L, W))
    BY <2>2, WithoutRight
  <2>4. \A j \in DOMAIN Without(L, W) : \E i \in DOMAIN L : Without(L, W)[j] = L[i] /\ L[i] \notin W
    BY <2>2, WithoutRight, Zenon
  <2>5. Distinct(N) /\ \A j \in DOMAIN N : \E i \in DOMAIN L : N[j] = L[i] /\ L[i] \notin W
    BY <2>1, <2>3, <2>4
  <2> QED
    BY <2>5 DEF L, N
<1>3. CASE ~(h = g /\ op = o)
  <2>1. EventList(h, op)' = EventList(h, op)
    BY <1>3
  <2>2. Distinct(EventList(h, op)) /\ \A w \in W : Waits(w, g, o)
    BY WokenFirst DEF WaitersRight
  <2>3. \A i \in DOMAIN EventList(h, op) : EventList(h, op)[i] \notin W
    BY <1>3, <2>2, OnOneList
  <2> QED
    BY <2>1, <2>2, <2>3
<1> QED
  BY <1>2, <1>3

(* xTaskIncrementTick takes the threads E off whatever list they are on. *)
LEMMA ShrinkByTick ==
    ASSUME ListsType, WaitersRight, NEW E, WakeExpired(E)
    PROVE  Shrinks(E) /\ ListsType'
<1>1. ASSUME NEW h \in Handle, NEW op \in Ops PROVE EventList(h, op)' = Without(EventList(h, op), E)
  BY DEF WakeExpired, EventList
<1>2. ASSUME NEW h \in Handle, NEW op \in Ops
      PROVE  /\ Distinct(EventList(h, op)')
             /\ \A j \in DOMAIN EventList(h, op)' : \E i \in DOMAIN EventList(h, op) :
                   /\ EventList(h, op)'[j] = EventList(h, op)[i]
                   /\ EventList(h, op)[i] \notin E
  <2> DEFINE L == EventList(h, op)
             N == EventList(h, op)'
  <2>1. L \in Seq(Task) /\ Distinct(L)
    BY EventListType DEF WaitersRight
  <2>2. N = Without(L, E)
    BY <1>1
  <2> HIDE DEF L, N
  <2>3. Distinct(Without(L, E))
    BY <2>1, WithoutRight
  <2>4. \A j \in DOMAIN Without(L, E) : \E i \in DOMAIN L : Without(L, E)[j] = L[i] /\ L[i] \notin E
    BY <2>1, WithoutRight, Zenon
  <2>5. Distinct(N) /\ \A j \in DOMAIN N : \E i \in DOMAIN L : N[j] = L[i] /\ L[i] \notin E
    BY <2>2, <2>3, <2>4
  <2> QED
    BY <2>5 DEF L, N
<1>3. ListsType'
  <2>1. \A h \in Handle : Without(waitingToSend[h], E) \in Seq(Task)
    BY WithoutRight DEF ListsType
  <2>2. \A h \in Handle : Without(waitingToReceive[h], E) \in Seq(Task)
    BY WithoutRight DEF ListsType
  <2> QED
    BY <2>1, <2>2 DEF WakeExpired, ListsType
<1> QED
  BY <1>2, <1>3 DEF Shrinks

(* A step that leaves the event lists alone. *)
LEMMA ShrinkByNone ==
    ASSUME ListsType, WaitersRight, UNCHANGED lists
    PROVE  Shrinks({}) /\ ListsType'
<1>1. ASSUME NEW h \in Handle, NEW op \in Ops PROVE EventList(h, op)' = EventList(h, op) /\ Distinct(EventList(h, op))
  BY DEF lists, EventList, WaitersRight
<1> QED
  BY <1>1 DEF Shrinks, ListsType, lists

(* Threads that stay on a list stay asleep, in the call it is for. *)
LEMMA WaitersStay ==
    ASSUME WaitersRight, NEW W, Shrinks(W), ListsType, ListsType', Awake' \subseteq Awake \cup W,
           \A u \in Task, h \in Handle, op \in Ops :
              u \notin Awake /\ u \notin W /\ Waits(u, h, op) => Waits(u, h, op)'
    PROVE  /\ WaitersRight'
           /\ \A h \in Handle, op \in Ops : EventList(h, op)' # << >> => EventList(h, op) # << >>
<1>1. ASSUME NEW h \in Handle, NEW op \in Ops
      PROVE  /\ Distinct(EventList(h, op)')
             /\ \A j \in DOMAIN EventList(h, op)' :
                   \E w \in Task : w = EventList(h, op)'[j] /\ w \notin Awake' /\ Waits(w, h, op)'
             /\ EventList(h, op)' # << >> => EventList(h, op) # << >>
  <2> DEFINE L == EventList(h, op)
             N == EventList(h, op)'
  <2>1. L \in Seq(Task) /\ N \in Seq(Task)
    BY EventListType DEF EventList, ListsType, Ops
  <2>2. Distinct(N) /\ \A j \in DOMAIN N : \E i \in DOMAIN L : N[j] = L[i] /\ L[i] \notin W
    BY DEF Shrinks
  <2>3. \A i \in DOMAIN L : L[i] \notin Awake /\ Waits(L[i], h, op)
    BY DEF WaitersRight
  <2> HIDE DEF L, N
  <2>4. ASSUME NEW j \in DOMAIN N PROVE \E w \in Task : w = N[j] /\ w \notin Awake' /\ Waits(w, h, op)'
    <3>1. PICK i \in DOMAIN L : N[j] = L[i] /\ L[i] \notin W
      BY <2>2
    <3>2. L[i] \in Task /\ L[i] \notin Awake /\ Waits(L[i], h, op)
      BY <2>1, <2>3
    <3>3. PICK w \in Task : w = L[i]
      BY <3>2
    <3>4. w \notin W /\ w \notin Awake /\ Waits(w, h, op)
      BY <3>1, <3>2, <3>3
    <3>5. Waits(w, h, op)' /\ w \notin Awake'
      BY <3>4
    <3> QED
      BY <3>1, <3>3, <3>5
  <2>5. N # << >> => L # << >>
    BY <2>1, <2>2
  <2> QED
    BY <2>2, <2>4, <2>5 DEF L, N
<1>2. ASSUME NEW h \in Handle, Container[h] # NULL PROVE waitingToReceive'[h] = << >>
  <2>1. EventList(h, "receive") = << >> /\ EventList(h, "receive")' = waitingToReceive'[h]
    BY <1>2 DEF WaitersRight, EventList
  <2> QED
    BY <1>1, <2>1 DEF Ops
<1>3. ASSUME NEW h \in Handle, NEW op \in Ops, NEW j \in DOMAIN EventList(h, op)'
      PROVE  EventList(h, op)'[j] \notin Awake' /\ Waits(EventList(h, op)[j], h, op)'
  BY <1>1 DEF Waits
<1> QED
  BY <1>1, <1>2, <1>3 DEF WaitersRight

\* What a step of one thread leaves alone in another.
Same(u) == pc'[u] = pc[u] /\ call'[u] = call[u] /\ fate'[u] = fate[u]

(* A thread goes on in its code. *)
LEMMA GoesOn ==
    ASSUME KernelType, NEW t \in Task, NEW l, Goto(t, l)
    PROVE  IsFcn(pc', Task) /\ pc'[t] = l /\ \A u \in Task \ {t} : pc'[u] = pc[u]
  BY DEF KernelType, Goto, IsFcn

(* A call returns. *)
LEMMA Returned ==
    ASSUME KernelType, CallsOK, NEW t \in Task, Return(t)
    PROVE  /\ IsFcn(pc', Task) /\ IsFcn(fate', Task)
           /\ pc'[t] = "run" /\ call'[t].op = "none" /\ fate'[t] = "retry"
           /\ \A u \in Task \ {t} : Same(u)
<1>1. Goto(t, "run") /\ fate' = [fate EXCEPT ![t] = "retry"] /\ call' = [call EXCEPT ![t] = NoCall]
  BY DEF Return
<1>2. IsFcn(pc', Task) /\ pc'[t] = "run" /\ \A u \in Task \ {t} : pc'[u] = pc[u]
  BY <1>1, GoesOn
<1>3. IsFcn(fate', Task) /\ fate'[t] = "retry" /\ \A u \in Task \ {t} : fate'[u] = fate[u]
  BY <1>1 DEF KernelType, IsFcn
<1>4. call'[t] = NoCall /\ \A u \in Task \ {t} : call'[u] = call[u]
  BY <1>1 DEF CallsOK, IsFcn
<1>5. NoCall.op = "none"
  BY DEF NoCall
<1> QED
  BY <1>2, <1>3, <1>4, <1>5 DEF Same

(* The running thread has the scheduler suspended, or nobody has and it is ready. *)
LEMMA Runs ==
    ASSUME KernelType, SchedulerRight, NEW t \in Task, NEW l, Running(t, l)
    PROVE  /\ pxCurrentTCB = t /\ ~pendsv /\ pc[t] = l
           /\ \A u \in Task \ {t} : pc[u] \notin Holding
           /\ l \in Holding => uxSchedulerSuspended
           /\ l \notin Holding =>
                 /\ ~uxSchedulerSuspended /\ t \in ready /\ xPendingReadyList = {}
                 /\ \A u \in Task : pc[u] \notin Holding
  BY DEF Running, KernelType, SchedulerRight

(* xTaskRemoveFromEventList. *)
LEMMA Unblocked ==
    ASSUME KernelType, SchedulerRight, NEW W \in SUBSET Task, W \cap Awake = {}, Unblock(W)
    PROVE  /\ ready' \subseteq Task /\ xPendingReadyList' \subseteq Task
           /\ Awake' = Awake \cup W /\ ready \subseteq ready'
           /\ ready' \cap xPendingReadyList' = {}
           /\ ~uxSchedulerSuspended => xPendingReadyList' = {}
  BY DEF KernelType, SchedulerRight, Unblock, Awake

(* The numbers that are compared. *)
LEMMA Numbers ==
    ASSUME Rings, KernelType, NEW h \in Handle, NEW op \in Ops
    PROVE  /\ Supply(h, op) \in Nat /\ Owed(h, op) \in Nat
           /\ Served(h, op) \in SUBSET Task /\ Cardinality(Served(h, op)) \in Nat
<1>1. uxMessagesWaiting[h] \in 0 .. Length[h] /\ Length[h] \in Nat
  BY LengthNat DEF Rings, RingOK
<1>2. xTxLock[h] \in Int /\ xRxLock[h] \in Int
  BY DEF KernelType, LockCounts
<1>3. Served(h, op) \in SUBSET Task
  BY DEF Served, Awake, KernelType
<1>4. IsFiniteSet(Served(h, op))
  BY <1>3, KernelAssumption, FS_Subset
<1>5. Cardinality(Served(h, op)) \in Nat
  BY <1>4, FS_CardinalityType
<1>6. Supply(h, op) \in Nat
  BY <1>1 DEF Supply
<1>7. Owed(h, op) \in Nat
  BY <1>2 DEF Owed, Count
<1> QED
  BY <1>3, <1>5, <1>6, <1>7

(* The same, after a step. *)
LEMMA NumbersAfter ==
    ASSUME Rings', KernelType', NEW h \in Handle, NEW op \in Ops
    PROVE  /\ Supply(h, op)' \in Nat /\ Owed(h, op)' \in Nat
           /\ Served(h, op)' \in SUBSET Task /\ Cardinality(Served(h, op))' \in Nat
<1>1. uxMessagesWaiting'[h] \in 0 .. Length[h] /\ Length[h] \in Nat
  BY LengthNat DEF Rings, RingOK
<1>2. xTxLock'[h] \in Int /\ xRxLock'[h] \in Int
  BY DEF KernelType, LockCounts
<1>3. Served(h, op)' \in SUBSET Task
  BY DEF Served, Awake, KernelType
<1>4. IsFiniteSet(Served(h, op)')
  BY <1>3, KernelAssumption, FS_Subset
<1>5. Cardinality(Served(h, op)') \in Nat
  BY <1>4, FS_CardinalityType
<1>6. Supply(h, op)' \in Nat
  BY <1>1 DEF Supply
<1>7. Owed(h, op)' \in Nat
  BY <1>2 DEF Owed, Count
<1> QED
  BY <1>3, <1>5, <1>6, <1>7

(* Threads W are woken, or wakeups are kept, for what is supplied. *)
LEMMA WokenMore ==
    ASSUME Rings, Rings', KernelType, KernelType', NEW h \in Handle, NEW op \in Ops,
           WokenFor(h, op), Wanted(h, op)' => Wanted(h, op),
           NEW W \in SUBSET Task, W \cap Awake = {}, Served(h, op) \cup W \subseteq Served(h, op)',
           Wanted(h, op)' => Supply(h, op)' - Supply(h, op) <= Cardinality(W) + Owed(h, op)' - Owed(h, op)
    PROVE  WokenFor(h, op)'
<1>1. /\ Supply(h, op) \in Nat /\ Owed(h, op) \in Nat /\ Supply(h, op)' \in Nat /\ Owed(h, op)' \in Nat
      /\ Served(h, op) \in SUBSET Task /\ Served(h, op)' \in SUBSET Task
  BY Numbers, NumbersAfter
<1>2. Served(h, op) \cap W = {}
  BY DEF Served
<1> DEFINE a == Cardinality(Served(h, op))
           b == Cardinality(Served(h, op)')
           w == Cardinality(W)
<1>3. a \in Nat /\ b \in Nat /\ w \in Nat /\ b >= a + w
  BY <1>1, <1>2, MoreServed
<1>4. Wanted(h, op)' => Supply(h, op) <= a + Owed(h, op)
  BY DEF WokenFor
<1> HIDE DEF a, b, w
<1>5. Wanted(h, op)' => Supply(h, op)' <= b + Owed(h, op)'
  BY <1>1, <1>3, <1>4 DEF w
<1> QED
  BY <1>5 DEF WokenFor, b

(* A woken thread takes what it was woken for. *)
LEMMA WokenLess ==
    ASSUME Rings, Rings', KernelType, KernelType', NEW h \in Handle, NEW op \in Ops,
           WokenFor(h, op), Wanted(h, op)' => Wanted(h, op),
           NEW t, Served(h, op) \ {t} \subseteq Served(h, op)',
           Supply(h, op)' < Supply(h, op), Owed(h, op)' = Owed(h, op)
    PROVE  WokenFor(h, op)'
<1>1. /\ Supply(h, op) \in Nat /\ Owed(h, op) \in Nat /\ Supply(h, op)' \in Nat /\ Owed(h, op)' \in Nat
      /\ Served(h, op) \in SUBSET Task /\ Served(h, op)' \in SUBSET Task
  BY Numbers, NumbersAfter
<1> DEFINE a == Cardinality(Served(h, op))
           b == Cardinality(Served(h, op)')
<1>2. a \in Nat /\ b \in Nat /\ b >= a - 1
  BY <1>1, OneServed
<1>3. Wanted(h, op)' => Supply(h, op) <= a + Owed(h, op)
  BY DEF WokenFor
<1> HIDE DEF a, b
<1>4. Wanted(h, op)' => Supply(h, op)' <= b + Owed(h, op)'
  BY <1>1, <1>2, <1>3
<1> QED
  BY <1>4 DEF WokenFor, b

(* Nothing is supplied. *)
LEMMA WokenNone ==
    ASSUME Rings', KernelType', NEW h \in Handle, NEW op \in Ops, Supply(h, op)' = 0
    PROVE  WokenFor(h, op)'
<1>1. Owed(h, op)' \in Nat /\ Cardinality(Served(h, op))' \in Nat
  BY NumbersAfter
<1> QED
  BY <1>1 DEF WokenFor

(* The woken threads stay woken while a thread t moves that is not one of them. *)
LEMMA ServedStay ==
    ASSUME NEW t \in Task, \A u \in Task \ {t} : Same(u), KernelType, Awake \ {t} \subseteq Awake',
           NEW h, NEW op, t \in Served(h, op) => t \in Served(h, op)'
    PROVE  Served(h, op) \subseteq Served(h, op)'
  BY DEF Served, Same, Awake, KernelType

(* A step that supplies nothing. *)
LEMMA QuietWakeups ==
    ASSUME KernelInv, KernelType', UNCHANGED ring, NEW t \in Task, \A u \in Task \ {t} : Same(u),
           Awake \ {t} \subseteq Awake',
           \A h \in Handle, op \in Ops : Owed(h, op)' = Owed(h, op),
           \A h \in Handle, op \in Ops : EventList(h, op)' # << >> => Wanted(h, op),
           \A h \in Handle, op \in Ops :
              \/ Supply(h, op) = 0
              \/ /\ t \in Served(h, op) => t \in Served(h, op)'
                 /\ ~(pc'[t] = "place" /\ call'[t].op = op /\ call'[t].h = h)
    PROVE  WakeupsRight'
<1>1. SUFFICES ASSUME NEW h \in Handle, NEW op \in Ops, ~IsSet(h) PROVE WokenFor(h, op)'
  BY DEF WakeupsRight, IsSet
<1>2. Rings /\ Rings' /\ KernelType /\ WokenFor(h, op) /\ Supply(h, op)' = Supply(h, op)
  BY <1>1, QuietStep DEF KernelInv, WaitsInv, QueuesInv, WakeupsRight, Supply, ring
<1>3. CASE Supply(h, op) = 0
  BY <1>2, <1>3, WokenNone
<1>4. CASE /\ t \in Served(h, op) => t \in Served(h, op)'
           /\ ~(pc'[t] = "place" /\ call'[t].op = op /\ call'[t].h = h)
  <2>1. Wanted(h, op)' => Wanted(h, op)
    <3>1. ASSUME NEW u \in Task, pc'[u] = "place", call'[u].op = op, call'[u].h = h
          PROVE  pc[u] = "place" /\ call[u].op = op /\ call[u].h = h
      BY <1>4, <3>1 DEF Same
    <3> QED
      BY <3>1 DEF Wanted
  <2>2. Served(h, op) \subseteq Served(h, op)'
    BY <1>2, <1>4, ServedStay
  <2>3. Owed(h, op)' = Owed(h, op) /\ Supply(h, op) \in Nat /\ Owed(h, op) \in Nat
    BY <1>2, Numbers
  <2>4. Cardinality({}) = 0 /\ {} \in SUBSET Task /\ {} \cap Awake = {}
    BY FS_EmptySet
  <2>5. Served(h, op) \cup {} \subseteq Served(h, op)'
    BY <2>2
  <2>6. Supply(h, op)' - Supply(h, op) <= Cardinality({}) + Owed(h, op)' - Owed(h, op)
    BY <1>2, <2>3, <2>4
  <2> QED
    BY <1>2, <2>1, <2>4, <2>5, <2>6, WokenMore
<1> QED
  BY <1>3, <1>4

(* The other threads do not hold the scheduler, so they hold no queue. *)
LEMMA OthersCalls ==
    ASSUME CallsRight, NEW t \in Task, \A u \in Task \ {t} : Same(u) /\ pc[u] \notin Holding,
           CallRight(t)'
    PROVE  CallsRight'
<1>1. ASSUME NEW u \in Task, u # t PROVE CallRight(u)'
  <2>1. CallRight(u) /\ Same(u) /\ pc[u] \notin Holding
    BY <1>1 DEF CallsRight
  <2> QED
    BY <2>1 DEF CallRight, Same, Holding, Leaving
<1> QED
  BY <1>1 DEF CallsRight

(* A step of a thread that stays ready, and leaves the other threads and the lists alone. *)
LEMMA ThreadOnly ==
    ASSUME KernelInv, NEW t \in Task, pxCurrentTCB = t, t \in ready,
           IsFcn(pc', Task), IsFcn(fate', Task), \A u \in Task \ {t} : Same(u),
           pc[t] \in Holding => pc'[t] \in Holding, uxSchedulerSuspended' = (pc'[t] \in Holding),
           ready' = ready, xPendingReadyList' = xPendingReadyList, pxCurrentTCB' = pxCurrentTCB,
           pendsv' = pendsv, UNCHANGED <<ring, lists>>,
           xTxLock' \in [Handle -> LockCounts], xRxLock' \in [Handle -> LockCounts],
           \A h \in Handle, op \in Ops : Owed(h, op)' = Owed(h, op),
           \A h \in Handle, op \in Ops :
              \/ Supply(h, op) = 0
              \/ /\ t \in Served(h, op) => t \in Served(h, op)'
                 /\ ~(pc'[t] = "place" /\ call'[t].op = op /\ call'[t].h = h),
           CallRight(t)'
    PROVE  WaitsInv'
<1>1. KernelType /\ SchedulerRight /\ CallsRight /\ WaitersRight /\ ListsType
  BY DEF KernelInv, WaitsInv, KernelType, ListsType
<1>2. Shrinks({}) /\ ListsType'
  BY <1>1, ShrinkByNone
<1>3. KernelType'
  BY <1>1, <1>2 DEF KernelType, ListsType
<1>4. \A u \in Task \ {t} : pc[u] \notin Holding
  BY <1>1 DEF SchedulerRight
<1>5. SchedulerRight'
  <2>1. \A u \in Task : pc'[u] \in Holding => u = t
    BY <1>4 DEF Same
  <2>2. uxSchedulerSuspended => pc[t] \in Holding
    BY <1>1 DEF SchedulerRight
  <2>3. uxSchedulerSuspended' \/ xPendingReadyList' = {}
    BY <1>1, <2>2 DEF SchedulerRight, KernelType
  <2>4. ready' \cap xPendingReadyList' = {} /\ pxCurrentTCB' = t /\ t \in ready'
    BY <1>1 DEF SchedulerRight
  <2>5. \A u \in Task : pc'[u] \in {"lock", "check", "place"} \/ pc'[u] \in Leaving => pc'[u] \in Holding
    BY DEF Holding
  <2> QED
    BY <2>1, <2>3, <2>4, <2>5 DEF SchedulerRight
<1>6. CallsRight'
  BY <1>1, <1>4, OthersCalls
<1>7. /\ WaitersRight'
      /\ \A h \in Handle, op \in Ops : EventList(h, op)' # << >> => EventList(h, op) # << >>
  <2>1. Awake' = Awake /\ t \in Awake
    BY DEF Awake
  <2>2. \A u \in Task, h \in Handle, op \in Ops : u \notin Awake /\ Waits(u, h, op) => Waits(u, h, op)'
    BY <2>1 DEF Waits, Same
  <2>3. Awake' \subseteq Awake \cup {}
    BY <2>1
  <2> QED
    BY <1>1, <1>2, <2>2, <2>3, WaitersStay
<1>8. WakeupsRight'
  <2>1. Awake \ {t} \subseteq Awake'
    BY DEF Awake
  <2>2. \A h \in Handle, op \in Ops : EventList(h, op)' # << >> => Wanted(h, op)
    BY <1>7 DEF Wanted
  <2> QED
    BY <1>3, <2>1, <2>2, QuietWakeups
<1> QED
  BY <1>3, <1>5, <1>6, <1>7, <1>8 DEF WaitsInv

(* The wakeups owed are those counted in the locks. *)
LEMMA OwedSame ==
    ASSUME UNCHANGED locks PROVE \A h \in Handle, op \in Ops : Owed(h, op)' = Owed(h, op)
  BY DEF locks, Owed

(* A thread calls. *)
LEMMA EnterRight ==
    ASSUME KernelInv, NEW t \in Task, NEW c \in work.calls[t], Enter(t, c) PROVE WaitsInv'
<1>1. KernelType /\ SchedulerRight /\ CallsOK /\ work \in Workload
  BY DEF KernelInv, WaitsInv, QueuesInv
<1> DEFINE l == IF c.op = "delay" THEN "delay" ELSE "try"
<1>2. /\ Running(t, "run") /\ Goto(t, l) /\ call' = [call EXCEPT ![t] = c] /\ fate' = fate
      /\ UNCHANGED <<ring, locks, lists, sched>>
  BY DEF Enter
<1>3. l \notin Holding /\ "run" \notin Holding /\ l # "place"
  BY DEF Holding, Leaving
<1>4. pxCurrentTCB = t /\ ~pendsv /\ pc[t] = "run" /\ ~uxSchedulerSuspended /\ t \in ready
  BY <1>1, <1>2, <1>3, Runs
<1>5. IsFcn(pc', Task) /\ pc'[t] = l /\ \A u \in Task \ {t} : pc'[u] = pc[u]
  BY <1>1, <1>2, GoesOn
<1>6. call'[t] = c /\ \A u \in Task \ {t} : call'[u] = call[u]
  BY <1>1, <1>2 DEF CallsOK, IsFcn
<1>7. IsFcn(fate', Task) /\ \A u \in Task \ {t} : Same(u)
  BY <1>1, <1>2, <1>5, <1>6 DEF Same, KernelType
<1>8. CallRight(t)'
  <2>1. c.op \in Ops \cup {"delay"} /\ (c.op = "receive" /\ Container[c.h] # NULL => c.wait = "no")
    BY <1>1, WorkloadAssumption DEF Ops
  <2> QED
    BY <1>5, <1>6, <2>1 DEF CallRight, Ops, Seeking
<1>9. /\ xTxLock' \in [Handle -> LockCounts] /\ xRxLock' \in [Handle -> LockCounts]
      /\ \A h \in Handle, op \in Ops : Owed(h, op)' = Owed(h, op)
  BY <1>1, <1>2, OwedSame DEF KernelType, locks
<1>10. \A h, op : t \notin Served(h, op)
  BY <1>4 DEF Served, Leaving
<1>11. /\ uxSchedulerSuspended' = (pc'[t] \in Holding) /\ (pc[t] \in Holding => pc'[t] \in Holding)
       /\ ready' = ready /\ xPendingReadyList' = xPendingReadyList /\ pxCurrentTCB' = pxCurrentTCB
       /\ pendsv' = pendsv /\ UNCHANGED <<ring, lists>>
  BY <1>1, <1>2, <1>3, <1>4, <1>5 DEF sched, KernelType
<1>12. \A h \in Handle, op \in Ops :
          /\ t \in Served(h, op) => t \in Served(h, op)'
          /\ ~(pc'[t] = "place" /\ call'[t].op = op /\ call'[t].h = h)
  BY <1>3, <1>5, <1>10
<1> QED
  BY <1>4, <1>5, <1>7, <1>8, <1>9, <1>11, <1>12, ThreadOnly

(* A call that cannot be served: there is nothing for it. *)
LEMMA StuckMeans ==
    ASSUME Rings, CallsOK, NEW t \in Task, call[t].op \in Ops, Stuck(t)
    PROVE  Supply(call[t].h, call[t].op) = 0
<1>1. call[t].h \in Handle
  BY DEF CallsOK, Ops
<1> DEFINE h == call[t].h
<1>2. uxMessagesWaiting[h] \in 0 .. Length[h] /\ Length[h] \in Nat
  BY <1>1, LengthNat DEF Rings, RingOK
<1>3. IF call[t].op = "send" THEN ~(uxMessagesWaiting[h] < Length[h]) ELSE uxMessagesWaiting[h] = 0
  BY DEF Stuck, HasRoom
<1> HIDE DEF h
<1>4. Supply(h, call[t].op) = 0
  BY <1>2, <1>3 DEF Supply
<1> QED
  BY <1>4 DEF h

(* The first look at the queue finds nothing. *)
LEMMA RefusedRight ==
    ASSUME KernelInv, NEW t \in Task, Refused(t) PROVE WaitsInv'
<1>1. KernelType /\ SchedulerRight /\ CallsOK /\ Rings /\ CallRight(t)
  BY DEF KernelInv, WaitsInv, QueuesInv, CallsRight
<1>2. Running(t, "try") /\ Stuck(t) /\ UNCHANGED <<ring, locks, lists, sched>>
  BY DEF Refused
<1>3. "try" \notin Holding /\ "suspend" \notin Holding /\ "run" \notin Holding
  BY DEF Holding, Leaving
<1>4. pxCurrentTCB = t /\ ~pendsv /\ pc[t] = "try" /\ ~uxSchedulerSuspended /\ t \in ready
  BY <1>1, <1>2, <1>3, Runs
<1>5. call[t].op \in Ops /\ Supply(call[t].h, call[t].op) = 0
  BY <1>1, <1>2, <1>4, StuckMeans DEF CallRight, Seeking
<1>6. /\ IsFcn(pc', Task) /\ IsFcn(fate', Task) /\ \A u \in Task \ {t} : Same(u)
      /\ pc'[t] \in {"run", "suspend"} /\ CallRight(t)'
  <2>1. CASE call[t].wait = "no"
    <3>1. Return(t)
      BY <2>1 DEF Refused
    <3>2. /\ IsFcn(pc', Task) /\ IsFcn(fate', Task) /\ \A u \in Task \ {t} : Same(u)
          /\ pc'[t] = "run" /\ call'[t].op = "none"
      BY <1>1, <3>1, Returned
    <3>3. CallRight(t)'
      BY <3>2 DEF CallRight, Seeking
    <3> QED
      BY <3>2, <3>3
  <2>2. CASE call[t].wait # "no"
    <3>1. Goto(t, "suspend") /\ call' = call /\ fate' = fate
      BY <2>2 DEF Refused
    <3>2. IsFcn(pc', Task) /\ pc'[t] = "suspend" /\ \A u \in Task \ {t} : pc'[u] = pc[u]
      BY <1>1, <3>1, GoesOn
    <3>3. CallRight(t)'
      BY <1>1, <1>4, <2>2, <3>1, <3>2 DEF CallRight, Seeking
    <3> QED
      BY <1>1, <3>1, <3>2, <3>3 DEF Same, KernelType
  <2> QED
    BY <2>1, <2>2
<1>7. /\ xTxLock' \in [Handle -> LockCounts] /\ xRxLock' \in [Handle -> LockCounts]
      /\ \A h \in Handle, op \in Ops : Owed(h, op)' = Owed(h, op)
  BY <1>1, <1>2, OwedSame DEF KernelType, locks
<1>8. /\ uxSchedulerSuspended' = (pc'[t] \in Holding) /\ (pc[t] \in Holding => pc'[t] \in Holding)
      /\ ready' = ready /\ xPendingReadyList' = xPendingReadyList /\ pxCurrentTCB' = pxCurrentTCB
      /\ pendsv' = pendsv /\ UNCHANGED <<ring, lists>>
  BY <1>1, <1>2, <1>3, <1>4, <1>6 DEF sched, KernelType
<1>9. \A h \in Handle, op \in Ops :
         \/ Supply(h, op) = 0
         \/ /\ t \in Served(h, op) => t \in Served(h, op)'
            /\ ~(pc'[t] = "place" /\ call'[t].op = op /\ call'[t].h = h)
  <2>1. \A h \in Handle, op \in Ops : t \in Served(h, op) => h = call[t].h /\ op = call[t].op
    BY DEF Served
  <2>2. pc'[t] # "place"
    BY <1>6
  <2> QED
    BY <1>5, <2>1, <2>2
<1> QED
  BY <1>4, <1>6, <1>7, <1>8, <1>9, ThreadOnly

(* vTaskSuspendAll. *)
LEMMA SuspendAllRight ==
    ASSUME KernelInv, NEW t \in Task, SuspendAll(t) PROVE WaitsInv'
<1>1. KernelType /\ SchedulerRight /\ CallsOK /\ CallRight(t)
  BY DEF KernelInv, WaitsInv, QueuesInv, CallsRight
<1>2. /\ Running(t, "suspend") /\ Goto(t, "lock") /\ call' = call /\ fate' = fate
      /\ uxSchedulerSuspended' = TRUE /\ ready' = ready /\ xPendingReadyList' = xPendingReadyList
      /\ pxCurrentTCB' = pxCurrentTCB /\ pendsv' = pendsv /\ UNCHANGED <<ring, locks, lists>>
  BY DEF SuspendAll
<1>3. "suspend" \notin Holding /\ "lock" \in Holding
  BY DEF Holding, Leaving
<1>4. pxCurrentTCB = t /\ pc[t] = "suspend" /\ t \in ready
  BY <1>1, <1>2, <1>3, Runs
<1>5. IsFcn(pc', Task) /\ pc'[t] = "lock" /\ \A u \in Task \ {t} : pc'[u] = pc[u]
  BY <1>1, <1>2, GoesOn
<1>6. IsFcn(fate', Task) /\ \A u \in Task \ {t} : Same(u)
  BY <1>1, <1>2, <1>5 DEF Same, KernelType
<1>7. CallRight(t)'
  BY <1>1, <1>2, <1>4, <1>5 DEF CallRight, Seeking
<1>8. /\ xTxLock' \in [Handle -> LockCounts] /\ xRxLock' \in [Handle -> LockCounts]
      /\ \A h \in Handle, op \in Ops : Owed(h, op)' = Owed(h, op)
  BY <1>1, <1>2, OwedSame DEF KernelType, locks
<1>9. \A h \in Handle, op \in Ops :
         /\ t \in Served(h, op) => t \in Served(h, op)'
         /\ ~(pc'[t] = "place" /\ call'[t].op = op /\ call'[t].h = h)
  BY <1>4, <1>5 DEF Served, Leaving
<1>10. uxSchedulerSuspended' = (pc'[t] \in Holding) /\ (pc[t] \in Holding => pc'[t] \in Holding)
  BY <1>2, <1>3, <1>4, <1>5
<1> QED
  BY <1>2, <1>4, <1>5, <1>6, <1>7, <1>8, <1>9, <1>10, ThreadOnly

(* prvLockQueue: no wakeup is owed yet. *)
LEMMA prvLockQueueRight ==
    ASSUME KernelInv, NEW t \in Task, prvLockQueue(t) PROVE WaitsInv'
<1>1. KernelType /\ SchedulerRight /\ CallsOK /\ CallRight(t)
  BY DEF KernelInv, WaitsInv, QueuesInv, CallsRight
<1> DEFINE h == call[t].h
<1>2. /\ Running(t, "lock") /\ Goto(t, "check") /\ call' = call /\ fate' = fate
      /\ UNCHANGED <<ring, lists, sched>>
      /\ xTxLock' = [xTxLock EXCEPT ![h] = LockCount(xTxLock[h])]
      /\ xRxLock' = [xRxLock EXCEPT ![h] = LockCount(xRxLock[h])]
  BY DEF prvLockQueue
<1>3. "lock" \in Holding /\ "check" \in Holding
  BY DEF Holding, Leaving
<1>4. pxCurrentTCB = t /\ pc[t] = "lock" /\ t \in ready /\ uxSchedulerSuspended
  BY <1>1, <1>2, <1>3, Runs DEF SchedulerRight
<1>5. IsFcn(pc', Task) /\ pc'[t] = "check" /\ \A u \in Task \ {t} : pc'[u] = pc[u]
  BY <1>1, <1>2, GoesOn
<1>6. IsFcn(fate', Task) /\ \A u \in Task \ {t} : Same(u)
  BY <1>1, <1>2, <1>5 DEF Same, KernelType
<1>7. call[t].op \in Ops /\ h \in Handle /\ call[t].wait # "no"
  BY <1>1, <1>4 DEF CallRight, CallsOK, Ops, Seeking
<1> HIDE DEF h
<1>8. ASSUME NEW n \in LockCounts
      PROVE  LockCount(n) \in LockCounts /\ LockCount(n) >= 0 /\ Count(LockCount(n)) = Count(n)
  BY DEF LockCounts, LockCount, Count, queueUNLOCKED
<1>9. xTxLock[h] \in LockCounts /\ xRxLock[h] \in LockCounts
  BY <1>1, <1>7 DEF KernelType
<1>10. /\ \A g \in Handle : xTxLock'[g] = IF g = h THEN LockCount(xTxLock[h]) ELSE xTxLock[g]
       /\ \A g \in Handle : xRxLock'[g] = IF g = h THEN LockCount(xRxLock[h]) ELSE xRxLock[g]
  BY <1>1, <1>2 DEF KernelType
<1>11. xTxLock' \in [Handle -> LockCounts] /\ xRxLock' \in [Handle -> LockCounts]
  BY <1>1, <1>2, <1>8, <1>9 DEF KernelType
<1>12. \A g \in Handle, op \in Ops : Owed(g, op)' = Owed(g, op)
  BY <1>8, <1>9, <1>10 DEF Owed
<1>13. CallRight(t)'
  <2>1. xTxLock'[h] >= 0 /\ xRxLock'[h] >= 0
    BY <1>7, <1>8, <1>9, <1>10
  <2> QED
    BY <1>1, <1>2, <1>5, <1>7, <2>1 DEF CallRight, Seeking, h
<1>14. \A g \in Handle, op \in Ops :
         /\ t \in Served(g, op) => t \in Served(g, op)'
         /\ ~(pc'[t] = "place" /\ call'[t].op = op /\ call'[t].h = g)
  BY <1>4, <1>5 DEF Served, Leaving
<1>15. /\ uxSchedulerSuspended' = (pc'[t] \in Holding) /\ (pc[t] \in Holding => pc'[t] \in Holding)
       /\ ready' = ready /\ xPendingReadyList' = xPendingReadyList /\ pxCurrentTCB' = pxCurrentTCB
       /\ pendsv' = pendsv /\ UNCHANGED <<ring, lists>>
  BY <1>1, <1>2, <1>3, <1>4, <1>5 DEF sched, KernelType
<1> QED
  BY <1>4, <1>5, <1>6, <1>11, <1>12, <1>13, <1>14, <1>15, ThreadOnly

(* The second look: a thread goes to sleep only when there is still nothing. *)
LEMMA CheckRight ==
    ASSUME KernelInv, NEW t \in Task, Check(t) PROVE WaitsInv'
<1>1. KernelType /\ SchedulerRight /\ CallsOK /\ Rings /\ CallRight(t)
  BY DEF KernelInv, WaitsInv, QueuesInv, CallsRight
<1>2. PICK out \in TimedOut(t) :
         /\ fate' = [fate EXCEPT ![t] = IF out THEN "fail" ELSE IF Stuck(t) THEN "block" ELSE "retry"]
         /\ Goto(t, IF ~out /\ Stuck(t) THEN "place" ELSE "unlocktx")
  BY DEF Check
<1>3. Running(t, "check") /\ call' = call /\ UNCHANGED <<ring, locks, lists, sched>>
  BY DEF Check
<1> DEFINE l == IF ~out /\ Stuck(t) THEN "place" ELSE "unlocktx"
<1>4. "check" \in Holding /\ l \in Holding
  BY DEF Holding, Leaving
<1>5. pxCurrentTCB = t /\ pc[t] = "check" /\ t \in ready /\ uxSchedulerSuspended
  BY <1>1, <1>3, <1>4, Runs DEF SchedulerRight
<1>6. IsFcn(pc', Task) /\ pc'[t] = l /\ \A u \in Task \ {t} : pc'[u] = pc[u]
  BY <1>1, <1>2, GoesOn
<1>7. IsFcn(fate', Task) /\ \A u \in Task \ {t} : Same(u)
  BY <1>1, <1>2, <1>3, <1>6 DEF Same, KernelType, IsFcn
<1>8. call[t].op \in Ops /\ call[t].wait # "no"
  BY <1>1, <1>5 DEF CallRight, Seeking
<1>9. l = "place" => fate'[t] = "block" /\ Supply(call[t].h, call[t].op) = 0
  BY <1>1, <1>2, <1>8, StuckMeans DEF KernelType, IsFcn
<1>10. CallRight(t)'
  BY <1>1, <1>3, <1>5, <1>6, <1>8, <1>9 DEF CallRight, Seeking, Ops, locks
<1>11. /\ xTxLock' \in [Handle -> LockCounts] /\ xRxLock' \in [Handle -> LockCounts]
       /\ \A h \in Handle, op \in Ops : Owed(h, op)' = Owed(h, op)
  BY <1>1, <1>3, OwedSame DEF KernelType, locks
<1>12. \A h \in Handle, op \in Ops :
          \/ Supply(h, op) = 0
          \/ /\ t \in Served(h, op) => t \in Served(h, op)'
             /\ ~(pc'[t] = "place" /\ call'[t].op = op /\ call'[t].h = h)
  <2>1. \A h, op : t \notin Served(h, op)
    BY <1>5 DEF Served, Leaving
  <2> QED
    BY <1>3, <1>6, <1>9, <2>1
<1>13. /\ uxSchedulerSuspended' = (pc'[t] \in Holding) /\ (pc[t] \in Holding => pc'[t] \in Holding)
       /\ ready' = ready /\ xPendingReadyList' = xPendingReadyList /\ pxCurrentTCB' = pxCurrentTCB
       /\ pendsv' = pendsv /\ UNCHANGED <<ring, lists>>
  BY <1>1, <1>3, <1>4, <1>5, <1>6 DEF sched, KernelType
<1> QED
  BY <1>5, <1>6, <1>7, <1>10, <1>11, <1>12, <1>13, ThreadOnly

(* vTaskDelay returns. *)
LEMMA EndDelayRight ==
    ASSUME KernelInv, NEW t \in Task, EndDelay(t) PROVE WaitsInv'
<1>1. KernelType /\ SchedulerRight /\ CallsOK
  BY DEF KernelInv, WaitsInv, QueuesInv
<1>2. Running(t, "woken") /\ Return(t) /\ UNCHANGED <<ring, locks, lists, sched>>
  BY DEF EndDelay
<1>3. "woken" \notin Holding /\ "run" \notin Holding
  BY DEF Holding, Leaving
<1>4. pxCurrentTCB = t /\ pc[t] = "woken" /\ t \in ready /\ ~uxSchedulerSuspended
  BY <1>1, <1>2, <1>3, Runs
<1>5. /\ IsFcn(pc', Task) /\ IsFcn(fate', Task) /\ \A u \in Task \ {t} : Same(u)
      /\ pc'[t] = "run" /\ call'[t].op = "none"
  BY <1>1, <1>2, Returned
<1>6. CallRight(t)'
  BY <1>5 DEF CallRight, Seeking
<1>7. /\ xTxLock' \in [Handle -> LockCounts] /\ xRxLock' \in [Handle -> LockCounts]
      /\ \A h \in Handle, op \in Ops : Owed(h, op)' = Owed(h, op)
  BY <1>1, <1>2, OwedSame DEF KernelType, locks
<1>8. \A h \in Handle, op \in Ops :
         /\ t \in Served(h, op) => t \in Served(h, op)'
         /\ ~(pc'[t] = "place" /\ call'[t].op = op /\ call'[t].h = h)
  BY <1>4, <1>5 DEF Served, Leaving
<1>9. /\ uxSchedulerSuspended' = (pc'[t] \in Holding) /\ (pc[t] \in Holding => pc'[t] \in Holding)
      /\ ready' = ready /\ xPendingReadyList' = xPendingReadyList /\ pxCurrentTCB' = pxCurrentTCB
      /\ pendsv' = pendsv /\ UNCHANGED <<ring, lists>>
  BY <1>1, <1>2, <1>3, <1>4, <1>5 DEF sched, KernelType
<1> QED
  BY <1>4, <1>5, <1>6, <1>7, <1>8, <1>9, ThreadOnly

(* vTaskPlaceOnEventList: the thread is asleep on the list of its call, and on no other. *)
LEMMA PlaceRight ==
    ASSUME KernelInv, NEW t \in Task, Place(t) PROVE WaitsInv'
<1>1. KernelType /\ SchedulerRight /\ CallsOK /\ CallRight(t) /\ CallsRight /\ WaitersRight /\ ListsType
  BY DEF KernelInv, WaitsInv, QueuesInv, CallsRight, KernelType, ListsType
<1> DEFINE h == call[t].h
           op == call[t].op
           N == InsertByPriority(EventList(h, op), t)
<1>2. /\ Running(t, "place") /\ Goto(t, "unlocktx") /\ call' = call /\ fate' = fate
      /\ UNCHANGED <<ring, locks>> /\ ready' = ready \ {t} /\ xPendingReadyList' = xPendingReadyList
      /\ pxCurrentTCB' = pxCurrentTCB /\ uxSchedulerSuspended' = uxSchedulerSuspended /\ pendsv' = pendsv
  BY DEF Place
<1>3. "place" \in Holding /\ "unlocktx" \in Holding /\ "unlocktx" \in Leaving
  BY DEF Holding, Leaving
<1>4. /\ pxCurrentTCB = t /\ pc[t] = "place" /\ t \in ready /\ uxSchedulerSuspended
      /\ \A u \in Task \ {t} : pc[u] \notin Holding
  BY <1>1, <1>2, <1>3, Runs DEF SchedulerRight
<1>5. IsFcn(pc', Task) /\ pc'[t] = "unlocktx" /\ \A u \in Task \ {t} : pc'[u] = pc[u]
  BY <1>1, <1>2, GoesOn
<1>6. IsFcn(fate', Task) /\ \A u \in Task \ {t} : Same(u)
  BY <1>1, <1>2, <1>5 DEF Same, KernelType
<1>7. /\ op \in Ops /\ h \in Handle /\ fate[t] = "block"
      /\ (op = "receive" => Container[h] = NULL)
  BY <1>1, <1>4 DEF CallRight, CallsOK, Ops, Seeking
<1>8. IF op = "send"
      THEN /\ waitingToSend' = [waitingToSend EXCEPT ![h] = InsertByPriority(@, t)]
           /\ waitingToReceive' = waitingToReceive
      ELSE /\ waitingToReceive' = [waitingToReceive EXCEPT ![h] = InsertByPriority(@, t)]
           /\ waitingToSend' = waitingToSend
  BY DEF Place
<1> HIDE DEF h, op
<1>9. EventList(h, op) \in Seq(Task) /\ Distinct(EventList(h, op))
  BY <1>1, <1>7, EventListType DEF WaitersRight
<1>10. \A g \in Handle, o \in Ops : EventList(g, o)' = IF g = h /\ o = op THEN N ELSE EventList(g, o)
  <2>1. CASE op = "send"
    BY <1>1, <1>7, <1>8, <2>1 DEF EventList, KernelType, Ops
  <2>2. CASE op = "receive"
    BY <1>1, <1>7, <1>8, <2>2 DEF EventList, KernelType, Ops
  <2> QED
    BY <1>7, <2>1, <2>2 DEF Ops
<1>11. \A g \in Handle, o \in Ops : \A i \in DOMAIN EventList(g, o) :
          EventList(g, o)[i] \notin Awake /\ EventList(g, o)[i] # t
  BY <1>1, <1>4 DEF WaitersRight, Awake
<1>12. /\ N \in Seq(Task) /\ N # << >> /\ Distinct(N)
       /\ \A j \in DOMAIN N : N[j] = t \/ \E i \in DOMAIN EventList(h, op) : N[j] = EventList(h, op)[i]
  <2> DEFINE L == EventList(h, op)
  <2>1. L \in Seq(Task) /\ Distinct(L) /\ \A i \in DOMAIN L : L[i] # t
    BY <1>7, <1>9, <1>11
  <2> HIDE DEF L
  <2>2. /\ InsertByPriority(L, t) \in Seq(Task) /\ InsertByPriority(L, t) # << >>
        /\ Distinct(InsertByPriority(L, t))
    BY <2>1, InsertedRight
  <2>3. \A j \in DOMAIN InsertByPriority(L, t) :
           InsertByPriority(L, t)[j] = t \/ \E i \in DOMAIN L : InsertByPriority(L, t)[j] = L[i]
    BY <2>1, InsertedRight, Zenon
  <2> QED
    BY <2>2, <2>3 DEF L
<1> HIDE DEF N
<1>13. KernelType'
  <2>1. ListsType'
    <3>1. CASE op = "send"
      <4>1. waitingToSend' = [waitingToSend EXCEPT ![h] = N] /\ waitingToReceive' = waitingToReceive
        BY <1>8, <3>1 DEF N, EventList
      <4> QED
        BY <1>1, <1>12, <4>1 DEF ListsType
    <3>2. CASE op # "send"
      <4>1. waitingToReceive' = [waitingToReceive EXCEPT ![h] = N] /\ waitingToSend' = waitingToSend
        BY <1>8, <3>2 DEF N, EventList
      <4> QED
        BY <1>1, <1>12, <4>1 DEF ListsType
    <3> QED
      BY <3>1, <3>2
  <2> QED
    BY <1>1, <1>2, <1>5, <1>6, <2>1 DEF KernelType, ListsType, locks
<1>14. SchedulerRight'
  <2>1. \A u \in Task : pc'[u] \in Holding => u = t
    BY <1>4, <1>6 DEF Same
  <2>2. \A u \in Task : pc'[u] \in {"lock", "check", "place"} \/ pc'[u] \in Leaving => pc'[u] \in Holding
    BY DEF Holding
  <2>3. ready' \cap xPendingReadyList' = {}
    BY <1>1, <1>2 DEF SchedulerRight
  <2> QED
    BY <1>2, <1>3, <1>4, <1>5, <1>7, <2>1, <2>2, <2>3 DEF SchedulerRight
<1>15. CallRight(t)'
  BY <1>1, <1>2, <1>4, <1>5, <1>7 DEF CallRight, Seeking, locks, op
<1>16. CallsRight'
  BY <1>1, <1>4, <1>6, <1>15, OthersCalls
<1>17. Awake' \subseteq Awake /\ t \notin Awake'
  BY <1>1, <1>2, <1>4 DEF Awake, SchedulerRight
<1>18. ASSUME NEW g, NEW o, g = h, o = op PROVE Waits(t, g, o)'
  BY <1>2, <1>3, <1>5, <1>7, <1>18 DEF Waits, h, op
<1>19. ASSUME NEW g \in Handle, NEW o \in Ops, NEW i \in DOMAIN EventList(g, o)
       PROVE  \E w \in Task : w = EventList(g, o)[i] /\ w \notin Awake' /\ Waits(w, g, o)'
  <2>1. PICK w \in Task : w = EventList(g, o)[i]
    BY <1>1, EventListType
  <2>2. w \notin Awake /\ w # t /\ Waits(w, g, o)
    BY <1>1, <1>11, <2>1 DEF WaitersRight
  <2>3. Waits(w, g, o)'
    BY <1>6, <2>2 DEF Waits, Same
  <2> QED
    BY <1>17, <2>1, <2>2, <2>3
<1>20. WaitersRight'
  <2>1. ASSUME NEW g \in Handle, NEW o \in Ops
        PROVE  /\ Distinct(EventList(g, o)')
               /\ \A j \in DOMAIN EventList(g, o)' :
                     \E w \in Task : w = EventList(g, o)'[j] /\ w \notin Awake' /\ Waits(w, g, o)'
    <3>1. CASE g = h /\ o = op
      <4>1. EventList(g, o)' = N
        BY <1>10, <3>1
      <4>2. ASSUME NEW j \in DOMAIN N
            PROVE  \E w \in Task : w = N[j] /\ w \notin Awake' /\ Waits(w, g, o)'
        <5>1. CASE N[j] = t
          BY <1>17, <1>18, <3>1, <5>1
        <5>2. CASE \E i \in DOMAIN EventList(h, op) : N[j] = EventList(h, op)[i]
          BY <1>19, <3>1, <5>2
        <5> QED
          BY <1>12, <5>1, <5>2
      <4> QED
        BY <1>12, <4>1, <4>2
    <3>2. CASE ~(g = h /\ o = op)
      <4>1. EventList(g, o)' = EventList(g, o)
        BY <1>10, <3>2
      <4>2. Distinct(EventList(g, o))
        BY <1>1 DEF WaitersRight
      <4> QED
        BY <1>19, <4>1, <4>2
    <3> QED
      BY <3>1, <3>2
  <2>2. ASSUME NEW g \in Handle, NEW o \in Ops, NEW j \in DOMAIN EventList(g, o)'
        PROVE  EventList(g, o)'[j] \notin Awake' /\ Waits(EventList(g, o)[j], g, o)'
    BY <2>1 DEF Waits
  <2>3. ASSUME NEW g \in Handle, Container[g] # NULL PROVE waitingToReceive'[g] = << >>
    BY <1>1, <1>7, <1>10, <2>3 DEF WaitersRight, EventList, Ops
  <2> QED
    BY <2>1, <2>2, <2>3 DEF WaitersRight
<1>21. WakeupsRight'
  <2>1. \A g \in Handle, o \in Ops : EventList(g, o)' # << >> => Wanted(g, o)
    BY <1>4, <1>10 DEF Wanted, h, op
  <2>2. Awake \ {t} \subseteq Awake'
    BY <1>2 DEF Awake
  <2>3. \A g \in Handle, o \in Ops : Owed(g, o)' = Owed(g, o)
    BY <1>2, OwedSame
  <2>4. \A g \in Handle, o \in Ops :
           /\ t \in Served(g, o) => t \in Served(g, o)'
           /\ ~(pc'[t] = "place" /\ call'[t].op = o /\ call'[t].h = g)
    BY <1>4, <1>5 DEF Served, Leaving
  <2> QED
    BY <1>2, <1>6, <1>13, <2>1, <2>2, <2>3, <2>4, QuietWakeups
<1> QED
  BY <1>13, <1>14, <1>16, <1>20, <1>21 DEF WaitsInv

(* vTaskDelay: the thread sleeps, on no event list. *)
LEMMA vTaskDelayRight ==
    ASSUME KernelInv, NEW t \in Task, vTaskDelay(t) PROVE WaitsInv'
<1>1. KernelType /\ SchedulerRight /\ CallsOK /\ CallRight(t) /\ CallsRight /\ WaitersRight /\ ListsType
  BY DEF KernelInv, WaitsInv, QueuesInv, CallsRight, KernelType, ListsType
<1>2. /\ Running(t, "delay") /\ Goto(t, "resume") /\ call' = call /\ fate' = [fate EXCEPT ![t] = "block"]
      /\ UNCHANGED <<ring, locks, lists>> /\ ready' = ready \ {t}
      /\ xPendingReadyList' = xPendingReadyList /\ pxCurrentTCB' = pxCurrentTCB
      /\ uxSchedulerSuspended' = TRUE /\ pendsv' = pendsv
  BY DEF vTaskDelay
<1>3. "delay" \notin Holding /\ "resume" \in Holding /\ "resume" \in Leaving
  BY DEF Holding, Leaving
<1>4. /\ pxCurrentTCB = t /\ pc[t] = "delay" /\ t \in ready /\ \A u \in Task : pc[u] \notin Holding
  BY <1>1, <1>2, <1>3, Runs
<1>5. IsFcn(pc', Task) /\ pc'[t] = "resume" /\ \A u \in Task \ {t} : pc'[u] = pc[u]
  BY <1>1, <1>2, GoesOn
<1>6. IsFcn(fate', Task) /\ fate'[t] = "block" /\ \A u \in Task \ {t} : Same(u)
  BY <1>1, <1>2, <1>5 DEF Same, KernelType, IsFcn
<1>7. Shrinks({}) /\ ListsType'
  BY <1>1, <1>2, ShrinkByNone
<1>8. KernelType'
  BY <1>1, <1>2, <1>5, <1>6, <1>7 DEF KernelType, ListsType, locks
<1>9. SchedulerRight'
  <2>1. \A u \in Task : pc'[u] \in Holding => u = t
    BY <1>4, <1>6 DEF Same
  <2>2. \A u \in Task : pc'[u] \in {"lock", "check", "place"} \/ pc'[u] \in Leaving => pc'[u] \in Holding
    BY DEF Holding
  <2>3. ready' \cap xPendingReadyList' = {}
    BY <1>1, <1>2 DEF SchedulerRight
  <2> QED
    BY <1>2, <1>3, <1>4, <1>5, <1>6, <2>1, <2>2, <2>3 DEF SchedulerRight
<1>10. CallRight(t)'
  BY <1>1, <1>2, <1>4, <1>5 DEF CallRight, Seeking
<1>11. CallsRight'
  BY <1>1, <1>4, <1>6, <1>10, OthersCalls
<1>12. t \in Awake /\ Awake' \subseteq Awake \cup {}
  BY <1>2, <1>4 DEF Awake
<1>13. /\ WaitersRight'
       /\ \A h \in Handle, op \in Ops : EventList(h, op)' # << >> => EventList(h, op) # << >>
  <2>1. \A u \in Task, h \in Handle, op \in Ops : u \notin Awake /\ Waits(u, h, op) => Waits(u, h, op)'
    BY <1>6, <1>12 DEF Waits, Same
  <2> QED
    BY <1>1, <1>7, <1>12, <2>1, WaitersStay
<1>14. WakeupsRight'
  <2>1. \A g \in Handle, o \in Ops : EventList(g, o)' # << >> => Wanted(g, o)
    BY <1>13 DEF Wanted
  <2>2. Awake \ {t} \subseteq Awake'
    BY <1>2 DEF Awake
  <2>3. \A g \in Handle, o \in Ops : Owed(g, o)' = Owed(g, o)
    BY <1>2, OwedSame
  <2>4. \A g \in Handle, o \in Ops :
           /\ t \in Served(g, o) => t \in Served(g, o)'
           /\ ~(pc'[t] = "place" /\ call'[t].op = o /\ call'[t].h = g)
    BY <1>4, <1>5 DEF Served, Leaving
  <2> QED
    BY <1>2, <1>6, <1>8, <2>1, <2>2, <2>3, <2>4, QuietWakeups
<1> QED
  BY <1>8, <1>9, <1>11, <1>13, <1>14 DEF WaitsInv

(* xTaskResumeAll: the threads kept pending become ready, and those whose time has come. *)
LEMMA ResumeAllRight ==
    ASSUME KernelInv, NEW t \in Task, ResumeAll(t) PROVE WaitsInv'
<1>1. KernelType /\ SchedulerRight /\ CallsOK /\ CallRight(t) /\ CallsRight /\ WaitersRight /\ ListsType
  BY DEF KernelInv, WaitsInv, QueuesInv, CallsRight, KernelType, ListsType
<1>2. /\ Running(t, "resume") /\ UNCHANGED <<ring, locks>>
      /\ xPendingReadyList' = {} /\ pxCurrentTCB' = pxCurrentTCB
      /\ uxSchedulerSuspended' = FALSE /\ pendsv' = MustYield(t)
  BY DEF ResumeAll
<1>3. PICK E \in SUBSET Delayed :
         /\ WakeExpired(E)
         /\ IF fate[t] = "fail" THEN Return(t)
            ELSE Goto(t, IF call[t].op = "delay" THEN "woken" ELSE "try") /\ UNCHANGED <<call, fate>>
         /\ ready' = ready \cup xPendingReadyList \cup E
         /\ xYieldPending' = (xYieldPending \/ AtLeastCurrent(xPendingReadyList \cup E))
  BY DEF ResumeAll
<1>4. "resume" \in Holding /\ "resume" \in Leaving /\ {"woken", "try", "run"} \cap Holding = {}
  BY DEF Holding, Leaving
<1>5. pxCurrentTCB = t /\ pc[t] = "resume" /\ \A u \in Task \ {t} : pc[u] \notin Holding
  BY <1>1, <1>2, <1>4, Runs
<1>6. /\ IsFcn(pc', Task) /\ IsFcn(fate', Task) /\ \A u \in Task \ {t} : Same(u)
      /\ pc'[t] \in {"woken", "try", "run"}
      /\ fate[t] = "fail" => pc'[t] = "run" /\ call'[t].op = "none"
      /\ fate[t] # "fail" => /\ pc'[t] = IF call[t].op = "delay" THEN "woken" ELSE "try"
                             /\ call'[t] = call[t] /\ fate'[t] = fate[t]
  <2>1. CASE fate[t] = "fail"
    BY <1>1, <1>3, <2>1, Returned
  <2>2. CASE fate[t] # "fail"
    <3>1. /\ Goto(t, IF call[t].op = "delay" THEN "woken" ELSE "try")
          /\ call' = call /\ fate' = fate
      BY <1>3, <2>2
    <3>2. /\ IsFcn(pc', Task) /\ pc'[t] = (IF call[t].op = "delay" THEN "woken" ELSE "try")
          /\ \A u \in Task \ {t} : pc'[u] = pc[u]
      BY <1>1, <3>1, GoesOn
    <3> QED
      BY <1>1, <2>2, <3>1, <3>2 DEF KernelType, Same
  <2> QED
    BY <2>1, <2>2
<1>7. Shrinks(E) /\ ListsType'
  BY <1>1, <1>3, ShrinkByTick
<1>8. pendsv' \in BOOLEAN /\ (pendsv' \/ fate[t] # "block")
  BY <1>2, <1>3 DEF MustYield
<1>9. KernelType'
  <2>1. ready' \subseteq Task
    BY <1>1, <1>3 DEF KernelType, Delayed
  <2> QED
    BY <1>1, <1>2, <1>6, <1>7, <1>8, <2>1 DEF KernelType, ListsType, locks
<1>10. SchedulerRight'
  <2>1. \A u \in Task : pc'[u] \notin Holding
    BY <1>4, <1>5, <1>6 DEF Same
  <2>2. \A u \in Task : pc'[u] \in {"lock", "check", "place"} \/ pc'[u] \in Leaving => pc'[u] \in Holding
    BY DEF Holding
  <2>3. fate[t] # "block" => t \in ready'
    BY <1>1, <1>3, <1>4, <1>5 DEF SchedulerRight
  <2> QED
    BY <1>2, <1>5, <1>8, <2>1, <2>2, <2>3 DEF SchedulerRight
<1>11. CallRight(t)'
  <2>1. CASE fate[t] = "fail"
    BY <1>6, <2>1 DEF CallRight, Seeking
  <2>2. CASE fate[t] # "fail"
    BY <1>1, <1>5, <1>6, <2>2 DEF CallRight, Seeking, Ops
  <2> QED
    BY <2>1, <2>2
<1>12. CallsRight'
  BY <1>1, <1>5, <1>6, <1>11, OthersCalls
<1>13. Awake' = Awake \cup E
  BY <1>2, <1>3 DEF Awake
<1>14. /\ WaitersRight'
       /\ \A h \in Handle, op \in Ops : EventList(h, op)' # << >> => EventList(h, op) # << >>
  <2>1. ASSUME NEW u \in Task, NEW h \in Handle, NEW op \in Ops, Waits(u, h, op) PROVE Waits(u, h, op)'
    <3>1. CASE u = t
      <4>1. fate[t] = "block" /\ call[t].op = op /\ call[t].h = h /\ op # "delay"
        BY <2>1, <3>1 DEF Waits, Ops
      <4> QED
        BY <1>6, <3>1, <4>1 DEF Waits
    <3>2. CASE u # t
      BY <1>6, <2>1, <3>2 DEF Waits, Same
    <3> QED
      BY <3>1, <3>2
  <2>2. Awake' \subseteq Awake \cup E
    BY <1>13
  <2> QED
    BY <1>1, <1>7, <2>1, <2>2, WaitersStay
<1>15. WakeupsRight'
  <2>1. \A g \in Handle, o \in Ops : EventList(g, o)' # << >> => Wanted(g, o)
    BY <1>14 DEF Wanted
  <2>2. Awake \ {t} \subseteq Awake'
    BY <1>13
  <2>3. \A g \in Handle, o \in Ops : Owed(g, o)' = Owed(g, o)
    BY <1>2, OwedSame
  <2>4. ASSUME NEW g \in Handle, NEW o \in Ops
        PROVE  /\ t \in Served(g, o) => t \in Served(g, o)'
               /\ ~(pc'[t] = "place" /\ call'[t].op = o /\ call'[t].h = g)
    <3>1. pc'[t] # "place"
      BY <1>6
    <3>2. ASSUME t \in Served(g, o) PROVE t \in Served(g, o)'
      <4>1. t \in Awake /\ call[t].op = o /\ call[t].h = g /\ fate[t] # "fail"
        BY <1>5, <3>2 DEF Served
      <4>2. o # "delay"
        BY DEF Ops
      <4> QED
        BY <1>6, <1>13, <4>1, <4>2 DEF Served
    <3> QED
      BY <3>1, <3>2
  <2> QED
    BY <1>2, <1>6, <1>9, <2>1, <2>2, <2>3, <2>4, QuietWakeups
<1> QED
  BY <1>9, <1>10, <1>12, <1>14, <1>15 DEF WaitsInv

(* vTaskSwitchContext. *)
LEMMA PendSVRight ==
    ASSUME KernelInv, PendSV PROVE WaitsInv'
<1>1. KernelType /\ SchedulerRight /\ CallsRight /\ WaitersRight /\ ListsType
  BY DEF KernelInv, WaitsInv, KernelType, ListsType
<1>2. /\ UNCHANGED <<ring, locks, lists, pc, call, fate>> /\ ready' = ready
      /\ xPendingReadyList' = xPendingReadyList /\ uxSchedulerSuspended' = uxSchedulerSuspended
      /\ pendsv' = FALSE
      /\ IF uxSchedulerSuspended THEN pxCurrentTCB' = pxCurrentTCB ELSE pxCurrentTCB' \in ready
  BY DEF PendSV, thread
<1>3. Shrinks({}) /\ ListsType'
  BY <1>1, <1>2, ShrinkByNone
<1>4. KernelType'
  BY <1>1, <1>2, <1>3 DEF KernelType, ListsType, locks
<1>5. SchedulerRight'
  BY <1>1, <1>2 DEF SchedulerRight
<1>6. CallsRight'
  BY <1>1, <1>2 DEF CallsRight, CallRight, locks
<1>7. \A u \in Task : Same(u)
  BY <1>2 DEF Same
<1>8. Awake' = Awake
  BY <1>2 DEF Awake
<1>9. /\ WaitersRight'
      /\ \A h \in Handle, op \in Ops : EventList(h, op)' # << >> => EventList(h, op) # << >>
  <2>1. \A u \in Task, h \in Handle, op \in Ops : Waits(u, h, op) => Waits(u, h, op)'
    BY <1>7 DEF Waits, Same
  <2>2. Awake' \subseteq Awake \cup {}
    BY <1>8
  <2> QED
    BY <1>1, <1>3, <2>1, <2>2, WaitersStay
<1>10. WakeupsRight'
  <2>1. \A g \in Handle, o \in Ops :
           Wanted(g, o)' = Wanted(g, o) /\ Supply(g, o)' = Supply(g, o) /\ Owed(g, o)' = Owed(g, o)
           /\ Served(g, o)' = Served(g, o)
    BY <1>2, <1>8 DEF Wanted, EventList, Supply, Owed, Served, ring, locks, lists
  <2> QED
    BY <2>1 DEF KernelInv, WaitsInv, WakeupsRight, WokenFor, IsSet
<1> QED
  BY <1>4, <1>5, <1>6, <1>9, <1>10 DEF WaitsInv

(* The tick interrupt. *)
LEMMA SysTickRight ==
    ASSUME KernelInv, NEW E \in SUBSET Delayed, SysTick(E) PROVE WaitsInv'
<1>1. KernelType /\ SchedulerRight /\ CallsRight /\ WaitersRight /\ ListsType
  BY DEF KernelInv, WaitsInv, KernelType, ListsType
<1>2. /\ UNCHANGED <<ring, locks, pc, call, fate>> /\ ready' = ready \cup E
      /\ xPendingReadyList' = xPendingReadyList /\ uxSchedulerSuspended' = uxSchedulerSuspended
      /\ ~uxSchedulerSuspended /\ pxCurrentTCB' = pxCurrentTCB
      /\ pendsv' = (pendsv \/ xYieldPending \/ AtLeastCurrent(E)) /\ WakeExpired(E)
  BY DEF SysTick
<1>3. Shrinks(E) /\ ListsType'
  BY <1>1, <1>2, ShrinkByTick
<1>4. E \subseteq Task
  BY DEF Delayed
<1>5. pendsv' \in BOOLEAN /\ (~pendsv' => ~pendsv)
  BY <1>2
<1>6. KernelType'
  BY <1>1, <1>2, <1>3, <1>4, <1>5 DEF KernelType, ListsType, locks
<1>7. SchedulerRight'
  BY <1>1, <1>2, <1>5 DEF SchedulerRight
<1>8. CallsRight'
  BY <1>1, <1>2 DEF CallsRight, CallRight, locks
<1>9. \A u \in Task : Same(u)
  BY <1>2 DEF Same
<1>10. Awake' = Awake \cup E
  BY <1>2 DEF Awake
<1>11. /\ WaitersRight'
       /\ \A h \in Handle, op \in Ops : EventList(h, op)' # << >> => EventList(h, op) # << >>
  <2>1. \A u \in Task, h \in Handle, op \in Ops : Waits(u, h, op) => Waits(u, h, op)'
    BY <1>9 DEF Waits, Same
  <2>2. Awake' \subseteq Awake \cup E
    BY <1>10
  <2> QED
    BY <1>1, <1>3, <2>1, <2>2, WaitersStay
<1>12. WakeupsRight'
  <2>1. \A g \in Handle, o \in Ops : EventList(g, o)' # << >> => Wanted(g, o)
    BY <1>11 DEF Wanted
  <2>2. Awake \ {IDLE} \subseteq Awake' /\ IDLE \in Task /\ \A u \in Task \ {IDLE} : Same(u)
    BY <1>9, <1>10, KernelAssumption
  <2>3. \A g \in Handle, o \in Ops : Owed(g, o)' = Owed(g, o)
    BY <1>2, OwedSame
  <2>4. pc'[IDLE] # "place"
    <3>1. pc[IDLE] \notin Holding /\ pc'[IDLE] = pc[IDLE]
      BY <1>1, <1>2, <2>2 DEF SchedulerRight
    <3> QED
      BY <3>1 DEF Holding
  <2>5. \A g \in Handle, o \in Ops : IDLE \in Served(g, o) => IDLE \in Served(g, o)'
    BY <1>2, <1>10 DEF Served
  <2> QED
    BY <1>2, <1>6, <2>1, <2>2, <2>3, <2>4, <2>5, QuietWakeups
<1> QED
  BY <1>6, <1>7, <1>8, <1>11, <1>12 DEF WaitsInv

\* What the step of a thread t that wakes others does with t itself: it is an interrupt's,
\* or t stays behind its place on an event list, or t was awake and its call returns.
Bystander(t) ==
    \/ Same(t)
    \/ pc[t] \in Leaving /\ pc'[t] \in Leaving /\ fate'[t] = fate[t] /\ call'[t] = call[t]
    \/ t \in ready /\ pc[t] \notin Holding /\ pc'[t] \notin Holding

(* Threads are taken off one event list, and woken. *)
LEMMA WakeStep ==
    ASSUME KernelInv, NEW g \in Handle, NEW o \in Ops, NEW n \in Int,
           NEW W, W = {} \/ W = FirstOf(EventList(g, o), n), ListsType',
           \A h \in Handle, op \in Ops :
              EventList(h, op)' = IF h = g /\ op = o THEN Without(EventList(h, op), W)
                                  ELSE EventList(h, op),
           Unblock(W), uxSchedulerSuspended' = uxSchedulerSuspended, pxCurrentTCB' = pxCurrentTCB,
           pendsv' \in BOOLEAN, ~pendsv' => ~pendsv,
           xTxLock' \in [Handle -> LockCounts], xRxLock' \in [Handle -> LockCounts],
           IsFcn(pc', Task), IsFcn(fate', Task),
           NEW t \in Task, \A u \in Task \ {t} : Same(u), Bystander(t)
    PROVE  /\ KernelType' /\ SchedulerRight' /\ WaitersRight'
           /\ W \in SUBSET Task /\ W \cap Awake = {} /\ W \subseteq Served(g, o)'
           /\ Awake \subseteq Awake'
           /\ \A h \in Handle, op \in Ops : EventList(h, op)' # << >> => EventList(h, op) # << >>
           /\ W = FirstOf(EventList(g, o), n) /\ EventList(g, o)' # << >> => Cardinality(W) = Count(n)
<1>1. KernelType /\ SchedulerRight /\ WaitersRight /\ ListsType
  BY DEF KernelInv, WaitsInv, KernelType, ListsType
<1>2. /\ W \in SUBSET Task /\ W \cap Awake = {} /\ \A w \in W : Waits(w, g, o)
      /\ W = FirstOf(EventList(g, o), n) /\ Without(EventList(g, o), W) # << >> => Cardinality(W) = Count(n)
  <2>1. W \subseteq Task /\ W \cap Awake = {}
    BY <1>1, WokenFirst
  <2>2. \A w \in W : Waits(w, g, o)
    BY <1>1, WokenFirst
  <2>3. W = FirstOf(EventList(g, o), n) /\ Without(EventList(g, o), W) # << >> => Cardinality(W) = Count(n)
    BY <1>1, WokenFirst
  <2> QED
    BY <2>1, <2>2, <2>3
<1>3. Shrinks(W)
  BY <1>1, ShrinkByWake
<1>4. /\ ready' \subseteq Task /\ xPendingReadyList' \subseteq Task
      /\ Awake' = Awake \cup W /\ ready \subseteq ready'
      /\ ready' \cap xPendingReadyList' = {}
      /\ ~uxSchedulerSuspended => xPendingReadyList' = {}
  BY <1>1, <1>2, Unblocked
<1>5. KernelType'
  BY <1>1, <1>4 DEF KernelType, ListsType
<1>6. ASSUME NEW u \in Task
      PROVE  /\ pc'[u] \in Holding => pc[u] \in Holding
             /\ pc[u] \in Holding => pc'[u] \in Holding
             /\ pc'[u] \in {"lock", "check", "place"} => pc[u] \in {"lock", "check", "place"}
             /\ pc'[u] \in Leaving /\ fate'[u] # "block" => pc[u] \in Leaving /\ fate[u] # "block"
  <2>1. CASE Same(u)
    BY <2>1 DEF Same
  <2>2. CASE pc[u] \in Leaving /\ pc'[u] \in Leaving /\ fate'[u] = fate[u]
    BY <2>2 DEF Leaving, Holding
  <2>3. CASE pc[u] \notin Holding /\ pc'[u] \notin Holding
    BY <2>3 DEF Leaving, Holding
  <2> QED
    BY <2>1, <2>2, <2>3 DEF Bystander
<1>7. SchedulerRight'
  <2>1. uxSchedulerSuspended' => pc'[pxCurrentTCB'] \in Holding
    BY <1>1, <1>6 DEF SchedulerRight, KernelType
  <2>2. \A u \in Task : pc'[u] \in Holding => uxSchedulerSuspended' /\ u = pxCurrentTCB'
    BY <1>1, <1>6 DEF SchedulerRight
  <2>3. ~uxSchedulerSuspended' /\ ~pendsv' => pxCurrentTCB' \in ready'
    BY <1>1, <1>4 DEF SchedulerRight
  <2>4. \A u \in Task : pc'[u] \in {"lock", "check", "place"} => u \in ready'
    BY <1>1, <1>4, <1>6 DEF SchedulerRight
  <2>5. \A u \in Task : pc'[u] \in Leaving /\ fate'[u] # "block" => u \in ready'
    BY <1>1, <1>4, <1>6 DEF SchedulerRight
  <2> QED
    BY <1>4, <2>1, <2>2, <2>3, <2>4, <2>5 DEF SchedulerRight
<1>8. ASSUME NEW u \in Task, NEW h \in Handle, NEW op \in Ops, u \notin Awake, Waits(u, h, op)
      PROVE  Waits(u, h, op)'
  <2>1. u \notin ready
    BY <1>8 DEF Awake
  <2>2. CASE Same(u)
    BY <1>8, <2>2 DEF Waits, Same
  <2>3. CASE pc'[u] \in Leaving /\ fate'[u] = fate[u] /\ call'[u] = call[u]
    BY <1>8, <2>3 DEF Waits
  <2> QED
    BY <2>1, <2>2, <2>3 DEF Bystander
<1>9. /\ WaitersRight'
      /\ \A h \in Handle, op \in Ops : EventList(h, op)' # << >> => EventList(h, op) # << >>
  <2>1. Awake' \subseteq Awake \cup W
    BY <1>4
  <2> QED
    BY <1>1, <1>3, <1>8, <2>1, WaitersStay
<1>10. W \subseteq Served(g, o)'
  <2>1. SUFFICES ASSUME NEW w \in W PROVE w \in Served(g, o)'
    OBVIOUS
  <2>2. w \in Task /\ w \notin Awake /\ w \in Awake'
    BY <1>2, <1>4
  <2>3. Waits(w, g, o)'
    BY <1>2, <1>8, <2>2
  <2> QED
    BY <2>2, <2>3 DEF Waits, Served
<1>11. EventList(g, o)' = Without(EventList(g, o), W)
  OBVIOUS
<1> QED
  BY <1>2, <1>4, <1>5, <1>7, <1>9, <1>10, <1>11

(* Nothing more is supplied, and nobody leaves. *)
LEMMA WokenSame ==
    ASSUME Rings, Rings', KernelType, KernelType', NEW h \in Handle, NEW op \in Ops,
           WokenFor(h, op), Wanted(h, op)' => Wanted(h, op),
           Served(h, op) \subseteq Served(h, op)',
           Supply(h, op)' <= Supply(h, op), Owed(h, op)' >= Owed(h, op)
    PROVE  WokenFor(h, op)'
<1>1. {} \in SUBSET Task /\ {} \cap Awake = {} /\ Served(h, op) \cup {} \subseteq Served(h, op)'
  OBVIOUS
<1>2. /\ Supply(h, op) \in Nat /\ Owed(h, op) \in Nat /\ Supply(h, op)' \in Nat /\ Owed(h, op)' \in Nat
  BY Numbers, NumbersAfter
<1>3. Supply(h, op)' - Supply(h, op) <= Cardinality({}) + Owed(h, op)' - Owed(h, op)
  BY <1>2, FS_EmptySet
<1> QED
  BY <1>1, <1>3, WokenMore

(* The threads about to be put on an event list after a step were so before. *)
LEMMA WantedStay ==
    ASSUME NEW t \in Task, \A u \in Task \ {t} : Same(u), Bystander(t), NEW h, NEW op,
           EventList(h, op)' # << >> => EventList(h, op) # << >>
    PROVE  Wanted(h, op)' => Wanted(h, op)
<1>1. ASSUME NEW u \in Task, pc'[u] = "place", call'[u].op = op, call'[u].h = h
      PROVE  pc[u] = "place" /\ call[u].op = op /\ call[u].h = h
  <2>1. "place" \in Holding /\ "place" \notin Leaving
    BY DEF Holding, Leaving
  <2> QED
    BY <1>1, <2>1 DEF Bystander, Same
<1> QED
  BY <1>1 DEF Wanted

(* Nobody is about to be put on an event list while a thread has no queue locked. *)
LEMMA NotPlacing ==
    ASSUME NEW h, NEW op, \A u \in Task : ~(pc'[u] = "place" /\ call'[u].op = op /\ call'[u].h = h)
    PROVE  Wanted(h, op)' => EventList(h, op)' # << >>
  BY DEF Wanted

(* A bystander of a step that keeps its place stays one of the woken threads. *)
LEMMA ServedBystander ==
    ASSUME KernelType, NEW t \in Task, \A u \in Task \ {t} : Same(u),
           \/ Same(t)
           \/ pc[t] \in Leaving /\ pc'[t] \in Leaving /\ fate'[t] = fate[t] /\ call'[t] = call[t],
           Awake \subseteq Awake', NEW h, NEW op
    PROVE  Served(h, op) \subseteq Served(h, op)'
<1>1. t \in Served(h, op) => t \in Served(h, op)'
  BY DEF Served, Same, Leaving
<1>2. Awake \ {t} \subseteq Awake'
  OBVIOUS
<1> QED
  BY <1>1, <1>2, ServedStay

(* Threads that wait for an item leave their list. *)
LEMMA ReceiversLeave ==
    ASSUME ListsType, NEW g \in Handle, NEW W, waitingToSend' = waitingToSend,
           waitingToReceive' = [waitingToReceive EXCEPT ![g] = Without(@, W)]
    PROVE  /\ ListsType' /\ "receive" \in Ops
           /\ \A h \in Handle, op \in Ops :
                 EventList(h, op)' = IF h = g /\ op = "receive" THEN Without(EventList(h, op), W)
                                     ELSE EventList(h, op)
<1>1. Without(waitingToReceive[g], W) \in Seq(Task)
  BY WithoutRight DEF ListsType
<1>2. ListsType'
  BY <1>1 DEF ListsType
<1>3. ASSUME NEW h \in Handle, NEW op \in Ops
      PROVE  EventList(h, op)' = IF h = g /\ op = "receive" THEN Without(EventList(h, op), W)
                                 ELSE EventList(h, op)
  BY DEF ListsType, EventList, Ops
<1> QED
  BY <1>2, <1>3 DEF Ops

(* Threads that wait for room leave theirs. *)
LEMMA SendersLeave ==
    ASSUME ListsType, NEW g \in Handle, NEW W, waitingToReceive' = waitingToReceive,
           waitingToSend' = [waitingToSend EXCEPT ![g] = Without(@, W)]
    PROVE  /\ ListsType' /\ "send" \in Ops
           /\ \A h \in Handle, op \in Ops :
                 EventList(h, op)' = IF h = g /\ op = "send" THEN Without(EventList(h, op), W)
                                     ELSE EventList(h, op)
<1>1. Without(waitingToSend[g], W) \in Seq(Task)
  BY WithoutRight DEF ListsType
<1>2. ListsType'
  BY <1>1 DEF ListsType
<1>3. ASSUME NEW h \in Handle, NEW op \in Ops
      PROVE  EventList(h, op)' = IF h = g /\ op = "send" THEN Without(EventList(h, op), W)
                                 ELSE EventList(h, op)
  BY DEF ListsType, EventList, Ops
<1> QED
  BY <1>2, <1>3 DEF Ops

(* prvUnlockQueue, first half: a thread for each item that came while the queue was locked. *)
LEMMA UnlockTxRight ==
    ASSUME KernelInv, NEW t \in Task, UnlockTx(t) PROVE WaitsInv'
<1>1. /\ KernelType /\ SchedulerRight /\ CallsOK /\ CallRight(t) /\ CallsRight /\ WaitersRight
      /\ ListsType /\ Rings /\ WakeupsRight
  BY DEF KernelInv, WaitsInv, QueuesInv, CallsRight, KernelType, ListsType
<1>2. PICK h : h = call[t].h
  OBVIOUS
<1>3. PICK W : W = FirstOf(waitingToReceive[h], xTxLock[h])
  OBVIOUS
<1>4. /\ Running(t, "unlocktx") /\ Goto(t, "unlockrx") /\ Unblock(W)
      /\ waitingToReceive' = [waitingToReceive EXCEPT ![h] = Without(@, W)]
      /\ xTxLock' = [xTxLock EXCEPT ![h] = queueUNLOCKED]
      /\ waitingToSend' = waitingToSend /\ pxCurrentTCB' = pxCurrentTCB
      /\ uxSchedulerSuspended' = uxSchedulerSuspended /\ pendsv' = pendsv
      /\ call' = call /\ fate' = fate /\ UNCHANGED ring /\ xRxLock' = xRxLock
  BY <1>2, <1>3 DEF UnlockTx
<1>5. /\ "unlocktx" \in Holding /\ "unlocktx" \in Leaving /\ "unlockrx" \in Leaving
      /\ "unlockrx" # "place" /\ "place" \in Holding
  BY DEF Holding, Leaving
<1>6. pc[t] = "unlocktx" /\ \A u \in Task \ {t} : pc[u] \notin Holding
  BY <1>1, <1>4, <1>5, Runs
<1>7. IsFcn(pc', Task) /\ pc'[t] = "unlockrx" /\ \A u \in Task \ {t} : pc'[u] = pc[u]
  BY <1>1, <1>4, GoesOn
<1>8. /\ IsFcn(fate', Task) /\ \A u \in Task \ {t} : Same(u)
      /\ pc[t] \in Leaving /\ pc'[t] \in Leaving /\ fate'[t] = fate[t] /\ call'[t] = call[t]
  BY <1>1, <1>4, <1>5, <1>6, <1>7 DEF Same, KernelType
<1>9. h \in Handle /\ call[t].op \in Ops /\ xTxLock[h] \in Int /\ xTxLock[h] >= 0
  BY <1>1, <1>2, <1>6 DEF CallRight, CallsOK, Ops, KernelType, LockCounts
<1>10. /\ ListsType' /\ "receive" \in Ops
       /\ \A k \in Handle, op \in Ops :
             EventList(k, op)' = IF k = h /\ op = "receive" THEN Without(EventList(k, op), W)
                                 ELSE EventList(k, op)
  BY <1>1, <1>4, <1>9, ReceiversLeave
<1>11. W = FirstOf(EventList(h, "receive"), xTxLock[h])
  BY <1>3 DEF EventList
<1>12. xTxLock' \in [Handle -> LockCounts] /\ xRxLock' \in [Handle -> LockCounts]
  <2>1. queueUNLOCKED \in LockCounts
    BY DEF LockCounts, queueUNLOCKED
  <2> QED
    BY <1>1, <1>4, <2>1 DEF KernelType
<1>13. pendsv' \in BOOLEAN /\ (~pendsv' => ~pendsv) /\ Bystander(t)
  BY <1>1, <1>4, <1>8 DEF KernelType, Bystander
<1>14. /\ KernelType' /\ SchedulerRight' /\ WaitersRight'
       /\ W \in SUBSET Task /\ W \cap Awake = {} /\ W \subseteq Served(h, "receive")'
       /\ Awake \subseteq Awake'
       /\ \A k \in Handle, op \in Ops : EventList(k, op)' # << >> => EventList(k, op) # << >>
       /\ EventList(h, "receive")' # << >> => Cardinality(W) = Count(xTxLock[h])
  BY <1>4, <1>7, <1>8, <1>9, <1>10, <1>11, <1>12, <1>13, WakeStep
<1>15. CallsRight'
  <2>1. CallRight(t)'
    BY <1>1, <1>4, <1>6, <1>7, <1>9 DEF CallRight, Seeking
  <2> QED
    BY <1>1, <1>6, <1>8, <2>1, OthersCalls
<1>16. WakeupsRight'
  <2>1. SUFFICES ASSUME NEW k \in Handle, NEW op \in Ops, ~IsSet(k) PROVE WokenFor(k, op)'
    BY DEF WakeupsRight, IsSet
  <2>2. Rings' /\ WokenFor(k, op) /\ Supply(k, op)' = Supply(k, op)
    BY <1>1, <1>4, <2>1, QuietStep DEF WakeupsRight, Supply, ring
  <2>3. Wanted(k, op)' => Wanted(k, op)
    BY <1>8, <1>13, <1>14, WantedStay
  <2>4. Served(k, op) \subseteq Served(k, op)'
    BY <1>1, <1>8, <1>14, ServedBystander
  <2>5. Supply(k, op) \in Nat /\ Owed(k, op) \in Nat
    BY <1>1, Numbers
  <2>6. CASE k = h /\ op = "receive"
    <3>1. Wanted(k, op)' => EventList(h, "receive")' # << >>
      <4>1. \A u \in Task : pc'[u] # "place"
        BY <1>5, <1>6, <1>7
      <4> QED
        BY <2>6, <4>1, NotPlacing
    <3>2. Owed(k, op)' = 0 /\ Owed(k, op) = Count(xTxLock[h])
      BY <1>1, <1>4, <2>6 DEF Owed, KernelType, Count, queueUNLOCKED
    <3>3. Wanted(k, op)' => Supply(k, op)' - Supply(k, op) <= Cardinality(W) + Owed(k, op)' - Owed(k, op)
      <4>1. Wanted(k, op)' => Cardinality(W) = Owed(k, op)
        BY <1>14, <3>1, <3>2
      <4> HIDE DEF Wanted
      <4> QED
        BY <2>2, <2>5, <3>2, <4>1
    <3>4. Served(k, op) \cup W \subseteq Served(k, op)'
      BY <1>14, <2>4, <2>6
    <3> QED
      BY <1>1, <1>14, <2>2, <2>3, <3>3, <3>4, WokenMore
  <2>7. CASE ~(k = h /\ op = "receive")
    <3>1. Owed(k, op)' = Owed(k, op)
      BY <1>1, <1>4, <2>7 DEF Owed, KernelType, Ops
    <3>2. Supply(k, op)' <= Supply(k, op) /\ Owed(k, op)' >= Owed(k, op)
      BY <2>2, <2>5, <3>1
    <3> QED
      BY <1>1, <1>14, <2>2, <2>3, <2>4, <3>2, WokenSame
  <2> QED
    BY <2>6, <2>7
<1> QED
  BY <1>14, <1>15, <1>16 DEF WaitsInv

(* Second half: a thread for each place that came free. *)
LEMMA UnlockRxRight ==
    ASSUME KernelInv, NEW t \in Task, UnlockRx(t) PROVE WaitsInv'
<1>1. /\ KernelType /\ SchedulerRight /\ CallsOK /\ CallRight(t) /\ CallsRight /\ WaitersRight
      /\ ListsType /\ Rings /\ WakeupsRight
  BY DEF KernelInv, WaitsInv, QueuesInv, CallsRight, KernelType, ListsType
<1>2. PICK h : h = call[t].h
  OBVIOUS
<1>3. PICK W : W = FirstOf(waitingToSend[h], xRxLock[h])
  OBVIOUS
<1>4. /\ Running(t, "unlockrx") /\ Goto(t, "resume") /\ Unblock(W)
      /\ waitingToSend' = [waitingToSend EXCEPT ![h] = Without(@, W)]
      /\ xRxLock' = [xRxLock EXCEPT ![h] = queueUNLOCKED]
      /\ waitingToReceive' = waitingToReceive /\ pxCurrentTCB' = pxCurrentTCB
      /\ uxSchedulerSuspended' = uxSchedulerSuspended /\ pendsv' = pendsv
      /\ call' = call /\ fate' = fate /\ UNCHANGED ring /\ xTxLock' = xTxLock
  BY <1>2, <1>3 DEF UnlockRx
<1>5. /\ "unlockrx" \in Holding /\ "unlockrx" \in Leaving /\ "resume" \in Leaving
      /\ "resume" # "place" /\ "place" \in Holding
  BY DEF Holding, Leaving
<1>6. pc[t] = "unlockrx" /\ \A u \in Task \ {t} : pc[u] \notin Holding
  BY <1>1, <1>4, <1>5, Runs
<1>7. IsFcn(pc', Task) /\ pc'[t] = "resume" /\ \A u \in Task \ {t} : pc'[u] = pc[u]
  BY <1>1, <1>4, GoesOn
<1>8. /\ IsFcn(fate', Task) /\ \A u \in Task \ {t} : Same(u)
      /\ pc[t] \in Leaving /\ pc'[t] \in Leaving /\ fate'[t] = fate[t] /\ call'[t] = call[t]
  BY <1>1, <1>4, <1>5, <1>6, <1>7 DEF Same, KernelType
<1>9. h \in Handle /\ call[t].op \in Ops /\ xRxLock[h] \in Int /\ xRxLock[h] >= 0
  BY <1>1, <1>2, <1>6 DEF CallRight, CallsOK, Ops, KernelType, LockCounts
<1>10. /\ ListsType' /\ "send" \in Ops
       /\ \A k \in Handle, op \in Ops :
             EventList(k, op)' = IF k = h /\ op = "send" THEN Without(EventList(k, op), W)
                                 ELSE EventList(k, op)
  BY <1>1, <1>4, <1>9, SendersLeave
<1>11. W = FirstOf(EventList(h, "send"), xRxLock[h])
  BY <1>3 DEF EventList
<1>12. xRxLock' \in [Handle -> LockCounts] /\ xTxLock' \in [Handle -> LockCounts]
  <2>1. queueUNLOCKED \in LockCounts
    BY DEF LockCounts, queueUNLOCKED
  <2> QED
    BY <1>1, <1>4, <2>1 DEF KernelType
<1>13. pendsv' \in BOOLEAN /\ (~pendsv' => ~pendsv) /\ Bystander(t)
  BY <1>1, <1>4, <1>8 DEF KernelType, Bystander
<1>14. /\ KernelType' /\ SchedulerRight' /\ WaitersRight'
       /\ W \in SUBSET Task /\ W \cap Awake = {} /\ W \subseteq Served(h, "send")'
       /\ Awake \subseteq Awake'
       /\ \A k \in Handle, op \in Ops : EventList(k, op)' # << >> => EventList(k, op) # << >>
       /\ EventList(h, "send")' # << >> => Cardinality(W) = Count(xRxLock[h])
  BY <1>4, <1>7, <1>8, <1>9, <1>10, <1>11, <1>12, <1>13, WakeStep
<1>15. CallsRight'
  <2>1. CallRight(t)'
    BY <1>1, <1>4, <1>6, <1>7, <1>9 DEF CallRight, Seeking
  <2> QED
    BY <1>1, <1>6, <1>8, <2>1, OthersCalls
<1>16. WakeupsRight'
  <2>1. SUFFICES ASSUME NEW k \in Handle, NEW op \in Ops, ~IsSet(k) PROVE WokenFor(k, op)'
    BY DEF WakeupsRight, IsSet
  <2>2. Rings' /\ WokenFor(k, op) /\ Supply(k, op)' = Supply(k, op)
    BY <1>1, <1>4, <2>1, QuietStep DEF WakeupsRight, Supply, ring
  <2>3. Wanted(k, op)' => Wanted(k, op)
    BY <1>8, <1>13, <1>14, WantedStay
  <2>4. Served(k, op) \subseteq Served(k, op)'
    BY <1>1, <1>8, <1>14, ServedBystander
  <2>5. Supply(k, op) \in Nat /\ Owed(k, op) \in Nat
    BY <1>1, Numbers
  <2>6. CASE k = h /\ op = "send"
    <3>1. Wanted(k, op)' => EventList(h, "send")' # << >>
      <4>1. \A u \in Task : pc'[u] # "place"
        BY <1>5, <1>6, <1>7
      <4> QED
        BY <2>6, <4>1, NotPlacing
    <3>2. Owed(k, op)' = 0 /\ Owed(k, op) = Count(xRxLock[h])
      BY <1>1, <1>4, <2>6 DEF Owed, KernelType, Count, queueUNLOCKED
    <3>3. Wanted(k, op)' => Supply(k, op)' - Supply(k, op) <= Cardinality(W) + Owed(k, op)' - Owed(k, op)
      <4>1. Wanted(k, op)' => Cardinality(W) = Owed(k, op)
        BY <1>14, <3>1, <3>2
      <4> HIDE DEF Wanted
      <4> QED
        BY <2>2, <2>5, <3>2, <4>1
    <3>4. Served(k, op) \cup W \subseteq Served(k, op)'
      BY <1>14, <2>4, <2>6
    <3> QED
      BY <1>1, <1>14, <2>2, <2>3, <3>3, <3>4, WokenMore
  <2>7. CASE ~(k = h /\ op = "send")
    <3>1. Owed(k, op)' = Owed(k, op)
      BY <1>1, <1>4, <2>7 DEF Owed, KernelType, Ops
    <3>2. Supply(k, op)' <= Supply(k, op) /\ Owed(k, op)' >= Owed(k, op)
      BY <2>2, <2>5, <3>1
    <3> QED
      BY <1>1, <1>14, <2>2, <2>3, <2>4, <3>2, WokenSame
  <2> QED
    BY <2>6, <2>7
<1> QED
  BY <1>14, <1>15, <1>16 DEF WaitsInv

(* A send puts one item into the queue, and touches no other queue than a set. *)
LEMMA SentCount ==
    ASSUME Rings, NEW h \in Handle, NEW H, H = {h} \/ H = Filled(h), NEW in, CopyTo(H, in)
    PROVE  /\ uxMessagesWaiting'[h] = uxMessagesWaiting[h] + 1
           /\ Supply(h, "receive")' = Supply(h, "receive") + 1
           /\ Supply(h, "send")' = Supply(h, "send") - 1
           /\ \A k \in Handle \ {h}, op \in Ops : ~IsSet(k) => Supply(k, op)' = Supply(k, op)
<1>1. /\ \A k \in Handle : uxMessagesWaiting'[k] = uxMessagesWaiting[k] + (IF k \in H THEN 1 ELSE 0)
      /\ \A k \in Handle : uxMessagesWaiting[k] \in Nat /\ Length[k] \in Nat
  BY LengthNat DEF CopyTo, Rings, RingOK
<1>2. h \in H /\ \A k \in Handle \ {h} : ~IsSet(k) => k \notin H
  BY DEF Filled, IsSet
<1>3. ASSUME NEW k \in Handle \ {h}, NEW op \in Ops, ~IsSet(k) PROVE Supply(k, op)' = Supply(k, op)
  <2>1. uxMessagesWaiting'[k] = uxMessagesWaiting[k]
    BY <1>1, <1>2, <1>3
  <2> QED
    BY <2>1 DEF Supply
<1>4. uxMessagesWaiting'[h] = uxMessagesWaiting[h] + 1
  BY <1>1, <1>2
<1> QED
  BY <1>1, <1>3, <1>4 DEF Supply

(* A receive takes one item from the queue. *)
LEMMA ReceivedCount ==
    ASSUME Rings, NEW h \in Handle, NEW r, CopyFrom(h, r)
    PROVE  /\ Supply(h, "receive")' = Supply(h, "receive") - 1
           /\ Supply(h, "send")' = Supply(h, "send") + 1
           /\ \A k \in Handle \ {h}, op \in Ops : Supply(k, op)' = Supply(k, op)
<1>1. /\ \A k \in Handle : uxMessagesWaiting'[k] = uxMessagesWaiting[k] - (IF k = h THEN 1 ELSE 0)
      /\ \A k \in Handle : uxMessagesWaiting[k] \in Nat /\ Length[k] \in Nat
  <2>1. \A k \in Handle : uxMessagesWaiting[k] \in Nat /\ Length[k] \in Nat
    BY LengthNat DEF Rings, RingOK
  <2>2. \A k \in Handle : uxMessagesWaiting'[k] = IF k = h THEN uxMessagesWaiting[h] - 1
                                                  ELSE uxMessagesWaiting[k]
    BY DEF CopyFrom, Rings, IsFcn
  <2> QED
    BY <2>1, <2>2
<1>2. ASSUME NEW k \in Handle \ {h}, NEW op \in Ops PROVE Supply(k, op)' = Supply(k, op)
  <2>1. uxMessagesWaiting'[k] = uxMessagesWaiting[k]
    BY <1>1
  <2> QED
    BY <2>1 DEF Supply
<1>3. uxMessagesWaiting'[h] = uxMessagesWaiting[h] - 1
  BY <1>1
<1> QED
  BY <1>1, <1>2, <1>3 DEF Supply

(* Nobody takes items by sleeping on the list of a queue that is in a set. *)
LEMMA MembersAreNotWaitedFor ==
    ASSUME WaitersRight, CallsRight, NEW h \in Handle, Container[h] # NULL
    PROVE  ~Wanted(h, "receive")
<1>1. EventList(h, "receive") = << >>
  BY DEF WaitersRight, EventList
<1>2. ASSUME NEW u \in Task, pc[u] = "place", call[u].op = "receive", call[u].h = h PROVE FALSE
  BY <1>2 DEF CallsRight, CallRight
<1> QED
  BY <1>1, <1>2 DEF Wanted

(* The thread that a send wakes waits for the queue, or for the set it is in. *)
LEMMA WakeOneFirst ==
    ASSUME NEW h \in Handle
    PROVE  /\ Notified(h) \in Handle
           /\ WakeOne(h) = {} \/ WakeOne(h) = FirstOf(EventList(Notified(h), "receive"), 1)
           /\ Container[h] = NULL => /\ Notified(h) = h
                                     /\ WakeOne(h) = FirstOf(EventList(h, "receive"), 1)
           /\ Container[h] # NULL => IsSet(Notified(h))
<1>1. Notified(h) \in Handle /\ (Container[h] = NULL => Notified(h) = h)
  BY KernelAssumption DEF Notified
<1>2. FirstOf(<< >>, 1) = {}
  BY DEF FirstOf
<1>3. WakeOne(h) = {} \/ WakeOne(h) = FirstOf(EventList(Notified(h), "receive"), 1)
  BY <1>2 DEF WakeOne, Waiters, EventList
<1>4. Container[h] = NULL => WakeOne(h) = FirstOf(EventList(h, "receive"), 1)
  BY <1>1 DEF WakeOne, Waiters, EventList
<1>5. Container[h] # NULL => IsSet(Notified(h))
  BY DEF Notified, IsSet
<1> QED
  BY <1>1, <1>3, <1>4, <1>5

(* xQueueGenericSendFromISR: a thread is woken, or the wakeup is kept. *)
LEMMA SendFromISRRight ==
    ASSUME KernelInv, Rings', NEW h \in Handle, NEW x, SendFromISR(h, x) PROVE WaitsInv'
<1>1. /\ KernelType /\ SchedulerRight /\ CallsOK /\ CallsRight /\ WaitersRight /\ ListsType
      /\ Rings /\ WakeupsRight
  BY DEF KernelInv, WaitsInv, QueuesInv, KernelType, ListsType
<1>2. PICK W : W = IF NotLocked(xTxLock[h]) THEN WakeOne(h) ELSE {}
  OBVIOUS
<1>3. PICK g : g = Notified(h)
  OBVIOUS
<1>4. PICK H : H = IF NotLocked(xTxLock[h]) THEN Filled(h) ELSE {h}
  OBVIOUS
<1>5. /\ CopyTo(H, Data(h, x)) /\ Unblock(W)
      /\ waitingToReceive' = [waitingToReceive EXCEPT ![g] = Without(@, W)]
      /\ xTxLock' = [xTxLock EXCEPT ![h] = IF NotLocked(@) THEN @ ELSE @ + 1]
      /\ waitingToSend' = waitingToSend /\ pxCurrentTCB' = pxCurrentTCB
      /\ uxSchedulerSuspended' = uxSchedulerSuspended /\ pendsv' = (pendsv \/ Higher(W))
      /\ pc' = pc /\ call' = call /\ fate' = fate /\ xRxLock' = xRxLock
  BY <1>2, <1>3, <1>4 DEF SendFromISR, thread
<1>6. /\ g \in Handle /\ (W = {} \/ W = FirstOf(EventList(g, "receive"), 1))
      /\ Container[h] # NULL => IsSet(g)
  BY <1>2, <1>3, WakeOneFirst
<1>7. /\ ListsType' /\ "receive" \in Ops
      /\ \A k \in Handle, op \in Ops :
            EventList(k, op)' = IF k = g /\ op = "receive" THEN Without(EventList(k, op), W)
                                ELSE EventList(k, op)
  BY <1>1, <1>5, <1>6, ReceiversLeave
<1>8. xTxLock[h] \in Int /\ xTxLock[h] >= -1 /\ xTxLock[h] \in LockCounts
  BY <1>1 DEF KernelType, LockCounts, queueUNLOCKED
<1>9. /\ xTxLock' \in [Handle -> LockCounts] /\ xRxLock' \in [Handle -> LockCounts]
      /\ xTxLock'[h] = IF NotLocked(xTxLock[h]) THEN xTxLock[h] ELSE xTxLock[h] + 1
      /\ \A k \in Handle \ {h} : xTxLock'[k] = xTxLock[k]
  <2>1. xTxLock[h] + 1 \in LockCounts
    BY <1>8 DEF LockCounts, queueUNLOCKED
  <2> QED
    BY <1>1, <1>5, <1>8, <2>1 DEF KernelType
<1>10. /\ pendsv' \in BOOLEAN /\ (~pendsv' => ~pendsv) /\ IsFcn(pc', Task) /\ IsFcn(fate', Task)
       /\ \A u \in Task : Same(u)
  BY <1>1, <1>5 DEF KernelType, Same
<1>11. IDLE \in Task /\ Bystander(IDLE) /\ Same(IDLE) /\ \A u \in Task \ {IDLE} : Same(u)
  BY <1>10, KernelAssumption DEF Bystander
<1>12. /\ KernelType' /\ SchedulerRight' /\ WaitersRight'
       /\ W \in SUBSET Task /\ W \cap Awake = {} /\ W \subseteq Served(g, "receive")'
       /\ Awake \subseteq Awake'
       /\ \A k \in Handle, op \in Ops : EventList(k, op)' # << >> => EventList(k, op) # << >>
       /\ W = FirstOf(EventList(g, "receive"), 1) /\ EventList(g, "receive")' # << >> =>
             Cardinality(W) = Count(1)
  BY <1>5, <1>6, <1>7, <1>9, <1>10, <1>11, WakeStep
<1>13. CallsRight'
  <2>1. \A k \in Handle : xTxLock[k] >= 0 => xTxLock'[k] >= 0
    BY <1>8, <1>9
  <2>2. SUFFICES ASSUME NEW u \in Task PROVE CallRight(u)'
    BY DEF CallsRight
  <2>3. pc[u] \in {"check", "place", "unlocktx"} => xTxLock'[call[u].h] >= 0
    <3>1. pc[u] \in {"check", "place", "unlocktx"} => call[u].h \in Handle /\ xTxLock[call[u].h] >= 0
      BY <1>1 DEF CallsRight, CallRight, CallsOK, Ops, Seeking
    <3> QED
      BY <2>1, <3>1
  <2> QED
    BY <1>1, <1>5, <2>3 DEF CallsRight, CallRight
<1>14. WakeupsRight'
  <2>1. SUFFICES ASSUME NEW k \in Handle, NEW op \in Ops, ~IsSet(k) PROVE WokenFor(k, op)'
    BY DEF WakeupsRight, IsSet
  <2>2. WokenFor(k, op)
    BY <1>1, <2>1 DEF WakeupsRight
  <2>3. Wanted(k, op)' => Wanted(k, op)
    BY <1>11, <1>12, WantedStay
  <2>4. Served(k, op) \subseteq Served(k, op)'
    BY <1>1, <1>11, <1>12, ServedBystander
  <2>5. Supply(k, op) \in Nat /\ Owed(k, op) \in Nat
    BY <1>1, Numbers
  <2>6. /\ Supply(h, "receive")' = Supply(h, "receive") + 1
        /\ Supply(h, "send")' = Supply(h, "send") - 1
        /\ \A j \in Handle \ {h}, o \in Ops : ~IsSet(j) => Supply(j, o)' = Supply(j, o)
    BY <1>1, <1>4, <1>5, SentCount
  <2>7. CASE ~(k = h /\ op = "receive")
    <3>1. Owed(k, op)' = Owed(k, op)
      BY <1>5, <1>9, <2>7 DEF Owed, Ops
    <3>2. Supply(k, op)' <= Supply(k, op) /\ Owed(k, op)' >= Owed(k, op)
      BY <2>1, <2>5, <2>6, <2>7, <3>1 DEF Ops
    <3> QED
      BY <1>1, <1>12, <2>2, <2>3, <2>4, <3>2, WokenSame
  <2>8. CASE k = h /\ op = "receive"
    <3>1. CASE ~NotLocked(xTxLock[h])
      <4>1. Owed(k, op)' = Owed(k, op) + 1
        BY <1>8, <1>9, <2>8, <3>1 DEF Owed, NotLocked, queueUNLOCKED, Count
      <4>2. W = {} /\ Cardinality({}) = 0
        BY <1>2, <3>1, FS_EmptySet
      <4>3. Supply(k, op)' - Supply(k, op) <= Cardinality(W) + Owed(k, op)' - Owed(k, op)
        BY <2>5, <2>6, <2>8, <4>1, <4>2
      <4>4. Served(k, op) \cup W \subseteq Served(k, op)'
        BY <2>4, <4>2
      <4> QED
        BY <1>1, <1>12, <2>2, <2>3, <4>3, <4>4, WokenMore
    <3>2. CASE NotLocked(xTxLock[h]) /\ Container[h] # NULL
      <4>1. ~Wanted(k, op)
        BY <1>1, <2>8, <3>2, MembersAreNotWaitedFor
      <4> QED
        BY <2>3, <4>1 DEF WokenFor
    <3>3. CASE NotLocked(xTxLock[h]) /\ Container[h] = NULL
      <4>1. g = h /\ W = FirstOf(EventList(g, "receive"), 1)
        BY <1>2, <1>3, <3>3, WakeOneFirst
      <4>2. Wanted(k, op)' => EventList(g, "receive")' # << >>
        <5>1. \A u \in Task : ~(pc'[u] = "place" /\ call'[u].op = op /\ call'[u].h = k)
          <6>1. ASSUME NEW u \in Task, pc[u] = "place", call[u].h = h PROVE FALSE
            BY <1>1, <3>3, <6>1 DEF CallsRight, CallRight, NotLocked, queueUNLOCKED
          <6> QED
            BY <1>5, <2>8, <6>1
        <5>2. EventList(g, "receive")' = EventList(k, op)'
          BY <2>8, <4>1
        <5> QED
          BY <5>1, <5>2, NotPlacing
      <4>3. Wanted(k, op)' => Cardinality(W) = 1
        BY <1>12, <4>1, <4>2 DEF Count
      <4>4. Owed(k, op)' = Owed(k, op)
        BY <1>5, <1>9, <2>8, <3>3 DEF Owed
      <4>5. Wanted(k, op)' => Supply(k, op)' - Supply(k, op) <= Cardinality(W) + Owed(k, op)' - Owed(k, op)
        BY <2>5, <2>6, <2>8, <4>3, <4>4
      <4>6. Served(k, op) \cup W \subseteq Served(k, op)'
        BY <1>12, <2>4, <2>8, <4>1
      <4> QED
        BY <1>1, <1>12, <2>2, <2>3, <4>5, <4>6, WokenMore
    <3> QED
      BY <3>1, <3>2, <3>3
  <2> QED
    BY <2>7, <2>8
<1> QED
  BY <1>12, <1>13, <1>14 DEF WaitsInv

(* xQueueReceiveFromISR, for the threads that wait for room. *)
LEMMA ReceiveFromISRRight ==
    ASSUME KernelInv, Rings', NEW h \in Handle, ReceiveFromISR(h) PROVE WaitsInv'
<1>1. /\ KernelType /\ SchedulerRight /\ CallsOK /\ CallsRight /\ WaitersRight /\ ListsType
      /\ Rings /\ WakeupsRight
  BY DEF KernelInv, WaitsInv, QueuesInv, KernelType, ListsType
<1>2. PICK W : W = IF NotLocked(xRxLock[h]) THEN FirstOf(waitingToSend[h], 1) ELSE {}
  OBVIOUS
<1>3. /\ CopyFrom(h, "isr") /\ Unblock(W)
      /\ waitingToSend' = [waitingToSend EXCEPT ![h] = Without(@, W)]
      /\ xRxLock' = [xRxLock EXCEPT ![h] = IF NotLocked(@) THEN @ ELSE @ + 1]
      /\ waitingToReceive' = waitingToReceive /\ pxCurrentTCB' = pxCurrentTCB
      /\ uxSchedulerSuspended' = uxSchedulerSuspended /\ pendsv' = (pendsv \/ Higher(W))
      /\ pc' = pc /\ call' = call /\ fate' = fate /\ xTxLock' = xTxLock
  BY <1>2 DEF ReceiveFromISR, thread
<1>4. W = {} \/ W = FirstOf(EventList(h, "send"), 1)
  BY <1>2 DEF EventList
<1>5. /\ ListsType' /\ "send" \in Ops
      /\ \A k \in Handle, op \in Ops :
            EventList(k, op)' = IF k = h /\ op = "send" THEN Without(EventList(k, op), W)
                                ELSE EventList(k, op)
  BY <1>1, <1>3, SendersLeave
<1>6. xRxLock[h] \in Int /\ xRxLock[h] >= -1 /\ xRxLock[h] \in LockCounts
  BY <1>1 DEF KernelType, LockCounts, queueUNLOCKED
<1>7. /\ xTxLock' \in [Handle -> LockCounts] /\ xRxLock' \in [Handle -> LockCounts]
      /\ xRxLock'[h] = IF NotLocked(xRxLock[h]) THEN xRxLock[h] ELSE xRxLock[h] + 1
      /\ \A k \in Handle \ {h} : xRxLock'[k] = xRxLock[k]
  <2>1. xRxLock[h] + 1 \in LockCounts
    BY <1>6 DEF LockCounts, queueUNLOCKED
  <2> QED
    BY <1>1, <1>3, <1>6, <2>1 DEF KernelType
<1>8. /\ pendsv' \in BOOLEAN /\ (~pendsv' => ~pendsv) /\ IsFcn(pc', Task) /\ IsFcn(fate', Task)
       /\ \A u \in Task : Same(u)
  BY <1>1, <1>3 DEF KernelType, Same
<1>9. IDLE \in Task /\ Bystander(IDLE) /\ Same(IDLE) /\ \A u \in Task \ {IDLE} : Same(u)
  BY <1>8, KernelAssumption DEF Bystander
<1>10. /\ KernelType' /\ SchedulerRight' /\ WaitersRight'
       /\ W \in SUBSET Task /\ W \cap Awake = {} /\ W \subseteq Served(h, "send")'
       /\ Awake \subseteq Awake'
       /\ \A k \in Handle, op \in Ops : EventList(k, op)' # << >> => EventList(k, op) # << >>
       /\ W = FirstOf(EventList(h, "send"), 1) /\ EventList(h, "send")' # << >> =>
             Cardinality(W) = Count(1)
  BY <1>3, <1>4, <1>5, <1>7, <1>8, <1>9, WakeStep
<1>11. CallsRight'
  <2>1. \A k \in Handle : xRxLock[k] >= 0 => xRxLock'[k] >= 0
    BY <1>6, <1>7
  <2>2. SUFFICES ASSUME NEW u \in Task PROVE CallRight(u)'
    BY DEF CallsRight
  <2>3. pc[u] \in {"check", "place", "unlocktx", "unlockrx"} => xRxLock'[call[u].h] >= 0
    <3>1. pc[u] \in {"check", "place", "unlocktx", "unlockrx"} =>
             call[u].h \in Handle /\ xRxLock[call[u].h] >= 0
      BY <1>1 DEF CallsRight, CallRight, CallsOK, Ops, Seeking
    <3> QED
      BY <2>1, <3>1
  <2> QED
    BY <1>1, <1>3, <2>3 DEF CallsRight, CallRight
<1>12. WakeupsRight'
  <2>1. SUFFICES ASSUME NEW k \in Handle, NEW op \in Ops, ~IsSet(k) PROVE WokenFor(k, op)'
    BY DEF WakeupsRight, IsSet
  <2>2. WokenFor(k, op)
    BY <1>1, <2>1 DEF WakeupsRight
  <2>3. Wanted(k, op)' => Wanted(k, op)
    BY <1>9, <1>10, WantedStay
  <2>4. Served(k, op) \subseteq Served(k, op)'
    BY <1>1, <1>9, <1>10, ServedBystander
  <2>5. Supply(k, op) \in Nat /\ Owed(k, op) \in Nat
    BY <1>1, Numbers
  <2>6. /\ Supply(h, "receive")' = Supply(h, "receive") - 1
        /\ Supply(h, "send")' = Supply(h, "send") + 1
        /\ \A j \in Handle \ {h}, o \in Ops : Supply(j, o)' = Supply(j, o)
    BY <1>1, <1>3, ReceivedCount
  <2>7. CASE ~(k = h /\ op = "send")
    <3>1. Owed(k, op)' = Owed(k, op)
      BY <1>3, <1>7, <2>7 DEF Owed, Ops
    <3>2. Supply(k, op)' <= Supply(k, op) /\ Owed(k, op)' >= Owed(k, op)
      BY <2>5, <2>6, <2>7, <3>1 DEF Ops
    <3> QED
      BY <1>1, <1>10, <2>2, <2>3, <2>4, <3>2, WokenSame
  <2>8. CASE k = h /\ op = "send"
    <3>1. CASE ~NotLocked(xRxLock[h])
      <4>1. Owed(k, op)' = Owed(k, op) + 1
        BY <1>6, <1>7, <2>8, <3>1 DEF Owed, NotLocked, queueUNLOCKED, Count
      <4>2. W = {} /\ Cardinality({}) = 0
        BY <1>2, <3>1, FS_EmptySet
      <4>3. Supply(k, op)' - Supply(k, op) <= Cardinality(W) + Owed(k, op)' - Owed(k, op)
        BY <2>5, <2>6, <2>8, <4>1, <4>2
      <4>4. Served(k, op) \cup W \subseteq Served(k, op)'
        BY <2>4, <4>2
      <4> QED
        BY <1>1, <1>10, <2>2, <2>3, <4>3, <4>4, WokenMore
    <3>2. CASE NotLocked(xRxLock[h])
      <4>1. W = FirstOf(EventList(h, "send"), 1)
        BY <1>2, <3>2 DEF EventList
      <4>2. Wanted(k, op)' => EventList(h, "send")' # << >>
        <5>1. \A u \in Task : ~(pc'[u] = "place" /\ call'[u].op = op /\ call'[u].h = k)
          <6>1. ASSUME NEW u \in Task, pc[u] = "place", call[u].h = h PROVE FALSE
            BY <1>1, <3>2, <6>1 DEF CallsRight, CallRight, NotLocked, queueUNLOCKED
          <6> QED
            BY <1>3, <2>8, <6>1
        <5> QED
          BY <2>8, <5>1, NotPlacing
      <4>3. Wanted(k, op)' => Cardinality(W) = 1
        BY <1>10, <4>1, <4>2 DEF Count
      <4>4. Owed(k, op)' = Owed(k, op)
        BY <1>3, <1>7, <2>8, <3>2 DEF Owed
      <4>5. Wanted(k, op)' => Supply(k, op)' - Supply(k, op) <= Cardinality(W) + Owed(k, op)' - Owed(k, op)
        BY <2>5, <2>6, <2>8, <4>3, <4>4
      <4>6. Served(k, op) \cup W \subseteq Served(k, op)'
        BY <1>10, <2>4, <2>8, <4>1
      <4> QED
        BY <1>1, <1>10, <2>2, <2>3, <4>5, <4>6, WokenMore
    <3> QED
      BY <3>1, <3>2
  <2> QED
    BY <2>7, <2>8
<1> QED
  BY <1>10, <1>11, <1>12 DEF WaitsInv

(* The critical section of xQueueGenericSend when there is room. *)
LEMMA SendItemRight ==
    ASSUME KernelInv, Rings', NEW t \in Task, SendItem(t) PROVE WaitsInv'
<1>1. /\ KernelType /\ SchedulerRight /\ CallsOK /\ CallsRight /\ WaitersRight /\ ListsType
      /\ Rings /\ WakeupsRight
  BY DEF KernelInv, WaitsInv, QueuesInv, KernelType, ListsType
<1>2. PICK h : h = call[t].h
  OBVIOUS
<1>3. PICK W, g : W = WakeOne(h) /\ g = Notified(h)
  OBVIOUS
<1>4. /\ Running(t, "try") /\ call[t].op = "send" /\ Return(t)
      /\ CopyTo(Filled(h), Data(h, call[t].item)) /\ Unblock(W)
      /\ waitingToReceive' = [waitingToReceive EXCEPT ![g] = Without(@, W)]
      /\ waitingToSend' = waitingToSend /\ pxCurrentTCB' = pxCurrentTCB
      /\ uxSchedulerSuspended' = uxSchedulerSuspended /\ UNCHANGED locks
      /\ pendsv' = (Higher(W) \/ (W = {} /\ uxPriority' # uxPriority))
  BY <1>2, <1>3 DEF SendItem
<1>5. "try" \notin Holding /\ "run" \notin Holding /\ "place" \in Holding
  BY DEF Holding, Leaving
<1>6. pc[t] = "try" /\ ~pendsv /\ t \in ready /\ \A u \in Task : pc[u] \notin Holding
  BY <1>1, <1>4, <1>5, Runs
<1>7. /\ IsFcn(pc', Task) /\ IsFcn(fate', Task) /\ \A u \in Task \ {t} : Same(u)
      /\ pc'[t] = "run" /\ call'[t].op = "none"
  BY <1>1, <1>4, Returned
<1>8. h \in Handle
  BY <1>1, <1>2, <1>4 DEF CallsOK
<1>9. /\ g \in Handle /\ (W = {} \/ W = FirstOf(EventList(g, "receive"), 1))
      /\ Container[h] # NULL => IsSet(g)
  BY <1>3, <1>8, WakeOneFirst
<1>10. /\ ListsType' /\ "receive" \in Ops
       /\ \A k \in Handle, op \in Ops :
             EventList(k, op)' = IF k = g /\ op = "receive" THEN Without(EventList(k, op), W)
                                 ELSE EventList(k, op)
  BY <1>1, <1>4, <1>9, ReceiversLeave
<1>11. /\ pendsv' \in BOOLEAN /\ (~pendsv' => ~pendsv) /\ Bystander(t)
       /\ xTxLock' \in [Handle -> LockCounts] /\ xRxLock' \in [Handle -> LockCounts]
  BY <1>1, <1>4, <1>5, <1>6, <1>7 DEF KernelType, Bystander, locks
<1>12. /\ KernelType' /\ SchedulerRight' /\ WaitersRight'
       /\ W \in SUBSET Task /\ W \cap Awake = {} /\ W \subseteq Served(g, "receive")'
       /\ Awake \subseteq Awake'
       /\ \A k \in Handle, op \in Ops : EventList(k, op)' # << >> => EventList(k, op) # << >>
       /\ W = FirstOf(EventList(g, "receive"), 1) /\ EventList(g, "receive")' # << >> =>
             Cardinality(W) = Count(1)
  BY <1>4, <1>7, <1>9, <1>10, <1>11, WakeStep
<1>13. CallsRight'
  <2>1. CallRight(t)'
    BY <1>7 DEF CallRight, Seeking
  <2> QED
    BY <1>1, <1>6, <1>7, <2>1, OthersCalls
<1>14. \A u \in Task : pc'[u] # "place"
  BY <1>5, <1>6, <1>7 DEF Same
<1>15. WakeupsRight'
  <2>1. SUFFICES ASSUME NEW k \in Handle, NEW op \in Ops, ~IsSet(k) PROVE WokenFor(k, op)'
    BY DEF WakeupsRight, IsSet
  <2>2. WokenFor(k, op) /\ Owed(k, op)' = Owed(k, op)
    BY <1>1, <1>4, <2>1, OwedSame DEF WakeupsRight
  <2>3. Wanted(k, op)' => Wanted(k, op)
    BY <1>7, <1>11, <1>12, WantedStay
  <2>4. Served(k, op) \ {t} \subseteq Served(k, op)'
    BY <1>1, <1>7, <1>12 DEF Served, Same, KernelType, Awake
  <2>5. t \in Served(k, op) => k = h /\ op = "send"
    BY <1>2, <1>4 DEF Served
  <2>6. Supply(k, op) \in Nat /\ Owed(k, op) \in Nat
    BY <1>1, Numbers
  <2>7. /\ Supply(h, "receive")' = Supply(h, "receive") + 1
        /\ Supply(h, "send")' = Supply(h, "send") - 1
        /\ \A j \in Handle \ {h}, o \in Ops : ~IsSet(j) => Supply(j, o)' = Supply(j, o)
    BY <1>1, <1>4, <1>8, SentCount
  <2>8. CASE k = h /\ op = "send"
    <3>1. Supply(k, op)' < Supply(k, op)
      BY <2>6, <2>7, <2>8
    <3> QED
      BY <1>1, <1>12, <2>2, <2>3, <2>4, <3>1, WokenLess
  <2>9. CASE k # h
    <3>1. Supply(k, op)' <= Supply(k, op) /\ Owed(k, op)' >= Owed(k, op)
      BY <2>1, <2>2, <2>6, <2>7, <2>9
    <3>2. Served(k, op) \subseteq Served(k, op)'
      BY <2>4, <2>5, <2>9
    <3> QED
      BY <1>1, <1>12, <2>2, <2>3, <3>1, <3>2, WokenSame
  <2>10. CASE k = h /\ op = "receive" /\ Container[h] # NULL
    <3>1. ~Wanted(k, op)
      BY <1>1, <2>10, MembersAreNotWaitedFor
    <3> QED
      BY <2>3, <3>1 DEF WokenFor
  <2>11. CASE k = h /\ op = "receive" /\ Container[h] = NULL
    <3>1. g = h /\ W = FirstOf(EventList(g, "receive"), 1)
      BY <1>3, <1>8, <2>11, WakeOneFirst
    <3>2. Wanted(k, op)' => EventList(g, "receive")' # << >>
      <4>1. EventList(g, "receive")' = EventList(k, op)'
        BY <2>11, <3>1
      <4> QED
        BY <1>14, <4>1, NotPlacing
    <3>3. Wanted(k, op)' => Cardinality(W) = 1
      BY <1>12, <3>1, <3>2 DEF Count
    <3>4. Wanted(k, op)' => Supply(k, op)' - Supply(k, op) <= Cardinality(W) + Owed(k, op)' - Owed(k, op)
      BY <2>2, <2>6, <2>7, <2>11, <3>3
    <3>5. Served(k, op) \cup W \subseteq Served(k, op)'
      <4>1. Served(k, op) \subseteq Served(k, op)'
        BY <2>4, <2>5, <2>11
      <4>2. W \subseteq Served(k, op)'
        BY <1>12, <2>11, <3>1
      <4> QED
        BY <4>1, <4>2
    <3> QED
      BY <1>1, <1>12, <2>2, <2>3, <3>4, <3>5, WokenMore
  <2> QED
    BY <2>8, <2>9, <2>10, <2>11 DEF Ops
<1> QED
  BY <1>12, <1>13, <1>15 DEF WaitsInv

(* The critical section of xQueueGenericReceive when there is an item. *)
LEMMA ReceiveItemRight ==
    ASSUME KernelInv, Rings', NEW t \in Task, ReceiveItem(t) PROVE WaitsInv'
<1>1. /\ KernelType /\ SchedulerRight /\ CallsOK /\ CallsRight /\ WaitersRight /\ ListsType
      /\ Rings /\ WakeupsRight
  BY DEF KernelInv, WaitsInv, QueuesInv, KernelType, ListsType
<1>2. PICK h : h = call[t].h
  OBVIOUS
<1>3. PICK W : W = FirstOf(waitingToSend[h], 1)
  OBVIOUS
<1>4. /\ Running(t, "try") /\ call[t].op = "receive" /\ Return(t)
      /\ CopyFrom(h, t) /\ Unblock(W)
      /\ waitingToSend' = [waitingToSend EXCEPT ![h] = Without(@, W)]
      /\ waitingToReceive' = waitingToReceive /\ pxCurrentTCB' = pxCurrentTCB
      /\ uxSchedulerSuspended' = uxSchedulerSuspended /\ UNCHANGED locks
      /\ pendsv' = Higher(W)
  BY <1>2, <1>3 DEF ReceiveItem
<1>5. "try" \notin Holding /\ "run" \notin Holding /\ "place" \in Holding
  BY DEF Holding, Leaving
<1>6. pc[t] = "try" /\ ~pendsv /\ t \in ready /\ \A u \in Task : pc[u] \notin Holding
  BY <1>1, <1>4, <1>5, Runs
<1>7. /\ IsFcn(pc', Task) /\ IsFcn(fate', Task) /\ \A u \in Task \ {t} : Same(u)
      /\ pc'[t] = "run" /\ call'[t].op = "none"
  BY <1>1, <1>4, Returned
<1>8. h \in Handle
  BY <1>1, <1>2, <1>4 DEF CallsOK
<1>9. W = FirstOf(EventList(h, "send"), 1)
  BY <1>3 DEF EventList
<1>10. /\ ListsType' /\ "send" \in Ops
       /\ \A k \in Handle, op \in Ops :
             EventList(k, op)' = IF k = h /\ op = "send" THEN Without(EventList(k, op), W)
                                 ELSE EventList(k, op)
  BY <1>1, <1>4, <1>8, SendersLeave
<1>11. /\ pendsv' \in BOOLEAN /\ (~pendsv' => ~pendsv) /\ Bystander(t)
       /\ xTxLock' \in [Handle -> LockCounts] /\ xRxLock' \in [Handle -> LockCounts]
  BY <1>1, <1>4, <1>5, <1>6, <1>7 DEF KernelType, Bystander, locks, Higher
<1>12. /\ KernelType' /\ SchedulerRight' /\ WaitersRight'
       /\ W \in SUBSET Task /\ W \cap Awake = {} /\ W \subseteq Served(h, "send")'
       /\ Awake \subseteq Awake'
       /\ \A k \in Handle, op \in Ops : EventList(k, op)' # << >> => EventList(k, op) # << >>
       /\ EventList(h, "send")' # << >> => Cardinality(W) = Count(1)
  BY <1>4, <1>7, <1>8, <1>9, <1>10, <1>11, WakeStep
<1>13. CallsRight'
  <2>1. CallRight(t)'
    BY <1>7 DEF CallRight, Seeking
  <2> QED
    BY <1>1, <1>6, <1>7, <2>1, OthersCalls
<1>14. \A u \in Task : pc'[u] # "place"
  BY <1>5, <1>6, <1>7 DEF Same
<1>15. WakeupsRight'
  <2>1. SUFFICES ASSUME NEW k \in Handle, NEW op \in Ops, ~IsSet(k) PROVE WokenFor(k, op)'
    BY DEF WakeupsRight, IsSet
  <2>2. WokenFor(k, op) /\ Owed(k, op)' = Owed(k, op)
    BY <1>1, <1>4, <2>1, OwedSame DEF WakeupsRight
  <2>3. Wanted(k, op)' => Wanted(k, op)
    BY <1>7, <1>11, <1>12, WantedStay
  <2>4. Served(k, op) \ {t} \subseteq Served(k, op)'
    BY <1>1, <1>7, <1>12 DEF Served, Same, KernelType, Awake
  <2>5. t \in Served(k, op) => k = h /\ op = "receive"
    BY <1>2, <1>4 DEF Served
  <2>6. Supply(k, op) \in Nat /\ Owed(k, op) \in Nat
    BY <1>1, Numbers
  <2>7. /\ Supply(h, "receive")' = Supply(h, "receive") - 1
        /\ Supply(h, "send")' = Supply(h, "send") + 1
        /\ \A j \in Handle \ {h}, o \in Ops : Supply(j, o)' = Supply(j, o)
    BY <1>1, <1>4, <1>8, ReceivedCount
  <2>8. CASE k = h /\ op = "receive"
    <3>1. Supply(k, op)' < Supply(k, op)
      BY <2>6, <2>7, <2>8
    <3> QED
      BY <1>1, <1>12, <2>2, <2>3, <2>4, <3>1, WokenLess
  <2>9. CASE k # h
    <3>1. Supply(k, op)' <= Supply(k, op) /\ Owed(k, op)' >= Owed(k, op)
      BY <2>2, <2>6, <2>7, <2>9
    <3>2. Served(k, op) \subseteq Served(k, op)'
      BY <2>4, <2>5, <2>9
    <3> QED
      BY <1>1, <1>12, <2>2, <2>3, <3>1, <3>2, WokenSame
  <2>10. CASE k = h /\ op = "send"
    <3>1. Wanted(k, op)' => EventList(h, "send")' # << >>
      BY <1>14, <2>10, NotPlacing
    <3>2. Wanted(k, op)' => Cardinality(W) = 1
      BY <1>12, <3>1 DEF Count
    <3>3. Wanted(k, op)' => Supply(k, op)' - Supply(k, op) <= Cardinality(W) + Owed(k, op)' - Owed(k, op)
      BY <2>2, <2>6, <2>7, <2>10, <3>2
    <3>4. Served(k, op) \cup W \subseteq Served(k, op)'
      <4>1. Served(k, op) \subseteq Served(k, op)'
        BY <2>4, <2>5, <2>10
      <4>2. W \subseteq Served(k, op)'
        BY <1>12, <2>10
      <4> QED
        BY <4>1, <4>2
    <3> QED
      BY <1>1, <1>12, <2>2, <2>3, <3>3, <3>4, WokenMore
  <2> QED
    BY <2>8, <2>9, <2>10 DEF Ops
<1> QED
  BY <1>12, <1>13, <1>15 DEF WaitsInv

(* A step that changes nothing. *)
LEMMA KernelStutters ==
    ASSUME WaitsInv, UNCHANGED kvars PROVE WaitsInv'
<1>1. UNCHANGED <<ring, locks, lists, sched, thread>>
  BY DEF kvars
<1>2. KernelType' /\ SchedulerRight'
  BY <1>1 DEF WaitsInv, KernelType, SchedulerRight, locks, lists, sched, thread
<1>3. CallsRight'
  BY <1>1 DEF WaitsInv, CallsRight, CallRight, locks, thread
<1>4. Awake' = Awake /\ \A h, op : EventList(h, op)' = EventList(h, op)
  BY <1>1 DEF Awake, EventList, lists, sched
<1>5. pc' = pc /\ call' = call /\ fate' = fate /\ waitingToReceive' = waitingToReceive
  BY <1>1 DEF thread, lists
<1>6. WaitersRight'
  BY <1>4, <1>5 DEF WaitsInv, WaitersRight, Waits
<1>7. \A h, op : /\ Wanted(h, op)' = Wanted(h, op) /\ Supply(h, op)' = Supply(h, op)
                 /\ Owed(h, op)' = Owed(h, op) /\ Served(h, op)' = Served(h, op)
  BY <1>1, <1>4, <1>5 DEF Wanted, Supply, Owed, Served, ring, locks
<1>8. WakeupsRight'
  BY <1>7 DEF WaitsInv, WakeupsRight, WokenFor, IsSet
<1> QED
  BY <1>2, <1>3, <1>6, <1>8 DEF WaitsInv

(* Every step of a thread keeps the threads and the lists in order. *)
LEMMA ThreadStepRight ==
    ASSUME KernelInv, Rings', NEW t \in Task, Step(t) PROVE WaitsInv'
<1>1. CASE \E c \in work.calls[t] : Enter(t, c)
  BY <1>1, EnterRight
<1>2. CASE SendItem(t)
  BY <1>2, SendItemRight
<1>3. CASE ReceiveItem(t)
  BY <1>3, ReceiveItemRight
<1>4. CASE Refused(t) \/ SuspendAll(t) \/ prvLockQueue(t) \/ Check(t)
  BY <1>4, RefusedRight, SuspendAllRight, prvLockQueueRight, CheckRight
<1>5. CASE Place(t) \/ UnlockTx(t) \/ UnlockRx(t) \/ ResumeAll(t)
  BY <1>5, PlaceRight, UnlockTxRight, UnlockRxRight, ResumeAllRight
<1>6. CASE vTaskDelay(t) \/ EndDelay(t)
  BY <1>6, vTaskDelayRight, EndDelayRight
<1> QED
  BY <1>1, <1>2, <1>3, <1>4, <1>5, <1>6 DEF Step

(* ... and so does every other step. *)
LEMMA KernelStepRight == KernelInv /\ [KernelNext]_kvars => KernelInv'
<1>1. SUFFICES ASSUME KernelInv, [KernelNext]_kvars PROVE KernelInv'
  OBVIOUS
<1>2. QueuesInv /\ QueuesInv' /\ Rings'
  BY <1>1, QueueStep DEF KernelInv, QueuesInv
<1>3. WaitsInv'
  <2>1. CASE UNCHANGED kvars
    BY <1>1, <2>1, KernelStutters DEF KernelInv
  <2>2. ASSUME NEW t \in Task, Step(t) PROVE WaitsInv'
    BY <1>1, <1>2, <2>2, ThreadStepRight
  <2>3. CASE PendSV
    BY <1>1, <2>3, PendSVRight
  <2>4. ASSUME NEW h \in work.sends, NEW x \in Item, SendFromISR(h, x) PROVE WaitsInv'
    <3>1. h \in Handle
      BY <1>2, WorkloadAssumption DEF QueuesInv
    <3> QED
      BY <1>1, <1>2, <2>4, <3>1, SendFromISRRight
  <2>5. ASSUME NEW h \in work.receives, ReceiveFromISR(h) PROVE WaitsInv'
    <3>1. h \in Handle
      BY <1>2, WorkloadAssumption DEF QueuesInv
    <3> QED
      BY <1>1, <1>2, <2>5, <3>1, ReceiveFromISRRight
  <2>6. ASSUME NEW E \in SUBSET Delayed, SysTick(E) PROVE WaitsInv'
    BY <1>1, <2>6, SysTickRight
  <2> QED
    BY <1>1, <2>1, <2>2, <2>3, <2>4, <2>5, <2>6 DEF KernelNext
<1> QED
  BY <1>2, <1>3 DEF KernelInv

(* At the start nobody waits. *)
LEMMA KernelStarts == KernelInit => KernelInv
<1>1. SUFFICES ASSUME KernelInit PROVE KernelInv
  OBVIOUS
<1>2. QueuesInv
  BY <1>1, QueuesStart
<1>3. queueUNLOCKED \in LockCounts
  BY DEF LockCounts, queueUNLOCKED
<1>4. << >> \in Seq(Task)
  OBVIOUS
<1>5. KernelType
  BY <1>1, <1>3, <1>4 DEF KernelInit, KernelType, IsFcn
<1>6. \A t \in Task : pc[t] = "run" /\ call[t].op = "none" /\ t \in ready
  BY <1>1 DEF KernelInit, NoCall
<1>7. "run" \notin Holding /\ "run" \notin Leaving /\ "run" \notin Seeking
  BY DEF Holding, Leaving, Seeking
<1>8. SchedulerRight
  BY <1>1, <1>5, <1>6, <1>7 DEF KernelInit, SchedulerRight, KernelType
<1>9. CallsRight
  BY <1>6, <1>7 DEF CallsRight, CallRight
<1>10. \A h \in Handle, op \in Ops : EventList(h, op) = << >>
  BY <1>1 DEF KernelInit, EventList
<1>11. WaitersRight
  BY <1>1, <1>10 DEF KernelInit, WaitersRight, Distinct
<1>12. WakeupsRight
  BY <1>6, <1>10 DEF WakeupsRight, WokenFor, Wanted
<1> QED
  BY <1>2, <1>5, <1>8, <1>9, <1>11, <1>12 DEF KernelInv, WaitsInv

(* A woken thread is one that comes. *)
LEMMA WokenThreadsCome == KernelInv => NoLostWakeup
<1>1. SUFFICES ASSUME KernelInv, NEW h \in Handle, \A g \in Handle : Container[g] # h,
                      xTxLock[h] = queueUNLOCKED, xRxLock[h] = queueUNLOCKED
               PROVE  /\ waitingToReceive[h] # << >> =>
                            uxMessagesWaiting[h] <= Cardinality(Coming(h, "receive"))
                      /\ waitingToSend[h] # << >> =>
                            Length[h] - uxMessagesWaiting[h] <= Cardinality(Coming(h, "send"))
  BY DEF NoLostWakeup, NoLostWakeupOn, Settled
<1>2. ASSUME NEW op \in Ops, EventList(h, op) # << >>
      PROVE  Supply(h, op) <= Cardinality(Coming(h, op))
  <2>1. Rings /\ KernelType /\ Wanted(h, op) /\ ~IsSet(h)
    BY <1>1, <1>2 DEF KernelInv, WaitsInv, QueuesInv, Wanted, IsSet
  <2>2. Supply(h, op) <= Cardinality(Served(h, op)) + Owed(h, op)
    BY <1>1, <2>1 DEF KernelInv, WaitsInv, WakeupsRight, WokenFor
  <2>3. Owed(h, op) = 0
    BY <1>1 DEF Owed, Count, queueUNLOCKED
  <2>4. Served(h, op) \subseteq Coming(h, op)
    BY DEF Served, Coming, Leaving, Awake
  <2>5. Coming(h, op) \in SUBSET Task
    BY <2>1 DEF Coming, KernelType
  <2>6. IsFiniteSet(Coming(h, op))
    BY <2>5, KernelAssumption, FS_Subset
  <2>7. Cardinality(Served(h, op)) <= Cardinality(Coming(h, op))
    BY <2>4, <2>6, FS_Subset
  <2>8. Supply(h, op) \in Nat /\ Cardinality(Served(h, op)) \in Nat /\ Cardinality(Coming(h, op)) \in Nat
    BY <2>1, <2>6, Numbers, FS_CardinalityType
  <2> QED
    BY <2>2, <2>3, <2>7, <2>8
<1>3. /\ EventList(h, "receive") = waitingToReceive[h] /\ Supply(h, "receive") = uxMessagesWaiting[h]
      /\ EventList(h, "send") = waitingToSend[h]
      /\ Supply(h, "send") = Length[h] - uxMessagesWaiting[h]
      /\ "send" \in Ops /\ "receive" \in Ops
  BY DEF EventList, Supply, Ops
<1> QED
  BY <1>2, <1>3

(* No lost wakeup, whatever threads, queues and sets there are: while a thread sleeps for
   an item or for room in a queue, every item or free place has a thread that was woken
   for it, wherever the interrupts fall between the first look and the sleep. *)
THEOREM NoWakeupIsLost == KernelSpec => []NoLostWakeup
<1>1. KernelInit => KernelInv
  BY KernelStarts
<1>2. KernelInv /\ [KernelNext]_kvars => KernelInv'
  BY KernelStepRight
<1>3. KernelInv => NoLostWakeup
  BY WokenThreadsCome
<1> QED
  BY <1>1, <1>2, <1>3, PTL DEF KernelSpec

-----------------------------------------------------------------------------
(* Priorities. *)

(* What is left of a list is in the order it was. *)
LEMMA WithoutOrder ==
    ASSUME NEW S, NEW list \in Seq(S), NEW W,
           NEW j \in DOMAIN Without(list, W), NEW k \in DOMAIN Without(list, W), j <= k
    PROVE  \E i \in DOMAIN list, l \in DOMAIN list :
              i <= l /\ Without(list, W)[j] = list[i] /\ Without(list, W)[k] = list[l]
<1> DEFINE I == {i \in DOMAIN list : list[i] \notin W}
           r == Kept(list, I)
<1>1. r = Without(list, W)
  BY DEF Without
<1>2. r \in Seq(S) /\ \E f : InOrder(list, I, r, Len(list), f)
  BY KeptProperties
<1> HIDE DEF I, r
<1>3. DOMAIN list = 1 .. Len(list) /\ DOMAIN r = 1 .. Len(r) /\ Len(r) \in Nat
  BY <1>2
<1>4. PICK f : InOrder(list, I, r, Len(list), f)
  BY <1>2
<1>5. f[j] \in 1 .. Len(list) /\ f[k] \in 1 .. Len(list) /\ r[j] = list[f[j]] /\ r[k] = list[f[k]]
  BY <1>1, <1>3, <1>4 DEF InOrder
<1>6. f[j] <= f[k]
  <2>1. CASE j = k
    BY <1>5, <2>1
  <2>2. CASE j < k
    <3>1. f[j] < f[k]
      BY <1>1, <1>3, <1>4, <2>2 DEF InOrder
    <3> QED
      BY <1>5, <3>1
  <2> QED
    BY <1>1, <1>3, <2>1, <2>2
<1> QED
  BY <1>1, <1>3, <1>5, <1>6

(* The threads that are left. *)
LEMMA WithoutRange ==
    ASSUME NEW S, NEW list \in Seq(S), NEW W
    PROVE  Range(Without(list, W)) = Range(list) \ W
<1> DEFINE r == Without(list, W)
<1>1. \A j \in DOMAIN r : \E i \in DOMAIN list : r[j] = list[i] /\ list[i] \notin W
  BY WithoutRight, Zenon
<1>2. ASSUME NEW i \in DOMAIN list, list[i] \notin W PROVE \E j \in DOMAIN r : r[j] = list[i]
  BY <1>2, WithoutRight
<1> HIDE DEF r
<1>3. Range(r) = Range(list) \ W
  BY <1>1, <1>2 DEF Range
<1> QED
  BY <1>3 DEF r

(* The list is left alone if nobody leaves it. *)
LEMMA NobodyLeaves ==
    ASSUME NEW S, NEW list \in Seq(S), NEW W, Range(list) \cap W = {}
    PROVE  Without(list, W) = list
<1> DEFINE L == Len(list)
           I == {i \in DOMAIN list : list[i] \notin W}
<1>1. L \in Nat /\ DOMAIN list = 1 .. L
  OBVIOUS
<1>2. I = 1 .. L
  BY <1>1 DEF Range
<1> HIDE DEF I
<1>3. PICK G : KeptSteps(list, I, G) /\ Kept(list, I) = G[L]
  BY <1>1, KeptComputed
<1>4. G[0] = << >> /\ \A n \in 1 .. L : G[n] = Append(G[n - 1], list[n])
  <2>1. ASSUME NEW n \in 0 .. L
        PROVE  G[n] = IF n = 0 THEN << >>
                      ELSE IF n \in I THEN Append(G[n - 1], list[n]) ELSE G[n - 1]
    BY <1>3 DEF KeptSteps
  <2>2. 0 \in 0 .. L /\ \A n \in 1 .. L : n \in 0 .. L /\ n # 0 /\ n \in I
    BY <1>1, <1>2
  <2> QED
    BY <2>1, <2>2
<1> DEFINE T == {n \in 0 .. L : /\ G[n] \in Seq(S) /\ Len(G[n]) = n
                                /\ \A j \in 1 .. n : G[n][j] = list[j]}
<1>5. 0 \in T
  <2>1. G[0] \in Seq(S) /\ Len(G[0]) = 0 /\ 1 .. 0 = {} /\ 0 \in 0 .. L
    BY <1>1, <1>4
  <2> QED
    BY <2>1
<1>6. ASSUME NEW n \in 0 .. L - 1, n \in T PROVE n + 1 \in T
  <2> DEFINE s == G[n]
             x == list[n + 1]
             r == Append(s, x)
  <2>1. s \in Seq(S) /\ Len(s) = n /\ x \in S /\ n + 1 \in 1 .. L /\ n + 1 \in 0 .. L
    BY <1>1, <1>6
  <2>2. G[n + 1] = r
    <3>1. (n + 1) - 1 = n
      OBVIOUS
    <3> QED
      BY <1>4, <2>1, <3>1
  <2>3. \A j \in 1 .. n : s[j] = list[j]
    BY <1>6
  <2> HIDE DEF s
  <2>4. r \in Seq(S) /\ Len(r) = n + 1 /\ r[n + 1] = x /\ \A j \in 1 .. n : r[j] = s[j]
    BY <2>1
  <2> HIDE DEF r
  <2>5. \A j \in 1 .. n + 1 : r[j] = list[j]
    BY <2>3, <2>4
  <2> QED
    BY <2>1, <2>2, <2>4, <2>5
<1>7. L \in T
  <2>1. \A n \in 0 .. L - 1 : n \in T => n + 1 \in T
    BY <1>6
  <2> HIDE DEF T
  <2>2. 0 .. L \subseteq T
    BY <1>1, <1>5, <2>1, UpTo
  <2> QED
    BY <1>1, <2>2
<1>8. G[L] \in Seq(S) /\ Len(G[L]) = Len(list) /\ \A j \in 1 .. Len(list) : G[L][j] = list[j]
  BY <1>7
<1>9. G[L] = list
  BY <1>8, SeqEqual
<1>10. Kept(list, I) = list
  BY <1>3, <1>9
<1> QED
  BY <1>10 DEF Without, I

\* None has a priority of its own above that of a thread before it.
ByPriority(list) == \A i, j \in DOMAIN list : i <= j => BasePriority[list[j]] <= uxPriority[list[i]]

(* The entry that vListInsert stops at is the first of a lower priority. *)
LEMMA HigherFirst ==
    ASSUME NEW list \in Seq(Task), uxPriority \in [Task -> Nat], NEW p \in Nat
    PROVE  \E m \in 0 .. Len(list) :
              /\ Cardinality({i \in DOMAIN list : \A j \in 1 .. i : uxPriority[list[j]] >= p}) = m
              /\ \A i \in 1 .. m : uxPriority[list[i]] >= p
              /\ m # Len(list) => uxPriority[list[m + 1]] < p
<1> DEFINE L == Len(list)
           P == {i \in DOMAIN list : \A j \in 1 .. i : uxPriority[list[j]] >= p}
           D == {i \in 1 .. L + 1 : i \notin P}
<1>1. L \in Nat /\ DOMAIN list = 1 .. L
  OBVIOUS
<1>2. \A i \in 1 .. L : uxPriority[list[i]] \in Nat
  BY <1>1
<1>3. PICK q \in D : \A i \in D : q <= i
  <2>1. D \in SUBSET Nat /\ L + 1 \in D
    BY <1>1
  <2> HIDE DEF D
  <2> QED
    BY <2>1, Least
<1>4. q \in 1 .. L + 1 /\ q \notin P /\ q - 1 \in 0 .. L
  BY <1>1
<1>5. ASSUME NEW i \in 1 .. q - 1 PROVE i \in P
  <2>1. i \in 1 .. L + 1 /\ ~(q <= i)
    BY <1>1, <1>4
  <2> QED
    BY <1>3, <2>1
<1>6. \A i \in 1 .. q - 1 : uxPriority[list[i]] >= p
  <2>1. ASSUME NEW i \in 1 .. q - 1 PROVE uxPriority[list[i]] >= p
    <3>1. i \in P /\ i \in 1 .. i
      BY <1>4, <1>5
    <3> QED
      BY <3>1
  <2> QED
    BY <2>1
<1>7. ASSUME NEW i \in P PROVE i \in 1 .. q - 1
  <2>1. i \in 1 .. L /\ \A j \in 1 .. i : uxPriority[list[j]] >= p
    BY <1>1
  <2> SUFFICES ASSUME q <= i PROVE FALSE
    BY <1>1, <1>4, <2>1
  <2>2. q \in 1 .. L /\ \A j \in 1 .. q : j \in 1 .. i
    BY <1>1, <1>4, <2>1
  <2>3. q \in P
    BY <1>1, <2>1, <2>2
  <2> QED
    BY <1>4, <2>3
<1>8. P = 1 .. q - 1
  <2> HIDE DEF P
  <2> QED
    BY <1>5, <1>7
<1>9. Cardinality(1 .. q - 1) = q - 1
  <2>1. q - 1 \in Int /\ 1 \in Int /\ q - 1 >= 0
    BY <1>1, <1>4
  <2>2. Cardinality(1 .. q - 1) = IF 1 > q - 1 THEN 0 ELSE (q - 1) - 1 + 1
    BY <2>1, FS_Interval
  <2> QED
    BY <2>1, <2>2
<1>10. ASSUME q - 1 # L PROVE uxPriority[list[q]] < p
  <2>1. q \in 1 .. L /\ q \in Nat
    BY <1>1, <1>4, <1>10
  <2>2. PICK j \in 1 .. q : ~(uxPriority[list[j]] >= p)
    BY <1>1, <1>4, <2>1
  <2>3. j = q
    <3>1. j \notin 1 .. q - 1
      BY <1>6, <2>2
    <3> QED
      BY <2>1, <3>1
  <2> QED
    BY <1>2, <2>1, <2>2, <2>3
<1>11. (q - 1) + 1 = q
  BY <1>4
<1> QED
  BY <1>4, <1>6, <1>8, <1>9, <1>10, <1>11

(* vListInsert keeps the order, and adds the thread to the list; whoever is first then has
   at least its priority, and that of the one who was. *)
LEMMA InsertedInOrder ==
    ASSUME NEW list \in Seq(Task), NEW t \in Task, uxPriority \in [Task -> Nat], ByPriority(list),
           BasePriority[t] <= uxPriority[t]
    PROVE  /\ ByPriority(InsertByPriority(list, t))
           /\ Range(InsertByPriority(list, t)) = Range(list) \cup {t}
           /\ InsertByPriority(list, t) # << >>
           /\ uxPriority[InsertByPriority(list, t)[1]] >= uxPriority[t]
           /\ list # << >> => uxPriority[InsertByPriority(list, t)[1]] >= uxPriority[list[1]]
<1> DEFINE L == Len(list)
           r == InsertByPriority(list, t)
<1>1. L \in Nat /\ DOMAIN list = 1 .. L /\ uxPriority[t] \in Nat
  OBVIOUS
<1>2. PICK m \in 0 .. L :
         /\ Cardinality({i \in DOMAIN list : \A j \in 1 .. i : uxPriority[list[j]] >= uxPriority[t]}) = m
         /\ \A i \in 1 .. m : uxPriority[list[i]] >= uxPriority[t]
         /\ m # L => uxPriority[list[m + 1]] < uxPriority[t]
  BY <1>1, HigherFirst
<1>3. m \in 0 .. L /\ L \in Nat
  BY <1>1
<1>4. r = InsertAt(list, m + 1, t)
  <2>1. r = SubSeq(list, 1, m) \o <<t>> \o SubSeq(list, m + 1, L)
    BY <1>2 DEF InsertByPriority
  <2> HIDE DEF r
  <2>2. (m + 1) - 1 = m
    BY <1>3
  <2> QED
    BY <2>1, <2>2 DEF InsertAt
<1> HIDE DEF r
<1>5. /\ r \in Seq(Task) /\ Len(r) = L + 1
      /\ \A j \in 1 .. L + 1 :
            r[j] = IF j <= m THEN list[j] ELSE IF j = m + 1 THEN t ELSE list[j - 1]
  <2> DEFINE x == InsertAt(list, m + 1, t)
  <2>1. /\ x \in Seq(Task) /\ Len(x) = L + 1
        /\ \A j \in 1 .. L + 1 :
              x[j] = IF j <= m THEN list[j] ELSE IF j = m + 1 THEN t ELSE list[j - 1]
    BY <1>2, InsertAtRight
  <2> HIDE DEF x
  <2> QED
    BY <1>4, <2>1 DEF x
<1>6. DOMAIN r = 1 .. L + 1 /\ m \in Nat
  BY <1>2, <1>5
\* Where the thread at j comes from.
<1> DEFINE from(j) == IF j <= m THEN j ELSE j - 1
<1>7. ASSUME NEW j \in DOMAIN r, j # m + 1
      PROVE  from(j) \in 1 .. L /\ r[j] = list[from(j)] /\ (from(j) <= m <=> j <= m)
  <2>1. m \in Nat /\ m <= L /\ j \in 1 .. L + 1
    BY <1>1, <1>6
  <2>2. from(j) \in 1 .. L /\ (from(j) <= m <=> j <= m)
    BY <1>1, <1>7, <2>1
  <2>3. r[j] = list[from(j)]
    BY <1>5, <1>7, <2>1
  <2> QED
    BY <2>2, <2>3
<1>8. m + 1 \in DOMAIN r /\ r[m + 1] = t
  <2>1. m + 1 \in 1 .. L + 1 /\ ~(m + 1 <= m)
    BY <1>3
  <2> QED
    BY <1>5, <1>6, <2>1
<1>9. /\ \A i \in 1 .. L : uxPriority[list[i]] \in Nat /\ BasePriority[list[i]] \in Nat
      /\ BasePriority[t] \in Nat
  BY <1>1, KernelAssumption
<1>10. ASSUME NEW j \in DOMAIN r, NEW k \in DOMAIN r, j <= k
      PROVE  BasePriority[r[k]] <= uxPriority[r[j]]
  <2>1. CASE j = m + 1 /\ k = m + 1
    BY <1>8, <2>1
  <2>2. CASE j = m + 1 /\ k # m + 1
    <3>1. from(k) \in 1 .. L /\ r[k] = list[from(k)] /\ ~(from(k) <= m)
      BY <1>2, <1>6, <1>7, <1>10, <2>2
    <3> HIDE DEF from
    <3>2. m + 1 \in 1 .. L /\ m # L /\ m + 1 <= from(k)
      BY <1>1, <1>2, <3>1
    <3>3. BasePriority[list[from(k)]] <= uxPriority[list[m + 1]]
      BY <1>1, <3>1, <3>2 DEF ByPriority
    <3>4. uxPriority[list[m + 1]] < uxPriority[t]
      BY <1>2, <3>2
    <3>5. BasePriority[list[from(k)]] \in Nat /\ uxPriority[list[m + 1]] \in Nat
      BY <1>9, <3>1, <3>2
    <3>6. BasePriority[list[from(k)]] <= uxPriority[t]
      BY <1>1, <3>3, <3>4, <3>5
    <3> QED
      BY <1>8, <2>2, <3>1, <3>6
  <2>3. CASE k = m + 1 /\ j # m + 1
    <3>1. from(j) \in 1 .. m /\ from(j) \in 1 .. L /\ r[j] = list[from(j)]
      BY <1>2, <1>6, <1>7, <1>10, <2>3
    <3> HIDE DEF from
    <3>2. uxPriority[list[from(j)]] >= uxPriority[t] /\ uxPriority[list[from(j)]] \in Nat
      BY <1>2, <1>9, <3>1
    <3>3. BasePriority[t] <= uxPriority[list[from(j)]]
      BY <1>1, <1>9, <3>2
    <3> QED
      BY <1>8, <2>3, <3>1, <3>3
  <2>4. CASE j # m + 1 /\ k # m + 1
    <3>1. /\ from(j) \in 1 .. L /\ r[j] = list[from(j)]
          /\ from(k) \in 1 .. L /\ r[k] = list[from(k)]
      BY <1>7, <2>4
    <3>2. from(j) <= from(k)
      BY <1>2, <1>6, <1>10, <2>4
    <3> HIDE DEF from
    <3> QED
      BY <1>1, <3>1, <3>2 DEF ByPriority
  <2> QED
    BY <2>1, <2>2, <2>3, <2>4
<1>11. Range(r) = Range(list) \cup {t}
  <2>1. ASSUME NEW j \in DOMAIN r PROVE r[j] = t \/ \E i \in DOMAIN list : r[j] = list[i]
    <3>1. CASE j = m + 1
      BY <1>8, <3>1
    <3>2. CASE j # m + 1
      <4>1. from(j) \in DOMAIN list /\ r[j] = list[from(j)]
        BY <1>1, <1>7, <3>2
      <4> HIDE DEF from
      <4> QED
        BY <4>1
    <3> QED
      BY <3>1, <3>2
  <2>2. ASSUME NEW i \in DOMAIN list PROVE \E j \in DOMAIN r : r[j] = list[i]
    <3>1. CASE i <= m
      <4>1. i \in DOMAIN r /\ r[i] = list[i]
        BY <1>1, <1>5, <1>6, <1>3, <3>1
      <4> QED
        BY <4>1
    <3>2. CASE ~(i <= m)
      <4>1. i + 1 \in DOMAIN r /\ r[i + 1] = list[i]
        BY <1>1, <1>5, <1>6, <1>3, <3>2
      <4> QED
        BY <4>1
    <3> QED
      BY <3>1, <3>2
  <2> QED
    BY <1>8, <2>1, <2>2 DEF Range
<1> HIDE DEF from
<1>12. r # << >> /\ 1 \in 1 .. L + 1
  BY <1>1, <1>5
<1>13. uxPriority[r[1]] >= uxPriority[t] /\ (list # << >> => uxPriority[r[1]] >= uxPriority[list[1]])
  <2>1. CASE m = 0
    <3>1. r[1] = t
      BY <1>8, <2>1
    <3>2. ASSUME list # << >> PROVE uxPriority[list[1]] < uxPriority[t] /\ uxPriority[list[1]] \in Nat
      <4>1. L # 0
        BY <3>2
      <4>2. 1 \in 1 .. L /\ m # L
        BY <1>1, <2>1, <4>1
      <4> QED
        BY <1>2, <1>9, <2>1, <4>2
    <3> QED
      BY <1>1, <3>1, <3>2
  <2>2. CASE m # 0
    <3>1. 1 \in 1 .. m /\ 1 \in 1 .. L /\ 1 <= m
      BY <1>3, <2>2
    <3>2. r[1] = list[1]
      BY <1>5, <1>12, <3>1
    <3>3. uxPriority[list[1]] >= uxPriority[t] /\ uxPriority[list[1]] \in Nat
      BY <1>2, <1>9, <3>1
    <3> QED
      BY <3>2, <3>3
  <2> QED
    BY <2>1, <2>2
<1> QED
  BY <1>10, <1>11, <1>12, <1>13 DEF ByPriority, r


\* The threads that wait for a mutex.
Askers(h) == Range(waitingToReceive[h])

PrioType ==
    /\ uxPriority \in [Task -> Nat] /\ uxMutexesHeld \in [Task -> Nat]
    /\ pxMutexHolder \in [Handle -> Task \cup {NULL}] /\ IsFcn(blocked, Task)

\* The mutexes a thread holds: none, one, or log_mutex and one more.
Holds(t, S) == \A h \in Mutex : pxMutexHolder[h] = t <=> h \in S

HoldsRight(t) ==
    \/ uxMutexesHeld[t] = 0 /\ Holds(t, {})
    \/ uxMutexesHeld[t] = 1 /\ \E k \in Mutex : Holds(t, {k})
    \/ uxMutexesHeld[t] = 2 /\ \E k \in Mutex \ {Outer} : Holds(t, {Outer, k})

\* A mutex that is taken has a holder, that of log_mutex is a thread that logs; interrupts
\* leave mutexes alone.
HoldersRight ==
    /\ \A h \in Mutex : pxMutexHolder[h] = NULL <=> uxMessagesWaiting[h] # 0
    /\ \A t \in Task : HoldsRight(t)
    /\ pxMutexHolder[Outer] \in Nests \cup {NULL}
    /\ \A h \in Mutex : xTxLock[h] <= 0

\* A mutex is given by its holder, and asked for without a timeout by a thread that may;
\* a thread that goes to sleep for it goes while it is taken.
AsksRight(t) ==
    call[t].op \in Ops /\ call[t].h \in Mutex =>
        /\ call[t].op = "send" => MayGive(t, call[t].h) /\ pc[t] = "try"
        /\ call[t].op = "receive" => call[t].wait # "finite" /\ MayTake(t, call[t].h)
        /\ call[t].op = "receive" /\ call[t].h = Outer => t \in Nests
        /\ pc[t] = "place" => uxMessagesWaiting[call[t].h] = 0

\* The threads that wait for a mutex are in such an order that none has a priority of its
\* own above that of a thread before it, and no tick wakes them.
OrderRight ==
    \A h \in Mutex :
        /\ ByPriority(waitingToReceive[h])
        /\ \A t \in Askers(h) : blocked[t] # "finite"

\* The thread that waits first has at least some priority.
Foremost(h, p) == waitingToReceive[h] # << >> /\ uxPriority[waitingToReceive[h][1]] >= p

\* A thread that takes mutexes without log_mutex has a higher priority than this one.
Rival(t) == \E w \in Direct : BasePriority[w] > BasePriority[t]

\* A thread has more than its own priority only while one that has as much waits first for a
\* mutex it holds, or while it still holds log_mutex after giving that one to such a thread.
LiftedRight ==
    \A t \in Task :
        /\ uxPriority[t] >= BasePriority[t]
        /\ uxPriority[t] # BasePriority[t] =>
              \/ \E h \in Mutex : pxMutexHolder[h] = t /\ Foremost(h, uxPriority[t])
              \/ pxMutexHolder[Outer] = t /\ Rival(t)

\* The thread that was woken for a free mutex.
Taker(u, h) == call[u].op = "receive" /\ call[u].h = h /\ pc[u] = "try"

\* The holder has the priority of every thread that waits; while a mutex is free, the
\* thread that was woken for it has.
InheritRight ==
    \A h \in Mutex : \A t \in Askers(h) :
        /\ pxMutexHolder[h] # NULL => uxPriority[pxMutexHolder[h]] >= BasePriority[t]
        /\ pxMutexHolder[h] = NULL =>
              \E u \in Awake : Taker(u, h) /\ uxPriority[u] >= BasePriority[t]

\* No ready thread has a higher priority than the running one, unless a switch is requested.
CurrentRight ==
    uxSchedulerSuspended \/ ~pendsv => \A t \in ready : uxPriority[t] <= uxPriority[pxCurrentTCB]

PrioInv ==
    /\ PrioType /\ HoldersRight /\ (\A t \in Task : AsksRight(t)) /\ OrderRight /\ LiftedRight
    /\ InheritRight /\ CurrentRight

(* A mutex is a handle of one place, in no set, and is no set. *)
LEMMA MutexIs ==
    ASSUME NEW h \in Mutex
    PROVE  h \in Handle /\ Length[h] = 1 /\ Container[h] = NULL /\ \A g \in Handle : Container[g] # h
  BY KernelAssumption, MutexAssumption

(* A thread that waits for a mutex is asleep in its call, and may ask for it. *)
LEMMA AskersRight ==
    ASSUME KernelInv, PrioInv, NEW h \in Mutex, NEW u \in Askers(h)
    PROVE  /\ u \in Task /\ u \notin Awake /\ Waits(u, h, "receive")
           /\ MayTake(u, h) /\ (h = Outer => u \in Nests)
<1>1. KernelType /\ WaitersRight /\ h \in Handle /\ waitingToReceive[h] \in Seq(Task)
  BY MutexIs DEF KernelInv, WaitsInv, KernelType
<1>2. PICK i \in DOMAIN waitingToReceive[h] : u = waitingToReceive[h][i]
  BY DEF Askers, Range
<1>3. EventList(h, "receive") = waitingToReceive[h] /\ "receive" \in Ops
  BY DEF EventList, Ops
<1>4. u \notin Awake /\ Waits(u, h, "receive")
  BY <1>1, <1>2, <1>3 DEF WaitersRight
<1>5. u \in Task
  BY <1>1, <1>2
<1>6. AsksRight(u) /\ call[u].op = "receive" /\ call[u].h = h
  BY <1>4, <1>5 DEF PrioInv, Waits
<1>7. MayTake(u, h) /\ (h = Outer => u \in Nests)
  BY <1>3, <1>6 DEF AsksRight
<1> QED
  BY <1>4, <1>5, <1>7

(* A thread that waits for a mutex without log_mutex holds none: it waits for log_mutex, or
   is one of those that take the others directly. *)
LEMMA AsksFirst ==
    ASSUME KernelInv, PrioInv, NEW h \in Mutex, NEW u \in Askers(h), pxMutexHolder[Outer] # u
    PROVE  uxPriority[u] = BasePriority[u] /\ (h = Outer \/ u \in Direct)
<1>1. u \in Task /\ MayTake(u, h)
  BY AskersRight
<1>2. uxMutexesHeld[u] = 0 /\ (h = Outer \/ u \in Direct)
  BY <1>1 DEF MayTake
<1>3. \A g \in Mutex : pxMutexHolder[g] # u
  <2>1. HoldsRight(u)
    BY <1>1 DEF PrioInv, HoldersRight
  <2> QED
    BY <1>2, <2>1 DEF HoldsRight, Holds
<1>4. uxPriority[u] = BasePriority[u]
  BY <1>1, <1>3, MutexAssumption DEF PrioInv, LiftedRight
<1> QED
  BY <1>2, <1>4

(* A step that leaves the mutexes and priorities alone, and the threads that wait for them
   or were woken for them. *)
LEMMA MutexesLeft ==
    ASSUME KernelInv, PrioInv, UNCHANGED prio,
           \A h \in Mutex : /\ waitingToReceive'[h] = waitingToReceive[h]
                            /\ uxMessagesWaiting'[h] = uxMessagesWaiting[h] /\ xTxLock'[h] <= 0,
           IsFcn(blocked', Task), \A h \in Mutex : \A u \in Askers(h) : blocked'[u] = blocked[u],
           \A h \in Mutex, u \in Awake :
              Taker(u, h) /\ uxMessagesWaiting[h] # 0 => u \in Awake' /\ Taker(u, h)'
    PROVE  PrioType' /\ HoldersRight' /\ OrderRight' /\ LiftedRight' /\ InheritRight'
<1>1. PrioType /\ HoldersRight /\ OrderRight /\ LiftedRight /\ InheritRight
  BY DEF PrioInv
<1>2. uxPriority' = uxPriority /\ uxMutexesHeld' = uxMutexesHeld /\ pxMutexHolder' = pxMutexHolder
  BY DEF prio
<1>3. PrioType'
  BY <1>1, <1>2 DEF PrioType
<1>4. HoldersRight'
  <2>1. \A t \in Task : HoldsRight(t)'
    BY <1>1, <1>2 DEF HoldersRight, HoldsRight, Holds
  <2> QED
    BY <1>1, <1>2, <2>1 DEF HoldersRight
<1>5. \A h \in Mutex : Askers(h)' = Askers(h)
  BY DEF Askers
<1>6. OrderRight'
  <2>1. \A h \in Mutex : ByPriority(waitingToReceive[h])'
    BY <1>1, <1>2 DEF OrderRight, ByPriority
  <2> QED
    BY <1>1, <1>5, <2>1 DEF OrderRight
<1>7. LiftedRight'
  <2>1. \A h \in Mutex, t \in Task : Foremost(h, uxPriority[t])' <=> Foremost(h, uxPriority[t])
    BY <1>2 DEF Foremost
  <2> QED
    BY <1>1, <1>2, <2>1 DEF LiftedRight, Rival
<1>8. InheritRight'
  <2> SUFFICES ASSUME NEW h \in Mutex, NEW t \in Askers(h)
               PROVE  /\ pxMutexHolder[h] # NULL => uxPriority[pxMutexHolder[h]] >= BasePriority[t]
                      /\ pxMutexHolder[h] = NULL =>
                            \E u \in Awake' : Taker(u, h)' /\ uxPriority[u] >= BasePriority[t]
    BY <1>2, <1>5 DEF InheritRight
  <2>1. pxMutexHolder[h] # NULL => uxPriority[pxMutexHolder[h]] >= BasePriority[t]
    BY <1>1 DEF InheritRight
  <2>2. ASSUME pxMutexHolder[h] = NULL
        PROVE  \E u \in Awake' : Taker(u, h)' /\ uxPriority[u] >= BasePriority[t]
    <3>1. PICK u \in Awake : Taker(u, h) /\ uxPriority[u] >= BasePriority[t]
      BY <1>1, <2>2 DEF InheritRight
    <3>2. uxMessagesWaiting[h] # 0
      BY <1>1, <2>2 DEF HoldersRight
    <3> QED
      BY <3>1, <3>2
  <2> QED
    BY <2>1, <2>2
<1> QED
  BY <1>3, <1>4, <1>6, <1>7, <1>8

(* The calls of the threads that do not move, and what holds of the one that does. *)
LEMMA AsksStay ==
    ASSUME PrioInv, NEW t \in Task, \A u \in Task \ {t} : Same(u) /\ pc[u] # "place",
           \A u \in Task \ {t} : uxMutexesHeld'[u] = uxMutexesHeld[u],
           \A u \in Task \ {t}, h \in Mutex : pxMutexHolder[h] = u => pxMutexHolder'[h] = u,
           AsksRight(t)'
    PROVE  \A u \in Task : AsksRight(u)'
<1>1. ASSUME NEW u \in Task, u # t PROVE AsksRight(u)'
  <2>1. AsksRight(u) /\ Same(u) /\ pc[u] # "place" /\ uxMutexesHeld'[u] = uxMutexesHeld[u]
    BY <1>1 DEF PrioInv
  <2>2. \A h \in Mutex : pxMutexHolder[h] = u => pxMutexHolder'[h] = u
    BY <1>1
  <2>3. \A h \in Mutex : (MayTake(u, h) => MayTake(u, h)') /\ (MayGive(u, h) => MayGive(u, h)')
    BY <2>1, <2>2, MutexAssumption DEF MayTake, MayGive
  <2> QED
    BY <2>1, <2>3 DEF AsksRight, Same
<1> QED
  BY <1>1

(* An interrupt leaves the calls alone. *)
LEMMA AsksSame ==
    ASSUME PrioInv, \A u \in Task : Same(u), UNCHANGED prio,
           \A h \in Mutex : uxMessagesWaiting'[h] = uxMessagesWaiting[h]
    PROVE  \A u \in Task : AsksRight(u)'
<1>1. ASSUME NEW u \in Task PROVE AsksRight(u)'
  <2>1. AsksRight(u) /\ Same(u) /\ pxMutexHolder' = pxMutexHolder /\ uxMutexesHeld' = uxMutexesHeld
    BY DEF PrioInv, prio
  <2>2. \A h \in Mutex : (MayTake(u, h) => MayTake(u, h)') /\ (MayGive(u, h) => MayGive(u, h)')
    BY <2>1 DEF MayTake, MayGive
  <2> QED
    BY <2>1, <2>2 DEF AsksRight, Same
<1> QED
  BY <1>1

(* A step of a thread that moves nobody else. *)
LEMMA MovesAlone ==
    ASSUME KernelInv, PrioInv, NEW t \in Task, pxCurrentTCB = t, \A u \in Task \ {t} : Same(u) /\ pc[u] # "place",
           UNCHANGED <<prio, ring, lists>>, \A h \in Mutex : xTxLock'[h] <= 0,
           IsFcn(blocked', Task), \A u \in Task \ {t} : blocked'[u] = blocked[u], t \in Awake,
           Awake \ {t} \subseteq Awake', ready' \subseteq ready, pxCurrentTCB' = pxCurrentTCB,
           uxSchedulerSuspended' \/ ~pendsv' => uxSchedulerSuspended \/ ~pendsv,
           \A h \in Mutex : Taker(t, h) /\ uxMessagesWaiting[h] # 0 => t \in Awake' /\ Taker(t, h)',
           AsksRight(t)'
    PROVE  PrioInv'
<1>1. \A h \in Mutex : /\ waitingToReceive'[h] = waitingToReceive[h]
                       /\ uxMessagesWaiting'[h] = uxMessagesWaiting[h]
  BY DEF lists, ring
<1>2. CurrentRight /\ KernelType
  BY DEF PrioInv, KernelInv, WaitsInv
<1>3. \A h \in Mutex : \A u \in Askers(h) : blocked'[u] = blocked[u]
  BY AskersRight
<1>4. ASSUME NEW h \in Mutex, NEW u \in Awake, Taker(u, h), uxMessagesWaiting[h] # 0
      PROVE  u \in Awake' /\ Taker(u, h)'
  <2>1. u \in Task
    BY <1>2 DEF KernelType, Awake
  <2>2. CASE u = t
    BY <1>4, <2>2
  <2>3. CASE u # t
    <3>1. Same(u) /\ u \in Awake'
      BY <2>1, <2>3
    <3> QED
      BY <1>4, <3>1 DEF Same, Taker
  <2> QED
    BY <2>2, <2>3
<1>5. PrioType' /\ HoldersRight' /\ OrderRight' /\ LiftedRight' /\ InheritRight'
  BY <1>1, <1>3, <1>4, MutexesLeft
<1>6. \A u \in Task : AsksRight(u)'
  BY AsksStay DEF prio
<1>7. CurrentRight'
  <2>1. uxPriority' = uxPriority
    BY DEF prio
  <2> QED
    BY <1>2, <2>1 DEF CurrentRight
<1> QED
  BY <1>5, <1>6, <1>7 DEF PrioInv

(* The running thread is not overtaken. *)
LEMMA RunsAlone ==
    ASSUME KernelInv, NEW t \in Task, NEW l, Running(t, l)
    PROVE  /\ pxCurrentTCB = t /\ ~pendsv /\ pc[t] = l
           /\ \A u \in Task \ {t} : pc[u] \notin Holding /\ pc[u] # "place"
           /\ l \in Holding => uxSchedulerSuspended
           /\ l \notin Holding =>
                 /\ ~uxSchedulerSuspended /\ t \in ready /\ xPendingReadyList = {} /\ Awake = ready
                 /\ \A u \in Task : pc[u] \notin Holding /\ pc[u] # "place"
<1>1. KernelType /\ SchedulerRight
  BY DEF KernelInv, WaitsInv
<1>2. "place" \in Holding
  BY DEF Holding
<1> QED
  BY <1>1, <1>2, Runs DEF Awake

(* A thread calls. *)
LEMMA EnterHolds ==
    ASSUME KernelInv, KernelInv', PrioInv, NEW t \in Task, NEW c \in work.calls[t], Enter(t, c)
    PROVE  PrioInv'
<1>1. KernelType /\ CallsOK /\ work \in Workload /\ PrioType /\ HoldersRight
  BY DEF KernelInv, WaitsInv, QueuesInv, PrioInv
<1> DEFINE l == IF c.op = "delay" THEN "delay" ELSE "try"
<1>2. /\ Running(t, "run") /\ Goto(t, l) /\ call' = [call EXCEPT ![t] = c] /\ fate' = fate
      /\ UNCHANGED <<ring, locks, lists, sched, prio>>
      /\ c.h \in Mutex => IF c.op = "send" THEN MayGive(t, c.h) ELSE MayTake(t, c.h)
  BY DEF Enter
<1>3. "run" \notin Holding
  BY DEF Holding, Leaving
<1>4. /\ pxCurrentTCB = t /\ ~pendsv /\ pc[t] = "run" /\ t \in ready /\ Awake = ready
      /\ \A u \in Task : pc[u] # "place"
  BY <1>2, <1>3, RunsAlone
<1>5. pc'[t] = l /\ \A u \in Task \ {t} : pc'[u] = pc[u]
  BY <1>1, <1>2, GoesOn
<1>6. call'[t] = c /\ \A u \in Task \ {t} : call'[u] = call[u]
  BY <1>1, <1>2 DEF CallsOK, IsFcn
<1>7. \A u \in Task \ {t} : Same(u) /\ pc[u] # "place"
  BY <1>2, <1>4, <1>5, <1>6 DEF Same
<1>8. AsksRight(t)'
  <2>1. c.op = "receive" /\ c.h \in Mutex => c.wait # "finite" /\ MayTake(t, c.h)'
    BY <1>1, <1>2, MutexAssumption DEF MayTake, prio
  <2>2. c.op = "send" /\ c.h \in Mutex => MayGive(t, c.h)' /\ l = "try"
    BY <1>2 DEF MayGive, prio
  <2>3. c.op = "receive" /\ c.h = Outer => t \in Nests
    BY <1>1 DEF Nests
  <2>4. l # "place"
    OBVIOUS
  <2> HIDE DEF l
  <2> QED
    BY <1>5, <1>6, <2>1, <2>2, <2>3, <2>4 DEF AsksRight, Ops
<1>9. /\ ready' = ready /\ blocked' = blocked /\ Awake' = Awake /\ pxCurrentTCB' = pxCurrentTCB
      /\ pendsv' = pendsv /\ UNCHANGED <<prio, ring, lists>>
      /\ \A h \in Mutex : xTxLock'[h] <= 0
  BY <1>1, <1>2 DEF sched, Awake, locks, HoldersRight
<1>10. \A h \in Mutex : ~Taker(t, h)
  BY <1>4 DEF Taker
<1>11. IsFcn(blocked', Task)
  BY <1>1, <1>9 DEF PrioType
<1> QED
  BY <1>4, <1>7, <1>8, <1>9, <1>10, <1>11, MovesAlone

(* A mutex is never refused to the thread that gives it. *)
LEMMA GiverServed ==
    ASSUME KernelInv, PrioInv, NEW t \in Task, call[t].op \in Ops, Stuck(t), call[t].h \in Mutex
    PROVE  call[t].op = "receive" /\ uxMessagesWaiting[call[t].h] = 0
<1>1. PICK h \in Mutex : h = call[t].h
  OBVIOUS
<1>2. AsksRight(t) /\ HoldersRight /\ t # NULL
  BY KernelAssumption DEF PrioInv
<1>3. call[t].op = "send" => uxMessagesWaiting[h] = 0
  BY <1>1, <1>2 DEF AsksRight, MayGive, HoldersRight, Ops
<1>4. Length[h] = 1
  BY MutexIs
<1> QED
  BY <1>1, <1>3, <1>4 DEF Stuck, HasRoom, Ops

(* The first look at the queue finds nothing. *)
LEMMA RefusedHolds ==
    ASSUME KernelInv, KernelInv', PrioInv, NEW t \in Task, Refused(t)
    PROVE  PrioInv'
<1>1. KernelType /\ CallsOK /\ CallRight(t) /\ PrioType /\ HoldersRight /\ AsksRight(t)
  BY DEF KernelInv, WaitsInv, QueuesInv, PrioInv, CallsRight
<1>2. Running(t, "try") /\ Stuck(t) /\ UNCHANGED <<ring, locks, lists, sched, prio>>
  BY DEF Refused
<1>3. "try" \notin Holding
  BY DEF Holding, Leaving
<1>4. /\ pxCurrentTCB = t /\ ~pendsv /\ pc[t] = "try" /\ t \in ready /\ Awake = ready
      /\ \A u \in Task : pc[u] # "place"
  BY <1>2, <1>3, RunsAlone
<1>5. call[t].op \in Ops
  BY <1>1, <1>4 DEF CallRight, Seeking
<1>6. call[t].h \in Mutex => call[t].op = "receive" /\ uxMessagesWaiting[call[t].h] = 0
  BY <1>2, <1>5, GiverServed
<1>7. (\A u \in Task \ {t} : Same(u)) /\ AsksRight(t)'
  <2>1. CASE call[t].wait = "no"
    <3>1. Return(t)
      BY <2>1 DEF Refused
    <3>2. call'[t].op = "none" /\ \A u \in Task \ {t} : Same(u)
      BY <1>1, <3>1, Returned
    <3> QED
      BY <3>2 DEF AsksRight, Ops
  <2>2. CASE call[t].wait # "no"
    <3>1. Goto(t, "suspend") /\ call' = call /\ fate' = fate
      BY <2>2 DEF Refused
    <3>2. pc'[t] = "suspend" /\ \A u \in Task \ {t} : pc'[u] = pc[u]
      BY <1>1, <3>1, GoesOn
    <3>3. AsksRight(t)'
      BY <1>1, <1>2, <1>6, <3>1, <3>2 DEF AsksRight, MayTake, prio
    <3> QED
      BY <3>1, <3>2, <3>3 DEF Same
  <2> QED
    BY <2>1, <2>2
<1>8. /\ ready' = ready /\ blocked' = blocked /\ Awake' = Awake /\ pxCurrentTCB' = pxCurrentTCB
      /\ pendsv' = pendsv /\ UNCHANGED <<prio, ring, lists>>
      /\ \A h \in Mutex : xTxLock'[h] <= 0
  BY <1>1, <1>2 DEF sched, Awake, locks, HoldersRight
<1>9. \A h \in Mutex : Taker(t, h) => uxMessagesWaiting[h] = 0
  BY <1>6 DEF Taker
<1>10. IsFcn(blocked', Task)
  BY <1>1, <1>8 DEF PrioType
<1> QED
  BY <1>4, <1>7, <1>8, <1>9, <1>10, MovesAlone

(* A thread that is past its first look does not give a mutex. *)
LEMMA AsksOn ==
    ASSUME NEW t \in Task, AsksRight(t), pc[t] # "try", pc'[t] # "place", call'[t] = call[t],
           UNCHANGED <<pxMutexHolder, uxMutexesHeld>>
    PROVE  AsksRight(t)'
<1>1. ~(call[t].op = "send" /\ call[t].h \in Mutex)
  BY DEF AsksRight, Ops
<1> QED
  BY <1>1 DEF AsksRight, MayTake, Ops

(* vTaskSuspendAll and prvLockQueue, the second look, and the end of a delay. *)
LEMMA SuspendAllHolds ==
    ASSUME KernelInv, KernelInv', PrioInv, NEW t \in Task,
           SuspendAll(t) \/ prvLockQueue(t) \/ EndDelay(t)
    PROVE  PrioInv'
<1>1. KernelType /\ CallsOK /\ SchedulerRight /\ CallRight(t) /\ PrioType /\ HoldersRight /\ AsksRight(t)
  BY DEF KernelInv, WaitsInv, QueuesInv, PrioInv, CallsRight
<1>2. /\ Running(t, "suspend") \/ Running(t, "lock") \/ Running(t, "woken")
      /\ UNCHANGED <<ring, lists, prio, ready, blocked, xPendingReadyList, pxCurrentTCB, pendsv>>
  BY DEF SuspendAll, prvLockQueue, EndDelay, sched
<1>3. "suspend" \notin Holding /\ "woken" \notin Holding
  BY DEF Holding, Leaving
<1>4. /\ pxCurrentTCB = t /\ ~pendsv /\ pc[t] \in {"suspend", "lock", "woken"}
      /\ \A u \in Task \ {t} : pc[u] # "place"
  BY <1>2, RunsAlone
<1>5. t \in ready
  BY <1>1, <1>2, <1>3, <1>4, RunsAlone DEF SchedulerRight
<1>6. (\A u \in Task \ {t} : Same(u)) /\ AsksRight(t)'
  <2>1. CASE EndDelay(t)
    <3>1. call'[t].op = "none" /\ \A u \in Task \ {t} : Same(u)
      BY <1>1, <2>1, Returned DEF EndDelay
    <3> QED
      BY <3>1 DEF AsksRight, Ops
  <2>2. CASE SuspendAll(t) \/ prvLockQueue(t)
    <3>1. call' = call /\ fate' = fate /\ (Goto(t, "lock") \/ Goto(t, "check"))
      BY <2>2 DEF SuspendAll, prvLockQueue
    <3>2. pc'[t] \in {"lock", "check"} /\ \A u \in Task \ {t} : pc'[u] = pc[u]
      BY <1>1, <3>1, GoesOn
    <3>3. AsksRight(t)'
      BY <1>1, <1>2, <1>4, <3>1, <3>2, AsksOn DEF prio
    <3> QED
      BY <3>1, <3>2, <3>3 DEF Same
  <2> QED
    BY <2>1, <2>2
<1>7. \A h \in Mutex : xTxLock'[h] <= 0
  <2>1. CASE UNCHANGED xTxLock
    BY <1>1, <2>1 DEF HoldersRight
  <2>2. CASE prvLockQueue(t)
    <3>1. xTxLock' = [xTxLock EXCEPT ![call[t].h] = LockCount(@)]
      BY <2>2 DEF prvLockQueue
    <3>2. ASSUME NEW h \in Mutex PROVE xTxLock'[h] <= 0
      <4>1. h \in Handle /\ xTxLock[h] <= 0 /\ xTxLock \in [Handle -> LockCounts]
        BY <1>1, MutexIs DEF HoldersRight, KernelType
      <4>2. xTxLock'[h] = IF h = call[t].h THEN LockCount(xTxLock[h]) ELSE xTxLock[h]
        BY <3>1, <4>1
      <4>3. LockCount(xTxLock[h]) <= 0
        BY <4>1 DEF LockCount
      <4> QED
        BY <4>1, <4>2, <4>3
    <3> QED
      BY <3>2
  <2> QED
    BY <2>1, <2>2 DEF SuspendAll, EndDelay, locks
<1>8. /\ Awake' = Awake /\ t \in Awake /\ IsFcn(blocked', Task) /\ \A h \in Mutex : ~Taker(t, h)
  BY <1>1, <1>2, <1>4, <1>5 DEF Awake, PrioType, Taker
<1> QED
  BY <1>2, <1>4, <1>6, <1>7, <1>8, MovesAlone

(* The second look: a thread goes to sleep for a mutex only while it is taken. *)
LEMMA CheckHolds ==
    ASSUME KernelInv, KernelInv', PrioInv, NEW t \in Task, Check(t)
    PROVE  PrioInv'
<1>1. KernelType /\ CallsOK /\ SchedulerRight /\ CallRight(t) /\ PrioType /\ HoldersRight /\ AsksRight(t)
  BY DEF KernelInv, WaitsInv, QueuesInv, PrioInv, CallsRight
<1>2. Running(t, "check") /\ UNCHANGED <<ring, locks, lists, prio, sched, call>>
  BY DEF Check
<1>3. PICK out : /\ fate' = [fate EXCEPT ![t] = IF out THEN "fail" ELSE IF Stuck(t) THEN "block"
                                                ELSE "retry"]
                 /\ Goto(t, IF ~out /\ Stuck(t) THEN "place" ELSE "unlocktx")
  BY DEF Check
<1>4. /\ pxCurrentTCB = t /\ ~pendsv /\ pc[t] = "check" /\ \A u \in Task \ {t} : pc[u] # "place"
  BY <1>2, RunsAlone
<1>5. t \in ready /\ call[t].op \in Ops
  BY <1>1, <1>4 DEF SchedulerRight, CallRight, Seeking
<1>6. /\ pc'[t] = (IF ~out /\ Stuck(t) THEN "place" ELSE "unlocktx")
      /\ \A u \in Task \ {t} : pc'[u] = pc[u]
  BY <1>1, <1>3, GoesOn
<1>7. \A u \in Task \ {t} : Same(u)
  BY <1>1, <1>2, <1>3, <1>6 DEF Same, KernelType, IsFcn
<1>8. AsksRight(t)'
  <2>1. call' = call /\ uxMessagesWaiting' = uxMessagesWaiting
    BY <1>2 DEF ring
  <2>2. CASE pc'[t] # "place"
    BY <1>1, <1>2, <1>4, <2>1, <2>2, AsksOn DEF prio
  <2>3. CASE Stuck(t) /\ call[t].h \in Mutex
    <3>1. call[t].op = "receive" /\ uxMessagesWaiting[call[t].h] = 0
      BY <1>5, <2>3, GiverServed
    <3> QED
      BY <1>1, <1>2, <2>1, <3>1 DEF AsksRight, MayTake, Ops, prio
  <2>4. CASE call[t].h \notin Mutex
    BY <2>1, <2>4 DEF AsksRight
  <2> QED
    BY <1>6, <2>2, <2>3, <2>4
<1>9. /\ ready' = ready /\ blocked' = blocked /\ Awake' = Awake /\ pxCurrentTCB' = pxCurrentTCB
      /\ t \in Awake /\ pendsv' = pendsv /\ UNCHANGED <<prio, ring, lists>>
      /\ \A h \in Mutex : xTxLock'[h] <= 0
  BY <1>1, <1>2, <1>5 DEF sched, Awake, locks, HoldersRight
<1>10. IsFcn(blocked', Task) /\ \A h \in Mutex : ~Taker(t, h)
  BY <1>1, <1>4, <1>9 DEF PrioType, Taker
<1> QED
  BY <1>4, <1>7, <1>8, <1>9, <1>10, MovesAlone

(* vTaskDelay: the thread sleeps. *)
LEMMA vTaskDelayHolds ==
    ASSUME KernelInv, KernelInv', PrioInv, NEW t \in Task, vTaskDelay(t)
    PROVE  PrioInv'
<1>1. KernelType /\ CallsOK /\ PrioType /\ HoldersRight /\ AsksRight(t)
  BY DEF KernelInv, WaitsInv, QueuesInv, PrioInv
<1>2. /\ Running(t, "delay") /\ UNCHANGED <<ring, locks, lists, prio, call>> /\ Goto(t, "resume")
      /\ ready' = ready \ {t} /\ blocked' = [blocked EXCEPT ![t] = "finite"]
      /\ fate' = [fate EXCEPT ![t] = "block"] /\ pxCurrentTCB' = pxCurrentTCB
      /\ xPendingReadyList' = xPendingReadyList /\ pendsv' = pendsv
  BY DEF vTaskDelay
<1>3. "delay" \notin Holding
  BY DEF Holding, Leaving
<1>4. /\ pxCurrentTCB = t /\ ~pendsv /\ pc[t] = "delay" /\ t \in ready /\ Awake = ready
      /\ \A u \in Task : pc[u] # "place"
  BY <1>2, <1>3, RunsAlone
<1>5. pc'[t] = "resume" /\ \A u \in Task \ {t} : pc'[u] = pc[u]
  BY <1>1, <1>2, GoesOn
<1>6. \A u \in Task \ {t} : Same(u)
  BY <1>1, <1>2, <1>5 DEF Same, KernelType, IsFcn
<1>7. AsksRight(t)'
  BY <1>1, <1>2, <1>4, <1>5, AsksOn DEF prio
<1>8. /\ Awake \ {t} \subseteq Awake' /\ \A h \in Mutex : xTxLock'[h] <= 0 /\ ~Taker(t, h)
      /\ IsFcn(blocked', Task) /\ \A u \in Task \ {t} : blocked'[u] = blocked[u]
  BY <1>1, <1>2, <1>4 DEF Awake, locks, HoldersRight, Taker, PrioType, IsFcn
<1> QED
  BY <1>2, <1>4, <1>6, <1>7, <1>8, MovesAlone

(* Threads that wait for something else than a mutex are woken. *)
LEMMA WakesOthers ==
    ASSUME KernelInv, PrioInv, NEW g, NEW o, NEW W \in SUBSET Task,
           \A w \in W : w \notin Awake /\ Waits(w, g, o), W = {} \/ g \notin Mutex \/ o # "receive",
           Unblock(W)
    PROVE  /\ IsFcn(blocked', Task) /\ Awake \subseteq Awake'
           /\ \A h \in Mutex : Askers(h) \cap W = {} /\ \A u \in Askers(h) : blocked'[u] = blocked[u]
<1>1. KernelType /\ SchedulerRight /\ PrioType /\ HoldersRight
  BY DEF KernelInv, WaitsInv, PrioInv
<1>2. \A h \in Mutex : \A u \in Askers(h) : u \in Task /\ u \notin W
  BY <1>1, AskersRight DEF Waits
<1>3. IsFcn(blocked', Task) /\ \A u \in Task \ W : blocked'[u] = blocked[u]
  BY <1>1 DEF Unblock, PrioType, IsFcn
<1>4. W \cap Awake = {}
  OBVIOUS
<1>5. Awake \subseteq Awake'
  BY <1>1, <1>4, Unblocked
<1> QED
  BY <1>2, <1>3, <1>5

(* A switch is requested if one of them is better than the running thread. *)
LEMMA WakesCurrent ==
    ASSUME KernelInv, PrioInv, NEW W \in SUBSET Task, Unblock(W), UNCHANGED prio,
           pxCurrentTCB' = pxCurrentTCB, uxSchedulerSuspended' = uxSchedulerSuspended,
           ~uxSchedulerSuspended /\ ~pendsv' => ~pendsv /\ ~Higher(W)
    PROVE  CurrentRight'
<1>1. PrioType /\ CurrentRight /\ pxCurrentTCB \in Task /\ uxPriority' = uxPriority
  BY DEF PrioInv, KernelInv, WaitsInv, KernelType, prio
<1>2. CASE uxSchedulerSuspended
  BY <1>1, <1>2 DEF Unblock, CurrentRight
<1>3. CASE ~uxSchedulerSuspended
  <2>1. ready' = ready \cup W
    BY <1>3 DEF Unblock
  <2>2. ~Higher(W) => \A w \in W : uxPriority[w] <= uxPriority[pxCurrentTCB]
    BY <1>1 DEF Higher, PrioType
  <2> QED
    BY <1>1, <1>3, <2>1, <2>2 DEF CurrentRight
<1> QED
  BY <1>2, <1>3

(* The woken threads of a list, by the invariant. *)
LEMMA FirstWaits ==
    ASSUME KernelInv, NEW g \in Handle, NEW o \in Ops, NEW n \in Int,
           NEW W, W = {} \/ W = FirstOf(EventList(g, o), n)
    PROVE  W \in SUBSET Task /\ \A w \in W : w \notin Awake /\ Waits(w, g, o)
<1>1. ListsType /\ WaitersRight
  BY DEF KernelInv, WaitsInv, KernelType, ListsType
<1>2. W \subseteq Task /\ W \cap Awake = {} /\ \A w \in W : Waits(w, g, o)
  BY <1>1, WokenFirst
<1> QED
  BY <1>2

(* prvUnlockQueue, first half: a mutex has no wakeups owed. *)
LEMMA UnlockTxHolds ==
    ASSUME KernelInv, KernelInv', PrioInv, NEW t \in Task, UnlockTx(t)
    PROVE  PrioInv'
<1>1. /\ KernelType /\ CallsOK /\ CallRight(t) /\ PrioType /\ HoldersRight /\ AsksRight(t) /\ ListsType
      /\ SchedulerRight
  BY DEF KernelInv, WaitsInv, QueuesInv, PrioInv, CallsRight, KernelType, ListsType
<1>2. PICK h, W : h = call[t].h /\ W = FirstOf(waitingToReceive[h], xTxLock[h])
  OBVIOUS
<1>3. /\ Running(t, "unlocktx") /\ Goto(t, "unlockrx") /\ UNCHANGED <<ring, prio, call, fate>> /\ Unblock(W)
      /\ waitingToReceive' = [waitingToReceive EXCEPT ![h] = Without(@, W)]
      /\ xTxLock' = [xTxLock EXCEPT ![h] = queueUNLOCKED]
      /\ pxCurrentTCB' = pxCurrentTCB /\ uxSchedulerSuspended' = uxSchedulerSuspended /\ pendsv' = pendsv
  BY <1>2 DEF UnlockTx
<1>4. "unlocktx" \in Holding
  BY DEF Holding, Leaving
<1>5. /\ uxSchedulerSuspended /\ ~pendsv /\ pc[t] = "unlocktx" /\ \A u \in Task \ {t} : pc[u] # "place"
  BY <1>3, <1>4, RunsAlone
<1>6. h \in Handle /\ xTxLock[h] \in Int /\ waitingToReceive[h] \in Seq(Task)
  <2>1. h \in Handle
    BY <1>1, <1>2, <1>5 DEF CallRight, CallsOK, Ops
  <2> QED
    BY <1>1, <2>1 DEF KernelType, LockCounts
<1>7. "receive" \in Ops /\ EventList(h, "receive") = waitingToReceive[h]
  BY DEF Ops, EventList
<1>8. W \in SUBSET Task /\ \A w \in W : w \notin Awake /\ Waits(w, h, "receive")
  BY <1>2, <1>6, <1>7, FirstWaits
<1>9. h \in Mutex => W = {}
  <2>1. ASSUME h \in Mutex PROVE W = {}
    <3>1. xTxLock[h] <= 0 /\ Len(waitingToReceive[h]) \in Nat
      BY <1>1, <1>6, <2>1 DEF HoldersRight
    <3>2. \A n \in Int : n <= 0 => 1 .. n = {}
      OBVIOUS
    <3>3. (IF xTxLock[h] < Len(waitingToReceive[h]) THEN xTxLock[h] ELSE Len(waitingToReceive[h])) <= 0
      BY <1>6, <3>1
    <3> QED
      BY <1>2, <1>6, <3>1, <3>2, <3>3 DEF FirstOf
  <2> QED
    BY <2>1
<1>10. /\ IsFcn(blocked', Task) /\ Awake \subseteq Awake'
       /\ \A k \in Mutex : Askers(k) \cap W = {} /\ \A u \in Askers(k) : blocked'[u] = blocked[u]
  BY <1>3, <1>8, <1>9, WakesOthers
<1>11. ASSUME NEW k \in Mutex
       PROVE  /\ waitingToReceive'[k] = waitingToReceive[k]
              /\ uxMessagesWaiting'[k] = uxMessagesWaiting[k] /\ xTxLock'[k] <= 0
  <2>1. k \in Handle /\ xTxLock[k] <= 0 /\ queueUNLOCKED <= 0
    BY <1>1, MutexIs DEF HoldersRight, queueUNLOCKED
  <2>2. xTxLock'[k] <= 0 /\ uxMessagesWaiting'[k] = uxMessagesWaiting[k]
    BY <1>1, <1>3, <2>1 DEF KernelType, ring
  <2>3. CASE k = h
    <3>1. waitingToReceive'[k] = Without(waitingToReceive[k], W)
      BY <1>1, <1>3, <2>1, <2>3 DEF ListsType
    <3> QED
      BY <1>6, <1>10, <2>2, <2>3, <3>1, NobodyLeaves DEF Askers
  <2>4. CASE k # h
    <3>1. waitingToReceive'[k] = waitingToReceive[k]
      BY <1>1, <1>3, <2>1, <2>4 DEF ListsType
    <3> QED
      BY <2>2, <3>1
  <2> QED
    BY <2>3, <2>4
<1>12. pc'[t] = "unlockrx" /\ \A u \in Task \ {t} : Same(u)
  BY <1>1, <1>3, GoesOn DEF Same
<1>13. ASSUME NEW k \in Mutex, NEW u \in Awake, Taker(u, k) PROVE u \in Awake' /\ Taker(u, k)'
  <2>1. u \in Task \ {t}
    BY <1>1, <1>5, <1>13 DEF KernelType, Awake, Taker
  <2>2. Same(u)
    BY <1>12, <2>1
  <2> QED
    BY <1>10, <1>13, <2>2 DEF Same, Taker
<1>14. PrioType' /\ HoldersRight' /\ OrderRight' /\ LiftedRight' /\ InheritRight'
  BY <1>3, <1>10, <1>11, <1>13, MutexesLeft
<1>15. \A u \in Task : AsksRight(u)'
  <2>1. AsksRight(t)'
    BY <1>1, <1>3, <1>5, <1>12, AsksOn DEF prio
  <2> QED
    BY <1>3, <1>5, <1>12, <2>1, AsksStay DEF prio
<1>16. CurrentRight'
  BY <1>3, <1>5, <1>8, WakesCurrent
<1> QED
  BY <1>14, <1>15, <1>16 DEF PrioInv

(* Steps that take threads W off a list of senders. *)
LEMMA SendersWoken ==
    ASSUME KernelInv, PrioInv, NEW g \in Handle, NEW n \in Int,
           NEW W, W = {} \/ W = FirstOf(waitingToSend[g], n), Unblock(W), UNCHANGED prio,
           waitingToReceive' = waitingToReceive, xTxLock' = xTxLock,
           \A h \in Mutex : uxMessagesWaiting'[h] = uxMessagesWaiting[h],
           \A h \in Mutex, u \in Awake : Taker(u, h) /\ uxMessagesWaiting[h] # 0 => Taker(u, h)'
    PROVE  /\ PrioType' /\ HoldersRight' /\ OrderRight' /\ LiftedRight' /\ InheritRight'
           /\ W \in SUBSET Task
<1>1. "send" \in Ops /\ EventList(g, "send") = waitingToSend[g]
  BY DEF Ops, EventList
<1>2. W \in SUBSET Task /\ \A w \in W : w \notin Awake /\ Waits(w, g, "send")
  BY <1>1, FirstWaits
<1>3. /\ IsFcn(blocked', Task) /\ Awake \subseteq Awake'
      /\ \A h \in Mutex : \A u \in Askers(h) : blocked'[u] = blocked[u]
  BY <1>2, WakesOthers
<1>4. \A h \in Mutex : waitingToReceive'[h] = waitingToReceive[h] /\ xTxLock'[h] <= 0
  BY DEF PrioInv, HoldersRight
<1>5. \A h \in Mutex, u \in Awake : Taker(u, h) /\ uxMessagesWaiting[h] # 0 => u \in Awake' /\ Taker(u, h)'
  BY <1>3
<1> QED
  BY <1>2, <1>3, <1>4, <1>5, MutexesLeft

(* prvUnlockQueue, second half. *)
LEMMA UnlockRxHolds ==
    ASSUME KernelInv, KernelInv', PrioInv, NEW t \in Task, UnlockRx(t)
    PROVE  PrioInv'
<1>1. KernelType /\ CallsOK /\ CallRight(t) /\ AsksRight(t)
  BY DEF KernelInv, WaitsInv, QueuesInv, PrioInv, CallsRight
<1>2. PICK h, W : h = call[t].h /\ W = FirstOf(waitingToSend[h], xRxLock[h])
  OBVIOUS
<1>3. /\ Running(t, "unlockrx") /\ Goto(t, "resume") /\ UNCHANGED <<ring, prio, call, fate>> /\ Unblock(W)
      /\ waitingToReceive' = waitingToReceive /\ xTxLock' = xTxLock
      /\ pxCurrentTCB' = pxCurrentTCB /\ uxSchedulerSuspended' = uxSchedulerSuspended /\ pendsv' = pendsv
  BY <1>2 DEF UnlockRx
<1>4. "unlockrx" \in Holding
  BY DEF Holding, Leaving
<1>5. /\ uxSchedulerSuspended /\ ~pendsv /\ pc[t] = "unlockrx" /\ \A u \in Task \ {t} : pc[u] # "place"
  BY <1>3, <1>4, RunsAlone
<1>6. h \in Handle
  BY <1>1, <1>2, <1>5 DEF CallRight, CallsOK, Ops
<1>7. xRxLock[h] \in Int
  BY <1>1, <1>6 DEF KernelType, LockCounts
<1>8. pc'[t] = "resume" /\ \A u \in Task \ {t} : Same(u)
  BY <1>1, <1>3, GoesOn DEF Same
<1>9. ASSUME NEW k \in Mutex, NEW u \in Awake, Taker(u, k) PROVE Taker(u, k)'
  <2>1. u \in Task \ {t}
    BY <1>1, <1>5, <1>9 DEF KernelType, Awake, Taker
  <2>2. Same(u)
    BY <1>8, <2>1
  <2> QED
    BY <1>9, <2>2 DEF Same, Taker
<1>10. /\ PrioType' /\ HoldersRight' /\ OrderRight' /\ LiftedRight' /\ InheritRight'
       /\ W \in SUBSET Task
  <2>1. \A k \in Mutex : uxMessagesWaiting'[k] = uxMessagesWaiting[k]
    BY <1>3 DEF ring
  <2> QED
    BY <1>2, <1>3, <1>6, <1>7, <1>9, <2>1, SendersWoken
<1>11. \A u \in Task : AsksRight(u)'
  <2>1. AsksRight(t)'
    BY <1>1, <1>3, <1>5, <1>8, AsksOn DEF prio
  <2> QED
    BY <1>3, <1>5, <1>8, <2>1, AsksStay DEF prio
<1>12. CurrentRight'
  BY <1>3, <1>5, <1>10, WakesCurrent
<1> QED
  BY <1>10, <1>11, <1>12 DEF PrioInv

(* A tick wakes nobody who waits for a mutex. *)
LEMMA TickedAskers ==
    ASSUME KernelInv, PrioInv, NEW E \in SUBSET Delayed, WakeExpired(E),
           NEW P, P \subseteq Awake,
           blocked' = [u \in Task |-> IF u \in P \cup E THEN "no" ELSE blocked[u]]
    PROVE  /\ IsFcn(blocked', Task)
           /\ \A h \in Mutex : /\ waitingToReceive'[h] = waitingToReceive[h]
                                /\ \A u \in Askers(h) : blocked'[u] = blocked[u]
<1>1. KernelType /\ PrioType /\ HoldersRight /\ OrderRight
  BY DEF KernelInv, WaitsInv, PrioInv
<1>2. IsFcn(blocked', Task)
  BY DEF IsFcn
<1>3. ASSUME NEW h \in Mutex
      PROVE  /\ waitingToReceive'[h] = waitingToReceive[h]
             /\ \A u \in Askers(h) : blocked'[u] = blocked[u]
  <2>1. h \in Handle /\ waitingToReceive[h] \in Seq(Task)
    BY <1>1, MutexIs DEF KernelType
  <2>2. \A u \in Askers(h) : u \in Task /\ u \notin P /\ u \notin E
    <3>1. \A u \in Askers(h) : u \in Task /\ u \notin Awake
      BY <1>1, AskersRight
    <3>2. \A u \in Askers(h) : blocked[u] # "finite"
      BY <1>1 DEF OrderRight
    <3>3. \A u \in E : blocked[u] = "finite"
      BY DEF Delayed
    <3> QED
      BY <3>1, <3>2, <3>3
  <2>3. waitingToReceive'[h] = Without(waitingToReceive[h], E)
    BY <2>1 DEF WakeExpired
  <2>4. Askers(h) \cap E = {}
    BY <2>2
  <2>5. waitingToReceive'[h] = waitingToReceive[h]
    BY <2>1, <2>3, <2>4, NobodyLeaves DEF Askers
  <2> QED
    BY <2>2, <2>5
<1> QED
  BY <1>2, <1>3

(* xTaskResumeAll. *)
LEMMA ResumeAllHolds ==
    ASSUME KernelInv, KernelInv', PrioInv, NEW t \in Task, ResumeAll(t)
    PROVE  PrioInv'
<1>1. /\ KernelType /\ CallsOK /\ SchedulerRight /\ CallRight(t) /\ PrioType /\ HoldersRight /\ AsksRight(t)
      /\ CurrentRight
  BY DEF KernelInv, WaitsInv, QueuesInv, PrioInv, CallsRight
<1>2. PICK E \in SUBSET Delayed :
          /\ WakeExpired(E)
          /\ IF fate[t] = "fail" THEN Return(t)
             ELSE Goto(t, IF call[t].op = "delay" THEN "woken" ELSE "try") /\ UNCHANGED <<call, fate>>
          /\ ready' = ready \cup xPendingReadyList \cup E
          /\ blocked' = [u \in Task |-> IF u \in xPendingReadyList \cup E THEN "no" ELSE blocked[u]]
          /\ xYieldPending' = (xYieldPending \/ AtLeastCurrent(xPendingReadyList \cup E))
  BY DEF ResumeAll
<1>3. /\ Running(t, "resume") /\ UNCHANGED <<ring, locks, prio, pxCurrentTCB>> /\ pendsv' = MustYield(t)
      /\ uxSchedulerSuspended' = FALSE /\ xPendingReadyList' = {}
  BY DEF ResumeAll
<1>4. "resume" \in Holding
  BY DEF Holding, Leaving
<1>5. /\ uxSchedulerSuspended /\ ~pendsv /\ pxCurrentTCB = t /\ pc[t] = "resume"
      /\ \A u \in Task \ {t} : pc[u] # "place"
  BY <1>3, <1>4, RunsAlone
<1>6. /\ IsFcn(blocked', Task)
      /\ \A h \in Mutex : /\ waitingToReceive'[h] = waitingToReceive[h]
                           /\ \A u \in Askers(h) : blocked'[u] = blocked[u]
  BY <1>2, TickedAskers DEF Awake
<1>7. \A h \in Mutex : uxMessagesWaiting'[h] = uxMessagesWaiting[h] /\ xTxLock'[h] <= 0
  BY <1>1, <1>3 DEF ring, locks, HoldersRight
<1>8. Awake \subseteq Awake'
  BY <1>2 DEF Awake
<1>9. (\A u \in Task \ {t} : Same(u)) /\ AsksRight(t)'
  <2>1. CASE fate[t] = "fail"
    <3>1. Return(t)
      BY <1>2, <2>1
    <3>2. call'[t].op = "none" /\ \A u \in Task \ {t} : Same(u)
      BY <1>1, <3>1, Returned
    <3> QED
      BY <3>2 DEF AsksRight, Ops
  <2>2. CASE fate[t] # "fail"
    <3>1. Goto(t, IF call[t].op = "delay" THEN "woken" ELSE "try") /\ call' = call /\ fate' = fate
      BY <1>2, <2>2
    <3>2. pc'[t] \in {"woken", "try"} /\ \A u \in Task \ {t} : pc'[u] = pc[u]
      BY <1>1, <3>1, GoesOn
    <3>3. AsksRight(t)'
      BY <1>1, <1>3, <1>5, <3>1, <3>2, AsksOn DEF prio
    <3> QED
      BY <3>1, <3>2, <3>3 DEF Same
  <2> QED
    BY <2>1, <2>2
<1>10. ASSUME NEW k \in Mutex, NEW u \in Awake, Taker(u, k) PROVE u \in Awake' /\ Taker(u, k)'
  <2>1. u \in Task \ {t}
    BY <1>1, <1>5, <1>10 DEF KernelType, Awake, Taker
  <2>2. Same(u)
    BY <1>9, <2>1
  <2> QED
    BY <1>8, <1>10, <2>2 DEF Same, Taker
<1>11. PrioType' /\ HoldersRight' /\ OrderRight' /\ LiftedRight' /\ InheritRight'
  BY <1>3, <1>6, <1>7, <1>10, MutexesLeft
<1>12. \A u \in Task : AsksRight(u)'
  BY <1>3, <1>5, <1>9, AsksStay DEF prio
<1>13. CurrentRight'
  <2>1. uxPriority' = uxPriority /\ pxCurrentTCB' = pxCurrentTCB /\ pxCurrentTCB \in Task
    BY <1>1, <1>3 DEF prio, KernelType
  <2>2. \A u \in ready : uxPriority[u] <= uxPriority[pxCurrentTCB]
    BY <1>1, <1>5 DEF CurrentRight
  <2>3. ~pendsv' => ~AtLeastCurrent(xPendingReadyList \cup E)
    BY <1>2, <1>3 DEF MustYield
  <2>4. xPendingReadyList \cup E \subseteq Task
    BY <1>1 DEF KernelType, Delayed
  <2>5. ~pendsv' => \A u \in xPendingReadyList \cup E : uxPriority[u] <= uxPriority[pxCurrentTCB]
    BY <1>1, <2>1, <2>3, <2>4 DEF AtLeastCurrent, PrioType
  <2> QED
    BY <1>2, <1>3, <2>1, <2>2, <2>5 DEF CurrentRight
<1> QED
  BY <1>11, <1>12, <1>13 DEF PrioInv

(* The switch takes a ready thread of the highest priority. *)
LEMMA PendSVHolds ==
    ASSUME KernelInv, KernelInv', PrioInv, PendSV
    PROVE  PrioInv'
<1>1. KernelType /\ PrioType /\ HoldersRight /\ CurrentRight
  BY DEF KernelInv, WaitsInv, PrioInv
<1>2. /\ UNCHANGED <<ring, locks, lists, prio, ready, blocked, xPendingReadyList, uxSchedulerSuspended, thread>>
      /\ pendsv
      /\ uxSchedulerSuspended => pxCurrentTCB' = pxCurrentTCB
      /\ ~uxSchedulerSuspended => \A u \in ready : uxPriority[u] <= uxPriority[pxCurrentTCB']
  BY DEF PendSV
<1>3. \A u \in Task : Same(u)
  BY <1>2 DEF Same, thread
<1>4. \A h \in Mutex : /\ waitingToReceive'[h] = waitingToReceive[h]
                       /\ uxMessagesWaiting'[h] = uxMessagesWaiting[h] /\ xTxLock'[h] <= 0
  BY <1>1, <1>2 DEF lists, ring, locks, HoldersRight
<1>5. \A h \in Mutex, u \in Awake : Taker(u, h) => u \in Awake' /\ Taker(u, h)'
  BY <1>2 DEF Awake, Taker, thread
<1>6. IsFcn(blocked', Task) /\ \A h \in Mutex : \A u \in Askers(h) : blocked'[u] = blocked[u]
  BY <1>1, <1>2 DEF PrioType
<1>7. PrioType' /\ HoldersRight' /\ OrderRight' /\ LiftedRight' /\ InheritRight'
  BY <1>2, <1>4, <1>5, <1>6, MutexesLeft
<1>8. \A u \in Task : AsksRight(u)'
  BY <1>2, <1>3, AsksSame DEF ring
<1>9. CurrentRight'
  <2>1. uxPriority' = uxPriority /\ ready' = ready /\ uxSchedulerSuspended' = uxSchedulerSuspended
    BY <1>2 DEF prio
  <2> QED
    BY <1>1, <1>2, <2>1 DEF CurrentRight
<1> QED
  BY <1>7, <1>8, <1>9 DEF PrioInv

(* The tick interrupt. *)
LEMMA SysTickHolds ==
    ASSUME KernelInv, KernelInv', PrioInv, NEW E \in SUBSET Delayed, SysTick(E)
    PROVE  PrioInv'
<1>1. KernelType /\ PrioType /\ HoldersRight /\ CurrentRight
  BY DEF KernelInv, WaitsInv, PrioInv
<1>2. /\ UNCHANGED <<ring, locks, prio, xPendingReadyList, pxCurrentTCB, uxSchedulerSuspended, pc, call, fate>>
      /\ ~uxSchedulerSuspended /\ WakeExpired(E) /\ ready' = ready \cup E
      /\ blocked' = [u \in Task |-> IF u \in E THEN "no" ELSE blocked[u]]
      /\ pendsv' = (pendsv \/ xYieldPending \/ AtLeastCurrent(E))
  BY DEF SysTick
<1>3. \A u \in Task : Same(u)
  BY <1>2 DEF Same
<1>4. /\ IsFcn(blocked', Task)
      /\ \A h \in Mutex : /\ waitingToReceive'[h] = waitingToReceive[h]
                           /\ \A u \in Askers(h) : blocked'[u] = blocked[u]
  <2>1. xPendingReadyList = {} /\ xPendingReadyList \subseteq Awake
    BY <1>2 DEF KernelInv, WaitsInv, SchedulerRight, Awake
  <2>2. blocked' = [u \in Task |-> IF u \in xPendingReadyList \cup E THEN "no" ELSE blocked[u]]
    BY <1>2, <2>1
  <2> QED
    BY <1>2, <2>1, <2>2, TickedAskers
<1>5. \A h \in Mutex : uxMessagesWaiting'[h] = uxMessagesWaiting[h] /\ xTxLock'[h] <= 0
  BY <1>1, <1>2 DEF ring, locks, HoldersRight
<1>6. \A h \in Mutex, u \in Awake : Taker(u, h) => u \in Awake' /\ Taker(u, h)'
  BY <1>2 DEF Awake, Taker
<1>7. PrioType' /\ HoldersRight' /\ OrderRight' /\ LiftedRight' /\ InheritRight'
  BY <1>2, <1>4, <1>5, <1>6, MutexesLeft
<1>8. \A u \in Task : AsksRight(u)'
  BY <1>2, <1>3, AsksSame DEF ring
<1>9. CurrentRight'
  <2>1. uxPriority' = uxPriority /\ pxCurrentTCB' = pxCurrentTCB /\ pxCurrentTCB \in Task
    BY <1>1, <1>2 DEF prio, KernelType
  <2>2. ~pendsv' => ~AtLeastCurrent(E) /\ ~pendsv
    BY <1>2
  <2>3. E \subseteq Task
    BY DEF Delayed
  <2>4. ~AtLeastCurrent(E) => \A u \in E : uxPriority[u] <= uxPriority[pxCurrentTCB]
    BY <1>1, <2>1, <2>3 DEF AtLeastCurrent, PrioType
  <2> QED
    BY <1>1, <1>2, <2>1, <2>2, <2>4 DEF CurrentRight
<1> QED
  BY <1>7, <1>8, <1>9 DEF PrioInv

(* xQueueGenericSendFromISR, on a queue that is no mutex. *)
LEMMA SendFromISRHolds ==
    ASSUME KernelInv, KernelInv', PrioInv, NEW h \in Handle \ Mutex, NEW x, SendFromISR(h, x)
    PROVE  PrioInv'
<1>1. KernelType /\ SchedulerRight /\ ListsType /\ Rings /\ PrioType /\ HoldersRight
  BY DEF KernelInv, WaitsInv, QueuesInv, KernelType, ListsType, PrioInv
<1>2. PICK W, g, H :
         /\ W = IF NotLocked(xTxLock[h]) THEN WakeOne(h) ELSE {}
         /\ g = Notified(h) /\ H = IF NotLocked(xTxLock[h]) THEN Filled(h) ELSE {h}
  OBVIOUS
<1>3. /\ CopyTo(H, Data(h, x)) /\ Unblock(W) /\ UNCHANGED prio
      /\ waitingToReceive' = [waitingToReceive EXCEPT ![g] = Without(@, W)]
      /\ xTxLock' = [xTxLock EXCEPT ![h] = IF NotLocked(@) THEN @ ELSE @ + 1]
      /\ pxCurrentTCB' = pxCurrentTCB /\ uxSchedulerSuspended' = uxSchedulerSuspended
      /\ pendsv' = (pendsv \/ Higher(W)) /\ pc' = pc /\ call' = call /\ fate' = fate
  BY <1>2 DEF SendFromISR, thread
<1>4. g \in Handle /\ (W = {} \/ W = FirstOf(EventList(g, "receive"), 1))
  BY <1>2, WakeOneFirst
<1>5. g \notin Mutex /\ H \cap Mutex = {}
  BY <1>2, KernelAssumption DEF Notified, Filled
<1>6. W \in SUBSET Task /\ \A w \in W : w \notin Awake /\ Waits(w, g, "receive")
  BY <1>4, FirstWaits DEF Ops
<1>7. /\ IsFcn(blocked', Task) /\ Awake \subseteq Awake'
      /\ \A k \in Mutex : \A u \in Askers(k) : blocked'[u] = blocked[u]
  BY <1>3, <1>5, <1>6, WakesOthers
<1>8. ASSUME NEW k \in Mutex
      PROVE  /\ waitingToReceive'[k] = waitingToReceive[k]
             /\ uxMessagesWaiting'[k] = uxMessagesWaiting[k] /\ xTxLock'[k] <= 0
  <2>1. k \in Handle /\ k # h /\ k # g /\ k \notin H
    BY <1>5, MutexIs
  <2>2. waitingToReceive'[k] = waitingToReceive[k]
    BY <1>1, <1>3, <2>1 DEF ListsType
  <2>3. uxMessagesWaiting'[k] = uxMessagesWaiting[k]
    <3>1. uxMessagesWaiting'[k] = uxMessagesWaiting[k] + 0 /\ uxMessagesWaiting[k] \in Nat
      BY <1>1, <1>3, <2>1, LengthNat DEF CopyTo, Rings, RingOK
    <3> QED
      BY <3>1
  <2>4. xTxLock'[k] = xTxLock[k] /\ xTxLock[k] <= 0
    BY <1>1, <1>3, <2>1 DEF KernelType, HoldersRight
  <2> QED
    BY <2>2, <2>3, <2>4
<1>9. \A k \in Mutex, u \in Awake : Taker(u, k) => u \in Awake' /\ Taker(u, k)'
  BY <1>3, <1>7 DEF Taker
<1>10. PrioType' /\ HoldersRight' /\ OrderRight' /\ LiftedRight' /\ InheritRight'
  BY <1>3, <1>7, <1>8, <1>9, MutexesLeft
<1>11. \A u \in Task : AsksRight(u)'
  <2>1. \A u \in Task : Same(u)
    BY <1>3 DEF Same
  <2> QED
    BY <1>3, <1>8, <2>1, AsksSame
<1>12. CurrentRight'
  BY <1>3, <1>6, WakesCurrent
<1> QED
  BY <1>10, <1>11, <1>12 DEF PrioInv

(* What a receive from a queue leaves in the mutexes. *)
LEMMA ReceivedElsewhere ==
    ASSUME Rings, NEW h \in Handle \ Mutex, NEW r, CopyFrom(h, r), NEW k \in Mutex
    PROVE  uxMessagesWaiting'[k] = uxMessagesWaiting[k]
<1>1. k \in Handle /\ k # h
  BY MutexIs
<1> QED
  BY <1>1 DEF CopyFrom, Rings, IsFcn

(* xQueueReceiveFromISR. *)
LEMMA ReceiveFromISRHolds ==
    ASSUME KernelInv, KernelInv', PrioInv, NEW h \in Handle \ Mutex, ReceiveFromISR(h)
    PROVE  PrioInv'
<1>1. KernelType /\ Rings
  BY DEF KernelInv, WaitsInv, QueuesInv
<1>2. PICK W : W = IF NotLocked(xRxLock[h]) THEN FirstOf(waitingToSend[h], 1) ELSE {}
  OBVIOUS
<1>3. /\ CopyFrom(h, "isr") /\ Unblock(W) /\ UNCHANGED prio
      /\ waitingToReceive' = waitingToReceive /\ xTxLock' = xTxLock
      /\ pxCurrentTCB' = pxCurrentTCB /\ uxSchedulerSuspended' = uxSchedulerSuspended
      /\ pendsv' = (pendsv \/ Higher(W)) /\ pc' = pc /\ call' = call /\ fate' = fate
  BY <1>2 DEF ReceiveFromISR, thread
<1>4. \A k \in Mutex : uxMessagesWaiting'[k] = uxMessagesWaiting[k]
  BY <1>1, <1>3, ReceivedElsewhere
<1>5. \A k \in Mutex, u \in Awake : Taker(u, k) => Taker(u, k)'
  BY <1>3 DEF Taker
<1>6. W = {} \/ W = FirstOf(waitingToSend[h], 1)
  BY <1>2
<1>7. /\ PrioType' /\ HoldersRight' /\ OrderRight' /\ LiftedRight' /\ InheritRight'
      /\ W \in SUBSET Task
  BY <1>3, <1>4, <1>5, <1>6, SendersWoken
<1>8. \A u \in Task : AsksRight(u)'
  <2>1. \A u \in Task : Same(u)
    BY <1>3 DEF Same
  <2> QED
    BY <1>3, <1>4, <2>1, AsksSame
<1>9. CurrentRight'
  BY <1>3, <1>7, WakesCurrent
<1> QED
  BY <1>7, <1>8, <1>9 DEF PrioInv

(* xQueueGenericSend, on a queue that is no mutex. *)
LEMMA SendQueueHolds ==
    ASSUME KernelInv, KernelInv', PrioInv, NEW t \in Task, SendItem(t), call[t].h \notin Mutex
    PROVE  PrioInv'
<1>1. KernelType /\ CallsOK /\ SchedulerRight /\ ListsType /\ Rings /\ PrioType /\ HoldersRight
  BY DEF KernelInv, WaitsInv, QueuesInv, KernelType, ListsType, PrioInv
<1>2. PICK h, W, g : h = call[t].h /\ W = WakeOne(h) /\ g = Notified(h)
  OBVIOUS
<1>3. /\ Running(t, "try") /\ call[t].op = "send" /\ Return(t)
      /\ CopyTo(Filled(h), Data(h, call[t].item)) /\ Unblock(W) /\ UNCHANGED prio
      /\ waitingToReceive' = [waitingToReceive EXCEPT ![g] = Without(@, W)]
      /\ pxCurrentTCB' = pxCurrentTCB /\ uxSchedulerSuspended' = uxSchedulerSuspended
      /\ xTxLock' = xTxLock
      /\ pendsv' = (Higher(W) \/ (W = {} /\ uxPriority' # uxPriority))
  BY <1>2 DEF SendItem, Disinherit, locks
<1>4. "try" \notin Holding
  BY DEF Holding, Leaving
<1>5. ~pendsv /\ \A u \in Task : pc[u] # "place"
  BY <1>3, <1>4, RunsAlone
<1>6. h \in Handle \ Mutex
  BY <1>1, <1>2, <1>3 DEF CallsOK
<1>7. g \in Handle /\ (W = {} \/ W = FirstOf(EventList(g, "receive"), 1))
  BY <1>2, <1>6, WakeOneFirst
<1>8. g \notin Mutex /\ Filled(h) \cap Mutex = {}
  BY <1>2, <1>6, KernelAssumption DEF Notified, Filled
<1>9. W \in SUBSET Task /\ \A w \in W : w \notin Awake /\ Waits(w, g, "receive")
  BY <1>7, FirstWaits DEF Ops
<1>10. /\ IsFcn(blocked', Task) /\ Awake \subseteq Awake'
       /\ \A k \in Mutex : \A u \in Askers(k) : blocked'[u] = blocked[u]
  BY <1>3, <1>8, <1>9, WakesOthers
<1>11. ASSUME NEW k \in Mutex
       PROVE  /\ waitingToReceive'[k] = waitingToReceive[k]
              /\ uxMessagesWaiting'[k] = uxMessagesWaiting[k] /\ xTxLock'[k] <= 0
  <2>1. k \in Handle /\ k # g /\ k \notin Filled(h)
    BY <1>8, MutexIs
  <2>2. waitingToReceive'[k] = waitingToReceive[k]
    BY <1>1, <1>3, <2>1 DEF ListsType
  <2>3. uxMessagesWaiting'[k] = uxMessagesWaiting[k]
    <3>1. uxMessagesWaiting'[k] = uxMessagesWaiting[k] + 0 /\ uxMessagesWaiting[k] \in Nat
      BY <1>1, <1>3, <2>1, LengthNat DEF CopyTo, Rings, RingOK
    <3> QED
      BY <3>1
  <2> QED
    BY <1>1, <1>3, <2>2, <2>3 DEF HoldersRight
<1>12. call'[t].op = "none" /\ \A u \in Task \ {t} : Same(u)
  BY <1>1, <1>3, Returned
<1>13. ASSUME NEW k \in Mutex, NEW u \in Awake, Taker(u, k) PROVE u \in Awake' /\ Taker(u, k)'
  <2>1. u \in Task \ {t}
    BY <1>1, <1>3, <1>13 DEF KernelType, Awake, Taker
  <2>2. Same(u)
    BY <1>12, <2>1
  <2> QED
    BY <1>10, <1>13, <2>2 DEF Same, Taker
<1>14. PrioType' /\ HoldersRight' /\ OrderRight' /\ LiftedRight' /\ InheritRight'
  BY <1>3, <1>10, <1>11, <1>13, MutexesLeft
<1>15. \A u \in Task : AsksRight(u)'
  <2>1. AsksRight(t)'
    BY <1>12 DEF AsksRight, Ops
  <2> QED
    BY <1>3, <1>5, <1>12, <2>1, AsksStay DEF prio
<1>16. CurrentRight'
  BY <1>3, <1>5, <1>9, WakesCurrent
<1> QED
  BY <1>14, <1>15, <1>16 DEF PrioInv

(* xQueueGenericReceive, on a queue that is no mutex. *)
LEMMA ReceiveQueueHolds ==
    ASSUME KernelInv, KernelInv', PrioInv, NEW t \in Task, ReceiveItem(t), call[t].h \notin Mutex
    PROVE  PrioInv'
<1>1. KernelType /\ CallsOK /\ Rings
  BY DEF KernelInv, WaitsInv, QueuesInv
<1>2. PICK h, W : h = call[t].h /\ W = FirstOf(waitingToSend[h], 1)
  OBVIOUS
<1>3. /\ Running(t, "try") /\ call[t].op = "receive" /\ Return(t) /\ CopyFrom(h, t) /\ UNCHANGED prio
      /\ Unblock(W) /\ waitingToReceive' = waitingToReceive /\ xTxLock' = xTxLock
      /\ pxCurrentTCB' = pxCurrentTCB /\ uxSchedulerSuspended' = uxSchedulerSuspended
      /\ pendsv' = Higher(W)
  BY <1>2 DEF ReceiveItem, locks
<1>4. "try" \notin Holding
  BY DEF Holding, Leaving
<1>5. ~pendsv /\ \A u \in Task : pc[u] # "place"
  BY <1>3, <1>4, RunsAlone
<1>6. h \in Handle \ Mutex
  BY <1>1, <1>2, <1>3 DEF CallsOK
<1>7. \A k \in Mutex : uxMessagesWaiting'[k] = uxMessagesWaiting[k]
  BY <1>1, <1>3, <1>6, ReceivedElsewhere
<1>8. call'[t].op = "none" /\ \A u \in Task \ {t} : Same(u)
  BY <1>1, <1>3, Returned
<1>9. ASSUME NEW k \in Mutex, NEW u \in Awake, Taker(u, k) PROVE Taker(u, k)'
  <2>1. u \in Task \ {t}
    BY <1>1, <1>2, <1>6, <1>9 DEF KernelType, Awake, Taker
  <2>2. Same(u)
    BY <1>8, <2>1
  <2> QED
    BY <1>9, <2>2 DEF Same, Taker
<1>10. /\ PrioType' /\ HoldersRight' /\ OrderRight' /\ LiftedRight' /\ InheritRight'
       /\ W \in SUBSET Task
  <2>1. h \in Handle /\ (W = {} \/ W = FirstOf(waitingToSend[h], 1))
    BY <1>2, <1>6
  <2> QED
    BY <1>3, <1>7, <1>9, <2>1, SendersWoken
<1>11. \A u \in Task : AsksRight(u)'
  <2>1. AsksRight(t)'
    BY <1>8 DEF AsksRight, Ops
  <2> QED
    BY <1>3, <1>5, <1>8, <2>1, AsksStay DEF prio
<1>12. CurrentRight'
  BY <1>3, <1>5, <1>10, WakesCurrent
<1> QED
  BY <1>10, <1>11, <1>12 DEF PrioInv

(* A thread takes a free mutex.  It runs, so nobody who was woken is better. *)
LEMMA TakeHolds ==
    ASSUME KernelInv, KernelInv', PrioInv, NEW t \in Task, ReceiveItem(t), call[t].h \in Mutex
    PROVE  PrioInv'
<1>1. /\ KernelType /\ CallsOK /\ SchedulerRight /\ ListsType /\ Rings /\ PrioType /\ HoldersRight
      /\ OrderRight /\ LiftedRight /\ InheritRight /\ CurrentRight /\ AsksRight(t)
  BY DEF KernelInv, WaitsInv, QueuesInv, KernelType, ListsType, PrioInv
<1>2. PICK h \in Mutex, W \in {FirstOf(waitingToSend[call[t].h], 1)} : h = call[t].h
  OBVIOUS
<1>3. /\ Running(t, "try") /\ call[t].op = "receive" /\ Return(t) /\ CopyFrom(h, t)
      /\ uxMessagesWaiting[h] > 0
      /\ pxMutexHolder' = [pxMutexHolder EXCEPT ![h] = t]
      /\ uxMutexesHeld' = [uxMutexesHeld EXCEPT ![t] = @ + 1] /\ uxPriority' = uxPriority
      /\ Unblock(W) /\ waitingToReceive' = waitingToReceive /\ xTxLock' = xTxLock
      /\ pxCurrentTCB' = pxCurrentTCB /\ uxSchedulerSuspended' = uxSchedulerSuspended
      /\ pendsv' = Higher(W)
  BY <1>2 DEF ReceiveItem, locks
<1>4. "try" \notin Holding
  BY DEF Holding, Leaving
<1>5. /\ pxCurrentTCB = t /\ ~pendsv /\ ~uxSchedulerSuspended /\ Awake = ready /\ t \in ready
      /\ \A u \in Task : pc[u] # "place"
  BY <1>3, <1>4, RunsAlone
<1>6. h \in Handle /\ Length[h] = 1 /\ t # NULL /\ NULL \notin Task /\ Outer \in Mutex
  BY MutexIs, KernelAssumption, MutexAssumption
<1>7. uxMessagesWaiting[h] = 1
  <2>1. uxMessagesWaiting[h] \in 0 .. 1
    BY <1>1, <1>6 DEF Rings, RingOK
  <2> QED
    BY <1>3, <2>1
<1>8. pxMutexHolder[h] = NULL /\ MayTake(t, h) /\ (h = Outer => t \in Nests)
  <2>1. uxMessagesWaiting[h] # 0
    BY <1>7
  <2> QED
    BY <1>1, <1>2, <1>3, <2>1 DEF AsksRight, HoldersRight, Ops
<1>9. /\ uxMessagesWaiting'[h] = 0
      /\ \A k \in Mutex \ {h} : uxMessagesWaiting'[k] = uxMessagesWaiting[k]
  BY <1>1, <1>3, <1>6, <1>7, MutexIs DEF CopyFrom, Rings, IsFcn
<1>10. /\ pxMutexHolder' \in [Handle -> Task \cup {NULL}] /\ uxMutexesHeld' \in [Task -> Nat]
       /\ pxMutexHolder'[h] = t /\ \A k \in Mutex \ {h} : pxMutexHolder'[k] = pxMutexHolder[k]
       /\ uxMutexesHeld'[t] = uxMutexesHeld[t] + 1
       /\ \A u \in Task \ {t} : uxMutexesHeld'[u] = uxMutexesHeld[u]
  BY <1>1, <1>3, <1>6, MutexIs DEF PrioType
<1>11. EventList(h, "send") = waitingToSend[h] /\ "send" \in Ops
  BY DEF EventList, Ops
<1>12. W \in SUBSET Task /\ \A w \in W : w \notin Awake /\ Waits(w, h, "send")
  BY <1>2, <1>6, <1>11, FirstWaits
<1>13. /\ IsFcn(blocked', Task) /\ Awake \subseteq Awake'
       /\ \A k \in Mutex : \A u \in Askers(k) : blocked'[u] = blocked[u]
  BY <1>3, <1>12, WakesOthers
<1>14. PrioType'
  BY <1>1, <1>3, <1>10, <1>13 DEF PrioType
<1>15. ASSUME NEW u \in Task, u # t
       PROVE  \A k \in Mutex : pxMutexHolder'[k] = u <=> pxMutexHolder[k] = u
  BY <1>6, <1>8, <1>10, <1>15
<1>16. HoldersRight'
  <2>1. \A k \in Mutex : (pxMutexHolder'[k] = NULL) <=> (uxMessagesWaiting'[k] # 0)
    BY <1>1, <1>6, <1>9, <1>10 DEF HoldersRight
  <2>2. ASSUME NEW u \in Task, u # t PROVE HoldsRight(u)'
    <3>1. HoldsRight(u) /\ uxMutexesHeld'[u] = uxMutexesHeld[u]
      BY <1>1, <1>10, <2>2 DEF HoldersRight
    <3>2. \A k \in Mutex : pxMutexHolder'[k] = u <=> pxMutexHolder[k] = u
      BY <1>15, <2>2
    <3> QED
      BY <3>1, <3>2 DEF HoldsRight, Holds
  <2>3. HoldsRight(t)'
    <3>1. HoldsRight(t)
      BY <1>1 DEF HoldersRight
    <3>2. \A k \in Mutex : pxMutexHolder'[k] = t <=> (pxMutexHolder[k] = t \/ k = h)
      BY <1>10
    <3>3. CASE uxMutexesHeld[t] = 0
      <4>1. Holds(t, {}) /\ uxMutexesHeld'[t] = 1
        BY <1>10, <3>1, <3>3 DEF HoldsRight
      <4>2. Holds(t, {h})'
        BY <3>2, <4>1 DEF Holds
      <4> QED
        BY <4>1, <4>2 DEF HoldsRight
    <3>4. CASE uxMutexesHeld[t] # 0
      <4>1. h # Outer /\ uxMutexesHeld[t] = 1 /\ pxMutexHolder[Outer] = t
        BY <1>8, <3>4 DEF MayTake
      <4>2. Holds(t, {Outer}) /\ uxMutexesHeld'[t] = 2
        BY <1>6, <1>10, <3>1, <4>1 DEF HoldsRight, Holds
      <4>3. Holds(t, {Outer, h})'
        BY <3>2, <4>2 DEF Holds
      <4> QED
        BY <4>1, <4>2, <4>3 DEF HoldsRight
    <3> QED
      BY <3>3, <3>4
  <2>4. pxMutexHolder'[Outer] \in Nests \cup {NULL}
    BY <1>1, <1>6, <1>8, <1>10 DEF HoldersRight
  <2>5. \A k \in Mutex : xTxLock'[k] <= 0
    BY <1>1, <1>3 DEF HoldersRight
  <2> QED
    BY <2>1, <2>2, <2>3, <2>4, <2>5 DEF HoldersRight
<1>17. \A k \in Mutex : Askers(k)' = Askers(k)
  BY <1>3 DEF Askers
<1>18. OrderRight'
  <2>1. \A k \in Mutex : ByPriority(waitingToReceive[k])'
    BY <1>1, <1>3 DEF OrderRight, ByPriority
  <2> QED
    BY <1>1, <1>13, <1>17, <2>1 DEF OrderRight
<1>19. LiftedRight'
  <2>1. \A k \in Mutex, u \in Task : pxMutexHolder[k] = u => pxMutexHolder'[k] = u
    BY <1>6, <1>8, <1>10
  <2>2. \A k \in Mutex, u \in Task : Foremost(k, uxPriority[u])' <=> Foremost(k, uxPriority[u])
    BY <1>3 DEF Foremost
  <2> QED
    BY <1>1, <1>3, <1>6, <2>1, <2>2 DEF LiftedRight, Rival
<1>20. call'[t].op = "none" /\ \A u \in Task \ {t} : Same(u)
  BY <1>1, <1>3, Returned
<1>21. InheritRight'
  <2> SUFFICES ASSUME NEW k \in Mutex, NEW u \in Askers(k)
               PROVE  /\ pxMutexHolder'[k] # NULL => uxPriority[pxMutexHolder'[k]] >= BasePriority[u]
                      /\ pxMutexHolder'[k] = NULL =>
                            \E v \in Awake' : Taker(v, k)' /\ uxPriority[v] >= BasePriority[u]
    BY <1>3, <1>17 DEF InheritRight
  <2>1. CASE k = h
    <3>1. PICK v \in Awake : Taker(v, k) /\ uxPriority[v] >= BasePriority[u]
      BY <1>1, <1>8, <2>1 DEF InheritRight
    <3>2. uxPriority[v] <= uxPriority[t]
      BY <1>1, <1>5 DEF CurrentRight
    <3>3. u \in Task /\ v \in Task /\ BasePriority[u] \in Nat
      BY <1>1, AskersRight, KernelAssumption DEF KernelType, Awake
    <3>4. uxPriority[t] >= BasePriority[u]
      BY <1>1, <3>1, <3>2, <3>3 DEF PrioType
    <3> QED
      BY <1>6, <1>10, <2>1, <3>4
  <2>2. CASE k # h
    <3>1. pxMutexHolder'[k] = pxMutexHolder[k]
      BY <1>10, <2>2
    <3>2. pxMutexHolder[k] # NULL => uxPriority[pxMutexHolder[k]] >= BasePriority[u]
      BY <1>1 DEF InheritRight
    <3>3. ASSUME pxMutexHolder[k] = NULL
          PROVE  \E v \in Awake' : Taker(v, k)' /\ uxPriority[v] >= BasePriority[u]
      <4>1. PICK v \in Awake : Taker(v, k) /\ uxPriority[v] >= BasePriority[u]
        BY <1>1, <3>3 DEF InheritRight
      <4>2. v \in Task \ {t}
        BY <1>1, <1>2, <2>2, <4>1 DEF KernelType, Awake, Taker
      <4>3. Same(v) /\ v \in Awake'
        BY <1>13, <1>20, <4>2
      <4> QED
        BY <4>1, <4>3 DEF Same, Taker
    <3> QED
      BY <3>1, <3>2, <3>3
  <2> QED
    BY <2>1, <2>2
<1>22. \A u \in Task : AsksRight(u)'
  <2>1. AsksRight(t)'
    BY <1>20 DEF AsksRight, Ops
  <2>2. \A u \in Task \ {t}, k \in Mutex : pxMutexHolder[k] = u => pxMutexHolder'[k] = u
    BY <1>15
  <2> QED
    BY <1>5, <1>10, <1>20, <2>1, <2>2, AsksStay
<1>23. CurrentRight'
  <2>1. ready' = ready \cup W
    BY <1>3, <1>5 DEF Unblock
  <2>2. ~Higher(W) => \A w \in W : uxPriority[w] <= uxPriority[pxCurrentTCB]
    BY <1>1, <1>3, <1>5, <1>12 DEF Higher, PrioType
  <2> QED
    BY <1>1, <1>3, <1>5, <2>1, <2>2 DEF CurrentRight
<1> QED
  BY <1>14, <1>16, <1>18, <1>19, <1>21, <1>22, <1>23 DEF PrioInv

(* Who waits first has as much as any other that waits. *)
LEMMA FirstIsBest ==
    ASSUME NEW list \in Seq(Task), ByPriority(list), NEW u \in Range(list)
    PROVE  /\ FirstOf(list, 1) = {list[1]} /\ list[1] \in Range(list)
           /\ BasePriority[u] <= uxPriority[list[1]]
<1>1. PICK i \in DOMAIN list : u = list[i]
  BY DEF Range
<1>2. 1 \in DOMAIN list /\ 1 <= i /\ 1 <= Len(list) /\ Len(list) \in Nat
  BY <1>1
<1>3. (IF 1 < Len(list) THEN 1 ELSE Len(list)) = 1
  <2>1. \A n \in Nat : 1 <= n => (IF 1 < n THEN 1 ELSE n) = 1
    OBVIOUS
  <2> QED
    BY <1>2, <2>1
<1>4. FirstOf(list, 1) = {list[1]}
  <2>1. 1 .. 1 = {1}
    OBVIOUS
  <2> QED
    BY <1>3, <2>1 DEF FirstOf
<1> QED
  BY <1>1, <1>2, <1>4 DEF ByPriority, Range

(* What a thread that gives a mutex holds besides. *)
LEMMA GivesOne ==
    ASSUME HoldersRight, NEW t \in Task, NEW h \in Mutex, MayGive(t, h)
    PROVE  \/ uxMutexesHeld[t] = 1 /\ \A k \in Mutex \ {h} : pxMutexHolder[k] # t
           \/ /\ uxMutexesHeld[t] = 2 /\ h # Outer /\ pxMutexHolder[Outer] = t
              /\ \A k \in Mutex \ {h, Outer} : pxMutexHolder[k] # t
<1>1. HoldsRight(t) /\ pxMutexHolder[h] = t /\ (h = Outer => uxMutexesHeld[t] = 1)
  BY DEF HoldersRight, MayGive
<1>2. uxMutexesHeld[t] # 0
  BY <1>1 DEF HoldsRight, Holds
<1>3. CASE uxMutexesHeld[t] = 1
  <2>1. uxMutexesHeld[t] # 0 /\ uxMutexesHeld[t] # 2
    BY <1>3
  <2>2. PICK k \in Mutex : Holds(t, {k})
    BY <1>1, <2>1 DEF HoldsRight
  <2> QED
    BY <1>1, <1>3, <2>2 DEF Holds
<1>4. CASE uxMutexesHeld[t] = 2
  <2>1. uxMutexesHeld[t] # 0 /\ uxMutexesHeld[t] # 1
    BY <1>4
  <2>2. PICK k \in Mutex \ {Outer} : Holds(t, {Outer, k})
    BY <1>1, <2>1 DEF HoldsRight
  <2>3. h # Outer
    BY <1>1, <2>1
  <2> QED
    BY <1>1, <1>4, <2>2, <2>3, MutexAssumption DEF Holds
<1> QED
  BY <1>1, <1>2, <1>3, <1>4 DEF HoldsRight

(* A lifted thread that gives its last mutex wakes one that is better than the thread is
   with its own priority. *)
LEMMA LiftedWakes ==
    ASSUME KernelInv, PrioInv, NEW t \in Task, NEW h \in Mutex, pxMutexHolder[h] = t,
           \A k \in Mutex \ {h} : pxMutexHolder[k] # t, t \in Awake,
           uxPriority[t] # BasePriority[t], waitingToReceive[h] # << >>
    PROVE  \E w \in FirstOf(waitingToReceive[h], 1) : w \in Task /\ w # t /\ uxPriority[w] > BasePriority[t]
<1>1. PrioType /\ HoldersRight /\ LiftedRight /\ waitingToReceive[h] \in Seq(Task)
  BY MutexIs DEF PrioInv, KernelInv, WaitsInv, KernelType
<1>2. PICK w : w = waitingToReceive[h][1]
  OBVIOUS
<1>3. w \in Askers(h)
  BY <1>1, <1>2 DEF Askers, Range
<1>4. FirstOf(waitingToReceive[h], 1) = {w}
  BY <1>1, <1>2, <1>3, FirstIsBest DEF PrioInv, OrderRight, Askers
<1>5. w \in Task /\ w # t /\ (h = Outer => w \in Nests)
  BY <1>3, AskersRight
<1>6. /\ uxPriority[w] >= BasePriority[w] /\ uxPriority[t] > BasePriority[t]
      /\ uxPriority[w] \in Nat /\ uxPriority[t] \in Nat /\ BasePriority[w] \in Nat /\ BasePriority[t] \in Nat
  <2>1. uxPriority[t] >= BasePriority[t] /\ uxPriority[w] >= BasePriority[w]
    BY <1>1, <1>5 DEF LiftedRight
  <2>2. /\ uxPriority[w] \in Nat /\ uxPriority[t] \in Nat
        /\ BasePriority[w] \in Nat /\ BasePriority[t] \in Nat
    BY <1>1, <1>5, KernelAssumption DEF PrioType
  <2> QED
    BY <2>1, <2>2
<1>7. CASE \E k \in Mutex : pxMutexHolder[k] = t /\ Foremost(k, uxPriority[t])
  <2>1. Foremost(h, uxPriority[t])
    BY <1>7
  <2>2. uxPriority[w] >= uxPriority[t]
    BY <1>2, <2>1 DEF Foremost
  <2>3. uxPriority[w] > BasePriority[t]
    BY <1>6, <2>2
  <2> QED
    BY <1>4, <1>5, <2>3
<1>8. CASE pxMutexHolder[Outer] = t /\ Rival(t)
  <2>1. h = Outer /\ w \in Nests
    BY <1>5, <1>8, MutexAssumption
  <2>2. t \in Nests
    <3>1. t # NULL
      BY KernelAssumption
    <3> QED
      BY <1>1, <1>8, <3>1 DEF HoldersRight
  <2>3. PICK r \in Direct : BasePriority[r] > BasePriority[t]
    BY <1>8 DEF Rival
  <2>4. BasePriority[t] < BasePriority[r]
    BY <2>3
  <2>5. BasePriority[t] < BasePriority[w]
    BY <1>5, <2>1, <2>2, <2>4, PriorityAssumption
  <2>6. uxPriority[w] > BasePriority[t]
    BY <1>6, <2>5
  <2> QED
    BY <1>4, <1>5, <2>6
<1> QED
  BY <1>1, <1>7, <1>8 DEF LiftedRight

(* The holder gives a mutex, and has its own priority again if it was the last.  The thread
   that waited first is woken; if the holder's priority was lifted, that thread is better
   and a switch follows. *)
LEMMA GiveHolds ==
    ASSUME KernelInv, KernelInv', PrioInv, NEW t \in Task, SendItem(t), call[t].h \in Mutex
    PROVE  PrioInv'
<1>1. /\ KernelType /\ CallsOK /\ SchedulerRight /\ ListsType /\ Rings /\ PrioType /\ HoldersRight
      /\ OrderRight /\ LiftedRight /\ InheritRight /\ CurrentRight /\ AsksRight(t)
  BY DEF KernelInv, WaitsInv, QueuesInv, KernelType, ListsType, PrioInv
<1>2. PICK h \in Mutex, W \in {WakeOne(call[t].h)} : h = call[t].h
  OBVIOUS
<1>3. /\ h \in Handle /\ Length[h] = 1 /\ Container[h] = NULL /\ t # NULL
      /\ NULL \notin Task /\ Outer \in Mutex
  BY MutexIs, KernelAssumption, MutexAssumption
<1>4. Notified(h) = h /\ Filled(h) = {h} /\ W = FirstOf(waitingToReceive[h], 1)
  BY <1>2, <1>3 DEF Notified, Filled, WakeOne, Waiters
<1>5. /\ Running(t, "try") /\ call[t].op = "send" /\ Return(t)
      /\ CopyTo({h}, Data(h, call[t].item)) /\ Unblock(W)
      /\ uxMutexesHeld' = [uxMutexesHeld EXCEPT ![t] = @ - 1]
      /\ uxPriority' = [uxPriority EXCEPT ![t] = IF uxMutexesHeld[t] = 1 THEN BasePriority[t] ELSE @]
      /\ pxMutexHolder' = [pxMutexHolder EXCEPT ![h] = NULL]
      /\ waitingToReceive' = [waitingToReceive EXCEPT ![h] = Without(@, W)]
      /\ pxCurrentTCB' = pxCurrentTCB /\ uxSchedulerSuspended' = uxSchedulerSuspended
      /\ xTxLock' = xTxLock
      /\ pendsv' = (Higher(W) \/ (W = {} /\ uxPriority' # uxPriority))
  BY <1>2, <1>4 DEF SendItem, Disinherit, locks
<1>6. "try" \notin Holding
  BY DEF Holding, Leaving
<1>7. /\ pxCurrentTCB = t /\ ~pendsv /\ ~uxSchedulerSuspended /\ Awake = ready /\ t \in ready
      /\ \A u \in Task : pc[u] \notin Holding /\ pc[u] # "place"
  BY <1>5, <1>6, RunsAlone
<1>8. MayGive(t, h) /\ pxMutexHolder[h] = t /\ uxMessagesWaiting[h] = 0
  <2>1. MayGive(t, h) /\ pxMutexHolder[h] = t
    BY <1>1, <1>2, <1>5 DEF AsksRight, MayGive, Ops
  <2> QED
    BY <1>1, <1>3, <2>1 DEF HoldersRight
<1>9. uxMessagesWaiting'[h] = 1 /\ \A k \in Mutex \ {h} : uxMessagesWaiting'[k] = uxMessagesWaiting[k]
  <2>1. \A k \in Mutex : /\ k \in Handle /\ uxMessagesWaiting[k] \in Nat
                         /\ uxMessagesWaiting'[k] = uxMessagesWaiting[k] + (IF k \in {h} THEN 1 ELSE 0)
    BY <1>1, <1>5, MutexIs, LengthNat DEF CopyTo, Rings, RingOK
  <2> QED
    BY <1>8, <2>1
\* It was the last, or log_mutex is left.
<1> DEFINE LastOne == uxMutexesHeld[t] = 1 /\ \A k \in Mutex \ {h} : pxMutexHolder[k] # t
           Inner   == /\ uxMutexesHeld[t] = 2 /\ h # Outer /\ pxMutexHolder[Outer] = t
                      /\ \A k \in Mutex \ {h, Outer} : pxMutexHolder[k] # t
<1>10. LastOne \/ Inner
  BY <1>1, <1>8, GivesOne
<1>11. uxMutexesHeld[t] \in Nat \ {0}
  BY <1>10
<1>12. /\ pxMutexHolder' \in [Handle -> Task \cup {NULL}] /\ uxMutexesHeld' \in [Task -> Nat]
       /\ pxMutexHolder'[h] = NULL /\ \A k \in Mutex \ {h} : pxMutexHolder'[k] = pxMutexHolder[k]
       /\ uxMutexesHeld'[t] = uxMutexesHeld[t] - 1
       /\ \A u \in Task \ {t} : uxMutexesHeld'[u] = uxMutexesHeld[u]
  BY <1>1, <1>3, <1>5, <1>11, MutexIs DEF PrioType
<1>13. /\ uxPriority' \in [Task -> Nat]
       /\ LastOne => uxPriority'[t] = BasePriority[t]
       /\ Inner => uxPriority' = uxPriority
       /\ \A u \in Task \ {t} : uxPriority'[u] = uxPriority[u]
  <2>1. uxPriority'[t] = (IF uxMutexesHeld[t] = 1 THEN BasePriority[t] ELSE uxPriority[t])
    BY <1>1, <1>5 DEF PrioType
  <2>2. Inner => uxPriority' = uxPriority
    BY <1>1, <1>5 DEF PrioType
  <2> QED
    BY <1>1, <1>5, <2>1, <2>2, KernelAssumption DEF PrioType
<1>14. EventList(h, "receive") = waitingToReceive[h] /\ "receive" \in Ops
  BY DEF EventList, Ops
<1>15. W \in SUBSET Task /\ \A w \in W : w \notin Awake /\ Waits(w, h, "receive")
  BY <1>3, <1>4, <1>14, FirstWaits
<1>16. /\ IsFcn(blocked', Task) /\ Awake' = Awake \cup W /\ ready' = ready \cup W
       /\ \A u \in Task \ W : blocked'[u] = blocked[u]
  BY <1>1, <1>5, <1>7 DEF Unblock, Awake, IsFcn
<1>17. \A k \in Mutex : \A u \in Askers(k) : /\ u \in Task /\ u # t /\ uxPriority'[u] = uxPriority[u]
                                             /\ k # h => u \notin W
  <2>1. \A k \in Mutex : \A u \in Askers(k) : u \in Task /\ u \notin Awake /\ Waits(u, k, "receive")
    BY AskersRight
  <2> QED
    BY <1>7, <1>13, <1>15, <2>1 DEF Waits
<1>18. /\ waitingToReceive[h] \in Seq(Task) /\ waitingToReceive'[h] = Without(waitingToReceive[h], W)
       /\ \A k \in Mutex \ {h} : waitingToReceive'[k] = waitingToReceive[k]
  BY <1>1, <1>3, <1>5, MutexIs DEF ListsType
<1>19. Askers(h)' = Askers(h) \ W /\ \A k \in Mutex \ {h} : Askers(k)' = Askers(k)
  BY <1>18, WithoutRange DEF Askers
<1>20. PrioType'
  BY <1>12, <1>13, <1>16 DEF PrioType
<1>21. ASSUME NEW u \in Task, u # t
       PROVE  \A k \in Mutex : pxMutexHolder'[k] = u <=> pxMutexHolder[k] = u
  BY <1>3, <1>8, <1>12, <1>21
<1>22. Inner => pxMutexHolder'[Outer] = t
  BY <1>3, <1>12
<1> HIDE DEF LastOne, Inner
<1>23. HoldersRight'
  <2>1. \A k \in Mutex : (pxMutexHolder'[k] = NULL) <=> (uxMessagesWaiting'[k] # 0)
    BY <1>1, <1>9, <1>12 DEF HoldersRight
  <2>2. ASSUME NEW u \in Task, u # t PROVE HoldsRight(u)'
    <3>1. HoldsRight(u) /\ uxMutexesHeld'[u] = uxMutexesHeld[u]
      BY <1>1, <1>12, <2>2 DEF HoldersRight
    <3>2. \A k \in Mutex : pxMutexHolder'[k] = u <=> pxMutexHolder[k] = u
      BY <1>21, <2>2
    <3> QED
      BY <3>1, <3>2 DEF HoldsRight, Holds
  <2>3. HoldsRight(t)'
    <3>1. CASE LastOne
      <4>1. uxMutexesHeld'[t] = 0
        BY <1>12, <3>1 DEF LastOne
      <4>2. Holds(t, {})'
        BY <1>3, <1>12, <3>1 DEF LastOne, Holds
      <4> QED
        BY <4>1, <4>2 DEF HoldsRight
    <3>2. CASE Inner
      <4>1. uxMutexesHeld'[t] = 1
        BY <1>12, <3>2 DEF Inner
      <4>2. Holds(t, {Outer})'
        BY <1>3, <1>12, <3>2 DEF Inner, Holds
      <4> QED
        BY <1>3, <4>1, <4>2 DEF HoldsRight
    <3> QED
      BY <1>10, <3>1, <3>2
  <2>4. pxMutexHolder'[Outer] \in Nests \cup {NULL}
    BY <1>1, <1>3, <1>12 DEF HoldersRight
  <2>5. \A k \in Mutex : xTxLock'[k] <= 0
    BY <1>1, <1>5 DEF HoldersRight
  <2> QED
    BY <2>1, <2>2, <2>3, <2>4, <2>5 DEF HoldersRight
<1>24. ASSUME NEW k \in Mutex PROVE ByPriority(waitingToReceive[k])'
  <2> DEFINE L == waitingToReceive[k]
             N == waitingToReceive'[k]
  <2>1. \A i, j \in DOMAIN L : i <= j => BasePriority[L[j]] <= uxPriority[L[i]]
    BY <1>1 DEF OrderRight, ByPriority
  <2>2. \A i \in DOMAIN L : uxPriority'[L[i]] = uxPriority[L[i]]
    BY <1>17 DEF Askers, Range
  <2>3. \A j, l \in DOMAIN N : j <= l => \E i, m \in DOMAIN L : i <= m /\ N[j] = L[i] /\ N[l] = L[m]
    <3>1. CASE k = h
      BY <1>18, <3>1, WithoutOrder
    <3>2. CASE k # h
      BY <1>18, <3>2
    <3> QED
      BY <3>1, <3>2
  <2> HIDE DEF L, N
  <2>4. \A j, l \in DOMAIN N : j <= l => BasePriority[N[l]] <= uxPriority'[N[j]]
    BY <2>1, <2>2, <2>3
  <2> QED
    BY <2>4 DEF ByPriority, N
<1>25. OrderRight'
  <2>1. \A k \in Mutex : \A u \in Askers(k)' : blocked'[u] # "finite"
    BY <1>1, <1>16, <1>17, <1>19 DEF OrderRight
  <2> QED
    BY <1>24, <2>1 DEF OrderRight
<1>26. ASSUME NEW k \in Mutex \ {h}, NEW p, Foremost(k, p)
       PROVE  waitingToReceive'[k] # << >> /\ uxPriority'[waitingToReceive'[k][1]] >= p
  <2>1. waitingToReceive[k] \in Seq(Task) /\ waitingToReceive[k] # << >>
    BY <1>1, <1>26, MutexIs DEF ListsType, Foremost
  <2>2. waitingToReceive[k][1] \in Askers(k)
    BY <2>1 DEF Askers, Range
  <2> QED
    BY <1>17, <1>18, <1>26, <2>2 DEF Foremost
<1>27. LiftedRight'
  <2>1. ASSUME NEW u \in Task PROVE uxPriority'[u] >= BasePriority[u]
    <3>1. BasePriority[t] \in Nat
      BY KernelAssumption
    <3> QED
      BY <1>1, <1>10, <1>13, <3>1 DEF LiftedRight
  <2>2. ASSUME NEW u \in Task, uxPriority'[u] # BasePriority[u]
        PROVE  \/ \E k \in Mutex : pxMutexHolder'[k] = u /\ Foremost(k, uxPriority[u])'
               \/ pxMutexHolder'[Outer] = u /\ Rival(u)
    <3>1. uxPriority'[u] = uxPriority[u] /\ (u = t => Inner)
      BY <1>10, <1>13, <2>2
    <3>2. CASE \E k \in Mutex \ {h} : pxMutexHolder[k] = u /\ Foremost(k, uxPriority[u])
      <4>1. PICK k \in Mutex \ {h} : pxMutexHolder[k] = u /\ Foremost(k, uxPriority[u])
        BY <3>2
      <4>2. Foremost(k, uxPriority[u])'
        BY <1>26, <3>1, <4>1 DEF Foremost
      <4> QED
        BY <1>12, <4>1, <4>2
    <3>3. CASE u # t /\ pxMutexHolder[Outer] = u /\ Rival(u)
      BY <1>3, <1>21, <3>3
    <3>4. CASE u = t /\ Rival(u)
      BY <1>22, <3>1, <3>4
    <3>5. CASE u = t /\ Foremost(h, uxPriority[t])
      <4>1. PICK w : w = waitingToReceive[h][1]
        OBVIOUS
      <4>2. w \in Askers(h) /\ uxPriority[w] >= uxPriority[t]
        BY <1>18, <3>5, <4>1 DEF Foremost, Askers, Range
      <4>3. w \in Task /\ w # pxMutexHolder[Outer] /\ h # Outer
        BY <1>17, <3>1, <3>5, <4>2 DEF Inner
      <4>4. uxPriority[w] = BasePriority[w] /\ w \in Direct
        BY <4>2, <4>3, AsksFirst
      <4>5. BasePriority[w] > BasePriority[t]
        <5>1. uxPriority[t] >= BasePriority[t] /\ uxPriority[t] # BasePriority[t]
          BY <1>1, <2>2, <3>1, <3>5 DEF LiftedRight
        <5>2. BasePriority[w] \in Nat /\ BasePriority[t] \in Nat /\ uxPriority[t] \in Nat
          BY <1>1, <4>3, KernelAssumption DEF PrioType
        <5> QED
          BY <4>2, <4>4, <5>1, <5>2
      <4>6. Rival(t)
        BY <4>4, <4>5 DEF Rival
      <4> QED
        BY <1>22, <3>1, <3>5, <4>6
    <3> QED
      BY <1>1, <1>8, <2>2, <3>1, <3>2, <3>3, <3>4, <3>5 DEF LiftedRight
  <2>3. \A u \in Task : Rival(u)' <=> Rival(u)
    BY DEF Rival
  <2> QED
    BY <2>1, <2>2, <2>3 DEF LiftedRight
<1>28. call'[t].op = "none" /\ \A u \in Task \ {t} : Same(u)
  BY <1>1, <1>5, Returned
<1>29. \A u \in Askers(h) : \E w \in W : w \in Askers(h) /\ BasePriority[u] <= uxPriority[w]
  BY <1>1, <1>4, <1>18, FirstIsBest DEF OrderRight, Askers
<1>30. InheritRight'
  <2> SUFFICES ASSUME NEW k \in Mutex, NEW u \in Askers(k)'
               PROVE  /\ pxMutexHolder'[k] # NULL => uxPriority'[pxMutexHolder'[k]] >= BasePriority[u]
                      /\ pxMutexHolder'[k] = NULL =>
                            \E v \in Awake' : Taker(v, k)' /\ uxPriority'[v] >= BasePriority[u]
    BY DEF InheritRight
  <2>1. u \in Askers(k) /\ u \in Task /\ BasePriority[u] \in Nat
    BY <1>17, <1>19, KernelAssumption
  <2>2. CASE k = h
    <3>1. PICK w \in W : w \in Askers(h) /\ BasePriority[u] <= uxPriority[w]
      BY <1>29, <2>1, <2>2
    <3>2. uxPriority'[w] = uxPriority[w] /\ w \in Task \ {t}
      BY <1>17, <3>1
    <3>3. Taker(w, h)'
      <4>1. Same(w) /\ Waits(w, h, "receive") /\ pc[w] \notin Holding
        BY <1>7, <1>15, <1>28, <3>2
      <4> QED
        BY <4>1 DEF Same, Waits, Taker, Holding
    <3>4. uxPriority'[w] >= BasePriority[u]
      BY <1>1, <2>1, <3>1, <3>2 DEF PrioType
    <3> QED
      BY <1>12, <1>16, <2>2, <3>3, <3>4
  <2>3. CASE k # h
    <3>1. pxMutexHolder'[k] = pxMutexHolder[k]
      BY <1>12, <2>3
    <3>2. ASSUME pxMutexHolder[k] # NULL PROVE uxPriority'[pxMutexHolder[k]] >= BasePriority[u]
      <4>1. pxMutexHolder[k] \in Task
        BY <1>1, <3>2, MutexIs DEF PrioType
      <4>2. pxMutexHolder[k] = t => Inner
        BY <1>10, <2>3 DEF LastOne
      <4>3. uxPriority[pxMutexHolder[k]] >= BasePriority[u]
        BY <1>1, <2>1, <3>2 DEF InheritRight
      <4> QED
        BY <1>13, <4>1, <4>2, <4>3
    <3>3. ASSUME pxMutexHolder[k] = NULL
          PROVE  \E v \in Awake' : Taker(v, k)' /\ uxPriority'[v] >= BasePriority[u]
      <4>1. PICK v \in Awake : Taker(v, k) /\ uxPriority[v] >= BasePriority[u]
        BY <1>1, <2>1, <3>3 DEF InheritRight
      <4>2. v \in Task \ {t}
        BY <1>1, <1>5, <4>1 DEF KernelType, Awake, Taker
      <4>3. Same(v) /\ v \in Awake' /\ uxPriority'[v] = uxPriority[v]
        BY <1>13, <1>16, <1>28, <4>2
      <4> QED
        BY <4>1, <4>3 DEF Same, Taker
    <3> QED
      BY <3>1, <3>2, <3>3
  <2> QED
    BY <2>2, <2>3
<1>31. \A u \in Task : AsksRight(u)'
  <2>1. AsksRight(t)'
    BY <1>28 DEF AsksRight, Ops
  <2>2. \A u \in Task \ {t}, k \in Mutex : pxMutexHolder[k] = u => pxMutexHolder'[k] = u
    BY <1>21
  <2> QED
    BY <1>7, <1>12, <1>28, <2>1, <2>2, AsksStay
<1>32. CurrentRight'
  <2>1. SUFFICES ASSUME ~Higher(W), W = {} => uxPriority' = uxPriority
                 PROVE  \A u \in ready \cup W : uxPriority'[u] <= uxPriority'[t]
    BY <1>5, <1>7, <1>16 DEF CurrentRight
  <2>2. \A w \in W : uxPriority'[w] <= uxPriority'[t]
    BY <1>7, <1>13, <1>15, <1>5, <2>1 DEF Higher
  <2>3. uxPriority'[t] = uxPriority[t]
    <3>1. CASE Inner
      BY <1>13, <3>1
    <3>2. CASE W = {}
      BY <2>1, <3>2
    <3>3. CASE LastOne /\ W # {} /\ uxPriority[t] # BasePriority[t]
      <4>1. waitingToReceive[h] # << >>
        <5>1. \A n \in {0} : 1 .. (IF 1 < n THEN 1 ELSE n) = {}
          OBVIOUS
        <5>2. Len(<< >>) = 0
          OBVIOUS
        <5>3. FirstOf(<< >>, 1) = {}
          BY <5>1, <5>2 DEF FirstOf
        <5> QED
          BY <1>4, <3>3, <5>3
      <4>2. \A k \in Mutex \ {h} : pxMutexHolder[k] # t
        BY <3>3 DEF LastOne
      <4>3. PICK w \in W : w \in Task /\ w # t /\ uxPriority[w] > BasePriority[t]
        BY <1>4, <1>7, <1>8, <3>3, <4>1, <4>2, LiftedWakes
      <4>4. uxPriority[w] <= BasePriority[t]
        BY <1>13, <2>2, <3>3, <4>3
      <4>5. uxPriority[w] \in Nat /\ BasePriority[t] \in Nat
        BY <1>1, <4>3, KernelAssumption DEF PrioType
      <4> QED
        BY <4>3, <4>4, <4>5
    <3>4. CASE LastOne /\ uxPriority[t] = BasePriority[t]
      BY <1>13, <3>4
    <3> QED
      BY <1>10, <3>1, <3>2, <3>3, <3>4
  <2>4. \A u \in ready : uxPriority[u] <= uxPriority[t]
    BY <1>1, <1>7 DEF CurrentRight
  <2>5. \A u \in ready : uxPriority'[u] <= uxPriority'[t]
    BY <1>1, <1>13, <2>3, <2>4 DEF KernelType
  <2> QED
    BY <2>2, <2>5
<1> QED
  BY <1>20, <1>23, <1>25, <1>27, <1>30, <1>31, <1>32 DEF PrioInv


(* A thread goes to sleep for something else than a mutex. *)
LEMMA PlaceQueueHolds ==
    ASSUME KernelInv, KernelInv', PrioInv, NEW t \in Task, Place(t), call[t].h \notin Mutex
    PROVE  PrioInv'
<1>1. /\ KernelType /\ CallsOK /\ SchedulerRight /\ ListsType /\ PrioType /\ HoldersRight /\ CurrentRight
      /\ AsksRight(t)
  BY DEF KernelInv, WaitsInv, QueuesInv, KernelType, ListsType, PrioInv
<1>2. /\ Running(t, "place") /\ UNCHANGED <<ring, prio, locks, call, fate>> /\ Goto(t, "unlocktx")
      /\ ready' = ready \ {t} /\ xPendingReadyList' = xPendingReadyList
      /\ blocked' = [blocked EXCEPT ![t] = call[t].wait]
      /\ pxCurrentTCB' = pxCurrentTCB /\ uxSchedulerSuspended' = uxSchedulerSuspended
      /\ \/ waitingToReceive' = waitingToReceive
         \/ waitingToReceive' = [waitingToReceive EXCEPT ![call[t].h] = InsertByPriority(@, t)]
  BY DEF Place, Inherit, prio
<1>3. "place" \in Holding
  BY DEF Holding
<1>4. uxSchedulerSuspended /\ pc[t] = "place" /\ \A u \in Task \ {t} : pc[u] # "place"
  BY <1>2, <1>3, RunsAlone
<1>5. t \in Awake
  BY <1>1, <1>4 DEF SchedulerRight, Awake
<1>6. pc'[t] = "unlocktx" /\ \A u \in Task \ {t} : Same(u)
  BY <1>1, <1>2, GoesOn DEF Same
<1>7. \A k \in Mutex : waitingToReceive'[k] = waitingToReceive[k]
  BY <1>1, <1>2, MutexIs DEF ListsType
<1>8. \A k \in Mutex : uxMessagesWaiting'[k] = uxMessagesWaiting[k] /\ xTxLock'[k] <= 0
  BY <1>1, <1>2 DEF ring, locks, HoldersRight
<1>9. IsFcn(blocked', Task) /\ \A k \in Mutex : \A u \in Askers(k) : blocked'[u] = blocked[u]
  <2>1. IsFcn(blocked', Task) /\ \A u \in Task \ {t} : blocked'[u] = blocked[u]
    BY <1>1, <1>2 DEF PrioType, IsFcn
  <2>2. \A k \in Mutex : \A u \in Askers(k) : u \in Task \ {t}
    BY <1>5, AskersRight
  <2> QED
    BY <2>1, <2>2
<1>10. ASSUME NEW k \in Mutex, NEW u \in Awake, Taker(u, k) PROVE u \in Awake' /\ Taker(u, k)'
  <2>1. u \in Task \ {t}
    BY <1>1, <1>4, <1>10 DEF KernelType, Awake, Taker
  <2>2. Same(u)
    BY <1>6, <2>1
  <2> QED
    BY <1>2, <1>10, <2>1, <2>2 DEF Same, Taker, Awake
<1>11. PrioType' /\ HoldersRight' /\ OrderRight' /\ LiftedRight' /\ InheritRight'
  BY <1>2, <1>7, <1>8, <1>9, <1>10, MutexesLeft
<1>12. \A u \in Task : AsksRight(u)'
  <2>1. AsksRight(t)'
    BY <1>1, <1>2, <1>4, <1>6, AsksOn DEF prio
  <2> QED
    BY <1>2, <1>4, <1>6, <2>1, AsksStay DEF prio
<1>13. CurrentRight'
  BY <1>1, <1>2, <1>4 DEF CurrentRight, prio
<1> QED
  BY <1>11, <1>12, <1>13 DEF PrioInv

(* A thread goes to sleep for a mutex, and the holder inherits its priority.  The holder may
   wait for another mutex itself: it keeps its place there, in front of threads that are not
   better than it was. *)
LEMMA PlaceMutexHolds ==
    ASSUME KernelInv, KernelInv', PrioInv, NEW t \in Task, Place(t), call[t].h \in Mutex
    PROVE  PrioInv'
<1>1. /\ KernelType /\ CallsOK /\ SchedulerRight /\ ListsType /\ CallRight(t) /\ PrioType /\ HoldersRight
      /\ OrderRight /\ LiftedRight /\ InheritRight /\ CurrentRight /\ AsksRight(t)
  BY DEF KernelInv, WaitsInv, QueuesInv, KernelType, ListsType, PrioInv, CallsRight
<1>2. PICK h \in Mutex, m \in {pxMutexHolder[call[t].h]} : h = call[t].h
  OBVIOUS
<1>3. Running(t, "place")
  BY DEF Place
<1>4. "place" \in Holding /\ "place" \in Seeking
  BY DEF Holding, Seeking
<1>5. /\ pxCurrentTCB = t /\ uxSchedulerSuspended /\ pc[t] = "place" /\ \A u \in Task \ {t} : pc[u] # "place"
  BY <1>3, <1>4, RunsAlone
<1>6. call[t].op = "receive" /\ uxMessagesWaiting[h] = 0 /\ call[t].wait # "finite" /\ MayTake(t, h)
  <2>1. call[t].op \in Ops
    BY <1>1, <1>4, <1>5 DEF CallRight
  <2> QED
    BY <1>1, <1>2, <1>5, <2>1 DEF AsksRight, Ops
<1>7. m \in Task /\ m # NULL /\ pxMutexHolder[h] = m /\ m # t /\ h \in Handle
  <2>1. h \in Handle /\ pxMutexHolder[h] # NULL /\ pxMutexHolder[h] \in Task \cup {NULL}
    BY <1>1, <1>6, MutexIs DEF HoldersRight, PrioType
  <2>2. pxMutexHolder[h] # t
    <3>1. HoldsRight(t)
      BY <1>1 DEF HoldersRight
    <3>2. CASE uxMutexesHeld[t] = 0
      BY <3>1, <3>2 DEF HoldsRight, Holds
    <3>3. CASE uxMutexesHeld[t] # 0
      <4>1. h # Outer /\ uxMutexesHeld[t] = 1 /\ pxMutexHolder[Outer] = t
        BY <1>6, <3>3 DEF MayTake
      <4>2. uxMutexesHeld[t] # 0 /\ uxMutexesHeld[t] # 2
        BY <4>1
      <4>3. PICK k \in Mutex : Holds(t, {k})
        BY <3>1, <4>2 DEF HoldsRight
      <4> QED
        BY <4>1, <4>3, MutexAssumption DEF Holds
    <3> QED
      BY <3>2, <3>3
  <2> QED
    BY <1>2, <2>1, <2>2
<1>8. /\ UNCHANGED <<ring, locks, call, fate, pxMutexHolder, uxMutexesHeld>> /\ Goto(t, "unlocktx")
      /\ ready' = ready \ {t} /\ xPendingReadyList' = xPendingReadyList
      /\ blocked' = [blocked EXCEPT ![t] = call[t].wait]
      /\ pxCurrentTCB' = pxCurrentTCB /\ uxSchedulerSuspended' = uxSchedulerSuspended
      /\ waitingToReceive' = [waitingToReceive EXCEPT ![h] = InsertByPriority(@, t)]
      /\ uxPriority' = IF uxPriority[m] < uxPriority[t] THEN [uxPriority EXCEPT ![m] = uxPriority[t]]
                       ELSE uxPriority
  BY <1>2, <1>6, <1>7 DEF Place, Inherit
<1>9. /\ uxPriority' \in [Task -> Nat] /\ \A u \in Task \ {m} : uxPriority'[u] = uxPriority[u]
      /\ uxPriority'[m] = uxPriority[m] \/ uxPriority'[m] = uxPriority[t]
      /\ uxPriority'[m] >= uxPriority[m] /\ uxPriority'[m] >= uxPriority[t]
  <2>1. uxPriority[m] \in Nat /\ uxPriority[t] \in Nat /\ uxPriority \in [Task -> Nat]
    BY <1>1, <1>7 DEF PrioType
  <2> QED
    BY <1>7, <1>8, <2>1
<1>10. \A u \in Task : /\ uxPriority'[u] >= uxPriority[u] /\ uxPriority[u] \in Nat
                       /\ uxPriority'[u] \in Nat /\ BasePriority[u] \in Nat
  BY <1>1, <1>9, KernelAssumption DEF PrioType
<1>11. t \in Awake
  BY <1>1, <1>5 DEF SchedulerRight, Awake
<1>12. \A k \in Mutex : \A u \in Askers(k) : u \in Task /\ u # t
  BY <1>11, AskersRight
<1>13. /\ waitingToReceive[h] \in Seq(Task) /\ waitingToReceive'[h] = InsertByPriority(waitingToReceive[h], t)
       /\ \A k \in Mutex \ {h} : waitingToReceive'[k] = waitingToReceive[k]
  BY <1>1, <1>7, <1>8, MutexIs DEF ListsType
<1>14. /\ ByPriority(waitingToReceive'[h]) /\ Range(waitingToReceive'[h]) = Range(waitingToReceive[h]) \cup {t}
       /\ waitingToReceive'[h] # << >> /\ uxPriority[waitingToReceive'[h][1]] >= uxPriority[t]
       /\ waitingToReceive[h] # << >> =>
             uxPriority[waitingToReceive'[h][1]] >= uxPriority[waitingToReceive[h][1]]
  <2>1. BasePriority[t] <= uxPriority[t]
    BY <1>1, <1>10 DEF LiftedRight
  <2> QED
    BY <1>1, <1>13, <2>1, InsertedInOrder DEF OrderRight, PrioType
<1>15. Askers(h)' = Askers(h) \cup {t} /\ \A k \in Mutex \ {h} : Askers(k)' = Askers(k)
  BY <1>13, <1>14 DEF Askers
<1>16. uxPriority'[t] = uxPriority[t]
  BY <1>7, <1>9
<1>17. \A k \in Mutex : \A u \in Askers(k)' : u \in Task
  BY <1>12, <1>15
<1>18. /\ IsFcn(blocked', Task) /\ blocked'[t] # "finite" /\ \A u \in Task \ {t} : blocked'[u] = blocked[u]
  BY <1>1, <1>6, <1>8 DEF PrioType, IsFcn
<1>19. PrioType'
  BY <1>1, <1>8, <1>9, <1>18 DEF PrioType
<1>20. HoldersRight'
  <2>1. \A u \in Task : HoldsRight(u)'
    BY <1>1, <1>8 DEF HoldersRight, HoldsRight, Holds
  <2> QED
    BY <1>1, <1>8, <2>1 DEF HoldersRight, ring, locks
<1>21. OrderRight'
  <2>1. ASSUME NEW k \in Mutex PROVE ByPriority(waitingToReceive[k])'
    <3> DEFINE N == waitingToReceive'[k]
    <3>1. \A i, j \in DOMAIN N : i <= j => BasePriority[N[j]] <= uxPriority[N[i]]
      <4>1. CASE k = h
        BY <1>14, <4>1 DEF ByPriority
      <4>2. CASE k # h
        BY <1>1, <1>13, <4>2 DEF OrderRight, ByPriority
      <4> QED
        BY <4>1, <4>2
    <3>2. \A i \in DOMAIN N : N[i] \in Task
      BY <1>17 DEF Askers, Range
    <3> HIDE DEF N
    <3>3. ASSUME NEW i \in DOMAIN N, NEW j \in DOMAIN N, i <= j
          PROVE  BasePriority[N[j]] <= uxPriority'[N[i]]
      <4>1. BasePriority[N[j]] <= uxPriority[N[i]]
        BY <3>1, <3>3
      <4>2. /\ uxPriority[N[i]] <= uxPriority'[N[i]]
            /\ uxPriority[N[i]] \in Nat /\ uxPriority'[N[i]] \in Nat /\ BasePriority[N[j]] \in Nat
        BY <1>10, <3>2
      <4> QED
        BY <4>1, <4>2
    <3> QED
      BY <3>3 DEF ByPriority, N
  <2>2. \A k \in Mutex : \A u \in Askers(k)' : blocked'[u] # "finite"
    <3>1. \A k \in Mutex : \A u \in Askers(k) : blocked'[u] # "finite"
      BY <1>1, <1>12, <1>18 DEF OrderRight
    <3> QED
      BY <1>15, <1>18, <3>1
  <2> QED
    BY <2>1, <2>2 DEF OrderRight
\* The threads that wait first do not get worse.
<1>22. ASSUME NEW k \in Mutex, NEW p \in Nat, Foremost(k, p)
       PROVE  waitingToReceive'[k] # << >> /\ uxPriority'[waitingToReceive'[k][1]] >= p
  <2> DEFINE v == waitingToReceive[k][1]
             w == waitingToReceive'[k][1]
  <2>1. waitingToReceive[k] \in Seq(Task) /\ waitingToReceive[k] # << >> /\ uxPriority[v] >= p
    BY <1>1, <1>22, MutexIs DEF ListsType, Foremost
  <2>2. v \in Task
    BY <2>1
  <2>3. waitingToReceive'[k] # << >> /\ uxPriority[w] >= uxPriority[v] /\ w \in Task
    <3>1. CASE k = h
      <4>1. waitingToReceive'[h] # << >> /\ waitingToReceive'[h] \in Seq(Task)
        BY <1>14, <1>7 DEF KernelInv, WaitsInv, KernelType, ListsType
      <4> QED
        BY <1>14, <2>1, <3>1, <4>1
    <3>2. CASE k # h
      <4>1. waitingToReceive'[k] = waitingToReceive[k]
        BY <1>13, <3>2
      <4> QED
        BY <1>10, <2>1, <2>2, <4>1
    <3> QED
      BY <3>1, <3>2
  <2> HIDE DEF v, w
  <2>4. /\ uxPriority'[w] >= uxPriority[w] /\ uxPriority[w] \in Nat /\ uxPriority'[w] \in Nat
        /\ uxPriority[v] \in Nat
    BY <1>10, <2>2, <2>3
  <2>5. uxPriority'[w] >= p
    BY <2>1, <2>3, <2>4
  <2> QED
    BY <2>3, <2>5 DEF w
<1>23. LiftedRight'
  <2>1. ASSUME NEW u \in Task PROVE uxPriority'[u] >= BasePriority[u]
    <3>1. uxPriority[u] >= BasePriority[u]
      BY <1>1 DEF LiftedRight
    <3>2. /\ uxPriority'[u] >= uxPriority[u]
          /\ uxPriority[u] \in Nat /\ uxPriority'[u] \in Nat /\ BasePriority[u] \in Nat
      BY <1>10
    <3> QED
      BY <3>1, <3>2
  <2>2. ASSUME NEW u \in Task, uxPriority'[u] # BasePriority[u]
        PROVE  \/ \E k \in Mutex : pxMutexHolder'[k] = u /\ Foremost(k, uxPriority[u])'
               \/ pxMutexHolder'[Outer] = u /\ Rival(u)
    <3>1. CASE uxPriority'[u] = uxPriority[u]
      <4>1. \A k \in Mutex : Foremost(k, uxPriority[u]) => Foremost(k, uxPriority[u])'
        BY <1>10, <1>22, <3>1 DEF Foremost
      <4> QED
        BY <1>1, <1>8, <2>2, <3>1, <4>1 DEF LiftedRight
    <3>2. CASE uxPriority'[u] # uxPriority[u]
      <4>1. u = m /\ uxPriority'[u] = uxPriority[t]
        BY <1>9, <3>2
      <4> DEFINE w == waitingToReceive'[h][1]
      <4>2. waitingToReceive'[h] # << >> /\ uxPriority[w] >= uxPriority[t] /\ w \in Task
        <5>1. waitingToReceive'[h] # << >> /\ waitingToReceive'[h] \in Seq(Task)
          BY <1>14, <1>7 DEF KernelInv, WaitsInv, KernelType, ListsType
        <5> QED
          BY <1>14, <5>1
      <4> HIDE DEF w
      <4>3. /\ uxPriority'[w] >= uxPriority[w] /\ uxPriority[w] \in Nat /\ uxPriority'[w] \in Nat
            /\ uxPriority[t] \in Nat
        BY <1>10, <4>2
      <4>4. uxPriority'[w] >= uxPriority'[u]
        BY <4>1, <4>2, <4>3
      <4>5. Foremost(h, uxPriority[u])'
        BY <4>2, <4>4 DEF Foremost, w
      <4> QED
        BY <1>7, <1>8, <4>1, <4>5
    <3> QED
      BY <3>1, <3>2
  <2>3. \A u \in Task : Rival(u)' <=> Rival(u)
    BY DEF Rival
  <2> QED
    BY <2>1, <2>2, <2>3 DEF LiftedRight
<1>24. pc'[t] = "unlocktx" /\ \A u \in Task \ {t} : Same(u)
  BY <1>1, <1>8, GoesOn DEF Same
<1>25. InheritRight'
  <2> SUFFICES ASSUME NEW k \in Mutex, NEW u \in Askers(k)'
               PROVE  /\ pxMutexHolder[k] # NULL => uxPriority'[pxMutexHolder[k]] >= BasePriority[u]
                      /\ pxMutexHolder[k] = NULL =>
                            \E v \in Awake' : Taker(v, k)' /\ uxPriority'[v] >= BasePriority[u]
    BY <1>8 DEF InheritRight, Taker
  <2>1. CASE u \in Askers(k)
    <3>1. ASSUME pxMutexHolder[k] # NULL PROVE uxPriority'[pxMutexHolder[k]] >= BasePriority[u]
      <4>1. pxMutexHolder[k] \in Task /\ u \in Task
        BY <1>1, <1>12, <2>1, <3>1, MutexIs DEF PrioType
      <4>2. uxPriority[pxMutexHolder[k]] >= BasePriority[u]
        BY <1>1, <2>1, <3>1 DEF InheritRight
      <4>3. /\ uxPriority'[pxMutexHolder[k]] >= uxPriority[pxMutexHolder[k]]
            /\ uxPriority[pxMutexHolder[k]] \in Nat /\ uxPriority'[pxMutexHolder[k]] \in Nat
            /\ BasePriority[u] \in Nat
        BY <1>10, <4>1
      <4> QED
        BY <4>2, <4>3
    <3>2. ASSUME pxMutexHolder[k] = NULL
          PROVE  \E v \in Awake' : Taker(v, k)' /\ uxPriority'[v] >= BasePriority[u]
      <4>1. PICK v \in Awake : Taker(v, k) /\ uxPriority[v] >= BasePriority[u]
        BY <1>1, <2>1, <3>2 DEF InheritRight
      <4>2. v \in Task \ {t} /\ u \in Task
        BY <1>1, <1>5, <1>12, <2>1, <4>1 DEF KernelType, Awake, Taker
      <4>3. v \in Awake' /\ Taker(v, k)'
        <5>1. Same(v)
          BY <1>24, <4>2
        <5> QED
          BY <1>8, <4>1, <4>2, <5>1 DEF Same, Taker, Awake
      <4>4. /\ uxPriority'[v] >= uxPriority[v] /\ uxPriority[v] \in Nat /\ uxPriority'[v] \in Nat
            /\ BasePriority[u] \in Nat
        BY <1>10, <4>2
      <4>5. uxPriority'[v] >= BasePriority[u]
        BY <4>1, <4>4
      <4> QED
        BY <4>3, <4>5
    <3> QED
      BY <3>1, <3>2
  <2>2. CASE u \notin Askers(k)
    <3>1. k = h /\ u = t
      BY <1>15, <2>2
    <3>2. uxPriority[t] >= BasePriority[t] /\ uxPriority'[m] >= uxPriority[t]
      BY <1>1, <1>9 DEF LiftedRight
    <3>3. uxPriority[t] \in Nat /\ BasePriority[t] \in Nat /\ uxPriority'[m] \in Nat
      BY <1>7, <1>10
    <3>4. uxPriority'[m] >= BasePriority[t]
      BY <3>2, <3>3
    <3> QED
      BY <1>7, <3>1, <3>4
  <2> QED
    BY <2>1, <2>2
<1>26. \A u \in Task : AsksRight(u)'
  <2>1. AsksRight(t)'
    BY <1>1, <1>5, <1>8, <1>24, AsksOn
  <2> QED
    BY <1>5, <1>8, <1>24, <2>1, AsksStay
<1>27. CurrentRight'
  <2>1. \A u \in ready : uxPriority[u] <= uxPriority[t] /\ u \in Task
    BY <1>1, <1>5 DEF CurrentRight, KernelType
  <2>2. ASSUME NEW u \in ready PROVE uxPriority'[u] <= uxPriority'[t]
    <3>1. /\ uxPriority[u] <= uxPriority[t] /\ u \in Task /\ uxPriority[u] \in Nat /\ uxPriority[t] \in Nat
          /\ uxPriority'[u] = uxPriority[u] \/ uxPriority'[u] = uxPriority[t]
      BY <1>9, <1>10, <2>1
    <3> QED
      BY <1>16, <3>1
  <2> QED
    BY <1>5, <1>8, <2>2 DEF CurrentRight
<1> QED
  BY <1>19, <1>20, <1>21, <1>23, <1>25, <1>26, <1>27 DEF PrioInv

(* A step that changes nothing. *)
LEMMA PrioStutters ==
    ASSUME PrioInv, UNCHANGED kvars PROVE PrioInv'
<1>1. UNCHANGED <<ring, locks, lists, prio, sched, thread>>
  BY DEF kvars
<1>2. /\ uxPriority' = uxPriority /\ uxMutexesHeld' = uxMutexesHeld /\ pxMutexHolder' = pxMutexHolder
      /\ blocked' = blocked /\ uxMessagesWaiting' = uxMessagesWaiting /\ xTxLock' = xTxLock
      /\ waitingToReceive' = waitingToReceive /\ call' = call /\ pc' = pc /\ ready' = ready
      /\ xPendingReadyList' = xPendingReadyList /\ pendsv' = pendsv /\ pxCurrentTCB' = pxCurrentTCB
      /\ uxSchedulerSuspended' = uxSchedulerSuspended
  BY <1>1 DEF ring, locks, lists, prio, sched, thread
<1>3. PrioType' /\ CurrentRight' /\ OrderRight'
  BY <1>2 DEF PrioInv, PrioType, CurrentRight, OrderRight, ByPriority, Askers
<1>4. HoldersRight'
  <2>1. \A t \in Task : HoldsRight(t)'
    BY <1>2 DEF PrioInv, HoldersRight, HoldsRight, Holds
  <2> QED
    BY <1>2, <2>1 DEF PrioInv, HoldersRight
<1>5. LiftedRight'
  BY <1>2 DEF PrioInv, LiftedRight, Foremost, Rival
<1>6. InheritRight'
  BY <1>2 DEF PrioInv, InheritRight, Askers, Awake, Taker
<1>7. \A t \in Task : AsksRight(t)'
  BY <1>2 DEF PrioInv, AsksRight, MayTake, MayGive
<1> QED
  BY <1>3, <1>4, <1>5, <1>6, <1>7 DEF PrioInv

(* Every step of a thread keeps the priorities in order. *)
LEMMA ThreadStepHolds ==
    ASSUME KernelInv, KernelInv', PrioInv, NEW t \in Task, Step(t) PROVE PrioInv'
<1>1. CASE \E c \in work.calls[t] : Enter(t, c)
  BY <1>1, EnterHolds
<1>2. CASE SendItem(t)
  BY <1>2, SendQueueHolds, GiveHolds
<1>3. CASE ReceiveItem(t)
  BY <1>3, ReceiveQueueHolds, TakeHolds
<1>4. CASE Refused(t) \/ SuspendAll(t) \/ prvLockQueue(t) \/ Check(t)
  BY <1>4, RefusedHolds, SuspendAllHolds, CheckHolds
<1>5. CASE Place(t)
  BY <1>5, PlaceQueueHolds, PlaceMutexHolds
<1>6. CASE UnlockTx(t) \/ UnlockRx(t) \/ ResumeAll(t)
  BY <1>6, UnlockTxHolds, UnlockRxHolds, ResumeAllHolds
<1>7. CASE vTaskDelay(t) \/ EndDelay(t)
  BY <1>7, vTaskDelayHolds, SuspendAllHolds
<1> QED
  BY <1>1, <1>2, <1>3, <1>4, <1>5, <1>6, <1>7 DEF Step

(* ... and so does every other step. *)
LEMMA PrioStepHolds == KernelInv /\ KernelInv' /\ PrioInv /\ [KernelNext]_kvars => PrioInv'
<1>1. SUFFICES ASSUME KernelInv, KernelInv', PrioInv, [KernelNext]_kvars PROVE PrioInv'
  OBVIOUS
<1>2. work \in Workload
  BY <1>1 DEF KernelInv, QueuesInv
<1>3. CASE UNCHANGED kvars
  BY <1>1, <1>3, PrioStutters
<1>4. ASSUME NEW t \in Task, Step(t) PROVE PrioInv'
  BY <1>1, <1>4, ThreadStepHolds
<1>5. CASE PendSV
  BY <1>1, <1>5, PendSVHolds
<1>6. ASSUME NEW h \in work.sends, NEW x \in Item, SendFromISR(h, x) PROVE PrioInv'
  <2>1. h \in Handle \ Mutex
    BY <1>2, WorkloadAssumption, MutexAssumption
  <2> QED
    BY <1>1, <1>6, <2>1, SendFromISRHolds
<1>7. ASSUME NEW h \in work.receives, ReceiveFromISR(h) PROVE PrioInv'
  <2>1. h \in Handle \ Mutex
    BY <1>2, WorkloadAssumption, MutexAssumption
  <2> QED
    BY <1>1, <1>7, <2>1, ReceiveFromISRHolds
<1>8. ASSUME NEW E \in SUBSET Delayed, SysTick(E) PROVE PrioInv'
  BY <1>1, <1>8, SysTickHolds
<1> QED
  BY <1>1, <1>3, <1>4, <1>5, <1>6, <1>7, <1>8 DEF KernelNext

(* At the start every thread has its own priority and the best of them runs. *)
LEMMA PrioStarts == KernelInit => PrioInv
<1>1. SUFFICES ASSUME KernelInit PROVE PrioInv
  OBVIOUS
<1>2. BasePriority \in [Task -> Nat]
  BY KernelAssumption
<1>3. PrioType
  BY <1>1, <1>2 DEF KernelInit, PrioType, IsFcn
<1>4. \A h \in Mutex : /\ pxMutexHolder[h] = NULL /\ uxMessagesWaiting[h] = 1 /\ xTxLock[h] = -1
                       /\ waitingToReceive[h] = << >>
  BY <1>1, MutexIs DEF KernelInit, queueUNLOCKED
<1>5. HoldersRight
  <2>1. ASSUME NEW t \in Task PROVE HoldsRight(t)
    <3>1. uxMutexesHeld[t] = 0 /\ Holds(t, {})
      BY <1>1, <1>4, KernelAssumption DEF KernelInit, Holds
    <3> QED
      BY <3>1 DEF HoldsRight
  <2>2. pxMutexHolder[Outer] \in Nests \cup {NULL}
    BY <1>4, MutexAssumption
  <2>3. \A h \in Mutex : xTxLock[h] <= 0 /\ (pxMutexHolder[h] = NULL <=> uxMessagesWaiting[h] # 0)
    BY <1>4
  <2> QED
    BY <2>1, <2>2, <2>3 DEF HoldersRight
<1>6. \A t \in Task : AsksRight(t)
  BY <1>1 DEF KernelInit, NoCall, AsksRight, Ops
<1>7. \A h \in Mutex : Askers(h) = {} /\ ByPriority(waitingToReceive[h])
  BY <1>4 DEF Askers, Range, ByPriority
<1>8. OrderRight /\ InheritRight
  BY <1>7 DEF OrderRight, InheritRight
<1>9. LiftedRight
  BY <1>1, <1>2 DEF KernelInit, LiftedRight
<1>10. CurrentRight
  BY <1>1 DEF KernelInit, CurrentRight
<1> QED
  BY <1>3, <1>5, <1>6, <1>8, <1>9, <1>10 DEF PrioInv

(* What the invariant says of the running thread and of the holders. *)
LEMMA PrioritiesRight == KernelInv /\ PrioInv => PrioritiesHold
<1>1. SUFFICES ASSUME KernelInv, PrioInv PROVE HighestRuns /\ Inheritance
  BY DEF PrioritiesHold
<1>2. SchedulerRight /\ HoldersRight /\ LiftedRight /\ InheritRight /\ CurrentRight
  BY <1>1 DEF KernelInv, WaitsInv, PrioInv
<1>3. HighestRuns
  BY <1>2 DEF HighestRuns, SchedulerRight, CurrentRight
<1>4. \A h \in Mutex, t \in Task :
         t \in Range(waitingToReceive[h]) /\ pxMutexHolder[h] # NULL
             => uxPriority[pxMutexHolder[h]] >= BasePriority[t]
  BY <1>2 DEF InheritRight, Askers
<1>5. ASSUME NEW t \in Task, uxPriority[t] # BasePriority[t] PROVE uxMutexesHeld[t] > 0
  <2>1. PICK h \in Mutex : pxMutexHolder[h] = t
    BY <1>2, <1>5, MutexAssumption DEF LiftedRight
  <2>2. HoldsRight(t)
    BY <1>2 DEF HoldersRight
  <2>3. ~Holds(t, {})
    BY <2>1 DEF Holds
  <2>4. uxMutexesHeld[t] = 1 \/ uxMutexesHeld[t] = 2
    BY <2>2, <2>3 DEF HoldsRight
  <2> QED
    BY <2>4
<1> QED
  BY <1>3, <1>4, <1>5 DEF Inheritance

(* Priorities, whatever threads, mutexes, queues and interrupts there are: no thread is
   ready that has a higher priority than the running one, between two requests for a context
   switch; the holder of a mutex has at least the own priority of every thread that waits for
   it, and more than its own only while it holds one.  Threads take a mutex as MayTake says,
   which is what the firmware does: one at a time, or one more inside log_mutex. *)
THEOREM PrioritiesAreKept == KernelSpec => []PrioritiesHold
<1>1. KernelInit => KernelInv /\ PrioInv
  BY KernelStarts, PrioStarts
<1>2. KernelInv /\ [KernelNext]_kvars => KernelInv'
  BY KernelStepRight
<1>3. KernelInv /\ KernelInv' /\ PrioInv /\ [KernelNext]_kvars => PrioInv'
  BY PrioStepHolds
<1>4. KernelInv /\ PrioInv => PrioritiesHold
  BY PrioritiesRight
<1> QED
  BY <1>1, <1>2, <1>3, <1>4, PTL DEF KernelSpec

-----------------------------------------------------------------------------
(* Sleeping threads and the tick count. *)

Pcs == {"idle", "add", "delaying", "delayed", "lock", "check", "unlock", "resume", "try", "fail",
        "failed", "expired"}
Suspended == {"add", "delaying", "check", "unlock", "resume", "fail", "failed"}
Entries == [task : Sleeper, wake : 0 .. TickMod - 1]

Ordered(list) == \A i, j \in DOMAIN list : i < j => list[i].wake <= list[j].wake
Once(list) == \A i, j \in DOMAIN list : list[i].task = list[j].task => i = j
Apart(one, two) == \A i \in DOMAIN one, j \in DOMAIN two : one[i].task # two[j].task

TicksType ==
    /\ xTickCount \in 0 .. TickMod - 1 /\ xNextTaskUnblockTime \in 0 .. TickMod - 1
    /\ delayed \in Seq(Entries) /\ overflow \in Seq(Entries)
    /\ uxPendedTicks \in Nat /\ asserted = FALSE
    /\ suspender \in Sleeper \cup {NOBODY}
    /\ pending \in SUBSET Sleeper /\ events \in Seq(Sleeper)
    /\ full \in BOOLEAN /\ sentLocked \in BOOLEAN
    /\ tpc \in [Sleeper -> Pcs]
    /\ timeout \in [Sleeper -> [entering : 0 .. TickMod - 1, over : BOOLEAN, wait : Nat]]
    /\ asked \in [Sleeper -> Nat] /\ spent \in [Sleeper -> Nat]

\* The lists are in order and hold no thread twice; an entry is as many ticks away as
\* the call still has to last, and the next time to look is no later.
ListsRight ==
    /\ Ordered(delayed) /\ Ordered(overflow)
    /\ Once(delayed) /\ Once(overflow) /\ Apart(delayed, overflow)
    /\ \A i \in DOMAIN delayed :
          LET e == delayed[i] IN
          /\ e.wake - xTickCount = asked[e.task] - spent[e.task] /\ e.wake > xTickCount
          /\ xNextTaskUnblockTime <= e.wake
    /\ \A i \in DOMAIN overflow :
          LET e == overflow[i] IN
          e.wake + TickMod - xTickCount = asked[e.task] - spent[e.task]

\* Where a thread that is blocked, or woken, can be, and how long its call has lasted.
ThreadRight(t) ==
    /\ Blocked(t) => tpc[t] \in {"delaying", "delayed", "unlock", "resume", "try"}
    /\ t \in pending => tpc[t] \in {"unlock", "resume", "try"}
    /\ t \in Range(events) =>
          Blocked(t) /\ t \notin pending /\ tpc[t] \in {"unlock", "resume", "try"}
    /\ tpc[t] = "idle" => asked[t] = 0 /\ spent[t] = 0
    /\ tpc[t] # "idle" => asked[t] \in 1 .. TickMod - 2
    /\ tpc[t] = "add" => spent[t] = 0
    /\ tpc[t] \in {"delaying", "delayed"} => Blocked(t) \/ spent[t] >= asked[t]
    /\ tpc[t] \in {"fail", "failed", "expired"} => spent[t] >= asked[t]

\* One thread at most suspends the scheduler.
ThreadsRight ==
    /\ \A t \in Sleeper : tpc[t] \in Suspended <=> suspender = t
    /\ suspender = NOBODY => uxPendedTicks = 0 /\ pending = {}
    /\ \A t \in Sleeper : ThreadRight(t)

\* Since a wait was begun, or begun anew, as many ticks have been counted as the
\* count says, with the wrap noted.
TimeoutRight(t) ==
    LET began == asked[t] - timeout[t].wait
        e     == spent[t] - began
    IN  /\ timeout[t].wait \in 1 .. asked[t] /\ e >= 0
        /\ spent[t] + uxPendedTicks < TickMod
        /\ xTickCount = timeout[t].entering + e - (IF timeout[t].over THEN TickMod ELSE 0)

TimeoutsRight == \A t \in Sleeper : InWait(t) => TimeoutRight(t)

TicksInv == TicksType /\ ListsRight /\ ThreadsRight /\ TimeoutsRight

-----------------------------------------------------------------------------
(* The tick. *)

On(t, list) == \E i \in DOMAIN list : list[i].task = t

\* The entries of the threads that are not in W, in their order.
LessThreads(list, W, rest) ==
    /\ rest \in Seq(Entries)
    /\ Ordered(list) => Ordered(rest)
    /\ Once(list) => Once(rest)
    /\ \A j \in DOMAIN rest : \E i \in DOMAIN list :
          rest[j] = list[i] /\ list[i].task \notin W
    /\ \A i \in DOMAIN list : list[i].task \notin W => \E j \in DOMAIN rest : rest[j] = list[i]

(* The entries of other threads stay, in their order. *)
LEMMA DroppedRight ==
    ASSUME NEW list \in Seq(Entries), NEW W
    PROVE  LessThreads(list, W, Dropped(list, W))
<1> DEFINE I == {i \in DOMAIN list : list[i].task \notin W}
           r == Kept(list, I)
<1>1. r = Dropped(list, W)
  BY DEF Dropped
<1>2. r \in Seq(Entries) /\ \E f : InOrder(list, I, r, Len(list), f)
  BY KeptProperties
<1>3. DOMAIN list = 1 .. Len(list) /\ I \cap (1 .. Len(list)) = I
  OBVIOUS
<1> HIDE DEF r
<1>4. DOMAIN r = 1 .. Len(r) /\ Len(r) \in Nat
  BY <1>2
<1>5. PICK f : /\ f \in [1 .. Len(r) -> I]
               /\ \A j \in 1 .. Len(r) : r[j] = list[f[j]]
               /\ \A j, k \in 1 .. Len(r) : j < k => f[j] < f[k]
               /\ \A i \in I : \E j \in 1 .. Len(r) : f[j] = i
  BY <1>2, <1>3 DEF InOrder
<1>6. ASSUME NEW j \in DOMAIN r
      PROVE  f[j] \in DOMAIN list /\ list[f[j]].task \notin W /\ r[j] = list[f[j]]
  BY <1>4, <1>5
<1>7. ASSUME Ordered(list) PROVE Ordered(r)
  <2> SUFFICES ASSUME NEW j \in DOMAIN r, NEW k \in DOMAIN r, j < k PROVE r[j].wake <= r[k].wake
    BY DEF Ordered
  <2>1. f[j] < f[k]
    BY <1>4, <1>5
  <2> QED
    BY <1>6, <1>7, <2>1 DEF Ordered
<1>8. ASSUME Once(list) PROVE Once(r)
  <2> SUFFICES ASSUME NEW j \in DOMAIN r, NEW k \in DOMAIN r, r[j].task = r[k].task PROVE j = k
    BY DEF Once
  <2>1. f[j] = f[k]
    BY <1>6, <1>8 DEF Once
  <2>2. f[j] \in 1 .. Len(list) /\ f[k] \in 1 .. Len(list) /\ j \in 1 .. Len(r) /\ k \in 1 .. Len(r)
    BY <1>3, <1>4, <1>6
  <2>3. ~(j < k) /\ ~(k < j)
    BY <1>5, <2>1, <2>2
  <2> QED
    BY <1>4, <2>2, <2>3
<1>9. ASSUME NEW i \in DOMAIN list, list[i].task \notin W PROVE \E j \in DOMAIN r : r[j] = list[i]
  <2>1. i \in I
    BY <1>9
  <2> HIDE DEF I
  <2> QED
    BY <1>4, <1>5, <2>1
<1> HIDE DEF I
<1> QED
  BY <1>1, <1>2, <1>6, <1>7, <1>8, <1>9 DEF LessThreads

(* What xTaskIncrementTick works on. *)
Clocks == [tick : 0 .. TickMod - 1, next : 0 .. TickMod - 1, asserted : BOOLEAN,
           delayed : Seq(Entries), overflow : Seq(Entries), woken : SUBSET Sleeper,
           ticks : Nat, over : BOOLEAN]

\* Of the ticks that each thread had left at first, rem, those of c have been counted.
\* At the moment the count is moved on, an entry may be due.
Moved(c, rem) ==
    /\ c \in Clocks /\ c.asserted = FALSE
    /\ Ordered(c.delayed) /\ Ordered(c.overflow)
    /\ Once(c.delayed) /\ Once(c.overflow) /\ Apart(c.delayed, c.overflow)
    /\ \A i \in DOMAIN c.delayed :
          /\ c.delayed[i].wake - c.tick = rem[c.delayed[i].task] - c.ticks
          /\ c.delayed[i].wake >= c.tick /\ c.next <= c.delayed[i].wake
    /\ \A i \in DOMAIN c.overflow :
          c.overflow[i].wake + TickMod - c.tick = rem[c.overflow[i].task] - c.ticks

Counted(c, rem) ==
    Moved(c, rem) /\ \A i \in DOMAIN c.delayed : c.delayed[i].wake > c.tick

OnClock(t, c) == On(t, c.delayed) \/ On(t, c.overflow)

(* The first entry of a list in order is the next one due. *)
LEMMA NextRight ==
    ASSUME NEW list \in Seq(Entries), Ordered(list)
    PROVE  /\ NextUnblock(list) \in 0 .. TickMod - 1
           /\ \A i \in DOMAIN list : NextUnblock(list) <= list[i].wake
<1>1. TickMod \in Nat \ {0}
  BY TicksAssumption
<1>2. CASE list = << >>
  BY <1>1, <1>2 DEF NextUnblock, MAX_DELAY
<1>3. CASE list # << >>
  <2>1. 1 \in DOMAIN list /\ Head(list) = list[1]
    BY <1>3
  <2>2. NextUnblock(list) = list[1].wake
    BY <1>3, <2>1 DEF NextUnblock
  <2>3. \A i \in DOMAIN list : list[i] \in Entries /\ i \in Nat /\ i >= 1
    OBVIOUS
  <2>4. \A i \in DOMAIN list : list[i].wake \in 0 .. TickMod - 1
    BY <2>3 DEF Entries
  <2>5. ASSUME NEW i \in DOMAIN list PROVE list[1].wake <= list[i].wake
    <3>1. CASE i = 1
      BY <1>1, <2>4, <3>1
    <3>2. CASE i > 1
      BY <2>1, <3>2 DEF Ordered
    <3> QED
      BY <2>3, <3>1, <3>2
  <2> QED
    BY <2>1, <2>2, <2>4, <2>5
<1> QED
  BY <1>2, <1>3

(* The threads that are due are woken, and no others. *)
LEMMA WakeDueRight ==
    ASSUME NEW c, NEW rem \in [Sleeper -> Int], Moved(c, rem)
    PROVE  /\ Counted(WakeDue(c), rem)
           /\ WakeDue(c).tick = c.tick /\ WakeDue(c).ticks = c.ticks /\ WakeDue(c).over = c.over
           /\ \A t : OnClock(t, WakeDue(c)) => OnClock(t, c)
           /\ c.woken \subseteq WakeDue(c).woken
           /\ \A t : OnClock(t, c) =>
                 OnClock(t, WakeDue(c)) \/ (rem[t] <= c.ticks /\ t \in WakeDue(c).woken)
<1> DEFINE due == {e.task : e \in {x \in ToSet(c.delayed) : x.wake <= c.tick}}
           rest == Dropped(c.delayed, due)
           d == [c EXCEPT !.delayed = rest, !.next = NextUnblock(rest), !.woken = @ \cup due]
<1>0. /\ TickMod \in Nat \ {0} /\ c \in Clocks
      /\ c.tick \in 0 .. TickMod - 1 /\ c.next \in 0 .. TickMod - 1 /\ c.ticks \in Nat
      /\ c.delayed \in Seq(Entries) /\ c.overflow \in Seq(Entries) /\ c.woken \in SUBSET Sleeper
  BY TicksAssumption DEF Moved, Clocks
<1>a. c.delayed \in Seq(Entries) /\ Ordered(c.delayed) /\ Once(c.delayed)
  BY <1>0 DEF Moved
<1>1. \A i \in DOMAIN c.delayed : c.delayed[i] \in Entries
  BY <1>0
<1>2. \A i \in DOMAIN c.delayed : c.delayed[i].wake \in 0 .. TickMod - 1 /\ c.delayed[i].task \in Sleeper
  BY <1>1 DEF Entries
<1>3. CASE c.tick < c.next
  <2>1. WakeDue(c) = c
    BY <1>3 DEF WakeDue
  <2>2. \A i \in DOMAIN c.delayed : c.delayed[i].wake > c.tick
    BY <1>0, <1>2, <1>3 DEF Moved
  <2> QED
    BY <2>1, <2>2 DEF Counted
<1>4. CASE ~(c.tick < c.next)
  <2>1. WakeDue(c) = d
    BY <1>4 DEF WakeDue
  <2>2. \A i \in DOMAIN c.delayed : c.delayed[i].wake <= c.tick => c.delayed[i].task \in due
    BY DEF ToSet
  <2>3. \A t \in due : \E i \in DOMAIN c.delayed : c.delayed[i].task = t /\ c.delayed[i].wake <= c.tick
    BY DEF ToSet
  <2>4. due \subseteq Sleeper
    BY <1>2, <2>3
  <2> HIDE DEF due
  <2>5. /\ rest \in Seq(Entries) /\ Ordered(rest) /\ Once(rest)
        /\ \A j \in DOMAIN rest : \E i \in DOMAIN c.delayed :
              rest[j] = c.delayed[i] /\ c.delayed[i].task \notin due
        /\ \A i \in DOMAIN c.delayed : c.delayed[i].task \notin due =>
              \E j \in DOMAIN rest : rest[j] = c.delayed[i]
    <3>1. LessThreads(c.delayed, due, rest)
      BY <1>a, DroppedRight
    <3> HIDE DEF rest
    <3> QED
      BY <1>a, <3>1 DEF LessThreads
  <2> HIDE DEF rest
  <2>6. /\ NextUnblock(rest) \in 0 .. TickMod - 1
        /\ \A i \in DOMAIN rest : NextUnblock(rest) <= rest[i].wake
    BY <2>5, NextRight
  <2>7. /\ d \in Clocks /\ d.tick = c.tick /\ d.ticks = c.ticks /\ d.over = c.over
        /\ d.delayed = rest /\ d.overflow = c.overflow /\ d.next = NextUnblock(rest)
        /\ d.asserted = FALSE /\ d.woken = c.woken \cup due
    BY <1>0, <2>4, <2>5, <2>6 DEF Clocks, Moved
  <2> HIDE DEF d
  <2>8. Apart(d.delayed, d.overflow)
    BY <2>5, <2>7 DEF Moved, Apart
  <2>9. ASSUME NEW j \in DOMAIN rest
        PROVE  /\ rest[j].wake - c.tick = rem[rest[j].task] - c.ticks
               /\ rest[j].wake > c.tick
    <3>1. PICK i \in DOMAIN c.delayed : rest[j] = c.delayed[i] /\ c.delayed[i].task \notin due
      BY <2>5
    <3>2. ~(c.delayed[i].wake <= c.tick)
      BY <2>2, <3>1
    <3> QED
      BY <1>0, <1>2, <3>1, <3>2 DEF Moved
  <2>10. Moved(d, rem)
    <3>1. \A j \in DOMAIN rest : rest[j] \in Entries
      BY <2>5
    <3>2. \A j \in DOMAIN rest : rest[j].wake \in 0 .. TickMod - 1
      BY <3>1 DEF Entries
    <3>3. \A j \in DOMAIN rest : rest[j].wake >= c.tick
      BY <1>0, <2>9, <3>2
    <3> QED
      BY <2>5, <2>6, <2>7, <2>8, <2>9, <3>3 DEF Moved
  <2>11. Counted(d, rem)
    BY <2>7, <2>9, <2>10 DEF Counted
  <2>12. ASSUME NEW t, OnClock(t, d) PROVE OnClock(t, c)
    BY <2>5, <2>7, <2>12 DEF OnClock, On
  <2>13. ASSUME NEW t, OnClock(t, c) PROVE OnClock(t, d) \/ (rem[t] <= c.ticks /\ t \in d.woken)
    <3>1. CASE On(t, c.overflow)
      BY <2>7, <3>1 DEF OnClock
    <3>2. ASSUME NEW i \in DOMAIN c.delayed, c.delayed[i].task = t PROVE OnClock(t, d) \/ (rem[t] <= c.ticks /\ t \in d.woken)
      <4>1. CASE t \notin due
        BY <2>5, <2>7, <3>2, <4>1 DEF OnClock, On
      <4>2. CASE t \in due
        <5>1. PICK k \in DOMAIN c.delayed : c.delayed[k].task = t /\ c.delayed[k].wake <= c.tick
          BY <2>3, <4>2
        <5>2. c.delayed[k].wake - c.tick = rem[t] - c.ticks
          BY <5>1 DEF Moved
        <5>3. rem[t] \in Int /\ c.delayed[k].wake \in Int
          BY <1>2, <5>1
        <5>4. rem[t] <= c.ticks
          BY <1>0, <5>1, <5>2, <5>3
        <5> QED
          BY <2>7, <4>2, <5>4
      <4> QED
        BY <4>1, <4>2
    <3> QED
      BY <2>13, <3>1, <3>2 DEF OnClock, On
  <2> QED
    BY <2>1, <2>7, <2>11, <2>12, <2>13
<1> QED
  BY <1>3, <1>4

(* Remainders of small numbers. *)
LEMMA SmallMod ==
    ASSUME NEW n \in Nat \ {0}, NEW x \in 0 .. n
    PROVE  x % n = IF x = n THEN 0 ELSE x
<1>1. CASE x = n
  BY <1>1
<1>2. CASE x \in 0 .. n - 1
  BY <1>2
<1> QED
  BY <1>1, <1>2

\* The clock when the count has wrapped.
Wrapped(c) == [SwitchLists([c EXCEPT !.tick = 0, !.ticks = c.ticks + 1]) EXCEPT !.over = TRUE]

(* The lists change places when the count wraps: the first one is empty by then. *)
LEMMA SwitchRight ==
    ASSUME NEW c, NEW rem \in [Sleeper -> Int], Counted(c, rem), c.tick = TickMod - 1
    PROVE  /\ Moved(Wrapped(c), rem) /\ Wrapped(c).tick = 0 /\ Wrapped(c).ticks = c.ticks + 1
           /\ Wrapped(c).over = TRUE /\ Wrapped(c).woken = c.woken
           /\ \A t : OnClock(t, Wrapped(c)) <=> OnClock(t, c)
<1> DEFINE d == [c EXCEPT !.tick = 0, !.ticks = c.ticks + 1]
           s == Wrapped(c)
<1>1. /\ TickMod \in Nat \ {0} /\ c \in Clocks /\ Moved(c, rem)
      /\ c.ticks \in Nat /\ c.delayed \in Seq(Entries) /\ c.overflow \in Seq(Entries)
  BY TicksAssumption DEF Counted, Moved, Clocks
<1>2. c.delayed = << >>
  <2>1. ASSUME NEW i \in DOMAIN c.delayed PROVE FALSE
    <3>1. c.delayed[i] \in Entries
      BY <1>1
    <3>2. c.delayed[i].wake \in 0 .. TickMod - 1
      BY <3>1 DEF Entries
    <3> QED
      BY <1>1, <3>2 DEF Counted
  <2> QED
    <3>1. c.delayed \in Seq(Entries)
      BY <1>1
    <3>2. Len(c.delayed) = 0
      <4>1. Len(c.delayed) \in Nat /\ DOMAIN c.delayed = 1 .. Len(c.delayed)
        BY <3>1
      <4>2. SUFFICES ASSUME Len(c.delayed) # 0 PROVE FALSE
        OBVIOUS
      <4>3. 1 \in DOMAIN c.delayed
        BY <4>1, <4>2
      <4> QED
        BY <2>1, <4>3
    <3> QED
      BY <3>1, <3>2, EmptySeq
<1>3. /\ d.delayed = << >> /\ d.overflow = c.overflow /\ d.asserted = FALSE
      /\ d.tick = 0 /\ d.ticks = c.ticks + 1 /\ d \in Clocks /\ d.woken = c.woken
  <2>1. c.asserted = FALSE
    BY <1>1 DEF Moved
  <2>2. c \in Clocks /\ c.ticks + 1 \in Nat /\ 0 \in 0 .. TickMod - 1
    BY <1>1
  <2> QED
    BY <1>2, <2>1, <2>2 DEF Clocks
<1>4. /\ NextUnblock(c.overflow) \in 0 .. TickMod - 1
      /\ \A i \in DOMAIN c.overflow : NextUnblock(c.overflow) <= c.overflow[i].wake
  <2>1. Ordered(c.overflow)
    BY <1>1 DEF Moved
  <2> QED
    BY <1>1, <2>1, NextRight
<1>5. /\ s \in Clocks /\ s.tick = 0 /\ s.ticks = c.ticks + 1 /\ s.over = TRUE
      /\ s.delayed = c.overflow /\ s.overflow = << >> /\ s.asserted = FALSE
      /\ s.next = NextUnblock(c.overflow) /\ s.woken = c.woken
  <2>1. s = [SwitchLists(d) EXCEPT !.over = TRUE]
    BY DEF Wrapped
  <2> HIDE DEF d, s
  <2> QED
    BY <1>1, <1>3, <1>4, <2>1 DEF SwitchLists, Clocks
<1> HIDE DEF s
<1>6. ASSUME NEW i \in DOMAIN c.overflow
      PROVE  /\ c.overflow[i].wake - 0 = rem[c.overflow[i].task] - (c.ticks + 1)
             /\ c.overflow[i].wake >= 0
  <2>1. c.overflow[i] \in Entries
    BY <1>1
  <2>2. c.overflow[i].wake \in 0 .. TickMod - 1 /\ c.overflow[i].task \in Sleeper
    BY <2>1 DEF Entries
  <2>3. c.overflow[i].wake + TickMod - c.tick = rem[c.overflow[i].task] - c.ticks
    BY <1>1 DEF Moved
  <2>4. rem[c.overflow[i].task] \in Int /\ c.ticks \in Int /\ TickMod \in Int
    BY <1>1, <2>2
  <2> QED
    BY <2>2, <2>3, <2>4
<1>7. Moved(s, rem)
  <2>1. Ordered(c.overflow) /\ Once(c.overflow)
    BY <1>1 DEF Moved
  <2>2. Ordered(<< >>) /\ Once(<< >>) /\ Apart(c.overflow, << >>)
    BY DEF Ordered, Once, Apart
  <2> QED
    BY <1>4, <1>5, <1>6, <2>1, <2>2 DEF Moved
<1>8. \A t : OnClock(t, s) <=> OnClock(t, c)
  BY <1>2, <1>5 DEF OnClock, On
<1> QED
  BY <1>5, <1>7, <1>8 DEF s

(* One tick. *)
LEMMA TickRight ==
    ASSUME NEW c, NEW rem \in [Sleeper -> Int], Counted(c, rem)
    PROVE  /\ Counted(xTaskIncrementTick(c), rem)
           /\ xTaskIncrementTick(c).ticks = c.ticks + 1
           /\ xTaskIncrementTick(c).tick = IF c.tick = TickMod - 1 THEN 0 ELSE c.tick + 1
           /\ xTaskIncrementTick(c).over = (c.over \/ c.tick = TickMod - 1)
           /\ \A t : OnClock(t, xTaskIncrementTick(c)) => OnClock(t, c)
           /\ c.woken \subseteq xTaskIncrementTick(c).woken
           /\ \A t : OnClock(t, c) =>
                 \/ OnClock(t, xTaskIncrementTick(c))
                 \/ rem[t] <= c.ticks + 1 /\ t \in xTaskIncrementTick(c).woken
<1> DEFINE d == [c EXCEPT !.tick = (@ + 1) % TickMod, !.ticks = @ + 1]
           s == [SwitchLists(d) EXCEPT !.over = TRUE]
<1>1. /\ TickMod \in Nat \ {0} /\ c \in Clocks /\ Moved(c, rem)
      /\ c.tick \in 0 .. TickMod - 1
      /\ c.ticks \in Nat /\ c.delayed \in Seq(Entries) /\ c.overflow \in Seq(Entries)
      /\ c.over \in BOOLEAN
  BY TicksAssumption DEF Counted, Moved, Clocks
<1>2. xTaskIncrementTick(c) = WakeDue(IF d.tick = 0 THEN s ELSE d)
  BY DEF xTaskIncrementTick
<1>3. CASE c.tick = TickMod - 1
  <2>1. (c.tick + 1) % TickMod = 0
    BY <1>1, <1>3
  <2>2. d = [c EXCEPT !.tick = 0, !.ticks = c.ticks + 1]
    BY <2>1
  <2>3. d.tick = 0
    BY <1>1, <2>2 DEF Clocks
  <2>4. xTaskIncrementTick(c) = WakeDue(s)
    BY <1>2, <2>3
  <2>a. s = Wrapped(c)
    BY <2>2 DEF Wrapped
  <2> HIDE DEF d, s
  <2>5. /\ Moved(s, rem) /\ s.tick = 0 /\ s.ticks = c.ticks + 1 /\ s.over = TRUE
        /\ s.woken = c.woken /\ \A t : OnClock(t, s) <=> OnClock(t, c)
    BY <1>3, <2>a, SwitchRight
  <2>6. /\ Counted(WakeDue(s), rem)
        /\ WakeDue(s).tick = s.tick /\ WakeDue(s).ticks = s.ticks /\ WakeDue(s).over = s.over
        /\ \A t : OnClock(t, WakeDue(s)) => OnClock(t, s)
        /\ s.woken \subseteq WakeDue(s).woken
        /\ \A t : OnClock(t, s) =>
              OnClock(t, WakeDue(s)) \/ (rem[t] <= s.ticks /\ t \in WakeDue(s).woken)
    BY <2>5, WakeDueRight
  <2> QED
    BY <1>3, <2>4, <2>5, <2>6
<1>4. CASE c.tick # TickMod - 1
  <2>1. (c.tick + 1) % TickMod = c.tick + 1 /\ c.tick + 1 \in 0 .. TickMod - 1
    <3>1. TickMod \in Nat \ {0} /\ c.tick \in 0 .. TickMod - 1
      BY <1>1
    <3>2. c.tick + 1 \in 0 .. TickMod - 1 /\ c.tick + 1 \in 0 .. TickMod /\ c.tick + 1 # TickMod
      BY <1>4, <3>1
    <3> QED
      BY <3>1, <3>2, SmallMod
  <2>2. /\ d.tick = c.tick + 1 /\ d.ticks = c.ticks + 1 /\ d.over = c.over /\ d \in Clocks
        /\ d.delayed = c.delayed /\ d.overflow = c.overflow /\ d.asserted = FALSE
        /\ d.next = c.next /\ d.woken = c.woken
    <3>1. d = [c EXCEPT !.tick = c.tick + 1, !.ticks = c.ticks + 1]
      BY <2>1
    <3>2. c.asserted = FALSE
      BY <1>1 DEF Moved
    <3>3. c \in Clocks /\ c.ticks + 1 \in Nat
      BY <1>1
    <3> HIDE DEF d
    <3> QED
      BY <2>1, <3>1, <3>2, <3>3 DEF Clocks
  <2>3. d.tick # 0
    BY <1>1, <2>2
  <2>4. xTaskIncrementTick(c) = WakeDue(d)
    BY <1>2, <2>3
  <2> HIDE DEF d
  <2>5. ASSUME NEW i \in DOMAIN c.delayed
        PROVE  /\ c.delayed[i].wake - (c.tick + 1) = rem[c.delayed[i].task] - (c.ticks + 1)
               /\ c.delayed[i].wake >= c.tick + 1
    <3>1. c.delayed[i] \in Entries
      BY <1>1
    <3>2. c.delayed[i].wake \in 0 .. TickMod - 1 /\ c.delayed[i].task \in Sleeper
      BY <3>1 DEF Entries
    <3>3. rem[c.delayed[i].task] \in Int /\ c.tick \in Int /\ c.ticks \in Int
      BY <1>1, <3>2
    <3>4. c.delayed[i].wake - c.tick = rem[c.delayed[i].task] - c.ticks /\ c.delayed[i].wake > c.tick
      BY <1>1 DEF Moved, Counted
    <3> QED
      BY <3>2, <3>3, <3>4
  <2>6. ASSUME NEW i \in DOMAIN c.overflow
        PROVE  c.overflow[i].wake + TickMod - (c.tick + 1) = rem[c.overflow[i].task] - (c.ticks + 1)
    <3>1. c.overflow[i] \in Entries
      BY <1>1
    <3>2. c.overflow[i].wake \in 0 .. TickMod - 1 /\ c.overflow[i].task \in Sleeper
      BY <3>1 DEF Entries
    <3>3. rem[c.overflow[i].task] \in Int /\ c.tick \in Int /\ c.ticks \in Int /\ TickMod \in Int
      BY <1>1, <3>2
    <3>4. c.overflow[i].wake + TickMod - c.tick = rem[c.overflow[i].task] - c.ticks
      BY <1>1 DEF Moved
    <3> QED
      BY <3>2, <3>3, <3>4
  <2>7. Moved(d, rem)
    <3>1. /\ Ordered(c.delayed) /\ Ordered(c.overflow)
          /\ Once(c.delayed) /\ Once(c.overflow) /\ Apart(c.delayed, c.overflow)
          /\ \A i \in DOMAIN c.delayed : c.next <= c.delayed[i].wake
      BY <1>1 DEF Moved
    <3> QED
      BY <2>2, <2>5, <2>6, <3>1 DEF Moved
  <2>8. /\ Counted(WakeDue(d), rem)
        /\ WakeDue(d).tick = d.tick /\ WakeDue(d).ticks = d.ticks /\ WakeDue(d).over = d.over
        /\ \A t : OnClock(t, WakeDue(d)) => OnClock(t, d)
        /\ d.woken \subseteq WakeDue(d).woken
        /\ \A t : OnClock(t, d) =>
              OnClock(t, WakeDue(d)) \/ (rem[t] <= d.ticks /\ t \in WakeDue(d).woken)
    BY <2>7, WakeDueRight
  <2>9. \A t : OnClock(t, d) <=> OnClock(t, c)
    BY <2>2 DEF OnClock
  <2> QED
    BY <1>1, <1>4, <2>2, <2>4, <2>8, <2>9
<1> QED
  BY <1>3, <1>4

TickSteps(c, k, G) ==
    G = [i \in 0 .. k |-> IF i = 0 THEN c ELSE xTaskIncrementTick(G[i - 1])]

(* Ticked is computed tick by tick. *)
LEMMA TickedComputed ==
    ASSUME NEW c, NEW k \in Nat
    PROVE  \E G : TickSteps(c, k, G) /\ Ticked(c, k) = G[k]
<1> DEFINE Val(G, i) == IF i = 0 THEN c ELSE xTaskIncrementTick(G[i - 1])
           T == {m \in 0 .. k : \E G : G = [i \in 0 .. m |-> Val(G, i)]}
<1>1. 0 \in T
  <2> DEFINE H == [i \in 0 .. 0 |-> c]
  <2>1. H = [i \in 0 .. 0 |-> Val(H, i)]
    OBVIOUS
  <2> HIDE DEF H, Val
  <2> QED
    BY <2>1
<1>2. ASSUME NEW m \in 0 .. k - 1, m \in T PROVE m + 1 \in T
  <2>1. PICK G : G = [i \in 0 .. m |-> Val(G, i)]
    BY <1>2
  <2> DEFINE H == [i \in 0 .. m + 1 |-> IF i = m + 1 THEN Val(G, m + 1) ELSE G[i]]
  <2>2. ASSUME NEW i \in 0 .. m + 1 PROVE H[i] = Val(H, i)
    <3>1. CASE i = m + 1
      <4>1. H[i - 1] = G[i - 1] /\ i # 0
        BY <3>1
      <4> QED
        BY <3>1, <4>1
    <3>2. CASE i \in 0 .. m
      <4>1. G[i] = Val(G, i)
        BY <2>1, <3>2
      <4>2. i # 0 => H[i - 1] = G[i - 1]
        BY <3>2
      <4>3. H[i] = G[i]
        BY <3>2
      <4> QED
        BY <4>1, <4>2, <4>3
    <3> QED
      BY <3>1, <3>2
  <2>3. H = [i \in 0 .. m + 1 |-> Val(H, i)]
    BY <2>2
  <2>4. m + 1 \in 0 .. k
    OBVIOUS
  <2> HIDE DEF H, Val
  <2> QED
    BY <2>3, <2>4
<1>3. k \in T
  <2>1. \A m \in 0 .. k - 1 : m \in T => m + 1 \in T
    BY <1>2
  <2> HIDE DEF T, Val
  <2>2. 0 .. k \subseteq T
    BY <1>1, <2>1, UpTo
  <2> QED
    BY <2>2
<1>4. \E G : TickSteps(c, k, G)
  BY <1>3 DEF TickSteps
<1> DEFINE K == CHOOSE G : TickSteps(c, k, G)
<1>5. TickSteps(c, k, K)
  BY <1>4
<1>6. Ticked(c, k) = K[k]
  BY DEF Ticked, TickSteps
<1> HIDE DEF K
<1> QED
  BY <1>5, <1>6

\* The count, for a call that noted it at g and had seen e ticks at first; over says that
\* it had wrapped already.
Since(c, g, e, over) == c.tick = g + e + c.ticks - (IF over \/ c.over THEN TickMod ELSE 0)

(* The ticks held back are counted like any others. *)
LEMMA TickedRight ==
    ASSUME NEW c, NEW k \in Nat, NEW rem \in [Sleeper -> Int], Counted(c, rem), c.ticks = 0
    PROVE  /\ Counted(Ticked(c, k), rem) /\ Ticked(c, k).ticks = k
           /\ \A t : OnClock(t, Ticked(c, k)) => OnClock(t, c)
           /\ \A t : OnClock(t, c) =>
                 OnClock(t, Ticked(c, k)) \/ (rem[t] <= k /\ t \in Ticked(c, k).woken)
           /\ \A g \in 0 .. TickMod - 1, e \in Nat, over \in BOOLEAN :
                 Since(c, g, e, over) /\ e + k < TickMod => Since(Ticked(c, k), g, e, over)
<1>1. PICK G : TickSteps(c, k, G) /\ Ticked(c, k) = G[k]
  BY TickedComputed
<1>2. G[0] = c /\ \A i \in 1 .. k : G[i] = xTaskIncrementTick(G[i - 1])
  <2>1. ASSUME NEW i \in 0 .. k PROVE G[i] = IF i = 0 THEN c ELSE xTaskIncrementTick(G[i - 1])
    BY <1>1 DEF TickSteps
  <2> QED
    BY <2>1
<1>3. TickMod \in Nat \ {0}
  BY TicksAssumption
<1> DEFINE P(m) ==
               /\ Counted(G[m], rem) /\ G[m].ticks = m
               /\ \A t : OnClock(t, G[m]) => OnClock(t, c)
               /\ \A t \in Sleeper : OnClock(t, c) =>
                     OnClock(t, G[m]) \/ (rem[t] <= m /\ t \in G[m].woken)
               /\ \A g \in 0 .. TickMod - 1, e \in Nat, over \in BOOLEAN :
                     Since(c, g, e, over) /\ e + m < TickMod => Since(G[m], g, e, over)
           T == {m \in 0 .. k : P(m)}
<1>4. 0 \in T
  BY <1>2
<1>5. ASSUME NEW m \in 0 .. k - 1, m \in T PROVE m + 1 \in T
  <2> DEFINE a == G[m]
             b == G[m + 1]
  <2>1. P(m)
    BY <1>5
  <2>2. b = xTaskIncrementTick(a)
    BY <1>2
  <2> HIDE DEF a, b
  <2>3. Counted(a, rem) /\ a.ticks = m
    BY <2>1 DEF a
  <2>4. /\ Counted(b, rem) /\ b.ticks = m + 1
        /\ b.tick = IF a.tick = TickMod - 1 THEN 0 ELSE a.tick + 1
        /\ b.over = (a.over \/ a.tick = TickMod - 1)
        /\ \A t : OnClock(t, b) => OnClock(t, a)
        /\ a.woken \subseteq b.woken
        /\ \A t : OnClock(t, a) => OnClock(t, b) \/ (rem[t] <= m + 1 /\ t \in b.woken)
    BY <2>2, <2>3, TickRight
  <2>5. a.tick \in 0 .. TickMod - 1 /\ a.over \in BOOLEAN
    BY <2>3 DEF Counted, Moved, Clocks
  <2>6. ASSUME NEW t PROVE OnClock(t, b) => OnClock(t, c)
    BY <2>1, <2>4 DEF a
  <2>7. ASSUME NEW t \in Sleeper, OnClock(t, c)
        PROVE  OnClock(t, b) \/ (rem[t] <= m + 1 /\ t \in b.woken)
    <3>1. OnClock(t, a) \/ (rem[t] <= m /\ t \in a.woken)
      BY <2>1, <2>7 DEF a
    <3>2. rem[t] \in Int /\ m \in Int
      OBVIOUS
    <3>3. rem[t] <= m => rem[t] <= m + 1
      BY <3>2
    <3> QED
      BY <2>4, <3>1, <3>3
  <2>8. ASSUME NEW g \in 0 .. TickMod - 1, NEW e \in Nat, NEW over \in BOOLEAN,
               Since(c, g, e, over), e + (m + 1) < TickMod
        PROVE  Since(b, g, e, over)
    <3>1. e + m < TickMod /\ m \in Nat
      BY <1>3, <2>8
    <3>2. a.tick = g + e + m - (IF over \/ a.over THEN TickMod ELSE 0)
      <4>1. Since(a, g, e, over)
        BY <2>1, <2>8, <3>1 DEF a
      <4> QED
        BY <2>3, <4>1 DEF Since
    <3>3. CASE over \/ a.over
      <4>1. a.tick = g + e + m - TickMod
        BY <3>2, <3>3
      <4>2. a.tick # TickMod - 1
        BY <1>3, <2>8, <3>1, <4>1
      <4>3. b.tick = a.tick + 1 /\ (over \/ b.over)
        BY <2>4, <3>3, <4>2
      <4> QED
        BY <1>3, <2>4, <3>1, <4>1, <4>3 DEF Since
    <3>4. CASE ~over /\ ~a.over
      <4>1. a.tick = g + e + m
        BY <1>3, <3>1, <3>2, <3>4
      <4>2. CASE a.tick = TickMod - 1
        <5>1. b.tick = 0 /\ b.over
          BY <2>4, <4>2
        <5> QED
          BY <1>3, <2>4, <3>1, <4>1, <4>2, <5>1 DEF Since
      <4>3. CASE a.tick # TickMod - 1
        <5>1. b.tick = a.tick + 1 /\ ~b.over
          BY <2>4, <3>4, <4>3
        <5> QED
          BY <1>3, <2>4, <3>1, <3>4, <4>1, <5>1 DEF Since
      <4> QED
        BY <4>2, <4>3
    <3> QED
      BY <3>3, <3>4
  <2>9. P(m + 1)
    BY <2>4, <2>6, <2>7, <2>8 DEF b
  <2> HIDE DEF P
  <2> QED
    BY <2>9
<1>6. k \in T
  <2>1. \A m \in 0 .. k - 1 : m \in T => m + 1 \in T
    BY <1>5
  <2> HIDE DEF T, P
  <2>2. 0 .. k \subseteq T
    BY <1>4, <2>1, UpTo
  <2> QED
    BY <2>2
<1>7. P(k)
  BY <1>6
<1>8. ASSUME NEW t, OnClock(t, c) PROVE t \in Sleeper
  <2>1. c.delayed \in Seq(Entries) /\ c.overflow \in Seq(Entries)
    BY DEF Counted, Moved, Clocks
  <2>2. /\ \A i \in DOMAIN c.delayed : c.delayed[i] \in Entries
        /\ \A i \in DOMAIN c.overflow : c.overflow[i] \in Entries
    BY <2>1
  <2> QED
    BY <1>8, <2>2 DEF OnClock, On, Entries
<1> QED
  BY <1>1, <1>7, <1>8

-----------------------------------------------------------------------------
(* A step of the clock. *)

(* What two lists in a row hold, one of them does. *)
LEMMA InBoth ==
    ASSUME NEW a \in Seq(Entries), NEW b \in Seq(Entries), NEW e
    PROVE  e \in ToSet(a \o b) <=>
              (\E i \in DOMAIN a : a[i] = e) \/ (\E i \in DOMAIN b : b[i] = e)
<1> DEFINE c == a \o b
<1>1. /\ c \in Seq(Entries) /\ Len(c) = Len(a) + Len(b)
      /\ Len(a) \in Nat /\ Len(b) \in Nat
      /\ DOMAIN a = 1 .. Len(a) /\ DOMAIN b = 1 .. Len(b) /\ DOMAIN c = 1 .. Len(c)
      /\ \A i \in 1 .. Len(a) : c[i] = a[i]
      /\ \A i \in 1 .. Len(b) : c[i + Len(a)] = b[i]
  <2>1. \A i \in 1 .. Len(a) : c[i] = a[i]
    OBVIOUS
  <2>2. \A i \in 1 .. Len(b) : c[i + Len(a)] = b[i]
    OBVIOUS
  <2> QED
    BY <2>1, <2>2
<1>2. e \in ToSet(c) <=> \E i \in DOMAIN c : c[i] = e
  BY DEF ToSet
<1> HIDE DEF c
<1>3. ASSUME NEW i \in DOMAIN c, c[i] = e
      PROVE  (\E j \in DOMAIN a : a[j] = e) \/ (\E j \in DOMAIN b : b[j] = e)
  <2>1. CASE i \in 1 .. Len(a)
    BY <1>1, <1>3, <2>1
  <2>2. CASE i \notin 1 .. Len(a)
    <3>1. i - Len(a) \in 1 .. Len(b) /\ (i - Len(a)) + Len(a) = i
      BY <1>1, <2>2
    <3>2. c[i] = b[i - Len(a)]
      BY <1>1, <3>1
    <3> QED
      BY <1>1, <1>3, <3>1, <3>2
  <2> QED
    BY <2>1, <2>2
<1>4. ASSUME NEW j \in DOMAIN a, a[j] = e PROVE \E i \in DOMAIN c : c[i] = e
  <2>1. j \in DOMAIN c /\ c[j] = a[j]
    BY <1>1
  <2> QED
    BY <1>4, <2>1
<1>5. ASSUME NEW j \in DOMAIN b, b[j] = e PROVE \E i \in DOMAIN c : c[i] = e
  <2>1. j + Len(a) \in DOMAIN c /\ c[j + Len(a)] = b[j]
    BY <1>1
  <2> QED
    BY <1>5, <2>1
<1> QED
  BY <1>2, <1>3, <1>4, <1>5 DEF c

(* A thread is on two lists in a row if it is on one of them. *)
LEMMA OnBoth ==
    ASSUME NEW a \in Seq(Entries), NEW b \in Seq(Entries), NEW t
    PROVE  t \in TasksOn(a \o b) <=> On(t, a) \/ On(t, b)
<1>1. t \in TasksOn(a \o b) <=> \E e \in ToSet(a \o b) : e.task = t
  BY DEF TasksOn
<1>2. \A e : e \in ToSet(a \o b) <=>
         (\E i \in DOMAIN a : a[i] = e) \/ (\E i \in DOMAIN b : b[i] = e)
  BY InBoth
<1> QED
  BY <1>1, <1>2 DEF On

(* A thread is blocked when one of the lists holds it. *)
LEMMA BlockedOn ==
    ASSUME TicksType, NEW t
    PROVE  Blocked(t) <=> On(t, delayed) \/ On(t, overflow)
  BY OnBoth DEF Blocked, TicksType

\* The ticks that the call of each thread still has to last.
Left == [t \in Sleeper |-> asked[t] - spent[t]]

(* The clock starts from lists that are right. *)
LEMMA ClockRight ==
    ASSUME TicksInv, NEW W
    PROVE  /\ Left \in [Sleeper -> Int]
           /\ Counted(Clock(W), Left) /\ Clock(W).ticks = 0 /\ Clock(W).over = FALSE
           /\ Clock(W).tick = xTickCount
           /\ \A t : OnClock(t, Clock(W)) <=> Blocked(t) /\ t \notin W
<1> DEFINE d == Dropped(delayed, W)
           o == Dropped(overflow, W)
           c == Clock(W)
<1>0. /\ TickMod \in Nat \ {0}
      /\ TicksType /\ delayed \in Seq(Entries) /\ overflow \in Seq(Entries)
      /\ xTickCount \in 0 .. TickMod - 1 /\ xNextTaskUnblockTime \in 0 .. TickMod - 1
      /\ asserted = FALSE /\ asked \in [Sleeper -> Nat] /\ spent \in [Sleeper -> Nat]
  BY TicksAssumption DEF TicksInv, TicksType
<1>1. Left \in [Sleeper -> Int] /\ \A t \in Sleeper : Left[t] = asked[t] - spent[t]
  BY <1>0 DEF Left
<1>2. LessThreads(delayed, W, d) /\ LessThreads(overflow, W, o)
  BY <1>0, DroppedRight
<1>3. /\ c.tick = xTickCount /\ c.next = xNextTaskUnblockTime /\ c.asserted = FALSE
      /\ c.delayed = d /\ c.overflow = o /\ c.woken = {} /\ c.ticks = 0 /\ c.over = FALSE
  BY <1>0 DEF Clock
<1>4. d \in Seq(Entries) /\ o \in Seq(Entries)
  BY <1>2 DEF LessThreads
<1>5. c \in Clocks
  <2> HIDE DEF d, o
  <2>1. c = [tick |-> xTickCount, next |-> xNextTaskUnblockTime, asserted |-> asserted,
             delayed |-> d, overflow |-> o, woken |-> {}, ticks |-> 0, over |-> FALSE]
    BY DEF Clock, d, o
  <2> HIDE DEF c
  <2> QED
    BY <1>0, <1>4, <2>1 DEF Clocks
<1> HIDE DEF d, o, c
<1>6. /\ Ordered(d) /\ Ordered(o) /\ Once(d) /\ Once(o) /\ Apart(d, o)
  <2>1. Ordered(delayed) /\ Ordered(overflow) /\ Once(delayed) /\ Once(overflow) /\ Apart(delayed, overflow)
    BY DEF TicksInv, ListsRight
  <2>2. Ordered(d) /\ Ordered(o) /\ Once(d) /\ Once(o)
    BY <1>2, <2>1 DEF LessThreads
  <2>3. Apart(d, o)
    BY <1>2, <2>1 DEF LessThreads, Apart
  <2> QED
    BY <2>2, <2>3
<1>7. ASSUME NEW j \in DOMAIN d
      PROVE  /\ d[j].wake - xTickCount = Left[d[j].task] - 0
             /\ d[j].wake >= xTickCount /\ d[j].wake > xTickCount
             /\ xNextTaskUnblockTime <= d[j].wake
  <2>1. PICK i \in DOMAIN delayed : d[j] = delayed[i]
    BY <1>2 DEF LessThreads
  <2>2. delayed[i] \in Entries
    BY <1>0
  <2>3. delayed[i].task \in Sleeper /\ delayed[i].wake \in 0 .. TickMod - 1
    BY <2>2 DEF Entries
  <2>4. /\ delayed[i].wake - xTickCount = asked[delayed[i].task] - spent[delayed[i].task]
        /\ delayed[i].wake > xTickCount /\ xNextTaskUnblockTime <= delayed[i].wake
    BY DEF TicksInv, ListsRight
  <2>5. Left[delayed[i].task] - 0 = asked[delayed[i].task] - spent[delayed[i].task]
    BY <1>0, <1>1, <2>3
  <2> QED
    BY <1>0, <2>1, <2>3, <2>4, <2>5
<1>8. ASSUME NEW j \in DOMAIN o
      PROVE  o[j].wake + TickMod - xTickCount = Left[o[j].task] - 0
  <2>1. PICK i \in DOMAIN overflow : o[j] = overflow[i]
    BY <1>2 DEF LessThreads
  <2>2. overflow[i] \in Entries
    BY <1>0
  <2>3. overflow[i].task \in Sleeper /\ overflow[i].wake \in 0 .. TickMod - 1
    BY <2>2 DEF Entries
  <2>4. overflow[i].wake + TickMod - xTickCount = asked[overflow[i].task] - spent[overflow[i].task]
    BY DEF TicksInv, ListsRight
  <2>5. Left[overflow[i].task] - 0 = asked[overflow[i].task] - spent[overflow[i].task]
    BY <1>0, <1>1, <2>3
  <2> QED
    BY <2>1, <2>4, <2>5
<1>9. Counted(c, Left)
  BY <1>3, <1>5, <1>6, <1>7, <1>8 DEF Counted, Moved
<1>10. ASSUME NEW t PROVE OnClock(t, c) <=> Blocked(t) /\ t \notin W
  <2>1. On(t, d) <=> On(t, delayed) /\ t \notin W
    BY <1>2 DEF LessThreads, On
  <2>2. On(t, o) <=> On(t, overflow) /\ t \notin W
    BY <1>2 DEF LessThreads, On
  <2>3. Blocked(t) <=> On(t, delayed) \/ On(t, overflow)
    BY <1>0, BlockedOn
  <2> QED
    BY <1>3, <2>1, <2>2, <2>3 DEF OnClock
<1> QED
  BY <1>1, <1>3, <1>9, <1>10 DEF c

\* What a step of the clock by k ticks leaves: the lists right, no thread newly blocked,
\* and no delay over too early.
ClockMoved(k) ==
    /\ xTickCount' \in 0 .. TickMod - 1 /\ xNextTaskUnblockTime' \in 0 .. TickMod - 1
    /\ delayed' \in Seq(Entries) /\ overflow' \in Seq(Entries) /\ asserted' = FALSE
    /\ events' \in Seq(Sleeper)
    /\ \A t : t \in Range(events)' => t \in Range(events) /\ Blocked(t)'
    /\ timeout' \in [Sleeper -> [entering : 0 .. TickMod - 1, over : BOOLEAN, wait : Nat]]
    /\ spent' \in [Sleeper -> Nat]
    /\ ListsRight'
    /\ \A t : Blocked(t)' => Blocked(t)
    /\ \A t \in Sleeper :
          /\ tpc[t] = "idle" => spent'[t] = 0
          /\ tpc[t] # "idle" => spent'[t] >= spent[t]
          /\ tpc[t] = "add" => spent'[t] = spent[t]
          /\ tpc[t] \in {"delaying", "delayed"} => Blocked(t)' \/ spent'[t] >= asked[t]
          /\ InWait(t) =>
                /\ timeout'[t].wait = timeout[t].wait /\ spent'[t] = spent[t] + k
                /\ xTickCount' = timeout'[t].entering + (spent'[t] - (asked[t] - timeout[t].wait))
                                 - (IF timeout'[t].over THEN TickMod ELSE 0)

(* The clock moves on by k ticks, the threads W having been woken before. *)
LEMMA SetClockRight ==
    ASSUME TicksInv, NEW W, NEW k \in Nat, SetClock(Ticked(Clock(W), k)), asked' = asked,
           \A t \in W : tpc[t] \in {"unlock", "resume", "try"} /\ t \notin Range(events),
           \A t \in Sleeper : InWait(t) => spent[t] + k < TickMod
    PROVE  ClockMoved(k)
<1> DEFINE c == Ticked(Clock(W), k)
           b == Clock(W)
<1>0. /\ TickMod \in Nat \ {0}
      /\ TicksType /\ delayed \in Seq(Entries) /\ overflow \in Seq(Entries)
      /\ xTickCount \in 0 .. TickMod - 1 /\ events \in Seq(Sleeper) /\ tpc \in [Sleeper -> Pcs]
      /\ asked \in [Sleeper -> Nat] /\ spent \in [Sleeper -> Nat]
      /\ timeout \in [Sleeper -> [entering : 0 .. TickMod - 1, over : BOOLEAN, wait : Nat]]
  BY TicksAssumption DEF TicksInv, TicksType
<1>1. /\ Left \in [Sleeper -> Int]
      /\ Counted(b, Left) /\ b.ticks = 0 /\ b.over = FALSE /\ b.tick = xTickCount
      /\ \A t : OnClock(t, b) <=> Blocked(t) /\ t \notin W
  BY ClockRight
<1>2. /\ Counted(c, Left) /\ c.ticks = k
      /\ \A t : OnClock(t, c) => OnClock(t, b)
      /\ \A t : OnClock(t, b) => OnClock(t, c) \/ (Left[t] <= k /\ t \in c.woken)
      /\ \A g \in 0 .. TickMod - 1, e \in Nat, over \in BOOLEAN :
            Since(b, g, e, over) /\ e + k < TickMod => Since(c, g, e, over)
  <2> HIDE DEF b
  <2>1. Counted(b, Left) /\ b.ticks = 0 /\ Left \in [Sleeper -> Int]
    BY <1>1
  <2>2. c = Ticked(b, k)
    BY DEF b
  <2> HIDE DEF c
  <2> QED
    BY <2>1, <2>2, TickedRight
<1>3. /\ xTickCount' = c.tick /\ xNextTaskUnblockTime' = c.next /\ asserted' = c.asserted
      /\ delayed' = c.delayed /\ overflow' = c.overflow
      /\ events' = Without(events, c.woken)
      /\ timeout' = [t \in Sleeper |-> [timeout[t] EXCEPT !.over = InWait(t) /\ (@ \/ c.over)]]
      /\ spent' = [t \in Sleeper |->
                      IF tpc[t] = "idle" THEN 0
                      ELSE IF InWait(t) \/ Blocked(t) THEN spent[t] + c.ticks ELSE spent[t]]
  BY DEF SetClock
<1> HIDE DEF c, b
<1>4. /\ c.tick \in 0 .. TickMod - 1 /\ c.next \in 0 .. TickMod - 1 /\ c.over \in BOOLEAN
      /\ c.delayed \in Seq(Entries) /\ c.overflow \in Seq(Entries) /\ c.asserted = FALSE
  BY <1>2 DEF Counted, Moved, Clocks
<1>5. /\ xTickCount' \in 0 .. TickMod - 1 /\ xNextTaskUnblockTime' \in 0 .. TickMod - 1
      /\ delayed' \in Seq(Entries) /\ overflow' \in Seq(Entries) /\ asserted' = FALSE
  BY <1>3, <1>4
<1>7. timeout' \in [Sleeper -> [entering : 0 .. TickMod - 1, over : BOOLEAN, wait : Nat]]
  <2>1. ASSUME NEW t \in Sleeper
        PROVE  [timeout[t] EXCEPT !.over = InWait(t) /\ (@ \/ c.over)] \in
                  [entering : 0 .. TickMod - 1, over : BOOLEAN, wait : Nat]
    <3>1. timeout[t] \in [entering : 0 .. TickMod - 1, over : BOOLEAN, wait : Nat]
      BY <1>0
    <3> DEFINE v == InWait(t) /\ (timeout[t].over \/ c.over)
    <3>2. v \in BOOLEAN
      BY DEF InWait
    <3>3. [timeout[t] EXCEPT !.over = InWait(t) /\ (@ \/ c.over)] = [timeout[t] EXCEPT !.over = v]
      OBVIOUS
    <3> HIDE DEF v
    <3> QED
      BY <3>1, <3>2, <3>3
  <2> QED
    BY <1>3, <2>1
<1>8. /\ spent' \in [Sleeper -> Nat]
      /\ \A t \in Sleeper :
            spent'[t] = IF tpc[t] = "idle" THEN 0
                        ELSE IF InWait(t) \/ Blocked(t) THEN spent[t] + k ELSE spent[t]
  <2>1. spent' = [t \in Sleeper |->
                      IF tpc[t] = "idle" THEN 0
                      ELSE IF InWait(t) \/ Blocked(t) THEN spent[t] + k ELSE spent[t]]
    BY <1>2, <1>3
  <2> QED
    BY <1>0, <2>1
<1>9. ASSUME NEW t PROVE Blocked(t)' <=> OnClock(t, c)
  <2>1. Blocked(t)' <=> On(t, delayed') \/ On(t, overflow')
    <3>1. Blocked(t)' <=> t \in TasksOn(delayed' \o overflow')
      BY DEF Blocked, TasksOn, ToSet
    <3> QED
      BY <1>5, <3>1, OnBoth
  <2> QED
    BY <1>3, <2>1 DEF OnClock
<1>10. ASSUME NEW t, OnClock(t, c) PROVE Blocked(t) /\ t \in Sleeper /\ tpc[t] # "idle"
  <2>1. Blocked(t)
    BY <1>1, <1>2, <1>10
  <2>2. t \in Sleeper
    <3>1. On(t, delayed) \/ On(t, overflow)
      BY <1>0, <2>1, BlockedOn
    <3>2. /\ \A i \in DOMAIN delayed : delayed[i] \in Entries
          /\ \A i \in DOMAIN overflow : overflow[i] \in Entries
      BY <1>0
    <3> QED
      BY <3>1, <3>2 DEF On, Entries
  <2> QED
    BY <2>1, <2>2 DEF TicksInv, ThreadsRight, ThreadRight
<1>6. events' \in Seq(Sleeper) /\ \A t : t \in Range(events)' => t \in Range(events) /\ Blocked(t)'
  <2>1. /\ events' \in Seq(Sleeper)
        /\ \A j \in DOMAIN events' : \E i \in DOMAIN events :
              events'[j] = events[i] /\ events[i] \notin c.woken
    <3> DEFINE r == Without(events, c.woken)
    <3>1. /\ r \in Seq(Sleeper)
          /\ \A j \in DOMAIN r : \E i \in DOMAIN events : r[j] = events[i] /\ events[i] \notin c.woken
      <4>1. events \in Seq(Sleeper)
        BY <1>0
      <4>2. /\ Without(events, c.woken) \in Seq(Sleeper)
            /\ \A j \in DOMAIN Without(events, c.woken) : \E i \in DOMAIN events :
                  Without(events, c.woken)[j] = events[i] /\ events[i] \notin c.woken
        BY <4>1, WithoutRight, Zenon
      <4> QED
        BY <4>2
    <3>2. r = events'
      BY <1>3
    <3> HIDE DEF r
    <3> QED
      BY <3>1, <3>2
  <2>2. ASSUME NEW t, t \in Range(events)' PROVE t \in Range(events) /\ Blocked(t)'
    <3>1. t \in Range(events) /\ t \notin c.woken
      BY <2>1, <2>2 DEF Range
    <3>2. t \in Sleeper
      BY <1>0, <3>1 DEF Range
    <3>3. Blocked(t) /\ t \notin W
      BY <3>1, <3>2 DEF TicksInv, ThreadsRight, ThreadRight
    <3> QED
      BY <1>1, <1>2, <1>9, <3>1, <3>3
  <2> QED
    BY <2>1, <2>2
<1>11. ASSUME NEW t \in Sleeper, OnClock(t, c) PROVE asked'[t] - spent'[t] = Left[t] - k
  <2>1. spent'[t] = spent[t] + k
    BY <1>8, <1>10, <1>11
  <2>2. asked'[t] = asked[t] /\ asked[t] \in Int /\ spent[t] \in Int /\ Left[t] = asked[t] - spent[t]
    BY <1>0 DEF Left
  <2> QED
    BY <2>1, <2>2
<1>12. ListsRight'
  <2>1. /\ Ordered(c.delayed) /\ Ordered(c.overflow)
        /\ Once(c.delayed) /\ Once(c.overflow) /\ Apart(c.delayed, c.overflow)
    BY <1>2 DEF Counted, Moved
  <2>2. ASSUME NEW i \in DOMAIN c.delayed
        PROVE  /\ c.delayed[i].wake - c.tick = asked'[c.delayed[i].task] - spent'[c.delayed[i].task]
               /\ c.delayed[i].wake > c.tick /\ c.next <= c.delayed[i].wake
    <3>1. c.delayed[i].wake - c.tick = Left[c.delayed[i].task] - k
      BY <1>2 DEF Counted, Moved
    <3>2. OnClock(c.delayed[i].task, c)
      BY DEF OnClock, On
    <3>3. asked'[c.delayed[i].task] - spent'[c.delayed[i].task] = Left[c.delayed[i].task] - k
      BY <1>10, <1>11, <3>2
    <3>4. c.delayed[i].wake > c.tick /\ c.next <= c.delayed[i].wake
      BY <1>2 DEF Counted, Moved
    <3> QED
      BY <3>1, <3>3, <3>4
  <2>3. ASSUME NEW i \in DOMAIN c.overflow
        PROVE  c.overflow[i].wake + TickMod - c.tick
                  = asked'[c.overflow[i].task] - spent'[c.overflow[i].task]
    <3>1. c.overflow[i].wake + TickMod - c.tick = Left[c.overflow[i].task] - k
      BY <1>2 DEF Counted, Moved
    <3>2. OnClock(c.overflow[i].task, c)
      BY DEF OnClock, On
    <3>3. asked'[c.overflow[i].task] - spent'[c.overflow[i].task] = Left[c.overflow[i].task] - k
      BY <1>10, <1>11, <3>2
    <3> QED
      BY <3>1, <3>3
  <2>4. /\ Ordered(delayed') /\ Ordered(overflow')
        /\ Once(delayed') /\ Once(overflow') /\ Apart(delayed', overflow')
    BY <1>3, <2>1
  <2> QED
    BY <1>3, <2>2, <2>3, <2>4 DEF ListsRight, Ordered, Once, Apart
<1>13. ASSUME NEW t PROVE Blocked(t)' => Blocked(t)
  BY <1>9, <1>10
<1>14. ASSUME NEW t \in Sleeper
       PROVE  /\ tpc[t] = "idle" => spent'[t] = 0
              /\ tpc[t] # "idle" => spent'[t] >= spent[t]
  <2>1. spent[t] \in Nat /\ spent[t] + k >= spent[t] /\ spent[t] >= spent[t]
    BY <1>0
  <2> QED
    BY <1>8, <2>1
<1>15. ASSUME NEW t \in Sleeper, tpc[t] = "add" PROVE spent'[t] = spent[t]
  <2>1. ~Blocked(t)
    BY <1>15 DEF TicksInv, ThreadsRight, ThreadRight
  <2> QED
    BY <1>8, <1>15, <2>1 DEF InWait
<1>16. ASSUME NEW t \in Sleeper, tpc[t] \in {"delaying", "delayed"}
       PROVE  Blocked(t)' \/ spent'[t] >= asked[t]
  <2>1. asked[t] \in Nat /\ spent[t] \in Nat
    BY <1>0
  <2>2. CASE Blocked(t)
    <3>1. OnClock(t, b)
      BY <1>1, <1>16, <2>2
    <3>2. OnClock(t, c) \/ Left[t] <= k
      BY <1>2, <3>1
    <3>3. Left[t] = asked[t] - spent[t]
      BY DEF Left
    <3>4. spent'[t] = spent[t] + k
      BY <1>8, <1>16, <2>2
    <3>5. Left[t] <= k => spent[t] + k >= asked[t]
      BY <2>1, <3>3
    <3> QED
      BY <1>9, <3>2, <3>4, <3>5
  <2>3. CASE ~Blocked(t)
    <3>1. spent[t] >= asked[t] /\ tpc[t] # "idle"
      BY <1>16, <2>3 DEF TicksInv, ThreadsRight, ThreadRight
    <3> QED
      BY <1>8, <2>1, <3>1
  <2> QED
    BY <2>2, <2>3
<1>17. ASSUME NEW t \in Sleeper, InWait(t)
       PROVE  /\ timeout'[t].wait = timeout[t].wait /\ spent'[t] = spent[t] + k
              /\ xTickCount' = timeout'[t].entering + (spent'[t] - (asked[t] - timeout[t].wait))
                               - (IF timeout'[t].over THEN TickMod ELSE 0)
  <2> DEFINE x == timeout[t]
             e == spent[t] - (asked[t] - x.wait)
  <2>1. x \in [entering : 0 .. TickMod - 1, over : BOOLEAN, wait : Nat]
    BY <1>0
  <2>2. timeout'[t] = [x EXCEPT !.over = x.over \/ c.over]
    BY <1>3, <1>17
  <2>3. TimeoutRight(t) /\ spent[t] + k < TickMod
    BY <1>17 DEF TicksInv, TimeoutsRight
  <2>4. /\ x.wait \in 1 .. asked[t] /\ e >= 0
        /\ xTickCount = x.entering + e - (IF x.over THEN TickMod ELSE 0)
    BY <2>3 DEF TimeoutRight
  <2> HIDE DEF x
  <2>5. /\ timeout'[t].wait = x.wait /\ timeout'[t].entering = x.entering
        /\ timeout'[t].over = (x.over \/ c.over)
    BY <2>1, <2>2
  <2>6. spent'[t] = spent[t] + k
    BY <1>8, <1>17 DEF InWait
  <2>7. /\ asked[t] \in Nat /\ spent[t] \in Nat /\ x.wait \in Nat /\ x.entering \in 0 .. TickMod - 1
        /\ x.over \in BOOLEAN
    BY <1>0, <2>1
  <2>8. e \in Nat /\ e + k < TickMod /\ spent'[t] - (asked[t] - x.wait) = e + k
    <3>1. asked[t] \in Int /\ spent[t] \in Int /\ x.wait \in Int /\ TickMod \in Int
      BY <1>0, <2>7
    <3>2. x.wait <= asked[t] /\ e >= 0 /\ spent[t] + k < TickMod
      BY <2>3, <2>4
    <3>3. (spent[t] + k) - (asked[t] - x.wait) = e + k
      BY <3>1
    <3>4. e \in Nat /\ e + k < TickMod
      BY <3>1, <3>2
    <3> QED
      BY <2>6, <3>3, <3>4
  <2> HIDE DEF e
  <2>9. Since(b, x.entering, e, x.over)
    <3> DEFINE z == IF x.over THEN TickMod ELSE 0
    <3>1. x.entering + e + 0 - z = x.entering + e - z
      <4>1. z \in Int /\ x.entering \in Int /\ e \in Int
        BY <1>0, <2>7, <2>8
      <4> HIDE DEF z
      <4> QED
        BY <4>1
    <3>2. (IF x.over \/ b.over THEN TickMod ELSE 0) = z
      BY <1>1
    <3>3. b.tick = x.entering + e - z
      BY <1>1, <2>4
    <3> HIDE DEF z
    <3> QED
      BY <1>1, <3>1, <3>2, <3>3 DEF Since
  <2>10. Since(c, x.entering, e, x.over)
    BY <1>2, <2>7, <2>8, <2>9
  <2>11. xTickCount' = x.entering + (e + k) - (IF x.over \/ c.over THEN TickMod ELSE 0)
    <3> DEFINE z == IF x.over \/ c.over THEN TickMod ELSE 0
    <3>1. c.tick = x.entering + e + k - z
      BY <1>2, <2>10 DEF Since
    <3>2. z \in Int /\ x.entering \in Int /\ e \in Int /\ k \in Int
      BY <1>0, <2>7, <2>8
    <3> HIDE DEF z
    <3>3. c.tick = x.entering + (e + k) - z
      BY <3>1, <3>2
    <3> QED
      BY <1>3, <3>3 DEF z
  <2> QED
    BY <2>5, <2>6, <2>8, <2>11 DEF x
<1> QED
  BY <1>5, <1>6, <1>7, <1>8, <1>12, <1>13, <1>14, <1>15, <1>16, <1>17 DEF ClockMoved

-----------------------------------------------------------------------------
(* vListInsert. *)

(* In a list in order, the entries that are due by w come first. *)
LEMMA DueFirst ==
    ASSUME NEW list \in Seq(Entries), Ordered(list), NEW w \in 0 .. TickMod - 1
    PROVE  \E m \in 0 .. Len(list) :
              /\ Cardinality({i \in DOMAIN list : list[i].wake <= w}) = m
              /\ \A i \in DOMAIN list : list[i].wake <= w <=> i <= m
<1> DEFINE L == Len(list)
           P == {i \in DOMAIN list : list[i].wake <= w}
           D == {i \in 1 .. L + 1 : i \notin P}
<1>1. L \in Nat /\ DOMAIN list = 1 .. L /\ TickMod \in Nat
  BY TicksAssumption
<1>2. \A i \in 1 .. L : list[i].wake \in 0 .. TickMod - 1
  <2>1. \A i \in 1 .. L : list[i] \in Entries
    OBVIOUS
  <2> QED
    BY <2>1 DEF Entries
<1>3. PICK q \in D : \A i \in D : q <= i
  <2>1. D \in SUBSET Nat /\ L + 1 \in D
    BY <1>1
  <2> HIDE DEF D
  <2> QED
    BY <2>1, Least
<1>4. q \in 1 .. L + 1 /\ q \notin P /\ q - 1 \in 0 .. L
  BY <1>1
<1>5. ASSUME NEW i \in 1 .. L PROVE i \in P <=> i <= q - 1
  <2>1. ASSUME i <= q - 1 PROVE i \in P
    <3>1. i \in 1 .. L + 1 /\ ~(q <= i)
      BY <1>1, <1>4, <2>1
    <3> QED
      BY <1>3, <3>1
  <2>2. ASSUME i \in P, ~(i <= q - 1) PROVE FALSE
    <3>1. q <= i /\ q \in 1 .. L
      BY <1>1, <1>4, <2>2
    <3>2. CASE q = i
      BY <1>4, <2>2, <3>2
    <3>3. CASE q < i
      <4>1. list[q].wake <= list[i].wake
        BY <1>1, <3>1, <3>3 DEF Ordered
      <4>2. list[i].wake <= w
        BY <2>2
      <4>3. list[q].wake <= w
        BY <1>1, <1>2, <3>1, <4>1, <4>2
      <4> QED
        BY <1>1, <1>4, <3>1, <4>3
    <3> QED
      BY <3>1, <3>2, <3>3
  <2> QED
    BY <2>1, <2>2
<1>6. P = 1 .. q - 1
  <2>1. P \subseteq 1 .. L
    BY <1>1
  <2> HIDE DEF P
  <2>2. ASSUME NEW i \in 1 .. q - 1 PROVE i \in P
    <3>1. i \in 1 .. L /\ i <= q - 1
      BY <1>1, <1>4
    <3> QED
      BY <1>5, <3>1
  <2>3. ASSUME NEW i \in P PROVE i \in 1 .. q - 1
    <3>1. i \in 1 .. L /\ i <= q - 1
      BY <1>5, <2>1
    <3> QED
      BY <1>1, <1>4, <3>1
  <2> QED
    BY <2>2, <2>3
<1>7. Cardinality(1 .. q - 1) = q - 1
  <2>1. q - 1 \in Int /\ 1 \in Int /\ q - 1 >= 0
    BY <1>1, <1>4
  <2>2. Cardinality(1 .. q - 1) = IF 1 > q - 1 THEN 0 ELSE (q - 1) - 1 + 1
    BY <2>1, FS_Interval
  <2> QED
    BY <2>1, <2>2
<1>8. \A i \in DOMAIN list : list[i].wake <= w <=> i <= q - 1
  BY <1>1, <1>5
<1> QED
  BY <1>4, <1>6, <1>7, <1>8

\* The list with the entry e put in its place.
Placed(list, e) == InsertAt(list, Cardinality({i \in DOMAIN list : list[i].wake <= e.wake}) + 1, e)

(* The list stays in order, and holds one entry more. *)
LEMMA PlacedRight ==
    ASSUME NEW list \in Seq(Entries), Ordered(list), NEW e \in Entries
    PROVE  /\ Placed(list, e) \in Seq(Entries) /\ Ordered(Placed(list, e))
           /\ Once(list) /\ ~On(e.task, list) => Once(Placed(list, e))
           /\ \A j \in DOMAIN Placed(list, e) :
                 Placed(list, e)[j] = e \/ \E i \in DOMAIN list : Placed(list, e)[j] = list[i]
           /\ \A t : On(t, Placed(list, e)) <=> t = e.task \/ On(t, list)
<1> DEFINE L == Len(list)
           r == Placed(list, e)
<1>1. L \in Nat /\ DOMAIN list = 1 .. L /\ TickMod \in Nat /\ e.wake \in 0 .. TickMod - 1
  BY TicksAssumption DEF Entries
<1>2. PICK m \in 0 .. L :
         /\ Cardinality({i \in DOMAIN list : list[i].wake <= e.wake}) = m
         /\ \A i \in DOMAIN list : list[i].wake <= e.wake <=> i <= m
  BY <1>1, DueFirst
<1>3. /\ r \in Seq(Entries) /\ Len(r) = L + 1
      /\ \A j \in 1 .. L + 1 :
            r[j] = IF j <= m THEN list[j] ELSE IF j = m + 1 THEN e ELSE list[j - 1]
  <2>1. r = InsertAt(list, m + 1, e)
    BY <1>2 DEF Placed
  <2> DEFINE x == InsertAt(list, m + 1, e)
  <2>2. /\ x \in Seq(Entries) /\ Len(x) = L + 1
        /\ \A j \in 1 .. L + 1 :
              x[j] = IF j <= m THEN list[j] ELSE IF j = m + 1 THEN e ELSE list[j - 1]
    BY InsertAtRight
  <2> HIDE DEF r, x
  <2> QED
    BY <2>1, <2>2 DEF x
<1> HIDE DEF r
<1>4. DOMAIN r = 1 .. L + 1
  BY <1>3
\* Where the entry at j comes from.
<1> DEFINE from(j) == IF j <= m THEN j ELSE j - 1
<1>5. ASSUME NEW j \in DOMAIN r, j # m + 1
      PROVE  from(j) \in 1 .. L /\ r[j] = list[from(j)] /\ (from(j) <= m <=> j <= m)
  BY <1>1, <1>2, <1>3, <1>4, <1>5
<1>6. m + 1 \in DOMAIN r /\ r[m + 1] = e
  BY <1>1, <1>2, <1>3, <1>4
<1>7. \A i \in 1 .. L : list[i].wake \in 0 .. TickMod - 1
  <2>1. \A i \in 1 .. L : list[i] \in Entries
    OBVIOUS
  <2> QED
    BY <2>1 DEF Entries
<1>8. Ordered(r)
  <2> SUFFICES ASSUME NEW j \in DOMAIN r, NEW k \in DOMAIN r, j < k PROVE r[j].wake <= r[k].wake
    BY DEF Ordered
  <2>1. CASE j = m + 1
    <3>1. k # m + 1 /\ ~(k <= m)
      BY <1>1, <1>2, <1>4, <2>1
    <3>2. from(k) \in 1 .. L /\ r[k] = list[from(k)] /\ ~(from(k) <= m)
      BY <1>5, <3>1
    <3> HIDE DEF from
    <3>3. ~(list[from(k)].wake <= e.wake)
      BY <1>1, <1>2, <3>2
    <3> QED
      BY <1>1, <1>6, <1>7, <2>1, <3>2, <3>3
  <2>2. CASE k = m + 1
    <3>1. j # m + 1 /\ j <= m
      BY <1>1, <1>2, <1>4, <2>2
    <3>2. from(j) \in 1 .. L /\ r[j] = list[from(j)] /\ from(j) <= m
      BY <1>5, <3>1
    <3> HIDE DEF from
    <3> QED
      BY <1>1, <1>2, <1>6, <2>2, <3>2
  <2>3. CASE j # m + 1 /\ k # m + 1
    <3>1. /\ from(j) \in 1 .. L /\ r[j] = list[from(j)]
          /\ from(k) \in 1 .. L /\ r[k] = list[from(k)]
      BY <1>5, <2>3
    <3>2. from(j) < from(k)
      BY <1>1, <1>2, <1>4, <2>3
    <3> HIDE DEF from
    <3> QED
      BY <1>1, <3>1, <3>2 DEF Ordered
  <2> QED
    BY <2>1, <2>2, <2>3
<1>9. ASSUME Once(list), ~On(e.task, list) PROVE Once(r)
  <2> SUFFICES ASSUME NEW j \in DOMAIN r, NEW k \in DOMAIN r, r[j].task = r[k].task PROVE j = k
    BY DEF Once
  <2>1. CASE j = m + 1 /\ k # m + 1
    <3>1. from(k) \in 1 .. L /\ r[k] = list[from(k)]
      BY <1>5, <2>1
    <3> HIDE DEF from
    <3> QED
      BY <1>1, <1>6, <1>9, <2>1, <3>1 DEF On
  <2>2. CASE k = m + 1 /\ j # m + 1
    <3>1. from(j) \in 1 .. L /\ r[j] = list[from(j)]
      BY <1>5, <2>2
    <3> HIDE DEF from
    <3> QED
      BY <1>1, <1>6, <1>9, <2>2, <3>1 DEF On
  <2>3. CASE j # m + 1 /\ k # m + 1
    <3>1. /\ from(j) \in 1 .. L /\ r[j] = list[from(j)]
          /\ from(k) \in 1 .. L /\ r[k] = list[from(k)]
      BY <1>5, <2>3
    <3> HIDE DEF from
    <3>2. from(j) = from(k)
      BY <1>1, <1>9, <3>1 DEF Once
    <3> USE DEF from
    <3> QED
      BY <1>1, <1>2, <1>4, <2>3, <3>2
  <2> QED
    BY <2>1, <2>2, <2>3
<1>10. ASSUME NEW j \in DOMAIN r PROVE r[j] = e \/ \E i \in DOMAIN list : r[j] = list[i]
  <2>1. CASE j = m + 1
    BY <1>6, <2>1
  <2>2. CASE j # m + 1
    <3>1. from(j) \in DOMAIN list /\ r[j] = list[from(j)]
      BY <1>1, <1>5, <2>2
    <3> HIDE DEF from
    <3> QED
      BY <3>1
  <2> QED
    BY <2>1, <2>2
<1>11. ASSUME NEW i \in DOMAIN list PROVE \E j \in DOMAIN r : r[j] = list[i]
  <2>1. CASE i <= m
    <3>1. i \in 1 .. L + 1 /\ r[i] = list[i]
      BY <1>1, <1>3, <2>1
    <3> QED
      BY <1>4, <3>1
  <2>2. CASE ~(i <= m)
    <3>1. i + 1 \in 1 .. L + 1 /\ ~(i + 1 <= m) /\ i + 1 # m + 1 /\ (i + 1) - 1 = i
      BY <1>1, <1>2, <2>2
    <3>2. r[i + 1] = list[i]
      BY <1>3, <3>1
    <3> QED
      BY <1>4, <3>1, <3>2
  <2> QED
    BY <2>1, <2>2
<1>12. ASSUME NEW t PROVE On(t, r) <=> t = e.task \/ On(t, list)
  BY <1>6, <1>10, <1>11 DEF On
<1> HIDE DEF from
<1> QED
  BY <1>3, <1>8, <1>9, <1>10, <1>12 DEF r

-----------------------------------------------------------------------------
(* The steps of the threads. *)

(* Lists that stay as they are. *)
LEMMA ListsKept ==
    ASSUME TicksInv, UNCHANGED <<xTickCount, xNextTaskUnblockTime, delayed, overflow>>,
           \A u \in Sleeper : Blocked(u) => asked'[u] = asked[u] /\ spent'[u] = spent[u]
    PROVE  ListsRight' /\ \A u : Blocked(u)' <=> Blocked(u)
<1>1. TicksType /\ delayed \in Seq(Entries) /\ overflow \in Seq(Entries)
  BY DEF TicksInv, TicksType
<1>2. \A u : Blocked(u)' <=> Blocked(u)
  BY DEF Blocked
<1>3. /\ \A i \in DOMAIN delayed : delayed[i] \in Entries
      /\ \A i \in DOMAIN overflow : overflow[i] \in Entries
  BY <1>1
<1>4. ASSUME NEW i \in DOMAIN delayed
      PROVE  /\ asked'[delayed[i].task] = asked[delayed[i].task]
             /\ spent'[delayed[i].task] = spent[delayed[i].task]
  <2>1. On(delayed[i].task, delayed) /\ delayed[i].task \in Sleeper
    BY <1>3 DEF On, Entries
  <2> QED
    BY <1>1, <2>1, BlockedOn
<1>5. ASSUME NEW i \in DOMAIN overflow
      PROVE  /\ asked'[overflow[i].task] = asked[overflow[i].task]
             /\ spent'[overflow[i].task] = spent[overflow[i].task]
  <2>1. On(overflow[i].task, overflow) /\ overflow[i].task \in Sleeper
    BY <1>3 DEF On, Entries
  <2> QED
    BY <1>1, <2>1, BlockedOn
<1>6. ListsRight
  BY DEF TicksInv
<1> QED
  BY <1>2, <1>4, <1>5, <1>6 DEF ListsRight, Ordered, Once, Apart

(* Threads W taken off their list. *)
LEMMA ListsDropped ==
    ASSUME TicksInv, NEW W, delayed' = Dropped(delayed, W), overflow' = Dropped(overflow, W),
           UNCHANGED <<xTickCount, xNextTaskUnblockTime, asked, spent>>
    PROVE  /\ delayed' \in Seq(Entries) /\ overflow' \in Seq(Entries) /\ ListsRight'
           /\ \A u : Blocked(u)' <=> Blocked(u) /\ u \notin W
<1> DEFINE c == Clock(W)
<1>1. /\ Counted(c, Left) /\ c.ticks = 0
      /\ \A t : OnClock(t, c) <=> Blocked(t) /\ t \notin W
  BY ClockRight
<1>2. /\ c.tick = xTickCount' /\ c.next = xNextTaskUnblockTime'
      /\ c.delayed = delayed' /\ c.overflow = overflow'
  BY DEF Clock
<1> HIDE DEF c
<1>3. /\ delayed' \in Seq(Entries) /\ overflow' \in Seq(Entries)
  BY <1>1, <1>2 DEF Counted, Moved, Clocks
<1>4. ASSUME NEW u \in Sleeper PROVE Left[u] - 0 = asked'[u] - spent'[u]
  <2>1. Left[u] = asked[u] - spent[u] /\ asked[u] \in Int /\ spent[u] \in Int
    BY DEF Left, TicksInv, TicksType
  <2> QED
    BY <2>1
<1>5. /\ \A i \in DOMAIN delayed' : delayed'[i].task \in Sleeper
      /\ \A i \in DOMAIN overflow' : overflow'[i].task \in Sleeper
  <2>1. /\ \A i \in DOMAIN delayed' : delayed'[i] \in Entries
        /\ \A i \in DOMAIN overflow' : overflow'[i] \in Entries
    BY <1>3
  <2> QED
    BY <2>1 DEF Entries
<1>6. ListsRight'
  BY <1>1, <1>2, <1>4, <1>5 DEF Counted, Moved, ListsRight, Ordered, Once, Apart
<1>7. ASSUME NEW u PROVE Blocked(u)' <=> Blocked(u) /\ u \notin W
  <2>1. Blocked(u)' <=> u \in TasksOn(delayed' \o overflow')
    BY DEF Blocked, TasksOn, ToSet
  <2>2. Blocked(u)' <=> On(u, delayed') \/ On(u, overflow')
    BY <1>3, <2>1, OnBoth
  <2> QED
    BY <1>1, <1>2, <2>2 DEF OnClock
<1> QED
  BY <1>3, <1>6, <1>7

(* A sum that may pass the end of the count. *)
LEMMA SumMod ==
    ASSUME NEW n \in Nat \ {0}, NEW x \in 0 .. n - 1, NEW y \in 0 .. n - 1
    PROVE  (x + y) % n = IF x + y < n THEN x + y ELSE x + y - n
<1>1. CASE x + y < n
  BY <1>1
<1>2. CASE ~(x + y < n)
  <2>1. x + y - n \in 0 .. n - 1 /\ x + y = n * 1 + (x + y - n)
    BY <1>2
  <2> QED
    BY <1>2, <2>1
<1> QED
  BY <1>1, <1>2

(* A thread that blocks for the ticks its call still has to last. *)
LEMMA AddToDelayedRight ==
    ASSUME TicksInv, NEW t \in Sleeper, ~Blocked(t), NEW n \in 1 .. TickMod - 2,
           AddToDelayed(t, n), asked[t] - spent[t] = n, UNCHANGED <<asked, spent>>
    PROVE  /\ xTickCount' \in 0 .. TickMod - 1 /\ xNextTaskUnblockTime' \in 0 .. TickMod - 1
           /\ delayed' \in Seq(Entries) /\ overflow' \in Seq(Entries)
           /\ ListsRight' /\ \A u : Blocked(u)' <=> Blocked(u) \/ u = t
<1> DEFINE wake == (xTickCount + n) % TickMod
           e == [task |-> t, wake |-> wake]
<1>0. /\ TickMod \in Nat \ {0} /\ TicksType
      /\ xTickCount \in 0 .. TickMod - 1 /\ xNextTaskUnblockTime \in 0 .. TickMod - 1
      /\ delayed \in Seq(Entries) /\ overflow \in Seq(Entries)
  BY TicksAssumption DEF TicksInv, TicksType
<1>1. wake = IF xTickCount + n < TickMod THEN xTickCount + n ELSE xTickCount + n - TickMod
  <2>1. n \in 0 .. TickMod - 1
    BY <1>0
  <2> QED
    BY <1>0, <2>1, SumMod
<1>2. e = [task |-> t, wake |-> wake] /\ e.task = t /\ e.wake = wake
  OBVIOUS
<1>3. /\ IF wake < xTickCount
         THEN /\ overflow' = Placed(overflow, e)
              /\ UNCHANGED <<delayed, xNextTaskUnblockTime>>
         ELSE /\ delayed' = Placed(delayed, e)
              /\ xNextTaskUnblockTime' = IF wake < xNextTaskUnblockTime THEN wake
                                         ELSE xNextTaskUnblockTime
              /\ UNCHANGED overflow
      /\ xTickCount' = xTickCount
  BY <1>2 DEF AddToDelayed, Placed
<1> HIDE DEF e, wake
<1>4. /\ wake \in 0 .. TickMod - 1
      /\ wake < xTickCount => wake + TickMod - xTickCount = n
      /\ ~(wake < xTickCount) => wake - xTickCount = n /\ wake > xTickCount
  BY <1>0, <1>1
<1>5. e \in Entries /\ ~On(t, delayed) /\ ~On(t, overflow)
  BY <1>0, <1>2, <1>4, BlockedOn DEF Entries
<1>6. /\ Ordered(delayed) /\ Ordered(overflow)
      /\ Once(delayed) /\ Once(overflow) /\ Apart(delayed, overflow)
      /\ \A i \in DOMAIN delayed :
            /\ delayed[i].wake - xTickCount = asked[delayed[i].task] - spent[delayed[i].task]
            /\ delayed[i].wake > xTickCount /\ xNextTaskUnblockTime <= delayed[i].wake
      /\ \A i \in DOMAIN overflow :
            overflow[i].wake + TickMod - xTickCount
               = asked[overflow[i].task] - spent[overflow[i].task]
  BY DEF TicksInv, ListsRight
<1>7. CASE wake < xTickCount
  <2>1. overflow' = Placed(overflow, e) /\ UNCHANGED <<delayed, xNextTaskUnblockTime, xTickCount>>
    BY <1>3, <1>7
  <2>2. /\ overflow' \in Seq(Entries) /\ Ordered(overflow') /\ Once(overflow')
        /\ \A j \in DOMAIN overflow' :
              overflow'[j] = e \/ \E i \in DOMAIN overflow : overflow'[j] = overflow[i]
        /\ \A u : On(u, overflow') <=> u = t \/ On(u, overflow)
    BY <1>0, <1>2, <1>5, <1>6, <2>1, PlacedRight
  <2>3. Apart(delayed', overflow')
    BY <1>2, <1>5, <1>6, <2>1, <2>2 DEF Apart, On
  <2>4. ASSUME NEW j \in DOMAIN overflow'
        PROVE  overflow'[j].wake + TickMod - xTickCount
                  = asked'[overflow'[j].task] - spent'[overflow'[j].task]
    BY <1>2, <1>4, <1>6, <1>7, <2>2
  <2>5. ListsRight'
    BY <1>6, <2>1, <2>2, <2>3, <2>4 DEF ListsRight, Ordered, Once, Apart
  <2>6. ASSUME NEW u PROVE Blocked(u)' <=> Blocked(u) \/ u = t
    <3>1. Blocked(u)' <=> u \in TasksOn(delayed' \o overflow')
      BY DEF Blocked, TasksOn, ToSet
    <3>2. Blocked(u)' <=> On(u, delayed') \/ On(u, overflow')
      BY <1>0, <2>1, <2>2, <3>1, OnBoth
    <3> QED
      BY <1>0, <2>1, <2>2, <3>2, BlockedOn
  <2> QED
    BY <1>0, <2>1, <2>2, <2>5, <2>6
<1>8. CASE ~(wake < xTickCount)
  <2>1. /\ delayed' = Placed(delayed, e) /\ UNCHANGED <<overflow, xTickCount>>
        /\ xNextTaskUnblockTime' = IF wake < xNextTaskUnblockTime THEN wake ELSE xNextTaskUnblockTime
    BY <1>3, <1>8
  <2>2. /\ delayed' \in Seq(Entries) /\ Ordered(delayed') /\ Once(delayed')
        /\ \A j \in DOMAIN delayed' :
              delayed'[j] = e \/ \E i \in DOMAIN delayed : delayed'[j] = delayed[i]
        /\ \A u : On(u, delayed') <=> u = t \/ On(u, delayed)
    BY <1>0, <1>2, <1>5, <1>6, <2>1, PlacedRight
  <2>3. Apart(delayed', overflow')
    BY <1>2, <1>5, <1>6, <2>1, <2>2 DEF Apart, On
  <2>4. /\ xNextTaskUnblockTime' \in 0 .. TickMod - 1 /\ xNextTaskUnblockTime' <= wake
        /\ xNextTaskUnblockTime' <= xNextTaskUnblockTime
    BY <1>0, <1>4, <2>1
  <2>5. ASSUME NEW j \in DOMAIN delayed'
        PROVE  /\ delayed'[j].wake - xTickCount = asked'[delayed'[j].task] - spent'[delayed'[j].task]
               /\ delayed'[j].wake > xTickCount /\ xNextTaskUnblockTime' <= delayed'[j].wake
    <3>1. CASE delayed'[j] = e
      BY <1>2, <1>4, <1>8, <2>4, <3>1
    <3>2. ASSUME NEW i \in DOMAIN delayed, delayed'[j] = delayed[i]
          PROVE  /\ delayed'[j].wake - xTickCount = asked'[delayed'[j].task] - spent'[delayed'[j].task]
                 /\ delayed'[j].wake > xTickCount /\ xNextTaskUnblockTime' <= delayed'[j].wake
      <4>1. delayed[i] \in Entries
        BY <1>0
      <4>2. delayed[i].wake \in 0 .. TickMod - 1
        BY <4>1 DEF Entries
      <4>3. xNextTaskUnblockTime <= delayed[i].wake
        BY <1>6
      <4>4. xNextTaskUnblockTime' <= delayed[i].wake
        BY <1>0, <2>4, <4>2, <4>3
      <4> QED
        BY <1>6, <3>2, <4>4
    <3> QED
      BY <2>2, <3>1, <3>2
  <2>6. ListsRight'
    BY <1>6, <2>1, <2>2, <2>3, <2>5 DEF ListsRight, Ordered, Once, Apart
  <2>7. ASSUME NEW u PROVE Blocked(u)' <=> Blocked(u) \/ u = t
    <3>1. Blocked(u)' <=> u \in TasksOn(delayed' \o overflow')
      BY DEF Blocked, TasksOn, ToSet
    <3>2. Blocked(u)' <=> On(u, delayed') \/ On(u, overflow')
      BY <1>0, <2>1, <2>2, <3>1, OnBoth
    <3> QED
      BY <1>0, <2>1, <2>2, <3>2, BlockedOn
  <2> QED
    BY <1>0, <2>1, <2>2, <2>4, <2>6, <2>7
<1> QED
  BY <1>7, <1>8

\* What is to be shown of the thread that takes the step.
OwnRight(t) == ThreadRight(t) /\ (InWait(t) => TimeoutRight(t))

(* A step of thread t that moves no clock leaves what holds of the others. *)
LEMMA OthersRight ==
    ASSUME TicksInv, NEW t \in Sleeper, NEW place \in Pcs, GoTo(t, place),
           TicksType', ListsRight', UNCHANGED <<xTickCount, uxPendedTicks>>,
           \A u \in Sleeper : u # t =>
              /\ asked'[u] = asked[u] /\ spent'[u] = spent[u] /\ timeout'[u] = timeout[u]
              /\ Blocked(u)' <=> Blocked(u)
              /\ u \in pending' => u \in pending \/ u \in Range(events)
              /\ u \in Range(events)' => u \in Range(events) /\ (u \in pending' => u \in pending),
           suspender = NOBODY \/ suspender = t,
           place \in Suspended => suspender' = t,
           place \notin Suspended => suspender' = NOBODY,
           suspender' = NOBODY => uxPendedTicks = 0 /\ pending' = {},
           OwnRight(t)'
    PROVE  TicksInv'
<1>1. /\ tpc \in [Sleeper -> Pcs] /\ t # NOBODY /\ NOBODY \notin Sleeper
  BY TicksAssumption DEF TicksInv, TicksType
<1>2. tpc'[t] = place /\ \A u \in Sleeper : u # t => tpc'[u] = tpc[u]
  BY <1>1 DEF GoTo
<1>3. ASSUME NEW u \in Sleeper PROVE tpc'[u] \in Suspended <=> suspender' = u
  <2>1. tpc[u] \in Suspended <=> suspender = u
    BY DEF TicksInv, ThreadsRight
  <2>2. CASE u = t
    BY <1>1, <1>2, <2>2
  <2>3. CASE u # t
    BY <1>1, <1>2, <2>1, <2>3
  <2> QED
    BY <2>2, <2>3
<1>4. ASSUME NEW u \in Sleeper PROVE ThreadRight(u)' /\ (InWait(u)' => TimeoutRight(u)')
  <2>1. CASE u = t
    BY <2>1 DEF OwnRight
  <2>2. CASE u # t
    <3>1. /\ tpc'[u] = tpc[u] /\ asked'[u] = asked[u] /\ spent'[u] = spent[u]
          /\ timeout'[u] = timeout[u] /\ (Blocked(u)' <=> Blocked(u))
          /\ u \in pending' => u \in pending \/ u \in Range(events)
          /\ u \in Range(events)' => u \in Range(events) /\ (u \in pending' => u \in pending)
      BY <1>2, <2>2
    <3>2. ThreadRight(u) /\ (InWait(u) => TimeoutRight(u))
      BY DEF TicksInv, ThreadsRight, TimeoutsRight
    <3>3. ThreadRight(u)'
      BY <3>1, <3>2 DEF ThreadRight
    <3>4. InWait(u)' => TimeoutRight(u)'
      BY <3>1, <3>2 DEF InWait, TimeoutRight
    <3> QED
      BY <3>3, <3>4
  <2> QED
    BY <2>1, <2>2
<1>5. ThreadsRight'
  BY <1>3, <1>4 DEF ThreadsRight
<1>6. TimeoutsRight'
  BY <1>4 DEF TimeoutsRight
<1> QED
  BY <1>5, <1>6 DEF TicksInv

(* A thread that runs is the one that has suspended the scheduler, or no thread has. *)
LEMMA RunningThread ==
    ASSUME TicksInv, NEW t \in Sleeper, NEW place \in Pcs, At(t, place)
    PROVE  /\ tpc[t] = place
           /\ place \in Suspended => suspender = t /\ suspender # NOBODY
           /\ place \notin Suspended =>
                 suspender = NOBODY /\ ~Blocked(t) /\ uxPendedTicks = 0 /\ pending = {}
<1>1. tpc[t] \in Suspended <=> suspender = t
  BY DEF TicksInv, ThreadsRight
<1>2. t # NOBODY
  BY TicksAssumption
<1>3. suspender = NOBODY => uxPendedTicks = 0 /\ pending = {}
  BY DEF TicksInv, ThreadsRight
<1> QED
  BY <1>1, <1>2, <1>3 DEF At

(* vTaskDelay. *)
LEMMA StartDelayRight ==
    ASSUME TicksInv, NEW t \in Sleeper, NEW n \in Delays, StartDelay(t, n)
    PROVE  TicksInv'
<1>1. At(t, "idle") /\ suspender' = t /\ GoTo(t, "add") /\ UNCHANGED <<clock, queue, timeout>>
  BY DEF StartDelay
<1>2. /\ tpc[t] = "idle" /\ suspender = NOBODY /\ ~Blocked(t) /\ uxPendedTicks = 0 /\ pending = {}
  BY <1>1, RunningThread DEF Pcs, Suspended
<1>3. n \in 1 .. TickMod - 2 /\ n \in Nat
  BY TicksAssumption
<1>4. TicksType
  BY DEF TicksInv
<1>5. /\ asked' = [asked EXCEPT ![t] = n] /\ spent' = [spent EXCEPT ![t] = 0]
      /\ tpc' = [tpc EXCEPT ![t] = "add"]
  BY DEF StartDelay, GoTo
<1>6. TicksType'
  BY <1>1, <1>3, <1>4, <1>5 DEF TicksType, Pcs, clock, queue
<1>7. /\ asked'[t] = n /\ spent'[t] = 0 /\ tpc'[t] = "add"
      /\ \A u \in Sleeper : u # t => asked'[u] = asked[u] /\ spent'[u] = spent[u]
  BY <1>4, <1>5 DEF TicksType
<1>8. ListsRight' /\ \A u : Blocked(u)' <=> Blocked(u)
  BY <1>1, <1>2, <1>7, ListsKept DEF clock
<1>9. ThreadRight(t)
  BY DEF TicksInv, ThreadsRight
<1>10. OwnRight(t)'
  BY <1>1, <1>2, <1>3, <1>7, <1>8, <1>9 DEF OwnRight, ThreadRight, InWait, queue
<1> QED
  BY <1>1, <1>2, <1>6, <1>7, <1>8, <1>10, OthersRight DEF clock, queue, Pcs, Suspended

(* The receive begins to wait. *)
LEMMA StartWaitRight ==
    ASSUME TicksInv, NEW t \in Sleeper, NEW n \in Delays, StartWait(t, n)
    PROVE  TicksInv'
<1>1. At(t, "idle") /\ GoTo(t, "lock") /\ UNCHANGED <<clock, suspender, queue>>
  BY DEF StartWait
<1>2. /\ tpc[t] = "idle" /\ suspender = NOBODY /\ ~Blocked(t) /\ uxPendedTicks = 0 /\ pending = {}
  BY <1>1, RunningThread DEF Pcs, Suspended
<1>3. n \in 1 .. TickMod - 2 /\ n \in Nat /\ TickMod \in Nat
  BY TicksAssumption
<1>4. TicksType
  BY DEF TicksInv
<1>5. /\ asked' = [asked EXCEPT ![t] = n] /\ spent' = [spent EXCEPT ![t] = 0]
      /\ tpc' = [tpc EXCEPT ![t] = "lock"]
      /\ timeout' = [timeout EXCEPT ![t] = [entering |-> xTickCount, over |-> FALSE, wait |-> n]]
  BY DEF StartWait, GoTo, Entering
<1>6. TicksType'
  BY <1>1, <1>3, <1>4, <1>5 DEF TicksType, Pcs, clock, queue
<1>7. /\ asked'[t] = n /\ spent'[t] = 0 /\ tpc'[t] = "lock"
      /\ timeout'[t] = [entering |-> xTickCount, over |-> FALSE, wait |-> n]
      /\ \A u \in Sleeper : u # t =>
            asked'[u] = asked[u] /\ spent'[u] = spent[u] /\ timeout'[u] = timeout[u]
  BY <1>4, <1>5 DEF TicksType
<1>8. ListsRight' /\ \A u : Blocked(u)' <=> Blocked(u)
  BY <1>1, <1>2, <1>7, ListsKept DEF clock
<1>9. ThreadRight(t)
  BY DEF TicksInv, ThreadsRight
<1>10. ThreadRight(t)'
  BY <1>1, <1>2, <1>3, <1>7, <1>8, <1>9 DEF ThreadRight, queue
<1>11. TimeoutRight(t)'
  <2>1. xTickCount \in Nat /\ xTickCount' = xTickCount /\ uxPendedTicks' = 0
    BY <1>1, <1>2, <1>3, <1>4 DEF TicksType, clock
  <2> QED
    BY <1>3, <1>7, <2>1 DEF TimeoutRight
<1>12. OwnRight(t)'
  BY <1>10, <1>11 DEF OwnRight
<1> QED
  BY <1>1, <1>2, <1>6, <1>7, <1>8, <1>12, OthersRight DEF clock, queue, Pcs, Suspended

(* vTaskSuspendAll. *)
LEMMA SuspendAndLockRight ==
    ASSUME TicksInv, NEW t \in Sleeper, SuspendAndLock(t)
    PROVE  TicksInv'
<1>1. /\ At(t, "lock") /\ GoTo(t, "check") /\ suspender' = t
      /\ UNCHANGED <<clock, queue, timeout, asked, spent>>
  BY DEF SuspendAndLock
<1>2. /\ tpc[t] = "lock" /\ suspender = NOBODY /\ ~Blocked(t) /\ uxPendedTicks = 0 /\ pending = {}
  BY <1>1, RunningThread DEF Pcs, Suspended
<1>3. TicksType
  BY DEF TicksInv
<1>4. TicksType' /\ tpc'[t] = "check"
  BY <1>1, <1>3 DEF TicksType, Pcs, clock, queue, GoTo
<1>5. ListsRight' /\ \A u : Blocked(u)' <=> Blocked(u)
  BY <1>1, ListsKept DEF clock
<1>6. ThreadRight(t) /\ TimeoutRight(t)
  BY <1>2 DEF TicksInv, ThreadsRight, TimeoutsRight, InWait
<1>7. OwnRight(t)'
  BY <1>1, <1>2, <1>4, <1>5, <1>6 DEF OwnRight, ThreadRight, TimeoutRight, queue, clock
<1> QED
  BY <1>1, <1>2, <1>4, <1>5, <1>7, OthersRight DEF clock, queue, Pcs, Suspended

\* The step with which a call ends.
Returns(t) == Ended(t) /\ UNCHANGED <<clock, suspender, pending, events, sentLocked>> /\ full' \in BOOLEAN

(* The call returns. *)
LEMMA EndedRight ==
    ASSUME TicksInv, NEW t \in Sleeper, NEW place \in Pcs \ Suspended, At(t, place), Returns(t)
    PROVE  TicksInv'
<1>1. /\ GoTo(t, "idle") /\ UNCHANGED <<clock, suspender, pending, events, sentLocked>>
      /\ full' \in BOOLEAN
  BY DEF Returns, Ended
<1>2. /\ suspender = NOBODY /\ ~Blocked(t) /\ uxPendedTicks = 0 /\ pending = {}
  BY RunningThread
<1>3. TicksType
  BY DEF TicksInv
<1>4. /\ asked' = [asked EXCEPT ![t] = 0] /\ spent' = [spent EXCEPT ![t] = 0]
      /\ tpc' = [tpc EXCEPT ![t] = "idle"] /\ timeout' = [timeout EXCEPT ![t] = NoTimeOut]
  BY DEF Returns, Ended, GoTo
<1>5. NoTimeOut \in [entering : 0 .. TickMod - 1, over : BOOLEAN, wait : Nat]
  BY TicksAssumption DEF NoTimeOut
<1>6. TicksType'
  BY <1>1, <1>3, <1>4, <1>5 DEF TicksType, Pcs, clock
<1>7. /\ asked'[t] = 0 /\ spent'[t] = 0 /\ tpc'[t] = "idle"
      /\ \A u \in Sleeper : u # t =>
            asked'[u] = asked[u] /\ spent'[u] = spent[u] /\ timeout'[u] = timeout[u]
  BY <1>3, <1>4 DEF TicksType
<1>8. ListsRight' /\ \A u : Blocked(u)' <=> Blocked(u)
  BY <1>1, <1>2, <1>7, ListsKept DEF clock
<1>9. ThreadRight(t)
  BY DEF TicksInv, ThreadsRight
<1>10. OwnRight(t)'
  BY <1>1, <1>2, <1>7, <1>8, <1>9 DEF OwnRight, ThreadRight, InWait
<1> QED
  BY <1>1, <1>2, <1>6, <1>7, <1>8, <1>10, OthersRight DEF clock, Pcs, Suspended

(* vTaskDelay returns, or the receive with errQUEUE_EMPTY. *)
LEMMA EndWaitRight ==
    ASSUME TicksInv, NEW t \in Sleeper, EndWait(t)
    PROVE  TicksInv'
<1>1. full' = full /\ full \in BOOLEAN
  BY DEF EndWait, queue, TicksInv, TicksType
<1>2. Returns(t)
  BY <1>1 DEF EndWait, Returns, queue
<1>3. (At(t, "delayed") \/ At(t, "expired"))
  BY DEF EndWait
<1> QED
  BY <1>2, <1>3, EndedRight DEF Pcs, Suspended

(* The receive once more. *)
LEMMA RetryRight ==
    ASSUME TicksInv, NEW t \in Sleeper, Retry(t)
    PROVE  TicksInv'
<1>1. At(t, "try") /\ UNCHANGED <<clock, suspender, pending, events, sentLocked>>
  BY DEF Retry
<1>2. CASE full
  <2>1. Returns(t)
    BY <1>2 DEF Retry, Returns
  <2> QED
    BY <1>1, <2>1, EndedRight DEF Pcs, Suspended
<1>3. CASE ~full
  <2>1. GoTo(t, "lock") /\ UNCHANGED <<full, asked, spent, timeout>>
    BY <1>3 DEF Retry
  <2>2. /\ tpc[t] = "try" /\ suspender = NOBODY /\ ~Blocked(t) /\ uxPendedTicks = 0 /\ pending = {}
    BY <1>1, RunningThread DEF Pcs, Suspended
  <2>3. TicksType
    BY DEF TicksInv
  <2>4. TicksType' /\ tpc'[t] = "lock"
    BY <1>1, <2>1, <2>3 DEF TicksType, Pcs, clock, GoTo
  <2>5. ListsRight' /\ \A u : Blocked(u)' <=> Blocked(u)
    BY <1>1, <2>1, ListsKept DEF clock
  <2>6. ThreadRight(t) /\ TimeoutRight(t)
    BY <2>2 DEF TicksInv, ThreadsRight, TimeoutsRight, InWait
  <2>7. ThreadRight(t)'
    BY <1>1, <2>1, <2>2, <2>4, <2>5, <2>6 DEF ThreadRight
  <2>8. TimeoutRight(t)'
    BY <1>1, <2>1, <2>6 DEF TimeoutRight, clock
  <2> QED
    BY <1>1, <2>1, <2>2, <2>4, <2>5, <2>7, <2>8, OthersRight DEF OwnRight, clock, Pcs, Suspended
<1> QED
  BY <1>2, <1>3

(* prvAddCurrentTaskToDelayedList, of vTaskDelay. *)
LEMMA AddDelayRight ==
    ASSUME TicksInv, NEW t \in Sleeper, AddDelay(t)
    PROVE  TicksInv'
<1>1. /\ At(t, "add") /\ AddToDelayed(t, asked[t]) /\ GoTo(t, "delaying")
      /\ UNCHANGED <<suspender, queue, timeout, asked, spent>>
      /\ UNCHANGED <<xTickCount, uxPendedTicks, asserted>>
  BY DEF AddDelay, AddToDelayed
<1>2. tpc[t] = "add" /\ suspender = t /\ suspender # NOBODY
  BY <1>1, RunningThread DEF Pcs, Suspended
<1>3. TicksType /\ ThreadRight(t)
  BY DEF TicksInv, ThreadsRight
<1>4. ~Blocked(t) /\ asked[t] \in 1 .. TickMod - 2 /\ spent[t] = 0
  BY <1>2, <1>3 DEF ThreadRight
<1>5. asked[t] - spent[t] = asked[t]
  BY <1>3, <1>4 DEF TicksType
<1>6. /\ xTickCount' \in 0 .. TickMod - 1 /\ xNextTaskUnblockTime' \in 0 .. TickMod - 1
      /\ delayed' \in Seq(Entries) /\ overflow' \in Seq(Entries)
      /\ ListsRight' /\ \A u : Blocked(u)' <=> Blocked(u) \/ u = t
  BY <1>1, <1>4, <1>5, AddToDelayedRight
<1>7. TicksType' /\ tpc'[t] = "delaying"
  BY <1>1, <1>3, <1>6 DEF TicksType, Pcs, queue, GoTo
<1>8. OwnRight(t)'
  BY <1>1, <1>2, <1>3, <1>4, <1>6, <1>7 DEF OwnRight, ThreadRight, InWait, queue
<1> QED
  BY <1>1, <1>2, <1>6, <1>7, <1>8, OthersRight DEF queue, Pcs, Suspended

(* xTaskCheckForTimeOut finds the time up when it is, and the ticks that are left when
   it is not, although the count may have wrapped. *)
LEMMA TimeoutChecked ==
    ASSUME TicksInv, NEW t \in Sleeper, TimeoutRight(t)
    PROVE  /\ TimeIsUp(t) => spent[t] >= asked[t]
           /\ ~TimeIsUp(t) => Remaining(t) = asked[t] - spent[t] /\ Remaining(t) >= 1
<1> DEFINE x == timeout[t]
           w == x.wait
           g == x.entering
           e == spent[t] - (asked[t] - w)
<1>1. /\ TickMod \in Nat \ {0} /\ xTickCount \in 0 .. TickMod - 1 /\ asked[t] \in Nat /\ spent[t] \in Nat
      /\ x \in [entering : 0 .. TickMod - 1, over : BOOLEAN, wait : Nat] /\ uxPendedTicks \in Nat
  BY TicksAssumption DEF TicksInv, TicksType
<1>2. w \in Nat /\ g \in 0 .. TickMod - 1 /\ x.over \in BOOLEAN
  BY <1>1
<1>3. /\ w \in 1 .. asked[t] /\ e >= 0 /\ spent[t] + uxPendedTicks < TickMod
      /\ xTickCount = g + e - (IF x.over THEN TickMod ELSE 0)
  BY DEF TimeoutRight
<1>4. /\ Elapsed(t) = (xTickCount - g) % TickMod /\ Remaining(t) = w - Elapsed(t)
      /\ TimeIsUp(t) <=> (x.over /\ xTickCount >= g) \/ Elapsed(t) >= w
  BY DEF Elapsed, Remaining, TimeIsUp
<1> HIDE DEF x, w, g
<1>5. e \in Nat /\ e < TickMod
  <2>1. asked[t] \in Int /\ spent[t] \in Int /\ w \in Int /\ TickMod \in Int
    BY <1>1, <1>2
  <2>2. w <= asked[t] /\ e >= 0 /\ spent[t] < TickMod
    BY <1>1, <1>3
  <2> QED
    BY <2>1, <2>2
<1>6. e >= w <=> spent[t] >= asked[t]
  BY <1>1, <1>2
<1>7. w - e = asked[t] - spent[t]
  BY <1>1, <1>2
<1> HIDE DEF e
<1>8. Elapsed(t) = e
  <2>1. CASE x.over
    <3>1. xTickCount - g = e - TickMod
      BY <1>1, <1>2, <1>3, <1>5, <2>1
    <3>2. (e - TickMod) % TickMod = e
      BY <1>1, <1>5
    <3> QED
      BY <1>4, <3>1, <3>2
  <2>2. CASE ~x.over
    <3>1. xTickCount - g = e
      BY <1>1, <1>2, <1>3, <1>5, <2>2
    <3>2. e % TickMod = e
      BY <1>1, <1>5
    <3> QED
      BY <1>4, <3>1, <3>2
  <2> QED
    BY <2>1, <2>2
<1>9. x.over => ~(xTickCount >= g)
  BY <1>1, <1>2, <1>3, <1>5
<1> QED
  BY <1>2, <1>4, <1>5, <1>6, <1>7, <1>8, <1>9

(* The check for a timeout, and the thread put on the lists. *)
LEMMA CheckAndPlaceRight ==
    ASSUME TicksInv, NEW t \in Sleeper, CheckAndPlace(t)
    PROVE  TicksInv'
<1>1. At(t, "check") /\ UNCHANGED <<suspender, pending, full, sentLocked, asked, spent>>
  BY DEF CheckAndPlace
<1>2. tpc[t] = "check" /\ suspender = t /\ suspender # NOBODY
  BY <1>1, RunningThread DEF Pcs, Suspended
<1>3. TicksType /\ ThreadRight(t) /\ TimeoutRight(t) /\ TickMod \in Nat \ {0}
  BY <1>2, TicksAssumption DEF TicksInv, ThreadsRight, TimeoutsRight, InWait
<1>4. ~Blocked(t) /\ t \notin pending /\ t \notin Range(events) /\ asked[t] \in 1 .. TickMod - 2
  BY <1>2, <1>3 DEF ThreadRight
<1>5. /\ TimeIsUp(t) => spent[t] >= asked[t]
      /\ ~TimeIsUp(t) => Remaining(t) = asked[t] - spent[t] /\ Remaining(t) >= 1
  BY <1>3, TimeoutChecked
<1>6. CASE TimeIsUp(t)
  <2>1. GoTo(t, "fail") /\ UNCHANGED <<clock, events, timeout>>
    BY <1>6 DEF CheckAndPlace
  <2>2. TicksType' /\ tpc'[t] = "fail"
    BY <1>1, <1>3, <2>1 DEF TicksType, Pcs, clock, GoTo
  <2>3. ListsRight' /\ \A u : Blocked(u)' <=> Blocked(u)
    BY <1>1, <2>1, ListsKept DEF clock
  <2>4. OwnRight(t)'
    BY <1>1, <1>4, <1>5, <1>6, <2>1, <2>2, <2>3 DEF OwnRight, ThreadRight, InWait
  <2> QED
    BY <1>1, <1>2, <2>1, <2>2, <2>3, <2>4, OthersRight DEF clock, Pcs, Suspended
<1>7. CASE ~TimeIsUp(t)
  <2> DEFINE n == Remaining(t)
  <2>1. /\ timeout' = [timeout EXCEPT ![t] = Entering(n)] /\ GoTo(t, "unlock")
        /\ IF full THEN UNCHANGED <<clock, events>>
           ELSE events' = Append(events, t) /\ AddToDelayed(t, n)
    BY <1>7 DEF CheckAndPlace
  <2>2. n = asked[t] - spent[t] /\ n >= 1
    BY <1>5, <1>7
  <2> HIDE DEF n
  <2>3. asked[t] \in Nat /\ spent[t] \in Nat /\ xTickCount \in 0 .. TickMod - 1 /\ uxPendedTicks \in Nat
    BY <1>3 DEF TicksType
  <2>4. n \in 1 .. TickMod - 2 /\ n \in Nat /\ n \in 1 .. asked[t]
    BY <1>3, <1>4, <2>2, <2>3
  <2>5. /\ UNCHANGED <<xTickCount, uxPendedTicks, asserted>>
        /\ xTickCount' \in 0 .. TickMod - 1 /\ xNextTaskUnblockTime' \in 0 .. TickMod - 1
        /\ delayed' \in Seq(Entries) /\ overflow' \in Seq(Entries) /\ ListsRight'
        /\ \A u : Blocked(u)' <=> Blocked(u) \/ (~full /\ u = t)
        /\ events' \in Seq(Sleeper)
        /\ \A u : u \in Range(events)' <=> u \in Range(events) \/ (~full /\ u = t)
    <3>1. CASE full
      <4>1. UNCHANGED <<clock, events>>
        BY <2>1, <3>1
      <4>2. ListsRight' /\ \A u : Blocked(u)' <=> Blocked(u)
        BY <1>1, <4>1, ListsKept DEF clock
      <4> QED
        BY <1>3, <3>1, <4>1, <4>2 DEF TicksType, clock, Range
    <3>2. CASE ~full
      <4>1. events' = Append(events, t) /\ AddToDelayed(t, n)
        BY <2>1, <3>2
      <4>2. /\ xTickCount' \in 0 .. TickMod - 1 /\ xNextTaskUnblockTime' \in 0 .. TickMod - 1
            /\ delayed' \in Seq(Entries) /\ overflow' \in Seq(Entries)
            /\ ListsRight' /\ \A u : Blocked(u)' <=> Blocked(u) \/ u = t
        BY <1>1, <1>4, <2>2, <2>4, <4>1, AddToDelayedRight
      <4>3. UNCHANGED <<xTickCount, uxPendedTicks, asserted>>
        BY <4>1 DEF AddToDelayed
      <4>4. events \in Seq(Sleeper)
        BY <1>3 DEF TicksType
      <4>5. events' \in Seq(Sleeper) /\ \A u : u \in Range(events)' <=> u \in Range(events) \/ u = t
        <5>1. /\ events' \in Seq(Sleeper) /\ Len(events) \in Nat /\ DOMAIN events = 1 .. Len(events)
              /\ DOMAIN events' = 1 .. Len(events) + 1 /\ events'[Len(events) + 1] = t
              /\ \A i \in 1 .. Len(events) : events'[i] = events[i]
          BY <4>1, <4>4
        <5>2. \A i \in 1 .. Len(events) + 1 : i \in 1 .. Len(events) \/ i = Len(events) + 1
          BY <5>1
        <5>3. Len(events) + 1 \in 1 .. Len(events) + 1 /\ 1 .. Len(events) \subseteq 1 .. Len(events) + 1
          BY <5>1
        <5>4. ASSUME NEW u PROVE u \in Range(events)' <=> u \in Range(events) \/ u = t
          <6>1. u \in Range(events)' <=> \E i \in DOMAIN events' : events'[i] = u
            BY DEF Range
          <6>2. u \in Range(events) <=> \E i \in DOMAIN events : events[i] = u
            BY DEF Range
          <6> QED
            BY <5>1, <5>2, <5>3, <6>1, <6>2
        <5> QED
          BY <5>1, <5>4
      <4> QED
        BY <3>2, <4>2, <4>3, <4>5
    <3> QED
      BY <3>1, <3>2
  <2>6. /\ timeout'[t] = [entering |-> xTickCount, over |-> FALSE, wait |-> n]
        /\ \A u \in Sleeper : u # t => timeout'[u] = timeout[u]
        /\ timeout' \in [Sleeper -> [entering : 0 .. TickMod - 1, over : BOOLEAN, wait : Nat]]
    <3>1. timeout \in [Sleeper -> [entering : 0 .. TickMod - 1, over : BOOLEAN, wait : Nat]]
      BY <1>3 DEF TicksType
    <3>2. timeout' = [timeout EXCEPT ![t] = [entering |-> xTickCount, over |-> FALSE, wait |-> n]]
      BY <2>1 DEF Entering
    <3>3. [entering |-> xTickCount, over |-> FALSE, wait |-> n] \in
             [entering : 0 .. TickMod - 1, over : BOOLEAN, wait : Nat]
      BY <2>3, <2>4
    <3> QED
      BY <3>1, <3>2, <3>3
  <2>7. TicksType' /\ tpc'[t] = "unlock"
    BY <1>1, <1>3, <2>1, <2>5, <2>6 DEF TicksType, Pcs, GoTo
  <2>8. ThreadRight(t)'
    BY <1>1, <1>4, <2>5, <2>7 DEF ThreadRight
  <2>9. TimeoutRight(t)'
    <3>1. asked[t] - n = spent[t] /\ spent[t] - spent[t] = 0
      BY <2>2, <2>3
    <3>2. spent[t] + uxPendedTicks < TickMod
      BY <1>3 DEF TimeoutRight
    <3>3. xTickCount = xTickCount + 0 - 0
      BY <2>3
    <3> QED
      BY <1>1, <2>4, <2>5, <2>6, <3>1, <3>2, <3>3 DEF TimeoutRight
  <2>10. OwnRight(t)'
    BY <2>8, <2>9 DEF OwnRight
  <2> QED
    BY <1>1, <1>2, <2>1, <2>5, <2>6, <2>7, <2>10, OthersRight DEF Pcs, Suspended
<1> QED
  BY <1>6, <1>7

\* What WakeFirst leaves: it takes a thread off the event list, and off its delayed list
\* unless the scheduler is suspended.
FirstWoken ==
    /\ UNCHANGED <<xTickCount, xNextTaskUnblockTime, uxPendedTicks, asserted>>
    /\ delayed' \in Seq(Entries) /\ overflow' \in Seq(Entries) /\ ListsRight'
    /\ events' \in Seq(Sleeper) /\ pending' \in SUBSET Sleeper
    /\ \A u : u \in pending' => u \in pending \/ u \in Range(events)
    /\ \A u : u \in Range(events)' =>
          u \in Range(events) /\ Blocked(u)' /\ (u \in pending' => u \in pending)
    /\ \A u : Blocked(u)' => Blocked(u)
    /\ \A u : Blocked(u) => Blocked(u)' \/ (suspender = NOBODY /\ u \in Range(events))
    /\ suspender = NOBODY => pending' = pending

(* The head of the event list is woken. *)
LEMMA WakeFirstRight ==
    ASSUME TicksInv, WakeFirst, UNCHANGED <<asked, spent>>
    PROVE  FirstWoken
<1> DEFINE W == IF events = << >> THEN {} ELSE {Head(events)}
<1>1. TicksType /\ events \in Seq(Sleeper) /\ pending \in SUBSET Sleeper
  BY DEF TicksInv, TicksType
<1>2. /\ events' = Without(events, W)
      /\ IF suspender = NOBODY
         THEN /\ delayed' = Dropped(delayed, W) /\ overflow' = Dropped(overflow, W)
              /\ UNCHANGED pending
         ELSE pending' = pending \cup W /\ UNCHANGED <<delayed, overflow>>
      /\ UNCHANGED <<xTickCount, xNextTaskUnblockTime, uxPendedTicks, asserted>>
  BY DEF WakeFirst
<1>3. \A u \in W : u \in Range(events) /\ u \in Sleeper
  BY <1>1 DEF Range
<1> HIDE DEF W
<1>4. /\ events' \in Seq(Sleeper)
      /\ \A u : u \in Range(events)' => u \in Range(events) /\ u \notin W
  <2>1. /\ Without(events, W) \in Seq(Sleeper)
        /\ \A j \in DOMAIN Without(events, W) : \E i \in DOMAIN events :
              Without(events, W)[j] = events[i] /\ events[i] \notin W
    BY <1>1, WithoutRight, Zenon
  <2>2. /\ events' \in Seq(Sleeper)
        /\ \A j \in DOMAIN events' : \E i \in DOMAIN events : events'[j] = events[i] /\ events[i] \notin W
    BY <1>2, <2>1
  <2> QED
    BY <2>2 DEF Range
<1>5. ASSUME NEW u \in Range(events) PROVE Blocked(u)
  <2>1. u \in Sleeper
    BY <1>1 DEF Range
  <2> QED
    BY <2>1 DEF TicksInv, ThreadsRight, ThreadRight
<1>6. CASE suspender = NOBODY
  <2>1. /\ delayed' = Dropped(delayed, W) /\ overflow' = Dropped(overflow, W) /\ pending' = pending
    BY <1>2, <1>6
  <2>2. /\ delayed' \in Seq(Entries) /\ overflow' \in Seq(Entries) /\ ListsRight'
        /\ \A u : Blocked(u)' <=> Blocked(u) /\ u \notin W
    BY <1>2, <2>1, ListsDropped
  <2> QED
    BY <1>1, <1>2, <1>3, <1>4, <1>5, <1>6, <2>1, <2>2 DEF FirstWoken
<1>7. CASE suspender # NOBODY
  <2>1. pending' = pending \cup W /\ UNCHANGED <<delayed, overflow>>
    BY <1>2, <1>7
  <2>2. ListsRight' /\ \A u : Blocked(u)' <=> Blocked(u)
    BY <1>2, <2>1, ListsKept
  <2>3. delayed' \in Seq(Entries) /\ overflow' \in Seq(Entries)
    BY <1>1, <2>1 DEF TicksType
  <2> QED
    BY <1>1, <1>2, <1>3, <1>4, <1>5, <1>7, <2>1, <2>2, <2>3 DEF FirstWoken
<1> QED
  BY <1>6, <1>7

(* prvUnlockQueue. *)
LEMMA UnlockRight ==
    ASSUME TicksInv, NEW t \in Sleeper, NEW from, NEW to, Unlock(t, from, to),
           (from = "unlock" /\ to = "resume") \/ (from = "fail" /\ to = "failed")
    PROVE  TicksInv'
<1>1. /\ At(t, from) /\ sentLocked' = FALSE /\ GoTo(t, to)
      /\ UNCHANGED <<suspender, full, timeout, asked, spent>>
      /\ IF sentLocked THEN WakeFirst ELSE UNCHANGED <<clock, events, pending>>
  BY DEF Unlock
<1>2. from \in Pcs /\ to \in Pcs /\ from \in Suspended /\ to \in Suspended
  BY DEF Pcs, Suspended
<1>3. tpc[t] = from /\ suspender = t /\ suspender # NOBODY
  BY <1>1, <1>2, RunningThread
<1>4. TicksType /\ ThreadRight(t) /\ (InWait(t) => TimeoutRight(t))
  BY DEF TicksInv, ThreadsRight, TimeoutsRight
<1>5. /\ UNCHANGED <<xTickCount, xNextTaskUnblockTime, uxPendedTicks, asserted>>
      /\ delayed' \in Seq(Entries) /\ overflow' \in Seq(Entries) /\ ListsRight'
      /\ events' \in Seq(Sleeper) /\ pending' \in SUBSET Sleeper
      /\ \A u : u \in pending' => u \in pending \/ u \in Range(events)
      /\ \A u : u \in Range(events)' => u \in Range(events) /\ (u \in pending' => u \in pending)
      /\ \A u : Blocked(u)' <=> Blocked(u)
  <2>1. CASE sentLocked
    <3>1. FirstWoken
      BY <1>1, <2>1, WakeFirstRight
    <3> QED
      BY <1>3, <3>1 DEF FirstWoken
  <2>2. CASE ~sentLocked
    <3>1. UNCHANGED <<clock, events, pending>>
      BY <1>1, <2>2
    <3>2. ListsRight' /\ \A u : Blocked(u)' <=> Blocked(u)
      BY <1>1, <3>1, ListsKept DEF clock
    <3> QED
      BY <1>4, <3>1, <3>2 DEF TicksType, clock, Range
  <2> QED
    BY <2>1, <2>2
<1>6. TicksType' /\ tpc'[t] = to
  BY <1>1, <1>2, <1>4, <1>5 DEF TicksType, GoTo
<1>7. ThreadRight(t)'
  BY <1>1, <1>3, <1>4, <1>5, <1>6 DEF ThreadRight
<1>8. InWait(t)' => TimeoutRight(t)'
  BY <1>1, <1>3, <1>4, <1>5, <1>6 DEF TimeoutRight, InWait
<1> QED
  BY <1>1, <1>2, <1>3, <1>5, <1>6, <1>7, <1>8, OthersRight DEF OwnRight

(* An interrupt handler sends an item. *)
LEMMA SendFromIsrRight ==
    ASSUME TicksInv, SendFromIsr
    PROVE  TicksInv'
<1>1. /\ full' = TRUE /\ UNCHANGED <<suspender, tpc, timeout, asked, spent>>
      /\ IF Locked THEN sentLocked' = TRUE /\ UNCHANGED <<clock, pending, events>>
                   ELSE WakeFirst /\ UNCHANGED sentLocked
  BY DEF SendFromIsr
<1>2. TicksType
  BY DEF TicksInv
<1>3. FirstWoken /\ sentLocked' \in BOOLEAN
  <2>1. CASE Locked
    <3>1. UNCHANGED <<clock, pending, events>> /\ sentLocked' = TRUE
      BY <1>1, <2>1
    <3>2. ListsRight' /\ \A u : Blocked(u)' <=> Blocked(u)
      BY <1>1, <3>1, ListsKept DEF clock
    <3>3. \A u : u \in Range(events) => Blocked(u)
      <4>1. \A u : u \in Range(events) => u \in Sleeper
        BY <1>2 DEF TicksType, Range
      <4> QED
        BY <4>1 DEF TicksInv, ThreadsRight, ThreadRight
    <3> QED
      BY <1>2, <3>1, <3>2, <3>3 DEF FirstWoken, TicksType, clock, Range
  <2>2. CASE ~Locked
    <3>1. WakeFirst /\ sentLocked' = sentLocked
      BY <1>1, <2>2
    <3> QED
      BY <1>1, <1>2, <3>1, WakeFirstRight DEF TicksType
  <2> QED
    BY <2>1, <2>2
<1>4. TicksType'
  BY <1>1, <1>2, <1>3 DEF TicksType, FirstWoken
<1>5. ASSUME NEW u \in Sleeper PROVE ThreadRight(u)'
  <2>1. ThreadRight(u)
    BY DEF TicksInv, ThreadsRight
  <2> QED
    BY <1>1, <1>3, <2>1 DEF ThreadRight, FirstWoken
<1>6. ThreadsRight'
  <2>1. ThreadsRight
    BY DEF TicksInv
  <2> QED
    BY <1>1, <1>3, <1>5, <2>1 DEF ThreadsRight, FirstWoken
<1>7. TimeoutsRight'
  <2>1. TimeoutsRight
    BY DEF TicksInv
  <2> QED
    BY <1>1, <1>3, <2>1 DEF TimeoutsRight, TimeoutRight, InWait, FirstWoken
<1> QED
  BY <1>3, <1>4, <1>6, <1>7 DEF TicksInv, FirstWoken

(* What a step of the clock makes of the timeouts. *)
LEMMA TimeoutsMoved ==
    ASSUME TicksInv, NEW k \in Nat, ClockMoved(k), asked' = asked, uxPendedTicks' \in Nat,
           NEW t \in Sleeper, InWait(t), spent[t] + k + uxPendedTicks' < TickMod
    PROVE  TimeoutRight(t)'
<1>1. /\ timeout'[t].wait = timeout[t].wait /\ spent'[t] = spent[t] + k
      /\ xTickCount' = timeout'[t].entering + (spent'[t] - (asked[t] - timeout[t].wait))
                       - (IF timeout'[t].over THEN TickMod ELSE 0)
  BY DEF ClockMoved
<1>2. /\ timeout[t].wait \in 1 .. asked[t] /\ spent[t] - (asked[t] - timeout[t].wait) >= 0
  BY DEF TicksInv, TimeoutsRight, TimeoutRight
<1>3. asked[t] \in Nat /\ spent[t] \in Nat /\ TickMod \in Nat
  BY TicksAssumption DEF TicksInv, TicksType
<1>4. spent'[t] - (asked[t] - timeout[t].wait) >= 0
  <2>1. timeout[t].wait \in Int
    BY <1>2, <1>3
  <2>2. (spent[t] + k) - (asked[t] - timeout[t].wait) >= 0
    BY <1>2, <1>3, <2>1
  <2> QED
    BY <1>1, <2>2
<1>5. spent'[t] + uxPendedTicks' < TickMod
  BY <1>1
<1> QED
  BY <1>1, <1>2, <1>4, <1>5 DEF TimeoutRight

(* xTaskIncrementTick once. *)
LEMMA TickedOnce ==
    ASSUME NEW c
    PROVE  Ticked(c, 1) = xTaskIncrementTick(c)
<1>1. PICK G : TickSteps(c, 1, G) /\ Ticked(c, 1) = G[1]
  BY TickedComputed
<1>2. ASSUME NEW i \in 0 .. 1 PROVE G[i] = IF i = 0 THEN c ELSE xTaskIncrementTick(G[i - 1])
  BY <1>1 DEF TickSteps
<1>3. G[0] = c
  BY <1>2
<1>4. G[1] = xTaskIncrementTick(G[1 - 1])
  BY <1>2
<1>5. G[1 - 1] = G[0]
  OBVIOUS
<1> QED
  BY <1>1, <1>3, <1>4, <1>5

(* xPortSysTickHandler. *)
LEMMA TickInterruptRight ==
    ASSUME TicksInv, TickInterrupt
    PROVE  TicksInv'
<1>1. /\ AllInTime(uxPendedTicks + 1)
      /\ UNCHANGED <<suspender, pending, full, sentLocked, tpc, asked>>
  BY DEF TickInterrupt
<1>2. TicksType /\ TickMod \in Nat \ {0} /\ uxPendedTicks \in Nat
  BY TicksAssumption DEF TicksInv, TicksType
<1>3. CASE suspender = NOBODY
  <2>1. SetClock(xTaskIncrementTick(Clock({}))) /\ uxPendedTicks' = uxPendedTicks
    BY <1>3 DEF TickInterrupt
  <2>2. uxPendedTicks = 0 /\ pending = {}
    BY <1>3 DEF TicksInv, ThreadsRight
  <2>3. \A t \in Sleeper : InWait(t) => spent[t] + 1 < TickMod
    BY <1>1, <2>2 DEF AllInTime
  <2>4. ClockMoved(1)
    <3>1. SetClock(Ticked(Clock({}), 1))
      BY <2>1, TickedOnce
    <3> QED
      BY <1>1, <2>3, <3>1, SetClockRight
  <2>5. TicksType'
    BY <1>1, <1>2, <2>1, <2>4 DEF TicksType, ClockMoved
  <2>6. ASSUME NEW u \in Sleeper PROVE ThreadRight(u)'
    <3>1. ThreadRight(u)
      BY DEF TicksInv, ThreadsRight
    <3>2. spent[u] \in Nat /\ asked[u] \in Nat /\ spent'[u] \in Nat
      BY <1>2, <2>4 DEF TicksType, ClockMoved
    <3>3. /\ Blocked(u)' => Blocked(u)
          /\ u \in Range(events)' => u \in Range(events) /\ Blocked(u)'
          /\ tpc[u] = "idle" => spent'[u] = 0
          /\ tpc[u] # "idle" => spent'[u] >= spent[u]
          /\ tpc[u] = "add" => spent'[u] = spent[u]
          /\ tpc[u] \in {"delaying", "delayed"} => Blocked(u)' \/ spent'[u] >= asked[u]
      BY <2>4 DEF ClockMoved
    <3>4. tpc[u] \in {"fail", "failed", "expired"} => spent'[u] >= asked[u]
      BY <3>1, <3>2, <3>3 DEF ThreadRight
    <3> QED
      BY <1>1, <3>1, <3>3, <3>4 DEF ThreadRight
  <2>7. ThreadsRight'
    <3>1. ThreadsRight
      BY DEF TicksInv
    <3> QED
      BY <1>1, <2>1, <2>6, <3>1 DEF ThreadsRight
  <2>8. ASSUME NEW u \in Sleeper, InWait(u)' PROVE TimeoutRight(u)'
    <3>1. InWait(u)
      BY <1>1, <2>8 DEF InWait
    <3>2. spent[u] + 1 + uxPendedTicks' < TickMod
      <4>1. spent[u] \in Nat
        BY <1>2 DEF TicksType
      <4>2. spent[u] + 1 < TickMod /\ uxPendedTicks' = 0
        BY <2>1, <2>2, <2>3, <3>1
      <4> QED
        BY <4>1, <4>2
    <3> QED
      BY <1>1, <1>2, <2>1, <2>4, <3>1, <3>2, TimeoutsMoved
  <2> QED
    BY <2>4, <2>5, <2>7, <2>8 DEF TicksInv, ClockMoved, TimeoutsRight
<1>4. CASE suspender # NOBODY
  <2>1. /\ uxPendedTicks' = uxPendedTicks + 1
        /\ UNCHANGED <<xTickCount, xNextTaskUnblockTime, delayed, overflow, asserted, events,
                       timeout, spent>>
    BY <1>4 DEF TickInterrupt
  <2>2. ListsRight' /\ \A u : Blocked(u)' <=> Blocked(u)
    BY <1>1, <2>1, ListsKept
  <2>3. TicksType'
    BY <1>1, <1>2, <2>1 DEF TicksType
  <2>4. ThreadsRight'
    <3>1. ThreadsRight
      BY DEF TicksInv
    <3>2. \A u \in Sleeper : ThreadRight(u) => ThreadRight(u)'
      BY <1>1, <2>1, <2>2 DEF ThreadRight, Range
    <3> QED
      BY <1>1, <1>4, <2>1, <3>1, <3>2 DEF ThreadsRight
  <2>5. ASSUME NEW u \in Sleeper, InWait(u)' PROVE TimeoutRight(u)'
    <3>1. InWait(u)
      BY <1>1, <2>5 DEF InWait
    <3>2. TimeoutRight(u)
      BY <3>1 DEF TicksInv, TimeoutsRight
    <3>3. spent'[u] + uxPendedTicks' < TickMod
      BY <1>1, <2>1, <3>1 DEF AllInTime
    <3> QED
      BY <1>1, <2>1, <3>2, <3>3 DEF TimeoutRight
  <2> QED
    BY <2>2, <2>3, <2>4, <2>5 DEF TicksInv, TimeoutsRight
<1> QED
  BY <1>3, <1>4

(* xTaskResumeAll. *)
LEMMA ResumeStepRight ==
    ASSUME TicksInv, NEW t \in Sleeper, NEW from, NEW to, xTaskResumeAll(t, from, to),
           \/ from = "delaying" /\ to = "delayed"
           \/ from = "resume" /\ to = "try"
           \/ from = "failed" /\ to = "expired"
    PROVE  TicksInv'
<1> DEFINE k == uxPendedTicks
<1>1. /\ At(t, from) /\ suspender' = NOBODY /\ SetClock(Ticked(Clock(pending), k))
      /\ uxPendedTicks' = 0 /\ pending' = {} /\ GoTo(t, to)
      /\ UNCHANGED <<full, sentLocked, asked>>
  BY DEF xTaskResumeAll
<1>2. TicksType /\ TickMod \in Nat \ {0} /\ k \in Nat /\ NOBODY \notin Sleeper
  BY TicksAssumption DEF TicksInv, TicksType
<1>3. from \in Pcs /\ to \in Pcs /\ from \in Suspended /\ to \notin Suspended
  BY DEF Pcs, Suspended
<1>4. tpc[t] = from /\ suspender = t
  BY <1>1, <1>3, RunningThread
<1>5. \A u \in Sleeper : InWait(u) => spent[u] + k < TickMod
  BY DEF TicksInv, TimeoutsRight, TimeoutRight
<1>6. ASSUME NEW u \in pending PROVE tpc[u] \in {"unlock", "resume", "try"} /\ u \notin Range(events)
  <2>1. u \in Sleeper
    BY <1>2 DEF TicksType
  <2> QED
    BY <2>1 DEF TicksInv, ThreadsRight, ThreadRight
<1> HIDE DEF k
<1>7. ClockMoved(k)
  BY <1>1, <1>2, <1>5, <1>6, SetClockRight
<1>8. tpc'[t] = to /\ (\A u \in Sleeper : u # t => tpc'[u] = tpc[u]) /\ tpc' \in [Sleeper -> Pcs]
  BY <1>1, <1>2, <1>3 DEF TicksType, GoTo
<1>9. TicksType'
  BY <1>1, <1>2, <1>7, <1>8 DEF TicksType, ClockMoved
<1>10. ASSUME NEW u \in Sleeper PROVE ThreadRight(u)'
  <2>1. ThreadRight(u)
    BY DEF TicksInv, ThreadsRight
  <2>2. spent[u] \in Nat /\ asked[u] \in Nat /\ spent'[u] \in Nat
    BY <1>2, <1>7 DEF TicksType, ClockMoved
  <2>3. /\ Blocked(u)' => Blocked(u)
        /\ u \in Range(events)' => u \in Range(events) /\ Blocked(u)'
        /\ tpc[u] = "idle" => spent'[u] = 0
        /\ tpc[u] # "idle" => spent'[u] >= spent[u]
        /\ tpc[u] = "add" => spent'[u] = spent[u]
        /\ tpc[u] \in {"delaying", "delayed"} => Blocked(u)' \/ spent'[u] >= asked[u]
    BY <1>7 DEF ClockMoved
  <2>4. tpc[u] \in {"fail", "failed", "expired"} => spent'[u] >= asked[u]
    BY <2>1, <2>2, <2>3 DEF ThreadRight
  <2>5. CASE u = t
    BY <1>1, <1>4, <1>8, <2>1, <2>3, <2>4, <2>5 DEF ThreadRight
  <2>6. CASE u # t
    BY <1>1, <1>8, <2>1, <2>3, <2>4, <2>6 DEF ThreadRight
  <2> QED
    BY <2>5, <2>6
<1>11. ThreadsRight'
  <2>1. ASSUME NEW u \in Sleeper PROVE tpc'[u] \in Suspended <=> suspender' = u
    <3>1. tpc[u] \in Suspended <=> suspender = u
      BY DEF TicksInv, ThreadsRight
    <3> QED
      BY <1>1, <1>2, <1>3, <1>4, <1>8, <3>1
  <2> QED
    BY <1>1, <1>10, <2>1 DEF ThreadsRight
<1>12. ASSUME NEW u \in Sleeper, InWait(u)' PROVE TimeoutRight(u)'
  <2>1. InWait(u)
    BY <1>4, <1>8, <1>12 DEF InWait
  <2>2. spent[u] + k + uxPendedTicks' < TickMod
    <3>1. spent[u] \in Nat /\ spent[u] + k < TickMod
      BY <1>2, <1>5, <2>1 DEF TicksType
    <3> QED
      BY <1>1, <1>2, <3>1
  <2> QED
    BY <1>1, <1>2, <1>7, <2>1, <2>2, TimeoutsMoved
<1> QED
  BY <1>7, <1>9, <1>11, <1>12 DEF TicksInv, ClockMoved, TimeoutsRight

(* The lists are empty at first. *)
LEMMA TicksStart == TicksInit => TicksInv
<1> SUFFICES ASSUME TicksInit PROVE TicksInv
  OBVIOUS
<1>1. TickMod \in Nat \ {0} /\ NOBODY \notin Sleeper
  BY TicksAssumption
<1>2. NoTimeOut \in [entering : 0 .. TickMod - 1, over : BOOLEAN, wait : Nat]
  BY <1>1 DEF NoTimeOut
<1>3. TicksType
  <2>1. /\ xTickCount \in 0 .. TickMod - 1 /\ xNextTaskUnblockTime \in 0 .. TickMod - 1
        /\ uxPendedTicks \in Nat /\ asserted = FALSE
    BY <1>1 DEF TicksInit, MAX_DELAY
  <2>2. /\ delayed \in Seq(Entries) /\ overflow \in Seq(Entries) /\ events \in Seq(Sleeper)
    <3>1. delayed = << >> /\ overflow = << >> /\ events = << >>
      BY DEF TicksInit
    <3> QED
      BY <3>1
  <2>5. /\ suspender \in Sleeper \cup {NOBODY} /\ pending \in SUBSET Sleeper
        /\ full \in BOOLEAN /\ sentLocked \in BOOLEAN
    BY DEF TicksInit
  <2>3. /\ tpc \in [Sleeper -> Pcs] /\ asked \in [Sleeper -> Nat] /\ spent \in [Sleeper -> Nat]
    BY DEF TicksInit, Pcs
  <2>4. timeout \in [Sleeper -> [entering : 0 .. TickMod - 1, over : BOOLEAN, wait : Nat]]
    BY <1>2 DEF TicksInit
  <2> QED
    BY <2>1, <2>2, <2>3, <2>4, <2>5 DEF TicksType
<1>4. ListsRight
  BY DEF TicksInit, ListsRight, Ordered, Once, Apart
<1>5. ASSUME NEW t \in Sleeper PROVE ~Blocked(t)
  <2>1. ~On(t, delayed) /\ ~On(t, overflow)
    BY DEF TicksInit, On
  <2> QED
    BY <1>3, <2>1, BlockedOn
<1>6. ThreadsRight
  BY <1>1, <1>5 DEF TicksInit, ThreadsRight, ThreadRight, Suspended, Range
<1>7. TimeoutsRight
  BY DEF TicksInit, TimeoutsRight, InWait
<1> QED
  BY <1>3, <1>4, <1>6, <1>7 DEF TicksInv

(* Every step keeps the lists and the timeouts right. *)
LEMMA TicksStep == TicksInv /\ [TicksNext]_tvars => TicksInv'
<1> SUFFICES ASSUME TicksInv, [TicksNext]_tvars PROVE TicksInv'
  OBVIOUS
<1>1. CASE TickInterrupt
  BY <1>1, TickInterruptRight
<1>2. CASE SendFromIsr
  BY <1>2, SendFromIsrRight
<1>3. ASSUME NEW t \in Sleeper, NEW n \in Delays, StartDelay(t, n) \/ StartWait(t, n) PROVE TicksInv'
  BY <1>3, StartDelayRight, StartWaitRight
<1>4. ASSUME NEW t \in Sleeper, AddDelay(t) \/ EndWait(t) PROVE TicksInv'
  BY <1>4, AddDelayRight, EndWaitRight
<1>5. ASSUME NEW t \in Sleeper, SuspendAndLock(t) \/ CheckAndPlace(t) \/ Retry(t) PROVE TicksInv'
  BY <1>5, SuspendAndLockRight, CheckAndPlaceRight, RetryRight
<1>6. ASSUME NEW t \in Sleeper, Unlock(t, "unlock", "resume") \/ Unlock(t, "fail", "failed")
      PROVE  TicksInv'
  <2>1. CASE Unlock(t, "unlock", "resume")
    BY <2>1, UnlockRight
  <2>2. CASE Unlock(t, "fail", "failed")
    BY <2>2, UnlockRight
  <2> QED
    BY <1>6, <2>1, <2>2
<1>7. ASSUME NEW t \in Sleeper,
             \/ xTaskResumeAll(t, "delaying", "delayed")
             \/ xTaskResumeAll(t, "resume", "try")
             \/ xTaskResumeAll(t, "failed", "expired")
      PROVE  TicksInv'
  BY <1>7, ResumeStepRight
<1>8. CASE UNCHANGED tvars
  <2>1. UNCHANGED <<xTickCount, xNextTaskUnblockTime, delayed, overflow, uxPendedTicks, asserted,
                    suspender, pending, events, full, sentLocked, tpc, timeout, asked, spent>>
    BY <1>8 DEF tvars, clock, queue
  <2>2. ListsRight' /\ \A u : Blocked(u)' <=> Blocked(u)
    BY <2>1, ListsKept
  <2>3. TicksType' /\ TimeoutsRight'
    BY <2>1 DEF TicksInv, TicksType, TimeoutsRight, TimeoutRight, InWait
  <2>4. ThreadsRight'
    BY <2>1, <2>2 DEF TicksInv, ThreadsRight, ThreadRight, Range
  <2> QED
    BY <2>2, <2>3, <2>4 DEF TicksInv
<1> QED
  BY <1>1, <1>2, <1>3, <1>4, <1>5, <1>6, <1>7, <1>8 DEF TicksNext

(* The invariant is what WakesOnTime asks for, and more. *)
LEMMA InvOnTime == TicksInv => WakesOnTime
<1> SUFFICES ASSUME TicksInv PROVE WakesOnTime
  OBVIOUS
<1>1. /\ TickMod \in Nat \ {0} /\ TicksType /\ delayed \in Seq(Entries) /\ overflow \in Seq(Entries)
      /\ xTickCount \in 0 .. TickMod - 1 /\ ~asserted
      /\ asked \in [Sleeper -> Nat] /\ spent \in [Sleeper -> Nat]
  BY TicksAssumption DEF TicksInv, TicksType
<1>2. ASSUME NEW e \in Entries, e.wake \in 0 .. TickMod - 1, e.task \in Sleeper,
             \/ e.wake - xTickCount = asked[e.task] - spent[e.task] /\ e.wake > xTickCount
             \/ e.wake + TickMod - xTickCount = asked[e.task] - spent[e.task]
      PROVE  /\ spent[e.task] < asked[e.task]
             /\ e.wake = (xTickCount + asked[e.task] - spent[e.task]) % TickMod
  <2> DEFINE w == e.wake
             a == asked[e.task]
             s == spent[e.task]
  <2>1. a \in Nat /\ s \in Nat /\ w \in 0 .. TickMod - 1
    BY <1>1, <1>2
  <2>2. (w - xTickCount = a - s /\ w > xTickCount) \/ w + TickMod - xTickCount = a - s
    BY <1>2
  <2> HIDE DEF w, a, s
  <2>3. s < a /\ (xTickCount + a - s = w \/ xTickCount + a - s = w + TickMod)
    BY <1>1, <2>1, <2>2
  <2>4. w % TickMod = w /\ (w + TickMod) % TickMod = w
    <3>1. TickMod \in Nat \ {0}
      BY <1>1
    <3>2. w % TickMod = w
      BY <2>1, <3>1
    <3>3. (w + TickMod) % TickMod = w
      BY <2>1, <3>1
    <3> QED
      BY <3>2, <3>3
  <2>5. w = (xTickCount + a - s) % TickMod
    BY <2>3, <2>4
  <2> QED
    BY <2>3, <2>5 DEF w, a, s
<1>3. ASSUME NEW e \in ToSet(delayed \o overflow)
      PROVE  /\ spent[e.task] < asked[e.task]
             /\ e.wake = (xTickCount + asked[e.task] - spent[e.task]) % TickMod
  <2>1. (\E i \in DOMAIN delayed : delayed[i] = e) \/ (\E i \in DOMAIN overflow : overflow[i] = e)
    <3>1. delayed \in Seq(Entries) /\ overflow \in Seq(Entries)
      BY <1>1
    <3>2. e \in ToSet(delayed \o overflow)
      BY <1>3
    <3>3. \A a, b \in Seq(Entries) : e \in ToSet(a \o b) =>
            (\E i \in DOMAIN a : a[i] = e) \/ (\E i \in DOMAIN b : b[i] = e)
      BY InBoth
    <3> QED
      BY <3>1, <3>2, <3>3
  <2>2. e \in Entries
    <3>1. /\ \A i \in DOMAIN delayed : delayed[i] \in Entries
          /\ \A i \in DOMAIN overflow : overflow[i] \in Entries
      BY <1>1
    <3> QED
      BY <2>1, <3>1
  <2>3. e.wake \in 0 .. TickMod - 1 /\ e.task \in Sleeper
    BY <2>2 DEF Entries
  <2>4. \/ e.wake - xTickCount = asked[e.task] - spent[e.task] /\ e.wake > xTickCount
        \/ e.wake + TickMod - xTickCount = asked[e.task] - spent[e.task]
    BY <2>1 DEF TicksInv, ListsRight
  <2> QED
    BY <1>2, <2>2, <2>3, <2>4
<1>4. ASSUME NEW t \in Sleeper,
             \/ tpc[t] = "delayed" /\ ~Blocked(t)
             \/ tpc[t] \in {"fail", "failed", "expired"}
      PROVE  spent[t] >= asked[t]
  BY <1>4 DEF TicksInv, ThreadsRight, ThreadRight
<1> QED
  BY <1>1, <1>3, <1>4 DEF WakesOnTime

(* Threads wake on time: for any number of threads and any width of the tick count, a
   delay or a timeout lasts as many ticks as were asked for, though the count wraps,
   ticks are held back and waits are begun anew. *)
THEOREM ThreadsWakeOnTime == TicksSpec => []WakesOnTime
<1>1. TicksSpec => []TicksInv
  BY TicksStart, TicksStep, PTL DEF TicksSpec
<1> QED
  BY <1>1, InvOnTime, PTL
=============================================================================
