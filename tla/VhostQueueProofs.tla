-------------------------- MODULE VhostQueueProofs --------------------------
(***************************************************************************)
(* A ring of a vhost-user session implements ChainQueue: proof of the      *)
(* refinement IsChainQueue, for every ring size, index width, number of    *)
(* kick descriptors and memory tables, and any set of broken chains.       *)
(***************************************************************************)
EXTENDS VhostRing, FiniteSetTheorems, SequenceTheorems, TLAPS

-----------------------------------------------------------------------------
(* Ring indices and slots. *)

\* What the proofs need of the assumption on the constants.
LEMMA Bounds == IndexMod \in Nat \ {0} /\ MaxKicks \in Nat /\ Num \in Nat
BY VhostAssumption

\* Lemmas about x % Num, for which the provers know no more than that it is
\* the remainder of a division.
LEMMA Division ==
  ASSUME NEW x \in Int
  PROVE  (x \div Num) \in Int /\ x % Num \in Heads /\ x = (x \div Num) * Num + (x % Num)
BY VhostAssumption DEF Heads

\* The remainder is the only one.
LEMMA Remainder ==
  ASSUME NEW x \in Int, NEW q \in Int, NEW r \in Heads, x = q * Num + r
  PROVE  x % Num = r
<1> DEFINE d == q - (x \div Num)
<1>0. Num \in Nat \ {0} /\ r \in 0 .. Num - 1
  BY VhostAssumption DEF Heads
<1>1. (x \div Num) \in Int /\ x % Num \in 0 .. Num - 1 /\ x = (x \div Num) * Num + (x % Num)
  BY Division DEF Heads
<1>2. d \in Int /\ d * Num = q * Num - (x \div Num) * Num
  BY <1>0, <1>1
<1> HIDE DEF d
<1>3. d * Num = (x % Num) - r
  BY <1>0, <1>1, <1>2
<1>4. \A p \in Int : p >= 1 => p * Num >= Num
  BY <1>0
<1>5. \A p \in Int : -p >= 1 => p * Num <= -Num
  BY <1>0
<1>6. d = 0
  BY <1>0, <1>1, <1>2, <1>3, <1>4, <1>5
<1> QED BY <1>0, <1>1, <1>3, <1>6

\* A ring index that wraps around stays at its slot: Num divides IndexMod.
LEMMA SlotWraps ==
  ASSUME NEW x \in Int
  PROVE  (x - IndexMod) % Num = x % Num /\ (x + IndexMod) % Num = x % Num
<1> DEFINE q == x \div Num
           p == IndexMod \div Num
<1>0. Num \in Nat \ {0} /\ IndexMod \in Nat
  BY VhostAssumption
<1>1. p \in Int /\ IndexMod = p * Num
  BY <1>0, Division, VhostAssumption
<1>2. q \in Int /\ x % Num \in Heads /\ x % Num \in Int /\ x = q * Num + (x % Num)
  BY Division DEF Heads
<1> HIDE DEF q, p
<1>3. (q - p) * Num = q * Num - p * Num /\ (q + p) * Num = q * Num + p * Num
  BY <1>0, <1>1, <1>2
<1>4. x - IndexMod = (q - p) * Num + (x % Num) /\ x + IndexMod = (q + p) * Num + (x % Num)
  BY <1>0, <1>1, <1>2, <1>3
<1>5. q - p \in Int /\ q + p \in Int /\ x - IndexMod \in Int /\ x + IndexMod \in Int
  BY <1>0, <1>1, <1>2
<1> QED BY <1>2, <1>4, <1>5, Remainder

\* k slots on from the slot of a is the slot of a + k.
LEMMA SlotOffset ==
  ASSUME NEW a \in Int, NEW k \in Heads
  PROVE  (((a + k) % Num) - a) % Num = k
<1>0. Num \in Nat \ {0} /\ k \in 0 .. Num - 1
  BY VhostAssumption DEF Heads
<1> DEFINE q == (a + k) \div Num
<1>1. q \in Int /\ (a + k) % Num \in Int /\ a + k = q * Num + ((a + k) % Num)
  BY <1>0, Division DEF Heads
<1>2. (-q) * Num = -(q * Num) /\ -q \in Int
  BY <1>0, <1>1
<1>3. ((a + k) % Num) - a = (-q) * Num + k /\ ((a + k) % Num) - a \in Int
  BY <1>0, <1>1, <1>2
<1> HIDE DEF q
<1> QED BY <1>2, <1>3, Remainder

\* The indices' own arithmetic, a case distinction where they wrap around.
LEMMA DistIs ==
  ASSUME NEW i \in Index, NEW j \in Index
  PROVE  Dist(i, j) = (IF i <= j THEN j - i ELSE j - i + IndexMod) /\ Dist(i, j) \in Index
<1>1. \A x \in 0 .. IndexMod - 1 : x % IndexMod = x
  BY Bounds
<1>2. \A x \in -IndexMod .. -1 : x % IndexMod = x + IndexMod
  BY Bounds
<1> QED BY <1>1, <1>2, Bounds DEF Dist, Index

LEMMA StepIs ==
  ASSUME NEW i \in Index, NEW n \in 0 .. IndexMod
  PROVE  (i + n) % IndexMod = (IF i + n < IndexMod THEN i + n ELSE i + n - IndexMod) /\ (i + n) % IndexMod \in Index
<1>1. \A x \in 0 .. IndexMod - 1 : x % IndexMod = x
  BY Bounds
<1>2. \A x \in IndexMod .. 2 * IndexMod - 1 : x % IndexMod = x - IndexMod
  BY Bounds
<1> QED BY <1>1, <1>2, Bounds DEF Index

\* An index that moves on by n, seen from behind, from ahead, and as a slot.
LEMMA Advance ==
  ASSUME NEW i \in Index, NEW j \in Index, NEW n \in Nat, n < IndexMod
  PROVE  LET k == (i + n) % IndexMod IN
           /\ k \in Index
           /\ n <= Dist(i, j) => Dist(k, j) = Dist(i, j) - n
           /\ Dist(j, i) + n < IndexMod => Dist(j, k) = Dist(j, i) + n
           /\ \A x \in Int : (k + x) % Num = (i + n + x) % Num
<1> DEFINE k == (i + n) % IndexMod
<1>0. i \in Nat /\ i < IndexMod /\ j \in Nat /\ j < IndexMod /\ IndexMod \in Nat
  BY Bounds DEF Index
<1>1. k = (IF i + n < IndexMod THEN i + n ELSE i + n - IndexMod) /\ k \in Index
  BY StepIs, <1>0
<1>1a. k \in Nat /\ k < IndexMod
  BY <1>0, <1>1 DEF Index
<1> HIDE DEF k
<1>2. Dist(i, j) = (IF i <= j THEN j - i ELSE j - i + IndexMod)
  BY DistIs
<1>3. Dist(k, j) = (IF k <= j THEN j - k ELSE j - k + IndexMod)
  BY DistIs, <1>1
<1>4. Dist(j, i) = (IF j <= i THEN i - j ELSE i - j + IndexMod)
  BY DistIs
<1>5. Dist(j, k) = (IF j <= k THEN k - j ELSE k - j + IndexMod)
  BY DistIs, <1>1
<1>6. n <= Dist(i, j) => Dist(k, j) = Dist(i, j) - n
  BY <1>0, <1>1, <1>1a, <1>2, <1>3
<1>7. Dist(j, i) + n < IndexMod => Dist(j, k) = Dist(j, i) + n
  BY <1>0, <1>1, <1>1a, <1>4, <1>5
<1>8. ASSUME NEW x \in Int PROVE (k + x) % Num = (i + n + x) % Num
  <2>1. k + x = i + n + x \/ (k + x = (i + n + x) - IndexMod /\ i + n + x \in Int)
    BY <1>0, <1>1
  <2> QED BY <2>1, SlotWraps
<1> QED BY <1>1, <1>6, <1>7, <1>8 DEF k

\* The distance from i to j as a number of slots.
LEMMA SlotAt ==
  ASSUME NEW i \in Index, NEW j \in Index, NEW x \in Int
  PROVE  (i + Dist(i, j) + x) % Num = (j + x) % Num
<1>0. i \in Nat /\ j \in Nat /\ IndexMod \in Nat
  BY Bounds DEF Index
<1>1. i + Dist(i, j) + x = j + x \/ i + Dist(i, j) + x = (j + x) + IndexMod
  BY <1>0, DistIs
<1>2. j + x \in Int
  BY <1>0
<1> QED BY <1>1, <1>2, SlotWraps

LEMMA OneRound == ASSUME NEW x \in Int PROVE (x + Num) % Num = x % Num
<1> DEFINE q == x \div Num
<1>0. Num \in Nat \ {0}
  BY VhostAssumption
<1>1. q \in Int /\ x % Num \in Heads /\ x % Num \in Int /\ x = q * Num + (x % Num)
  BY Division DEF Heads
<1> HIDE DEF q
<1>2. (q + 1) * Num = q * Num + Num
  BY <1>0, <1>1
<1>3. x + Num = (q + 1) * Num + (x % Num) /\ q + 1 \in Int /\ x + Num \in Int
  BY <1>0, <1>1, <1>2
<1> QED BY <1>1, <1>3, Remainder

-----------------------------------------------------------------------------
(* Sequences. *)

\* A function on 1 .. n is a sequence of length n.
LEMMA IsSeq ==
  ASSUME NEW S, NEW n \in Nat, NEW s \in [1 .. n -> S]
  PROVE  s \in Seq(S) /\ Len(s) = n
OBVIOUS

LEMMA IsAppend ==
  ASSUME NEW S, NEW n \in Nat, NEW s \in [1 .. n -> S], NEW t \in [1 .. n + 1 -> S],
         \A i \in 1 .. n : t[i] = s[i]
  PROVE  t = Append(s, t[n + 1])
BY IsSeq

LEMMA IsTail ==
  ASSUME NEW S, NEW n \in Nat, NEW s \in [1 .. n + 1 -> S], NEW t \in [1 .. n -> S],
         \A i \in 1 .. n : t[i] = s[i + 1]
  PROVE  s # <<>> /\ Head(s) = s[1] /\ t = Tail(s)
BY IsSeq

LEMMA IsSuffix ==
  ASSUME NEW S, NEW m \in Nat, NEW n \in 0 .. m, NEW s \in [1 .. m -> S], NEW t \in [1 .. m - n -> S],
         \A i \in 1 .. m - n : t[i] = s[n + i]
  PROVE  t = SubSeq(s, n + 1, Len(s))
BY IsSeq

LEMMA IsConcat ==
  ASSUME NEW s \in Seq(Heads), NEW r \in Seq(Heads), NEW t \in Seq(Heads), NEW n \in 0 .. Len(s),
         Len(t) = Len(r) + n,
         \A i \in 1 .. Len(r) : t[i] = r[i],
         \A i \in 1 .. n : t[Len(r) + i] = s[i]
  PROVE  t = r \o SubSeq(s, 1, n)
<1> DEFINE d == Len(r)
           u == SubSeq(s, 1, n)
           c == r \o u
<1>1. Len(s) \in Nat /\ d \in Nat /\ n \in Nat
  OBVIOUS
<1>2. u \in Seq(Heads) /\ Len(u) = n /\ \A i \in 1 .. n : u[i] = s[i]
  BY <1>1
<1> HIDE DEF u
<1>3. /\ c \in Seq(Heads) /\ Len(c) = d + Len(u)
      /\ \A i \in 1 .. d + Len(u) : c[i] = IF i <= d THEN r[i] ELSE u[i - d]
  BY <1>2, ConcatProperties, Zenon
<1> HIDE DEF c
<1>4. ASSUME NEW i \in 1 .. d + n PROVE t[i] = IF i <= d THEN r[i] ELSE u[i - d]
  <2>1. CASE i <= d
    BY <1>1, <2>1
  <2>2. CASE ~(i <= d)
    <3>1. i - d \in 1 .. n /\ d + (i - d) = i
      BY <1>1, <2>2
    <3>2. t[d + (i - d)] = s[i - d]
      BY <3>1
    <3> QED BY <1>2, <2>2, <3>1, <3>2
  <2> QED BY <2>1, <2>2
<1>5. Len(c) = Len(t) /\ \A i \in 1 .. Len(t) : t[i] = c[i]
  BY <1>2, <1>3, <1>4
<1>6. t = c
  BY <1>3, <1>5, SeqEqual
<1> QED BY <1>6 DEF c, u

\* To give back no chain changes nothing.
LEMMA NoChains ==
  ASSUME NEW S, NEW s \in Seq(S), NEW r \in Seq(S)
  PROVE  r \o SubSeq(s, 1, 0) = r /\ SubSeq(s, 1, Len(s)) = s
<1>1. SubSeq(s, 1, 0) = <<>>
  OBVIOUS
<1>2. r \o <<>> = r
  OBVIOUS
<1>3. SubSeq(s, 1, Len(s)) = s
  OBVIOUS
<1> QED BY <1>1, <1>2, <1>3


-----------------------------------------------------------------------------
(* Windows of a ring: the n slots from index i on, as a sequence. *)

\* The ring f with head h at index j, and the ring g with the n heads that f has
\* from index u on.
Put(f, j, h)     == [f EXCEPT ![j % Num] = h]
Copy(f, g, u, n) == [s \in Heads |-> LET k == (s - u) % Num IN IF k < n THEN f[(u + k) % Num] ELSE g[s]]

LEMMA WindowIs ==
  ASSUME NEW f \in [Heads -> Heads], NEW i \in Index, NEW n \in Nat
  PROVE  /\ Window(f, i, n) \in [1 .. n -> Heads]
         /\ Window(f, i, n) \in Seq(Heads) /\ Len(Window(f, i, n)) = n
         /\ \A k \in 1 .. n : Window(f, i, n)[k] = f[(i + (k - 1)) % Num]
<1>1. ASSUME NEW k \in 1 .. n PROVE (i + (k - 1)) % Num \in Heads
  <2>1. i + (k - 1) \in Int
    BY Bounds DEF Index
  <2> QED BY <2>1, Division
<1>2. Window(f, i, n) \in [1 .. n -> Heads]
  BY <1>1 DEF Window
<1>3. \A k \in 1 .. n : Window(f, i, n)[k] = f[(i + (k - 1)) % Num]
  BY DEF Window
<1> QED BY <1>2, <1>3, IsSeq

\* What is put into the slot behind a window that leaves one free is appended.
LEMMA WindowAppend ==
  ASSUME NEW f \in [Heads -> Heads], NEW i \in Index, NEW j \in Index, NEW h \in Heads,
         Dist(i, j) < Num
  PROVE  LET g == Put(f, j, h)
             n == Dist(i, j)
         IN  g \in [Heads -> Heads] /\ Window(g, i, n + 1) = Append(Window(f, i, n), h)
<1> DEFINE g == Put(f, j, h)
           n == Dist(i, j)
<1>0. n \in Nat /\ n \in Heads /\ i \in Int /\ j \in Int /\ Num \in Nat
  BY DistIs, Bounds DEF Index, Heads
<1>1. j % Num \in Heads /\ (i + n) % Num = j % Num
  <2>1. (i + n + 0) % Num = (j + 0) % Num
    BY SlotAt
  <2> QED BY <1>0, <2>1, Division
<1>2. g \in [Heads -> Heads] /\ g[j % Num] = h /\ \A x \in Heads : x # j % Num => g[x] = f[x]
  BY <1>1 DEF Put
<1> HIDE DEF g, n
<1> DEFINE s == Window(f, i, n)
           t == Window(g, i, n + 1)
<1>3. s \in [1 .. n -> Heads] /\ \A k \in 1 .. n : s[k] = f[(i + (k - 1)) % Num]
  BY <1>0, WindowIs
<1>4. t \in [1 .. n + 1 -> Heads] /\ \A k \in 1 .. n + 1 : t[k] = g[(i + (k - 1)) % Num]
  <2>1. n + 1 \in Nat
    BY <1>0
  <2> QED BY <1>2, <2>1, WindowIs
<1> HIDE DEF s, t
<1>5. ASSUME NEW k \in 1 .. n PROVE t[k] = s[k]
  <2>1. k - 1 \in Heads /\ k - 1 # n /\ i + (k - 1) \in Int /\ k \in 1 .. n + 1
    BY <1>0 DEF Heads
  <2>2. (((i + (k - 1)) % Num) - i) % Num = k - 1 /\ (((i + n) % Num) - i) % Num = n
    BY <1>0, <2>1, SlotOffset
  <2>3. (i + (k - 1)) % Num # j % Num
    BY <1>1, <2>1, <2>2
  <2>4. (i + (k - 1)) % Num \in Heads
    BY <2>1, Division
  <2> QED BY <1>2, <1>3, <1>4, <2>1, <2>3, <2>4
<1>6. t[n + 1] = h
  <2>1. n + 1 \in 1 .. n + 1 /\ (n + 1) - 1 = n
    BY <1>0
  <2> QED BY <1>1, <1>2, <1>3, <1>4, <2>1
<1>7. t = Append(s, h)
  BY <1>0, <1>3, <1>4, <1>5, <1>6, IsAppend
<1> QED BY <1>2, <1>7 DEF s, t, g, n

\* A window that begins one index later is the tail.
LEMMA WindowTail ==
  ASSUME NEW f \in [Heads -> Heads], NEW i \in Index, NEW n \in Nat \ {0}
  PROVE  LET w == Window(f, i, n) IN
           /\ w # <<>> /\ Head(w) = f[i % Num]
           /\ Window(f, (i + 1) % IndexMod, n - 1) = Tail(w)
<1> DEFINE k == (i + 1) % IndexMod
           s == Window(f, i, n)
           t == Window(f, k, n - 1)
<1>0. i \in Int /\ n - 1 \in Nat /\ (n - 1) + 1 = n /\ 1 < IndexMod
  BY VhostAssumption DEF Index
<1>1. k \in Index /\ \A x \in Int : (k + x) % Num = (i + 1 + x) % Num
  BY <1>0, Advance
<1> HIDE DEF k
<1>2. /\ s \in [1 .. n -> Heads] /\ \A x \in 1 .. n : s[x] = f[(i + (x - 1)) % Num]
      /\ t \in [1 .. n - 1 -> Heads] /\ \A x \in 1 .. n - 1 : t[x] = f[(k + (x - 1)) % Num]
  BY <1>0, <1>1, WindowIs
<1> HIDE DEF s, t
<1>3. ASSUME NEW x \in 1 .. n - 1 PROVE t[x] = s[x + 1]
  <2>1. x + 1 \in 1 .. n /\ x - 1 \in Int /\ i + ((x + 1) - 1) = i + 1 + (x - 1)
    BY <1>0
  <2>2. (k + (x - 1)) % Num = (i + 1 + (x - 1)) % Num
    BY <1>1, <2>1
  <2> QED BY <1>2, <2>1, <2>2
<1>4. s[1] = f[i % Num]
  <2>1. i + (1 - 1) = i /\ 1 \in 1 .. n
    BY <1>0
  <2> QED BY <1>2, <2>1
<1>5. s # <<>> /\ Head(s) = s[1] /\ t = Tail(s)
  <2>1. /\ n - 1 \in Nat /\ s \in [1 .. (n - 1) + 1 -> Heads] /\ t \in [1 .. n - 1 -> Heads]
        /\ \A x \in 1 .. n - 1 : t[x] = s[x + 1]
    BY <1>0, <1>2, <1>3
  <2> QED BY <2>1, IsTail
<1> QED BY <1>4, <1>5 DEF s, t, k

\* One that begins n indices later is what follows the first n.
LEMMA WindowDrop ==
  ASSUME NEW f \in [Heads -> Heads], NEW i \in Index, NEW m \in Nat, NEW n \in 0 .. m, n < IndexMod
  PROVE  LET w == Window(f, i, m) IN
           Window(f, (i + n) % IndexMod, m - n) = SubSeq(w, n + 1, Len(w))
<1> DEFINE k == (i + n) % IndexMod
           s == Window(f, i, m)
           t == Window(f, k, m - n)
<1>0. i \in Int /\ n \in Nat /\ m - n \in Nat
  BY DEF Index
<1>1. k \in Index /\ \A x \in Int : (k + x) % Num = (i + n + x) % Num
  BY <1>0, Advance
<1> HIDE DEF k
<1>2. /\ s \in [1 .. m -> Heads] /\ \A x \in 1 .. m : s[x] = f[(i + (x - 1)) % Num]
      /\ t \in [1 .. m - n -> Heads] /\ \A x \in 1 .. m - n : t[x] = f[(k + (x - 1)) % Num]
  BY <1>0, <1>1, WindowIs
<1> HIDE DEF s, t
<1>3. ASSUME NEW x \in 1 .. m - n PROVE t[x] = s[n + x]
  <2>1. n + x \in 1 .. m /\ x - 1 \in Int /\ i + ((n + x) - 1) = i + n + (x - 1)
    BY <1>0
  <2>2. (k + (x - 1)) % Num = (i + n + (x - 1)) % Num
    BY <1>1, <2>1
  <2> QED BY <1>2, <2>1, <2>2
<1>4. t = SubSeq(s, n + 1, Len(s))
  BY <1>2, <1>3, IsSuffix
<1> QED BY <1>4 DEF s, t, k

LEMMA CopyIs ==
  ASSUME NEW f \in [Heads -> Heads], NEW g \in [Heads -> Heads], NEW u \in Index, NEW n \in Nat
  PROVE  /\ Copy(f, g, u, n) \in [Heads -> Heads]
         /\ \A s \in Heads : (s - u) % Num < n => Copy(f, g, u, n)[s] = f[(u + ((s - u) % Num)) % Num]
         /\ \A s \in Heads : ~((s - u) % Num < n) => Copy(f, g, u, n)[s] = g[s]
<1>1. ASSUME NEW s \in Heads PROVE (u + ((s - u) % Num)) % Num \in Heads
  <2>1. s - u \in Int /\ u \in Int
    BY Bounds DEF Heads, Index
  <2>2. (s - u) % Num \in Int
    BY <2>1, Division DEF Heads
  <2>3. u + ((s - u) % Num) \in Int
    BY <2>1, <2>2
  <2> QED BY <2>3, Division
<1> QED BY <1>1 DEF Copy

\* Chains that are copied from the front of a window of f to behind a window of
\* g are appended there, while the two are not longer than the ring.
LEMMA WindowCopy ==
  ASSUME NEW f \in [Heads -> Heads], NEW g \in [Heads -> Heads], NEW i \in Index, NEW u \in Index,
         NEW m \in Nat, NEW n \in Nat, n <= m, Dist(i, u) + n <= Num
  PROVE  Window(Copy(f, g, u, n), i, Dist(i, u) + n) =
           Window(g, i, Dist(i, u)) \o SubSeq(Window(f, u, m), 1, n)
<1> DEFINE h == Copy(f, g, u, n)
           d == Dist(i, u)
<1>0. /\ d \in Nat /\ i \in Int /\ u \in Int /\ Num \in Nat \ {0} /\ n \in Nat /\ n <= m
      /\ d + n \in Nat
  <2>1. d \in Nat
    BY DistIs DEF Index
  <2> HIDE DEF d
  <2> QED BY <2>1, VhostAssumption DEF Index
<1>1. /\ h \in [Heads -> Heads]
      /\ \A s \in Heads : (s - u) % Num < n => h[s] = f[(u + ((s - u) % Num)) % Num]
      /\ \A s \in Heads : ~((s - u) % Num < n) => h[s] = g[s]
  BY CopyIs
<1>2. d + n <= Num
  OBVIOUS
<1>3. \A x \in Int : (i + d + x) % Num = (u + x) % Num
  BY SlotAt
<1> HIDE DEF h, d
<1> DEFINE r == Window(g, i, d)
           s == Window(f, u, m)
           t == Window(h, i, d + n)
<1>4. /\ r \in Seq(Heads) /\ Len(r) = d
      /\ \A k \in 1 .. d : r[k] = g[(i + (k - 1)) % Num]
  BY <1>0, WindowIs
<1>5. /\ s \in Seq(Heads) /\ Len(s) = m
      /\ \A k \in 1 .. m : s[k] = f[(u + (k - 1)) % Num]
  BY WindowIs
<1>6. /\ t \in Seq(Heads) /\ Len(t) = d + n
      /\ \A k \in 1 .. d + n : t[k] = h[(i + (k - 1)) % Num]
  <2>1. d + n \in Nat /\ h \in [Heads -> Heads]
    BY <1>0, <1>1
  <2> QED BY <2>1, WindowIs
<1> HIDE DEF r, s, t
<1>7. ASSUME NEW k \in 1 .. d PROVE t[k] = r[k]
  <2> DEFINE x == (i + (k - 1)) % Num
             o == Num - d + (k - 1)
  <2>0. k \in 1 .. d + n /\ o \in Heads /\ o >= n /\ o \in Int /\ k - 1 - d \in Int
    BY <1>0, <1>2 DEF Heads
  <2>1. x = (u + o) % Num
    <3>1. (i + d + (k - 1 - d)) % Num = (u + (k - 1 - d)) % Num
      BY <1>3, <2>0
    <3>2. i + (k - 1) = i + d + (k - 1 - d) /\ u + o = (u + (k - 1 - d)) + Num /\ u + (k - 1 - d) \in Int
      BY <1>0, <2>0
    <3>3. ((u + (k - 1 - d)) + Num) % Num = (u + (k - 1 - d)) % Num
      BY <3>2, OneRound
    <3> QED BY <3>1, <3>2, <3>3
  <2>2. x \in Heads /\ (x - u) % Num = o
    <3>1. u + o \in Int
      BY <1>0, <2>0
    <3> HIDE DEF o
    <3>2. (u + o) % Num \in Heads
      BY <3>1, Division
    <3>3. (((u + o) % Num) - u) % Num = o
      BY <1>0, <2>0, SlotOffset
    <3> QED BY <2>1, <3>2, <3>3
  <2>3. t[k] = h[x] /\ r[k] = g[x]
    BY <1>4, <1>6, <2>0
  <2> HIDE DEF x, o
  <2>4. h[x] = g[x]
    BY <1>0, <1>1, <2>0, <2>2
  <2> QED BY <2>3, <2>4
<1>8. ASSUME NEW k \in 1 .. n PROVE t[d + k] = s[k]
  <2> DEFINE x == (u + (k - 1)) % Num
  <2>0. d + k \in 1 .. d + n /\ k - 1 \in Heads /\ k - 1 \in Int /\ k - 1 < n /\ k \in 1 .. m
    BY <1>0, <1>2 DEF Heads
  <2>1. x \in Heads /\ (x - u) % Num = k - 1
    <3>1. u + (k - 1) \in Int
      BY <1>0, <2>0
    <3>2. x \in Heads
      BY <3>1, Division
    <3> QED BY <1>0, <2>0, <3>2, SlotOffset
  <2>2. t[d + k] = h[x]
    <3>1. i + ((d + k) - 1) = i + d + (k - 1)
      BY <1>0, <2>0
    <3>2. (i + d + (k - 1)) % Num = x
      BY <1>3, <2>0
    <3> QED BY <1>6, <2>0, <3>1, <3>2
  <2>3. s[k] = f[x]
    BY <1>5, <2>0
  <2>4. h[x] = f[(u + (k - 1)) % Num]
    BY <1>1, <2>0, <2>1
  <2> QED BY <2>2, <2>3, <2>4
<1>9. t = r \o SubSeq(s, 1, n)
  <2>1. /\ s \in Seq(Heads) /\ r \in Seq(Heads) /\ t \in Seq(Heads)
        /\ n \in 0 .. Len(s) /\ Len(t) = Len(r) + n
        /\ \A k \in 1 .. Len(r) : t[k] = r[k]
        /\ \A k \in 1 .. n : t[Len(r) + k] = s[k]
    BY <1>4, <1>5, <1>6, <1>7, <1>8
  <2> QED BY <2>1, IsConcat
<1> QED BY <1>9 DEF r, s, t, h, d

-----------------------------------------------------------------------------
(* The invariant of the refinement. *)

\* A ring that runs has a descriptor; what the front-end knows of it is an index.
QueueTypes ==
  /\ ring \in Rings /\ maps \in Nat /\ mem \in Nat
  /\ base \in Index \cup {-1}
  /\ {avail, used, seen} \subseteq Index
  /\ ring.started => ring.kick # 0

\* The device's two indices are the used index that the driver sees, and so is
\* the base that the front-end keeps while the ring has no descriptor.
InStep ==
  /\ ring.lastAvail = used /\ ring.usedIdx = used
  /\ base >= 0 => base = used /\ ring.kick = 0

Slots ==
  /\ availRing \in [Heads -> Heads] /\ usedRing \in [Heads -> Heads]
  /\ free \subseteq Heads

\* Chains free, offered and returned are no more than there are.
Room == Cardinality(free) + Waiting + Dist(seen, used) <= Num

QueueInv == QueueTypes /\ InStep /\ Slots /\ Room

LEMMA QueueFacts ==
  ASSUME QueueInv
  PROVE  /\ avail \in Index /\ used \in Index /\ seen \in Index /\ ring.lastAvail = used
         /\ Waiting = Dist(used, avail)
         /\ Waiting \in Nat /\ Dist(seen, used) \in Nat
         /\ IsFiniteSet(free) /\ Cardinality(free) \in Nat
         /\ Cardinality(free) + Waiting + Dist(seen, used) <= Num
         /\ Num \in Nat \ {0} /\ IndexMod \in Nat /\ Num < IndexMod
<1>1. avail \in Index /\ used \in Index /\ seen \in Index /\ ring.lastAvail = used
  BY DEF QueueInv, QueueTypes, InStep
<1>2. Waiting = Dist(used, avail)
  BY <1>1 DEF Waiting
<1>3. Dist(used, avail) \in Nat /\ Dist(seen, used) \in Nat
  BY <1>1, DistIs DEF Index
<1>4. IsFiniteSet(free) /\ Cardinality(free) \in Nat
  <2>1. IsFiniteSet(Heads)
    BY Bounds, FS_Interval DEF Heads
  <2> QED BY <2>1, FS_Subset, FS_CardinalityType DEF QueueInv, Slots
<1> QED BY <1>1, <1>2, <1>3, <1>4, VhostAssumption DEF QueueInv, Room

\* A step that moves no index and no chain.
LEMMA QuietQueue ==
  ASSUME QueueInv, ring' \in Rings, ring'.lastAvail = used, ring'.usedIdx = used,
         ring'.started => ring'.kick # 0, maps' \in Nat, mem' \in Nat,
         UNCHANGED <<avail, availRing, used, usedRing, seen, free>>,
         base' = -1 \/ (base' = used /\ ring'.kick = 0)
  PROVE  QueueInv' /\ UNCHANGED Queue!vars
<1>1. ring'.lastAvail = ring.lastAvail
  BY DEF QueueInv, InStep
<1>2. Waiting' = Waiting /\ (Dist(seen, used))' = Dist(seen, used)
  BY <1>1 DEF Waiting, Dist
<1>3. Offered' = Offered /\ Returned' = Returned
  BY <1>1, <1>2 DEF Offered, Returned, Window
<1>4. QueueTypes' /\ InStep'
  BY DEF QueueInv, QueueTypes, InStep
<1>5. Slots' /\ Room'
  BY <1>2 DEF QueueInv, Slots, Room
<1> QED BY <1>3, <1>4, <1>5 DEF QueueInv, Queue!vars

\* Offer: the new head is put behind the chains that wait, into a slot none of
\* them has, since a free chain leaves a slot free.
LEMMA OfferQueue ==
  ASSUME QueueInv, NEW h \in Heads, Offer(h)
  PROVE  QueueInv' /\ Queue!Offer(h)
<1> DEFINE n == Dist(used, avail)
           a == Put(availRing, avail, h)
           k == (avail + 1) % IndexMod
<1>0. /\ avail \in Index /\ used \in Index /\ ring.lastAvail = used /\ Waiting = n
      /\ n \in Nat /\ Dist(seen, used) \in Nat
      /\ IsFiniteSet(free) /\ Cardinality(free) \in Nat
      /\ Cardinality(free) + n + Dist(seen, used) <= Num
      /\ Num \in Nat \ {0} /\ IndexMod \in Nat /\ Num < IndexMod
      /\ availRing \in [Heads -> Heads]
  BY QueueFacts DEF QueueInv, Slots
<1>1. /\ h \in free /\ free' = free \ {h} /\ availRing' = a /\ avail' = k
      /\ UNCHANGED <<ring, mem, maps, base, used, usedRing, seen>>
  BY DEF Offer, session, Put
<1>2. Cardinality(free') = Cardinality(free) - 1 /\ Cardinality(free') \in Nat
  BY <1>0, <1>1, FS_RemoveElement, FS_CardinalityType
<1>3. n < Num /\ n + 1 < IndexMod /\ 1 < IndexMod
  BY <1>0, <1>2
<1>4. k \in Index /\ Dist(used, k) = n + 1
  BY <1>0, <1>3, Advance
<1>5. availRing \in [Heads -> Heads] /\ used \in Index /\ avail \in Index /\ Dist(used, avail) < Num
  BY <1>0, <1>3
<1>6. a \in [Heads -> Heads] /\ Window(a, used, n + 1) = Append(Window(availRing, used, n), h)
  BY <1>5, WindowAppend
<1> HIDE DEF n, a, k
<1>7. Waiting' = n + 1 /\ (Dist(seen, used))' = Dist(seen, used)
  BY <1>0, <1>1, <1>4 DEF Waiting, Dist
<1>8. QueueInv'
  <2>1. QueueTypes' /\ InStep'
    BY <1>1, <1>4 DEF QueueInv, QueueTypes, InStep
  <2>2. Slots'
    BY <1>1, <1>6 DEF QueueInv, Slots
  <2>3. Room'
    BY <1>0, <1>2, <1>7 DEF Room
  <2> QED BY <2>1, <2>2, <2>3 DEF QueueInv
<1>9. Offered = Window(availRing, used, n) /\ Offered' = Window(a, used, n + 1)
  BY <1>0, <1>1, <1>7 DEF Offered, Window
<1>10. Returned' = Returned
  BY <1>1 DEF Returned, Window, Dist
<1> QED BY <1>1, <1>6, <1>8, <1>9, <1>10 DEF Queue!Offer

\* Collect: the driver's next used index moves on by one.
LEMMA CollectQueue ==
  ASSUME QueueInv, Collect
  PROVE  QueueInv' /\ Queue!Collect
<1> DEFINE n == Dist(seen, used)
           k == (seen + 1) % IndexMod
           h == usedRing[seen % Num]
<1>0. /\ used \in Index /\ seen \in Index /\ Waiting \in Nat /\ n \in Nat
      /\ IsFiniteSet(free) /\ Cardinality(free) \in Nat
      /\ Cardinality(free) + Waiting + n <= Num
      /\ Num \in Nat \ {0} /\ IndexMod \in Nat /\ Num < IndexMod
      /\ usedRing \in [Heads -> Heads]
  BY QueueFacts DEF QueueInv, Slots
<1>1. /\ seen # used /\ free' = free \cup {h} /\ seen' = k
      /\ UNCHANGED <<ring, mem, maps, base, avail, availRing, used, usedRing>>
  BY DEF Collect, session, rings
<1>2. n \in Nat \ {0} /\ 1 < IndexMod
  <2>1. n = (IF seen <= used THEN used - seen ELSE used - seen + IndexMod)
    BY <1>0, DistIs
  <2> QED BY <1>0, <1>1, <2>1 DEF Index
<1>3. k \in Index /\ Dist(k, used) = n - 1
  BY <1>0, <1>2, Advance
<1>4. h \in Heads
  <2>1. seen \in Int
    BY <1>0 DEF Index
  <2>2. seen % Num \in Heads
    BY <2>1, Division
  <2> QED BY <1>0, <2>2
<1>5. LET w == Window(usedRing, seen, n) IN w # <<>> /\ Head(w) = h /\ Window(usedRing, k, n - 1) = Tail(w)
  BY <1>0, <1>2, WindowTail
<1> HIDE DEF n, k, h
<1>6. Cardinality(free') \in Nat /\ Cardinality(free') <= Cardinality(free) + 1
  <2>1. Cardinality(free \cup {h}) = IF h \in free THEN Cardinality(free) ELSE Cardinality(free) + 1
    BY <1>0, FS_AddElement
  <2> QED BY <1>0, <1>1, <2>1
<1>7. Waiting' = Waiting /\ (Dist(seen, used))' = n - 1
  BY <1>1, <1>3 DEF Waiting, Dist
<1>8. QueueInv'
  <2>1. QueueTypes' /\ InStep'
    BY <1>1, <1>3 DEF QueueInv, QueueTypes, InStep
  <2>2. Slots'
    BY <1>1, <1>4 DEF QueueInv, Slots
  <2>3. Room'
    BY <1>0, <1>2, <1>6, <1>7 DEF Room
  <2> QED BY <2>1, <2>2, <2>3 DEF QueueInv
<1>9. Returned = Window(usedRing, seen, n) /\ Returned' = Window(usedRing, k, n - 1)
  BY <1>1, <1>7 DEF Returned, Window, n
<1>10. Offered' = Offered
  BY <1>1 DEF Offered, Window, Waiting, Dist
<1> QED BY <1>1, <1>5, <1>8, <1>9, <1>10 DEF Queue!Collect, h

\* setUsedElem and publishUsed for n chains: the slots that are written are none
\* of those that the driver has yet to collect.
LEMMA GiveBackWindows ==
  ASSUME QueueInv, NEW n \in Nat, n <= Waiting
  PROVE  LET m == Dist(used, avail)
             d == Dist(seen, used)
             u == (used + n) % IndexMod
             g == Copy(availRing, usedRing, used, n)
         IN  /\ u \in Index /\ Dist(u, avail) = m - n /\ Dist(seen, u) = d + n
             /\ g \in [Heads -> Heads]
             /\ Window(availRing, u, m - n) = SubSeq(Window(availRing, used, m), n + 1, Len(Window(availRing, used, m)))
             /\ Window(g, seen, d + n) = Window(usedRing, seen, d) \o SubSeq(Window(availRing, used, m), 1, n)
<1> DEFINE m == Dist(used, avail)
           d == Dist(seen, used)
<1>0. /\ avail \in Index /\ used \in Index /\ seen \in Index
      /\ Waiting = m /\ m \in Nat /\ d \in Nat /\ Cardinality(free) \in Nat
      /\ Cardinality(free) + m + d <= Num
      /\ Num \in Nat \ {0} /\ IndexMod \in Nat /\ Num < IndexMod
  BY QueueFacts
<1>1. availRing \in [Heads -> Heads] /\ usedRing \in [Heads -> Heads]
  BY DEF QueueInv, Slots
<1>2. n <= m /\ n \in 0 .. m /\ n < IndexMod /\ d + n <= Num /\ d + n < IndexMod
  BY <1>0
<1>3. /\ (used + n) % IndexMod \in Index /\ Dist((used + n) % IndexMod, avail) = m - n
      /\ Dist(seen, (used + n) % IndexMod) = d + n
  BY <1>0, <1>2, Advance
<1>4. Copy(availRing, usedRing, used, n) \in [Heads -> Heads]
  BY <1>0, <1>1, CopyIs
<1>5. Window(availRing, (used + n) % IndexMod, m - n) =
        SubSeq(Window(availRing, used, m), n + 1, Len(Window(availRing, used, m)))
  <2> HIDE DEF m
  <2> QED BY <1>0, <1>1, <1>2, WindowDrop
<1>6. Window(Copy(availRing, usedRing, used, n), seen, d + n) =
        Window(usedRing, seen, d) \o SubSeq(Window(availRing, used, m), 1, n)
  <2>1. used \in Index /\ seen \in Index /\ m \in Nat /\ n <= m /\ Dist(seen, used) + n <= Num
    BY <1>0, <1>2
  <2> HIDE DEF m
  <2> QED BY <1>1, <2>1, WindowCopy
<1> QED BY <1>3, <1>4, <1>5, <1>6

LEMMA GiveBackQueue ==
  ASSUME QueueInv, NEW n \in Nat, n <= Waiting, giveBack(n),
         ring.started, UNCHANGED <<mem, maps, base, seen, free>>
  PROVE  QueueInv' /\ Queue!GiveBack(n)
<1> DEFINE m == Dist(used, avail)
           d == Dist(seen, used)
           u == (used + n) % IndexMod
           g == Copy(availRing, usedRing, used, n)
<1>0. /\ ring.lastAvail = used /\ Waiting = m /\ m \in Nat /\ d \in Nat /\ Cardinality(free) \in Nat
      /\ Cardinality(free) + m + d <= Num /\ Num \in Nat
  BY QueueFacts
<1>1. ring.usedIdx = used /\ ring \in Rings /\ base = -1
  BY DEF QueueInv, QueueTypes, InStep, Index
<1>2. /\ ring' = [ring EXCEPT !.lastAvail = u, !.usedIdx = u] /\ used' = u /\ usedRing' = g
      /\ UNCHANGED <<avail, availRing>>
  BY <1>0, <1>1 DEF giveBack, ChainAt, Copy
<1>3. /\ u \in Index /\ Dist(u, avail) = m - n /\ Dist(seen, u) = d + n
      /\ g \in [Heads -> Heads]
      /\ Window(availRing, u, m - n) = SubSeq(Window(availRing, used, m), n + 1, Len(Window(availRing, used, m)))
      /\ Window(g, seen, d + n) = Window(usedRing, seen, d) \o SubSeq(Window(availRing, used, m), 1, n)
  BY GiveBackWindows
<1> HIDE DEF m, d, u, g
<1>4. Waiting' = m - n /\ (Dist(seen, used))' = d + n
  BY <1>1, <1>2, <1>3 DEF Rings, Waiting, Dist
<1>5. QueueInv'
  <2>1. QueueTypes' /\ InStep'
    BY <1>1, <1>2, <1>3 DEF QueueInv, QueueTypes, InStep, Rings
  <2>2. Slots'
    BY <1>2, <1>3 DEF QueueInv, Slots
  <2>3. Room'
    BY <1>0, <1>2, <1>4 DEF Room
  <2> QED BY <2>1, <2>2, <2>3 DEF QueueInv
<1>6. Offered = Window(availRing, used, m) /\ Offered' = Window(availRing, u, m - n)
  <2>1. ring'.lastAvail = u
    BY <1>1, <1>2 DEF Rings
  <2> QED BY <1>0, <1>2, <1>4, <2>1 DEF Offered, Window
<1>7. Returned = Window(usedRing, seen, d) /\ Returned' = Window(g, seen, d + n)
  BY <1>2, <1>4 DEF Returned, Window, d
<1> QED BY <1>3, <1>5, <1>6, <1>7 DEF Queue!GiveBack

\* Chains go back in a step of the queue; to give back none is no step.
LEMMA GiveBackStep ==
  ASSUME QueueInv, NEW n \in Nat, n <= Waiting, giveBack(n),
         ring.started, UNCHANGED <<mem, maps, base, seen, free>>
  PROVE  QueueInv' /\ [Queue!Next]_Queue!vars
<1>1. QueueInv' /\ Queue!GiveBack(n)
  BY GiveBackQueue
<1>2. Waiting \in Nat /\ Offered \in Seq(Heads) /\ Len(Offered) = Waiting /\ Returned \in Seq(Heads)
  <2>1. /\ Waiting \in Nat /\ Dist(seen, used) \in Nat /\ ring.lastAvail \in Index /\ seen \in Index
        /\ availRing \in [Heads -> Heads] /\ usedRing \in [Heads -> Heads]
    BY QueueFacts DEF QueueInv, Slots
  <2>2. Offered \in Seq(Heads) /\ Len(Offered) = Waiting
    BY <2>1, WindowIs DEF Offered
  <2>3. Returned \in Seq(Heads)
    BY <2>1, WindowIs DEF Returned
  <2> QED BY <2>1, <2>2, <2>3
<1>3. CASE n = 0
  <2>1. /\ Returned' = Returned \o SubSeq(Offered, 1, 0) /\ Offered' = SubSeq(Offered, 1, Len(Offered))
        /\ free' = free
    BY <1>1, <1>3 DEF Queue!GiveBack
  <2>2. Returned \o SubSeq(Offered, 1, 0) = Returned /\ SubSeq(Offered, 1, Len(Offered)) = Offered
    BY <1>2, NoChains
  <2> QED BY <1>1, <2>1, <2>2 DEF Queue!vars
<1>4. CASE n # 0
  <2>1. n \in 1 .. Len(Offered)
    BY <1>2, <1>4
  <2> QED BY <1>1, <2>1 DEF Queue!Next
<1> QED BY <1>3, <1>4

-----------------------------------------------------------------------------
(* Every step of the ring is a step of the queue, or none. *)

\* evalRingLocked moves no index and no descriptor, and starts no ring that has
\* none.
LEMMA EvalKeeps ==
  ASSUME NEW r \in Rings, NEW m, evalRing(r, m), r.started => r.kick # 0
  PROVE  /\ ring' \in Rings /\ ring'.lastAvail = r.lastAvail /\ ring'.usedIdx = r.usedIdx
         /\ ring'.kick = r.kick /\ (ring'.started => ring'.kick # 0)
<1>1. ring' = r \/ (ring' = [r EXCEPT !.started = TRUE, !.pumpRunning = queue = "tx"] /\ r.kick # 0)
  BY DEF evalRing, startRing
<1>2. (queue = "tx") \in BOOLEAN
  OBVIOUS
<1> QED BY <1>1, <1>2 DEF Rings

\* A message that leaves the ring as r, or lets evalRingLocked start it.
LEMMA MessageQueue ==
  ASSUME QueueInv, Handles, NEW r \in Rings, ring' = r \/ \E m \in Nat : evalRing(r, m),
         r.lastAvail = used, r.usedIdx = used, r.started => r.kick # 0,
         maps' \in Nat, mem' \in Nat, base' = -1 \/ (base' = used /\ r.kick = 0)
  PROVE  QueueInv' /\ UNCHANGED Queue!vars
<1>1. UNCHANGED <<avail, availRing, used, usedRing, seen, free>>
  BY DEF Handles, rings, driver
<1>2. /\ ring' \in Rings /\ ring'.lastAvail = used /\ ring'.usedIdx = used
      /\ ring'.kick = r.kick /\ (ring'.started => ring'.kick # 0)
  BY EvalKeeps
<1> QED BY <1>1, <1>2, QuietQueue

LEMMA HandleQueue ==
  ASSUME QueueInv, handle
  PROVE  QueueInv' /\ UNCHANGED Queue!vars
<1>0. /\ ring \in Rings /\ ring.lastAvail = used /\ ring.usedIdx = used /\ used \in Index
      /\ maps \in Nat /\ mem \in Nat /\ (ring.started => ring.kick # 0)
      /\ base \in Int /\ (base = -1 \/ (base = used /\ ring.kick = 0)) /\ used \in Int
  BY Bounds DEF QueueInv, QueueTypes, InStep, Index
<1>1. /\ stopRing(ring).lastAvail = used /\ stopRing(ring).usedIdx = used /\ stopRing(ring).kick = 0
      /\ stopRing(ring) \in Rings /\ ~stopRing(ring).started
  BY <1>0 DEF stopRing, Rings
<1>2. CASE setMemTable
  <2> DEFINE r == IF mem # 0 THEN stopRing(ring) ELSE ring
  <2>1. Handles /\ maps' = maps + 1 /\ mem' = maps + 1 /\ evalRing(r, maps + 1) /\ base' = base
    BY <1>2 DEF setMemTable
  <2>2. r \in Rings /\ r.lastAvail = used /\ r.usedIdx = used /\ (ring.kick = 0 => r.kick = 0)
        /\ (r.started => r.kick # 0)
    BY <1>0, <1>1
  <2> HIDE DEF r
  <2> QED BY <1>0, <2>1, <2>2, MessageQueue
<1>3. CASE setVringAddr
  <2> DEFINE r == [ring EXCEPT !.desc = mem, !.usedIdx = used]
  <2>1. Handles /\ evalRing(r, mem) /\ UNCHANGED <<maps, mem, base>>
    BY <1>3 DEF setVringAddr
  <2>2. r \in Rings /\ r.lastAvail = used /\ r.usedIdx = used /\ r.kick = ring.kick /\ r.started = ring.started
    BY <1>0 DEF Rings
  <2> HIDE DEF r
  <2> QED BY <1>0, <2>1, <2>2, MessageQueue
<1>4. CASE GetVringBase
  BY <1>0, <1>1, <1>4, MessageQueue DEF GetVringBase
<1>5. CASE SetVringBase
  <2>1. Handles /\ ring' = [ring EXCEPT !.lastAvail = used] /\ base' = -1 /\ UNCHANGED <<maps, mem>>
    BY <1>0, <1>5 DEF SetVringBase
  <2>2. [ring EXCEPT !.lastAvail = used] = ring
    BY <1>0 DEF Rings
  <2> QED BY <1>0, <2>1, <2>2, MessageQueue
<1>6. CASE ResetOwner
  BY <1>0, <1>1, <1>6, MessageQueue DEF ResetOwner
<1>7. ASSUME NEW fd \in 0 .. MaxKicks, setVringKick(fd)
      PROVE  QueueInv' /\ UNCHANGED Queue!vars
  <2> DEFINE b == ring.started /\ ring.kick = 0
             r == [ring EXCEPT !.kick = fd, !.started = b]
  <2>1. Handles /\ evalRing(r, mem) /\ base' = -1 /\ UNCHANGED <<maps, mem>>
    BY <1>7 DEF setVringKick
  <2>2. b = FALSE
    BY <1>0, Zenon
  <2>3. fd \in Nat
    BY Bounds
  <2> HIDE DEF b
  <2>4. r \in Rings /\ r.lastAvail = used /\ r.usedIdx = used /\ ~r.started
    BY <1>0, <2>2, <2>3 DEF Rings
  <2> HIDE DEF r
  <2> QED BY <1>0, <2>1, <2>4, MessageQueue
<1>8. ASSUME NEW on \in BOOLEAN, SetFeatures(on) PROVE QueueInv' /\ UNCHANGED Queue!vars
  BY <1>0, <1>8, MessageQueue DEF SetFeatures
<1>9. ASSUME NEW on \in BOOLEAN, SetVringEnable(on) PROVE QueueInv' /\ UNCHANGED Queue!vars
  <2> DEFINE r == [ring EXCEPT !.enabled = TRUE]
             q == [ring EXCEPT !.enabled = FALSE, !.started = FALSE]
  <2>1. Handles /\ (evalRing(r, mem) \/ ring' = q) /\ UNCHANGED <<maps, mem, base>>
    BY <1>9 DEF SetVringEnable
  <2>2. r \in Rings /\ r.lastAvail = used /\ r.usedIdx = used /\ r.kick = ring.kick /\ r.started = ring.started
    BY <1>0 DEF Rings
  <2>3. q \in Rings /\ q.lastAvail = used /\ q.usedIdx = used /\ q.kick = ring.kick /\ ~q.started
    BY <1>0 DEF Rings
  <2> HIDE DEF r, q
  <2>4. CASE evalRing(r, mem)
    BY <1>0, <2>1, <2>2, <2>4, MessageQueue
  <2>5. CASE ring' = q
    BY <1>0, <2>1, <2>3, <2>5, MessageQueue
  <2> QED BY <2>1, <2>4, <2>5
<1> QED BY <1>2, <1>3, <1>4, <1>5, <1>6, <1>7, <1>8, <1>9 DEF handle

\* The driver sees of a pump only that it gives chains back.
LEMMA PumpQueue ==
  ASSUME QueueInv, NEW i \in 1 .. Len(pumps), txPump(i)
  PROVE  QueueInv' /\ [Queue!Next]_Queue!vars
<1>0. /\ ring \in Rings /\ ring.lastAvail = used /\ ring.usedIdx = used
      /\ maps \in Nat /\ mem \in Nat /\ (ring.started => ring.kick # 0)
      /\ (base = -1 \/ (base = used /\ ring.kick = 0))
  BY Bounds DEF QueueInv, QueueTypes, InStep, Index
<1>1. CASE drain(i)
  <2>1. UNCHANGED <<mem, maps, base, seen, free>>
    BY <1>1 DEF drain, session, driver
  <2>2. CASE ring.started /\ mem # 0
    <3>1. giveBack(Waiting)
      BY <1>1, <2>2 DEF drain
    <3>2. Waiting \in Nat /\ Waiting <= Waiting
      BY QueueFacts
    <3> QED BY <2>1, <2>2, <3>1, <3>2, GiveBackStep
  <2>3. CASE ~(ring.started /\ mem # 0)
    <3>1. UNCHANGED <<ring, avail, availRing, used, usedRing>>
      BY <1>1, <2>3 DEF drain, rings
    <3> QED BY <1>0, <2>1, <3>1, QuietQueue
  <2> QED BY <2>2, <2>3
<1>2. CASE readKick(i)
  <2>1. UNCHANGED <<ring, mem, maps, base, avail, availRing, used, usedRing, seen, free>>
    BY <1>2 DEF readKick, session, rings, driver
  <2> QED BY <1>0, <2>1, QuietQueue
<1>3. CASE exitPump(i)
  <2>1. UNCHANGED <<mem, maps, base, avail, availRing, used, usedRing, seen, free>>
    BY <1>3 DEF exitPump, session, rings, driver
  <2>2. ring' = ring \/ ring' = [ring EXCEPT !.pumpRunning = FALSE]
    BY <1>3 DEF exitPump
  <2>3. /\ ring' \in Rings /\ ring'.lastAvail = used /\ ring'.usedIdx = used /\ ring'.kick = ring.kick
        /\ ring'.started = ring.started
    BY <1>0, <2>2 DEF Rings
  <2> QED BY <1>0, <2>1, <2>3, QuietQueue
<1> QED BY <1>1, <1>2, <1>3 DEF txPump

\* WriteFrame gives back as many chains as the frame fills, or those up to a
\* broken one, or, when it is out of buffers, none.
LEMMA WriteQueue ==
  ASSUME QueueInv, NEW k \in 1 .. Num, WriteFrame(k)
  PROVE  QueueInv' /\ [Queue!Next]_Queue!vars
<1> DEFINE tried == {i \in 0 .. k - 1 : i < Waiting /\ (mrg \/ i = 0)}
<1>0. /\ ring \in Rings /\ ring.lastAvail = used /\ ring.usedIdx = used /\ Waiting \in Nat
      /\ maps \in Nat /\ mem \in Nat /\ (ring.started => ring.kick # 0)
      /\ (base = -1 \/ (base = used /\ ring.kick = 0)) /\ k \in Nat
  BY QueueFacts, Bounds DEF QueueInv, QueueTypes, InStep, Index
<1>1. ring.started /\ UNCHANGED <<mem, maps, base, seen, free>>
  BY DEF WriteFrame, session, driver
<1>2. \/ \E b \in tried : giveBack(b + 1)
      \/ Cardinality(tried) = k /\ giveBack(k)
      \/ tooShort
  BY DEF WriteFrame
<1>3. CASE \E b \in tried : giveBack(b + 1)
  <2>1. PICK b \in tried : giveBack(b + 1)
    BY <1>3
  <2>2. b + 1 \in Nat /\ b + 1 <= Waiting
    BY <1>0
  <2> QED BY <1>1, <2>1, <2>2, GiveBackStep
<1>4. CASE Cardinality(tried) = k /\ giveBack(k)
  <2>1. IsFiniteSet(0 .. Waiting - 1) /\ Cardinality(0 .. Waiting - 1) = Waiting
    <3>1. ASSUME NEW n \in Nat PROVE IsFiniteSet(0 .. n - 1) /\ Cardinality(0 .. n - 1) = n
      BY FS_Interval
    <3> QED BY <1>0, <3>1
  <2>2. tried \subseteq 0 .. Waiting - 1
    BY <1>0
  <2> HIDE DEF tried
  <2>3. Cardinality(tried) <= Waiting
    BY <2>1, <2>2, FS_Subset
  <2>4. k \in Nat /\ k <= Waiting
    BY <1>0, <1>4, <2>3
  <2> QED BY <1>1, <1>4, <2>4, GiveBackStep
<1>5. CASE tooShort
  <2>1. UNCHANGED <<ring, avail, availRing, used, usedRing>>
    BY <1>5 DEF tooShort, rings
  <2> QED BY <1>0, <1>1, <2>1, QuietQueue
<1> QED BY <1>2, <1>3, <1>4, <1>5

LEMMA InitQueue == Init => QueueInv /\ Queue!Init
<1> SUFFICES ASSUME Init PROVE QueueInv /\ Queue!Init
  OBVIOUS
<1>0. Num \in Nat \ {0} /\ 0 \in Index /\ 0 \in Heads
  BY VhostAssumption DEF Index, Heads
<1>1. Dist(0, 0) = 0
  BY <1>0, DistIs
<1>2. Waiting = 0 /\ Dist(seen, used) = 0
  BY <1>1 DEF Init, Waiting
<1>3. Cardinality(Heads) = Num
  BY <1>0, FS_Interval DEF Heads
<1>4. QueueTypes /\ InStep
  BY <1>0 DEF Init, QueueTypes, InStep, Rings
<1>5. Slots /\ Room
  BY <1>0, <1>2, <1>3 DEF Init, Slots, Room
<1>6. Offered = <<>> /\ Returned = <<>>
  BY <1>2 DEF Offered, Returned, Window
<1> QED BY <1>4, <1>5, <1>6 DEF QueueInv, Queue!Init, Init

LEMMA NextQueue == QueueInv /\ [Next]_vars => QueueInv' /\ [Queue!Next]_Queue!vars
<1> SUFFICES ASSUME QueueInv, [Next]_vars
             PROVE  QueueInv' /\ [Queue!Next]_Queue!vars
  OBVIOUS
<1>0. /\ ring \in Rings /\ ring.lastAvail = used /\ ring.usedIdx = used
      /\ maps \in Nat /\ mem \in Nat /\ (ring.started => ring.kick # 0)
      /\ (base = -1 \/ (base = used /\ ring.kick = 0))
  BY Bounds DEF QueueInv, QueueTypes, InStep, Index
<1>1. CASE handle
  BY <1>1, HandleQueue
<1>2. CASE Close \/ Hangup
  <2>1. ring' = stopRing(ring) /\ mem' = 0 /\ UNCHANGED <<maps, base, avail, availRing, used, usedRing, seen, free>>
    BY <1>2 DEF Close, Hangup, TearDown, rings, driver
  <2>2. ring' \in Rings /\ ring'.lastAvail = used /\ ring'.usedIdx = used /\ ring'.kick = 0 /\ ~ring'.started
    BY <1>0, <2>1 DEF stopRing, Rings
  <2> QED BY <1>0, <2>1, <2>2, QuietQueue
<1>3. CASE Pumping
  BY <1>3, PumpQueue DEF Pumping
<1>4. CASE Kick \/ UNCHANGED vars
  <2>1. UNCHANGED <<ring, mem, maps, base, avail, availRing, used, usedRing, seen, free>>
    BY <1>4 DEF Kick, vars, session, rings, driver
  <2> QED BY <1>0, <2>1, QuietQueue
<1>5. CASE Collect
  BY <1>5, CollectQueue DEF Queue!Next
<1>6. ASSUME NEW h \in Heads, Offer(h) PROVE QueueInv' /\ [Queue!Next]_Queue!vars
  BY <1>6, OfferQueue DEF Queue!Next
<1>7. ASSUME NEW k \in 1 .. Num, WriteFrame(k) PROVE QueueInv' /\ [Queue!Next]_Queue!vars
  BY <1>7, WriteQueue
<1> QED BY <1>1, <1>2, <1>3, <1>4, <1>5, <1>6, <1>7 DEF Next

\* queue.go, drainTXLocked, WriteFrame: to the driver the ring is a queue that
\* gives every chain back once and in the order of the offers, through any
\* configuration, pause, new memory table, restart from a saved index and end
\* of the session.
THEOREM RingIsChainQueue == Spec => IsChainQueue
BY InitQueue, NextQueue, PTL DEF Spec, IsChainQueue, Queue!Spec
=============================================================================
