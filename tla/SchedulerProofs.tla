--------------------------- MODULE SchedulerProofs ---------------------------
(***************************************************************************)
(* What the local scheduler promises about its rows, for every set of      *)
(* experiments, sessions, workers and callers and every number of stops,   *)
(* resumes, branches and process losses.                                   *)
(***************************************************************************)
EXTENDS Scheduler, SumTheorems, SequenceTheorems
------------------------------------------------------------------------------
(* Sequences and their folds. *)

\* A prefix of the positive numbers has a largest one.
LEMMA MaxOfPrefix ==
  ASSUME NEW n \in Nat, n > 0
  PROVE  Max(1..n) = n
<1>1. n \in 1..n /\ \A i \in 1..n : n >= i
  OBVIOUS
<1> QED
  BY <1>1 DEF Max

LEMMA RemovedAt ==
  ASSUME NEW S, NEW s \in Seq(S), NEW k \in DOMAIN s
  PROVE  /\ RemoveAt(s, k) \in Seq(S)
         /\ Len(RemoveAt(s, k)) = Len(s) - 1
         /\ \A j \in 1 .. Len(s) - 1 :
              RemoveAt(s, k)[j] = IF j < k THEN s[j] ELSE s[j + 1]
<1> DEFINE a == SubSeq(s, 1, k - 1)
           b == SubSeq(s, k + 1, Len(s))
<1>1. k \in 1..Len(s) /\ Len(s) \in Nat
  OBVIOUS
<1>2. a \in Seq(S) /\ Len(a) = k - 1 /\ \A j \in 1..k - 1 : a[j] = s[j]
  BY <1>1
<1>3. b \in Seq(S) /\ Len(b) = Len(s) - k /\ \A j \in 1..Len(s) - k : b[j] = s[k + j]
  BY <1>1
<1> HIDE DEF a, b
<1>4. RemoveAt(s, k) = a \o b
  BY DEF RemoveAt, a, b
<1>5. /\ a \o b \in Seq(S) /\ Len(a \o b) = Len(s) - 1
      /\ \A j \in 1 .. Len(s) - 1 : (a \o b)[j] = IF j <= k - 1 THEN a[j] ELSE b[j - (k - 1)]
  BY <1>1, <1>2, <1>3, ConcatProperties
<1>6. ASSUME NEW j \in 1 .. Len(s) - 1
      PROVE  RemoveAt(s, k)[j] = IF j < k THEN s[j] ELSE s[j + 1]
  <2>1. CASE j < k
    BY <1>1, <1>2, <1>4, <1>5, <2>1
  <2>2. CASE ~ (j < k)
    <3>1. j - (k - 1) \in 1..Len(s) - k /\ ~ (j <= k - 1)
      BY <1>1, <2>2
    <3>2. b[j - (k - 1)] = s[k + (j - (k - 1))] /\ k + (j - (k - 1)) = j + 1
      BY <1>1, <1>3, <3>1
    <3> QED
      BY <1>4, <1>5, <2>2, <3>1, <3>2
  <2> QED
    BY <2>1, <2>2
<1> QED
  BY <1>4, <1>5, <1>6

\* The two operations the scheduler folds over a sequence.
Step(kind, q, x) == IF kind = "launch" THEN Launch(q, x) ELSE Schedule(q, x)

\* g says what a fold of the operation over seq has reached, for the sets of
\* positions of D.
LastOf(s) == Max(s)
Reaches(kind, g, q, seq, D) ==
  g = [s \in SUBSET D |-> IF s = {} THEN q ELSE Step(kind, g[s \ {LastOf(s)}], seq[LastOf(s)])]

LEMMA LastOfIsIn ==
  ASSUME NEW s, IsFiniteSet(s)
  PROVE  s \subseteq Nat /\ s # {} => LastOf(s) \in s
<1>1. s \subseteq Nat /\ s # {} => \E m \in s : \A x \in s : m >= x
  BY LargestNumber
<1> QED
  BY <1>1 DEF LastOf, Max

\* Every subset has a last element.
Ordered(D) == \A s \in SUBSET D : s # {} => LastOf(s) \in s

LEMMA NumbersAreOrdered ==
  ASSUME NEW D, IsFiniteSet(D)
  PROVE  D \subseteq Nat => Ordered(D)
<1>1. \A s \in SUBSET D : IsFiniteSet(s)
  BY FS_Subset
<1> SUFFICES ASSUME D \subseteq Nat PROVE Ordered(D)
  OBVIOUS
<1> QED
  BY <1>1, LastOfIsIn DEF Ordered

LEMMA ReachesAt ==
  ASSUME NEW kind, NEW g, NEW q, NEW seq, NEW D, Reaches(kind, g, q, seq, D), NEW s \in SUBSET D
  PROVE  g[s] = IF s = {} THEN q ELSE Step(kind, g[s \ {LastOf(s)}], seq[LastOf(s)])
BY DEF Reaches

LEMMA ReachesAgree ==
  ASSUME NEW kind, NEW q, NEW seq, NEW A, IsFiniteSet(A), Ordered(A), NEW B, IsFiniteSet(B),
         NEW f, Reaches(kind, f, q, seq, A), NEW h, Reaches(kind, h, q, seq, B)
  PROVE  \A v \in SUBSET (A \cap B) : f[v] = h[v]
<1>0. /\ \A v \in SUBSET A :
           f[v] = IF v = {} THEN q ELSE Step(kind, f[v \ {LastOf(v)}], seq[LastOf(v)])
      /\ \A v \in SUBSET B :
           h[v] = IF v = {} THEN q ELSE Step(kind, h[v \ {LastOf(v)}], seq[LastOf(v)])
  BY DEF Reaches
<1> DEFINE C == {v \in SUBSET (A \cap B) : f[v] # h[v]}
<1>1. IsFiniteSet(A \cap B) /\ C \in SUBSET (SUBSET (A \cap B))
  BY FS_Intersection
<1>2. C # {} => \E v \in C : \A u \in C : u \subseteq v => u = v
  <2> HIDE DEF C
  <2> QED BY <1>1, SmallestSet
<1> SUFFICES ASSUME C # {} PROVE FALSE
  OBVIOUS
<1>3. PICK v \in C : \A u \in C : u \subseteq v => u = v
  BY <1>2
<1>4. v \in SUBSET A /\ v \in SUBSET B /\ f[v] # h[v]
  OBVIOUS
<1>5. v # {}
  BY <1>0, <1>4
<1>6. LastOf(v) \in v
  BY <1>4, <1>5 DEF Ordered
<1> DEFINE u == v \ {LastOf(v)}
<1>7. u \subseteq v /\ u # v
  BY <1>6
<1>8. f[u] = h[u]
  BY <1>3, <1>4, <1>7
<1>9. /\ f[v] = Step(kind, f[u], seq[LastOf(v)])
      /\ h[v] = Step(kind, h[u], seq[LastOf(v)])
  BY <1>0, <1>4, <1>5
<1> QED
  BY <1>4, <1>8, <1>9

LEMMA ReachesExists ==
  ASSUME NEW kind, NEW q, NEW seq, NEW W, IsFiniteSet(W), Ordered(W)
  PROVE  \E g : Reaches(kind, g, q, seq, W)
<1> DEFINE C == {T \in SUBSET W : ~ \E g : Reaches(kind, g, q, seq, T)}
<1>1. C \in SUBSET (SUBSET W)
  OBVIOUS
<1>2. C # {} => \E T \in C : \A U \in C : U \subseteq T => U = T
  <2> HIDE DEF C
  <2> QED BY <1>1, SmallestSet
<1>3. W \in C => C # {}
  OBVIOUS
<1> SUFFICES ASSUME C # {} PROVE FALSE
  BY <1>3
<1>4. PICK T \in C : \A U \in C : U \subseteq T => U = T
  BY <1>2
<1> HIDE DEF C
<1>5. T \in SUBSET W /\ ~ \E g : Reaches(kind, g, q, seq, T)
  BY <1>4 DEF C
<1> DEFINE G(U) == CHOOSE g : Reaches(kind, g, q, seq, U)
<1>6. \A U \in SUBSET T : U # T => Reaches(kind, G(U), q, seq, U)
  <2> SUFFICES ASSUME NEW U \in SUBSET T, U # T PROVE Reaches(kind, G(U), q, seq, U)
    OBVIOUS
  <2>1. U \in SUBSET W /\ U \notin C
    BY <1>4, <1>5
  <2>2. \E g : Reaches(kind, g, q, seq, U)
    BY <2>1 DEF C
  <2> QED
    BY <2>2
<1>7. \A s \in SUBSET T : IsFiniteSet(s) /\ Ordered(s) /\ (s # {} => LastOf(s) \in s)
  <2>1. \A s \in SUBSET T : s \in SUBSET W
    BY <1>5
  <2>2. \A s \in SUBSET T : IsFiniteSet(s)
    BY <2>1, FS_Subset
  <2> QED
    BY <2>1, <2>2 DEF Ordered
<1> DEFINE Part(s) == IF s = {} THEN q
                      ELSE Step(kind, G(s \ {LastOf(s)})[s \ {LastOf(s)}], seq[LastOf(s)])
           g == [s \in SUBSET T |-> Part(s)]
<1>8. \A s \in SUBSET T : s # T => g[s] = G(s)[s]
  <2> SUFFICES ASSUME NEW s \in SUBSET T, s # T PROVE g[s] = G(s)[s]
    OBVIOUS
  <2>1. Reaches(kind, G(s), q, seq, s) /\ IsFiniteSet(s) /\ Ordered(s)
    BY <1>6, <1>7
  <2>2. CASE s = {}
    <3>1. G(s)[s] = q
      BY <2>1, <2>2, ReachesAt
    <3> QED
      BY <2>2, <3>1
  <2>3. CASE s # {}
    <3> DEFINE u == s \ {LastOf(s)}
    <3>1. u \in SUBSET s /\ u \in SUBSET T /\ u # T
      BY <2>3
    <3>2. Reaches(kind, G(u), q, seq, u) /\ IsFiniteSet(u)
      BY <1>6, <1>7, <3>1
    <3>3. \A r \in SUBSET (s \cap u) : G(s)[r] = G(u)[r]
      <4> HIDE DEF G, u
      <4> QED BY <2>1, <3>2, ReachesAgree
    <3>4. G(s)[u] = G(u)[u]
      BY <3>1, <3>3
    <3>5. G(s)[s] = Step(kind, G(s)[u], seq[LastOf(s)])
      <4>1. s \in SUBSET s
        OBVIOUS
      <4> HIDE DEF G
      <4> QED BY <2>1, <2>3, <4>1, ReachesAt
    <3> HIDE DEF G
    <3> QED
      BY <2>3, <3>4, <3>5
  <2> QED
    BY <2>2, <2>3
<1>9. \A s \in SUBSET T :
        g[s] = IF s = {} THEN q ELSE Step(kind, g[s \ {LastOf(s)}], seq[LastOf(s)])
  <2> SUFFICES ASSUME NEW s \in SUBSET T
               PROVE  g[s] = IF s = {} THEN q ELSE Step(kind, g[s \ {LastOf(s)}], seq[LastOf(s)])
    BY Zenon
  <2>0. CASE s = {}
    BY <2>0
  <2> SUFFICES ASSUME s # {} PROVE g[s] = Step(kind, g[s \ {LastOf(s)}], seq[LastOf(s)])
    BY <2>0
  <2> DEFINE u == s \ {LastOf(s)}
  <2>1. u \in SUBSET T /\ u # T
    BY <1>7
  <2>2. g[u] = G(u)[u]
    BY <1>8, <2>1
  <2> HIDE DEF G
  <2> QED
    BY <2>2
<1>10. Reaches(kind, g, q, seq, T)
  <2> HIDE DEF Part, G
  <2> QED
    BY <1>9 DEF Reaches
<1> QED
  BY <1>5, <1>10

\* Stages of a fold: what each application leads to, the whole reaches.
LEMMA StagesReached ==
  ASSUME NEW kind, NEW q, NEW seq, NEW n \in Nat, NEW g, Reaches(kind, g, q, seq, 1..n),
         NEW stage, q \in stage[0],
         \A i \in 1..n : \A x \in stage[i - 1] : Step(kind, x, seq[i]) \in stage[i]
  PROVE  g[1..n] \in stage[n]
<1>0. \A s \in SUBSET (1..n) :
        g[s] = IF s = {} THEN q ELSE Step(kind, g[s \ {LastOf(s)}], seq[LastOf(s)])
  BY DEF Reaches
<1> DEFINE B == {i \in 0..n : g[1..i] \notin stage[i]}
<1>1. B \subseteq 0..n
  OBVIOUS
<1>2. B # {} => \E m \in B : \A k \in B : m <= k
  <2> HIDE DEF B
  <2> QED BY <1>1, LeastNumber
<1> SUFFICES ASSUME B # {} PROVE FALSE
  OBVIOUS
<1>3. PICK m \in B : \A k \in B : m <= k
  BY <1>2
<1>4. m # 0
  <2>1. {} \in SUBSET (1..n) /\ 1..0 = {}
    OBVIOUS
  <2>2. g[{}] = q
    BY <2>1, ReachesAt
  <2> QED
    BY <2>1, <2>2
<1>5. m \in 1..n /\ m - 1 \in 0..n /\ m - 1 \notin B
  BY <1>3, <1>4
<1>6. g[1..(m - 1)] \in stage[m - 1]
  BY <1>5
<1>7. LastOf(1..m) = m /\ (1..m) \ {m} = 1..(m - 1) /\ 1..m \in SUBSET (1..n) /\ 1..m # {}
  BY <1>5, MaxOfPrefix DEF LastOf
<1>8. g[1..m] = Step(kind, g[1..(m - 1)], seq[m])
  BY <1>0, <1>7
<1> QED
  BY <1>5, <1>6, <1>8

LEMMA LaunchUnfolded ==
  ASSUME NEW q, NEW seq
  PROVE  FoldLeft(Launch, q, seq) =
           (CHOOSE g : g = [s \in SUBSET DOMAIN seq |->
              IF s = {} THEN q ELSE Launch(g[s \ {LastOf(s)}], seq[LastOf(s)])])[DOMAIN seq]
BY DEF FoldLeft, MapThenFoldSet, LastOf

LEMMA ScheduleUnfolded ==
  ASSUME NEW q, NEW seq
  PROVE  FoldLeft(Schedule, q, seq) =
           (CHOOSE g : g = [s \in SUBSET DOMAIN seq |->
              IF s = {} THEN q ELSE Schedule(g[s \ {LastOf(s)}], seq[LastOf(s)])])[DOMAIN seq]
BY DEF FoldLeft, MapThenFoldSet, LastOf

LEMMA LaunchesReach ==
  ASSUME NEW q, NEW n \in Nat, NEW seq, DOMAIN seq = 1..n, NEW stage, q \in stage[0],
         \A i \in 1..n : \A x \in stage[i - 1] : Launch(x, seq[i]) \in stage[i]
  PROVE  FoldLeft(Launch, q, seq) \in stage[n]
<1> DEFINE F(g) == g = [s \in SUBSET DOMAIN seq |->
                     IF s = {} THEN q ELSE Launch(g[s \ {LastOf(s)}], seq[LastOf(s)])]
           h == CHOOSE g : F(g)
<1>1. \A g : F(g) <=> Reaches("launch", g, q, seq, 1..n)
  BY DEF Reaches, Step
<1>2. IsFiniteSet(1..n) /\ 1..n \subseteq Nat
  BY FS_Interval
<1>3. Ordered(1..n)
  BY <1>2, NumbersAreOrdered
<1>4. \E g : Reaches("launch", g, q, seq, 1..n)
  BY <1>2, <1>3, ReachesExists
<1>5. Reaches("launch", h, q, seq, 1..n)
  <2>1. \E g : F(g)
    BY <1>1, <1>4
  <2>2. F(h)
    <3> HIDE DEF F
    <3> QED BY <2>1
  <2> QED
    BY <1>1, <2>2
<1>6. \A i \in 1..n : \A x \in stage[i - 1] : Step("launch", x, seq[i]) \in stage[i]
  BY DEF Step
<1>7. h[1..n] \in stage[n]
  <2> HIDE DEF h
  <2> QED BY <1>5, <1>6, StagesReached
<1> QED
  BY <1>7, LaunchUnfolded

LEMMA SchedulesReach ==
  ASSUME NEW q, NEW n \in Nat, NEW seq, DOMAIN seq = 1..n, NEW stage, q \in stage[0],
         \A i \in 1..n : \A x \in stage[i - 1] : Schedule(x, seq[i]) \in stage[i]
  PROVE  FoldLeft(Schedule, q, seq) \in stage[n]
<1> DEFINE F(g) == g = [s \in SUBSET DOMAIN seq |->
                     IF s = {} THEN q ELSE Schedule(g[s \ {LastOf(s)}], seq[LastOf(s)])]
           h == CHOOSE g : F(g)
<1>1. \A g : F(g) <=> Reaches("schedule", g, q, seq, 1..n)
  BY DEF Reaches, Step
<1>2. IsFiniteSet(1..n) /\ 1..n \subseteq Nat
  BY FS_Interval
<1>3. Ordered(1..n)
  BY <1>2, NumbersAreOrdered
<1>4. \E g : Reaches("schedule", g, q, seq, 1..n)
  BY <1>2, <1>3, ReachesExists
<1>5. Reaches("schedule", h, q, seq, 1..n)
  <2>1. \E g : F(g)
    BY <1>1, <1>4
  <2>2. F(h)
    <3> HIDE DEF F
    <3> QED BY <2>1
  <2> QED
    BY <1>1, <2>2
<1>6. \A i \in 1..n : \A x \in stage[i - 1] : Step("schedule", x, seq[i]) \in stage[i]
  BY DEF Step
<1>7. h[1..n] \in stage[n]
  <2> HIDE DEF h
  <2> QED BY <1>5, <1>6, StagesReached
<1> QED
  BY <1>7, ScheduleUnfolded
------------------------------------------------------------------------------
(* The queue holds a session at most once. *)

Steps == {"launched", "create", "run", "raised", "final", "unwind", "finish"}
Entries == [group : Groups, jobs : Seq(Sessions)]
\* What a runner returned or raised is what its row will say.
Workers == {Idle} \cup
  {v \in [session : Sessions, at : Steps, outcome : Terminal \cup {None}] :
     v.at \in {"raised", "final", "unwind"} => v.outcome \in Terminal}
Queues == [pending : Seq(Entries), served : [Groups -> Nat],
           future : [Sessions -> {"none", "open", "done"}], worker : [Slots -> Workers]]

\* The jobs of a list of groups, each at one place.
In(p, s) == \E i \in DOMAIN p : \E k \in DOMAIN p[i].jobs : p[i].jobs[k] = s
Lists(p) ==
  /\ p \in Seq(Entries)
  /\ \A i \in DOMAIN p : p[i].jobs # <<>>
  /\ \A i, j \in DOMAIN p : \A k \in DOMAIN p[i].jobs : \A l \in DOMAIN p[j].jobs :
       p[i].jobs[k] = p[j].jobs[l] => i = j /\ k = l

\* t is s without its k-th element.
Without(t, s, k) ==
  /\ DOMAIN t = 1 .. Len(s) - 1
  /\ \A j \in DOMAIN t : \E i \in DOMAIN s \ {k} : t[j] = s[i] /\ i = IF j < k THEN j ELSE j + 1
  /\ \A i \in DOMAIN s \ {k} : \E j \in DOMAIN t : t[j] = s[i] /\ j = IF i < k THEN i ELSE i - 1

LEMMA RemovedFrom ==
  ASSUME NEW S, NEW s \in Seq(S), NEW k \in DOMAIN s
  PROVE  RemoveAt(s, k) \in Seq(S) /\ Without(RemoveAt(s, k), s, k)
<1> DEFINE t == RemoveAt(s, k)
<1>1. /\ t \in Seq(S) /\ Len(t) = Len(s) - 1
      /\ \A j \in 1 .. Len(s) - 1 : t[j] = IF j < k THEN s[j] ELSE s[j + 1]
  BY RemovedAt
<1> HIDE DEF t
<1>2. DOMAIN t = 1 .. Len(s) - 1 /\ DOMAIN s = 1..Len(s) /\ Len(s) \in Nat /\ k \in Nat
  BY <1>1
<1>3. ASSUME NEW j \in DOMAIN t
      PROVE  \E i \in DOMAIN s \ {k} : t[j] = s[i] /\ i = IF j < k THEN j ELSE j + 1
  BY <1>1, <1>2
<1>4. ASSUME NEW i \in DOMAIN s \ {k}
      PROVE  \E j \in DOMAIN t : t[j] = s[i] /\ j = IF i < k THEN i ELSE i - 1
  <2>1. CASE i < k
    <3>1. i \in DOMAIN t
      BY <1>2, <2>1
    <3> QED BY <1>1, <1>2, <2>1, <3>1
  <2>2. CASE ~ (i < k)
    <3>1. i - 1 \in DOMAIN t /\ ~ (i - 1 < k) /\ (i - 1) + 1 = i
      BY <1>2, <2>2
    <3> QED BY <1>1, <1>2, <2>2, <3>1
  <2> QED
    BY <2>1, <2>2
<1> QED
  BY <1>1, <1>2, <1>3, <1>4 DEF t, Without

LEMMA ListsType ==
  ASSUME NEW p, Lists(p)
  PROVE  /\ p \in Seq(Entries) /\ DOMAIN p = 1..Len(p) /\ Len(p) \in Nat
         /\ \A i \in DOMAIN p : p[i] \in Entries /\ p[i].jobs \in Seq(Sessions)
<1>1. p \in Seq(Entries)
  BY DEF Lists
<1>2. DOMAIN p = 1..Len(p) /\ Len(p) \in Nat
  BY <1>1
<1>3. \A i \in DOMAIN p : p[i] \in Entries
  BY <1>1
<1> QED
  BY <1>1, <1>2, <1>3 DEF Entries

\* What leaves a list leaves nothing else.
LEMMA Dropped ==
  ASSUME NEW p, Lists(p), NEW i \in DOMAIN p, NEW k \in DOMAIN p[i].jobs
  PROVE  /\ Lists(Drop(p, i, k))
         /\ \A s : In(Drop(p, i, k), s) <=> In(p, s) /\ s # p[i].jobs[k]
<1> DEFINE left == RemoveAt(p[i].jobs, k)
           d == Drop(p, i, k)
<1>1. /\ p \in Seq(Entries) /\ p[i] \in Entries /\ p[i].jobs \in Seq(Sessions)
      /\ DOMAIN p = 1..Len(p) /\ Len(p) \in Nat
  BY ListsType
<1>2. /\ left \in Seq(Sessions)
      /\ DOMAIN left = 1 .. Len(p[i].jobs) - 1
      /\ \A j \in DOMAIN left :
           \E m \in DOMAIN p[i].jobs \ {k} : left[j] = p[i].jobs[m] /\ m = IF j < k THEN j ELSE j + 1
      /\ \A m \in DOMAIN p[i].jobs \ {k} :
           \E j \in DOMAIN left : left[j] = p[i].jobs[m] /\ j = IF m < k THEN m ELSE m - 1
  <2> DEFINE js == p[i].jobs
  <2>1. js \in Seq(Sessions) /\ k \in DOMAIN js
    BY <1>1
  <2> HIDE DEF js
  <2>2. RemoveAt(js, k) \in Seq(Sessions) /\ Without(RemoveAt(js, k), js, k)
    BY <2>1, RemovedFrom
  <2> QED
    BY <2>2 DEF js, left, Without
<1> HIDE DEF left
<1>3. CASE left = <<>>
  <2>1. d = RemoveAt(p, i)
    BY <1>3 DEF Drop, left
  <2>2. DOMAIN p[i].jobs = {k}
    BY <1>1, <1>2, <1>3
  <2>3. /\ d \in Seq(Entries)
        /\ \A a \in DOMAIN d : \E b \in DOMAIN p \ {i} : d[a] = p[b] /\ b = IF a < i THEN a ELSE a + 1
        /\ \A b \in DOMAIN p \ {i} : \E a \in DOMAIN d : d[a] = p[b] /\ a = IF b < i THEN b ELSE b - 1
    <3>1. RemoveAt(p, i) \in Seq(Entries) /\ Without(RemoveAt(p, i), p, i)
      BY <1>1, RemovedFrom
    <3> QED
      BY <2>1, <3>1 DEF Without
  <2> HIDE DEF d
  <2>4. DOMAIN d \subseteq Nat /\ i \in Nat
    BY <1>1, <2>3
  <2>5. \A a \in DOMAIN d : d[a].jobs # <<>>
    BY <2>3 DEF Lists
  <2>6. ASSUME NEW a \in DOMAIN d, NEW b \in DOMAIN d,
               NEW m \in DOMAIN d[a].jobs, NEW l \in DOMAIN d[b].jobs,
               d[a].jobs[m] = d[b].jobs[l]
        PROVE  a = b /\ m = l
    <3>1. PICK a0 \in DOMAIN p \ {i} : d[a] = p[a0] /\ a0 = IF a < i THEN a ELSE a + 1
      BY <2>3
    <3>2. PICK b0 \in DOMAIN p \ {i} : d[b] = p[b0] /\ b0 = IF b < i THEN b ELSE b + 1
      BY <2>3
    <3>3. a0 = b0 /\ m = l
      BY <2>6, <3>1, <3>2 DEF Lists
    <3> QED
      BY <2>4, <3>1, <3>2, <3>3
  <2>7. ASSUME NEW s, In(d, s) PROVE In(p, s) /\ s # p[i].jobs[k]
    <3>1. PICK a \in DOMAIN d : \E m \in DOMAIN d[a].jobs : d[a].jobs[m] = s
      BY <2>7 DEF In
    <3>2. PICK b \in DOMAIN p \ {i} : d[a] = p[b]
      BY <2>3
    <3> QED
      BY <3>1, <3>2 DEF In, Lists
  <2>8. ASSUME NEW s, In(p, s), s # p[i].jobs[k] PROVE In(d, s)
    <3>1. PICK b \in DOMAIN p : \E m \in DOMAIN p[b].jobs : p[b].jobs[m] = s
      BY <2>8 DEF In
    <3>2. b # i
      BY <2>2, <2>8, <3>1
    <3>3. PICK a \in DOMAIN d : d[a] = p[b]
      BY <2>3, <3>2
    <3> QED
      BY <3>1, <3>3 DEF In
  <2>9. Lists(d)
    BY <2>3, <2>5, <2>6 DEF Lists
  <2> QED
    BY <2>7, <2>8, <2>9 DEF d
<1>4. CASE left # <<>>
  <2>1. d = [p EXCEPT ![i].jobs = left]
    BY <1>4 DEF Drop, left
  <2>2. /\ DOMAIN d = DOMAIN p /\ d[i].jobs = left /\ d[i].group = p[i].group
        /\ d[i] \in Entries /\ \A a \in DOMAIN p \ {i} : d[a] = p[a]
    BY <1>1, <1>2, <2>1 DEF Entries
  <2>3. d \in Seq(Entries)
    BY <1>1, <2>1, <2>2
  <2> HIDE DEF d
  <2>4. k \in Nat /\ DOMAIN left \subseteq Nat
    BY <1>1, <1>2
  <2>5. \A a \in DOMAIN d : d[a].jobs # <<>>
    BY <1>4, <2>2 DEF Lists
  <2>6. ASSUME NEW a \in DOMAIN d, NEW m \in DOMAIN d[a].jobs
        PROVE  \E n \in DOMAIN p[a].jobs :
                 /\ d[a].jobs[m] = p[a].jobs[n]
                 /\ IF a # i THEN n = m ELSE n # k /\ n = IF m < k THEN m ELSE m + 1
    <3>1. CASE a = i
      BY <1>2, <2>2, <3>1
    <3>2. CASE a # i
      BY <2>2, <3>2
    <3> QED
      BY <3>1, <3>2
  <2>7. ASSUME NEW a \in DOMAIN d, NEW b \in DOMAIN d,
               NEW m \in DOMAIN d[a].jobs, NEW l \in DOMAIN d[b].jobs,
               d[a].jobs[m] = d[b].jobs[l]
        PROVE  a = b /\ m = l
    <3>1. PICK x \in DOMAIN p[a].jobs :
                 /\ d[a].jobs[m] = p[a].jobs[x]
                 /\ IF a # i THEN x = m ELSE x # k /\ x = IF m < k THEN m ELSE m + 1
      BY <2>6
    <3>2. PICK y \in DOMAIN p[b].jobs :
                 /\ d[b].jobs[l] = p[b].jobs[y]
                 /\ IF b # i THEN y = l ELSE y # k /\ y = IF l < k THEN l ELSE l + 1
      BY <2>6
    <3>3. a = b /\ x = y
      <4>1. a \in DOMAIN p /\ b \in DOMAIN p /\ p[a].jobs[x] = p[b].jobs[y]
        BY <2>2, <2>7, <3>1, <3>2
      <4> QED BY <4>1 DEF Lists
    <3>4. a = i => m \in Nat /\ l \in Nat
      BY <2>2, <2>4, <3>3
    <3> QED
      BY <2>4, <3>1, <3>2, <3>3, <3>4
  <2>8. ASSUME NEW s, In(d, s) PROVE In(p, s) /\ s # p[i].jobs[k]
    <3>1. PICK a \in DOMAIN d : \E m \in DOMAIN d[a].jobs : d[a].jobs[m] = s
      BY <2>8 DEF In
    <3>2. PICK n \in DOMAIN p[a].jobs : s = p[a].jobs[n] /\ (a = i => n # k)
      BY <2>6, <3>1
    <3> QED
      BY <2>2, <3>2 DEF In, Lists
  <2>9. ASSUME NEW s, In(p, s), s # p[i].jobs[k] PROVE In(d, s)
    <3>1. PICK a \in DOMAIN p : \E m \in DOMAIN p[a].jobs : p[a].jobs[m] = s
      BY <2>9 DEF In
    <3>2. \E m \in DOMAIN d[a].jobs : d[a].jobs[m] = s
      <4>1. CASE a = i
        <5>1. PICK m \in DOMAIN p[i].jobs \ {k} : p[i].jobs[m] = s
          BY <2>9, <3>1, <4>1
        <5>2. \E j \in DOMAIN left : left[j] = s
          BY <1>2, <5>1
        <5> QED BY <2>2, <4>1, <5>2
      <4>2. CASE a # i
        BY <2>2, <3>1, <4>2
      <4> QED BY <4>1, <4>2
    <3> QED
      BY <2>2, <3>2 DEF In
  <2>10. Lists(d)
    BY <2>3, <2>5, <2>7 DEF Lists
  <2> QED
    BY <2>8, <2>9, <2>10 DEF d
<1> QED
  BY <1>3, <1>4

LEMMA GroupOfType ==
  ASSUME NEW s \in Sessions
  PROVE  GroupOf[s] \in Groups
BY DEF Groups

\* What joins a list joins it at one place.
LEMMA Added ==
  ASSUME NEW p, Lists(p), NEW s \in Sessions, ~ In(p, s)
  PROVE  /\ Lists(Add(p, s))
         /\ \A x : In(Add(p, s), x) <=> In(p, x) \/ x = s
<1> DEFINE I == {i \in 1..Len(p) : p[i].group = GroupOf[s]}
           at == SelectInSeq(p, LAMBDA entry : entry.group = GroupOf[s])
           d == Add(p, s)
<1>1. /\ p \in Seq(Entries) /\ DOMAIN p = 1..Len(p) /\ Len(p) \in Nat
      /\ \A i \in DOMAIN p : p[i] \in Entries /\ p[i].jobs \in Seq(Sessions)
  BY ListsType
<1>2. at = IF I # {} THEN Min(I) ELSE 0
  BY DEF SelectInSeq
<1>3. at = 0 \/ at \in DOMAIN p
  <2>1. CASE I # {}
    <3>1. I \in SUBSET Nat
      OBVIOUS
    <3>2. Min(I) \in I
      <4> HIDE DEF I
      <4> QED BY <2>1, <3>1, MinIsLeast
    <3> QED
      BY <1>1, <1>2, <2>1, <3>2
  <2>2. CASE I = {}
    BY <1>2, <2>2
  <2> QED
    BY <2>1, <2>2
<1>4. d = IF at = 0 THEN Append(p, [group |-> GroupOf[s], jobs |-> <<s>>])
          ELSE [p EXCEPT ![at].jobs = Append(@, s)]
  BY DEF Add
<1> HIDE DEF at, d, I
<1>5. CASE at = 0
  <2> DEFINE e == [group |-> GroupOf[s], jobs |-> <<s>>]
             n == Len(p) + 1
  <2>1. e \in Entries /\ e.jobs = <<s>> /\ DOMAIN e.jobs = {1} /\ e.jobs[1] = s /\ e.jobs # <<>>
    BY GroupOfType DEF Entries
  <2> HIDE DEF e
  <2>2. d = Append(p, e)
    BY <1>4, <1>5 DEF e
  <2>3. /\ d \in Seq(Entries) /\ DOMAIN d = DOMAIN p \cup {n} /\ d[n] = e
        /\ \A i \in DOMAIN p : d[i] = p[i] /\ i # n
    BY <1>1, <2>1, <2>2, AppendProperties
  <2> HIDE DEF n
  <2>4. \A i \in DOMAIN d : d[i].jobs # <<>>
    BY <2>1, <2>3 DEF Lists
  <2>5. ASSUME NEW x PROVE In(d, x) <=> In(p, x) \/ x = s
    BY <2>1, <2>3 DEF In
  <2>6. ASSUME NEW a \in DOMAIN d, NEW b \in DOMAIN d,
               NEW m \in DOMAIN d[a].jobs, NEW l \in DOMAIN d[b].jobs,
               d[a].jobs[m] = d[b].jobs[l]
        PROVE  a = b /\ m = l
    <3>1. CASE a = n /\ b = n
      BY <2>1, <2>3, <3>1
    <3>2. CASE a # n /\ b # n
      BY <2>3, <2>6, <3>2 DEF Lists
    <3>3. CASE a = n /\ b # n
      BY <2>1, <2>3, <2>6, <3>3 DEF In
    <3>4. CASE a # n /\ b = n
      BY <2>1, <2>3, <2>6, <3>4 DEF In
    <3> QED
      BY <3>1, <3>2, <3>3, <3>4
  <2> QED
    BY <2>3, <2>4, <2>5, <2>6 DEF Lists, d
<1>6. CASE at # 0
  <2> DEFINE more == Append(p[at].jobs, s)
             n == Len(p[at].jobs) + 1
  <2>1. at \in DOMAIN p /\ p[at] \in Entries /\ p[at].jobs \in Seq(Sessions)
    BY <1>1, <1>3, <1>6
  <2>2. /\ more \in Seq(Sessions) /\ DOMAIN more = DOMAIN p[at].jobs \cup {n} /\ more[n] = s
        /\ more # <<>> /\ \A k \in DOMAIN p[at].jobs : more[k] = p[at].jobs[k] /\ k # n
    BY <2>1, AppendProperties
  <2> HIDE DEF more, n
  <2>3. d = [p EXCEPT ![at].jobs = more]
    BY <1>4, <1>6 DEF more
  <2>4. /\ DOMAIN d = DOMAIN p /\ d[at].jobs = more
        /\ d[at] \in Entries /\ \A a \in DOMAIN p \ {at} : d[a] = p[a]
    BY <1>1, <2>1, <2>2, <2>3 DEF Entries
  <2>5. d \in Seq(Entries)
    BY <1>1, <2>1, <2>3, <2>4
  <2>6. \A a \in DOMAIN d : d[a].jobs # <<>>
    BY <2>2, <2>4 DEF Lists
  <2>7. ASSUME NEW x PROVE In(d, x) <=> In(p, x) \/ x = s
    <3>1. ASSUME In(p, x) PROVE In(d, x)
      BY <2>2, <2>4, <3>1 DEF In
    <3>2. In(d, s)
      BY <2>1, <2>2, <2>4 DEF In
    <3>3. ASSUME In(d, x), x # s PROVE In(p, x)
      BY <2>1, <2>2, <2>4, <3>3 DEF In
    <3> QED
      BY <3>1, <3>2, <3>3
  <2>8. ASSUME NEW a \in DOMAIN d, NEW m \in DOMAIN d[a].jobs
        PROVE  IF d[a].jobs[m] = s THEN a = at /\ m = n
               ELSE m \in DOMAIN p[a].jobs /\ d[a].jobs[m] = p[a].jobs[m]
    <3>1. CASE a = at
      BY <2>1, <2>2, <2>4, <3>1 DEF In
    <3>2. CASE a # at
      BY <2>2, <2>4, <3>2 DEF In
    <3> QED
      BY <3>1, <3>2
  <2>9. ASSUME NEW a \in DOMAIN d, NEW b \in DOMAIN d,
               NEW m \in DOMAIN d[a].jobs, NEW l \in DOMAIN d[b].jobs,
               d[a].jobs[m] = d[b].jobs[l]
        PROVE  a = b /\ m = l
    BY <2>4, <2>8, <2>9 DEF Lists
  <2> QED
    BY <2>5, <2>6, <2>7, <2>9 DEF Lists, d
<1> QED
  BY <1>5, <1>6

------------------------------------------------------------------------------
(* Launching and scheduling keep the queue, and who is in it. *)

Held(q, w, s) == q.worker[w].session = s /\ q.worker[w].at # "finish"
QueueOK(q) ==
  /\ q \in Queues
  /\ Lists(q.pending)
  /\ \A w \in Slots, s \in Sessions : Held(q, w, s) => ~ In(q.pending, s)
  /\ \A w, v \in Slots, s \in Sessions : Held(q, w, s) /\ Held(q, v, s) => w = v

\* A session waits for its execution, or is executed.
Busy == Steps \ {"launched", "finish"}
Waits(q, s) ==
  \/ In(q.pending, s)
  \/ \E w \in Slots : q.worker[w].session = s /\ q.worker[w].at = "launched"
Runs(q, s) == \E w \in Slots : q.worker[w].session = s /\ q.worker[w].at \in Busy
SameClaims(q, r) == \A s \in Sessions : (Waits(q, s) <=> Waits(r, s)) /\ (Runs(q, s) <=> Runs(r, s))

LEMMA LeastServedIsIn ==
  ASSUME NEW q, QueueOK(q), q.pending # <<>>
  PROVE  LeastServed(q) \in DOMAIN q.pending
<1> DEFINE p == q.pending
           load(j) == q.served[p[j].group]
           T == {load(j) : j \in DOMAIN p}
           I == {j \in DOMAIN p : load(j) = Min(T)}
<1>1. /\ p \in Seq(Entries) /\ DOMAIN p = 1..Len(p) /\ Len(p) \in Nat /\ p # <<>>
      /\ \A i \in DOMAIN p : p[i] \in Entries
  BY ListsType DEF QueueOK
<1>2. \A j \in DOMAIN p : load(j) \in Nat
  BY <1>1 DEF QueueOK, Queues, Entries
<1>3. 1 \in DOMAIN p /\ T \in SUBSET Nat /\ T # {}
  BY <1>1, <1>2
<1>4. Min(T) \in T /\ \A x \in T : Min(T) <= x
  <2> HIDE DEF T
  <2> QED BY <1>3, MinIsLeast
<1>5. I \in SUBSET Nat /\ I # {}
  <2>1. PICK j \in DOMAIN p : load(j) = Min(T)
    BY <1>4
  <2>2. j \in I
    BY <2>1
  <2>3. DOMAIN p \subseteq Nat
    BY <1>1
  <2> QED
    BY <2>2, <2>3
<1>6. Min(I) \in I /\ \A j \in I : Min(I) <= j
  <2> HIDE DEF I
  <2> QED BY <1>5, MinIsLeast
<1> DEFINE i == Min(I)
<1>7. i \in DOMAIN p /\ load(i) = Min(T)
  BY <1>6
<1>8. \A j \in DOMAIN p : load(i) <= load(j) /\ (load(i) = load(j) => i <= j)
  <2> SUFFICES ASSUME NEW j \in DOMAIN p
               PROVE  load(i) <= load(j) /\ (load(i) = load(j) => i <= j)
    OBVIOUS
  <2>1. load(i) <= load(j)
    BY <1>4, <1>7
  <2>2. load(i) = load(j) => j \in I
    BY <1>7
  <2> QED
    BY <1>6, <2>1, <2>2
<1>9. \A j \in DOMAIN p : load(i) < load(j) \/ (load(i) = load(j) /\ i <= j)
  <2> SUFFICES ASSUME NEW j \in DOMAIN p
               PROVE  load(i) < load(j) \/ (load(i) = load(j) /\ i <= j)
    OBVIOUS
  <2> DEFINE a == load(i)
             b == load(j)
  <2>1. a \in Nat /\ b \in Nat /\ a <= b /\ (a = b => i <= j)
    BY <1>2, <1>7, <1>8
  <2> HIDE DEF a, b
  <2>2. a < b \/ (a = b /\ i <= j)
    BY <2>1
  <2> QED
    BY <2>2 DEF a, b
<1> HIDE DEF i
<1>10. \E k \in DOMAIN q.pending : \A j \in DOMAIN q.pending :
         LET a == q.served[q.pending[k].group]
             b == q.served[q.pending[j].group]
         IN  a < b \/ (a = b /\ k <= j)
  BY <1>7, <1>9
<1> QED
  BY <1>10 DEF LeastServed

LEMMA HolderIsAWorker ==
  ASSUME NEW q, QueueOK(q), NEW w \in Slots, NEW s \in Sessions
  PROVE  /\ q.worker[w].session = s => q.worker[w].at \in Steps /\ q.worker[w] # Idle
         /\ Held(q, w, s) => Waits(q, s) \/ Runs(q, s)
<1>1. q.worker[w] \in Workers
  BY DEF QueueOK, Queues
<1>2. q.worker[w].session = s => q.worker[w].at \in Steps /\ q.worker[w] # Idle
  BY <1>1, SessionsAssumption DEF Workers, Idle
<1> QED
  BY <1>2 DEF Held, Waits, Runs, Busy

LEMMA LaunchKeeps ==
  ASSUME NEW q, QueueOK(q), NEW slot \in Slots
  PROVE  QueueOK(Launch(q, slot)) /\ SameClaims(Launch(q, slot), q)
<1>1. CASE q.worker[slot] # Idle \/ q.pending = <<>> \/ ~ accepting
  BY <1>1 DEF Launch, SameClaims
<1>2. CASE ~ (q.worker[slot] # Idle \/ q.pending = <<>> \/ ~ accepting)
  <2> DEFINE i == LeastServed(q)
             g == q.pending[i].group
             s == Head(q.pending[i].jobs)
             taken == [session |-> s, at |-> "launched", outcome |-> None]
             r == Launch(q, slot)
             d == Drop(q.pending, i, 1)
  <2>1. r = [q EXCEPT !.pending = Drop(@, i, 1), !.served[g] = @ + 1, !.worker[slot] = taken]
    BY <1>2 DEF Launch
  <2>2. i \in DOMAIN q.pending
    BY <1>2, LeastServedIsIn
  <2> HIDE DEF i
  <2>3. /\ Lists(q.pending) /\ q \in Queues /\ q.pending[i] \in Entries
        /\ q.pending[i].jobs \in Seq(Sessions) /\ q.pending[i].jobs # <<>>
    BY <2>2, ListsType DEF QueueOK, Lists
  <2>4. 1 \in DOMAIN q.pending[i].jobs /\ s = q.pending[i].jobs[1] /\ s \in Sessions /\ g \in Groups
    BY <2>3 DEF Entries
  <2>5. Lists(d) /\ \A x : In(d, x) <=> In(q.pending, x) /\ x # s
    <3> HIDE DEF s
    <3> QED BY <2>2, <2>3, <2>4, Dropped
  <2>6. In(q.pending, s)
    BY <2>2, <2>4 DEF In
  <2> HIDE DEF s, g, d
  <2>7. taken \in Workers
    BY <2>4 DEF Workers, Steps
  <2>8. /\ r.pending = d /\ r.future = q.future
        /\ r.served = [q.served EXCEPT ![g] = @ + 1]
        /\ r.worker = [q.worker EXCEPT ![slot] = taken]
        /\ r = [pending |-> r.pending, served |-> r.served, future |-> r.future, worker |-> r.worker]
    BY <2>1, <2>3 DEF Queues, d
  <2> HIDE DEF r
  <2>9. d \in Seq(Entries)
    BY <2>5 DEF Lists
  <2>10. r.served \in [Groups -> Nat] /\ r.worker \in [Slots -> Workers] /\ r.future = q.future
    BY <2>3, <2>4, <2>7, <2>8 DEF Queues
  <2>11. r \in Queues
    BY <2>3, <2>8, <2>9, <2>10 DEF Queues
  <2>12. /\ \A w \in Slots \ {slot} : r.worker[w] = q.worker[w]
         /\ r.worker[slot] = taken /\ q.worker[slot] = Idle
    BY <1>2, <2>3, <2>8 DEF Queues
  <2>13. \A x \in Sessions : q.worker[slot].session # x
    BY <2>12, SessionsAssumption DEF Idle
  <2>14. taken.session = s /\ taken.at = "launched"
    OBVIOUS
  <2> HIDE DEF taken
  <2>15. \A w \in Slots, x \in Sessions : Held(r, w, x) <=> Held(q, w, x) \/ (w = slot /\ x = s)
    BY <2>12, <2>13, <2>14 DEF Held
  <2>16. \A w \in Slots : ~ Held(q, w, s)
    BY <2>4, <2>6 DEF QueueOK
  <2>17. \A w \in Slots, x \in Sessions : Held(r, w, x) => ~ In(r.pending, x)
    BY <2>5, <2>8, <2>15 DEF QueueOK
  <2>18. \A w, v \in Slots, x \in Sessions : Held(r, w, x) /\ Held(r, v, x) => w = v
    BY <2>15, <2>16 DEF QueueOK
  <2>19. QueueOK(r)
    BY <2>5, <2>8, <2>11, <2>17, <2>18 DEF QueueOK
  <2>20. ASSUME NEW x \in Sessions
         PROVE  (Waits(r, x) <=> Waits(q, x)) /\ (Runs(r, x) <=> Runs(q, x))
    <3>1. \A w \in Slots : r.worker[w].session = x /\ r.worker[w].at = "launched" <=>
            (q.worker[w].session = x /\ q.worker[w].at = "launched") \/ (w = slot /\ x = s)
      BY <2>12, <2>13, <2>14
    <3>2. Waits(r, x) <=> Waits(q, x)
      BY <2>5, <2>6, <2>8, <3>1 DEF Waits
    <3>3. \A w \in Slots : r.worker[w].session = x /\ r.worker[w].at \in Busy <=>
            q.worker[w].session = x /\ q.worker[w].at \in Busy
      BY <2>12, <2>13, <2>14 DEF Busy
    <3> QED
      BY <3>2, <3>3 DEF Runs
  <2> QED
    BY <2>19, <2>20 DEF SameClaims, r
<1> QED
  BY <1>1, <1>2

LEMMA SlotOrderIsOfSlots ==
  \E n \in Nat : DOMAIN SlotOrder = 1..n /\ \A i \in 1..n : SlotOrder[i] \in Slots
<1> DEFINE n == Cardinality(Slots)
<1>1. n \in Nat /\ ExistsBijection(1..n, Slots)
  BY SlotsAssumption, FS_CardinalityType
<1>2. PICK f \in Bijection(1..n, Slots) : TRUE
  BY <1>1 DEF ExistsBijection
<1>3. f \in [1..n -> Slots] /\ IsInjective(f)
  BY <1>2 DEF Bijection, Injection, IsInjective
<1>4. SlotOrder \in [1..n -> Slots]
  <2>1. \E h \in [1..n -> Slots] : IsInjective(h)
    BY <1>3
  <2>2. SlotOrder = CHOOSE h \in [1..n -> Slots] : IsInjective(h)
    BY DEF SlotOrder, SetToSeq
  <2> QED
    BY <2>1, <2>2, Zenon
<1> HIDE DEF n
<1> QED
  BY <1>1, <1>4

LEMMA LaunchedKeeps ==
  ASSUME NEW q, QueueOK(q)
  PROVE  QueueOK(Launched(q)) /\ SameClaims(Launched(q), q)
<1>1. PICK n \in Nat : DOMAIN SlotOrder = 1..n /\ \A i \in 1..n : SlotOrder[i] \in Slots
  BY SlotOrderIsOfSlots
<1> DEFINE good == {x \in Queues : QueueOK(x) /\ SameClaims(x, q)}
           stage == [i \in 0..n |-> good]
<1>2. \A i \in 0..n : stage[i] = good
  OBVIOUS
<1>3. q \in good
  BY DEF QueueOK, SameClaims
<1>4. \A x \in good : \A w \in Slots : Launch(x, w) \in good
  <2> SUFFICES ASSUME NEW x \in good, NEW w \in Slots PROVE Launch(x, w) \in good
    OBVIOUS
  <2>1. QueueOK(x) /\ SameClaims(x, q)
    OBVIOUS
  <2>2. QueueOK(Launch(x, w)) /\ SameClaims(Launch(x, w), x)
    <3> HIDE DEF good
    <3> QED BY <2>1, LaunchKeeps
  <2>3. SameClaims(Launch(x, w), q)
    BY <2>1, <2>2 DEF SameClaims
  <2>4. Launch(x, w) \in Queues
    BY <2>2 DEF QueueOK
  <2> QED
    BY <2>2, <2>3, <2>4
<1> HIDE DEF good, stage
<1>5. /\ q \in stage[0]
      /\ \A i \in 1..n : \A x \in stage[i - 1] : Launch(x, SlotOrder[i]) \in stage[i]
  <2>1. 0 \in 0..n /\ \A i \in 1..n : i - 1 \in 0..n /\ i \in 0..n
    OBVIOUS
  <2> QED
    BY <1>1, <1>2, <1>3, <1>4, <2>1
<1>6. FoldLeft(Launch, q, SlotOrder) \in stage[n]
  BY <1>1, <1>5, LaunchesReach
<1>7. n \in 0..n
  OBVIOUS
<1> QED
  BY <1>2, <1>6, <1>7 DEF good, Launched

LEMMA ScheduleKeeps ==
  ASSUME NEW q, QueueOK(q), NEW s \in Sessions, ~ Waits(q, s), ~ Runs(q, s)
  PROVE  /\ QueueOK(Schedule(q, s))
         /\ \A x \in Sessions : /\ Waits(Schedule(q, s), x) <=> Waits(q, x) \/ x = s
                                /\ Runs(Schedule(q, s), x) <=> Runs(q, x)
<1> DEFINE p == Add(q.pending, s)
           r == [q EXCEPT !.pending = p, !.future[s] = "open"]
<1>1. Lists(q.pending) /\ ~ In(q.pending, s) /\ q \in Queues
  BY DEF QueueOK, Waits
<1>2. Lists(p) /\ \A x : In(p, x) <=> In(q.pending, x) \/ x = s
  BY <1>1, Added
<1>3. /\ r.pending = p /\ r.served = q.served /\ r.worker = q.worker
      /\ r.future = [q.future EXCEPT ![s] = "open"]
      /\ r = [pending |-> r.pending, served |-> r.served, future |-> r.future, worker |-> r.worker]
  <2>1. q = [pending |-> q.pending, served |-> q.served, future |-> q.future, worker |-> q.worker]
    BY <1>1 DEF Queues
  <2> HIDE DEF p
  <2>2. r.pending = p
    BY <2>1
  <2>3. r.served = q.served /\ r.worker = q.worker
    BY <2>1
  <2>4. r.future = [q.future EXCEPT ![s] = "open"]
    BY <2>1
  <2>5. r = [pending |-> r.pending, served |-> r.served, future |-> r.future, worker |-> r.worker]
    <3> DEFINE f == [q.future EXCEPT ![s] = "open"]
    <3>1. r = [q EXCEPT !.pending = p, !.future = f]
      OBVIOUS
    <3> HIDE DEF f, r
    <3> QED
      BY <1>1, <3>1 DEF Queues
  <2> QED
    BY <2>2, <2>3, <2>4, <2>5
<1> HIDE DEF r, p
<1>4. r.future \in [Sessions -> {"none", "open", "done"}] /\ p \in Seq(Entries)
  BY <1>1, <1>2, <1>3 DEF Queues, Lists
<1>5. r \in Queues
  BY <1>1, <1>3, <1>4 DEF Queues
<1>6. \A w \in Slots : ~ Held(q, w, s)
  BY HolderIsAWorker
<1>7. \A w \in Slots, x \in Sessions : Held(r, w, x) <=> Held(q, w, x)
  BY <1>3 DEF Held
<1>8. QueueOK(r)
  BY <1>2, <1>3, <1>5, <1>6, <1>7 DEF QueueOK
<1>9. \A x \in Sessions : (Waits(r, x) <=> Waits(q, x) \/ x = s) /\ (Runs(r, x) <=> Runs(q, x))
  BY <1>2, <1>3 DEF Waits, Runs
<1>10. QueueOK(Launched(r)) /\ SameClaims(Launched(r), r)
  BY <1>8, LaunchedKeeps
<1>11. Schedule(q, s) = Launched(r)
  BY DEF Schedule, r, p
<1> QED
  BY <1>9, <1>10, <1>11 DEF SameClaims

\* A sequence of sessions that nobody holds is queued, each once.
LEMMA SchedulesKeep ==
  ASSUME NEW q, QueueOK(q), NEW seq \in Seq(Sessions), IsInjective(seq),
         \A s \in Range(seq) : ~ Waits(q, s) /\ ~ Runs(q, s)
  PROVE  /\ QueueOK(FoldLeft(Schedule, q, seq))
         /\ \A x \in Sessions :
              /\ Waits(FoldLeft(Schedule, q, seq), x) <=> Waits(q, x) \/ x \in Range(seq)
              /\ Runs(FoldLeft(Schedule, q, seq), x) <=> Runs(q, x)
<1> DEFINE n == Len(seq)
           Joined(i) == {seq[k] : k \in 1..i}
           good(i) == {r \in Queues :
             /\ QueueOK(r)
             /\ \A x \in Sessions : /\ Waits(r, x) <=> Waits(q, x) \/ x \in Joined(i)
                                    /\ Runs(r, x) <=> Runs(q, x)}
           stage == [i \in 0..n |-> good(i)]
<1>1. /\ n \in Nat /\ DOMAIN seq = 1..n /\ \A i \in 1..n : seq[i] \in Sessions
      /\ \A i, j \in 1..n : seq[i] = seq[j] => i = j
  BY DEF IsInjective
<1> HIDE DEF n
<1>2. \A i \in 0..n : stage[i] = good(i)
  OBVIOUS
<1>3. q \in good(0)
  <2>1. Joined(0) = {}
    OBVIOUS
  <2> HIDE DEF Joined
  <2> QED BY <2>1 DEF QueueOK
<1>4. \A i \in 1..n : \A r \in good(i - 1) : Schedule(r, seq[i]) \in good(i)
  <2> SUFFICES ASSUME NEW i \in 1..n, NEW r \in good(i - 1) PROVE Schedule(r, seq[i]) \in good(i)
    OBVIOUS
  <2> DEFINE s == seq[i]
             t == Schedule(r, s)
  <2>1. s \in Sessions /\ s \in Range(seq)
    BY <1>1 DEF Range
  <2>2. s \notin Joined(i - 1)
    BY <1>1
  <2>3. Joined(i) = Joined(i - 1) \cup {s}
    BY <1>1
  <2>4. /\ QueueOK(r)
        /\ \A x \in Sessions : /\ Waits(r, x) <=> Waits(q, x) \/ x \in Joined(i - 1)
                               /\ Runs(r, x) <=> Runs(q, x)
    OBVIOUS
  <2> HIDE DEF Joined
  <2>5. ~ Waits(r, s) /\ ~ Runs(r, s)
    BY <2>1, <2>2, <2>4
  <2>6. /\ QueueOK(t)
        /\ \A x \in Sessions : /\ Waits(t, x) <=> Waits(r, x) \/ x = s
                               /\ Runs(t, x) <=> Runs(r, x)
    <3> HIDE DEF s, good
    <3> QED BY <2>1, <2>4, <2>5, ScheduleKeeps
  <2> HIDE DEF t, s
  <2>7. t \in Queues
    BY <2>6 DEF QueueOK
  <2>8. \A x \in Sessions : /\ Waits(t, x) <=> Waits(q, x) \/ x \in Joined(i)
                            /\ Runs(t, x) <=> Runs(q, x)
    BY <2>3, <2>4, <2>6
  <2>9. t \in good(i)
    BY <2>6, <2>7, <2>8
  <2> QED
    BY <2>9 DEF t, s
<1>5. /\ q \in stage[0]
      /\ \A i \in 1..n : \A x \in stage[i - 1] : Schedule(x, seq[i]) \in stage[i]
  <2> HIDE DEF good, stage
  <2>1. 0 \in 0..n /\ \A i \in 1..n : i - 1 \in 0..n /\ i \in 0..n
    BY <1>1
  <2> QED
    BY <1>2, <1>3, <1>4, <2>1
<1>6. FoldLeft(Schedule, q, seq) \in stage[n]
  <2> HIDE DEF stage
  <2> QED BY <1>1, <1>5, SchedulesReach
<1>7. n \in 0..n /\ Joined(n) = Range(seq)
  BY <1>1 DEF Range
<1> HIDE DEF Joined
<1> QED
  BY <1>2, <1>6, <1>7

------------------------------------------------------------------------------
(* The claims on a session: it is in the queue, with a worker, or with the *)
(* caller that is about to deliver it, and with one of them only.          *)

Calls == {Free} \cup [op : {"schedule"}, sessions : Seq(Sessions)]
         \cup [op : {"stop"}, session : Sessions, found : BOOLEAN]
         \cup [op : {"refresh"}, session : Sessions]

Delivers(c, s) == call[c].op = "schedule" /\ s \in Range(call[c].sessions)
InQueue(s) == Waits(Queue, s)
Running(s) == Runs(Queue, s)
Waiting(s) == InQueue(s) \/ \E c \in Callers : Delivers(c, s)

CallsTyped == call \in [Callers -> Calls]
QueueTyped == QueueOK(Queue)
DeliveriesOK ==
  /\ \A c \in Callers : call[c].op = "schedule" => IsInjective(call[c].sessions)
  /\ \A c \in Callers, s \in Sessions : Delivers(c, s) => ~ InQueue(s) /\ ~ Running(s)
  /\ \A c, d \in Callers, s \in Sessions : Delivers(c, s) /\ Delivers(d, s) => c = d
ClaimsOK == CallsTyped /\ QueueTyped /\ DeliveriesOK

LEMMA CallTypes ==
  ASSUME CallsTyped, NEW c \in Callers
  PROVE  /\ call[c].op = "schedule" => call[c].sessions \in Seq(Sessions)
         /\ call[c].op \in {"stop", "refresh"} => call[c].session \in Sessions
         /\ call[c].op = "stop" => call[c] \in [op : {"stop"}, session : Sessions, found : BOOLEAN]
<1>1. call[c] \in Calls
  BY DEF CallsTyped
<1> QED
  BY <1>1 DEF Calls, Free

LEMMA QueueIsKept ==
  ASSUME QueueTyped, UNCHANGED queue
  PROVE  /\ QueueTyped'
         /\ \A s \in Sessions : (InQueue(s)' <=> InQueue(s)) /\ (Running(s)' <=> Running(s))
<1>1. Queue' = Queue
  BY DEF queue, Queue
<1> QED
  BY <1>1 DEF QueueTyped, InQueue, Running

\* A caller takes on sessions nobody holds.
LEMMA AnnouncedClaims ==
  ASSUME ClaimsOK, UNCHANGED queue, NEW c \in Callers, call[c] = Free,
         NEW seq \in Seq(Sessions), IsInjective(seq),
         \A s \in Range(seq) : ~ Waiting(s) /\ ~ Running(s),
         call' = [call EXCEPT ![c] = [op |-> "schedule", sessions |-> seq]]
  PROVE  /\ ClaimsOK'
         /\ \A s \in Sessions : /\ Waiting(s)' <=> Waiting(s) \/ s \in Range(seq)
                                /\ Running(s)' <=> Running(s)
<1>1. /\ QueueTyped'
      /\ \A s \in Sessions : (InQueue(s)' <=> InQueue(s)) /\ (Running(s)' <=> Running(s))
  BY QueueIsKept DEF ClaimsOK
<1>2. call'[c] = [op |-> "schedule", sessions |-> seq] /\ \A d \in Callers \ {c} : call'[d] = call[d]
  BY DEF ClaimsOK, CallsTyped
<1>3. CallsTyped'
  BY DEF ClaimsOK, CallsTyped, Calls
<1>4. call[c].op # "schedule" /\ call'[c].op = "schedule" /\ call'[c].sessions = seq
  BY <1>2 DEF Free
<1>5. \A d \in Callers, s \in Sessions :
        Delivers(d, s)' <=> Delivers(d, s) \/ (d = c /\ s \in Range(seq))
  BY <1>2, <1>4 DEF Delivers
<1>6. \A s \in Sessions : s \in Range(seq) => ~ InQueue(s) /\ ~ Running(s) /\ \A d \in Callers : ~ Delivers(d, s)
  BY DEF Waiting
<1>7. \A d \in Callers : call'[d].op = "schedule" => IsInjective(call'[d].sessions)
  BY <1>2, <1>4 DEF ClaimsOK, DeliveriesOK
<1>8. \A d \in Callers, s \in Sessions : Delivers(d, s)' => ~ InQueue(s)' /\ ~ Running(s)'
  BY <1>1, <1>5, <1>6 DEF ClaimsOK, DeliveriesOK
<1>9. \A d, e \in Callers, s \in Sessions : Delivers(d, s)' /\ Delivers(e, s)' => d = e
  BY <1>5, <1>6 DEF ClaimsOK, DeliveriesOK
<1>10. DeliveriesOK'
  BY <1>7, <1>8, <1>9 DEF DeliveriesOK
<1>11. \A s \in Sessions : (\E d \in Callers : Delivers(d, s)') <=>
         (\E d \in Callers : Delivers(d, s)) \/ s \in Range(seq)
  BY <1>5
<1> QED
  BY <1>1, <1>3, <1>10, <1>11 DEF ClaimsOK, Waiting

\* Whatever else a caller is in the middle of claims nothing.
LEMMA OtherCallsClaimNothing ==
  ASSUME ClaimsOK, UNCHANGED queue, CallsTyped',
         \A d \in Callers : call'[d] = call[d] \/ (call[d].op # "schedule" /\ call'[d].op # "schedule")
  PROVE  /\ ClaimsOK'
         /\ \A s \in Sessions : (Waiting(s)' <=> Waiting(s)) /\ (Running(s)' <=> Running(s))
<1>1. /\ QueueTyped'
      /\ \A s \in Sessions : (InQueue(s)' <=> InQueue(s)) /\ (Running(s)' <=> Running(s))
  BY QueueIsKept DEF ClaimsOK
<1>2. \A d \in Callers, s \in Sessions : Delivers(d, s)' <=> Delivers(d, s)
  BY DEF Delivers
<1>3. \A d \in Callers : call'[d].op = "schedule" => IsInjective(call'[d].sessions)
  BY DEF ClaimsOK, DeliveriesOK
<1>4. DeliveriesOK'
  BY <1>1, <1>2, <1>3 DEF ClaimsOK, DeliveriesOK
<1> QED
  BY <1>1, <1>2, <1>4 DEF ClaimsOK, Waiting

\* What a step does to a worker that executes a session.
Becomes(w, v) ==
  /\ worker[w] # Idle /\ worker[w].at # "finish"
  /\ v \in Workers /\ v.session = worker[w].session /\ v.at \in Steps \ {"launched"}
  /\ worker' = [worker EXCEPT ![w] = v]
  /\ UNCHANGED <<pending, served, future, call>>

LEMMA WorkerClaims ==
  ASSUME ClaimsOK, NEW w \in Slots, NEW v, Becomes(w, v), NEW m, m = worker[w].session
  PROVE  /\ ClaimsOK' /\ m \in Sessions
         /\ \A s \in Sessions \ {m} :
              (Waiting(s)' <=> Waiting(s)) /\ (Running(s)' <=> Running(s))
         /\ Waiting(m) <=> worker[w].at = "launched"
         /\ Running(m) <=> worker[w].at # "launched"
         /\ ~ Waiting(m)'
         /\ Running(m)' <=> v.at # "finish"
<1>1. /\ Queue \in Queues /\ Lists(pending) /\ worker \in [Slots -> Workers]
      /\ \A u \in Slots, s \in Sessions : Held(Queue, u, s) => ~ In(pending, s)
      /\ \A u, x \in Slots, s \in Sessions : Held(Queue, u, s) /\ Held(Queue, x, s) => u = x
  BY DEF ClaimsOK, QueueTyped, QueueOK, Queues, Queue
<1>2. m \in Sessions /\ worker[w].at \in Steps
  BY <1>1 DEF Becomes, Workers, Idle
<1>3. /\ worker' \in [Slots -> Workers] /\ worker'[w] = v /\ \A u \in Slots \ {w} : worker'[u] = worker[u]
      /\ pending' = pending /\ served' = served /\ future' = future /\ call' = call
  BY <1>1 DEF Becomes
<1>4. v.session = m /\ v.at \in Steps /\ v.at # "launched"
  BY DEF Becomes
<1>5. Queue' \in Queues
  BY <1>1, <1>3 DEF Queue, Queues
<1>6. Held(Queue, w, m)
  BY DEF Held, Queue, Becomes
<1>7. \A u \in Slots, s \in Sessions : Held(Queue, u, s) <=> worker[u].session = s /\ worker[u].at # "finish"
  BY DEF Held, Queue
<1>8. \A u \in Slots, s \in Sessions : Held(Queue', u, s) <=> worker'[u].session = s /\ worker'[u].at # "finish"
  BY DEF Held, Queue
<1>9. \A u \in Slots, s \in Sessions : Held(Queue', u, s) => Held(Queue, u, s)
  BY <1>3, <1>4, <1>6, <1>7, <1>8
<1>10. QueueOK(Queue')
  <2>1. Queue'.pending = pending'
    BY DEF Queue
  <2> QED
    BY <1>1, <1>3, <1>5, <1>9, <2>1 DEF QueueOK
<1>11. \A u \in Slots \ {w} : ~ (worker[u].session = m /\ worker[u].at # "finish")
  BY <1>1, <1>2, <1>6, <1>7
<1>12. \A s \in Sessions : /\ InQueue(s) <=> In(pending, s) \/ \E u \in Slots : worker[u].session = s /\ worker[u].at = "launched"
                           /\ Running(s) <=> \E u \in Slots : worker[u].session = s /\ worker[u].at \in Busy
  BY DEF InQueue, Running, Waits, Runs, Queue
<1>13. \A s \in Sessions : /\ InQueue(s)' <=> In(pending', s) \/ \E u \in Slots : worker'[u].session = s /\ worker'[u].at = "launched"
                           /\ Running(s)' <=> \E u \in Slots : worker'[u].session = s /\ worker'[u].at \in Busy
  BY DEF InQueue, Running, Waits, Runs, Queue
<1>14. \A s \in Sessions \ {m} : (InQueue(s)' <=> InQueue(s)) /\ (Running(s)' <=> Running(s))
  BY <1>3, <1>4, <1>12, <1>13
<1>15. /\ ~ In(pending, m)
       /\ InQueue(m) <=> worker[w].at = "launched"
       /\ Running(m) <=> worker[w].at # "launched"
  BY <1>1, <1>2, <1>6, <1>11, <1>12 DEF Busy, Becomes
<1>16. ~ InQueue(m)' /\ (Running(m)' <=> v.at # "finish")
  <2>1. \A u \in Slots : worker'[u].session = m /\ worker'[u].at # "finish" => u = w
    BY <1>3, <1>11
  <2>2. worker'[w].session = m /\ worker'[w].at = v.at /\ v.at # "launched"
    BY <1>3, <1>4
  <2>3. ~ InQueue(m)'
    BY <1>2, <1>3, <1>13, <1>15, <2>1, <2>2
  <2>4. v.at # "finish" <=> v.at \in Busy
    BY <1>4 DEF Busy
  <2>5. \A u \in Slots : worker'[u].session = m /\ worker'[u].at \in Busy => u = w
    BY <2>1 DEF Busy
  <2>6. Running(m)' <=> v.at # "finish"
    BY <1>2, <1>13, <2>2, <2>4, <2>5
  <2> QED
    BY <2>3, <2>6
<1>17. \A d \in Callers, s \in Sessions : Delivers(d, s)' <=> Delivers(d, s)
  BY <1>3 DEF Delivers
<1>18. \A d \in Callers : ~ Delivers(d, m)
  BY <1>2, <1>15 DEF ClaimsOK, DeliveriesOK
<1>19. \A d \in Callers, s \in Sessions : Delivers(d, s)' => ~ InQueue(s)' /\ ~ Running(s)'
  BY <1>14, <1>17, <1>18 DEF ClaimsOK, DeliveriesOK
<1>20. DeliveriesOK'
  BY <1>3, <1>17, <1>19 DEF ClaimsOK, DeliveriesOK
<1>21. ClaimsOK'
  BY <1>3, <1>10, <1>20 DEF ClaimsOK, CallsTyped, QueueTyped
<1> QED
  BY <1>2, <1>14, <1>15, <1>16, <1>17, <1>18, <1>21 DEF Waiting

------------------------------------------------------------------------------
LEMMA QueuedIs ==
  ASSUME NEW q \in Queues, Queued(q)
  PROVE  Queue' = q
BY DEF Queued, Queue, Queues

\* The delivery moves the claim from the caller to the queue.
LEMMA DeliveredClaims ==
  ASSUME ClaimsOK, NEW c \in Callers, Deliver(c)
  PROVE  /\ ClaimsOK'
         /\ \A s \in Sessions : (Waiting(s)' <=> Waiting(s)) /\ (Running(s)' <=> Running(s))
<1> DEFINE seq == call[c].sessions
           q == FoldLeft(Schedule, Queue, seq)
<1>1. call[c].op = "schedule" /\ Queued(q) /\ call' = [call EXCEPT ![c] = Free]
  BY DEF Deliver
<1>2. seq \in Seq(Sessions) /\ IsInjective(seq)
  BY <1>1, CallTypes DEF ClaimsOK, DeliveriesOK
<1>3. \A s \in Range(seq) : s \in Sessions /\ Delivers(c, s)
  BY <1>1, <1>2 DEF Delivers, Range
<1>4. \A s \in Range(seq) : ~ Waits(Queue, s) /\ ~ Runs(Queue, s)
  BY <1>3 DEF ClaimsOK, DeliveriesOK, InQueue, Running
<1> HIDE DEF seq
<1>5. /\ QueueOK(q)
      /\ \A x \in Sessions : /\ Waits(q, x) <=> Waits(Queue, x) \/ x \in Range(seq)
                             /\ Runs(q, x) <=> Runs(Queue, x)
  BY <1>2, <1>4, SchedulesKeep DEF ClaimsOK, QueueTyped
<1> HIDE DEF q
<1>6. Queue' = q
  BY <1>1, <1>5, QueuedIs DEF QueueOK
<1>7. /\ QueueTyped'
      /\ \A x \in Sessions : /\ InQueue(x)' <=> InQueue(x) \/ x \in Range(seq)
                             /\ Running(x)' <=> Running(x)
  BY <1>5, <1>6 DEF QueueTyped, InQueue, Running
<1>8. call'[c] = Free /\ (\A d \in Callers \ {c} : call'[d] = call[d]) /\ CallsTyped'
  BY <1>1 DEF ClaimsOK, CallsTyped, Calls
<1>9. \A d \in Callers, s \in Sessions : Delivers(d, s)' <=> Delivers(d, s) /\ d # c
  BY <1>8 DEF Delivers, Free
<1>10. \A s \in Sessions : s \in Range(seq) <=> Delivers(c, s)
  BY <1>1 DEF Delivers, seq
<1>11. \A d \in Callers : call'[d].op = "schedule" => IsInjective(call'[d].sessions)
  BY <1>8 DEF ClaimsOK, DeliveriesOK, Free
<1>12. \A d \in Callers, s \in Sessions : Delivers(d, s)' => ~ InQueue(s)' /\ ~ Running(s)'
  BY <1>7, <1>9, <1>10 DEF ClaimsOK, DeliveriesOK
<1>13. DeliveriesOK'
  BY <1>9, <1>11, <1>12 DEF ClaimsOK, DeliveriesOK
<1> QED
  BY <1>7, <1>8, <1>9, <1>10, <1>13 DEF ClaimsOK, Waiting

\* A stopped pending job has left the queue.
LEMMA StoppedClaims ==
  ASSUME ClaimsOK, NEW c \in Callers, NEW s \in Sessions, StopPending(c, s)
  PROVE  /\ ClaimsOK' /\ ~ Waiting(s)' /\ ~ Running(s)'
         /\ \A x \in Sessions \ {s} : (Waiting(x)' <=> Waiting(x)) /\ (Running(x)' <=> Running(x))
<1>1. /\ Queue \in Queues /\ Lists(pending)
      /\ \A w \in Slots, x \in Sessions : Held(Queue, w, x) => ~ In(pending, x)
      /\ \A w, v \in Slots, x \in Sessions : Held(Queue, w, x) /\ Held(Queue, v, x) => w = v
  BY DEF ClaimsOK, QueueTyped, QueueOK, Queue
<1>2. /\ \E i \in DOMAIN pending : \E k \in DOMAIN pending[i].jobs :
           pending[i].jobs[k] = s /\ pending' = Drop(pending, i, k)
      /\ future' = [future EXCEPT ![s] = "done"] /\ served' = served /\ worker' = worker /\ call' = call
  BY DEF StopPending
<1>3. PICK i \in DOMAIN pending : \E k \in DOMAIN pending[i].jobs :
        pending[i].jobs[k] = s /\ pending' = Drop(pending, i, k)
  BY <1>2
<1>4. PICK k \in DOMAIN pending[i].jobs : pending[i].jobs[k] = s /\ pending' = Drop(pending, i, k)
  BY <1>3
<1>5. Lists(pending') /\ \A x : In(pending', x) <=> In(pending, x) /\ x # s
  BY <1>1, <1>4, Dropped
<1>6. In(pending, s)
  BY <1>4 DEF In
<1>7. future' \in [Sessions -> {"none", "open", "done"}] /\ pending' \in Seq(Entries)
  BY <1>1, <1>2, <1>5 DEF Queue, Queues, Lists
<1>8. Queue' \in Queues
  BY <1>1, <1>2, <1>7 DEF Queue, Queues
<1>9. \A w \in Slots, x \in Sessions : Held(Queue', w, x) <=> Held(Queue, w, x)
  BY <1>2 DEF Held, Queue
<1>10. QueueOK(Queue')
  <2>1. Queue'.pending = pending'
    BY DEF Queue
  <2> QED
    BY <1>1, <1>5, <1>8, <1>9, <2>1 DEF QueueOK
<1>11. \A x \in Sessions : /\ InQueue(x) <=> In(pending, x) \/ \E u \in Slots : worker[u].session = x /\ worker[u].at = "launched"
                           /\ Running(x) <=> \E u \in Slots : worker[u].session = x /\ worker[u].at \in Busy
  BY DEF InQueue, Running, Waits, Runs, Queue
<1>12. \A x \in Sessions : /\ InQueue(x)' <=> In(pending', x) \/ \E u \in Slots : worker'[u].session = x /\ worker'[u].at = "launched"
                           /\ Running(x)' <=> \E u \in Slots : worker'[u].session = x /\ worker'[u].at \in Busy
  BY DEF InQueue, Running, Waits, Runs, Queue
<1>13. \A u \in Slots : worker[u].session = s => worker[u].at = "finish"
  BY <1>1, <1>6 DEF Held, Queue
<1>14. ~ InQueue(s)' /\ ~ Running(s)' /\ InQueue(s)
  BY <1>2, <1>5, <1>6, <1>11, <1>12, <1>13 DEF Busy
<1>15. \A x \in Sessions : x # s => (InQueue(x)' <=> InQueue(x)) /\ (Running(x)' <=> Running(x))
  BY <1>2, <1>5, <1>11, <1>12
<1>16. \A d \in Callers, x \in Sessions : Delivers(d, x)' <=> Delivers(d, x)
  BY <1>2 DEF Delivers
<1>17. \A d \in Callers : ~ Delivers(d, s)
  BY <1>14 DEF ClaimsOK, DeliveriesOK
<1>18. DeliveriesOK'
  BY <1>2, <1>14, <1>15, <1>16 DEF ClaimsOK, DeliveriesOK
<1>19. ClaimsOK'
  BY <1>2, <1>10, <1>18 DEF ClaimsOK, CallsTyped, QueueTyped
<1> QED
  BY <1>14, <1>15, <1>16, <1>17, <1>19 DEF Waiting

\* A worker that completed its future held nothing any more.
LEMMA FinishedClaims ==
  ASSUME ClaimsOK, NEW w \in Slots, Finish(w)
  PROVE  /\ ClaimsOK'
         /\ \A s \in Sessions : (Waiting(s)' <=> Waiting(s)) /\ (Running(s)' <=> Running(s))
<1> DEFINE m == worker[w].session
           r == [Queue EXCEPT !.future[m] = "done", !.worker[w] = Idle]
           q == Launched(r)
<1>1. worker[w].at = "finish" /\ Queued(q) /\ call' = call
  BY DEF Finish, At
<1>2. /\ Queue \in Queues /\ Lists(pending)
      /\ worker \in [Slots -> Workers] /\ future \in [Sessions -> {"none", "open", "done"}]
      /\ \A u \in Slots, x \in Sessions : Held(Queue, u, x) => ~ In(pending, x)
      /\ \A u, v \in Slots, x \in Sessions : Held(Queue, u, x) /\ Held(Queue, v, x) => u = v
  BY DEF ClaimsOK, QueueTyped, QueueOK, Queue, Queues
<1>3. m \in Sessions
  BY <1>1, <1>2 DEF Workers, Idle
<1> DEFINE f == [future EXCEPT ![m] = "done"]
           k == [worker EXCEPT ![w] = Idle]
<1>4. r = [pending |-> pending, served |-> served, future |-> f, worker |-> k]
  <2>1. Queue.future = future /\ Queue.worker = worker
    BY DEF Queue
  <2>2. r = [Queue EXCEPT !.future = f, !.worker = k]
    BY <2>1
  <2> HIDE DEF r, f, k
  <2> QED
    BY <2>2 DEF Queue
<1>5. f \in [Sessions -> {"none", "open", "done"}] /\ k \in [Slots -> Workers]
  BY <1>2 DEF Workers
<1>6. k[w] = Idle /\ \A u \in Slots \ {w} : k[u] = worker[u]
  BY <1>2
<1> HIDE DEF r, f, k
<1>7. r \in Queues
  BY <1>2, <1>4, <1>5 DEF Queue, Queues
<1>8. \A x \in Sessions : k[w].session # x
  BY <1>6, SessionsAssumption DEF Idle
<1>9. r.pending = pending /\ r.worker = k /\ Queue.worker = worker /\ Queue.pending = pending
  BY <1>4 DEF Queue
<1>10. \A u \in Slots, x \in Sessions : Held(r, u, x) <=> Held(Queue, u, x)
  BY <1>1, <1>6, <1>8, <1>9 DEF Held
<1>11. QueueOK(r)
  BY <1>2, <1>7, <1>9, <1>10 DEF QueueOK
<1>12. SameClaims(r, Queue)
  <2>1. \A u \in Slots, x \in Sessions, at \in Steps \ {"finish"} :
          k[u].session = x /\ k[u].at = at <=> worker[u].session = x /\ worker[u].at = at
    BY <1>1, <1>6, <1>8
  <2>2. "launched" \in Steps \ {"finish"} /\ \A at \in Busy : at \in Steps \ {"finish"}
    BY DEF Steps, Busy
  <2> QED
    BY <1>9, <2>1, <2>2 DEF SameClaims, Waits, Runs
<1>13. QueueOK(q) /\ SameClaims(q, r)
  BY <1>11, LaunchedKeeps
<1> HIDE DEF q
<1>14. Queue' = q
  BY <1>1, <1>13, QueuedIs DEF QueueOK
<1>15. /\ QueueTyped'
       /\ \A s \in Sessions : (InQueue(s)' <=> InQueue(s)) /\ (Running(s)' <=> Running(s))
  BY <1>12, <1>13, <1>14 DEF QueueTyped, InQueue, Running, SameClaims
<1>16. \A d \in Callers, s \in Sessions : Delivers(d, s)' <=> Delivers(d, s)
  BY <1>1 DEF Delivers
<1>17. DeliveriesOK'
  BY <1>1, <1>15, <1>16 DEF ClaimsOK, DeliveriesOK
<1> QED
  BY <1>1, <1>15, <1>16, <1>17 DEF ClaimsOK, CallsTyped, Waiting

\* An empty queue holds nobody.
EmptyQueue == [pending |-> <<>>, served |-> [g \in Groups |-> 0],
               future |-> [s \in Sessions |-> "none"], worker |-> [w \in Slots |-> Idle]]

LEMMA EmptyQueueHoldsNobody ==
  QueueOK(EmptyQueue) /\ \A s \in Sessions : ~ Waits(EmptyQueue, s) /\ ~ Runs(EmptyQueue, s)
<1> DEFINE q == EmptyQueue
<1>1. q.pending = <<>> /\ q.worker = [w \in Slots |-> Idle]
  BY DEF EmptyQueue
<1>2. q \in Queues
  BY DEF EmptyQueue, Queues, Workers
<1>3. <<>> \in Seq(Entries) /\ DOMAIN <<>> = {}
  OBVIOUS
<1>4. Lists(<<>>) /\ \A s : ~ In(<<>>, s)
  BY <1>3 DEF Lists, In
<1>5. \A w \in Slots, s \in Sessions : q.worker[w].session # s
  BY <1>1, SessionsAssumption DEF Idle
<1> HIDE DEF q
<1>6. QueueOK(q)
  BY <1>1, <1>2, <1>4, <1>5 DEF QueueOK, Held
<1>7. \A s \in Sessions : ~ Waits(q, s) /\ ~ Runs(q, s)
  BY <1>1, <1>4, <1>5 DEF Waits, Runs
<1> QED
  BY <1>6, <1>7 DEF q

LEMMA NothingIsClaimedAtFirst ==
  ASSUME Init
  PROVE  ClaimsOK /\ \A s \in Sessions : ~ Waiting(s) /\ ~ Running(s)
<1>1. Queue = EmptyQueue /\ call = [c \in Callers |-> Free]
  BY DEF Init, Queue, EmptyQueue
<1>2. QueueTyped /\ \A s \in Sessions : ~ InQueue(s) /\ ~ Running(s)
  BY <1>1, EmptyQueueHoldsNobody DEF QueueTyped, InQueue, Running
<1>3. CallsTyped /\ \A c \in Callers : call[c].op # "schedule"
  BY <1>1 DEF CallsTyped, Calls, Free
<1> QED
  BY <1>2, <1>3 DEF ClaimsOK, DeliveriesOK, Waiting, Delivers

LEMMA LostClaims ==
  ASSUME Lose
  PROVE  ClaimsOK' /\ \A s \in Sessions : ~ Waiting(s)' /\ ~ Running(s)'
<1>1. Queue' = EmptyQueue /\ call' = [c \in Callers |-> Free]
  BY DEF Lose, Queue, EmptyQueue
<1>2. QueueTyped' /\ \A s \in Sessions : ~ InQueue(s)' /\ ~ Running(s)'
  BY <1>1, EmptyQueueHoldsNobody DEF QueueTyped, InQueue, Running
<1>3. CallsTyped' /\ \A c \in Callers : call'[c].op # "schedule"
  BY <1>1 DEF CallsTyped, Calls, Free
<1> QED
  BY <1>2, <1>3 DEF ClaimsOK, DeliveriesOK, Waiting, Delivers

LEMMA OrdersOfASet ==
  ASSUME NEW S \in SUBSET Sessions, NEW seq \in SetToSeqs(S)
  PROVE  seq \in Seq(Sessions) /\ IsInjective(seq) /\ Range(seq) = S
<1> DEFINE n == Cardinality(S)
<1>1. IsFiniteSet(S) /\ n \in Nat
  BY SessionsAssumption, FS_Subset, FS_CardinalityType
<1>2. seq \in [1..n -> S] /\ \A i, j \in 1..n : i # j => seq[i] # seq[j]
  BY DEF SetToSeqs
<1>3. seq \in Injection(1..n, S)
  BY <1>2 DEF Injection, IsInjective
<1>4. IsFiniteSet(1..n) /\ Cardinality(1..n) = n
  <2> HIDE DEF n
  <2>1. IsFiniteSet(1..n) /\ Cardinality(1..n) = IF 1 > n THEN 0 ELSE n - 1 + 1
    BY <1>1, FS_Interval
  <2> QED
    BY <1>1, <2>1
<1>5. seq \in Surjection(1..n, S)
  <2> DEFINE D == 1..n
  <2>1. seq \in Injection(D, S) /\ Cardinality(D) = Cardinality(S)
    BY <1>3, <1>4
  <2> HIDE DEF D
  <2> QED
    BY <1>1, <2>1, FS_Injection DEF D
<1> HIDE DEF n
<1>6. seq \in Seq(Sessions)
  BY <1>1, <1>2
<1> QED
  BY <1>2, <1>5, <1>6 DEF Range, IsInjective, Surjection

\* What a restart finds queued is claimed by the queue again.
LEMMA RestartedClaims ==
  ASSUME ClaimsOK, \A s \in Sessions : ~ Waiting(s) /\ ~ Running(s), NEW found, Restart(found)
  PROVE  /\ ClaimsOK'
         /\ \A s \in Sessions : (Waiting(s)' <=> run'[s] = "queued") /\ ~ Running(s)'
<1> DEFINE S == {s \in Sessions : run'[s] = "queued"}
<1>1. /\ \E seq \in SetToSeqs(S) : jobs' = Range(seq) /\ Queued(FoldLeft(Schedule, Queue, seq))
      /\ call' = call
  BY DEF Restart
<1>2. PICK seq \in SetToSeqs(S) : jobs' = Range(seq) /\ Queued(FoldLeft(Schedule, Queue, seq))
  BY <1>1
<1>3. seq \in Seq(Sessions) /\ IsInjective(seq) /\ Range(seq) = S
  BY <1>2, OrdersOfASet
<1> DEFINE q == FoldLeft(Schedule, Queue, seq)
<1>4. \A s \in Range(seq) : ~ Waits(Queue, s) /\ ~ Runs(Queue, s)
  BY <1>3 DEF Waiting, InQueue, Running
<1>5. /\ QueueOK(q)
      /\ \A x \in Sessions : /\ Waits(q, x) <=> Waits(Queue, x) \/ x \in Range(seq)
                             /\ Runs(q, x) <=> Runs(Queue, x)
  BY <1>3, <1>4, SchedulesKeep DEF ClaimsOK, QueueTyped
<1>6. Queued(q)
  BY <1>2
<1> HIDE DEF q
<1>7. Queue' = q
  BY <1>5, <1>6, QueuedIs DEF QueueOK
<1>8. /\ QueueTyped'
      /\ \A x \in Sessions : /\ InQueue(x)' <=> x \in Range(seq)
                             /\ ~ Running(x)'
  BY <1>5, <1>7 DEF QueueTyped, InQueue, Running, Waiting
<1>9. \A d \in Callers, s \in Sessions : ~ Delivers(d, s) /\ (Delivers(d, s)' <=> Delivers(d, s))
  BY <1>1 DEF Delivers, Waiting
<1>10. DeliveriesOK'
  BY <1>1, <1>9 DEF ClaimsOK, DeliveriesOK
<1> QED
  BY <1>1, <1>3, <1>8, <1>9, <1>10 DEF ClaimsOK, CallsTyped, Waiting

------------------------------------------------------------------------------
(* The rows and the claims agree, over every step. *)

RowsTyped ==
  /\ run \in [Sessions -> Statuses]
  /\ environment \in [Sessions -> {"none", "running", "completed", "cancelled"}]
  /\ starts \in [Sessions -> Nat] /\ resumes \in [Sessions -> Nat]

\* A queued row is waited for or executed, a running one executed; what is
\* claimed has a row that was not given up; an execution is paid for by the
\* start or by a resume, and so is the one a session waits for.
RowOK(s) ==
  /\ up /\ run[s] = "queued" => Waiting(s) \/ Running(s)
  /\ up /\ run[s] = "running" => Running(s)
  /\ Waiting(s) \/ Running(s) => up /\ run[s] \notin {"none", "interrupted", "blocked"}
  /\ starts[s] + (IF run[s] = "queued" \/ Waiting(s) THEN 1 ELSE 0)
       <= resumes[s] + (IF s \in Children \/ run[s] = "none" THEN 0 ELSE 1)
  /\ run[s] = "none" => resumes[s] = 0
  /\ s \in Children /\ run[s] # "none" => environment[s] # "none"
\* A session that is being stopped has a row.
StopsOK == \A c \in Callers : call[c].op = "stop" => run[call[c].session] # "none"

RowsOK == RowsTyped /\ StopsOK /\ \A s \in Sessions : RowOK(s)
SchedulerInv == ClaimsOK /\ RowsOK

LEMMA RowKept ==
  ASSUME NEW s \in Sessions, RowOK(s), up' = up, run'[s] = run[s],
         environment[s] # "none" => environment'[s] # "none",
         starts'[s] = starts[s], resumes'[s] = resumes[s],
         Waiting(s)' <=> Waiting(s), Running(s)' <=> Running(s)
  PROVE  RowOK(s)'
BY DEF RowOK

LEMMA StopsKept ==
  ASSUME StopsOK, \A s \in Sessions : run[s] # "none" => run'[s] # "none", CallsTyped,
         \A d \in Callers : call'[d].op = "stop" =>
           \/ call[d].op = "stop" /\ call'[d].session = call[d].session
           \/ run'[call'[d].session] # "none"
  PROVE  StopsOK'
<1>1. \A d \in Callers : call[d].op = "stop" => call[d].session \in Sessions
  BY CallTypes
<1> QED
  BY <1>1 DEF StopsOK

LEMMA OneStatusChanges ==
  ASSUME RowsTyped, NEW s \in Sessions, NEW status \in Statuses, SetStatus(s, status)
  PROVE  /\ run' \in [Sessions -> Statuses] /\ run'[s] = status
         /\ \A x \in Sessions \ {s} : run'[x] = run[x]
BY DEF RowsTyped, SetStatus

LEMMA OneCallChanges ==
  ASSUME CallsTyped, NEW c \in Callers, NEW v \in Calls, call' = [call EXCEPT ![c] = v]
  PROVE  CallsTyped' /\ call'[c] = v /\ \A d \in Callers \ {c} : call'[d] = call[d]
BY DEF CallsTyped
------------------------------------------------------------------------------
LEMMA CommitKeeps ==
  ASSUME SchedulerInv, NEW c \in Callers, NEW seq \in Seq(Sessions), IsInjective(seq),
         Range(seq) \cap Children = {}, Commit(c, seq)
  PROVE  SchedulerInv'
<1>1. /\ up /\ call[c] = Free /\ \A s \in Range(seq) : run[s] = "none"
      /\ run' = [s \in Sessions |-> IF s \in Range(seq) THEN "queued" ELSE run[s]]
      /\ call' = [call EXCEPT ![c] = [op |-> "schedule", sessions |-> seq]]
      /\ UNCHANGED <<environment, up, starts, resumes, queue>>
  BY DEF Commit, Write, process, history
<1>2. Range(seq) \subseteq Sessions
  BY DEF Range
<1>3. \A s \in Range(seq) : ~ Waiting(s) /\ ~ Running(s)
  BY <1>1, <1>2 DEF SchedulerInv, RowsOK, RowOK
<1>4. /\ ClaimsOK'
      /\ \A s \in Sessions : /\ Waiting(s)' <=> Waiting(s) \/ s \in Range(seq)
                             /\ Running(s)' <=> Running(s)
  BY <1>1, <1>3, AnnouncedClaims DEF SchedulerInv
<1>5. RowsTyped' /\ \A s \in Sessions : run'[s] = IF s \in Range(seq) THEN "queued" ELSE run[s]
  BY <1>1 DEF SchedulerInv, RowsOK, RowsTyped, Statuses
<1>6. StopsOK'
  <2> DEFINE v == [op |-> "schedule", sessions |-> seq]
  <2>1. v \in Calls /\ v.op = "schedule"
    BY DEF Calls
  <2>2. call' = [call EXCEPT ![c] = v]
    BY <1>1
  <2> HIDE DEF v
  <2>3. call'[c].op = "schedule" /\ \A d \in Callers \ {c} : call'[d] = call[d]
    BY <2>1, <2>2, OneCallChanges DEF SchedulerInv, ClaimsOK
  <2> QED
    BY <1>5, <2>3, StopsKept DEF SchedulerInv, RowsOK, ClaimsOK
<1>7. ASSUME NEW s \in Sessions PROVE RowOK(s)'
  <2>1. CASE s \in Range(seq)
    BY <1>1, <1>3, <1>4, <1>5, <2>1 DEF SchedulerInv, RowsOK, RowOK, RowsTyped
  <2>2. CASE s \notin Range(seq)
    BY <1>1, <1>4, <1>5, <2>2, RowKept DEF SchedulerInv, RowsOK
  <2> QED
    BY <2>1, <2>2
<1> QED
  BY <1>4, <1>5, <1>6, <1>7 DEF SchedulerInv, RowsOK

LEMMA SingletonSeq ==
  ASSUME NEW s \in Sessions
  PROVE  <<s>> \in Seq(Sessions) /\ IsInjective(<<s>>) /\ Range(<<s>>) = {s}
BY DEF IsInjective, Range

LEMMA ReserveKeeps ==
  ASSUME SchedulerInv, NEW c \in Callers, NEW s \in Sessions, Reserve(c, s)
  PROVE  SchedulerInv'
<1> DEFINE seq == <<s>>
<1>1. s \in Standalone /\ s \notin Children /\ Commit(c, seq)
  BY TrialsAssumption DEF Reserve
<1>2. seq \in Seq(Sessions) /\ IsInjective(seq) /\ Range(seq) = {s}
  BY SingletonSeq
<1> HIDE DEF seq
<1> QED
  BY <1>1, <1>2, CommitKeeps

LEMMA StartExperimentKeeps ==
  ASSUME SchedulerInv, NEW c \in Callers, NEW e \in Experiments, StartExperiment(c, e)
  PROVE  SchedulerInv'
<1>1. /\ Trials[e] \in Seq(Sessions) /\ IsInjective(Trials[e]) /\ Range(Trials[e]) \cap Children = {}
      /\ Commit(c, Trials[e])
  BY TrialsAssumption DEF StartExperiment
<1> QED
  BY <1>1, CommitKeeps

LEMMA ResumeKeeps ==
  ASSUME SchedulerInv, NEW c \in Callers, NEW s \in Sessions, Resume(c, s)
  PROVE  SchedulerInv'
<1>1. /\ up /\ call[c] = Free /\ run[s] \in {"interrupted", "blocked"}
      /\ SetStatus(s, "queued") /\ resumes' = [resumes EXCEPT ![s] = @ + 1]
      /\ call' = [call EXCEPT ![c] = [op |-> "schedule", sessions |-> <<s>>]]
      /\ UNCHANGED <<environment, up, starts, queue>>
  BY DEF Resume, process
<1>2. ~ Waiting(s) /\ ~ Running(s)
  BY <1>1 DEF SchedulerInv, RowsOK, RowOK
<1>3. /\ ClaimsOK'
      /\ \A x \in Sessions : /\ Waiting(x)' <=> Waiting(x) \/ x = s
                             /\ Running(x)' <=> Running(x)
  <2> DEFINE seq == <<s>>
  <2>1. seq \in Seq(Sessions) /\ IsInjective(seq) /\ Range(seq) = {s}
    BY SingletonSeq
  <2> HIDE DEF seq
  <2>2. call' = [call EXCEPT ![c] = [op |-> "schedule", sessions |-> seq]]
    BY <1>1 DEF seq
  <2> QED
    BY <1>1, <1>2, <2>1, <2>2, AnnouncedClaims DEF SchedulerInv
<1>4. /\ run' \in [Sessions -> Statuses] /\ run'[s] = "queued"
      /\ \A x \in Sessions \ {s} : run'[x] = run[x]
  BY <1>1, OneStatusChanges DEF SchedulerInv, RowsOK, Statuses
<1>5. RowsTyped' /\ resumes'[s] = resumes[s] + 1 /\ \A x \in Sessions \ {s} : resumes'[x] = resumes[x]
  <2>1. RowsTyped
    BY DEF SchedulerInv, RowsOK
  <2>2. /\ resumes' \in [Sessions -> Nat] /\ resumes'[s] = resumes[s] + 1
        /\ \A x \in Sessions \ {s} : resumes'[x] = resumes[x]
    BY <1>1, <2>1 DEF RowsTyped
  <2> QED
    BY <1>1, <1>4, <2>1, <2>2 DEF RowsTyped
<1>6. StopsOK'
  <2> DEFINE v == [op |-> "schedule", sessions |-> <<s>>]
  <2>1. v \in Calls /\ v.op = "schedule"
    BY SingletonSeq DEF Calls
  <2>2. call' = [call EXCEPT ![c] = v]
    BY <1>1
  <2> HIDE DEF v
  <2>3. call'[c].op = "schedule" /\ \A d \in Callers \ {c} : call'[d] = call[d]
    BY <2>1, <2>2, OneCallChanges DEF SchedulerInv, ClaimsOK
  <2> QED
    BY <1>1, <1>4, <2>3, StopsKept DEF SchedulerInv, RowsOK, ClaimsOK
<1>7. ASSUME NEW x \in Sessions PROVE RowOK(x)'
  <2>1. CASE x = s
    <3>1. starts[s] <= resumes[s] + (IF s \in Children \/ run[s] = "none" THEN 0 ELSE 1)
      BY <1>1, <1>2 DEF SchedulerInv, RowsOK, RowOK, RowsTyped
    <3>2. starts[s] \in Nat /\ resumes[s] \in Nat
      BY DEF SchedulerInv, RowsOK, RowsTyped
    <3>3. s \in Children => environment[s] # "none"
      BY <1>1 DEF SchedulerInv, RowsOK, RowOK
    <3> QED
      BY <1>1, <1>2, <1>3, <1>4, <1>5, <2>1, <3>1, <3>2, <3>3 DEF RowOK
  <2>2. CASE x # s
    BY <1>1, <1>3, <1>4, <1>5, <2>2, RowKept DEF SchedulerInv, RowsOK
  <2> QED
    BY <2>1, <2>2
<1> QED
  BY <1>3, <1>5, <1>6, <1>7 DEF SchedulerInv, RowsOK

LEMMA StopPendingKeeps ==
  ASSUME SchedulerInv, NEW c \in Callers, NEW s \in Sessions, StopPending(c, s)
  PROVE  SchedulerInv'
<1>1. /\ SetStatus(s, "stopped") /\ UNCHANGED <<environment, up, call, starts, resumes>>
      /\ \E i \in DOMAIN pending : \E k \in DOMAIN pending[i].jobs : pending[i].jobs[k] = s
  BY DEF StopPending, process
<1>2. /\ ClaimsOK' /\ ~ Waiting(s)' /\ ~ Running(s)'
      /\ \A x \in Sessions \ {s} : (Waiting(x)' <=> Waiting(x)) /\ (Running(x)' <=> Running(x))
  BY StoppedClaims DEF SchedulerInv
<1>3. Waiting(s)
  BY <1>1 DEF Waiting, InQueue, Waits, In, Queue
<1>4. /\ run' \in [Sessions -> Statuses] /\ run'[s] = "stopped"
      /\ \A x \in Sessions \ {s} : run'[x] = run[x]
  BY <1>1, OneStatusChanges DEF SchedulerInv, RowsOK, Statuses, Terminal
<1>5. RowsTyped'
  BY <1>1, <1>4 DEF SchedulerInv, RowsOK, RowsTyped
<1>6. StopsOK'
  BY <1>1, <1>4, StopsKept DEF SchedulerInv, RowsOK, ClaimsOK
<1>7. ASSUME NEW x \in Sessions PROVE RowOK(x)'
  <2>1. CASE x = s
    <3>1. RowOK(s) /\ starts[s] \in Nat /\ resumes[s] \in Nat
      BY DEF SchedulerInv, RowsOK, RowsTyped
    <3> QED
      BY <1>1, <1>2, <1>3, <1>4, <2>1, <3>1 DEF RowOK
  <2>2. CASE x # s
    BY <1>1, <1>2, <1>4, <2>2, RowKept DEF SchedulerInv, RowsOK
  <2> QED
    BY <2>1, <2>2
<1> QED
  BY <1>2, <1>5, <1>6, <1>7 DEF SchedulerInv, RowsOK

LEMMA StopLookKeeps ==
  ASSUME SchedulerInv, NEW c \in Callers, NEW s \in Sessions, StopLook(c, s)
  PROVE  SchedulerInv'
<1> DEFINE v == [op |-> "stop", session |-> s, found |-> environment[s] # "none"]
<1>1. /\ call[c] = Free /\ run[s] # "none" /\ call' = [call EXCEPT ![c] = v]
      /\ UNCHANGED <<run, environment, up, starts, resumes, queue>>
  BY DEF StopLook, process, rows
<1>2. v \in Calls /\ v.op = "stop" /\ v.session = s
  BY DEF Calls
<1> HIDE DEF v
<1>3. CallsTyped' /\ call'[c] = v /\ \A d \in Callers \ {c} : call'[d] = call[d]
  BY <1>1, <1>2, OneCallChanges DEF SchedulerInv, ClaimsOK
<1>4. /\ ClaimsOK'
      /\ \A x \in Sessions : (Waiting(x)' <=> Waiting(x)) /\ (Running(x)' <=> Running(x))
  BY <1>1, <1>2, <1>3, OtherCallsClaimNothing DEF SchedulerInv, Free
<1>5. RowsTyped' /\ \A x \in Sessions : RowOK(x)'
  BY <1>1, <1>4, RowKept DEF SchedulerInv, RowsOK, RowsTyped
<1>6. StopsOK'
  BY <1>1, <1>2, <1>3, StopsKept DEF SchedulerInv, RowsOK, ClaimsOK
<1> QED
  BY <1>4, <1>5, <1>6 DEF SchedulerInv, RowsOK

LEMMA StopCancelKeeps ==
  ASSUME SchedulerInv, NEW c \in Callers, StopCancel(c)
  PROVE  SchedulerInv'
<1> DEFINE m == call[c].session
           v == [call[c] EXCEPT !.found = FALSE]
<1>1. /\ call[c].op = "stop"
      /\ \/ /\ environment[m] \in {"running", "cancelled"}
            /\ environment' = [environment EXCEPT ![m] = "cancelled"]
            /\ call' = [call EXCEPT ![c] = v]
         \/ call' = [call EXCEPT ![c] = Free] /\ environment' = environment
      /\ UNCHANGED <<run, up, starts, resumes, queue>>
  BY DEF StopCancel, process, history
<1>2. m \in Sessions /\ call[c] \in [op : {"stop"}, session : Sessions, found : BOOLEAN]
  BY <1>1, CallTypes DEF SchedulerInv, ClaimsOK
<1>3. v \in Calls /\ v.op = "stop" /\ v.session = m
  BY <1>2 DEF Calls
<1> HIDE DEF m, v
<1>4. /\ CallsTyped' /\ \A d \in Callers \ {c} : call'[d] = call[d]
      /\ call'[c] = v \/ call'[c] = Free
  <2>1. Free \in Calls
    BY DEF Calls
  <2> QED
    BY <1>1, <1>3, <2>1, OneCallChanges DEF SchedulerInv, ClaimsOK
<1>5. /\ ClaimsOK'
      /\ \A x \in Sessions : (Waiting(x)' <=> Waiting(x)) /\ (Running(x)' <=> Running(x))
  BY <1>1, <1>3, <1>4, OtherCallsClaimNothing DEF SchedulerInv, Free
<1>6. /\ environment' \in [Sessions -> {"none", "running", "completed", "cancelled"}]
      /\ \A x \in Sessions : environment[x] # "none" => environment'[x] # "none"
  BY <1>1, <1>2 DEF SchedulerInv, RowsOK, RowsTyped
<1>7. RowsTyped' /\ \A x \in Sessions : RowOK(x)'
  BY <1>1, <1>5, <1>6, RowKept DEF SchedulerInv, RowsOK, RowsTyped
<1>8. StopsOK'
  BY <1>1, <1>3, <1>4, StopsKept DEF SchedulerInv, RowsOK, ClaimsOK, Free, m
<1> QED
  BY <1>5, <1>7, <1>8 DEF SchedulerInv, RowsOK

\* A caller is free again; at most the status of one session with a row
\* was written, as stopped or as it was.
LEMMA WrittenKeeps ==
  ASSUME SchedulerInv, NEW c \in Callers, call[c].op \in {"stop", "refresh"}, NEW s \in Sessions,
         NEW status \in Statuses, SetStatus(s, status),
         status = run[s] \/ (status = "stopped" /\ run[s] # "none"),
         call' = [call EXCEPT ![c] = Free], UNCHANGED <<environment, up, starts, resumes, queue>>
  PROVE  SchedulerInv'
<1>1. CallsTyped' /\ call'[c] = Free /\ \A d \in Callers \ {c} : call'[d] = call[d]
  <2>1. Free \in Calls
    BY DEF Calls
  <2> QED
    BY <2>1, OneCallChanges DEF SchedulerInv, ClaimsOK
<1>2. /\ ClaimsOK'
      /\ \A x \in Sessions : (Waiting(x)' <=> Waiting(x)) /\ (Running(x)' <=> Running(x))
  BY <1>1, OtherCallsClaimNothing DEF SchedulerInv, Free
<1>3. /\ run' \in [Sessions -> Statuses] /\ run'[s] = status
      /\ \A x \in Sessions \ {s} : run'[x] = run[x]
  BY OneStatusChanges DEF SchedulerInv, RowsOK
<1>4. RowsTyped'
  BY <1>3 DEF SchedulerInv, RowsOK, RowsTyped
<1>5. StopsOK'
  BY <1>1, <1>3, StopsKept DEF SchedulerInv, RowsOK, ClaimsOK, Free
<1>6. ASSUME NEW x \in Sessions PROVE RowOK(x)'
  <2>1. CASE x = s /\ status # run[s]
    <3>1. RowOK(s) /\ starts[s] \in Nat /\ resumes[s] \in Nat
      BY DEF SchedulerInv, RowsOK, RowsTyped
    <3> QED
      BY <1>2, <1>3, <2>1, <3>1 DEF RowOK
  <2>2. CASE ~ (x = s /\ status # run[s])
    BY <1>2, <1>3, <2>2, RowKept DEF SchedulerInv, RowsOK
  <2> QED
    BY <2>1, <2>2
<1> QED
  BY <1>2, <1>4, <1>5, <1>6 DEF SchedulerInv, RowsOK

LEMMA StopWriteKeeps ==
  ASSUME SchedulerInv, NEW c \in Callers, StopWrite(c)
  PROVE  SchedulerInv'
<1>1. /\ call[c].op = "stop" /\ SetStatus(call[c].session, "stopped")
      /\ call' = [call EXCEPT ![c] = Free] /\ UNCHANGED <<environment, up, starts, resumes, queue>>
  BY DEF StopWrite, process, history
<1>2. call[c].session \in Sessions /\ run[call[c].session] # "none" /\ "stopped" \in Statuses
  BY <1>1, CallTypes DEF SchedulerInv, ClaimsOK, RowsOK, StopsOK, Statuses, Terminal
<1> QED
  BY <1>1, <1>2, WrittenKeeps

LEMMA RefreshKeeps ==
  ASSUME SchedulerInv, NEW c \in Callers, Refresh(c)
  PROVE  SchedulerInv'
<1> DEFINE m == call[c].session
<1>1. /\ call[c].op = "refresh" /\ SetStatus(m, run[m])
      /\ call' = [call EXCEPT ![c] = Free] /\ UNCHANGED <<environment, up, starts, resumes, queue>>
  BY DEF Refresh, process, history
<1>2. m \in Sessions
  BY <1>1, CallTypes DEF SchedulerInv, ClaimsOK
<1>3. run[m] \in Statuses
  BY <1>2 DEF SchedulerInv, RowsOK, RowsTyped
<1> HIDE DEF m
<1> QED
  BY <1>1, <1>2, <1>3, WrittenKeeps

LEMMA DeliverKeeps ==
  ASSUME SchedulerInv, NEW c \in Callers, Deliver(c)
  PROVE  SchedulerInv'
<1>1. /\ ClaimsOK'
      /\ \A x \in Sessions : (Waiting(x)' <=> Waiting(x)) /\ (Running(x)' <=> Running(x))
  BY DeliveredClaims DEF SchedulerInv
<1>2. call' = [call EXCEPT ![c] = Free] /\ UNCHANGED <<run, environment, up, starts, resumes>>
  BY DEF Deliver, rows, process, history
<1>3. RowsTyped' /\ \A x \in Sessions : RowOK(x)'
  BY <1>1, <1>2, RowKept DEF SchedulerInv, RowsOK, RowsTyped
<1>4. call'[c] = Free /\ \A d \in Callers \ {c} : call'[d] = call[d]
  BY <1>2 DEF SchedulerInv, ClaimsOK, CallsTyped
<1>5. StopsOK'
  BY <1>2, <1>4, StopsKept DEF SchedulerInv, RowsOK, ClaimsOK, Free
<1> QED
  BY <1>1, <1>3, <1>5 DEF SchedulerInv, RowsOK
------------------------------------------------------------------------------
\* What a registration does to the rows, whoever asks for it.
LEMMA RegisteredRows ==
  ASSUME SchedulerInv, NEW c \in Callers, NEW s \in Children, Register(c, s)
  PROVE  /\ s \in Sessions /\ run[s] = "none" /\ ~ Waiting(s) /\ ~ Running(s)
         /\ run' \in [Sessions -> Statuses] /\ run'[s] = "interrupted" /\ environment'[s] # "none"
         /\ \A x \in Sessions \ {s} : run'[x] = run[x] /\ environment'[x] = environment[x]
         /\ environment' \in [Sessions -> {"none", "running", "completed", "cancelled"}]
         /\ up
<1>1. /\ up /\ environment[Origin[s]] # "none" /\ environment[s] = "none"
      /\ run' = [run EXCEPT ![s] = "interrupted"]
      /\ \E saved \in {"running", environment[Origin[s]]} :
           environment' = [environment EXCEPT ![s] = saved]
  BY DEF Register
<1>2. s \in Sessions /\ RowOK(s) /\ RowsTyped
  BY DEF Sessions, SchedulerInv, RowsOK
<1>3. Origin[s] \in Sessions
  <2>1. Origin[s] \in Range(Origin)
    BY DEF Range, Children
  <2>2. Origin[s] \in Standalone \/ \E e \in Experiments : Origin[s] \in Range(Trials[e])
    BY <2>1, TrialsAssumption
  <2> QED
    BY <2>2 DEF Sessions, SessionsOf
<1>4. environment[Origin[s]] \in {"none", "running", "completed", "cancelled"}
  BY <1>2, <1>3 DEF RowsTyped
<1>5. run[s] = "none"
  BY <1>1, <1>2 DEF RowOK
<1>6. PICK saved \in {"running", environment[Origin[s]]} :
        environment' = [environment EXCEPT ![s] = saved]
  BY <1>1
<1>7. saved \in {"running", "completed", "cancelled"}
  BY <1>1, <1>4, <1>6
<1> QED
  BY <1>1, <1>2, <1>5, <1>6, <1>7 DEF RowOK, RowsTyped, Statuses, Terminal

LEMMA RegisterKeepsRows ==
  ASSUME SchedulerInv, NEW c \in Callers, NEW s \in Children, Register(c, s),
         UNCHANGED <<up, starts, resumes>>,
         \A x \in Sessions : (Waiting(x)' <=> Waiting(x)) /\ (Running(x)' <=> Running(x))
  PROVE  RowsTyped' /\ \A x \in Sessions : RowOK(x)'
<1>1. /\ s \in Sessions /\ run[s] = "none" /\ ~ Waiting(s) /\ ~ Running(s)
      /\ run' \in [Sessions -> Statuses] /\ run'[s] = "interrupted" /\ environment'[s] # "none"
      /\ \A x \in Sessions \ {s} : run'[x] = run[x] /\ environment'[x] = environment[x]
      /\ environment' \in [Sessions -> {"none", "running", "completed", "cancelled"}]
      /\ up
  BY RegisteredRows
<1>2. RowsTyped'
  BY <1>1 DEF SchedulerInv, RowsOK, RowsTyped
<1>3. ASSUME NEW x \in Sessions PROVE RowOK(x)'
  <2>1. CASE x = s
    <3>1. RowOK(s) /\ starts[s] \in Nat /\ resumes[s] \in Nat
      BY <1>1 DEF SchedulerInv, RowsOK, RowsTyped
    <3> QED
      BY <1>1, <2>1, <3>1 DEF RowOK
  <2>2. CASE x # s
    BY <1>1, <2>2, RowKept DEF SchedulerInv, RowsOK
  <2> QED
    BY <2>1, <2>2
<1> QED
  BY <1>2, <1>3

LEMMA BranchKeeps ==
  ASSUME SchedulerInv, NEW c \in Callers, NEW s \in Children, Branch(c, s)
  PROVE  SchedulerInv'
<1> DEFINE v == [op |-> "refresh", session |-> s]
<1>1. /\ Register(c, s) \/ (UNCHANGED <<run, environment>>)
      /\ call[c] = Free /\ call' = [call EXCEPT ![c] = v]
      /\ UNCHANGED <<up, starts, resumes, queue>>
  BY DEF Branch, Register, process, history
<1>2. s \in Sessions
  BY DEF Sessions
<1>3. v \in Calls /\ v.op = "refresh"
  BY <1>2 DEF Calls
<1> HIDE DEF v
<1>4. CallsTyped' /\ call'[c] = v /\ \A d \in Callers \ {c} : call'[d] = call[d]
  BY <1>1, <1>3, OneCallChanges DEF SchedulerInv, ClaimsOK
<1>5. /\ ClaimsOK'
      /\ \A x \in Sessions : (Waiting(x)' <=> Waiting(x)) /\ (Running(x)' <=> Running(x))
  BY <1>1, <1>3, <1>4, OtherCallsClaimNothing DEF SchedulerInv, Free
<1>6. RowsTyped' /\ \A x \in Sessions : RowOK(x)'
  <2>1. CASE Register(c, s)
    BY <1>1, <1>5, <2>1, RegisterKeepsRows
  <2>2. CASE UNCHANGED <<run, environment>>
    BY <1>1, <1>5, <2>2, RowKept DEF SchedulerInv, RowsOK, RowsTyped
  <2> QED
    BY <1>1, <2>1, <2>2
<1>7. \A x \in Sessions : run[x] # "none" => run'[x] # "none"
  BY <1>1, RegisteredRows
<1>8. StopsOK'
  BY <1>3, <1>4, <1>7, StopsKept DEF SchedulerInv, RowsOK, ClaimsOK
<1> QED
  BY <1>5, <1>6, <1>8 DEF SchedulerInv, RowsOK

LEMMA BranchOverHttpKeeps ==
  ASSUME SchedulerInv, NEW c \in Callers, NEW s \in Children, BranchOverHttp(c, s)
  PROVE  SchedulerInv'
<1>1. Register(c, s) /\ UNCHANGED <<up, starts, resumes, queue, call>>
  BY DEF BranchOverHttp, process, history
<1>2. /\ ClaimsOK'
      /\ \A x \in Sessions : (Waiting(x)' <=> Waiting(x)) /\ (Running(x)' <=> Running(x))
  <2>1. CallsTyped'
    BY <1>1 DEF SchedulerInv, ClaimsOK, CallsTyped
  <2> QED
    BY <1>1, <2>1, OtherCallsClaimNothing DEF SchedulerInv
<1>3. RowsTyped' /\ \A x \in Sessions : RowOK(x)'
  BY <1>1, <1>2, RegisterKeepsRows
<1>4. \A x \in Sessions : run[x] # "none" => run'[x] # "none"
  BY <1>1, RegisteredRows
<1>5. StopsOK'
  BY <1>1, <1>4, StopsKept DEF SchedulerInv, RowsOK, ClaimsOK
<1> QED
  BY <1>2, <1>3, <1>5 DEF SchedulerInv, RowsOK

------------------------------------------------------------------------------
(* The steps of a worker. *)

LEMMA WorkerTypes ==
  ASSUME ClaimsOK, NEW w \in Slots
  PROVE  worker \in [Slots -> Workers]
BY DEF ClaimsOK, QueueTyped, QueueOK, Queues, Queue

LEMMA WorkerBecomes ==
  ASSUME ClaimsOK, NEW w \in Slots, worker[w].at \in Steps \ {"finish"},
         NEW step \in Steps \ {"launched"}, NEW outcome \in Terminal \cup {None},
         step \in {"raised", "final", "unwind"} => outcome \in Terminal,
         worker' = [worker EXCEPT ![w].at = step, ![w].outcome = outcome],
         UNCHANGED <<pending, served, future, call>>
  PROVE  \E v : Becomes(w, v) /\ v.at = step
<1> DEFINE m == worker[w].session
           v == [session |-> m, at |-> step, outcome |-> outcome]
<1>1. worker[w] \in Workers /\ worker[w] # Idle
  BY WorkerTypes DEF Steps, Idle
<1>2. worker[w] \in [session : Sessions, at : Steps, outcome : Terminal \cup {None}]
  BY <1>1 DEF Workers
<1>3. v \in Workers
  BY <1>2 DEF Workers
<1>4. worker' = [worker EXCEPT ![w] = v]
  <2> DEFINE x == [worker[w] EXCEPT !.at = step, !.outcome = outcome]
  <2>1. x \in [session : Sessions, at : Steps, outcome : Terminal \cup {None}]
    BY <1>2
  <2>2. x.session = m /\ x.at = step /\ x.outcome = outcome
    BY <1>2
  <2>3. \A y \in [session : Sessions, at : Steps, outcome : Terminal \cup {None}] :
          y = [session |-> y.session, at |-> y.at, outcome |-> y.outcome]
    OBVIOUS
  <2>4. x = v
    <3> HIDE DEF x
    <3> QED BY <2>1, <2>2, <2>3
  <2> QED
    BY <2>4
<1>5. v.session = m /\ v.at = step
  OBVIOUS
<1> HIDE DEF v
<1> QED
  BY <1>1, <1>3, <1>4, <1>5 DEF Becomes

LEMMA WorkerMoves ==
  ASSUME ClaimsOK, NEW w \in Slots, worker[w].at \in Steps \ {"finish"},
         NEW step \in Steps \ {"launched"},
         step \in {"raised", "final", "unwind"} => worker[w].at \in {"raised", "final", "unwind"},
         Moves(w, step), UNCHANGED <<pending, served, future, call>>
  PROVE  \E v : Becomes(w, v) /\ v.at = step
<1> DEFINE outcome == worker[w].outcome
<1>1. worker[w] \in Workers /\ worker[w] # Idle
  BY WorkerTypes DEF Steps, Idle
<1>2. /\ worker[w] \in [session : Sessions, at : Steps, outcome : Terminal \cup {None}]
      /\ worker[w].at \in {"raised", "final", "unwind"} => outcome \in Terminal
  BY <1>1 DEF Workers
<1> DEFINE v == [session |-> worker[w].session, at |-> step, outcome |-> outcome]
<1>3. v \in Workers
  BY <1>2 DEF Workers
<1>4. worker' = [worker EXCEPT ![w] = v]
  <2>1. [worker[w] EXCEPT !.at = step] = v
    BY <1>2
  <2> QED
    BY <2>1 DEF Moves
<1>5. v.session = worker[w].session /\ v.at = step
  OBVIOUS
<1> HIDE DEF v
<1> QED
  BY <1>1, <1>3, <1>4, <1>5 DEF Becomes

\* A step of a worker that leaves the rows of other sessions alone keeps the
\* invariant when it leaves that of its own session in order.
LEMMA WorkerKeeps ==
  ASSUME SchedulerInv, NEW w \in Slots, NEW v, Becomes(w, v), NEW m, m = worker[w].session,
         up' = up, resumes' = resumes, RowsTyped',
         \A s \in Sessions \ {m} : /\ run'[s] = run[s] /\ starts'[s] = starts[s]
                                   /\ environment'[s] = environment[s],
         run[m] # "none" => run'[m] # "none",
         RowOK(m) => RowOK(m)'
  PROVE  SchedulerInv'
<1>1. /\ ClaimsOK' /\ m \in Sessions
      /\ \A s \in Sessions \ {m} : (Waiting(s)' <=> Waiting(s)) /\ (Running(s)' <=> Running(s))
  BY WorkerClaims DEF SchedulerInv
<1>2. ASSUME NEW s \in Sessions PROVE RowOK(s)'
  <2>1. CASE s = m
    BY <2>1 DEF SchedulerInv, RowsOK
  <2>2. CASE s # m
    BY <1>1, <2>2, RowKept DEF SchedulerInv, RowsOK
  <2> QED
    BY <2>1, <2>2
<1>3. \A s \in Sessions : run[s] # "none" => run'[s] # "none"
  OBVIOUS
<1>4. call' = call
  BY DEF Becomes
<1>5. StopsOK'
  BY <1>3, <1>4, StopsKept DEF SchedulerInv, RowsOK, ClaimsOK
<1> QED
  BY <1>1, <1>2, <1>5 DEF SchedulerInv, RowsOK

\* What is known of the session a worker executes, before and after.
LEMMA WorkersSession ==
  ASSUME SchedulerInv, NEW w \in Slots, NEW v, Becomes(w, v), NEW m, m = worker[w].session
  PROVE  /\ m \in Sessions /\ RowOK(m) /\ starts[m] \in Nat /\ resumes[m] \in Nat
         /\ Waiting(m) <=> worker[w].at = "launched"
         /\ Running(m) <=> worker[w].at # "launched"
         /\ ~ Waiting(m)'
         /\ Running(m)' <=> v.at # "finish"
BY WorkerClaims DEF SchedulerInv, RowsOK, RowsTyped

LEMMA BlockKeeps ==
  ASSUME SchedulerInv, NEW w \in Slots, Block(w)
  PROVE  SchedulerInv'
<1>0. PICK m : m = worker[w].session
  OBVIOUS
<1>1. /\ worker[w].at = "launched" /\ SetStatus(m, "blocked")
      /\ worker' = [worker EXCEPT ![w].at = "finish", ![w].outcome = None]
      /\ UNCHANGED <<environment, up, call, starts, resumes, pending, served, future>>
  BY <1>0 DEF Block, At, Ends, QueueKept, process, history
<1>2. PICK v : Becomes(w, v) /\ v.at = "finish"
  BY <1>1, WorkerBecomes DEF SchedulerInv, Steps
<1>3. /\ m \in Sessions /\ RowOK(m) /\ starts[m] \in Nat /\ resumes[m] \in Nat
      /\ Waiting(m) /\ ~ Running(m) /\ ~ Waiting(m)' /\ ~ Running(m)'
  BY <1>0, <1>1, <1>2, WorkersSession
<1>4. /\ run' \in [Sessions -> Statuses] /\ run'[m] = "blocked"
      /\ \A x \in Sessions \ {m} : run'[x] = run[x]
  BY <1>1, <1>3, OneStatusChanges DEF SchedulerInv, RowsOK, Statuses, Terminal
<1>5. RowsTyped'
  BY <1>1, <1>4 DEF SchedulerInv, RowsOK, RowsTyped
<1>6. RowOK(m)'
  BY <1>1, <1>3, <1>4 DEF RowOK
<1> QED
  BY <1>0, <1>1, <1>2, <1>4, <1>5, <1>6, WorkerKeeps

LEMMA RejectKeeps ==
  ASSUME SchedulerInv, NEW w \in Slots, Reject(w)
  PROVE  SchedulerInv'
<1>0. PICK m : m = worker[w].session
  OBVIOUS
<1>1. /\ worker[w].at = "launched"
      /\ worker' = [worker EXCEPT ![w].at = "raised", ![w].outcome = "failed"]
      /\ UNCHANGED <<run, environment, up, call, starts, resumes, pending, served, future>>
  BY <1>0 DEF Reject, At, Raises, QueueKept, rows, process, history
<1>2. PICK v : Becomes(w, v) /\ v.at = "raised"
  BY <1>1, WorkerBecomes DEF SchedulerInv, Steps, Terminal
<1>3. /\ m \in Sessions /\ RowOK(m) /\ starts[m] \in Nat /\ resumes[m] \in Nat
      /\ Waiting(m) /\ ~ Running(m) /\ ~ Waiting(m)' /\ Running(m)'
  BY <1>0, <1>1, <1>2, WorkersSession
<1>4. RowsTyped'
  BY <1>1 DEF SchedulerInv, RowsOK, RowsTyped
<1>5. RowOK(m)'
  BY <1>1, <1>3 DEF RowOK
<1> QED
  BY <1>0, <1>1, <1>2, <1>4, <1>5, WorkerKeeps

LEMMA BeginKeeps ==
  ASSUME SchedulerInv, NEW w \in Slots, Begin(w)
  PROVE  SchedulerInv'
<1>0. PICK m : m = worker[w].session
  OBVIOUS
<1>1. /\ worker[w].at = "launched" /\ SetStatus(m, "running") /\ Moves(w, "create")
      /\ starts' = [starts EXCEPT ![m] = @ + 1]
      /\ UNCHANGED <<environment, up, call, resumes, pending, served, future>>
  BY <1>0 DEF Begin, At, QueueKept, process
<1>2. PICK v : Becomes(w, v) /\ v.at = "create"
  BY <1>1, WorkerMoves DEF SchedulerInv, Steps
<1>3. /\ m \in Sessions /\ RowOK(m) /\ starts[m] \in Nat /\ resumes[m] \in Nat
      /\ Waiting(m) /\ ~ Running(m) /\ ~ Waiting(m)' /\ Running(m)'
  BY <1>0, <1>1, <1>2, WorkersSession
<1>4. /\ run' \in [Sessions -> Statuses] /\ run'[m] = "running"
      /\ \A x \in Sessions \ {m} : run'[x] = run[x]
  BY <1>1, <1>3, OneStatusChanges DEF SchedulerInv, RowsOK, Statuses
<1>5. /\ starts' \in [Sessions -> Nat] /\ starts'[m] = starts[m] + 1
      /\ \A x \in Sessions \ {m} : starts'[x] = starts[x]
  <2>1. starts \in [Sessions -> Nat]
    BY DEF SchedulerInv, RowsOK, RowsTyped
  <2> QED
    BY <1>1, <1>3, <2>1
<1>6. RowsTyped'
  BY <1>1, <1>4, <1>5 DEF SchedulerInv, RowsOK, RowsTyped
<1>7. RowOK(m)'
  BY <1>1, <1>3, <1>4, <1>5 DEF RowOK
<1> QED
  BY <1>0, <1>1, <1>2, <1>4, <1>5, <1>6, <1>7, WorkerKeeps

LEMMA CreateKeeps ==
  ASSUME SchedulerInv, NEW w \in Slots, Create(w)
  PROVE  SchedulerInv'
<1>0. PICK m : m = worker[w].session
  OBVIOUS
<1>1. /\ worker[w].at = "create" /\ Moves(w, "run")
      /\ environment' = [environment EXCEPT ![m] = IF @ = "none" THEN "running" ELSE @]
      /\ UNCHANGED <<run, up, call, starts, resumes, pending, served, future>>
  BY <1>0 DEF Create, At, QueueKept, process, history
<1>2. PICK v : Becomes(w, v) /\ v.at = "run"
  BY <1>1, WorkerMoves DEF SchedulerInv, Steps
<1>3. /\ m \in Sessions /\ RowOK(m) /\ starts[m] \in Nat /\ resumes[m] \in Nat
      /\ ~ Waiting(m) /\ Running(m) /\ ~ Waiting(m)' /\ Running(m)'
  BY <1>0, <1>1, <1>2, WorkersSession
<1>4. RowsTyped' /\ environment'[m] # "none"
      /\ \A x \in Sessions \ {m} : environment'[x] = environment[x]
  BY <1>1, <1>3 DEF SchedulerInv, RowsOK, RowsTyped
<1>5. RowOK(m)'
  BY <1>1, <1>3, <1>4 DEF RowOK
<1> QED
  BY <1>0, <1>1, <1>2, <1>4, <1>5, WorkerKeeps

LEMMA CompleteKeeps ==
  ASSUME SchedulerInv, NEW w \in Slots, Complete(w)
  PROVE  SchedulerInv'
<1> DEFINE m == worker[w].session
<1>1. /\ environment[m] = "running"
      /\ environment' = [environment EXCEPT ![m] = "completed"]
      /\ run' = [run EXCEPT ![m] = IF @ = "running" THEN "succeeded" ELSE @]
      /\ UNCHANGED <<up, call, starts, resumes, queue>>
  BY DEF Complete, process, history
<1>2. worker[w].at = "run" /\ m \in Sessions
  <2>1. worker[w].at = "run" /\ worker[w] \in Workers
    BY WorkerTypes DEF Complete, At, SchedulerInv
  <2> QED
    BY <2>1 DEF Workers, Idle
<1> HIDE DEF m
<1>3. /\ ClaimsOK'
      /\ \A x \in Sessions : (Waiting(x)' <=> Waiting(x)) /\ (Running(x)' <=> Running(x))
  <2>1. CallsTyped'
    BY <1>1 DEF SchedulerInv, ClaimsOK, CallsTyped
  <2> QED
    BY <1>1, <2>1, OtherCallsClaimNothing DEF SchedulerInv
<1>4. /\ RowsTyped' /\ environment'[m] # "none"
      /\ run'[m] = run[m] \/ (run[m] = "running" /\ run'[m] = "succeeded")
      /\ \A x \in Sessions \ {m} : environment'[x] = environment[x] /\ run'[x] = run[x]
  BY <1>1, <1>2 DEF SchedulerInv, RowsOK, RowsTyped, Statuses, Terminal
<1>5. ASSUME NEW x \in Sessions PROVE RowOK(x)'
  <2>1. CASE x = m
    <3>1. RowOK(m) /\ starts[m] \in Nat /\ resumes[m] \in Nat
      BY <1>2 DEF SchedulerInv, RowsOK, RowsTyped
    <3> QED
      BY <1>1, <1>2, <1>3, <1>4, <2>1, <3>1 DEF RowOK
  <2>2. CASE x # m
    BY <1>1, <1>3, <1>4, <2>2, RowKept DEF SchedulerInv, RowsOK
  <2> QED
    BY <2>1, <2>2
<1>6. \A x \in Sessions : run[x] # "none" => run'[x] # "none"
  BY <1>4
<1>7. StopsOK'
  BY <1>1, <1>6, StopsKept DEF SchedulerInv, RowsOK, ClaimsOK
<1> QED
  BY <1>3, <1>4, <1>5, <1>7 DEF SchedulerInv, RowsOK

\* The session runner returns or raises, and the handler takes over: the
\* session is executed by the worker before and after.
LEMMA ExecutionGoesOn ==
  ASSUME SchedulerInv, NEW w \in Slots, NEW v, Becomes(w, v), worker[w].at # "launched",
         v.at # "finish", UNCHANGED <<rows, up, starts, resumes>>
  PROVE  SchedulerInv'
<1>0. PICK m : m = worker[w].session
  OBVIOUS
<1>1. UNCHANGED <<run, environment>>
  BY DEF rows
<1>2. /\ m \in Sessions /\ RowOK(m) /\ starts[m] \in Nat /\ resumes[m] \in Nat
      /\ ~ Waiting(m) /\ Running(m) /\ ~ Waiting(m)' /\ Running(m)'
  BY <1>0, WorkersSession
<1>3. RowsTyped'
  BY <1>1 DEF SchedulerInv, RowsOK, RowsTyped
<1>4. RowOK(m)'
  BY <1>1, <1>2 DEF RowOK
<1> QED
  BY <1>0, <1>1, <1>3, <1>4, WorkerKeeps

LEMMA ReturnKeeps ==
  ASSUME SchedulerInv, NEW w \in Slots, Return(w)
  PROVE  SchedulerInv'
<1> DEFINE outcome == IF environment[worker[w].session] \in {"running", "completed"}
                      THEN "succeeded" ELSE "stopped"
<1>1. /\ worker[w].at = "run" /\ worker' = [worker EXCEPT ![w].at = "final", ![w].outcome = outcome]
      /\ UNCHANGED <<rows, up, call, starts, resumes, pending, served, future>>
  BY DEF Return, At, QueueKept, process, history
<1>2. outcome \in Terminal
  BY DEF Terminal
<1> HIDE DEF outcome
<1>3. PICK v : Becomes(w, v) /\ v.at = "final"
  BY <1>1, <1>2, WorkerBecomes DEF SchedulerInv, Steps
<1> QED
  BY <1>1, <1>3, ExecutionGoesOn

LEMMA RaiseKeeps ==
  ASSUME SchedulerInv, NEW w \in Slots, NEW outcome \in Failures, Raise(w, outcome)
  PROVE  SchedulerInv'
<1>1. /\ worker[w].at \in {"create", "run"}
      /\ worker' = [worker EXCEPT ![w].at = "raised", ![w].outcome = outcome]
      /\ UNCHANGED <<rows, up, call, starts, resumes, pending, served, future>>
  BY DEF Raise, Raises, QueueKept, process, history
<1>2. outcome \in Terminal
  BY FailuresAssumption DEF Terminal
<1>3. PICK v : Becomes(w, v) /\ v.at = "raised"
  BY <1>1, <1>2, WorkerBecomes DEF SchedulerInv, Steps
<1> QED
  BY <1>1, <1>3, ExecutionGoesOn

\* An execution ends: its row says how.
LEMMA ExecutionEnds ==
  ASSUME SchedulerInv, NEW w \in Slots, NEW v, Becomes(w, v), worker[w].at # "launched",
         v.at = "finish", NEW m, m = worker[w].session, UNCHANGED <<environment, up, starts, resumes>>,
         run' \in [Sessions -> Statuses], run'[m] \in Terminal,
         \A x \in Sessions \ {m} : run'[x] = run[x]
  PROVE  SchedulerInv'
<1>1. /\ m \in Sessions /\ RowOK(m) /\ starts[m] \in Nat /\ resumes[m] \in Nat
      /\ ~ Waiting(m) /\ Running(m) /\ ~ Waiting(m)' /\ ~ Running(m)'
  BY WorkersSession
<1>2. RowsTyped'
  BY DEF SchedulerInv, RowsOK, RowsTyped
<1>3. run'[m] \notin {"none", "queued", "running"}
  BY DEF Terminal
<1>4. RowOK(m)'
  BY <1>1, <1>3 DEF RowOK
<1> QED
  BY <1>2, <1>3, <1>4, WorkerKeeps

LEMMA HandleKeeps ==
  ASSUME SchedulerInv, NEW w \in Slots, Handle(w)
  PROVE  SchedulerInv'
<1> DEFINE m == worker[w].session
<1>1. /\ worker[w].at = "raised" /\ IF run[m] = "stopped" THEN Ends(w) ELSE Moves(w, "unwind")
      /\ UNCHANGED <<rows, run, environment, up, call, starts, resumes, pending, served, future>>
  BY DEF Handle, At, QueueKept, process, history, rows
<1>2. CASE run[m] = "stopped"
  <2>1. PICK v : Becomes(w, v) /\ v.at = "finish"
    BY <1>1, <1>2, WorkerBecomes DEF SchedulerInv, Steps, Ends
  <2>2. run' \in [Sessions -> Statuses] /\ run'[m] \in Terminal /\ \A x \in Sessions \ {m} : run'[x] = run[x]
    BY <1>1, <1>2 DEF SchedulerInv, RowsOK, RowsTyped, Terminal
  <2> QED
    BY <1>1, <2>1, <2>2, ExecutionEnds
<1>3. CASE run[m] # "stopped"
  <2>1. PICK v : Becomes(w, v) /\ v.at = "unwind"
    BY <1>1, <1>3, WorkerMoves DEF SchedulerInv, Steps
  <2> QED
    BY <1>1, <2>1, ExecutionGoesOn
<1> QED
  BY <1>2, <1>3

LEMMA SettleKeeps ==
  ASSUME SchedulerInv, NEW w \in Slots, Settle(w)
  PROVE  SchedulerInv'
<1> DEFINE m == worker[w].session
           outcome == worker[w].outcome
<1>1. /\ worker[w].at \in {"final", "unwind"} /\ SetStatus(m, outcome) /\ Ends(w)
      /\ UNCHANGED <<environment, up, call, starts, resumes, pending, served, future>>
  BY DEF Settle, QueueKept, process, history
<1>2. PICK v : Becomes(w, v) /\ v.at = "finish"
  BY <1>1, WorkerBecomes DEF SchedulerInv, Steps, Ends
<1>3. m \in Sessions /\ outcome \in Terminal
  <2>1. worker[w] \in Workers
    BY WorkerTypes DEF SchedulerInv
  <2> QED
    BY <1>1, <2>1 DEF Workers, Idle
<1>4. outcome \in Statuses
  BY <1>3 DEF Statuses
<1>5. run' \in [Sessions -> Statuses] /\ run'[m] = outcome /\ \A x \in Sessions \ {m} : run'[x] = run[x]
  <2> HIDE DEF m, outcome
  <2> QED BY <1>1, <1>3, <1>4, OneStatusChanges DEF SchedulerInv, RowsOK
<1> QED
  BY <1>1, <1>2, <1>3, <1>5, ExecutionEnds

LEMMA FinishKeeps ==
  ASSUME SchedulerInv, NEW w \in Slots, Finish(w)
  PROVE  SchedulerInv'
<1>1. /\ ClaimsOK'
      /\ \A x \in Sessions : (Waiting(x)' <=> Waiting(x)) /\ (Running(x)' <=> Running(x))
  BY FinishedClaims DEF SchedulerInv
<1>2. UNCHANGED <<run, environment, up, call, starts, resumes>>
  BY DEF Finish, rows, process, history
<1>3. RowsTyped' /\ \A x \in Sessions : RowOK(x)'
  BY <1>1, <1>2, RowKept DEF SchedulerInv, RowsOK, RowsTyped
<1>4. StopsOK'
  BY <1>2, StopsKept DEF SchedulerInv, RowsOK, ClaimsOK
<1> QED
  BY <1>1, <1>3, <1>4 DEF SchedulerInv, RowsOK

------------------------------------------------------------------------------
(* The process. *)

LEMMA ShutDownKeeps ==
  ASSUME SchedulerInv, ShutDown
  PROVE  SchedulerInv'
<1>1. UNCHANGED <<run, environment, up, queue, call, starts, resumes>>
  BY DEF ShutDown, rows
<1>2. /\ ClaimsOK'
      /\ \A x \in Sessions : (Waiting(x)' <=> Waiting(x)) /\ (Running(x)' <=> Running(x))
  <2>1. CallsTyped'
    BY <1>1 DEF SchedulerInv, ClaimsOK, CallsTyped
  <2> QED
    BY <1>1, <2>1, OtherCallsClaimNothing DEF SchedulerInv
<1>3. RowsTyped' /\ \A x \in Sessions : RowOK(x)'
  BY <1>1, <1>2, RowKept DEF SchedulerInv, RowsOK, RowsTyped
<1>4. StopsOK'
  BY <1>1, StopsKept DEF SchedulerInv, RowsOK, ClaimsOK
<1> QED
  BY <1>2, <1>3, <1>4 DEF SchedulerInv, RowsOK

LEMMA LoseKeeps ==
  ASSUME SchedulerInv, Lose
  PROVE  SchedulerInv'
<1>1. /\ up' = FALSE /\ call' = [c \in Callers |-> Free]
      /\ UNCHANGED <<run, environment, starts, resumes>>
  BY DEF Lose, rows
<1>2. ClaimsOK' /\ \A s \in Sessions : ~ Waiting(s)' /\ ~ Running(s)'
  BY LostClaims
<1>3. RowsTyped'
  BY <1>1 DEF SchedulerInv, RowsOK, RowsTyped
<1>4. ASSUME NEW s \in Sessions PROVE RowOK(s)'
  <2>1. RowOK(s) /\ starts[s] \in Nat /\ resumes[s] \in Nat
    BY DEF SchedulerInv, RowsOK, RowsTyped
  <2> QED
    BY <1>1, <1>2, <2>1 DEF RowOK
<1>5. StopsOK'
  BY <1>1 DEF StopsOK, Free
<1> QED
  BY <1>2, <1>3, <1>4, <1>5 DEF SchedulerInv, RowsOK

LEMMA RestartKeeps ==
  ASSUME SchedulerInv, NEW found, Restart(found)
  PROVE  SchedulerInv'
<1>1. /\ ~ up /\ up' /\ run' = [s \in Sessions |-> IF run[s] = "running" THEN "interrupted" ELSE run[s]]
      /\ UNCHANGED <<environment, call, starts, resumes>>
  BY DEF Restart, Reconcile, Corrected, history
<1>2. \A s \in Sessions : ~ Waiting(s) /\ ~ Running(s)
  BY <1>1 DEF SchedulerInv, RowsOK, RowOK
<1>3. /\ ClaimsOK'
      /\ \A s \in Sessions : (Waiting(s)' <=> run'[s] = "queued") /\ ~ Running(s)'
  BY <1>2, RestartedClaims DEF SchedulerInv
<1>4. /\ \A s \in Sessions : run'[s] = IF run[s] = "running" THEN "interrupted" ELSE run[s]
      /\ RowsTyped'
  BY <1>1 DEF SchedulerInv, RowsOK, RowsTyped, Statuses, Terminal
<1>5. ASSUME NEW s \in Sessions PROVE RowOK(s)'
  <2>1. RowOK(s) /\ starts[s] \in Nat /\ resumes[s] \in Nat
    BY DEF SchedulerInv, RowsOK, RowsTyped
  <2> QED
    BY <1>1, <1>2, <1>3, <1>4, <2>1 DEF RowOK
<1>6. StopsOK'
  BY <1>1, <1>4, StopsKept DEF SchedulerInv, RowsOK, ClaimsOK
<1> QED
  BY <1>3, <1>4, <1>5, <1>6 DEF SchedulerInv, RowsOK
------------------------------------------------------------------------------
LEMMA SchedulerInvHoldsAtFirst ==
  ASSUME Init
  PROVE  SchedulerInv
<1>1. ClaimsOK /\ \A s \in Sessions : ~ Waiting(s) /\ ~ Running(s)
  BY NothingIsClaimedAtFirst
<1>2. RowsTyped /\ \A c \in Callers : call[c].op # "stop"
  BY DEF Init, RowsTyped, Statuses, Free
<1>3. ASSUME NEW s \in Sessions PROVE RowOK(s)
  BY <1>1 DEF Init, RowOK
<1> QED
  BY <1>1, <1>2, <1>3 DEF SchedulerInv, RowsOK, StopsOK

LEMMA UnchangedKeeps ==
  ASSUME SchedulerInv, UNCHANGED vars
  PROVE  SchedulerInv'
<1>1. UNCHANGED <<run, environment, up, queue, call, starts, resumes>>
  BY DEF vars, rows, process, history
<1>2. CallsTyped'
  BY <1>1 DEF SchedulerInv, ClaimsOK, CallsTyped
<1>3. /\ ClaimsOK'
      /\ \A x \in Sessions : (Waiting(x)' <=> Waiting(x)) /\ (Running(x)' <=> Running(x))
  BY <1>1, <1>2, OtherCallsClaimNothing DEF SchedulerInv
<1>4. RowsTyped' /\ \A x \in Sessions : RowOK(x)'
  BY <1>1, <1>3, RowKept DEF SchedulerInv, RowsOK, RowsTyped
<1>5. StopsOK'
  BY <1>1, StopsKept DEF SchedulerInv, RowsOK, ClaimsOK
<1> QED
  BY <1>3, <1>4, <1>5 DEF SchedulerInv, RowsOK

LEMMA WorkKeeps ==
  ASSUME SchedulerInv, NEW w \in Slots, Work(w)
  PROVE  SchedulerInv'
<1>1. \/ Block(w) \/ Reject(w) \/ Begin(w) \/ Create(w) \/ Complete(w) \/ Return(w)
      \/ \E outcome \in Failures : Raise(w, outcome)
      \/ Handle(w) \/ Settle(w) \/ Finish(w)
  BY DEF Work
<1> QED
  BY <1>1, BlockKeeps, RejectKeeps, BeginKeeps, CreateKeeps, CompleteKeeps, ReturnKeeps,
     RaiseKeeps, HandleKeeps, SettleKeeps, FinishKeeps

LEMMA StepKeeps ==
  ASSUME SchedulerInv, [Next]_vars
  PROVE  SchedulerInv'
<1>1. CASE UNCHANGED vars
  BY <1>1, UnchangedKeeps
<1>2. CASE Next
  <2>1. ASSUME NEW c \in Callers, NEW e \in Experiments, StartExperiment(c, e) PROVE SchedulerInv'
    BY <2>1, StartExperimentKeeps
  <2>2. ASSUME NEW c \in Callers, NEW s \in Sessions,
               Reserve(c, s) \/ Resume(c, s) \/ StopPending(c, s) \/ StopLook(c, s)
        PROVE  SchedulerInv'
    BY <2>2, ReserveKeeps, ResumeKeeps, StopPendingKeeps, StopLookKeeps
  <2>3. ASSUME NEW c \in Callers, NEW s \in Children, Branch(c, s) \/ BranchOverHttp(c, s)
        PROVE  SchedulerInv'
    BY <2>3, BranchKeeps, BranchOverHttpKeeps
  <2>4. ASSUME NEW c \in Callers, Deliver(c) \/ StopCancel(c) \/ StopWrite(c) \/ Refresh(c)
        PROVE  SchedulerInv'
    BY <2>4, DeliverKeeps, StopCancelKeeps, StopWriteKeeps, RefreshKeeps
  <2>5. ASSUME NEW w \in Slots, Work(w) PROVE SchedulerInv'
    BY <2>5, WorkKeeps
  <2>6. ASSUME ShutDown \/ Lose PROVE SchedulerInv'
    BY <2>6, ShutDownKeeps, LoseKeeps
  <2>7. ASSUME NEW found \in BOOLEAN, Restart(found) PROVE SchedulerInv'
    BY <2>7, RestartKeeps
  <2> QED
    BY <1>2, <2>1, <2>2, <2>3, <2>4, <2>5, <2>6, <2>7 DEF Next
<1> QED
  BY <1>1, <1>2

\* The rows of the durable scheduler, its queue, its workers and its callers
\* agree in every reachable state.
LEMMA SchedulerInvHolds == Spec => []SchedulerInv
<1>1. Init => SchedulerInv
  BY SchedulerInvHoldsAtFirst
<1>2. SchedulerInv /\ [Next]_vars => SchedulerInv'
  BY StepKeeps
<1> QED
  BY <1>1, <1>2, PTL DEF Spec

LEMMA NothingIsOrphaned ==
  ASSUME SchedulerInv
  PROVE  NoRowIsOrphaned
<1> SUFFICES ASSUME up, NEW s \in Sessions
             PROVE  /\ run[s] = "queued" =>
                         IsPending(Queue, s) \/ Delivering(s) \/ \E w \in Slots : Executing(w, s)
                    /\ run[s] = "running" => \E w \in Slots : Executing(w, s) /\ ~ At(w, "launched")
  BY DEF NoRowIsOrphaned
<1>1. RowOK(s)
  BY DEF SchedulerInv, RowsOK
<1>2. In(pending, s) => IsPending(Queue, s)
  <2>1. ASSUME NEW i \in DOMAIN pending, NEW k \in DOMAIN pending[i].jobs, pending[i].jobs[k] = s
        PROVE  s \in Range(pending[i].jobs)
    BY <2>1 DEF Range
  <2> QED
    BY <2>1 DEF In, IsPending, Queue
<1>3. InQueue(s) => IsPending(Queue, s) \/ \E w \in Slots : Executing(w, s)
  BY <1>2 DEF InQueue, Waits, Queue, Executing, At
<1>4. Running(s) => \E w \in Slots : Executing(w, s) /\ ~ At(w, "launched")
  BY DEF Running, Runs, Queue, Executing, At, Busy
<1>5. (\E c \in Callers : Delivers(c, s)) => Delivering(s)
  BY DEF Delivers, Delivering
<1> QED
  BY <1>1, <1>3, <1>4, <1>5 DEF RowOK, Waiting

\* No row is forgotten while the process runs: whatever stops, resumes,
\* branches and losses came before, a queued session is in the queue, with a
\* worker or about to be delivered, and a running one has its worker
\* (_schedule_locked, _stop, reconcile).
THEOREM EveryRowHasItsHolder == Spec => []NoRowIsOrphaned
BY SchedulerInvHolds, NothingIsOrphaned, PTL

\* A session is executed again only when a caller resumes it, whatever the
\* process lost, and by one worker at a time; a branch only when it is resumed
\* (_execute, _reserve_resume, _register_child_session).
THEOREM ExecutionsArePaidFor == Spec => []NeverExecutedTwiceAutomatically
<1>1. ASSUME SchedulerInv PROVE NeverExecutedTwiceAutomatically
  <2>1. ASSUME NEW s \in Sessions
        PROVE  starts[s] <= resumes[s] + (IF s \in Children THEN 0 ELSE 1)
    <3>1. RowOK(s) /\ starts[s] \in Nat /\ resumes[s] \in Nat
      BY <1>1 DEF SchedulerInv, RowsOK, RowsTyped
    <3> QED
      BY <3>1 DEF RowOK
  <2>2. ASSUME NEW w \in Slots, NEW v \in Slots, NEW s \in Sessions, w # v
        PROVE  ~ (Executing(w, s) /\ Executing(v, s))
    <3>1. \A u \in Slots : Executing(u, s) <=> Held(Queue, u, s)
      BY DEF Executing, Held, Queue, At
    <3> QED
      BY <1>1, <2>2, <3>1 DEF SchedulerInv, ClaimsOK, QueueTyped, QueueOK
  <2> QED
    BY <2>1, <2>2 DEF NeverExecutedTwiceAutomatically
<1> QED
  BY <1>1, SchedulerInvHolds, PTL

------------------------------------------------------------------------------
(* The columns of an experiment. *)

\* The rows an experiment counts: late completions as running, branches it
\* was not told of not at all.
View(r, late, uncounted) ==
  [s \in Sessions |-> IF s \in late THEN "running" ELSE IF s \in uncounted THEN "none" ELSE r[s]]
Late(r, env, e) == {s \in SessionsOf[e] : r[s] = "succeeded" /\ env[s] = "completed"}
Uncounted(r, again, e) == {s \in SessionsOf[e] \cap Children : r[s] = "interrupted" /\ again[s] = 0}
Lags(x, r, env, again, e) ==
  x # None => \E late \in SUBSET Late(r, env, e), uncounted \in SUBSET Uncounted(r, again, e) :
                x = Aggregate(View(r, late, uncounted), e)

LEMMA LagsIsTheInvariant ==
  /\ AggregateLagsOnlyCompletions <=>
       \A e \in Experiments : Lags(experiment[e], run, environment, resumes, e)
  /\ AggregateLagsOnlyCompletions' <=>
       \A e \in Experiments : Lags(experiment'[e], run', environment', resumes', e)
BY DEF AggregateLagsOnlyCompletions, Lags, Late, Uncounted, View

LEMMA MembersAreSessions ==
  ASSUME NEW e \in Experiments
  PROVE  SessionsOf[e] \subseteq Sessions
BY DEF Sessions

\* The columns depend on the rows of the experiment only.
LEMMA AggregateDepends ==
  ASSUME NEW r, NEW q, NEW e, \A s \in SessionsOf[e] : r[s] = q[s]
  PROVE  Aggregate(r, e) = Aggregate(q, e)
<1>1. ASSUME NEW statuses PROVE Counted(r, e, statuses) = Counted(q, e, statuses)
  <2>1. {s \in SessionsOf[e] : r[s] \in statuses} = {s \in SessionsOf[e] : q[s] \in statuses}
    OBVIOUS
  <2> QED
    BY <2>1 DEF Counted
<1>2. \A status : Some(r, e, status) <=> Some(q, e, status)
  BY DEF Some
<1> DEFINE precedence == <<"running", "queued", "blocked", "interrupted", "stopped", "failed">>
           I(x) == {i \in 1..Len(precedence) : Some(x, e, precedence[i])}
           rank(x) == SelectInSeq(precedence, LAMBDA status : Some(x, e, status))
<1>3. I(r) = I(q)
  BY <1>2
<1>4. rank(r) = IF I(r) # {} THEN Min(I(r)) ELSE 0
  BY DEF SelectInSeq
<1>5. rank(q) = IF I(q) # {} THEN Min(I(q)) ELSE 0
  BY DEF SelectInSeq
<1>6. rank(r) = rank(q)
  <2> HIDE DEF I, rank
  <2> QED BY <1>3, <1>4, <1>5
<1>7. \A x : Aggregate(x, e) =
        [status |-> IF rank(x) = 0 THEN "succeeded" ELSE precedence[rank(x)],
         completed |-> Counted(x, e, Terminal),
         running |-> Counted(x, e, {"running"}),
         queued |-> Counted(x, e, {"queued"}),
         failed |-> Counted(x, e, {"failed"})]
  BY DEF Aggregate
<1> HIDE DEF precedence, rank
<1> QED
  BY <1>1, <1>6, <1>7

LEMMA RecountedLags ==
  ASSUME NEW r, NEW env, NEW again, NEW e \in Experiments
  PROVE  Lags(Aggregate(r, e), r, env, again, e)
<1>1. \A s \in SessionsOf[e] : View(r, {}, {})[s] = r[s]
  BY MembersAreSessions DEF View
<1>2. Aggregate(View(r, {}, {}), e) = Aggregate(r, e)
  BY <1>1, AggregateDepends
<1>3. {} \in SUBSET Late(r, env, e) /\ {} \in SUBSET Uncounted(r, again, e)
  OBVIOUS
<1> QED
  BY <1>2, <1>3 DEF Lags

\* What was late or uncounted may become more, as long as the rows the
\* columns count stay the same.
LEMMA LagsGrows ==
  ASSUME NEW x, NEW e \in Experiments, NEW r, NEW env, NEW again, Lags(x, r, env, again, e),
         NEW p, NEW fin, NEW more,
         NEW L \in SUBSET Late(p, fin, e), NEW U \in SUBSET Uncounted(p, more, e),
         Late(r, env, e) \subseteq Late(p, fin, e), Uncounted(r, again, e) \subseteq Uncounted(p, more, e),
         \A s \in L : r[s] = "running", \A s \in U : r[s] = "none",
         \A s \in SessionsOf[e] : s \notin L /\ s \notin U => p[s] = r[s]
  PROVE  Lags(x, p, fin, more, e)
<1> SUFFICES ASSUME x # None PROVE Lags(x, p, fin, more, e)
  BY DEF Lags
<1>1. PICK late \in SUBSET Late(r, env, e), uncounted \in SUBSET Uncounted(r, again, e) :
        x = Aggregate(View(r, late, uncounted), e)
  BY DEF Lags
<1>2. late \cup L \in SUBSET Late(p, fin, e) /\ uncounted \cup U \in SUBSET Uncounted(p, more, e)
  OBVIOUS
<1>3. ASSUME NEW s \in SessionsOf[e]
      PROVE  View(p, late \cup L, uncounted \cup U)[s] = View(r, late, uncounted)[s]
  <2>1. s \in Sessions
    BY MembersAreSessions
  <2>2. s \in late => r[s] = "succeeded"
    BY DEF Late
  <2>3. s \in uncounted => r[s] = "interrupted"
    BY DEF Uncounted
  <2>4. s \in L => p[s] = "succeeded"
    BY DEF Late
  <2>5. s \in U => p[s] = "interrupted"
    BY DEF Uncounted
  <2> QED
    BY <2>1, <2>2, <2>3, <2>4, <2>5 DEF View
<1>4. Aggregate(View(p, late \cup L, uncounted \cup U), e) = Aggregate(View(r, late, uncounted), e)
  BY <1>3, AggregateDepends
<1> QED
  BY <1>1, <1>2, <1>4 DEF Lags

\* Rows that stay keep the columns true, when a completed environment stays
\* completed.
LEMMA LagsKept ==
  ASSUME NEW x, NEW e \in Experiments, NEW r, NEW env, NEW again, Lags(x, r, env, again, e),
         NEW p, NEW fin, NEW more,
         \A s \in SessionsOf[e] : /\ p[s] = r[s] /\ more[s] = again[s]
                                  /\ env[s] = "completed" => fin[s] = "completed"
  PROVE  Lags(x, p, fin, more, e)
<1>1. /\ Late(r, env, e) \subseteq Late(p, fin, e) /\ Uncounted(r, again, e) \subseteq Uncounted(p, more, e)
      /\ {} \in SUBSET Late(p, fin, e) /\ {} \in SUBSET Uncounted(p, more, e)
  BY DEF Late, Uncounted
<1> QED
  BY <1>1, LagsGrows
------------------------------------------------------------------------------
ColumnsOK == AggregateLagsOnlyCompletions

\* A status that is set is counted in the same transaction.
LEMMA StatusIsCounted ==
  ASSUME ColumnsOK, NEW s \in Sessions, NEW status, SetStatus(s, status), environment' = environment,
         \A x \in Sessions \ {s} : resumes'[x] = resumes[x]
  PROVE  ColumnsOK'
<1> SUFFICES ASSUME NEW e \in Experiments
             PROVE  Lags(experiment'[e], run', environment', resumes', e)
  BY LagsIsTheInvariant DEF ColumnsOK
<1>1. experiment'[e] = IF s \in SessionsOf[e] THEN Aggregate(run', e) ELSE experiment[e]
  BY DEF SetStatus
<1>2. Lags(experiment[e], run, environment, resumes, e)
  BY LagsIsTheInvariant DEF ColumnsOK
<1>3. CASE s \in SessionsOf[e]
  <2>1. Lags(Aggregate(run', e), run', environment', resumes', e)
    BY RecountedLags
  <2> QED
    BY <1>1, <1>3, <2>1
<1>4. CASE s \notin SessionsOf[e]
  <2>1. \A x \in SessionsOf[e] : x # s /\ run'[x] = run[x] /\ resumes'[x] = resumes[x]
    BY <1>4, MembersAreSessions DEF SetStatus
  <2> QED
    BY <1>1, <1>2, <1>4, <2>1, LagsKept
<1> QED
  BY <1>3, <1>4

\* A step that leaves the columns and the rows they count alone.
LEMMA ColumnsKept ==
  ASSUME ColumnsOK, experiment' = experiment, run' = run, resumes' = resumes,
         \A s \in Sessions : environment[s] = "completed" => environment'[s] = "completed"
  PROVE  ColumnsOK'
<1> SUFFICES ASSUME NEW e \in Experiments
             PROVE  Lags(experiment'[e], run', environment', resumes', e)
  BY LagsIsTheInvariant DEF ColumnsOK
<1>1. Lags(experiment[e], run, environment, resumes, e)
  BY LagsIsTheInvariant DEF ColumnsOK
<1>2. \A s \in SessionsOf[e] : /\ run'[s] = run[s] /\ resumes'[s] = resumes[s]
                               /\ environment[s] = "completed" => environment'[s] = "completed"
  BY MembersAreSessions
<1> QED
  BY <1>1, <1>2, LagsKept

LEMMA CommitCounts ==
  ASSUME ColumnsOK, NEW c \in Callers, NEW seq, Commit(c, seq)
  PROVE  ColumnsOK'
<1> DEFINE r == [s \in Sessions |-> IF s \in Range(seq) THEN "queued" ELSE run[s]]
<1>1. Write(r) /\ environment' = environment /\ resumes' = resumes
  BY DEF Commit, history
<1> HIDE DEF r
<1> SUFFICES ASSUME NEW e \in Experiments
             PROVE  Lags(experiment'[e], run', environment', resumes', e)
  BY LagsIsTheInvariant DEF ColumnsOK
<1>2. run' = r /\ experiment'[e] = IF \E s \in SessionsOf[e] : r[s] # run[s]
                                   THEN Aggregate(r, e) ELSE experiment[e]
  BY <1>1 DEF Write
<1>3. Lags(experiment[e], run, environment, resumes, e)
  BY LagsIsTheInvariant DEF ColumnsOK
<1>4. CASE \E s \in SessionsOf[e] : r[s] # run[s]
  <2>1. Lags(Aggregate(run', e), run', environment', resumes', e)
    BY RecountedLags
  <2> QED
    BY <1>2, <1>4, <2>1
<1>5. CASE ~ \E s \in SessionsOf[e] : r[s] # run[s]
  <2>1. experiment'[e] = experiment[e]
    BY <1>2, <1>5
  <2>2. \A s \in SessionsOf[e] : /\ run'[s] = run[s] /\ resumes'[s] = resumes[s]
                                 /\ environment[s] = "completed" => environment'[s] = "completed"
    BY <1>1, <1>2, <1>5
  <2> QED
    BY <1>3, <2>1, <2>2, LagsKept
<1> QED
  BY <1>4, <1>5

LEMMA RestartCounts ==
  ASSUME ColumnsOK, NEW found \in BOOLEAN, Restart(found)
  PROVE  ColumnsOK'
<1> DEFINE touched == {s \in Sessions : run[s] \in {"queued", "running"}}
<1>1. /\ environment' = environment /\ resumes' = resumes /\ run' = Corrected
      /\ experiment' = [e \in Experiments |->
           IF touched \cap SessionsOf[e] # {} THEN Aggregate(run', e) ELSE experiment[e]]
  BY DEF Restart, Reconcile, history
<1>2. \A s \in Sessions : s \notin touched => run'[s] = run[s]
  BY <1>1 DEF Corrected
<1> HIDE DEF touched
<1> SUFFICES ASSUME NEW e \in Experiments
             PROVE  Lags(experiment'[e], run', environment', resumes', e)
  BY LagsIsTheInvariant DEF ColumnsOK
<1>3. Lags(experiment[e], run, environment, resumes, e)
  BY LagsIsTheInvariant DEF ColumnsOK
<1>4. CASE touched \cap SessionsOf[e] # {}
  <2>1. Lags(Aggregate(run', e), run', environment', resumes', e)
    BY RecountedLags
  <2> QED
    BY <1>1, <1>4, <2>1
<1>5. CASE touched \cap SessionsOf[e] = {}
  <2>1. experiment'[e] = experiment[e]
    BY <1>1, <1>5
  <2>2. \A s \in SessionsOf[e] : /\ run'[s] = run[s] /\ resumes'[s] = resumes[s]
                                 /\ environment[s] = "completed" => environment'[s] = "completed"
    BY <1>1, <1>2, <1>5, MembersAreSessions
  <2> QED
    BY <1>3, <2>1, <2>2, LagsKept
<1> QED
  BY <1>4, <1>5

\* The runtime completes the row of a session by itself: counted as running
\* until it is settled.
LEMMA CompleteLags ==
  ASSUME SchedulerInv, ColumnsOK, NEW w \in Slots, Complete(w)
  PROVE  ColumnsOK'
<1>1. PICK m : m = worker[w].session
  OBVIOUS
<1>2. /\ environment[m] = "running" /\ environment' = [environment EXCEPT ![m] = "completed"]
      /\ run' = [run EXCEPT ![m] = IF @ = "running" THEN "succeeded" ELSE @]
      /\ experiment' = experiment /\ resumes' = resumes
  BY <1>1 DEF Complete, history
<1>3. RowsTyped
  BY DEF SchedulerInv, RowsOK
<1> SUFFICES ASSUME NEW e \in Experiments
             PROVE  Lags(experiment'[e], run', environment', resumes', e)
  BY LagsIsTheInvariant DEF ColumnsOK
<1>4. Lags(experiment[e], run, environment, resumes, e)
  BY LagsIsTheInvariant DEF ColumnsOK
<1>5. /\ \A s \in SessionsOf[e] : s # m => run'[s] = run[s] /\ environment'[s] = environment[s]
      /\ m \in SessionsOf[e] =>
           /\ environment'[m] = "completed"
           /\ run'[m] = IF run[m] = "running" THEN "succeeded" ELSE run[m]
  BY <1>2, <1>3, MembersAreSessions DEF RowsTyped
<1> DEFINE L == {s \in SessionsOf[e] : s = m /\ run[m] = "running"}
           U == {s \in SessionsOf[e] : FALSE}
<1>6. /\ L \in SUBSET Late(run', environment', e) /\ U \in SUBSET Uncounted(run', resumes', e)
      /\ Late(run, environment, e) \subseteq Late(run', environment', e)
      /\ Uncounted(run, resumes, e) \subseteq Uncounted(run', resumes', e)
  BY <1>2, <1>5 DEF Late, Uncounted
<1>7. /\ \A s \in L : run[s] = "running"
      /\ \A s \in U : run[s] = "none"
      /\ \A s \in SessionsOf[e] : s \notin L /\ s \notin U => run'[s] = run[s]
  BY <1>5
<1>8. Lags(experiment[e], run', environment', resumes', e)
  <2> HIDE DEF L, U
  <2> QED BY <1>4, <1>6, <1>7, LagsGrows
<1> QED
  BY <1>2, <1>8

\* A branch that was registered is not counted until its call, a resume or a
\* stop recounts the experiment.
LEMMA RegisterLags ==
  ASSUME SchedulerInv, ColumnsOK, NEW c \in Callers, NEW b \in Children, Register(c, b),
         experiment' = experiment, resumes' = resumes
  PROVE  ColumnsOK'
<1>1. /\ b \in Sessions /\ run[b] = "none" /\ run'[b] = "interrupted"
      /\ \A x \in Sessions \ {b} : run'[x] = run[x] /\ environment'[x] = environment[x]
  BY RegisteredRows
<1>2. resumes[b] = 0
  BY <1>1 DEF SchedulerInv, RowsOK, RowOK
<1> SUFFICES ASSUME NEW e \in Experiments
             PROVE  Lags(experiment'[e], run', environment', resumes', e)
  BY LagsIsTheInvariant DEF ColumnsOK
<1>3. Lags(experiment[e], run, environment, resumes, e)
  BY LagsIsTheInvariant DEF ColumnsOK
<1> DEFINE U == {s \in SessionsOf[e] : s = b}
<1>4. /\ U \in SUBSET Uncounted(run', resumes', e) /\ {} \in SUBSET Late(run', environment', e)
      /\ Late(run, environment, e) \subseteq Late(run', environment', e)
      /\ Uncounted(run, resumes, e) \subseteq Uncounted(run', resumes', e)
  BY <1>1, <1>2, MembersAreSessions DEF Late, Uncounted
<1>5. /\ \A s \in U : run[s] = "none"
      /\ \A s \in SessionsOf[e] : s \notin U => run'[s] = run[s]
  BY <1>1, MembersAreSessions
<1> HIDE DEF U
<1> QED
  BY <1>3, <1>4, <1>5, LagsGrows

LEMMA CallersKeepColumns ==
  ASSUME SchedulerInv, ColumnsOK, NEW c \in Callers
  PROVE  /\ \A s \in Sessions : Reserve(c, s) => ColumnsOK'
         /\ \A e \in Experiments : StartExperiment(c, e) => ColumnsOK'
         /\ \A s \in Sessions : Resume(c, s) \/ StopPending(c, s) \/ StopLook(c, s) => ColumnsOK'
         /\ Deliver(c) \/ StopCancel(c) \/ StopWrite(c) \/ Refresh(c) => ColumnsOK'
<1>1. ASSUME NEW s \in Sessions, Reserve(c, s) PROVE ColumnsOK'
  BY <1>1, CommitCounts DEF Reserve
<1>2. ASSUME NEW e \in Experiments, StartExperiment(c, e) PROVE ColumnsOK'
  BY <1>2, CommitCounts DEF StartExperiment
<1>3. ASSUME NEW s \in Sessions, Resume(c, s) PROVE ColumnsOK'
  <2>1. SetStatus(s, "queued") /\ environment' = environment
        /\ resumes' = [resumes EXCEPT ![s] = @ + 1]
    BY <1>3 DEF Resume
  <2>2. \A x \in Sessions \ {s} : resumes'[x] = resumes[x]
    BY <2>1 DEF SchedulerInv, RowsOK, RowsTyped
  <2> QED
    BY <2>1, <2>2, StatusIsCounted
<1>4. ASSUME NEW s \in Sessions, StopPending(c, s) PROVE ColumnsOK'
  <2>1. SetStatus(s, "stopped") /\ environment' = environment /\ resumes' = resumes
    BY <1>4 DEF StopPending
  <2> QED
    BY <2>1, StatusIsCounted
<1>5. ASSUME NEW s \in Sessions, StopLook(c, s) PROVE ColumnsOK'
  BY <1>5, ColumnsKept DEF StopLook, rows
<1>6. ASSUME Deliver(c) PROVE ColumnsOK'
  BY <1>6, ColumnsKept DEF Deliver, rows, history
<1>7. ASSUME StopCancel(c) PROVE ColumnsOK'
  <2>1. call[c].session \in Sessions
    BY <1>7, CallTypes DEF StopCancel, SchedulerInv, ClaimsOK
  <2>2. /\ experiment' = experiment /\ run' = run /\ resumes' = resumes
        /\ \/ environment' = environment
           \/ /\ environment[call[c].session] # "completed"
              /\ environment' = [environment EXCEPT ![call[c].session] = "cancelled"]
    BY <1>7 DEF StopCancel, history
  <2>3. \A s \in Sessions : environment[s] = "completed" => environment'[s] = "completed"
    BY <2>1, <2>2 DEF SchedulerInv, RowsOK, RowsTyped
  <2> QED
    BY <2>2, <2>3, ColumnsKept
<1>8. ASSUME StopWrite(c) PROVE ColumnsOK'
  <2>1. call[c].session \in Sessions
    BY <1>8, CallTypes DEF StopWrite, SchedulerInv, ClaimsOK
  <2>2. SetStatus(call[c].session, "stopped") /\ environment' = environment /\ resumes' = resumes
    BY <1>8 DEF StopWrite, history
  <2> QED
    BY <2>1, <2>2, StatusIsCounted
<1>9. ASSUME Refresh(c) PROVE ColumnsOK'
  <2>1. call[c].session \in Sessions
    BY <1>9, CallTypes DEF Refresh, SchedulerInv, ClaimsOK
  <2>2. /\ SetStatus(call[c].session, run[call[c].session])
        /\ environment' = environment /\ resumes' = resumes
    BY <1>9 DEF Refresh, history
  <2> QED
    BY <2>1, <2>2, StatusIsCounted
<1> QED
  BY <1>1, <1>2, <1>3, <1>4, <1>5, <1>6, <1>7, <1>8, <1>9

LEMMA BranchesKeepColumns ==
  ASSUME SchedulerInv, ColumnsOK, NEW c \in Callers, NEW b \in Children,
         Branch(c, b) \/ BranchOverHttp(c, b)
  PROVE  ColumnsOK'
<1>1. /\ Register(c, b) \/ (UNCHANGED <<run, environment>>)
      /\ experiment' = experiment /\ resumes' = resumes
  BY DEF Branch, BranchOverHttp, history
<1>2. CASE Register(c, b)
  BY <1>1, <1>2, RegisterLags
<1>3. CASE UNCHANGED <<run, environment>>
  BY <1>1, <1>3, ColumnsKept
<1> QED
  BY <1>1, <1>2, <1>3

LEMMA WorkersKeepColumns ==
  ASSUME SchedulerInv, ColumnsOK, NEW w \in Slots, Work(w)
  PROVE  ColumnsOK'
<1>1. worker[w].at # "idle" => worker[w].session \in Sessions
  BY WorkerTypes DEF SchedulerInv, Workers, Idle
<1>2. ASSUME Block(w) PROVE ColumnsOK'
  <2>1. worker[w].session \in Sessions
    BY <1>1, <1>2 DEF Block, At
  <2>2. SetStatus(worker[w].session, "blocked") /\ environment' = environment /\ resumes' = resumes
    BY <1>2 DEF Block, history
  <2> QED
    BY <2>1, <2>2, StatusIsCounted
<1>3. ASSUME Begin(w) PROVE ColumnsOK'
  <2>1. worker[w].session \in Sessions
    BY <1>1, <1>3 DEF Begin, At
  <2>2. SetStatus(worker[w].session, "running") /\ environment' = environment /\ resumes' = resumes
    BY <1>3 DEF Begin
  <2> QED
    BY <2>1, <2>2, StatusIsCounted
<1>4. ASSUME Settle(w) PROVE ColumnsOK'
  <2>1. worker[w].session \in Sessions
    BY <1>1, <1>4 DEF Settle
  <2>2. /\ SetStatus(worker[w].session, worker[w].outcome)
        /\ environment' = environment /\ resumes' = resumes
    BY <1>4 DEF Settle, history
  <2> QED
    BY <2>1, <2>2, StatusIsCounted
<1>5. ASSUME Create(w) PROVE ColumnsOK'
  <2>1. /\ experiment' = experiment /\ run' = run /\ resumes' = resumes
        /\ environment' = [environment EXCEPT ![worker[w].session] =
                             IF @ = "none" THEN "running" ELSE @]
    BY <1>5 DEF Create, history
  <2>2. \A s \in Sessions : environment[s] = "completed" => environment'[s] = "completed"
    BY <2>1 DEF SchedulerInv, RowsOK, RowsTyped
  <2> QED
    BY <2>1, <2>2, ColumnsKept
<1>6. ASSUME Reject(w) \/ Return(w) \/ (\E outcome \in Failures : Raise(w, outcome)) \/ Handle(w)
             \/ Finish(w)
      PROVE  ColumnsOK'
  <2>1. UNCHANGED <<experiment, run, resumes, environment>>
    BY <1>6 DEF Reject, Return, Raise, Handle, Finish, rows, history
  <2> QED
    BY <2>1, ColumnsKept
<1> QED
  BY <1>2, <1>3, <1>4, <1>5, <1>6, CompleteLags DEF Work

LEMMA ColumnsStay ==
  ASSUME SchedulerInv, ColumnsOK, [Next]_vars
  PROVE  ColumnsOK'
<1>1. CASE UNCHANGED vars \/ ShutDown \/ Lose
  <2>1. UNCHANGED <<experiment, run, resumes, environment>>
    BY <1>1 DEF vars, rows, history, ShutDown, Lose
  <2> QED
    BY <2>1, ColumnsKept
<1>2. CASE Next
  <2>1. ASSUME NEW c \in Callers, NEW e \in Experiments, StartExperiment(c, e) PROVE ColumnsOK'
    BY <2>1, CallersKeepColumns
  <2>2. ASSUME NEW c \in Callers, NEW s \in Sessions,
               Reserve(c, s) \/ Resume(c, s) \/ StopPending(c, s) \/ StopLook(c, s)
        PROVE  ColumnsOK'
    BY <2>2, CallersKeepColumns
  <2>3. ASSUME NEW c \in Callers, NEW b \in Children, Branch(c, b) \/ BranchOverHttp(c, b)
        PROVE  ColumnsOK'
    BY <2>3, BranchesKeepColumns
  <2>4. ASSUME NEW c \in Callers, Deliver(c) \/ StopCancel(c) \/ StopWrite(c) \/ Refresh(c)
        PROVE  ColumnsOK'
    BY <2>4, CallersKeepColumns
  <2>5. ASSUME NEW w \in Slots, Work(w) PROVE ColumnsOK'
    BY <2>5, WorkersKeepColumns
  <2>6. ASSUME NEW found \in BOOLEAN, Restart(found) PROVE ColumnsOK'
    BY <2>6, RestartCounts
  <2> QED
    BY <1>1, <1>2, <2>1, <2>2, <2>3, <2>4, <2>5, <2>6 DEF Next
<1> QED
  BY <1>1, <1>2

\* The columns a caller reads of an experiment are those of its rows in every
\* reachable state, but for completions the runtime committed by itself and
\* branches nobody recounted (_refresh_experiment, _sync_session_row).
THEOREM ColumnsLagOnlyCompletions == Spec => []AggregateLagsOnlyCompletions
<1>1. Init => ColumnsOK
  BY LagsIsTheInvariant DEF Init, ColumnsOK, Lags
<1>2. SchedulerInv /\ ColumnsOK /\ [Next]_vars => ColumnsOK'
  BY ColumnsStay
<1>3. ColumnsOK => AggregateLagsOnlyCompletions
  BY DEF ColumnsOK
<1> QED
  BY <1>1, <1>2, <1>3, SchedulerInvHolds, PTL DEF Spec
==============================================================================
