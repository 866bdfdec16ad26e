------------------------------ MODULE StoreProofs ------------------------------
(***************************************************************************)
(* What the tables of the store keep, for any writers, sessions, batches   *)
(* and readers: the lease columns name one owner per epoch, a source's     *)
(* copy is a chain of its journal, snapshots and datasets hold what was    *)
(* recorded, and the evidence of a session survives branches and readers.  *)
(***************************************************************************)
EXTENDS WriterLease, Trajectories, Evidence, SumTheorems, SequenceTheorems

(* The writer lease: types, fencing tokens, and the authority it implements. *)

\* The epoch a grant gets is the newest one there ever was.
LEMMA GrantedEpochBounds ==
  ASSUME LeaseTypeOK, NEW w \in Writers
  PROVE  /\ GrantedEpoch(w) \in Nat
         /\ GrantedEpoch(w) >= lease_epoch
         /\ GrantedEpoch(w) = lease_epoch <=> (Live /\ lease_owner = OwnerOf[w])
  BY DEF LeaseTypeOK, GrantedEpoch

\* The columns keep their types, and no lease outlasts its duration.
THEOREM LeaseTypeCorrectness == LeaseSpec => []LeaseTypeOK
<1>1. LeaseInit => LeaseTypeOK
  BY TTLAssumption DEF LeaseInit, LeaseTypeOK
<1>2. LeaseTypeOK /\ [LeaseNext]_leaseVars => LeaseTypeOK'
  <2> SUFFICES ASSUME LeaseTypeOK, [LeaseNext]_leaseVars PROVE LeaseTypeOK'
    OBVIOUS
  <2> USE TTLAssumption, OwnerOfAssumption, BoundsAssumption
  <2>1. ASSUME NEW w \in Writers, Acquire(w) PROVE LeaseTypeOK'
    <3>1. GrantedEpoch(w) \in Nat
      BY GrantedEpochBounds
    <3> QED
      BY <2>1, <3>1 DEF Acquire, Expiry, LeaseTypeOK
  <2>2. ASSUME NEW w \in Writers, Renew(w) PROVE LeaseTypeOK'
    BY <2>2 DEF Renew, Expiry, LeaseTypeOK
  <2>3. ASSUME NEW w \in Writers, HeartbeatFails(w) PROVE LeaseTypeOK'
    BY <2>3 DEF HeartbeatFails, lease, LeaseTypeOK
  <2>4. ASSUME NEW w \in Writers, Release(w) PROVE LeaseTypeOK'
    BY <2>4 DEF Release, LeaseTypeOK
  <2>5. ASSUME NEW w \in Writers, Crash(w) PROVE LeaseTypeOK'
    BY <2>5 DEF Crash, lease, LeaseTypeOK
  <2>6. ASSUME NEW w \in Writers, Pause(w) PROVE LeaseTypeOK'
    BY <2>6 DEF Pause, lease, LeaseTypeOK
  <2>7. ASSUME NEW w \in Writers, Resume(w) PROVE LeaseTypeOK'
    BY <2>7 DEF Resume, lease, LeaseTypeOK
  <2>8. CASE Cancel
    BY <2>8 DEF Cancel, LeaseTypeOK
  <2>9. CASE Tick
    BY <2>9 DEF Tick, lease, LeaseTypeOK
  <2>10. CASE UNCHANGED leaseVars
    BY <2>10 DEF leaseVars, LeaseTypeOK
  <2> QED
    BY <2>1, <2>2, <2>3, <2>4, <2>5, <2>6, <2>7, <2>8, <2>9, <2>10 DEF LeaseNext
<1> QED
  BY <1>1, <1>2, PTL DEF LeaseSpec
------------------------------------------------------------------------------
\* A token is at most as new as the newest grant, and a token of the newest
\* grant is in the hands of its owner.  EpochNamesOneOwner alone does not
\* survive a new grant: it says nothing of tokens against the columns.
TokensFollowGrants ==
  \A w \in Writers :
    /\ held[w] <= lease_epoch
    /\ held[w] # 0 /\ held[w] = lease_epoch => lease_owner = OwnerOf[w]

\* The inductive invariant of the fencing tokens.
TokenInvariant == TokensFollowGrants /\ EpochNamesOneOwner

LEMMA TokensAtInit == LeaseInit => TokenInvariant
  BY DEF LeaseInit, TokenInvariant, TokensFollowGrants, EpochNamesOneOwner

\* Giving tokens up, and nothing else, disturbs no part of the invariant.
LEMMA FewerTokens ==
  ASSUME TokenInvariant, LeaseTypeOK, UNCHANGED <<lease_owner, lease_epoch>>,
         \A w \in Writers : held'[w] \in {0, held[w]}
  PROVE  TokenInvariant'
  BY DEF TokenInvariant, TokensFollowGrants, EpochNamesOneOwner, LeaseTypeOK

\* Every step keeps the tokens in line with the grants.
LEMMA TokensPreserved ==
  ASSUME LeaseTypeOK, TokenInvariant, [LeaseNext]_leaseVars
  PROVE  TokenInvariant'
<1>1. ASSUME NEW w \in Writers, Acquire(w) PROVE TokenInvariant'
  <2>1. /\ lease_epoch' \in Nat
        /\ lease_epoch' >= lease_epoch
        /\ lease_epoch' = lease_epoch => lease_owner = OwnerOf[w]
    BY <1>1, GrantedEpochBounds DEF Acquire
  <2>2. held' = [held EXCEPT ![w] = lease_epoch'] /\ lease_owner' = OwnerOf[w]
    BY <1>1 DEF Acquire
  <2>3. TokensFollowGrants'
    BY <2>1, <2>2 DEF TokenInvariant, TokensFollowGrants, LeaseTypeOK
  <2>4. EpochNamesOneOwner'
    BY <2>1, <2>2 DEF TokenInvariant, TokensFollowGrants, EpochNamesOneOwner, LeaseTypeOK
  <2> QED
    BY <2>3, <2>4 DEF TokenInvariant
<1>2. ASSUME NEW w \in Writers, Renew(w) \/ HeartbeatFails(w) \/ Pause(w) \/ Resume(w)
      PROVE  TokenInvariant'
  BY <1>2, FewerTokens DEF Renew, HeartbeatFails, Pause, Resume, lease
<1>3. ASSUME NEW w \in Writers, Release(w) \/ Crash(w) PROVE TokenInvariant'
  <2>1. UNCHANGED <<lease_owner, lease_epoch>> /\ held' = [held EXCEPT ![w] = 0]
    BY <1>3 DEF Release, Crash, lease
  <2> QED
    BY <2>1, FewerTokens DEF LeaseTypeOK
<1>4. CASE Cancel
  BY <1>4 DEF Cancel, TokenInvariant, TokensFollowGrants, EpochNamesOneOwner, LeaseTypeOK
<1>5. CASE Tick \/ UNCHANGED leaseVars
  BY <1>5, FewerTokens DEF Tick, lease, leaseVars
<1> QED
  BY <1>1, <1>2, <1>3, <1>4, <1>5 DEF LeaseNext

\* Two writers that carry the same epoch present the same owner string.
THEOREM FencingTokensIdentifyOwners == LeaseSpec => []EpochNamesOneOwner
<1>1. TokenInvariant => EpochNamesOneOwner
  BY DEF TokenInvariant
<1> QED
  BY <1>1, TokensAtInit, TokensPreserved, LeaseTypeCorrectness, PTL DEF LeaseSpec
------------------------------------------------------------------------------
\* Each transaction on the lease columns, and each tick, is a step of the
\* authority or leaves it alone.
LEMMA LeaseStepsAreAuthoritySteps ==
  ASSUME LeaseTypeOK, [LeaseNext]_leaseVars
  PROVE  [Authority!Next]_(Authority!authority)
<1> USE DEF Authority!Next, Authority!authority
<1>1. ASSUME NEW w \in Writers, Acquire(w) PROVE [Authority!Next]_(Authority!authority)
  <2>1. Live'
    BY <1>1, TTLAssumption DEF Acquire, Live, Expiry, LeaseTypeOK
  <2>2. CASE Live
    BY <1>1, <2>1, <2>2 DEF Acquire, GrantedEpoch
  <2>3. CASE ~Live
    <3>1. Authority!Grant(OwnerOf[w])
      BY <1>1, <2>1, <2>3 DEF Acquire, GrantedEpoch, Authority!Grant
    <3> QED
      BY <3>1, OwnerOfAssumption
  <2> QED
    BY <2>2, <2>3
<1>2. ASSUME NEW w \in Writers, Renew(w) PROVE [Authority!Next]_(Authority!authority)
  BY <1>2, TTLAssumption DEF Renew, Fenced, Live, Expiry, LeaseTypeOK
<1>3. ASSUME NEW w \in Writers, Release(w) PROVE [Authority!Next]_(Authority!authority)
  BY <1>3 DEF Release, Fenced, Live, LeaseTypeOK, Authority!Lapse
<1>4. ASSUME NEW w \in Writers,
             HeartbeatFails(w) \/ Crash(w) \/ Pause(w) \/ Resume(w)
      PROVE  [Authority!Next]_(Authority!authority)
  BY <1>4 DEF HeartbeatFails, Crash, Pause, Resume, Live, lease
<1>5. CASE Cancel
  BY <1>5 DEF Cancel, Live, LeaseTypeOK, Authority!Revoke
<1>6. CASE Tick
  BY <1>6 DEF Tick, Live, lease, LeaseTypeOK, Authority!Lapse
<1>7. CASE UNCHANGED leaseVars
  BY <1>7 DEF leaseVars, Live
<1> QED
  BY <1>1, <1>2, <1>3, <1>4, <1>5, <1>6, <1>7 DEF LeaseNext

\* The clocked lease implements the fencing authority.
THEOREM LeaseImplementsAuthority == LeaseSpec => ImplementsAuthority
<1>1. LeaseInit => Authority!Init
  BY DEF LeaseInit, Live, Authority!Init
<1> QED
  BY <1>1, LeaseStepsAreAuthoritySteps, LeaseTypeCorrectness, PTL
  DEF LeaseSpec, ImplementsAuthority, Authority!Spec
------------------------------------------------------------------------------
(* Recursion over positions.  The library's induction takes an operator;   *)
(* these lemmas take a set, or a function, and do the same.                *)

LEMMA Climbing ==
  ASSUME NEW n \in Nat, NEW S, 0 \in S, \A i \in 1..n : i - 1 \in S => i \in S
  PROVE  \A i \in 0..n : i \in S
<1> DEFINE B == {i \in 0..n : i \notin S}
<1>1. B \subseteq 0..n
  OBVIOUS
<1>2. B # {} => \E m \in B : \A k \in B : m <= k
  <2> HIDE DEF B
  <2> QED BY <1>1, LeastNumber
<1> SUFFICES ASSUME B # {} PROVE FALSE
  OBVIOUS
<1>3. PICK m \in B : \A k \in B : m <= k
  BY <1>2
<1>4. m # 0 /\ m \in 1..n /\ m - 1 \in 0..n
  OBVIOUS
<1>5. m - 1 \notin B
  BY <1>3, <1>4
<1> QED
  BY <1>4, <1>5

LEMMA LastPosition ==
  ASSUME NEW n \in Nat, NEW s \in SUBSET (1..n), s # {}
  PROVE  Max(s) \in s /\ \A i \in s : i <= Max(s)
<1>0. IsFiniteSet(1..n)
  BY FS_Interval
<1>1. IsFiniteSet(s)
  BY <1>0, FS_Subset
<1>2. s \in SUBSET Nat
  OBVIOUS
<1> QED
  BY <1>1, <1>2, MaxIsLargest

LEMMA LastOfPrefix ==
  ASSUME NEW n \in Nat, NEW m \in 1..n
  PROVE  /\ 1..m \in SUBSET (1..n) /\ 1..m # {}
         /\ Max(1..m) = m /\ (1..m) \ {m} = 1..(m - 1)
<1>1. 1..m \in SUBSET (1..n) /\ m \in 1..m
  OBVIOUS
<1>2. Max(1..m) \in 1..m /\ m <= Max(1..m)
  BY <1>1, LastPosition
<1> QED
  BY <1>1, <1>2

HasSmallest(D) == D # {} => \E s \in D : \A u \in D : u \subseteq s => u = s
LEMMA SmallestOf ==
  ASSUME NEW P, IsFiniteSet(P), NEW D \in SUBSET (SUBSET P)
  PROVE  HasSmallest(D)
BY SmallestSet DEF HasSmallest

\* Two functions of sets of positions that agree at the empty set, and agree
\* on a set if they agree on all but its last position, agree.
AgreeStepwise(n, g, h) ==
  /\ g[{}] = h[{}]
  /\ \A s \in SUBSET (1..n) : s # {} /\ g[s \ {Max(s)}] = h[s \ {Max(s)}] => g[s] = h[s]
LEMMA FoldsAgree ==
  ASSUME NEW n \in Nat, NEW g, NEW h, AgreeStepwise(n, g, h)
  PROVE  \A s \in SUBSET (1..n) : g[s] = h[s]
<1> DEFINE C == {s \in SUBSET (1..n) : g[s] # h[s]}
<1>1. C \in SUBSET (SUBSET (1..n))
  OBVIOUS
<1>0. IsFiniteSet(1..n)
  BY FS_Interval
<1>2. HasSmallest(C)
  <2> HIDE DEF C
  <2> QED BY <1>0, <1>1, SmallestOf
<1> SUFFICES ASSUME C # {} PROVE FALSE
  OBVIOUS
<1>3. PICK s \in C : \A u \in C : u \subseteq s => u = s
  BY <1>2 DEF HasSmallest
<1>4. s # {} /\ s \in SUBSET (1..n)
  BY DEF AgreeStepwise
<1>5. Max(s) \in s
  BY <1>4, LastPosition
<1>6. s \ {Max(s)} \notin C /\ s \ {Max(s)} \in SUBSET (1..n)
  BY <1>3, <1>4, <1>5
<1> QED
  BY <1>3, <1>4, <1>6 DEF AgreeStepwise

\* A fold over the positions 1..n that never leaves Q exists.
Folds(g, n, Q, q, step) ==
  /\ g \in [SUBSET (1..n) -> Q]
  /\ \A s \in SUBSET (1..n) : g[s] = IF s = {} THEN q ELSE step[Max(s)][g[s \ {Max(s)}]]

LEMMA FoldExists ==
  ASSUME NEW n \in Nat, NEW Q, NEW q \in Q, NEW step \in [1..n -> [Q -> Q]]
  PROVE  \E g : Folds(g, n, Q, q, step)
<1> DEFINE S == {k \in 0..n : \E g : Folds(g, k, Q, q, step)}
<1>1. 0 \in S
  <2> DEFINE g == [s \in SUBSET (1..0) |-> q]
  <2>1. \A s \in SUBSET (1..0) : s = {}
    OBVIOUS
  <2>2. Folds(g, 0, Q, q, step)
    BY <2>1 DEF Folds
  <2> QED
    BY <2>2
<1>2. ASSUME NEW k \in 1..n, k - 1 \in S PROVE k \in S
  <2>1. PICK h : Folds(h, k - 1, Q, q, step)
    BY <1>2
  <2> DEFINE g == [s \in SUBSET (1..k) |-> IF k \in s THEN step[k][h[s \ {k}]] ELSE h[s]]
  <2>2. \A s \in SUBSET (1..k) : /\ s \ {k} \in SUBSET (1..(k - 1))
                                 /\ k \notin s => s \in SUBSET (1..(k - 1))
    OBVIOUS
  <2>3. \A s \in SUBSET (1..k) : g[s] \in Q
    BY <2>1, <2>2 DEF Folds
  <2>4. ASSUME NEW s \in SUBSET (1..k)
        PROVE  g[s] = IF s = {} THEN q ELSE step[Max(s)][g[s \ {Max(s)}]]
    <3>1. CASE s = {}
      <4>1. {} \in SUBSET (1..(k - 1))
        OBVIOUS
      <4> QED BY <2>1, <3>1, <4>1 DEF Folds
    <3>2. CASE k \in s
      <4>1. k \in Nat
        OBVIOUS
      <4>2. Max(s) \in s /\ \A i \in s : i <= Max(s)
        BY <3>2, <4>1, LastPosition
      <4>3. Max(s) \in 1..k /\ k <= Max(s)
        BY <3>2, <4>2
      <4>5. Max(s) = k
        BY <4>1, <4>3
      <4>4. g[s \ {k}] = h[s \ {k}]
        OBVIOUS
      <4> QED BY <3>2, <4>4, <4>5
    <3>3. CASE s # {} /\ k \notin s
      <4>1. k - 1 \in Nat /\ s \in SUBSET (1..(k - 1))
        BY <2>2, <3>3
      <4>2. Max(s) \in s
        BY <3>3, <4>1, LastPosition
      <4>3. g[s] = h[s] /\ g[s \ {Max(s)}] = h[s \ {Max(s)}]
        BY <3>3
      <4> QED BY <2>1, <3>3, <4>1, <4>3 DEF Folds
    <3> QED BY <3>1, <3>2, <3>3
  <2>5. Folds(g, k, Q, q, step)
    <3> HIDE DEF g
    <3>1. g \in [SUBSET (1..k) -> Q]
      BY <2>3 DEF g
    <3> QED BY <2>4, <3>1 DEF Folds
  <2> QED
    BY <2>5
<1>3. \A i \in 0..n : i \in S
  <2> HIDE DEF S
  <2> QED BY <1>1, <1>2, Climbing
<1> QED
  BY <1>3

Extended(a, b) == Len(a) <= Len(b) /\ \A k \in 1..Len(a) : b[k] = a[k]

\* The joined sequences, one more each time.
Joins(R, g, n, seqs) ==
  /\ g \in [0..n -> Seq(R)] /\ g[0] = <<>>
  /\ \A i \in 1..n : g[i] = g[i - 1] \o seqs[i]

LEMMA JoinsExist ==
  ASSUME NEW R, NEW n \in Nat, NEW seqs, \A i \in 1..n : seqs[i] \in Seq(R)
  PROVE  \E g : Joins(R, g, n, seqs)
<1> DEFINE S == {k \in 0..n : \E g : Joins(R, g, k, seqs)}
<1>1. 0 \in S
  <2>1. PICK g : g = [i \in 0..0 |-> <<>>]
    OBVIOUS
  <2>2. g \in [0..0 -> Seq(R)] /\ g[0] = <<>>
    BY <2>1
  <2>3. Joins(R, g, 0, seqs)
    BY <2>2 DEF Joins
  <2> QED BY <2>3
<1>2. ASSUME NEW k \in 1..n, k - 1 \in S PROVE k \in S
  <2>1. PICK h : Joins(R, h, k - 1, seqs)
    BY <1>2
  <2>2. h[k - 1] \o seqs[k] \in Seq(R)
    <3>1. h[k - 1] \in Seq(R) /\ seqs[k] \in Seq(R)
      BY <2>1 DEF Joins
    <3> QED BY <3>1, ConcatProperties
  <2>3. PICK g : g = [i \in 0..k |-> IF i = k THEN h[k - 1] \o seqs[k] ELSE h[i]]
    OBVIOUS
  <2>4. \A i \in 0..k : i # k => i \in 0..(k - 1)
    OBVIOUS
  <2>5. g \in [0..k -> Seq(R)] /\ g[0] = <<>>
    BY <2>1, <2>2, <2>3, <2>4 DEF Joins
  <2>6. ASSUME NEW i \in 1..k PROVE g[i] = g[i - 1] \o seqs[i]
    <3>1. CASE i = k
      <4>1. i \in 0..k /\ i - 1 \in 0..k /\ i - 1 # k
        BY <3>1
      <4> QED BY <2>3, <3>1, <4>1
    <3>2. CASE i # k
      <4>1. i \in 0..k /\ i - 1 \in 0..k /\ i - 1 # k /\ i \in 1..(k - 1)
        BY <3>2
      <4>2. g[i] = h[i] /\ g[i - 1] = h[i - 1]
        BY <2>3, <3>2, <4>1
      <4> QED BY <2>1, <4>1, <4>2 DEF Joins
    <3> QED BY <3>1, <3>2
  <2>7. Joins(R, g, k, seqs)
    BY <2>5, <2>6 DEF Joins
  <2> QED BY <2>7
<1>3. \A k \in 0..n : k \in S
  <2> HIDE DEF S
  <2> QED BY <1>1, <1>2, Climbing
<1> QED
  BY <1>3

LEMMA FlattenUnfolded ==
  ASSUME NEW seqs, Len(seqs) # 0
  PROVE  FlattenSeq(seqs) =
           (CHOOSE f : f = [i \in 1..Len(seqs) |-> IF i = 1 THEN seqs[i] ELSE f[i - 1] \o seqs[i]])[Len(seqs)]
BY DEF FlattenSeq

LEMMA FlattenIsJoined ==
  ASSUME NEW R, NEW n \in Nat, NEW seqs, Len(seqs) = n, \A i \in 1..n : seqs[i] \in Seq(R),
         NEW g, Joins(R, g, n, seqs), n # 0
  PROVE  FlattenSeq(seqs) = g[n]
<1> DEFINE F(f) == f = [i \in 1..n |-> IF i = 1 THEN seqs[i] ELSE f[i - 1] \o seqs[i]]
           h == CHOOSE f : F(f)
<1>1. PICK w : w = [i \in 1..n |-> g[i]]
  OBVIOUS
<1>2. F(w)
  <2>1. ASSUME NEW i \in 1..n PROVE w[i] = IF i = 1 THEN seqs[i] ELSE w[i - 1] \o seqs[i]
    <3>1. w[i] = g[i] /\ g[i] = g[i - 1] \o seqs[i]
      BY <1>1 DEF Joins
    <3>2. CASE i = 1
      <4>1. i - 1 = 0 /\ g[0] = <<>> /\ seqs[i] \in Seq(R)
        BY <3>2 DEF Joins
      <4> QED BY <3>1, <3>2, <4>1, ConcatEmptySeq
    <3>3. CASE i # 1
      <4>1. i - 1 \in 1..n
        BY <3>3
      <4> QED BY <1>1, <3>1, <3>3, <4>1
    <3> QED BY <3>2, <3>3
  <2> QED BY <1>1, <2>1
<1>3. F(h)
  <2> HIDE DEF F
  <2> QED BY <1>2
<1>4. PICK k : k = h
  OBVIOUS
<1>5. \A i \in 1..n : k[i] = IF i = 1 THEN seqs[i] ELSE k[i - 1] \o seqs[i]
  <2> HIDE DEF h
  <2> QED BY <1>3, <1>4
<1>6. \A i \in 1..n : w[i] = IF i = 1 THEN seqs[i] ELSE w[i - 1] \o seqs[i]
  BY <1>2
<1> HIDE DEF h, F
<1> DEFINE S == {i \in 0..n : i # 0 => k[i] = w[i]}
<1>7. 0 \in S
  OBVIOUS
<1>8. ASSUME NEW i \in 1..n, i - 1 \in S PROVE i \in S
  <2>1. i # 1 => k[i - 1] = w[i - 1]
    BY <1>8
  <2>2. k[i] = w[i]
    BY <1>5, <1>6, <2>1
  <2> QED BY <2>2
<1>9. \A i \in 0..n : i \in S
  <2> HIDE DEF S
  <2> QED BY <1>7, <1>8, Climbing
<1>10. k[n] = w[n] /\ w[n] = g[n]
  <2>1. n \in S /\ n \in 1..n
    <3> HIDE DEF S
    <3> QED BY <1>9
  <2> QED BY <1>1, <2>1
<1>11. FlattenSeq(seqs) = h[n]
  BY FlattenUnfolded DEF h, F
<1> QED
  BY <1>4, <1>10, <1>11

LEMMA JoinsExtend ==
  ASSUME NEW R, NEW n \in Nat, NEW seqs, \A i \in 1..n : seqs[i] \in Seq(R), NEW g, Joins(R, g, n, seqs)
  PROVE  \A k \in 0..n : \A i \in 0..k : Extended(g[i], g[k])
<1> DEFINE S == {k \in 0..n : \A i \in 0..k : Extended(g[i], g[k])}
<1>1. \A i \in 0..n : g[i] \in Seq(R) /\ Len(g[i]) \in Nat /\ Extended(g[i], g[i])
  BY DEF Joins, Extended
<1>2. 0 \in S
  BY <1>1
<1>3. ASSUME NEW k \in 1..n, k - 1 \in S PROVE k \in S
  <2>0. k - 1 \in 0..n /\ k \in 0..n
    OBVIOUS
  <2>1. g[k] = g[k - 1] \o seqs[k] /\ seqs[k] \in Seq(R)
    BY DEF Joins
  <2>2. Extended(g[k - 1], g[k])
    <3>1. PICK a, b : a = g[k - 1] /\ b = seqs[k]
      OBVIOUS
    <3>2. a \in Seq(R) /\ b \in Seq(R) /\ Len(a) \in Nat /\ Len(b) \in Nat
      BY <1>1, <2>0, <2>1, <3>1
    <3>3. Len(a \o b) = Len(a) + Len(b) /\ \A i \in 1..Len(a) : (a \o b)[i] = a[i]
      BY <3>2
    <3>4. Extended(a, a \o b)
      BY <3>2, <3>3 DEF Extended
    <3> QED BY <2>1, <3>1, <3>4
  <2>3. ASSUME NEW i \in 0..k PROVE Extended(g[i], g[k])
    <3>1. CASE i = k
      BY <1>1, <2>0, <3>1
    <3>2. CASE i # k
      <4>1. Extended(g[i], g[k - 1])
        BY <1>3, <3>2
      <4>2. i \in 0..n
        OBVIOUS
      <4>3. Len(g[i]) \in Nat /\ Len(g[k - 1]) \in Nat /\ Len(g[k]) \in Nat
        BY <1>1, <2>0, <4>2
      <4>4. PICK a, b, d : a = g[i] /\ b = g[k - 1] /\ d = g[k]
        OBVIOUS
      <4>5. Extended(a, b) /\ Extended(b, d) /\ Len(a) \in Nat /\ Len(b) \in Nat /\ Len(d) \in Nat
        BY <2>2, <4>1, <4>3, <4>4
      <4>6. Extended(a, d)
        BY <4>5 DEF Extended
      <4> QED BY <4>4, <4>6
    <3> QED BY <3>1, <3>2
  <2> QED BY <2>3
<1>4. \A k \in 0..n : k \in S
  <2> HIDE DEF S
  <2> QED BY <1>2, <1>3, Climbing
<1> QED
  BY <1>4

------------------------------------------------------------------------------
(* Ingestion: the copy of a journal is a chain. *)

LEMMA StoredUnfolded ==
  ASSUME NEW q, NEW batch
  PROVE  FoldLeft(Stored, q, batch) =
           (CHOOSE g : g = [s \in SUBSET DOMAIN batch |->
              IF s = {} THEN q ELSE Stored(g[s \ {Max(s)}], batch[Max(s)])])[DOMAIN batch]
BY DEF FoldLeft, MapThenFoldSet

\* The copies a batch leads through, record by record.
Passes(f, n, q, batch) ==
  /\ f \in [0..n -> Seq(Records)] /\ f[0] = q
  /\ \A i \in 1..n : f[i] = Stored(f[i - 1], batch[i])

LEMMA PassesOnly ==
  ASSUME NEW n \in Nat, NEW m \in 0..n, NEW q, NEW a, NEW b, NEW f, NEW h, \A i \in 1..m : a[i] = b[i],
         Passes(f, n, q, a), Passes(h, m, q, b)
  PROVE  \A i \in 0..m : f[i] = h[i]
<1> DEFINE S == {i \in 0..m : f[i] = h[i]}
<1>1. 0 \in S
  BY DEF Passes
<1>2. ASSUME NEW i \in 1..m, i - 1 \in S PROVE i \in S
  <2>1. i \in 1..n /\ i \in 0..m
    OBVIOUS
  <2>2. f[i] = Stored(f[i - 1], a[i]) /\ h[i] = Stored(h[i - 1], b[i])
    BY <2>1 DEF Passes
  <2> QED
    BY <1>2, <2>1, <2>2
<1>3. \A i \in 0..m : i \in S
  <2> HIDE DEF S
  <2> QED BY <1>1, <1>2, Climbing
<1> QED
  BY <1>3

LEMMA BatchPasses ==
  ASSUME NEW n \in Nat, NEW batch, DOMAIN batch = 1..n, \A i \in 1..n : batch[i] \in Records,
         NEW q \in Seq(Records)
  PROVE  \E f : Passes(f, n, q, batch) /\ f[n] = FoldLeft(Stored, q, batch)
<1> DEFINE Q == Seq(Records)
           step == [i \in 1..n |-> [x \in Q |-> Stored(x, batch[i])]]
           F(g) == g = [s \in SUBSET DOMAIN batch |->
                     IF s = {} THEN q ELSE Stored(g[s \ {Max(s)}], batch[Max(s)])]
           h == CHOOSE g : F(g)
<1>1. step \in [1..n -> [Q -> Q]]
  BY DEF Stored
<1>2. PICK g : Folds(g, n, Q, q, step)
  <2> HIDE DEF step, Q
  <2>1. q \in Q BY DEF Q
  <2> QED BY <1>1, <2>1, FoldExists
<1>3. \A s \in SUBSET (1..n) : s # {} => Max(s) \in 1..n /\ s \ {Max(s)} \in SUBSET (1..n)
  BY LastPosition
<1>4. /\ g \in [SUBSET (1..n) -> Q] /\ g[{}] = q
      /\ \A s \in SUBSET (1..n) : s # {} => g[s] = Stored(g[s \ {Max(s)}], batch[Max(s)])
  <2>1. /\ g \in [SUBSET (1..n) -> Q]
        /\ \A s \in SUBSET (1..n) : g[s] = IF s = {} THEN q ELSE step[Max(s)][g[s \ {Max(s)}]]
    BY <1>2 DEF Folds
  <2>2. {} \in SUBSET (1..n)
    OBVIOUS
  <2>3. ASSUME NEW s \in SUBSET (1..n), s # {} PROVE g[s] = Stored(g[s \ {Max(s)}], batch[Max(s)])
    <3>1. Max(s) \in 1..n /\ g[s \ {Max(s)}] \in Q /\ g[s] = step[Max(s)][g[s \ {Max(s)}]]
      BY <1>3, <2>1, <2>3
    <3> QED BY <3>1
  <2> QED BY <2>1, <2>2, <2>3
<1>5. F(g)
  BY <1>4
<1>6. F(h)
  <2> HIDE DEF F
  <2> QED BY <1>5
<1>7. /\ h[{}] = q
      /\ \A s \in SUBSET (1..n) : s # {} => h[s] = Stored(h[s \ {Max(s)}], batch[Max(s)])
  <2> HIDE DEF h
  <2> QED BY <1>6
<1>8. \A s \in SUBSET (1..n) : g[s] = h[s]
  <2> HIDE DEF h, step, Q, F
  <2>1. PICK k : k = h
    OBVIOUS
  <2>2. \A s \in SUBSET (1..n) : s # {} /\ g[s \ {Max(s)}] = k[s \ {Max(s)}] => g[s] = k[s]
    BY <1>4, <1>7, <2>1
  <2>3. g[{}] = k[{}]
    BY <1>4, <1>7, <2>1
  <2>4. \A s \in SUBSET (1..n) : g[s] = k[s]
    <3>1. AgreeStepwise(n, g, k)
      BY <2>2, <2>3 DEF AgreeStepwise
    <3> QED BY <3>1, FoldsAgree
  <2> QED BY <2>1, <2>4
<1> DEFINE f == [i \in 0..n |-> g[1..i]]
<1>9. Passes(f, n, q, batch)
  <2>1. \A i \in 0..n : 1..i \in SUBSET (1..n)
    OBVIOUS
  <2>2. f \in [0..n -> Seq(Records)]
    BY <1>4, <2>1
  <2>3. f[0] = q
    <3>1. 1..0 = {}
      OBVIOUS
    <3> QED BY <1>4, <3>1
  <2>4. ASSUME NEW i \in 1..n PROVE f[i] = Stored(f[i - 1], batch[i])
    <3>1. 1..i \in SUBSET (1..n) /\ 1..i # {} /\ Max(1..i) = i /\ (1..i) \ {i} = 1..(i - 1)
      BY <2>4, LastOfPrefix
    <3>2. g[1..i] = Stored(g[1..(i - 1)], batch[i])
      BY <1>4, <3>1
    <3>3. i \in 0..n /\ i - 1 \in 0..n
      OBVIOUS
    <3> QED BY <3>2, <3>3
  <2> HIDE DEF f
  <2> QED BY <2>2, <2>3, <2>4 DEF Passes
<1>10. f[n] = FoldLeft(Stored, q, batch)
  <2> HIDE DEF h, step, Q, F
  <2>1. g[1..n] = h[1..n] /\ f[n] = g[1..n]
    <3>1. 1..n \in SUBSET (1..n) /\ n \in 0..n
      OBVIOUS
    <3> QED BY <1>8, <3>1
  <2>2. FoldLeft(Stored, q, batch) = h[DOMAIN batch]
    BY StoredUnfolded DEF h, F
  <2> HIDE DEF f
  <2> QED BY <2>1, <2>2
<1> QED
  BY <1>9, <1>10

LEMMA PrefixPasses ==
  ASSUME NEW batch \in Seq(Records), NEW q \in Seq(Records), NEW i \in 1..Len(batch),
         NEW f, Passes(f, Len(batch), q, batch)
  PROVE  FoldLeft(Stored, q, SubSeq(batch, 1, i - 1)) = f[i - 1]
<1>1. PICK sub : sub = SubSeq(batch, 1, i - 1)
  OBVIOUS
<1>2. i - 1 \in Nat /\ i - 1 \in 0..Len(batch) /\ Len(batch) \in Nat
  OBVIOUS
<1>3. sub \in Seq(Records) /\ DOMAIN sub = 1..(i - 1) /\ \A k \in 1..(i - 1) : batch[k] = sub[k]
  BY <1>1
<1>4. \A k \in 1..(i - 1) : sub[k] \in Records
  BY <1>3
<1>5. PICK h : Passes(h, i - 1, q, sub) /\ h[i - 1] = FoldLeft(Stored, q, sub)
  BY <1>2, <1>3, <1>4, BatchPasses
<1>6. \A k \in 0..(i - 1) : f[k] = h[k]
  BY <1>2, <1>3, <1>5, PassesOnly
<1> QED
  BY <1>1, <1>2, <1>5, <1>6

\* The chain of a copy, position by position.
Chain(copy) ==
  \A i \in 1..Len(copy) : /\ PrevOf[copy[i]] = IF i = 1 THEN None ELSE copy[i - 1]
                          /\ \A j \in 1..(i - 1) : IdOf[copy[j]] # IdOf[copy[i]]

LEMMA ChainIsChain ==
  ASSUME NEW copy \in Seq(Records)
  PROVE  Journal!IsChain(copy) <=> Chain(copy)
<1>1. ASSUME NEW i \in 1..Len(copy)
      PROVE  Journal!Extends1(SubSeq(copy, 1, i - 1), copy[i]) <=>
               /\ PrevOf[copy[i]] = IF i = 1 THEN None ELSE copy[i - 1]
               /\ \A j \in 1..(i - 1) : IdOf[copy[j]] # IdOf[copy[i]]
  <2>1. PICK sub : sub = SubSeq(copy, 1, i - 1)
    OBVIOUS
  <2>2. sub \in Seq(Records) /\ Len(sub) = i - 1 /\ \A k \in 1..(i - 1) : sub[k] = copy[k]
    BY <2>1
  <2>3. Journal!Last(sub) = IF i = 1 THEN None ELSE copy[i - 1]
    <3>1. sub = <<>> <=> i = 1
      BY <2>2
    <3> QED BY <2>2, <3>1 DEF Journal!Last
  <2>4. DOMAIN sub = 1..(i - 1)
    BY <2>2
  <2> QED
    BY <2>1, <2>2, <2>3, <2>4 DEF Journal!Extends1
<1>2. DOMAIN copy = 1..Len(copy)
  OBVIOUS
<1> QED
  BY <1>1, <1>2 DEF Journal!IsChain, Chain

LEMMA ChainGrows ==
  ASSUME NEW q \in Seq(Records), Chain(q), NEW r \in Records, ~Conflicting(q, r)
  PROVE  /\ Stored(q, r) \in Seq(Records) /\ Stored(q, r) # <<>>
         /\ Chain(Stored(q, r)) /\ Extended(q, Stored(q, r))
<1>1. CASE r \in Range(q)
  <2>1. PICK i \in DOMAIN q : r = q[i]
    BY <1>1 DEF Range
  <2>2. q # <<>> /\ Stored(q, r) = q
    BY <1>1, <2>1 DEF Stored
  <2> QED
    BY <2>2 DEF Extended
<1>2. CASE r \notin Range(q)
  <2>1. \A i \in 1..Len(q) : q[i] # r /\ IdOf[q[i]] # IdOf[r]
    BY <1>2 DEF Range, Conflicting
  <2>2. PrevOf[r] = IF q = <<>> THEN None ELSE q[Len(q)]
    BY <1>2 DEF Conflicting, Last
  <2>3. PICK next : next = Append(q, r)
    OBVIOUS
  <2>4. /\ next \in Seq(Records) /\ next # <<>> /\ Len(next) = Len(q) + 1
        /\ \A i \in 1..Len(q) : next[i] = q[i]
        /\ next[Len(q) + 1] = r
    BY <2>3
  <2>5. ASSUME NEW i \in 1..Len(next)
        PROVE  /\ PrevOf[next[i]] = IF i = 1 THEN None ELSE next[i - 1]
               /\ \A j \in 1..(i - 1) : IdOf[next[j]] # IdOf[next[i]]
    <3>1. CASE i \in 1..Len(q)
      <4>1. \A j \in 1..i : next[j] = q[j]
        BY <2>4, <3>1
      <4> QED BY <3>1, <4>1 DEF Chain
    <3>2. CASE i = Len(q) + 1
      <4>1. i = 1 <=> q = <<>>
        BY <3>2
      <4> QED BY <2>1, <2>2, <2>4, <3>2, <4>1
    <3> QED BY <2>4, <3>1, <3>2
  <2>6. Stored(q, r) = next
    BY <1>2, <2>3 DEF Stored
  <2> QED
    BY <2>4, <2>5, <2>6 DEF Chain, Extended
<1> QED
  BY <1>1, <1>2

\* A batch that is accepted leaves a chain that extends the copy.
LEMMA BatchExtends ==
  ASSUME NEW batch \in Seq(Records) \ {<<>>}, NEW q \in Seq(Records), Chain(q),
         \A i \in DOMAIN batch : ~Conflicting(FoldLeft(Stored, q, SubSeq(batch, 1, i - 1)), batch[i])
  PROVE  LET next == FoldLeft(Stored, q, batch)
         IN  next \in Seq(Records) /\ next # <<>> /\ Chain(next) /\ Extended(q, next)
<1>1. PICK n : n = Len(batch)
  OBVIOUS
<1>2. n \in Nat /\ n >= 1 /\ DOMAIN batch = 1..n /\ \A i \in 1..n : batch[i] \in Records
  BY <1>1
<1>3. PICK f : Passes(f, n, q, batch) /\ f[n] = FoldLeft(Stored, q, batch)
  BY <1>2, BatchPasses
<1>4. \A i \in 1..n : ~Conflicting(f[i - 1], batch[i])
  BY <1>1, <1>2, <1>3, PrefixPasses
<1> DEFINE S == {i \in 0..n : /\ f[i] \in Seq(Records) /\ Chain(f[i]) /\ Extended(q, f[i])
                              /\ i >= 1 => f[i] # <<>>}
<1>5. 0 \in S
  BY <1>2, <1>3 DEF Passes, Extended
<1>6. ASSUME NEW i \in 1..n, i - 1 \in S PROVE i \in S
  <2>1. f[i] = Stored(f[i - 1], batch[i]) /\ f[i - 1] \in Seq(Records) /\ Chain(f[i - 1]) /\ Extended(q, f[i - 1])
    BY <1>3, <1>6 DEF Passes
  <2>2. /\ f[i] \in Seq(Records) /\ f[i] # <<>>
        /\ Chain(f[i]) /\ Extended(f[i - 1], f[i])
    BY <1>2, <1>4, <2>1, ChainGrows
  <2>3. Extended(q, f[i])
    BY <2>1, <2>2 DEF Extended
  <2> QED
    BY <2>2, <2>3
<1>7. \A i \in 0..n : i \in S
  <2> HIDE DEF S
  <2> QED BY <1>2, <1>5, <1>6, Climbing
<1> QED
  BY <1>2, <1>3, <1>7

SourceRows == [collection : {"registered", "current", "lagging", "complete"},
               execution : {"unknown", "active", "completed"},
               outcome : {"unavailable", "pending", "success"},
               acknowledged : Records \cup {None}, terminal : Records \cup {None}]
JournalInv ==
  /\ source \in SourceRows /\ records \in Seq(Records)
  /\ Chain(records)
  /\ CompletionIsAcknowledged

LEMMA JournalInvInit == TrajectoryInit => JournalInv
<1> SUFFICES ASSUME TrajectoryInit PROVE JournalInv
  OBVIOUS
<1>1. source \in SourceRows /\ records = <<>> /\ source.acknowledged = None /\ source.collection = "registered"
  BY DEF TrajectoryInit, SourceRows
<1>2. records \in Seq(Records) /\ Chain(records)
  BY <1>1 DEF Chain
<1> QED
  BY <1>1, <1>2 DEF JournalInv, CompletionIsAcknowledged

LEMMA JournalInvIngest ==
  ASSUME JournalInv, NEW batch \in Batches, Ingest(batch)
  PROVE  JournalInv' /\ Extended(records, records')
<1>1. /\ records' = FoldLeft(Stored, records, batch)
      /\ source' = [source EXCEPT !.acknowledged = Last(records'), !.collection = "current"]
      /\ \A i \in DOMAIN batch : ~Conflicting(FoldLeft(Stored, records, SubSeq(batch, 1, i - 1)), batch[i])
  BY DEF Ingest
<1>2. batch \in Seq(Records) \ {<<>>}
  BY RecordsAssumption
<1>3. records' \in Seq(Records) /\ records' # <<>> /\ Chain(records') /\ Extended(records, records')
  BY <1>1, <1>2, BatchExtends DEF JournalInv
<1>4. Last(records') \in Records
  BY <1>3 DEF Last
<1>5. source' \in SourceRows /\ source'.acknowledged = Last(records') /\ source'.collection = "current"
  BY <1>1, <1>4 DEF JournalInv, SourceRows
<1>6. CompletionIsAcknowledged'
  BY <1>3, <1>5 DEF CompletionIsAcknowledged
<1>7. Chain(records)'
  BY <1>3 DEF Chain
<1> QED
  BY <1>3, <1>5, <1>6, <1>7 DEF JournalInv

LEMMA JournalInvReport ==
  ASSUME JournalInv, NEW collection \in {"lagging", "complete"}, NEW execution \in {"active", "completed"},
         NEW outcome \in {"pending", "success"}, NEW terminal \in Records, NEW cited,
         Report(collection, execution, outcome, cited, terminal)
  PROVE  JournalInv' /\ records' = records
<1>1. /\ source' = [source EXCEPT !.collection = collection, !.execution = execution,
                                  !.outcome = outcome, !.terminal = terminal]
      /\ records' = records
      /\ collection = "complete" => terminal = source.acknowledged
  BY DEF Report
<1>2. /\ source' \in SourceRows /\ source'.acknowledged = source.acknowledged
      /\ source'.collection = collection /\ source'.terminal = terminal
  BY <1>1 DEF JournalInv, SourceRows
<1> QED
  BY <1>1, <1>2 DEF JournalInv, CompletionIsAcknowledged, Chain

\* What leaves the source's tables as they are.
LEMMA JournalInvUnchanged ==
  ASSUME JournalInv, source' = source, records' = records
  PROVE  JournalInv'
BY DEF JournalInv, CompletionIsAcknowledged, Chain

LEMMA ReaderReads ==
  ASSUME NEW c \in Readers, Reader(c)
  PROVE  UNCHANGED evidence
<1> USE DEF Reads
<1>1. CASE \E t \in Trajectories : Freeze(c, t)
  BY <1>1 DEF Freeze, Begin
<1>2. CASE \E selection \in Selections : FreezeDataset(c, selection)
  BY <1>2 DEF FreezeDataset, Begin
<1>3. CASE GetImported(c)
  BY <1>3 DEF GetImported
<1>4. CASE GetNative(c)
  BY <1>4 DEF GetNative
<1>5. CASE Replay(c)
  BY <1>5 DEF Replay
<1>6. CASE Scores(c)
  BY <1>6 DEF Scores
<1>7. CASE Page(c)
  BY <1>7 DEF Page
<1>8. CASE More(c)
  BY <1>8 DEF More
<1>9. CASE Check(c)
  BY <1>9 DEF Check
<1>10. CASE Insert(c)
  BY <1>10 DEF Insert
<1>11. CASE RecordDataset(c)
  BY <1>11 DEF RecordDataset
<1>12. CASE Abandon(c)
  BY <1>12 DEF Abandon
<1> QED
  BY <1>1, <1>2, <1>3, <1>4, <1>5, <1>6, <1>7, <1>8, <1>9, <1>10, <1>11, <1>12 DEF Reader

LEMMA JournalInvNext ==
  ASSUME JournalInv, [TrajectoryNext]_trajectoryVars
  PROVE  JournalInv' /\ (records' = records \/ Extended(records, records'))
<1>1. CASE Importer
  <2>1. ASSUME NEW batch \in Batches, Ingest(batch)
        PROVE  JournalInv' /\ (records' = records \/ Extended(records, records'))
    BY <2>1, JournalInvIngest
  <2>2. ASSUME NEW collection \in {"lagging", "complete"}, NEW execution \in {"active", "completed"},
               NEW outcome \in {"pending", "success"}, NEW terminal \in Records, NEW cited,
               Report(collection, execution, outcome, cited, terminal)
        PROVE  JournalInv' /\ (records' = records \/ Extended(records, records'))
    BY <2>2, JournalInvReport
  <2> QED BY <1>1, <2>1, <2>2 DEF Importer
<1>2. CASE Happens \/ Completes \/ Scored
  BY <1>2, JournalInvUnchanged DEF Happens, Completes, Scored, Appends
<1>3. CASE \E c \in Readers : Reader(c)
  BY <1>3, ReaderReads, JournalInvUnchanged DEF evidence
<1>4. CASE UNCHANGED trajectoryVars
  BY <1>4, JournalInvUnchanged DEF trajectoryVars, evidence
<1> QED
  BY <1>1, <1>2, <1>3, <1>4 DEF TrajectoryNext

LEMMA JournalSteps ==
  ASSUME JournalInv, JournalInv', records' = records \/ Extended(records, records')
  PROVE  [Journal!Next]_records
<1> SUFFICES ASSUME records' # records PROVE Journal!Next
  OBVIOUS
<1>1. /\ records \in Seq(Records) /\ records' \in Seq(Records) /\ Chain(records')
      /\ Extended(records, records')
  BY DEF JournalInv, Chain
<1>2. SubSeq(records', 1, Len(records)) = records
  <2>1. PICK sub : sub = SubSeq(records', 1, Len(records))
    OBVIOUS
  <2>2. sub \in Seq(Records) /\ Len(sub) = Len(records) /\ \A i \in 1..Len(records) : sub[i] = records'[i]
    BY <1>1, <2>1 DEF Extended
  <2>3. \A i \in 1..Len(sub) : sub[i] = records[i]
    BY <1>1, <2>2 DEF Extended
  <2> QED
    BY <1>1, <2>1, <2>2, <2>3, SeqEqual
<1>3. Len(records') > Len(records)
  <2> SUFFICES ASSUME Len(records') = Len(records) PROVE FALSE
    BY <1>1 DEF Extended
  <2>1. SubSeq(records', 1, Len(records')) = records'
    BY <1>1, SubSeqFull
  <2> QED
    BY <1>2, <2>1
<1>4. Journal!IsChain(records')
  BY <1>1, ChainIsChain
<1> QED
  BY <1>2, <1>3, <1>4 DEF Journal!Next

\* Batches that are repeated, reordered, forked or sent after completion
\* leave a copy that only grows, along one chain of the source's journal, and
\* whose end is what the source is told was collected.
THEOREM CopyImplementsJournal == TrajectorySpec => ImplementsJournal
<1>1. TrajectoryInit => JournalInv /\ Journal!Init
  BY JournalInvInit DEF TrajectoryInit, Journal!Init
<1>2. JournalInv /\ [TrajectoryNext]_trajectoryVars => JournalInv' /\ [Journal!Next]_records
  BY JournalInvNext, JournalSteps
<1>3. JournalInv => CompletionIsAcknowledged
  BY DEF JournalInv
<1> QED
  BY <1>1, <1>2, <1>3, PTL DEF TrajectorySpec, ImplementsJournal, Journal!Spec

------------------------------------------------------------------------------
(* Snapshots: what the pages of a growing log add up to. *)

\* The positions up to i at which a log says v.
Times(v, entries, i) == {j \in 1..i : entries[j] = v}
SegmentAt(t, entries, i) == IF t = "native" THEN 1 + Cardinality(Times("session.resumed", entries, i)) ELSE 1
RowAt(t, entries, i) ==
  [record |-> entries[i], cause |-> IF i = 1 THEN None ELSE entries[i - 1], segment |-> SegmentAt(t, entries, i)]
\* The first n records of a trajectory as a stream must show them.
Exact(t, entries, n) == [i \in 1..n |-> RowAt(t, entries, i)]

EventKinds == {"session.created", "session.resumed", "transition.committed", "report"}
Entries == Records \cup EventKinds
Rows == [record : Entries, cause : Entries \cup {None}, segment : Nat]

LEMMA TimesFinite ==
  ASSUME NEW v, NEW entries, NEW i \in Nat
  PROVE  /\ IsFiniteSet(Times(v, entries, i)) /\ Cardinality(Times(v, entries, i)) \in Nat
<1>1. IsFiniteSet(1..i)
  BY FS_Interval
<1>2. Times(v, entries, i) \in SUBSET (1..i)
  BY DEF Times
<1>3. IsFiniteSet(Times(v, entries, i))
  BY <1>1, <1>2, FS_Subset
<1> QED
  BY <1>3, FS_CardinalityType

\* A count over a page goes on where the count before the page ended.
IsPage(page, n, entries, a) == \A j \in 1..n : page[j] = entries[a + j]
LEMMA TimesGoOn ==
  ASSUME NEW v, NEW entries, NEW page, NEW a \in Nat, NEW n \in Nat, IsPage(page, n, entries, a)
  PROVE  \A i \in 0..n : Cardinality(Times(v, entries, a + i))
                           = Cardinality(Times(v, entries, a)) + Cardinality(Times(v, page, i))
<1> DEFINE S == {i \in 0..n : Cardinality(Times(v, entries, a + i))
                                = Cardinality(Times(v, entries, a)) + Cardinality(Times(v, page, i))}
<1>1. 0 \in S
  <2>1. Times(v, page, 0) = {}
    BY DEF Times
  <2>2. Cardinality(Times(v, page, 0)) = 0
    BY <2>1, FS_EmptySet
  <2>3. Cardinality(Times(v, entries, a)) \in Nat
    BY TimesFinite
  <2> QED BY <2>2, <2>3
<1>2. ASSUME NEW i \in 1..n, i - 1 \in S PROVE i \in S
  <2> DEFINE before == Times(v, entries, a + (i - 1))
             shown == Times(v, page, i - 1)
  <2>1. i - 1 \in Nat /\ a + (i - 1) \in Nat /\ page[i] = entries[a + i]
    BY DEF IsPage
  <2>2. IsFiniteSet(before) /\ IsFiniteSet(shown) /\ Cardinality(before) \in Nat /\ Cardinality(shown) \in Nat
        /\ Cardinality(Times(v, entries, a)) \in Nat
    BY <2>1, TimesFinite
  <2>3. Cardinality(before) = Cardinality(Times(v, entries, a)) + Cardinality(shown)
    BY <1>2
  <2>4. CASE page[i] = v
    <3>0. 1..(a + i) = 1..(a + (i - 1)) \cup {a + i} /\ a + i \notin 1..(a + (i - 1)) /\ entries[a + i] = v
      BY <2>1, <2>4
    <3>1. Times(v, entries, a + i) = before \cup {a + i} /\ a + i \notin before
      BY <3>0 DEF Times
    <3>2. Times(v, page, i) = shown \cup {i} /\ i \notin shown
      BY <2>4 DEF Times
    <3> HIDE DEF before, shown
    <3>3. Cardinality(Times(v, entries, a + i)) = Cardinality(before) + 1
      BY <2>2, <3>1, FS_AddElement
    <3>4. Cardinality(Times(v, page, i)) = Cardinality(shown) + 1
      BY <2>2, <3>2, FS_AddElement
    <3> QED BY <2>2, <2>3, <3>3, <3>4
  <2>5. CASE page[i] # v
    <3>1. Times(v, entries, a + i) = before
      BY <2>1, <2>5 DEF Times
    <3>2. Times(v, page, i) = shown
      BY <2>5 DEF Times
    <3> QED BY <2>3, <3>1, <3>2
  <2> QED BY <2>4, <2>5
<1>3. \A i \in 0..n : i \in S
  <2> HIDE DEF S
  <2> QED BY <1>1, <1>2, Climbing
<1> QED
  BY <1>3

LEMMA ExactRows ==
  ASSUME NEW t, NEW entries \in Seq(Entries), NEW n \in 0..Len(entries)
  PROVE  /\ Exact(t, entries, n) \in Seq(Rows) /\ Len(Exact(t, entries, n)) = n
         /\ \A i \in 1..n : Exact(t, entries, n)[i] = RowAt(t, entries, i)
<1>1. ASSUME NEW i \in 1..n PROVE RowAt(t, entries, i) \in Rows
  <2>1. entries[i] \in Entries /\ (i # 1 => entries[i - 1] \in Entries)
    OBVIOUS
  <2>2. SegmentAt(t, entries, i) \in Nat
    <3>1. i \in Nat
      OBVIOUS
    <3>2. Cardinality(Times("session.resumed", entries, i)) \in Nat
      BY <3>1, TimesFinite
    <3> QED BY <3>2 DEF SegmentAt
  <2> QED BY <2>1, <2>2 DEF RowAt, Rows
<1>2. PICK f : f = [i \in 1..n |-> RowAt(t, entries, i)]
  OBVIOUS
<1>3. f \in [1..n -> Rows] /\ n \in Nat
  BY <1>1, <1>2
<1>4. f \in Seq(Rows) /\ Len(f) = n
  BY <1>3
<1> QED
  BY <1>2, <1>4 DEF Exact

\* What was shown stays true while the log grows.
LEMMA ExactStays ==
  ASSUME NEW t, NEW a, NEW b, Extended(a, b), Len(a) \in Nat, NEW n \in 0..Len(a)
  PROVE  Exact(t, b, n) = Exact(t, a, n)
<1>1. ASSUME NEW i \in 1..n PROVE RowAt(t, b, i) = RowAt(t, a, i)
  <2>1. b[i] = a[i] /\ (i # 1 => b[i - 1] = a[i - 1])
    BY DEF Extended
  <2>2. Times("session.resumed", b, i) = Times("session.resumed", a, i)
    BY DEF Extended, Times
  <2> QED
    BY <2>1, <2>2 DEF RowAt, SegmentAt
<1> QED
  BY <1>1 DEF Exact

LEMMA PageOfLog ==
  ASSUME NEW entries \in Seq(Entries), NEW cursor \in 0..Len(entries)
  PROVE  LET page == PageAfter(entries, cursor)
         IN  /\ page \in Seq(Entries) /\ Len(page) \in Nat /\ cursor + Len(page) \in cursor..Len(entries)
             /\ page = <<>> <=> cursor = Len(entries)
             /\ \A i \in 1..Len(page) : page[i] = entries[cursor + i]
<1>1. PICK last : last = Least(cursor + PageSize, Len(entries))
  OBVIOUS
<1>2. last \in cursor..Len(entries) /\ (last = cursor <=> cursor = Len(entries))
  BY <1>1, RecordsAssumption DEF Least
<1>3. PICK page : page = SubSeq(entries, cursor + 1, last)
  OBVIOUS
<1>4. /\ page \in Seq(Entries) /\ Len(page) = last - cursor
      /\ \A i \in 1..Len(page) : page[i] = entries[cursor + i]
  <2>1. \A i \in (cursor + 1)..last : entries[i] \in Entries
    BY <1>2
  <2>2. cursor + 1 \in Int /\ last \in Int
    BY <1>2
  <2>3. /\ page \in Seq(Entries)
        /\ Len(page) = IF cursor + 1 <= last THEN last - (cursor + 1) + 1 ELSE 0
        /\ \A i \in 1..(last - (cursor + 1) + 1) : page[i] = entries[cursor + 1 + i - 1]
    <3>1. PICK m, n : m = cursor + 1 /\ n = last
      OBVIOUS
    <3>2. m \in Int /\ n \in Int /\ page = SubSeq(entries, m, n) /\ \A i \in m..n : entries[i] \in Entries
      BY <1>3, <2>1, <2>2, <3>1
    <3>3. /\ page \in Seq(Entries)
          /\ Len(page) = IF m <= n THEN n - m + 1 ELSE 0
          /\ \A i \in 1..(n - m + 1) : page[i] = entries[m + i - 1]
      BY <3>2, SubSeqProperties
    <3> QED BY <3>1, <3>3
  <2>4. Len(page) = last - cursor
    BY <1>2, <2>3
  <2> QED BY <1>2, <2>3, <2>4
<1>5. page = <<>> <=> Len(page) = 0
  BY <1>4
<1>6. page = PageAfter(entries, cursor)
  BY <1>1, <1>3 DEF PageAfter
<1>7. Len(page) \in Nat /\ cursor + Len(page) \in cursor..Len(entries) /\ (page = <<>> <=> cursor = Len(entries))
  BY <1>2, <1>4, <1>5
<1> QED
  BY <1>4, <1>6, <1>7

LEMMA ProjectionRow ==
  ASSUME NEW t \in Trajectories, NEW cursor \in Nat, NEW page \in Seq(Entries),
         \A i \in 1..Len(page) : page[i] = Log(t)[cursor + i], NEW i \in 1..Len(page)
  PROVE  Projection(t, cursor + 1, page)[i] = RowAt(t, Log(t), cursor + i)
<1>1. DOMAIN page = 1..Len(page) /\ cursor + 1 - 1 = cursor /\ (cursor + 1 > 1 <=> cursor # 0)
  OBVIOUS
<1>2. Projection(t, cursor + 1, page)[i] =
        [record |-> page[i],
         cause |-> IF i > 1 THEN page[i - 1] ELSE IF cursor + 1 > 1 THEN Log(t)[cursor + 1 - 1] ELSE None,
         segment |-> IF t = "native"
                     THEN 1 + Cardinality(Times("session.resumed", events, cursor + 1 - 1))
                            + Cardinality(Times("session.resumed", page, i))
                     ELSE 1]
  BY <1>1 DEF Projection, Times
<1>3. page[i] = Log(t)[cursor + i]
  OBVIOUS
<1>4. (IF i > 1 THEN page[i - 1] ELSE IF cursor + 1 > 1 THEN Log(t)[cursor + 1 - 1] ELSE None)
        = (IF cursor + i = 1 THEN None ELSE Log(t)[cursor + i - 1])
  <2>1. CASE i > 1
    <3>1. i - 1 \in 1..Len(page) /\ cursor + (i - 1) = cursor + i - 1 /\ cursor + i # 1
      BY <2>1
    <3> QED BY <2>1, <3>1
  <2>2. CASE ~(i > 1)
    <3>1. i = 1
      BY <2>2
    <3> QED BY <3>1, <1>1
  <2> QED BY <2>1, <2>2
<1>5. ASSUME t = "native"
      PROVE  1 + Cardinality(Times("session.resumed", events, cursor + 1 - 1))
               + Cardinality(Times("session.resumed", page, i))
             = 1 + Cardinality(Times("session.resumed", Log(t), cursor + i))
  <2>1. Log(t) = events
    BY <1>5 DEF Log
  <2>2. Len(page) \in Nat /\ IsPage(page, Len(page), events, cursor)
    BY <2>1 DEF IsPage
  <2>3. i \in 0..Len(page)
    OBVIOUS
  <2>4. Cardinality(Times("session.resumed", events, cursor + i))
          = Cardinality(Times("session.resumed", events, cursor)) + Cardinality(Times("session.resumed", page, i))
    BY <2>2, <2>3, TimesGoOn
  <2>5. /\ Cardinality(Times("session.resumed", events, cursor)) \in Nat
        /\ Cardinality(Times("session.resumed", page, i)) \in Nat
    <3>1. i \in Nat
      OBVIOUS
    <3> QED BY <3>1, TimesFinite
  <2> QED BY <2>1, <2>4, <2>5
<1> QED
  BY <1>2, <1>3, <1>4, <1>5 DEF RowAt, SegmentAt

\* A page read at the cursor continues what has been streamed up to it.
Continues(t, cursor, page) ==
  /\ Len(page) \in Nat /\ cursor + Len(page) \in cursor..Len(Log(t))
  /\ page = <<>> <=> cursor = Len(Log(t))
  /\ Exact(t, Log(t), cursor) \o Projection(t, cursor + 1, page) = Exact(t, Log(t), cursor + Len(page))
LEMMA ProjectionContinues ==
  ASSUME NEW t \in Trajectories, Log(t) \in Seq(Entries), NEW cursor \in 0..Len(Log(t)),
         NEW page, page = PageAfter(Log(t), cursor)
  PROVE  Continues(t, cursor, page)
<1>1. /\ page \in Seq(Entries) /\ Len(page) \in Nat /\ cursor + Len(page) \in cursor..Len(Log(t))
      /\ page = <<>> <=> cursor = Len(Log(t))
      /\ \A i \in 1..Len(page) : page[i] = Log(t)[cursor + i]
  BY PageOfLog
<1>2. PICK a : a = Exact(t, Log(t), cursor)
  OBVIOUS
<1>3. PICK m : m = cursor + Len(page)
  OBVIOUS
<1>4. m \in 0..Len(Log(t))
  BY <1>1, <1>3
<1>5. PICK b : b = Exact(t, Log(t), m)
  OBVIOUS
<1>6. PICK p : p = Projection(t, cursor + 1, page)
  OBVIOUS
<1>7. a \in Seq(Rows) /\ Len(a) = cursor /\ \A i \in 1..cursor : a[i] = RowAt(t, Log(t), i)
  BY <1>2, ExactRows
<1>8. b \in Seq(Rows) /\ Len(b) = m /\ \A i \in 1..m : b[i] = RowAt(t, Log(t), i)
  BY <1>4, <1>5, ExactRows
<1>9. \A i \in 1..Len(page) : p[i] = b[cursor + i]
  <2>1. \A i \in 1..Len(page) : p[i] = RowAt(t, Log(t), cursor + i)
    <3>1. cursor \in Nat
      OBVIOUS
    <3> QED BY <1>1, <1>6, <3>1, ProjectionRow
  <2>2. \A i \in 1..Len(page) : cursor + i \in 1..m
    BY <1>1, <1>3
  <2> QED BY <1>8, <2>1, <2>2
<1>10. p \in Seq(Rows) /\ Len(p) = Len(page)
  <2>1. DOMAIN p = 1..Len(page) /\ \A i \in 1..Len(page) : p[i] \in Rows
    <3>1. DOMAIN page = 1..Len(page)
      BY <1>1
    <3>2. DOMAIN p = 1..Len(page)
      BY <1>6, <3>1 DEF Projection
    <3>3. \A i \in 1..Len(page) : cursor + i \in 1..m
      BY <1>1, <1>3
    <3> QED BY <1>8, <1>9, <3>2, <3>3
  <2>2. p \in [1..Len(page) -> Rows]
    <3>1. p = [i \in 1..Len(page) |-> p[i]]
      <4>1. DOMAIN page = 1..Len(page)
        BY <1>1
      <4> QED BY <1>6, <4>1 DEF Projection
    <3> QED BY <2>1, <3>1
  <2> QED BY <1>1, <2>2
<1>11. a \o p \in Seq(Rows) /\ Len(a \o p) = m
  BY <1>1, <1>3, <1>7, <1>10
<1>12. \A i \in 1..m : (a \o p)[i] = b[i]
  <2> SUFFICES ASSUME NEW i \in 1..m PROVE (a \o p)[i] = b[i]
    OBVIOUS
  <2>1. CASE i <= cursor
    <3>1. i \in 1..cursor
      BY <2>1
    <3>2. (a \o p)[i] = a[i]
      BY <1>7, <1>10, <3>1
    <3> QED BY <1>7, <1>8, <3>1, <3>2
  <2>2. CASE i > cursor
    <3>1. i - cursor \in 1..Len(page) /\ cursor + (i - cursor) = i
      BY <1>1, <1>3, <2>2
    <3>2. (a \o p)[i] = p[i - cursor]
      BY <1>7, <1>10, <3>1, ConcatProperties
    <3> QED BY <1>9, <3>1, <3>2
  <2>3. i <= cursor \/ i > cursor
    <3>1. m \in Nat /\ cursor \in Nat
      BY <1>4
    <3> QED BY <3>1
  <2> QED BY <2>1, <2>2, <2>3
<1>13. a \o p = b
  BY <1>8, <1>11, <1>12, SeqEqual
<1> QED
  BY <1>1, <1>2, <1>3, <1>5, <1>6, <1>13 DEF Continues

------------------------------------------------------------------------------
(* What holds of every snapshot, dataset and reader in between its steps. *)

Snaps == [trajectory : Trajectories, end : Nat, head : Entries \cup {None}, complete : BOOLEAN,
          scores : Nat, records : Seq(Rows)]
Members == [trajectory : Trajectories, end : Nat, complete : BOOLEAN, snapshot : Snaps \cup {None}]
Goals == {"snapshot", "dataset"}
PassNames == {"check", "freeze"}
StreamStages == {"scores", "page", "more", "streamed"}
Lefts == Seq(Trajectories) \ {<<>>}
Fresh == [goal : Goals, pass : PassNames, at : {"get"}, left : Lefts, members : Seq(Members)]
Replays == [goal : Goals, pass : PassNames, at : {"replay"}, left : Lefts, members : Seq(Members),
            done : BOOLEAN]
Streams == [goal : Goals, pass : PassNames, at : StreamStages, left : Lefts, members : Seq(Members),
            end : Nat, head : Entries \cup {None}, complete : BOOLEAN, scores : Nat, cursor : Nat,
            records : Seq(Rows)]
Gathered == [goal : Goals, pass : {"check"}, at : {"dataset"}, left : {<<>>}, members : Seq(Members)]

Shown(stream) == Cardinality({i \in DOMAIN stream : stream[i].record = "report"})
Reported(t) == IF t = "native" THEN Cardinality(Times("report", events, Len(events))) ELSE 0

\* The head of a projection is the last entry it covered.
HeadAt(t, end, head) == end \in 1..Len(Log(t)) /\ head = Log(t)[end]
SnapOK(s) ==
  /\ s \in Snaps
  /\ HeadAt(s.trajectory, s.end, s.head)
  /\ Len(s.records) \in s.end..Len(Log(s.trajectory))
  /\ s.records = Exact(s.trajectory, Log(s.trajectory), Len(s.records))
  /\ s.scores <= Shown(s.records)
MemberOK(m) ==
  /\ m \in Members /\ m.complete /\ m.snapshot \in snapshots /\ m.end <= m.snapshot.end
  /\ \E n \in m.end..Len(m.snapshot.records) : Resolved(SubSeq(m.snapshot.records, 1, n))
StreamOK(t) ==
  LET trajectory == Head(t.left) IN
  /\ t.cursor <= Len(Log(trajectory)) /\ t.end <= Len(Log(trajectory))
  /\ HeadAt(trajectory, t.end, t.head)
  /\ t.records = Exact(trajectory, Log(trajectory), t.cursor)
  /\ t.scores <= Reported(trajectory)
  /\ t.pass = "check" => t.complete
  /\ t.at = "more" => trajectory = "native"
  /\ t.at = "streamed" => t.end <= t.cursor /\ t.scores <= Shown(t.records)
\* The member being frozen was checked, with resolved rewards up to a point
\* that the boundary about to be taken, or already taken, is not before.
CheckedOK(t, bound) ==
  /\ t.members # <<>>
  /\ LET m == t.members[Len(t.members)] IN
     /\ m.trajectory = Head(t.left) /\ m.complete
     /\ \E n \in m.end..bound : Resolved(Exact(m.trajectory, Log(m.trajectory), n))
GoalOK(t, bound) ==
  /\ t.goal = "snapshot" => t.pass = "freeze" /\ t.members = <<>>
  /\ t.goal = "dataset" /\ t.pass = "freeze" => CheckedOK(t, bound)
  /\ \A i \in 1..(IF t.pass = "freeze" THEN Len(t.members) - 1 ELSE Len(t.members)) : MemberOK(t.members[i])
TaskOK(t) ==
  \/ t = Idle
  \/ /\ t \in Fresh \cup Replays /\ GoalOK(t, Len(Log(Head(t.left))))
     /\ t.at = "replay" => Head(t.left) = "native"
  \/ t \in Streams /\ GoalOK(t, t.end) /\ StreamOK(t)
  \/ t \in Gathered /\ GoalOK(t, 0)

TablesOK ==
  /\ \A s \in snapshots : SnapOK(s)
  /\ \A d \in datasets : d \in Seq(Members) /\ \A i \in DOMAIN d : MemberOK(d[i])
ReadersInv ==
  /\ records \in Seq(Records) /\ events \in Seq(EventKinds) /\ events # <<>>
  /\ TablesOK
  /\ task = [c \in Readers |-> task[c]] /\ \A c \in Readers : TaskOK(task[c])

Grows == Extended(events, events') /\ Extended(records, records') /\ snapshots \subseteq snapshots'
LogsTyped == records \in Seq(Records) /\ events \in Seq(EventKinds) /\ events # <<>>

LEMMA LogIsTyped ==
  ASSUME LogsTyped, NEW t
  PROVE  Log(t) \in Seq(Entries) /\ Len(Log(t)) \in Nat
<1>1. records \in Seq(Entries) /\ events \in Seq(EventKinds)
  BY SeqMonotonic DEF LogsTyped, Entries
<1>2. events \in Seq(Entries)
  BY <1>1, SeqMonotonic DEF Entries
<1> QED
  BY <1>1, <1>2 DEF Log

LEMMA LogGrows ==
  ASSUME Grows, NEW t
  PROVE  Extended(Log(t), Log(t)')
BY DEF Grows, Log

LEMMA HeadStays ==
  ASSUME LogsTyped, LogsTyped', Grows, NEW t, NEW end, NEW head, HeadAt(t, end, head)
  PROVE  HeadAt(t, end, head)'
<1>1. Extended(Log(t), Log(t)') /\ Len(Log(t)) \in Nat /\ Len(Log(t)') \in Nat
  BY LogGrows, LogIsTyped
<1>2. end \in 1..Len(Log(t)) /\ head = Log(t)[end]
  BY DEF HeadAt
<1>3. end \in 1..Len(Log(t)') /\ head = Log(t)'[end]
  BY <1>1, <1>2 DEF Extended
<1> QED
  BY <1>3 DEF HeadAt

LEMMA SnapStays ==
  ASSUME LogsTyped, LogsTyped', Grows, NEW s, SnapOK(s)
  PROVE  SnapOK(s)'
<1> DEFINE n == Len(s.records)
<1>1. s \in Snaps /\ n \in Nat /\ n \in s.end..Len(Log(s.trajectory))
  BY DEF SnapOK, Snaps
<1>2. Extended(Log(s.trajectory), Log(s.trajectory)') /\ Len(Log(s.trajectory)) \in Nat
      /\ Len(Log(s.trajectory)') \in Nat
  BY LogGrows, LogIsTyped
<1>3. n \in 0..Len(Log(s.trajectory)) /\ n \in s.end..Len(Log(s.trajectory)')
  BY <1>1, <1>2 DEF Extended, Snaps
<1>4. Exact(s.trajectory, Log(s.trajectory)', n) = Exact(s.trajectory, Log(s.trajectory), n)
  BY <1>2, <1>3, ExactStays
<1>5. HeadAt(s.trajectory, s.end, s.head)'
  <2>1. PICK trajectory, end, head : trajectory = s.trajectory /\ end = s.end /\ head = s.head
    OBVIOUS
  <2>2. HeadAt(trajectory, end, head)
    BY <2>1 DEF SnapOK
  <2>3. HeadAt(trajectory, end, head)'
    BY <2>2, HeadStays
  <2> QED BY <2>1, <2>3
<1> QED
  BY <1>3, <1>4, <1>5 DEF SnapOK

LEMMA MemberStays ==
  ASSUME Grows, NEW m, MemberOK(m)
  PROVE  MemberOK(m)'
BY DEF MemberOK, Grows

LEMMA ReportedGrows ==
  ASSUME LogsTyped, LogsTyped', Grows, NEW t
  PROVE  Reported(t) \in Nat /\ Reported(t)' \in Nat /\ Reported(t) <= Reported(t)'
<1>1. Len(events) \in Nat /\ Len(events') \in Nat /\ Len(events) <= Len(events')
      /\ \A i \in 1..Len(events) : events'[i] = events[i]
  BY DEF LogsTyped, Grows, Extended
<1>2. PICK a, b : a = Times("report", events, Len(events)) /\ b = Times("report", events', Len(events'))
  OBVIOUS
<1>3. IsFiniteSet(b) /\ Cardinality(b) \in Nat /\ Cardinality(a) \in Nat
  BY <1>1, <1>2, TimesFinite
<1>4. a \in SUBSET b
  BY <1>1, <1>2 DEF Times
<1>5. Cardinality(a) <= Cardinality(b)
  BY <1>3, <1>4, FS_Subset
<1> QED
  BY <1>2, <1>3, <1>5 DEF Reported

LEMMA CheckedStays ==
  ASSUME LogsTyped, LogsTyped', Grows, NEW t, t.members \in Seq(Members),
         NEW bound \in 0..Len(Log(Head(t.left))), NEW later \in bound..Len(Log(Head(t.left))'),
         CheckedOK(t, bound)
  PROVE  CheckedOK(t, later)'
<1> DEFINE m == t.members[Len(t.members)]
           trajectory == Head(t.left)
<1>1. /\ t.members # <<>> /\ m \in Members /\ m.trajectory = trajectory /\ m.complete
  BY DEF CheckedOK
<1>2. PICK n \in m.end..bound : Resolved(Exact(trajectory, Log(trajectory), n))
  BY <1>1 DEF CheckedOK
<1>3. Extended(Log(trajectory), Log(trajectory)') /\ Len(Log(trajectory)) \in Nat /\ Len(Log(trajectory)') \in Nat
  BY LogGrows, LogIsTyped
<1>4. n \in 0..Len(Log(trajectory)) /\ n \in m.end..later
  BY <1>1, <1>2, <1>3 DEF Members
<1>5. Exact(trajectory, Log(trajectory)', n) = Exact(trajectory, Log(trajectory), n)
  BY <1>3, <1>4, ExactStays
<1>6. Resolved(Exact(m.trajectory, Log(m.trajectory)', n))
  BY <1>1, <1>2, <1>5
<1> QED
  BY <1>1, <1>4, <1>6 DEF CheckedOK

LEMMA GoalStays ==
  ASSUME LogsTyped, LogsTyped', Grows, NEW t, t.members \in Seq(Members),
         NEW bound \in 0..Len(Log(Head(t.left))), NEW later \in bound..Len(Log(Head(t.left))'),
         GoalOK(t, bound)
  PROVE  GoalOK(t, later)'
<1>1. t.goal = "dataset" /\ t.pass = "freeze" => CheckedOK(t, later)'
  BY CheckedStays DEF GoalOK
<1>2. \A i \in 1..(IF t.pass = "freeze" THEN Len(t.members) - 1 ELSE Len(t.members)) : MemberOK(t.members[i])'
  BY MemberStays DEF GoalOK
<1> QED
  BY <1>1, <1>2 DEF GoalOK

LEMMA StreamStays ==
  ASSUME LogsTyped, LogsTyped', Grows, NEW t \in Streams, StreamOK(t)
  PROVE  StreamOK(t)'
<1> DEFINE trajectory == Head(t.left)
<1>1. /\ t.cursor <= Len(Log(trajectory)) /\ t.end <= Len(Log(trajectory))
      /\ t.records = Exact(trajectory, Log(trajectory), t.cursor)
      /\ t.scores <= Reported(trajectory)
      /\ t.pass = "check" => t.complete
      /\ t.at = "more" => trajectory = "native"
      /\ t.at = "streamed" => t.end <= t.cursor /\ t.scores <= Shown(t.records)
      /\ t.cursor \in Nat /\ t.end \in Nat /\ t.scores \in Nat
  BY DEF StreamOK, Streams
<1>2. Extended(Log(trajectory), Log(trajectory)') /\ Len(Log(trajectory)) \in Nat
      /\ Len(Log(trajectory)') \in Nat
  BY LogGrows, LogIsTyped
<1>3. t.cursor <= Len(Log(trajectory)') /\ t.end <= Len(Log(trajectory)')
  BY <1>1, <1>2 DEF Extended
<1>4. Exact(trajectory, Log(trajectory)', t.cursor) = Exact(trajectory, Log(trajectory), t.cursor)
  <2>1. t.cursor \in 0..Len(Log(trajectory))
    BY <1>1, <1>2
  <2> QED BY <1>2, <2>1, ExactStays
<1>5. t.scores <= Reported(trajectory)'
  <2>1. Reported(trajectory) \in Nat /\ Reported(trajectory)' \in Nat
        /\ Reported(trajectory) <= Reported(trajectory)'
    BY ReportedGrows
  <2> QED BY <1>1, <2>1
<1>6. HeadAt(trajectory, t.end, t.head)'
  <2>1. PICK named, end, head : named = trajectory /\ end = t.end /\ head = t.head
    OBVIOUS
  <2>2. HeadAt(named, end, head)
    BY <2>1 DEF StreamOK
  <2>3. HeadAt(named, end, head)'
    BY <2>2, HeadStays
  <2> QED BY <2>1, <2>3
<1> QED
  BY <1>1, <1>3, <1>4, <1>5, <1>6 DEF StreamOK

\* What a reader knows stays true while the logs and the snapshots grow.
LEMMA TaskStays ==
  ASSUME LogsTyped, LogsTyped', Grows, NEW t, TaskOK(t)
  PROVE  TaskOK(t)'
<1>1. CASE t = Idle
  BY <1>1 DEF TaskOK
<1>2. CASE /\ t \in Fresh \cup Replays /\ GoalOK(t, Len(Log(Head(t.left))))
           /\ t.at = "replay" => Head(t.left) = "native"
  <2>1. t.members \in Seq(Members)
    BY <1>2 DEF Fresh, Replays
  <2>2. Extended(Log(Head(t.left)), Log(Head(t.left))') /\ Len(Log(Head(t.left))) \in Nat
        /\ Len(Log(Head(t.left))') \in Nat
    BY LogGrows, LogIsTyped
  <2>3. /\ Len(Log(Head(t.left))) \in 0..Len(Log(Head(t.left)))
        /\ Len(Log(Head(t.left))') \in Len(Log(Head(t.left)))..Len(Log(Head(t.left))')
    BY <2>2 DEF Extended
  <2>4. PICK later : later = Len(Log(Head(t.left))')
    OBVIOUS
  <2>5. GoalOK(t, later)'
    BY <1>2, <2>1, <2>3, <2>4, GoalStays
  <2>6. GoalOK(t, Len(Log(Head(t.left))))'
    BY <2>4, <2>5
  <2> QED BY <1>2, <2>6 DEF TaskOK
<1>3. CASE t \in Streams /\ GoalOK(t, t.end) /\ StreamOK(t)
  <2>1. t.members \in Seq(Members) /\ t.end \in Nat /\ t.end <= Len(Log(Head(t.left)))
    BY <1>3 DEF Streams, StreamOK
  <2>2. Extended(Log(Head(t.left)), Log(Head(t.left))') /\ Len(Log(Head(t.left))) \in Nat
        /\ Len(Log(Head(t.left))') \in Nat
    BY LogGrows, LogIsTyped
  <2>3. t.end \in 0..Len(Log(Head(t.left))) /\ t.end \in t.end..Len(Log(Head(t.left))')
    BY <2>1, <2>2 DEF Extended
  <2>4. PICK bound : bound = t.end
    OBVIOUS
  <2>5. GoalOK(t, bound)'
    BY <1>3, <2>1, <2>3, <2>4, GoalStays
  <2>6. StreamOK(t)'
    BY <1>3, StreamStays
  <2> QED BY <1>3, <2>4, <2>5, <2>6 DEF TaskOK
<1>4. CASE t \in Gathered /\ GoalOK(t, 0)
  <2>1. /\ t.goal = "snapshot" => FALSE
        /\ t.pass = "check"
    BY <1>4 DEF Gathered, GoalOK
  <2>2. \A i \in 1..(IF t.pass = "freeze" THEN Len(t.members) - 1 ELSE Len(t.members)) : MemberOK(t.members[i])'
    BY <1>4, MemberStays DEF GoalOK
  <2>3. GoalOK(t, 0)'
    BY <2>1, <2>2 DEF GoalOK
  <2> QED BY <1>4, <2>3 DEF TaskOK
<1> QED
  BY <1>1, <1>2, <1>3, <1>4 DEF TaskOK

LEMMA TablesStay ==
  ASSUME LogsTyped, LogsTyped', Grows, TablesOK, snapshots' = snapshots, datasets' = datasets
  PROVE  TablesOK'
<1>1. \A s \in snapshots : SnapOK(s)'
  BY SnapStays DEF TablesOK
<1>2. \A d \in datasets : d \in Seq(Members) /\ \A i \in DOMAIN d : MemberOK(d[i])'
  BY MemberStays DEF TablesOK
<1> QED
  BY <1>1, <1>2 DEF TablesOK

LEMMA ReadersInvTyped == ReadersInv => LogsTyped
BY DEF ReadersInv, LogsTyped

\* Somebody appends to a log.
LEMMA ReadersInvGrows ==
  ASSUME ReadersInv, LogsTyped', Grows, UNCHANGED <<snapshots, datasets, task>>
  PROVE  ReadersInv'
<1>1. LogsTyped /\ TablesOK
  BY ReadersInvTyped DEF ReadersInv
<1>2. TablesOK'
  BY <1>1, TablesStay
<1>3. \A c \in Readers : TaskOK(task[c])'
  <2>1. ASSUME NEW c \in Readers PROVE TaskOK(task[c])'
    <3>1. PICK t : t = task[c]
      OBVIOUS
    <3>2. TaskOK(t)'
      BY <1>1, <3>1, TaskStays DEF ReadersInv
    <3> QED BY <3>1, <3>2
  <2> QED BY <2>1
<1> QED
  BY <1>2, <1>3 DEF ReadersInv, LogsTyped

\* A reader takes a step that only reads.
LEMMA ReadersInvRead ==
  ASSUME ReadersInv, UNCHANGED <<evidence, snapshots, datasets>>, NEW c \in Readers, NEW t,
         Does(c, t), TaskOK(t)
  PROVE  ReadersInv'
<1>1. LogsTyped /\ TablesOK /\ LogsTyped'
  BY ReadersInvTyped DEF ReadersInv, evidence, LogsTyped
<1>2. Grows
  BY <1>1 DEF Grows, Extended, evidence, LogsTyped
<1>3. TablesOK'
  BY <1>1, <1>2, TablesStay
<1>4. \A b \in Readers : TaskOK(task'[b])
  BY DEF Does, ReadersInv
<1>5. \A b \in Readers : TaskOK(task[b])'
  <2>1. ASSUME NEW b \in Readers PROVE TaskOK(task[b])'
    <3>1. PICK u : u = task'[b]
      OBVIOUS
    <3>2. TaskOK(u)'
      BY <1>1, <1>2, <1>4, <3>1, TaskStays
    <3> QED BY <3>1, <3>2
  <2> QED BY <2>1
<1>6. task' = [b \in Readers |-> task'[b]]
  BY DEF Does, ReadersInv
<1> QED
  BY <1>1, <1>3, <1>5, <1>6 DEF ReadersInv, LogsTyped

------------------------------------------------------------------------------
LEMMA StageOf ==
  ASSUME NEW t, TaskOK(t)
  PROVE  /\ t.at = "get" => t \in Fresh /\ GoalOK(t, Len(Log(Head(t.left))))
         /\ t.at = "replay" => t \in Replays /\ GoalOK(t, Len(Log(Head(t.left)))) /\ Head(t.left) = "native"
         /\ t.at \in StreamStages => t \in Streams /\ GoalOK(t, t.end) /\ StreamOK(t)
         /\ t.at = "dataset" => t \in Gathered /\ GoalOK(t, 0)
BY DEF TaskOK, Idle, Fresh, Replays, Streams, Gathered, StreamStages

LEMMA FirstLeft ==
  ASSUME NEW left \in Lefts
  PROVE  Head(left) \in Trajectories /\ Tail(left) \in Seq(Trajectories)
BY HeadTailProperties DEF Lefts

LEMMA GoalSame ==
  ASSUME NEW t, NEW u, NEW bound, GoalOK(t, bound),
         u.goal = t.goal, u.pass = t.pass, u.left = t.left, u.members = t.members
  PROVE  GoalOK(u, bound)
BY DEF GoalOK, CheckedOK

LEMMA NothingShown ==
  ASSUME LogsTyped, NEW t
  PROVE  Exact(t, Log(t), 0) = <<>>
<1>1. Log(t) \in Seq(Entries) /\ 0 \in 0..Len(Log(t))
  BY LogIsTyped
<1>2. Exact(t, Log(t), 0) \in Seq(Rows) /\ Len(Exact(t, Log(t), 0)) = 0
  BY <1>1, ExactRows
<1> QED
  BY <1>2, EmptySeq

LEMMA ShownAtTheEnd ==
  ASSUME LogsTyped, NEW t \in Trajectories
  PROVE  Reported(t) <= Shown(Exact(t, Log(t), Len(Log(t))))
<1>1. PICK n : n = Len(Log(t))
  OBVIOUS
<1>2. Log(t) \in Seq(Entries) /\ n \in Nat /\ n \in 0..Len(Log(t))
  BY <1>1, LogIsTyped
<1>3. PICK rows : rows = Exact(t, Log(t), n)
  OBVIOUS
<1>4. DOMAIN rows = 1..n /\ \A i \in 1..n : rows[i].record = Log(t)[i]
  <2>1. rows \in Seq(Rows) /\ Len(rows) = n /\ \A i \in 1..n : rows[i] = RowAt(t, Log(t), i)
    BY <1>2, <1>3, ExactRows
  <2>2. \A i \in 1..n : RowAt(t, Log(t), i).record = Log(t)[i]
    BY DEF RowAt
  <2> QED BY <2>1, <2>2
<1>5. Shown(rows) = Cardinality(Times("report", Log(t), n))
  <2>1. {i \in DOMAIN rows : rows[i].record = "report"} = Times("report", Log(t), n)
    BY <1>4 DEF Times
  <2> QED BY <2>1 DEF Shown
<1>6. Cardinality(Times("report", Log(t), n)) \in Nat
  BY <1>2, TimesFinite
<1>7. CASE t = "native"
  BY <1>1, <1>3, <1>5, <1>6, <1>7 DEF Reported, Log
<1>8. CASE t # "native"
  BY <1>1, <1>3, <1>5, <1>6, <1>8 DEF Reported
<1> QED
  BY <1>7, <1>8

LEMMA ReadersInvBegin ==
  ASSUME ReadersInv, NEW c \in Readers, NEW goal, NEW pass, NEW left \in Lefts,
         (goal = "snapshot" /\ pass = "freeze") \/ (goal = "dataset" /\ pass = "check"), Begin(c, goal, pass, left)
  PROVE  ReadersInv'
<1> DEFINE t == [goal |-> goal, pass |-> pass, at |-> "get", left |-> left, members |-> <<>>]
<1>1. t \in Fresh /\ t.members = <<>> /\ Len(t.members) = 0
  BY DEF Fresh, Goals, PassNames
<1>2. GoalOK(t, Len(Log(Head(t.left))))
  <2>1. \A i \in 1..(IF t.pass = "freeze" THEN Len(t.members) - 1 ELSE Len(t.members)) : MemberOK(t.members[i])
    BY <1>1
  <2> QED BY <1>1, <2>1 DEF GoalOK
<1>3. Does(c, t) /\ UNCHANGED <<evidence, snapshots, datasets>>
  BY DEF Begin
<1>4. TaskOK(t)
  BY <1>1, <1>2 DEF TaskOK
<1> HIDE DEF t
<1> QED
  BY <1>3, <1>4, ReadersInvRead

\* What a projection has read: the end of a log and its head, and that only a
\* complete trajectory may be entitled.
Projected(t, head, complete, entitled) ==
  /\ HeadAt(Head(t.left), Len(Log(Head(t.left))), head)
  /\ entitled => complete

LEMMA ReadersInvGot ==
  ASSUME ReadersInv, NEW c \in Readers, NEW t \in Fresh \cup Replays, GoalOK(t, Len(Log(Head(t.left)))),
         NEW head \in Entries \cup {None}, NEW complete \in BOOLEAN, NEW entitled,
         Projected(t, head, complete, entitled),
         Got(c, t, Len(Log(Head(t.left))), head, complete, entitled), Reads
  PROVE  ReadersInv'
<1>1. UNCHANGED <<evidence, snapshots, datasets>> /\ LogsTyped
  BY ReadersInvTyped DEF Reads
<1>2. CASE t.pass = "check" /\ ~entitled
  BY <1>1, <1>2, ReadersInvRead DEF Got, TaskOK
<1>3. CASE ~(t.pass = "check" /\ ~entitled)
  <2>1. PICK end : end = Len(Log(Head(t.left)))
    OBVIOUS
  <2> DEFINE u == [goal |-> t.goal, pass |-> t.pass, left |-> t.left, members |-> t.members,
                   at |-> IF t.pass = "check" THEN "page" ELSE "scores", end |-> end, head |-> head,
                   complete |-> complete, scores |-> 0, cursor |-> 0, records |-> <<>>]
  <2>2. Does(c, u)
    BY <1>3, <2>1 DEF Got
  <2>3. end \in Nat /\ Log(Head(t.left)) \in Seq(Entries)
    BY <1>1, <2>1, LogIsTyped
  <2>4. t.goal \in Goals /\ t.pass \in PassNames /\ t.left \in Lefts /\ t.members \in Seq(Members)
    BY DEF Fresh, Replays
  <2>5. u \in Streams
    BY <2>3, <2>4 DEF Streams, StreamStages
  <2>6. GoalOK(u, u.end)
    BY <2>1, GoalSame
  <2>7. StreamOK(u)
    <3>1. u.records = Exact(Head(u.left), Log(Head(u.left)), u.cursor)
      BY <1>1, NothingShown
    <3>2. u.scores <= Reported(Head(u.left))
      <4>1. Len(events) \in Nat
        BY <1>1 DEF LogsTyped
      <4>2. Cardinality(Times("report", events, Len(events))) \in Nat
        BY <4>1, TimesFinite
      <4> QED BY <4>2 DEF Reported
    <3>3. u.pass = "check" => u.complete
      BY <1>3 DEF Projected
    <3>4. u.cursor <= Len(Log(Head(u.left))) /\ u.end <= Len(Log(Head(u.left)))
      BY <2>1, <2>3
    <3>5. u.at # "more" /\ u.at # "streamed"
      OBVIOUS
    <3>6. HeadAt(Head(u.left), u.end, u.head)
      BY <2>1 DEF Projected
    <3> HIDE DEF u
    <3> QED BY <3>1, <3>2, <3>3, <3>4, <3>5, <3>6 DEF StreamOK
  <2>8. TaskOK(u)
    BY <2>5, <2>6, <2>7 DEF TaskOK
  <2> HIDE DEF u
  <2> QED BY <1>1, <2>2, <2>8, ReadersInvRead
<1> QED
  BY <1>2, <1>3

LEMMA ReadersInvGetImported ==
  ASSUME ReadersInv, JournalInv, NEW c \in Readers, GetImported(c)
  PROVE  ReadersInv'
<1>1. PICK t : t = task[c]
  OBVIOUS
<1>2. PICK complete : complete = (source.collection = "complete")
  OBVIOUS
<1>3. PICK entitled : entitled = Entitled(t, source.collection = "complete", source.execution = "completed",
                                          source.execution = "completed", source.outcome)
  OBVIOUS
<1>4. /\ t.at = "get" /\ Head(t.left) = "imported"
      /\ Got(c, t, Len(records), source.acknowledged, complete, entitled) /\ Reads
  BY <1>1, <1>2, <1>3 DEF GetImported, At
<1>5. t \in Fresh /\ GoalOK(t, Len(Log(Head(t.left))))
  BY <1>1, <1>4, StageOf DEF ReadersInv
<1>6. Len(records) = Len(Log(Head(t.left)))
  BY <1>4 DEF Log
<1>7. source.acknowledged \in Entries \cup {None}
  BY DEF JournalInv, SourceRows, Entries
<1>8. complete \in BOOLEAN /\ (entitled => complete)
  BY <1>2, <1>3 DEF Entitled
<1>9. Got(c, t, Len(Log(Head(t.left))), source.acknowledged, complete, entitled)
  BY <1>4, <1>6
<1>10. HeadAt(Head(t.left), Len(Log(Head(t.left))), source.acknowledged)
  <2>1. records \in Seq(Records) /\ records # <<>>
    BY <1>1 DEF GetImported, JournalInv
  <2>2. Len(records) \in 1..Len(records) /\ source.acknowledged = records[Len(records)]
    BY <2>1 DEF JournalInv, CompletionIsAcknowledged, Last
  <2> QED BY <1>4, <1>6, <2>2 DEF HeadAt, Log
<1>11. PICK head \in Entries \cup {None} : head = source.acknowledged
  BY <1>7
<1>12. /\ Got(c, t, Len(Log(Head(t.left))), head, complete, entitled) /\ Reads
       /\ HeadAt(Head(t.left), Len(Log(Head(t.left))), head)
  BY <1>4, <1>9, <1>10, <1>11
<1>13. t \in Fresh \cup Replays /\ GoalOK(t, Len(Log(Head(t.left))))
  BY <1>5
<1>15. complete \in BOOLEAN /\ Got(c, t, Len(Log(Head(t.left))), head, complete, entitled) /\ Reads
  BY <1>8, <1>12
<1>16. Projected(t, head, complete, entitled)
  BY <1>8, <1>12 DEF Projected
<1> QED
  BY <1>11, <1>13, <1>15, <1>16, ReadersInvGot

LEMMA ReadersInvGetNative ==
  ASSUME ReadersInv, NEW c \in Readers, GetNative(c)
  PROVE  ReadersInv'
<1>1. PICK t : t = task[c]
  OBVIOUS
<1> DEFINE u == [goal |-> t.goal, pass |-> t.pass, at |-> "replay", left |-> t.left,
                 members |-> t.members, done |-> nativeStatus = "completed"]
<1>2. t.at = "get" /\ Does(c, u) /\ Reads /\ Head(u.left) = "native"
  BY <1>1 DEF GetNative, At
<1>3. t \in Fresh /\ GoalOK(t, Len(Log(Head(t.left))))
  BY <1>1, <1>2, StageOf DEF ReadersInv
<1>4. u \in Replays
  BY <1>3 DEF Fresh, Replays
<1>5. GoalOK(u, Len(Log(Head(u.left))))
  BY <1>3, GoalSame
<1>6. TaskOK(u)
  BY <1>2, <1>4, <1>5 DEF TaskOK
<1> HIDE DEF u
<1> QED
  BY <1>2, <1>6, ReadersInvRead DEF Reads

LEMMA ReadersInvReplay ==
  ASSUME ReadersInv, NEW c \in Readers, Replay(c)
  PROVE  ReadersInv'
<1>0. PICK t : t = task[c]
  OBVIOUS
<1>1. PICK complete : complete = t.done
  OBVIOUS
<1>2. PICK entitled : entitled = Entitled(t, t.done, t.done, "transition.committed" \in Range(events), "unavailable")
  OBVIOUS
<1>3. t.at = "replay" /\ Got(c, t, Len(events), Last(events), complete, entitled) /\ Reads
  BY <1>0, <1>1, <1>2 DEF Replay, At
<1>4. t \in Replays /\ GoalOK(t, Len(Log(Head(t.left)))) /\ Head(t.left) = "native"
  BY <1>0, <1>3, StageOf DEF ReadersInv
<1>5. Len(events) = Len(Log(Head(t.left)))
  BY <1>4 DEF Log
<1>6. PICK head : head = Last(events) /\ head \in Entries \cup {None}
  BY DEF ReadersInv, Last, Entries
<1>7. complete \in BOOLEAN /\ (entitled => complete)
  BY <1>1, <1>2, <1>4 DEF Entitled, Replays
<1>8. Got(c, t, Len(Log(Head(t.left))), head, complete, entitled) /\ Reads
  BY <1>3, <1>5, <1>6
<1>9. t \in Fresh \cup Replays /\ GoalOK(t, Len(Log(Head(t.left)))) /\ head \in Entries \cup {None}
  BY <1>4, <1>6
<1>10. HeadAt(Head(t.left), Len(Log(Head(t.left))), head)
  <2>1. Len(events) \in 1..Len(events) /\ head = events[Len(events)]
    BY <1>6 DEF ReadersInv, Last
  <2> QED BY <1>4, <1>5, <2>1 DEF HeadAt, Log
<1>11. complete \in BOOLEAN /\ Projected(t, head, complete, entitled)
  BY <1>7, <1>10 DEF Projected
<1> QED
  BY <1>8, <1>9, <1>11, ReadersInvGot

LEMMA ReadersInvScores ==
  ASSUME ReadersInv, NEW c \in Readers, Scores(c)
  PROVE  ReadersInv'
<1>1. PICK t : t = task[c]
  OBVIOUS
<1>2. PICK n : n = IF Head(t.left) = "native" THEN Cardinality({i \in DOMAIN events : events[i] = "report"}) ELSE 0
  OBVIOUS
<1> DEFINE u == [t EXCEPT !.at = "page", !.scores = n]
<1>3. t.at = "scores" /\ Does(c, u) /\ Reads
  BY <1>1, <1>2 DEF Scores, At
<1>4. t \in Streams /\ GoalOK(t, t.end) /\ StreamOK(t) /\ LogsTyped
  BY <1>1, <1>3, StageOf, ReadersInvTyped DEF ReadersInv, StreamStages
<1>5. n = Reported(Head(t.left)) /\ n \in Nat
  <2>1. Len(events) \in Nat /\ DOMAIN events = 1..Len(events)
    BY <1>4 DEF LogsTyped
  <2>2. {i \in DOMAIN events : events[i] = "report"} = Times("report", events, Len(events))
    BY <2>1 DEF Times
  <2>3. Cardinality(Times("report", events, Len(events))) \in Nat
    BY <2>1, TimesFinite
  <2> QED BY <1>2, <2>2, <2>3 DEF Reported
<1>6. /\ u \in Streams /\ u.goal = t.goal /\ u.pass = t.pass /\ u.left = t.left /\ u.members = t.members
      /\ u.end = t.end /\ u.cursor = t.cursor /\ u.records = t.records /\ u.complete = t.complete
      /\ u.head = t.head /\ u.at = "page" /\ u.scores = n
  BY <1>4, <1>5 DEF Streams, StreamStages
<1> HIDE DEF u
<1>7. GoalOK(u, u.end)
  BY <1>4, <1>6, GoalSame
<1>8. StreamOK(u)
  <2>1. n <= Reported(Head(t.left))
    BY <1>5
  <2>2. u.at # "more" /\ u.at # "streamed"
    BY <1>6
  <2> QED BY <1>4, <1>6, <2>1, <2>2 DEF StreamOK
<1>9. TaskOK(u)
  BY <1>6, <1>7, <1>8 DEF TaskOK
<1> QED
  BY <1>3, <1>9, ReadersInvRead DEF Reads

\* A stream that has moved on to another cursor, and says it is at the end
\* only when it is.
LEMMA StreamMoves ==
  ASSUME LogsTyped, NEW t \in Streams, GoalOK(t, t.end), StreamOK(t),
         NEW cursor \in 0..Len(Log(Head(t.left))), NEW at \in {"page", "more", "streamed"},
         at = "more" => Head(t.left) = "native",
         at = "streamed" => cursor = Len(Log(Head(t.left))),
         NEW u, u = [t EXCEPT !.at = at, !.cursor = cursor,
                              !.records = Exact(Head(t.left), Log(Head(t.left)), cursor)]
  PROVE  TaskOK(u)
<1>1. Log(Head(t.left)) \in Seq(Entries) /\ Len(Log(Head(t.left))) \in Nat /\ Head(t.left) \in Trajectories
  BY LogIsTyped, FirstLeft DEF Streams
<1>2. PICK rows : rows = Exact(Head(t.left), Log(Head(t.left)), cursor)
  OBVIOUS
<1>3. rows \in Seq(Rows)
  BY <1>1, <1>2, ExactRows
<1>4. /\ u \in Streams /\ u.goal = t.goal /\ u.pass = t.pass /\ u.left = t.left /\ u.members = t.members
      /\ u.end = t.end /\ u.scores = t.scores /\ u.complete = t.complete
      /\ u.at = at /\ u.cursor = cursor /\ u.records = rows
  <2>1. cursor \in Nat
    BY <1>1
  <2>2. u = [t EXCEPT !.at = at, !.cursor = cursor, !.records = rows]
    BY <1>2
  <2> QED BY <1>3, <2>1, <2>2 DEF Streams, StreamStages
<1>5. GoalOK(u, u.end)
  BY <1>4, GoalSame
<1>6. StreamOK(u)
  <2>1. ASSUME at = "streamed" PROVE t.end <= cursor /\ t.scores <= Shown(rows)
    <3>1. t.end <= Len(Log(Head(t.left))) /\ t.scores <= Reported(Head(t.left)) /\ t.scores \in Nat
      BY DEF StreamOK, Streams
    <3>2. Reported(Head(t.left)) <= Shown(rows)
      BY <1>1, <1>2, <2>1, ShownAtTheEnd
    <3>3. Reported(Head(t.left)) \in Nat /\ Shown(rows) \in Nat
      <4>1. Len(events) \in Nat
        BY DEF LogsTyped
      <4>2. Cardinality(Times("report", events, Len(events))) \in Nat
        BY <4>1, TimesFinite
      <4>3. Len(rows) \in Nat /\ DOMAIN rows = 1..Len(rows)
        BY <1>3
      <4>4. IsFiniteSet(1..Len(rows))
        <5>1. \A k \in Nat : IsFiniteSet(1..k)
          BY FS_Interval
        <5> QED BY <4>3, <5>1
      <4>5. {i \in DOMAIN rows : rows[i].record = "report"} \in SUBSET (1..Len(rows))
        BY <4>3
      <4>6. IsFiniteSet({i \in DOMAIN rows : rows[i].record = "report"})
        BY <4>4, <4>5, FS_Subset
      <4>7. Cardinality({i \in DOMAIN rows : rows[i].record = "report"}) \in Nat
        BY <4>6, FS_CardinalityType
      <4> QED BY <4>2, <4>7 DEF Reported, Shown
    <3>4. t.end <= cursor
      BY <2>1, <3>1
    <3>5. t.scores <= Shown(rows)
      BY <3>1, <3>2, <3>3
    <3> QED BY <3>4, <3>5
  <2>2. /\ t.end <= Len(Log(Head(t.left))) /\ t.scores <= Reported(Head(t.left))
        /\ t.pass = "check" => t.complete
    BY DEF StreamOK
  <2>3. cursor <= Len(Log(Head(t.left)))
    BY <1>1
  <2> QED BY <1>2, <1>4, <2>1, <2>2, <2>3 DEF StreamOK
<1> QED
  BY <1>4, <1>5, <1>6 DEF TaskOK

LEMMA ReadersInvPage ==
  ASSUME ReadersInv, NEW c \in Readers, Page(c)
  PROVE  ReadersInv'
<1>1. PICK t : t = task[c]
  OBVIOUS
<1>2. PICK trajectory : trajectory = Head(t.left)
  OBVIOUS
<1>3. PICK page : page = PageAfter(Log(trajectory), t.cursor)
  OBVIOUS
<1>4. PICK rows : rows = t.records \o Projection(trajectory, t.cursor + 1, page)
  OBVIOUS
<1>5. PICK read : read = [t EXCEPT !.cursor = @ + Len(page), !.records = rows]
  OBVIOUS
<1>6. /\ t.at = "page" /\ Reads
      /\ Does(c, IF trajectory = "imported" THEN Streamed(read, page, Len(records) > read.cursor)
                 ELSE [read EXCEPT !.at = IF page = <<>> THEN "streamed" ELSE "more"])
  BY <1>1, <1>2, <1>3, <1>4, <1>5 DEF Page, At
<1>7. t \in Streams /\ GoalOK(t, t.end) /\ StreamOK(t) /\ LogsTyped
  BY <1>1, <1>6, StageOf, ReadersInvTyped DEF ReadersInv, StreamStages
<1>8. /\ trajectory \in Trajectories /\ Log(trajectory) \in Seq(Entries) /\ Len(Log(trajectory)) \in Nat
      /\ t.cursor \in 0..Len(Log(trajectory)) /\ t.records = Exact(trajectory, Log(trajectory), t.cursor)
  <2>1. trajectory \in Trajectories /\ Log(trajectory) \in Seq(Entries) /\ Len(Log(trajectory)) \in Nat
    BY <1>2, <1>7, FirstLeft, LogIsTyped DEF Streams
  <2>2. t.cursor \in Nat /\ t.cursor <= Len(Log(trajectory))
        /\ t.records = Exact(trajectory, Log(trajectory), t.cursor)
    BY <1>2, <1>7 DEF StreamOK, Streams
  <2> QED BY <2>1, <2>2
<1>9. PICK cursor : cursor = t.cursor + Len(page)
  OBVIOUS
<1>10. /\ cursor \in 0..Len(Log(trajectory)) /\ (page = <<>> => cursor = Len(Log(trajectory)))
       /\ rows = Exact(trajectory, Log(trajectory), cursor)
  <2>1. /\ Len(page) \in Nat /\ t.cursor + Len(page) \in t.cursor..Len(Log(trajectory))
        /\ page = <<>> <=> t.cursor = Len(Log(trajectory))
        /\ Exact(trajectory, Log(trajectory), t.cursor) \o Projection(trajectory, t.cursor + 1, page)
             = Exact(trajectory, Log(trajectory), t.cursor + Len(page))
    <3>1. Continues(trajectory, t.cursor, page)
      BY <1>3, <1>8, ProjectionContinues
    <3> QED BY <3>1 DEF Continues
  <2>2. cursor \in 0..Len(Log(trajectory))
    BY <1>8, <1>9, <2>1
  <2>3. page = <<>> => cursor = Len(Log(trajectory))
    BY <1>8, <1>9, <2>1
  <2>4. rows = Exact(trajectory, Log(trajectory), cursor)
    BY <1>4, <1>8, <1>9, <2>1
  <2> QED BY <2>2, <2>3, <2>4
<1>11. PICK at : at = IF trajectory = "imported"
                      THEN IF Len(records) > cursor /\ page # <<>> THEN "page" ELSE "streamed"
                      ELSE IF page = <<>> THEN "streamed" ELSE "more"
  OBVIOUS
<1>12. PICK u : u = [t EXCEPT !.at = at, !.cursor = cursor, !.records = rows]
  OBVIOUS
<1>13. Does(c, u)
  <2>1. read \in Streams /\ read.cursor = cursor
    <3>1. rows \in Seq(Rows)
      BY <1>8, <1>10, ExactRows
    <3>2. cursor \in Nat
      BY <1>8, <1>10
    <3>3. read = [t EXCEPT !.cursor = cursor, !.records = rows]
      BY <1>5, <1>7, <1>9 DEF Streams
    <3> QED BY <1>7, <3>1, <3>2, <3>3 DEF Streams
  <2>2. \A a : [read EXCEPT !.at = a] = [t EXCEPT !.at = a, !.cursor = cursor, !.records = rows]
    BY <1>5, <1>7, <1>9 DEF Streams
  <2>3. CASE trajectory = "imported"
    <3>1. Does(c, Streamed(read, page, Len(records) > cursor))
      BY <1>6, <2>1, <2>3
    <3>2. Streamed(read, page, Len(records) > cursor) = [read EXCEPT !.at = at]
      BY <1>11, <2>3 DEF Streamed
    <3> QED BY <1>12, <2>2, <3>1, <3>2
  <2>4. CASE trajectory # "imported"
    <3>1. Does(c, [read EXCEPT !.at = at])
      BY <1>6, <1>11, <2>4
    <3> QED BY <1>12, <2>2, <3>1
  <2> QED BY <2>3, <2>4
<1>14. /\ at \in {"page", "more", "streamed"} /\ (at = "more" => trajectory = "native")
       /\ at = "streamed" => cursor = Len(Log(trajectory))
  <2>1. at \in {"page", "more", "streamed"} /\ (at = "more" => trajectory = "native")
    BY <1>8, <1>11 DEF Trajectories
  <2>2. ASSUME at = "streamed" PROVE cursor = Len(Log(trajectory))
    <3>1. CASE page = <<>>
      BY <1>10, <3>1
    <3>2. CASE page # <<>>
      <4>1. trajectory = "imported" /\ ~(Len(records) > cursor)
        BY <1>11, <2>2, <3>2
      <4>2. Log(trajectory) = records
        BY <4>1 DEF Log
      <4> QED BY <1>8, <1>10, <4>1, <4>2
    <3> QED BY <3>1, <3>2
  <2> QED BY <2>1, <2>2
<1>15. TaskOK(u)
  <2>1. u = [t EXCEPT !.at = at, !.cursor = cursor,
                      !.records = Exact(Head(t.left), Log(Head(t.left)), cursor)]
    BY <1>2, <1>10, <1>12
  <2>2. cursor \in 0..Len(Log(Head(t.left))) /\ at \in {"page", "more", "streamed"}
    BY <1>2, <1>10, <1>14
  <2>3. (at = "more" => Head(t.left) = "native") /\ (at = "streamed" => cursor = Len(Log(Head(t.left))))
    BY <1>2, <1>14
  <2> QED BY <1>7, <2>1, <2>2, <2>3, StreamMoves
<1> QED
  BY <1>6, <1>13, <1>15, ReadersInvRead DEF Reads

LEMMA ReadersInvMore ==
  ASSUME ReadersInv, NEW c \in Readers, More(c)
  PROVE  ReadersInv'
<1>1. PICK t : t = task[c]
  OBVIOUS
<1>2. PICK at : at = IF Len(events) > t.cursor THEN "page" ELSE "streamed"
  OBVIOUS
<1>3. t.at = "more" /\ Does(c, [t EXCEPT !.at = at]) /\ Reads
  BY <1>1, <1>2 DEF More, At
<1>4. t \in Streams /\ GoalOK(t, t.end) /\ StreamOK(t) /\ LogsTyped
  BY <1>1, <1>3, StageOf, ReadersInvTyped DEF ReadersInv, StreamStages
<1>5. /\ Head(t.left) = "native" /\ Log(Head(t.left)) = events /\ Len(events) \in Nat
      /\ t.cursor \in Nat /\ t.cursor <= Len(events)
      /\ t.records = Exact(Head(t.left), Log(Head(t.left)), t.cursor)
  BY <1>3, <1>4 DEF StreamOK, Streams, Log, LogsTyped
<1>6. PICK cursor : cursor = t.cursor
  OBVIOUS
<1>7. PICK u : u = [t EXCEPT !.at = at, !.cursor = cursor,
                             !.records = Exact(Head(t.left), Log(Head(t.left)), cursor)]
  OBVIOUS
<1>8. u = [t EXCEPT !.at = at]
  BY <1>4, <1>5, <1>6, <1>7 DEF Streams
<1>9. TaskOK(u)
  <2>1. cursor \in 0..Len(Log(Head(t.left))) /\ at \in {"page", "more", "streamed"} /\ at # "more"
    BY <1>2, <1>5, <1>6
  <2>2. at = "streamed" => cursor = Len(Log(Head(t.left)))
    BY <1>2, <1>5, <1>6
  <2> QED BY <1>4, <1>7, <2>1, <2>2, StreamMoves
<1> QED
  BY <1>3, <1>8, <1>9, ReadersInvRead DEF Reads

LEMMA ExactPrefix ==
  ASSUME NEW t, NEW entries \in Seq(Entries), NEW n \in 0..Len(entries), NEW k \in 0..n
  PROVE  SubSeq(Exact(t, entries, n), 1, k) = Exact(t, entries, k)
<1>1. PICK a, b : a = Exact(t, entries, n) /\ b = Exact(t, entries, k)
  OBVIOUS
<1>2. /\ a \in Seq(Rows) /\ Len(a) = n
      /\ \A i \in 1..n : a[i] = RowAt(t, entries, i)
  BY <1>1, ExactRows
<1>3. k \in 0..Len(entries)
  OBVIOUS
<1>4. /\ b \in Seq(Rows) /\ Len(b) = k
      /\ \A i \in 1..k : b[i] = RowAt(t, entries, i)
  BY <1>1, <1>3, ExactRows
<1>5. PICK sub : sub = SubSeq(a, 1, k)
  OBVIOUS
<1>6. sub \in Seq(Rows) /\ Len(sub) = k /\ \A i \in 1..k : sub[i] = a[i]
  <2>1. \A i \in 1..k : a[i] \in Rows
    BY <1>2
  <2>2. k \in Nat
    OBVIOUS
  <2> QED BY <1>5, <2>1, <2>2
<1>7. \A i \in 1..k : sub[i] = b[i]
  BY <1>2, <1>4, <1>6
<1>8. sub = b
  BY <1>4, <1>6, <1>7, SeqEqual
<1> QED
  BY <1>1, <1>5, <1>8

LEMMA ReadersInvCheck ==
  ASSUME ReadersInv, NEW c \in Readers, Check(c)
  PROVE  ReadersInv'
<1>1. PICK t : t = task[c]
  OBVIOUS
<1>2. t.at = "streamed" /\ t.pass = "check" /\ Reads
  BY <1>1 DEF Check, At
<1>3. t \in Streams /\ GoalOK(t, t.end) /\ StreamOK(t) /\ LogsTyped
  BY <1>1, <1>2, StageOf, ReadersInvTyped DEF ReadersInv, StreamStages
<1>4. PICK m : m = [trajectory |-> Head(t.left), end |-> t.end, complete |-> t.complete, snapshot |-> None]
  OBVIOUS
<1>5. PICK u : u = [goal |-> t.goal, pass |-> "freeze", at |-> "get", left |-> t.left,
                    members |-> Append(t.members, m)]
  OBVIOUS
<1>6. Does(c, IF Resolved(t.records) THEN u ELSE Idle)
  BY <1>1, <1>4, <1>5 DEF Check
<1>7. ASSUME Resolved(t.records) PROVE TaskOK(u)
  <2>1. /\ t.members \in Seq(Members) /\ t.left \in Lefts /\ Head(t.left) \in Trajectories /\ t.goal \in Goals
        /\ t.end \in Nat /\ t.cursor \in Nat /\ t.complete \in BOOLEAN
    BY <1>3, FirstLeft DEF Streams
  <2>2. /\ t.complete /\ t.end <= t.cursor /\ t.cursor <= Len(Log(Head(t.left)))
        /\ t.records = Exact(Head(t.left), Log(Head(t.left)), t.cursor)
    BY <1>2, <1>3 DEF StreamOK
  <2>3. m \in Members /\ m.trajectory = Head(t.left) /\ m.end = t.end /\ m.complete
    BY <1>4, <2>1, <2>2 DEF Members
  <2>4. /\ u.members \in Seq(Members) /\ u.members # <<>> /\ Len(u.members) = Len(t.members) + 1
        /\ u.members[Len(u.members)] = m
        /\ \A i \in 1..Len(t.members) : u.members[i] = t.members[i]
    BY <1>5, <2>1, <2>3, AppendProperties
  <2>5. u \in Fresh /\ u.left = t.left /\ u.goal = t.goal /\ u.pass = "freeze" /\ u.at = "get"
    BY <1>5, <2>1, <2>4 DEF Fresh, PassNames
  <2>6. t.goal # "snapshot" /\ \A i \in 1..Len(t.members) : MemberOK(t.members[i])
    BY <1>2, <1>3 DEF GoalOK
  <2>7. CheckedOK(u, Len(Log(Head(u.left))))
    <3>1. t.cursor \in m.end..Len(Log(Head(t.left)))
      <4>1. Len(Log(Head(t.left))) \in Nat
        BY <1>3, LogIsTyped
      <4> QED BY <2>1, <2>2, <2>3, <4>1
    <3>2. Resolved(Exact(m.trajectory, Log(m.trajectory), t.cursor))
      BY <1>7, <2>2, <2>3
    <3> QED BY <2>3, <2>4, <2>5, <3>1, <3>2 DEF CheckedOK
  <2>8. \A i \in 1..(IF u.pass = "freeze" THEN Len(u.members) - 1 ELSE Len(u.members)) : MemberOK(u.members[i])
    <3>1. Len(t.members) \in Nat /\ Len(u.members) - 1 = Len(t.members)
      BY <2>1, <2>4
    <3> QED BY <2>4, <2>5, <2>6, <3>1
  <2>9. GoalOK(u, Len(Log(Head(u.left))))
    BY <2>5, <2>6, <2>7, <2>8 DEF GoalOK
  <2> QED
    BY <2>5, <2>9 DEF TaskOK
<1>8. TaskOK(Idle)
  BY DEF TaskOK
<1> QED
  BY <1>2, <1>6, <1>7, <1>8, ReadersInvRead DEF Reads

LEMMA SnapshotOfStream ==
  ASSUME LogsTyped, NEW t \in Streams, StreamOK(t), t.at = "streamed"
  PROVE  SnapOK(SnapshotOf(t))
<1>1. PICK s : s = SnapshotOf(t)
  OBVIOUS
<1>2. /\ s.trajectory = Head(t.left) /\ s.end = t.end /\ s.head = t.head /\ s.complete = t.complete
      /\ s.scores = t.scores /\ s.records = t.records
  BY <1>1 DEF SnapshotOf
<1>3. s \in Snaps /\ Head(t.left) \in Trajectories
  BY <1>1, FirstLeft DEF SnapshotOf, Snaps, Streams
<1>4. /\ t.cursor \in Nat /\ t.end \in Nat /\ t.end <= t.cursor /\ t.scores <= Shown(t.records)
      /\ t.cursor <= Len(Log(Head(t.left)))
      /\ t.records = Exact(Head(t.left), Log(Head(t.left)), t.cursor)
  BY DEF StreamOK, Streams
<1>5. Log(Head(t.left)) \in Seq(Entries) /\ Len(Log(Head(t.left))) \in Nat
  BY LogIsTyped
<1>6. t.cursor \in 0..Len(Log(Head(t.left))) /\ t.cursor \in t.end..Len(Log(Head(t.left)))
  BY <1>4, <1>5
<1>7. Len(t.records) = t.cursor
  BY <1>4, <1>5, <1>6, ExactRows
<1>8. HeadAt(Head(t.left), t.end, t.head)
  BY DEF StreamOK
<1>9. HeadAt(s.trajectory, s.end, s.head)
  BY <1>2, <1>8
<1>10. s.records = Exact(s.trajectory, Log(s.trajectory), Len(s.records))
  BY <1>2, <1>4, <1>7
<1>11. Len(s.records) \in s.end..Len(Log(s.trajectory)) /\ s.scores <= Shown(s.records)
  BY <1>2, <1>4, <1>6, <1>7
<1>12. SnapOK(s)
  BY <1>3, <1>9, <1>10, <1>11 DEF SnapOK
<1> QED
  BY <1>1, <1>12

\* A reader stores a snapshot.
LEMMA ReadersInvStores ==
  ASSUME ReadersInv, UNCHANGED <<evidence, datasets>>, NEW s, SnapOK(s), snapshots' = snapshots \cup {s},
         NEW c \in Readers, NEW t, Does(c, t), TaskOK(t)'
  PROVE  ReadersInv'
<1>1. LogsTyped /\ TablesOK /\ LogsTyped'
  BY ReadersInvTyped DEF ReadersInv, evidence, LogsTyped
<1>2. Grows
  BY <1>1 DEF Grows, Extended, evidence, LogsTyped
<1>3. \A x \in snapshots' : SnapOK(x)'
  BY <1>1, <1>2, SnapStays DEF TablesOK
<1>4. \A d \in datasets : d \in Seq(Members) /\ \A i \in DOMAIN d : MemberOK(d[i])'
  BY <1>1, <1>2, MemberStays DEF TablesOK
<1>5. TablesOK'
  BY <1>3, <1>4 DEF TablesOK
<1>6. \A b \in Readers : TaskOK(task[b])'
  <2>1. ASSUME NEW b \in Readers PROVE TaskOK(task[b])'
    <3>1. CASE b = c
      BY <3>1 DEF Does, ReadersInv
    <3>2. CASE b # c
      <4>1. PICK u : u = task[b]
        OBVIOUS
      <4>2. TaskOK(u)'
        BY <1>1, <1>2, <4>1, TaskStays DEF ReadersInv
      <4>3. task'[b] = u
        BY <3>2, <4>1 DEF Does, ReadersInv
      <4> QED BY <4>2, <4>3
    <3> QED BY <3>1, <3>2
  <2> QED BY <2>1
<1>7. task' = [b \in Readers |-> task'[b]]
  BY DEF Does, ReadersInv
<1> QED
  BY <1>1, <1>5, <1>6, <1>7 DEF ReadersInv, LogsTyped

LEMMA ReadersInvInsert ==
  ASSUME ReadersInv, NEW c \in Readers, Insert(c)
  PROVE  ReadersInv'
<1>1. PICK t : t = task[c]
  OBVIOUS
<1>2. PICK s : s = SnapshotOf(t)
  OBVIOUS
<1>3. PICK u : u = [goal |-> t.goal, pass |-> "check", left |-> Tail(t.left),
                    at |-> IF Tail(t.left) = <<>> THEN "dataset" ELSE "get",
                    members |-> [t.members EXCEPT ![Len(t.members)].snapshot = s]]
  OBVIOUS
<1>4. /\ t.at = "streamed" /\ t.pass = "freeze" /\ snapshots' = snapshots \cup {s}
      /\ Does(c, IF t.goal = "snapshot" THEN Idle ELSE u)
      /\ UNCHANGED <<evidence, datasets, calls>>
  BY <1>1, <1>2, <1>3 DEF Insert, At
<1>5. t \in Streams /\ GoalOK(t, t.end) /\ StreamOK(t) /\ LogsTyped
  BY <1>1, <1>4, StageOf, ReadersInvTyped DEF ReadersInv, StreamStages
<1>6. SnapOK(s) /\ s.end = t.end /\ s.records = t.records
  BY <1>2, <1>4, <1>5, SnapshotOfStream DEF SnapshotOf
<1>7. LogsTyped' /\ Grows
  BY <1>4, <1>5 DEF Grows, Extended, evidence, LogsTyped
<1>8. ASSUME t.goal # "snapshot" PROVE TaskOK(u)'
  <2>1. PICK n : n = Len(t.members)
    OBVIOUS
  <2>2. PICK m : m = t.members[n]
    OBVIOUS
  <2>3. /\ t.members \in Seq(Members) /\ t.left \in Lefts /\ t.goal = "dataset" /\ CheckedOK(t, t.end)
        /\ \A i \in 1..(n - 1) : MemberOK(t.members[i])
    BY <1>4, <1>5, <1>8, <2>1 DEF Streams, GoalOK, Goals
  <2>4. n \in Nat /\ n \in 1..n /\ m \in Members
    BY <2>1, <2>2, <2>3 DEF CheckedOK
  <2>5. PICK k : k \in m.end..t.end /\ Resolved(Exact(m.trajectory, Log(m.trajectory), k))
    BY <2>1, <2>2, <2>3 DEF CheckedOK
  <2>6. m.trajectory = Head(t.left) /\ m.complete
    BY <2>1, <2>2, <2>3 DEF CheckedOK
  <2>7. PICK w : w = [m EXCEPT !.snapshot = s]
    OBVIOUS
  <2>8. s \in Snaps /\ w \in Members /\ w.complete /\ w.snapshot = s /\ w.end = m.end
    BY <1>6, <2>4, <2>6, <2>7 DEF SnapOK, Members
  <2>9. Resolved(SubSeq(s.records, 1, k)) /\ k \in m.end..Len(s.records) /\ m.end <= t.end
    <3>1. /\ t.cursor \in Nat /\ t.end \in Nat /\ t.end <= t.cursor /\ t.cursor <= Len(Log(Head(t.left)))
          /\ t.records = Exact(Head(t.left), Log(Head(t.left)), t.cursor)
      BY <1>4, <1>5 DEF StreamOK, Streams
    <3>2. Log(Head(t.left)) \in Seq(Entries) /\ Len(Log(Head(t.left))) \in Nat
      BY <1>5, LogIsTyped
    <3>3. m.end \in Nat /\ k \in 0..t.cursor /\ k \in 0..Len(Log(Head(t.left))) /\ t.cursor \in 0..Len(Log(Head(t.left)))
          /\ m.end <= t.end
      BY <2>4, <2>5, <3>1, <3>2 DEF Members
    <3>4. SubSeq(Exact(Head(t.left), Log(Head(t.left)), t.cursor), 1, k) = Exact(Head(t.left), Log(Head(t.left)), k)
      <4>1. PICK cursor : cursor = t.cursor
        OBVIOUS
      <4> QED BY <3>2, <3>3, <4>1, ExactPrefix
    <3>5. Len(t.records) = t.cursor
      BY <3>1, <3>2, <3>3, ExactRows
    <3>6. s.records = Exact(Head(t.left), Log(Head(t.left)), t.cursor)
      BY <1>6, <3>1
    <3>7. Resolved(Exact(Head(t.left), Log(Head(t.left)), k))
      BY <2>5, <2>6
    <3>8. Resolved(SubSeq(s.records, 1, k))
      BY <3>4, <3>6, <3>7
    <3>9. k \in m.end..Len(s.records)
      <4>1. Len(s.records) = t.cursor
        BY <1>6, <3>5
      <4> QED BY <2>4, <2>5, <3>1, <3>3, <4>1 DEF Members
    <3> QED BY <3>3, <3>8, <3>9
  <2>10. MemberOK(w)'
    <3>1. s \in snapshots'
      BY <1>4
    <3> QED BY <1>6, <2>8, <2>9, <3>1 DEF MemberOK
  <2>11. PICK members : members = [t.members EXCEPT ![n].snapshot = s]
    OBVIOUS
  <2>12. /\ members \in Seq(Members) /\ Len(members) = n
         /\ \A i \in 1..n : members[i] = IF i = n THEN w ELSE t.members[i]
    <3>1. members = [t.members EXCEPT ![n] = w]
      BY <2>2, <2>7, <2>11
    <3> QED BY <2>1, <2>3, <2>4, <2>8, <3>1, ExceptSeq
  <2>13. \A i \in 1..n : MemberOK(members[i])'
    <3>1. \A i \in 1..(n - 1) : MemberOK(t.members[i])'
      BY <1>7, <2>3, MemberStays
    <3>2. \A i \in 1..n : i = n \/ i \in 1..(n - 1)
      BY <2>4
    <3> QED BY <2>10, <2>12, <3>1, <3>2
  <2>14. /\ u.members = members /\ u.goal = "dataset" /\ u.pass = "check" /\ u.left = Tail(t.left)
         /\ u.at = IF Tail(t.left) = <<>> THEN "dataset" ELSE "get"
    BY <1>3, <2>1, <2>3, <2>11
  <2>15. \A bound : GoalOK(u, bound)'
    BY <2>12, <2>13, <2>14 DEF GoalOK
  <2>16. Tail(t.left) \in Seq(Trajectories)
    BY <2>3, FirstLeft
  <2>17. u \in Fresh \cup Gathered
    <3>1. CASE Tail(t.left) = <<>>
      BY <1>3, <2>1, <2>3, <2>11, <2>12, <3>1 DEF Gathered, Goals
    <3>2. CASE Tail(t.left) # <<>>
      BY <1>3, <2>1, <2>3, <2>11, <2>12, <2>16, <3>2 DEF Fresh, Goals, PassNames, Lefts
    <3> QED BY <3>1, <3>2
  <2>18. u.at # "replay"
    BY <2>14
  <2> QED
    BY <2>15, <2>17, <2>18 DEF TaskOK
<1>9. TaskOK(Idle)'
  BY DEF TaskOK
<1> QED
  BY <1>4, <1>6, <1>8, <1>9, ReadersInvStores

LEMMA ReadersInvRecordDataset ==
  ASSUME ReadersInv, NEW c \in Readers, RecordDataset(c)
  PROVE  ReadersInv'
<1>1. PICK t : t = task[c]
  OBVIOUS
<1>2. /\ t.at = "dataset" /\ datasets' = datasets \cup {t.members} /\ Does(c, Idle)
      /\ UNCHANGED <<evidence, snapshots, calls>>
  BY <1>1 DEF RecordDataset, At
<1>3. t \in Gathered /\ GoalOK(t, 0) /\ LogsTyped /\ TablesOK
  BY <1>1, <1>2, StageOf, ReadersInvTyped DEF ReadersInv, StreamStages
<1>4. t.members \in Seq(Members) /\ \A i \in DOMAIN t.members : MemberOK(t.members[i])
  <2>1. t.members \in Seq(Members) /\ t.pass = "check" /\ DOMAIN t.members = 1..Len(t.members)
    BY <1>3 DEF Gathered
  <2> QED BY <1>3, <2>1 DEF GoalOK
<1>5. LogsTyped' /\ Grows
  BY <1>2, <1>3 DEF Grows, Extended, evidence, LogsTyped
<1>6. TablesOK'
  <2>1. \A s \in snapshots' : SnapOK(s)'
    BY <1>2, <1>3, <1>5, SnapStays DEF TablesOK
  <2>2. \A d \in datasets' : d \in Seq(Members) /\ \A i \in DOMAIN d : MemberOK(d[i])'
    BY <1>2, <1>3, <1>4, <1>5, MemberStays DEF TablesOK
  <2> QED BY <2>1, <2>2 DEF TablesOK
<1>7. \A b \in Readers : TaskOK(task[b])'
  <2>1. ASSUME NEW b \in Readers PROVE TaskOK(task[b])'
    <3>1. PICK u : u = task'[b]
      OBVIOUS
    <3>2. TaskOK(u)
      BY <1>2, <3>1 DEF Does, ReadersInv, TaskOK
    <3>3. TaskOK(u)'
      BY <1>3, <1>5, <3>2, TaskStays
    <3> QED BY <3>1, <3>3
  <2> QED BY <2>1
<1>8. task' = [b \in Readers |-> task'[b]]
  BY <1>2 DEF Does, ReadersInv
<1> QED
  BY <1>5, <1>6, <1>7, <1>8 DEF ReadersInv, LogsTyped

LEMMA ReadersInvReader ==
  ASSUME ReadersInv, JournalInv, NEW c \in Readers, Reader(c)
  PROVE  ReadersInv'
<1>1. CASE \E t \in Trajectories : Freeze(c, t)
  <2>1. PICK t \in Trajectories : Begin(c, "snapshot", "freeze", <<t>>)
    BY <1>1 DEF Freeze
  <2>2. <<t>> \in Lefts
    BY DEF Lefts
  <2> QED BY <2>1, <2>2, ReadersInvBegin
<1>2. CASE \E selection \in Selections : FreezeDataset(c, selection)
  <2>1. PICK selection \in Selections : Begin(c, "dataset", "check", selection)
    BY <1>2 DEF FreezeDataset
  <2>2. selection \in Lefts
    BY SelectionsAssumption DEF Lefts
  <2> QED BY <2>1, <2>2, ReadersInvBegin
<1>3. CASE GetImported(c)
  BY <1>3, ReadersInvGetImported
<1>4. CASE GetNative(c)
  BY <1>4, ReadersInvGetNative
<1>5. CASE Replay(c)
  BY <1>5, ReadersInvReplay
<1>6. CASE Scores(c)
  BY <1>6, ReadersInvScores
<1>7. CASE Page(c)
  BY <1>7, ReadersInvPage
<1>8. CASE More(c)
  BY <1>8, ReadersInvMore
<1>9. CASE Check(c)
  BY <1>9, ReadersInvCheck
<1>10. CASE Insert(c)
  BY <1>10, ReadersInvInsert
<1>11. CASE RecordDataset(c)
  BY <1>11, ReadersInvRecordDataset
<1>12. CASE Abandon(c)
  <2>1. Does(c, Idle) /\ UNCHANGED <<evidence, snapshots, datasets>> /\ TaskOK(Idle)
    BY <1>12 DEF Abandon, Reads, TaskOK
  <2> QED BY <2>1, ReadersInvRead
<1> QED
  BY <1>1, <1>2, <1>3, <1>4, <1>5, <1>6, <1>7, <1>8, <1>9, <1>10, <1>11, <1>12 DEF Reader

LEMMA ReadersInvAppends ==
  ASSUME ReadersInv, NEW kind \in EventKinds, Appends(kind)
  PROVE  ReadersInv'
<1>1. /\ events' = Append(events, kind) /\ records' = records
      /\ UNCHANGED <<snapshots, datasets, task>>
  BY DEF Appends
<1>2. events \in Seq(EventKinds) /\ records \in Seq(Records)
  BY DEF ReadersInv
<1>3. LogsTyped' /\ Grows
  BY <1>1, <1>2, AppendProperties DEF LogsTyped, Grows, Extended
<1> QED
  BY <1>1, <1>3, ReadersInvGrows

LEMMA ReadersInvNext ==
  ASSUME ReadersInv, JournalInv, [TrajectoryNext]_trajectoryVars
  PROVE  ReadersInv'
<1>0. LogsTyped
  BY ReadersInvTyped
<1>1. CASE Importer
  <2>1. /\ records' \in Seq(Records) /\ (records' = records \/ Extended(records, records'))
    BY <1>1, JournalInvNext DEF JournalInv, TrajectoryNext
  <2>2. UNCHANGED <<events, snapshots, datasets, task>>
    BY <1>1 DEF Importer, Ingest, Report
  <2>3. LogsTyped' /\ Grows
    BY <1>0, <2>1, <2>2 DEF LogsTyped, Grows, Extended
  <2> QED BY <2>2, <2>3, ReadersInvGrows
<1>2. CASE Happens \/ Completes \/ Scored
  <2>1. PICK kind \in EventKinds : Appends(kind)
    BY <1>2 DEF Happens, Completes, Scored, EventKinds
  <2> QED BY <2>1, ReadersInvAppends
<1>3. CASE \E c \in Readers : Reader(c)
  BY <1>3, ReadersInvReader
<1>4. CASE UNCHANGED trajectoryVars
  <2>1. UNCHANGED <<events, records, snapshots, datasets, task>>
    BY <1>4 DEF trajectoryVars, evidence
  <2>2. LogsTyped' /\ Grows
    BY <1>0, <2>1 DEF LogsTyped, Grows, Extended
  <2> QED BY <2>1, <2>2, ReadersInvGrows
<1> QED
  BY <1>1, <1>2, <1>3, <1>4 DEF TrajectoryNext

LEMMA ReadersInvInit == TrajectoryInit => ReadersInv
<1> SUFFICES ASSUME TrajectoryInit PROVE ReadersInv
  OBVIOUS
<1>1. records \in Seq(Records) /\ events \in Seq(EventKinds) /\ events # <<>>
  BY DEF TrajectoryInit, EventKinds
<1>2. TablesOK /\ task = [c \in Readers |-> task[c]] /\ \A c \in Readers : TaskOK(task[c])
  BY DEF TrajectoryInit, TablesOK, TaskOK
<1> QED
  BY <1>1, <1>2 DEF ReadersInv

LEMMA SnapHoldsItsBoundary ==
  ASSUME LogsTyped, NEW s, SnapOK(s)
  PROVE  LET entries == Log(s.trajectory)
             resumed(i) == Cardinality({j \in 1..i : entries[j] = "session.resumed"})
         IN  /\ s.end \in 1..Len(s.records) /\ s.head = s.records[s.end].record
             /\ Len(s.records) <= Len(entries)
             /\ \A i \in DOMAIN s.records : s.records[i] =
                  [record |-> entries[i], cause |-> IF i = 1 THEN None ELSE entries[i - 1],
                   segment |-> IF s.trajectory = "native" THEN 1 + resumed(i) ELSE 1]
             /\ s.scores <= Cardinality({i \in DOMAIN s.records : s.records[i].record = "report"})
<1>1. PICK rows : rows = s.records
  OBVIOUS
<1>2. rows \in Seq(Rows) /\ DOMAIN rows = 1..Len(rows)
  BY <1>1 DEF SnapOK, Snaps
<1>3. rows = Exact(s.trajectory, Log(s.trajectory), Len(rows))
  BY <1>1 DEF SnapOK
<1>4. \A i \in 1..Len(rows) : rows[i] = RowAt(s.trajectory, Log(s.trajectory), i)
  BY <1>3 DEF Exact
<1>5. s.end \in 1..Len(rows) /\ s.head = rows[s.end].record /\ Len(rows) <= Len(Log(s.trajectory))
  <2>1. /\ s.end \in 1..Len(Log(s.trajectory)) /\ s.head = Log(s.trajectory)[s.end]
        /\ Len(rows) \in s.end..Len(Log(s.trajectory))
    BY <1>1 DEF SnapOK, HeadAt
  <2>2. s.end \in 1..Len(rows) /\ Len(rows) <= Len(Log(s.trajectory))
    BY <2>1
  <2>3. rows[s.end].record = Log(s.trajectory)[s.end]
    <3>1. PICK n \in 1..Len(rows) : n = s.end
      BY <2>2
    <3>2. rows[n] = RowAt(s.trajectory, Log(s.trajectory), n)
      BY <1>4
    <3>3. RowAt(s.trajectory, Log(s.trajectory), n).record = Log(s.trajectory)[n]
      BY DEF RowAt
    <3> QED BY <3>1, <3>2, <3>3
  <2> QED BY <2>1, <2>2, <2>3
<1> QED
  BY <1>1, <1>2, <1>4, <1>5 DEF SnapOK, RowAt, SegmentAt, Times, Shown

LEMMA ReadersInvShows == ReadersInv => SnapshotHoldsItsBoundary /\ MembersWereEligible
<1> SUFFICES ASSUME ReadersInv PROVE SnapshotHoldsItsBoundary /\ MembersWereEligible
  OBVIOUS
<1>1. SnapshotHoldsItsBoundary
  BY SnapHoldsItsBoundary, ReadersInvTyped DEF SnapshotHoldsItsBoundary, ReadersInv, TablesOK
<1>2. MembersWereEligible
  BY DEF ReadersInv, TablesOK, MemberOK, MembersWereEligible
<1> QED
  BY <1>1, <1>2

LEMMA ReadersInvAlways == TrajectorySpec => []ReadersInv
<1>1. TrajectoryInit => ReadersInv /\ JournalInv
  BY ReadersInvInit, JournalInvInit
<1>2. ReadersInv /\ JournalInv /\ [TrajectoryNext]_trajectoryVars => (ReadersInv /\ JournalInv)'
  BY ReadersInvNext, JournalInvNext
<1> QED
  BY <1>1, <1>2, PTL DEF TrajectorySpec

\* The head a stored snapshot names is its record at the end it names; up to
\* there, and as far beyond as the log grew while it was read, it holds the
\* records of its trajectory, none skipped, repeated or out of order and each
\* with the cause and segment it had; and the scores it selects are evidenced
\* by reports it holds.
THEOREM SnapshotsHoldTheirBoundary == TrajectorySpec => []SnapshotHoldsItsBoundary
BY ReadersInvAlways, ReadersInvShows, PTL

\* Every member of a stored dataset was complete with resolved rewards up to
\* a boundary that the snapshot frozen of it covers.
THEOREM MembersWereChecked == TrajectorySpec => []MembersWereEligible
BY ReadersInvAlways, ReadersInvShows, PTL

NativeInv ==
  nativeStatus \in {"running", "completed"} /\ events \in Seq(EventKinds) /\ Len(events) \in 1..MaxEvents

LEMMA NativeInvAppends ==
  ASSUME NativeInv, NEW kind \in EventKinds, Appends(kind), nativeStatus' \in {"running", "completed"}
  PROVE  NativeInv'
<1>1. events' = Append(events, kind) /\ Len(events) < MaxEvents /\ Len(events) \in Nat
  BY DEF Appends, NativeInv
<1>2. events' \in Seq(EventKinds) /\ Len(events') = Len(events) + 1
  BY <1>1 DEF NativeInv
<1> QED
  BY <1>1, <1>2, EventsAssumption DEF NativeInv

LEMMA NativeInvAlways == TrajectorySpec => []NativeInv
<1>1. TrajectoryInit => NativeInv
  <2> SUFFICES ASSUME TrajectoryInit PROVE NativeInv
    OBVIOUS
  <2>1. nativeStatus = "running" /\ events = <<"session.created">>
    BY DEF TrajectoryInit
  <2>2. events \in Seq(EventKinds) /\ Len(events) = 1
    BY <2>1 DEF EventKinds
  <2> QED
    BY <2>1, <2>2, EventsAssumption DEF NativeInv
<1>2. NativeInv /\ [TrajectoryNext]_trajectoryVars => NativeInv'
  <2> SUFFICES ASSUME NativeInv, [TrajectoryNext]_trajectoryVars PROVE NativeInv'
    OBVIOUS
  <2>1. CASE Importer
    BY <2>1 DEF Importer, Ingest, Report, NativeInv
  <2>2. CASE Happens
    <3>1. Appends("session.resumed") /\ nativeStatus' = nativeStatus
      BY <2>2 DEF Happens
    <3>2. "session.resumed" \in EventKinds
      BY DEF EventKinds
    <3> QED BY <3>1, <3>2, NativeInvAppends DEF NativeInv
  <2>3. CASE Completes
    <3>1. Appends("transition.committed") /\ nativeStatus' = "completed"
      BY <2>3 DEF Completes
    <3>2. "transition.committed" \in EventKinds
      BY DEF EventKinds
    <3> QED BY <3>1, <3>2, NativeInvAppends
  <2>4. CASE Scored
    <3>1. Appends("report") /\ nativeStatus' = nativeStatus
      BY <2>4 DEF Scored
    <3>2. "report" \in EventKinds
      BY DEF EventKinds
    <3> QED BY <3>1, <3>2, NativeInvAppends DEF NativeInv
  <2>5. CASE \E c \in Readers : Reader(c)
    BY <2>5, ReaderReads DEF evidence, NativeInv
  <2>6. CASE UNCHANGED trajectoryVars
    BY <2>6 DEF trajectoryVars, evidence, NativeInv
  <2> QED
    BY <2>1, <2>2, <2>3, <2>4, <2>5, <2>6 DEF TrajectoryNext
<1> QED
  BY <1>1, <1>2, PTL DEF TrajectorySpec

\* The tables and the readers keep their shape; a stream stands where the
\* records it has read end.
THEOREM TrajectoryTypes == TrajectorySpec => []TrajectoryTypeOK
<1>1. ReadersInv /\ JournalInv /\ NativeInv => TrajectoryTypeOK
  <2> SUFFICES ASSUME ReadersInv, JournalInv, NativeInv PROVE TrajectoryTypeOK
    OBVIOUS
  <2>1. /\ source.collection \in {"registered", "current", "lagging", "complete"}
        /\ source.acknowledged \in Records \cup {None}
    BY DEF JournalInv, SourceRows
  <2>2. \A s \in snapshots : s.trajectory \in Trajectories /\ s.end \in Nat
    BY DEF ReadersInv, TablesOK, SnapOK, Snaps
  <2>3. ASSUME NEW c \in Readers PROVE task[c].at \in
          {"none", "get", "replay", "scores", "page", "more", "streamed", "dataset"}
    <3>1. task[c] \in {Idle} \cup Fresh \cup Replays \cup Streams \cup Gathered
      BY DEF ReadersInv, TaskOK
    <3> QED
      BY <3>1 DEF Idle, Fresh, Replays, Streams, Gathered, StreamStages
  <2>4. ASSUME NEW c \in Readers, task[c].at \in {"page", "more", "streamed"}
        PROVE  task[c].cursor = Len(task[c].records) /\ task[c].cursor <= Len(Log(Head(task[c].left)))
    <3>1. task[c] \in Streams /\ StreamOK(task[c])
      BY <2>4 DEF ReadersInv, TaskOK, Idle, Fresh, Replays, Gathered
    <3>2. task[c].cursor \in Nat /\ task[c].records \in Seq(Rows)
      BY <3>1 DEF Streams
    <3>3. DOMAIN task[c].records = 1..task[c].cursor
      BY <3>1 DEF StreamOK, Exact
    <3>4. Len(task[c].records) = task[c].cursor
      BY <3>2, <3>3
    <3> QED
      BY <3>1, <3>4 DEF StreamOK
  <2> QED
    BY <2>1, <2>2, <2>3, <2>4 DEF TrajectoryTypeOK, JournalInv, NativeInv
<1>2. TrajectoryInit => JournalInv
  BY JournalInvInit
<1>3. JournalInv /\ [TrajectoryNext]_trajectoryVars => JournalInv'
  BY JournalInvNext
<1> QED
  BY <1>1, <1>2, <1>3, ReadersInvAlways, NativeInvAlways, PTL DEF TrajectorySpec

------------------------------------------------------------------------------
(* Reading a snapshot and a dataset page by page. *)

LEMMA ReadOutUnfolded ==
  ASSUME NEW s, NEW limit
  PROVE  ReadOut(s, limit) =
           (CHOOSE p : p = [after \in Nat |->
              IF Len(s.records) > after + limit
              THEN SubSeq(s.records, after + 1, Least(after + limit, Len(s.records))) \o p[after + limit]
              ELSE SubSeq(s.records, after + 1, Least(after + limit, Len(s.records)))])[0]
BY DEF ReadOut, SnapshotPage

LEMMA RestOfRows ==
  ASSUME NEW rows \in Seq(Rows), NEW limit \in Nat \ {0}, NEW after \in Nat
  PROVE  SubSeq(rows, after + 1, Len(rows)) =
           IF Len(rows) > after + limit
           THEN SubSeq(rows, after + 1, Least(after + limit, Len(rows))) \o SubSeq(rows, after + limit + 1, Len(rows))
           ELSE SubSeq(rows, after + 1, Least(after + limit, Len(rows)))
<1>1. PICK n : n = Len(rows)
  OBVIOUS
<1>2. n \in Nat
  BY <1>1
<1>3. CASE n > after + limit
  <2>1. PICK m, k : m = after + 1 /\ k = after + limit
    OBVIOUS
  <2>2. Least(after + limit, n) = k
    BY <1>2, <1>3, <2>1 DEF Least
  <2>3. m \in 1..(n + 1) /\ k \in (m - 1)..n /\ n \in k..n
    BY <1>2, <1>3, <2>1
  <2>4. SubSeq(rows, m, k) \o SubSeq(rows, k + 1, n) = SubSeq(rows, m, n)
    BY <1>1, <2>3, ConcatAdjacentSubSeq
  <2> QED BY <1>1, <1>3, <2>1, <2>2, <2>4
<1>4. CASE ~(n > after + limit)
  <2>1. Least(after + limit, n) = n
    BY <1>2, <1>4 DEF Least
  <2> QED BY <1>1, <1>4, <2>1
<1> QED
  BY <1>3, <1>4

\* All of a snapshot read page by page is its records, whatever the limit.
LEMMA ReadOutIsWhole ==
  ASSUME NEW s, s.records \in Seq(Rows), NEW limit \in Nat \ {0}
  PROVE  ReadOut(s, limit) = s.records
<1>1. PICK rows : rows = s.records
  OBVIOUS
<1>2. PICK n : n = Len(rows)
  OBVIOUS
<1>3. rows \in Seq(Rows) /\ n \in Nat
  BY <1>1, <1>2
<1> DEFINE w == [after \in Nat |-> SubSeq(rows, after + 1, n)]
           G(p) == p = [after \in Nat |->
              IF n > after + limit THEN SubSeq(rows, after + 1, Least(after + limit, n)) \o p[after + limit]
              ELSE SubSeq(rows, after + 1, Least(after + limit, n))]
           h == CHOOSE p : G(p)
<1>4. G(w)
  <2>1. ASSUME NEW after \in Nat
        PROVE  w[after] = IF n > after + limit
                          THEN SubSeq(rows, after + 1, Least(after + limit, n)) \o w[after + limit]
                          ELSE SubSeq(rows, after + 1, Least(after + limit, n))
    <3>1. w[after + limit] = SubSeq(rows, after + limit + 1, n) /\ w[after] = SubSeq(rows, after + 1, n)
      <4>1. PICK next : next = after + limit
        OBVIOUS
      <4>2. next \in Nat
        BY <4>1
      <4>3. w[next] = SubSeq(rows, next + 1, n) /\ w[after] = SubSeq(rows, after + 1, n)
        BY <4>2
      <4> QED BY <4>1, <4>3
    <3> HIDE DEF w
    <3> QED BY <1>2, <1>3, <3>1, RestOfRows
  <2> QED BY <2>1
<1>5. G(h)
  <2> HIDE DEF G, w
  <2> QED BY <1>4
<1>6. PICK p : p = h
  OBVIOUS
<1>7. \A after \in Nat : p[after] =
        IF n > after + limit THEN SubSeq(rows, after + 1, Least(after + limit, n)) \o p[after + limit]
        ELSE SubSeq(rows, after + 1, Least(after + limit, n))
  <2> HIDE DEF h
  <2> QED BY <1>5, <1>6
<1> DEFINE S == {k \in 0..n : \A after \in Nat : n - after <= k => p[after] = SubSeq(rows, after + 1, n)}
<1> HIDE DEF h, G, w
<1>8. 0 \in S
  <2>1. ASSUME NEW after \in Nat, n - after <= 0 PROVE p[after] = SubSeq(rows, after + 1, n)
    <3>1. ~(n > after + limit)
      BY <1>3, <2>1
    <3>2. p[after] = SubSeq(rows, after + 1, Least(after + limit, n))
      BY <1>7, <3>1
    <3> QED BY <1>2, <1>3, <3>1, <3>2, RestOfRows
  <2> QED BY <1>3, <2>1
<1>9. ASSUME NEW k \in 1..n, k - 1 \in S PROVE k \in S
  <2>1. ASSUME NEW after \in Nat, n - after <= k PROVE p[after] = SubSeq(rows, after + 1, n)
    <3>1. CASE n > after + limit
      <4>1. after + limit \in Nat /\ n - (after + limit) <= k - 1
        BY <1>3, <2>1
      <4>2. p[after + limit] = SubSeq(rows, after + limit + 1, n)
        BY <1>9, <4>1
      <4>3. p[after] = SubSeq(rows, after + 1, Least(after + limit, n)) \o p[after + limit]
        BY <1>7, <3>1
      <4> QED BY <1>2, <1>3, <3>1, <4>2, <4>3, RestOfRows
    <3>2. CASE ~(n > after + limit)
      <4>1. p[after] = SubSeq(rows, after + 1, Least(after + limit, n))
        BY <1>7, <3>2
      <4> QED BY <1>2, <1>3, <3>2, <4>1, RestOfRows
    <3> QED BY <3>1, <3>2
  <2> QED BY <1>9, <2>1
<1>10. \A k \in 0..n : k \in S
  <2> HIDE DEF S
  <2> QED BY <1>3, <1>8, <1>9, Climbing
<1>11. p[0] = SubSeq(rows, 1, n)
  <2>1. n \in S /\ n - 0 <= n /\ 0 + 1 = 1
    BY <1>3, <1>10
  <2> QED BY <2>1
<1>12. SubSeq(rows, 1, n) = rows
  BY <1>2, <1>3, SubSeqFull
<1>13. ReadOut(s, limit) = h[0]
  BY <1>1, <1>2, ReadOutUnfolded DEF h, G
<1> QED
  BY <1>1, <1>6, <1>11, <1>12, <1>13

PageStates == [position : Nat, records : Seq(Rows), exhausted : BOOLEAN]
\* The page after the first n records of the stream.
PageState(stream, after, limit, n) ==
  [position |-> Least(n, after + limit), records |-> SubSeq(stream, after + 1, Least(n, after + limit)),
   exhausted |-> n <= after + limit]

LEMMA SamePage ==
  ASSUME NEW a \in PageStates, NEW b \in PageStates,
         a.position = b.position, a.records = b.records, a.exhausted <=> b.exhausted
  PROVE  a = b
<1>1. /\ a = [position |-> a.position, records |-> a.records, exhausted |-> a.exhausted]
      /\ b = [position |-> b.position, records |-> b.records, exhausted |-> b.exhausted]
  BY DEF PageStates
<1>2. a.exhausted \in BOOLEAN /\ b.exhausted \in BOOLEAN
  BY DEF PageStates
<1>3. a.exhausted = b.exhausted
  BY <1>2, Zenon
<1> QED
  BY <1>1, <1>3, Zenon

\* The three ways a page goes on to the next record.
LEMMA PageSkips ==
  ASSUME NEW page \in PageStates, NEW next, next = [page EXCEPT !.position = @ + 1]
  PROVE  /\ next \in PageStates /\ next.position = page.position + 1 /\ next.records = page.records
         /\ next.exhausted <=> page.exhausted
BY DEF PageStates
LEMMA PageEnds ==
  ASSUME NEW page \in PageStates, NEW next, next = [page EXCEPT !.exhausted = FALSE]
  PROVE  /\ next \in PageStates /\ next.position = page.position /\ next.records = page.records
         /\ ~next.exhausted
BY DEF PageStates
Taken(page, r, next) ==
  /\ next \in PageStates /\ next.position = page.position + 1 /\ next.records = Append(page.records, r)
  /\ next.exhausted <=> page.exhausted
LEMMA PageTakes ==
  ASSUME NEW page \in PageStates, NEW r \in Rows, NEW next,
         next = [page EXCEPT !.position = @ + 1, !.records = Append(@, r)]
  PROVE  Taken(page, r, next)
<1>1. page.records \in Seq(Rows) /\ Append(page.records, r) \in Seq(Rows)
  BY AppendProperties DEF PageStates
<1>2. PICK more : more = Append(page.records, r)
  OBVIOUS
<1>3. next = [page EXCEPT !.position = page.position + 1, !.records = more]
  BY <1>2 DEF PageStates
<1>4. page.position + 1 \in Nat /\ more \in Seq(Rows)
  BY <1>1, <1>2 DEF PageStates
<1>5. PICK position : position = page.position + 1
  OBVIOUS
<1>6. next = [page EXCEPT !.position = position, !.records = more]
  BY <1>3, <1>5
<1>7. next \in PageStates
  BY <1>4, <1>5, <1>6 DEF PageStates
<1>8. next.position = position /\ next.records = more /\ (next.exhausted <=> page.exhausted)
  BY <1>6 DEF PageStates
<1> QED
  BY <1>2, <1>5, <1>7, <1>8 DEF Taken

LEMMA TakeRecordStays ==
  ASSUME NEW after \in Nat, NEW limit \in Nat \ {0}, NEW page \in PageStates, NEW r \in Rows
  PROVE  TakeRecord(after, limit, page, r) \in PageStates
<1>1. [page EXCEPT !.position = @ + 1] \in PageStates
  BY PageSkips
<1>2. [page EXCEPT !.exhausted = FALSE] \in PageStates
  BY PageEnds
<1>3. [page EXCEPT !.position = @ + 1, !.records = Append(@, r)] \in PageStates
  BY PageTakes DEF Taken
<1> QED
  BY <1>1, <1>2, <1>3, Zenon DEF TakeRecord

LEMMA PageStateIsState ==
  ASSUME NEW stream \in Seq(Rows), NEW after \in Nat, NEW limit \in Nat \ {0}, NEW n \in 0..Len(stream)
  PROVE  /\ PageState(stream, after, limit, n) \in PageStates
         /\ Len(PageState(stream, after, limit, n).records) =
              IF after < n THEN Least(n, after + limit) - after ELSE 0
<1>1. PICK last : last = Least(n, after + limit)
  OBVIOUS
<1>2. last \in Nat /\ last <= Len(stream) /\ (last > after <=> after < n)
  BY <1>1 DEF Least
<1>3. PICK m : m = after + 1
  OBVIOUS
<1>4. PICK sub : sub = SubSeq(stream, m, last)
  OBVIOUS
<1>5. /\ sub \in Seq(Rows)
      /\ Len(sub) = IF m <= last THEN last - m + 1 ELSE 0
  <2>1. m \in Int /\ last \in Int /\ \A i \in m..last : stream[i] \in Rows
    BY <1>2, <1>3
  <2> QED BY <1>4, <2>1, SubSeqProperties
<1>6. Len(sub) = IF after < n THEN last - after ELSE 0
  BY <1>2, <1>3, <1>5
<1> QED
  BY <1>1, <1>2, <1>3, <1>4, <1>5, <1>6 DEF PageState, PageStates

LEMMA TakeRecordNext ==
  ASSUME NEW stream \in Seq(Rows), NEW after \in Nat, NEW limit \in Nat \ {0}, NEW n \in 1..Len(stream)
  PROVE  TakeRecord(after, limit, PageState(stream, after, limit, n - 1), stream[n])
           = PageState(stream, after, limit, n)
<1>1. PICK page : page = PageState(stream, after, limit, n - 1)
  OBVIOUS
<1>2. n - 1 \in 0..Len(stream) /\ Len(stream) \in Nat /\ n \in Nat
  OBVIOUS
<1>3. /\ page \in PageStates
      /\ Len(page.records) = IF after < n - 1 THEN Least(n - 1, after + limit) - after ELSE 0
  BY <1>1, <1>2, PageStateIsState
<1>4. /\ page.position = Least(n - 1, after + limit)
      /\ page.records = SubSeq(stream, after + 1, Least(n - 1, after + limit))
      /\ page.exhausted <=> n - 1 <= after + limit
  BY <1>1 DEF PageState
<1>5. PICK goal : goal = PageState(stream, after, limit, n)
  OBVIOUS
<1>6. /\ goal \in PageStates
      /\ goal.position = Least(n, after + limit)
      /\ goal.records = SubSeq(stream, after + 1, Least(n, after + limit))
      /\ goal.exhausted <=> n <= after + limit
  <2>1. n \in 0..Len(stream)
    BY <1>2
  <2> QED BY <1>5, <2>1, PageStateIsState DEF PageState
<1>7. PICK next : next = TakeRecord(after, limit, page, stream[n])
  OBVIOUS
<1>8. CASE n - 1 > after + limit
  <2>1. /\ Least(n - 1, after + limit) = after + limit /\ Least(n, after + limit) = after + limit
        /\ ~(n <= after + limit) /\ ~(n - 1 <= after + limit)
    BY <1>2, <1>8 DEF Least
  <2>2. ~page.exhausted /\ ~goal.exhausted /\ page.position = goal.position /\ page.records = goal.records
    BY <1>4, <1>6, <2>1
  <2>3. next = page
    BY <1>7, <2>2 DEF TakeRecord
  <2>4. page = goal
    BY <1>3, <1>6, <2>2, SamePage
  <2> QED BY <1>1, <1>5, <1>7, <2>3, <2>4
<1>9. CASE n - 1 = after + limit
  <2>1. /\ Least(n - 1, after + limit) = n - 1 /\ Least(n, after + limit) = n - 1
        /\ ~(n <= after + limit) /\ n - 1 <= after + limit /\ ~(n - 1 < after)
        /\ n - 1 - after = limit /\ after < n - 1
    BY <1>2, <1>9 DEF Least
  <2>2. /\ page.exhausted /\ page.position = n - 1 /\ Len(page.records) = limit
        /\ ~goal.exhausted /\ goal.position = page.position /\ goal.records = page.records
    BY <1>3, <1>4, <1>6, <2>1
  <2>3. next = [page EXCEPT !.exhausted = FALSE]
    BY <1>7, <2>1, <2>2 DEF TakeRecord
  <2>4. /\ next \in PageStates /\ next.position = page.position /\ next.records = page.records
        /\ ~next.exhausted
    BY <1>3, <2>3, PageEnds
  <2>5. next = goal
    BY <1>6, <2>2, <2>4, SamePage
  <2> QED BY <1>1, <1>5, <1>7, <2>5
<1>10. CASE n - 1 < after + limit
  <2>1. /\ Least(n - 1, after + limit) = n - 1 /\ Least(n, after + limit) = n
        /\ n <= after + limit /\ n - 1 <= after + limit /\ n - 1 + 1 = n
    BY <1>2, <1>10 DEF Least
  <2>2. /\ page.exhausted /\ page.position = n - 1 /\ page.records = SubSeq(stream, after + 1, n - 1)
        /\ goal.exhausted /\ goal.position = n /\ goal.records = SubSeq(stream, after + 1, n)
    BY <1>4, <1>6, <2>1
  <2>3. CASE n - 1 < after
    <3>1. next = [page EXCEPT !.position = @ + 1]
      BY <1>7, <2>2, <2>3 DEF TakeRecord
    <3>2. /\ next \in PageStates /\ next.position = n /\ next.records = page.records /\ next.exhausted
      BY <1>3, <2>1, <2>2, <3>1, PageSkips
    <3>3. SubSeq(stream, after + 1, n - 1) = SubSeq(stream, after + 1, n)
      <4>1. after + 1 \in Int /\ n - 1 \in Int /\ n \in Int /\ n - 1 < after + 1 /\ n < after + 1
        BY <1>2, <2>3
      <4>2. SubSeq(stream, after + 1, n - 1) = <<>>
        BY <4>1, SubSeqEmpty
      <4>3. SubSeq(stream, after + 1, n) = <<>>
        BY <4>1, SubSeqEmpty
      <4> QED BY <4>2, <4>3
    <3>4. next = goal
      BY <1>6, <2>2, <3>2, <3>3, SamePage
    <3> QED BY <1>1, <1>5, <1>7, <3>4
  <2>4. CASE ~(n - 1 < after)
    <3>1. Len(page.records) # limit
      BY <1>2, <1>3, <1>10, <2>1, <2>4
    <3>2. next = [page EXCEPT !.position = @ + 1, !.records = Append(@, stream[n])]
      BY <1>7, <2>2, <2>4, <3>1 DEF TakeRecord
    <3>3. /\ next \in PageStates /\ next.position = n /\ next.records = Append(page.records, stream[n])
          /\ next.exhausted
      <4>1. stream[n] \in Rows
        OBVIOUS
      <4>2. PICK r : r = stream[n]
        OBVIOUS
      <4>3. next = [page EXCEPT !.position = @ + 1, !.records = Append(@, r)]
        BY <3>2, <4>2
      <4>4. /\ next \in PageStates /\ next.position = page.position + 1 /\ next.records = Append(page.records, r)
            /\ next.exhausted <=> page.exhausted
        <5>1. page \in PageStates /\ r \in Rows
          BY <1>3, <4>1, <4>2
        <5>2. Taken(page, r, next)
          BY <4>3, <5>1, PageTakes
        <5> QED BY <5>2 DEF Taken
      <4> QED BY <2>1, <2>2, <4>2, <4>4
    <3>4. Append(SubSeq(stream, after + 1, n - 1), stream[n]) = SubSeq(stream, after + 1, n)
      <4>1. PICK m : m = after + 1
        OBVIOUS
      <4>2. m \in 1..Len(stream) /\ n \in m..Len(stream) /\ stream[n] \in Rows
        BY <1>2, <2>4, <4>1
      <4>3. SubSeq(stream, m, n) = SubSeq(stream, m, n - 1) \o <<stream[n]>>
        BY <4>2, SubSeqRecursiveSecond
      <4>4. SubSeq(stream, m, n - 1) \in Seq(Rows)
        <5>1. \A i \in m..(n - 1) : stream[i] \in Rows
          BY <1>2, <4>2
        <5>2. m \in Int /\ n - 1 \in Int
          BY <1>2, <4>2
        <5> QED BY <5>1, <5>2, SubSeqProperties
      <4> QED BY <4>1, <4>2, <4>3, <4>4, AppendIsConcat
    <3>5. next = goal
      BY <1>6, <2>2, <3>3, <3>4, SamePage
    <3> QED BY <1>1, <1>5, <1>7, <3>5
  <2> QED BY <2>3, <2>4
<1> QED
  BY <1>2, <1>8, <1>9, <1>10

\* The positions of a fold, one after the other.
LEMMA FoldSteps ==
  ASSUME NEW n \in Nat, NEW Q, NEW q, NEW step, NEW g, Folds(g, n, Q, q, step)
  PROVE  /\ \A i \in 0..n : g[1..i] \in Q
         /\ g[1..0] = q /\ g[{}] = q
         /\ \A i \in 1..n : g[1..i] = step[i][g[1..(i - 1)]]
<1>1. /\ g \in [SUBSET (1..n) -> Q]
      /\ \A s \in SUBSET (1..n) : g[s] = IF s = {} THEN q ELSE step[Max(s)][g[s \ {Max(s)}]]
  BY DEF Folds
<1>2. \A i \in 0..n : 1..i \in SUBSET (1..n)
  OBVIOUS
<1>3. {} \in SUBSET (1..n) /\ 1..0 = {}
  OBVIOUS
<1>4. ASSUME NEW i \in 1..n PROVE g[1..i] = step[i][g[1..(i - 1)]]
  <2>1. 1..i \in SUBSET (1..n) /\ 1..i # {} /\ Max(1..i) = i /\ (1..i) \ {i} = 1..(i - 1)
    BY <1>4, LastOfPrefix
  <2> QED BY <1>1, <2>1
<1> QED
  BY <1>1, <1>2, <1>3, <1>4

TakeRecords(after, limit, page, rows) ==
  FoldLeft(LAMBDA p, r : TakeRecord(after, limit, p, r), page, rows)
LEMMA TakeRecordsUnfolded ==
  ASSUME NEW after, NEW limit, NEW page, NEW rows
  PROVE  TakeRecords(after, limit, page, rows) =
           (CHOOSE g : g = [s \in SUBSET DOMAIN rows |->
              IF s = {} THEN page
              ELSE TakeRecord(after, limit, g[s \ {Max(s)}], rows[Max(s)])])[DOMAIN rows]
BY DEF TakeRecords, FoldLeft, MapThenFoldSet
LEMMA TakeMemberIsRecords ==
  ASSUME NEW after, NEW limit, NEW page, NEW member
  PROVE  TakeMember(after, limit, page, member) = TakeRecords(after, limit, page, ReadOut(member.snapshot, limit))
BY DEF TakeMember, TakeRecords

\* The states of a page along the records of one member.
RecordSteps(f, after, limit, page, rows) ==
  /\ f \in [0..Len(rows) -> PageStates] /\ f[0] = page
  /\ \A i \in 1..Len(rows) : f[i] = TakeRecord(after, limit, f[i - 1], rows[i])
  /\ f[Len(rows)] = TakeRecords(after, limit, page, rows)
LEMMA TakeRecordsFold ==
  ASSUME NEW after \in Nat, NEW limit \in Nat \ {0}, NEW rows \in Seq(Rows), NEW page \in PageStates
  PROVE  \E f : RecordSteps(f, after, limit, page, rows)
<1>0. PICK n : n = Len(rows)
  OBVIOUS
<1>1. n \in Nat /\ DOMAIN rows = 1..n /\ \A i \in 1..n : rows[i] \in Rows
  BY <1>0
<1> DEFINE step == [i \in 1..n |-> [p \in PageStates |-> TakeRecord(after, limit, p, rows[i])]]
           F(g) == g = [s \in SUBSET DOMAIN rows |->
              IF s = {} THEN page ELSE TakeRecord(after, limit, g[s \ {Max(s)}], rows[Max(s)])]
           h == CHOOSE g : F(g)
<1>2. step \in [1..n -> [PageStates -> PageStates]]
  BY <1>1, TakeRecordStays
<1>3. PICK g : Folds(g, n, PageStates, page, step)
  <2> HIDE DEF step
  <2> QED BY <1>1, <1>2, FoldExists
<1>4. \A s \in SUBSET (1..n) : s # {} => Max(s) \in 1..n /\ s \ {Max(s)} \in SUBSET (1..n)
  BY <1>1, LastPosition
<1>5. /\ g \in [SUBSET (1..n) -> PageStates]
      /\ \A s \in SUBSET (1..n) : g[s] = IF s = {} THEN page ELSE step[Max(s)][g[s \ {Max(s)}]]
  <2> HIDE DEF step
  <2> QED BY <1>3 DEF Folds
<1>6. \A s \in SUBSET (1..n) : s # {} => g[s] = TakeRecord(after, limit, g[s \ {Max(s)}], rows[Max(s)])
  <2>1. ASSUME NEW s \in SUBSET (1..n), s # {}
        PROVE  g[s] = TakeRecord(after, limit, g[s \ {Max(s)}], rows[Max(s)])
    <3>1. Max(s) \in 1..n /\ g[s \ {Max(s)}] \in PageStates /\ g[s] = step[Max(s)][g[s \ {Max(s)}]]
      <4> HIDE DEF step
      <4> QED BY <1>4, <1>5, <2>1
    <3> QED BY <3>1
  <2> QED BY <2>1
<1>7. g[{}] = page
  <2>1. {} \in SUBSET (1..n)
    OBVIOUS
  <2> HIDE DEF step
  <2> QED BY <1>5, <2>1
<1>8. F(g)
  <2> HIDE DEF step
  <2> QED BY <1>1, <1>5, <1>6, <1>7
<1>9. F(h)
  <2> HIDE DEF F
  <2> QED BY <1>8
<1>10. PICK k : k = h
  OBVIOUS
<1>11. /\ k[{}] = page
       /\ \A s \in SUBSET (1..n) : s # {} => k[s] = TakeRecord(after, limit, k[s \ {Max(s)}], rows[Max(s)])
  <2> HIDE DEF h
  <2> QED BY <1>1, <1>9, <1>10
<1> HIDE DEF h, F
<1>12. \A s \in SUBSET (1..n) : g[s] = k[s]
  <2> HIDE DEF step
  <2>1. AgreeStepwise(n, g, k)
    BY <1>6, <1>7, <1>11 DEF AgreeStepwise
  <2> QED BY <1>1, <2>1, FoldsAgree
<1>13. TakeRecords(after, limit, page, rows) = h[DOMAIN rows]
  BY TakeRecordsUnfolded DEF h, F
<1>14. TakeRecords(after, limit, page, rows) = g[1..n]
  <2>1. 1..n \in SUBSET (1..n)
    OBVIOUS
  <2> HIDE DEF step
  <2> QED BY <1>1, <1>10, <1>12, <1>13, <2>1
<1>15. /\ \A i \in 0..n : g[1..i] \in PageStates
       /\ g[1..0] = page
       /\ \A i \in 1..n : g[1..i] = step[i][g[1..(i - 1)]]
  <2> HIDE DEF step
  <2> QED BY <1>1, <1>3, FoldSteps
<1>16. \A i \in 1..n : g[1..i] = TakeRecord(after, limit, g[1..(i - 1)], rows[i])
  <2>1. \A i \in 1..n : i - 1 \in 0..n
    BY <1>1
  <2> QED BY <1>15, <2>1
<1> HIDE DEF step
<1>17. PICK f : f = [i \in 0..n |-> g[1..i]]
  OBVIOUS
<1>18. f \in [0..n -> PageStates] /\ f[0] = page
  <2>1. 0 \in 0..n
    BY <1>1
  <2> QED BY <1>15, <1>17, <2>1
<1>19. \A i \in 1..n : f[i] = TakeRecord(after, limit, f[i - 1], rows[i])
  <2>1. \A i \in 1..n : i - 1 \in 0..n /\ i \in 0..n
    BY <1>1
  <2> QED BY <1>16, <1>17, <2>1
<1>20. f[n] = TakeRecords(after, limit, page, rows)
  <2>1. n \in 0..n
    BY <1>1
  <2> QED BY <1>14, <1>17, <2>1
<1> QED
  BY <1>0, <1>18, <1>19, <1>20 DEF RecordSteps

LEMMA TakeMemberStays ==
  ASSUME NEW after \in Nat, NEW limit \in Nat \ {0}, NEW page \in PageStates, NEW member,
         member.snapshot.records \in Seq(Rows)
  PROVE  TakeMember(after, limit, page, member) \in PageStates
<1>1. PICK rows : rows = member.snapshot.records
  OBVIOUS
<1>2. TakeMember(after, limit, page, member) = TakeRecords(after, limit, page, rows)
  BY <1>1, ReadOutIsWhole, TakeMemberIsRecords
<1>3. rows \in Seq(Rows) /\ Len(rows) \in 0..Len(rows)
  BY <1>1
<1>4. PICK f : f \in [0..Len(rows) -> PageStates] /\ f[Len(rows)] = TakeRecords(after, limit, page, rows)
  BY <1>3, TakeRecordsFold DEF RecordSteps
<1> QED
  BY <1>2, <1>3, <1>4

\* A member whose records are the next of the stream moves the page past them.
LEMMA TakeMemberMoves ==
  ASSUME NEW stream \in Seq(Rows), NEW after \in Nat, NEW limit \in Nat \ {0}, NEW start \in Nat,
         NEW rows \in Seq(Rows), start + Len(rows) <= Len(stream),
         IsPage(rows, Len(rows), stream, start), NEW member, member.snapshot.records = rows
  PROVE  TakeMember(after, limit, PageState(stream, after, limit, start), member)
         = PageState(stream, after, limit, start + Len(rows))
<1>1. PICK page : page = PageState(stream, after, limit, start)
  OBVIOUS
<1>2. PICK n : n = Len(rows)
  OBVIOUS
<1>3. n \in Nat /\ start \in 0..Len(stream) /\ start + n <= Len(stream) /\ Len(stream) \in Nat
  BY <1>2
<1>4. page \in PageStates
  BY <1>1, <1>3, PageStateIsState
<1>5. TakeMember(after, limit, page, member) = TakeRecords(after, limit, page, rows)
  BY ReadOutIsWhole, TakeMemberIsRecords
<1>6. PICK f : /\ f[0] = page
               /\ \A i \in 1..n : f[i] = TakeRecord(after, limit, f[i - 1], rows[i])
               /\ f[n] = TakeRecords(after, limit, page, rows)
  <2>1. PICK f : RecordSteps(f, after, limit, page, rows)
    BY <1>4, TakeRecordsFold
  <2> QED BY <1>2, <2>1 DEF RecordSteps
<1> DEFINE S == {i \in 0..n : f[i] = PageState(stream, after, limit, start + i)}
<1>7. 0 \in S
  BY <1>1, <1>3, <1>6
<1>8. ASSUME NEW i \in 1..n, i - 1 \in S PROVE i \in S
  <2>1. PICK k : k = start + i
    OBVIOUS
  <2>2. k \in 1..Len(stream) /\ start + (i - 1) = k - 1
    BY <1>3, <2>1
  <2>3. f[i - 1] = PageState(stream, after, limit, k - 1)
    BY <1>8, <2>2
  <2>4. rows[i] = stream[k]
    BY <1>2, <2>1 DEF IsPage
  <2>5. f[i] = TakeRecord(after, limit, PageState(stream, after, limit, k - 1), stream[k])
    BY <1>6, <2>3, <2>4
  <2>6. f[i] = PageState(stream, after, limit, k)
    BY <2>2, <2>5, TakeRecordNext
  <2> QED BY <2>1, <2>6
<1>9. \A i \in 0..n : i \in S
  <2> HIDE DEF S
  <2> QED BY <1>3, <1>7, <1>8, Climbing
<1>10. n \in S
  <2> HIDE DEF S
  <2> QED BY <1>3, <1>9
<1> QED
  BY <1>1, <1>2, <1>5, <1>6, <1>10

TakeMembers(after, limit, dataset) ==
  FoldLeft(LAMBDA p, m : TakeMember(after, limit, p, m), FirstPage, dataset)
LEMMA TakeMembersUnfolded ==
  ASSUME NEW after, NEW limit, NEW dataset
  PROVE  TakeMembers(after, limit, dataset) =
           (CHOOSE g : g = [s \in SUBSET DOMAIN dataset |->
              IF s = {} THEN FirstPage
              ELSE TakeMember(after, limit, g[s \ {Max(s)}], dataset[Max(s)])])[DOMAIN dataset]
BY DEF TakeMembers, FoldLeft, MapThenFoldSet
LEMMA DatasetPageIsMembers ==
  ASSUME NEW after, NEW limit, NEW dataset
  PROVE  DatasetPage(dataset, after, limit) =
           [records |-> TakeMembers(after, limit, dataset).records,
            cursor |-> after + Len(TakeMembers(after, limit, dataset).records),
            more |-> ~TakeMembers(after, limit, dataset).exhausted]
BY DEF DatasetPage, TakeMembers

\* The states of a page along the members of a dataset.
MemberSteps(f, after, limit, n, dataset) ==
  /\ f[0] = FirstPage
  /\ \A i \in 1..n : f[i] = TakeMember(after, limit, f[i - 1], dataset[i])
  /\ f[n] = TakeMembers(after, limit, dataset)
LEMMA TakeMembersFold ==
  ASSUME NEW after \in Nat, NEW limit \in Nat \ {0}, NEW n \in Nat, NEW dataset, DOMAIN dataset = 1..n,
         \A i \in 1..n : dataset[i].snapshot.records \in Seq(Rows)
  PROVE  \E f : MemberSteps(f, after, limit, n, dataset)
<1>1. FirstPage \in PageStates
  BY DEF FirstPage, PageStates
<1> DEFINE step == [i \in 1..n |-> [p \in PageStates |-> TakeMember(after, limit, p, dataset[i])]]
           F(g) == g = [s \in SUBSET DOMAIN dataset |->
              IF s = {} THEN FirstPage ELSE TakeMember(after, limit, g[s \ {Max(s)}], dataset[Max(s)])]
           h == CHOOSE g : F(g)
<1>2. step \in [1..n -> [PageStates -> PageStates]]
  BY TakeMemberStays
<1>3. PICK g : Folds(g, n, PageStates, FirstPage, step)
  <2> HIDE DEF step
  <2> QED BY <1>1, <1>2, FoldExists
<1>4. \A s \in SUBSET (1..n) : s # {} => Max(s) \in 1..n /\ s \ {Max(s)} \in SUBSET (1..n)
  BY LastPosition
<1>5. /\ g \in [SUBSET (1..n) -> PageStates]
      /\ \A s \in SUBSET (1..n) : g[s] = IF s = {} THEN FirstPage ELSE step[Max(s)][g[s \ {Max(s)}]]
  <2> HIDE DEF step
  <2> QED BY <1>3 DEF Folds
<1>6. \A s \in SUBSET (1..n) : s # {} => g[s] = TakeMember(after, limit, g[s \ {Max(s)}], dataset[Max(s)])
  <2>1. ASSUME NEW s \in SUBSET (1..n), s # {}
        PROVE  g[s] = TakeMember(after, limit, g[s \ {Max(s)}], dataset[Max(s)])
    <3>1. Max(s) \in 1..n /\ g[s \ {Max(s)}] \in PageStates /\ g[s] = step[Max(s)][g[s \ {Max(s)}]]
      <4> HIDE DEF step
      <4> QED BY <1>4, <1>5, <2>1
    <3> QED BY <3>1
  <2> QED BY <2>1
<1>7. g[{}] = FirstPage
  <2>1. {} \in SUBSET (1..n)
    OBVIOUS
  <2> HIDE DEF step
  <2> QED BY <1>5, <2>1
<1>8. F(g)
  <2> HIDE DEF step
  <2> QED BY <1>5, <1>6, <1>7
<1>9. F(h)
  <2> HIDE DEF F
  <2> QED BY <1>8
<1>10. PICK k : k = h
  OBVIOUS
<1>11. /\ k[{}] = FirstPage
       /\ \A s \in SUBSET (1..n) : s # {} => k[s] = TakeMember(after, limit, k[s \ {Max(s)}], dataset[Max(s)])
  <2> HIDE DEF h
  <2> QED BY <1>9, <1>10
<1> HIDE DEF h, F
<1>12. \A s \in SUBSET (1..n) : g[s] = k[s]
  <2> HIDE DEF step
  <2>1. AgreeStepwise(n, g, k)
    BY <1>6, <1>7, <1>11 DEF AgreeStepwise
  <2> QED BY <2>1, FoldsAgree
<1>13. TakeMembers(after, limit, dataset) = h[DOMAIN dataset]
  BY TakeMembersUnfolded DEF h, F
<1>14. TakeMembers(after, limit, dataset) = g[1..n]
  <2>1. 1..n \in SUBSET (1..n)
    OBVIOUS
  <2> HIDE DEF step
  <2> QED BY <1>10, <1>12, <1>13, <2>1
<1>15. /\ \A i \in 0..n : g[1..i] \in PageStates
       /\ g[1..0] = FirstPage
       /\ \A i \in 1..n : g[1..i] = step[i][g[1..(i - 1)]]
  <2> HIDE DEF step
  <2> QED BY <1>3, FoldSteps
<1>16. \A i \in 1..n : g[1..i] = TakeMember(after, limit, g[1..(i - 1)], dataset[i])
  <2>1. \A i \in 1..n : i - 1 \in 0..n
    OBVIOUS
  <2> QED BY <1>15, <2>1
<1> HIDE DEF step
<1>17. PICK f : f = [i \in 0..n |-> g[1..i]]
  OBVIOUS
<1>18. f[0] = FirstPage
  <2>1. 0 \in 0..n
    OBVIOUS
  <2> QED BY <1>15, <1>17, <2>1
<1>19. \A i \in 1..n : f[i] = TakeMember(after, limit, f[i - 1], dataset[i])
  <2>1. \A i \in 1..n : i - 1 \in 0..n /\ i \in 0..n
    OBVIOUS
  <2> QED BY <1>16, <1>17, <2>1
<1>20. f[n] = TakeMembers(after, limit, dataset)
  <2>1. n \in 0..n
    OBVIOUS
  <2> QED BY <1>14, <1>17, <2>1
<1> QED
  BY <1>18, <1>19, <1>20 DEF MemberSteps

LEMMA DatasetPageIsExact ==
  ASSUME NEW d \in Seq(Members), \A i \in DOMAIN d : d[i].snapshot.records \in Seq(Rows),
         NEW stream, stream = FlattenSeq([i \in DOMAIN d |-> d[i].snapshot.records]),
         NEW after \in 0..Len(stream), NEW limit \in 1..3
  PROVE  /\ DatasetPage(d, after, limit).records = SubSeq(stream, after + 1, Least(after + limit, Len(stream)))
         /\ DatasetPage(d, after, limit).more <=> after + limit < Len(stream)
<1>1. PICK n : n = Len(d)
  OBVIOUS
<1>2. n \in Nat /\ DOMAIN d = 1..n /\ limit \in Nat \ {0}
  BY <1>1
<1>3. PICK seqs : seqs = [i \in 1..n |-> d[i].snapshot.records]
  OBVIOUS
<1>4. (\A i \in 1..n : seqs[i] = d[i].snapshot.records /\ seqs[i] \in Seq(Rows)) /\ seqs \in [1..n -> Seq(Rows)]
  BY <1>2, <1>3
<1>5. seqs \in Seq(Seq(Rows)) /\ Len(seqs) = n
  BY <1>2, <1>4
<1>6. PICK g : Joins(Rows, g, n, seqs)
  BY <1>2, <1>4, JoinsExist
<1>7. stream = g[n]
  <2>1. stream = FlattenSeq(seqs)
    BY <1>2, <1>3
  <2>2. CASE n = 0
    <3>1. seqs = <<>>
      BY <1>5, <2>2, EmptySeq
    <3>2. FlattenSeq(seqs) = seqs
      BY <1>5, <2>2 DEF FlattenSeq
    <3>3. g[0] = <<>>
      BY <1>6 DEF Joins
    <3> QED BY <2>1, <2>2, <3>1, <3>2, <3>3
  <2>3. CASE n # 0
    BY <1>2, <1>4, <1>5, <1>6, <2>1, <2>3, FlattenIsJoined
  <2> QED BY <2>2, <2>3
<1>8. /\ \A i \in 0..n : g[i] \in Seq(Rows) /\ Len(g[i]) \in Nat
      /\ g[0] = <<>> /\ \A i \in 1..n : g[i] = g[i - 1] \o seqs[i]
  <2>1. g \in [0..n -> Seq(Rows)] /\ g[0] = <<>> /\ \A i \in 1..n : g[i] = g[i - 1] \o seqs[i]
    BY <1>6 DEF Joins
  <2>2. \A i \in 0..n : g[i] \in Seq(Rows)
    BY <2>1
  <2>3. \A s \in Seq(Rows) : Len(s) \in Nat
    OBVIOUS
  <2> QED BY <2>1, <2>2, <2>3
<1>9. stream \in Seq(Rows) /\ Len(stream) \in Nat /\ after \in Nat
  <2>1. n \in 0..n
    BY <1>2
  <2>2. stream \in Seq(Rows) /\ Len(stream) \in Nat
    BY <1>7, <1>8, <2>1
  <2> QED BY <2>2
<1>10. \A i \in 0..n : Extended(g[i], stream)
  <2>1. n \in 0..n
    BY <1>2
  <2>2. \A i \in 1..n : seqs[i] \in Seq(Rows)
    BY <1>4
  <2>3. \A k \in 0..n : \A i \in 0..k : Extended(g[i], g[k])
    BY <1>2, <1>6, <2>2, JoinsExtend
  <2> QED BY <1>7, <2>1, <2>3
<1>11. PICK f : /\ f[0] = FirstPage
                /\ \A i \in 1..n : f[i] = TakeMember(after, limit, f[i - 1], d[i])
                /\ f[n] = TakeMembers(after, limit, d)
  <2>1. \A i \in 1..n : d[i].snapshot.records \in Seq(Rows)
    BY <1>2
  <2>2. PICK f : MemberSteps(f, after, limit, n, d)
    BY <1>2, <1>9, <2>1, TakeMembersFold
  <2> QED BY <2>2 DEF MemberSteps
<1> DEFINE S == {i \in 0..n : f[i] = PageState(stream, after, limit, Len(g[i]))}
<1>12. 0 \in S
  <2>1. PICK start : start = PageState(stream, after, limit, 0)
    OBVIOUS
  <2>2. Len(g[0]) = 0
    BY <1>8
  <2>3. start \in PageStates /\ Len(start.records) = 0 /\ start.position = 0 /\ start.exhausted
    <3>1. 0 \in 0..Len(stream)
      BY <1>9
    <3>2. start \in PageStates /\ Len(start.records) = 0
      BY <1>2, <1>9, <2>1, <3>1, PageStateIsState
    <3>3. start.position = 0 /\ start.exhausted
      <4>1. 0 <= after + limit /\ Least(0, after + limit) = 0
        BY <1>2, <1>9 DEF Least
      <4> QED BY <2>1, <4>1 DEF PageState
    <3> QED BY <3>2, <3>3
  <2>4. FirstPage \in PageStates /\ FirstPage.position = 0 /\ FirstPage.records = <<>> /\ FirstPage.exhausted
    BY DEF FirstPage, PageStates
  <2>5. start.records = <<>>
    BY <2>3, EmptySeq DEF PageStates
  <2>6. start = FirstPage
    BY <2>3, <2>4, <2>5, SamePage
  <2> QED BY <1>2, <1>11, <2>1, <2>2, <2>6
<1>13. ASSUME NEW i \in 1..n, i - 1 \in S PROVE i \in S
  <2>1. PICK rows, start : rows = seqs[i] /\ start = Len(g[i - 1])
    OBVIOUS
  <2>2. i - 1 \in 0..n /\ i \in 0..n
    BY <1>2
  <2>3. rows \in Seq(Rows) /\ start \in Nat /\ g[i - 1] \in Seq(Rows) /\ g[i] = g[i - 1] \o rows
    BY <1>4, <1>8, <2>1, <2>2
  <2>4. Len(g[i]) = start + Len(rows) /\ \A j \in 1..Len(rows) : g[i][start + j] = rows[j]
    <3>1. PICK a : a = g[i - 1]
      OBVIOUS
    <3>2. a \in Seq(Rows) /\ start = Len(a) /\ Len(rows) \in Nat
      BY <2>1, <2>3, <3>1
    <3>3. Len(a \o rows) = start + Len(rows) /\ \A j \in 1..Len(rows) : (a \o rows)[start + j] = rows[j]
      BY <2>3, <3>2
    <3> QED BY <2>3, <3>1, <3>3
  <2>5. Extended(g[i], stream)
    BY <1>10, <2>2
  <2>6. start + Len(rows) <= Len(stream)
    BY <2>4, <2>5 DEF Extended
  <2>7. IsPage(rows, Len(rows), stream, start)
    <3>1. ASSUME NEW j \in 1..Len(rows) PROVE rows[j] = stream[start + j]
      <4>1. start + j \in 1..Len(g[i])
        BY <2>3, <2>4
      <4> QED BY <2>4, <2>5, <4>1 DEF Extended
    <3> QED BY <3>1 DEF IsPage
  <2>8. f[i] = TakeMember(after, limit, PageState(stream, after, limit, start), d[i])
    BY <1>11, <1>13, <2>1
  <2>9. d[i].snapshot.records = rows
    BY <1>4, <2>1
  <2>10. f[i] = PageState(stream, after, limit, start + Len(rows))
    BY <1>2, <1>9, <2>3, <2>6, <2>7, <2>8, <2>9, TakeMemberMoves
  <2> QED BY <2>2, <2>4, <2>10
<1>14. \A i \in 0..n : i \in S
  <2> HIDE DEF S
  <2> QED BY <1>2, <1>12, <1>13, Climbing
<1>15. f[n] = PageState(stream, after, limit, Len(stream))
  <2>1. n \in S
    <3> HIDE DEF S
    <3> QED BY <1>2, <1>14
  <2> QED BY <1>7, <2>1
<1>16. PICK last : last = PageState(stream, after, limit, Len(stream))
  OBVIOUS
<1>17. Least(Len(stream), after + limit) = Least(after + limit, Len(stream))
  BY <1>2, <1>9 DEF Least
<1>18. last.records = SubSeq(stream, after + 1, Least(after + limit, Len(stream)))
  BY <1>16, <1>17 DEF PageState
<1>19. last.exhausted <=> Len(stream) <= after + limit
  BY <1>16 DEF PageState
<1>20. DatasetPage(d, after, limit).records = last.records /\ DatasetPage(d, after, limit).more = ~last.exhausted
  BY <1>11, <1>15, <1>16, DatasetPageIsMembers
<1>21. ~last.exhausted <=> after + limit < Len(stream)
  BY <1>2, <1>9, <1>19
<1> QED
  BY <1>18, <1>20, <1>21, Zenon

\* Paging a stored dataset from any cursor neither omits nor repeats a
\* record of its members, and says whether more follow.
THEOREM DatasetPagingIsExact == TrajectorySpec => []DatasetPagesAreExact
<1>1. ReadersInv => DatasetPagesAreExact
  <2> SUFFICES ASSUME ReadersInv PROVE DatasetPagesAreExact
    OBVIOUS
  <2>1. ASSUME NEW d \in datasets PROVE d \in Seq(Members) /\ \A i \in DOMAIN d : d[i].snapshot.records \in Seq(Rows)
    <3>1. d \in Seq(Members) /\ \A i \in DOMAIN d : MemberOK(d[i])
      BY DEF ReadersInv, TablesOK
    <3>2. \A s \in snapshots : s.records \in Seq(Rows)
      BY DEF ReadersInv, TablesOK, SnapOK, Snaps
    <3> QED BY <3>1, <3>2 DEF MemberOK
  <2> QED BY <2>1, DatasetPageIsExact DEF DatasetPagesAreExact
<1> QED
  BY <1>1, ReadersInvAlways, PTL

------------------------------------------------------------------------------
(* Evidence: what the tables and a client in between two pages hold. *)

Named == SUBSET (Participants \cup {Everyone})
Ids == [in : Seq(Sessions), seq : Nat]
Kinds == {"session.created", "session.branched", "event", "artifact", "checkpoint.committed"}
Originals == [kind : Kinds, audience : Named, large : BOOLEAN, about : Ids \cup {Absent}]
Recs == [session : Sessions, seq : Nat, event : Originals]
Wraps == [kind : Inherited, audience : Named, about : {Absent}, large : {TRUE},
          record : Recs, part : Nat, parts : Nat]
Evidences == Originals \cup Wraps
Artifacts == [session : Sessions, id : Ids, content : Ids, audience : Named]
Aliases == [session : Sessions, alias : Ids, artifact : Ids]
Cuts == [session : Sessions, cursor : Nat, artifacts : SUBSET Artifacts, aliases : SUBSET Aliases]
ReplayClients == [at : {"replay", "replayed"}, session : Sessions, who : Participants \cup {Evaluator},
                  cursor : Nat, got : SUBSET Nat, end : Nat]
FeedClients == [at : {"feed", "overview"}, scope : SUBSET Sessions, cursor : Nat,
                seen : SUBSET Nat, view : SUBSET Nat]

LogsOK == log \in [Sessions -> Seq(Evidences)]
RowsOK ==
  /\ parent \in [Sessions -> Sessions \cup {Absent}] /\ base \in [Sessions -> Cuts \cup {Absent}]
  /\ checkpoints \subseteq Cuts /\ artifacts \subseteq Artifacts /\ aliases \subseteq Aliases
  /\ \A s \in Sessions : parent[s] # Absent => base[s] \in checkpoints /\ base[s].session = parent[s]
  /\ \A cp \in checkpoints : Born(cp.session) /\ cp.cursor <= Len(log[cp.session])
OutboxOK ==
  /\ hosted \in BOOLEAN
  /\ outbox \in Seq(Sessions \cup {Absent}) /\ Len(outbox) <= MaxWrites
  /\ open \in [Sessions -> Nat]
  /\ \A s \in Sessions : open[s] # 0 => open[s] \in 1..Len(outbox) /\ Born(s)
\* The local store: one transaction, whose row is the last and missing.
SerialOK ==
  /\ \A s \in Sessions : open[s] # 0 => open[s] = Len(outbox) /\ \A t \in Sessions : open[t] # 0 => t = s
  /\ \A i \in 1..Len(outbox) : outbox[i] = Absent <=> \E s \in Sessions : open[s] = i
ClientOK == client \in {ClientIdle} \cup ReplayClients \cup FeedClients
Covered == IF client.at = "replay" THEN client.cursor ELSE client.end
ReplayOK ==
  client.at \in {"replay", "replayed"} =>
    /\ Born(client.session) /\ Covered <= Len(log[client.session])
    /\ client.got = {i \in 1..Covered : MayRead(client.who, log[client.session][i])}
FeedOK ==
  client.at \in {"feed", "overview"} =>
    /\ client.cursor <= Len(outbox)
    /\ \A i \in 1..client.cursor :
         outbox[i] # Absent /\ (outbox[i] \in client.scope => i \in client.seen \cup client.view)
    /\ client.at = "overview" => Unlocked /\ client.view = Committed
EvidenceInv ==
  /\ LogsOK /\ RowsOK /\ OutboxOK /\ ClientOK
  /\ ReplayOK /\ (~hosted => SerialOK /\ FeedOK)

LEMMA FlattenTyped ==
  ASSUME NEW R, NEW seqs \in Seq(Seq(R))
  PROVE  FlattenSeq(seqs) \in Seq(R)
<1>1. PICK n : n = Len(seqs)
  OBVIOUS
<1>2. n \in Nat /\ \A i \in 1..n : seqs[i] \in Seq(R)
  BY <1>1
<1>3. CASE n = 0
  <2>1. FlattenSeq(seqs) = seqs
    BY <1>1, <1>3 DEF FlattenSeq
  <2>2. seqs = <<>>
    BY <1>1, <1>3, EmptySeq
  <2> QED BY <2>1, <2>2
<1>4. CASE n # 0
  <2>1. PICK g : Joins(R, g, n, seqs)
    BY <1>2, JoinsExist
  <2>2. FlattenSeq(seqs) = g[n]
    BY <1>1, <1>2, <1>4, <2>1, FlattenIsJoined
  <2>3. g[n] \in Seq(R)
    BY <1>2, <2>1 DEF Joins
  <2> QED BY <2>2, <2>3
<1> QED
  BY <1>3, <1>4

LEMMA EventTyped ==
  ASSUME NEW k \in Kinds, NEW a \in Named, NEW l \in BOOLEAN, NEW id \in Ids \cup {Absent}
  PROVE  Event(k, [audience |-> a, large |-> l], id) \in Evidences
BY DEF Event, Evidences, Originals

LEMMA ClassTyped == \A c \in Classes : c.audience \in Named /\ c.large \in BOOLEAN
BY EvidenceAssumption DEF Named

LEMMA OriginalTyped ==
  ASSUME NEW e \in Evidences, e.kind \notin Inherited
  PROVE  e \in Originals
BY DEF Evidences, Wraps

LEMMA InheritTyped ==
  ASSUME LogsOK, NEW s \in Sessions, NEW i \in 1..Len(log[s])
  PROVE  Inherit(s, i) \in Seq(Evidences) /\ Len(Inherit(s, i)) > 0
<1>1. PICK e : e = log[s][i]
  OBVIOUS
<1>2. e \in Evidences /\ i \in Nat
  BY <1>1 DEF LogsOK
<1>3. CASE e.kind \in Inherited
  <2>1. Inherit(s, i) = <<e>>
    BY <1>1, <1>3 DEF Inherit
  <2> QED BY <1>2, <2>1
<1>4. CASE e.kind \notin Inherited
  <2>1. e \in Originals
    BY <1>2, <1>4, OriginalTyped
  <2>2. PICK r : r = Rec(s, i, e)
    OBVIOUS
  <2>3. r \in Recs /\ r.event = e /\ e.audience \in Named
    BY <1>2, <2>1, <2>2 DEF Rec, Recs, Originals
  <2>4. \A n, m \in Nat : Wrapped(r, n, m) \in Wraps
    BY <2>3 DEF Wrapped, Wraps, Inherited
  <2>5. CASE e.large
    <3>1. Inherit(s, i) = [n \in 1..Parts |-> Wrapped(r, n, Parts)]
      BY <1>1, <1>4, <2>2, <2>5 DEF Inherit
    <3>2. Parts \in Nat /\ Parts > 0
      BY DEF Parts
    <3>3. \A n \in 1..Parts : Wrapped(r, n, Parts) \in Evidences
      BY <2>4, <3>2 DEF Evidences
    <3> QED BY <3>1, <3>2, <3>3
  <2>6. CASE ~e.large
    <3>1. Inherit(s, i) = <<Wrapped(r, 1, 1)>>
      BY <1>1, <1>4, <2>2, <2>6 DEF Inherit
    <3>2. Wrapped(r, 1, 1) \in Evidences
      BY <2>4 DEF Evidences
    <3> QED BY <3>1, <3>2
  <2> QED BY <2>5, <2>6
<1> QED
  BY <1>3, <1>4

LEMMA ChildLogTyped ==
  ASSUME LogsOK, NEW s \in Sessions, NEW cp \in Cuts, cp.cursor <= Len(log[s])
  PROVE  ChildLog(s, cp) \in Seq(Evidences) /\ ChildLog(s, cp) # <<>>
<1>1. cp.cursor \in Nat /\ Len(log[s]) \in Nat
  BY DEF LogsOK, Cuts
<1>2. \A i \in 1..cp.cursor : Inherit(s, i) \in Seq(Evidences)
  <2>1. \A i \in 1..cp.cursor : i \in 1..Len(log[s])
    BY <1>1
  <2> QED BY <2>1, InheritTyped
<1>3. PICK seqs : seqs = [i \in 1..cp.cursor |-> Inherit(s, i)]
  OBVIOUS
<1>4. seqs \in Seq(Seq(Evidences))
  BY <1>1, <1>2, <1>3
<1>5. FlattenSeq(seqs) \in Seq(Evidences)
  BY <1>4, FlattenTyped
<1>6. Event("session.branched", Plain, Absent) \in Evidences
  BY EventTyped DEF Plain, Kinds, Named
<1>7. PICK x : x = Event("session.branched", Plain, Absent)
  OBVIOUS
<1>8. ChildLog(s, cp) = FlattenSeq(seqs) \o <<x>>
  BY <1>3, <1>7 DEF ChildLog
<1>9. PICK f : f = FlattenSeq(seqs)
  OBVIOUS
<1>10. f \o <<x>> \in Seq(Evidences) /\ Len(f \o <<x>>) = Len(f) + 1 /\ Len(f) \in Nat
  BY <1>5, <1>6, <1>7, <1>9
<1> QED
  BY <1>8, <1>9, <1>10

LEMMA EvidenceInvInit == EvidenceInit => EvidenceInv
<1> SUFFICES ASSUME EvidenceInit PROVE EvidenceInv
  OBVIOUS
<1> USE DEF EvidenceInit
<1>1. Root \in Sessions /\ Absent \notin Sessions /\ 1 <= MaxWrites
  BY EvidenceAssumption
<1>2. LogsOK
  <2>1. Event("session.created", Plain, Absent) \in Evidences
    BY EventTyped DEF Plain, Kinds, Named
  <2>2. PICK e : e = Event("session.created", Plain, Absent)
    OBVIOUS
  <2>3. log = [s \in Sessions |-> IF s = Root THEN <<e>> ELSE <<>>] /\ e \in Evidences
    BY <2>1, <2>2
  <2> QED BY <2>3 DEF LogsOK
<1>3. RowsOK
  BY <1>1 DEF RowsOK
<1>4. Len(outbox) = 1 /\ outbox[1] = Root
  OBVIOUS
<1>5. OutboxOK
  BY <1>1, <1>4 DEF OutboxOK
<1>6. ClientOK /\ client.at = "idle"
  BY DEF ClientOK, ClientIdle
<1>7. SerialOK
  BY <1>1, <1>4 DEF SerialOK
<1> QED
  BY <1>2, <1>3, <1>5, <1>6, <1>7 DEF EvidenceInv, ReplayOK, FeedOK

\* What a log holds stays at its place; only a session without a log gets one.
LogsGrow == \A s \in Sessions : Born(s) => Extended(log[s], log'[s])
LEMMA LogsStay ==
  ASSUME LogsOK, log' = log
  PROVE  LogsGrow
BY DEF LogsOK, LogsGrow, Extended

LEMMA AppendGrows ==
  ASSUME LogsOK, NEW s \in Sessions, NEW e \in Evidences, Appended(s, e)
  PROVE  LogsOK' /\ LogsGrow /\ log'[s] # <<>>
         /\ Len(log'[s]) = Len(log[s]) + 1 /\ log'[s][Len(log[s]) + 1] = e
         /\ \A t \in Sessions \ {s} : log'[t] = log[t]
<1>1. PICK l : l = log[s]
  OBVIOUS
<1>2. l \in Seq(Evidences) /\ Len(l) \in Nat
  BY <1>1 DEF LogsOK
<1>3. PICK k : k = Append(l, e)
  OBVIOUS
<1>4. k \in Seq(Evidences) /\ Len(k) = Len(l) + 1 /\ k[Len(l) + 1] = e /\ \A i \in 1..Len(l) : k[i] = l[i]
  BY <1>2, <1>3
<1>5. log' = [log EXCEPT ![s] = k]
  BY <1>1, <1>3 DEF Appended
<1>6. log'[s] = k /\ (\A t \in Sessions \ {s} : log'[t] = log[t]) /\ log' \in [Sessions -> Seq(Evidences)]
  BY <1>4, <1>5 DEF LogsOK
<1>7. Extended(l, k)
  BY <1>2, <1>4 DEF Extended
<1>8. \A t \in Sessions : Extended(log[t], log[t])
  BY DEF LogsOK, Extended
<1>9. k # <<>>
  BY <1>2, <1>4
<1> QED
  BY <1>1, <1>4, <1>6, <1>7, <1>8, <1>9 DEF LogsGrow, LogsOK

LEMMA BornStays ==
  ASSUME LogsOK, LogsOK', LogsGrow, NEW s \in Sessions, Born(s)
  PROVE  Born(s)' /\ Len(log[s]) <= Len(log'[s]) /\ \A i \in 1..Len(log[s]) : log'[s][i] = log[s][i]
<1>1. PICK l, k : l = log[s] /\ k = log'[s]
  OBVIOUS
<1>2. l \in Seq(Evidences) /\ k \in Seq(Evidences) /\ l # <<>> /\ Extended(l, k)
  BY <1>1 DEF LogsOK, LogsGrow, Born
<1>3. Len(l) > 0 /\ Len(l) <= Len(k) /\ Len(k) \in Nat /\ k # <<>> /\ \A i \in 1..Len(l) : k[i] = l[i]
  BY <1>2 DEF Extended
<1> QED
  BY <1>1, <1>3 DEF Born

LEMMA ReplayStays ==
  ASSUME EvidenceInv, LogsOK', LogsGrow, client' = client
  PROVE  ReplayOK' /\ ClientOK'
<1>1. ClientOK'
  BY DEF EvidenceInv, ClientOK, ClientIdle, ReplayClients, FeedClients
<1> SUFFICES ASSUME client.at \in {"replay", "replayed"} PROVE ReplayOK'
  BY <1>1 DEF ReplayOK
<1>2. client \in ReplayClients
  BY DEF EvidenceInv, ClientOK, ClientIdle, FeedClients
<1>3. PICK s : s = client.session
  OBVIOUS
<1>4. s \in Sessions /\ Born(s) /\ Covered \in Nat /\ Covered <= Len(log[s])
      /\ client.got = {i \in 1..Covered : MayRead(client.who, log[s][i])}
  BY <1>2, <1>3 DEF EvidenceInv, ReplayOK, ReplayClients, Covered
<1>5. Born(s)' /\ Len(log[s]) <= Len(log'[s]) /\ \A i \in 1..Len(log[s]) : log'[s][i] = log[s][i]
  BY <1>4, BornStays DEF EvidenceInv
<1>6. Covered' = Covered
  BY DEF Covered
<1>7. Len(log[s]) \in Nat /\ Len(log'[s]) \in Nat
  BY <1>4 DEF EvidenceInv, LogsOK
<1>8. \A i \in 1..Covered : log'[s][i] = log[s][i]
  BY <1>4, <1>5, <1>7
<1>9. client'.got = {i \in 1..Covered' : MayRead(client'.who, log'[s][i])}
  BY <1>4, <1>6, <1>8
<1>10. Covered' <= Len(log'[s])
  BY <1>4, <1>5, <1>6, <1>7
<1> QED
  BY <1>3, <1>5, <1>9, <1>10 DEF ReplayOK

LEMMA CutsStay ==
  ASSUME EvidenceInv, LogsOK', LogsGrow, NEW cp \in checkpoints
  PROVE  Born(cp.session)' /\ cp.cursor <= Len(log'[cp.session])
<1>1. cp \in Cuts /\ Born(cp.session) /\ cp.cursor <= Len(log[cp.session])
  BY DEF EvidenceInv, RowsOK
<1>2. cp.session \in Sessions /\ cp.cursor \in Nat
  BY <1>1 DEF Cuts
<1>3. Born(cp.session)' /\ Len(log[cp.session]) <= Len(log'[cp.session])
  BY <1>1, <1>2, BornStays DEF EvidenceInv
<1>4. Len(log[cp.session]) \in Nat /\ Len(log'[cp.session]) \in Nat
  BY <1>2 DEF EvidenceInv, LogsOK
<1> QED BY <1>1, <1>2, <1>3, <1>4

LEMMA RowsStay ==
  ASSUME EvidenceInv, LogsOK', LogsGrow, UNCHANGED <<parent, base, checkpoints, artifacts, aliases>>
  PROVE  RowsOK'
BY CutsStay DEF EvidenceInv, RowsOK

LEMMA EvidenceInvBegins ==
  ASSUME EvidenceInv, NEW s \in Sessions, BeginWrite(s)
  PROVE  EvidenceInv'
<1> USE DEF EvidenceInv
<1>1. LogsOK' /\ LogsGrow
  BY LogsStay DEF BeginWrite, LogsOK
<1>2. RowsOK' /\ ReplayOK' /\ ClientOK'
  BY <1>1, RowsStay, ReplayStays DEF BeginWrite
<1>3. PICK n : n = Len(outbox)
  OBVIOUS
<1>4. n \in Nat /\ n < MaxWrites /\ outbox \in Seq(Sessions \cup {Absent}) /\ MaxWrites \in Nat
  BY <1>3, EvidenceAssumption DEF BeginWrite, OutboxOK
<1>5. outbox' = Append(outbox, Absent)
  BY DEF BeginWrite
<1>6. /\ outbox' \in Seq(Sessions \cup {Absent}) /\ Len(outbox') = n + 1 /\ outbox'[n + 1] = Absent
      /\ \A i \in 1..n : outbox'[i] = outbox[i]
  BY <1>3, <1>4, <1>5
<1>7. open' = [open EXCEPT ![s] = n + 1] /\ open \in [Sessions -> Nat]
  BY <1>3 DEF BeginWrite, OutboxOK
<1>8. OutboxOK'
  <2>1. open' \in [Sessions -> Nat]
    BY <1>4, <1>7
  <2>2. ASSUME NEW t \in Sessions, open'[t] # 0 PROVE open'[t] \in 1..Len(outbox') /\ Born(t)'
    <3>1. log' = log
      BY DEF BeginWrite
    <3>2. CASE t = s
      BY <1>4, <1>6, <1>7, <3>1, <3>2 DEF BeginWrite, Born
    <3>3. CASE t # s
      <4>1. open'[t] = open[t]
        BY <1>7, <3>3
      <4>2. open[t] \in 1..n /\ Born(t)
        BY <1>3, <2>2, <4>1 DEF OutboxOK
      <4> QED BY <1>4, <1>6, <3>1, <4>1, <4>2 DEF Born
    <3> QED BY <3>2, <3>3
  <2>3. hosted' = hosted
    BY DEF BeginWrite
  <2> QED BY <1>4, <1>6, <2>1, <2>2, <2>3 DEF OutboxOK
<1>9. ASSUME ~hosted PROVE SerialOK' /\ FeedOK'
  <2>1. (\A t \in Sessions : open[t] = 0) /\ client.at # "overview"
    BY <1>9 DEF BeginWrite, Free, Quiet, Unlocked
  <2>2. \A t \in Sessions : open'[t] = IF t = s THEN n + 1 ELSE 0
    BY <1>7, <2>1
  <2>3. \A i \in 1..n : outbox[i] # Absent
    BY <1>3, <1>4, <1>9, <2>1 DEF SerialOK
  <2>4. SerialOK'
    <3>1. \A i \in 1..(n + 1) : outbox'[i] = Absent <=> i = n + 1
      BY <1>4, <1>6, <2>3
    <3>2. \A i \in 1..(n + 1) : (\E t \in Sessions : open'[t] = i) <=> i = n + 1
      BY <1>4, <2>2
    <3>3. \A i \in 1..Len(outbox') : outbox'[i] = Absent <=> \E t \in Sessions : open'[t] = i
      BY <1>6, <3>1, <3>2
    <3>4. \A r \in Sessions : open'[r] # 0 => open'[r] = Len(outbox') /\ \A t \in Sessions : open'[t] # 0 => t = r
      BY <1>6, <2>2
    <3> QED BY <3>3, <3>4 DEF SerialOK
  <2>5. FeedOK'
    <3> SUFFICES ASSUME client.at \in {"feed", "overview"} PROVE FeedOK'
      BY DEF FeedOK, BeginWrite
    <3>1. client \in FeedClients
      BY DEF ClientOK, ClientIdle, ReplayClients
    <3>2. client.cursor \in Nat /\ client.cursor <= n
      BY <1>3, <1>9, <3>1 DEF FeedOK, FeedClients
    <3>3. \A i \in 1..client.cursor : i \in 1..n
      BY <1>4, <3>2
    <3>4. client' = client
      BY DEF BeginWrite
    <3>5. \A i \in 1..client.cursor : outbox[i] # Absent /\ (outbox[i] \in client.scope => i \in client.seen \cup client.view)
      BY <1>9 DEF FeedOK
    <3> QED BY <1>4, <1>6, <2>1, <3>2, <3>3, <3>4, <3>5 DEF FeedOK
  <2> QED BY <2>4, <2>5
<1> QED
  BY <1>1, <1>2, <1>8, <1>9 DEF BeginWrite

LEMMA EvidenceInvAborts ==
  ASSUME EvidenceInv, NEW s \in Sessions, Abort(s)
  PROVE  EvidenceInv'
<1> USE DEF EvidenceInv
<1>1. LogsOK' /\ LogsGrow
  BY LogsStay DEF Abort, LogsOK
<1>2. RowsOK' /\ ReplayOK' /\ ClientOK'
  BY <1>1, RowsStay, ReplayStays DEF Abort
<1>3. PICK n : n = Len(outbox)
  OBVIOUS
<1>4. /\ n \in Nat /\ n <= MaxWrites /\ outbox \in Seq(Sessions \cup {Absent}) /\ MaxWrites \in Nat
      /\ open[s] \in 1..n
  BY <1>3, EvidenceAssumption DEF Abort, OutboxOK
<1>5. open' = [open EXCEPT ![s] = 0] /\ open \in [Sessions -> Nat]
  BY DEF Abort, OutboxOK
<1>6. \A t \in Sessions : open'[t] # 0 => open'[t] = open[t] /\ t # s
  BY <1>5
<1>7. CASE hosted
  <2>1. outbox' = outbox /\ hosted'
    BY <1>7 DEF Abort
  <2>2. \A t \in Sessions : open'[t] # 0 => open'[t] \in 1..Len(outbox') /\ Born(t)'
    BY <1>6, <2>1 DEF OutboxOK, Abort, Born
  <2>3. OutboxOK'
    BY <1>5, <2>1, <2>2 DEF OutboxOK
  <2> QED BY <1>1, <1>2, <2>1, <2>3
<1>8. CASE ~hosted
  <2>1. open[s] = n /\ \A t \in Sessions : open'[t] = 0
    BY <1>3, <1>4, <1>5, <1>8 DEF SerialOK
  <2>2. outbox' = SubSeq(outbox, 1, n - 1) /\ ~hosted'
    BY <1>3, <1>8 DEF Abort, Front
  <2>3. /\ outbox' \in Seq(Sessions \cup {Absent}) /\ Len(outbox') = n - 1
        /\ \A i \in 1..(n - 1) : outbox'[i] = outbox[i]
    BY <1>3, <1>4, <2>2
  <2>4. OutboxOK'
    <3>1. hosted' \in BOOLEAN
      BY DEF Abort, OutboxOK
    <3>2. open' \in [Sessions -> Nat]
      BY <1>5
    <3>3. n - 1 <= MaxWrites
      BY <1>4
    <3> QED BY <2>1, <2>3, <3>1, <3>2, <3>3 DEF OutboxOK
  <2>5. \A i \in 1..(n - 1) : outbox[i] # Absent
    <3>1. \A t \in Sessions : open[t] # 0 => t = s
      BY <1>4, <1>8 DEF SerialOK
    <3> QED BY <1>3, <1>4, <1>8, <2>1, <3>1 DEF SerialOK
  <2>6. SerialOK'
    BY <1>4, <2>1, <2>3, <2>5 DEF SerialOK
  <2>7. FeedOK'
    <3> SUFFICES ASSUME client.at \in {"feed", "overview"} PROVE FeedOK'
      BY DEF FeedOK, Abort
    <3>1. client \in FeedClients
      BY DEF ClientOK, ClientIdle, ReplayClients
    <3>2. client.cursor \in Nat /\ client.cursor <= n
      BY <1>3, <1>8, <3>1 DEF FeedOK, FeedClients
    <3>3. \A i \in 1..client.cursor : outbox[i] # Absent /\ (outbox[i] \in client.scope => i \in client.seen \cup client.view)
      BY <1>8 DEF FeedOK
    <3>4. outbox[n] = Absent
      BY <1>3, <1>4, <1>8, <2>1 DEF SerialOK
    <3>5. client.cursor <= n - 1 /\ \A i \in 1..client.cursor : i \in 1..(n - 1)
      <4>1. client.cursor # n
        BY <1>4, <3>2, <3>3, <3>4
      <4> QED BY <1>4, <3>2, <4>1
    <3>6. client.at # "overview"
      BY <1>4, <1>8 DEF FeedOK, Unlocked
    <3>7. client' = client
      BY DEF Abort
    <3> QED BY <2>3, <3>3, <3>5, <3>6, <3>7 DEF FeedOK
  <2> QED BY <1>1, <1>2, <2>2, <2>4, <2>6, <2>7
<1> QED
  BY <1>7, <1>8

\* The transaction of s commits the outbox row of session t.
LEMMA CommitStays ==
  ASSUME EvidenceInv, LogsOK', LogsGrow, NEW s \in Sessions, NEW t \in Sessions, Commits(s, t)
  PROVE  OutboxOK' /\ ReplayOK' /\ ClientOK' /\ (~hosted => SerialOK' /\ FeedOK') /\ hosted' = hosted
<1> USE DEF EvidenceInv
<1>1. ReplayOK' /\ ClientOK' /\ client' = client /\ hosted' = hosted
  BY ReplayStays DEF Commits
<1>2. PICK n, m : n = Len(outbox) /\ m = open[s]
  OBVIOUS
<1>3. /\ n \in Nat /\ n <= MaxWrites /\ outbox \in Seq(Sessions \cup {Absent}) /\ m \in 1..n
  BY <1>2 DEF Commits, OutboxOK
<1>4. open' = [open EXCEPT ![s] = 0] /\ open \in [Sessions -> Nat]
  BY DEF Commits, OutboxOK
<1>5. \A r \in Sessions : open'[r] # 0 => open'[r] = open[r] /\ r # s
  BY <1>4
<1>6. outbox' = [outbox EXCEPT ![m] = t]
  BY <1>2 DEF Commits
<1>7. /\ outbox' \in Seq(Sessions \cup {Absent}) /\ Len(outbox') = n
      /\ \A i \in 1..n : outbox'[i] = IF i = m THEN t ELSE outbox[i]
  BY <1>2, <1>3, <1>6
<1>8. OutboxOK'
  <2>1. ASSUME NEW r \in Sessions, open'[r] # 0 PROVE open'[r] \in 1..Len(outbox') /\ Born(r)'
    <3>1. open[r] \in 1..n /\ Born(r) /\ open'[r] = open[r]
      BY <1>2, <1>5, <2>1 DEF OutboxOK
    <3>2. Born(r)'
      BY <3>1, BornStays
    <3> QED BY <1>7, <3>1, <3>2
  <2>2. open' \in [Sessions -> Nat]
    BY <1>4
  <2>3. hosted' \in BOOLEAN
    BY <1>1 DEF OutboxOK
  <2> QED BY <1>3, <1>7, <2>1, <2>2, <2>3 DEF OutboxOK
<1>9. ASSUME ~hosted PROVE SerialOK' /\ FeedOK'
  <2>1. m = n /\ \A r \in Sessions : open'[r] = 0
    BY <1>2, <1>3, <1>4, <1>9 DEF SerialOK
  <2>2. \A i \in 1..n : outbox[i] = Absent => i = m
    BY <1>2, <1>3, <1>9 DEF SerialOK
  <2>3. \A i \in 1..n : outbox'[i] # Absent
    BY <1>7, <2>2, EvidenceAssumption
  <2>4. SerialOK'
    BY <1>3, <1>7, <2>1, <2>3 DEF SerialOK
  <2>5. FeedOK'
    <3> SUFFICES ASSUME client.at \in {"feed", "overview"} PROVE FeedOK'
      BY <1>1 DEF FeedOK
    <3>1. client \in FeedClients
      BY DEF ClientOK, ClientIdle, ReplayClients
    <3>2. client.cursor \in Nat /\ client.cursor <= n
      BY <1>2, <1>9, <3>1 DEF FeedOK, FeedClients
    <3>3. \A i \in 1..client.cursor : outbox[i] # Absent /\ (outbox[i] \in client.scope => i \in client.seen \cup client.view)
      BY <1>9 DEF FeedOK
    <3>4. outbox[m] = Absent
      BY <1>2, <1>3, <1>9 DEF SerialOK
    <3>5. \A i \in 1..client.cursor : i # m /\ i \in 1..n
      BY <1>3, <3>2, <3>3, <3>4
    <3>6. client.at # "overview"
      BY <1>2, <1>3, <1>9 DEF FeedOK, Unlocked
    <3> QED BY <1>1, <1>7, <3>2, <3>3, <3>5, <3>6 DEF FeedOK
  <2> QED BY <2>4, <2>5
<1> QED
  BY <1>1, <1>8, <1>9

LEMMA EvidenceInvRecords ==
  ASSUME EvidenceInv, NEW s \in Sessions, NEW class \in Classes, Record(s, class)
  PROVE  EvidenceInv' /\ LogsGrow
<1>1. PICK e : e = Event("event", class, Absent)
  OBVIOUS
<1>2. e \in Evidences
  <2>1. class.audience \in Named /\ class.large \in BOOLEAN
    BY ClassTyped
  <2>2. e \in Originals
    BY <1>1, <2>1 DEF Event, Originals, Kinds
  <2> QED BY <2>2 DEF Evidences
<1>3. LogsOK' /\ LogsGrow
  BY <1>1, <1>2, AppendGrows DEF Record, EvidenceInv
<1>4. RowsOK'
  BY <1>3, RowsStay DEF Record
<1>5. OutboxOK' /\ ReplayOK' /\ ClientOK' /\ (~hosted => SerialOK' /\ FeedOK') /\ hosted' = hosted
  BY <1>3, CommitStays DEF Record
<1> QED
  BY <1>3, <1>4, <1>5 DEF EvidenceInv

LEMMA EvidenceInvStores ==
  ASSUME EvidenceInv, NEW s \in Sessions, NEW audience \in Audiences, StoreArtifact(s, audience)
  PROVE  EvidenceInv' /\ LogsGrow
<1> DEFINE id == [in |-> <<s>>, seq |-> Len(log[s]) + 1]
           row == [session |-> s, id |-> id, content |-> id, audience |-> audience]
<1>1. PICK e : e = Event("artifact", [Plain EXCEPT !.audience = audience], id)
  OBVIOUS
<1>2. audience \in Named /\ id \in Ids
  <2>1. Len(log[s]) \in Nat /\ <<s>> \in Seq(Sessions)
    BY DEF EvidenceInv, LogsOK
  <2> QED BY <2>1, EvidenceAssumption DEF Named, Ids
<1>3. e \in Evidences
  <2> HIDE DEF id
  <2>1. PICK class : class = [Plain EXCEPT !.audience = audience]
    OBVIOUS
  <2>3. class.audience = audience /\ class.large = FALSE
    BY <2>1 DEF Plain
  <2>2. e \in Originals
    BY <1>1, <1>2, <2>1, <2>3 DEF Event, Originals, Kinds
  <2> QED BY <2>2 DEF Evidences
<1>4. LogsOK' /\ LogsGrow
  BY <1>1, <1>3, AppendGrows DEF StoreArtifact, EvidenceInv
<1>5. RowsOK'
  <2>1. artifacts' = artifacts \cup {row} /\ UNCHANGED <<parent, base, checkpoints, aliases>>
    BY DEF StoreArtifact
  <2>2. row \in Artifacts
    <3> HIDE DEF id
    <3> QED BY <1>2 DEF Artifacts
  <2>3. \A cp \in checkpoints : Born(cp.session)' /\ cp.cursor <= Len(log'[cp.session])
    BY <1>4, CutsStay
  <2> HIDE DEF row
  <2> QED BY <2>1, <2>2, <2>3 DEF EvidenceInv, RowsOK
<1>6. OutboxOK' /\ ReplayOK' /\ ClientOK' /\ (~hosted => SerialOK' /\ FeedOK') /\ hosted' = hosted
  BY <1>4, CommitStays DEF StoreArtifact
<1> QED
  BY <1>4, <1>5, <1>6 DEF EvidenceInv

LEMMA EvidenceInvCuts ==
  ASSUME EvidenceInv, NEW s \in Sessions, Checkpoint(s)
  PROVE  EvidenceInv' /\ LogsGrow
<1> DEFINE cut == [session |-> s, cursor |-> Len(log[s]), artifacts |-> Of(s, artifacts), aliases |-> Of(s, aliases)]
<1>1. PICK e : e = Event("checkpoint.committed", Plain, Absent)
  OBVIOUS
<1>2. e \in Evidences
  BY <1>1, EventTyped DEF Plain, Kinds, Named
<1>3. LogsOK' /\ LogsGrow
  BY <1>1, <1>2, AppendGrows DEF Checkpoint, EvidenceInv
<1>4. Born(s) /\ Len(log[s]) \in Nat
  BY DEF Checkpoint, Commits, EvidenceInv, OutboxOK, LogsOK
<1>5. RowsOK'
  <2>1. checkpoints' = checkpoints \cup {cut} /\ UNCHANGED <<parent, base, artifacts, aliases>>
    BY DEF Checkpoint
  <2>2. cut \in Cuts
    <3>1. Of(s, artifacts) \subseteq Artifacts /\ Of(s, aliases) \subseteq Aliases
      BY DEF Of, EvidenceInv, RowsOK
    <3> QED BY <1>4, <3>1 DEF Cuts
  <2>3. \A cp \in checkpoints : Born(cp.session)' /\ cp.cursor <= Len(log'[cp.session])
    BY <1>3, CutsStay
  <2>4. Born(s)' /\ Len(log[s]) <= Len(log'[s])
    BY <1>3, <1>4, BornStays DEF EvidenceInv
  <2>5. cut.session = s /\ cut.cursor = Len(log[s])
    OBVIOUS
  <2> HIDE DEF cut
  <2> QED BY <2>1, <2>2, <2>3, <2>4, <2>5 DEF EvidenceInv, RowsOK
<1>6. OutboxOK' /\ ReplayOK' /\ ClientOK' /\ (~hosted => SerialOK' /\ FeedOK') /\ hosted' = hosted
  BY <1>3, CommitStays DEF Checkpoint
<1> QED
  BY <1>3, <1>5, <1>6 DEF EvidenceInv

LEMMA CopyTyped ==
  ASSUME NEW s \in Sessions
  PROVE  /\ \A i \in Ids : Copied(s, i) \in Ids
         /\ \A a \in Artifacts : /\ Copy(s, a) \in Artifacts /\ Copy(s, a).session = s
                                 /\ Copy(s, a).id = Copied(s, a.id)
                                 /\ Copy(s, a).content = a.content /\ Copy(s, a).audience = a.audience
<1>1. ASSUME NEW i \in Ids PROVE Copied(s, i) \in Ids
  <2>1. PICK q : q = <<s>> \o i.in
    OBVIOUS
  <2>2. i.in \in Seq(Sessions) /\ <<s>> \in Seq(Sessions)
    BY DEF Ids
  <2>3. q \in Seq(Sessions)
    BY <2>1, <2>2, ConcatProperties
  <2>4. Copied(s, i) = [i EXCEPT !.in = q]
    BY <2>1 DEF Copied
  <2> QED BY <2>3, <2>4 DEF Ids
<1>2. ASSUME NEW a \in Artifacts
      PROVE  /\ Copy(s, a) \in Artifacts /\ Copy(s, a).session = s
             /\ Copy(s, a).id = Copied(s, a.id)
             /\ Copy(s, a).content = a.content /\ Copy(s, a).audience = a.audience
  <2>1. PICK j : j = Copied(s, a.id)
    OBVIOUS
  <2>2. j \in Ids
    BY <1>1, <2>1 DEF Artifacts
  <2>3. Copy(s, a) = [a EXCEPT !.session = s, !.id = j]
    BY <2>1 DEF Copy
  <2> QED BY <2>1, <2>2, <2>3 DEF Artifacts
<1> QED
  BY <1>1, <1>2

LEMMA BranchLogs ==
  ASSUME EvidenceInv, NEW s \in Sessions, NEW cp \in checkpoints, NEW c \in Sessions, Branch(s, cp, c)
  PROVE  LogsOK' /\ LogsGrow /\ Born(c)' /\ log'[c] = ChildLog(s, cp) /\ c # s
         /\ \A t \in Sessions \ {c} : log'[t] = log[t]
<1>1. cp \in Cuts /\ cp.session = s /\ cp.cursor <= Len(log[s]) /\ Born(s) /\ ~Born(c)
  BY DEF EvidenceInv, RowsOK, Branch
<1>2. PICK l : l = ChildLog(s, cp)
  OBVIOUS
<1>3. l \in Seq(Evidences) /\ l # <<>>
  BY <1>1, <1>2, ChildLogTyped DEF EvidenceInv
<1>4. log' = [log EXCEPT ![c] = l] /\ log \in [Sessions -> Seq(Evidences)]
  BY <1>2 DEF Branch, EvidenceInv, LogsOK
<1>5. log' \in [Sessions -> Seq(Evidences)] /\ log'[c] = l /\ \A t \in Sessions \ {c} : log'[t] = log[t]
  BY <1>3, <1>4
<1>6. \A t \in Sessions : Extended(log[t], log[t])
  BY DEF EvidenceInv, LogsOK, Extended
<1>7. LogsGrow
  BY <1>1, <1>5, <1>6 DEF LogsGrow
<1> QED
  BY <1>1, <1>2, <1>3, <1>5, <1>7 DEF LogsOK, Born

LEMMA EvidenceInvBranches ==
  ASSUME EvidenceInv, NEW s \in Sessions, NEW cp \in checkpoints, NEW c \in Sessions, Branch(s, cp, c)
  PROVE  EvidenceInv' /\ LogsGrow
<1>1. LogsOK' /\ LogsGrow
  BY BranchLogs
<1>2. RowsOK'
  <2>1. cp \in Cuts /\ cp.session = s
    BY DEF EvidenceInv, RowsOK, Branch
  <2>2. cp.artifacts \subseteq Artifacts /\ cp.aliases \subseteq Aliases
    BY <2>1 DEF Cuts
  <2>3. {Copy(c, a) : a \in cp.artifacts} \subseteq Artifacts
    BY <2>2, CopyTyped
  <2>4. {[session |-> c, alias |-> a.id, artifact |-> Copied(c, a.id)] : a \in cp.artifacts} \subseteq Aliases
    <3>1. \A a \in Artifacts : a.id \in Ids
      BY DEF Artifacts
    <3>2. \A i \in Ids : [session |-> c, alias |-> i, artifact |-> Copied(c, i)] \in Aliases
      BY CopyTyped DEF Aliases
    <3> QED BY <2>2, <3>1, <3>2
  <2>5. {[session |-> c, alias |-> x.alias, artifact |-> Copied(c, x.artifact)] : x \in cp.aliases} \subseteq Aliases
    <3>1. \A x \in Aliases : x.alias \in Ids /\ x.artifact \in Ids
      BY DEF Aliases
    <3>2. \A i, j \in Ids : [session |-> c, alias |-> i, artifact |-> Copied(c, j)] \in Aliases
      BY CopyTyped DEF Aliases
    <3> QED BY <2>2, <3>1, <3>2
  <2>6. artifacts' \subseteq Artifacts /\ aliases' \subseteq Aliases
    BY <2>3, <2>4, <2>5 DEF Branch, EvidenceInv, RowsOK
  <2>7. \A p \in checkpoints : Born(p.session)' /\ p.cursor <= Len(log'[p.session])
    BY <1>1, CutsStay
  <2>8. checkpoints' = checkpoints
    BY DEF Branch
  <2>9. /\ parent' \in [Sessions -> Sessions \cup {Absent}] /\ base' \in [Sessions -> Cuts \cup {Absent}]
        /\ \A t \in Sessions : parent'[t] # Absent => base'[t] \in checkpoints' /\ base'[t].session = parent'[t]
    <3>1. parent' = [parent EXCEPT ![c] = s] /\ base' = [base EXCEPT ![c] = cp]
      BY DEF Branch
    <3>2. base' \in [Sessions -> Cuts \cup {Absent}]
      BY <2>1, <3>1 DEF EvidenceInv, RowsOK
    <3>3. ASSUME NEW t \in Sessions, parent'[t] # Absent
          PROVE  base'[t] \in checkpoints' /\ base'[t].session = parent'[t]
      <4>1. CASE t = c
        BY <2>1, <2>8, <3>1, <4>1 DEF EvidenceInv, RowsOK
      <4>2. CASE t # c
        BY <2>8, <3>1, <3>3, <4>2 DEF EvidenceInv, RowsOK
      <4> QED BY <4>1, <4>2
    <3> QED BY <3>1, <3>2, <3>3 DEF EvidenceInv, RowsOK
  <2> QED BY <2>6, <2>7, <2>8, <2>9 DEF EvidenceInv, RowsOK
<1>3. OutboxOK' /\ ReplayOK' /\ ClientOK' /\ (~hosted => SerialOK' /\ FeedOK') /\ hosted' = hosted
  BY <1>1, CommitStays DEF Branch
<1> QED
  BY <1>1, <1>2, <1>3 DEF EvidenceInv

\* A page is the beginning of what is left, and empty only at the end.
LEMMA PageBegins ==
  ASSUME NEW m \in Nat, NEW S \in SUBSET (1..m)
  PROVE  /\ PageOf(S) \subseteq S
         /\ PageOf(S) = {} => S = {}
         /\ \A j \in PageOf(S) : \A i \in S : i <= j => i \in PageOf(S)
<1>0. IsFiniteSet(1..m)
  BY FS_Interval
<1>1. IsFiniteSet(S)
  BY <1>0, FS_Subset
<1>2. \A j \in S : IsFiniteSet({x \in S : x <= j}) /\ Cardinality({x \in S : x <= j}) \in Nat
  <2>1. \A j \in S : {x \in S : x <= j} \subseteq S
    OBVIOUS
  <2> QED BY <1>1, <2>1, FS_Subset, FS_CardinalityType
<1>3. PageOf(S) = {} => S = {}
  <2> SUFFICES ASSUME S # {} PROVE PageOf(S) # {}
    OBVIOUS
  <2>1. PICK k \in S : \A i \in S : k <= i
    <3>1. S \subseteq 0..m /\ S # {}
      OBVIOUS
    <3> QED BY <3>1, LeastNumber
  <2>2. {x \in S : x <= k} = {k}
    <3>1. S \subseteq Nat
      OBVIOUS
    <3>2. \A x \in S : x <= k <=> x = k
      BY <2>1, <3>1
    <3> QED BY <3>2
  <2>3. Cardinality({k}) = 1
    BY FS_Singleton
  <2>4. 1 <= PageRows
    BY EvidenceAssumption
  <2>5. k \in PageOf(S)
    BY <2>2, <2>3, <2>4 DEF PageOf, UpTo
  <2> QED BY <2>5
<1>4. ASSUME NEW j \in PageOf(S), NEW i \in S, i <= j PROVE i \in PageOf(S)
  <2>1. j \in S /\ Cardinality({x \in S : x <= j}) <= PageRows /\ PageRows \in Nat
    BY EvidenceAssumption DEF PageOf, UpTo
  <2>2. {x \in S : x <= i} \subseteq {x \in S : x <= j}
    <3>1. S \subseteq Nat
      OBVIOUS
    <3>2. \A x \in S : x <= i => x <= j
      BY <1>4, <2>1, <3>1
    <3> QED BY <3>2
  <2>3. PICK a, b : a = {x \in S : x <= i} /\ b = {x \in S : x <= j}
    OBVIOUS
  <2>4. a \subseteq b /\ IsFiniteSet(b) /\ Cardinality(a) \in Nat /\ Cardinality(b) \in Nat
    BY <1>2, <2>1, <2>2, <2>3
  <2>5. Cardinality(a) <= Cardinality(b)
    BY <2>4, FS_Subset
  <2>6. Cardinality(a) <= PageRows
    BY <2>1, <2>3, <2>4, <2>5
  <2> QED BY <2>3, <2>6 DEF PageOf, UpTo
<1> QED
  BY <1>3, <1>4 DEF PageOf

LEMMA TablesStand ==
  ASSUME EvidenceInv, UNCHANGED <<hosted, written, open>>
  PROVE  LogsOK' /\ LogsGrow /\ RowsOK' /\ OutboxOK' /\ (~hosted => SerialOK')
<1>1. LogsOK' /\ LogsGrow
  BY LogsStay DEF EvidenceInv, LogsOK, written
<1>2. RowsOK'
  BY <1>1, RowsStay DEF written
<1>3. OutboxOK' /\ (~hosted => SerialOK')
  BY DEF EvidenceInv, OutboxOK, SerialOK, written, Born
<1> QED
  BY <1>1, <1>2, <1>3

LEMMA EvidenceInvIdles ==
  ASSUME EvidenceInv, ClientDoes(ClientIdle)
  PROVE  EvidenceInv'
<1>1. LogsOK' /\ RowsOK' /\ OutboxOK' /\ (~hosted => SerialOK') /\ hosted' = hosted
  BY TablesStand DEF ClientDoes
<1>2. client' = ClientIdle /\ client'.at = "idle"
  BY DEF ClientDoes, ClientIdle
<1> QED
  BY <1>1, <1>2 DEF EvidenceInv, ClientOK, ReplayOK, FeedOK, ClientIdle

LEMMA EvidenceInvReplays ==
  ASSUME EvidenceInv, NEW c \in ReplayClients, ClientDoes(c), Born(c.session),
         (IF c.at = "replay" THEN c.cursor ELSE c.end) <= Len(log[c.session]),
         c.got = {i \in 1..(IF c.at = "replay" THEN c.cursor ELSE c.end) : MayRead(c.who, log[c.session][i])}
  PROVE  EvidenceInv'
<1>1. LogsOK' /\ RowsOK' /\ OutboxOK' /\ (~hosted => SerialOK') /\ hosted' = hosted
  BY TablesStand DEF ClientDoes
<1>2. client' = c /\ log' = log
  BY DEF ClientDoes, written
<1>3. c.at \in {"replay", "replayed"}
  BY DEF ReplayClients
<1>4. ClientOK' /\ FeedOK'
  BY <1>2, <1>3 DEF ClientOK, FeedOK
<1>5. ReplayOK'
  BY <1>2 DEF ReplayOK, Covered, Born
<1> QED
  BY <1>1, <1>4, <1>5 DEF EvidenceInv

LEMMA EvidenceInvFeeds ==
  ASSUME EvidenceInv, NEW c \in FeedClients, ClientDoes(c),
         ~hosted => /\ c.cursor <= Len(outbox)
                    /\ \A i \in 1..c.cursor :
                         outbox[i] # Absent /\ (outbox[i] \in c.scope => i \in c.seen \cup c.view)
                    /\ c.at = "overview" => Unlocked /\ c.view = Committed
  PROVE  EvidenceInv'
<1>1. LogsOK' /\ RowsOK' /\ OutboxOK' /\ (~hosted => SerialOK') /\ hosted' = hosted
  BY TablesStand DEF ClientDoes
<1>2. client' = c /\ outbox' = outbox /\ open' = open
  BY DEF ClientDoes, written
<1>3. c.at \in {"feed", "overview"}
  BY DEF FeedClients
<1>4. ClientOK' /\ ReplayOK'
  BY <1>2, <1>3 DEF ClientOK, ReplayOK
<1>5. ~hosted => FeedOK'
  BY <1>2 DEF FeedOK, Unlocked, Committed
<1> QED
  BY <1>1, <1>4, <1>5 DEF EvidenceInv

LEMMA EvidenceInvBeginsReplay ==
  ASSUME EvidenceInv, NEW s \in Sessions, NEW who \in Participants \cup {Evaluator}, BeginReplay(s, who)
  PROVE  EvidenceInv'
<1>1. PICK c : c = [at |-> "replay", session |-> s, who |-> who, cursor |-> 0, got |-> {}, end |-> 0]
  OBVIOUS
<1>2. c \in ReplayClients /\ c.at = "replay" /\ c.session = s /\ c.who = who /\ c.cursor = 0 /\ c.got = {}
  BY <1>1 DEF ReplayClients
<1>3. ClientDoes(c) /\ Born(s) /\ 0 <= Len(log[s])
  BY <1>1 DEF BeginReplay, EvidenceInv, LogsOK
<1>4. c.got = {i \in 1..0 : MayRead(c.who, log[s][i])}
  BY <1>2
<1> QED
  BY <1>2, <1>3, <1>4, EvidenceInvReplays

LEMMA EvidenceInvPages ==
  ASSUME EvidenceInv, ReplayPage
  PROVE  EvidenceInv'
<1> DEFINE S == {i \in DOMAIN log[client.session] :
                    i > client.cursor /\ MayRead(client.who, log[client.session][i])}
<1>1. client \in ReplayClients /\ client.at = "replay"
  BY DEF ReplayPage, EvidenceInv, ClientOK, ClientIdle, FeedClients
<1>2. PICK s, l, n, k : s = client.session /\ l = log[s] /\ n = Len(l) /\ k = client.cursor
  OBVIOUS
<1>3. /\ s \in Sessions /\ l \in Seq(Evidences) /\ n \in Nat /\ DOMAIN l = 1..n /\ k \in Nat /\ k <= n /\ Born(s)
      /\ client.got = {i \in 1..k : MayRead(client.who, l[i])}
  BY <1>1, <1>2 DEF EvidenceInv, LogsOK, ReplayOK, Covered, ReplayClients
<1>4. S = {i \in (k + 1)..n : MayRead(client.who, l[i])}
  <2>1. \A i \in 1..n : i > k <=> i \in (k + 1)..n
    BY <1>3
  <2> QED BY <1>2, <1>3, <2>1
<1>5. S \in SUBSET (1..n)
  BY <1>3, <1>4
<1>6. /\ PageOf(S) \subseteq S
      /\ PageOf(S) = {} => S = {}
      /\ \A j \in PageOf(S) : \A i \in S : i <= j => i \in PageOf(S)
  <2> HIDE DEF S
  <2> QED BY <1>3, <1>5, PageBegins
<1>7. CASE PageOf(S) # {}
  <2>1. PICK m : m = Max(PageOf(S))
    OBVIOUS
  <2>2. m \in PageOf(S) /\ \A i \in PageOf(S) : i <= m
    <3> HIDE DEF S
    <3>1. PageOf(S) \in SUBSET (1..n)
      BY <1>5, <1>6
    <3> QED BY <1>3, <1>7, <2>1, <3>1, LastPosition
  <2>3. PICK c : c = [client EXCEPT !.cursor = m, !.got = @ \cup PageOf(S)]
    OBVIOUS
  <2>4. ClientDoes(c)
    BY <1>7, <2>1, <2>3 DEF ReplayPage
  <2> HIDE DEF S
  <2>5. m \in (k + 1)..n
    BY <1>4, <1>6, <2>2
  <2>6. m \in Nat /\ PageOf(S) \subseteq Nat
    <3>1. PageOf(S) \subseteq 1..n
      BY <1>5, <1>6
    <3>2. 1..n \subseteq Nat
      BY <1>3
    <3> QED BY <1>3, <2>5, <3>1, <3>2
  <2>7. /\ c \in ReplayClients /\ c.at = "replay" /\ c.session = s /\ c.who = client.who
        /\ c.cursor = m /\ c.got = client.got \cup PageOf(S)
    BY <1>1, <1>2, <2>3, <2>6 DEF ReplayClients
  <2>8. PageOf(S) = {i \in (k + 1)..m : MayRead(client.who, l[i])}
    <3>1. \A i \in PageOf(S) : i \in S /\ i <= m
      BY <1>6, <2>2
    <3>2. \A i \in S : i <= m => i \in PageOf(S)
      BY <1>6, <2>2
    <3>3. \A i \in (k + 1)..n : i <= m <=> i \in (k + 1)..m
      BY <1>3, <2>5
    <3>4. \A i \in (k + 1)..m : i \in (k + 1)..n
      BY <1>3, <2>5
    <3> QED BY <1>4, <3>1, <3>2, <3>3, <3>4
  <2>9. c.got = {i \in 1..m : MayRead(client.who, l[i])}
    <3>1. \A i \in 1..m : i \in 1..k \/ i \in (k + 1)..m
      BY <1>3, <2>5
    <3>2. 1..k \subseteq 1..m /\ (k + 1)..m \subseteq 1..m
      BY <1>3, <2>5
    <3> QED BY <1>3, <2>7, <2>8, <3>1, <3>2
  <2> QED BY <1>2, <1>3, <2>4, <2>5, <2>7, <2>9, EvidenceInvReplays
<1>8. CASE PageOf(S) = {}
  <2>1. PICK c : c = [client EXCEPT !.at = "replayed", !.end = n]
    OBVIOUS
  <2>2. ClientDoes(c)
    BY <1>2, <1>8, <2>1 DEF ReplayPage
  <2> HIDE DEF S
  <2>3. /\ c \in ReplayClients /\ c.at = "replayed" /\ c.session = s /\ c.who = client.who
        /\ c.end = n /\ c.got = client.got
    BY <1>1, <1>2, <1>3, <2>1 DEF ReplayClients
  <2>4. \A i \in (k + 1)..n : ~MayRead(client.who, l[i])
    BY <1>4, <1>6, <1>8
  <2>5. c.got = {i \in 1..n : MayRead(client.who, l[i])}
    <3>1. \A i \in 1..n : i \in 1..k \/ i \in (k + 1)..n
      BY <1>3
    <3>2. 1..k \subseteq 1..n
      BY <1>3
    <3> QED BY <1>3, <2>3, <2>4, <3>1, <3>2
  <2> QED BY <1>2, <1>3, <2>2, <2>3, <2>5, EvidenceInvReplays
<1> QED
  BY <1>7, <1>8

LEMMA EvidenceInvFollows ==
  ASSUME EvidenceInv, NEW scope \in SUBSET Sessions, Follow(scope)
  PROVE  EvidenceInv'
<1>1. PICK c : c = [at |-> "feed", scope |-> scope, cursor |-> 0, seen |-> {}, view |-> {}]
  OBVIOUS
<1>2. c \in FeedClients /\ c.at = "feed" /\ c.cursor = 0
  BY <1>1 DEF FeedClients
<1>3. ClientDoes(c) /\ 0 <= Len(outbox)
  BY <1>1 DEF Follow, EvidenceInv, OutboxOK
<1> QED
  BY <1>2, <1>3, EvidenceInvFeeds

\* Without a transaction in progress every row of the local outbox is there.
LEMMA QuietOutbox ==
  ASSUME EvidenceInv, ~hosted, Unlocked
  PROVE  (\A i \in 1..Len(outbox) : outbox[i] # Absent) /\ Committed = 1..Len(outbox)
<1>1. \A i \in 1..Len(outbox) : outbox[i] # Absent
  BY DEF EvidenceInv, SerialOK, Unlocked
<1>2. DOMAIN outbox = 1..Len(outbox)
  BY DEF EvidenceInv, OutboxOK
<1> QED
  BY <1>1, <1>2 DEF Committed

LEMMA CommittedIds ==
  ASSUME EvidenceInv
  PROVE  Len(outbox) \in Nat /\ Committed \in SUBSET (1..Len(outbox))
BY DEF EvidenceInv, OutboxOK, Committed

LEMMA EvidenceInvFeedsOn ==
  ASSUME EvidenceInv, FeedPage
  PROVE  EvidenceInv'
<1> DEFINE S == {i \in Committed : i > client.cursor /\ outbox[i] \in client.scope}
<1>1. client \in FeedClients /\ client.at = "feed"
  BY DEF FeedPage, EvidenceInv, ClientOK, ClientIdle, ReplayClients
<1>2. PICK n, k : n = Len(outbox) /\ k = client.cursor
  OBVIOUS
<1>3. n \in Nat /\ k \in Nat /\ Committed \in SUBSET (1..n)
  BY <1>1, <1>2, CommittedIds DEF FeedClients
<1>4. S \in SUBSET (1..n)
  BY <1>3
<1>5. PageOf(S) # {}
  BY DEF FeedPage
<1>6. PICK m, c : m = Max(PageOf(S)) /\ c = [client EXCEPT !.cursor = m, !.seen = @ \cup PageOf(S)]
  OBVIOUS
<1>7. ClientDoes(c)
  BY <1>6 DEF FeedPage
<1>8. \A i \in S : i > k /\ outbox[i] \in client.scope
  BY <1>2
<1>9. \A i \in Committed : i > k /\ outbox[i] \in client.scope => i \in S
  BY <1>2
<1> HIDE DEF S
<1>10. PageOf(S) \subseteq S /\ \A j \in PageOf(S) : \A i \in S : i <= j => i \in PageOf(S)
  BY <1>3, <1>4, PageBegins
<1>11. m \in PageOf(S) /\ \A i \in PageOf(S) : i <= m
  <2>1. PageOf(S) \in SUBSET (1..n)
    BY <1>4, <1>10
  <2> QED BY <1>3, <1>5, <1>6, <2>1, LastPosition
<1>12. m \in 1..n /\ m > k /\ PageOf(S) \subseteq Nat
  <2>1. PageOf(S) \subseteq 1..n
    BY <1>4, <1>10
  <2>3. 1..n \subseteq Nat
    BY <1>3
  <2>2. m \in S /\ m \in 1..n
    BY <1>10, <1>11, <2>1
  <2> QED BY <1>3, <1>8, <2>1, <2>2, <2>3
<1>13. /\ c \in FeedClients /\ c.at = "feed" /\ c.cursor = m /\ c.scope = client.scope /\ c.view = client.view
       /\ c.seen = client.seen \cup PageOf(S)
  <2>1. m \in Nat
    BY <1>3, <1>12
  <2>2. PageOf(S) \in SUBSET Nat
    BY <1>12
  <2> QED BY <1>1, <1>6, <2>1, <2>2 DEF FeedClients
<1>14. ASSUME ~hosted, NEW i \in 1..m
       PROVE  outbox[i] # Absent /\ (outbox[i] \in c.scope => i \in c.seen \cup c.view)
  <2>1. Unlocked
    BY <1>14 DEF FeedPage, Quiet
  <2>2. i \in 1..n /\ i \in Committed /\ outbox[i] # Absent
    BY <1>2, <1>12, <1>14, <2>1, QuietOutbox
  <2>3. CASE i <= k
    <3>1. i \in 1..client.cursor
      BY <1>2, <1>3, <2>2, <2>3
    <3>2. outbox[i] \in client.scope => i \in client.seen \cup client.view
      BY <1>1, <1>14, <3>1 DEF EvidenceInv, FeedOK
    <3> QED BY <1>13, <2>2, <3>2
  <2>4. CASE i > k
    <3>1. outbox[i] \in client.scope => i \in PageOf(S)
      BY <1>9, <1>10, <1>11, <2>2, <2>4
    <3> QED BY <1>13, <2>2, <3>1
  <2> QED BY <1>3, <2>2, <2>3, <2>4
<1> QED
  BY <1>2, <1>7, <1>12, <1>13, <1>14, EvidenceInvFeeds

LEMMA EvidenceInvOverviews ==
  ASSUME EvidenceInv, OverviewRows
  PROVE  EvidenceInv'
<1>1. PICK c : c = [at |-> "overview", scope |-> Sessions, cursor |-> 0, seen |-> {}, view |-> Committed]
  OBVIOUS
<1>2. Len(outbox) \in Nat /\ Committed \subseteq Nat
  BY CommittedIds
<1>3. c \in FeedClients /\ c.at = "overview" /\ c.cursor = 0 /\ c.view = Committed
  BY <1>1, <1>2 DEF FeedClients
<1>4. ClientDoes(c) /\ (~hosted => Unlocked)
  BY <1>1 DEF OverviewRows, Quiet
<1> QED
  BY <1>2, <1>3, <1>4, EvidenceInvFeeds

LEMMA EvidenceInvShows ==
  ASSUME EvidenceInv, OverviewCursor
  PROVE  EvidenceInv'
<1>1. client \in FeedClients /\ client.at = "overview"
  BY DEF OverviewCursor, EvidenceInv, ClientOK, ClientIdle, ReplayClients
<1>2. PICK n, m : n = Len(outbox) /\ m = Max0(Committed)
  OBVIOUS
<1>3. n \in Nat /\ Committed \in SUBSET (1..n)
  BY <1>2, CommittedIds
<1>4. m \in 0..n
  <2>1. IsFiniteSet(0..n)
    BY <1>3, FS_Interval
  <2>2. PICK T : T = Committed \cup {0}
    OBVIOUS
  <2>3. T \subseteq 0..n /\ T # {} /\ T \in SUBSET Nat
    BY <1>3, <2>2
  <2>4. IsFiniteSet(T)
    BY <2>1, <2>3, FS_Subset
  <2>5. Max(T) \in T
    BY <2>3, <2>4, MaxIsLargest
  <2> QED BY <1>2, <2>2, <2>3, <2>5 DEF Max0
<1>5. PICK c : c = [client EXCEPT !.at = "feed", !.cursor = m]
  OBVIOUS
<1>6. ClientDoes(c)
  BY <1>2, <1>5 DEF OverviewCursor
<1>7. c \in FeedClients /\ c.at = "feed" /\ c.cursor = m /\ c.view = client.view /\ c.seen = client.seen
  <2>1. m \in Nat
    BY <1>3, <1>4
  <2> QED BY <1>1, <1>5, <2>1 DEF FeedClients
<1>8. ASSUME ~hosted, NEW i \in 1..m
      PROVE  outbox[i] # Absent /\ (outbox[i] \in c.scope => i \in c.seen \cup c.view)
  <2>1. Unlocked /\ client.view = Committed
    BY <1>1, <1>8 DEF EvidenceInv, FeedOK
  <2>2. i \in 1..n
    BY <1>3, <1>4
  <2>3. outbox[i] # Absent /\ i \in Committed
    BY <1>2, <1>8, <2>1, <2>2, QuietOutbox
  <2> QED BY <1>7, <2>1, <2>3
<1> QED
  BY <1>2, <1>4, <1>6, <1>7, <1>8, EvidenceInvFeeds

LEMMA EvidenceInvNext == EvidenceInv /\ [EvidenceNext]_evidenceVars => EvidenceInv'
<1> SUFFICES ASSUME EvidenceInv, [EvidenceNext]_evidenceVars PROVE EvidenceInv'
  OBVIOUS
<1>1. CASE UNCHANGED evidenceVars
  <2>1. UNCHANGED <<hosted, written, open>> /\ client' = client
    BY <1>1 DEF evidenceVars
  <2>2. LogsOK' /\ LogsGrow /\ RowsOK' /\ OutboxOK' /\ (~hosted => SerialOK') /\ hosted' = hosted
    BY <2>1, TablesStand
  <2>3. ReplayOK' /\ ClientOK'
    BY <2>1, <2>2, ReplayStays
  <2>4. ~hosted => FeedOK'
    BY <2>1 DEF EvidenceInv, FeedOK, written, Unlocked, Committed
  <2> QED BY <2>2, <2>3, <2>4 DEF EvidenceInv
<1>2. ASSUME NEW s \in Sessions, BeginWrite(s) PROVE EvidenceInv'
  BY <1>2, EvidenceInvBegins
<1>3. ASSUME NEW s \in Sessions, Abort(s) PROVE EvidenceInv'
  BY <1>3, EvidenceInvAborts
<1>4. ASSUME NEW s \in Sessions, Checkpoint(s) PROVE EvidenceInv'
  BY <1>4, EvidenceInvCuts
<1>5. ASSUME NEW s \in Sessions, NEW class \in Classes, Record(s, class) PROVE EvidenceInv'
  BY <1>5, EvidenceInvRecords
<1>6. ASSUME NEW s \in Sessions, NEW audience \in Audiences, StoreArtifact(s, audience) PROVE EvidenceInv'
  BY <1>6, EvidenceInvStores
<1>7. ASSUME NEW s \in Sessions, NEW cp \in checkpoints, NEW c \in Sessions, Branch(s, cp, c) PROVE EvidenceInv'
  BY <1>7, EvidenceInvBranches
<1>8. ASSUME NEW s \in Sessions, NEW who \in Participants \cup {Evaluator}, BeginReplay(s, who) PROVE EvidenceInv'
  BY <1>8, EvidenceInvBeginsReplay
<1>9. ASSUME NEW scope \in SUBSET Sessions, Follow(scope) PROVE EvidenceInv'
  BY <1>9, EvidenceInvFollows
<1>10. ASSUME ReplayPage \/ FeedPage \/ OverviewRows \/ OverviewCursor PROVE EvidenceInv'
  BY <1>10, EvidenceInvPages, EvidenceInvFeedsOn, EvidenceInvOverviews, EvidenceInvShows
<1>11. ASSUME Leave PROVE EvidenceInv'
  BY <1>11, EvidenceInvIdles DEF Leave
<1> QED
  BY <1>1, <1>2, <1>3, <1>4, <1>5, <1>6, <1>7, <1>8, <1>9, <1>10, <1>11 DEF EvidenceNext

LEMMA EvidenceInvAlways == EvidenceSpec => []EvidenceInv
<1> QED
  BY EvidenceInvInit, EvidenceInvNext, PTL DEF EvidenceSpec

\* The tables of the store keep their shape, and in the local store a row of
\* the outbox is missing only while its transaction is open.
THEOREM EvidenceTypes == EvidenceSpec => []EvidenceTypeOK
<1>1. EvidenceInv => EvidenceTypeOK
  <2> SUFFICES ASSUME EvidenceInv PROVE EvidenceTypeOK
    OBVIOUS
  <2>1. parent \in [Sessions -> Sessions \cup {Absent}]
    BY DEF EvidenceInv, RowsOK
  <2>2. \A s \in Sessions : (parent[s] # Absent) => base[s] \in checkpoints /\ base[s].session = parent[s]
    BY DEF EvidenceInv, RowsOK
  <2>3. \A a \in artifacts : a.session \in Sessions /\ a.audience \subseteq Participants \cup {Everyone}
    BY DEF EvidenceInv, RowsOK, Artifacts, Named
  <2>4. outbox \in Seq(Sessions \cup {Absent}) /\ Len(outbox) <= MaxWrites /\ DOMAIN outbox = 1..Len(outbox)
    BY DEF EvidenceInv, OutboxOK
  <2>5. \A i \in DOMAIN outbox : outbox[i] \in Sessions \cup {Absent}
    BY <2>4
  <2>6. \A s \in Sessions : open[s] \in 0..MaxWrites /\ (open[s] # 0 => open[s] \in DOMAIN outbox)
    BY <2>4, EvidenceAssumption DEF EvidenceInv, OutboxOK
  <2>7. ASSUME ~hosted PROVE Committed = DOMAIN outbox \ {open[s] : s \in Sessions}
    BY <2>4, <2>7 DEF EvidenceInv, SerialOK, Committed
  <2> QED
    BY <2>1, <2>2, <2>3, <2>5, <2>6, <2>7 DEF EvidenceTypeOK
<1> QED
  BY <1>1, EvidenceInvAlways, PTL

\* A replay that ends has returned every event its reader may see: what was
\* there when it began stays at its place, and a page leaves nothing out.
THEOREM ReplaysAreWhole == EvidenceSpec => []ReplayIsWhole
<1>1. EvidenceInv => ReplayIsWhole
  <2> SUFFICES ASSUME EvidenceInv, client.at = "replayed" PROVE ReplayIsWhole
    BY DEF ReplayIsWhole
  <2>1. Covered = client.end
    BY DEF Covered
  <2> QED BY <2>1 DEF EvidenceInv, ReplayOK, ReplayIsWhole
<1> QED
  BY <1>1, EvidenceInvAlways, PTL

\* Of the local store, whose transactions exclude each other, the overview
\* and the activity that follows it show every write up to the cursor.
THEOREM LocalOverviewsRecover == EvidenceSpec => []LocalOverviewRecovers
<1>1. EvidenceInv => LocalOverviewRecovers
  <2> SUFFICES ASSUME EvidenceInv, ~hosted, client.at = "feed", NEW i \in Committed,
                      i <= client.cursor, outbox[i] \in client.scope
               PROVE  i \in client.seen \cup client.view
    BY DEF LocalOverviewRecovers, OverviewRecovers
  <2>1. client \in FeedClients
    BY DEF EvidenceInv, ClientOK, ClientIdle, ReplayClients
  <2>2. client.cursor \in Nat /\ i \in 1..Len(outbox) /\ Len(outbox) \in Nat
    BY <2>1, CommittedIds DEF FeedClients
  <2>3. i \in 1..client.cursor
    BY <2>2
  <2> QED BY <2>3 DEF EvidenceInv, FeedOK
<1> QED
  BY <1>1, EvidenceInvAlways, PTL

------------------------------------------------------------------------------
(* The n-th of a set of positions. *)

LEMMA UpToTyped ==
  ASSUME NEW m \in Nat, NEW T \in SUBSET (1..m), NEW i \in Nat
  PROVE  /\ IsFiniteSet(T) /\ Cardinality(T) \in Nat
         /\ IsFiniteSet(UpTo(T, i)) /\ Cardinality(UpTo(T, i)) \in Nat
         /\ Cardinality(UpTo(T, i)) <= Cardinality(T)
<1>0. IsFiniteSet(1..m)
  BY FS_Interval
<1>1. IsFiniteSet(T)
  BY <1>0, FS_Subset
<1>2. UpTo(T, i) \subseteq T
  BY DEF UpTo
<1>3. IsFiniteSet(UpTo(T, i)) /\ Cardinality(UpTo(T, i)) <= Cardinality(T)
  BY <1>1, <1>2, FS_Subset
<1> QED BY <1>1, <1>3, FS_CardinalityType

LEMMA UpToEnds ==
  ASSUME NEW m \in Nat, NEW T \in SUBSET (1..m)
  PROVE  UpTo(T, 0) = {} /\ Cardinality(UpTo(T, 0)) = 0 /\ UpTo(T, m) = T
<1>1. \A j \in T : j \in Nat /\ ~(j <= 0) /\ j <= m
  OBVIOUS
<1>2. UpTo(T, 0) = {} /\ UpTo(T, m) = T
  BY <1>1 DEF UpTo
<1> QED BY <1>2, FS_EmptySet

LEMMA UpToNext ==
  ASSUME NEW m \in Nat, NEW T \in SUBSET (1..m), NEW k \in 1..m
  PROVE  /\ k \notin T => UpTo(T, k) = UpTo(T, k - 1)
         /\ k \in T => Cardinality(UpTo(T, k)) = Cardinality(UpTo(T, k - 1)) + 1
<1>1. \A j \in T : j \in Nat /\ (j <= k <=> j <= k - 1 \/ j = k)
  OBVIOUS
<1>2. ASSUME k \notin T PROVE UpTo(T, k) = UpTo(T, k - 1)
  BY <1>1, <1>2 DEF UpTo
<1>3. ASSUME k \in T PROVE Cardinality(UpTo(T, k)) = Cardinality(UpTo(T, k - 1)) + 1
  <2>1. UpTo(T, k) = UpTo(T, k - 1) \cup {k}
    BY <1>1, <1>3 DEF UpTo
  <2>2. k \notin UpTo(T, k - 1) /\ k - 1 \in Nat
    BY DEF UpTo
  <2>3. IsFiniteSet(UpTo(T, k - 1))
    BY <2>2, UpToTyped
  <2> QED BY <2>1, <2>2, <2>3, FS_AddElement
<1> QED
  BY <1>2, <1>3

LEMMA NthExists ==
  ASSUME NEW m \in Nat, NEW T \in SUBSET (1..m), NEW n \in 1..Cardinality(T)
  PROVE  \E i \in T : Cardinality(UpTo(T, i)) = n
<1> DEFINE S == {k \in 0..m : \A p \in 1..Cardinality(UpTo(T, k)) : \E i \in T : Cardinality(UpTo(T, i)) = p}
<1>1. 0 \in S
  BY UpToEnds
<1>2. ASSUME NEW k \in 1..m, k - 1 \in S PROVE k \in S
  <2>1. CASE k \notin T
    BY <1>2, <2>1, UpToNext
  <2>2. CASE k \in T
    <3>1. PICK a, b : a = Cardinality(UpTo(T, k)) /\ b = Cardinality(UpTo(T, k - 1))
      OBVIOUS
    <3>2. a = b + 1 /\ b \in Nat
      <4>1. k - 1 \in Nat
        OBVIOUS
      <4>2. b \in Nat
        BY <3>1, <4>1, UpToTyped
      <4> QED BY <2>2, <3>1, <4>2, UpToNext
    <3>3. ASSUME NEW p \in 1..a PROVE \E i \in T : Cardinality(UpTo(T, i)) = p
      <4>1. CASE p = a
        BY <2>2, <3>1, <4>1
      <4>2. CASE p # a
        <5>1. p \in 1..b
          BY <3>2, <4>2
        <5> QED BY <1>2, <3>1, <5>1
      <4> QED BY <4>1, <4>2
    <3> QED BY <3>1, <3>3
  <2> QED BY <2>1, <2>2
<1>3. \A i \in 0..m : i \in S
  <2> HIDE DEF S
  <2> QED BY <1>1, <1>2, Climbing
<1>4. m \in S /\ UpTo(T, m) = T
  BY <1>3, UpToEnds
<1> QED
  BY <1>4

LEMMA RankGrows ==
  ASSUME NEW m \in Nat, NEW T \in SUBSET (1..m), NEW i \in T, NEW j \in T, i < j
  PROVE  Cardinality(UpTo(T, i)) < Cardinality(UpTo(T, j))
<1>1. i \in Nat /\ j \in Nat /\ j - 1 \in Nat /\ j \in 1..m /\ i \in 1..m
  OBVIOUS
<1>2. PICK a, b, c : a = UpTo(T, i) /\ b = UpTo(T, j - 1) /\ c = UpTo(T, j)
  OBVIOUS
<1>3. a \subseteq b
  <2>1. \A k \in T : k \in Nat /\ (k <= i => k <= j - 1)
    BY <1>1
  <2> QED BY <1>2, <2>1 DEF UpTo
<1>4. IsFiniteSet(b) /\ Cardinality(a) \in Nat /\ Cardinality(b) \in Nat /\ Cardinality(c) = Cardinality(b) + 1
  <2>1. IsFiniteSet(b) /\ Cardinality(b) \in Nat
    BY <1>1, <1>2, UpToTyped
  <2>2. Cardinality(a) \in Nat
    BY <1>1, <1>2, UpToTyped
  <2>3. Cardinality(c) = Cardinality(b) + 1
    BY <1>1, <1>2, UpToNext
  <2> QED BY <2>1, <2>2, <2>3
<1>5. Cardinality(a) <= Cardinality(b)
  BY <1>3, <1>4, FS_Subset
<1> QED
  BY <1>2, <1>4, <1>5

LEMMA NthIs ==
  ASSUME NEW m \in Nat, NEW T \in SUBSET (1..m)
  PROVE  /\ \A n \in 1..Cardinality(T) : Nth(T, n) \in T /\ Cardinality(UpTo(T, Nth(T, n))) = n
         /\ \A i \in T : Cardinality(UpTo(T, i)) \in 1..Cardinality(T) /\ Nth(T, Cardinality(UpTo(T, i))) = i
<1>1. ASSUME NEW n \in 1..Cardinality(T) PROVE Nth(T, n) \in T /\ Cardinality(UpTo(T, Nth(T, n))) = n
  BY NthExists DEF Nth
<1>2. ASSUME NEW i \in T
      PROVE  Cardinality(UpTo(T, i)) \in 1..Cardinality(T) /\ Nth(T, Cardinality(UpTo(T, i))) = i
  <2>1. PICK n : n = Cardinality(UpTo(T, i))
    OBVIOUS
  <2>2. i \in 1..m /\ i \in Nat /\ i - 1 \in Nat
    OBVIOUS
  <2>3. n \in Nat /\ n <= Cardinality(T) /\ Cardinality(T) \in Nat /\ Cardinality(UpTo(T, i - 1)) \in Nat
        /\ n = Cardinality(UpTo(T, i - 1)) + 1
    <3>1. n \in Nat /\ n <= Cardinality(T) /\ Cardinality(T) \in Nat
      BY <2>1, <2>2, UpToTyped
    <3>2. Cardinality(UpTo(T, i - 1)) \in Nat
      BY <2>2, UpToTyped
    <3>3. n = Cardinality(UpTo(T, i - 1)) + 1
      BY <2>1, <2>2, UpToNext
    <3> QED BY <3>1, <3>2, <3>3
  <2>4. n \in 1..Cardinality(T)
    BY <2>3
  <2>5. PICK k : k = Nth(T, n)
    OBVIOUS
  <2>6. k \in T /\ Cardinality(UpTo(T, k)) = n
    BY <1>1, <2>4, <2>5
  <2>7. k \in Nat
    BY <2>6
  <2>8. ~(k < i) /\ ~(i < k)
    <3>1. ASSUME k < i PROVE FALSE
      <4>1. Cardinality(UpTo(T, k)) < Cardinality(UpTo(T, i))
        BY <2>6, <3>1, RankGrows
      <4> QED BY <2>1, <2>3, <2>6, <4>1
    <3>2. ASSUME i < k PROVE FALSE
      <4>1. Cardinality(UpTo(T, i)) < Cardinality(UpTo(T, k))
        BY <2>6, <3>2, RankGrows
      <4> QED BY <2>1, <2>3, <2>6, <4>1
    <3> QED BY <3>1, <3>2
  <2>9. k = i
    BY <2>2, <2>7, <2>8
  <2> QED BY <2>1, <2>4, <2>5, <2>9
<1> QED
  BY <1>1, <1>2

------------------------------------------------------------------------------
(* The artifacts that a history names. *)

\* The event in its original form, and whether it may name an artifact.
Original(e) == IF e.kind \in Inherited THEN e.record.event ELSE e
\* The rows of one session serve what event e names.
ServedBy(arts, als, id) ==
  {b \in arts : b.id = id \/ \E x \in als : x.alias = id /\ x.artifact = b.id}
Served(e, arts, als) ==
  e.about # Absent =>
    \E a \in arts : ServedBy(arts, als, e.about) = {a} /\ a.content = e.about /\ a.audience = e.audience
\* An id that has been handed out: the next one of a session is another.
Past(id) == id.in # <<>> /\ \A s \in Sessions : id.in = <<s>> => id.seq <= Len(log[s])
IdsPast(arts, als) == (\A a \in arts : Past(a.id)) /\ \A x \in als : Past(x.alias) /\ Past(x.artifact)
Known(e) == e.about # Absent => Past(e.about) /\ Len(e.about.in) = 1
RowsBorn == (\A a \in artifacts : Born(a.session)) /\ \A x \in aliases : Born(x.session)
HandlesInv ==
  /\ RowsBorn /\ IdsPast(artifacts, aliases)
  /\ \A s \in Sessions : \A i \in 1..Len(log[s]) :
       Known(Original(log[s][i])) /\ Served(Original(log[s][i]), Of(s, artifacts), Of(s, aliases))
  /\ \A cp \in checkpoints :
       /\ IdsPast(cp.artifacts, cp.aliases)
       /\ \A i \in 1..cp.cursor : Served(Original(log[cp.session][i]), cp.artifacts, cp.aliases)

LEMMA OriginalIsOriginal ==
  ASSUME NEW e \in Evidences
  PROVE  Original(e) \in Originals
<1>1. CASE e.kind \in Inherited
  <2>1. e \in Wraps
    BY <1>1 DEF Evidences, Originals, Kinds, Inherited
  <2> QED BY <1>1, <2>1 DEF Original, Wraps, Recs
<1>2. CASE e.kind \notin Inherited
  BY <1>2, OriginalTyped DEF Original
<1> QED
  BY <1>1, <1>2

LEMMA InheritTells ==
  ASSUME LogsOK, NEW s \in Sessions, NEW i \in 1..Len(log[s]), NEW j \in 1..Len(Inherit(s, i))
  PROVE  Original(Inherit(s, i)[j]) = Original(log[s][i])
<1>1. PICK e : e = log[s][i]
  OBVIOUS
<1>2. CASE e.kind \in Inherited
  <2>1. Inherit(s, i) = <<e>>
    BY <1>1, <1>2 DEF Inherit
  <2>2. j = 1
    BY <2>1
  <2> QED BY <1>1, <2>1, <2>2
<1>3. CASE e.kind \notin Inherited
  <2>1. Original(e) = e
    BY <1>3 DEF Original
  <2>2. PICK r : r = Rec(s, i, e)
    OBVIOUS
  <2>3. \A n, m : Original(Wrapped(r, n, m)) = e
    <3>1. \A n, m : Wrapped(r, n, m).kind \in Inherited /\ Wrapped(r, n, m).record = r
      BY DEF Wrapped, Inherited
    <3> QED BY <2>2, <3>1 DEF Original, Rec
  <2>4. CASE e.large
    <3>1. Inherit(s, i) = [n \in 1..Parts |-> Wrapped(r, n, Parts)]
      BY <1>1, <1>3, <2>2, <2>4 DEF Inherit
    <3>2. j \in 1..Parts
      BY <3>1 DEF Parts
    <3> QED BY <1>1, <2>1, <2>3, <3>1, <3>2
  <2>5. CASE ~e.large
    <3>1. Inherit(s, i) = <<Wrapped(r, 1, 1)>>
      BY <1>1, <1>3, <2>2, <2>5 DEF Inherit
    <3>2. j = 1
      BY <3>1
    <3> QED BY <1>1, <2>1, <2>3, <3>1, <3>2
  <2> QED BY <2>4, <2>5
<1> QED
  BY <1>2, <1>3

\* A child tells what its parent told up to the checkpoint.
LEMMA ChildTells ==
  ASSUME LogsOK, NEW s \in Sessions, NEW cp \in Cuts, cp.cursor <= Len(log[s]),
         NEW k \in 1..Len(ChildLog(s, cp))
  PROVE  \/ Original(ChildLog(s, cp)[k]).about = Absent
         \/ \E i \in 1..cp.cursor : Original(ChildLog(s, cp)[k]) = Original(log[s][i])
<1> DEFINE R == {e \in Evidences : \E i \in 1..cp.cursor : Original(e) = Original(log[s][i])}
<1>1. cp.cursor \in Nat /\ Len(log[s]) \in Nat
  BY DEF LogsOK, Cuts
<1>2. ASSUME NEW i \in 1..cp.cursor PROVE Inherit(s, i) \in Seq(R)
  <2>1. i \in 1..Len(log[s])
    BY <1>1
  <2>2. PICK q : q = Inherit(s, i)
    OBVIOUS
  <2>3. q \in Seq(Evidences) /\ \A j \in 1..Len(q) : Original(q[j]) = Original(log[s][i])
    BY <2>1, <2>2, InheritTyped, InheritTells
  <2>4. \A j \in 1..Len(q) : q[j] \in R
    BY <2>3
  <2>5. q \in Seq(R)
    <3> HIDE DEF R
    <3> QED BY <2>3, <2>4
  <2> QED BY <2>2, <2>5
<1>3. PICK seqs : seqs = [i \in 1..cp.cursor |-> Inherit(s, i)]
  OBVIOUS
<1>4. PICK f, x : f = FlattenSeq(seqs) /\ x = Event("session.branched", Plain, Absent)
  OBVIOUS
<1>5. ChildLog(s, cp) = f \o <<x>>
  BY <1>3, <1>4 DEF ChildLog
<1>6. f \in Seq(R)
  <2> HIDE DEF R
  <2>1. seqs \in Seq(Seq(R))
    BY <1>1, <1>2, <1>3
  <2> QED BY <1>4, <2>1, FlattenTyped
<1>7. x.about = Absent /\ Original(x) = x
  BY <1>4 DEF Event, Plain, Original, Inherited
<1>8. Len(f) \in Nat /\ Len(f \o <<x>>) = Len(f) + 1 /\ (f \o <<x>>)[Len(f) + 1] = x
      /\ \A i \in 1..Len(f) : (f \o <<x>>)[i] = f[i] /\ f[i] \in R
  <2> HIDE DEF R
  <2> QED BY <1>6
<1>9. CASE k = Len(f) + 1
  BY <1>5, <1>7, <1>8, <1>9
<1>10. CASE k # Len(f) + 1
  <2>1. k \in 1..Len(f)
    BY <1>5, <1>8, <1>10
  <2>2. ChildLog(s, cp)[k] \in R
    BY <1>5, <1>8, <2>1
  <2> QED BY <2>2
<1> QED
  BY <1>9, <1>10

LEMMA LogsLonger ==
  ASSUME LogsOK, LogsOK', LogsGrow, NEW s \in Sessions
  PROVE  Len(log[s]) \in Nat /\ Len(log'[s]) \in Nat /\ Len(log[s]) <= Len(log'[s])
         /\ \A i \in 1..Len(log[s]) : log'[s][i] = log[s][i]
<1>1. Len(log[s]) \in Nat /\ Len(log'[s]) \in Nat
  BY DEF LogsOK
<1>2. CASE Born(s)
  BY <1>1, <1>2, BornStays
<1>3. CASE ~Born(s)
  <2>1. Len(log[s]) = 0
    BY <1>3 DEF Born
  <2> QED BY <1>1, <2>1
<1> QED
  BY <1>2, <1>3

LEMMA PastStays ==
  ASSUME LogsOK, LogsOK', LogsGrow, NEW id \in Ids, Past(id)
  PROVE  Past(id)'
<1>1. ASSUME NEW s \in Sessions, id.in = <<s>> PROVE id.seq <= Len(log'[s])
  <2>1. id.seq <= Len(log[s]) /\ id.seq \in Nat
    BY <1>1 DEF Past, Ids
  <2>2. Len(log[s]) \in Nat /\ Len(log'[s]) \in Nat /\ Len(log[s]) <= Len(log'[s])
    BY LogsLonger
  <2> QED BY <2>1, <2>2
<1> QED
  BY <1>1 DEF Past

LEMMA IdsPastStay ==
  ASSUME LogsOK, LogsOK', LogsGrow, NEW arts \in SUBSET Artifacts, NEW als \in SUBSET Aliases, IdsPast(arts, als)
  PROVE  IdsPast(arts, als)'
<1>1. \A a \in arts : a.id \in Ids
  BY DEF Artifacts
<1>2. \A x \in als : x.alias \in Ids /\ x.artifact \in Ids
  BY DEF Aliases
<1>3. \A id \in Ids : Past(id) => Past(id)'
  BY PastStays
<1> QED
  BY <1>1, <1>2, <1>3 DEF IdsPast

\* What is known stays known, and what a checkpoint froze is still served.
LEMMA NamesStay ==
  ASSUME EvidenceInv, HandlesInv, LogsOK', LogsGrow, NEW s \in Sessions, NEW i \in 1..Len(log[s])
  PROVE  Known(Original(log[s][i]))' /\ log'[s][i] = log[s][i]
         /\ Served(Original(log'[s][i]), Of(s, artifacts), Of(s, aliases))
<1>1. PICK e, d : e = log[s][i] /\ d = Original(e)
  OBVIOUS
<1>2. e \in Evidences /\ log'[s][i] = e
  BY <1>1, LogsLonger DEF EvidenceInv, LogsOK
<1>3. d \in Originals
  BY <1>1, <1>2, OriginalIsOriginal
<1>4. Known(d) /\ Served(d, Of(s, artifacts), Of(s, aliases))
  BY <1>1 DEF HandlesInv
<1>5. Known(d)'
  <2> SUFFICES ASSUME d.about # Absent PROVE Past(d.about)' /\ Len(d.about.in) = 1
    BY DEF Known
  <2>1. d.about \in Ids
    BY <1>3 DEF Originals
  <2>2. Past(d.about) /\ Len(d.about.in) = 1
    BY <1>4 DEF Known
  <2> QED BY <2>1, <2>2, PastStays DEF EvidenceInv
<1> QED
  BY <1>1, <1>2, <1>4, <1>5

CutHandles(cp) ==
  /\ IdsPast(cp.artifacts, cp.aliases)
  /\ \A i \in 1..cp.cursor : Served(Original(log[cp.session][i]), cp.artifacts, cp.aliases)
LEMMA CutHandlesStay ==
  ASSUME EvidenceInv, HandlesInv, LogsOK', LogsGrow, NEW cp \in checkpoints
  PROVE  CutHandles(cp)'
<1>1. cp \in Cuts /\ cp.cursor <= Len(log[cp.session])
  BY DEF EvidenceInv, RowsOK
<1>2. cp.session \in Sessions /\ cp.cursor \in Nat /\ cp.artifacts \in SUBSET Artifacts /\ cp.aliases \in SUBSET Aliases
  BY <1>1 DEF Cuts
<1>3. IdsPast(cp.artifacts, cp.aliases)'
  BY <1>2, IdsPastStay DEF EvidenceInv, HandlesInv
<1>4. ASSUME NEW i \in 1..cp.cursor PROVE Served(Original(log'[cp.session][i]), cp.artifacts, cp.aliases)
  <2>1. Len(log[cp.session]) \in Nat
    BY <1>2 DEF EvidenceInv, LogsOK
  <2>2. i \in 1..Len(log[cp.session])
    BY <1>1, <1>2, <2>1
  <2>3. log'[cp.session][i] = log[cp.session][i]
    BY <1>2, <2>2, NamesStay
  <2> QED BY <2>3 DEF HandlesInv
<1> QED
  BY <1>3, <1>4 DEF CutHandles

\* A step that appends an event that names nothing.
LEMMA HandlesAppend ==
  ASSUME EvidenceInv, HandlesInv, LogsOK', LogsGrow, NEW s \in Sessions, NEW e \in Evidences, Appended(s, e),
         Original(e).about = Absent, artifacts' = artifacts, aliases' = aliases,
         \A cp \in checkpoints' : CutHandles(cp)'
  PROVE  HandlesInv'
<1>1. RowsBorn'
  <2>1. \A t \in Sessions : Born(t) => Born(t)'
    BY BornStays DEF EvidenceInv
  <2>2. (\A a \in artifacts : a.session \in Sessions) /\ \A x \in aliases : x.session \in Sessions
    BY DEF EvidenceInv, RowsOK, Artifacts, Aliases
  <2> QED BY <2>1, <2>2 DEF RowsBorn, HandlesInv
<1>2. IdsPast(artifacts, aliases)'
  <2>1. IdsPast(artifacts, aliases) /\ artifacts \in SUBSET Artifacts /\ aliases \in SUBSET Aliases
    BY DEF HandlesInv, EvidenceInv, RowsOK
  <2>2. PICK arts, als : arts = artifacts /\ als = aliases
    OBVIOUS
  <2>3. IdsPast(arts, als)'
    BY <2>1, <2>2, IdsPastStay DEF EvidenceInv
  <2> QED BY <2>2, <2>3
<1>3. ASSUME NEW t \in Sessions, NEW i \in 1..Len(log'[t])
      PROVE  Known(Original(log[t][i]))' /\ Served(Original(log'[t][i]), Of(t, artifacts), Of(t, aliases))
  <2>1. /\ Len(log'[s]) = Len(log[s]) + 1 /\ log'[s][Len(log[s]) + 1] = e
        /\ \A r \in Sessions \ {s} : log'[r] = log[r]
    BY AppendGrows DEF EvidenceInv
  <2>2. Len(log[s]) \in Nat /\ Len(log[t]) \in Nat
    BY DEF EvidenceInv, LogsOK
  <2>3. CASE i \in 1..Len(log[t])
    BY <2>3, NamesStay
  <2>4. CASE i \notin 1..Len(log[t])
    <3>1. t = s /\ i = Len(log[s]) + 1
      BY <2>1, <2>2, <2>4
    <3>2. log'[t][i] = e
      BY <2>1, <3>1
    <3> QED BY <3>2 DEF Known, Served
  <2> QED BY <2>3, <2>4
<1>4. HandlesInv'
  <2>1. \A t \in Sessions : \A i \in 1..Len(log'[t]) :
          Known(Original(log[t][i]))' /\ Served(Original(log[t][i]), Of(t, artifacts), Of(t, aliases))'
    BY <1>3 DEF Served, ServedBy, Of
  <2> QED BY <1>1, <1>2, <2>1 DEF HandlesInv, CutHandles
<1> QED
  BY <1>4

LEMMA HandlesStand ==
  ASSUME HandlesInv, UNCHANGED <<log, checkpoints, artifacts, aliases>>
  PROVE  HandlesInv'
BY DEF HandlesInv, RowsBorn, Born, IdsPast, Past, Known, Served, ServedBy, Of

LEMMA HandlesInvRecords ==
  ASSUME EvidenceInv, HandlesInv, NEW s \in Sessions, NEW class \in Classes, Record(s, class)
  PROVE  HandlesInv'
<1>1. LogsOK' /\ LogsGrow
  BY EvidenceInvRecords DEF EvidenceInv
<1>2. PICK e : e = Event("event", class, Absent)
  OBVIOUS
<1>3. e \in Evidences
  <2>1. class.audience \in Named /\ class.large \in BOOLEAN
    BY ClassTyped
  <2>2. e \in Originals
    BY <1>2, <2>1 DEF Event, Originals, Kinds
  <2> QED BY <2>2 DEF Evidences
<1>4. Original(e).about = Absent
  BY <1>2 DEF Event, Original, Inherited
<1>5. Appended(s, e) /\ artifacts' = artifacts /\ aliases' = aliases /\ checkpoints' = checkpoints
  BY <1>2 DEF Record
<1>6. \A cp \in checkpoints' : CutHandles(cp)'
  BY <1>1, <1>5, CutHandlesStay
<1> QED
  BY <1>1, <1>3, <1>4, <1>5, <1>6, HandlesAppend

LEMMA HandlesInvCuts ==
  ASSUME EvidenceInv, HandlesInv, NEW s \in Sessions, Checkpoint(s)
  PROVE  HandlesInv'
<1>1. LogsOK' /\ LogsGrow
  BY EvidenceInvCuts DEF EvidenceInv
<1>2. PICK e : e = Event("checkpoint.committed", Plain, Absent)
  OBVIOUS
<1>3. e \in Evidences
  BY <1>2, EventTyped DEF Plain, Kinds, Named
<1>4. Original(e).about = Absent
  BY <1>2 DEF Event, Original, Inherited
<1>5. PICK arts, als : arts = Of(s, artifacts) /\ als = Of(s, aliases)
  OBVIOUS
<1>6. PICK cut : cut = [session |-> s, cursor |-> Len(log[s]), artifacts |-> arts, aliases |-> als]
  OBVIOUS
<1>7. Appended(s, e) /\ artifacts' = artifacts /\ aliases' = aliases /\ checkpoints' = checkpoints \cup {cut}
  BY <1>2, <1>5, <1>6 DEF Checkpoint
<1>8. CutHandles(cut)'
  <2>1. cut.session = s /\ cut.cursor = Len(log[s]) /\ cut.artifacts = arts /\ cut.aliases = als
    BY <1>6
  <2>2. arts \in SUBSET Artifacts /\ als \in SUBSET Aliases /\ IdsPast(arts, als)
    BY <1>5 DEF Of, EvidenceInv, RowsOK, HandlesInv, IdsPast
  <2>3. IdsPast(arts, als)'
    BY <1>1, <2>2, IdsPastStay DEF EvidenceInv
  <2>4. ASSUME NEW i \in 1..Len(log[s]) PROVE Served(Original(log'[s][i]), arts, als)
    BY <1>1, <1>5, NamesStay
  <2> QED BY <2>1, <2>3, <2>4 DEF CutHandles
<1>9. \A cp \in checkpoints' : CutHandles(cp)'
  BY <1>1, <1>7, <1>8, CutHandlesStay
<1> QED
  BY <1>1, <1>3, <1>4, <1>7, <1>9, HandlesAppend

\* A new artifact has an id no row and no event has named.
LEMMA HandlesInvStores ==
  ASSUME EvidenceInv, HandlesInv, NEW s \in Sessions, NEW audience \in Audiences, StoreArtifact(s, audience)
  PROVE  HandlesInv'
<1>1. LogsOK' /\ LogsGrow /\ RowsOK'
  BY EvidenceInvStores DEF EvidenceInv
<1>2. PICK n, id : n = Len(log[s]) + 1 /\ id = [in |-> <<s>>, seq |-> n]
  OBVIOUS
<1>3. PICK e, row : /\ e = Event("artifact", [Plain EXCEPT !.audience = audience], id)
                    /\ row = [session |-> s, id |-> id, content |-> id, audience |-> audience]
  OBVIOUS
<1>4. /\ Appended(s, e) /\ artifacts' = artifacts \cup {row} /\ aliases' = aliases /\ checkpoints' = checkpoints
  BY <1>2, <1>3 DEF StoreArtifact
<1>5. n \in Nat /\ n = Len(log[s]) + 1 /\ Len(log[s]) \in Nat /\ <<s>> \in Seq(Sessions)
  BY <1>2 DEF EvidenceInv, LogsOK
<1>6. id \in Ids /\ id.in = <<s>> /\ id.seq = n /\ Len(id.in) = 1
  BY <1>2, <1>5 DEF Ids
<1>7. Original(e) = e /\ e.about = id /\ e.audience = audience
  <2>1. PICK class : class = [Plain EXCEPT !.audience = audience]
    OBVIOUS
  <2>2. class.audience = audience /\ class.large = FALSE
    BY <2>1 DEF Plain
  <2> QED BY <1>3, <2>1, <2>2 DEF Event, Original, Inherited
<1>8. row.session = s /\ row.id = id /\ row.content = id /\ row.audience = audience
  BY <1>3
<1>9. ~Past(id)
  BY <1>5, <1>6 DEF Past
<1>10. e \in Evidences
  <2>1. PICK class : class = [Plain EXCEPT !.audience = audience]
    OBVIOUS
  <2>2. class.audience = audience /\ class.large = FALSE
    BY <2>1 DEF Plain
  <2>3. audience \in Named
    BY EvidenceAssumption DEF Named
  <2>4. e \in Originals
    BY <1>3, <1>6, <2>1, <2>2, <2>3 DEF Event, Originals, Kinds
  <2> QED BY <2>4 DEF Evidences
<1>11. /\ Len(log'[s]) = n /\ log'[s][n] = e /\ \A r \in Sessions \ {s} : log'[r] = log[r]
  BY <1>4, <1>5, <1>10, AppendGrows DEF EvidenceInv
<1>12. Past(id)'
  <2>1. ASSUME NEW t \in Sessions, id.in = <<t>> PROVE id.seq <= Len(log'[t])
    <3>1. t = s
      BY <1>6, <2>1
    <3> QED BY <1>5, <1>6, <1>11, <3>1
  <2> QED BY <1>6, <2>1 DEF Past
<1>13. \A b \in artifacts : b.id # id
  BY <1>9 DEF HandlesInv, IdsPast
<1>14. \A x \in aliases : x.alias # id /\ x.artifact # id
  BY <1>9 DEF HandlesInv, IdsPast
<1>15. RowsBorn'
  <2>1. \A t \in Sessions : Born(t) => Born(t)'
    BY <1>1, BornStays DEF EvidenceInv
  <2>2. (\A a \in artifacts : a.session \in Sessions) /\ \A x \in aliases : x.session \in Sessions
    BY DEF EvidenceInv, RowsOK, Artifacts, Aliases
  <2>3. Born(s)'
    BY <2>1 DEF StoreArtifact, Commits, EvidenceInv, OutboxOK
  <2> QED BY <1>4, <1>8, <2>1, <2>2, <2>3 DEF RowsBorn, HandlesInv
<1>16. IdsPast(artifacts, aliases)'
  <2>1. IdsPast(artifacts, aliases) /\ artifacts \in SUBSET Artifacts /\ aliases \in SUBSET Aliases
    BY DEF HandlesInv, EvidenceInv, RowsOK
  <2>2. PICK arts, als : arts = artifacts /\ als = aliases
    OBVIOUS
  <2>3. IdsPast(arts, als)'
    BY <1>1, <2>1, <2>2, IdsPastStay DEF EvidenceInv
  <2> QED BY <1>4, <1>8, <1>12, <2>2, <2>3 DEF IdsPast
<1>17. \A cp \in checkpoints' : CutHandles(cp)'
  BY <1>1, <1>4, CutHandlesStay
<1>18. PICK arts, als : arts = Of(s, artifacts) /\ als = Of(s, aliases)
  OBVIOUS
<1>19. Of(s, artifacts') = arts \cup {row} /\ Of(s, aliases') = als
  BY <1>4, <1>8, <1>18 DEF Of
<1>20. \A t \in Sessions \ {s} : Of(t, artifacts') = Of(t, artifacts) /\ Of(t, aliases') = Of(t, aliases)
  BY <1>4, <1>8 DEF Of
<1>21. ASSUME NEW t \in Sessions, NEW i \in 1..Len(log'[t])
       PROVE  Known(Original(log[t][i]))' /\ Served(Original(log'[t][i]), Of(t, artifacts'), Of(t, aliases'))
  <2>1. Len(log[t]) \in Nat
    BY DEF EvidenceInv, LogsOK
  <2>2. CASE i \in 1..Len(log[t])
    <3>1. Known(Original(log[t][i]))' /\ log'[t][i] = log[t][i]
          /\ Served(Original(log'[t][i]), Of(t, artifacts), Of(t, aliases))
      BY <1>1, <2>2, NamesStay
    <3>2. CASE t # s
      BY <1>20, <3>1, <3>2
    <3>3. CASE t = s
      <4>1. PICK d : d = Original(log'[s][i])
        OBVIOUS
      <4>2. Served(d, arts, als) /\ Known(d)
        BY <1>18, <2>2, <3>1, <3>3, <4>1 DEF HandlesInv
      <4>3. Served(d, arts \cup {row}, als)
        <5> SUFFICES ASSUME d.about # Absent
                     PROVE  \E a \in arts \cup {row} : ServedBy(arts \cup {row}, als, d.about) = {a}
                                                       /\ a.content = d.about /\ a.audience = d.audience
          BY DEF Served
        <5>1. d.about # id
          BY <1>9, <4>2 DEF Known
        <5>2. ServedBy(arts \cup {row}, als, d.about) = ServedBy(arts, als, d.about)
          <6>1. als \subseteq aliases
            BY <1>18 DEF Of
          <6>2. \A x \in als : x.artifact # id
            BY <1>14, <6>1
          <6> QED BY <1>8, <5>1, <6>2 DEF ServedBy
        <5> QED BY <4>2, <5>2 DEF Served
      <4> QED BY <1>19, <3>1, <3>3, <4>1, <4>3
    <3> QED BY <3>2, <3>3
  <2>3. CASE i \notin 1..Len(log[t])
    <3>1. t = s /\ i = n
      BY <1>5, <1>11, <2>1, <2>3
    <3>2. Original(log'[t][i]) = e
      BY <1>7, <1>11, <3>1
    <3>3. Known(e)'
      BY <1>6, <1>7, <1>12 DEF Known
    <3>4. Served(e, arts \cup {row}, als)
      <4>1. arts \subseteq artifacts /\ als \subseteq aliases
        BY <1>18 DEF Of
      <4>2. ServedBy(arts \cup {row}, als, id) = {row}
        BY <1>8, <1>13, <1>14, <4>1 DEF ServedBy
      <4> QED BY <1>7, <1>8, <4>2 DEF Served
    <3>5. Known(Original(log[t][i]))'
      BY <3>2, <3>3
    <3> QED BY <1>19, <3>1, <3>2, <3>4, <3>5
  <2> QED BY <2>2, <2>3
<1> QED
  BY <1>15, <1>16, <1>17, <1>21 DEF HandlesInv, CutHandles

LEMMA CopiedIds ==
  ASSUME NEW c \in Sessions, NEW i \in Ids
  PROVE  /\ Copied(c, i) \in Ids
         /\ i.in # <<>> => Len(Copied(c, i).in) # 1 /\ Copied(c, i).in # <<>>
         /\ \A j \in Ids : Copied(c, i) = Copied(c, j) => i = j
<1>1. \A j \in Ids : Copied(c, j) \in Ids
  BY CopyTyped
<1>2. \A j \in Ids : Copied(c, j).in = <<c>> \o j.in /\ Copied(c, j).seq = j.seq
  BY DEF Copied, Ids
<1>3. <<c>> \in Seq(Sessions) /\ \A j \in Ids : j.in \in Seq(Sessions)
  BY DEF Ids
<1>4. ASSUME i.in # <<>> PROVE Len(Copied(c, i).in) # 1 /\ Copied(c, i).in # <<>>
  <2>1. PICK q : q = i.in
    OBVIOUS
  <2>2. q \in Seq(Sessions) /\ q # <<>>
    BY <1>3, <1>4, <2>1
  <2>3. Len(q) > 0 /\ Len(q) \in Nat
    BY <2>2
  <2>4. Len(<<c>> \o q) = 1 + Len(q)
    BY <2>2
  <2>5. PICK r : r = <<c>> \o q
    OBVIOUS
  <2>6. r # <<>> /\ Len(r) # 1
    BY <2>3, <2>4, <2>5
  <2> QED BY <1>2, <2>1, <2>5, <2>6
<1>5. ASSUME NEW j \in Ids, Copied(c, i) = Copied(c, j) PROVE i = j
  <2>1. PICK p, q : p = i.in /\ q = j.in
    OBVIOUS
  <2>2. p \in Seq(Sessions) /\ q \in Seq(Sessions) /\ <<c>> \o p = <<c>> \o q /\ i.seq = j.seq
    BY <1>2, <1>3, <1>5, <2>1
  <2>3. p = q
    BY <1>3, <2>2, ConcatSimplifications
  <2>4. i = [in |-> p, seq |-> i.seq] /\ j = [in |-> q, seq |-> j.seq]
    BY <2>1 DEF Ids
  <2> QED BY <2>2, <2>3, <2>4
<1> QED
  BY <1>1, <1>4, <1>5

Copies(c, arts) == {Copy(c, a) : a \in arts}
ChildAliases(c, arts, als) ==
  {[session |-> c, alias |-> a.id, artifact |-> Copied(c, a.id)] : a \in arts}
    \cup {[session |-> c, alias |-> x.alias, artifact |-> Copied(c, x.artifact)] : x \in als}

\* What served an event in the parent serves it in the child, through an alias.
LEMMA ChildServes ==
  ASSUME NEW c \in Sessions, NEW arts \in SUBSET Artifacts, NEW als \in SUBSET Aliases, NEW e,
         \A a \in arts : a.id.in # <<>>, e.about # Absent => Len(e.about.in) = 1, Served(e, arts, als)
  PROVE  Served(e, Copies(c, arts), ChildAliases(c, arts, als))
<1> SUFFICES ASSUME e.about # Absent
             PROVE  \E a \in Copies(c, arts) :
                      /\ ServedBy(Copies(c, arts), ChildAliases(c, arts, als), e.about) = {a}
                      /\ a.content = e.about /\ a.audience = e.audience
  BY DEF Served
<1>1. PICK a \in arts : ServedBy(arts, als, e.about) = {a} /\ a.content = e.about /\ a.audience = e.audience
  BY DEF Served
<1>2. PICK id, new, row : id = e.about /\ row = Copy(c, a) /\ new = ChildAliases(c, arts, als)
  OBVIOUS
<1>3. \A b \in arts : b.id \in Ids
  BY DEF Artifacts
<1>4. \A x \in als : x.alias \in Ids /\ x.artifact \in Ids
  BY DEF Aliases
<1>5. \A b \in arts : Copy(c, b).id = Copied(c, b.id) /\ Copy(c, b).content = b.content /\ Copy(c, b).audience = b.audience
  BY CopyTyped
<1>6. a \in ServedBy(arts, als, id) /\ \A b \in ServedBy(arts, als, id) : b = a
  BY <1>1, <1>2
<1>7. ASSUME NEW b \in arts, Copy(c, b) \in ServedBy(Copies(c, arts), new, id) PROVE b = a
  <2>1. Copied(c, b.id) = id \/ \E y \in new : y.alias = id /\ y.artifact = Copied(c, b.id)
    BY <1>5, <1>7 DEF ServedBy
  <2>2. Copied(c, b.id) # id
    <3>1. Len(Copied(c, b.id).in) # 1 /\ Len(id.in) = 1
      BY <1>2, <1>3, CopiedIds
    <3> QED BY <3>1
  <2>3. PICK y \in new : y.alias = id /\ y.artifact = Copied(c, b.id)
    BY <2>1, <2>2
  <2>4. b \in ServedBy(arts, als, id)
    <3>1. CASE \E d \in arts : y = [session |-> c, alias |-> d.id, artifact |-> Copied(c, d.id)]
      <4>1. PICK d \in arts : y = [session |-> c, alias |-> d.id, artifact |-> Copied(c, d.id)]
        BY <3>1
      <4>2. d.id = id /\ Copied(c, d.id) = Copied(c, b.id)
        BY <2>3, <4>1
      <4>3. b.id = id
        BY <1>3, <4>2, CopiedIds
      <4> QED BY <4>3 DEF ServedBy
    <3>2. CASE \E x \in als : y = [session |-> c, alias |-> x.alias, artifact |-> Copied(c, x.artifact)]
      <4>1. PICK x \in als : y = [session |-> c, alias |-> x.alias, artifact |-> Copied(c, x.artifact)]
        BY <3>2
      <4>2. x.alias = id /\ Copied(c, x.artifact) = Copied(c, b.id)
        BY <2>3, <4>1
      <4>3. x.artifact = b.id
        BY <1>3, <1>4, <4>2, CopiedIds
      <4> QED BY <4>2, <4>3 DEF ServedBy
    <3> QED BY <1>2, <3>1, <3>2 DEF ChildAliases
  <2> QED BY <1>6, <2>4
<1>8. row \in ServedBy(Copies(c, arts), new, id)
  <2>1. row \in Copies(c, arts) /\ row.id = Copied(c, a.id)
    BY <1>2, <1>5 DEF Copies
  <2>2. \E y \in new : y.alias = id /\ y.artifact = Copied(c, a.id)
    <3>1. a.id = id \/ \E x \in als : x.alias = id /\ x.artifact = a.id
      BY <1>6 DEF ServedBy
    <3>2. CASE a.id = id
      <4>1. PICK y : y = [session |-> c, alias |-> a.id, artifact |-> Copied(c, a.id)]
        OBVIOUS
      <4>2. y \in new
        BY <1>2, <4>1 DEF ChildAliases
      <4> QED BY <3>2, <4>1, <4>2
    <3>3. CASE \E x \in als : x.alias = id /\ x.artifact = a.id
      <4>1. PICK x \in als : x.alias = id /\ x.artifact = a.id
        BY <3>3
      <4>2. PICK y : y = [session |-> c, alias |-> x.alias, artifact |-> Copied(c, x.artifact)]
        OBVIOUS
      <4>3. y \in new
        BY <1>2, <4>2 DEF ChildAliases
      <4> QED BY <4>1, <4>2, <4>3
    <3> QED BY <3>1, <3>2, <3>3
  <2> QED BY <2>1, <2>2 DEF ServedBy
<1>9. ServedBy(Copies(c, arts), new, id) = {row}
  <2>1. \A r \in ServedBy(Copies(c, arts), new, id) : \E b \in arts : r = Copy(c, b)
    BY DEF ServedBy, Copies
  <2>2. \A r \in ServedBy(Copies(c, arts), new, id) : r = row
    BY <1>2, <1>7, <2>1
  <2> QED BY <1>8, <2>2
<1>10. row \in Copies(c, arts) /\ row.content = e.about /\ row.audience = e.audience
  BY <1>1, <1>2, <1>5 DEF Copies
<1> QED
  BY <1>2, <1>9, <1>10

LEMMA HandlesInvBranches ==
  ASSUME EvidenceInv, HandlesInv, NEW s \in Sessions, NEW cp \in checkpoints, NEW c \in Sessions, Branch(s, cp, c)
  PROVE  HandlesInv'
<1>1. LogsOK' /\ LogsGrow /\ Born(c)' /\ log'[c] = ChildLog(s, cp) /\ \A t \in Sessions \ {c} : log'[t] = log[t]
  BY BranchLogs
<1>2. cp \in Cuts /\ cp.session = s /\ cp.cursor <= Len(log[s]) /\ ~Born(c)
  BY DEF EvidenceInv, RowsOK, Branch
<1>3. PICK arts, als : arts = cp.artifacts /\ als = cp.aliases
  OBVIOUS
<1>4. PICK rows, new : rows = Copies(c, arts) /\ new = ChildAliases(c, arts, als)
  OBVIOUS
<1>5. arts \in SUBSET Artifacts /\ als \in SUBSET Aliases /\ cp.cursor \in Nat
  BY <1>2, <1>3 DEF Cuts
<1>6. artifacts' = artifacts \cup rows /\ aliases' = aliases \cup new /\ checkpoints' = checkpoints
  BY <1>3, <1>4 DEF Branch, Copies, ChildAliases
<1>7. IdsPast(arts, als)
  BY <1>3 DEF HandlesInv
<1>8. /\ \A a \in rows : a.session = c /\ \E b \in arts : a.id = Copied(c, b.id)
      /\ \A x \in new : x.session = c /\ \E i \in Ids : x.artifact = Copied(c, i) /\ Past(i) /\ Past(x.alias) /\ x.alias \in Ids
  <2>1. \A a \in rows : a.session = c /\ \E b \in arts : a.id = Copied(c, b.id)
    BY <1>4, <1>5, CopyTyped DEF Copies
  <2>2. \A b \in arts : b.id \in Ids /\ Past(b.id)
    BY <1>5, <1>7 DEF Artifacts, IdsPast
  <2>3. \A x \in als : x.alias \in Ids /\ x.artifact \in Ids /\ Past(x.artifact) /\ Past(x.alias)
    BY <1>5, <1>7 DEF Aliases, IdsPast
  <2>4. ASSUME NEW x \in new
        PROVE  x.session = c /\ \E i \in Ids : x.artifact = Copied(c, i) /\ Past(i) /\ Past(x.alias) /\ x.alias \in Ids
    <3>1. CASE \E d \in arts : x = [session |-> c, alias |-> d.id, artifact |-> Copied(c, d.id)]
      BY <2>2, <3>1
    <3>2. CASE \E d \in als : x = [session |-> c, alias |-> d.alias, artifact |-> Copied(c, d.artifact)]
      BY <2>3, <3>2
    <3> QED BY <1>4, <2>4, <3>1, <3>2 DEF ChildAliases
  <2> QED BY <2>1, <2>4
<1>9. \A i \in Ids : Past(i) => Past(Copied(c, i))'
  <2> SUFFICES ASSUME NEW i \in Ids, Past(i) PROVE Past(Copied(c, i))'
    OBVIOUS
  <2>1. Len(Copied(c, i).in) # 1 /\ Copied(c, i).in # <<>>
    BY CopiedIds DEF Past
  <2>2. \A t \in Sessions : Copied(c, i).in # <<t>>
    <3>1. \A t : Len(<<t>>) = 1
      OBVIOUS
    <3> QED BY <2>1, <3>1
  <2>3. Copied(c, i).in # <<>>
    BY <2>1
  <2> QED BY <2>2, <2>3 DEF Past
<1>10. RowsBorn'
  <2>1. \A t \in Sessions : Born(t) => Born(t)'
    BY <1>1, BornStays DEF EvidenceInv
  <2>2. (\A a \in artifacts : a.session \in Sessions) /\ \A x \in aliases : x.session \in Sessions
    BY DEF EvidenceInv, RowsOK, Artifacts, Aliases
  <2> QED BY <1>1, <1>6, <1>8, <2>1, <2>2 DEF RowsBorn, HandlesInv
<1>11. IdsPast(artifacts, aliases)'
  <2>1. IdsPast(artifacts, aliases) /\ artifacts \in SUBSET Artifacts /\ aliases \in SUBSET Aliases
    BY DEF HandlesInv, EvidenceInv, RowsOK
  <2>2. PICK a0, x0 : a0 = artifacts /\ x0 = aliases
    OBVIOUS
  <2>3. IdsPast(a0, x0)'
    BY <1>1, <2>1, <2>2, IdsPastStay DEF EvidenceInv
  <2>4. \A a \in rows : Past(a.id)'
    <3>1. \A b \in arts : b.id \in Ids /\ Past(b.id)
      BY <1>5, <1>7 DEF Artifacts, IdsPast
    <3> QED BY <1>8, <1>9, <3>1
  <2>5. \A x \in new : Past(x.alias)' /\ Past(x.artifact)'
    <3>1. \A i \in Ids : Past(i) => Past(i)'
      BY <1>1, PastStays DEF EvidenceInv
    <3> QED BY <1>8, <1>9, <3>1
  <2> QED BY <1>6, <2>2, <2>3, <2>4, <2>5 DEF IdsPast
<1>12. \A p \in checkpoints' : CutHandles(p)'
  BY <1>1, <1>6, CutHandlesStay
<1>13. Of(c, artifacts') = rows /\ Of(c, aliases') = new
  <2>1. (\A a \in artifacts : a.session # c) /\ \A x \in aliases : x.session # c
    BY <1>2 DEF HandlesInv, RowsBorn
  <2> QED BY <1>6, <1>8, <2>1 DEF Of
<1>14. \A t \in Sessions \ {c} : Of(t, artifacts') = Of(t, artifacts) /\ Of(t, aliases') = Of(t, aliases)
  BY <1>6, <1>8 DEF Of
<1>15. ASSUME NEW t \in Sessions, NEW i \in 1..Len(log'[t])
       PROVE  Known(Original(log[t][i]))' /\ Served(Original(log'[t][i]), Of(t, artifacts'), Of(t, aliases'))
  <2>1. CASE t # c
    <3>1. i \in 1..Len(log[t])
      BY <1>1, <2>1
    <3> QED BY <1>1, <1>14, <2>1, <3>1, NamesStay
  <2>2. CASE t = c
    <3>1. PICK d : d = Original(log'[c][i])
      OBVIOUS
    <3>2. CASE d.about = Absent
      BY <2>2, <3>1, <3>2 DEF Known, Served
    <3>3. CASE d.about # Absent
      <4>1. i \in 1..Len(ChildLog(s, cp)) /\ d = Original(ChildLog(s, cp)[i])
        BY <1>1, <2>2, <3>1
      <4>2. PICK j \in 1..cp.cursor : d = Original(log[s][j])
        BY <1>2, <3>3, <4>1, ChildTells DEF EvidenceInv
      <4>3. j \in 1..Len(log[s])
        <5>1. Len(log[s]) \in Nat
          BY DEF EvidenceInv, LogsOK
        <5> QED BY <1>2, <1>5, <5>1
      <4>4. Known(d) /\ Served(d, arts, als)
        BY <1>2, <1>3, <4>2, <4>3 DEF HandlesInv
      <4>5. Known(d)'
        <5>1. Known(Original(log[s][j]))' /\ log'[s][j] = log[s][j]
          BY <1>1, <4>3, NamesStay
        <5> QED BY <4>2, <5>1
      <4>6. \A a \in arts : a.id.in # <<>>
        BY <1>7 DEF IdsPast, Past
      <4>7. d.about # Absent => Len(d.about.in) = 1
        BY <4>4 DEF Known
      <4>8. Served(d, rows, new)
        BY <1>4, <1>5, <4>4, <4>6, <4>7, ChildServes
      <4>9. Known(Original(log[t][i]))'
        BY <2>2, <3>1, <4>5
      <4> QED BY <1>13, <2>2, <3>1, <4>8, <4>9
    <3> QED BY <3>2, <3>3
  <2> QED BY <2>1, <2>2
<1> QED
  BY <1>10, <1>11, <1>12, <1>15 DEF HandlesInv, CutHandles

LEMMA ThoseAre ==
  ASSUME NEW m \in Nat, NEW T \in SUBSET (1..m), NEW Q, NEW q, \A i \in 1..m : q[i] \in Q
  PROVE  /\ Those(q, T) \in Seq(Q) /\ Len(Those(q, T)) = Cardinality(T) /\ Cardinality(T) \in Nat
         /\ \A n \in 1..Cardinality(T) : Those(q, T)[n] = q[Nth(T, n)] /\ Nth(T, n) \in T
<1>1. Cardinality(T) \in Nat
  BY UpToTyped
<1>2. PICK k : k = Cardinality(T)
  OBVIOUS
<1>3. \A n \in 1..k : Nth(T, n) \in T
  BY <1>2, NthIs
<1>4. Those(q, T) = [n \in 1..k |-> q[Nth(T, n)]]
  BY <1>2 DEF Those
<1>5. \A n \in 1..k : q[Nth(T, n)] \in Q
  BY <1>3
<1> QED
  BY <1>1, <1>2, <1>3, <1>4, <1>5

LEMMA ReconstructIs ==
  ASSUME NEW page \in Seq(Evidences)
  PROVE  /\ Starts(page) \in SUBSET (1..Len(page)) /\ Len(page) \in Nat
         /\ Len(Reconstruct(page)) = Cardinality(Starts(page)) /\ Cardinality(Starts(page)) \in Nat
         /\ Reconstruct(page) \in Seq({Found(page, i) : i \in Starts(page)})
         /\ \A n \in 1..Cardinality(Starts(page)) :
              Reconstruct(page)[n] = Found(page, Nth(Starts(page), n)) /\ Nth(Starts(page), n) \in Starts(page)
<1>1. PICK m, T, k : m = Len(page) /\ T = Starts(page) /\ k = Cardinality(T)
  OBVIOUS
<1>2. m \in Nat /\ T \in SUBSET (1..m)
  BY <1>1 DEF Starts
<1>3. k \in Nat
  BY <1>1, <1>2, UpToTyped
<1>4. \A n \in 1..k : Nth(T, n) \in T
  BY <1>1, <1>2, NthIs
<1>5. Reconstruct(page) = [n \in 1..k |-> Found(page, Nth(T, n))]
  BY <1>1 DEF Reconstruct
<1>6. PICK Q : Q = {Found(page, i) : i \in T}
  OBVIOUS
<1>7. \A n \in 1..k : Found(page, Nth(T, n)) \in Q
  BY <1>4, <1>6
<1>8. Reconstruct(page) \in Seq(Q) /\ Len(Reconstruct(page)) = k
  BY <1>3, <1>5, <1>7
<1> QED
  BY <1>1, <1>2, <1>3, <1>4, <1>5, <1>6, <1>8

OwnPositions(s, n) == {i \in 1..n : log[s][i].kind \notin Inherited}
OwnHistory(s, n) ==
  Those([i \in 1..n |-> [complete |-> TRUE, record |-> Rec(s, i, log[s][i])]], OwnPositions(s, n))

LEMMA HistoryIs ==
  ASSUME LogsOK, NEW s \in Sessions, NEW n \in 0..Len(log[s])
  PROVE  /\ History(s, n) = Reconstruct(SubSeq(log[s], 1, n)) \o OwnHistory(s, n)
         /\ SubSeq(log[s], 1, n) \in Seq(Evidences) /\ Len(SubSeq(log[s], 1, n)) = n
         /\ \A i \in 1..n : SubSeq(log[s], 1, n)[i] = log[s][i]
<1>1. log[s] \in Seq(Evidences)
  BY DEF LogsOK
<1>2. PICK l : l = log[s]
  OBVIOUS
<1>3. n \in Nat /\ l \in Seq(Evidences) /\ n <= Len(l) /\ Len(l) \in Nat
  BY <1>1, <1>2
<1>4. \A i \in 1..n : l[i] \in Evidences
  BY <1>3
<1>5. /\ SubSeq(l, 1, n) \in Seq(Evidences) /\ Len(SubSeq(l, 1, n)) = n
      /\ \A i \in 1..n : SubSeq(l, 1, n)[i] = l[i]
  BY <1>3, <1>4
<1> QED
  BY <1>2, <1>5 DEF History, OwnHistory, OwnPositions

LEMMA HistoryTells ==
  ASSUME LogsOK, NEW s \in Sessions, NEW n \in 0..Len(log[s]), NEW i \in DOMAIN History(s, n)
  PROVE  \E j \in 1..n : History(s, n)[i].record.event = Original(log[s][j])
<1>1. PICK page, own, past : /\ page = SubSeq(log[s], 1, n) /\ own = OwnHistory(s, n)
                             /\ past = Reconstruct(page)
  OBVIOUS
<1>2. /\ History(s, n) = past \o own
      /\ page \in Seq(Evidences) /\ Len(page) = n /\ \A j \in 1..n : page[j] = log[s][j]
  BY <1>1, HistoryIs
<1>3. n \in Nat
  BY DEF LogsOK
<1> DEFINE X == [complete : BOOLEAN, record : Recs]
           Y == {x \in X : \E j \in 1..n : x.record.event = Original(log[s][j])}
<1>4. \A j \in 1..n : log[s][j] \in Evidences
  BY <1>2
<1>5. past \in Seq(Y)
  <2>1. PICK k, T : T = Starts(page) /\ k = Cardinality(T)
    OBVIOUS
  <2>2. /\ T \in SUBSET (1..n) /\ Len(past) = k /\ k \in Nat /\ past \in Seq({Found(page, j) : j \in T})
    BY <1>1, <1>2, <2>1, ReconstructIs
  <2>3. ASSUME NEW j \in T PROVE Found(page, j) \in Y
    <3>1. PICK e : e = page[j]
      OBVIOUS
    <3>2. e.kind \in Inherited /\ e \in Evidences /\ j \in 1..n /\ log[s][j] = e
      BY <1>2, <1>4, <2>1, <2>2, <3>1 DEF Starts
    <3>3. e.record \in Recs /\ Original(e) = e.record.event
      BY <3>2 DEF Evidences, Originals, Kinds, Wraps, Inherited, Original
    <3>4. Found(page, j).complete \in BOOLEAN /\ Found(page, j) \in X /\ Found(page, j).record = e.record
      BY <3>1, <3>3 DEF Found
    <3> QED BY <3>2, <3>3, <3>4
  <2>4. PICK Q : Q = {Found(page, j) : j \in T}
    OBVIOUS
  <2> HIDE DEF Y
  <2>5. Q \subseteq Y
    BY <2>3, <2>4
  <2>6. past \in Seq(Q)
    BY <2>2, <2>4
  <2> QED BY <2>5, <2>6, SeqMonotonic
<1>6. own \in Seq(Y)
  <2>1. PICK q : q = [j \in 1..n |-> [complete |-> TRUE, record |-> Rec(s, j, log[s][j])]]
    OBVIOUS
  <2>2. PICK T : T = OwnPositions(s, n)
    OBVIOUS
  <2>3. T \in SUBSET (1..n) /\ own = Those(q, T)
    BY <1>1, <2>1, <2>2 DEF OwnPositions, OwnHistory
  <2>4. ASSUME NEW j \in T PROVE q[j] \in Y
    <3>1. PICK e : e = log[s][j]
      OBVIOUS
    <3>2. e \in Originals /\ Original(e) = e /\ j \in 1..n /\ j \in Nat
      BY <1>3, <1>4, <2>2, <3>1, OriginalTyped DEF OwnPositions, Original
    <3>3. Rec(s, j, e) \in Recs /\ Rec(s, j, e).event = e
      BY <3>2 DEF Rec, Recs
    <3>4. q[j] = [complete |-> TRUE, record |-> Rec(s, j, e)]
      BY <2>1, <3>1, <3>2
    <3> QED BY <3>1, <3>2, <3>3, <3>4
  <2>5. Cardinality(T) \in Nat /\ \A k \in 1..Cardinality(T) : Nth(T, k) \in T
    <3>1. Cardinality(T) \in Nat
      BY <1>3, <2>3, UpToTyped
    <3> QED BY <1>3, <2>3, <3>1, NthIs
  <2>6. own = [k \in 1..Cardinality(T) |-> q[Nth(T, k)]]
    BY <2>3 DEF Those
  <2> HIDE DEF Y
  <2> QED BY <2>4, <2>5, <2>6
<1>7. past \o own \in Seq(Y)
  <2> HIDE DEF Y
  <2> QED BY <1>5, <1>6, ConcatProperties
<1>8. History(s, n)[i] \in Y
  <2> HIDE DEF Y
  <2> QED BY <1>2, <1>7
<1> QED
  BY <1>8

LEMMA HandlesInvInit == EvidenceInit => HandlesInv
<1> SUFFICES ASSUME EvidenceInit PROVE HandlesInv
  OBVIOUS
<1>1. RowsBorn /\ IdsPast(artifacts, aliases) /\ checkpoints = {}
  BY DEF EvidenceInit, RowsBorn, IdsPast
<1>2. ASSUME NEW s \in Sessions, NEW i \in 1..Len(log[s])
      PROVE  Known(Original(log[s][i])) /\ Served(Original(log[s][i]), Of(s, artifacts), Of(s, aliases))
  <2>1. PICK e : e = Event("session.created", Plain, Absent)
    OBVIOUS
  <2>2. log[s] = IF s = Root THEN <<e>> ELSE <<>>
    BY <2>1 DEF EvidenceInit
  <2>3. log[s][i] = e
    BY <2>2
  <2>4. Original(e).about = Absent
    BY <2>1 DEF Event, Original, Inherited
  <2> QED BY <2>3, <2>4 DEF Known, Served
<1> QED
  BY <1>1, <1>2 DEF HandlesInv

LEMMA HandlesInvNext == EvidenceInv /\ HandlesInv /\ [EvidenceNext]_evidenceVars => HandlesInv'
<1> SUFFICES ASSUME EvidenceInv, HandlesInv, [EvidenceNext]_evidenceVars PROVE HandlesInv'
  OBVIOUS
<1>1. ASSUME UNCHANGED <<log, checkpoints, artifacts, aliases>> PROVE HandlesInv'
  BY <1>1, HandlesStand
<1>2. ASSUME NEW s \in Sessions, BeginWrite(s) \/ Abort(s) PROVE HandlesInv'
  BY <1>1, <1>2 DEF BeginWrite, Abort
<1>3. ASSUME NEW s \in Sessions, Checkpoint(s) PROVE HandlesInv'
  BY <1>3, HandlesInvCuts
<1>4. ASSUME NEW s \in Sessions, NEW class \in Classes, Record(s, class) PROVE HandlesInv'
  BY <1>4, HandlesInvRecords
<1>5. ASSUME NEW s \in Sessions, NEW audience \in Audiences, StoreArtifact(s, audience) PROVE HandlesInv'
  BY <1>5, HandlesInvStores
<1>6. ASSUME NEW s \in Sessions, NEW cp \in checkpoints, NEW c \in Sessions, Branch(s, cp, c) PROVE HandlesInv'
  BY <1>6, HandlesInvBranches
<1>7. ASSUME NEW c, ClientDoes(c) PROVE HandlesInv'
  BY <1>1, <1>7 DEF ClientDoes, written
<1>8. ASSUME NEW s \in Sessions, NEW who \in Participants \cup {Evaluator}, BeginReplay(s, who) PROVE HandlesInv'
  BY <1>7, <1>8 DEF BeginReplay
<1>9. ASSUME NEW scope \in SUBSET Sessions, Follow(scope) PROVE HandlesInv'
  BY <1>7, <1>9 DEF Follow
<1>10. ASSUME ReplayPage PROVE HandlesInv'
  <2>1. \E c : ClientDoes(c)
    BY <1>10 DEF ReplayPage
  <2> QED BY <1>7, <2>1
<1>11. ASSUME FeedPage \/ OverviewRows \/ OverviewCursor \/ Leave PROVE HandlesInv'
  BY <1>7, <1>11 DEF FeedPage, OverviewRows, OverviewCursor, Leave
<1>12. CASE UNCHANGED evidenceVars
  BY <1>1, <1>12 DEF evidenceVars, written
<1> QED
  BY <1>2, <1>3, <1>4, <1>5, <1>6, <1>8, <1>9, <1>10, <1>11, <1>12 DEF EvidenceNext

\* Every artifact that the history of a session names is served by that
\* session, one row with the content and the audience it was stored with,
\* through however many branches (store.py read_artifact and the aliases
\* _branch_legacy writes).
THEOREM NamedArtifactsAreServed == EvidenceSpec => []HandlesResolve
<1>1. EvidenceInv /\ HandlesInv => HandlesResolve
  <2> SUFFICES ASSUME EvidenceInv, HandlesInv, NEW s \in Sessions, Born(s),
                      NEW i \in DOMAIN History(s, Len(log[s])),
                      History(s, Len(log[s]))[i].record.event.about # Absent
               PROVE  LET e == History(s, Len(log[s]))[i].record.event IN
                      \E a \in artifacts : /\ Resolve(s, e.about) = {a}
                                           /\ a.content = e.about /\ a.audience = e.audience
    BY DEF HandlesResolve
  <2>1. Len(log[s]) \in 0..Len(log[s])
    BY DEF EvidenceInv, LogsOK
  <2>2. PICK e : e = History(s, Len(log[s]))[i].record.event
    OBVIOUS
  <2>3. PICK j \in 1..Len(log[s]) : e = Original(log[s][j])
    BY <2>1, <2>2, HistoryTells DEF EvidenceInv
  <2>4. Served(e, Of(s, artifacts), Of(s, aliases))
    BY <2>3 DEF HandlesInv
  <2>5. Resolve(s, e.about) = ServedBy(Of(s, artifacts), Of(s, aliases), e.about) /\ Of(s, artifacts) \subseteq artifacts
    BY DEF Resolve, ServedBy, Of
  <2> QED BY <2>2, <2>4, <2>5 DEF Served
<1>2. EvidenceSpec => []HandlesInv
  BY HandlesInvInit, HandlesInvNext, EvidenceInvAlways, PTL DEF EvidenceSpec
<1> QED
  BY <1>1, <1>2, EvidenceInvAlways, PTL


\* The positions kept may grow at their end.
SameAt(p, q, T, m, Q) == m \in Nat /\ T \in SUBSET (1..m) /\ \A i \in T : q[i] \in Q /\ p[i] = q[i]
Grown(p, q, T, m, Q) ==
  /\ Those(q, T) \in Seq(Q) /\ Those(p, T) = Those(q, T)
  /\ p[m + 1] \in Q => Those(p, T \cup {m + 1}) = Append(Those(q, T), p[m + 1])
LEMMA ThoseGrow ==
  ASSUME NEW m, NEW T, NEW Q, NEW q, NEW p, SameAt(p, q, T, m, Q)
  PROVE  Grown(p, q, T, m, Q)
<1>1. PICK c : c = Cardinality(T)
  OBVIOUS
<1>0. m \in Nat /\ T \in SUBSET (1..m) /\ \A i \in T : q[i] \in Q /\ p[i] = q[i]
  BY DEF SameAt
<1>2. c \in Nat /\ IsFiniteSet(T)
  BY <1>0, <1>1, UpToTyped
<1>3. ASSUME NEW n \in 1..c PROVE Nth(T, n) \in T /\ Cardinality(UpTo(T, Nth(T, n))) = n
  BY <1>0, <1>1, NthIs
<1>4. PICK a : a = Those(q, T)
  OBVIOUS
<1>5. a = [n \in 1..c |-> q[Nth(T, n)]]
  BY <1>1, <1>4 DEF Those
<1>6. a \in Seq(Q) /\ Len(a) = c
  <2>1. \A n \in 1..c : q[Nth(T, n)] \in Q
    BY <1>0, <1>3
  <2> QED BY <1>2, <1>5, <2>1
<1>7. Those(p, T) = a
  <2>1. \A n \in 1..c : p[Nth(T, n)] = q[Nth(T, n)]
    BY <1>0, <1>3
  <2> QED BY <1>1, <1>5, <2>1 DEF Those
<1>8. ASSUME p[m + 1] \in Q PROVE Those(p, T \cup {m + 1}) = Append(a, p[m + 1])
  <2>1. PICK k, U : k = m + 1 /\ U = T \cup {k}
    OBVIOUS
  <2>2. k \in Nat /\ k \in U /\ U \in SUBSET (1..k) /\ k \notin T /\ \A i \in T : i \in Nat /\ i < k
    BY <1>0, <2>1
  <2>3. Cardinality(U) = c + 1
    BY <1>1, <1>2, <2>1, <2>2, FS_AddElement
  <2>4. ASSUME NEW n \in 1..c PROVE Nth(U, n) = Nth(T, n)
    <3>1. PICK i : i = Nth(T, n)
      OBVIOUS
    <3>2. i \in T /\ Cardinality(UpTo(T, i)) = n /\ i \in Nat /\ i < k
      BY <1>3, <2>2, <3>1
    <3>3. UpTo(U, i) = UpTo(T, i)
      BY <2>1, <2>2, <3>2 DEF UpTo
    <3>4. i \in U
      BY <2>1, <3>2
    <3>5. Nth(U, Cardinality(UpTo(U, i))) = i
      BY <2>2, <3>4, NthIs
    <3> QED BY <3>1, <3>2, <3>3, <3>5
  <2>5. Nth(U, c + 1) = k
    <3>1. UpTo(U, k) = U
      BY <2>2, UpToEnds
    <3>2. Nth(U, Cardinality(UpTo(U, k))) = k
      BY <2>2, NthIs
    <3> QED BY <2>3, <3>1, <3>2
  <2>6. PICK b : b = Those(p, U)
    OBVIOUS
  <2>7. b = [n \in 1..(c + 1) |-> p[Nth(U, n)]]
    BY <2>3, <2>6 DEF Those
  <2>8. \A n \in 1..c : b[n] = a[n]
    <3>1. \A n \in 1..c : n \in 1..(c + 1)
      BY <1>2
    <3>2. \A n \in 1..c : p[Nth(T, n)] = q[Nth(T, n)]
      BY <1>0, <1>3
    <3> QED BY <1>5, <2>4, <2>7, <3>1, <3>2
  <2>9. b[c + 1] = p[k] /\ p[k] \in Q
    <3>1. c + 1 \in 1..(c + 1)
      BY <1>2
    <3> QED BY <1>8, <2>1, <2>5, <2>7, <3>1
  <2>10. b = Append(a, p[k])
    <3>1. PICK x : x = p[k]
      OBVIOUS
    <3>2. PICK d : d = Append(a, x)
      OBVIOUS
    <3>3. d \in Seq(Q) /\ Len(d) = c + 1 /\ d[c + 1] = x /\ \A n \in 1..c : d[n] = a[n]
      BY <1>2, <1>6, <2>9, <3>1, <3>2
    <3>4. \A n \in 1..(c + 1) : n = c + 1 \/ n \in 1..c
      BY <1>2
    <3>5. \A n \in 1..(c + 1) : b[n] = d[n]
      BY <2>8, <2>9, <3>1, <3>3, <3>4
    <3>6. d = [n \in 1..(c + 1) |-> d[n]]
      BY <3>3
    <3>7. b = [n \in 1..(c + 1) |-> b[n]]
      BY <2>7
    <3> QED BY <3>1, <3>2, <3>5, <3>6, <3>7
  <2> QED BY <2>1, <2>6, <2>10
<1> QED
  BY <1>4, <1>6, <1>7, <1>8 DEF Grown

LEMMA ThoseAll ==
  ASSUME NEW Q, NEW q \in Seq(Q)
  PROVE  Those(q, 1..Len(q)) = q
<1>1. PICK m, T : m = Len(q) /\ T = 1..m
  OBVIOUS
<1>2. m \in Nat /\ T \in SUBSET (1..m) /\ q = [n \in 1..m |-> q[n]]
  BY <1>1
<1>3. Cardinality(T) = m
  BY <1>1, <1>2, FS_Interval
<1>4. ASSUME NEW n \in 1..m PROVE Nth(T, n) = n
  <2>1. UpTo(T, n) = 1..n /\ n \in Nat /\ n \in T
    BY <1>1, <1>2 DEF UpTo
  <2>2. Cardinality(UpTo(T, n)) = n
    BY <2>1, FS_Interval
  <2>3. Nth(T, Cardinality(UpTo(T, n))) = n
    BY <1>2, <2>1, NthIs
  <2> QED BY <2>2, <2>3
<1>5. Those(q, T) = [n \in 1..m |-> q[Nth(T, n)]]
  BY <1>3 DEF Those
<1>6. Those(q, T) = [n \in 1..m |-> q[n]]
  BY <1>4, <1>5
<1> QED
  BY <1>1, <1>2, <1>6

\* One entry more: it is kept or it is not.
Kept(l, K) == Those(l, {i \in DOMAIN l : l[i] \in K})
LEMMA KeptTyped ==
  ASSUME NEW Q, NEW q \in Seq(Q), NEW K
  PROVE  Kept(q, K) \in Seq(Q \cap K)
<1>1. PICK m, T : m = Len(q) /\ T = {i \in DOMAIN q : q[i] \in K}
  OBVIOUS
<1>2. m \in Nat /\ T \in SUBSET (1..m) /\ \A i \in T : q[i] \in Q \cap K
  BY <1>1
<1>3. SameAt(q, q, T, m, Q \cap K)
  BY <1>2 DEF SameAt
<1>4. Grown(q, q, T, m, Q \cap K)
  BY <1>3, ThoseGrow
<1> QED
  BY <1>1, <1>4 DEF Grown, Kept
AppendKept(q, x, K) ==
  /\ x \in K => Kept(Append(q, x), K) = Append(Kept(q, K), x)
  /\ x \notin K => Kept(Append(q, x), K) = Kept(q, K)
LEMMA KeptAppend ==
  ASSUME NEW Q, NEW q \in Seq(Q), NEW x \in Q, NEW K
  PROVE  AppendKept(q, x, K)
<1>1. PICK m, p : m = Len(q) /\ p = Append(q, x)
  OBVIOUS
<1>2. /\ m \in Nat /\ DOMAIN q = 1..m /\ DOMAIN p = 1..(m + 1) /\ p[m + 1] = x
      /\ \A i \in 1..m : p[i] = q[i] /\ q[i] \in Q
  BY <1>1
<1>3. PICK T, U : T = {i \in DOMAIN q : q[i] \in K} /\ U = {i \in DOMAIN p : p[i] \in K}
  OBVIOUS
<1>4. T \in SUBSET (1..m)
  BY <1>2, <1>3
<1>5. \A i \in 1..(m + 1) : i = m + 1 \/ i \in 1..m
  BY <1>2
<1>6. U = IF x \in K THEN T \cup {m + 1} ELSE T
  BY <1>2, <1>3, <1>5
<1>7. /\ Those(q, T) \in Seq(Q) /\ Those(p, T) = Those(q, T)
      /\ Those(p, T \cup {m + 1}) = Append(Those(q, T), p[m + 1])
  <2>1. \A i \in T : q[i] \in Q /\ p[i] = q[i]
    BY <1>2, <1>4
  <2>2. p[m + 1] \in Q
    BY <1>2
  <2>3. SameAt(p, q, T, m, Q)
    BY <1>2, <1>4, <2>1 DEF SameAt
  <2>4. Grown(p, q, T, m, Q)
    BY <2>3, ThoseGrow
  <2> QED BY <2>2, <2>4 DEF Grown
<1> QED
  BY <1>1, <1>2, <1>3, <1>6, <1>7 DEF AppendKept, Kept

------------------------------------------------------------------------------
(* The inherited records of a page that grows. *)

FoundRecords == [complete : BOOLEAN, record : Recs]

LEMMA FoundTyped ==
  ASSUME NEW page \in Seq(Evidences), NEW i \in Starts(page)
  PROVE  /\ i \in 1..Len(page) /\ page[i] \in Wraps /\ page[i].kind \in Inherited
         /\ Found(page, i) \in FoundRecords /\ Found(page, i).record = page[i].record
<1>1. PICK e : e = page[i]
  OBVIOUS
<1>2. e.kind \in Inherited /\ e \in Evidences /\ i \in 1..Len(page)
  BY <1>1 DEF Starts
<1>3. e \in Wraps
  BY <1>2 DEF Evidences, Originals, Kinds, Inherited
<1>4. Found(page, i) \in FoundRecords /\ Found(page, i).record = e.record
  BY <1>1, <1>3 DEF Found, FoundRecords, Wraps
<1> QED
  BY <1>1, <1>2, <1>3, <1>4

FoundAt(page) == [i \in 1..Len(page) |-> Found(page, i)]
LEMMA ReconstructFound ==
  ASSUME NEW page \in Seq(Evidences)
  PROVE  /\ Reconstruct(page) = Those(FoundAt(page), Starts(page))
         /\ SameAt(FoundAt(page), FoundAt(page), Starts(page), Len(page), FoundRecords)
<1>1. PICK m, T, q : m = Len(page) /\ T = Starts(page) /\ q = FoundAt(page)
  OBVIOUS
<1>2. m \in Nat /\ T \in SUBSET (1..m)
  BY <1>1 DEF Starts
<1>3. \A i \in T : q[i] = Found(page, i) /\ q[i] \in FoundRecords
  BY <1>1, <1>2, FoundTyped DEF FoundAt
<1>4. \A n \in 1..Cardinality(T) : Nth(T, n) \in T
  BY <1>2, NthIs
<1>5. \A n \in 1..Cardinality(T) : q[Nth(T, n)] = Found(page, Nth(T, n))
  BY <1>3, <1>4
<1>6. Reconstruct(page) = Those(q, T)
  BY <1>1, <1>5 DEF Reconstruct, Those
<1> QED
  BY <1>1, <1>2, <1>3, <1>6 DEF SameAt

\* An event of the session itself is not an inherited record.
LEMMA OwnIsNotFound ==
  ASSUME NEW page \in Seq(Evidences), NEW e \in Evidences, e.kind \notin Inherited
  PROVE  Reconstruct(Append(page, e)) = Reconstruct(page)
<1>1. PICK m, T, new : m = Len(page) /\ T = Starts(page) /\ new = Append(page, e)
  OBVIOUS
<1>2. /\ m \in Nat /\ new \in Seq(Evidences) /\ DOMAIN page = 1..m /\ DOMAIN new = 1..(m + 1)
      /\ new[m + 1] = e /\ (\A i \in 1..m : new[i] = page[i])
      /\ \A i \in 1..(m + 1) : i \in 1..m \/ i = m + 1
  BY <1>1
<1>3. \A i \in 1..m : Chunks(new, i) = Chunks(page, i)
  BY <1>2 DEF Chunks
<1>4. Starts(new) = T
  BY <1>1, <1>2, <1>3 DEF Starts
<1>5. T \in SUBSET (1..m)
  BY <1>1, <1>2 DEF Starts
<1>6. ASSUME NEW i \in T PROVE Found(new, i) = Found(page, i)
  <2>1. Chunks(new, i) = Chunks(page, i) /\ new[i] = page[i] /\ Chunks(page, i) \subseteq 1..m
    BY <1>2, <1>3, <1>5 DEF Chunks
  <2>2. {new[j].part : j \in Chunks(new, i)} = {page[j].part : j \in Chunks(page, i)}
    BY <1>2, <2>1
  <2> QED BY <2>1, <2>2 DEF Found
<1>7. \A n \in 1..Cardinality(T) : Nth(T, n) \in T
  BY <1>2, <1>5, NthIs
<1> QED
  BY <1>1, <1>4, <1>6, <1>7 DEF Reconstruct

\* A record that is not in the page yet, and is appended with all its chunks,
\* is found after the others, complete.
Whole(new, m, r) ==
  /\ m + 1 \in 1..Len(new)
  /\ \A j \in (m + 1)..Len(new) : new[j].kind \in Inherited /\ new[j].record = r
  /\ {new[j].part : j \in (m + 1)..Len(new)} = 1..new[m + 1].parts
NewTo(page, r) == \A j \in 1..Len(page) : page[j].kind \in Inherited => page[j].record # r
LEMMA WholeIsFound ==
  ASSUME NEW page \in Seq(Evidences), NEW new \in Seq(Evidences), Extended(page, new),
         NEW r \in Recs, NewTo(page, r), Whole(new, Len(page), r)
  PROVE  Reconstruct(new) = Append(Reconstruct(page), [complete |-> TRUE, record |-> r])
<1>1. PICK m, k, T : m = Len(page) /\ k = Len(new) /\ T = Starts(page)
  OBVIOUS
<1>2. /\ m \in Nat /\ k \in Nat /\ m + 1 \in 1..k /\ DOMAIN page = 1..m /\ DOMAIN new = 1..k
      /\ (\A i \in 1..m : new[i] = page[i]) /\ T \in SUBSET (1..m) /\ 1..m \subseteq 1..k
      /\ (\A i \in 1..k : i \in 1..m \/ i \in (m + 1)..k) /\ (m + 1)..k \subseteq 1..k
  BY <1>1 DEF Extended, Starts, Whole
<1>3. \A j \in (m + 1)..k : new[j].kind \in Inherited /\ new[j].record = r
  BY <1>1 DEF Whole
<1>4. \A j \in 1..m : page[j].kind \in Inherited => page[j].record # r
  BY <1>1 DEF NewTo
<1>5. ASSUME NEW i \in 1..m, page[i].kind \in Inherited PROVE Chunks(new, i) = Chunks(page, i)
  BY <1>2, <1>3, <1>4, <1>5 DEF Chunks
<1>6. ASSUME NEW i \in (m + 1)..k PROVE Chunks(new, i) = (m + 1)..k
  BY <1>2, <1>3, <1>4, <1>6 DEF Chunks
<1>7. Starts(new) = T \cup {m + 1}
  <2>1. ASSUME NEW i \in 1..m PROVE i \in Starts(new) <=> i \in T
    <3>1. new[i] = page[i] /\ i \in 1..k
      BY <1>2
    <3>2. CASE page[i].kind \in Inherited
      BY <1>1, <1>2, <1>5, <3>1, <3>2 DEF Starts
    <3>3. CASE page[i].kind \notin Inherited
      BY <1>1, <3>1, <3>3 DEF Starts
    <3> QED BY <3>2, <3>3
  <2>2. ASSUME NEW i \in (m + 1)..k PROVE i \in Starts(new) <=> i = m + 1
    <3>1. i \in Starts(new) <=> \A j \in (m + 1)..k : i <= j
      BY <1>2, <1>3, <1>6 DEF Starts
    <3>2. i \in Nat /\ m + 1 \in (m + 1)..k /\ m + 1 <= i
      BY <1>2
    <3> QED BY <1>2, <3>1, <3>2
  <2>3. Starts(new) \subseteq 1..k
    BY <1>2 DEF Starts
  <2>4. m + 1 \in (m + 1)..k
    BY <1>2
  <2>5. \A i \in 1..m : i # m + 1
    BY <1>2
  <2> QED BY <1>2, <2>1, <2>2, <2>3, <2>4, <2>5
<1>8. ASSUME NEW i \in T PROVE Found(new, i) = Found(page, i)
  <2>1. Chunks(new, i) = Chunks(page, i) /\ new[i] = page[i] /\ Chunks(page, i) \subseteq 1..m
    <3>1. i \in 1..m /\ page[i].kind \in Inherited
      BY <1>1, <1>2 DEF Starts
    <3> QED BY <1>2, <1>5, <3>1 DEF Chunks
  <2>2. {new[j].part : j \in Chunks(new, i)} = {page[j].part : j \in Chunks(page, i)}
    BY <1>2, <2>1
  <2> QED BY <2>1, <2>2 DEF Found
<1>9. Found(new, m + 1) = [complete |-> TRUE, record |-> r]
  <2>1. m + 1 \in (m + 1)..k
    BY <1>2
  <2>2. Chunks(new, m + 1) = (m + 1)..k /\ new[m + 1].record = r
    BY <1>3, <1>6, <2>1
  <2>3. {new[j].part : j \in (m + 1)..k} = 1..new[m + 1].parts
    BY <1>1 DEF Whole
  <2> QED BY <2>2, <2>3 DEF Found
<1>10. PICK q, p : q = FoundAt(page) /\ p = FoundAt(new)
  OBVIOUS
<1>11. Reconstruct(page) = Those(q, T) /\ Reconstruct(new) = Those(p, T \cup {m + 1})
  BY <1>1, <1>7, <1>10, ReconstructFound
<1>12. SameAt(p, q, T, m, FoundRecords)
  <2>1. SameAt(q, q, T, m, FoundRecords)
    BY <1>1, <1>10, ReconstructFound
  <2>2. \A i \in T : p[i] = q[i]
    BY <1>1, <1>2, <1>8, <1>10 DEF FoundAt
  <2> QED BY <2>1, <2>2 DEF SameAt
<1>13. p[m + 1] = [complete |-> TRUE, record |-> r]
  BY <1>1, <1>2, <1>9, <1>10 DEF FoundAt
<1>14. p[m + 1] \in FoundRecords
  BY <1>13 DEF FoundRecords
<1>15. Grown(p, q, T, m, FoundRecords)
  BY <1>12, ThoseGrow
<1> QED
  BY <1>11, <1>13, <1>14, <1>15 DEF Grown

LEMMA ReconstructTyped ==
  ASSUME NEW page \in Seq(Evidences)
  PROVE  Reconstruct(page) \in Seq(FoundRecords)
<1>1. PICK q, T, m : q = FoundAt(page) /\ T = Starts(page) /\ m = Len(page)
  OBVIOUS
<1>2. SameAt(q, q, T, m, FoundRecords) /\ Reconstruct(page) = Those(q, T)
  BY <1>1, ReconstructFound
<1>3. Grown(q, q, T, m, FoundRecords)
  BY <1>2, ThoseGrow
<1> QED
  BY <1>2, <1>3 DEF Grown

------------------------------------------------------------------------------
(* The history of a session, event by event. *)

LEMMA OwnHistoryTyped ==
  ASSUME LogsOK, NEW s \in Sessions, NEW n \in 0..Len(log[s])
  PROVE  OwnHistory(s, n) \in Seq(FoundRecords)
<1>1. n \in Nat /\ log[s] \in Seq(Evidences) /\ Len(log[s]) \in Nat
  BY DEF LogsOK
<1>2. PICK q, T : q = [i \in 1..n |-> [complete |-> TRUE, record |-> Rec(s, i, log[s][i])]] /\ T = OwnPositions(s, n)
  OBVIOUS
<1>3. ASSUME NEW i \in T PROVE q[i] \in FoundRecords
  <2>1. i \in 1..n /\ i \in Nat /\ i \in 1..Len(log[s]) /\ log[s][i].kind \notin Inherited
    BY <1>1, <1>2 DEF OwnPositions
  <2>2. log[s][i] \in Originals
    BY <1>1, <2>1, OriginalTyped
  <2>3. Rec(s, i, log[s][i]) \in Recs
    BY <2>1, <2>2 DEF Rec, Recs
  <2> QED BY <1>2, <2>1, <2>3 DEF FoundRecords
<1>4. SameAt(q, q, T, n, FoundRecords)
  BY <1>1, <1>2, <1>3 DEF SameAt, OwnPositions
<1>5. Grown(q, q, T, n, FoundRecords)
  BY <1>4, ThoseGrow
<1> QED
  BY <1>2, <1>5 DEF Grown, OwnHistory

LEMMA HistoryTyped ==
  ASSUME LogsOK, NEW s \in Sessions, NEW n \in 0..Len(log[s])
  PROVE  History(s, n) \in Seq(FoundRecords)
<1>1. SubSeq(log[s], 1, n) \in Seq(Evidences)
  BY HistoryIs
<1>2. PICK a, b : a = Reconstruct(SubSeq(log[s], 1, n)) /\ b = OwnHistory(s, n)
  OBVIOUS
<1>3. a \in Seq(FoundRecords) /\ b \in Seq(FoundRecords)
  BY <1>1, <1>2, ReconstructTyped, OwnHistoryTyped
<1>4. History(s, n) = a \o b
  BY <1>2, HistoryIs
<1> QED
  BY <1>3, <1>4, ConcatProperties

\* As long as everything is inherited, the history is what was inherited.
LEMMA HistoryBegins ==
  ASSUME LogsOK, NEW s \in Sessions, NEW n \in 0..Len(log[s]), \A i \in 1..n : log[s][i].kind \in Inherited
  PROVE  History(s, n) = Reconstruct(SubSeq(log[s], 1, n))
<1>1. OwnPositions(s, n) = {}
  BY DEF OwnPositions
<1>2. Cardinality(OwnPositions(s, n)) = 0
  BY <1>1, FS_EmptySet
<1>3. PICK b : b = OwnHistory(s, n)
  OBVIOUS
<1>4. b \in Seq(FoundRecords) /\ Len(b) = 0
  <2>1. b \in Seq(FoundRecords)
    BY <1>3, OwnHistoryTyped
  <2>2. PICK q : q = [i \in 1..n |-> [complete |-> TRUE, record |-> Rec(s, i, log[s][i])]]
    OBVIOUS
  <2>3. b = [k \in 1..0 |-> q[Nth(OwnPositions(s, n), k)]]
    BY <1>2, <1>3, <2>2 DEF OwnHistory, Those
  <2> QED BY <2>1, <2>3
<1>5. b = <<>>
  BY <1>4, EmptySeq
<1>6. PICK a : a = Reconstruct(SubSeq(log[s], 1, n))
  OBVIOUS
<1>7. a \in Seq(FoundRecords)
  <2>1. SubSeq(log[s], 1, n) \in Seq(Evidences)
    BY HistoryIs
  <2> QED BY <1>6, <2>1, ReconstructTyped
<1>8. History(s, n) = a \o b
  BY <1>3, <1>6, HistoryIs
<1> QED
  BY <1>5, <1>6, <1>7, <1>8, ConcatEmptySeq

\* An event of its own is the next record of the history.
LEMMA HistoryNext ==
  ASSUME LogsOK, NEW s \in Sessions, NEW n \in 1..Len(log[s]), log[s][n].kind \notin Inherited
  PROVE  History(s, n) = Append(History(s, n - 1), [complete |-> TRUE, record |-> Rec(s, n, log[s][n])])
<1>1. /\ n \in Nat /\ n \in 0..Len(log[s]) /\ n - 1 \in 0..Len(log[s]) /\ n - 1 \in Nat
      /\ Len(log[s]) \in Nat /\ log[s] \in Seq(Evidences) /\ log[s][n] \in Evidences
  BY DEF LogsOK
<1>2. PICK l, e, x : l = log[s] /\ e = log[s][n] /\ x = [complete |-> TRUE, record |-> Rec(s, n, e)]
  OBVIOUS
<1>3. x \in FoundRecords
  <2>1. e \in Originals
    BY <1>1, <1>2, OriginalTyped
  <2> QED BY <1>1, <1>2, <2>1 DEF FoundRecords, Rec, Recs
<1>4. Reconstruct(SubSeq(l, 1, n)) = Reconstruct(SubSeq(l, 1, n - 1))
  <2>1. PICK a, b : a = SubSeq(l, 1, n - 1) /\ b = SubSeq(l, 1, n)
    OBVIOUS
  <2>2. /\ a \in Seq(Evidences) /\ Len(a) = n - 1 /\ \A i \in 1..(n - 1) : a[i] = l[i]
    BY <1>1, <1>2, <2>1, HistoryIs
  <2>3. /\ b \in Seq(Evidences) /\ Len(b) = n /\ \A i \in 1..n : b[i] = l[i]
    BY <1>1, <1>2, <2>1, HistoryIs
  <2>4. b = Append(a, e)
    <3>1. PICK d : d = Append(a, e)
      OBVIOUS
    <3>2. d \in Seq(Evidences) /\ Len(d) = n /\ d[n] = e /\ \A i \in 1..(n - 1) : d[i] = l[i]
      BY <1>1, <1>2, <2>2, <3>1
    <3>3. \A i \in 1..n : i \in 1..(n - 1) \/ i = n
      BY <1>1
    <3>4. \A i \in 1..n : b[i] = d[i]
      BY <1>2, <2>3, <3>2, <3>3
    <3> QED BY <2>3, <3>1, <3>2, <3>4, SeqEqual
  <2>5. Reconstruct(Append(a, e)) = Reconstruct(a)
    BY <1>1, <1>2, <2>2, OwnIsNotFound
  <2> QED BY <2>1, <2>4, <2>5
<1>5. OwnHistory(s, n) = Append(OwnHistory(s, n - 1), x)
  <2>1. PICK q, p, T, m : /\ q = [i \in 1..(n - 1) |-> [complete |-> TRUE, record |-> Rec(s, i, log[s][i])]]
                          /\ p = [i \in 1..n |-> [complete |-> TRUE, record |-> Rec(s, i, log[s][i])]]
                          /\ T = OwnPositions(s, n - 1) /\ m = n - 1
    OBVIOUS
  <2>2. OwnPositions(s, n) = T \cup {m + 1} /\ T \subseteq 1..m /\ m + 1 = n /\ m \in Nat
    BY <1>1, <2>1 DEF OwnPositions
  <2>3. ASSUME NEW i \in T PROVE q[i] \in FoundRecords /\ p[i] = q[i]
    <3>1. i \in 1..(n - 1) /\ i \in 1..n /\ i \in Nat /\ i \in 1..Len(log[s]) /\ log[s][i].kind \notin Inherited
      BY <1>1, <2>1 DEF OwnPositions
    <3>2. log[s][i] \in Originals
      BY <1>1, <3>1, OriginalTyped
    <3>3. Rec(s, i, log[s][i]) \in Recs
      BY <3>1, <3>2 DEF Rec, Recs
    <3> QED BY <2>1, <3>1, <3>3 DEF FoundRecords
  <2>4. SameAt(p, q, T, m, FoundRecords)
    BY <2>2, <2>3 DEF SameAt
  <2>5. Grown(p, q, T, m, FoundRecords)
    BY <2>4, ThoseGrow
  <2>6. p[m + 1] = x
    BY <1>1, <1>2, <2>1, <2>2
  <2>7. Those(p, T \cup {m + 1}) = Append(Those(q, T), x)
    BY <1>3, <2>5, <2>6 DEF Grown
  <2> QED BY <2>1, <2>2, <2>7 DEF OwnHistory
<1>6. PICK a, b : a = Reconstruct(SubSeq(l, 1, n - 1)) /\ b = OwnHistory(s, n - 1)
  OBVIOUS
<1>7. a \in Seq(FoundRecords) /\ b \in Seq(FoundRecords)
  <2>1. SubSeq(l, 1, n - 1) \in Seq(Evidences)
    BY <1>1, <1>2, HistoryIs
  <2> QED BY <1>1, <1>6, <2>1, ReconstructTyped, OwnHistoryTyped
<1>8. a \o Append(b, x) = Append(a \o b, x)
  BY <1>3, <1>7
<1>9. History(s, n) = Reconstruct(SubSeq(l, 1, n)) \o OwnHistory(s, n)
  BY <1>1, <1>2, HistoryIs
<1>10. History(s, n - 1) = a \o b
  BY <1>1, <1>2, <1>6, HistoryIs
<1> QED
  BY <1>2, <1>4, <1>5, <1>6, <1>8, <1>9, <1>10

------------------------------------------------------------------------------
(* What a reader finds of a history that is inherited event by event. *)

Visible(who) == {e \in Evidences : MayRead(who, e)}
VisibleRecords(who) == {x \in FoundRecords : MayRead(who, x.record.event)}
\* A log that inherits history h tells the reader the records it may read.
Told(who, l, h) == Reconstruct(Kept(l, Visible(who))) = Kept(h, VisibleRecords(who))

\* An event is inherited whole, for the audience it was recorded for.
Carries(q, r) ==
  /\ q \in Seq(Evidences) /\ Len(q) \in {1, 2}
  /\ \A j \in 1..Len(q) : q[j] \in Wraps /\ q[j].kind \in Inherited /\ q[j].record = r /\ q[j].audience = r.event.audience
  /\ {q[j].part : j \in 1..Len(q)} = 1..q[1].parts
LEMMA InheritCarries ==
  ASSUME LogsOK, NEW s \in Sessions, NEW i \in 1..Len(log[s]), log[s][i].kind \notin Inherited
  PROVE  Rec(s, i, log[s][i]) \in Recs /\ Carries(Inherit(s, i), Rec(s, i, log[s][i]))
<1>1. PICK e, r : e = log[s][i] /\ r = Rec(s, i, e)
  OBVIOUS
<1>2. e \in Originals /\ i \in Nat
  BY <1>1, OriginalTyped DEF LogsOK
<1>3. r \in Recs /\ r.event = e /\ e.audience \in Named
  BY <1>1, <1>2 DEF Rec, Recs, Originals
<1>4. ASSUME NEW n \in Nat, NEW m \in Nat
      PROVE  /\ Wrapped(r, n, m) \in Wraps /\ Wrapped(r, n, m).kind \in Inherited
             /\ Wrapped(r, n, m).record = r /\ Wrapped(r, n, m).audience = r.event.audience
             /\ Wrapped(r, n, m).part = n /\ Wrapped(r, n, m).parts = m
  BY <1>3 DEF Wrapped, Wraps, Inherited
<1>5. CASE e.large
  <2>1. PICK q : q = Inherit(s, i)
    OBVIOUS
  <2>2. q = [n \in 1..2 |-> Wrapped(r, n, 2)]
    BY <1>1, <1>5, <2>1 DEF Inherit, Parts
  <2>3. \A n \in 1..2 : q[n] = Wrapped(r, n, 2) /\ q[n] \in Evidences
    BY <1>4, <2>2 DEF Evidences
  <2>4. q \in Seq(Evidences) /\ Len(q) = 2
    BY <2>2, <2>3
  <2>5. \A n \in 1..2 : q[n].part = n /\ q[n].parts = 2
    BY <1>4, <2>3
  <2>6. {q[j].part : j \in 1..2} = 1..q[1].parts
    BY <2>5
  <2> QED BY <1>1, <1>3, <1>4, <2>1, <2>3, <2>4, <2>6 DEF Carries
<1>6. CASE ~e.large
  <2>1. PICK q, w : q = Inherit(s, i) /\ w = Wrapped(r, 1, 1)
    OBVIOUS
  <2>2. q = <<w>>
    BY <1>1, <1>6, <2>1 DEF Inherit
  <2>3. w \in Evidences
    BY <1>4, <2>1 DEF Evidences
  <2>4. q \in Seq(Evidences) /\ Len(q) = 1 /\ q[1] = w
    BY <2>2, <2>3
  <2>5. {q[j].part : j \in 1..1} = 1..q[1].parts
    BY <1>4, <2>1, <2>4
  <2> QED BY <1>1, <1>3, <1>4, <2>1, <2>4, <2>5 DEF Carries
<1> QED
  BY <1>5, <1>6

\* All of a short tail is kept, or none.
LEMMA KeptTail ==
  ASSUME NEW Q, NEW l \in Seq(Q), NEW q \in Seq(Q), Len(q) \in {1, 2}, NEW K
  PROVE  /\ (\A j \in 1..Len(q) : q[j] \in K) => Kept(l \o q, K) = Kept(l, K) \o q
         /\ (\A j \in 1..Len(q) : q[j] \notin K) => Kept(l \o q, K) = Kept(l, K)
<1>1. PICK a : a = Kept(l, K)
  OBVIOUS
<1>2. a \in Seq(Q)
  <2>1. a \in Seq(Q \cap K)
    BY <1>1, KeptTyped
  <2> QED BY <2>1, SeqMonotonic
<1>3. CASE Len(q) = 1
  <2>1. PICK x \in Q : q = <<x>>
    <3>1. q = <<q[1]>> /\ q[1] \in Q
      BY <1>3
    <3> QED BY <3>1
  <2>2. q[1] = x /\ l \o q = Append(l, x) /\ a \o q = Append(a, x)
    BY <1>2, <2>1
  <2>3. AppendKept(l, x, K)
    BY KeptAppend
  <2> QED BY <1>1, <1>3, <2>2, <2>3 DEF AppendKept
<1>4. CASE Len(q) = 2
  <2>1. PICK x \in Q, y \in Q : q = <<x, y>>
    <3>1. q = <<q[1], q[2]>> /\ q[1] \in Q /\ q[2] \in Q
      BY <1>4
    <3> QED BY <3>1
  <2>2. PICK d : d = Append(l, x)
    OBVIOUS
  <2>3. q[1] = x /\ q[2] = y /\ d \in Seq(Q) /\ l \o q = Append(d, y) /\ a \o q = Append(Append(a, x), y)
    BY <1>2, <2>1, <2>2
  <2>4. AppendKept(l, x, K) /\ AppendKept(d, y, K)
    BY <2>3, KeptAppend
  <2>5. 1 \in 1..Len(q) /\ 2 \in 1..Len(q)
    BY <1>4
  <2> QED BY <1>1, <2>2, <2>3, <2>4, <2>5 DEF AppendKept
<1> QED
  BY <1>3, <1>4

LEMMA FreshIsKept ==
  ASSUME NEW l \in Seq(Evidences), NEW r, NewTo(l, r), NEW K
  PROVE  Kept(l, K) \in Seq(Evidences) /\ NewTo(Kept(l, K), r)
<1>1. PICK Q : Q = {e \in Evidences : e.kind \in Inherited => e.record # r}
  OBVIOUS
<1>2. \A i \in 1..Len(l) : l[i] \in Q
  BY <1>1 DEF NewTo
<1>3. l \in Seq(Q)
  BY <1>2
<1>4. PICK a : a = Kept(l, K)
  OBVIOUS
<1>5. a \in Seq(Q \cap K)
  BY <1>3, <1>4, KeptTyped
<1>6. Q \cap K \subseteq Evidences /\ \A e \in Q \cap K : e.kind \in Inherited => e.record # r
  BY <1>1
<1>7. a \in Seq(Evidences)
  BY <1>5, <1>6, SeqMonotonic
<1>8. \A i \in 1..Len(a) : a[i] \in Q \cap K
  BY <1>5
<1> QED
  BY <1>4, <1>6, <1>7, <1>8 DEF NewTo

LEMMA ToldNext ==
  ASSUME NEW who, NEW l \in Seq(Evidences), NEW h \in Seq(FoundRecords), Told(who, l, h),
         NEW r \in Recs, NEW q, Carries(q, r), NewTo(l, r)
  PROVE  Told(who, l \o q, Append(h, [complete |-> TRUE, record |-> r]))
<1>1. PICK x, K, V : x = [complete |-> TRUE, record |-> r] /\ K = Visible(who) /\ V = VisibleRecords(who)
  OBVIOUS
<1>2. x \in FoundRecords /\ x.record = r
  BY <1>1 DEF FoundRecords
<1>3. q \in Seq(Evidences) /\ Len(q) \in {1, 2}
  BY DEF Carries
<1>4. \A j \in 1..Len(q) : q[j] \in Evidences /\ q[j].audience = r.event.audience
  BY <1>3 DEF Carries
<1>5. AppendKept(h, x, V)
  BY <1>2, KeptAppend
<1>6. CASE MayRead(who, r.event)
  <2>1. \A j \in 1..Len(q) : q[j] \in K
    BY <1>1, <1>4, <1>6 DEF Visible, MayRead
  <2>2. PICK page, new : page = Kept(l, K) /\ new = page \o q
    OBVIOUS
  <2>3. Kept(l \o q, K) = new
    BY <1>3, <2>1, <2>2, KeptTail
  <2>4. page \in Seq(Evidences) /\ NewTo(page, r)
    BY <2>2, FreshIsKept
  <2>5. PICK m, k : m = Len(page) /\ k = Len(q)
    OBVIOUS
  <2>6. /\ new \in Seq(Evidences) /\ Len(new) = m + k /\ m \in Nat /\ k \in Nat /\ k # 0
        /\ (\A j \in 1..m : new[j] = page[j]) /\ \A j \in 1..k : new[m + j] = q[j]
    <3>1. m \in Nat /\ k \in {1, 2}
      BY <1>3, <2>4, <2>5
    <3>2. /\ new \in Seq(Evidences) /\ Len(new) = m + k
          /\ \A j \in 1..(m + k) : new[j] = IF j <= m THEN page[j] ELSE q[j - m]
      BY <1>3, <2>2, <2>4, <2>5, ConcatProperties
    <3>3. \A j \in 1..m : j \in 1..(m + k) /\ j <= m
      BY <3>1
    <3>4. \A j \in 1..k : m + j \in 1..(m + k) /\ ~(m + j <= m) /\ (m + j) - m = j
      BY <3>1
    <3> QED BY <3>1, <3>2, <3>3, <3>4
  <2>7. Extended(page, new)
    BY <2>5, <2>6 DEF Extended
  <2>8. Whole(new, m, r)
    <3>1. \A j \in (m + 1)..(m + k) : j - m \in 1..k /\ new[j] = q[j - m]
      <4>1. \A j \in (m + 1)..(m + k) : j - m \in 1..k /\ m + (j - m) = j
        BY <2>6
      <4> QED BY <2>6, <4>1
    <3>2. \A j \in (m + 1)..(m + k) : new[j].kind \in Inherited /\ new[j].record = r
      BY <2>5, <3>1 DEF Carries
    <3>3. m + 1 \in 1..(m + k) /\ m + 1 \in (m + 1)..(m + k) /\ new[m + 1] = q[1]
      <4>1. 1 \in 1..k
        BY <2>6
      <4> QED BY <2>6, <4>1
    <3>4. {new[j].part : j \in (m + 1)..(m + k)} = {q[j].part : j \in 1..k}
      <4>1. \A j \in 1..k : m + j \in (m + 1)..(m + k)
        BY <2>6
      <4> QED BY <2>6, <3>1, <4>1
    <3>5. {q[j].part : j \in 1..k} = 1..q[1].parts
      BY <2>5 DEF Carries
    <3> QED BY <2>6, <3>2, <3>3, <3>4, <3>5 DEF Whole
  <2>9. Reconstruct(new) = Append(Reconstruct(page), x)
    BY <1>1, <2>4, <2>5, <2>6, <2>7, <2>8, WholeIsFound
  <2>10. x \in V
    BY <1>1, <1>2, <1>6 DEF VisibleRecords
  <2>11. Kept(Append(h, x), V) = Append(Kept(h, V), x)
    BY <1>5, <2>10 DEF AppendKept
  <2>12. Reconstruct(page) = Kept(h, V)
    BY <1>1, <2>2 DEF Told
  <2> QED BY <1>1, <2>3, <2>9, <2>11, <2>12 DEF Told
<1>7. CASE ~MayRead(who, r.event)
  <2>1. \A j \in 1..Len(q) : q[j] \notin K
    BY <1>1, <1>4, <1>7 DEF Visible, MayRead
  <2>2. Kept(l \o q, K) = Kept(l, K)
    BY <1>3, <2>1, KeptTail
  <2>3. x \notin V
    BY <1>1, <1>2, <1>7 DEF VisibleRecords
  <2>4. Kept(Append(h, x), V) = Kept(h, V)
    BY <1>5, <2>3 DEF AppendKept
  <2>5. Reconstruct(Kept(l, K)) = Kept(h, V)
    BY <1>1 DEF Told
  <2> QED BY <1>1, <2>2, <2>4, <2>5 DEF Told
<1> QED
  BY <1>6, <1>7

LEMMA ToldStays ==
  ASSUME NEW who, NEW l \in Seq(Evidences), NEW h, Told(who, l, h), NEW e \in Evidences, e.kind \notin Inherited
  PROVE  Told(who, Append(l, e), h)
<1>1. PICK K, a : K = Visible(who) /\ a = Kept(l, K)
  OBVIOUS
<1>2. a \in Seq(Evidences)
  <2>1. a \in Seq(Evidences \cap K)
    BY <1>1, KeptTyped
  <2> QED BY <2>1, SeqMonotonic
<1>3. AppendKept(l, e, K)
  BY KeptAppend
<1>4. Kept(Append(l, e), K) = a \/ Kept(Append(l, e), K) = Append(a, e)
  BY <1>1, <1>3 DEF AppendKept
<1>5. Reconstruct(Append(a, e)) = Reconstruct(a)
  BY <1>2, OwnIsNotFound
<1> QED
  BY <1>1, <1>4, <1>5 DEF Told

\* The evaluator reads everything.
LEMMA KeptAll ==
  ASSUME NEW Q, NEW l \in Seq(Q), NEW K, \A x \in Q : x \in K
  PROVE  Kept(l, K) = l
<1>1. {i \in DOMAIN l : l[i] \in K} = 1..Len(l)
  OBVIOUS
<1> QED
  BY <1>1, ThoseAll DEF Kept
LEMMA EvaluatorTold ==
  ASSUME NEW l \in Seq(Evidences), NEW h \in Seq(FoundRecords), Told(Evaluator, l, h)
  PROVE  Reconstruct(l) = h
<1>1. \A e \in Evidences : e \in Visible(Evaluator)
  BY DEF Visible, MayRead
<1>2. \A x \in FoundRecords : x \in VisibleRecords(Evaluator)
  BY DEF VisibleRecords, MayRead
<1>3. Kept(l, Visible(Evaluator)) = l /\ Kept(h, VisibleRecords(Evaluator)) = h
  BY <1>1, <1>2, KeptAll
<1> QED
  BY <1>3 DEF Told

LEMMA PrefixNext ==
  ASSUME NEW Q, NEW l \in Seq(Q), NEW n \in 1..Len(l)
  PROVE  SubSeq(l, 1, n - 1) \in Seq(Q) /\ SubSeq(l, 1, n) = SubSeq(l, 1, n - 1) \o <<l[n]>>
<1>1. n \in Nat /\ n - 1 \in Nat /\ Len(l) \in Nat /\ n - 1 <= Len(l) /\ n <= Len(l)
  OBVIOUS
<1>2. \A k \in Nat : k <= Len(l) => \A i \in 1..k : l[i] \in Q
  OBVIOUS
<1>3. PICK a, b, x : a = SubSeq(l, 1, n - 1) /\ b = SubSeq(l, 1, n) /\ x = l[n]
  OBVIOUS
<1>4. a \in Seq(Q) /\ Len(a) = n - 1 /\ \A i \in 1..(n - 1) : a[i] = l[i]
  BY <1>1, <1>2, <1>3
<1>5. b \in Seq(Q) /\ Len(b) = n /\ \A i \in 1..n : b[i] = l[i]
  BY <1>1, <1>2, <1>3
<1>6. x \in Q
  BY <1>3
<1>7. PICK d : d = a \o <<x>>
  OBVIOUS
<1>8. d \in Seq(Q) /\ Len(d) = n /\ d[n] = x /\ \A i \in 1..(n - 1) : d[i] = l[i]
  BY <1>1, <1>4, <1>6, <1>7
<1>9. \A i \in 1..n : i \in 1..(n - 1) \/ i = n
  BY <1>1
<1>10. \A i \in 1..n : b[i] = d[i]
  BY <1>3, <1>5, <1>8, <1>9
<1>11. b = d
  BY <1>5, <1>8, <1>10, SeqEqual
<1> QED
  BY <1>3, <1>4, <1>7, <1>11

\* The log of a session begins with what it inherits.
InheritsFirst(s, b) ==
  /\ b \in 0..Len(log[s])
  /\ \A i \in 1..b : /\ log[s][i].kind \in Inherited /\ log[s][i].record.session # s
                     /\ Born(log[s][i].record.session)
  /\ \A i \in (b + 1)..Len(log[s]) : log[s][i].kind \notin Inherited
  /\ \A who \in Participants \cup {Evaluator} :
       Told(who, SubSeq(log[s], 1, b), Reconstruct(SubSeq(log[s], 1, b)))

Older(s, i) ==
  {e \in Wraps : e.kind \in Inherited /\ Born(e.record.session) /\ (e.record.session # s \/ e.record.seq <= i)}
\* What a child inherits of the first n events of s.
Bequeathed(s, n) == FlattenSeq([i \in 1..n |-> Inherit(s, i)])
LEMMA ChildTold ==
  ASSUME LogsOK, NEW s \in Sessions, Born(s), NEW n \in 0..Len(log[s]), NEW b, InheritsFirst(s, b), b <= n
  PROVE  /\ Bequeathed(s, n) \in Seq(Older(s, n))
         /\ \A who \in Participants \cup {Evaluator} : Told(who, Bequeathed(s, n), History(s, n))
<1>1. /\ n \in Nat /\ Len(log[s]) \in Nat /\ log[s] \in Seq(Evidences) /\ b \in Nat /\ b \in 0..Len(log[s])
      /\ \A i \in 1..n : i \in 1..Len(log[s])
  BY DEF LogsOK, InheritsFirst
<1>2. PICK seqs : seqs = [i \in 1..n |-> Inherit(s, i)]
  OBVIOUS
<1>3. \A i \in 1..n : seqs[i] = Inherit(s, i) /\ seqs[i] \in Seq(Evidences)
  BY <1>1, <1>2, InheritTyped
<1>4. PICK g : Joins(Evidences, g, n, seqs)
  BY <1>1, <1>3, JoinsExist
<1>5. (\A i \in 0..n : g[i] \in Seq(Evidences)) /\ g[0] = <<>> /\ \A i \in 1..n : g[i] = g[i - 1] \o Inherit(s, i)
  BY <1>3, <1>4 DEF Joins
<1>6. Bequeathed(s, n) = g[n]
  <2>1. Len(seqs) = n
    BY <1>1, <1>2
  <2>2. CASE n = 0
    <3>1. FlattenSeq(seqs) = seqs
      BY <2>1, <2>2 DEF FlattenSeq
    <3>2. seqs = <<>>
      BY <1>2, <2>1, <2>2
    <3> QED BY <1>2, <1>5, <2>2, <3>1, <3>2 DEF Bequeathed
  <2>3. CASE n # 0
    <3>1. \A i \in 1..n : seqs[i] \in Seq(Evidences)
      BY <1>3
    <3>2. FlattenSeq(seqs) = g[n]
      BY <1>1, <1>4, <2>1, <2>3, <3>1, FlattenIsJoined
    <3> QED BY <1>2, <3>2 DEF Bequeathed
  <2> QED BY <2>2, <2>3
<1>7. \A i \in 0..b : g[i] = SubSeq(log[s], 1, i)
  <2> DEFINE S == {i \in 0..b : g[i] = SubSeq(log[s], 1, i)}
  <2>1. 0 \in S
    BY <1>1, <1>5
  <2>2. ASSUME NEW i \in 1..b, i - 1 \in S PROVE i \in S
    <3>1. i \in 1..n /\ i \in 1..Len(log[s]) /\ log[s][i].kind \in Inherited
      BY <1>1 DEF InheritsFirst
    <3>2. Inherit(s, i) = <<log[s][i]>>
      BY <3>1 DEF Inherit
    <3>3. SubSeq(log[s], 1, i) = SubSeq(log[s], 1, i - 1) \o <<log[s][i]>>
      BY <1>1, <3>1, PrefixNext
    <3>4. g[i - 1] = SubSeq(log[s], 1, i - 1)
      BY <2>2
    <3>5. g[i] = g[i - 1] \o Inherit(s, i)
      BY <1>5, <3>1
    <3>6. g[i] = SubSeq(log[s], 1, i)
      BY <3>2, <3>3, <3>4, <3>5, Zenon
    <3> QED BY <3>6
  <2>3. \A i \in 0..b : i \in S
    <3> HIDE DEF S
    <3> QED BY <1>1, <2>1, <2>2, Climbing
  <2> QED BY <2>3
<1> DEFINE P(i) == /\ g[i] \in Seq(Older(s, i))
                   /\ \A who \in Participants \cup {Evaluator} : Told(who, g[i], History(s, i))
<1>8. P(b)
  <2>1. b \in 0..b /\ g[b] = SubSeq(log[s], 1, b)
    BY <1>1, <1>7
  <2>2. \A i \in 1..b : log[s][i].kind \in Inherited
    BY DEF InheritsFirst
  <2>3. History(s, b) = Reconstruct(SubSeq(log[s], 1, b))
    BY <1>1, <2>2, HistoryBegins
  <2>4. \A i \in 1..b : log[s][i] \in Older(s, b)
    <3> SUFFICES ASSUME NEW i \in 1..b PROVE log[s][i] \in Older(s, b)
      OBVIOUS
    <3>1. log[s][i] \in Evidences /\ log[s][i].kind \in Inherited
      BY <1>1, <2>2
    <3>2. log[s][i] \in Wraps
      BY <3>1 DEF Evidences, Originals, Kinds, Inherited
    <3> QED BY <3>2 DEF Older, InheritsFirst
  <2>5. Len(g[b]) = b /\ g[b] \in Seq(Evidences) /\ \A i \in 1..b : g[b][i] = log[s][i]
    BY <1>1, <2>1, HistoryIs
  <2>6. g[b] \in Seq(Older(s, b))
    BY <2>4, <2>5
  <2> QED BY <2>1, <2>3, <2>6 DEF InheritsFirst
<1>9. ASSUME NEW i \in 1..n, b < i, P(i - 1) PROVE P(i)
  <2>1. i \in 1..Len(log[s]) /\ i \in (b + 1)..Len(log[s]) /\ i \in Nat /\ i - 1 \in 0..Len(log[s]) /\ i - 1 \in 0..n
    BY <1>1, <1>9
  <2>2. log[s][i].kind \notin Inherited
    BY <2>1 DEF InheritsFirst
  <2>3. PICK r, q, l, h : r = Rec(s, i, log[s][i]) /\ q = Inherit(s, i) /\ l = g[i - 1] /\ h = History(s, i - 1)
    OBVIOUS
  <2>4. r \in Recs /\ Carries(q, r) /\ r.session = s /\ r.seq = i
    BY <2>1, <2>2, <2>3, InheritCarries DEF Rec
  <2>5. l \in Seq(Evidences) /\ l \in Seq(Older(s, i - 1)) /\ h \in Seq(FoundRecords) /\ g[i] = l \o q
    BY <1>5, <1>9, <2>1, <2>3, HistoryTyped
  <2>6. NewTo(l, r)
    <3>1. \A e \in Older(s, i - 1) : e.record # r
      BY <2>1, <2>4 DEF Older
    <3>2. \A j \in 1..Len(l) : l[j] \in Older(s, i - 1)
      BY <2>5
    <3> QED BY <3>1, <3>2 DEF NewTo
  <2>7. History(s, i) = Append(h, [complete |-> TRUE, record |-> r])
    BY <2>1, <2>2, <2>3, HistoryNext
  <2>8. ASSUME NEW who \in Participants \cup {Evaluator} PROVE Told(who, g[i], History(s, i))
    <3>1. Told(who, l, h)
      BY <1>9, <2>3
    <3>2. Told(who, l \o q, Append(h, [complete |-> TRUE, record |-> r]))
      BY <2>4, <2>5, <2>6, <3>1, ToldNext
    <3> QED BY <2>5, <2>7, <3>2
  <2>9. g[i] \in Seq(Older(s, i))
    <3>1. Older(s, i - 1) \subseteq Older(s, i)
      <4>1. \A e \in Wraps : e.record.seq \in Nat
        BY DEF Wraps, Recs
      <4>2. \A k \in Nat : k <= i - 1 => k <= i
        BY <2>1
      <4> QED BY <4>1, <4>2 DEF Older
    <3>2. l \in Seq(Older(s, i))
      BY <2>5, <3>1, SeqMonotonic
    <3>3. q \in Seq(Older(s, i))
      <4>1. q \in Seq(Evidences) /\ \A j \in 1..Len(q) : q[j] \in Wraps /\ q[j].kind \in Inherited /\ q[j].record = r
        BY <2>4 DEF Carries
      <4>2. \A j \in 1..Len(q) : q[j] \in Older(s, i)
        BY <2>1, <2>4, <4>1 DEF Older
      <4> QED BY <4>1, <4>2
    <3> QED BY <2>5, <3>2, <3>3, ConcatProperties
  <2> QED BY <2>8, <2>9
<1>10. P(n)
  <2> DEFINE S == {i \in 0..n : b <= i => P(i)}
  <2>1. 0 \in S
    <3>1. b <= 0 => b = 0
      BY <1>1
    <3> QED BY <1>8, <3>1
  <2>2. ASSUME NEW i \in 1..n, i - 1 \in S PROVE i \in S
    <3>1. b <= i => b = i \/ (b < i /\ b <= i - 1)
      BY <1>1
    <3> HIDE DEF P
    <3> QED BY <1>8, <1>9, <2>2, <3>1
  <2>3. \A i \in 0..n : i \in S
    <3> HIDE DEF S
    <3> QED BY <1>1, <2>1, <2>2, Climbing
  <2>4. n \in S
    BY <1>1, <2>3
  <2> HIDE DEF P
  <2> QED BY <2>4
<1> QED
  BY <1>6, <1>10

------------------------------------------------------------------------------
(* A branch inherits the history of its parent. *)

LineageOf(s) ==
  parent[s] # Absent =>
    \A who \in Participants \cup {Evaluator} : Told(who, log[s], History(parent[s], base[s].cursor))
OwnAfter(s, n) == \A i \in (n + 1)..Len(log[s]) : log[s][i].kind \notin Inherited
LineageInv ==
  /\ \A s \in Sessions : LineageOf(s)
  /\ \A s \in Sessions : Born(s) => \E b : InheritsFirst(s, b)
  /\ \A cp \in checkpoints : OwnAfter(cp.session, cp.cursor)

LEMMA LineageInvTells == EvidenceInv /\ LineageInv => LineageIsExact
<1> SUFFICES ASSUME EvidenceInv, LineageInv, NEW s \in Sessions, NEW who \in Participants \cup {Evaluator},
                    parent[s] # Absent
             PROVE  LET h == History(parent[s], base[s].cursor) IN
                    Reconstruct(Those(log[s], {i \in DOMAIN log[s] : MayRead(who, log[s][i])}))
                      = Those(h, {i \in DOMAIN h : MayRead(who, h[i].record.event)})
  BY DEF LineageIsExact
<1>1. PICK p, n : p = parent[s] /\ n = base[s].cursor
  OBVIOUS
<1>2. LogsOK /\ p \in Sessions /\ n \in 0..Len(log[p])
  <2>1. p \in Sessions /\ base[s] \in checkpoints /\ base[s].session = p
    BY <1>1 DEF EvidenceInv, RowsOK
  <2>2. n \in Nat /\ n <= Len(log[p])
    BY <1>1, <2>1 DEF EvidenceInv, RowsOK, Cuts
  <2>3. Len(log[p]) \in Nat
    BY <2>1 DEF EvidenceInv, LogsOK
  <2> QED BY <2>1, <2>2, <2>3 DEF EvidenceInv
<1>3. PICK l, h : l = log[s] /\ h = History(p, n)
  OBVIOUS
<1>4. l \in Seq(Evidences) /\ h \in Seq(FoundRecords)
  BY <1>2, <1>3, HistoryTyped DEF LogsOK
<1>5. Told(who, l, h)
  BY <1>1, <1>3 DEF LineageInv, LineageOf
<1>6. {i \in DOMAIN l : l[i] \in Visible(who)} = {i \in DOMAIN l : MayRead(who, l[i])}
  BY <1>4 DEF Visible
<1>7. {i \in DOMAIN h : h[i] \in VisibleRecords(who)} = {i \in DOMAIN h : MayRead(who, h[i].record.event)}
  BY <1>4 DEF VisibleRecords
<1> QED
  BY <1>1, <1>3, <1>5, <1>6, <1>7 DEF Told, Kept

\* The history up to an event is the same for good.
LEMMA HistoryStays ==
  ASSUME LogsOK, LogsOK', LogsGrow, NEW s \in Sessions, NEW n \in 0..Len(log[s])
  PROVE  /\ History(s, n)' = History(s, n) /\ n \in 0..Len(log'[s])
         /\ SubSeq(log'[s], 1, n) = SubSeq(log[s], 1, n)
<1>1. PICK l, k : l = log[s] /\ k = log'[s]
  OBVIOUS
<1>2. /\ l \in Seq(Evidences) /\ k \in Seq(Evidences) /\ Len(l) \in Nat /\ Len(k) \in Nat /\ n \in Nat
      /\ n <= Len(l) /\ n <= Len(k) /\ \A i \in 1..n : k[i] = l[i]
  <2>1. Len(l) \in Nat /\ Len(k) \in Nat /\ Len(l) <= Len(k) /\ \A i \in 1..Len(l) : k[i] = l[i]
    BY <1>1, LogsLonger
  <2>2. l \in Seq(Evidences) /\ k \in Seq(Evidences)
    BY <1>1 DEF LogsOK
  <2>3. n \in Nat /\ n <= Len(l)
    BY <1>1, <2>1
  <2>4. \A i \in 1..n : i \in 1..Len(l)
    BY <2>1, <2>3
  <2> QED BY <2>1, <2>2, <2>3, <2>4
<1>3. SubSeq(k, 1, n) = SubSeq(l, 1, n)
  BY <1>2
<1>4. PICK T, q : /\ T = OwnPositions(s, n)
                  /\ q = [i \in 1..n |-> [complete |-> TRUE, record |-> Rec(s, i, log[s][i])]]
  OBVIOUS
<1>5. OwnPositions(s, n)' = T
  BY <1>1, <1>2, <1>4 DEF OwnPositions
<1>6. [i \in 1..n |-> [complete |-> TRUE, record |-> Rec(s, i, log'[s][i])]] = q
  BY <1>1, <1>2, <1>4
<1>7. History(s, n) = Reconstruct(SubSeq(l, 1, n)) \o Those(q, T)
  BY <1>1, <1>4 DEF History, OwnPositions
<1>8. History(s, n)' = Reconstruct(SubSeq(k, 1, n)) \o Those(q, T)
  BY <1>1, <1>5, <1>6 DEF History, OwnPositions
<1>9. History(s, n)' = History(s, n)
  BY <1>3, <1>7, <1>8, Zenon
<1>10. n \in 0..Len(log'[s]) /\ SubSeq(log'[s], 1, n) = SubSeq(log[s], 1, n)
  BY <1>1, <1>2, <1>3
<1> QED
  BY <1>9, <1>10

\* A session whose log stands, or gets an event of its own.
LEMMA LineageStays ==
  ASSUME EvidenceInv, LineageInv, LogsOK', LogsGrow, NEW s \in Sessions,
         parent'[s] = parent[s], base'[s] = base[s],
         \/ log'[s] = log[s]
         \/ \E e \in Evidences : e.kind \notin Inherited /\ log'[s] = Append(log[s], e)
  PROVE  /\ LineageOf(s)' /\ (Born(s) => \E b : InheritsFirst(s, b)')
         /\ \A n \in 0..Len(log[s]) : OwnAfter(s, n) => OwnAfter(s, n)'
<1>1. PICK l, k : l = log[s] /\ k = log'[s]
  OBVIOUS
<1>2. /\ l \in Seq(Evidences) /\ k \in Seq(Evidences) /\ Len(l) \in Nat /\ Len(k) \in Nat /\ Len(l) <= Len(k)
      /\ (\A i \in 1..Len(l) : k[i] = l[i]) /\ \A i \in (Len(l) + 1)..Len(k) : k[i].kind \notin Inherited
  <2>1. l \in Seq(Evidences) /\ k \in Seq(Evidences)
    BY <1>1 DEF EvidenceInv, LogsOK
  <2>2. k = l \/ \E e \in Evidences : e.kind \notin Inherited /\ k = Append(l, e)
    BY <1>1
  <2> QED BY <2>1, <2>2
<1>3. LineageOf(s)'
  <2> SUFFICES ASSUME parent[s] # Absent, NEW who \in Participants \cup {Evaluator}
               PROVE  Told(who, log'[s], History(parent[s], base[s].cursor)')
    BY DEF LineageOf
  <2>1. PICK p, n, h : p = parent[s] /\ n = base[s].cursor /\ h = History(p, n)
    OBVIOUS
  <2>2. p \in Sessions /\ n \in 0..Len(log[p])
    <3>1. p \in Sessions /\ base[s] \in checkpoints /\ base[s].session = p
      BY <2>1 DEF EvidenceInv, RowsOK
    <3>2. n \in Nat /\ n <= Len(log[p])
      BY <2>1, <3>1 DEF EvidenceInv, RowsOK, Cuts
    <3>3. Len(log[p]) \in Nat
      BY <3>1 DEF EvidenceInv, LogsOK
    <3> QED BY <3>1, <3>2, <3>3
  <2>3. History(p, n)' = h
    BY <2>1, <2>2, HistoryStays DEF EvidenceInv
  <2>4. Told(who, l, h)
    BY <1>1, <2>1 DEF LineageInv, LineageOf
  <2>5. Told(who, k, h)
    <3>1. CASE k = l
      BY <2>4, <3>1
    <3>2. CASE \E e \in Evidences : e.kind \notin Inherited /\ k = Append(l, e)
      BY <1>2, <2>4, <3>2, ToldStays
    <3> QED BY <1>1, <3>1, <3>2
  <2> QED BY <1>1, <2>1, <2>3, <2>5
<1>4. ASSUME Born(s) PROVE \E b : InheritsFirst(s, b)'
  <2>1. PICK b : InheritsFirst(s, b)
    BY <1>4 DEF LineageInv
  <2>2. b \in 0..Len(l) /\ b \in 0..Len(k) /\ b \in Nat
    BY <1>1, <1>2, <2>1 DEF InheritsFirst
  <2>3. SubSeq(k, 1, b) = SubSeq(l, 1, b)
    BY <1>1, <2>2, HistoryStays DEF EvidenceInv
  <2>4. ASSUME NEW i \in 1..b PROVE k[i].kind \in Inherited /\ k[i].record.session # s /\ Born(k[i].record.session)'
    <3>1. i \in 1..Len(l) /\ k[i] = l[i]
      BY <1>2, <2>2
    <3>2. l[i].kind \in Inherited /\ l[i].record.session # s /\ Born(l[i].record.session)
      BY <1>1, <2>1 DEF InheritsFirst
    <3>3. l[i].record.session \in Sessions
      <4>1. l[i] \in Evidences
        BY <1>2, <3>1
      <4>2. l[i] \in Wraps
        BY <3>2, <4>1 DEF Evidences, Originals, Kinds, Inherited
      <4> QED BY <4>2 DEF Wraps, Recs
    <3>4. PICK t : t = l[i].record.session
      OBVIOUS
    <3>5. Born(t)'
      BY <3>2, <3>3, <3>4, BornStays DEF EvidenceInv
    <3> QED BY <3>1, <3>2, <3>4, <3>5
  <2>5. ASSUME NEW i \in (b + 1)..Len(k) PROVE k[i].kind \notin Inherited
    <3>1. CASE i \in (b + 1)..Len(l)
      <4>1. i \in 1..Len(l)
        BY <2>2, <3>1
      <4> QED BY <1>1, <1>2, <2>1, <3>1, <4>1 DEF InheritsFirst
    <3>2. CASE i \notin (b + 1)..Len(l)
      <4>1. i \in (Len(l) + 1)..Len(k)
        BY <1>2, <2>2, <3>2
      <4> QED BY <1>2, <4>1
    <3> QED BY <3>1, <3>2
  <2>6. \A who \in Participants \cup {Evaluator} : Told(who, SubSeq(k, 1, b), Reconstruct(SubSeq(k, 1, b)))
    BY <1>1, <2>1, <2>3 DEF InheritsFirst
  <2>7. InheritsFirst(s, b)'
    BY <1>1, <2>2, <2>4, <2>5, <2>6 DEF InheritsFirst
  <2> QED BY <2>7
<1>5. ASSUME NEW n \in 0..Len(log[s]), OwnAfter(s, n) PROVE OwnAfter(s, n)'
  <2> SUFFICES ASSUME NEW i \in (n + 1)..Len(k) PROVE k[i].kind \notin Inherited
    BY <1>1 DEF OwnAfter
  <2>1. CASE i \in 1..Len(l)
    <3>1. i \in (n + 1)..Len(l)
      BY <1>1, <1>2, <2>1
    <3> QED BY <1>1, <1>2, <1>5, <2>1, <3>1 DEF OwnAfter
  <2>2. CASE i \notin 1..Len(l)
    <3>1. i \in (Len(l) + 1)..Len(k)
      BY <1>1, <1>2, <2>2
    <3> QED BY <1>2, <3>1
  <2> QED BY <2>1, <2>2
<1> QED
  BY <1>3, <1>4, <1>5

LEMMA CutsAreOwn ==
  ASSUME EvidenceInv, NEW cp \in checkpoints
  PROVE  cp.session \in Sessions /\ Born(cp.session) /\ cp.cursor \in 0..Len(log[cp.session])
<1>1. cp \in Cuts /\ Born(cp.session) /\ cp.cursor <= Len(log[cp.session])
  BY DEF EvidenceInv, RowsOK
<1>2. cp.session \in Sessions /\ cp.cursor \in Nat
  BY <1>1 DEF Cuts
<1>3. Len(log[cp.session]) \in Nat
  BY <1>2 DEF EvidenceInv, LogsOK
<1> QED
  BY <1>1, <1>2, <1>3

LEMMA LineageAppends ==
  ASSUME EvidenceInv, LineageInv, LogsOK', LogsGrow, NEW s \in Sessions, Born(s),
         NEW e \in Evidences, e.kind \notin Inherited, Appended(s, e), parent' = parent, base' = base,
         \A cp \in checkpoints' : cp \in checkpoints \/ (cp.session = s /\ cp.cursor = Len(log[s]))
  PROVE  LineageInv'
<1>1. \A t \in Sessions : log'[t] = log[t] \/ (t = s /\ log'[t] = Append(log[t], e))
  BY DEF Appended, EvidenceInv, LogsOK
<1>2. ASSUME NEW t \in Sessions
      PROVE  /\ LineageOf(t)' /\ (Born(t) => \E b : InheritsFirst(t, b)')
             /\ \A n \in 0..Len(log[t]) : OwnAfter(t, n) => OwnAfter(t, n)'
  <2>1. \/ log'[t] = log[t]
        \/ \E d \in Evidences : d.kind \notin Inherited /\ log'[t] = Append(log[t], d)
    BY <1>1
  <2> QED BY <2>1, LineageStays
<1>3. ASSUME NEW t \in Sessions, Born(t)' PROVE \E b : InheritsFirst(t, b)'
  <2>1. Born(t)
    BY <1>1, <1>3 DEF Born
  <2> QED BY <1>2, <2>1
<1>4. ASSUME NEW cp \in checkpoints' PROVE OwnAfter(cp.session, cp.cursor)'
  <2>1. PICK t, n : t = cp.session /\ n = cp.cursor
    OBVIOUS
  <2>2. t \in Sessions /\ n \in 0..Len(log[t]) /\ OwnAfter(t, n)
    <3>1. CASE cp \in checkpoints
      BY <2>1, <3>1, CutsAreOwn DEF LineageInv
    <3>2. CASE cp \notin checkpoints
      <4>1. t = s /\ n = Len(log[s]) /\ Len(log[s]) \in Nat
        BY <2>1, <3>2 DEF EvidenceInv, LogsOK
      <4>2. (n + 1)..Len(log[t]) = {}
        BY <4>1
      <4> QED BY <4>1, <4>2 DEF OwnAfter
    <3> QED BY <3>1, <3>2
  <2>3. OwnAfter(t, n)'
    BY <1>2, <2>2
  <2>4. OwnAfter(cp.session, cp.cursor)' <=> OwnAfter(t, n)'
    BY <2>1 DEF OwnAfter
  <2> QED BY <2>3, <2>4
<1> QED
  BY <1>2, <1>3, <1>4 DEF LineageInv

LEMMA LineageInvBranches ==
  ASSUME EvidenceInv, LineageInv, NEW s \in Sessions, NEW cp \in checkpoints, NEW c \in Sessions, Branch(s, cp, c)
  PROVE  LineageInv'
<1>1. LogsOK' /\ LogsGrow /\ log'[c] = ChildLog(s, cp) /\ c # s /\ \A t \in Sessions \ {c} : log'[t] = log[t]
  BY BranchLogs
<1>2. PICK n : n = cp.cursor
  OBVIOUS
<1>3. /\ LogsOK /\ cp.session = s /\ Born(s) /\ ~Born(c) /\ n \in 0..Len(log[s])
      /\ parent' = [parent EXCEPT ![c] = s] /\ base' = [base EXCEPT ![c] = cp] /\ checkpoints' = checkpoints
  BY <1>2, CutsAreOwn DEF EvidenceInv, Branch
<1>4. PICK b : InheritsFirst(s, b)
  BY <1>3 DEF LineageInv
<1>5. n \in Nat /\ b \in Nat /\ b <= n
  <2>1. b \in 0..Len(log[s]) /\ Len(log[s]) \in Nat
    BY <1>4 DEF InheritsFirst, EvidenceInv, LogsOK
  <2>2. ASSUME n < b PROVE FALSE
    <3>1. b \in 1..b /\ b \in (n + 1)..Len(log[s])
      BY <1>3, <2>1, <2>2
    <3>2. log[s][b].kind \in Inherited
      BY <1>4, <3>1 DEF InheritsFirst
    <3>3. OwnAfter(s, n)
      BY <1>2, <1>3 DEF LineageInv
    <3> QED BY <3>1, <3>2, <3>3 DEF OwnAfter
  <2> QED BY <1>3, <2>1, <2>2
<1>6. PICK f, x, h : f = Bequeathed(s, n) /\ x = Event("session.branched", Plain, Absent) /\ h = History(s, n)
  OBVIOUS
<1>7. f \in Seq(Older(s, n)) /\ h \in Seq(FoundRecords) /\ \A who \in Participants \cup {Evaluator} : Told(who, f, h)
  BY <1>3, <1>4, <1>5, <1>6, ChildTold, HistoryTyped
<1>8. f \in Seq(Evidences) /\ Len(f) \in Nat
  <2>1. Older(s, n) \subseteq Evidences
    BY DEF Older, Evidences
  <2> QED BY <1>7, <2>1, SeqMonotonic
<1>9. x \in Evidences /\ x.kind \notin Inherited
  <2>1. x \in Evidences
    BY <1>6, EventTyped DEF Plain, Kinds, Named
  <2> QED BY <1>6, <2>1 DEF Event, Inherited
<1>10. PICK k : k = log'[c]
  OBVIOUS
<1>11. k = Append(f, x)
  <2>1. k = f \o <<x>>
    BY <1>1, <1>2, <1>6, <1>10 DEF ChildLog, Bequeathed
  <2> QED BY <1>8, <1>9, <2>1
<1>12. LineageOf(c)'
  <2>1. parent'[c] = s /\ base'[c] = cp
    BY <1>3 DEF EvidenceInv, RowsOK
  <2>2. History(s, n)' = h
    BY <1>1, <1>3, <1>6, HistoryStays
  <2>3. ASSUME NEW who \in Participants \cup {Evaluator} PROVE Told(who, k, h)
    BY <1>7, <1>8, <1>9, <1>11, ToldStays
  <2> QED BY <1>2, <1>10, <2>1, <2>2, <2>3 DEF LineageOf
<1>13. PICK m : m = Len(f)
  OBVIOUS
<1>14. InheritsFirst(c, m)'
  <2>1. m \in Nat /\ Len(k) = m + 1 /\ k[m + 1] = x /\ (\A i \in 1..m : k[i] = f[i] /\ f[i] \in Older(s, n))
    BY <1>7, <1>8, <1>9, <1>11, <1>13
  <2>2. ASSUME NEW i \in 1..m PROVE k[i].kind \in Inherited /\ k[i].record.session # c /\ Born(k[i].record.session)'
    <3>1. PICK t : t = k[i].record.session
      OBVIOUS
    <3>2. k[i].kind \in Inherited /\ Born(t) /\ t \in Sessions
      BY <2>1, <3>1 DEF Older, Wraps, Recs
    <3>3. Born(t)'
      BY <1>1, <1>3, <3>2, BornStays
    <3> QED BY <1>3, <3>1, <3>2, <3>3
  <2>3. \A i \in (m + 1)..(m + 1) : k[i].kind \notin Inherited
    BY <1>9, <2>1
  <2>4. SubSeq(k, 1, m) = f
    <3>1. SubSeq(k, 1, m) \in Seq(Evidences) /\ Len(SubSeq(k, 1, m)) = m /\ \A i \in 1..m : SubSeq(k, 1, m)[i] = k[i]
      <4>1. k \in Seq(Evidences) /\ m <= Len(k)
        BY <1>8, <1>9, <1>11, <2>1
      <4>2. \A i \in 1..m : k[i] \in Evidences
        BY <2>1, <4>1
      <4> QED BY <2>1, <4>1, <4>2
    <3>2. PICK d : d = SubSeq(k, 1, m)
      OBVIOUS
    <3>3. d = f
      BY <1>8, <1>13, <2>1, <3>1, <3>2, SeqEqual
    <3> QED BY <3>2, <3>3
  <2>5. Reconstruct(f) = h
    BY <1>7, <1>8, EvaluatorTold
  <2>6. \A who \in Participants \cup {Evaluator} : Told(who, SubSeq(k, 1, m), Reconstruct(SubSeq(k, 1, m)))
    BY <1>7, <2>4, <2>5
  <2>7. m \in 0..Len(k)
    BY <2>1
  <2> QED BY <1>10, <2>1, <2>2, <2>3, <2>6, <2>7 DEF InheritsFirst
<1>15. ASSUME NEW t \in Sessions \ {c}
       PROVE  /\ LineageOf(t)' /\ (Born(t) => \E i : InheritsFirst(t, i)')
              /\ \A i \in 0..Len(log[t]) : OwnAfter(t, i) => OwnAfter(t, i)'
  <2>1. log'[t] = log[t] /\ parent'[t] = parent[t] /\ base'[t] = base[t]
    BY <1>1, <1>3
  <2> QED BY <1>1, <2>1, LineageStays
<1>16. ASSUME NEW t \in Sessions, Born(t)' PROVE \E i : InheritsFirst(t, i)'
  <2>1. CASE t = c
    BY <1>14, <2>1
  <2>2. CASE t # c
    <3>1. Born(t)
      BY <1>1, <1>16, <2>2 DEF Born
    <3> QED BY <1>15, <2>2, <3>1
  <2> QED BY <2>1, <2>2
<1>17. ASSUME NEW p \in checkpoints' PROVE OwnAfter(p.session, p.cursor)'
  <2>1. PICK t, i : t = p.session /\ i = p.cursor
    OBVIOUS
  <2>2. t \in Sessions /\ t # c /\ i \in 0..Len(log[t]) /\ OwnAfter(t, i)
    BY <1>3, <2>1, CutsAreOwn DEF LineageInv
  <2>3. OwnAfter(t, i)'
    BY <1>15, <2>2
  <2>4. OwnAfter(p.session, p.cursor)' <=> OwnAfter(t, i)'
    BY <2>1 DEF OwnAfter
  <2> QED BY <2>3, <2>4
<1> QED
  BY <1>12, <1>15, <1>16, <1>17 DEF LineageInv

LEMMA LineageStands ==
  ASSUME EvidenceInv, LineageInv, UNCHANGED <<log, parent, base, checkpoints>>
  PROVE  LineageInv'
<1>1. LogsOK' /\ LogsGrow
  BY LogsStay DEF EvidenceInv, LogsOK
<1>2. ASSUME NEW s \in Sessions
      PROVE  /\ LineageOf(s)' /\ (Born(s) => \E b : InheritsFirst(s, b)')
             /\ \A n \in 0..Len(log[s]) : OwnAfter(s, n) => OwnAfter(s, n)'
  BY <1>1, LineageStays
<1>3. \A s \in Sessions : Born(s)' => Born(s)
  BY DEF Born
<1>4. ASSUME NEW cp \in checkpoints PROVE OwnAfter(cp.session, cp.cursor)'
  BY <1>2, CutsAreOwn DEF LineageInv, OwnAfter
<1> QED
  BY <1>2, <1>3, <1>4 DEF LineageInv

LEMMA LineageInvInit == EvidenceInit => LineageInv
<1> SUFFICES ASSUME EvidenceInit PROVE LineageInv
  OBVIOUS
<1>1. EvidenceInv
  BY EvidenceInvInit
<1>2. PICK e : e = Event("session.created", Plain, Absent)
  OBVIOUS
<1>3. ASSUME NEW s \in Sessions, Born(s) PROVE InheritsFirst(s, 0)
  <2>1. log[s] = <<e>>
    BY <1>2, <1>3 DEF EvidenceInit, Born
  <2>2. Len(log[s]) = 1 /\ log[s][1] = e /\ e.kind \notin Inherited
    BY <1>2, <2>1 DEF Event, Inherited
  <2>3. PICK d : d = SubSeq(log[s], 1, 0)
    OBVIOUS
  <2>4. d = <<>>
    BY <2>1, <2>3
  <2>5. \A K : Kept(d, K) = <<>>
    <3> SUFFICES ASSUME NEW K PROVE Kept(d, K) = <<>>
      OBVIOUS
    <3>1. d \in Seq({})
      BY <2>4
    <3>2. Kept(d, K) \in Seq({} \cap K)
      BY <3>1, KeptTyped
    <3>3. PICK a : a = Kept(d, K)
      OBVIOUS
    <3>4. Len(a) = 0 /\ a \in Seq({})
      <4>1. a \in Seq({})
        BY <3>2, <3>3
      <4> QED BY <4>1
    <3> QED BY <3>3, <3>4, EmptySeq
  <2>6. Reconstruct(d) = <<>>
    <3>1. Starts(d) = {} /\ Cardinality(Starts(d)) = 0
      BY <2>4, FS_EmptySet DEF Starts
    <3>2. Reconstruct(d) \in Seq(FoundRecords)
      <4>1. d \in Seq(Evidences)
        BY <2>4
      <4> QED BY <4>1, ReconstructTyped
    <3>3. PICK a : a = Reconstruct(d)
      OBVIOUS
    <3>4. a = [n \in 1..0 |-> Found(d, Nth(Starts(d), n))]
      BY <3>1, <3>3 DEF Reconstruct
    <3>5. Len(a) = 0 /\ a \in Seq(FoundRecords)
      BY <3>2, <3>3, <3>4
    <3> QED BY <3>3, <3>5, EmptySeq
  <2>7. \A who : Told(who, d, Reconstruct(d))
    BY <2>4, <2>5, <2>6 DEF Told
  <2> QED BY <2>2, <2>3, <2>7 DEF InheritsFirst
<1>4. \A s \in Sessions : parent[s] = Absent
  BY DEF EvidenceInit
<1>5. checkpoints = {}
  BY DEF EvidenceInit
<1> QED
  BY <1>3, <1>4, <1>5 DEF LineageInv, LineageOf

LEMMA LineageInvNext == EvidenceInv /\ LineageInv /\ [EvidenceNext]_evidenceVars => LineageInv'
<1> SUFFICES ASSUME EvidenceInv, LineageInv, [EvidenceNext]_evidenceVars PROVE LineageInv'
  OBVIOUS
<1>1. ASSUME UNCHANGED <<log, parent, base, checkpoints>> PROVE LineageInv'
  BY <1>1, LineageStands
<1>2. ASSUME NEW s \in Sessions, BeginWrite(s) \/ Abort(s) PROVE LineageInv'
  BY <1>1, <1>2 DEF BeginWrite, Abort
<1>3. ASSUME NEW s \in Sessions, NEW k \in Kinds, NEW class, NEW about,
             Event(k, class, about) \in Evidences, Appended(s, Event(k, class, about)), open[s] # 0,
             LogsOK', LogsGrow, parent' = parent, base' = base,
             \A cp \in checkpoints' : cp \in checkpoints \/ (cp.session = s /\ cp.cursor = Len(log[s]))
      PROVE  LineageInv'
  <2>1. Event(k, class, about).kind \notin Inherited
    BY DEF Event, Kinds, Inherited
  <2>2. Born(s)
    BY <1>3 DEF EvidenceInv, OutboxOK
  <2>3. PICK e : e = Event(k, class, about)
    OBVIOUS
  <2> QED BY <1>3, <2>1, <2>2, <2>3, LineageAppends
<1>4. ASSUME NEW s \in Sessions, Checkpoint(s) PROVE LineageInv'
  <2>1. LogsOK' /\ LogsGrow
    BY <1>4, EvidenceInvCuts DEF EvidenceInv
  <2>2. Event("checkpoint.committed", Plain, Absent) \in Evidences
    BY EventTyped DEF Plain, Kinds, Named
  <2>3. \A cp \in checkpoints' : cp \in checkpoints \/ (cp.session = s /\ cp.cursor = Len(log[s]))
    BY <1>4 DEF Checkpoint
  <2> QED BY <1>3, <1>4, <2>1, <2>2, <2>3 DEF Checkpoint, Commits, Kinds
<1>5. ASSUME NEW s \in Sessions, NEW class \in Classes, Record(s, class) PROVE LineageInv'
  <2>1. LogsOK' /\ LogsGrow
    BY <1>5, EvidenceInvRecords DEF EvidenceInv
  <2>2. Event("event", class, Absent) \in Evidences
    <3>1. class.audience \in Named /\ class.large \in BOOLEAN
      BY ClassTyped
    <3>2. Event("event", class, Absent) \in Originals
      BY <3>1 DEF Event, Originals, Kinds
    <3> QED BY <3>2 DEF Evidences
  <2> QED BY <1>3, <1>5, <2>1, <2>2 DEF Record, Commits, Kinds
<1>6. ASSUME NEW s \in Sessions, NEW audience \in Audiences, StoreArtifact(s, audience) PROVE LineageInv'
  <2>1. LogsOK' /\ LogsGrow
    BY <1>6, EvidenceInvStores DEF EvidenceInv
  <2>2. PICK class, id : class = [Plain EXCEPT !.audience = audience] /\ id = [in |-> <<s>>, seq |-> Len(log[s]) + 1]
    OBVIOUS
  <2>3. Event("artifact", class, id) \in Evidences
    <3>1. class.audience = audience /\ class.large = FALSE
      BY <2>2 DEF Plain
    <3>2. audience \in Named
      BY EvidenceAssumption DEF Named
    <3>3. id \in Ids
      <4>1. Len(log[s]) + 1 \in Nat /\ <<s>> \in Seq(Sessions)
        BY DEF EvidenceInv, LogsOK
      <4> QED BY <2>2, <4>1 DEF Ids
    <3>4. Event("artifact", class, id) \in Originals
      BY <3>1, <3>2, <3>3 DEF Event, Originals, Kinds
    <3> QED BY <3>4 DEF Evidences
  <2>4. Appended(s, Event("artifact", class, id))
    BY <1>6, <2>2 DEF StoreArtifact
  <2> QED BY <1>3, <1>6, <2>1, <2>3, <2>4 DEF StoreArtifact, Commits, Kinds
<1>7. ASSUME NEW s \in Sessions, NEW cp \in checkpoints, NEW c \in Sessions, Branch(s, cp, c) PROVE LineageInv'
  BY <1>7, LineageInvBranches
<1>8. ASSUME NEW c, ClientDoes(c) PROVE LineageInv'
  BY <1>1, <1>8 DEF ClientDoes, written
<1>9. ASSUME NEW s \in Sessions, NEW who \in Participants \cup {Evaluator}, BeginReplay(s, who) PROVE LineageInv'
  BY <1>8, <1>9 DEF BeginReplay
<1>10. ASSUME NEW scope \in SUBSET Sessions, Follow(scope) PROVE LineageInv'
  BY <1>8, <1>10 DEF Follow
<1>11. ASSUME ReplayPage PROVE LineageInv'
  <2>1. \E c : ClientDoes(c)
    BY <1>11 DEF ReplayPage
  <2> QED BY <1>8, <2>1
<1>12. ASSUME FeedPage \/ OverviewRows \/ OverviewCursor \/ Leave PROVE LineageInv'
  BY <1>8, <1>12 DEF FeedPage, OverviewRows, OverviewCursor, Leave
<1>13. CASE UNCHANGED evidenceVars
  BY <1>1, <1>13 DEF evidenceVars, written
<1> QED
  BY <1>2, <1>4, <1>5, <1>6, <1>7, <1>9, <1>10, <1>11, <1>12, <1>13 DEF EvidenceNext

\* A branch tells every reader the history of its parent up to the checkpoint
\* exactly, and nothing the reader may not see, also through a branch of a
\* branch and through records that are inherited in chunks (history.py
\* reconstruct_inherited over what store.py events returns).
THEOREM BranchesInheritExactly == EvidenceSpec => []LineageIsExact
<1>1. EvidenceSpec => []LineageInv
  BY LineageInvInit, LineageInvNext, EvidenceInvAlways, PTL DEF EvidenceSpec
<1> QED
  BY <1>1, LineageInvTells, EvidenceInvAlways, PTL
==============================================================================
